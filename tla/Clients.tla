--------------------------------- MODULE Clients ---------------------------------
(****************************************************************************)
(* The aiobotocore clients aioboto3 opens for its caller, and who closes     *)
(* them:                                                                     *)
(*   - S3CSE with a KMSCryptoContext (src/aioboto3/s3/cse.py:230-332), which *)
(*     opens an S3 and a KMS client, in `async with` or in the first of the  *)
(*     calls that share it, get_object and put_object;                       *)
(*   - Session.resource and its ResourceCreatorContext                       *)
(*     (src/aioboto3/session.py:99-168, 224-265), which opens one client, of *)
(*     the API version of the resource model.                                *)
(*                                                                           *)
(* A client is known by its kind and by a number.  A step is what is done    *)
(* between two awaits.                                                       *)
(****************************************************************************)
EXTENDS Integers, FiniteSets, FiniteSetsExt

CONSTANTS
    Callers,   \* the tasks that call get_object and put_object
    Owner,     \* the task that has the `async with` block, or calls close
    Versions,  \* the versions of a service's API
    MaxCalls   \* bound: calls of each caller

ASSUME UsersAssumption == IsFiniteSet(Callers) /\ Owner \notin Callers
ASSUME VersionsAssumption == Versions \subseteq Nat \ {0}
ASSUME BoundsAssumption == MaxCalls \in Nat

VARIABLES
    object,      \* "cse" or "resource"
    managed,     \* it is used in an `async with` block
    models,      \* versions of the resource and the client models there are
    asked,       \* the api_version parameter, 0 for None
    version,     \* of the resource model, of the client asked for, and its own
    made,        \* clients made so far, of each kind
    attr,        \* the client each attribute refers to, 0 for None
    open,        \* the clients that are open
    pc,          \* what each user is doing
    call,        \* the call a caller makes
    result,      \* what its last call came to
    calls,       \* calls of each caller
    overlapped,  \* two setups have been under way at a time
    failed       \* what has raised

caller == <<call, result, calls>>
constant == <<object, managed, models, asked>>
clients == <<made, attr, open>>
vars == <<constant, version, clients, pc, caller, overlapped, failed>>

Users == Callers \cup {Owner}
Kinds == {"main", "kms"}  \* the S3 client or the resource's, and the KMS client
SettingUp == {"connecting", "keying", "loading"}
Closing == {"closing", "closing_kms"}

TypeOK ==
    /\ object \in {"cse", "resource"} /\ managed \in BOOLEAN
    /\ models \in [resource : SUBSET Versions, client : SUBSET Versions]
    /\ asked \in Versions \cup {0}
    /\ version \in [resource : Versions \cup {0}, api : Versions \cup {0},
                    client : Versions \cup {0}]
    /\ made \in [Kinds -> 0..Cardinality(Users)]
    /\ \A k \in Kinds : attr[k] \in 0..made[k]
    /\ open \subseteq {c \in Kinds \X (1..Cardinality(Users)) : c[2] <= made[c[1]]}
    /\ pc \in [Users -> {"idle", "first", "second", "entered", "left"} \cup SettingUp \cup Closing]
    /\ call \in [Callers -> {"get", "put"}]
    /\ result \in [Callers -> {"none", "done", "missing", "closed"}]
    /\ calls \in [Callers -> 0..MaxCalls]
    /\ overlapped \in BOOLEAN
    /\ failed \subseteq {"lookup"} \cup SettingUp \cup Closing

Init ==
    /\ \/ /\ object = "cse" /\ managed \in BOOLEAN
          /\ models = [resource |-> {}, client |-> {}] /\ asked = 0
       \/ /\ object = "resource" /\ managed = TRUE
          /\ models \in [resource : SUBSET Versions, client : SUBSET Versions]
          /\ asked \in Versions \cup {0}
    /\ version = [resource |-> 0, api |-> 0, client |-> 0]
    /\ made = [k \in Kinds |-> 0] /\ attr = made
    /\ open = {}
    /\ pc = [u \in Users |-> "idle"]
    /\ call = [t \in Callers |-> "get"]
    /\ result = [t \in Callers |-> "none"]
    /\ calls = [t \in Callers |-> 0]
    /\ overlapped = FALSE /\ failed = {}

Goes(u, to) == pc' = [pc EXCEPT ![u] = to]

\* An exception ends the call, or the block.
Raises(u) ==
    /\ failed' = failed \cup {pc[u]}
    /\ Goes(u, IF u = Owner THEN "left" ELSE "idle")

Opens(k) ==
    /\ made' = [made EXCEPT ![k] = @ + 1]
    /\ attr' = [attr EXCEPT ![k] = made'[k]]
    /\ open' = open \cup {<<k, made'[k]>>}

StartSetup(u) ==
    /\ Goes(u, "connecting")
    /\ overlapped' = (overlapped \/ \E v \in Users \ {u} : pc[v] \in SettingUp)

-----------------------------------------------------------------------------
(* S3CSE.setup and KMSCryptoContext.setup.                                   *)

Enter ==
    /\ object = "cse" /\ managed /\ pc[Owner] = "idle"
    /\ StartSetup(Owner)
    /\ UNCHANGED <<constant, version, clients, caller, failed>>

\* Mutant: the crypto context is not set up.
SetupS3Alone(u) ==
    /\ object = "cse" /\ pc[u] = "connecting"
    /\ Opens("main")
    /\ Goes(u, IF u = Owner THEN "entered" ELSE "first")
    /\ UNCHANGED <<constant, version, caller, overlapped, failed>>

SetupS3(u) ==
    /\ object = "cse" /\ pc[u] = "connecting"
    /\ Opens("main")
    /\ Goes(u, "keying")
    /\ UNCHANGED <<constant, version, caller, overlapped, failed>>

SetupKMS(u) ==
    /\ pc[u] = "keying"
    /\ Opens("kms")
    /\ Goes(u, IF u = Owner THEN "entered" ELSE "first")
    /\ UNCHANGED <<constant, version, caller, overlapped, failed>>

\* What is set up already stays.
SetupRaises(u) ==
    /\ object = "cse" /\ pc[u] \in SettingUp
    /\ Raises(u)
    /\ UNCHANGED <<constant, version, clients, caller, overlapped>>

-----------------------------------------------------------------------------
(* get_object of an encrypted object, and put_object.                        *)

\* Mutant: every call sets the clients up.
NeedsSetupAlways == TRUE

\* `if self._s3_client is None`
NeedsSetup == attr["main"] = 0

\* With a block, calls are made once it is entered, and perhaps after it.
StartCall(t) ==
    /\ object = "cse"
    /\ managed => attr["kms"] # 0
    /\ pc[t] = "idle" /\ calls[t] < MaxCalls
    /\ calls' = [calls EXCEPT ![t] = @ + 1]
    /\ \E c \in {"get", "put"} : call' = [call EXCEPT ![t] = c]
    /\ IF NeedsSetup THEN StartSetup(t) ELSE Goes(t, "first") /\ UNCHANGED overlapped
    /\ UNCHANGED <<constant, version, clients, result, failed>>

\* get_object asks S3 for the object and then KMS for its key, put_object the
\* other way round.
Needs(t) ==
    IF (call[t] = "get") = (pc[t] = "first") THEN "main" ELSE "kms"

CallEnds(t, what) == Goes(t, "idle") /\ result' = [result EXCEPT ![t] = what]

UseClient(t) ==
    /\ pc[t] \in {"first", "second"}
    /\ LET k == Needs(t)
       IN  \/ attr[k] = 0 /\ CallEnds(t, "missing")
           \/ attr[k] # 0 /\ <<k, attr[k]>> \notin open /\ CallEnds(t, "closed")
           \/ <<k, attr[k]>> \in open /\ pc[t] = "first" /\ Goes(t, "second") /\ UNCHANGED result
           \/ <<k, attr[k]>> \in open /\ pc[t] = "second" /\ CallEnds(t, "done")
    /\ UNCHANGED <<constant, version, clients, call, calls, overlapped, failed>>

-----------------------------------------------------------------------------
(* S3CSE.close and KMSCryptoContext.close.                                   *)

\* __aexit__, or a call of close.
StartClose ==
    /\ pc[Owner] = IF managed THEN "entered" ELSE "idle"
    /\ Goes(Owner, "closing")
    /\ UNCHANGED <<constant, version, clients, caller, overlapped, failed>>

\* Nothing to close if the attribute is None: AttributeError.
Close(k, from, to) ==
    /\ pc[Owner] = from /\ attr[k] # 0
    /\ open' = open \ {<<k, attr[k]>>}
    /\ Goes(Owner, to)
    /\ UNCHANGED <<constant, version, made, attr, caller, overlapped, failed>>

\* Mutant: the crypto context is left alone.
CloseS3Only == object = "cse" /\ Close("main", "closing", "left")

CloseS3 == object = "cse" /\ Close("main", "closing", "closing_kms")

CloseKMS == Close("kms", "closing_kms", "left")

\* The KMS client is not closed after the S3 client's close has raised.
CloseRaises ==
    /\ pc[Owner] \in Closing
    /\ Raises(Owner)
    /\ UNCHANGED <<constant, version, clients, caller, overlapped>>

-----------------------------------------------------------------------------
(* Session.resource and ResourceCreatorContext.                              *)

\* Mutant: None is handed on.
ApiVersionAsAsked(v) == asked

\* api_version, the version of the resource model if None was given.
ApiVersion(v) == IF asked = 0 THEN v ELSE asked

\* load_service_model takes the latest version for None.
Resource ==
    /\ object = "resource" /\ pc[Owner] = "idle"
    /\ \E v \in models.resource :
           /\ v = IF asked = 0 THEN Max(models.resource) ELSE asked
           /\ version' = [version EXCEPT !.resource = v, !.api = ApiVersion(v)]
    /\ StartSetup(Owner)
    /\ UNCHANGED <<constant, clients, caller, failed>>

\* ResourceNotExistsError, UnknownAPIVersionError
ResourceRaises ==
    /\ object = "resource" /\ pc[Owner] = "idle"
    /\ models.resource = {} \/ asked \notin models.resource \cup {0}
    /\ failed' = failed \cup {"lookup"}
    /\ Goes(Owner, "left")
    /\ UNCHANGED <<constant, version, clients, caller, overlapped>>

\* __aenter__: the client, of the version asked for or the latest there is.
EnterClient ==
    /\ object = "resource" /\ pc[Owner] = "connecting"
    /\ \E v \in models.client :
           /\ v = IF version.api = 0 THEN Max(models.client) ELSE version.api
           /\ version' = [version EXCEPT !.client = v]
    /\ Opens("main")
    /\ Goes(Owner, "loading")
    /\ UNCHANGED <<constant, caller, overlapped, failed>>

\* load_from_definition returns the class, after the events it awaits.
LoadClass ==
    /\ pc[Owner] = "loading"
    /\ Goes(Owner, "entered")
    /\ UNCHANGED <<constant, version, clients, caller, overlapped, failed>>

\* The client cannot be made, or an event handler raises: __aexit__ never runs.
EnterRaises ==
    /\ object = "resource" /\ pc[Owner] \in SettingUp
    /\ Raises(Owner)
    /\ UNCHANGED <<constant, version, clients, caller, overlapped>>

\* cls.__aexit__
ExitClient == object = "resource" /\ Close("main", "closing", "left")

-----------------------------------------------------------------------------
Next ==
    \/ Enter \/ StartClose \/ CloseS3 \/ CloseKMS \/ CloseRaises
    \/ Resource \/ ResourceRaises \/ EnterClient \/ LoadClass \/ EnterRaises \/ ExitClient
    \/ \E u \in Users : SetupS3(u) \/ SetupKMS(u) \/ SetupRaises(u)
    \/ \E t \in Callers : StartCall(t) \/ UseClient(t)

Spec == Init /\ [][Next]_vars

-----------------------------------------------------------------------------
(* Properties.                                                               *)

\* "Store the client instead of creating one every time" (cse.py:235): unless
\* two calls of an object that was not set up both set it up, an open client is
\* one an attribute refers to, so that close can reach it.  Once the block is
\* left, or close is over, it is only open because something raised: the first
\* client stays open if what follows it in the setup raises, and the KMS client
\* if the S3 client's close does.
ClientsAccountedFor ==
    ~overlapped =>
        \A c \in open :
            /\ attr[c[1]] = c[2]
            /\ pc[Owner] = "left" =>
                   failed \cap (IF c[1] = "main" THEN {"keying", "loading", "closing"}
                                                ELSE Closing) # {}

\* A call never misses the S3 client; it misses the KMS client, and raises, only
\* in an object used without a block, because another call's setup has got no
\* further than the S3 client or failed there; and it finds a client closed only
\* once the owner has begun to close.
CallFindsItsClients ==
    [][\A t \in Callers : pc[t] \in {"first", "second"} /\ pc'[t] = "idle" =>
           /\ result'[t] = "missing" =>
                  /\ ~managed /\ Needs(t) = "kms"
                  /\ "keying" \in failed \/ \E u \in Callers \ {t} : pc[u] = "keying"
           /\ result'[t] = "closed" => pc[Owner] \in Closing \cup {"left"}]_vars

\* "we're pairing a resource model with a client model of the same API version"
\* (session.py:136-143).
VersionsPaired ==
    object = "resource" /\ attr["main"] # 0 => version.client = version.resource

=============================================================================
