----------------------------- MODULE ResourceCache -----------------------------
(****************************************************************************)
(* The cached data of a resource, meta.data, shared by the tasks that use    *)
(* the resource: attributes load it when it is missing (property_loader,     *)
(* src/aioboto3/resources/factory.py:133-142), actions discard it (do_action,*)
(* 251-276), and load, which may be called directly too, is either the       *)
(* resource's own or, for an S3 bucket, bucket_load                          *)
(* (src/aioboto3/s3/inject.py:710-732), which looks the bucket up in a       *)
(* listing, caches {} meanwhile, and leaves {} if it may not list.           *)
(*                                                                           *)
(* A step is what a task does between two awaits.  What an attribute is      *)
(* worth is told by the number of actions the service had carried out.       *)
(****************************************************************************)
EXTENDS Integers, FiniteSets

CONSTANTS
    Tasks,       \* the tasks that share the resource
    MaxActions,  \* bound: actions in all
    MaxReads,    \* bound: accesses and direct loads of each task
    None,        \* meta.data is None
    Empty,       \* meta.data is {}
    Denied,      \* list_buckets is answered AccessDenied
    Raised       \* a load raised

ASSUME BoundsAssumption == {MaxActions, MaxReads} \subseteq Nat
ASSUME DataAssumption ==
    /\ None # Empty /\ None # Denied /\ Empty # Denied
    /\ Raised \notin {None, Empty, Denied}
    /\ {None, Empty, Denied, Raised} \cap Nat = {}

VARIABLES
    bucket,      \* the resource is an S3 bucket
    listed,      \* list_buckets names it
    service,     \* actions the service has carried out
    acted,       \* actions asked for
    data,        \* meta.data
    call,        \* what each task is doing
    response,    \* what its last load was answered: None for a bucket not listed
    lookup,      \* what the last load to end was answered, or Raised
    value,       \* what its last access gave: Empty for the value None
    reads,       \* accesses and direct loads of each task
    overlapped,  \* the resource has been used during another task's call
    failed       \* a call has raised

vars == <<bucket, listed, service, acted, data, call, response, lookup, value,
          reads, overlapped, failed>>

Data == {None, Empty} \cup 0..MaxActions
NotFound == {None, Denied}
Answers == NotFound \cup 0..MaxActions

\* An attribute loads, or load is called directly; it is answered, or not yet.
Loading == {"loading", "loaded", "reloading", "reloaded"}
Answered == {"loaded", "reloaded"}
Calls == Loading \cup {"acting", "acted"}

TypeOK ==
    /\ bucket \in BOOLEAN /\ listed \in BOOLEAN
    /\ service \in 0..MaxActions /\ acted \in 0..MaxActions
    /\ data \in Data
    /\ data = Empty => bucket
    /\ call \in [Tasks -> {"idle"} \cup Calls]
    /\ response \in [Tasks -> Answers]
    /\ lookup \in Answers \cup {Raised}
    /\ value \in [Tasks -> Data]
    /\ reads \in [Tasks -> 0..MaxReads]
    /\ overlapped \in BOOLEAN /\ failed \in BOOLEAN

Init ==
    /\ bucket \in BOOLEAN /\ listed \in BOOLEAN
    /\ service = 0 /\ acted = 0
    /\ data = None
    /\ call = [t \in Tasks |-> "idle"]
    /\ response = [t \in Tasks |-> None]
    /\ lookup = None
    /\ value = [t \in Tasks |-> 0]
    /\ reads = [t \in Tasks |-> 0]
    /\ overlapped = FALSE /\ failed = FALSE

NoteOverlap(t) ==
    overlapped' = (overlapped \/ \E u \in Tasks \ {t} : call[u] # "idle")

Starts(t, what) == call' = [call EXCEPT ![t] = what] /\ NoteOverlap(t)

Ends(t) == call' = [call EXCEPT ![t] = "idle"]

-----------------------------------------------------------------------------
(* Attributes: property_loader and the two loads.                            *)

CachedValue(t) ==
    /\ call[t] = "idle" /\ reads[t] < MaxReads
    /\ data # None
    /\ value' = [value EXCEPT ![t] = data]
    /\ reads' = [reads EXCEPT ![t] = @ + 1]
    /\ NoteOverlap(t)
    /\ UNCHANGED <<bucket, listed, service, acted, data, call, response, lookup, failed>>

\* `self.meta.data = {}` of bucket_load comes before its await.
Loads(t, what) ==
    /\ call[t] = "idle" /\ reads[t] < MaxReads
    /\ Starts(t, what)
    /\ reads' = [reads EXCEPT ![t] = @ + 1]
    /\ data' = IF bucket THEN Empty ELSE data
    /\ UNCHANGED <<bucket, listed, service, acted, response, lookup, value, failed>>

StartLoad(t) == data = None /\ Loads(t, "loading")

\* load or reload, called by the user whatever is cached.
StartReload(t) == Loads(t, "reloading")

IsAnswered(t, answer) ==
    /\ call[t] \in {"loading", "reloading"}
    /\ call' = [call EXCEPT ![t] = IF @ = "loading" THEN "loaded" ELSE "reloaded"]
    /\ response' = [response EXCEPT ![t] = answer]
    /\ UNCHANGED <<bucket, listed, service, acted, data, lookup, value, reads,
                   overlapped, failed>>

\* The service reads what it has.
ServiceReads(t) == IsAnswered(t, IF bucket /\ ~listed THEN None ELSE service)

\* Of any error bucket_load lets this one pass.
ListingDenied(t) == bucket /\ IsAnswered(t, Denied)

\* Mutant: only missing data is stored.
StoreIfMissing(t) == data' = IF data = None THEN response[t] ELSE data

\* `self.meta.data = ...`, which bucket_load does not reach if the listing does
\* not name the bucket or is denied.
StoreLoaded(t) == data' = IF response[t] \in NotFound THEN data ELSE response[t]

LoadEnds(t) ==
    /\ StoreLoaded(t)
    /\ lookup' = response[t]
    /\ Ends(t)
    /\ UNCHANGED <<bucket, listed, service, acted, response, reads, overlapped, failed>>

\* The load is over and the attribute is looked up in the same step, in
\* whatever meta.data is then: None has no attributes and raises.
LoadReturns(t) ==
    /\ call[t] = "loaded"
    /\ LoadEnds(t)
    /\ value' = [value EXCEPT ![t] = data']

ReloadReturns(t) ==
    /\ call[t] = "reloaded"
    /\ LoadEnds(t)
    /\ UNCHANGED value

\* Any other error.  bucket_load leaves {} behind.
LoadRaises(t) ==
    /\ call[t] \in Loading
    /\ failed' = TRUE
    /\ lookup' = Raised
    /\ Ends(t)
    /\ UNCHANGED <<bucket, listed, service, acted, data, response, value, reads,
                   overlapped>>

-----------------------------------------------------------------------------
(* Actions: do_action.                                                       *)

StartAction(t) ==
    /\ call[t] = "idle" /\ acted < MaxActions
    /\ acted' = acted + 1
    /\ Starts(t, "acting")
    /\ UNCHANGED <<bucket, listed, service, data, response, lookup, value, reads, failed>>

\* An action of a bucket may create or delete it.
ServiceActs(t) ==
    /\ call[t] = "acting"
    /\ service' = service + 1
    /\ listed' \in IF bucket THEN BOOLEAN ELSE {listed}
    /\ call' = [call EXCEPT ![t] = "acted"]
    /\ UNCHANGED <<bucket, acted, data, response, lookup, value, reads, overlapped,
                   failed>>

\* Mutants: the cached data is kept; it is set to {}.
KeepData == UNCHANGED data
EmptyData == data' = Empty

\* `self.meta.data = None`
ClearData == data' = None

ActionReturns(t) ==
    /\ call[t] = "acted"
    /\ ClearData
    /\ Ends(t)
    /\ UNCHANGED <<bucket, listed, service, acted, response, lookup, value, reads,
                   overlapped, failed>>

\* Whether or not the service has acted, what is cached stays.
ActionRaises(t) ==
    /\ call[t] \in {"acting", "acted"}
    /\ failed' = TRUE
    /\ Ends(t)
    /\ UNCHANGED <<bucket, listed, service, acted, data, response, lookup, value,
                   reads, overlapped>>

-----------------------------------------------------------------------------
Call(t) == ServiceReads(t) \/ ListingDenied(t) \/ LoadReturns(t) \/ ReloadReturns(t)
           \/ LoadRaises(t) \/ ServiceActs(t) \/ ActionReturns(t) \/ ActionRaises(t)

Step(t) == CachedValue(t) \/ StartLoad(t) \/ StartReload(t) \/ StartAction(t) \/ Call(t)

Next == \E t \in Tasks : Step(t)

Spec == Init /\ [][Next]_vars

-----------------------------------------------------------------------------
(* Properties.                                                               *)

\* The step gives t the value of an attribute: at once or after a load.
Accesses(t) ==
    /\ call'[t] = "idle"
    /\ \/ reads'[t] # reads[t]
       \/ call[t] = "loaded" /\ lookup' # Raised

\* As long as calls neither overlap nor raise, an access gives what the service
\* has, and nothing for a bucket that is not listed or whose last look-up was
\* denied: no load survives the action after it, also if that creates or deletes
\* the bucket.
AccessIsFresh ==
    [][\A t \in Tasks : Accesses(t) /\ ~overlapped' /\ ~failed' =>
           value'[t] = IF bucket /\ (~listed \/ lookup' = Denied)
                       THEN Empty ELSE service]_vars

\* However calls overlap or raise, an access that finds no value is accounted
\* for.  One that loads gets what its own look-up found, if it found anything.
\* The only resource it can find no data for afterwards, which makes it raise,
\* is a bucket its look-up did not find, with another task's action in between.
\* One that loads nothing only finds {} for a bucket that is being looked up, or
\* whose last look-up did not find it, was denied or raised.
MissingExplained ==
    [][\A t \in Tasks : Accesses(t) =>
           /\ value'[t] \in {None, Empty} => bucket
           /\ value'[t] \in {None, Empty} /\ call[t] = "loaded" => response[t] \in NotFound
           /\ value'[t] = None => call[t] = "loaded" /\ overlapped
           /\ value'[t] = Empty /\ call[t] = "idle" =>
                  \/ lookup \in NotFound \cup {Raised}
                  \/ \E u \in Tasks : call[u] \in Loading]_vars

=============================================================================
