---------------------------- MODULE Clients_proofs ----------------------------
(****************************************************************************)
(* What holds of the clients of an S3CSE or of a resource for any number of  *)
(* tasks that share it, any number of calls and any versions of an API.      *)
(****************************************************************************)
EXTENDS Clients, FiniteSetTheorems, TLAPS

-----------------------------------------------------------------------------
(* The inductive invariant.                                                  *)

(* Every setup under way will make a client of each kind it has not made, at *)
(* most one for each user: no user sets the object up again once it has an   *)
(* S3 client.                                                                *)
Connecting == {u \in Users : pc[u] = "connecting"}
Preparing  == {u \in Users : pc[u] \in {"connecting", "keying"}}

CountInv ==
    /\ made["main"] + Cardinality(Connecting) <= Cardinality(Users)
    /\ made["kms"] + Cardinality(Preparing) <= Cardinality(Users)

(* How far setting up has come.                                              *)
SetupInv ==
    /\ attr = made
    /\ object = "resource" => managed /\ made["kms"] = 0
                                      /\ pc[Owner] \notin {"keying", "closing_kms"}
    /\ object = "cse" => pc[Owner] # "loading"
    /\ managed /\ made["kms"] = 0 => \A t \in Callers : pc[t] = "idle"
    /\ managed /\ pc[Owner] = "idle" => made["main"] = 0
    /\ ~managed => pc[Owner] \in {"idle", "left"} \cup Closing
    /\ made["main"] = 0 =>
         /\ made["kms"] = 0
         /\ \A u \in Users : pc[u] \notin {"keying", "loading", "first", "second",
                                           "entered", "closing_kms"}
    /\ object = "cse" /\ made["main"] # 0 /\ made["kms"] = 0 =>
         "keying" \in failed \/ \E u \in Users : pc[u] = "keying"
    /\ \A k \in Kinds : made[k] # 0 /\ <<k, made[k]>> \notin open =>
         pc[Owner] \in Closing \cup {"left"}

(* The version asked for is the one the resource model has.                  *)
VersionInv ==
    object = "resource" =>
        /\ pc[Owner] = "connecting" => version.api = version.resource /\ version.api # 0
        /\ VersionsPaired

(* What must have been raised for a client to stay open.                     *)
Excuse(k) == IF k = "main" THEN {"keying", "loading", "closing"} ELSE Closing

(* Without a second setup there is one client of each kind, and none of a    *)
(* kind is open, or can be opened any more, once the owner has closed it.    *)
AloneInv ==
    /\ \A u, v \in Users : pc[u] \in SettingUp /\ pc[v] \in SettingUp => u = v
    /\ \A u \in Users : /\ pc[u] = "connecting" => made["main"] = 0
                        /\ pc[u] = "keying" => made["kms"] = 0
    /\ \A k \in Kinds : made[k] <= 1
    /\ pc[Owner] = "closing_kms" => \A c \in open : c[1] # "main"
    /\ pc[Owner] = "left" =>
         \A k \in Kinds :
             \/ failed \cap Excuse(k) # {}
             \/ /\ \A c \in open : c[1] # k
                /\ made[k] >= 1 \/ (managed /\ made["kms"] = 0)

ClientsInv ==
    TypeOK /\ CountInv /\ SetupInv /\ VersionInv /\ (~overlapped => AloneInv)

-----------------------------------------------------------------------------
(* Sets of users.                                                            *)
LEMMA UserSets ==
  /\ IsFiniteSet(Users) /\ Cardinality(Users) \in Nat
  /\ \A S \in SUBSET Users : Cardinality(S) \in Nat /\ Cardinality(S) <= Cardinality(Users)
  /\ \A S \in SUBSET Users : \A u \in S : Cardinality(S \ {u}) = Cardinality(S) - 1
  /\ \A S, T \in SUBSET Users : S \subseteq T => Cardinality(S) <= Cardinality(T)
<1>1. IsFiniteSet(Users)
  <2>1. IsFiniteSet(Callers \cup {Owner})
    BY UsersAssumption, FS_AddElement
  <2> QED
    BY <2>1 DEF Users
<1>2. \A S \in SUBSET Users : IsFiniteSet(S)
  BY <1>1, FS_Subset
<1>3. \A S \in SUBSET Users : Cardinality(S) \in Nat
  BY <1>2, FS_CardinalityType
<1>4. \A S, T \in SUBSET Users : S \subseteq T => Cardinality(S) <= Cardinality(T)
  BY <1>2, FS_Subset
<1>5. \A S \in SUBSET Users : \A u \in S : Cardinality(S \ {u}) = Cardinality(S) - 1
  BY <1>2, FS_RemoveElement
<1> QED
  BY <1>1, <1>3, <1>4, <1>5

(* A client that is made is the one its attribute refers to from then on.    *)
LEMMA OpensOne ==
  ASSUME TypeOK, attr = made, NEW k \in Kinds, Opens(k)
  PROVE  /\ attr' = made'
         /\ made[k] \in Nat /\ made'[k] = made[k] + 1
         /\ \A j \in Kinds \ {k} : made'[j] = made[j]
         /\ made' \in [Kinds -> Nat]
         /\ open' = open \cup {<<k, made[k] + 1>>}
<1>1. made \in [Kinds -> Nat]
  BY UserSets DEF TypeOK
<1> QED
  BY <1>1 DEF Opens

(* What a step does to the clients: a setup starts while there is no S3      *)
(* client, one client is made, one is closed, or none is touched.            *)
LEMMA TypeStep ==
  ASSUME ClientsInv, [Next]_vars, CountInv'
  PROVE  TypeOK'
<1> USE DEF constant, caller, clients
<1>0. TypeOK /\ SetupInv
  BY DEF ClientsInv
<1> DEFINE N == Cardinality(Users)
           PC == {"idle", "first", "second", "entered", "left"} \cup SettingUp \cup Closing
           Typed ==
             /\ object' \in {"cse", "resource"} /\ managed' \in BOOLEAN
             /\ models' \in [resource : SUBSET Versions, client : SUBSET Versions]
             /\ asked' \in Versions \cup {0}
             /\ version' \in [resource : Versions \cup {0}, api : Versions \cup {0},
                              client : Versions \cup {0}]
             /\ pc' \in [Users -> PC]
             /\ call' \in [Callers -> {"get", "put"}]
             /\ result' \in [Callers -> {"none", "done", "missing", "closed"}]
             /\ calls' \in [Callers -> 0..MaxCalls]
             /\ overlapped' \in BOOLEAN
             /\ failed' \subseteq {"lookup"} \cup SettingUp \cup Closing
<1>1. \A u \in Users, to \in PC : Goes(u, to) => pc' \in [Users -> PC]
  BY <1>0 DEF Goes, TypeOK
<1>2. Owner \in Users /\ \A t \in Callers : t \in Users
  BY DEF Users
<1>3. Typed
  <2> USE DEF SettingUp, Closing
  <2>1. CASE Enter \/ StartClose \/ CloseS3 \/ CloseKMS \/ CloseRaises \/ ResourceRaises
             \/ EnterRaises \/ ExitClient \/ LoadClass
    BY <1>0, <1>1, <1>2, <2>1
       DEF Enter, StartClose, CloseS3, CloseKMS, CloseRaises, ResourceRaises, EnterRaises,
           ExitClient, LoadClass, Close, Raises, StartSetup, TypeOK
  <2>2. CASE Resource
    BY <1>0, <1>1, <1>2, <2>2 DEF Resource, ApiVersion, StartSetup, TypeOK
  <2>3. CASE EnterClient
    BY <1>0, <1>1, <1>2, <2>3 DEF EnterClient, Opens, TypeOK
  <2>4. ASSUME NEW u \in Users, SetupS3(u) \/ SetupKMS(u) \/ SetupRaises(u)
        PROVE  Typed
    BY <1>0, <1>1, <2>4 DEF SetupS3, SetupKMS, SetupRaises, Raises, Opens, TypeOK
  <2>5. ASSUME NEW t \in Callers, StartCall(t)
        PROVE  Typed
    <3>1. calls[t] + 1 \in 0..MaxCalls
      BY <1>0, <2>5, BoundsAssumption DEF StartCall, TypeOK
    <3>2. calls' \in [Callers -> 0..MaxCalls] /\ call' \in [Callers -> {"get", "put"}]
      BY <1>0, <2>5, <3>1 DEF StartCall, TypeOK
    <3>3. pc' \in [Users -> PC] /\ overlapped' \in BOOLEAN
      <4>1. CASE StartSetup(t)
        BY <1>0, <1>1, <1>2, <4>1 DEF StartSetup, TypeOK
      <4>2. CASE Goes(t, "first") /\ UNCHANGED overlapped
        BY <1>0, <1>1, <1>2, <4>2 DEF TypeOK
      <4> QED
        BY <2>5, <4>1, <4>2 DEF StartCall
    <3> QED
      BY <1>0, <2>5, <3>2, <3>3 DEF StartCall, TypeOK
  <2>6. ASSUME NEW t \in Callers, UseClient(t)
        PROVE  Typed
    BY <1>0, <1>1, <1>2, <2>6 DEF UseClient, CallEnds, TypeOK
  <2>7. CASE UNCHANGED vars
    BY <1>0, <2>7 DEF vars, TypeOK
  <2> QED
    BY <2>1, <2>2, <2>3, <2>4, <2>5, <2>6, <2>7 DEF Next
<1>4. /\ attr' = made' /\ made' \in [Kinds -> Nat]
      /\ \A c \in open' : \E k \in Kinds, n \in Nat \ {0} : c = <<k, n>> /\ n <= made'[k]
  <2>0. /\ made \in [Kinds -> Nat] /\ attr = made
        /\ \A c \in open : \E k \in Kinds, n \in Nat \ {0} : c = <<k, n>> /\ n <= made[k]
    BY <1>0, UserSets DEF TypeOK, SetupInv
  <2>1. ASSUME NEW k \in Kinds, Opens(k)
        PROVE  /\ attr' = made' /\ made' \in [Kinds -> Nat]
               /\ \A c \in open' : \E j \in Kinds, n \in Nat \ {0} : c = <<j, n>> /\ n <= made'[j]
    <3>1. /\ attr' = made' /\ made' \in [Kinds -> Nat]
          /\ made'[k] = made[k] + 1 /\ made[k] \in Nat
          /\ \A j \in Kinds \ {k} : made'[j] = made[j]
          /\ open' = open \cup {<<k, made[k] + 1>>}
      BY <1>0, <2>0, <2>1, OpensOne
    <3>2. \A j \in Kinds : made'[j] \in Nat /\ made[j] \in Nat /\ made[j] <= made'[j]
      BY <2>0, <3>1
    <3>3. ASSUME NEW c \in open
          PROVE  \E j \in Kinds, n \in Nat \ {0} : c = <<j, n>> /\ n <= made'[j]
      <4>1. PICK j \in Kinds, n \in Nat \ {0} : c = <<j, n>> /\ n <= made[j]
        BY <2>0
      <4>2. n <= made'[j]
        BY <3>2, <4>1
      <4> QED
        BY <4>1, <4>2
    <3>4. made[k] + 1 \in Nat \ {0} /\ made[k] + 1 <= made'[k]
      BY <3>1
    <3> QED
      BY <3>1, <3>3, <3>4
  <2>2. CASE UNCHANGED <<made, attr>> /\ open' \subseteq open
    BY <2>0, <2>2
  <2> QED
    BY <2>1, <2>2
       DEF Next, vars, Enter, StartClose, CloseS3, CloseKMS, CloseRaises, Resource, ResourceRaises,
           EnterClient, LoadClass, EnterRaises, ExitClient, Close, SetupS3, SetupKMS,
           SetupRaises, StartCall, UseClient, Kinds
<1>5. \A k \in Kinds : made'[k] <= N
  <2>1. Connecting' \in SUBSET Users /\ Preparing' \in SUBSET Users
    BY DEF Connecting, Preparing, Users
  <2>2. /\ Cardinality(Connecting') \in Nat /\ Cardinality(Preparing') \in Nat /\ N \in Nat
        /\ made'["main"] \in Nat /\ made'["kms"] \in Nat
    BY <1>4, <2>1, UserSets DEF Kinds
  <2>3. /\ made'["main"] + Cardinality(Connecting') <= N
        /\ made'["kms"] + Cardinality(Preparing') <= N
    BY DEF CountInv, Users
  <2> QED
    BY <2>2, <2>3 DEF Kinds
<1>6. /\ made' \in [Kinds -> 0..N] /\ \A k \in Kinds : attr'[k] \in 0..made'[k]
      /\ open' \subseteq {d \in Kinds \X (1..N) : d[2] <= made'[d[1]]}
  <2>1. N \in Nat
    BY UserSets
  <2>2. \A k \in Kinds : made'[k] \in 0..N
    BY <1>4, <1>5, <2>1
  <2>3. ASSUME NEW c \in open'
        PROVE  c \in {d \in Kinds \X (1..N) : d[2] <= made'[d[1]]}
    <3>1. PICK k \in Kinds, n \in Nat \ {0} : c = <<k, n>> /\ n <= made'[k]
      BY <1>4
    <3>2. n \in 1..N
      BY <2>1, <2>2, <3>1
    <3> QED
      BY <3>1, <3>2
  <2> QED
    BY <1>4, <2>2, <2>3
<1> QED
  BY <1>3, <1>6 DEF TypeOK, Users, Kinds, SettingUp, Closing

(* A setup under way is replaced by the client it makes.                     *)
LEMMA CountStep ==
  ASSUME ClientsInv, [Next]_vars
  PROVE  CountInv'
<1> USE DEF constant, caller, clients
<1> DEFINE N == Cardinality(Users)
<1>0. /\ TypeOK /\ SetupInv /\ CountInv
      /\ pc \in [Users -> {"idle", "first", "second", "entered", "left"} \cup SettingUp \cup Closing]
      /\ Owner \in Users /\ \A t \in Callers : t \in Users
  BY DEF ClientsInv, TypeOK, Users
<1>1. /\ Connecting \in SUBSET Users /\ Preparing \in SUBSET Users
      /\ Connecting' \in SUBSET Users /\ Preparing' \in SUBSET Users
  BY DEF Connecting, Preparing, Users
<1>2. /\ N \in Nat /\ made["main"] \in Nat /\ made["kms"] \in Nat
      /\ Cardinality(Connecting) \in Nat /\ Cardinality(Preparing) \in Nat
      /\ Cardinality(Connecting') \in Nat /\ Cardinality(Preparing') \in Nat
      /\ Cardinality(Connecting') <= N /\ Cardinality(Preparing') <= N
  BY <1>0, <1>1, UserSets DEF TypeOK, Kinds
<1>3. N' = N
  BY DEF Users
<1>4. CASE made' = made /\ Connecting' \subseteq Connecting /\ Preparing' \subseteq Preparing
  <2>1. /\ Cardinality(Connecting') <= Cardinality(Connecting)
        /\ Cardinality(Preparing') <= Cardinality(Preparing)
    BY <1>1, <1>4, UserSets
  <2> QED
    BY <1>0, <1>2, <1>3, <1>4, <2>1 DEF CountInv
<1>5. CASE made' = made /\ made["main"] = 0
  BY <1>0, <1>2, <1>3, <1>5 DEF SetupInv, CountInv
<1>6. ASSUME NEW u \in Users, SetupS3(u) \/ (EnterClient /\ u = Owner)
      PROVE  CountInv'
  <2>1. /\ pc[u] = "connecting" /\ Opens("main")
        /\ \E to \in {"keying", "loading"} : pc' = [pc EXCEPT ![u] = to]
    BY <1>6 DEF SetupS3, EnterClient, Goes
  <2>2. u \in Connecting /\ Connecting' = Connecting \ {u} /\ Preparing' \subseteq Preparing
    BY <1>0, <2>1 DEF Connecting, Preparing, Users
  <2>3. made'["main"] = made["main"] + 1 /\ made'["kms"] = made["kms"]
    BY <1>0, <2>1, OpensOne DEF SetupInv, Kinds
  <2>4. /\ Cardinality(Connecting') = Cardinality(Connecting) - 1
        /\ Cardinality(Preparing') <= Cardinality(Preparing)
    BY <1>1, <2>2, UserSets
  <2> QED
    BY <1>0, <1>2, <1>3, <2>3, <2>4 DEF CountInv
<1>7. ASSUME NEW u \in Users, SetupKMS(u)
      PROVE  CountInv'
  <2>1. /\ pc[u] = "keying" /\ Opens("kms")
        /\ \E to \in {"entered", "first"} : pc' = [pc EXCEPT ![u] = to]
    BY <1>7 DEF SetupKMS, Goes
  <2>2. u \in Preparing /\ Preparing' = Preparing \ {u} /\ Connecting' = Connecting
    BY <1>0, <2>1 DEF Connecting, Preparing, Users
  <2>3. made'["main"] = made["main"] /\ made'["kms"] = made["kms"] + 1
    BY <1>0, <2>1, OpensOne DEF SetupInv, Kinds
  <2>4. Cardinality(Preparing') = Cardinality(Preparing) - 1
    BY <1>1, <2>2, UserSets
  <2> QED
    BY <1>0, <1>2, <1>3, <2>2, <2>3, <2>4 DEF CountInv
<1>8. CASE Enter \/ Resource
  <2>1. made["main"] = 0 /\ made' = made
    <3>1. object = "resource" \/ managed
      BY <1>8 DEF Enter, Resource
    <3> QED
      BY <1>0, <1>8, <3>1 DEF Enter, Resource, SetupInv
  <2> QED
    BY <1>5, <2>1
<1>9. ASSUME NEW t \in Callers, StartCall(t)
      PROVE  CountInv'
  <2>1. made' = made
    BY <1>9 DEF StartCall
  <2>2. CASE NeedsSetup
    BY <1>0, <1>5, <2>1, <2>2 DEF NeedsSetup, SetupInv
  <2>3. CASE ~NeedsSetup
    <3>1. pc' = [pc EXCEPT ![t] = "first"]
      BY <1>9, <2>3 DEF StartCall, Goes
    <3>2. Connecting' \subseteq Connecting /\ Preparing' \subseteq Preparing
      BY <1>0, <3>1 DEF Connecting, Preparing, Users
    <3> QED
      BY <1>4, <2>1, <3>2
  <2> QED
    BY <2>2, <2>3
<1>10. ASSUME NEW u \in Users, NEW to, to \notin {"connecting", "keying"}, made' = made,
              pc' = [pc EXCEPT ![u] = to]
       PROVE  CountInv'
  <2>1. Connecting' \subseteq Connecting /\ Preparing' \subseteq Preparing
    BY <1>0, <1>10 DEF Connecting, Preparing, Users
  <2> QED
    BY <1>4, <1>10, <2>1
<1>11. CASE StartClose \/ CloseS3 \/ CloseKMS \/ CloseRaises \/ ResourceRaises \/ LoadClass
            \/ EnterRaises \/ ExitClient
  <2>1. made' = made /\ \E to \in {"closing", "closing_kms", "left", "entered"} :
                           pc' = [pc EXCEPT ![Owner] = to]
    BY <1>11 DEF StartClose, CloseS3, CloseKMS, CloseRaises, ResourceRaises, LoadClass,
                 EnterRaises, ExitClient, Close, Raises, Goes
  <2> QED
    BY <1>0, <1>10, <2>1
<1>12. ASSUME NEW u \in Users, SetupRaises(u)
       PROVE  CountInv'
  <2>1. made' = made /\ \E to \in {"left", "idle"} : pc' = [pc EXCEPT ![u] = to]
    BY <1>12 DEF SetupRaises, Raises, Goes
  <2> QED
    BY <1>0, <1>10, <2>1
<1>13. ASSUME NEW t \in Callers, UseClient(t)
       PROVE  CountInv'
  <2>1. made' = made /\ \E to \in {"second", "idle"} : pc' = [pc EXCEPT ![t] = to]
    BY <1>13 DEF UseClient, CallEnds, Goes
  <2> QED
    BY <1>0, <1>10, <2>1
<1>14. CASE UNCHANGED vars
  BY <1>4, <1>14 DEF vars, Connecting, Preparing, Users
<1> QED
  BY <1>0, <1>6, <1>7, <1>8, <1>9, <1>11, <1>12, <1>13, <1>14 DEF Next

(* Where the users are, and which clients that takes.                        *)
LEMMA SetupStep ==
  ASSUME ClientsInv, [Next]_vars
  PROVE  SetupInv'
<1> USE DEF constant, caller, clients
<1>0. /\ TypeOK /\ SetupInv /\ attr = made
      /\ pc \in [Users -> {"idle", "first", "second", "entered", "left"} \cup SettingUp \cup Closing]
      /\ Owner \in Users /\ \A t \in Callers : t \in Users /\ t # Owner
      /\ \A k \in Kinds : made[k] \in Nat
  BY UsersAssumption, UserSets DEF ClientsInv, TypeOK, SetupInv, Users
<1>a. Users' = Users /\ Callers' = Callers
  BY DEF Users
<1>1. ASSUME NEW u \in Users, object = "cse", managed \/ u # Owner,
             made["main"] = 0, UNCHANGED <<constant, clients, failed>>,
             pc[u] = "idle", pc' = [pc EXCEPT ![u] = "connecting"],
             managed => u = Owner
      PROVE  SetupInv'
  BY <1>0, <1>1 DEF SetupInv, Kinds, Closing, Users
<1>2. ASSUME NEW u \in Users, SetupS3(u)
      PROVE  SetupInv'
  <2>1. /\ object = "cse" /\ pc[u] = "connecting" /\ pc' = [pc EXCEPT ![u] = "keying"]
        /\ UNCHANGED <<constant, failed>>
    BY <1>2 DEF SetupS3, Goes
  <2>2. /\ attr' = made' /\ made'["main"] = made["main"] + 1 /\ made'["kms"] = made["kms"]
        /\ open' = open \cup {<<"main", made["main"] + 1>>}
    BY <1>0, <1>2, OpensOne DEF SetupS3, Kinds
  <2>3. made'["main"] # 0 /\ pc'[u] = "keying"
    BY <1>0, <2>1, <2>2 DEF Kinds
  <2>4. ~managed => pc'[Owner] \in {"idle", "left"} \cup Closing
    BY <1>0, <2>1 DEF SetupInv, Closing
  <2>5. managed /\ made'["kms"] = 0 => \A t \in Callers : pc'[t] = "idle"
    BY <1>0, <2>1, <2>2 DEF SetupInv
  <2>6. managed /\ pc'[Owner] = "idle" => FALSE
    <3>1. ASSUME managed, pc'[Owner] = "idle" PROVE FALSE
      <4>1. u # Owner /\ pc[Owner] = "idle"
        BY <1>0, <2>1, <3>1
      <4>2. made["kms"] = 0 /\ u \in Callers
        BY <1>0, <3>1, <4>1 DEF SetupInv, Users
      <4> QED
        BY <1>0, <2>1, <3>1, <4>2 DEF SetupInv
    <3> QED
      BY <3>1
  <2>7. \A k \in Kinds : made'[k] # 0 /\ <<k, made'[k]>> \notin open' =>
           pc'[Owner] \in Closing \cup {"left"}
    BY <1>0, <2>1, <2>2 DEF SetupInv, Kinds, Closing
  <2> QED
    BY <1>0, <1>a, <2>1, <2>2, <2>3, <2>4, <2>5, <2>6, <2>7 DEF SetupInv
<1>3. ASSUME NEW u \in Users, SetupKMS(u)
      PROVE  SetupInv'
  <2>1. /\ pc[u] = "keying" /\ pc' = [pc EXCEPT ![u] = IF u = Owner THEN "entered" ELSE "first"]
        /\ UNCHANGED <<constant, failed>>
    BY <1>3 DEF SetupKMS, Goes
  <2>2. /\ attr' = made' /\ made'["main"] = made["main"] /\ made'["kms"] = made["kms"] + 1
        /\ open' = open \cup {<<"kms", made["kms"] + 1>>}
    BY <1>0, <1>3, OpensOne DEF SetupKMS, Kinds
  <2>3. made["main"] # 0 /\ made'["kms"] # 0
    BY <1>0, <2>1, <2>2 DEF SetupInv, Kinds
  <2>4. object = "cse"
    <3>1. ASSUME object = "resource" PROVE FALSE
      BY <1>0, <2>1, <3>1 DEF SetupInv, Users
    <3> QED
      BY <1>0, <3>1 DEF TypeOK
  <2>5. managed /\ pc'[Owner] = "idle" => made'["main"] = 0
    BY <1>0, <2>1, <2>2 DEF SetupInv
  <2>6. ~managed => pc'[Owner] \in {"idle", "left"} \cup Closing
    BY <1>0, <2>1 DEF SetupInv, Closing
  <2>7. \A k \in Kinds : made'[k] # 0 /\ <<k, made'[k]>> \notin open' =>
           pc'[Owner] \in Closing \cup {"left"}
    BY <1>0, <2>1, <2>2 DEF SetupInv, Kinds, Closing
  <2> QED
    BY <1>0, <1>a, <2>1, <2>2, <2>3, <2>4, <2>5, <2>6, <2>7 DEF SetupInv
<1>4. CASE EnterClient
  <2>1. /\ object = "resource" /\ pc[Owner] = "connecting"
        /\ pc' = [pc EXCEPT ![Owner] = "loading"]
        /\ UNCHANGED <<constant, failed>>
    BY <1>4 DEF EnterClient, Goes
  <2>2. /\ attr' = made' /\ made'["main"] = made["main"] + 1 /\ made'["kms"] = made["kms"]
        /\ open' = open \cup {<<"main", made["main"] + 1>>}
    BY <1>0, <1>4, OpensOne DEF EnterClient, Kinds
  <2>3. made'["main"] # 0
    BY <1>0, <2>2 DEF Kinds
  <2> QED
    BY <1>0, <1>a, <2>1, <2>2, <2>3 DEF SetupInv, Kinds, Closing
<1>5. ASSUME NEW u \in Users, pc[u] \in SettingUp, Raises(u), UNCHANGED <<constant, clients>>
      PROVE  SetupInv'
  <2>1. /\ pc' = [pc EXCEPT ![u] = IF u = Owner THEN "left" ELSE "idle"]
        /\ failed' = failed \cup {pc[u]}
    BY <1>5 DEF Raises, Goes
  <2>2. pc'[u] \in {"left", "idle"} /\ \A v \in Users \ {u} : pc'[v] = pc[v]
    BY <1>0, <2>1
  <2>3. object = "cse" /\ made["main"] # 0 /\ made["kms"] = 0 =>
          "keying" \in failed' \/ \E v \in Users : pc'[v] = "keying"
    BY <1>0, <2>1, <2>2 DEF SetupInv
  <2>4. pc'[Owner] = "idle" => pc[Owner] = "idle"
    BY <1>0, <2>1
  <2>5. pc'[Owner] \in {pc[Owner], "left"}
    BY <1>0, <2>1
  <2>6. \A t \in Callers : pc[t] = "idle" => pc'[t] = "idle"
    BY <1>0, <2>1
  <2> QED
    BY <1>0, <1>a, <1>5, <2>2, <2>3, <2>4, <2>5, <2>6 DEF SetupInv
<1>6. ASSUME NEW from, NEW to, pc[Owner] = from, pc' = [pc EXCEPT ![Owner] = to],
             from \notin SettingUp, to \in {"left", "closing", "closing_kms"},
             to = "closing_kms" => made["main"] # 0 /\ object = "cse",
             UNCHANGED <<constant, made, attr>>, failed \subseteq failed'
      PROVE  SetupInv'
  <2>1. /\ pc'[Owner] = to /\ \A v \in Callers : pc'[v] = pc[v]
        /\ \A v \in Users : pc[v] = "keying" => pc'[v] = "keying"
    BY <1>0, <1>6 DEF Users, SettingUp
  <2>2. pc'[Owner] \in Closing \cup {"left"} /\ pc'[Owner] # "idle"
    BY <1>6, <2>1 DEF Closing
  <2> QED
    BY <1>0, <1>6, <1>a, <2>1, <2>2 DEF SetupInv, Users
<1>7. ASSUME NEW t \in Callers, NEW to \in {"first", "second", "idle"},
             pc' = [pc EXCEPT ![t] = to], pc[t] \in {"idle", "first", "second"},
             managed => made["kms"] # 0, made["main"] # 0,
             UNCHANGED <<constant, clients, failed>>
      PROVE  SetupInv'
  <2>1. /\ pc'[Owner] = pc[Owner]
        /\ \A v \in Users : pc[v] = "keying" => pc'[v] = "keying"
    BY <1>0, <1>7
  <2> QED
    BY <1>0, <1>7, <1>a, <2>1 DEF SetupInv
<1>8. CASE Enter \/ Resource
  <2>1. CASE Enter
    BY <1>0, <1>1, <2>1 DEF Enter, StartSetup, Goes, SetupInv
  <2>2. CASE Resource
    <3>1. /\ object = "resource" /\ pc[Owner] = "idle" /\ pc' = [pc EXCEPT ![Owner] = "connecting"]
          /\ UNCHANGED <<constant, clients, failed>>
      BY <2>2 DEF Resource, StartSetup, Goes
    <3> QED
      BY <1>0, <1>a, <3>1 DEF SetupInv, Kinds, Users
  <2> QED
    BY <1>8, <2>1, <2>2
<1>9. ASSUME NEW t \in Callers, StartCall(t)
      PROVE  SetupInv'
  <2>1. /\ object = "cse" /\ (managed => made["kms"] # 0) /\ pc[t] = "idle"
        /\ UNCHANGED <<constant, clients, failed>>
    BY <1>0, <1>9 DEF StartCall
  <2>2. CASE NeedsSetup
    <3>1. made["main"] = 0 /\ pc' = [pc EXCEPT ![t] = "connecting"]
      BY <1>0, <1>9, <2>2 DEF StartCall, NeedsSetup, StartSetup, Goes
    <3>2. ~managed
      BY <1>0, <2>1, <3>1 DEF SetupInv
    <3> QED
      BY <1>0, <1>1, <2>1, <3>1, <3>2
  <2>3. CASE ~NeedsSetup
    <3>1. made["main"] # 0 /\ pc' = [pc EXCEPT ![t] = "first"]
      BY <1>0, <1>9, <2>3 DEF StartCall, NeedsSetup, Goes
    <3> QED
      BY <1>7, <2>1, <3>1
  <2> QED
    BY <2>2, <2>3
<1>10. ASSUME NEW t \in Callers, UseClient(t)
       PROVE  SetupInv'
  <2>1. /\ pc[t] \in {"first", "second"} /\ UNCHANGED <<constant, clients, failed>>
        /\ \E to \in {"second", "idle"} : pc' = [pc EXCEPT ![t] = to]
    BY <1>10 DEF UseClient, CallEnds, Goes
  <2>2. (managed => made["kms"] # 0) /\ made["main"] # 0
    BY <1>0, <2>1 DEF SetupInv
  <2> QED
    BY <1>7, <2>1, <2>2
<1>11. CASE StartClose \/ CloseS3 \/ CloseKMS \/ CloseRaises \/ ResourceRaises \/ ExitClient
  <2>1. /\ pc[Owner] \notin SettingUp /\ UNCHANGED <<constant, made, attr>>
        /\ failed \subseteq failed'
        /\ \E to \in {"left", "closing", "closing_kms"} :
              /\ pc' = [pc EXCEPT ![Owner] = to]
              /\ to = "closing_kms" => made["main"] # 0 /\ object = "cse"
    BY <1>0, <1>11
       DEF StartClose, CloseS3, CloseKMS, CloseRaises, ResourceRaises, ExitClient, Close,
           Raises, Goes, SettingUp, Closing
  <2> QED
    BY <1>6, <2>1
<1>12. CASE LoadClass
  <2>1. /\ pc[Owner] = "loading" /\ pc' = [pc EXCEPT ![Owner] = "entered"]
        /\ UNCHANGED <<constant, clients, failed>>
    BY <1>12 DEF LoadClass, Goes
  <2> QED
    BY <1>0, <1>a, <2>1 DEF SetupInv, Users, Closing
<1>13. CASE EnterRaises \/ \E u \in Users : SetupRaises(u)
  BY <1>0, <1>5, <1>13 DEF EnterRaises, SetupRaises
<1>14. CASE UNCHANGED vars
  BY <1>0, <1>14, <1>a DEF vars, SetupInv
<1> QED
  BY <1>2, <1>3, <1>4, <1>8, <1>9, <1>10, <1>11, <1>12, <1>13, <1>14 DEF Next

(* The client is asked for in the version of the resource model, and made in *)
(* the version asked for.                                                    *)
LEMMA VersionStep ==
  ASSUME ClientsInv, [Next]_vars
  PROVE  VersionInv'
<1> USE DEF constant, caller, clients
<1>0. /\ TypeOK /\ SetupInv /\ VersionInv /\ attr = made
      /\ pc \in [Users -> {"idle", "first", "second", "entered", "left"} \cup SettingUp \cup Closing]
      /\ Owner \in Users /\ \A t \in Callers : t \in Users /\ t # Owner
  BY UsersAssumption DEF ClientsInv, TypeOK, SetupInv, Users
<1>1. CASE object = "cse"
  <2>1. object' = object
    BY DEF Next, vars, Enter, StartClose, CloseS3, CloseKMS, CloseRaises, Resource, ResourceRaises,
           EnterClient, LoadClass, EnterRaises, ExitClient, Close, SetupS3, SetupKMS,
           SetupRaises, StartCall, UseClient
  <2> QED
    BY <1>1, <2>1 DEF VersionInv
<1> SUFFICES ASSUME object = "resource" PROVE VersionInv'
  BY <1>0, <1>1 DEF TypeOK
<1>2. managed /\ made["kms"] = 0 /\ \A t \in Callers : pc[t] = "idle"
  BY <1>0 DEF SetupInv
<1>3. CASE Resource
  <2>1. PICK v \in models.resource :
           /\ v = IF asked = 0 THEN Max(models.resource) ELSE asked
           /\ version' = [version EXCEPT !.resource = v, !.api = ApiVersion(v)]
    BY <1>3 DEF Resource
  <2>2. v \in Nat \ {0}
    BY <1>0, VersionsAssumption DEF TypeOK
  <2>3. version'.resource = v /\ version'.api = v
    BY <1>0, <2>1, <2>2 DEF TypeOK, ApiVersion
  <2>4. attr'["main"] = 0
    BY <1>0, <1>2, <1>3 DEF Resource, SetupInv
  <2> QED
    BY <2>2, <2>3, <2>4 DEF VersionInv, VersionsPaired
<1>4. CASE EnterClient
  <2>1. /\ version.api = version.resource /\ version.api # 0
        /\ pc' = [pc EXCEPT ![Owner] = "loading"]
    BY <1>0, <1>4 DEF EnterClient, VersionInv, Goes
  <2>2. version' = [version EXCEPT !.client = version.api]
    BY <1>4, <2>1 DEF EnterClient
  <2>3. version'.client = version'.resource
    BY <1>0, <2>1, <2>2 DEF TypeOK
  <2>4. pc'[Owner] # "connecting"
    BY <1>0, <2>1
  <2> QED
    BY <2>3, <2>4 DEF VersionInv, VersionsPaired
<1>5. ASSUME NEW u \in Users
      PROVE  ~SetupS3(u) /\ ~SetupKMS(u) /\ ~SetupRaises(u)
  <2>1. pc[u] # "keying"
    BY <1>0, <1>2 DEF SetupInv, Users
  <2> QED
    BY <2>1 DEF SetupS3, SetupKMS, SetupRaises
<1>6. \A t \in Callers : ~StartCall(t) /\ ~UseClient(t)
  BY <1>2 DEF StartCall, UseClient
<1>7. CASE StartClose \/ CloseRaises \/ ResourceRaises \/ LoadClass \/ EnterRaises \/ ExitClient
  <2>1. /\ UNCHANGED <<object, version, attr>>
        /\ \E to \in {"closing", "left", "entered"} : pc' = [pc EXCEPT ![Owner] = to]
    BY <1>7 DEF StartClose, CloseRaises, ResourceRaises, LoadClass, EnterRaises, ExitClient, Close,
                Raises, Goes
  <2>2. pc'[Owner] # "connecting"
    BY <1>0, <2>1
  <2> QED
    BY <1>0, <2>1, <2>2 DEF VersionInv, VersionsPaired
<1>8. ~Enter /\ ~CloseS3 /\ ~CloseKMS
  BY <1>0 DEF Enter, CloseS3, CloseKMS, Close, SetupInv
<1>9. CASE UNCHANGED vars
  BY <1>0, <1>9 DEF vars, VersionInv, VersionsPaired
<1> QED
  BY <1>3, <1>4, <1>5, <1>6, <1>7, <1>8, <1>9 DEF Next

(* What a single setup, and a close, leave behind.                           *)
LEMMA AloneStep ==
  ASSUME ClientsInv, [Next]_vars, ~overlapped'
  PROVE  AloneInv'
<1> USE DEF constant, caller, clients
<1>0. /\ TypeOK /\ SetupInv /\ attr = made
      /\ pc \in [Users -> {"idle", "first", "second", "entered", "left"} \cup SettingUp \cup Closing]
      /\ Owner \in Users /\ \A t \in Callers : t \in Users /\ t # Owner
      /\ \A k \in Kinds : made[k] \in Nat
      /\ \A c \in open : c[1] \in Kinds /\ c = <<c[1], c[2]>> /\ c[2] \in Nat \ {0} /\ c[2] <= made[c[1]]
  BY UsersAssumption, UserSets DEF ClientsInv, TypeOK, SetupInv, Users
<1>a. Users' = Users /\ \A k \in Kinds : Excuse(k)' = Excuse(k)
  BY DEF Users, Excuse
<1>1. AloneInv
  <2>1. ~overlapped
    BY <1>0 DEF Next, vars, Enter, StartClose, CloseS3, CloseKMS, CloseRaises, Resource, ResourceRaises,
           EnterClient, LoadClass, EnterRaises, ExitClient, Close, SetupS3, SetupKMS,
           SetupRaises, StartCall, UseClient, StartSetup, TypeOK
  <2> QED
    BY <2>1 DEF ClientsInv
<1> DEFINE Left(k) ==
      \/ failed \cap Excuse(k) # {}
      \/ /\ \A c \in open : c[1] # k
         /\ made[k] >= 1 \/ (managed /\ made["kms"] = 0)
<1>b. pc[Owner] = "left" => Left("main") /\ Left("kms")
  BY <1>1 DEF AloneInv, Kinds
(* A setup starts. *)
<1>2. ASSUME NEW u \in Users, pc[u] = "idle", StartSetup(u), made["main"] = 0,
             managed => u = Owner, UNCHANGED <<constant, clients, failed>>
      PROVE  AloneInv'
  <2>1. /\ pc' = [pc EXCEPT ![u] = "connecting"]
        /\ \A v \in Users \ {u} : pc[v] \notin SettingUp
    BY <1>2 DEF StartSetup, Goes
  <2>2. made["kms"] = 0
    BY <1>0, <1>2 DEF SetupInv
  <2>3. /\ \A v, w \in Users : pc'[v] \in SettingUp /\ pc'[w] \in SettingUp => v = w
        /\ \A v \in Users : pc'[v] # "keying"
    BY <1>0, <2>1 DEF SettingUp
  <2>4. /\ pc'[Owner] = "closing_kms" => pc[Owner] = "closing_kms"
        /\ pc'[Owner] = "left" => pc[Owner] = "left"
    BY <1>0, <2>1
  <2> QED
    BY <1>0, <1>1, <1>2, <1>a, <2>2, <2>3, <2>4 DEF AloneInv
(* A client is made. *)
<1>3. ASSUME NEW u \in Users, NEW k \in Kinds, Opens(k),
             pc[u] = IF k = "main" THEN "connecting" ELSE "keying",
             NEW to \in {"keying", "loading", "entered", "first"},
             to = "keying" => k = "main",
             pc' = [pc EXCEPT ![u] = to], UNCHANGED <<constant, failed>>
      PROVE  AloneInv'
  <2>1. made[k] = 0
    BY <1>0, <1>1, <1>3 DEF AloneInv, Kinds
  <2>2. /\ attr' = made' /\ made'[k] = 1
        /\ \A j \in Kinds \ {k} : made'[j] = made[j]
        /\ open' = open \cup {<<k, 1>>}
    BY <1>0, <1>3, <2>1, OpensOne
  <2>3. \A v \in Users \ {u} : pc'[v] = pc[v] /\ pc[v] \notin SettingUp
    BY <1>0, <1>1, <1>3 DEF AloneInv, SettingUp
  <2>4. pc'[u] = to /\ pc'[u] # "connecting"
    BY <1>0, <1>3
  <2>5. \A v, w \in Users : pc'[v] \in SettingUp /\ pc'[w] \in SettingUp => v = w
    BY <2>3
  <2>6. \A v \in Users : /\ pc'[v] # "connecting"
                         /\ pc'[v] = "keying" => v = u /\ k = "main"
    BY <1>0, <1>3, <2>3, <2>4 DEF SettingUp
  <2>7. \A j \in Kinds : made'[j] <= 1
    BY <1>1, <2>2 DEF AloneInv
  <2>8. k = "main" => made["kms"] = 0
    BY <1>0, <2>1 DEF SetupInv
  <2>9. ASSUME pc'[Owner] = "closing_kms" PROVE \A c \in open' : c[1] # "main"
    <3>1. Owner # u /\ pc[Owner] = "closing_kms"
      BY <1>0, <1>3, <2>9
    <3>2. k # "main"
      BY <1>0, <2>1, <3>1 DEF SetupInv
    <3> QED
      BY <1>1, <2>2, <3>1, <3>2 DEF AloneInv
  <2>10. ASSUME pc'[Owner] = "left", NEW j \in Kinds
         PROVE  \/ failed' \cap Excuse(j) # {}
                \/ /\ \A c \in open' : c[1] # j
                   /\ made'[j] >= 1 \/ (managed' /\ made'["kms"] = 0)
    <3>1. Owner # u /\ pc[Owner] = "left" /\ u \in Callers
      BY <1>0, <1>3, <2>10 DEF Users
    <3>2. ~(managed /\ made["kms"] = 0)
      BY <1>0, <1>3, <3>1 DEF SetupInv
    <3>3. Left(j)
      BY <1>b, <3>1 DEF Kinds
    <3>4. CASE failed \cap Excuse(j) # {}
      BY <1>3, <3>4
    <3>5. CASE (\A c \in open : c[1] # j) /\ made[j] >= 1
      <4>1. j # k
        BY <2>1, <3>5
      <4> QED
        BY <2>2, <3>5, <4>1
    <3> QED
      BY <3>2, <3>3, <3>4, <3>5
  <2> QED
    BY <1>a, <2>2, <2>5, <2>6, <2>7, <2>8, <2>9, <2>10 DEF AloneInv, Kinds
(* A user is no longer setting up, or never was. *)
<1>4. ASSUME NEW u \in Users, NEW to, to \notin SettingUp, pc' = [pc EXCEPT ![u] = to],
             UNCHANGED <<constant, made>>, failed \subseteq failed', open' \subseteq open,
             u = Owner /\ to = "closing_kms" => \A c \in open' : c[1] # "main",
             u = Owner /\ to = "left" =>
               \A k \in Kinds : \/ failed' \cap Excuse(k) # {}
                                \/ /\ \A c \in open' : c[1] # k
                                   /\ made[k] >= 1 \/ (managed /\ made["kms"] = 0)
      PROVE  AloneInv'
  <2>1. \A v \in Users : pc'[v] = IF v = u THEN to ELSE pc[v]
    BY <1>0, <1>4
  <2>2. \A v \in Users : pc'[v] \in SettingUp => pc'[v] = pc[v]
    BY <1>4, <2>1
  <2>3. \A v, w \in Users : pc'[v] \in SettingUp /\ pc'[w] \in SettingUp => v = w
    BY <1>1, <2>2 DEF AloneInv
  <2>4. \A v \in Users : pc'[v] \in {"connecting", "keying"} => pc[v] = pc'[v]
    BY <2>2 DEF SettingUp
  <2>5. pc'[Owner] = "closing_kms" => \A c \in open' : c[1] # "main"
    BY <1>0, <1>1, <1>4, <2>1 DEF AloneInv
  <2>6. pc'[Owner] = "left" =>
           \A k \in Kinds : \/ failed' \cap Excuse(k) # {}
                            \/ /\ \A c \in open' : c[1] # k
                               /\ made[k] >= 1 \/ (managed /\ made["kms"] = 0)
    BY <1>0, <1>1, <1>4, <2>1 DEF AloneInv
  <2> QED
    BY <1>1, <1>4, <1>a, <2>3, <2>4, <2>5, <2>6 DEF AloneInv
<1>5. CASE Enter \/ Resource
  <2>1. /\ pc[Owner] = "idle" /\ StartSetup(Owner) /\ UNCHANGED <<constant, clients, failed>>
        /\ managed
    BY <1>0, <1>5 DEF Enter, Resource, SetupInv
  <2> QED
    BY <1>0, <1>2, <2>1 DEF SetupInv
<1>6. ASSUME NEW t \in Callers, StartCall(t)
      PROVE  AloneInv'
  <2>1. /\ (managed => made["kms"] # 0) /\ pc[t] = "idle"
        /\ UNCHANGED <<constant, clients, failed>>
    BY <1>0, <1>6 DEF StartCall
  <2>2. CASE NeedsSetup
    <3>1. made["main"] = 0 /\ StartSetup(t)
      BY <1>0, <1>6, <2>2 DEF StartCall, NeedsSetup
    <3> QED
      BY <1>0, <1>2, <2>1, <3>1 DEF SetupInv
  <2>3. CASE ~NeedsSetup
    <3>1. pc' = [pc EXCEPT ![t] = "first"]
      BY <1>6, <2>3 DEF StartCall, Goes
    <3> QED
      BY <1>0, <1>4, <2>1, <3>1 DEF SettingUp
  <2> QED
    BY <2>2, <2>3
<1>7. ASSUME NEW t \in Callers, UseClient(t)
      PROVE  AloneInv'
  <2>1. /\ UNCHANGED <<constant, clients, failed>>
        /\ \E to \in {"second", "idle"} : pc' = [pc EXCEPT ![t] = to]
    BY <1>7 DEF UseClient, CallEnds, Goes
  <2> QED
    BY <1>0, <1>4, <2>1 DEF SettingUp
<1>8. ASSUME NEW u \in Users, SetupS3(u)
      PROVE  AloneInv'
  BY <1>3, <1>8 DEF SetupS3, Goes, Kinds
<1>9. ASSUME NEW u \in Users, SetupKMS(u)
      PROVE  AloneInv'
  <2>1. PICK to \in {"entered", "first"} : pc' = [pc EXCEPT ![u] = to]
    BY <1>9 DEF SetupKMS, Goes
  <2> QED
    BY <1>3, <1>9, <2>1 DEF SetupKMS, Kinds
<1>10. CASE EnterClient
  BY <1>0, <1>3, <1>10 DEF EnterClient, Goes, Kinds
<1>11. ASSUME NEW u \in Users, pc[u] \in SettingUp, Raises(u), UNCHANGED <<constant, clients>>
       PROVE  AloneInv'
  <2>1. /\ pc' = [pc EXCEPT ![u] = IF u = Owner THEN "left" ELSE "idle"]
        /\ failed' = failed \cup {pc[u]}
    BY <1>11 DEF Raises, Goes
  <2>2. ASSUME u = Owner, NEW k \in Kinds
        PROVE  \/ failed' \cap Excuse(k) # {}
               \/ /\ \A c \in open' : c[1] # k
                  /\ made[k] >= 1 \/ (managed /\ made["kms"] = 0)
    <3>1. managed
      BY <1>0, <1>11, <2>2 DEF SetupInv, SettingUp, Closing
    <3>2. made["kms"] = 0
      BY <1>0, <1>1, <1>11, <2>2 DEF SetupInv, AloneInv, SettingUp, TypeOK
    <3>3. pc[Owner] = "connecting" => made["main"] = 0
      BY <1>0, <1>1 DEF AloneInv
    <3>4. pc[Owner] # "connecting" => pc[Owner] \in Excuse("main")
      BY <1>11, <2>2 DEF SettingUp, Excuse
    <3>5. \A c \in open : c[1] # "kms" /\ (pc[Owner] = "connecting" => c[1] # "main")
      BY <1>0, <3>2, <3>3
    <3> QED
      BY <1>11, <2>1, <2>2, <3>1, <3>2, <3>4, <3>5 DEF Kinds
  <2>3. PICK to \in {"left", "idle"} : pc' = [pc EXCEPT ![u] = to] /\ (u = Owner <=> to = "left")
    BY <2>1
  <2> QED
    BY <1>4, <1>11, <2>1, <2>2, <2>3 DEF SettingUp
<1>12. CASE StartClose \/ LoadClass
  <2>1. /\ UNCHANGED <<constant, clients, failed>>
        /\ \E to \in {"closing", "entered"} : pc' = [pc EXCEPT ![Owner] = to]
    BY <1>12 DEF StartClose, LoadClass, Goes
  <2> QED
    BY <1>0, <1>4, <2>1 DEF SettingUp
<1>13. \A k \in Kinds : attr[k] # 0 =>
          /\ made[k] >= 1 /\ attr[k] = 1
          /\ \A c \in open \ {<<k, attr[k]>>} : c[1] # k
  <2> SUFFICES ASSUME NEW k \in Kinds, attr[k] # 0
               PROVE  /\ made[k] >= 1 /\ attr[k] = 1
                      /\ \A c \in open \ {<<k, attr[k]>>} : c[1] # k
    OBVIOUS
  <2>1. made[k] \in Nat /\ made[k] # 0 /\ made[k] <= 1
    BY <1>0, <1>1 DEF AloneInv
  <2>2. made[k] = 1
    BY <2>1
  <2>3. \A c \in open : c[1] = k => c[2] = 1
    BY <1>0, <2>2
  <2> QED
    BY <1>0, <2>2, <2>3
<1>14. CASE CloseS3
  <2>1. /\ attr["main"] # 0 /\ open' = open \ {<<"main", attr["main"]>>}
        /\ pc' = [pc EXCEPT ![Owner] = "closing_kms"] /\ UNCHANGED <<constant, made, failed>>
    BY <1>14 DEF CloseS3, Close, Goes
  <2>2. \A c \in open' : c[1] # "main"
    BY <1>13, <2>1 DEF Kinds
  <2> QED
    BY <1>0, <1>4, <2>1, <2>2 DEF SettingUp
<1>15. CASE CloseKMS
  <2>1. /\ attr["kms"] # 0 /\ open' = open \ {<<"kms", attr["kms"]>>} /\ pc[Owner] = "closing_kms"
        /\ pc' = [pc EXCEPT ![Owner] = "left"] /\ UNCHANGED <<constant, made, failed>>
    BY <1>15 DEF CloseKMS, Close, Goes
  <2>2. \A c \in open' : c[1] # "main" /\ c[1] # "kms"
    BY <1>1, <1>13, <2>1 DEF Kinds, AloneInv
  <2>3. made["kms"] >= 1 /\ made["main"] >= 1
    <3>1. made["main"] # 0
      BY <1>0, <2>1 DEF SetupInv
    <3> QED
      BY <1>0, <1>13, <2>1, <3>1 DEF Kinds
  <2> QED
    BY <1>0, <1>4, <2>1, <2>2, <2>3 DEF SettingUp, Kinds
<1>16. CASE ExitClient
  <2>1. /\ attr["main"] # 0 /\ open' = open \ {<<"main", attr["main"]>>} /\ object = "resource"
        /\ pc' = [pc EXCEPT ![Owner] = "left"] /\ UNCHANGED <<constant, made, failed>>
    BY <1>16 DEF ExitClient, Close, Goes
  <2>2. managed /\ made["kms"] = 0
    BY <1>0, <2>1 DEF SetupInv
  <2>3. \A c \in open' : c[1] # "main" /\ c[1] # "kms"
    BY <1>0, <1>13, <2>1, <2>2 DEF Kinds
  <2>4. made["main"] >= 1
    BY <1>13, <2>1 DEF Kinds
  <2> QED
    BY <1>0, <1>4, <2>1, <2>2, <2>3, <2>4 DEF SettingUp, Kinds
<1>17. CASE CloseRaises
  <2>1. /\ pc[Owner] \in {"closing", "closing_kms"} /\ failed' = failed \cup {pc[Owner]}
        /\ pc' = [pc EXCEPT ![Owner] = "left"] /\ UNCHANGED <<constant, clients>>
    BY <1>17 DEF CloseRaises, Raises, Goes, Closing
  <2>2. failed' \cap Excuse("kms") # {}
    BY <2>1 DEF Excuse, Closing
  <2>3. CASE pc[Owner] = "closing"
    <3>1. failed' \cap Excuse("main") # {}
      BY <2>1, <2>3 DEF Excuse
    <3> QED
      BY <1>0, <1>4, <2>1, <2>2, <3>1 DEF SettingUp, Kinds
  <2>4. CASE pc[Owner] = "closing_kms"
    <3>1. (\A c \in open' : c[1] # "main") /\ made["main"] >= 1
      BY <1>0, <1>1, <2>1, <2>4 DEF SetupInv, AloneInv, Kinds
    <3> QED
      BY <1>0, <1>4, <2>1, <2>2, <3>1 DEF SettingUp, Kinds
  <2> QED
    BY <2>1, <2>3, <2>4
<1>18. CASE ResourceRaises
  <2>1. /\ pc[Owner] = "idle" /\ object = "resource" /\ failed \subseteq failed'
        /\ pc' = [pc EXCEPT ![Owner] = "left"] /\ UNCHANGED <<constant, clients>>
    BY <1>18 DEF ResourceRaises, Goes
  <2>2. managed /\ made["kms"] = 0 /\ made["main"] = 0
    BY <1>0, <2>1 DEF SetupInv
  <2>3. \A k \in Kinds : \A c \in open' : c[1] # k
    BY <1>0, <2>1, <2>2 DEF Kinds
  <2> QED
    BY <1>0, <1>4, <2>1, <2>2, <2>3 DEF SettingUp
<1>19. CASE EnterRaises \/ \E u \in Users : SetupRaises(u)
  BY <1>0, <1>11, <1>19 DEF EnterRaises, SetupRaises
<1>20. CASE UNCHANGED vars
  BY <1>1, <1>20, <1>a DEF vars, AloneInv
<1> QED
  BY <1>5, <1>6, <1>7, <1>8, <1>9, <1>10, <1>12, <1>14, <1>15, <1>16, <1>17, <1>18, <1>19, <1>20
     DEF Next

-----------------------------------------------------------------------------
(* In every reachable state the clients made and the setups under way are no *)
(* more than the users, and unless two setups overlapped there is at most    *)
(* one client of each kind.                                                  *)
THEOREM ClientsInvariant == Spec => []ClientsInv
<1>1. Init => ClientsInv
  <2> SUFFICES ASSUME Init PROVE ClientsInv
    OBVIOUS
  <2>1. /\ made["main"] = 0 /\ made["kms"] = 0 /\ attr = made /\ open = {}
        /\ Owner \in Users /\ \A u \in Users : pc[u] = "idle"
        /\ \A t \in Callers : t \in Users
    BY DEF Init, Kinds, Users
  <2>2. Cardinality(Users) \in Nat
    BY UserSets
  <2>3. TypeOK
    <3>1. made \in [Kinds -> 0..Cardinality(Users)] /\ \A k \in Kinds : attr[k] \in 0..made[k]
      BY <2>2 DEF Init
    <3>2. /\ pc \in [Users -> {"idle"}]
          /\ calls \in [Callers -> 0..MaxCalls]
          /\ overlapped = FALSE /\ failed = {}
          /\ call \in [Callers -> {"get", "put"}]
          /\ result \in [Callers -> {"none", "done", "missing", "closed"}]
      BY BoundsAssumption DEF Init
    <3>3. /\ models \in [resource : SUBSET Versions, client : SUBSET Versions]
          /\ asked \in Versions \cup {0}
          /\ version \in [resource : Versions \cup {0}, api : Versions \cup {0},
                          client : Versions \cup {0}]
      BY DEF Init
    <3>4. object \in {"cse", "resource"} /\ managed \in BOOLEAN
      BY DEF Init
    <3> QED
      BY <2>1, <3>1, <3>2, <3>3, <3>4 DEF TypeOK
  <2>4. CountInv
    <3>1. Connecting = {} /\ Preparing = {}
      BY <2>1 DEF Connecting, Preparing
    <3> QED
      BY <2>1, <2>2, <3>1, FS_EmptySet DEF CountInv
  <2>5. SetupInv
    BY <2>1 DEF Init, SetupInv, Kinds
  <2>6. VersionInv /\ AloneInv
    BY <2>1 DEF VersionInv, VersionsPaired, AloneInv, SettingUp, Kinds
  <2> QED
    BY <2>3, <2>4, <2>5, <2>6 DEF ClientsInv
<1>2. ClientsInv /\ [Next]_vars => ClientsInv'
  <2> SUFFICES ASSUME ClientsInv, [Next]_vars PROVE ClientsInv'
    OBVIOUS
  <2>1. CountInv' /\ SetupInv' /\ VersionInv'
    BY CountStep, SetupStep, VersionStep
  <2>2. TypeOK'
    BY <2>1, TypeStep
  <2>3. ~overlapped' => AloneInv'
    BY AloneStep
  <2> QED
    BY <2>1, <2>2, <2>3 DEF ClientsInv
<1> QED
  BY <1>1, <1>2, PTL DEF Spec

(* Every variable keeps its type: no more clients of a kind are made than    *)
(* there are users.                                                          *)
THEOREM TypeCorrect == Spec => []TypeOK
<1>1. ClientsInv => TypeOK
  BY DEF ClientsInv
<1> QED
  BY <1>1, ClientsInvariant, PTL

(* Unless two setups overlapped, close can reach every open client, and once *)
(* the owner has left a client is only open because something raised.        *)
THEOREM NoClientIsLost == Spec => []ClientsAccountedFor
<1>1. ClientsInv => ClientsAccountedFor
  <2> SUFFICES ASSUME ClientsInv, ~overlapped, NEW c \in open
               PROVE  /\ attr[c[1]] = c[2]
                      /\ pc[Owner] = "left" =>
                           failed \cap (IF c[1] = "main" THEN {"keying", "loading", "closing"}
                                                         ELSE Closing) # {}
    BY DEF ClientsAccountedFor
  <2>1. TypeOK /\ AloneInv /\ attr = made
    BY DEF ClientsInv, SetupInv
  <2>2. /\ c[1] \in Kinds /\ c[2] \in Nat \ {0} /\ c[2] <= made[c[1]]
        /\ made[c[1]] \in Nat /\ made[c[1]] <= 1
    BY <2>1, UserSets DEF TypeOK, AloneInv
  <2>3. attr[c[1]] = c[2]
    BY <2>1, <2>2
  <2>4. pc[Owner] = "left" => failed \cap Excuse(c[1]) # {}
    BY <2>1, <2>2 DEF AloneInv
  <2> QED
    BY <2>3, <2>4 DEF Excuse
<1> QED
  BY <1>1, ClientsInvariant, PTL

(* A resource model is paired with a client of the same API version.         *)
THEOREM PairsVersions == Spec => []VersionsPaired
<1>1. ClientsInv => VersionsPaired
  BY DEF ClientsInv, VersionInv, VersionsPaired
<1> QED
  BY <1>1, ClientsInvariant, PTL

(* A call never misses the S3 client; it misses the KMS client only while    *)
(* another call's setup has got no further, or after one failed there; and   *)
(* it finds a client closed only once the owner has begun to close.          *)
THEOREM FindsItsClients == Spec => CallFindsItsClients
<1>1. ClientsInv /\ [Next]_vars =>
        \A t \in Callers : pc[t] \in {"first", "second"} /\ pc'[t] = "idle" =>
           /\ result'[t] = "missing" =>
                  /\ ~managed /\ Needs(t) = "kms"
                  /\ "keying" \in failed \/ \E u \in Callers \ {t} : pc[u] = "keying"
           /\ result'[t] = "closed" => pc[Owner] \in Closing \cup {"left"}
  <2> SUFFICES ASSUME ClientsInv, [Next]_vars, NEW t \in Callers,
                      pc[t] \in {"first", "second"}, pc'[t] = "idle"
               PROVE  /\ result'[t] = "missing" =>
                          /\ ~managed /\ Needs(t) = "kms"
                          /\ "keying" \in failed \/ \E u \in Callers \ {t} : pc[u] = "keying"
                      /\ result'[t] = "closed" => pc[Owner] \in Closing \cup {"left"}
    OBVIOUS
  <2> USE DEF constant, caller, clients
  <2>1. /\ TypeOK /\ SetupInv /\ attr = made /\ Owner \in Users
        /\ pc \in [Users -> {"idle", "first", "second", "entered", "left"} \cup SettingUp \cup Closing]
        /\ \A v \in Callers : v \in Users /\ v # Owner
        /\ result \in [Callers -> {"none", "done", "missing", "closed"}]
    BY UsersAssumption DEF ClientsInv, SetupInv, TypeOK, Users
  <2>2. ASSUME NEW v \in Users, v # t, NEW to, pc' = [pc EXCEPT ![v] = to]
        PROVE  FALSE
    BY <2>1, <2>2
  <2>3. ASSUME NEW v \in Users, SetupS3(v) \/ SetupKMS(v) \/ SetupRaises(v)
        PROVE  FALSE
    <3>1. v # t
      BY <2>3 DEF SetupS3, SetupKMS, SetupRaises, SettingUp
    <3>2. \E to : pc' = [pc EXCEPT ![v] = to]
      BY <2>3 DEF SetupS3, SetupKMS, SetupRaises, Raises, Goes
    <3> QED
      BY <2>2, <3>1, <3>2
  <2>4. ASSUME NEW v \in Callers, StartCall(v) \/ (UseClient(v) /\ v # t)
        PROVE  FALSE
    <3>1. v # t
      BY <2>4 DEF StartCall
    <3>2. \E to : pc' = [pc EXCEPT ![v] = to]
      BY <2>4 DEF StartCall, UseClient, CallEnds, StartSetup, Goes
    <3> QED
      BY <2>1, <2>2, <3>1, <3>2
  <2>5. UseClient(t)
    <3>1. ASSUME \E to : pc' = [pc EXCEPT ![Owner] = to] PROVE FALSE
      BY <2>1, <2>2, <3>1
    <3> QED
      BY <2>3, <2>4, <3>1
         DEF Next, vars, Enter, StartClose, CloseS3, CloseKMS, CloseRaises, Resource,
             ResourceRaises, EnterClient, LoadClass, EnterRaises, ExitClient, Close, Raises,
             StartSetup, Goes
  <2> DEFINE k == Needs(t)
  <2>6. k \in Kinds
    BY DEF Needs, Kinds
  <2>7. /\ result'[t] = "missing" => attr[k] = 0
        /\ result'[t] = "closed" => attr[k] # 0 /\ <<k, attr[k]>> \notin open
    <3>1. \A what : result' = [result EXCEPT ![t] = what] => result'[t] = what
      BY <2>1
    <3>2. \/ attr[k] = 0 /\ result'[t] = "missing"
          \/ attr[k] # 0 /\ <<k, attr[k]>> \notin open /\ result'[t] = "closed"
          \/ pc' = [pc EXCEPT ![t] = "second"]
          \/ result'[t] = "done"
      BY <2>5, <3>1 DEF UseClient, CallEnds, Goes
    <3>3. pc' # [pc EXCEPT ![t] = "second"]
      BY <2>1
    <3> QED
      BY <3>2, <3>3
  <2>8. made["main"] # 0
    BY <2>1 DEF SetupInv
  <2>9. ASSUME result'[t] = "missing"
        PROVE  /\ ~managed /\ k = "kms"
               /\ "keying" \in failed \/ \E u \in Callers \ {t} : pc[u] = "keying"
    <3>1. k = "kms" /\ made["kms"] = 0
      BY <2>1, <2>6, <2>7, <2>8, <2>9 DEF Kinds
    <3>2. ~managed
      BY <2>1, <3>1 DEF SetupInv
    <3>3. "keying" \in failed \/ \E u \in Users : pc[u] = "keying"
      BY <2>1, <2>8, <3>1, <3>2 DEF SetupInv, TypeOK
    <3>4. \A u \in Users : pc[u] = "keying" => u \in Callers \ {t}
      BY <2>1, <3>2 DEF SetupInv, Closing, Users
    <3> QED
      BY <3>1, <3>2, <3>3, <3>4
  <2>10. result'[t] = "closed" => pc[Owner] \in Closing \cup {"left"}
    BY <2>1, <2>6, <2>7 DEF SetupInv
  <2> QED
    BY <2>9, <2>10
<1>2. ClientsInv /\ [Next]_vars =>
        [\A t \in Callers : pc[t] \in {"first", "second"} /\ pc'[t] = "idle" =>
           /\ result'[t] = "missing" =>
                  /\ ~managed /\ Needs(t) = "kms"
                  /\ "keying" \in failed \/ \E u \in Callers \ {t} : pc[u] = "keying"
           /\ result'[t] = "closed" => pc[Owner] \in Closing \cup {"left"}]_vars
  BY <1>1
<1> QED
  BY <1>2, ClientsInvariant, PTL DEF Spec, CallFindsItsClients

=============================================================================
