------------------------- MODULE ResourceCache_proofs -------------------------
(****************************************************************************)
(* What the cached data of a resource is worth, for any tasks that share it  *)
(* and any number of actions and reads.                                      *)
(****************************************************************************)
EXTENDS ResourceCache, FiniteSetTheorems, TLAPS

\* What an access gives that reads what the service has now.
Fresh == IF bucket /\ (~listed \/ lookup = Denied) THEN Empty ELSE service

\* Two calls at the same time are noticed when the second one starts.
OverlapNoted ==
  \A t, u \in Tasks : t # u /\ call[t] # "idle" /\ call[u] # "idle" => overlapped

\* Only a bucket is not found.
ResponseInv ==
  \A t \in Tasks : call[t] \in Answered /\ response[t] \in NotFound => bucket

\* {} stands in for a bucket's data while it is being loaded: an action that
\* discards it meanwhile overlaps the load, and once no load is under way it is
\* only there if the last of them to end found nothing or raised.
EmptyInv ==
  /\ \A t \in Tasks : call[t] \in Loading /\ bucket /\ data = None => overlapped
  /\ data = Empty =>
       lookup \in NotFound \cup {Raised} \/ \E t \in Tasks : call[t] \in Loading

\* The service carries out no action that was not asked for.
ActionsCounted ==
  LET acting == {t \in Tasks : call[t] = "acting"}
  IN  IsFiniteSet(acting) /\ service + Cardinality(acting) <= acted

CacheInv == TypeOK /\ OverlapNoted /\ ResponseInv /\ EmptyInv /\ ActionsCounted

\* As long as calls neither overlap nor raise, what is cached between calls is
\* what the service has, a bucket's data is {} during a load, and what a load was
\* answered is what the service has.
FreshInv ==
  ~overlapped /\ ~failed =>
      /\ (\A t \in Tasks : call[t] = "idle") => data \in {None, Fresh}
      /\ \A t \in Tasks : call[t] \in Loading /\ bucket => data = Empty
      /\ \A t \in Tasks : call[t] \in Answered =>
             \/ response[t] = IF bucket /\ ~listed THEN None ELSE service
             \/ response[t] = Denied /\ bucket

-----------------------------------------------------------------------------
LEMMA DataFacts ==
  /\ None # Empty /\ None # Denied /\ Empty # Denied
  /\ Raised # None /\ Raised # Empty /\ Raised # Denied
  /\ None \notin 0..MaxActions /\ Empty \notin 0..MaxActions
  /\ Denied \notin 0..MaxActions /\ Raised \notin 0..MaxActions
  /\ MaxActions \in Nat /\ MaxReads \in Nat
<1>1. MaxActions \in Nat /\ MaxReads \in Nat
  BY BoundsAssumption
<1>2. /\ None \notin Nat /\ Empty \notin Nat /\ Denied \notin Nat /\ Raised \notin Nat
      /\ None # Empty /\ None # Denied /\ Empty # Denied
      /\ Raised # None /\ Raised # Empty /\ Raised # Denied
  BY DataAssumption
<1> QED
  BY <1>1, <1>2

LEMMA InvInit == Init => CacheInv /\ FreshInv
<1> SUFFICES ASSUME Init PROVE CacheInv /\ FreshInv
  OBVIOUS
<1> USE DEF Init
<1>1. TypeOK
  <2>1. 0 \in 0..MaxActions /\ 0 \in 0..MaxReads
    BY DataFacts
  <2>2. None \in Data /\ 0 \in Data /\ None \in Answers
    BY <2>1 DEF Data, Answers, NotFound
  <2>3. value \in [Tasks -> Data] /\ response \in [Tasks -> Answers]
    BY <2>2
  <2>4. reads \in [Tasks -> 0..MaxReads] /\ call \in [Tasks -> {"idle"} \cup Calls]
    BY <2>1
  <2> QED
    BY <2>1, <2>2, <2>3, <2>4, DataFacts DEF TypeOK
<1>2. OverlapNoted /\ ResponseInv /\ EmptyInv
  BY DataFacts DEF OverlapNoted, ResponseInv, EmptyInv, Loading, Answered
<1>3. ActionsCounted
  <2>1. {t \in Tasks : call[t] = "acting"} = {}
    OBVIOUS
  <2> QED
    BY <2>1, FS_EmptySet DEF ActionsCounted
<1>4. FreshInv
  BY DEF FreshInv, Loading, Answered
<1> QED
  BY <1>1, <1>2, <1>3, <1>4 DEF CacheInv

(* A task that starts or ends a call is the only one whose call changes.     *)
LEMMA CallChanges ==
  ASSUME TypeOK, NEW t \in Tasks, NEW what \in {"idle"} \cup Calls,
         call' = [call EXCEPT ![t] = what]
  PROVE  /\ call' \in [Tasks -> {"idle"} \cup Calls]
         /\ call'[t] = what
         /\ \A u \in Tasks : u # t => call'[u] = call[u]
BY DEF TypeOK

(* The count of the actions under way follows the tasks' calls.              *)
LEMMA ActionsStep ==
  ASSUME TypeOK, ActionsCounted, NEW t \in Tasks, NEW what \in {"idle"} \cup Calls,
         call' = [call EXCEPT ![t] = what],
         acted' \in Nat, service' \in Nat,
         IF what = "acting"
         THEN call[t] # "acting" /\ acted' = acted + 1 /\ service' = service
         ELSE acted' = acted /\ service' = IF call[t] = "acting" /\ what = "acted"
                                           THEN service + 1 ELSE service
  PROVE  ActionsCounted'
<1> DEFINE A == {u \in Tasks : call[u] = "acting"}
           Z == {u \in Tasks : call'[u] = "acting"}
<1>1. IsFiniteSet(A) /\ service + Cardinality(A) <= acted
  BY DEF ActionsCounted
<1>2. service \in Nat /\ acted \in Nat /\ Cardinality(A) \in Nat
  <2>1. Cardinality(A) \in Nat
    BY <1>1, FS_CardinalityType
  <2> QED
    BY <2>1, DataFacts DEF TypeOK
<1>3. call'[t] = what /\ \A u \in Tasks : u # t => call'[u] = call[u]
  BY CallChanges
<1>4. CASE what = "acting"
  <2>1. Z = A \cup {t} /\ t \notin A
    BY <1>3, <1>4
  <2>2. IsFiniteSet(Z) /\ Cardinality(Z) = Cardinality(A) + 1
    BY <1>1, <2>1, FS_AddElement
  <2> QED
    BY <1>1, <1>2, <1>4, <2>2 DEF ActionsCounted
<1>5. CASE what # "acting" /\ call[t] = "acting"
  <2>1. Z = A \ {t} /\ t \in A
    BY <1>3, <1>5
  <2>2. IsFiniteSet(Z) /\ Cardinality(Z) = Cardinality(A) - 1
    BY <1>1, <2>1, FS_RemoveElement
  <2> QED
    BY <1>1, <1>2, <1>5, <2>2 DEF ActionsCounted
<1>6. CASE what # "acting" /\ call[t] # "acting"
  <2>1. Z = A
    BY <1>3, <1>6
  <2> QED
    BY <1>1, <1>2, <1>6, <2>1 DEF ActionsCounted
<1> QED
  BY <1>4, <1>5, <1>6

-----------------------------------------------------------------------------
(* The parts of the invariant, action by action.                             *)

(* Every value an access gives, and every response, is one of the data.      *)
LEMMA TypeStep == ASSUME CacheInv, [Next]_vars PROVE TypeOK'
<1> USE DEF CacheInv
<1>1. /\ None \in Data /\ Empty \in Data /\ 0..MaxActions \subseteq Data
      /\ None \in Answers /\ Denied \in Answers /\ service \in Answers
      /\ \A x \in Answers : x \notin NotFound => x \in Data /\ x # Empty
      /\ service \in 0..MaxActions /\ acted \in 0..MaxActions /\ service \in Data
  BY DataFacts DEF TypeOK, Data, Answers, NotFound
<1>2. SUFFICES ASSUME NEW t \in Tasks, Step(t)
               PROVE  TypeOK'
  <2>1. CASE UNCHANGED vars
    BY <2>1 DEF vars, TypeOK
  <2> QED
    BY <1>2, <2>1 DEF Next
<1>3. \A n \in 0..MaxReads : n < MaxReads => n + 1 \in 0..MaxReads
  BY DataFacts
<1>4. \A n \in 0..MaxActions : n < MaxActions => n + 1 \in 0..MaxActions
  BY DataFacts
<1>5. CASE CachedValue(t)
  <2>1. value' \in [Tasks -> Data]
    BY <1>5 DEF CachedValue, TypeOK
  <2>2. reads' \in [Tasks -> 0..MaxReads]
    BY <1>3, <1>5 DEF CachedValue, TypeOK
  <2>3. overlapped' \in BOOLEAN
    BY <1>5 DEF CachedValue, NoteOverlap, TypeOK
  <2> QED
    BY <1>5, <2>1, <2>2, <2>3 DEF CachedValue, TypeOK
<1>6. ASSUME NEW what \in {"loading", "reloading"}, Loads(t, what) PROVE TypeOK'
  <2>1. call' \in [Tasks -> {"idle"} \cup Calls]
    BY <1>6 DEF Loads, Starts, Calls, Loading, TypeOK
  <2>2. reads' \in [Tasks -> 0..MaxReads]
    BY <1>3, <1>6 DEF Loads, TypeOK
  <2>3. overlapped' \in BOOLEAN
    BY <1>6 DEF Loads, Starts, NoteOverlap, TypeOK
  <2>4. data' \in Data /\ (data' = Empty => bucket')
    BY <1>1, <1>6, DataFacts DEF Loads, TypeOK
  <2> QED
    BY <1>6, <2>1, <2>2, <2>3, <2>4 DEF Loads, TypeOK
<1>7. ASSUME NEW x \in Answers, IsAnswered(t, x) PROVE TypeOK'
  <2>1. call' \in [Tasks -> {"idle"} \cup Calls]
    BY <1>7 DEF IsAnswered, Calls, Loading, TypeOK
  <2>2. response' \in [Tasks -> Answers]
    BY <1>7 DEF IsAnswered, TypeOK
  <2> QED
    BY <1>7, <2>1, <2>2 DEF IsAnswered, TypeOK
<1>8. CASE LoadReturns(t) \/ ReloadReturns(t)
  <2>1. LoadEnds(t)
    BY <1>8 DEF LoadReturns, ReloadReturns
  <2>2. call' \in [Tasks -> {"idle"} \cup Calls]
    BY <2>1 DEF LoadEnds, Ends, TypeOK
  <2>3. data' \in Data /\ (data' = Empty => bucket') /\ lookup' \in Answers
    <3>1. response[t] \in Answers /\ data \in Data
      BY DEF TypeOK
    <3> QED
      BY <1>1, <2>1, <3>1 DEF LoadEnds, StoreLoaded, TypeOK
  <2>4. value' \in [Tasks -> Data]
    BY <1>8, <2>3 DEF LoadReturns, ReloadReturns, TypeOK
  <2> QED
    BY <2>1, <2>2, <2>3, <2>4 DEF LoadEnds, TypeOK
<1>9. CASE LoadRaises(t) \/ ActionRaises(t)
  <2>1. call' \in [Tasks -> {"idle"} \cup Calls]
    BY <1>9 DEF LoadRaises, ActionRaises, Ends, TypeOK
  <2> QED
    BY <1>9, <2>1 DEF LoadRaises, ActionRaises, TypeOK
<1>10. CASE StartAction(t)
  <2>1. call' \in [Tasks -> {"idle"} \cup Calls]
    BY <1>10 DEF StartAction, Starts, Calls, TypeOK
  <2>2. acted' \in 0..MaxActions /\ overlapped' \in BOOLEAN
    BY <1>1, <1>4, <1>10 DEF StartAction, Starts, NoteOverlap, TypeOK
  <2> QED
    BY <1>10, <2>1, <2>2 DEF StartAction, TypeOK
<1>11. CASE ServiceActs(t)
  <2>0. listed' \in BOOLEAN
    BY <1>11 DEF ServiceActs, TypeOK
  <2>1. call' \in [Tasks -> {"idle"} \cup Calls]
    BY <1>11 DEF ServiceActs, Calls, TypeOK
  <2>2. service < acted
    <3> DEFINE A == {u \in Tasks : call[u] = "acting"}
    <3>1. IsFiniteSet(A) /\ service + Cardinality(A) <= acted
      BY DEF ActionsCounted
    <3>2. A # {}
      BY <1>11 DEF ServiceActs
    <3>3. Cardinality(A) \in Nat /\ Cardinality(A) # 0
      BY <3>1, <3>2, FS_CardinalityType, FS_EmptySet
    <3> HIDE DEF A
    <3> QED
      BY <1>1, <3>1, <3>3, DataFacts
  <2>3. service' \in 0..MaxActions
    BY <1>1, <1>11, <2>2, DataFacts DEF ServiceActs
  <2> QED
    BY <1>11, <2>0, <2>1, <2>3 DEF ServiceActs, TypeOK
<1>12. CASE ActionReturns(t)
  <2>1. call' \in [Tasks -> {"idle"} \cup Calls]
    BY <1>12 DEF ActionReturns, Ends, TypeOK
  <2>2. data' \in Data /\ data' # Empty
    BY <1>1, <1>12, DataFacts DEF ActionReturns, ClearData
  <2> QED
    BY <1>12, <2>1, <2>2 DEF ActionReturns, TypeOK
<1>13. CASE StartLoad(t) \/ StartReload(t)
  BY <1>6, <1>13 DEF StartLoad, StartReload
<1>14. CASE ServiceReads(t) \/ ListingDenied(t)
  BY <1>1, <1>7, <1>14 DEF ServiceReads, ListingDenied
<1> QED
  BY <1>2, <1>5, <1>8, <1>9, <1>10, <1>11, <1>12, <1>13, <1>14 DEF Step, Call

(* A step changes the call of one task, the resource stays what it is, and   *)
(* what went wrong is not forgotten.                                         *)
LEMMA Steps ==
  ASSUME TypeOK, NEW t \in Tasks, Step(t)
  PROVE  /\ \A u \in Tasks : u # t => call'[u] = call[u]
         /\ bucket' = bucket
         /\ listed' = listed \/ ServiceActs(t)
         /\ overlapped => overlapped'
         /\ failed => failed'
         /\ \/ call[t] # "idle"
            \/ overlapped' = (overlapped \/ \E u \in Tasks \ {t} : call[u] # "idle")
<1>1. CASE CachedValue(t)
  BY <1>1 DEF CachedValue, NoteOverlap
<1>2. CASE StartLoad(t) \/ StartReload(t)
  BY <1>2 DEF StartLoad, StartReload, Loads, Starts, NoteOverlap, TypeOK
<1>3. CASE StartAction(t)
  BY <1>3 DEF StartAction, Starts, NoteOverlap, TypeOK
<1>4. CASE ServiceReads(t) \/ ListingDenied(t)
  BY <1>4 DEF ServiceReads, ListingDenied, IsAnswered, TypeOK
<1>5. CASE LoadReturns(t) \/ ReloadReturns(t)
  BY <1>5 DEF LoadReturns, ReloadReturns, LoadEnds, Ends, TypeOK
<1>6. CASE LoadRaises(t)
  BY <1>6 DEF LoadRaises, Ends, Loading, TypeOK
<1>7. CASE ServiceActs(t)
  BY <1>7 DEF ServiceActs, TypeOK
<1>8. CASE ActionReturns(t)
  BY <1>8 DEF ActionReturns, Ends, TypeOK
<1>9. CASE ActionRaises(t)
  BY <1>9 DEF ActionRaises, Ends, TypeOK
<1> QED
  BY <1>1, <1>2, <1>3, <1>4, <1>5, <1>6, <1>7, <1>8, <1>9 DEF Step, Call

(* Every action that starts a call notices those that are under way.         *)
LEMMA OverlapStep == ASSUME CacheInv, [Next]_vars PROVE OverlapNoted'
<1> USE DEF CacheInv
<1>1. CASE UNCHANGED vars
  BY <1>1 DEF vars, OverlapNoted
<1>2. ASSUME NEW t \in Tasks, Step(t) PROVE OverlapNoted'
  <2>1. /\ \A u \in Tasks : u # t => call'[u] = call[u]
        /\ overlapped => overlapped'
        /\ \/ call[t] # "idle"
           \/ overlapped' = (overlapped \/ \E u \in Tasks \ {t} : call[u] # "idle")
    BY <1>2, Steps
  <2> QED
    BY <2>1 DEF OverlapNoted
<1> QED
  BY <1>1, <1>2 DEF Next

(* While nothing has overlapped, nobody but the task that steps has a call.  *)
LEMMA Alone ==
  ASSUME CacheInv, NEW t \in Tasks, Step(t), ~overlapped'
  PROVE  \A u \in Tasks : u # t => call[u] = "idle" /\ call'[u] = "idle"
<1>1. /\ \A u \in Tasks : u # t => call'[u] = call[u]
      /\ overlapped => overlapped'
      /\ \/ call[t] # "idle"
         \/ overlapped' = (overlapped \/ \E u \in Tasks \ {t} : call[u] # "idle")
  BY Steps DEF CacheInv
<1> QED
  BY <1>1 DEF CacheInv, OverlapNoted

(* Every step counts the actions under way.                                  *)
LEMMA CountStep == ASSUME CacheInv, [Next]_vars PROVE ActionsCounted'
<1> USE DEF CacheInv
<1>1. CASE UNCHANGED vars
  BY <1>1 DEF vars, ActionsCounted
<1>2. ASSUME NEW t \in Tasks, Step(t)
      PROVE  ActionsCounted'
  <2>0. service \in Nat /\ acted \in Nat /\ service' \in Nat /\ acted' \in Nat
    BY TypeStep, DataFacts DEF TypeOK
  <2>1. CASE CachedValue(t)
    BY <2>1 DEF CachedValue, ActionsCounted
  <2>2. CASE StartLoad(t) \/ StartReload(t)
    <3>1. PICK what \in {"loading", "reloading"} : Loads(t, what)
      BY <2>2 DEF StartLoad, StartReload
    <3>2. /\ call' = [call EXCEPT ![t] = what] /\ call[t] = "idle"
          /\ acted' = acted /\ service' = service
      BY <3>1 DEF Loads, Starts
    <3> QED
      BY <2>0, <3>2, ActionsStep DEF Calls, Loading
  <2>3. CASE StartAction(t)
    <3>1. /\ call' = [call EXCEPT ![t] = "acting"] /\ call[t] = "idle"
          /\ acted' = acted + 1 /\ service' = service
      BY <2>3 DEF StartAction, Starts
    <3> QED
      BY <2>0, <3>1, ActionsStep DEF Calls
  <2>4. CASE ServiceReads(t) \/ ListingDenied(t)
    <3> DEFINE what == IF call[t] = "loading" THEN "loaded" ELSE "reloaded"
    <3>1. /\ call' = [call EXCEPT ![t] = what] /\ call[t] \in {"loading", "reloading"}
          /\ acted' = acted /\ service' = service
      BY <2>4 DEF ServiceReads, ListingDenied, IsAnswered
    <3>2. what \in {"loaded", "reloaded"}
      OBVIOUS
    <3> HIDE DEF what
    <3> QED
      BY <2>0, <3>1, <3>2, ActionsStep DEF Calls, Loading
  <2>5. CASE ServiceActs(t)
    <3>1. /\ call' = [call EXCEPT ![t] = "acted"] /\ call[t] = "acting"
          /\ acted' = acted /\ service' = service + 1
      BY <2>5 DEF ServiceActs
    <3> QED
      BY <2>0, <3>1, ActionsStep DEF Calls
  <2>6. CASE \/ LoadReturns(t) \/ ReloadReturns(t) \/ LoadRaises(t)
             \/ ActionReturns(t) \/ ActionRaises(t)
    <3>1. /\ call' = [call EXCEPT ![t] = "idle"]
          /\ acted' = acted /\ service' = service
      BY <2>6 DEF LoadReturns, ReloadReturns, LoadEnds, LoadRaises, ActionReturns, ActionRaises,
                  Ends
    <3> QED
      BY <2>0, <3>1, ActionsStep
  <2> QED
    BY <1>2, <2>1, <2>2, <2>3, <2>4, <2>5, <2>6 DEF Step, Call
<1> QED
  BY <1>1, <1>2 DEF Next

(* Only a bucket is answered that it is not there.                           *)
LEMMA ResponseStep == ASSUME CacheInv, [Next]_vars PROVE ResponseInv'
<1> USE DEF CacheInv
<1>1. CASE UNCHANGED vars
  BY <1>1 DEF vars, ResponseInv
<1>2. ASSUME NEW t \in Tasks, Step(t) PROVE ResponseInv'
  <2>1. bucket' = bucket
    BY <1>2, Steps
  <2>2. CASE ServiceReads(t) \/ ListingDenied(t)
    <3>1. /\ \A u \in Tasks : u # t => call'[u] = call[u] /\ response'[u] = response[u]
          /\ response'[t] \in NotFound => bucket
      <4>1. service \notin NotFound
        BY DataFacts DEF TypeOK, NotFound
      <4> QED
        BY <2>2, <4>1 DEF ServiceReads, ListingDenied, IsAnswered, TypeOK
    <3> QED
      BY <2>1, <3>1 DEF ResponseInv
  <2>3. CASE ~ServiceReads(t) /\ ~ListingDenied(t)
    <3>1. UNCHANGED response /\ \A u \in Tasks : call'[u] \in Answered => call[u] \in Answered
      BY <1>2, <2>3 DEF Step, CachedValue, StartLoad, StartReload, Loads, StartAction, Starts,
                Call, LoadReturns, ReloadReturns, LoadEnds, LoadRaises, ServiceActs,
                ActionReturns, ActionRaises, Ends, Answered, TypeOK
    <3> QED
      BY <2>1, <3>1 DEF ResponseInv
  <2> QED
    BY <2>2, <2>3
<1> QED
  BY <1>1, <1>2 DEF Next

(* The {} a load leaves is explained, and one that is discarded under a load *)
(* was discarded by a call that overlaps it.                                 *)
LEMMA EmptyStep == ASSUME CacheInv, [Next]_vars PROVE EmptyInv'
<1> USE DEF CacheInv
<1>1. CASE UNCHANGED vars
  BY <1>1 DEF vars, EmptyInv
<1>2. ASSUME NEW t \in Tasks, Step(t) PROVE EmptyInv'
  <2>0. /\ \A u \in Tasks : u # t => call'[u] = call[u]
        /\ bucket' = bucket /\ (overlapped => overlapped')
    BY <1>2, Steps
  <2>1. ASSUME \A u \in Tasks : call'[u] \in Loading <=> call[u] \in Loading,
               UNCHANGED <<data, lookup>>
        PROVE  EmptyInv'
    BY <2>0, <2>1 DEF EmptyInv
  <2>2. CASE StartLoad(t) \/ StartReload(t)
    <3>1. call'[t] \in Loading /\ data' = (IF bucket THEN Empty ELSE data) /\ UNCHANGED lookup
      BY <2>2 DEF StartLoad, StartReload, Loads, Starts, Loading, TypeOK
    <3>2. bucket => data' # None
      BY <3>1, DataFacts
    <3> QED
      BY <2>0, <3>1, <3>2 DEF EmptyInv
  <2>3. CASE LoadReturns(t) \/ ReloadReturns(t)
    <3>1. /\ call[t] \in Answered /\ call'[t] = "idle"
          /\ data' = (IF response[t] \in NotFound THEN data ELSE response[t])
          /\ lookup' = response[t]
      BY <2>3 DEF LoadReturns, ReloadReturns, LoadEnds, StoreLoaded, Ends, Answered, TypeOK
    <3>2. \A u \in Tasks : call'[u] \in Loading => call[u] \in Loading /\ u # t
      BY <2>0, <3>1 DEF Loading
    <3>3. call[t] # "idle"
      BY <3>1 DEF Answered
    <3>4. \A u \in Tasks : call'[u] \in Loading => overlapped
      BY <3>2, <3>3 DEF OverlapNoted, Loading
    <3>5. response[t] \notin NotFound => data' # Empty
      <4>1. response[t] \in Answers
        BY DEF TypeOK
      <4> QED
        BY <3>1, <4>1, DataFacts DEF Answers
    <3> QED
      BY <2>0, <3>1, <3>4, <3>5 DEF EmptyInv
  <2>4. CASE LoadRaises(t)
    <3>1. /\ lookup' = Raised /\ UNCHANGED data
          /\ \A u \in Tasks : call'[u] \in Loading => call[u] \in Loading
      BY <2>4 DEF LoadRaises, Ends, Loading, TypeOK
    <3> QED
      BY <2>0, <3>1 DEF EmptyInv
  <2>5. CASE ActionReturns(t)
    <3>1. call[t] = "acted" /\ data' = None /\ call'[t] = "idle"
      BY <2>5 DEF ActionReturns, ClearData, Ends, TypeOK
    <3>2. \A u \in Tasks : call'[u] \in Loading => overlapped
      BY <2>0, <3>1 DEF OverlapNoted, Loading
    <3> QED
      BY <2>0, <3>1, <3>2, DataFacts DEF EmptyInv
  <2>6. CASE CachedValue(t)
    BY <2>1, <2>6 DEF CachedValue
  <2>7. CASE ServiceReads(t) \/ ListingDenied(t)
    <3>1. /\ call[t] \in Loading /\ call'[t] \in Loading /\ UNCHANGED <<data, lookup>>
      BY <2>7 DEF ServiceReads, ListingDenied, IsAnswered, Loading, TypeOK
    <3> QED
      BY <2>0, <2>1, <3>1
  <2>8. CASE StartAction(t) \/ ServiceActs(t) \/ ActionRaises(t)
    <3>1. /\ call[t] \notin Loading /\ call'[t] \notin Loading /\ UNCHANGED <<data, lookup>>
      BY <2>8 DEF StartAction, Starts, ServiceActs, ActionRaises, Ends, Loading, TypeOK
    <3> QED
      BY <2>0, <2>1, <3>1
  <2> QED
    BY <1>2, <2>2, <2>3, <2>4, <2>5, <2>6, <2>7, <2>8 DEF Step, Call
<1> QED
  BY <1>1, <1>2 DEF Next

(* What a load that nothing overlaps leaves cached is what the service has.  *)
LEMMA LoadedIsFresh ==
  ASSUME CacheInv, FreshInv, ~overlapped, ~failed, NEW t \in Tasks,
         LoadReturns(t) \/ ReloadReturns(t)
  PROVE  data' = Fresh' /\ call'[t] = "idle"
<1> USE DEF CacheInv
<1>1. /\ call[t] \in Answered /\ call[t] \in Loading /\ call'[t] = "idle"
      /\ data' = (IF response[t] \in NotFound THEN data ELSE response[t])
      /\ lookup' = response[t] /\ UNCHANGED <<bucket, listed, service>>
  BY DEF LoadReturns, ReloadReturns, LoadEnds, StoreLoaded, Ends, Answered, Loading, TypeOK
<1>2. /\ bucket => data = Empty
      /\ \/ response[t] = IF bucket /\ ~listed THEN None ELSE service
         \/ response[t] = Denied /\ bucket
  BY <1>1 DEF FreshInv
<1>3. service \notin NotFound /\ service # Denied
  BY DataFacts DEF TypeOK, NotFound
<1>4. CASE response[t] = Denied /\ bucket
  BY <1>1, <1>2, <1>4 DEF Fresh, NotFound
<1>5. CASE response[t] = (IF bucket /\ ~listed THEN None ELSE service)
  <2>1. CASE bucket /\ ~listed
    BY <1>1, <1>2, <1>5, <2>1 DEF Fresh, NotFound
  <2>2. CASE ~(bucket /\ ~listed)
    BY <1>1, <1>3, <1>5, <2>2 DEF Fresh
  <2> QED
    BY <2>1, <2>2
<1> QED
  BY <1>1, <1>2, <1>4, <1>5

(* Only one call at a time, and what it finds is what the service has.       *)
LEMMA FreshStep == ASSUME CacheInv, FreshInv, [Next]_vars PROVE FreshInv'
<1> USE DEF CacheInv
<1>1. CASE UNCHANGED vars
  BY <1>1 DEF vars, FreshInv, Fresh
<1>2. ASSUME NEW t \in Tasks, Step(t), ~overlapped', ~failed'
      PROVE  /\ (\A u \in Tasks : call'[u] = "idle") => data' \in {None, Fresh'}
             /\ \A u \in Tasks : call'[u] \in Loading /\ bucket' => data' = Empty
             /\ \A u \in Tasks : call'[u] \in Answered =>
                    \/ response'[u] = IF bucket' /\ ~listed' THEN None ELSE service'
                    \/ response'[u] = Denied /\ bucket'
  <2>1. bucket' = bucket /\ ~overlapped /\ ~failed
    BY <1>2, Steps
  <2>2. /\ (\A u \in Tasks : call[u] = "idle") => data \in {None, Fresh}
        /\ \A u \in Tasks : call[u] \in Loading /\ bucket => data = Empty
    BY <2>1 DEF FreshInv
  <2>3. \A u \in Tasks : u # t => call[u] = "idle" /\ call'[u] = "idle"
    BY <1>2, Alone
  <2>4. \A u \in Tasks : u # t => call'[u] \notin Loading /\ call'[u] \notin Answered
    BY <2>3 DEF Loading, Answered
  <2>5. CASE CachedValue(t)
    <3>1. call[t] = "idle" /\ UNCHANGED <<call, data, bucket, listed, service, lookup>>
      BY <2>5 DEF CachedValue
    <3>2. Fresh' = Fresh
      BY <3>1 DEF Fresh
    <3> QED
      BY <2>2, <2>3, <2>4, <3>1, <3>2 DEF Loading, Answered
  <2>6. CASE StartLoad(t) \/ StartReload(t)
    <3>1. /\ call'[t] # "idle" /\ call'[t] \notin Answered
          /\ data' = IF bucket THEN Empty ELSE data
      BY <2>6 DEF StartLoad, StartReload, Loads, Starts, Answered, TypeOK
    <3> QED
      BY <2>1, <2>4, <3>1
  <2>7. CASE ServiceReads(t) \/ ListingDenied(t)
    <3>1. /\ call[t] \in Loading /\ call'[t] # "idle" /\ UNCHANGED <<data, service, listed>>
          /\ \/ response'[t] = IF bucket /\ ~listed THEN None ELSE service
             \/ response'[t] = Denied /\ bucket
      BY <2>7 DEF ServiceReads, ListingDenied, IsAnswered, Loading, TypeOK
    <3> QED
      BY <2>1, <2>2, <2>4, <3>1
  <2>8. CASE LoadReturns(t) \/ ReloadReturns(t)
    <3>1. data' = Fresh' /\ call'[t] = "idle"
      BY <2>1, <2>8, LoadedIsFresh
    <3> QED
      BY <2>4, <3>1 DEF Loading, Answered
  <2>9. CASE StartAction(t) \/ ServiceActs(t)
    <3>1. call'[t] # "idle" /\ call'[t] \notin Loading /\ call'[t] \notin Answered
      BY <2>9 DEF StartAction, Starts, ServiceActs, Loading, Answered, TypeOK
    <3> QED
      BY <2>4, <3>1
  <2>10. CASE ActionReturns(t)
    <3>1. call'[t] = "idle" /\ data' = None
      BY <2>10 DEF ActionReturns, ClearData, Ends, TypeOK
    <3> QED
      BY <2>4, <3>1 DEF Loading, Answered
  <2>11. CASE LoadRaises(t) \/ ActionRaises(t)
    BY <1>2, <2>11 DEF LoadRaises, ActionRaises
  <2> QED
    BY <1>2, <2>5, <2>6, <2>7, <2>8, <2>9, <2>10, <2>11 DEF Step, Call
<1> QED
  BY <1>1, <1>2 DEF Next, FreshInv

(* A step that gives a task a value reads it from the cache or loads it.     *)
LEMMA WhoAccesses ==
  ASSUME CacheInv, Next, NEW t \in Tasks, Accesses(t)
  PROVE  CachedValue(t) \/ LoadReturns(t)
<1> USE DEF CacheInv
<1>1. PICK u \in Tasks : Step(u)
  BY DEF Next
<1>2. u = t
  <2> SUFFICES ASSUME u # t PROVE FALSE
    OBVIOUS
  <2>1. call'[t] = call[t]
    BY <1>1, Steps
  <2>2. call[t] = "idle"
    BY <2>1 DEF Accesses
  <2>3. reads'[t] = reads[t]
    BY <1>1 DEF Step, CachedValue, StartLoad, StartReload, Loads, StartAction, Call,
                ServiceReads, ListingDenied, IsAnswered, LoadReturns, ReloadReturns, LoadEnds,
                LoadRaises, ServiceActs, ActionReturns, ActionRaises, TypeOK
  <2> QED
    BY <2>2, <2>3 DEF Accesses
<1>3. CASE StartLoad(t) \/ StartReload(t) \/ StartAction(t) \/ ServiceReads(t)
           \/ ListingDenied(t) \/ ServiceActs(t)
  <2>1. call'[t] # "idle"
    BY <1>3 DEF StartLoad, StartReload, Loads, StartAction, Starts, ServiceReads,
                ListingDenied, IsAnswered, ServiceActs, TypeOK
  <2> QED
    BY <2>1 DEF Accesses
<1>4. CASE ReloadReturns(t) \/ LoadRaises(t) \/ ActionReturns(t) \/ ActionRaises(t)
  <2>1. UNCHANGED reads /\ (call[t] = "loaded" => lookup' = Raised)
    BY <1>4 DEF ReloadReturns, LoadEnds, LoadRaises, ActionReturns, ActionRaises
  <2> QED
    BY <2>1 DEF Accesses
<1> QED
  BY <1>1, <1>2, <1>3, <1>4 DEF Step, Call

-----------------------------------------------------------------------------
(* Theorems.                                                                 *)

\* The invariant holds of every reachable state: overlaps are noticed, actions
\* are counted, {} is explained, and without an overlap or an exception what is
\* cached is what the service has.
THEOREM CacheInvariant == Spec => [](CacheInv /\ FreshInv)
<1>1. CacheInv /\ FreshInv /\ [Next]_vars => CacheInv' /\ FreshInv'
  BY TypeStep, OverlapStep, ResponseStep, EmptyStep, CountStep, FreshStep DEF CacheInv
<1> QED
  BY InvInit, <1>1, PTL DEF Spec

\* No task sees data that is neither missing, {} nor the service's; {} is only
\* ever cached for a bucket.
THEOREM TypeCorrect == Spec => []TypeOK
<1>1. CacheInv => TypeOK
  BY DEF CacheInv
<1> QED
  BY CacheInvariant, <1>1, PTL

\* However the loads and the actions of the tasks interleave and raise, an access
\* that loads gets what its look-up found, and one that finds no value is of a
\* bucket that its look-up did not find or was denied, that is being looked up,
\* or whose last look-up found nothing or raised (bucket_load, inject.py:710-732).
THEOREM ExplainsTheMissing == Spec => MissingExplained
<1> DEFINE Explained ==
      \A t \in Tasks : Accesses(t) =>
           /\ value'[t] \in {None, Empty} => bucket
           /\ value'[t] \in {None, Empty} /\ call[t] = "loaded" => response[t] \in NotFound
           /\ value'[t] = None => call[t] = "loaded" /\ overlapped
           /\ value'[t] = Empty /\ call[t] = "idle" =>
                  \/ lookup \in NotFound \cup {Raised}
                  \/ \E u \in Tasks : call[u] \in Loading
<1>1. ASSUME CacheInv, [Next]_vars PROVE [Explained]_vars
  <2> USE DEF CacheInv
  <2>1. SUFFICES ASSUME Next, NEW t \in Tasks, Accesses(t)
                 PROVE  /\ value'[t] \in {None, Empty} => bucket
                        /\ value'[t] \in {None, Empty} /\ call[t] = "loaded" =>
                               response[t] \in NotFound
                        /\ value'[t] = None => call[t] = "loaded" /\ overlapped
                        /\ value'[t] = Empty /\ call[t] = "idle" =>
                               \/ lookup \in NotFound \cup {Raised}
                               \/ \E u \in Tasks : call[u] \in Loading
    BY <1>1
  <2>2. CASE CachedValue(t)
    <3>1. call[t] = "idle" /\ data # None /\ value'[t] = data
      BY <1>1, <2>2 DEF CachedValue, TypeOK
    <3> QED
      BY <1>1, <3>1 DEF EmptyInv, TypeOK
  <2>3. CASE LoadReturns(t)
    <3>1. /\ call[t] = "loaded" /\ value'[t] = data'
          /\ data' = (IF response[t] \in NotFound THEN data ELSE response[t])
      BY <1>1, <2>3 DEF LoadReturns, LoadEnds, StoreLoaded, TypeOK
    <3>2. response[t] \notin NotFound => value'[t] \notin {None, Empty}
      <4>1. response[t] \in Answers
        BY <1>1 DEF TypeOK
      <4> QED
        BY <3>1, <4>1, DataFacts DEF Answers
    <3>3. response[t] \in NotFound => bucket
      BY <1>1, <3>1 DEF ResponseInv, Answered
    <3>4. bucket /\ data = None => overlapped
      BY <1>1, <3>1 DEF EmptyInv, Loading
    <3> QED
      BY <3>1, <3>2, <3>3, <3>4
  <2> QED
    BY <1>1, <2>1, <2>2, <2>3, WhoAccesses
<1>2. CacheInv /\ FreshInv => CacheInv
  OBVIOUS
<1> QED
  BY CacheInvariant, <1>1, <1>2, PTL DEF MissingExplained, Spec

\* Tasks whose calls do not overlap and do not raise never read a value that is
\* older than the last action, which discards it (factory.py:251-276), and no
\* value only of a bucket that is not listed or whose listing was denied.
THEOREM AccessesAreFresh == Spec => AccessIsFresh
<1> DEFINE Access ==
      \A t \in Tasks : Accesses(t) /\ ~overlapped' /\ ~failed' =>
           value'[t] = IF bucket /\ (~listed \/ lookup' = Denied)
                       THEN Empty ELSE service
<1>1. ASSUME CacheInv, FreshInv, [Next]_vars PROVE [Access]_vars
  <2> USE DEF CacheInv
  <2>1. SUFFICES ASSUME Next, NEW t \in Tasks, Accesses(t), ~overlapped', ~failed'
                 PROVE  value'[t] = IF bucket /\ (~listed \/ lookup' = Denied)
                                    THEN Empty ELSE service
    BY <1>1
  <2>2. CachedValue(t) \/ LoadReturns(t)
    BY <1>1, <2>1, WhoAccesses
  <2>3. Step(t)
    BY <2>2 DEF Step, Call
  <2>4. ~overlapped /\ ~failed
    BY <1>1, <2>1, <2>3, Steps
  <2>5. CASE CachedValue(t)
    <3>1. /\ data # None /\ value'[t] = data /\ call[t] = "idle" /\ UNCHANGED lookup
      BY <1>1, <2>5 DEF CachedValue, TypeOK
    <3>2. \A v \in Tasks : call[v] = "idle"
      BY <1>1, <2>1, <2>3, <3>1, Alone
    <3>3. data = Fresh
      BY <1>1, <2>4, <3>1, <3>2 DEF FreshInv
    <3> QED
      BY <3>1, <3>3 DEF Fresh
  <2>6. CASE LoadReturns(t)
    <3>1. value'[t] = data' /\ UNCHANGED <<bucket, listed, service>>
      BY <1>1, <2>6 DEF LoadReturns, LoadEnds, TypeOK
    <3>2. data' = Fresh'
      BY <1>1, <2>4, <2>6, LoadedIsFresh
    <3> QED
      BY <3>1, <3>2 DEF Fresh
  <2> QED
    BY <2>2, <2>5, <2>6
<1> QED
  BY CacheInvariant, <1>1, PTL DEF AccessIsFresh, Spec

===============================================================================
