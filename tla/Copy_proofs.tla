------------------------------ MODULE Copy_proofs ------------------------------
(****************************************************************************)
(* What copy guarantees for any thresholds and part sizes, any number of     *)
(* requests at a time, a source of any length and any set of faults.         *)
(****************************************************************************)
EXTENDS Copy, FiniteSetTheorems, SequenceTheorems, TLAPS

-----------------------------------------------------------------------------
(* The parts a source is cut into.                                           *)

(* The fewest chunks of b bytes that hold a bytes.                           *)
LEMMA CeilDivBounds ==
  \A a \in Nat, b \in Nat \ {0} :
      CeilDiv(a, b) \in Nat /\ (CeilDiv(a, b) - 1) * b < a /\ a <= CeilDiv(a, b) * b
<1>1. \A a \in Nat, b \in Nat \ {0} :
         a \div b \in Nat /\ (a \div b) * b <= a /\ a < (a \div b) * b + b
  OBVIOUS
<1> QED
  BY <1>1 DEF CeilDiv

(* A longer source has no fewer parts.                                       *)
LEMMA CeilDivGrows ==
  ASSUME NEW a \in Nat, NEW c \in Nat, NEW b \in Nat \ {0}, a <= c
  PROVE  CeilDiv(a, b) <= CeilDiv(c, b)
<1> DEFINE q == CeilDiv(a, b)
           r == CeilDiv(c, b)
<1>1. q \in Nat /\ r \in Nat /\ (q - 1) * b < a /\ c <= r * b
  BY CeilDivBounds
<1> HIDE DEF q, r
<1> SUFFICES ASSUME r <= q - 1 PROVE FALSE
  BY <1>1 DEF q, r
<1>2. r * b <= (q - 1) * b
  BY <1>1
<1>3. r * b \in Int /\ (q - 1) * b \in Int
  BY <1>1
<1> QED
  BY <1>1, <1>2, <1>3

(* The first n numbers.                                                      *)
LEMMA FirstNumbers ==
  ASSUME NEW n \in Nat
  PROVE  IsFiniteSet(1..n) /\ Cardinality(1..n) = n
<1>1. 1 \in Int /\ n \in Int
  OBVIOUS
<1>2. IsFiniteSet(1..n) /\ Cardinality(1..n) = IF 1 > n THEN 0 ELSE n - 1 + 1
  BY <1>1, FS_Interval
<1> QED
  BY <1>2

(* The parts of the source are among AllParts, and the largest is the last.  *)
LEMMA PartsAre ==
  ASSUME content_length \in 0..MaxSize
  PROVE  LET n == CeilDiv(content_length, MultipartChunksize) IN
         /\ n \in Nat /\ Parts = 1..n /\ Parts \subseteq AllParts
         /\ n >= 1 => Max(Parts) = n
         /\ content_length >= 1 => n >= 1
<1> DEFINE C == MultipartChunksize
           n == CeilDiv(content_length, C)
           N == CeilDiv(MaxSize, C)
<1>1. content_length \in Nat /\ MaxSize \in Nat /\ C \in Nat \ {0}
  BY SizesAssumption
<1>2. n \in Nat /\ N \in Nat /\ (n - 1) * C < content_length /\ content_length <= n * C
  BY <1>1, CeilDivBounds
<1>3. n <= N
  BY <1>1, CeilDivGrows
<1>4. Parts = 1..n /\ AllParts = 1..N
  BY DEF Parts, AllParts
<1> HIDE DEF n, N, C
<1>5. n >= 1 => Max(1..n) = n
  <2> SUFFICES ASSUME n >= 1 PROVE Max(1..n) = n
    OBVIOUS
  <2>1. n \in 1..n /\ \A y \in 1..n : n >= y
    BY <1>2
  <2>2. \A x \in 1..n : (\A y \in 1..n : x >= y) => x = n
    BY <1>2
  <2> QED
    BY <2>1, <2>2 DEF Max
<1>6. content_length >= 1 => n >= 1
  BY <1>1, <1>2
<1> QED
  BY <1>2, <1>3, <1>4, <1>5, <1>6 DEF n, N, C

(* Part p carries the bytes from RangeStart(p) to RangeEnd(p), which is where *)
(* the next part starts, and the last one ends with the source.              *)
LEMMA RangesAdjoin ==
  ASSUME content_length \in 0..MaxSize, NEW p \in Parts
  PROVE  LET n == CeilDiv(content_length, MultipartChunksize) IN
         /\ [lo |-> RangeStart(p), hi |-> RangeEnd(p)] \in SourceRange
         /\ RangeStart(1) = 0
         /\ p = n => RangeEnd(p) = content_length
         /\ p # n => p + 1 \in Parts /\ RangeEnd(p) = RangeStart(p + 1)
<1> DEFINE C == MultipartChunksize
           n == CeilDiv(content_length, C)
<1>1. content_length \in Nat /\ MaxSize \in Nat /\ C \in Nat \ {0} /\ content_length <= MaxSize
  BY SizesAssumption
<1>2. n \in Nat /\ Parts = 1..n /\ n >= 1 /\ Max(Parts) = n
  BY PartsAre
<1>3. (n - 1) * C < content_length
  BY <1>1, CeilDivBounds
<1>4. RangeEnd(p) = IF p = n THEN content_length ELSE p * C
  BY <1>2 DEF RangeEnd
<1>5. \A k : RangeStart(k) = (k - 1) * C
  BY DEF RangeStart
<1> HIDE DEF n, C
<1>6. p \in Nat /\ 1 <= p /\ p <= n
  BY <1>2
<1>7. (p - 1) * C \in Nat /\ (p - 1) * C <= (n - 1) * C /\ p * C \in Nat
  BY <1>1, <1>2, <1>6
<1>8. p # n => p * C <= (n - 1) * C
  BY <1>1, <1>2, <1>6
<1>9. (n - 1) * C \in Nat
  BY <1>1, <1>2
<1>10. (1 - 1) * C = 0 /\ p + 1 - 1 = p
  BY <1>1, <1>6
<1>11. p # n => p + 1 \in 1..n
  BY <1>2, <1>6
<1>12. RangeStart(p) \in 0..MaxSize
  BY <1>1, <1>3, <1>5, <1>7, <1>9
<1>13. RangeEnd(p) \in 0..MaxSize
  BY <1>1, <1>3, <1>4, <1>7, <1>8, <1>9
<1> QED
  BY <1>2, <1>4, <1>5, <1>10, <1>11, <1>12, <1>13 DEF SourceRange, n, C

-----------------------------------------------------------------------------
(* Sorting the part numbers.                                                 *)

(* An ascending list of n different numbers from 1..n is 1, 2, ..., n: below *)
(* its i-th number are at least i - 1 others, and above it at least n - i.   *)
LEMMA AscendingIsIdentity ==
  ASSUME NEW n \in Nat, NEW t \in [1..n -> 1..n],
         \A i, j \in 1..n : i < j => t[i] < t[j]
  PROVE  t = [i \in 1..n |-> i]
<1> SUFFICES ASSUME NEW i \in 1..n PROVE t[i] = i
  OBVIOUS
<1> DEFINE v == t[i]
<1>1. /\ v \in Nat /\ 1 <= v /\ v <= n /\ i \in Nat /\ 1 <= i /\ i <= n
      /\ \A j \in 1..n : t[j] \in 1..n /\ (j < i => t[j] < v) /\ (i < j => v < t[j])
  OBVIOUS
<1>2. \A j, k \in 1..n : t[j] = t[k] => j = k
  <2> SUFFICES ASSUME NEW j \in 1..n, NEW k \in 1..n, t[j] = t[k] PROVE j = k
    OBVIOUS
  <2>1. ~(j < k) /\ ~(k < j)
    BY <1>1
  <2> QED
    BY <2>1
<1> HIDE DEF v
<1>3. i - 1 <= v - 1
  <2> DEFINE A == 1..(i - 1)
             B == 1..(v - 1)
             f == [j \in A |-> t[j]]
  <2>1. /\ IsFiniteSet(A) /\ IsFiniteSet(B)
        /\ Cardinality(A) = i - 1 /\ Cardinality(B) = v - 1
    <3>1. i - 1 \in Nat /\ v - 1 \in Nat
      BY <1>1
    <3> QED
      BY <3>1, FirstNumbers
  <2>2. \A j \in A : j \in 1..n /\ t[j] \in B
    BY <1>1
  <2> HIDE DEF A, B
  <2>3. f \in Injection(A, B)
    BY <1>2, <2>2 DEF Injection, IsInjective
  <2>4. Cardinality(A) <= Cardinality(B)
    BY <2>1, <2>3, FS_Injection
  <2> QED
    BY <2>1, <2>4
<1>4. n - i <= n - v
  <2> DEFINE A == (i + 1)..n
             B == (v + 1)..n
             f == [j \in A |-> t[j]]
  <2>1. /\ IsFiniteSet(A) /\ IsFiniteSet(B)
        /\ Cardinality(A) = n - i /\ Cardinality(B) = n - v
    <3>1. i + 1 \in Int /\ v + 1 \in Int /\ n \in Int
      BY <1>1
    <3>2. /\ IsFiniteSet(A) /\ Cardinality(A) = IF i + 1 > n THEN 0 ELSE n - (i + 1) + 1
          /\ IsFiniteSet(B) /\ Cardinality(B) = IF v + 1 > n THEN 0 ELSE n - (v + 1) + 1
      BY <3>1, FS_Interval
    <3> QED
      BY <1>1, <3>2
  <2>2. ASSUME NEW j \in A PROVE j \in 1..n /\ t[j] \in B
    <3>1. j \in 1..n /\ i < j
      BY <1>1
    <3>2. t[j] \in 1..n /\ v < t[j]
      BY <1>1, <3>1
    <3> QED
      BY <1>1, <3>1, <3>2
  <2> HIDE DEF A, B
  <2>3. f \in Injection(A, B)
    BY <1>2, <2>2 DEF Injection, IsInjective
  <2>4. Cardinality(A) <= Cardinality(B)
    BY <2>1, <2>3, FS_Injection
  <2> QED
    BY <2>1, <2>4
<1>5. v = i
  BY <1>1, <1>3, <1>4
<1> QED
  BY <1>5 DEF v

(* Sorting a list that has each of the numbers 1..n once gives 1, 2, ..., n. *)
LEMMA SortedIsIdentity ==
  ASSUME NEW n \in Nat, NEW parts \in Seq(1..n),
         \A i, j \in DOMAIN parts : parts[i] = parts[j] => i = j,
         \A m \in 1..n : \E i \in DOMAIN parts : parts[i] = m,
         NEW t \in Sorted(parts)
  PROVE  t = [i \in 1..n |-> i]
<1> DEFINE D == DOMAIN parts
<1>1. D = 1..Len(parts) /\ Len(parts) \in Nat /\ parts \in [D -> 1..n]
  OBVIOUS
<1>2. IsFiniteSet(D) /\ Cardinality(D) = Len(parts) /\ IsFiniteSet(1..n) /\ Cardinality(1..n) = n
  BY <1>1, FirstNumbers
<1>3. Len(parts) = n
  <2>1. parts \in Injection(D, 1..n)
    BY <1>1 DEF Injection, IsInjective
  <2>2. parts \in Surjection(D, 1..n)
    BY <1>1 DEF Surjection
  <2>3. Cardinality(D) <= Cardinality(1..n)
    BY <1>2, <2>1, FS_Injection
  <2>4. Cardinality(1..n) <= Cardinality(D)
    BY <1>2, <2>2, FS_Surjection
  <2> QED
    BY <1>1, <1>2, <2>3, <2>4
<1>4. PICK p \in Bijection(D, D) :
         /\ t = [i \in D |-> parts[p[i]]]
         /\ \A i, j \in D : i < j => parts[p[i]] <= parts[p[j]]
  BY DEF Sorted
<1>5. p \in [D -> D] /\ \A i, j \in D : p[i] = p[j] => i = j
  BY <1>4 DEF Bijection, Injection, IsInjective
<1>6. t \in [1..n -> 1..n]
  BY <1>1, <1>3, <1>4, <1>5
<1>7. ASSUME NEW i \in 1..n, NEW j \in 1..n, i < j
      PROVE  t[i] < t[j]
  <2>1. i \in D /\ j \in D /\ i # j
    BY <1>1, <1>3, <1>7
  <2>2. t[i] <= t[j]
    BY <1>4, <1>7, <2>1
  <2>3. t[i] # t[j]
    BY <1>4, <1>5, <2>1
  <2>4. t[i] \in Int /\ t[j] \in Int
    BY <1>6
  <2> QED
    BY <2>2, <2>3, <2>4
<1> QED
  BY <1>6, <1>7, AscendingIsIdentity

-----------------------------------------------------------------------------
(* The inductive invariant.                                                  *)

(* What the parts have done is what finished_parts lists, and S3 holds it.   *)
PartsInv ==
    /\ \A p \in AllParts : task[p] # "none" => p \in Parts
    /\ \A p \in cancelling : task[p] \in {"semaphore", "copying"}
    /\ \A p \in AllParts : task[p] = "done" <=> p \in Range(finished_parts)
    /\ \A i, j \in DOMAIN finished_parts : finished_parts[i] = finished_parts[j] => i = j
    /\ \A p \in AllParts : task[p] = "done" => p \in stored

(* Where the caller's task is, and what it has to show for it.               *)
MainInv ==
    /\ main = "done" <=> outcome # "running"
    /\ main \in {"head", "copy_object", "create"} => \A p \in AllParts : task[p] = "none"
    /\ main \in {"create", "gather", "complete", "abort"} => content_length >= 1
    /\ main = "gather" => \A p \in Parts : task[p] # "none"
    /\ main = "head" => object = <<>>
    /\ main = "abort" => exception \in {"part_error", "complete_error"}
    /\ object # <<>> => Tiles(object)
    /\ outcome = "returned" => object # <<>>

CopyInv == TypeOK /\ PartsInv /\ MainInv /\ CompleteRequestValid /\ NoOrphanUpload

(* The object S3 makes of the parts a valid request lists.                   *)
LEMMA CompletesWhole ==
  ASSUME CopyInv, main = "complete"
  PROVE  LET made == [i \in DOMAIN finished_parts |->
                        [lo |-> RangeStart(finished_parts[i]), hi |-> RangeEnd(finished_parts[i])]]
         IN  made \in Seq(SourceRange) /\ made # <<>> /\ Tiles(made)
<1> DEFINE R(i) == [lo |-> RangeStart(i), hi |-> RangeEnd(i)]
           made == [i \in DOMAIN finished_parts |->
                      [lo |-> RangeStart(finished_parts[i]), hi |-> RangeEnd(finished_parts[i])]]
           n == CeilDiv(content_length, MultipartChunksize)
<1>1. content_length \in 0..MaxSize /\ content_length >= 1
  BY DEF CopyInv, TypeOK, MainInv
<1>2. n \in Nat /\ Parts = 1..n /\ n >= 1
  BY <1>1, PartsAre
<1>3. finished_parts = [i \in Parts |-> i]
  BY DEF CopyInv, CompleteRequestValid
<1>4. made = [i \in Parts |-> R(i)]
  BY <1>3
<1>5. /\ \A i \in Parts : R(i) \in SourceRange /\ RangeStart(1) = 0
      /\ \A i \in Parts : i = n => RangeEnd(i) = content_length
      /\ \A i \in Parts : i # n => RangeEnd(i) = RangeStart(i + 1)
  BY <1>1, RangesAdjoin
<1> HIDE DEF made, n
<1>6. made \in Seq(SourceRange) /\ Len(made) = n
  BY <1>2, <1>4, <1>5
<1>7. made # <<>>
  BY <1>2, <1>6
<1>8. made[1].lo = 0 /\ made[Len(made)].hi = content_length
  <2>1. 1 \in Parts /\ n \in Parts
    BY <1>2
  <2> QED
    BY <1>4, <1>5, <1>6, <2>1
<1>9. ASSUME NEW i \in 1..(Len(made) - 1)
      PROVE  made[i].hi = made[i + 1].lo
  <2>1. i \in Parts /\ i + 1 \in Parts /\ i # n
    BY <1>2, <1>6
  <2> QED
    BY <1>4, <1>5, <2>1
<1> QED
  BY <1>6, <1>7, <1>8, <1>9 DEF Tiles, made

(* A copy in one request covers the source, too.                             *)
LEMMA WholeSourceTiles ==
  ASSUME content_length \in 0..MaxSize
  PROVE  WholeSource \in Seq(SourceRange) /\ WholeSource # <<>> /\ Tiles(WholeSource)
<1> DEFINE r == [lo |-> 0, hi |-> content_length]
<1>1. r \in SourceRange /\ WholeSource = <<r>> /\ r.lo = 0 /\ r.hi = content_length
  BY SizesAssumption DEF SourceRange, WholeSource
<1> HIDE DEF r
<1>2. WholeSource \in Seq(SourceRange) /\ Len(WholeSource) = 1 /\ WholeSource[1] = r
  BY <1>1
<1> QED
  BY <1>1, <1>2 DEF Tiles

(* The coroutines that hold the semaphore.                                   *)
Copying == {p \in AllParts : task[p] = "copying"}

(* AllParts is finite, and fewer coroutines are still few enough.            *)
LEMMA FewerCopying ==
  /\ IsFiniteSet(AllParts)
  /\ \A S, T \in SUBSET AllParts : S \subseteq T => Cardinality(S) <= Cardinality(T)
  /\ \A S \in SUBSET AllParts : Cardinality(S) \in Nat
  /\ \A S \in SUBSET AllParts, p \in AllParts : Cardinality(S \cup {p}) <= Cardinality(S) + 1
<1>1. IsFiniteSet(AllParts)
  <2>1. CeilDiv(MaxSize, MultipartChunksize) \in Nat
    BY SizesAssumption, CeilDivBounds
  <2> QED
    BY <2>1, FirstNumbers DEF AllParts
<1>2. \A S \in SUBSET AllParts : IsFiniteSet(S) /\ Cardinality(S) \in Nat
  BY <1>1, FS_Subset, FS_CardinalityType
<1>3. \A S, T \in SUBSET AllParts : S \subseteq T => Cardinality(S) <= Cardinality(T)
  BY <1>2, FS_Subset
<1>4. ASSUME NEW S \in SUBSET AllParts, NEW p \in AllParts
      PROVE  Cardinality(S \cup {p}) <= Cardinality(S) + 1
  <2>1. CASE p \in S
    <3>1. S \cup {p} = S
      BY <2>1
    <3> QED
      BY <1>2, <3>1
  <2>2. CASE p \notin S
    BY <1>2, <2>2, FS_AddElement
  <2> QED
    BY <2>1, <2>2
<1> QED
  BY <1>1, <1>2, <1>3, <1>4

(* No more coroutines ask S3 for a part than the semaphore lets through.     *)
LEMMA CopyingStep ==
  ASSUME CopyInv, [Next]_vars
  PROVE  Cardinality(Copying') <= MaxRequestConcurrency
<1> USE DEF mainVars, sourceVars, taskVars, s3Vars, others
<1>0. /\ Copying \subseteq AllParts /\ Copying' \subseteq AllParts
      /\ Cardinality(Copying) <= MaxRequestConcurrency /\ MaxRequestConcurrency \in Nat
      /\ task \in [AllParts -> {"none", "semaphore", "copying"} \cup Finished]
  BY SizesAssumption DEF CopyInv, TypeOK, Copying, AllParts
<1>1. CASE Copying' \subseteq Copying
  <2>1. Cardinality(Copying') <= Cardinality(Copying) /\ Cardinality(Copying') \in Nat
        /\ Cardinality(Copying) \in Nat
    BY <1>0, <1>1, FewerCopying
  <2> QED
    BY <1>0, <2>1
<1>2. ASSUME NEW p \in AllParts, Acquire(p)
      PROVE  Cardinality(Copying') <= MaxRequestConcurrency
  <2>1. {q \in Parts : task[q] = "copying"} = Copying
    <3>1. Parts \subseteq AllParts
      BY PartsAre DEF CopyInv, TypeOK
    <3> QED
      BY <3>1 DEF CopyInv, PartsInv, Copying
  <2>2. Cardinality(Copying) < MaxRequestConcurrency
    BY <1>2, <2>1 DEF Acquire
  <2>3. Copying' = Copying \cup {p}
    BY <1>0, <1>2 DEF Acquire, Moves, Goes, Copying, AllParts
  <2>4. Cardinality(Copying) \in Nat /\ Cardinality(Copying') <= Cardinality(Copying) + 1
        /\ Cardinality(Copying') \in Nat
    BY <1>0, <2>3, FewerCopying
  <2> QED
    BY <1>0, <2>2, <2>4
<1>3. ASSUME NEW p \in AllParts, PartSucceeds(p) \/ PartFails(p) \/ CancelDelivered(p)
      PROVE  Copying' \subseteq Copying
  <2>1. PICK to \in Finished : Goes(p, to)
    BY <1>3 DEF PartSucceeds, PartFails, CancelDelivered, Moves, Finished
  <2> QED
    BY <1>0, <2>1 DEF Goes, Copying, AllParts, Finished
<1>4. CreateSucceeds \/ UNCHANGED task => Copying' \subseteq Copying
  BY DEF CreateSucceeds, Copying, AllParts
<1> QED
  BY <1>1, <1>2, <1>3, <1>4
     DEF Next, Part, Main, vars, Resize, S3CopiesPart, CancelMain, HeadSucceeds, HeadFails,
         CopyObjectSucceeds, CopyObjectFails, CreateFails, GatherReturns, GatherRaises,
         CompleteSucceeds, CompleteFails, AbortSucceeds, AbortFails

(* Every variable keeps its type.                                            *)
LEMMA TypeStep ==
  ASSUME CopyInv, [Next]_vars
  PROVE  TypeOK'
<1> USE DEF mainVars, sourceVars, taskVars, s3Vars, others
<1>0. TypeOK /\ Parts \subseteq AllParts
  BY PartsAre DEF CopyInv, TypeOK
<1>1. Cardinality({p \in AllParts : task'[p] = "copying"}) <= MaxRequestConcurrency
  BY CopyingStep DEF Copying, AllParts
<1> DEFINE Typed ==
      /\ size' \in 0..MaxSize /\ resizes' \in 0..MaxResizes
      /\ main' \in {"head", "copy_object", "create", "gather", "complete", "abort", "done"}
      /\ outcome' \in {"running", "returned", "cancelled"} \cup Errors
      /\ exception' \in {"none"} \cup Errors
      /\ content_length' \in 0..MaxSize
      /\ task' \in [AllParts -> {"none", "semaphore", "copying"} \cup Finished]
      /\ cancelling' \subseteq AllParts
      /\ finished_parts' \in Seq(AllParts)
      /\ s3' \in {"none", "open", "completed", "aborted"}
      /\ stored' \subseteq AllParts
      /\ object' \in Seq(SourceRange)
<1> SUFFICES Typed
  BY <1>1 DEF TypeOK, AllParts, SourceRange
<1>2. CASE Resize
  BY <1>0, <1>2, SizesAssumption DEF Resize, TypeOK
<1>3. CASE HeadSucceeds \/ HeadFails \/ CreateFails
  BY <1>0, <1>3 DEF HeadSucceeds, HeadFails, CreateFails, Finish, TypeOK, Errors
<1>4. CASE CopyObjectSucceeds \/ CopyObjectFails
  <2>1. WholeSource \in Seq(SourceRange)
    BY <1>0, WholeSourceTiles DEF TypeOK
  <2> QED
    BY <1>0, <1>4, <2>1 DEF CopyObjectSucceeds, CopyObjectFails, Finish, TypeOK, Errors
<1>5. CASE CreateSucceeds
  BY <1>0, <1>5 DEF CreateSucceeds, TypeOK
<1>6. ASSUME NEW p \in AllParts, Part(p) \/ S3CopiesPart(p)
      PROVE  Typed
  <2>1. \A to \in {"none", "semaphore", "copying"} \cup Finished :
           Goes(p, to) => task' \in [AllParts -> {"none", "semaphore", "copying"} \cup Finished]
    BY <1>0 DEF Goes, TypeOK
  <2>2. CASE Acquire(p) \/ PartFails(p) \/ CancelDelivered(p) \/ S3CopiesPart(p)
    BY <1>0, <2>1, <2>2
       DEF Acquire, PartFails, CancelDelivered, S3CopiesPart, Moves, TypeOK, Finished
  <2>3. CASE PartSucceeds(p)
    BY <1>0, <2>1, <2>3 DEF PartSucceeds, TypeOK, Finished
  <2> QED
    BY <1>6, <2>2, <2>3 DEF Part
<1>7. CASE GatherReturns
  <2>1. finished_parts' \in Seq(AllParts)
    <3>1. PICK q \in Bijection(DOMAIN finished_parts, DOMAIN finished_parts) :
             finished_parts' = [i \in DOMAIN finished_parts |-> finished_parts[q[i]]]
      BY <1>7 DEF GatherReturns, Sorted
    <3>2. q \in [DOMAIN finished_parts -> DOMAIN finished_parts]
      BY <3>1 DEF Bijection, Injection
    <3>3. DOMAIN finished_parts = 1..Len(finished_parts) /\ Len(finished_parts) \in Nat
          /\ \A i \in DOMAIN finished_parts : finished_parts[i] \in AllParts
      BY <1>0 DEF TypeOK
    <3> QED
      BY <3>1, <3>2, <3>3
  <2> QED
    BY <1>0, <1>7, <2>1 DEF GatherReturns, TypeOK
<1>8. CASE GatherRaises
  BY <1>0, <1>8 DEF GatherRaises, Caught, Finish, TypeOK, Errors
<1>9. main = "complete" /\ Completes => object' \in Seq(SourceRange)
  BY CompletesWhole DEF Completes
<1>10. CASE CompleteSucceeds
  BY <1>0, <1>9, <1>10 DEF CompleteSucceeds, Completes, Finish, TypeOK
<1>11. CASE CompleteFails
  BY <1>0, <1>9, <1>11 DEF CompleteFails, Completes, Caught, TypeOK, Errors
<1>12. CASE AbortSucceeds \/ AbortFails
  <2>1. main = "abort" => exception \in Errors
    BY DEF CopyInv, MainInv, Errors
  <2> QED
    BY <1>0, <1>12, <2>1 DEF AbortSucceeds, AbortFails, Finish, TypeOK, Errors
<1>13. CASE CancelMain
  <2>1. WholeSource \in Seq(SourceRange)
    BY <1>0, WholeSourceTiles DEF TypeOK
  <2>2. object' \in Seq(SourceRange)
    BY <1>0, <1>9, <1>13, <2>1 DEF CancelMain, TypeOK
  <2>3. s3' \in {"none", "open", "completed", "aborted"}
    BY <1>0, <1>13 DEF CancelMain, Completes, TypeOK
  <2>4. cancelling' \subseteq AllParts
    BY <1>0, <1>13 DEF CancelMain, TypeOK
  <2>5. /\ UNCHANGED <<sourceVars, exception, content_length, task, finished_parts, stored>>
        /\ main' \in {main, "done"} /\ outcome' \in {outcome, "cancelled"}
    BY <1>13 DEF CancelMain, Finish
  <2> QED
    BY <1>0, <2>2, <2>3, <2>4, <2>5 DEF TypeOK
<1>14. CASE UNCHANGED vars
  BY <1>0, <1>14 DEF vars, TypeOK
<1> QED
  BY <1>2, <1>3, <1>4, <1>5, <1>6, <1>7, <1>8, <1>10, <1>11, <1>12, <1>13, <1>14 DEF Next, Main

(* After the sort the request lists part 1, part 2, and so on.               *)
LEMMA GatherSorts ==
  ASSUME CopyInv, GatherReturns
  PROVE  /\ finished_parts' = [i \in Parts |-> i]
         /\ Parts \subseteq stored
         /\ \A p \in Parts : task[p] = "done"
<1> DEFINE n == CeilDiv(content_length, MultipartChunksize)
<1>1. TypeOK /\ PartsInv /\ GatherDone
  BY DEF CopyInv, GatherReturns
<1>2. n \in Nat /\ Parts = 1..n /\ Parts \subseteq AllParts
  BY <1>1, PartsAre DEF TypeOK
<1>3. \A p \in Parts : task[p] = "done"
  BY <1>1 DEF GatherDone
<1>4. Parts \subseteq stored
  BY <1>1, <1>2, <1>3 DEF PartsInv
<1> HIDE DEF n
<1>5. finished_parts \in Seq(1..n)
  <2>1. \A i \in DOMAIN finished_parts : finished_parts[i] \in AllParts
    BY <1>1 DEF TypeOK
  <2>2. \A i \in DOMAIN finished_parts : finished_parts[i] \in Parts
    BY <1>1, <2>1 DEF PartsInv, Range
  <2> QED
    BY <1>1, <1>2, <2>2 DEF TypeOK
<1>6. \A m \in 1..n : \E i \in DOMAIN finished_parts : finished_parts[i] = m
  BY <1>1, <1>2, <1>3 DEF PartsInv, Range
<1>7. finished_parts' \in Sorted(finished_parts)
  BY DEF GatherReturns
<1>8. \A i, j \in DOMAIN finished_parts : finished_parts[i] = finished_parts[j] => i = j
  BY <1>1 DEF PartsInv
<1>9. finished_parts' = [i \in 1..n |-> i]
  BY <1>2, <1>5, <1>6, <1>7, <1>8, SortedIsIdentity
<1> QED
  BY <1>2, <1>3, <1>4, <1>9

(* finished_parts lists the parts that are done, each once.                  *)
LEMMA PartsStep ==
  ASSUME CopyInv, [Next]_vars
  PROVE  PartsInv'
<1> USE DEF mainVars, sourceVars, taskVars, s3Vars, others
<1>0. TypeOK /\ PartsInv /\ MainInv /\ Parts \subseteq AllParts
  BY PartsAre DEF CopyInv, TypeOK
<1>a. /\ task \in [AllParts -> {"none", "semaphore", "copying"} \cup Finished]
      /\ finished_parts \in Seq(AllParts) /\ cancelling \subseteq AllParts
  BY <1>0 DEF TypeOK
<1>b. content_length' = content_length => Parts' = Parts
  BY DEF Parts
<1>c. AllParts' = AllParts
  BY DEF AllParts
<1>1. CASE UNCHANGED <<content_length, taskVars, finished_parts, stored>>
  BY <1>0, <1>1, <1>b, <1>c DEF PartsInv
<1>2. CASE HeadSucceeds
  <2>1. \A p \in AllParts : task[p] = "none"
    BY <1>0, <1>2 DEF HeadSucceeds, MainInv
  <2> QED
    BY <1>0, <1>2, <1>c, <2>1 DEF HeadSucceeds, PartsInv
<1>3. CASE CreateSucceeds
  <2>1. \A p \in AllParts : task[p] = "none"
    BY <1>0, <1>3 DEF CreateSucceeds, MainInv
  <2>2. cancelling = {} /\ \A p \in AllParts : p \notin Range(finished_parts)
    BY <1>0, <1>a, <2>1 DEF PartsInv
  <2>3. /\ UNCHANGED <<content_length, cancelling, finished_parts, stored>>
        /\ \A p \in AllParts : task'[p] = IF p \in Parts THEN "semaphore" ELSE "none"
    BY <1>3 DEF CreateSucceeds
  <2> QED
    BY <1>0, <1>b, <1>c, <2>2, <2>3 DEF PartsInv
<1>4. ASSUME NEW p \in AllParts, Part(p) \/ S3CopiesPart(p)
      PROVE  PartsInv'
  <2>0. Parts' = Parts
    BY <1>4, <1>b DEF Part, S3CopiesPart, Acquire, Moves, PartSucceeds, PartFails, CancelDelivered
  <2>1. CASE S3CopiesPart(p)
    BY <1>0, <1>c, <2>0, <2>1 DEF S3CopiesPart, PartsInv
  <2>2. CASE Acquire(p) \/ PartFails(p) \/ CancelDelivered(p)
    <3>1. /\ UNCHANGED <<finished_parts, stored>>
          /\ task[p] \in {"semaphore", "copying"}
          /\ cancelling' \subseteq cancelling
          /\ \A q \in AllParts \ {p} : task'[q] = task[q]
          /\ task'[p] \in {"copying", "failed", "cancelled"}
          /\ p \in cancelling' => task'[p] = "copying"
      BY <1>0, <1>a, <2>2
         DEF Acquire, PartFails, CancelDelivered, Moves, Runs, Goes, PartsInv
    <3> QED
      BY <1>0, <1>a, <1>c, <2>0, <3>1 DEF PartsInv
  <2>3. CASE PartSucceeds(p)
    <3>1. /\ UNCHANGED <<cancelling, stored>> /\ p \in stored /\ p \notin cancelling
          /\ task[p] = "copying" /\ task'[p] = "done"
          /\ \A q \in AllParts \ {p} : task'[q] = task[q]
          /\ finished_parts' = Append(finished_parts, p)
      BY <1>a, <2>3 DEF PartSucceeds, Runs, Goes
    <3> DEFINE k == Len(finished_parts)
    <3>2. /\ k \in Nat /\ DOMAIN finished_parts = 1..k /\ DOMAIN finished_parts' = 1..(k + 1)
          /\ \A i \in 1..k : finished_parts'[i] = finished_parts[i]
          /\ finished_parts'[k + 1] = p
      BY <1>a, <3>1, AppendProperties
    <3> HIDE DEF k
    <3>3. \A i \in 1..(k + 1) : i \in 1..k \/ i = k + 1
      BY <3>2
    <3>4. Range(finished_parts') = Range(finished_parts) \cup {p}
      BY <3>2, <3>3 DEF Range
    <3>5. p \notin Range(finished_parts)
      BY <1>0, <3>1 DEF PartsInv
    <3>6. \A i, j \in 1..(k + 1) : finished_parts'[i] = finished_parts'[j] => i = j
      BY <1>0, <3>2, <3>3, <3>5 DEF PartsInv, Range
    <3> QED
      BY <1>0, <1>a, <1>c, <2>0, <3>1, <3>2, <3>4, <3>6 DEF PartsInv
  <2> QED
    BY <1>4, <2>1, <2>2, <2>3 DEF Part
<1>5. CASE GatherReturns
  <2>1. /\ finished_parts' = [i \in Parts |-> i]
        /\ \A p \in Parts : task[p] = "done"
    BY <1>5, GatherSorts
  <2>2. DOMAIN finished_parts' = Parts /\ Range(finished_parts') = Parts
        /\ \A i \in Parts : finished_parts'[i] = i
    BY <2>1 DEF Range
  <2>3. \A p \in AllParts : task[p] = "done" <=> p \in Parts
    BY <1>0, <2>1 DEF PartsInv
  <2>4. UNCHANGED <<content_length, taskVars, stored>>
    BY <1>5 DEF GatherReturns
  <2> QED
    BY <1>0, <1>b, <1>c, <2>2, <2>3, <2>4 DEF PartsInv
<1>6. CASE CancelMain
  <2>1. UNCHANGED <<content_length, task, finished_parts, stored>>
    BY <1>6 DEF CancelMain
  <2>2. \/ cancelling' = cancelling
        \/ main = "gather" /\ cancelling' = {p \in Parts : task[p] \notin Finished}
    BY <1>6 DEF CancelMain
  <2>3. \A p \in cancelling' : task[p] \in {"semaphore", "copying"}
    BY <1>0, <1>a, <2>2 DEF PartsInv, MainInv
  <2> QED
    BY <1>0, <1>b, <1>c, <2>1, <2>3 DEF PartsInv
<1> QED
  BY <1>1, <1>2, <1>3, <1>4, <1>5, <1>6
     DEF Next, Main, vars, Resize, HeadFails, CopyObjectSucceeds, CopyObjectFails,
         CreateFails, GatherRaises, CompleteSucceeds, CompleteFails, AbortSucceeds, AbortFails

(* Once the parts are sorted no task is left that could disturb the request. *)
LEMMA RequestStep ==
  ASSUME CopyInv, [Next]_vars
  PROVE  CompleteRequestValid'
<1> USE DEF mainVars, sourceVars, taskVars, s3Vars, others
<1>0. TypeOK /\ PartsInv /\ Parts \subseteq AllParts /\ cancelling \subseteq AllParts
  BY PartsAre DEF CopyInv, TypeOK
<1>1. content_length' = content_length => Parts' = Parts
  BY DEF Parts
<1>2. CASE main' # "complete"
  BY <1>2 DEF CompleteRequestValid
<1>3. CASE main = "complete"
  <2>1. /\ finished_parts = [i \in Parts |-> i] /\ Parts \subseteq stored
        /\ \A p \in Parts : task[p] = "done"
    BY <1>3 DEF CopyInv, CompleteRequestValid
  <2>2. /\ \A p \in AllParts : task[p] \in {"none", "done"}
        /\ cancelling = {}
    BY <1>0, <2>1 DEF PartsInv
  <2>3. ASSUME NEW p \in AllParts
        PROVE  ~Part(p) /\ ~S3CopiesPart(p)
    BY <2>2 DEF Part, S3CopiesPart, Acquire, PartSucceeds, PartFails, CancelDelivered,
                Moves, Runs
  <2>4. \/ UNCHANGED <<content_length, task, finished_parts, stored>>
        \/ HeadSucceeds \/ CreateSucceeds \/ GatherReturns
    BY <2>3 DEF Next, Main, vars, Resize, HeadFails, CopyObjectSucceeds, CopyObjectFails,
         CreateFails, GatherRaises, CompleteSucceeds, CompleteFails, AbortSucceeds,
         AbortFails, CancelMain
  <2>5. UNCHANGED <<content_length, task, finished_parts, stored>>
    BY <1>3, <2>4 DEF HeadSucceeds, CreateSucceeds, GatherReturns
  <2> QED
    BY <1>1, <2>1, <2>5 DEF CompleteRequestValid
<1>4. CASE GatherReturns
  BY <1>1, <1>4, GatherSorts DEF GatherReturns, CompleteRequestValid
<1>5. CASE main # "complete" /\ ~GatherReturns
  <2>1. ASSUME NEW p \in AllParts, Part(p) \/ S3CopiesPart(p)
        PROVE  main' = main
    BY <2>1 DEF Part, S3CopiesPart, Acquire, PartSucceeds, PartFails, CancelDelivered, Moves
  <2>2. main' # "complete"
    BY <1>5, <2>1
       DEF Next, Main, vars, Resize, HeadSucceeds, HeadFails, CopyObjectSucceeds,
         CopyObjectFails, CreateSucceeds, CreateFails, GatherRaises, CompleteSucceeds,
         CompleteFails, AbortSucceeds, AbortFails, CancelMain, Finish, Caught
  <2> QED
    BY <2>2 DEF CompleteRequestValid
<1> QED
  BY <1>2, <1>3, <1>4, <1>5

(* What a step does to the object, and to the length of the source.          *)
LEMMA ObjectStep ==
  ASSUME CopyInv, [Next]_vars
  PROVE  /\ object' # object => /\ outcome = "running" /\ object' # <<>> /\ Tiles(object')
                                /\ main \in {"copy_object", "complete"}
         /\ content_length' # content_length => HeadSucceeds
         /\ outcome' = "returned" /\ outcome # "returned" => object' # <<>>
<1> USE DEF mainVars, sourceVars, taskVars, s3Vars, others
<1>1. WholeSource # <<>> /\ Tiles(WholeSource)
  BY WholeSourceTiles DEF CopyInv, TypeOK
<1>2. main = "complete" /\ Completes => object' # <<>> /\ Tiles(object')
  BY CompletesWhole DEF Completes
<1>3. main # "done" => outcome = "running"
  BY DEF CopyInv, MainInv
<1>4. ASSUME NEW p \in AllParts, Part(p) \/ S3CopiesPart(p)
      PROVE  UNCHANGED <<object, content_length, outcome>>
  BY <1>4 DEF Part, S3CopiesPart, Acquire, PartSucceeds, PartFails, CancelDelivered, Moves
<1>5. CASE UNCHANGED <<object, content_length, outcome>>
  BY <1>5
<1>6. CASE HeadSucceeds
  BY <1>6 DEF HeadSucceeds
<1>7. CASE CopyObjectSucceeds \/ CopyObjectFails
  BY <1>1, <1>3, <1>7 DEF CopyObjectSucceeds, CopyObjectFails, Finish
<1>8. CASE CompleteSucceeds \/ CompleteFails
  BY <1>2, <1>3, <1>8 DEF CompleteSucceeds, CompleteFails, Caught, Finish
<1>9. CASE AbortSucceeds \/ AbortFails
  <2>1. main = "abort" => exception \in {"part_error", "complete_error"}
    BY DEF CopyInv, MainInv
  <2> QED
    BY <1>9, <2>1 DEF AbortSucceeds, AbortFails, Finish
<1>10. CASE CancelMain
  <2>1. /\ content_length' = content_length
        /\ outcome' \in {outcome, "cancelled"}
        /\ object' # object => /\ main \in {"copy_object", "complete"}
                               /\ object' = WholeSource \/ Completes
                               /\ object' # WholeSource => main = "complete" /\ Completes
    BY <1>10 DEF CancelMain, Finish
  <2> QED
    BY <1>1, <1>2, <1>3, <2>1
<1>11. CASE HeadFails \/ CreateFails \/ GatherRaises
  BY <1>11 DEF HeadFails, CreateFails, GatherRaises, Finish, Caught
<1> QED
  BY <1>4, <1>5, <1>6, <1>7, <1>8, <1>9, <1>10, <1>11
     DEF Next, Main, vars, Resize, CreateSucceeds, GatherReturns

(* The caller's task and the object it leaves.                               *)
LEMMA MainStep ==
  ASSUME CopyInv, [Next]_vars
  PROVE  MainInv' /\ NoOrphanUpload'
<1> USE DEF mainVars, sourceVars, taskVars, s3Vars, others
<1>0. TypeOK /\ PartsInv /\ MainInv /\ NoOrphanUpload /\ Parts \subseteq AllParts
  BY PartsAre DEF CopyInv, TypeOK
<1>a. /\ content_length' = content_length => Parts' = Parts
      /\ AllParts' = AllParts
  BY DEF Parts, AllParts
<1>1. /\ (object # <<>> => Tiles(object))'
      /\ outcome' = "returned" => object' # <<>>
      /\ main' = "head" => object' = <<>>
  <2>1. object' = object /\ content_length' = content_length => (Tiles(object) => Tiles(object)')
    BY DEF Tiles
  <2>2. object' # object => content_length' = content_length
    BY ObjectStep DEF HeadSucceeds
  <2>3. content_length' = content_length => (Tiles(object') => Tiles(object)')
    BY DEF Tiles
  <2>4. content_length' # content_length => object' = <<>>
    BY <1>0, ObjectStep DEF HeadSucceeds, MainInv
  <2>5. main' = "head" => main = "head"
    <3>1. ASSUME NEW p \in AllParts, Part(p) \/ S3CopiesPart(p)
          PROVE  main' = main
      BY <3>1 DEF Part, S3CopiesPart, Acquire, PartSucceeds, PartFails, CancelDelivered, Moves
    <3> QED
      BY <3>1 DEF Next, Main, vars, Resize, HeadSucceeds, HeadFails, CopyObjectSucceeds,
         CopyObjectFails, CreateSucceeds, CreateFails, GatherReturns, GatherRaises,
         CompleteSucceeds, CompleteFails, AbortSucceeds, AbortFails, CancelMain, Finish, Caught
  <2>6. main = "head" => object' = object
    BY ObjectStep
  <2>7. outcome' = "returned" => object' # <<>>
    BY <1>0, ObjectStep DEF MainInv
  <2> QED
    BY <1>0, <2>1, <2>2, <2>3, <2>4, <2>5, <2>6, <2>7, ObjectStep DEF MainInv
<1> DEFINE Rest ==
      /\ main' = "done" <=> outcome' # "running"
      /\ main' \in {"head", "copy_object", "create"} => \A p \in AllParts : task'[p] = "none"
      /\ main' \in {"create", "gather", "complete", "abort"} => content_length' >= 1
      /\ main' = "gather" => \A p \in Parts' : task'[p] # "none"
      /\ main' = "abort" => exception' \in {"part_error", "complete_error"}
      /\ outcome' \in {"part_error", "complete_error"} => s3' # "open"
<1> SUFFICES Rest
  BY <1>1, <1>a DEF MainInv, NoOrphanUpload
<1>2. CASE HeadSucceeds
  <2>1. size < MultipartThreshold \/ size >= 1
    BY <1>0, SizesAssumption DEF TypeOK
  <2> QED
    BY <1>0, <1>2, <2>1 DEF HeadSucceeds, MainInv, NoOrphanUpload
<1>3. CASE HeadFails \/ CopyObjectSucceeds \/ CopyObjectFails \/ CreateFails
  BY <1>0, <1>3 DEF HeadFails, CopyObjectSucceeds, CopyObjectFails, CreateFails, Finish
<1>4. CASE CreateSucceeds
  BY <1>0, <1>4, <1>a DEF CreateSucceeds, MainInv
<1>5. ASSUME NEW p \in AllParts, Part(p) \/ S3CopiesPart(p)
      PROVE  Rest
  <2>1. /\ UNCHANGED <<mainVars, s3>>
        /\ task[p] \in {"semaphore", "copying"}
        /\ \A q \in AllParts \ {p} : task'[q] = task[q]
        /\ task'[p] # "none"
    BY <1>0, <1>5 DEF Part, S3CopiesPart, Acquire, PartSucceeds, PartFails, CancelDelivered,
                      Moves, Runs, Goes, PartsInv, TypeOK
  <2> QED
    BY <1>0, <1>a, <2>1 DEF MainInv, NoOrphanUpload
<1>6. CASE GatherReturns \/ GatherRaises
  BY <1>0, <1>6, <1>a DEF GatherReturns, GatherRaises, Caught, Finish, MainInv, NoOrphanUpload
<1>7. CASE CompleteSucceeds \/ CompleteFails
  BY <1>0, <1>7, <1>a DEF CompleteSucceeds, CompleteFails, Completes, Caught, Finish, MainInv
<1>8. CASE AbortSucceeds \/ AbortFails
  BY <1>0, <1>8, <1>a DEF AbortSucceeds, AbortFails, Finish, MainInv
<1>9. CASE CancelMain
  <2>1. \/ main = "gather" /\ UNCHANGED <<main, outcome, s3>>
        \/ main # "done" /\ main' = "done" /\ outcome' = "cancelled"
    BY <1>9 DEF CancelMain, Finish
  <2>2. UNCHANGED <<content_length, task, exception>>
    BY <1>9 DEF CancelMain
  <2> QED
    BY <1>0, <1>a, <2>1, <2>2 DEF MainInv, NoOrphanUpload
<1>10. CASE Resize \/ UNCHANGED vars
  BY <1>0, <1>10, <1>a DEF Resize, vars, MainInv, NoOrphanUpload
<1> QED
  BY <1>2, <1>3, <1>4, <1>5, <1>6, <1>7, <1>8, <1>9, <1>10 DEF Next, Main

-----------------------------------------------------------------------------
(* In every reachable state finished_parts lists exactly the parts that are  *)
(* done, and the caller's task is where its outcome and the object say.      *)
THEOREM CopyInvariant == Spec => []CopyInv
<1>1. Init => CopyInv
  <2> SUFFICES ASSUME Init PROVE CopyInv
    OBVIOUS
  <2>1. /\ <<>> \in Seq(AllParts) /\ <<>> \in Seq(SourceRange) /\ DOMAIN <<>> = {}
        /\ MaxSize \in Nat /\ MaxResizes \in Nat /\ MaxRequestConcurrency \in Nat
    BY SizesAssumption
  <2>2. {p \in AllParts : task[p] = "copying"} = {}
    BY DEF Init
  <2>3. Cardinality({p \in AllParts : task[p] = "copying"}) <= MaxRequestConcurrency
    BY <2>1, <2>2, FS_EmptySet
  <2>4. TypeOK
    BY <2>1, <2>3 DEF Init, TypeOK
  <2>5. PartsInv
    BY <2>1 DEF Init, PartsInv, Range
  <2>6. MainInv /\ CompleteRequestValid /\ NoOrphanUpload
    BY DEF Init, MainInv, CompleteRequestValid, NoOrphanUpload
  <2> QED
    BY <2>4, <2>5, <2>6 DEF CopyInv
<1>2. CopyInv /\ [Next]_vars => CopyInv'
  BY TypeStep, PartsStep, RequestStep, MainStep DEF CopyInv
<1> QED
  BY <1>1, <1>2, PTL DEF Spec

(* Every variable keeps its type, and no more than max_request_concurrency   *)
(* upload_part_copy requests are under way at once (lines 650-656).          *)
THEOREM TypeCorrect == Spec => []TypeOK
<1>1. CopyInv => TypeOK
  BY DEF CopyInv
<1> QED
  BY <1>1, CopyInvariant, PTL

(* complete_multipart_upload lists every part once, in order, all of them    *)
(* copied and no other under way, however the part responses were ordered.   *)
THEOREM CompletesWithTheSource == Spec => []CompleteRequestValid
<1>1. CopyInv => CompleteRequestValid
  BY DEF CopyInv
<1> QED
  BY <1>1, CopyInvariant, PTL

(* A call that raises the error of a part or of the completion leaves no     *)
(* open upload at S3 (lines 702-707).                                        *)
THEOREM LeavesNoUpload == Spec => []NoOrphanUpload
<1>1. CopyInv => NoOrphanUpload
  BY DEF CopyInv
<1> QED
  BY <1>1, CopyInvariant, PTL

(* copy implements AtomicUpload: whatever fails, whenever the caller is      *)
(* cancelled and whatever the parts still running do, the key holds its      *)
(* previous object or a whole copy, a call that returns has stored one, and  *)
(* a call that has ended stores nothing more.                                *)
THEOREM ImplementsAtomicUpload == Spec => RefinesAtomicUpload
<1>1. Init => Atomic!Init
  BY DEF Init, Atomic!Init
<1>2. CopyInv /\ CopyInv' /\ [Next]_vars => [Atomic!Next]_(Atomic!vars)
  <2> SUFFICES ASSUME CopyInv, CopyInv', [Next]_vars
               PROVE  [Atomic!Next]_(Atomic!vars)
    OBVIOUS
  <2> DEFINE M == IF object = <<>> THEN "previous"
                  ELSE IF Tiles(object) THEN "whole" ELSE "torn"
             R == IF outcome \in {"running", "returned"} THEN outcome ELSE "raised"
  <2>1. /\ M = IF object = <<>> THEN "previous" ELSE "whole"
        /\ M' = IF object' = <<>> THEN "previous" ELSE "whole"
    <3>1. object # <<>> => Tiles(object)
      BY DEF CopyInv, MainInv
    <3>2. (object # <<>> => Tiles(object))'
      BY DEF CopyInv, MainInv
    <3> QED
      BY <3>1, <3>2
  <2>2. /\ object' # object => outcome = "running" /\ object' # <<>>
        /\ outcome' = "returned" => object' # <<>>
    BY ObjectStep DEF CopyInv, MainInv
  <2>3. outcome' # outcome => outcome = "running"
    <3>1. main # "done" => outcome = "running"
      BY DEF CopyInv, MainInv
    <3>2. main = "done" => outcome' = outcome
      <4>1. ASSUME NEW p \in AllParts, Part(p) \/ S3CopiesPart(p)
            PROVE  outcome' = outcome
        BY <4>1 DEF Part, S3CopiesPart, Acquire, PartSucceeds, PartFails, CancelDelivered,
                    Moves, mainVars
      <4> QED
        BY <4>1 DEF Next, Main, vars, mainVars, Resize, HeadSucceeds, HeadFails,
           CopyObjectSucceeds, CopyObjectFails, CreateSucceeds, CreateFails, GatherReturns,
           GatherRaises, CompleteSucceeds, CompleteFails, AbortSucceeds, AbortFails, CancelMain
    <3> QED
      BY <3>1, <3>2
  <2>4. \/ M' = M /\ R' = R
        \/ R = "running" /\ M' = "whole" /\ R' = R
        \/ R = "running" /\ R' = "raised" /\ M' \in {M, "whole"}
        \/ R = "running" /\ R' = "returned" /\ M' = "whole"
    BY <2>1, <2>2, <2>3
  <2> QED
    BY <2>4 DEF Atomic!Next, Atomic!vars, Atomic!Store, Atomic!Return, Atomic!Raise
<1> QED
  BY <1>1, <1>2, CopyInvariant, PTL DEF Spec, RefinesAtomicUpload, Atomic!Spec

-----------------------------------------------------------------------------
(* How long a call can go on.                                                *)

Waiting == {p \in AllParts : task[p] \in {"none", "semaphore"}}
Unfinished == {p \in AllParts : task[p] \notin Finished}
Uncopied == AllParts \ stored

(* The steps the caller's task has ahead of it, at most.                     *)
MainRank ==
    CASE main = "head" -> 5
      [] main \in {"copy_object", "create"} -> 4
      [] main = "gather" -> 3
      [] main = "complete" -> 2
      [] main = "abort" -> 1
      [] main = "done" -> 0

(* The gather is cancelled at most once.                                     *)
CancelRank == IF \E p \in AllParts : p \in cancelling \/ task[p] = "cancelled" THEN 0 ELSE 1

(* The steps there can still be, of the call and of the tasks it started.    *)
Rank == Cardinality(Waiting) + Cardinality(Unfinished) + Cardinality(Uncopied)
        + MainRank + CancelRank

(* A proper part of a set of parts has fewer of them.                        *)
LEMMA FewerParts ==
  ASSUME NEW S \in SUBSET AllParts, NEW T \in SUBSET AllParts, S \subseteq T
  PROVE  /\ Cardinality(S) \in Nat /\ Cardinality(T) \in Nat
         /\ Cardinality(S) <= Cardinality(T)
         /\ S # T => Cardinality(S) < Cardinality(T)
<1>1. IsFiniteSet(T)
  BY FewerCopying, FS_Subset
<1>2. Cardinality(S) <= Cardinality(T) /\ (Cardinality(S) = Cardinality(T) => S = T)
  BY <1>1, FS_Subset
<1>3. Cardinality(S) \in Nat /\ Cardinality(T) \in Nat
  BY FewerCopying
<1> QED
  BY <1>2, <1>3

(* A sum falls when one of its terms does and no other one grows.            *)
LEMMA SumFalls ==
  \A a, b, c, d, e, v, w, x, y, z \in Nat :
      v <= a /\ w <= b /\ x <= c /\ y <= d /\ z <= e
      /\ (v < a \/ w < b \/ x < c \/ y < d \/ z < e)
      => v + w + x + y + z < a + b + c + d + e
OBVIOUS

(* A step of a part's coroutine, or of S3 for that part.                     *)
LEMMA PartRank ==
  ASSUME CopyInv, NEW p \in AllParts, Part(p) \/ S3CopiesPart(p)
  PROVE  /\ Waiting' \subseteq Waiting /\ Unfinished' \subseteq Unfinished
         /\ Uncopied' \subseteq Uncopied
         /\ Waiting' # Waiting \/ Unfinished' # Unfinished \/ Uncopied' # Uncopied
         /\ MainRank' = MainRank /\ CancelRank' <= CancelRank
<1> USE DEF mainVars, sourceVars, taskVars, s3Vars
<1>0. /\ task \in [AllParts -> {"none", "semaphore", "copying"} \cup Finished]
      /\ \A q \in cancelling : task[q] \in {"semaphore", "copying"}
      /\ AllParts' = AllParts
  BY DEF CopyInv, TypeOK, PartsInv, AllParts
<1>1. main' = main
  BY DEF Part, S3CopiesPart, Acquire, PartSucceeds, PartFails, CancelDelivered, Moves
<1>2. MainRank' = MainRank
  BY <1>1 DEF MainRank
<1>3. CASE S3CopiesPart(p)
  <2>1. UNCHANGED <<task, cancelling>> /\ p \notin stored /\ stored' = stored \cup {p}
    BY <1>3 DEF S3CopiesPart
  <2>2. Waiting' = Waiting /\ Unfinished' = Unfinished /\ CancelRank' = CancelRank
    BY <1>0, <2>1 DEF Waiting, Unfinished, CancelRank
  <2>3. Uncopied' \subseteq Uncopied /\ p \in Uncopied /\ p \notin Uncopied'
    BY <1>0, <2>1 DEF Uncopied
  <2>4. CancelRank \in Int
    BY DEF CancelRank
  <2> QED
    BY <1>2, <2>2, <2>3, <2>4
<1>4. CASE Part(p)
  <2>1. /\ stored' = stored
        /\ \/ task[p] = "semaphore" /\ task' = [task EXCEPT ![p] = "copying"]
           \/ task[p] \in {"semaphore", "copying"}
              /\ \E to \in Finished : task' = [task EXCEPT ![p] = to]
        /\ \/ cancelling' = cancelling
           \/ cancelling' = cancelling \ {p} /\ task' = [task EXCEPT ![p] = "cancelled"]
    BY <1>0, <1>4 DEF Part, Acquire, PartSucceeds, PartFails, CancelDelivered, Moves, Runs,
                      Goes, Finished
  <2>2. Uncopied' = Uncopied
    BY <1>0, <2>1 DEF Uncopied
  <2>3. /\ task'[p] # "none" /\ task'[p] # "semaphore" /\ task[p] \notin Finished
        /\ \A q \in AllParts : q # p => task'[q] = task[q]
        /\ task[p] = "semaphore" \/ task'[p] \in Finished
    BY <1>0, <2>1 DEF Finished
  <2>4. Waiting' \subseteq Waiting /\ Unfinished' \subseteq Unfinished
    BY <1>0, <2>3 DEF Waiting, Unfinished
  <2>5. \/ p \in Waiting /\ p \notin Waiting'
        \/ p \in Unfinished /\ p \notin Unfinished'
    BY <1>0, <2>3 DEF Waiting, Unfinished
  <2>6. ASSUME NEW q \in AllParts, q \in cancelling \/ task[q] = "cancelled"
        PROVE  q \in cancelling' \/ task'[q] = "cancelled"
    BY <1>0, <2>1, <2>6 DEF Finished
  <2>7. CancelRank' <= CancelRank
    BY <1>0, <2>6 DEF CancelRank
  <2> QED
    BY <1>2, <2>2, <2>4, <2>5, <2>7
<1> QED
  BY <1>3, <1>4

(* A step of the caller's task, or its cancellation.                         *)
LEMMA CallerRank ==
  ASSUME CopyInv, Main \/ CancelMain
  PROVE  /\ Waiting' = Waiting /\ Unfinished' = Unfinished /\ Uncopied' = Uncopied
         /\ MainRank' <= MainRank /\ CancelRank' <= CancelRank
         /\ MainRank' < MainRank \/ CancelRank' < CancelRank
<1> USE DEF mainVars, sourceVars, taskVars, s3Vars, others
<1>0. /\ task \in [AllParts -> {"none", "semaphore", "copying"} \cup Finished]
      /\ main \in {"head", "copy_object", "create", "gather", "complete", "abort", "done"}
      /\ \A q \in AllParts : task[q] # "none" => q \in Parts
      /\ \A q \in cancelling : task[q] \in {"semaphore", "copying"}
      /\ main = "create" => \A q \in AllParts : task[q] = "none"
      /\ cancelling \subseteq AllParts /\ Parts \subseteq AllParts /\ AllParts' = AllParts
  BY PartsAre DEF CopyInv, TypeOK, PartsInv, MainInv, AllParts
<1>1. CASE Main
  <2>1. /\ UNCHANGED <<cancelling, stored>>
        /\ \/ task' = task
           \/ main = "create" /\ task' = [q \in AllParts |-> IF q \in Parts THEN "semaphore" ELSE "none"]
    BY <1>1 DEF Main, HeadSucceeds, HeadFails, CopyObjectSucceeds, CopyObjectFails,
       CreateSucceeds, CreateFails, GatherReturns, GatherRaises, CompleteSucceeds,
       CompleteFails, AbortSucceeds, AbortFails
  <2>2. \/ main = "head" /\ main' \in {"copy_object", "create", "done"}
        \/ main = "copy_object" /\ main' = "done"
        \/ main = "create" /\ main' \in {"gather", "done"}
        \/ main = "gather" /\ main' \in {"complete", "abort", "done"}
        \/ main = "complete" /\ main' \in {"abort", "done"}
        \/ main = "abort" /\ main' = "done"
    BY <1>1 DEF Main, HeadSucceeds, HeadFails, CopyObjectSucceeds, CopyObjectFails,
       CreateSucceeds, CreateFails, GatherReturns, GatherRaises, CompleteSucceeds,
       CompleteFails, AbortSucceeds, AbortFails, Finish, Caught
  <2>3. MainRank' < MainRank /\ MainRank' \in Int /\ MainRank \in Int
    BY <2>2 DEF MainRank
  <2>4. \A q \in AllParts : \/ task'[q] = task[q]
                            \/ task[q] = "none" /\ task'[q] \in {"none", "semaphore"}
    BY <1>0, <2>1
  <2>5. Waiting' = Waiting /\ Unfinished' = Unfinished
    BY <1>0, <2>4 DEF Waiting, Unfinished, Finished
  <2>6. Uncopied' = Uncopied
    BY <1>0, <2>1 DEF Uncopied
  <2>7. CancelRank' <= CancelRank
    BY <1>0, <2>1, <2>4 DEF CancelRank
  <2> QED
    BY <2>3, <2>5, <2>6, <2>7
<1>2. CASE CancelMain
  <2>1. UNCHANGED <<task, stored>>
    BY <1>2 DEF CancelMain
  <2>2. Waiting' = Waiting /\ Unfinished' = Unfinished /\ Uncopied' = Uncopied
    BY <1>0, <2>1 DEF Waiting, Unfinished, Uncopied
  <2>3. CASE main = "gather" /\ ~GatherOver
    <3>1. /\ main' = main /\ cancelling = {}
          /\ cancelling' = {p \in Parts : task[p] \notin Finished}
      BY <1>2, <2>3 DEF CancelMain
    <3>2. PICK p \in Parts : task[p] # "done"
      BY <2>3 DEF GatherOver, GatherDone
    <3>3. \A q \in Parts : task[q] # "failed" /\ task[q] # "cancelled"
      BY <2>3 DEF GatherOver
    <3>4. p \in cancelling' /\ p \in AllParts
      BY <1>0, <3>1, <3>2, <3>3 DEF Finished
    <3>5. CancelRank = 1
      BY <1>0, <3>1, <3>3 DEF CancelRank
    <3>6. CancelRank' = 0
      BY <1>0, <3>4 DEF CancelRank
    <3>7. MainRank' = MainRank /\ MainRank \in Int
      BY <1>0, <3>1 DEF MainRank
    <3> QED
      BY <2>2, <3>5, <3>6, <3>7
  <2>4. CASE ~(main = "gather" /\ ~GatherOver)
    <3>1. main # "done" /\ main' = "done" /\ cancelling' = cancelling
      BY <1>2, <2>4 DEF CancelMain, Finish
    <3>2. MainRank' < MainRank /\ MainRank' \in Int /\ MainRank \in Int
      BY <1>0, <3>1 DEF MainRank
    <3>3. CancelRank' = CancelRank /\ CancelRank \in Int
      BY <1>0, <2>1, <3>1 DEF CancelRank
    <3> QED
      BY <2>2, <3>2, <3>3
  <2> QED
    BY <2>3, <2>4
<1> QED
  BY <1>1, <1>2

(* A call takes boundedly many steps, and so do the coroutines it leaves     *)
(* running: every step but another client's overwriting of the source lowers *)
(* Rank, a natural number, which that one leaves alone.  Whatever fails and  *)
(* whenever it is cancelled, copy never polls, retries or starts over.       *)
THEOREM CopyIsBounded ==
  Spec => [](Rank \in Nat) /\ [][Rank' < Rank \/ (Resize /\ Rank' = Rank)]_vars
<1>1. CopyInv => /\ Rank \in Nat /\ Waiting \subseteq AllParts
                 /\ Unfinished \subseteq AllParts /\ Uncopied \subseteq AllParts
                 /\ MainRank \in Nat /\ CancelRank \in Nat
  <2> SUFFICES ASSUME CopyInv
               PROVE  /\ Rank \in Nat /\ Waiting \subseteq AllParts
                      /\ Unfinished \subseteq AllParts /\ Uncopied \subseteq AllParts
                      /\ MainRank \in Nat /\ CancelRank \in Nat
    OBVIOUS
  <2>1. Waiting \subseteq AllParts /\ Unfinished \subseteq AllParts /\ Uncopied \subseteq AllParts
    BY DEF Waiting, Unfinished, Uncopied
  <2>2. /\ Cardinality(Waiting) \in Nat /\ Cardinality(Unfinished) \in Nat
        /\ Cardinality(Uncopied) \in Nat
    BY <2>1, FewerCopying
  <2>3. CancelRank \in Nat
    BY DEF CancelRank
  <2>4. MainRank \in Nat
    BY DEF CopyInv, TypeOK, MainRank
  <2> QED
    BY <2>1, <2>2, <2>3, <2>4 DEF Rank
<1>2. CopyInv /\ CopyInv' /\ [Next]_vars => [Rank' < Rank \/ (Resize /\ Rank' = Rank)]_vars
  <2> SUFFICES ASSUME CopyInv, CopyInv', Next
               PROVE  Rank' < Rank \/ (Resize /\ Rank' = Rank)
    OBVIOUS
  <2>1. CASE Resize
    <3>1. UNCHANGED <<task, cancelling, stored, main>> /\ AllParts' = AllParts
      BY <2>1 DEF Resize, mainVars, taskVars, s3Vars, AllParts
    <3>2. Waiting' = Waiting /\ Unfinished' = Unfinished /\ Uncopied' = Uncopied
      BY <3>1 DEF Waiting, Unfinished, Uncopied
    <3>3. MainRank' = MainRank /\ CancelRank' = CancelRank
      BY <3>1 DEF MainRank, CancelRank
    <3> QED
      BY <2>1, <3>2, <3>3 DEF Rank
  <2>2. CASE ~Resize
    <3>1. /\ Waiting' \subseteq Waiting /\ Unfinished' \subseteq Unfinished
          /\ Uncopied' \subseteq Uncopied
          /\ MainRank' <= MainRank /\ CancelRank' <= CancelRank
          /\ \/ Waiting' # Waiting \/ Unfinished' # Unfinished \/ Uncopied' # Uncopied
             \/ MainRank' < MainRank \/ CancelRank' < CancelRank
      <4>1. ASSUME NEW p \in AllParts, Part(p) \/ S3CopiesPart(p) PROVE MainRank' <= MainRank
        BY <1>1, <4>1, PartRank
      <4> QED
        BY <2>2, <4>1, PartRank, CallerRank DEF Next
    <3> DEFINE a == Cardinality(Waiting)
               b == Cardinality(Unfinished)
               c == Cardinality(Uncopied)
    <3>2. /\ Waiting \in SUBSET AllParts /\ Waiting' \in SUBSET AllParts
          /\ Unfinished \in SUBSET AllParts /\ Unfinished' \in SUBSET AllParts
          /\ Uncopied \in SUBSET AllParts /\ Uncopied' \in SUBSET AllParts
      BY <1>1, <3>1
    <3>3. a \in Nat /\ a' \in Nat /\ a' <= a /\ (Waiting' # Waiting => a' < a)
      BY <3>1, <3>2, FewerParts
    <3>4. b \in Nat /\ b' \in Nat /\ b' <= b /\ (Unfinished' # Unfinished => b' < b)
      BY <3>1, <3>2, FewerParts
    <3>5. c \in Nat /\ c' \in Nat /\ c' <= c /\ (Uncopied' # Uncopied => c' < c)
      BY <3>1, <3>2, FewerParts
    <3>6. /\ MainRank \in Nat /\ MainRank' \in Nat /\ CancelRank \in Nat /\ CancelRank' \in Nat
      <4>1. (MainRank \in Nat)' /\ (CancelRank \in Nat)'
        BY <1>1 DEF CopyInv, TypeOK, MainRank, CancelRank
      <4> QED
        BY <1>1, <4>1
    <3>7. /\ Rank = a + b + c + MainRank + CancelRank
          /\ Rank' = a' + b' + c' + MainRank' + CancelRank'
      BY DEF Rank
    <3>8. /\ a' <= a /\ b' <= b /\ c' <= c /\ MainRank' <= MainRank /\ CancelRank' <= CancelRank
          /\ a' < a \/ b' < b \/ c' < c \/ MainRank' < MainRank \/ CancelRank' < CancelRank
      BY <3>1, <3>3, <3>4, <3>5
    <3>9. a \in Nat /\ a' \in Nat /\ b \in Nat /\ b' \in Nat /\ c \in Nat /\ c' \in Nat
      BY <3>3, <3>4, <3>5
    <3> HIDE DEF a, b, c
    <3>10. a' + b' + c' + MainRank' + CancelRank' < a + b + c + MainRank + CancelRank
      BY <3>6, <3>8, <3>9, SumFalls
    <3> QED
      BY <3>7, <3>10
  <2> QED
    BY <2>1, <2>2
<1> QED
  BY <1>1, <1>2, CopyInvariant, PTL DEF Spec

=============================================================================
