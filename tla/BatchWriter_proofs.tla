-------------------------- MODULE BatchWriter_proofs --------------------------
(****************************************************************************)
(* What BatchWriter guarantees for any number of tasks and keys, any         *)
(* flush_amount, and any sequence of requests.                               *)
(****************************************************************************)
EXTENDS BatchWriter, FiniteSetTheorems, SequenceTheorems, TLAPS

-----------------------------------------------------------------------------
(* Lists.                                                                    *)

(* Nth enumerates a finite set of numbers in ascending order.                *)
LEMMA NthAscends ==
  ASSUME NEW S \in SUBSET Nat, IsFiniteSet(S)
  PROVE  /\ \A i \in 1..Cardinality(S) : Nth(S, i) \in S
         /\ \A i, j \in 1..Cardinality(S) : i < j => Nth(S, i) < Nth(S, j)
         /\ \A p \in S : \E i \in 1..Cardinality(S) : Nth(S, i) = p
<1> DEFINE n == Cardinality(S)
           Below(p) == {q \in S : q <= p}
           rank == [p \in S |-> Cardinality(Below(p))]
<1>0. n \in Nat
  BY FS_CardinalityType
<1>1. \A p \in S : IsFiniteSet(Below(p)) /\ Cardinality(Below(p)) \in Nat
  <2> SUFFICES ASSUME NEW p \in S
               PROVE  IsFiniteSet(Below(p)) /\ Cardinality(Below(p)) \in Nat
    OBVIOUS
  <2>1. Below(p) \in SUBSET S
    OBVIOUS
  <2> QED
    BY <2>1, FS_Subset, FS_CardinalityType
<1>2. \A p \in S : rank[p] \in 1..n
  <2> SUFFICES ASSUME NEW p \in S PROVE Cardinality(Below(p)) \in 1..n
    OBVIOUS
  <2>1. Below(p) \in SUBSET S /\ p \in Below(p)
    OBVIOUS
  <2>2. Cardinality(Below(p)) <= n
    BY <2>1, FS_Subset
  <2>3. Cardinality(Below(p)) # 0
    BY <1>1, <2>1, FS_EmptySet
  <2> QED
    BY <1>0, <1>1, <2>2, <2>3
<1>3. \A p, r \in S : p < r => rank[p] < rank[r]
  <2> SUFFICES ASSUME NEW p \in S, NEW r \in S, p < r
               PROVE  Cardinality(Below(p)) < Cardinality(Below(r))
    OBVIOUS
  <2>1. Below(p) \in SUBSET Below(r) /\ r \in Below(r) /\ r \notin Below(p)
    <3>1. (\A q \in S : q <= p => q <= r) /\ r <= r /\ ~(r <= p)
      OBVIOUS
    <3> QED
      BY <3>1
  <2>2. /\ Cardinality(Below(p)) <= Cardinality(Below(r))
        /\ Cardinality(Below(r)) = Cardinality(Below(p)) => Below(r) = Below(p)
    BY <1>1, <2>1, FS_Subset
  <2>3. Below(r) # Below(p)
    BY <2>1
  <2> QED
    BY <1>1, <2>2, <2>3
<1>4. rank \in Surjection(S, 1..n)
  <2>1. rank \in Injection(S, 1..n)
    <3>1. \A p, r \in S : rank[p] = rank[r] => p = r
      <4> SUFFICES ASSUME NEW p \in S, NEW r \in S, p # r
                   PROVE  rank[p] # rank[r]
        OBVIOUS
      <4>1. p < r \/ r < p
        OBVIOUS
      <4>2. rank[p] \in Nat /\ rank[r] \in Nat
        BY <1>1
      <4>3. rank[p] < rank[r] \/ rank[r] < rank[p]
        BY <1>3, <4>1
      <4> QED
        BY <4>2, <4>3
    <3>2. rank \in [S -> 1..n]
      BY <1>2
    <3> QED
      BY <3>1, <3>2 DEF Injection, IsInjective
  <2>2. IsFiniteSet(1..n) /\ Cardinality(1..n) = n
    <3>1. Cardinality(1..n) = IF 1 > n THEN 0 ELSE n - 1 + 1
      BY <1>0, FS_Interval
    <3> QED
      BY <1>0, <3>1, FS_Interval
  <2> QED
    BY <2>1, <2>2, FS_Injection
<1>5. \A i \in 1..n : Nth(S, i) \in S /\ rank[Nth(S, i)] = i
  <2> SUFFICES ASSUME NEW i \in 1..n
               PROVE  Nth(S, i) \in S /\ Cardinality(Below(Nth(S, i))) = i
    OBVIOUS
  <2>1. \E p \in S : Cardinality(Below(p)) = i
    BY <1>4 DEF Surjection
  <2> QED
    BY <2>1 DEF Nth
<1>6. ASSUME NEW i \in 1..n, NEW j \in 1..n, i < j
      PROVE  Nth(S, i) < Nth(S, j)
  <2>1. Nth(S, i) \in Nat /\ Nth(S, j) \in Nat
    BY <1>5
  <2>2. CASE Nth(S, j) < Nth(S, i)
    <3>1. rank[Nth(S, j)] < rank[Nth(S, i)]
      BY <1>3, <1>5, <2>2
    <3>2. j < i
      BY <1>5, <3>1
    <3> QED
      BY <1>6, <3>2
  <2>3. CASE Nth(S, j) = Nth(S, i)
    <3>1. i = j
      BY <1>5, <2>3
    <3> QED
      BY <1>6, <3>1
  <2> QED
    BY <2>1, <2>2, <2>3
<1>7. ASSUME NEW p \in S
      PROVE  \E i \in 1..n : Nth(S, i) = p
  <2>1. rank[p] \in 1..n
    BY <1>2
  <2>2. Nth(S, rank[p]) \in S /\ rank[Nth(S, rank[p])] = rank[p]
    BY <1>5, <2>1
  <2> DEFINE q == Nth(S, rank[p])
  <2>3. rank[q] = rank[p] /\ q \in S /\ rank[p] \in Nat
    BY <2>1, <2>2
  <2>4. ASSUME NEW x \in S, NEW y \in S, rank[x] = rank[y], rank[x] \in Nat
        PROVE  ~(x < y)
    <3> SUFFICES ASSUME x < y PROVE FALSE
      OBVIOUS
    <3>1. rank[x] < rank[y]
      BY <1>3
    <3> QED
      BY <2>4, <3>1
  <2> HIDE DEF rank, q
  <2>5. ~(p < q) /\ ~(q < p)
    BY <2>3, <2>4
  <2>6. p \in Nat /\ q \in Nat
    BY <2>3
  <2>7. q = p
    BY <2>5, <2>6
  <2> QED
    BY <2>1, <2>7 DEF q
<1> QED
  BY <1>5, <1>6, <1>7

(* At(items, P) is the list of the items at the positions P, each once.      *)
LEMMA AtSelects ==
  ASSUME NEW items \in Seq(Request), NEW P \in SUBSET (1..Len(items))
  PROVE  /\ At(items, P) \in Seq(Request)
         /\ Len(At(items, P)) = Cardinality(P) /\ Cardinality(P) \in Nat
         /\ IsFiniteSet(P) /\ Cardinality(P) <= Len(items)
         /\ ToSet(At(items, P)) = {items[i] : i \in P}
         /\ DistinctIn(items) => DistinctIn(At(items, P))
<1> DEFINE n == Cardinality(P)
           s == At(items, P)
<1>1. IsFiniteSet(P) /\ n \in Nat /\ n <= Len(items)
  <2>1. IsFiniteSet(1..Len(items)) /\ Cardinality(1..Len(items)) = Len(items)
    <3>1. Len(items) \in Nat /\ Len(items) \in Int /\ 1 \in Int
      OBVIOUS
    <3>2. /\ IsFiniteSet(1..Len(items))
          /\ Cardinality(1..Len(items)) = IF 1 > Len(items) THEN 0 ELSE Len(items) - 1 + 1
      BY <3>1, FS_Interval
    <3> QED
      BY <3>1, <3>2
  <2> QED
    BY <2>1, FS_Subset, FS_CardinalityType
<1>2. P \in SUBSET Nat
  OBVIOUS
<1>3. /\ \A i \in 1..n : Nth(P, i) \in P
      /\ \A i, j \in 1..n : i < j => Nth(P, i) < Nth(P, j)
      /\ \A p \in P : \E i \in 1..n : Nth(P, i) = p
  BY <1>1, <1>2, NthAscends
<1>4. s = [i \in 1..n |-> items[Nth(P, i)]]
  BY DEF At
<1>5. \A i \in P : items[i] \in Request
  OBVIOUS
<1> HIDE DEF n, s
<1>6. s \in Seq(Request) /\ Len(s) = n /\ DOMAIN s = 1..n
  <2>1. \A i \in 1..n : items[Nth(P, i)] \in Request
    BY <1>3, <1>5
  <2> QED
    BY <1>1, <1>4, <2>1
<1>7. ToSet(s) = {items[i] : i \in P}
  BY <1>3, <1>4, <1>6 DEF ToSet
<1>8. ASSUME DistinctIn(items)
      PROVE  DistinctIn(s)
  <2> SUFFICES ASSUME NEW i \in 1..n, NEW j \in 1..n, s[i].key = s[j].key
               PROVE  i = j
    BY <1>6 DEF DistinctIn
  <2>1. Nth(P, i) = Nth(P, j)
    BY <1>3, <1>4, <1>8 DEF DistinctIn
  <2>2. Nth(P, i) \in Nat
    BY <1>2, <1>3
  <2>3. ~(i < j) /\ ~(j < i)
    BY <1>3, <2>1, <2>2
  <2> QED
    BY <1>1, <2>3
<1> QED
  BY <1>1, <1>6, <1>7, <1>8 DEF n, s

(* The items of lists put together and cut apart.                            *)
LEMMA ListParts ==
  ASSUME NEW s \in Seq(Request)
  PROVE  /\ s = <<>> => ToSet(s) = {}
         /\ \A e \in Request : ToSet(Append(s, e)) = ToSet(s) \cup {e}
         /\ \A t \in Seq(Request) : ToSet(s \o t) = ToSet(s) \cup ToSet(t)
<1>0. DOMAIN s = 1..Len(s) /\ Len(s) \in Nat
  OBVIOUS
<1>1. ASSUME NEW e \in Request
      PROVE  ToSet(Append(s, e)) = ToSet(s) \cup {e}
  <2>1. /\ DOMAIN Append(s, e) = 1..(Len(s) + 1)
        /\ \A i \in 1..Len(s) : Append(s, e)[i] = s[i]
        /\ Append(s, e)[Len(s) + 1] = e
    BY AppendProperties
  <2>2. \A i \in 1..(Len(s) + 1) : i \in 1..Len(s) \/ i = Len(s) + 1
    BY <1>0
  <2>3. 1..Len(s) \subseteq 1..(Len(s) + 1) /\ Len(s) + 1 \in 1..(Len(s) + 1)
    BY <1>0
  <2> QED
    BY <1>0, <2>1, <2>2, <2>3 DEF ToSet
<1>2. ASSUME NEW t \in Seq(Request)
      PROVE  ToSet(s \o t) = ToSet(s) \cup ToSet(t)
  <2>1. /\ DOMAIN (s \o t) = 1..(Len(s) + Len(t)) /\ DOMAIN t = 1..Len(t)
        /\ Len(t) \in Nat
        /\ \A i \in 1..(Len(s) + Len(t)) :
              (s \o t)[i] = IF i <= Len(s) THEN s[i] ELSE t[i - Len(s)]
    BY ConcatProperties
  <2>2. \A i \in 1..(Len(s) + Len(t)) : i \in 1..Len(s) \/ i - Len(s) \in 1..Len(t)
    BY <1>0, <2>1
  <2>3. ToSet(s \o t) \subseteq ToSet(s) \cup ToSet(t)
    BY <1>0, <2>1, <2>2 DEF ToSet
  <2>4. ToSet(s) \subseteq ToSet(s \o t)
    <3>1. \A i \in 1..Len(s) : i \in 1..(Len(s) + Len(t)) /\ (s \o t)[i] = s[i]
      BY <1>0, <2>1
    <3> QED
      BY <1>0, <2>1, <3>1 DEF ToSet
  <2>5. ToSet(t) \subseteq ToSet(s \o t)
    <3>1. \A i \in 1..Len(t) : /\ i + Len(s) \in 1..(Len(s) + Len(t))
                               /\ (s \o t)[i + Len(s)] = t[i]
      <4> SUFFICES ASSUME NEW i \in 1..Len(t)
                   PROVE  /\ i + Len(s) \in 1..(Len(s) + Len(t))
                          /\ (s \o t)[i + Len(s)] = t[i]
        OBVIOUS
      <4>1. i + Len(s) \in 1..(Len(s) + Len(t)) /\ ~(i + Len(s) <= Len(s))
        BY <1>0, <2>1
      <4>2. (i + Len(s)) - Len(s) = i
        BY <1>0
      <4> QED
        BY <2>1, <4>1, <4>2
    <3> QED
      BY <1>0, <2>1, <3>1 DEF ToSet
  <2> QED
    BY <2>3, <2>4, <2>5
<1>3. s = <<>> => ToSet(s) = {}
  BY DEF ToSet
<1> QED
  BY <1>1, <1>2, <1>3

(* A flush splits the list: what it sends, and what stays in the buffer.     *)
LEMMA FlushSplits ==
  ASSUME NEW items \in Seq(Request)
  PROVE  LET rest == SubSeq(items, FlushAmount + 1, Len(items)) IN
         /\ FirstBatch(items) \in Seq(Request) /\ rest \in Seq(Request)
         /\ Len(FirstBatch(items)) <= FlushAmount
         /\ ToSet(FirstBatch(items)) \cup ToSet(rest) = ToSet(items)
         /\ DistinctIn(items) => DistinctIn(FirstBatch(items))
         /\ Len(items) <= FlushAmount => rest = <<>>
<1> DEFINE L == Len(items)
           F == FlushAmount
           rest == SubSeq(items, F + 1, L)
           m == IF L <= F THEN L ELSE F
           b == FirstBatch(items)
<1>0. /\ DOMAIN items = 1..L /\ L \in Nat /\ F \in Nat \ {0} /\ m \in Nat
      /\ \A i \in 1..L : items[i] \in Request
  BY AmountsAssumption
<1>1. b = [i \in 1..m |-> items[i]]
  <2>1. 1..L \cap 1..F = 1..m
    BY <1>0
  <2> QED
    BY <1>0, <2>1 DEF FirstBatch
<1>2. 1..m \subseteq 1..L /\ m <= F /\ m <= L
  BY <1>0
<1>3. /\ rest \in Seq(Request)
      /\ Len(rest) = IF L >= F + 1 THEN L - F ELSE 0
      /\ \A i \in 1..(L - F) : rest[i] = items[F + i]
  BY <1>0
<1> HIDE DEF m, rest, b, L, F
<1>a. /\ L >= F + 1 => Len(rest) = L - F
      /\ L <= F => Len(rest) = 0
  BY <1>0, <1>3
<1>4. b \in Seq(Request) /\ Len(b) = m /\ DOMAIN b = 1..m
  BY <1>0, <1>1, <1>2
<1>5. DOMAIN rest = 1..Len(rest)
  BY <1>3
<1>6. ToSet(b) \cup ToSet(rest) = ToSet(items)
  <2>1. ToSet(b) \subseteq ToSet(items)
    BY <1>0, <1>1, <1>2, <1>4 DEF ToSet
  <2>2. ToSet(rest) \subseteq ToSet(items)
    <3>1. \A i \in 1..Len(rest) : i \in 1..(L - F) /\ F + i \in 1..L
      BY <1>0, <1>a
    <3> QED
      BY <1>0, <1>3, <1>5, <3>1 DEF ToSet
  <2>3. ASSUME NEW i \in 1..L
        PROVE  items[i] \in ToSet(b) \cup ToSet(rest)
    <3>1. CASE i <= F
      <4>1. i \in 1..m
        BY <1>0, <3>1 DEF m
      <4> QED
        BY <1>1, <1>4, <4>1 DEF ToSet
    <3>2. CASE i > F
      <4>1. i - F \in 1..(L - F) /\ i - F \in 1..Len(rest) /\ F + (i - F) = i
        BY <1>0, <1>a, <3>2
      <4>2. rest[i - F] = items[F + (i - F)]
        BY <1>3, <4>1
      <4> QED
        BY <1>5, <4>1, <4>2 DEF ToSet
    <3> QED
      BY <1>0, <3>1, <3>2
  <2> QED
    BY <1>0, <2>1, <2>2, <2>3 DEF ToSet
<1>7. DistinctIn(items) => DistinctIn(b)
  BY <1>0, <1>1, <1>2, <1>4 DEF DistinctIn
<1>8. L <= F => rest = <<>>
  <2>1. L <= F => Len(rest) = 0
    BY <1>a
  <2> QED
    BY <1>3, <2>1
<1> QED
  BY <1>2, <1>3, <1>4, <1>6, <1>7, <1>8 DEF m, rest, b, L, F

(* The recursive function in Removed exists: an item is removed when it ends *)
(* an odd number of matching items in a row.                                 *)
LEMMA RemovedIs ==
  ASSUME NEW items \in Seq(Request), NEW key \in Keys
  PROVE  \E removed \in [0..Len(items) -> BOOLEAN] :
            /\ Removed(items, key) = {i \in 1..Len(items) : removed[i]}
            /\ \A i \in 0..Len(items) :
                 removed[i] <=> i > 0 /\ items[i].key = key /\ ~removed[i - 1]
<1> DEFINE L == Len(items)
           match(i) == items[i].key = key
           Run(s, i) == /\ s <= i /\ \A j \in s..i : match(j)
                        /\ s = 1 \/ ~match(s - 1)
           odd == [i \in 0..L |-> \E s \in 1..L : Run(s, i) /\ (i - s) % 2 = 0]
           Step(g) == [i \in 0..L |-> i > 0 /\ match(i) /\ ~g[i - 1]]
           removed == CHOOSE g : g = Step(g)
<1>0. L \in Nat
  OBVIOUS
<1>1. ASSUME NEW i \in 1..L, match(i)
      PROVE  \E s \in 1..L : Run(s, i)
  <2> DEFINE S == {s \in 1..i : \A j \in s..i : match(j)}
  <2>1. S \in SUBSET Nat /\ i \in S
    <3>1. i..i = {i}
      BY <1>0
    <3> QED
      BY <1>0, <1>1, <3>1
  <2>2. IsFiniteSet(S)
    <3>1. IsFiniteSet(1..i)
      BY <1>0, FS_Interval
    <3> QED
      BY <3>1, FS_Subset
  <2>3. PICK s \in S : \A r \in S : s <= r
    <3>1. /\ \A k \in 1..Cardinality(S) : Nth(S, k) \in S
          /\ \A k, m \in 1..Cardinality(S) : k < m => Nth(S, k) < Nth(S, m)
          /\ \A x \in S : \E k \in 1..Cardinality(S) : Nth(S, k) = x
      BY <2>1, <2>2, NthAscends
    <3>2. Cardinality(S) \in Nat
      BY <2>2, FS_CardinalityType
    <3> HIDE DEF S
    <3>3. 1 \in 1..Cardinality(S)
      BY <2>1, <3>1, <3>2
    <3>4. ASSUME NEW x \in S
          PROVE  Nth(S, 1) <= x
      <4>1. PICK k \in 1..Cardinality(S) : Nth(S, k) = x
        BY <3>1
      <4>2. k = 1 \/ 1 < k
        BY <3>2
      <4>3. x \in Nat /\ Nth(S, 1) \in Nat
        BY <2>1, <3>1, <3>3
      <4> QED
        BY <3>1, <3>3, <4>1, <4>2, <4>3
    <3> QED
      BY <3>1, <3>3, <3>4
  <2>4. s \in 1..L /\ s <= i /\ \A j \in s..i : match(j)
    BY <1>0
  <2>5. s # 1 => ~match(s - 1)
    <3> SUFFICES ASSUME s # 1, match(s - 1) PROVE FALSE
      OBVIOUS
    <3>1. \A j \in (s - 1)..i : j = s - 1 \/ j \in s..i
      BY <1>0, <2>4
    <3>2. s - 1 \in S
      BY <1>0, <2>4, <3>1
    <3>3. s <= s - 1
      BY <2>3, <3>2
    <3> QED
      BY <2>4, <3>3
  <2> QED
    BY <2>4, <2>5
<1>2. ASSUME NEW i \in 0..L, NEW s \in 1..L, NEW r \in 1..L, Run(s, i), Run(r, i)
      PROVE  s = r
  <2>1. ~(s < r)
    <3> SUFFICES ASSUME s < r PROVE FALSE
      OBVIOUS
    <3>1. r - 1 \in s..i /\ r # 1
      BY <1>0, <1>2
    <3> QED
      BY <1>2, <3>1
  <2>2. ~(r < s)
    <3> SUFFICES ASSUME r < s PROVE FALSE
      OBVIOUS
    <3>1. s - 1 \in r..i /\ s # 1
      BY <1>0, <1>2
    <3> QED
      BY <1>2, <3>1
  <2> QED
    BY <1>0, <2>1, <2>2
<1>3. ASSUME NEW i \in 0..L
      PROVE  odd[i] <=> i > 0 /\ match(i) /\ ~odd[i - 1]
  <2>1. CASE i = 0
    BY <1>0, <2>1
  <2>2. CASE i > 0 /\ ~match(i)
    <3>1. \A s \in 1..L : ~Run(s, i)
      BY <1>0, <2>2
    <3> QED
      BY <2>2, <3>1
  <2>3. CASE i > 0 /\ match(i) /\ (i = 1 \/ ~match(i - 1))
    <3>1. i \in 1..L /\ (i - i) % 2 = 0 /\ i..i = {i} /\ i - 1 \in 0..L
      BY <1>0, <2>3
    <3>2. Run(i, i)
      BY <2>3, <3>1
    <3>3. odd[i]
      BY <3>1, <3>2
    <3>4. \A s \in 1..L : ~Run(s, i - 1)
      BY <1>0, <2>3, <3>1
    <3>5. ~odd[i - 1]
      BY <3>1, <3>4
    <3> QED
      BY <2>3, <3>3, <3>5
  <2>4. CASE i > 1 /\ match(i) /\ match(i - 1)
    <3>1. i \in 1..L /\ i - 1 \in 1..L
      BY <1>0, <2>4
    <3>2. PICK s \in 1..L : Run(s, i - 1)
      BY <1>1, <2>4, <3>1
    <3>3. Run(s, i)
      <4>1. \A j \in s..i : j = i \/ j \in s..(i - 1)
        BY <1>0
      <4> QED
        BY <1>0, <2>4, <3>2, <4>1
    <3>4. odd[i] <=> (i - s) % 2 = 0
      BY <1>2, <3>3
    <3>5. odd[i - 1] <=> ((i - 1) - s) % 2 = 0
      <4>1. i - 1 \in 0..L
        BY <1>0, <3>1
      <4>2. \A r \in 1..L : Run(r, i - 1) => r = s
        BY <1>2, <3>2, <4>1
      <4> HIDE DEF Run
      <4> QED
        BY <3>2, <4>1, <4>2
    <3>6. (i - s) % 2 = 0 <=> ~(((i - 1) - s) % 2 = 0)
      BY <1>0, <3>1, <3>2
    <3> QED
      BY <2>4, <3>4, <3>5, <3>6
  <2> QED
    BY <1>0, <2>1, <2>2, <2>3, <2>4
<1>a. odd = Step(odd)
  BY <1>3
<1>4. removed = Step(removed)
  BY <1>a
<1>5. Removed(items, key) = {i \in 1..L : removed[i]}
  BY DEF Removed
<1> HIDE DEF removed
<1>6. removed \in [0..L -> BOOLEAN]
  BY <1>4
<1> QED
  BY <1>4, <1>5, <1>6

(* Removing duplicates keeps every request for another key, and when there   *)
(* was at most one for this key it is gone, though items are skipped.        *)
LEMMA RemoveDupKeeps ==
  ASSUME NEW items \in Seq(Request), NEW key \in Keys
  PROVE  LET rest == RemoveDup(items, key) IN
         /\ rest \in Seq(Request) /\ Len(rest) <= Len(items)
         /\ ToSet(rest) \subseteq ToSet(items)
         /\ \A r \in ToSet(items) : r.key # key => r \in ToSet(rest)
         /\ DistinctIn(items) =>
              DistinctIn(rest) /\ \A r \in ToSet(rest) : r.key # key
<1> DEFINE L == Len(items)
           P == (1..L) \ Removed(items, key)
           rest == RemoveDup(items, key)
<1>0. L \in Nat /\ DOMAIN items = 1..L
  OBVIOUS
<1>1. rest = At(items, P) /\ P \in SUBSET (1..L)
  BY DEF RemoveDup
<1>2. PICK removed \in [0..L -> BOOLEAN] :
        /\ Removed(items, key) = {i \in 1..L : removed[i]}
        /\ \A i \in 0..L :
             removed[i] <=> i > 0 /\ items[i].key = key /\ ~removed[i - 1]
  BY RemovedIs
<1>3. \A i \in 1..L : items[i].key # key => i \in P
  BY <1>2
<1> HIDE DEF P, rest
<1>4. /\ rest \in Seq(Request) /\ Len(rest) <= L
      /\ ToSet(rest) = {items[i] : i \in P}
      /\ DistinctIn(items) => DistinctIn(rest)
  BY <1>1, AtSelects
<1>5. ToSet(rest) \subseteq ToSet(items)
  BY <1>0, <1>1, <1>4 DEF ToSet
<1>6. \A r \in ToSet(items) : r.key # key => r \in ToSet(rest)
  BY <1>0, <1>3, <1>4 DEF ToSet
<1>7. ASSUME DistinctIn(items), NEW i \in P
      PROVE  items[i].key # key
  <2> SUFFICES ASSUME items[i].key = key PROVE FALSE
    OBVIOUS
  <2>1. i \in 1..L /\ ~removed[i] /\ i - 1 \in 0..L
    BY <1>0, <1>1, <1>2, <1>7 DEF P
  <2>2. removed[i - 1]
    BY <1>2, <2>1
  <2>3. i - 1 \in 1..L /\ items[i - 1].key = key
    BY <1>0, <1>2, <2>1, <2>2
  <2>4. i - 1 = i
    BY <1>7, <2>1, <2>3 DEF DistinctIn
  <2> QED
    BY <2>1, <2>4
<1> QED
  BY <1>4, <1>5, <1>6, <1>7 DEF rest

(* Appending to a list without duplicates an item of another key.            *)
LEMMA DistinctAppend ==
  ASSUME NEW s \in Seq(Request), NEW e \in Request, DistinctIn(s),
         \A r \in ToSet(s) : r.key # e.key
  PROVE  DistinctIn(Append(s, e))
<1>1. /\ Len(Append(s, e)) = Len(s) + 1 /\ Len(s) \in Nat /\ DOMAIN s = 1..Len(s)
      /\ \A i \in 1..Len(s) : Append(s, e)[i] = s[i]
      /\ Append(s, e)[Len(s) + 1] = e
  BY AppendProperties
<1>2. \A i \in 1..Len(s) : s[i].key # e.key
  BY <1>1 DEF ToSet
<1>3. \A i \in 1..(Len(s) + 1) : i \in 1..Len(s) \/ i = Len(s) + 1
  BY <1>1
<1> QED
  BY <1>1, <1>2, <1>3 DEF DistinctIn

-----------------------------------------------------------------------------
(* The writer keeps track of every request.                                  *)

(* A request the writer holds is one that was made.                          *)
Genuine(r) == r.id \in 1..Len(made) /\ made[r.id] = r.key

WriterInv ==
    /\ TypeOK
    /\ \A r \in ToSet(items_buffer) : Genuine(r)
    /\ \A t \in Flushers : \A r \in ToSet(batch[t]) \cup ToSet(unprocessed[t]) : Genuine(r)
    /\ \A t \in Flushers : call[t] = "idle" => batch[t] = <<>> /\ unprocessed[t] = <<>>
    /\ ~failed /\ block # "open" => \A t \in Tasks : call[t] = "idle"
    /\ ~failed /\ block = "closed" => items_buffer = <<>> /\ call[Exit] = "idle"
    /\ NothingLost

(* What a task has under way.                                                *)
Pending(t) == ToSet(IF call[t] = "sent" THEN batch[t] ELSE unprocessed[t])

(* What _add_request_and_process leaves in the buffer before it flushes.     *)
LEMMA PutAppends ==
  ASSUME WriterInv, NEW t \in Tasks, NEW key \in Keys, PutOrDelete(t, key)
  PROVE  \E items \in Seq(Request) :
            /\ IF MustFlush(items)
               THEN Send(t, items)
               ELSE items_buffer' = items /\ UNCHANGED <<batch, unprocessed, call>>
            /\ [key |-> key, id |-> Len(made) + 1] \in ToSet(items)
            /\ \A r \in ToSet(items) : \/ r \in ToSet(items_buffer)
                                       \/ r = [key |-> key, id |-> Len(made) + 1]
            /\ \A r \in ToSet(items_buffer) : r.key # key => r \in ToSet(items)
            /\ Len(items) <= Len(items_buffer) + 1
            /\ overwrite /\ DistinctIn(items_buffer) => DistinctIn(items)
<1> DEFINE new == [key |-> key, id |-> Len(made) + 1]
           rest == IF overwrite THEN RemoveDup(items_buffer, key) ELSE items_buffer
           items == Append(rest, new)
<1>1. /\ items_buffer \in Seq(Request) /\ made \in Seq(Keys) /\ overwrite \in BOOLEAN
      /\ Len(made) \in Nat
  BY DEF WriterInv, TypeOK
<1>2. Len(made') = Len(made) + 1
  BY <1>1 DEF PutOrDelete
<1>3. new \in Request
  BY <1>1 DEF Request
<1>4. /\ rest \in Seq(Request) /\ Len(rest) <= Len(items_buffer)
      /\ ToSet(rest) \subseteq ToSet(items_buffer)
      /\ \A r \in ToSet(items_buffer) : r.key # key => r \in ToSet(rest)
      /\ overwrite /\ DistinctIn(items_buffer) =>
           DistinctIn(rest) /\ \A r \in ToSet(rest) : r.key # key
  BY <1>1, RemoveDupKeeps
<1>5. IF MustFlush(items)
      THEN Send(t, items)
      ELSE items_buffer' = items /\ UNCHANGED <<batch, unprocessed, call>>
  BY <1>2 DEF PutOrDelete
<1>6. new.key = key
  OBVIOUS
<1> HIDE DEF new, rest
<1>7. /\ items \in Seq(Request) /\ Len(items) = Len(rest) + 1
      /\ ToSet(items) = ToSet(rest) \cup {new}
  BY <1>3, <1>4, ListParts
<1>8. overwrite /\ DistinctIn(items_buffer) => DistinctIn(items)
  BY <1>3, <1>4, <1>6, DistinctAppend
<1>9. Len(items) <= Len(items_buffer) + 1
  <2>1. Len(rest) \in Nat /\ Len(items_buffer) \in Nat
    BY <1>1, <1>4
  <2> QED
    BY <1>4, <1>7, <2>1
<1>10. /\ new \in ToSet(items)
       /\ \A r \in ToSet(items) : r \in ToSet(items_buffer) \/ r = new
       /\ \A r \in ToSet(items_buffer) : r.key # key => r \in ToSet(items)
  BY <1>4, <1>7
<1> HIDE DEF items
<1> QED
  BY <1>5, <1>7, <1>8, <1>9, <1>10 DEF new

(* A flush up to its await moves requests from the buffer to the batch.      *)
LEMMA SendMoves ==
  ASSUME WriterInv, NEW t \in Flushers, NEW items \in Seq(Request),
         call[t] = "idle", Send(t, items)
  PROVE  /\ items_buffer' \in Seq(Request)
         /\ batch' \in [Flushers -> Seq(Request)]
         /\ \A u \in Flushers : Len(batch'[u]) <= FlushAmount
         /\ unprocessed' = unprocessed
         /\ call' = [call EXCEPT ![t] = "sent"] /\ call'[t] = "sent"
         /\ batch'[t] = FirstBatch(items)
         /\ \A u \in Flushers \ {t} : batch'[u] = batch[u] /\ call'[u] = call[u]
         /\ ToSet(batch'[t]) \cup ToSet(items_buffer') = ToSet(items)
         /\ DistinctIn(items) => DistinctIn(batch'[t])
         /\ Len(items) <= FlushAmount => items_buffer' = <<>>
<1>1. /\ batch \in [Flushers -> Seq(Request)]
      /\ call \in [Flushers -> {"idle", "sent", "answered"}]
      /\ \A u \in Flushers : Len(batch[u]) <= FlushAmount
  BY DEF WriterInv, TypeOK
<1>2. /\ FirstBatch(items) \in Seq(Request) /\ items_buffer' \in Seq(Request)
      /\ Len(FirstBatch(items)) <= FlushAmount
      /\ ToSet(FirstBatch(items)) \cup ToSet(items_buffer') = ToSet(items)
      /\ DistinctIn(items) => DistinctIn(FirstBatch(items))
      /\ Len(items) <= FlushAmount => items_buffer' = <<>>
  BY FlushSplits DEF Send
<1>3. /\ batch' = [batch EXCEPT ![t] = FirstBatch(items)]
      /\ call' = [call EXCEPT ![t] = "sent"] /\ unprocessed' = unprocessed
  BY DEF Send
<1> QED
  BY <1>1, <1>2, <1>3

(* A request made by a task of the block keeps WriterInv.                    *)
LEMMA PutStep ==
  ASSUME WriterInv, NEW t \in Tasks, NEW key \in Keys, PutOrDelete(t, key)
  PROVE  WriterInv'
<1> DEFINE new == [key |-> key, id |-> Len(made) + 1]
<1>0. /\ TypeOK /\ t \in Flushers /\ call[t] = "idle"
      /\ made' = Append(made, key)
      /\ block = "open" \/ failed
      /\ UNCHANGED <<overwrite, block, table, applied, failed>>
      /\ overlapped' \in BOOLEAN
      /\ new.key = key /\ new.id = Len(made) + 1
  BY DEF WriterInv, PutOrDelete, NoteOverlap, Flushers, TypeOK
<1>1. /\ made \in Seq(Keys) /\ made' \in Seq(Keys) /\ Len(made) \in Nat
      /\ Len(made') = Len(made) + 1
      /\ \A i \in 1..Len(made) : made'[i] = made[i]
      /\ made'[Len(made) + 1] = key
  BY <1>0 DEF TypeOK
<1>2. \A r : Genuine(r) => Genuine(r)'
  BY <1>1 DEF Genuine
<1>3. \A r : r = new => Genuine(r)'
  BY <1>0, <1>1 DEF Genuine
<1>4. \A i \in Newest' : i = Len(made) + 1 \/ (i \in Newest /\ made[i] # key)
  <2> SUFFICES ASSUME NEW i \in Newest', i # Len(made) + 1
               PROVE  i \in Newest /\ made[i] # key
    OBVIOUS
  <2>1. i \in 1..Len(made) /\ \A j \in 1..Len(made') : made'[j] = made'[i] => j <= i
    BY <1>1 DEF Newest
  <2>2. Len(made) + 1 \in 1..Len(made') /\ ~(Len(made) + 1 <= i)
        /\ \A j \in 1..Len(made) : j \in 1..Len(made')
    BY <1>1, <2>1
  <2>3. made[i] # key
    BY <1>1, <2>1, <2>2
  <2>4. \A j \in 1..Len(made) : made[j] = made[i] => j <= i
    BY <1>1, <2>1, <2>2
  <2> QED
    BY <2>1, <2>3, <2>4 DEF Newest
<1>5. PICK items \in Seq(Request) :
        /\ IF MustFlush(items)
           THEN Send(t, items)
           ELSE items_buffer' = items /\ UNCHANGED <<batch, unprocessed, call>>
        /\ new \in ToSet(items)
        /\ \A r \in ToSet(items) : r \in ToSet(items_buffer) \/ r = new
        /\ \A r \in ToSet(items_buffer) : r.key # key => r \in ToSet(items)
  BY PutAppends
<1> HIDE DEF new
<1>6. /\ items_buffer' \in Seq(Request)
      /\ batch' \in [Flushers -> Seq(Request)] /\ unprocessed' = unprocessed
      /\ call' \in [Flushers -> {"idle", "sent", "answered"}]
      /\ \A u \in Flushers : Len(batch'[u]) <= FlushAmount
      /\ \A u \in Flushers \ {t} : batch'[u] = batch[u] /\ call'[u] = call[u]
      /\ call'[t] # "idle" \/ batch'[t] = <<>>
      /\ ToSet(items) = ToSet(items_buffer') \cup
                        (IF call'[t] = "sent" THEN ToSet(batch'[t]) ELSE {})
      /\ ToSet(batch'[t]) \subseteq ToSet(items)
  <2>1. batch[t] = <<>> /\ ToSet(<<>>) = {}
    BY <1>0 DEF WriterInv, ToSet
  <2>2. CASE MustFlush(items)
    <3>1. Send(t, items)
      BY <1>5, <2>2
    <3>2. /\ items_buffer' \in Seq(Request)
          /\ batch' \in [Flushers -> Seq(Request)]
          /\ \A u \in Flushers : Len(batch'[u]) <= FlushAmount
          /\ unprocessed' = unprocessed
          /\ call' = [call EXCEPT ![t] = "sent"] /\ call'[t] = "sent"
          /\ \A u \in Flushers \ {t} : batch'[u] = batch[u] /\ call'[u] = call[u]
          /\ ToSet(batch'[t]) \cup ToSet(items_buffer') = ToSet(items)
      BY <1>0, <3>1, SendMoves
    <3> QED
      BY <1>0, <3>2 DEF TypeOK
  <2>3. CASE ~MustFlush(items)
    <3>1. items_buffer' = items /\ UNCHANGED <<batch, unprocessed, call>>
      BY <1>5, <2>3
    <3> QED
      BY <1>0, <2>1, <3>1 DEF TypeOK
  <2> QED
    BY <2>2, <2>3
<1>7. TypeOK'
  <2>1. applied' \subseteq 1..Len(made')
    BY <1>0, <1>1 DEF TypeOK
  <2>2. {batch', unprocessed'} \subseteq [Flushers -> Seq(Request)]
    BY <1>0, <1>6 DEF TypeOK
  <2> QED
    BY <1>0, <1>1, <1>6, <2>1, <2>2 DEF TypeOK
<1>8. \A r \in ToSet(items) : Genuine(r)'
  BY <1>2, <1>3, <1>5 DEF WriterInv
<1>9. \A u \in Flushers : \A r \in ToSet(batch'[u]) \cup ToSet(unprocessed'[u]) : Genuine(r)'
  BY <1>2, <1>6, <1>8 DEF WriterInv
<1>10. \A u \in Flushers : call'[u] = "idle" => batch'[u] = <<>> /\ unprocessed'[u] = <<>>
  BY <1>0, <1>6 DEF WriterInv
<1>11. NothingLost'
  <2> SUFFICES ASSUME ~failed, NEW i \in Newest'
               PROVE  i \in Buffered' \cup InFlight' \cup applied'
    BY <1>0 DEF NothingLost
  <2>1. ASSUME NEW r \in ToSet(items), r.id = i
        PROVE  i \in Buffered' \cup InFlight'
    BY <1>0, <1>6, <2>1 DEF Buffered, InFlight
  <2>2. CASE i = Len(made) + 1
    BY <1>0, <1>5, <2>1, <2>2
  <2>3. CASE i \in Newest /\ made[i] # key
    <3>1. i \in Buffered \cup InFlight \cup applied
      BY <2>3 DEF WriterInv, NothingLost
    <3>2. CASE i \in Buffered
      <4>1. PICK r \in ToSet(items_buffer) : r.id = i
        BY <3>2 DEF Buffered
      <4>2. r.key # key
        BY <2>3, <4>1 DEF WriterInv, Genuine
      <4> QED
        BY <1>5, <2>1, <4>1, <4>2
    <3>3. CASE i \in InFlight
      <4>1. PICK u \in Flushers :
              \E r \in ToSet(IF call[u] = "sent" THEN batch[u] ELSE unprocessed[u]) : r.id = i
        BY <3>3 DEF InFlight
      <4>2. u # t
        BY <1>0, <4>1 DEF WriterInv, ToSet
      <4>3. call'[u] = call[u] /\ batch'[u] = batch[u] /\ unprocessed'[u] = unprocessed[u]
        BY <1>6, <4>2
      <4> QED
        BY <4>1, <4>3 DEF InFlight
    <3> QED
      BY <1>0, <3>1, <3>2, <3>3
  <2> QED
    BY <1>4, <2>2, <2>3
<1> QED
  BY <1>0, <1>6, <1>7, <1>8, <1>9, <1>10, <1>11 DEF WriterInv

(* So does everything that happens to a call.                                *)
LEMMA CallStep ==
  ASSUME WriterInv, NEW t \in Flushers, Call(t)
  PROVE  WriterInv'
<1>0. /\ TypeOK /\ call[t] # "idle" /\ made \in Seq(Keys)
      /\ batch \in [Flushers -> Seq(Request)]
      /\ unprocessed \in [Flushers -> Seq(Request)]
      /\ call \in [Flushers -> {"idle", "sent", "answered"}]
      /\ UNCHANGED <<overwrite, made, overlapped>>
      /\ <<>> \in Seq(Request) /\ Len(<<>>) = 0 /\ ToSet(<<>>) = {}
      /\ FlushAmount \in Nat \ {0}
  BY AmountsAssumption
     DEF Call, ServiceProcesses, CallRaises, Answered, WriterInv, TypeOK, ToSet
<1>1. Newest' = Newest /\ \A r : Genuine(r)' <=> Genuine(r)
  BY <1>0 DEF Newest, Genuine
<1>2. \A items \in Seq(Request) :
        Apply(items) /\ ToSet(items) \subseteq ToSet(batch[t])
        => /\ table' \in [Keys -> Nat] /\ applied' \subseteq 1..Len(made')
           /\ applied' = applied \cup {r.id : r \in ToSet(items)}
  <2> SUFFICES ASSUME NEW items \in Seq(Request), Apply(items),
                      ToSet(items) \subseteq ToSet(batch[t])
               PROVE  /\ table' \in [Keys -> Nat] /\ applied' \subseteq 1..Len(made')
                      /\ applied' = applied \cup {r.id : r \in ToSet(items)}
    OBVIOUS
  <2>1. \A r \in ToSet(items) : r.id \in Nat
    <3>1. \A i \in DOMAIN items : items[i] \in Request
      OBVIOUS
    <3>2. \A r \in Request : r.id \in Nat
      BY DEF Request
    <3> QED
      BY <3>1, <3>2 DEF ToSet
  <2>2. \A k \in Keys : (\E r \in ToSet(items) : r.key = k)
                        => (CHOOSE r \in ToSet(items) : r.key = k) \in ToSet(items)
    OBVIOUS
  <2>3. table' \in [Keys -> Nat]
    BY <1>0, <2>1, <2>2 DEF Apply, TypeOK
  <2>4. \A r \in ToSet(items) : r.id \in 1..Len(made')
    BY <1>0 DEF WriterInv, Genuine
  <2>5. applied' = applied \cup {r.id : r \in ToSet(items)}
    BY DEF Apply
  <2>6. applied \subseteq 1..Len(made')
    BY <1>0 DEF TypeOK
  <2> QED
    BY <2>3, <2>4, <2>5, <2>6
<1>3. CASE ServiceProcesses(t)
  <2>1. PICK done \in SUBSET (1..Len(batch[t])) :
          /\ Apply(At(batch[t], done))
          /\ unprocessed' =
               [unprocessed EXCEPT ![t] = At(batch[t], (1..Len(batch[t])) \ done)]
    BY <1>3 DEF ServiceProcesses
  <2> DEFINE yes == At(batch[t], done)
             no  == At(batch[t], (1..Len(batch[t])) \ done)
  <2>2. /\ batch[t] \in Seq(Request)
        /\ done \in SUBSET (1..Len(batch[t]))
        /\ (1..Len(batch[t])) \ done \in SUBSET (1..Len(batch[t]))
    BY <1>0
  <2>3. /\ yes \in Seq(Request) /\ no \in Seq(Request)
        /\ ToSet(yes) = {batch[t][i] : i \in done}
        /\ ToSet(no) = {batch[t][i] : i \in (1..Len(batch[t])) \ done}
    BY <2>2, AtSelects
  <2>4. ToSet(batch[t]) = {batch[t][i] : i \in 1..Len(batch[t])}
    BY <2>2 DEF ToSet
  <2>5. /\ call[t] = "sent" /\ call' = [call EXCEPT ![t] = "answered"]
        /\ Apply(yes) /\ unprocessed' = [unprocessed EXCEPT ![t] = no]
        /\ UNCHANGED <<items_buffer, batch, block, failed>>
    BY <1>3, <2>1 DEF ServiceProcesses
  <2> HIDE DEF yes, no
  <2>6. ToSet(yes) \cup ToSet(no) = ToSet(batch[t])
    BY <2>3, <2>4
  <2>7. /\ table' \in [Keys -> Nat] /\ applied' \subseteq 1..Len(made')
        /\ applied' = applied \cup {r.id : r \in ToSet(yes)}
    BY <1>2, <2>3, <2>5, <2>6
  <2>8. /\ call'[t] = "answered" /\ unprocessed'[t] = no
        /\ \A u \in Flushers \ {t} : call'[u] = call[u] /\ unprocessed'[u] = unprocessed[u]
    BY <1>0, <2>5
  <2>9. TypeOK'
    BY <1>0, <2>3, <2>5, <2>7 DEF TypeOK
  <2>10. NothingLost'
    <3> SUFFICES ASSUME ~failed, NEW i \in Newest
                 PROVE  i \in Buffered' \cup InFlight' \cup applied'
      BY <1>1, <2>5 DEF NothingLost
    <3>1. i \in Buffered \cup InFlight \cup applied
      BY DEF WriterInv, NothingLost
    <3>2. ASSUME NEW u \in Flushers,
                 NEW r \in ToSet(IF call[u] = "sent" THEN batch[u] ELSE unprocessed[u]),
                 r.id = i
          PROVE  i \in InFlight' \cup applied'
      <4>1. CASE u # t
        <5>1. r \in ToSet(IF call'[u] = "sent" THEN batch'[u] ELSE unprocessed'[u])
          BY <2>5, <2>8, <3>2, <4>1
        <5> QED
          BY <3>2, <5>1 DEF InFlight
      <4>2. CASE u = t
        <5>1. r \in ToSet(yes) \/ r \in ToSet(no)
          BY <2>5, <2>6, <3>2, <4>2
        <5> QED
          BY <2>7, <2>8, <3>2, <5>1 DEF InFlight
      <4> QED
        BY <4>1, <4>2
    <3> QED
      BY <2>5, <2>7, <3>1, <3>2 DEF Buffered, InFlight
  <2>11. \A u \in Flushers : \A r \in ToSet(batch'[u]) \cup ToSet(unprocessed'[u]) : Genuine(r)'
    BY <1>1, <2>5, <2>6, <2>8 DEF WriterInv
  <2> QED
    BY <1>0, <1>1, <2>5, <2>8, <2>9, <2>10, <2>11 DEF WriterInv
<1>4. ASSUME Returns(t)
      PROVE  /\ call'[t] = "idle" /\ batch'[t] = <<>> /\ unprocessed'[t] = <<>>
             /\ \A u \in Flushers \ {t} : /\ call'[u] = call[u] /\ batch'[u] = batch[u]
                                          /\ unprocessed'[u] = unprocessed[u]
             /\ batch' \in [Flushers -> Seq(Request)]
             /\ unprocessed' \in [Flushers -> Seq(Request)]
             /\ call' \in [Flushers -> {"idle", "sent", "answered"}]
             /\ \A u \in Flushers : Len(batch'[u]) <= FlushAmount
  <2>1. /\ call' = [call EXCEPT ![t] = "idle"]
        /\ batch' = [batch EXCEPT ![t] = <<>>]
        /\ unprocessed' = [unprocessed EXCEPT ![t] = <<>>]
    BY <1>4 DEF Returns
  <2> QED
    BY <1>0, <2>1 DEF TypeOK
<1>5. CASE CallRaises(t)
  <2>1. /\ failed' = TRUE /\ items_buffer' = items_buffer /\ Returns(t)
        /\ block' \in {block, "raised"}
    BY <1>5 DEF CallRaises
  <2>2. table' \in [Keys -> Nat] /\ applied' \subseteq 1..Len(made')
    <3>1. CASE UNCHANGED <<table, applied>>
      BY <1>0, <3>1 DEF TypeOK
    <3>2. CASE \E done \in SUBSET (1..Len(batch[t])) : Apply(At(batch[t], done))
      <4>1. PICK done \in SUBSET (1..Len(batch[t])) : Apply(At(batch[t], done))
        BY <3>2
      <4>2. batch[t] \in Seq(Request)
        BY <1>0
      <4>3. /\ At(batch[t], done) \in Seq(Request)
            /\ ToSet(At(batch[t], done)) = {batch[t][i] : i \in done}
        BY <4>2, AtSelects
      <4>4. ToSet(At(batch[t], done)) \subseteq ToSet(batch[t])
        <5>1. {batch[t][i] : i \in done} \subseteq ToSet(batch[t])
          BY <4>2 DEF ToSet
        <5> QED
          BY <4>3, <5>1
      <4> QED
        BY <1>2, <4>1, <4>3, <4>4
    <3> QED
      BY <1>5, <3>1, <3>2 DEF CallRaises
  <2>3. TypeOK'
    BY <1>0, <1>4, <2>1, <2>2 DEF TypeOK
  <2>4. \A u \in Flushers : \A r \in ToSet(batch'[u]) \cup ToSet(unprocessed'[u]) : Genuine(r)'
    BY <1>0, <1>1, <1>4, <2>1 DEF WriterInv
  <2> QED
    BY <1>1, <1>4, <2>1, <2>3, <2>4 DEF WriterInv, NothingLost
<1>6. CASE Answered(t)
  <2>1. /\ call[t] = "answered" /\ items_buffer' = items_buffer \o unprocessed[t]
        /\ Returns(t) /\ UNCHANGED <<block, table, applied, failed>>
    BY <1>6 DEF Answered
  <2>2. /\ items_buffer' \in Seq(Request)
        /\ ToSet(items_buffer') = ToSet(items_buffer) \cup ToSet(unprocessed[t])
    BY <1>0, <2>1, ListParts DEF TypeOK
  <2>3. TypeOK'
    BY <1>0, <1>4, <2>1, <2>2 DEF TypeOK
  <2>4. \A u \in Flushers : \A r \in ToSet(batch'[u]) \cup ToSet(unprocessed'[u]) : Genuine(r)'
    BY <1>0, <1>1, <1>4, <2>1 DEF WriterInv
  <2>5. NothingLost'
    <3> SUFFICES ASSUME ~failed, NEW i \in Newest
                 PROVE  i \in Buffered' \cup InFlight' \cup applied'
      BY <1>1, <2>1 DEF NothingLost
    <3>1. i \in Buffered \cup InFlight \cup applied
      BY DEF WriterInv, NothingLost
    <3>2. ASSUME NEW u \in Flushers,
                 NEW r \in ToSet(IF call[u] = "sent" THEN batch[u] ELSE unprocessed[u]),
                 r.id = i
          PROVE  i \in Buffered' \cup InFlight'
      <4>1. CASE u # t
        <5>1. r \in ToSet(IF call'[u] = "sent" THEN batch'[u] ELSE unprocessed'[u])
          BY <1>4, <2>1, <3>2, <4>1
        <5> QED
          BY <3>2, <5>1 DEF InFlight
      <4>2. CASE u = t
        <5>1. r \in ToSet(unprocessed[t])
          BY <2>1, <3>2, <4>2
        <5> QED
          BY <2>2, <3>2, <5>1 DEF Buffered
      <4> QED
        BY <4>1, <4>2
    <3> QED
      BY <2>1, <2>2, <3>1, <3>2 DEF Buffered, InFlight
  <2>6. ~failed => ~(block = "closed" /\ t = Exit) /\ ~(block # "open" /\ t \in Tasks)
    BY <1>0 DEF WriterInv
  <2>7. ~failed /\ block = "closed" => FALSE
    BY <2>6 DEF Flushers, WriterInv
  <2> QED
    BY <1>1, <1>4, <2>1, <2>2, <2>3, <2>4, <2>5, <2>6, <2>7 DEF WriterInv, Flushers
<1> QED
  BY <1>3, <1>5, <1>6 DEF Call

(* In every reachable state the buffer, the batches and what was unprocessed *)
(* hold requests that were really made, and no newest one is lost.           *)
THEOREM WriterInvariant == Spec => []WriterInv
<1>1. Init => WriterInv
  <2> SUFFICES ASSUME Init PROVE WriterInv
    OBVIOUS
  <2>1. /\ <<>> \in Seq(Request) /\ <<>> \in Seq(Keys) /\ Len(<<>>) = 0
        /\ ToSet(<<>>) = {} /\ 1..0 = {} /\ FlushAmount \in Nat \ {0}
    BY AmountsAssumption DEF ToSet
  <2>2. TypeOK
    <3>1. /\ batch \in [Flushers -> Seq(Request)] /\ unprocessed = batch
          /\ call \in [Flushers -> {"idle", "sent", "answered"}]
          /\ table \in [Keys -> Nat]
      BY <2>1 DEF Init
    <3>2. \A t \in Flushers : Len(batch[t]) <= FlushAmount
      BY <2>1 DEF Init
    <3> QED
      BY <2>1, <3>1, <3>2 DEF Init, TypeOK
  <2>3. NothingLost
    BY <2>1 DEF Init, NothingLost, Newest
  <2>4. \A t \in Flushers : batch[t] = <<>> /\ unprocessed[t] = <<>>
    BY DEF Init
  <2> QED
    BY <2>1, <2>2, <2>3, <2>4 DEF Init, WriterInv
<1>2. WriterInv /\ [Next]_vars => WriterInv'
  <2> SUFFICES ASSUME WriterInv, [Next]_vars PROVE WriterInv'
    OBVIOUS
  <2>1. ASSUME NEW t \in Tasks, NEW k \in Keys, PutOrDelete(t, k)
        PROVE  WriterInv'
    BY <2>1, PutStep
  <2>2. ASSUME NEW t \in Flushers, Call(t)
        PROVE  WriterInv'
    BY <2>2, CallStep
  <2>3. CASE ExitFlush
    <3>0. /\ Exit \in Flushers /\ call[Exit] = "idle" /\ block = "exiting"
          /\ Send(Exit, items_buffer) /\ items_buffer \in Seq(Request)
          /\ UNCHANGED <<overwrite, made, block, table, applied, failed>>
          /\ overlapped' \in BOOLEAN
          /\ batch[Exit] = <<>> /\ unprocessed[Exit] = <<>> /\ ToSet(<<>>) = {}
      BY <2>3 DEF ExitFlush, NoteOverlap, Flushers, WriterInv, TypeOK, ToSet
    <3>1. /\ items_buffer' \in Seq(Request)
          /\ batch' \in [Flushers -> Seq(Request)]
          /\ \A u \in Flushers : Len(batch'[u]) <= FlushAmount
          /\ unprocessed' = unprocessed
          /\ call' = [call EXCEPT ![Exit] = "sent"] /\ call'[Exit] = "sent"
          /\ \A u \in Flushers \ {Exit} : batch'[u] = batch[u] /\ call'[u] = call[u]
          /\ ToSet(batch'[Exit]) \cup ToSet(items_buffer') = ToSet(items_buffer)
      BY <3>0, SendMoves
    <3>2. TypeOK'
      BY <3>0, <3>1 DEF WriterInv, TypeOK
    <3>3. Newest' = Newest /\ \A r : Genuine(r)' <=> Genuine(r)
      BY <3>0 DEF Newest, Genuine
    <3>4. \A u \in Flushers : \A r \in ToSet(batch'[u]) \cup ToSet(unprocessed'[u]) : Genuine(r)'
      BY <3>1, <3>3 DEF WriterInv
    <3>5. NothingLost'
      <4> SUFFICES ASSUME ~failed, NEW i \in Newest
                   PROVE  i \in Buffered' \cup InFlight' \cup applied'
        BY <3>0, <3>3 DEF NothingLost
      <4>1. i \in Buffered \cup InFlight \cup applied
        BY DEF WriterInv, NothingLost
      <4>2. CASE i \in Buffered
        BY <3>0, <3>1, <4>2 DEF Buffered, InFlight
      <4>3. CASE i \in InFlight
        <5>1. PICK u \in Flushers :
                \E r \in ToSet(IF call[u] = "sent" THEN batch[u] ELSE unprocessed[u]) : r.id = i
          BY <4>3 DEF InFlight
        <5>2. u # Exit
          BY <3>0, <5>1
        <5> QED
          BY <3>1, <5>1, <5>2 DEF InFlight
      <4> QED
        BY <3>0, <4>1, <4>2, <4>3
    <3>6. \A u \in Tasks : call'[u] = call[u]
      BY <3>1, TasksAssumption DEF Flushers
    <3> QED
      BY <3>0, <3>1, <3>2, <3>3, <3>4, <3>5, <3>6 DEF WriterInv
  <2>4. CASE LeaveBlock \/ ExitDone \/ UNCHANGED vars
    <3>1. /\ UNCHANGED <<overwrite, items_buffer, made, call, batch, unprocessed,
                         table, applied, failed, overlapped>>
          /\ block' \in {block, "exiting", "closed"}
          /\ ~failed /\ block' # "open" => \A t \in Tasks : call[t] = "idle"
          /\ ~failed /\ block' = "closed" => items_buffer = <<>> /\ call[Exit] = "idle"
      BY <2>4 DEF LeaveBlock, ExitDone, vars, WriterInv
    <3>2. TypeOK'
      BY <3>1 DEF WriterInv, TypeOK
    <3>3. NothingLost'
      BY <3>1 DEF WriterInv, NothingLost, Newest, Buffered, InFlight
    <3> QED
      BY <3>1, <3>2, <3>3 DEF WriterInv, Genuine
  <2> QED
    BY <2>1, <2>2, <2>3, <2>4 DEF Next
<1> QED
  BY <1>1, <1>2, PTL DEF Spec

(* Every variable keeps its type, and no batch is longer than flush_amount.  *)
THEOREM TypeCorrect == Spec => []TypeOK
<1>1. WriterInv => TypeOK
  BY DEF WriterInv
<1> QED
  BY <1>1, WriterInvariant, PTL

(* Until a call raises, the last request for a key is buffered, under way or *)
(* applied, however the writer's tasks interleave.                           *)
THEOREM LosesNothing == Spec => []NothingLost
<1>1. WriterInv => NothingLost
  BY DEF WriterInv
<1> QED
  BY <1>1, WriterInvariant, PTL

-----------------------------------------------------------------------------
(* As long as no task used the writer during another one's flush.            *)

(* A request that is later than what the table holds under its key.          *)
Fresh(r) == table[r.key] <= r.id

AloneInv ==
    ~overlapped =>
        /\ \A t, u \in Flushers : call[t] # "idle" /\ call[u] # "idle" => t = u
        /\ \A t \in Flushers : call[t] # "idle" => items_buffer = <<>>
        /\ Len(items_buffer) < FlushAmount
        /\ \A t \in Flushers : call[t] = "answered" => Len(unprocessed[t]) < FlushAmount
        /\ overwrite =>
             /\ DistinctIn(items_buffer)
             /\ \A t \in Flushers : DistinctIn(batch[t]) /\ DistinctIn(unprocessed[t])
        /\ \A r \in ToSet(items_buffer) : Fresh(r)
        /\ \A t \in Flushers : \A r \in Pending(t) : Fresh(r)

OrderInv == AloneInv /\ \A k \in Keys : table[k] <= Len(made)

(* What DynamoDB applies only moves the table forward.                       *)
LEMMA ApplyAdvances ==
  ASSUME WriterInv, OrderInv, NEW t \in Flushers, NEW items,
         ToSet(items) \subseteq ToSet(batch[t]), Apply(items)
  PROVE  /\ \A k \in Keys : table'[k] <= Len(made)
         /\ (\A r \in ToSet(batch[t]) : Fresh(r)) => \A k \in Keys : table'[k] >= table[k]
         /\ \A k \in Keys : (\A r \in ToSet(items) : r.key # k) => table'[k] = table[k]
<1>1. /\ table \in [Keys -> Nat] /\ Len(made) \in Nat
      /\ \A r \in ToSet(items) : r.id \in 1..Len(made)
  BY DEF WriterInv, TypeOK, Genuine
<1> SUFFICES ASSUME NEW k \in Keys
             PROVE  /\ table'[k] <= Len(made)
                    /\ (\A r \in ToSet(batch[t]) : Fresh(r)) => table'[k] >= table[k]
                    /\ (\A r \in ToSet(items) : r.key # k) => table'[k] = table[k]
  OBVIOUS
<1>2. CASE \A r \in ToSet(items) : r.key # k
  <2>1. table'[k] = table[k]
    BY <1>2 DEF Apply
  <2> QED
    BY <1>1, <2>1 DEF OrderInv
<1>3. CASE \E r \in ToSet(items) : r.key = k
  <2> DEFINE c == CHOOSE r \in ToSet(items) : r.key = k
  <2>1. c \in ToSet(items) /\ c.key = k
    BY <1>3
  <2>2. table'[k] = c.id
    BY <1>3 DEF Apply
  <2> HIDE DEF c
  <2>3. c.id \in Nat /\ c.id <= Len(made) /\ table[k] \in Nat
    BY <1>1, <2>1
  <2> QED
    BY <1>3, <2>1, <2>2, <2>3 DEF Fresh
<1> QED
  BY <1>2, <1>3

(* Requests a task takes up while it alone uses the writer.                  *)
LEMMA AloneSends ==
  ASSUME WriterInv, NEW t \in Flushers, NEW items \in Seq(Request),
         \A u \in Flushers : call[u] = "idle",
         Send(t, items), ~overlapped', UNCHANGED <<table, overwrite>>,
         Len(items) <= FlushAmount,
         overwrite => DistinctIn(items) /\ \A u \in Flushers : DistinctIn(batch[u]) /\ DistinctIn(unprocessed[u]),
         \A r \in ToSet(items) : Fresh(r)
  PROVE  AloneInv'
<1>1. /\ unprocessed' = unprocessed /\ items_buffer' = <<>> /\ call'[t] = "sent"
      /\ \A u \in Flushers \ {t} : batch'[u] = batch[u] /\ call'[u] = call[u]
      /\ ToSet(batch'[t]) \cup ToSet(items_buffer') = ToSet(items)
      /\ DistinctIn(items) => DistinctIn(batch'[t])
  BY SendMoves
<1>2. /\ Len(<<>>) = 0 /\ ToSet(<<>>) = {} /\ FlushAmount \in Nat \ {0}
      /\ DistinctIn(<<>>)
  BY AmountsAssumption DEF ToSet, DistinctIn
<1>3. \A u \in Flushers : unprocessed[u] = <<>>
  BY DEF WriterInv
<1>4. \A r : Fresh(r)' <=> Fresh(r)
  BY DEF Fresh
<1>5. \A u \in Flushers : \A r \in Pending(u)' : Fresh(r)'
  BY <1>1, <1>2, <1>3, <1>4 DEF Pending
<1>6. overwrite => \A u \in Flushers : DistinctIn(batch'[u]) /\ DistinctIn(unprocessed'[u])
  BY <1>1
<1>7. \A u \in Flushers : call'[u] # "idle" => u = t
  BY <1>1
<1> QED
  BY <1>1, <1>2, <1>4, <1>5, <1>6, <1>7 DEF AloneInv

(* Every step keeps the order, overlapping calls put aside.                  *)
LEMMA OrderStep ==
  ASSUME WriterInv, WriterInv', OrderInv, [Next]_vars
  PROVE  OrderInv' /\ (~overlapped' => \A k \in Keys : table'[k] >= table[k])
<1>0. /\ table \in [Keys -> Nat] /\ made \in Seq(Keys) /\ Len(made) \in Nat
      /\ items_buffer \in Seq(Request) /\ overlapped \in BOOLEAN
      /\ batch \in [Flushers -> Seq(Request)]
      /\ unprocessed \in [Flushers -> Seq(Request)]
      /\ call \in [Flushers -> {"idle", "sent", "answered"}]
      /\ Len(<<>>) = 0 /\ ToSet(<<>>) = {} /\ FlushAmount \in Nat \ {0}
      /\ DistinctIn(<<>>)
  BY AmountsAssumption DEF WriterInv, TypeOK, ToSet, DistinctIn
<1>1. ASSUME UNCHANGED table, Len(made') >= Len(made), ~overlapped' => AloneInv'
      PROVE  OrderInv' /\ (~overlapped' => \A k \in Keys : table'[k] >= table[k])
  <2>1. Len(made') \in Nat
    BY DEF WriterInv, TypeOK
  <2> QED
    BY <1>0, <1>1, <2>1 DEF OrderInv, AloneInv
<1>2. ASSUME NEW t \in Tasks, NEW key \in Keys, PutOrDelete(t, key)
      PROVE  UNCHANGED table /\ Len(made') >= Len(made) /\ (~overlapped' => AloneInv')
  <2> DEFINE new == [key |-> key, id |-> Len(made) + 1]
  <2>0. /\ t \in Flushers /\ call[t] = "idle" /\ UNCHANGED <<table, overwrite>>
        /\ made' = Append(made, key)
        /\ overlapped' = (overlapped \/ \E u \in Flushers \ {t} : call[u] # "idle")
    BY <1>2 DEF PutOrDelete, NoteOverlap, Flushers
  <2>1. Len(made') = Len(made) + 1
    BY <1>0, <2>0
  <2> SUFFICES ASSUME ~overlapped' PROVE AloneInv'
    BY <1>0, <2>0, <2>1
  <2>2. /\ ~overlapped /\ \A u \in Flushers : call[u] = "idle"
        /\ \A u \in Flushers : batch[u] = <<>> /\ unprocessed[u] = <<>>
    BY <2>0 DEF WriterInv
  <2>3. /\ Len(items_buffer) < FlushAmount
        /\ overwrite => DistinctIn(items_buffer)
        /\ \A r \in ToSet(items_buffer) : Fresh(r)
    BY <2>2 DEF OrderInv, AloneInv
  <2>4. \A r : r = new => Fresh(r)
    BY <1>0 DEF OrderInv, Fresh
  <2>5. PICK items \in Seq(Request) :
          /\ IF MustFlush(items)
             THEN Send(t, items)
             ELSE items_buffer' = items /\ UNCHANGED <<batch, unprocessed, call>>
          /\ \A r \in ToSet(items) : r \in ToSet(items_buffer) \/ r = new
          /\ Len(items) <= Len(items_buffer) + 1
          /\ overwrite /\ DistinctIn(items_buffer) => DistinctIn(items)
    BY <1>2, PutAppends
  <2> HIDE DEF new
  <2>6. /\ Len(items) <= FlushAmount /\ \A r \in ToSet(items) : Fresh(r)
        /\ overwrite => DistinctIn(items)
    BY <1>0, <2>3, <2>4, <2>5
  <2>7. CASE MustFlush(items)
    BY <1>0, <2>0, <2>2, <2>5, <2>6, <2>7, AloneSends
  <2>8. CASE ~MustFlush(items)
    <3>1. items_buffer' = items /\ UNCHANGED <<batch, unprocessed, call>>
      BY <2>5, <2>8
    <3>2. Len(items) < FlushAmount
      BY <1>0, <2>5, <2>8 DEF MustFlush
    <3>3. \A u \in Flushers : Pending(u)' = {}
      BY <1>0, <2>2, <3>1 DEF Pending
    <3>4. \A r : Fresh(r)' <=> Fresh(r)
      BY <2>0 DEF Fresh
    <3> QED
      BY <1>0, <2>0, <2>2, <2>6, <3>1, <3>2, <3>3, <3>4 DEF AloneInv
  <2> QED
    BY <2>7, <2>8
<1>3. CASE ExitFlush
  <2>0. /\ Exit \in Flushers /\ call[Exit] = "idle" /\ Send(Exit, items_buffer)
        /\ UNCHANGED <<table, overwrite, made>>
        /\ overlapped' = (overlapped \/ \E u \in Flushers \ {Exit} : call[u] # "idle")
    BY <1>3 DEF ExitFlush, NoteOverlap, Flushers
  <2>1. ~overlapped' => AloneInv'
    <3> SUFFICES ASSUME ~overlapped' PROVE AloneInv'
      OBVIOUS
    <3>1. ~overlapped /\ \A u \in Flushers : call[u] = "idle"
      BY <2>0
    <3>2. /\ Len(items_buffer) < FlushAmount
          /\ overwrite => /\ DistinctIn(items_buffer)
                          /\ \A u \in Flushers : DistinctIn(batch[u]) /\ DistinctIn(unprocessed[u])
          /\ \A r \in ToSet(items_buffer) : Fresh(r)
      BY <3>1 DEF OrderInv, AloneInv
    <3>3. Len(items_buffer) <= FlushAmount
      BY <1>0, <3>2
    <3> QED
      BY <1>0, <2>0, <3>1, <3>2, <3>3, AloneSends
  <2> QED
    BY <1>0, <1>1, <2>0, <2>1
<1>4. ASSUME NEW t \in Flushers, Answered(t)
      PROVE  UNCHANGED table /\ Len(made') >= Len(made) /\ (~overlapped' => AloneInv')
  <2>0. /\ call[t] = "answered" /\ items_buffer' = items_buffer \o unprocessed[t]
        /\ Returns(t) /\ UNCHANGED <<table, overwrite, made, overlapped>>
    BY <1>4 DEF Answered
  <2> SUFFICES ASSUME ~overlapped PROVE AloneInv'
    BY <1>0, <2>0
  <2>1. /\ items_buffer = <<>> /\ Len(unprocessed[t]) < FlushAmount
        /\ overwrite => DistinctIn(unprocessed[t])
        /\ overwrite => \A u \in Flushers : DistinctIn(batch[u]) /\ DistinctIn(unprocessed[u])
        /\ \A r \in ToSet(unprocessed[t]) : Fresh(r)
        /\ \A u \in Flushers \ {t} : call[u] = "idle"
    BY <2>0 DEF OrderInv, AloneInv, Pending
  <2>2. items_buffer' = unprocessed[t]
    BY <1>0, <2>0, <2>1
  <2>3. /\ \A u \in Flushers : call'[u] = "idle"
        /\ \A u \in Flushers : batch'[u] \in {<<>>, batch[u]} /\ unprocessed'[u] \in {<<>>, unprocessed[u]}
    BY <1>0, <2>0, <2>1 DEF Returns
  <2>4. \A u \in Flushers : Pending(u)' = {}
    BY <1>0, <2>3 DEF Pending, WriterInv
  <2>5. \A r : Fresh(r)' <=> Fresh(r)
    BY <2>0 DEF Fresh
  <2> QED
    BY <1>0, <2>0, <2>1, <2>2, <2>3, <2>4, <2>5 DEF AloneInv
<1>5. ASSUME NEW t \in Flushers, ServiceProcesses(t) \/ CallRaises(t)
      PROVE  OrderInv' /\ (~overlapped' => \A k \in Keys : table'[k] >= table[k])
  <2>0. /\ call[t] = "sent" /\ UNCHANGED <<overwrite, items_buffer, made, overlapped>>
        /\ batch[t] \in Seq(Request)
    BY <1>0, <1>5 DEF ServiceProcesses, CallRaises
  <2>1. \/ UNCHANGED <<table, applied>>
        \/ \E done \in SUBSET (1..Len(batch[t])) : Apply(At(batch[t], done))
    BY <1>5 DEF ServiceProcesses, CallRaises
  <2>2. ~overlapped => /\ items_buffer = <<>> /\ \A u \in Flushers \ {t} : call[u] = "idle"
                       /\ \A r \in ToSet(batch[t]) : Fresh(r)
    BY <2>0 DEF OrderInv, AloneInv, Pending
  <2>3. /\ \A k \in Keys : table'[k] <= Len(made)
        /\ ~overlapped => \A k \in Keys : table'[k] >= table[k]
    <3>1. CASE UNCHANGED <<table, applied>>
      BY <1>0, <3>1 DEF OrderInv
    <3>2. CASE \E done \in SUBSET (1..Len(batch[t])) : Apply(At(batch[t], done))
      <4>1. PICK done \in SUBSET (1..Len(batch[t])) : Apply(At(batch[t], done))
        BY <3>2
      <4> DEFINE items == At(batch[t], done)
      <4>2. ToSet(items) = {batch[t][i] : i \in done}
        BY <2>0, AtSelects
      <4>3. {batch[t][i] : i \in done} \subseteq ToSet(batch[t])
        BY <2>0 DEF ToSet
      <4> HIDE DEF items
      <4>4. ToSet(items) \subseteq ToSet(batch[t])
        BY <4>2, <4>3
      <4>5. Apply(items)
        BY <4>1 DEF items
      <4> QED
        BY <2>2, <4>4, <4>5, ApplyAdvances
    <3> QED
      BY <2>1, <3>1, <3>2
  <2> SUFFICES ASSUME ~overlapped PROVE AloneInv'
    BY <2>0, <2>3 DEF OrderInv, AloneInv
  <2>4. overwrite => \A u \in Flushers : DistinctIn(batch[u]) /\ DistinctIn(unprocessed[u])
    BY DEF OrderInv, AloneInv
  <2>5. Len(items_buffer') < FlushAmount /\ ToSet(items_buffer') = {} /\ DistinctIn(items_buffer')
    BY <1>0, <2>0, <2>2
  <2>6. CASE CallRaises(t)
    <3>1. /\ call' = [call EXCEPT ![t] = "idle"]
          /\ batch' = [batch EXCEPT ![t] = <<>>]
          /\ unprocessed' = [unprocessed EXCEPT ![t] = <<>>]
      BY <2>6 DEF CallRaises, Returns
    <3>2. /\ \A u \in Flushers : call'[u] = "idle"
          /\ \A u \in Flushers : batch'[u] \in {<<>>, batch[u]} /\ unprocessed'[u] \in {<<>>, unprocessed[u]}
      BY <1>0, <2>2, <3>1
    <3>3. \A u \in Flushers : Pending(u)' = {}
      BY <1>0, <3>2 DEF Pending, WriterInv
    <3> QED
      BY <1>0, <2>0, <2>4, <2>5, <3>2, <3>3 DEF AloneInv
  <2>7. CASE ServiceProcesses(t)
    <3>1. PICK done \in (SUBSET (1..Len(batch[t]))) \ {{}} :
            /\ Apply(At(batch[t], done))
            /\ unprocessed' =
                 [unprocessed EXCEPT ![t] = At(batch[t], (1..Len(batch[t])) \ done)]
      BY <2>7 DEF ServiceProcesses
    <3> DEFINE yes == At(batch[t], done)
               rest == (1..Len(batch[t])) \ done
               no  == At(batch[t], rest)
    <3>2. /\ call' = [call EXCEPT ![t] = "answered"] /\ batch' = batch
          /\ DistinctIn(batch[t])
      BY <2>7 DEF ServiceProcesses
    <3>3. /\ no \in Seq(Request) /\ Len(no) = Cardinality(rest)
          /\ ToSet(yes) = {batch[t][i] : i \in done}
          /\ ToSet(no) = {batch[t][i] : i \in rest}
          /\ DistinctIn(no)
      <4>1. done \in SUBSET (1..Len(batch[t])) /\ rest \in SUBSET (1..Len(batch[t]))
        OBVIOUS
      <4> HIDE DEF rest
      <4> QED
        BY <2>0, <3>2, <4>1, AtSelects
    <3>4. Len(no) < FlushAmount
      <4> DEFINE D == 1..Len(batch[t])
      <4>1. Len(batch[t]) \in Nat /\ Len(batch[t]) <= FlushAmount
        BY <2>0 DEF WriterInv, TypeOK
      <4>2. IsFiniteSet(D) /\ Cardinality(D) = Len(batch[t])
        <5>1. 1 \in Int /\ Len(batch[t]) \in Int
          BY <4>1
        <5>2. IsFiniteSet(D) /\ Cardinality(D) = IF 1 > Len(batch[t]) THEN 0 ELSE Len(batch[t]) - 1 + 1
          BY <5>1, FS_Interval
        <5> QED
          BY <4>1, <5>2
      <4>3. rest \in SUBSET D /\ rest # D
        <5>1. done \subseteq D /\ done # {} /\ rest = D \ done
          OBVIOUS
        <5> HIDE DEF D, rest
        <5> QED
          BY <5>1
      <4> HIDE DEF D, rest
      <4>4. Cardinality(rest) <= Cardinality(D) /\ Cardinality(rest) # Cardinality(D)
        BY <4>2, <4>3, FS_Subset
      <4>5. Cardinality(rest) \in Nat
        BY <4>2, <4>3, FS_Subset, FS_CardinalityType
      <4> QED
        BY <1>0, <3>3, <4>1, <4>2, <4>4, <4>5
    <3>5. \A r \in ToSet(no) : r.key \in Keys /\ \A q \in ToSet(yes) : q.key # r.key
      <4> SUFFICES ASSUME NEW i \in rest
                   PROVE  /\ batch[t][i].key \in Keys
                          /\ \A j \in done : batch[t][j].key # batch[t][i].key
        BY <3>3
      <4>1. batch[t][i] \in Request
        BY <2>0
      <4> QED
        BY <3>2, <4>1 DEF DistinctIn, Request
    <3>6. ToSet(yes) \subseteq ToSet(batch[t]) /\ ToSet(no) \subseteq ToSet(batch[t])
      <4>1. /\ {batch[t][i] : i \in done} \subseteq ToSet(batch[t])
            /\ {batch[t][i] : i \in rest} \subseteq ToSet(batch[t])
        BY <2>0 DEF ToSet
      <4> HIDE DEF rest
      <4> QED
        BY <3>3, <4>1
    <3>7. Apply(yes) /\ unprocessed' = [unprocessed EXCEPT ![t] = no]
      BY <3>1
    <3> HIDE DEF yes, no, rest
    <3>8. \A r \in ToSet(no) : Fresh(r)'
      <4>1. \A k \in Keys : (\A r \in ToSet(yes) : r.key # k) => table'[k] = table[k]
        BY <3>6, <3>7, ApplyAdvances
      <4> QED
        BY <2>2, <3>5, <3>6, <4>1 DEF Fresh
    <3>9. /\ unprocessed'[t] = no /\ call'[t] = "answered"
          /\ \A u \in Flushers \ {t} : unprocessed'[u] = unprocessed[u] /\ call'[u] = "idle"
      BY <1>0, <2>2, <3>2, <3>7
    <3>10. \A u \in Flushers : \A r \in Pending(u)' : Fresh(r)'
      <4>1. \A u \in Flushers \ {t} : unprocessed'[u] = <<>>
        BY <2>2, <3>9 DEF WriterInv
      <4> QED
        BY <1>0, <3>8, <3>9, <4>1 DEF Pending
    <3>11. overwrite => \A u \in Flushers : DistinctIn(batch'[u]) /\ DistinctIn(unprocessed'[u])
      BY <2>4, <3>2, <3>3, <3>9
    <3>12. \A u \in Flushers : call'[u] # "idle" => u = t
      BY <3>9
    <3> QED
      BY <2>0, <2>2, <2>5, <3>4, <3>9, <3>10, <3>11, <3>12 DEF AloneInv
  <2> QED
    BY <1>5, <2>6, <2>7
<1>6. CASE LeaveBlock \/ ExitDone \/ UNCHANGED vars
  <2>1. UNCHANGED <<overwrite, items_buffer, made, call, batch, unprocessed, table, overlapped>>
    BY <1>6 DEF LeaveBlock, ExitDone, vars
  <2>2. AloneInv'
    BY <2>1 DEF OrderInv, AloneInv, Fresh, Pending
  <2> QED
    BY <1>0, <1>1, <2>1, <2>2
<1> QED
  BY <1>1, <1>2, <1>3, <1>4, <1>5, <1>6 DEF Next, Call

(* In every reachable state what the writer holds is newer than the table,   *)
(* unless calls have overlapped (_flush sends and then appends, 108-119).     *)
THEOREM OrderInvariant == Spec => [](WriterInv /\ OrderInv)
<1>1. Init => OrderInv
  <2> SUFFICES ASSUME Init PROVE OrderInv
    OBVIOUS
  <2>1. /\ Len(<<>>) = 0 /\ ToSet(<<>>) = {} /\ FlushAmount \in Nat \ {0}
        /\ DistinctIn(<<>>)
    BY AmountsAssumption DEF ToSet, DistinctIn
  <2>2. \A t \in Flushers : batch[t] = <<>> /\ unprocessed[t] = <<>> /\ call[t] = "idle"
    BY DEF Init
  <2>3. AloneInv
    BY <2>1, <2>2 DEF Init, AloneInv, Pending
  <2> QED
    BY <2>1, <2>3 DEF Init, OrderInv
<1>2. WriterInv /\ WriterInv' /\ OrderInv /\ [Next]_vars => OrderInv'
  BY OrderStep
<1> QED
  BY <1>1, <1>2, WriterInvariant, PTL DEF Spec

(* As long as calls do not overlap, no two requests for a key meet in the    *)
(* buffer or in a batch under overwrite_by_pkeys, and between calls the      *)
(* buffer is shorter than a batch.                                           *)
THEOREM StaysInOrder == Spec => []OrderedUnlessOverlapped
<1>1. OrderInv => OrderedUnlessOverlapped
  BY DEF OrderInv, AloneInv, OrderedUnlessOverlapped
<1> QED
  BY <1>1, OrderInvariant, PTL

(* As long as calls do not overlap, no step puts an older request of a key   *)
(* over a newer one.                                                         *)
THEOREM NewestStays == Spec => NewestWins
<1>1. /\ WriterInv /\ WriterInv' /\ OrderInv /\ [Next]_vars
      => [~overlapped' => \A k \in Keys : table'[k] >= table[k]]_vars
  BY OrderStep
<1> QED
  BY <1>1, OrderInvariant, WriterInvariant, PTL DEF Spec, NewestWins

(* The table holds a request of the key, and while calls do not overlap one  *)
(* no older than any that was carried out.                                   *)
TableInv ==
    /\ \A k \in Keys : table[k] # 0 => table[k] \in 1..Len(made) /\ made[table[k]] = k
    /\ ~overlapped => \A i \in applied : table[made[i]] >= i

(* Carrying out requests for different keys puts each into the table.        *)
LEMMA ApplyWrites ==
  ASSUME WriterInv, TableInv, NEW items, Apply(items),
         \A r \in ToSet(items) : r \in Request /\ Genuine(r),
         \A r, q \in ToSet(items) : r.key = q.key => r = q,
         \A k \in Keys : ~overlapped => table'[k] >= table[k],
         UNCHANGED <<made, overlapped>>, table' \in [Keys -> Nat]
  PROVE  TableInv'
<1>0. /\ table \in [Keys -> Nat] /\ made \in Seq(Keys) /\ Len(made) \in Nat
      /\ applied \subseteq 1..Len(made)
      /\ \A i \in 1..Len(made) : made[i] \in Keys
  <2>1. TypeOK
    BY DEF WriterInv
  <2>2. /\ table \in [Keys -> Nat] /\ made \in Seq(Keys)
        /\ applied \subseteq 1..Len(made)
    BY <2>1 DEF TypeOK
  <2>3. Len(made) \in Nat /\ \A i \in 1..Len(made) : made[i] \in Keys
    BY <2>2
  <2> QED
    BY <2>2, <2>3
<1>1. ASSUME NEW k \in Keys, \A r \in ToSet(items) : r.key # k
      PROVE  table'[k] = table[k]
  BY <1>1 DEF Apply
<1>2. ASSUME NEW r \in ToSet(items)
      PROVE  r.key \in Keys /\ table'[r.key] = r.id
  <2> DEFINE c == CHOOSE q \in ToSet(items) : q.key = r.key
  <2>1. c \in ToSet(items) /\ c.key = r.key
    OBVIOUS
  <2>2. r.key \in Keys
    BY DEF Request
  <2>3. table'[r.key] = c.id
    BY <2>2 DEF Apply
  <2> HIDE DEF c
  <2>4. c = r
    BY <2>1
  <2> QED
    BY <2>2, <2>3, <2>4
<1>3. ASSUME NEW k \in Keys, table'[k] # 0
      PROVE  table'[k] \in 1..Len(made) /\ made[table'[k]] = k
  <2>1. CASE \A r \in ToSet(items) : r.key # k
    BY <1>1, <1>3, <2>1 DEF TableInv
  <2>2. CASE \E r \in ToSet(items) : r.key = k
    <3>1. PICK r \in ToSet(items) : r.key = k
      BY <2>2
    <3> QED
      BY <1>2, <3>1 DEF Genuine
  <2> QED
    BY <2>1, <2>2
<1>4. ASSUME ~overlapped, NEW i \in applied'
      PROVE  table'[made[i]] >= i
  <2>1. CASE i \in applied
    <3>1. /\ made[i] \in Keys /\ i \in Nat /\ table[made[i]] >= i
          /\ table[made[i]] \in Nat /\ table'[made[i]] \in Nat
      BY <1>0, <1>4, <2>1 DEF TableInv
    <3>2. table'[made[i]] >= table[made[i]]
      BY <1>4, <3>1
    <3> QED
      BY <3>1, <3>2
  <2>2. CASE \E r \in ToSet(items) : i = r.id
    <3>1. PICK r \in ToSet(items) : i = r.id
      BY <2>2
    <3>2. made[i] = r.key /\ i \in Nat
      BY <1>0, <3>1 DEF Genuine
    <3> QED
      BY <1>2, <3>1, <3>2
  <2> QED
    BY <2>1, <2>2 DEF Apply
<1> QED
  BY <1>3, <1>4 DEF TableInv

LEMMA TableStep ==
  ASSUME WriterInv, WriterInv', OrderInv, TableInv, [Next]_vars
  PROVE  TableInv'
<1>0. /\ table \in [Keys -> Nat] /\ table' \in [Keys -> Nat]
      /\ made \in Seq(Keys) /\ Len(made) \in Nat
      /\ applied \subseteq 1..Len(made) /\ overlapped \in BOOLEAN
      /\ batch \in [Flushers -> Seq(Request)]
      /\ \A i \in 1..Len(made) : made[i] \in Keys
  <2>1. TypeOK /\ TypeOK'
    BY DEF WriterInv
  <2>2. table' \in [Keys -> Nat]
    BY <2>1 DEF TypeOK
  <2>3. /\ table \in [Keys -> Nat] /\ made \in Seq(Keys)
        /\ applied \subseteq 1..Len(made) /\ overlapped \in BOOLEAN
        /\ batch \in [Flushers -> Seq(Request)]
    BY <2>1 DEF TypeOK
  <2>4. Len(made) \in Nat /\ \A i \in 1..Len(made) : made[i] \in Keys
    BY <2>3
  <2> QED
    BY <2>2, <2>3, <2>4
<1>1. ~overlapped' => \A k \in Keys : table'[k] >= table[k]
  BY OrderStep
<1>2. ASSUME NEW t \in Tasks, NEW key \in Keys, PutOrDelete(t, key)
      PROVE  TableInv'
  <2>1. /\ made' = Append(made, key) /\ UNCHANGED <<table, applied>>
        /\ overlapped => overlapped'
    BY <1>2 DEF PutOrDelete, NoteOverlap
  <2>2. Len(made') = Len(made) + 1 /\ \A i \in 1..Len(made) : made'[i] = made[i]
    BY <1>0, <2>1
  <2>3. \A i \in 1..Len(made) : i \in 1..Len(made')
    BY <1>0, <2>2
  <2>4. \A k \in Keys : table'[k] # 0 => table'[k] \in 1..Len(made') /\ made'[table'[k]] = k
    BY <2>1, <2>2, <2>3 DEF TableInv
  <2>5. ~overlapped' => \A i \in applied' : table'[made'[i]] >= i
    BY <1>0, <2>1, <2>2 DEF TableInv
  <2> QED
    BY <2>4, <2>5 DEF TableInv
<1>3. ASSUME UNCHANGED <<table, applied, made, overlapped>>
      PROVE  TableInv'
  BY <1>3 DEF TableInv
<1>4. ASSUME NEW t \in Flushers, NEW done \in SUBSET (1..Len(batch[t])),
             Apply(At(batch[t], done)), DistinctIn(batch[t]), UNCHANGED <<made, overlapped>>
      PROVE  TableInv'
  <2> DEFINE items == At(batch[t], done)
  <2>1. batch[t] \in Seq(Request)
    BY <1>0
  <2>2. /\ items \in Seq(Request)
        /\ ToSet(items) = {batch[t][i] : i \in done}
    BY <2>1, AtSelects
  <2>3. \A i \in 1..Len(batch[t]) : batch[t][i] \in ToSet(batch[t]) /\ batch[t][i] \in Request
    BY <2>1 DEF ToSet
  <2>4. \A r \in ToSet(items) : r \in Request /\ Genuine(r)
    BY <2>2, <2>3 DEF WriterInv
  <2>5. \A r, q \in ToSet(items) : r.key = q.key => r = q
    BY <1>4, <2>2 DEF DistinctIn
  <2>6. \A k \in Keys : ~overlapped => table'[k] >= table[k]
    BY <1>1, <1>4
  <2> HIDE DEF items
  <2>7. Apply(items)
    BY <1>4 DEF items
  <2> QED
    BY <1>0, <1>4, <2>4, <2>5, <2>6, <2>7, ApplyWrites
<1>5. ASSUME NEW t \in Flushers, Call(t)
      PROVE  TableInv'
  <2>1. CASE ServiceProcesses(t)
    BY <1>4, <2>1 DEF ServiceProcesses
  <2>2. CASE CallRaises(t)
    <3>1. UNCHANGED <<made, overlapped>>
      BY <2>2 DEF CallRaises
    <3>2. \/ UNCHANGED <<table, applied>>
          \/ /\ DistinctIn(batch[t])
             /\ \E done \in SUBSET (1..Len(batch[t])) : Apply(At(batch[t], done))
      BY <2>2 DEF CallRaises
    <3> QED
      BY <1>3, <1>4, <3>1, <3>2
  <2>3. CASE Answered(t)
    BY <1>3, <2>3 DEF Answered
  <2> QED
    BY <1>5, <2>1, <2>2, <2>3 DEF Call
<1>6. CASE LeaveBlock \/ ExitDone \/ UNCHANGED vars
  BY <1>3, <1>6 DEF LeaveBlock, ExitDone, vars
<1>7. CASE ExitFlush
  <2>1. UNCHANGED <<table, applied, made>> /\ (overlapped => overlapped')
    BY <1>7 DEF ExitFlush, NoteOverlap
  <2> QED
    BY <2>1 DEF TableInv
<1> QED
  BY <1>2, <1>5, <1>6, <1>7 DEF Next

(* A block left without an error has carried out the last request of every   *)
(* key, and unless calls overlapped the table holds it.                      *)
THEOREM ExitWritesAll == Spec => []ClosedMeansWritten
<1>1. Init => TableInv
  BY DEF Init, TableInv
<1>2. WriterInv /\ WriterInv' /\ OrderInv /\ TableInv /\ [Next]_vars => TableInv'
  BY TableStep
<1>3. WriterInv /\ TableInv => ClosedMeansWritten
  <2> SUFFICES ASSUME WriterInv, TableInv, block = "closed", ~failed, NEW i \in Newest
               PROVE  i \in applied /\ (~overlapped => table[made[i]] = i)
    BY DEF ClosedMeansWritten
  <2>1. items_buffer = <<>> /\ \A t \in Flushers : call[t] = "idle" /\ unprocessed[t] = <<>>
    BY DEF WriterInv, Flushers
  <2>2. Buffered = {} /\ InFlight = {}
    BY <2>1 DEF Buffered, InFlight, ToSet
  <2>3. i \in applied
    BY <2>2 DEF WriterInv, NothingLost
  <2>4. ASSUME ~overlapped
        PROVE  table[made[i]] = i
    <3> DEFINE j == table[made[i]]
    <3>1. i \in 1..Len(made) /\ made[i] \in Keys /\ j \in Nat /\ Len(made) \in Nat
      BY DEF Newest, WriterInv, TypeOK
    <3>2. j >= i
      BY <2>3, <2>4 DEF TableInv
    <3>3. j # 0
      BY <3>1, <3>2
    <3>4. j \in 1..Len(made) /\ made[j] = made[i]
      BY <3>1, <3>3 DEF TableInv
    <3>5. j <= i
      BY <3>4 DEF Newest
    <3> QED
      BY <3>1, <3>2, <3>5
  <2> QED
    BY <2>3, <2>4
<1> QED
  BY <1>1, <1>2, <1>3, OrderInvariant, WriterInvariant, PTL DEF Spec

-----------------------------------------------------------------------------
(* How long a writer can go on.                                              *)

(* What is left of a flush, three steps for a request: it is sent, answered  *)
(* and perhaps back in the buffer.                                           *)
Weight(t) ==
  IF call[t] = "sent" THEN 3 * Len(batch[t]) - 1
  ELSE IF call[t] = "answered" THEN 3 * Len(unprocessed[t]) + 1 ELSE 0

CallSteps == {s \in Flushers \X (Nat \ {0}) : s[2] <= Weight(s[1])}

BlockRank == IF block = "open" THEN 2 ELSE IF block = "exiting" THEN 1 ELSE 0

Total(requests, buffered, steps, b) == 4 * requests + 3 * buffered + steps + b

Rank == Total(MaxRequests - Len(made), Len(items_buffer), Cardinality(CallSteps), BlockRank)

(* No call sends an empty batch, and finitely many calls are under way.      *)
RankInv ==
  /\ Len(made) <= MaxRequests
  /\ \A t \in Flushers : call[t] = "sent" => batch[t] # <<>>
  /\ IsFiniteSet(CallSteps)

(* The ways in which a step lowers the rank: a request is made; requests are *)
(* nearer to being processed; the block is nearer to its end.                *)
Falls(m, b, c, k, m1, b1, c1, k1) ==
  \/ m1 < m /\ 3 * b1 + c1 <= 3 * b + c + 3 /\ k1 <= k
  \/ m1 = m /\ 3 * b1 + c1 < 3 * b + c /\ k1 <= k
  \/ m1 = m /\ b1 = b /\ c1 = c /\ k1 < k

LEMMA TotalFalls ==
  \A m, b, c, k, m1, b1, c1, k1 \in Nat :
     Falls(m, b, c, k, m1, b1, c1, k1) => Total(m1, b1, c1, k1) < Total(m, b, c, k)
BY DEF Falls, Total

(* The steps of one task.                                                    *)
LEMMA OneColumn ==
  ASSUME NEW t, NEW w \in Nat
  PROVE  IsFiniteSet({t} \X (1..w)) /\ Cardinality({t} \X (1..w)) = w
<1>1. IsFiniteSet({t}) /\ Cardinality({t}) = 1
  BY FS_Singleton
<1>2. IsFiniteSet(1..w) /\ Cardinality(1..w) = w
  <2>1. 1 \in Int /\ w \in Int
    OBVIOUS
  <2>2. IsFiniteSet(1..w) /\ Cardinality(1..w) = IF 1 > w THEN 0 ELSE w - 1 + 1
    BY <2>1, FS_Interval
  <2> QED
    BY <2>2
<1> DEFINE A == {t}
           B == 1..w
<1> HIDE DEF A, B
<1>3. IsFiniteSet(A) /\ IsFiniteSet(B) /\ Cardinality(A) = 1 /\ Cardinality(B) = w
  BY <1>1, <1>2 DEF A, B
<1>4. IsFiniteSet(A \X B) /\ Cardinality(A \X B) = Cardinality(A) * Cardinality(B)
  BY <1>3, FS_Product
<1>5. Cardinality(A \X B) = w
  BY <1>3, <1>4
<1> QED
  BY <1>4, <1>5 DEF A, B

(* Replacing a part of a set by another one.                                *)
LEMMA PartReplaced ==
  ASSUME NEW S, NEW T, NEW C, NEW C1, IsFiniteSet(S), IsFiniteSet(C1),
         C \subseteq S, T = (S \ C) \cup C1, (S \ C) \cap C1 = {}
  PROVE  /\ IsFiniteSet(T) /\ Cardinality(S) \in Nat /\ Cardinality(T) \in Nat
         /\ Cardinality(T) + Cardinality(C) = Cardinality(S) + Cardinality(C1)
<1> DEFINE R == S \ C
<1>1. IsFiniteSet(R) /\ IsFiniteSet(C)
  BY FS_Subset
<1>2. S = R \cup C /\ R \cap C = {} /\ T = R \cup C1 /\ R \cap C1 = {}
  OBVIOUS
<1> HIDE DEF R
<1>3. Cardinality(R \cup C) = Cardinality(R) + Cardinality(C) - Cardinality(R \cap C)
  BY <1>1, FS_Union
<1>4. /\ Cardinality(R \cup C1) = Cardinality(R) + Cardinality(C1) - Cardinality(R \cap C1)
      /\ IsFiniteSet(R \cup C1)
  BY <1>1, FS_Union
<1>5. IsFiniteSet(T)
  BY <1>2, <1>4
<1>6. /\ Cardinality({}) = 0 /\ Cardinality(R) \in Nat /\ Cardinality(C) \in Nat
      /\ Cardinality(C1) \in Nat /\ Cardinality(S) \in Nat /\ Cardinality(T) \in Nat
  BY <1>1, <1>5, FS_EmptySet, FS_CardinalityType
<1>7. Cardinality(S) = Cardinality(R) + Cardinality(C) - 0
  BY <1>2, <1>3, <1>6
<1>8. Cardinality(T) = Cardinality(R) + Cardinality(C1) - 0
  BY <1>2, <1>4, <1>6
<1>9. Cardinality(T) + Cardinality(C) = Cardinality(S) + Cardinality(C1)
  BY <1>6, <1>7, <1>8
<1> QED
  BY <1>5, <1>6, <1>9

(* A task whose flush goes on changes its own weight only.                   *)
LEMMA OneTaskMoves ==
  ASSUME IsFiniteSet(CallSteps), NEW t \in Flushers,
         \A u \in Flushers \ {t} : Weight(u)' = Weight(u),
         Weight(t) \in Nat, Weight(t)' \in Nat
  PROVE  /\ IsFiniteSet(CallSteps')
         /\ Cardinality(CallSteps) \in Nat /\ Cardinality(CallSteps)' \in Nat
         /\ Cardinality(CallSteps)' + Weight(t) = Cardinality(CallSteps) + Weight(t)'
<1> DEFINE S == CallSteps
           T == CallSteps'
           w == Weight(t)
           w1 == Weight(t)'
           C == {t} \X (1..w)
           C1 == {t} \X (1..w1)
<1>1. /\ \A i \in Nat \ {0} : i \in 1..w <=> i <= w
      /\ \A i \in Nat \ {0} : i \in 1..w1 <=> i <= w1
      /\ 1..w \subseteq Nat \ {0} /\ 1..w1 \subseteq Nat \ {0}
  <2> HIDE DEF w, w1
  <2>1. w \in Nat /\ w1 \in Nat
    BY DEF w, w1
  <2> QED
    BY <2>1
<1>2. \A u \in Flushers, i \in Nat \ {0} : <<u, i>> \in S <=> i <= Weight(u)
  <2> SUFFICES ASSUME NEW u \in Flushers, NEW i \in Nat \ {0}
               PROVE  <<u, i>> \in S <=> i <= Weight(u)
    OBVIOUS
  <2>1. <<u, i>> \in Flushers \X (Nat \ {0}) /\ <<u, i>>[1] = u /\ <<u, i>>[2] = i
    OBVIOUS
  <2> QED
    BY <2>1 DEF CallSteps
<1>3. \A u \in Flushers, i \in Nat \ {0} : <<u, i>> \in T <=> i <= Weight(u)'
  <2> SUFFICES ASSUME NEW u \in Flushers, NEW i \in Nat \ {0}
               PROVE  <<u, i>> \in T <=> i <= Weight(u)'
    OBVIOUS
  <2>1. <<u, i>> \in Flushers \X (Nat \ {0}) /\ <<u, i>>[1] = u /\ <<u, i>>[2] = i
    OBVIOUS
  <2> QED
    BY <2>1 DEF CallSteps, Weight, Flushers
<1>4. \A s \in S \cup T : \E u \in Flushers, i \in Nat \ {0} : s = <<u, i>>
  BY DEF CallSteps, Flushers
<1>5. \A u \in Flushers, i \in Nat \ {0} :
         /\ <<u, i>> \in C <=> u = t /\ i <= w
         /\ <<u, i>> \in C1 <=> u = t /\ i <= w1
  BY <1>1
<1>6. \A s \in C \cup C1 : \E u \in Flushers, i \in Nat \ {0} : s = <<u, i>>
  BY <1>1
<1>7. IsFiniteSet(S) /\ w \in Nat /\ w1 \in Nat
  OBVIOUS
<1>a. /\ IsFiniteSet(C) /\ Cardinality(C) = w
      /\ IsFiniteSet(C1) /\ Cardinality(C1) = w1
  <2> HIDE DEF w, w1
  <2> QED
    BY <1>7, OneColumn
<1> HIDE DEF S, T, C, C1
<1>8. C \subseteq S
  <2> SUFFICES ASSUME NEW s \in C PROVE s \in S
    OBVIOUS
  <2>1. PICK u \in Flushers, i \in Nat \ {0} : s = <<u, i>>
    BY <1>6
  <2> QED
    BY <1>2, <1>5, <2>1
<1>9. T \subseteq (S \ C) \cup C1
  <2> SUFFICES ASSUME NEW s \in T PROVE s \in (S \ C) \cup C1
    OBVIOUS
  <2>1. PICK u \in Flushers, i \in Nat \ {0} : s = <<u, i>>
    BY <1>4
  <2> QED
    BY <1>2, <1>3, <1>5, <2>1
<1>10. (S \ C) \cup C1 \subseteq T
  <2> SUFFICES ASSUME NEW s \in (S \ C) \cup C1 PROVE s \in T
    OBVIOUS
  <2>1. PICK u \in Flushers, i \in Nat \ {0} : s = <<u, i>>
    BY <1>4, <1>6
  <2> QED
    BY <1>2, <1>3, <1>5, <2>1
<1>11. (S \ C) \cap C1 = {}
  <2> SUFFICES ASSUME NEW s \in S \ C, s \in C1 PROVE FALSE
    OBVIOUS
  <2>1. PICK u \in Flushers, i \in Nat \ {0} : s = <<u, i>>
    BY <1>4
  <2> QED
    BY <1>2, <1>5, <2>1
<1>12. T = (S \ C) \cup C1
  BY <1>9, <1>10
<1>13. /\ IsFiniteSet(T) /\ Cardinality(S) \in Nat /\ Cardinality(T) \in Nat
       /\ Cardinality(T) + Cardinality(C) = Cardinality(S) + Cardinality(C1)
  BY <1>7, <1>a, <1>8, <1>11, <1>12, PartReplaced
<1> QED
  BY <1>a, <1>13 DEF S, T

(* A flush sends something, and leaves what it does not send.                *)
LEMMA FlushSends ==
  ASSUME NEW items \in Seq(Request), items # <<>>
  PROVE  LET rest == SubSeq(items, FlushAmount + 1, Len(items)) IN
         /\ Len(FirstBatch(items)) \in Nat \ {0} /\ Len(rest) \in Nat
         /\ Len(FirstBatch(items)) + Len(rest) = Len(items)
<1> DEFINE L == Len(items)
           F == FlushAmount
           m == IF L <= F THEN L ELSE F
<1>1. /\ DOMAIN items = 1..L /\ L \in Nat \ {0} /\ F \in Nat \ {0} /\ m \in Nat \ {0}
      /\ \A i \in 1..L : items[i] \in Request
  BY AmountsAssumption
<1>2. FirstBatch(items) = [i \in 1..m |-> items[i]]
  <2>1. 1..L \cap 1..F = 1..m
    BY <1>1
  <2> QED
    BY <1>1, <2>1 DEF FirstBatch
<1>3. Len(FirstBatch(items)) = m
  BY <1>1, <1>2
<1>4. Len(SubSeq(items, F + 1, L)) = L - m
  <2>1. Len(SubSeq(items, F + 1, L)) = IF L >= F + 1 THEN L - F ELSE 0
    BY <1>1
  <2> HIDE DEF L, F
  <2>2. (IF L >= F + 1 THEN L - F ELSE 0) = L - m
    BY <1>1
  <2> QED
    BY <2>1, <2>2
<1>5. L - m \in Nat /\ m + (L - m) = L
  <2> HIDE DEF L, F
  <2> QED
    BY <1>1
<1> HIDE DEF m
<1> QED
  BY <1>1, <1>3, <1>4, <1>5

LEMMA WeightNat ==
  ASSUME WriterInv, RankInv
  PROVE  \A t \in Flushers : Weight(t) \in Nat
<1>1. \A t \in Flushers : batch[t] \in Seq(Request) /\ unprocessed[t] \in Seq(Request)
  BY DEF WriterInv, TypeOK
<1>2. \A q \in Seq(Request) : Len(q) \in Nat /\ (q # <<>> => Len(q) > 0)
  OBVIOUS
<1> QED
  BY <1>1, <1>2 DEF RankInv, Weight

(* The step from the last await to the one in which a batch is sent.         *)
LEMMA SendRank ==
  ASSUME WriterInv, RankInv, NEW t \in Flushers, call[t] = "idle",
         NEW items \in Seq(Request), items # <<>>, Send(t, items)
  PROVE  /\ \A u \in Flushers : call'[u] = "sent" => batch'[u] # <<>>
         /\ IsFiniteSet(CallSteps')
         /\ Cardinality(CallSteps) \in Nat /\ Cardinality(CallSteps)' \in Nat
         /\ Len(items_buffer') \in Nat
         /\ 3 * Len(items_buffer') + Cardinality(CallSteps)'
               = 3 * Len(items) + Cardinality(CallSteps) - 1
<1>1. /\ batch \in [Flushers -> Seq(Request)]
      /\ call \in [Flushers -> {"idle", "sent", "answered"}]
  BY DEF WriterInv, TypeOK
<1>2. /\ batch'[t] = FirstBatch(items) /\ call'[t] = "sent" /\ unprocessed' = unprocessed
      /\ items_buffer' = SubSeq(items, FlushAmount + 1, Len(items))
      /\ \A u \in Flushers \ {t} : batch'[u] = batch[u] /\ call'[u] = call[u]
  BY <1>1 DEF Send
<1>3. /\ Len(batch'[t]) \in Nat \ {0} /\ Len(items_buffer') \in Nat
      /\ Len(batch'[t]) + Len(items_buffer') = Len(items)
  BY <1>2, FlushSends
<1>4. \A u \in Flushers : call'[u] = "sent" => batch'[u] # <<>>
  <2>1. batch'[t] # <<>>
    BY <1>3
  <2> QED
    BY <1>2, <2>1 DEF RankInv
<1>5. Weight(t) = 0 /\ Weight(t)' = 3 * Len(batch'[t]) - 1
  BY <1>2 DEF Weight
<1>6. \A u \in Flushers \ {t} : Weight(u)' = Weight(u)
  BY <1>2 DEF Weight
<1>7. Weight(t) \in Nat /\ Weight(t)' \in Nat
  BY <1>3, <1>5
<1>8. /\ IsFiniteSet(CallSteps')
      /\ Cardinality(CallSteps) \in Nat /\ Cardinality(CallSteps)' \in Nat
      /\ Cardinality(CallSteps)' + Weight(t) = Cardinality(CallSteps) + Weight(t)'
  BY <1>6, <1>7, OneTaskMoves DEF RankInv
<1>9. 3 * Len(items_buffer') + Cardinality(CallSteps)'
        = 3 * Len(items) + Cardinality(CallSteps) - 1
  <2>1. \A x, y, z, c, c1 \in Nat :
           x + y = z /\ c1 + 0 = c + (3 * x - 1) => 3 * y + c1 = 3 * z + c - 1
    OBVIOUS
  <2>2. Len(items) \in Nat
    OBVIOUS
  <2>3. Cardinality(CallSteps)' + 0 = Cardinality(CallSteps) + (3 * Len(batch'[t]) - 1)
    BY <1>5, <1>8
  <2> DEFINE x == Len(batch'[t])
             y == Len(items_buffer')
             c == Cardinality(CallSteps)
             c1 == Cardinality(CallSteps')
  <2>4. x \in Nat /\ y \in Nat /\ c \in Nat /\ c1 \in Nat /\ x + y = Len(items)
        /\ c1 + 0 = c + (3 * x - 1)
    BY <1>3, <1>8, <2>3
  <2>5. ASSUME 3 * y + c1 = 3 * Len(items) + c - 1
        PROVE  3 * Len(items_buffer') + Cardinality(CallSteps)'
                 = 3 * Len(items) + Cardinality(CallSteps) - 1
    BY <2>5
  <2> HIDE DEF x, y, c, c1
  <2> QED
    BY <2>1, <2>2, <2>4, <2>5
<1> QED
  BY <1>3, <1>4, <1>8, <1>9

(* A request made.                                                           *)
LEMMA PutRank ==
  ASSUME WriterInv, RankInv, NEW t \in Tasks, NEW key \in Keys, PutOrDelete(t, key)
  PROVE  /\ RankInv' /\ BlockRank' = BlockRank
         /\ MaxRequests - Len(made') < MaxRequests - Len(made)
         /\ 3 * Len(items_buffer') + Cardinality(CallSteps')
               <= 3 * Len(items_buffer) + Cardinality(CallSteps) + 3
<1>1. /\ items_buffer \in Seq(Request) /\ made \in Seq(Keys) /\ t \in Flushers
      /\ Len(made) \in Nat /\ Len(items_buffer) \in Nat
      /\ Cardinality(CallSteps) \in Nat
  BY FS_CardinalityType DEF WriterInv, TypeOK, Flushers, RankInv
<1>2. /\ Len(made') = Len(made) + 1 /\ Len(made') <= MaxRequests /\ call[t] = "idle"
      /\ BlockRank' = BlockRank
  BY <1>1, AmountsAssumption DEF PutOrDelete, BlockRank
<1>3. MaxRequests - Len(made') < MaxRequests - Len(made)
  BY <1>1, <1>2, AmountsAssumption
<1>4. PICK items \in Seq(Request) :
        /\ IF MustFlush(items)
           THEN Send(t, items)
           ELSE items_buffer' = items /\ UNCHANGED <<batch, unprocessed, call>>
        /\ [key |-> key, id |-> Len(made) + 1] \in ToSet(items)
        /\ Len(items) <= Len(items_buffer) + 1
  BY PutAppends
<1>5. items # <<>> /\ Len(items) \in Nat
  BY <1>4, ListParts
<1>6. CASE MustFlush(items)
  <2>1. /\ \A u \in Flushers : call'[u] = "sent" => batch'[u] # <<>>
        /\ IsFiniteSet(CallSteps')
        /\ Cardinality(CallSteps)' \in Nat /\ Len(items_buffer') \in Nat
        /\ 3 * Len(items_buffer') + Cardinality(CallSteps)'
              = 3 * Len(items) + Cardinality(CallSteps) - 1
    BY <1>1, <1>2, <1>4, <1>5, <1>6, SendRank
  <2>2. \A x, y, c, c1, b \in Nat :
           x <= y + 1 /\ 3 * b + c1 = 3 * x + c - 1 => 3 * b + c1 <= 3 * y + c + 3
    OBVIOUS
  <2> QED
    BY <1>1, <1>2, <1>3, <1>4, <1>5, <2>1, <2>2 DEF RankInv
<1>7. CASE ~MustFlush(items)
  <2>1. items_buffer' = items /\ UNCHANGED <<batch, unprocessed, call>>
    BY <1>4, <1>7
  <2>2. CallSteps' = CallSteps
    BY <2>1 DEF CallSteps, Weight
  <2>3. \A x, y, c \in Nat : x <= y + 1 => 3 * x + c <= 3 * y + c + 3
    OBVIOUS
  <2>4. 3 * Len(items_buffer') + Cardinality(CallSteps')
          <= 3 * Len(items_buffer) + Cardinality(CallSteps) + 3
    BY <1>1, <1>4, <1>5, <2>1, <2>2, <2>3
  <2> QED
    BY <1>2, <1>3, <2>1, <2>2, <2>4 DEF RankInv
<1> QED
  BY <1>6, <1>7

(* An answer, an error, or the rest of a flush: what is not processed is     *)
(* fewer requests than were sent.                                            *)
LEMMA CallRank ==
  ASSUME WriterInv, RankInv, WriterInv', NEW t \in Flushers, Call(t)
  PROVE  /\ RankInv' /\ BlockRank' <= BlockRank /\ made' = made
         /\ 3 * Len(items_buffer') + Cardinality(CallSteps')
               < 3 * Len(items_buffer) + Cardinality(CallSteps)
<1>1. /\ items_buffer \in Seq(Request) /\ Len(items_buffer) \in Nat
      /\ batch \in [Flushers -> Seq(Request)] /\ unprocessed \in [Flushers -> Seq(Request)]
      /\ call \in [Flushers -> {"idle", "sent", "answered"}]
      /\ Len(batch[t]) \in Nat /\ Len(unprocessed[t]) \in Nat
      /\ call[t] = "sent" => Len(batch[t]) \in Nat \ {0}
  BY DEF WriterInv, TypeOK, RankInv
<1>2. made' = made /\ BlockRank' <= BlockRank
  BY DEF Call, ServiceProcesses, CallRaises, Answered, BlockRank
<1>3. /\ \A u \in Flushers \ {t} : /\ batch'[u] = batch[u] /\ call'[u] = call[u]
                                    /\ unprocessed'[u] = unprocessed[u]
      /\ call'[t] # "sent"
  BY <1>1 DEF Call, ServiceProcesses, CallRaises, Answered, Returns
<1>4. \A u \in Flushers \ {t} : Weight(u)' = Weight(u)
  BY <1>3 DEF Weight
<1>5. \A u \in Flushers : call'[u] = "sent" => batch'[u] # <<>>
  BY <1>3 DEF RankInv
<1>6. /\ Weight(t) \in Nat /\ Weight(t)' \in Nat /\ Len(items_buffer') \in Nat
      /\ 3 * Len(items_buffer') + Weight(t)' < 3 * Len(items_buffer) + Weight(t)
  <2>1. CASE ServiceProcesses(t)
    <3>1. /\ call[t] = "sent" /\ call'[t] = "answered" /\ items_buffer' = items_buffer
      BY <1>1, <2>1 DEF ServiceProcesses
    <3>2. PICK done \in (SUBSET (1..Len(batch[t]))) \ {{}} :
             unprocessed'[t] = At(batch[t], (1..Len(batch[t])) \ done)
      BY <1>1, <2>1 DEF ServiceProcesses
    <3>3. Len(unprocessed'[t]) \in Nat /\ Len(unprocessed'[t]) < Len(batch[t])
      <4> DEFINE n == Len(batch[t])
                 P == (1..n) \ done
      <4>1. /\ Len(At(batch[t], P)) = Cardinality(P) /\ Cardinality(P) \in Nat
            /\ Cardinality(P) <= n
        BY <1>1, AtSelects
      <4>2. P \subseteq 1..n /\ P # 1..n
        BY <3>2
      <4>3. IsFiniteSet(1..n) /\ Cardinality(1..n) = n
        <5>1. 1 \in Int /\ n \in Int /\ n \in Nat
          BY <1>1
        <5>2. IsFiniteSet(1..n) /\ Cardinality(1..n) = IF 1 > n THEN 0 ELSE n - 1 + 1
          BY <5>1, FS_Interval
        <5> QED
          BY <5>1, <5>2
      <4>4. Cardinality(P) # Cardinality(1..n)
        BY <4>2, <4>3, FS_Subset
      <4> QED
        BY <1>1, <3>2, <4>1, <4>3, <4>4
    <3>4. Weight(t) = 3 * Len(batch[t]) - 1 /\ Weight(t)' = 3 * Len(unprocessed'[t]) + 1
      BY <3>1 DEF Weight
    <3>5. \A b, n, j \in Nat : j < n =>
             /\ 3 * n - 1 \in Nat /\ 3 * j + 1 \in Nat
             /\ 3 * b + (3 * j + 1) < 3 * b + (3 * n - 1)
      OBVIOUS
    <3> DEFINE n == Len(batch[t])
               j == Len(unprocessed'[t])
               b == Len(items_buffer)
    <3>6. b \in Nat /\ n \in Nat /\ j \in Nat /\ j < n /\ Len(items_buffer') = b
          /\ Weight(t) = 3 * n - 1 /\ Weight(t)' = 3 * j + 1
      BY <1>1, <3>1, <3>3, <3>4
    <3>7. /\ 3 * n - 1 \in Nat /\ 3 * j + 1 \in Nat
          /\ 3 * b + (3 * j + 1) < 3 * b + (3 * n - 1)
      <4> HIDE DEF n, j, b
      <4> QED
        BY <3>5, <3>6
    <3> QED
      BY <3>6, <3>7
  <2>2. CASE CallRaises(t)
    <3>1. /\ call[t] = "sent" /\ call'[t] = "idle" /\ items_buffer' = items_buffer
      BY <1>1, <2>2 DEF CallRaises, Returns
    <3>2. Weight(t) = 3 * Len(batch[t]) - 1 /\ Weight(t)' = 0
      BY <3>1 DEF Weight
    <3> QED
      BY <1>1, <3>1, <3>2
  <2>3. CASE Answered(t)
    <3>1. /\ call[t] = "answered" /\ call'[t] = "idle"
          /\ Len(items_buffer') = Len(items_buffer) + Len(unprocessed[t])
      BY <1>1, <2>3 DEF Answered, Returns
    <3>2. Weight(t) = 3 * Len(unprocessed[t]) + 1 /\ Weight(t)' = 0
      BY <3>1 DEF Weight
    <3> QED
      BY <1>1, <3>1, <3>2
  <2> QED
    BY <2>1, <2>2, <2>3 DEF Call
<1>7. /\ IsFiniteSet(CallSteps')
      /\ Cardinality(CallSteps) \in Nat /\ Cardinality(CallSteps)' \in Nat
      /\ Cardinality(CallSteps)' + Weight(t) = Cardinality(CallSteps) + Weight(t)'
  BY <1>4, <1>6, OneTaskMoves DEF RankInv
<1>8. 3 * Len(items_buffer') + Cardinality(CallSteps)'
        < 3 * Len(items_buffer) + Cardinality(CallSteps)
  <2>1. \A b, b1, w, w1, c, c1 \in Nat :
           3 * b1 + w1 < 3 * b + w /\ c1 + w = c + w1 => 3 * b1 + c1 < 3 * b + c
    OBVIOUS
  <2> QED
    BY <1>1, <1>6, <1>7, <2>1
<1> QED
  BY <1>2, <1>5, <1>7, <1>8 DEF RankInv

\* A writer that is asked for at most MaxRequests requests takes boundedly many
\* steps: each one lowers Rank, a natural number, however tasks overlap and
\* whatever DynamoDB leaves unprocessed.  The loop of __aexit__ that flushes
\* until the buffer is empty (table.py:131-134) cannot spin: each answer gets rid of
\* at least one request, and what comes back is fewer than was sent.
THEOREM WritingIsBounded ==
  Spec => [](Rank \in Nat) /\ [][Rank' < Rank]_vars
<1>1. WriterInv /\ RankInv => /\ MaxRequests - Len(made) \in Nat /\ Len(items_buffer) \in Nat
                             /\ Cardinality(CallSteps) \in Nat /\ BlockRank \in Nat
  BY AmountsAssumption, FS_CardinalityType DEF WriterInv, TypeOK, RankInv, BlockRank
<1>2. WriterInv /\ RankInv => Rank \in Nat
  <2>1. \A m, b, c, k \in Nat : Total(m, b, c, k) \in Nat
    BY DEF Total
  <2> QED
    BY <1>1, <2>1 DEF Rank
<1>3. Init => RankInv
  <2> SUFFICES ASSUME Init PROVE RankInv
    OBVIOUS
  <2>1. \A t \in Flushers : call[t] = "idle" /\ Weight(t) = 0
    BY DEF Init, Weight
  <2>2. CallSteps = {}
    BY <2>1 DEF CallSteps
  <2> QED
    BY <2>1, <2>2, FS_EmptySet, AmountsAssumption DEF Init, RankInv
<1> DEFINE Fall == Falls(MaxRequests - Len(made), Len(items_buffer), Cardinality(CallSteps),
                         BlockRank, MaxRequests - Len(made'), Len(items_buffer'),
                         Cardinality(CallSteps'), BlockRank')
<1>4. ASSUME WriterInv, WriterInv', RankInv, Next
      PROVE  RankInv' /\ Fall
  <2>1. /\ Cardinality(CallSteps) \in Nat /\ Len(items_buffer) \in Nat /\ BlockRank \in Nat
    BY <1>1, <1>4
  <2>2. ASSUME NEW t \in Tasks, NEW k \in Keys, PutOrDelete(t, k)
        PROVE  RankInv' /\ Fall
    BY <1>4, <2>1, <2>2, PutRank DEF Falls
  <2>3. ASSUME NEW t \in Flushers, Call(t)
        PROVE  RankInv' /\ Fall
    BY <1>4, <2>3, CallRank DEF Falls
  <2>4. CASE LeaveBlock \/ ExitDone
    <3>1. UNCHANGED <<made, items_buffer, call, batch, unprocessed>> /\ BlockRank' < BlockRank
      BY <2>4 DEF LeaveBlock, ExitDone, BlockRank
    <3>2. CallSteps' = CallSteps
      BY <3>1 DEF CallSteps, Weight
    <3> QED
      BY <1>4, <3>1, <3>2 DEF Falls, RankInv
  <2>5. CASE ExitFlush
    <3>1. /\ Exit \in Flushers /\ call[Exit] = "idle" /\ items_buffer \in Seq(Request)
          /\ items_buffer # <<>> /\ Send(Exit, items_buffer)
          /\ made' = made /\ BlockRank' = BlockRank
      BY <1>4, <2>5 DEF ExitFlush, Flushers, WriterInv, TypeOK, BlockRank
    <3>2. /\ \A u \in Flushers : call'[u] = "sent" => batch'[u] # <<>>
          /\ IsFiniteSet(CallSteps')
          /\ Cardinality(CallSteps)' \in Nat /\ Len(items_buffer') \in Nat
          /\ 3 * Len(items_buffer') + Cardinality(CallSteps)'
                = 3 * Len(items_buffer) + Cardinality(CallSteps) - 1
      BY <1>4, <3>1, SendRank
    <3>3. 3 * Len(items_buffer') + Cardinality(CallSteps)'
            < 3 * Len(items_buffer) + Cardinality(CallSteps)
      BY <2>1, <3>2
    <3> QED
      BY <1>4, <2>1, <3>1, <3>2, <3>3 DEF Falls, RankInv
  <2> HIDE DEF Fall
  <2> QED
    BY <1>4, <2>2, <2>3, <2>4, <2>5 DEF Next
<1>5. WriterInv /\ WriterInv' /\ RankInv /\ [Next]_vars => RankInv'
  <2>1. UNCHANGED vars /\ RankInv => RankInv'
    BY DEF vars, RankInv, CallSteps, Weight
  <2> QED
    BY <1>4, <2>1
<1>6. (WriterInv /\ RankInv)' => (/\ MaxRequests - Len(made) \in Nat /\ Len(items_buffer) \in Nat
                                 /\ Cardinality(CallSteps) \in Nat /\ BlockRank \in Nat)'
  BY <1>1, PTL
<1>7. WriterInv /\ WriterInv' /\ RankInv /\ RankInv' /\ [Next]_vars => [Rank' < Rank]_vars
  <2> SUFFICES ASSUME WriterInv, WriterInv', RankInv, RankInv', Next PROVE Rank' < Rank
    OBVIOUS
  <2> QED
    BY <1>1, <1>4, <1>6, TotalFalls DEF Rank
<1> QED
  BY <1>2, <1>3, <1>5, <1>7, WriterInvariant, PTL DEF Spec

=============================================================================
