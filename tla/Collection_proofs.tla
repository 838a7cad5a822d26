--------------------------- MODULE Collection_proofs ---------------------------
(****************************************************************************)
(* That an iteration over a collection keeps its promise for any listing,    *)
(* any limit and size of a page, any number of changes by others meanwhile   *)
(* and any number of empty pages.                                            *)
(****************************************************************************)
EXTENDS Collection, FiniteSetTheorems, SequenceTheorems, WellFoundedInduction, TLAPS

-----------------------------------------------------------------------------
(* Induction over a set of numbers.                                          *)

LEMMA LeastNumber ==
  ASSUME NEW S \in SUBSET Nat, S # {}
  PROVE  \E m \in S : \A k \in S : m <= k
<1> DEFINE R == {ss \in Nat \X Nat : ss[1] < ss[2]}
<1>1. IsWellFoundedOn(R, Nat)
  BY NatLessThanWellFounded DEF OpToRel
<1>2. PICK m \in S : \A k \in S : <<k, m>> \notin R
  <2> HIDE DEF R
  <2> QED
    BY <1>1, WFMin
<1>3. \A k \in S : ~(k < m)
  BY <1>2
<1> QED
  BY <1>3

LEMMA AllNumbers ==
  ASSUME NEW S \in SUBSET Nat, 0 \in S, \A n \in S : n + 1 \in S
  PROVE  S = Nat
<1> SUFFICES ASSUME Nat \ S # {} PROVE FALSE
  OBVIOUS
<1>1. PICK m \in Nat \ S : \A k \in Nat \ S : m <= k
  BY LeastNumber
<1>2. m - 1 \in Nat /\ m - 1 \in S
  BY <1>1
<1> QED
  BY <1>1, <1>2

-----------------------------------------------------------------------------
(* Ascending lists.                                                          *)

LEMMA AscendingExists ==
  ASSUME NEW S \in SUBSET Nat, IsFiniteSet(S)
  PROVE  \E s \in [1..Cardinality(S) -> S] :
            \A i, j \in 1..Cardinality(S) : i < j => s[i] < s[j]
<1> DEFINE Sorts(n, T) ==
             \E s \in [1..n -> T] : \A i, j \in 1..n : i < j => s[i] < s[j]
           Good == {n \in Nat : \A T \in SUBSET Nat :
                                   IsFiniteSet(T) /\ Cardinality(T) = n => Sorts(n, T)}
<1>1. 0 \in Good
  <2> SUFFICES ASSUME NEW T \in SUBSET Nat PROVE Sorts(0, T)
    OBVIOUS
  <2>1. [i \in 1..0 |-> 0] \in [1..0 -> T]
    OBVIOUS
  <2>2. \A i, j \in 1..0 : i < j => [k \in 1..0 |-> 0][i] < [k \in 1..0 |-> 0][j]
    OBVIOUS
  <2> QED
    BY <2>1, <2>2
<1>2. ASSUME NEW n \in Good PROVE n + 1 \in Good
  <2> SUFFICES ASSUME NEW T \in SUBSET Nat, IsFiniteSet(T), Cardinality(T) = n + 1
               PROVE  Sorts(n + 1, T)
    OBVIOUS
  <2>1. T # {}
    BY FS_EmptySet
  <2>2. PICK m \in T : \A k \in T : m <= k
    BY <2>1, LeastNumber
  <2>3. IsFiniteSet(T \ {m}) /\ Cardinality(T \ {m}) = n
    BY FS_RemoveElement
  <2>4. PICK s \in [1..n -> T \ {m}] : \A i, j \in 1..n : i < j => s[i] < s[j]
    BY <2>3
  <2> DEFINE t == [i \in 1..(n + 1) |-> IF i = 1 THEN m ELSE s[i - 1]]
  <2>5. \A i \in 1..(n + 1) : i # 1 => i - 1 \in 1..n
    OBVIOUS
  <2>6. t \in [1..(n + 1) -> T]
    BY <2>4, <2>5
  <2>7. ASSUME NEW i \in 1..(n + 1), NEW j \in 1..(n + 1), i < j PROVE t[i] < t[j]
    <3>1. j - 1 \in 1..n /\ t[j] = s[j - 1] /\ s[j - 1] \in T \ {m}
      BY <2>4, <2>7
    <3>2. CASE i = 1
      <4>1. t[i] = m /\ m <= s[j - 1] /\ m # s[j - 1] /\ m \in Nat /\ s[j - 1] \in Nat
        BY <2>2, <3>1, <3>2
      <4> QED
        BY <3>1, <4>1
    <3>3. CASE i # 1
      <4>1. i - 1 \in 1..n /\ t[i] = s[i - 1] /\ i - 1 < j - 1
        BY <2>7, <3>3
      <4> QED
        BY <2>4, <3>1, <4>1
    <3> QED
      BY <3>2, <3>3
  <2> QED
    BY <2>6, <2>7
<1>3. Good = Nat
  <2> HIDE DEF Good
  <2>1. Good \in SUBSET Nat
    BY DEF Good
  <2> QED
    BY <1>1, <1>2, <2>1, AllNumbers
<1> QED
  BY <1>3, FS_CardinalityType

LEMMA AscendingLists ==
  ASSUME NEW S \in SUBSET Nat, IsFiniteSet(S)
  PROVE  /\ Ascending(S) \in Seq(S) /\ Len(Ascending(S)) = Cardinality(S)
         /\ Promised!Increasing(Ascending(S))
         /\ ToSet(Ascending(S)) = S
<1> DEFINE n == Cardinality(S)
           s == Ascending(S)
<1>1. n \in Nat
  BY FS_CardinalityType
<1>2. s \in [1..n -> S] /\ \A i, j \in 1..n : i < j => s[i] < s[j]
  BY AscendingExists DEF Ascending
<1> HIDE DEF s
<1>3. s \in Seq(S) /\ Len(s) = n /\ DOMAIN s = 1..n
  BY <1>1, <1>2
<1>4. s \in Injection(1..n, S)
  <2>1. ASSUME NEW i \in 1..n, NEW j \in 1..n, s[i] = s[j] PROVE i = j
    <3>1. s[i] \in S
      BY <1>2
    <3>2. s[i] \in Nat
      BY <3>1
    <3>3. ~(s[i] < s[j]) /\ ~(s[j] < s[i])
      BY <2>1, <3>2
    <3> QED
      BY <1>1, <1>2, <3>3
  <2> QED
    BY <1>2, <2>1 DEF Injection, IsInjective
<1>5. IsFiniteSet(1..n) /\ Cardinality(1..n) = n
  BY <1>1, FS_Interval
<1>6. s \in Surjection(1..n, S)
  BY <1>4, <1>5, FS_Injection
<1>7. ToSet(s) = S
  BY <1>2, <1>3, <1>6 DEF ToSet, Surjection
<1> QED
  BY <1>2, <1>3, <1>7 DEF s, Promised!Increasing

\* ks are the keys of S up to the last one of ks.
UpToLast(ks, S) == \A k \in S : k <= Last(ks) <=> k \in ToSet(ks)

(* What the first n of the listed keys are.                                  *)
LEMMA FirstOfThem ==
  ASSUME NEW S \in SUBSET Nat, IsFiniteSet(S), NEW n \in 0..Len(Ascending(S)),
         NEW ks, ks = SubSeq(Ascending(S), 1, n)
  PROVE  /\ ks \in Seq(S) /\ Len(ks) = n
         /\ Promised!Increasing(ks)
         /\ ToSet(ks) \subseteq S /\ (n = Len(Ascending(S)) => ToSet(ks) = S)
         /\ Cardinality(ToSet(ks)) = n
         /\ ks # <<>> => Last(ks) \in S /\ UpToLast(ks, S)
<1> DEFINE s == Ascending(S)
<1>1. /\ s \in Seq(S) /\ Len(s) \in Nat
      /\ \A i, j \in 1..Len(s) : i < j => s[i] < s[j]
      /\ S = {s[i] : i \in 1..Len(s)} /\ \A i \in 1..Len(s) : s[i] \in Nat
  <2>1. s \in Seq(S) /\ Promised!Increasing(s) /\ ToSet(s) = S
    BY AscendingLists
  <2> HIDE DEF s
  <2>2. DOMAIN s = 1..Len(s) /\ Len(s) \in Nat /\ \A i \in 1..Len(s) : s[i] \in S
    BY <2>1
  <2> QED
    BY <2>1, <2>2 DEF ToSet, Promised!Increasing
<1> HIDE DEF s
<1>2. ks = SubSeq(s, 1, n) /\ n \in 0..Len(s)
  BY DEF s
<1>3. /\ ks = [i \in 1..n |-> s[i]] /\ ks \in Seq(S)
      /\ Len(ks) = n /\ DOMAIN ks = 1..n
  <2>1. \A i \in 1..n : s[i] \in S
    BY <1>1, <1>2
  <2>2. /\ ks \in Seq(S) /\ Len(ks) = (IF 1 <= n THEN n - 1 + 1 ELSE 0)
        /\ \A i \in 1..(n - 1 + 1) : ks[i] = s[1 + i - 1]
    BY <1>2, <2>1, SubSeqProperties
  <2>3. n \in Nat /\ n - 1 + 1 = n /\ (IF 1 <= n THEN n - 1 + 1 ELSE 0) = n
    BY <1>1, <1>2
  <2>4. \A i \in 1..n : 1 + i - 1 = i
    BY <2>3
  <2>5. ks \in Seq(S) /\ Len(ks) = n /\ \A i \in 1..n : ks[i] = s[i]
    BY <2>2, <2>3, <2>4
  <2> QED
    BY <2>5
<1>4. ToSet(ks) = {s[i] : i \in 1..n}
  BY <1>1, <1>2, <1>3 DEF ToSet
<1>5. Cardinality(ToSet(ks)) = n
  <2> DEFINE T == {s[i] : i \in 1..n}
             f == [i \in 1..n |-> s[i]]
  <2>1. f \in Surjection(1..n, T)
    BY DEF Surjection
  <2>2. f \in Injection(1..n, T)
    <3>1. ASSUME NEW i \in 1..n, NEW j \in 1..n, s[i] = s[j] PROVE i = j
      <4>1. i \in 1..Len(s) /\ j \in 1..Len(s)
        BY <1>1, <1>2
      <4>2. s[i] \in Nat /\ ~(s[i] < s[j]) /\ ~(s[j] < s[i])
        BY <1>1, <3>1, <4>1
      <4>3. ~(i < j) /\ ~(j < i)
        BY <1>1, <4>1, <4>2
      <4>4. i \in Int /\ j \in Int
        OBVIOUS
      <4> QED
        BY <4>3, <4>4
    <3> QED
      BY <3>1 DEF Injection, IsInjective
  <2>3. IsFiniteSet(1..n) /\ Cardinality(1..n) = n
    BY <1>2, FS_Interval
  <2> HIDE DEF T, f
  <2> QED
    BY <1>4, <2>1, <2>2, <2>3, FS_Surjection DEF T
<1>6. ASSUME ks # <<>>
      PROVE  Last(ks) \in S /\ UpToLast(ks, S)
  <2>1. n \in 1..Len(s)
    BY <1>2, <1>3, <1>6
  <2>2. Last(ks) = s[n]
    BY <1>3, <2>1 DEF Last
  <2>3. \A i \in 1..Len(s) : s[i] <= s[n] <=> i <= n
    <3> SUFFICES ASSUME NEW i \in 1..Len(s) PROVE s[i] <= s[n] <=> i <= n
      OBVIOUS
    <3>1. s[i] \in Nat /\ s[n] \in Nat /\ (i < n => s[i] < s[n]) /\ (n < i => s[n] < s[i])
      BY <1>1, <2>1
    <3> QED
      BY <2>1, <3>1
  <2>4. \A i \in 1..Len(s) : i <= n => i \in 1..n
    BY <1>1, <2>1
  <2>5. ASSUME NEW k \in S PROVE k <= s[n] <=> k \in {s[i] : i \in 1..n}
    <3>1. PICK j \in 1..Len(s) : k = s[j]
      BY <1>1
    <3>2. k <= s[n] <=> j \in 1..n
      BY <2>1, <2>3, <2>4, <3>1
    <3>3. ASSUME NEW i \in 1..n, k = s[i] PROVE k <= s[n]
      BY <1>1, <2>1, <2>3, <3>3
    <3> QED
      BY <3>1, <3>2, <3>3
  <2> QED
    BY <1>1, <1>4, <2>1, <2>2, <2>5 DEF UpToLast
<1>7. Promised!Increasing(ks) /\ ToSet(ks) \subseteq S
  <2>1. \A i \in 1..n : ks[i] = s[i] /\ i \in 1..Len(s)
    BY <1>2, <1>3
  <2> QED
    BY <1>1, <1>3, <1>4, <2>1 DEF Promised!Increasing
<1>8. n = Len(s) => ToSet(ks) = S
  BY <1>1, <1>4
<1> QED
  BY <1>3, <1>5, <1>6, <1>7, <1>8 DEF s

-----------------------------------------------------------------------------
(* The resources made of a page's keys.                                      *)

LEMMA Joined ==
  ASSUME NEW s \in Seq(Nat), NEW t \in Seq(Nat)
  PROVE  /\ s \o t \in Seq(Nat) /\ Len(s \o t) = Len(s) + Len(t)
         /\ ToSet(s \o t) = ToSet(s) \cup ToSet(t)
         /\ (/\ Promised!Increasing(s) /\ Promised!Increasing(t)
             /\ \A x \in ToSet(s), y \in ToSet(t) : x < y)
            => Promised!Increasing(s \o t)
<1> DEFINE u == s \o t
           m == Len(s)
           n == Len(t)
<1>1. /\ u \in Seq(Nat) /\ Len(u) = m + n /\ m \in Nat /\ n \in Nat
      /\ \A i \in 1..(m + n) : u[i] = IF i <= m THEN s[i] ELSE t[i - m]
  BY ConcatProperties
<1>2. /\ ToSet(s) = {s[i] : i \in 1..m} /\ ToSet(t) = {t[i] : i \in 1..n}
      /\ ToSet(u) = {u[i] : i \in 1..(m + n)}
  BY <1>1 DEF ToSet
<1>3. DOMAIN u = 1..(m + n) /\ DOMAIN s = 1..m /\ DOMAIN t = 1..n
  BY <1>1
<1> HIDE DEF u, m, n
<1>4. \A i \in 1..m : i \in 1..(m + n) /\ u[i] = s[i]
  BY <1>1
<1>5. \A i \in 1..n : i + m \in 1..(m + n) /\ u[i + m] = t[i]
  <2> SUFFICES ASSUME NEW i \in 1..n PROVE i + m \in 1..(m + n) /\ u[i + m] = t[i]
    OBVIOUS
  <2>1. i + m \in 1..(m + n) /\ ~(i + m <= m) /\ (i + m) - m = i
    BY <1>1
  <2> QED
    BY <1>1, <2>1
<1>6. \A i \in 1..(m + n) : \/ i \in 1..m /\ u[i] = s[i]
                            \/ i - m \in 1..n /\ u[i] = t[i - m]
  BY <1>1
<1>7. ToSet(u) = ToSet(s) \cup ToSet(t)
  <2>1. ASSUME NEW i \in 1..n PROVE t[i] \in ToSet(u)
    BY <1>2, <1>5
  <2> QED
    BY <1>2, <1>4, <1>6, <2>1
<1>8. ASSUME Promised!Increasing(s), Promised!Increasing(t),
             \A x \in ToSet(s), y \in ToSet(t) : x < y,
             NEW i \in 1..(m + n), NEW j \in 1..(m + n), i < j
      PROVE  u[i] < u[j]
  <2>1. CASE j \in 1..m
    <3>1. i \in 1..m
      BY <1>1, <1>8, <2>1
    <3> QED
      BY <1>3, <1>4, <1>8, <2>1, <3>1 DEF Promised!Increasing
  <2>2. CASE i \in 1..m /\ j \notin 1..m
    <3>1. u[i] \in ToSet(s) /\ u[j] \in ToSet(t)
      BY <1>2, <1>4, <1>6, <2>2
    <3> QED
      BY <1>8, <3>1
  <2>3. CASE i \notin 1..m
    <3>1. i - m \in 1..n /\ u[i] = t[i - m] /\ j \notin 1..m
      BY <1>1, <1>6, <1>8, <2>3
    <3>2. j - m \in 1..n /\ u[j] = t[j - m] /\ i - m < j - m
      BY <1>1, <1>6, <1>8, <3>1
    <3> QED
      BY <1>3, <1>8, <3>1, <3>2 DEF Promised!Increasing
  <2> QED
    BY <2>1, <2>2, <2>3
<1> QED
  BY <1>1, <1>3, <1>7, <1>8 DEF u, m, n, Promised!Increasing

(* The recursive function in FlattenSeq exists.                              *)
LEMMA FlattenUnfolds ==
  ASSUME NEW seqs, Len(seqs) \in Nat \ {0}
  PROVE  \E f : /\ f = [i \in 1..Len(seqs) |->
                           IF i = 1 THEN seqs[i] ELSE f[i - 1] \o seqs[i]]
                /\ FlattenSeq(seqs) = f[Len(seqs)]
<1> DEFINE L == Len(seqs)
           Unfold(g, n) == [i \in 1..n |-> IF i = 1 THEN seqs[i] ELSE g[i - 1] \o seqs[i]]
           Unfolds(n) == \E g : g = Unfold(g, n)
           Good == {n \in Nat : Unfolds(n)}
           f == CHOOSE g : g = Unfold(g, L)
<1>1. 0 \in Good
  <2>1. [i \in 1..0 |-> 0] = Unfold([i \in 1..0 |-> 0], 0)
    OBVIOUS
  <2> QED
    BY <2>1
<1>2. ASSUME NEW n \in Good PROVE n + 1 \in Good
  <2>1. PICK g : g = Unfold(g, n)
    OBVIOUS
  <2> DEFINE h == [i \in 1..(n + 1) |->
                      IF i = n + 1 THEN Unfold(g, n + 1)[n + 1] ELSE g[i]]
  <2>2. ASSUME NEW i \in 1..(n + 1) PROVE h[i] = Unfold(h, n + 1)[i]
    <3>1. i = 1 \/ h[i - 1] = g[i - 1]
      OBVIOUS
    <3>2. CASE i = n + 1
      BY <3>1, <3>2
    <3>3. CASE i # n + 1
      <4>1. i \in 1..n /\ h[i] = g[i]
        BY <3>3
      <4>2. g[i] = IF i = 1 THEN seqs[i] ELSE g[i - 1] \o seqs[i]
        BY <2>1, <4>1
      <4> QED
        BY <3>1, <4>1, <4>2
    <3> QED
      BY <3>2, <3>3
  <2>3. h = Unfold(h, n + 1)
    BY <2>2
  <2> HIDE DEF h
  <2>4. Unfolds(n + 1)
    BY <2>3
  <2> HIDE DEF Unfolds
  <2> QED
    BY <2>4
<1>3. L \in Good
  <2> HIDE DEF Good
  <2>1. Good \in SUBSET Nat
    BY DEF Good
  <2>2. Good = Nat
    BY <1>1, <1>2, <2>1, AllNumbers
  <2> QED
    BY <2>2
<1>4. f = Unfold(f, L)
  BY <1>3
<1>5. FlattenSeq(seqs) = f[L]
  BY DEF FlattenSeq
<1> QED
  BY <1>4, <1>5

LEMMA ResourceNumbers ==
  ASSUME NEW k \in Keys
  PROVE  /\ k \in Nat \ {0}
         /\ Resource(k) \in Seq(Nat) /\ Len(Resource(k)) \in {1, 2}
         /\ Promised!Increasing(Resource(k))
         /\ 2 * k \in ToSet(Resource(k)) /\ ToSet(Resource(k)) \subseteq {2 * k, 2 * k + 1}
<1>1. k \in Nat \ {0} /\ 2 * k \in Nat /\ 2 * k + 1 \in Nat /\ 2 * k < 2 * k + 1
  BY KeysAssumption
<1>2. CASE k \in Pairs
  <2> DEFINE r == <<2 * k, 2 * k + 1>>
  <2>1. Resource(k) = r
    BY <1>2 DEF Resource
  <2>2. r \in Seq(Nat) /\ Len(r) = 2 /\ DOMAIN r = {1, 2} /\ r[1] = 2 * k /\ r[2] = 2 * k + 1
    BY <1>1
  <2> HIDE DEF r
  <2>3. Promised!Increasing(r)
    BY <1>1, <2>2 DEF Promised!Increasing
  <2> QED
    BY <1>1, <2>1, <2>2, <2>3 DEF ToSet
<1>3. CASE k \notin Pairs
  <2> DEFINE r == <<2 * k>>
  <2>1. Resource(k) = r
    BY <1>3 DEF Resource
  <2>2. r \in Seq(Nat) /\ Len(r) = 1 /\ DOMAIN r = {1} /\ r[1] = 2 * k
    BY <1>1
  <2> HIDE DEF r
  <2>3. Promised!Increasing(r)
    BY <1>1, <2>2 DEF Promised!Increasing
  <2> QED
    BY <1>1, <2>1, <2>2, <2>3 DEF ToSet
<1> QED
  BY <1>2, <1>3

LEMMA ResourcesInOrder ==
  ASSUME NEW a \in Keys, NEW b \in Keys, a < b,
         NEW x \in ToSet(Resource(a)), NEW y \in ToSet(Resource(b))
  PROVE  x < y
<1>1. a \in Nat /\ b \in Nat /\ x \in {2 * a, 2 * a + 1} /\ y \in {2 * b, 2 * b + 1}
  BY ResourceNumbers
<1> QED
  BY <1>1

LEMMA ResourcesOfUnion ==
  ASSUME NEW S, NEW T
  PROVE  /\ ResourcesOf(S \cup T) = ResourcesOf(S) \cup ResourcesOf(T)
         /\ ResourcesOf({}) = {}
         /\ S \subseteq T => ResourcesOf(S) \subseteq ResourcesOf(T)
         /\ \A k \in S : ToSet(Resource(k)) \subseteq ResourcesOf(S)
         /\ \A k : ResourcesOf({k}) = ToSet(Resource(k))
BY DEF ResourcesOf

(* The handler makes the resources of the keys, in the keys' order.          *)
LEMMA HandlerLists ==
  ASSUME NEW ks \in Seq(Keys), Promised!Increasing(ks)
  PROVE  /\ Handler(ks) \in Seq(Nat)
         /\ Promised!Increasing(Handler(ks))
         /\ ToSet(Handler(ks)) = ResourcesOf(ToSet(ks))
         /\ Len(Handler(ks)) \in Nat /\ Len(Handler(ks)) >= Len(ks)
         /\ Len(Handler(ks)) <= 2 * Len(ks)
         /\ Handler(ks) = <<>> <=> ks = <<>>
<1> DEFINE L == Len(ks)
           seqs == [i \in DOMAIN ks |-> Resource(ks[i])]
           First(n) == {ks[i] : i \in 1..n}
<1>1. /\ L \in Nat /\ DOMAIN ks = 1..L /\ \A i \in 1..L : ks[i] \in Keys
      /\ Len(seqs) = L /\ \A i \in 1..L : seqs[i] = Resource(ks[i])
      /\ \A i, j \in 1..L : i < j => ks[i] < ks[j]
      /\ ToSet(ks) = First(L)
  BY DEF ToSet, Promised!Increasing
<1>2. Handler(ks) = FlattenSeq(seqs)
  BY DEF Handler
<1> HIDE DEF seqs
<1>3. CASE L = 0
  <2>1. ks = <<>> /\ seqs = <<>>
    BY <1>1, <1>3 DEF seqs
  <2>2. Handler(ks) = <<>>
    BY <1>1, <1>2, <1>3, <2>1 DEF FlattenSeq
  <2>3. ToSet(<<>>) = {} /\ Promised!Increasing(<<>>)
    BY DEF ToSet, Promised!Increasing
  <2>4. ToSet(Handler(ks)) = {} /\ ResourcesOf(ToSet(ks)) = {}
    BY <2>1, <2>2, <2>3, ResourcesOfUnion
  <2>5. Handler(ks) \in Seq(Nat) /\ Promised!Increasing(Handler(ks))
    BY <2>2, <2>3
  <2>6. Len(Handler(ks)) = 0 /\ Len(ks) = 0
    BY <2>1, <2>2
  <2>7. /\ Len(Handler(ks)) \in Nat /\ Len(Handler(ks)) >= Len(ks)
        /\ Len(Handler(ks)) <= 2 * Len(ks)
    BY <2>6
  <2>8. Handler(ks) = <<>> <=> ks = <<>>
    BY <2>1, <2>2
  <2> QED
    BY <2>4, <2>5, <2>7, <2>8
<1>4. CASE L # 0
  <2>1. PICK f : /\ f = [i \in 1..L |-> IF i = 1 THEN seqs[i] ELSE f[i - 1] \o seqs[i]]
                 /\ FlattenSeq(seqs) = f[L]
    BY <1>1, <1>4, FlattenUnfolds
  <2> DEFINE Flat(n) == /\ f[n] \in Seq(Nat) /\ Promised!Increasing(f[n])
                        /\ ToSet(f[n]) = ResourcesOf(First(n))
                        /\ Len(f[n]) \in Nat /\ Len(f[n]) >= n /\ Len(f[n]) <= 2 * n
             Good == {n \in Nat : n \in 1..L => Flat(n)}
  <2>2. 0 \in Good
    OBVIOUS
  <2>3. ASSUME NEW n \in Good PROVE n + 1 \in Good
    <3> SUFFICES ASSUME n + 1 \in 1..L PROVE Flat(n + 1)
      OBVIOUS
    <3> DEFINE k == ks[n + 1]
    <3>1. /\ k \in Keys /\ seqs[n + 1] = Resource(k)
          /\ Resource(k) \in Seq(Nat) /\ Promised!Increasing(Resource(k))
          /\ Len(Resource(k)) \in {1, 2}
      BY <1>1, ResourceNumbers
    <3>2. First(n + 1) = First(n) \cup {k}
      <4>1. 1..(n + 1) = 1..n \cup {n + 1}
        OBVIOUS
      <4> QED
        BY <4>1
    <3>3. CASE n = 0
      <4>1. f[n + 1] = Resource(k)
        BY <2>1, <3>1, <3>3
      <4>2. First(n) = {}
        BY <3>3
      <4>3. ToSet(Resource(k)) = ResourcesOf(First(n + 1))
        <5>1. First(n + 1) = {k}
          BY <3>2, <4>2
        <5> HIDE DEF First
        <5> QED
          BY <5>1, ResourcesOfUnion
      <4>4. /\ Len(Resource(k)) \in Nat /\ Len(Resource(k)) >= n + 1
            /\ Len(Resource(k)) <= 2 * (n + 1)
        <5>1. n + 1 = 1 /\ 2 * (n + 1) = 2
          BY <3>3
        <5>2. \A x \in {1, 2} : x \in Nat /\ x >= 1 /\ x <= 2
          OBVIOUS
        <5> QED
          BY <3>1, <5>1, <5>2
      <4> HIDE DEF First
      <4> QED
        BY <3>1, <4>1, <4>3, <4>4
    <3>4. CASE n # 0
      <4>1. n \in 1..L /\ n + 1 # 1 /\ (n + 1) - 1 = n
        BY <1>1, <3>4
      <4>2. Flat(n)
        BY <4>1
      <4>3. f[n + 1] = f[n] \o Resource(k)
        BY <2>1, <3>1, <4>1
      <4>4. ASSUME NEW x \in ToSet(f[n]), NEW y \in ToSet(Resource(k)) PROVE x < y
        <5>1. PICK i \in 1..n : x \in ToSet(Resource(ks[i]))
          BY <4>2 DEF ResourcesOf
        <5>2. i \in 1..L /\ i < n + 1
          BY <1>1, <4>1
        <5>3. ks[i] \in Keys /\ ks[i] < k
          BY <1>1, <5>2
        <5> QED
          BY <3>1, <4>4, <5>1, <5>3, ResourcesInOrder
      <4>5. /\ f[n + 1] \in Seq(Nat) /\ Len(f[n + 1]) = Len(f[n]) + Len(Resource(k))
            /\ ToSet(f[n + 1]) = ToSet(f[n]) \cup ToSet(Resource(k))
            /\ Promised!Increasing(f[n + 1])
        BY <3>1, <4>2, <4>3, <4>4, Joined
      <4> HIDE DEF First
      <4>6. ToSet(f[n + 1]) = ResourcesOf(First(n + 1))
        <5>1. /\ ResourcesOf(First(n) \cup {k}) = ResourcesOf(First(n)) \cup ResourcesOf({k})
              /\ ResourcesOf({k}) = ToSet(Resource(k))
          BY ResourcesOfUnion
        <5> QED
          BY <3>2, <4>2, <4>5, <5>1
      <4>7. /\ Len(f[n + 1]) \in Nat /\ Len(f[n + 1]) >= n + 1
            /\ Len(f[n + 1]) <= 2 * (n + 1)
        <5>1. /\ n \in Nat /\ Len(f[n]) \in Nat /\ Len(f[n]) >= n /\ Len(f[n]) <= 2 * n
              /\ Len(Resource(k)) \in {1, 2}
              /\ Len(f[n + 1]) = Len(f[n]) + Len(Resource(k))
          BY <3>1, <4>2, <4>5
        <5>2. \A i, x, y, z \in Nat :
                 x >= i /\ x <= 2 * i /\ y \in {1, 2} /\ z = x + y
                 => z >= i + 1 /\ z <= 2 * (i + 1)
          OBVIOUS
        <5> HIDE DEF Good, k
        <5>3. Len(f[n + 1]) \in Nat /\ Len(Resource(k)) \in Nat
          <6>1. Len(Resource(k)) \in Nat
            BY <5>1
          <6> QED
            BY <5>1, <6>1
        <5> QED
          BY <5>1, <5>2, <5>3
      <4> QED
        BY <4>5, <4>6, <4>7
    <3> QED
      BY <3>3, <3>4
  <2>4. L \in Good
    <3> HIDE DEF Good
    <3>1. Good \in SUBSET Nat
      BY DEF Good
    <3> QED
      BY <1>1, <2>2, <2>3, <3>1, AllNumbers
  <2>5. Flat(L)
    BY <1>1, <1>4, <2>4
  <2>6. Handler(ks) = f[L]
    BY <1>2, <2>1
  <2>7. Len(f[L]) > 0 /\ f[L] # <<>> /\ ks # <<>>
    BY <1>1, <1>4, <2>5
  <2> HIDE DEF First
  <2> QED
    BY <1>1, <2>5, <2>6, <2>7
<1> QED
  BY <1>3, <1>4

-----------------------------------------------------------------------------
(* The invariant.                                                            *)

\* As many resources are given out, or at hand, as the limit allows.
Full == AtMost # None /\ count = AtMost

\* The resources given out or at hand.
Held == ToSet(given) \cup ToSet(page)

\* Where the call is says what is at hand and whether more will be asked for.
StepInv ==
    /\ step = "asking" => ~last /\ page = <<>>
    /\ step = "yielded" => use = "iteration" /\ given # <<>>
    /\ step = "acting" => use = "batch" /\ page = <<>>
    /\ ~paginated /\ ~last => count = 0 /\ token = 0 /\ elements = 0
    /\ use = "batch" /\ step = "using" /\ page = <<>> => last \/ empties > 0

\* Keys and resources are counted apart; a key makes one resource or more.
LimitInv ==
    /\ AtMost # None => count <= AtMost
    /\ ~last /\ limit # None => count < limit \/ (limit = 0 /\ count = 0)
    /\ paginated /\ limit # None => elements <= limit /\ elements <= count

\* What was given out and what is at hand is in order, and of keys up to the
\* token that were listed.
OrderInv ==
    /\ Promised!Increasing(given \o page)
    /\ Held \subseteq ResourcesOf({k \in seen : k <= token})
    /\ elements <= Cardinality({k \in Keys : k <= token})

\* A key that lasts and is not listed any more was deleted by the action.  None
\* up to the token is missed, and none is left beyond it on the last page.
ReachInv ==
    /\ \A k \in lasting \ listing : ToSet(Resource(k)) \subseteq ToSet(given)
    /\ ~Full => \A k \in lasting : k <= token => ToSet(Resource(k)) \subseteq Held
    /\ ~Full /\ last => \A k \in lasting : k <= token

CollectionInv == TypeOK /\ StepInv /\ LimitInv /\ OrderInv /\ ReachInv

LEMMA MaxMin ==
  ASSUME NEW a \in Int, NEW b \in Int
  PROVE  /\ Max({a, b}) = IF a >= b THEN a ELSE b
         /\ Min({a, b}) = IF a <= b THEN a ELSE b
<1>1. \A x \in {a, b} : (\A y \in {a, b} : x >= y) => x = IF a >= b THEN a ELSE b
  OBVIOUS
<1>2. \E x \in {a, b} : \A y \in {a, b} : x >= y
  OBVIOUS
<1>3. \A x \in {a, b} : (\A y \in {a, b} : x <= y) => x = IF a <= b THEN a ELSE b
  OBVIOUS
<1>4. \E x \in {a, b} : \A y \in {a, b} : x <= y
  OBVIOUS
<1> QED
  BY <1>1, <1>2, <1>3, <1>4 DEF Max, Min

LEMMA FirstOfList ==
  ASSUME NEW S, NEW s \in Seq(S), NEW n \in 0..Len(s)
  PROVE  /\ SubSeq(s, 1, n) \in Seq(S) /\ Len(SubSeq(s, 1, n)) = n
         /\ \A i \in 1..n : i \in 1..Len(s) /\ SubSeq(s, 1, n)[i] = s[i]
         /\ ToSet(SubSeq(s, 1, n)) \subseteq ToSet(s)
         /\ n = Len(s) => SubSeq(s, 1, n) = s
<1> DEFINE t == SubSeq(s, 1, n)
<1>1. n \in Nat /\ Len(s) \in Nat /\ DOMAIN s = 1..Len(s) /\ \A i \in 1..n : i \in 1..Len(s)
  OBVIOUS
<1>2. \A i \in 1..n : s[i] \in S
  BY <1>1
<1>3. /\ t \in Seq(S) /\ Len(t) = (IF 1 <= n THEN n - 1 + 1 ELSE 0)
      /\ \A i \in 1..(n - 1 + 1) : t[i] = s[1 + i - 1]
  BY <1>2, SubSeqProperties
<1>4. n - 1 + 1 = n /\ (IF 1 <= n THEN n - 1 + 1 ELSE 0) = n /\ \A i \in 1..n : 1 + i - 1 = i
  BY <1>1
<1> HIDE DEF t
<1>5. t \in Seq(S) /\ Len(t) = n /\ \A i \in 1..n : t[i] = s[i]
  BY <1>3, <1>4
<1>6. ToSet(t) \subseteq ToSet(s)
  BY <1>1, <1>5 DEF ToSet
<1> QED
  BY <1>1, <1>5, <1>6, SubSeqFull DEF t

LEMMA FirstOfFirst ==
  ASSUME NEW S, NEW s \in Seq(S), NEW n \in 0..Len(s), NEW m \in 0..n
  PROVE  SubSeq(SubSeq(s, 1, n), 1, m) = SubSeq(s, 1, m)
<1> DEFINE t == SubSeq(s, 1, n)
<1>1. t \in Seq(S) /\ Len(t) = n /\ \A i \in 1..n : t[i] = s[i]
  BY FirstOfList
<1>2. m \in 0..Len(t) /\ m \in 0..Len(s) /\ \A i \in 1..m : i \in 1..n
  BY <1>1
<1> HIDE DEF t
<1>3. /\ SubSeq(t, 1, m) \in Seq(S) /\ Len(SubSeq(t, 1, m)) = m
      /\ \A i \in 1..m : SubSeq(t, 1, m)[i] = t[i]
  BY <1>1, <1>2, FirstOfList
<1>4. /\ SubSeq(s, 1, m) \in Seq(S) /\ Len(SubSeq(s, 1, m)) = m
      /\ \A i \in 1..m : SubSeq(s, 1, m)[i] = s[i]
  BY <1>2, FirstOfList
<1>5. \A i \in 1..m : SubSeq(t, 1, m)[i] = SubSeq(s, 1, m)[i]
  BY <1>1, <1>2, <1>3, <1>4
<1> QED
  BY <1>3, <1>4, <1>5, SeqEqual DEF t

-----------------------------------------------------------------------------
(* Reading a page.                                                           *)

\* The listed keys that are still to be read.
Ahead == {k \in listing : k > token}

LEMMA AheadIsFinite ==
  ASSUME CollectionInv
  PROVE  /\ Ahead \in SUBSET Nat /\ Ahead \subseteq Keys /\ IsFiniteSet(Ahead)
         /\ token \in Nat
<1>1. listing \subseteq Keys /\ Keys \subseteq Nat \ {0} /\ IsFiniteSet(Keys) /\ token \in Nat
  BY KeysAssumption DEF CollectionInv, TypeOK
<1> QED
  BY <1>1, FS_Subset DEF Ahead

(* The answer is a first part of what is ahead, all of it without "more".    *)
LEMMA AnswerIsAhead ==
  ASSUME CollectionInv, step = "asking", NEW a \in Answers
  PROVE  /\ a.more \in BOOLEAN /\ (~paginated => ~a.more)
         /\ \E n \in 0..Len(Ascending(Ahead)) :
               /\ a.keys = SubSeq(Ascending(Ahead), 1, n)
               /\ ~a.more => n = Len(Ascending(Ahead))
<1> DEFINE s == Ascending(Ahead)
<1>1. s \in Seq(Nat) /\ Len(s) \in Nat
  BY AheadIsFinite, AscendingLists, FS_CardinalityType
<1>2. CASE ~paginated
  <2>1. token = 0
    BY <1>2 DEF CollectionInv, StepInv
  <2>2. Ahead = listing
    <3>1. \A k \in listing : k \in Nat \ {0}
      BY KeysAssumption DEF CollectionInv, TypeOK
    <3>2. \A k \in listing : k > token
      BY <2>1, <3>1
    <3> QED
      BY <3>2 DEF Ahead
  <2>3. a.keys = s /\ a.more = FALSE
    BY <1>2, <2>2 DEF Answers
  <2>4. SubSeq(s, 1, Len(s)) = s
    BY <1>1, SubSeqFull
  <2>5. Len(s) \in 0..Len(s)
    BY <1>1
  <2> HIDE DEF s
  <2> QED
    BY <1>2, <2>3, <2>4, <2>5 DEF s
<1>3. CASE paginated
  <2>1. PICK n \in 0..Min({PageSize, Len(s)}) :
           /\ a.keys = SubSeq(s, 1, n) /\ a.more \in BOOLEAN
           /\ Len(a.keys) < Len(s) => a.more
    BY <1>3 DEF Answers, Ahead
  <2>2. n \in 0..Len(s)
    <3>1. PageSize \in Int /\ Len(s) \in Int /\ PageSize >= 0
      BY <1>1, BoundsAssumption
    <3>2. Min({PageSize, Len(s)}) = IF PageSize <= Len(s) THEN PageSize ELSE Len(s)
      BY <3>1, MaxMin
    <3> QED
      BY <2>1, <3>1, <3>2
  <2>3. Len(a.keys) = n
    BY <1>1, <2>1, <2>2, FirstOfList
  <2>4. ~a.more => n = Len(s)
    BY <1>1, <2>1, <2>2, <2>3
  <2> HIDE DEF s
  <2> QED
    BY <1>3, <2>1, <2>2, <2>3, <2>4 DEF s
<1>4. paginated \in BOOLEAN
  BY DEF CollectionInv, TypeOK
<1> QED
  BY <1>2, <1>3, <1>4

(* The keys of the answer that MaxItems leaves.                              *)
LEMMA KeptKeys ==
  ASSUME CollectionInv, step = "asking", NEW a \in Answers,
         NEW ks, ks = WithinMaxItems(a.keys)
  PROVE  /\ Len(a.keys) \in Nat /\ (a.keys = <<>> <=> Len(a.keys) = 0)
         /\ \E m \in 0..Len(Ascending(Ahead)) :
               /\ ks = SubSeq(Ascending(Ahead), 1, m)
               /\ Len(ks) = m /\ m <= Len(a.keys)
               /\ paginated /\ limit # None => elements + m <= limit
               /\ m < Len(a.keys) => paginated /\ limit # None /\ elements + m = limit
               /\ m = Len(a.keys) /\ ~a.more => m = Len(Ascending(Ahead))
<1> DEFINE s == Ascending(Ahead)
           N == Len(s)
<1>1. s \in Seq(Nat) /\ N \in Nat
  BY AheadIsFinite, AscendingLists, FS_CardinalityType
<1>2. PICK n \in 0..N : a.keys = SubSeq(s, 1, n) /\ (~a.more => n = N)
  BY AnswerIsAhead
<1> HIDE DEF s
<1>3. n \in Nat /\ a.keys \in Seq(Nat) /\ Len(a.keys) = n
  BY <1>1, <1>2, FirstOfList
<1>4. a.keys = <<>> <=> Len(a.keys) = 0
  BY <1>3
<1>5. CASE paginated /\ limit # None
  <2>1. limit \in Nat /\ elements \in Nat /\ elements <= limit
    BY <1>5, LimitsAssumption, KeysAssumption, FS_CardinalityType
       DEF CollectionInv, TypeOK, LimitInv
  <2> DEFINE m == IF n <= limit - elements THEN n ELSE limit - elements
  <2>2. Min({Len(a.keys), limit - elements}) = m
    <3>1. n \in Int /\ limit - elements \in Int
      BY <1>3, <2>1
    <3>2. Min({n, limit - elements}) = IF n <= limit - elements THEN n ELSE limit - elements
      BY <3>1, MaxMin
    <3> QED
      BY <1>3, <3>2
  <2>3. m \in 0..n /\ m \in 0..N
    BY <1>1, <1>2, <2>1
  <2>4. ks = SubSeq(a.keys, 1, m)
    BY <1>5, <2>2 DEF WithinMaxItems
  <2>5. ks = SubSeq(s, 1, m)
    BY <1>1, <1>2, <2>3, <2>4, FirstOfFirst
  <2>6. Len(ks) = m
    BY <1>1, <2>3, <2>5, FirstOfList
  <2>7. /\ elements + m <= limit
        /\ m < n => elements + m = limit
        /\ m = n /\ ~a.more => m = N
    BY <1>2, <1>3, <2>1
  <2> HIDE DEF m, N
  <2> QED
    BY <1>3, <1>4, <1>5, <2>3, <2>5, <2>6, <2>7 DEF s, N
<1>6. CASE ~(paginated /\ limit # None)
  <2>1. ks = a.keys
    BY <1>6 DEF WithinMaxItems
  <2> QED
    BY <1>2, <1>3, <1>4, <1>6, <2>1 DEF s
<1> QED
  BY <1>5, <1>6

(* The resources that the limit leaves.                                      *)
LEMMA CutPage ==
  ASSUME CollectionInv, step = "asking",
         NEW rs \in Seq(Nat), Promised!Increasing(rs),
         paginated /\ limit = 0 => rs = <<>>
  PROVE  /\ PageItems(rs) \in Seq(Nat) /\ Len(PageItems(rs)) \in Nat
         /\ Promised!Increasing(PageItems(rs))
         /\ ToSet(PageItems(rs)) \subseteq ToSet(rs) /\ Len(PageItems(rs)) <= Len(rs)
         /\ PageItems(rs) = <<>> => rs = <<>>
         /\ AtMost # None => count + Len(PageItems(rs)) <= AtMost
         /\ \/ PageItems(rs) = rs
            \/ AtMost # None /\ count + Len(PageItems(rs)) = AtMost
<1> DEFINE p == PageItems(rs)
<1>1. Len(rs) \in Nat /\ count \in Nat /\ DOMAIN rs = 1..Len(rs)
  <2>1. page \in Seq(ResourcesOf(Keys)) /\ given \in Seq(ResourcesOf(Keys))
        /\ count = Len(page) + Len(given)
    BY DEF CollectionInv, TypeOK
  <2> QED
    BY <2>1
<1>2. CASE limit = None
  <2>1. p = rs
    BY <1>2 DEF PageItems
  <2>2. AtMost = None
    BY <1>2, LimitsAssumption DEF AtMost
  <2> HIDE DEF p
  <2> QED
    BY <1>1, <2>1, <2>2 DEF p
<1>3. CASE limit # None
  <2>1. limit \in Nat /\ (count < limit \/ (limit = 0 /\ count = 0))
    BY <1>3, LimitsAssumption DEF CollectionInv, TypeOK, StepInv, LimitInv
  <2> DEFINE c == IF limit - count >= 1 THEN limit - count ELSE 1
             n == IF Len(rs) <= c THEN Len(rs) ELSE c
  <2>2. Max({limit - count, 1}) = c
    BY <1>1, <2>1, MaxMin
  <2>3. c \in Nat /\ c >= 1
    BY <1>1, <2>1
  <2>4. Min({Len(rs), c}) = n
    <3> HIDE DEF c
    <3>1. Len(rs) \in Int /\ c \in Int
      BY <1>1, <2>3
    <3> QED
      BY <3>1, MaxMin
  <2>5. p = SubSeq(rs, 1, n)
    BY <1>3, <2>2, <2>4 DEF PageItems
  <2>6. n \in 0..Len(rs)
    BY <1>1, <2>3
  <2>7. /\ p \in Seq(Nat) /\ Len(p) = n /\ ToSet(p) \subseteq ToSet(rs)
        /\ \A i \in 1..n : i \in 1..Len(rs) /\ p[i] = rs[i]
        /\ n = Len(rs) => p = rs
    <3> HIDE DEF n, p
    <3> QED
      BY <2>5, <2>6, FirstOfList
  <2>8. Promised!Increasing(p)
    <3> HIDE DEF n, p
    <3>1. DOMAIN p = 1..n
      BY <2>7, LenProperties
    <3> QED
      BY <1>1, <2>7, <3>1 DEF Promised!Increasing
  <2>9. p = <<>> => rs = <<>>
    <3>1. p = <<>> => n = 0
      BY <2>7
    <3>2. n = 0 => Len(rs) = 0
      BY <1>1, <2>3
    <3> QED
      BY <3>1, <3>2
  <2>10. AtMost # None /\ AtMost \in Nat
    BY <1>3, <2>1, LimitsAssumption DEF AtMost
  <2>11. /\ count + n <= AtMost
         /\ n = Len(rs) \/ count + n = AtMost
    <3>1. CASE count < limit
      <4>1. AtMost = limit /\ c = limit - count
        BY <1>1, <2>1, <3>1 DEF AtMost
      <4> QED
        BY <1>1, <2>1, <3>1, <4>1
    <3>2. CASE limit = 0 /\ count = 0 /\ ~paginated
      BY <1>1, <3>2 DEF AtMost
    <3>3. CASE limit = 0 /\ count = 0 /\ paginated
      <4>1. Len(rs) = 0 /\ AtMost = 0
        BY <3>3 DEF AtMost
      <4> QED
        BY <3>3, <4>1
    <3> QED
      BY <2>1, <3>1, <3>2, <3>3
  <2>12. Len(p) = n /\ n \in Nat /\ n <= Len(rs) /\ (p = rs \/ count + n = AtMost)
    <3> HIDE DEF n, p
    <3>1. Len(p) = n
      BY <2>7
    <3>2. n \in Nat /\ n <= Len(rs)
      BY <1>1, <2>6
    <3>3. n = Len(rs) => p = rs
      BY <2>7
    <3> QED
      BY <2>11, <3>1, <3>2, <3>3
  <2> HIDE DEF n, p
  <2> QED
    BY <2>7, <2>8, <2>9, <2>10, <2>11, <2>12 DEF p
<1> QED
  BY <1>2, <1>3

\* What reading a page with the keys K does.
PageOf(K) ==
    /\ K \subseteq Ahead /\ Cardinality(K) \in Nat
    /\ elements' = elements + Cardinality(K)
    /\ token' \in Keys \cup {0} /\ token <= token'
    /\ \A k \in Ahead : k <= token' <=> k \in K
    /\ page' \in Seq(Nat) /\ Promised!Increasing(page')
    /\ ToSet(page') \subseteq ResourcesOf(K)
    /\ Len(page') \in Nat /\ count' = count + Len(page')
    /\ AtMost # None => count' <= AtMost
    /\ paginated /\ limit # None => elements' <= limit /\ elements' <= count'
    /\ ~Full' => ToSet(page') = ResourcesOf(K)
    /\ last' \in BOOLEAN /\ empties' \in 0..MaxEmpty
    /\ last' /\ ~Full' => K = Ahead
    /\ ~last' => paginated /\ ~Reached(count')
    /\ page' = <<>> => last' \/ empties' > 0
    /\ Len(page') <= 2 * Cardinality(K) /\ empties' \in {empties, empties + 1}
    /\ K = {} => last' \/ empties' = empties + 1

LEMMA PageRead ==
  ASSUME CollectionInv, ReadPage
  PROVE  \E K : PageOf(K)
<1>1. /\ step = "asking" /\ outcome = "running" /\ step' = "using"
      /\ asked' = asked /\ service' = service /\ given' = given /\ outcome' = outcome
  BY DEF ReadPage
<1>2. /\ paginated \in BOOLEAN /\ elements \in Nat /\ count \in Nat /\ token \in Keys \cup {0}
      /\ empties \in 0..MaxEmpty /\ MaxEmpty \in Nat /\ limit \in Nat \cup {None} /\ None \notin Nat
      /\ token \in Nat
  <2>1. /\ page \in Seq(ResourcesOf(Keys)) /\ given \in Seq(ResourcesOf(Keys))
        /\ count = Len(page) + Len(given)
    BY DEF CollectionInv, TypeOK
  <2>2. count \in Nat
    BY <2>1
  <2> QED
    BY <2>2, KeysAssumption, LimitsAssumption, BoundsAssumption, FS_CardinalityType
       DEF CollectionInv, TypeOK
<1>3. PICK a \in Answers :
         /\ page' = PageItems(Handler(WithinMaxItems(a.keys)))
         /\ count' = count + Len(page')
         /\ elements' = elements + Len(WithinMaxItems(a.keys))
         /\ last' = (\/ ~a.more \/ Len(WithinMaxItems(a.keys)) < Len(a.keys)
                     \/ paginated /\ limit = elements'
                     \/ Reached(count'))
         /\ token' = IF WithinMaxItems(a.keys) = <<>> THEN token ELSE Last(WithinMaxItems(a.keys))
         /\ empties' = IF a.keys = <<>> /\ a.more THEN empties + 1 ELSE empties
  BY DEF ReadPage
<1> DEFINE s == Ascending(Ahead)
           ks == WithinMaxItems(a.keys)
           K == ToSet(ks)
           rs == Handler(ks)
<1>4. a.more \in BOOLEAN /\ (~paginated => ~a.more)
  BY <1>1, AnswerIsAhead
<1>5. /\ Len(a.keys) \in Nat /\ (a.keys = <<>> <=> Len(a.keys) = 0)
      /\ \E m \in 0..Len(s) :
            /\ ks = SubSeq(s, 1, m) /\ Len(ks) = m /\ m <= Len(a.keys)
            /\ paginated /\ limit # None => elements + m <= limit
            /\ m < Len(a.keys) => paginated /\ limit # None /\ elements + m = limit
            /\ m = Len(a.keys) /\ ~a.more => m = Len(s)
  BY <1>1, KeptKeys
<1>6. PICK m \in 0..Len(s) :
         /\ ks = SubSeq(s, 1, m) /\ Len(ks) = m /\ m <= Len(a.keys)
         /\ paginated /\ limit # None => elements + m <= limit
         /\ m < Len(a.keys) => paginated /\ limit # None /\ elements + m = limit
         /\ m = Len(a.keys) /\ ~a.more => m = Len(s)
  BY <1>5
<1>7. Ahead \in SUBSET Nat /\ Ahead \subseteq Keys /\ IsFiniteSet(Ahead)
  BY AheadIsFinite
<1>8. s \in Seq(Ahead) /\ Len(s) \in Nat /\ m \in Nat
  BY <1>7, AscendingLists, FS_CardinalityType
<1>9. /\ ks \in Seq(Ahead) /\ Promised!Increasing(ks) /\ K \subseteq Ahead
      /\ (m = Len(s) => K = Ahead) /\ Cardinality(K) = m
      /\ ks # <<>> => Last(ks) \in Ahead /\ \A k \in Ahead : k <= Last(ks) <=> k \in K
  <2> HIDE DEF ks
  <2>1. m \in 0..Len(s) /\ ks = SubSeq(s, 1, m)
    BY <1>6
  <2> HIDE DEF s
  <2>2. Ahead \in SUBSET Nat /\ IsFiniteSet(Ahead)
    BY <1>7
  <2>3. m \in 0..Len(Ascending(Ahead)) /\ ks = SubSeq(Ascending(Ahead), 1, m)
    BY <2>1 DEF s
  <2>4. /\ ks \in Seq(Ahead) /\ Promised!Increasing(ks) /\ Cardinality(K) = m
        /\ m = Len(s) => K = Ahead
        /\ ks # <<>> => Last(ks) \in Ahead /\ UpToLast(ks, Ahead)
    BY <2>2, <2>3, FirstOfThem DEF s
  <2>5. K \subseteq Ahead
    BY <2>4 DEF ToSet
  <2> QED
    BY <2>4, <2>5 DEF UpToLast
<1> HIDE DEF ks, s
<1>10. ks \in Seq(Keys) /\ (ks = <<>> <=> m = 0)
  <2>1. ks \in Seq(Ahead) /\ Len(ks) = m
    BY <1>6, <1>9
  <2>2. ks = <<>> <=> m = 0
    BY <2>1
  <2>3. ks \in Seq(Keys)
    <3>1. \A i \in 1..m : ks[i] \in Keys
      <4>1. \A i \in 1..Len(ks) : ks[i] \in Ahead
        BY <2>1, ElementOfSeq
      <4> QED
        BY <1>7, <2>1, <4>1
    <3> QED
      BY <1>8, <2>1, <3>1
  <2> QED
    BY <2>2, <2>3
<1>11. /\ rs \in Seq(Nat) /\ Promised!Increasing(rs) /\ ToSet(rs) = ResourcesOf(K)
       /\ Len(rs) \in Nat /\ Len(rs) >= m /\ Len(rs) <= 2 * m /\ (rs = <<>> <=> ks = <<>>)
  BY <1>6, <1>9, <1>10, HandlerLists
<1>12. paginated /\ limit = 0 => rs = <<>>
  BY <1>2, <1>6, <1>8, <1>10, <1>11
<1>13. page' = PageItems(rs)
  BY <1>3 DEF ks
<1> HIDE DEF rs
<1>14. /\ page' \in Seq(Nat) /\ Len(page') \in Nat /\ Len(page') <= Len(rs)
       /\ Promised!Increasing(page') /\ ToSet(page') \subseteq ToSet(rs)
       /\ page' = <<>> => rs = <<>>
       /\ AtMost # None => count + Len(page') <= AtMost
       /\ page' = rs \/ (AtMost # None /\ count + Len(page') = AtMost)
  BY <1>1, <1>11, <1>12, <1>13, CutPage
<1>15. /\ elements' = elements + m /\ count' = count + Len(page')
       /\ last' = (\/ ~a.more \/ m < Len(a.keys)
                   \/ paginated /\ limit = elements'
                   \/ Reached(count'))
       /\ token' = IF m = 0 THEN token ELSE Last(ks)
  BY <1>3, <1>6, <1>10 DEF ks
<1>16. Full' <=> AtMost # None /\ count' = AtMost
  BY <1>1 DEF Full, AtMost, asked
<1>17. /\ token' \in Keys \cup {0} /\ token <= token'
       /\ \A k \in Ahead : k <= token' <=> k \in K
  <2>1. CASE m = 0
    <3>1. K = {} /\ token' = token
      BY <1>10, <1>15, <2>1 DEF ToSet
    <3>2. \A k \in Ahead : ~(k <= token)
      BY <1>2, <1>7 DEF Ahead
    <3> QED
      BY <1>2, <3>1, <3>2
  <2>2. CASE m # 0
    <3>1. token' = Last(ks) /\ Last(ks) \in Ahead
      BY <1>9, <1>10, <1>15, <2>2
    <3>2. Last(ks) > token /\ Last(ks) \in Nat /\ Last(ks) \in Keys
      BY <1>7, <3>1 DEF Ahead
    <3> QED
      BY <1>2, <1>9, <1>10, <2>2, <3>1, <3>2
  <2> QED
    BY <2>1, <2>2
<1>18. ASSUME paginated, limit # None PROVE elements' <= limit /\ elements' <= count'
  <2>1. elements <= limit /\ elements <= count /\ limit \in Nat
    BY <1>2, <1>18 DEF CollectionInv, LimitInv
  <2>2. AtMost = limit
    BY <1>18 DEF AtMost
  <2>3. Len(page') >= m \/ count' = limit
    BY <1>11, <1>14, <1>15, <2>2
  <2> QED
    BY <1>2, <1>6, <1>8, <1>14, <1>15, <1>18, <2>1, <2>3
<1>19. ~Full' => ToSet(page') = ResourcesOf(K)
  BY <1>11, <1>14, <1>15, <1>16
<1>20. empties' \in 0..MaxEmpty
  <2>1. a.keys = <<>> /\ a.more => empties < MaxEmpty
    BY <1>4 DEF Answers
  <2> QED
    BY <1>2, <1>3, <2>1
<1>21. ASSUME last', ~Full' PROVE K = Ahead
  <2>1. ~(paginated /\ limit # None /\ elements' = limit)
    <3> SUFFICES ASSUME paginated, limit # None, elements' = limit PROVE Full'
      BY <1>21
    <3>1. AtMost = limit /\ limit \in Nat
      BY <1>2 DEF AtMost
    <3>2. limit <= count'
      BY <1>18
    <3>3. count' <= limit
      BY <1>14, <1>15, <1>21, <3>1
    <3>4. count' \in Nat
      BY <1>2, <1>14, <1>15
    <3> QED
      BY <1>16, <1>21, <3>1, <3>2, <3>3, <3>4
  <2>2. m = Len(a.keys)
    BY <1>5, <1>6, <1>8, <1>15, <2>1
  <2>3. CASE ~a.more
    BY <1>6, <1>9, <2>2, <2>3
  <2>4. CASE Reached(count')
    <3>1. limit \in Nat /\ limit # None /\ count' >= limit /\ count' \in Nat
      BY <1>2, <1>14, <1>15, <2>4 DEF Reached
    <3>2. CASE limit = 0 /\ ~paginated
      BY <1>4, <2>3, <3>2
    <3>3. CASE ~(limit = 0 /\ ~paginated)
      <4>1. AtMost = limit
        BY <3>3 DEF AtMost
      <4> QED
        BY <1>14, <1>15, <1>16, <1>21, <3>1, <4>1
    <3> QED
      BY <3>2, <3>3
  <2>5. elements' \in Nat /\ Len(a.keys) \in Nat
    BY <1>2, <1>5, <1>8, <1>15
  <2>6. ~(paginated /\ limit = elements')
    BY <1>2, <2>1, <2>5
  <2>7. ~(m < Len(a.keys))
    BY <2>2, <2>5
  <2>8. ~a.more \/ Reached(count')
    BY <1>15, <1>21, <2>6, <2>7
  <2> QED
    BY <2>3, <2>4, <2>8
<1>22. ~last' => paginated /\ ~Reached(count')
  BY <1>4, <1>15
<1>23. m = 0 => last' \/ empties' = empties + 1
  <2> SUFFICES ASSUME m = 0 PROVE last' \/ empties' = empties + 1
    OBVIOUS
  <2>1. CASE a.keys = <<>> /\ a.more
    BY <1>3, <2>1
  <2>2. CASE a.keys # <<>>
    <3>1. m < Len(a.keys)
      BY <1>5, <2>2
    <3> QED
      BY <1>15, <3>1
  <2>3. CASE ~a.more
    BY <1>15, <2>3
  <2> QED
    BY <2>1, <2>2, <2>3
<1>24. page' = <<>> => last' \/ empties' > 0
  BY <1>2, <1>10, <1>11, <1>14, <1>23
<1>25. Len(page') <= 2 * m /\ empties' \in {empties, empties + 1}
  <2>1. empties' \in {empties, empties + 1}
    BY <1>3
  <2>2. Len(page') \in Nat /\ Len(page') <= Len(rs) /\ Len(rs) <= 2 * m /\ Len(rs) \in Nat
    BY <1>11, <1>14
  <2> QED
    BY <1>8, <2>1, <2>2
<1>26. K = {} => m = 0
  BY <1>9, FS_EmptySet
<1>27. last' \in BOOLEAN
  BY <1>15
<1> HIDE DEF K
<1>28. PageOf(K)
  BY <1>8, <1>9, <1>11, <1>14, <1>15, <1>17, <1>18, <1>19, <1>20, <1>21, <1>22, <1>23, <1>24,
     <1>25, <1>26, <1>27 DEF PageOf
<1> QED
  BY <1>28
-----------------------------------------------------------------------------
(* The invariant holds.                                                      *)

\* What is given out and at hand are lists of numbers.
LEMMA ListsOfNumbers ==
  ASSUME CollectionInv
  PROVE  /\ ResourcesOf(Keys) \subseteq Nat
         /\ given \in Seq(Nat) /\ page \in Seq(Nat) /\ count = Len(page) + Len(given)
         /\ Len(given) \in Nat /\ Len(page) \in Nat /\ count \in Nat
         /\ DOMAIN given = 1..Len(given) /\ DOMAIN page = 1..Len(page)
<1>1. ResourcesOf(Keys) \subseteq Nat
  <2> SUFFICES ASSUME NEW x \in ResourcesOf(Keys) PROVE x \in Nat
    OBVIOUS
  <2>1. PICK k \in Keys : x \in ToSet(Resource(k))
    BY DEF ResourcesOf
  <2>2. k \in Nat /\ x \in {2 * k, 2 * k + 1}
    BY <2>1, ResourceNumbers
  <2> QED
    BY <2>2
<1>2. /\ page \in Seq(ResourcesOf(Keys)) /\ given \in Seq(ResourcesOf(Keys))
      /\ count = Len(page) + Len(given)
  BY DEF CollectionInv, TypeOK
<1>3. /\ Len(given) \in Nat /\ Len(page) \in Nat
      /\ DOMAIN given = 1..Len(given) /\ DOMAIN page = 1..Len(page)
  BY <1>2
<1>4. given \in Seq(Nat) /\ page \in Seq(Nat)
  <2>1. \A i \in 1..Len(given) : given[i] \in ResourcesOf(Keys)
    BY <1>2, ElementOfSeq
  <2>2. \A i \in 1..Len(page) : page[i] \in ResourcesOf(Keys)
    BY <1>2, ElementOfSeq
  <2>3. \A i \in 1..Len(given) : given[i] \in Nat
    BY <1>1, <2>1
  <2>4. \A i \in 1..Len(page) : page[i] \in Nat
    BY <1>1, <2>2
  <2>5. given \in Seq(Nat)
    BY <1>2, <1>3, <2>3
  <2>6. page \in Seq(Nat)
    BY <1>2, <1>3, <2>4
  <2> QED
    BY <2>5, <2>6
<1> QED
  BY <1>1, <1>2, <1>3, <1>4

\* No two keys have a resource in common.
LEMMA ResourceOfOneKey ==
  ASSUME NEW j \in Keys, NEW k \in Keys, ToSet(Resource(k)) \cap ToSet(Resource(j)) # {}
  PROVE  j = k
<1>1. j \in Nat /\ k \in Nat
  BY ResourceNumbers
<1>2. PICK x : x \in ToSet(Resource(k)) /\ x \in ToSet(Resource(j))
  OBVIOUS
<1>3. x \in {2 * j, 2 * j + 1} /\ x \in {2 * k, 2 * k + 1}
  BY <1>2, ResourceNumbers
<1> QED
  BY <1>1, <1>3

LEMMA InitInv ==
  ASSUME Init
  PROVE  CollectionInv
<1>1. /\ given = <<>> /\ page = <<>> /\ token = 0 /\ elements = 0 /\ count = 0
      /\ step = "asking" /\ ~last /\ lasting = listing /\ seen = listing /\ listing \subseteq Keys
      /\ limit \in Limits /\ limit \in Nat \cup {None}
  BY LimitsAssumption DEF Init
<1>2. TypeOK
  <2>1. 0 \in 0..Cardinality(Keys) /\ 0 \in 0..MaxEmpty /\ 0 \in 0..MaxChanges
    BY KeysAssumption, BoundsAssumption, FS_CardinalityType
  <2>2. {page, given} \subseteq Seq(ResourcesOf(Keys)) /\ count = Len(page) + Len(given)
    BY <1>1
  <2>3. /\ use \in {"iteration", "batch"} /\ paginated \in BOOLEAN /\ changes = 0 /\ empties = 0
        /\ last = FALSE /\ outcome = "running"
    BY DEF Init
  <2> QED
    BY <1>1, <2>1, <2>2, <2>3 DEF TypeOK
<1>3. StepInv
  BY <1>1 DEF StepInv
<1>4. LimitInv
  BY <1>1 DEF LimitInv, AtMost
<1>5. OrderInv
  <2> DEFINE S == {k \in Keys : k <= token}
  <2>1. IsFiniteSet(S)
    BY KeysAssumption, FS_Subset
  <2>2. elements <= Cardinality(S)
    BY <1>1, <2>1, FS_CardinalityType
  <2>3. Held = {}
    BY <1>1 DEF Held, ToSet
  <2>4. Promised!Increasing(given \o page)
    <3>1. <<>> \o <<>> = <<>> /\ DOMAIN <<>> = {}
      OBVIOUS
    <3> QED
      BY <1>1, <3>1 DEF Promised!Increasing
  <2> QED
    BY <2>2, <2>3, <2>4 DEF OrderInv
<1>6. ReachInv
  <2>1. \A k \in lasting : ~(k <= token)
    BY <1>1, KeysAssumption
  <2> QED
    BY <1>1, <2>1 DEF ReachInv
<1> QED
  BY <1>2, <1>3, <1>4, <1>5, <1>6 DEF CollectionInv

\* Whatever moves resources from what is at hand to what is given out, takes
\* only keys out of the listing whose resources are given out, and reads
\* nothing, leaves what was read and reached as it was.
LEMMA NothingRead ==
  ASSUME CollectionInv, StepInv',
         UNCHANGED <<asked, seen, lasting, changes, paginator, count>>,
         page' \in Seq(ResourcesOf(Keys)), given' \in Seq(ResourcesOf(Keys)),
         count = Len(page') + Len(given'),
         Promised!Increasing(given' \o page'), Held' = Held,
         ToSet(given) \subseteq ToSet(given'),
         listing' \subseteq listing,
         \A k \in listing \ listing' : ToSet(Resource(k)) \subseteq ToSet(given'),
         step' \in {"asking", "using", "yielded", "acting"},
         outcome' \in {"running", "returned", "raised"}
  PROVE  CollectionInv'
<1>1. /\ use' = use /\ paginated' = paginated /\ limit' = limit /\ seen' = seen
      /\ lasting' = lasting /\ changes' = changes /\ token' = token /\ elements' = elements
      /\ empties' = empties /\ last' = last /\ count' = count
  BY DEF asked, paginator
<1>2. AtMost' = AtMost /\ Full' = Full
  BY <1>1 DEF AtMost, Full
<1>3. TypeOK'
  BY <1>1 DEF CollectionInv, TypeOK
<1>4. LimitInv'
  BY <1>1, <1>2 DEF CollectionInv, LimitInv
<1>5. OrderInv'
  BY <1>1 DEF CollectionInv, OrderInv
<1>6. ReachInv'
  <2>1. \A k \in lasting' \ listing' : ToSet(Resource(k)) \subseteq ToSet(given')
    BY <1>1 DEF CollectionInv, ReachInv
  <2> QED
    BY <1>1, <1>2, <2>1 DEF CollectionInv, ReachInv
<1> QED
  BY <1>3, <1>4, <1>5, <1>6 DEF CollectionInv

LEMMA ReadPageInv ==
  ASSUME CollectionInv, ReadPage
  PROVE  CollectionInv'
<1>1. /\ step = "asking" /\ outcome = "running" /\ step' = "using" /\ outcome' = "running"
      /\ use' = use /\ paginated' = paginated /\ limit' = limit /\ given' = given
      /\ listing' = listing /\ seen' = seen /\ lasting' = lasting /\ changes' = changes
  BY DEF ReadPage, asked, service
<1>2. PICK K : PageOf(K)
  BY PageRead
<1>3. page = <<>> /\ ~last /\ count = Len(given) /\ ToSet(page) = {} /\ Held = ToSet(given)
  <2>1. page = <<>> /\ ~last
    BY <1>1 DEF CollectionInv, StepInv
  <2>2. count = Len(given)
    BY <2>1, ListsOfNumbers
  <2>3. ToSet(page) = {}
    BY <2>1 DEF ToSet
  <2> QED
    BY <2>1, <2>2, <2>3 DEF Held
<1>4. AtMost' = AtMost /\ (Full' <=> AtMost # None /\ count' = AtMost)
  BY <1>1 DEF AtMost, Full
<1>5. /\ Ahead \subseteq Keys /\ token \in Nat /\ token' \in Nat /\ token <= token'
      /\ Keys \subseteq Nat /\ seen \subseteq Keys /\ listing \subseteq seen /\ lasting \subseteq seen
  <2>1. Ahead \subseteq Keys /\ token \in Nat
    BY AheadIsFinite
  <2>2. Keys \subseteq Nat
    BY KeysAssumption
  <2>3. token' \in Keys \cup {0} /\ token <= token'
    BY <1>2 DEF PageOf
  <2>4. seen \subseteq Keys /\ listing \subseteq seen /\ lasting \subseteq seen
    BY DEF CollectionInv, TypeOK
  <2> QED
    BY <2>1, <2>2, <2>3, <2>4
<1>6. /\ given \in Seq(Nat) /\ Len(given) \in Nat /\ count \in Nat
      /\ page' \in Seq(Nat) /\ Len(page') \in Nat
      /\ count' = count + Len(page') /\ ToSet(page') \subseteq ResourcesOf(K)
  BY <1>2, ListsOfNumbers DEF PageOf
<1>7. /\ Held' = ToSet(given) \cup ToSet(page')
      /\ Held \subseteq ResourcesOf({k \in seen : k <= token})
  BY <1>1 DEF CollectionInv, OrderInv, Held
<1>8. /\ K \subseteq Ahead /\ K \subseteq {k \in seen : k <= token'}
      /\ \A k \in K : k > token
  BY <1>2, <1>5 DEF PageOf, Ahead
<1>9. OrderInv'
  <2>1. ASSUME NEW x \in ToSet(given), NEW y \in ToSet(page') PROVE x < y
    <3>1. PICK a \in seen : a <= token /\ x \in ToSet(Resource(a))
      BY <1>3, <1>7 DEF ResourcesOf
    <3>2. PICK b \in K : y \in ToSet(Resource(b))
      BY <1>6 DEF ResourcesOf
    <3>3. a \in Keys /\ b \in Keys /\ a < b
      BY <1>5, <1>8, <3>1
    <3> QED
      BY <3>1, <3>2, <3>3, ResourcesInOrder
  <2>2. Promised!Increasing(given' \o page')
    <3>1. Promised!Increasing(given)
      <4>1. given \o page = given
        BY <1>3, <1>6, ConcatEmptySeq
      <4> QED
        BY <4>1 DEF CollectionInv, OrderInv
    <3>2. Promised!Increasing(page')
      BY <1>2 DEF PageOf
    <3>3. Promised!Increasing(given \o page')
      BY <1>6, <2>1, <3>1, <3>2, Joined
    <3> QED
      BY <1>1, <3>3
  <2>3. Held' \subseteq ResourcesOf({k \in seen : k <= token'})
    <3>1. {k \in seen : k <= token} \subseteq {k \in seen : k <= token'}
      <4>1. \A k \in seen : k \in Nat /\ (k <= token => k <= token')
        BY <1>5
      <4> QED
        BY <4>1
    <3>2. ResourcesOf({k \in seen : k <= token}) \subseteq ResourcesOf({k \in seen : k <= token'})
      BY <3>1, ResourcesOfUnion
    <3>3. ResourcesOf(K) \subseteq ResourcesOf({k \in seen : k <= token'})
      BY <1>8, ResourcesOfUnion
    <3> QED
      BY <1>3, <1>6, <1>7, <3>2, <3>3
  <2>4. elements' <= Cardinality({k \in Keys : k <= token'})
    <3> DEFINE S == {k \in Keys : k <= token}
               T == {k \in Keys : k <= token'}
    <3>1. IsFiniteSet(S) /\ IsFiniteSet(T) /\ IsFiniteSet(K) /\ IsFiniteSet(S \cup K)
      <4>1. S \in SUBSET Keys /\ T \in SUBSET Keys /\ K \in SUBSET Keys /\ (S \cup K) \in SUBSET Keys
        BY <1>5, <1>8
      <4> HIDE DEF S, T
      <4> QED
        BY <4>1, KeysAssumption, FS_Subset
    <3>2. S \cap K = {} /\ (S \cup K) \in SUBSET T
      <4>1. \A k \in Keys : k \in Nat /\ (k <= token => k <= token' /\ ~(k > token))
        BY <1>5
      <4>2. \A k \in K : k \in Keys /\ k > token /\ k <= token'
        BY <1>5, <1>8
      <4> QED
        BY <4>1, <4>2
    <3> HIDE DEF S, T
    <3>3. Cardinality(S \cup K) = Cardinality(S) + Cardinality(K) - Cardinality({})
      BY <3>1, <3>2, FS_Union
    <3>4. Cardinality({}) = 0 /\ Cardinality(S) \in Nat /\ Cardinality(K) \in Nat /\ Cardinality(T) \in Nat
      BY <3>1, FS_EmptySet, FS_CardinalityType
    <3>5. Cardinality(S \cup K) <= Cardinality(T)
      BY <3>1, <3>2, FS_Subset
    <3>6. elements <= Cardinality(S) /\ elements' = elements + Cardinality(K) /\ elements \in Nat
      BY <1>2, KeysAssumption, FS_CardinalityType
         DEF S, PageOf, CollectionInv, TypeOK, OrderInv
    <3> QED
      BY <3>3, <3>4, <3>5, <3>6 DEF T
  <2> QED
    BY <1>1, <2>2, <2>3, <2>4 DEF OrderInv
<1>10. TypeOK'
  <2>1. page' \in Seq(ResourcesOf(Keys))
    <3>1. ResourcesOf(K) \subseteq ResourcesOf(Keys)
      <4>1. K \subseteq Keys
        BY <1>5, <1>8
      <4> QED
        BY <4>1, ResourcesOfUnion
    <3>2. \A i \in 1..Len(page') : page'[i] \in ResourcesOf(Keys)
      BY <1>6, <3>1 DEF ToSet
    <3> QED
      BY <1>6, <3>2
  <2>2. elements' \in 0..Cardinality(Keys)
    <3> DEFINE T == {k \in Keys : k <= token'}
    <3>1. T \in SUBSET Keys
      OBVIOUS
    <3>2. elements' <= Cardinality(T)
      BY <1>9 DEF OrderInv
    <3> HIDE DEF T
    <3>3. /\ IsFiniteSet(T) /\ Cardinality(T) <= Cardinality(Keys)
          /\ Cardinality(T) \in Nat /\ Cardinality(Keys) \in Nat
      BY <3>1, KeysAssumption, FS_Subset, FS_CardinalityType
    <3>4. elements' \in Nat
      <4>1. elements \in Nat
        BY <3>3 DEF CollectionInv, TypeOK
      <4>2. Cardinality(K) \in Nat /\ elements' = elements + Cardinality(K)
        BY <1>2 DEF PageOf
      <4> QED
        BY <4>1, <4>2
    <3> QED
      BY <3>2, <3>3, <3>4
  <2>3. count' = Len(page') + Len(given')
    BY <1>1, <1>3, <1>6
  <2>4. token' \in Keys \cup {0} /\ last' \in BOOLEAN /\ empties' \in 0..MaxEmpty
    BY <1>2 DEF PageOf
  <2> QED
    BY <1>1, <2>1, <2>2, <2>3, <2>4 DEF CollectionInv, TypeOK
<1>11. StepInv'
  BY <1>1, <1>2 DEF StepInv, PageOf
<1>12. LimitInv'
  <2>1. AtMost' # None => count' <= AtMost'
    BY <1>2, <1>4 DEF PageOf
  <2>2. ~last' /\ limit' # None => count' < limit'
    <3>1. limit # None => limit \in Nat
      BY LimitsAssumption DEF CollectionInv, TypeOK
    <3>2. count' \in Nat
      BY <1>6
    <3> QED
      BY <1>1, <1>2, <3>1, <3>2 DEF PageOf, Reached
  <2>3. paginated' /\ limit' # None => elements' <= limit' /\ elements' <= count'
    BY <1>1, <1>2 DEF PageOf
  <2> QED
    BY <2>1, <2>2, <2>3 DEF LimitInv
<1>13. ReachInv'
  <2>1. \A k \in lasting \ listing : ToSet(Resource(k)) \subseteq ToSet(given)
    BY DEF CollectionInv, ReachInv
  <2>2. ~Full' => ~Full
    <3> SUFFICES ASSUME Full PROVE Full'
      OBVIOUS
    <3>1. AtMost # None /\ count = AtMost /\ count' <= AtMost
      BY <1>2 DEF Full, PageOf
    <3> QED
      BY <1>4, <1>6, <3>1
  <2>3. ASSUME ~Full', NEW k \in lasting, k <= token'
        PROVE  ToSet(Resource(k)) \subseteq Held'
    <3>1. CASE k <= token
      BY <1>3, <1>7, <2>2, <2>3, <3>1 DEF CollectionInv, ReachInv
    <3>2. CASE k \notin listing
      BY <1>7, <2>1, <3>2
    <3>3. CASE k \in listing /\ ~(k <= token)
      <4>1. k \in Ahead
        BY <1>5, <3>3 DEF Ahead
      <4>2. k \in K /\ ToSet(page') = ResourcesOf(K)
        BY <1>2, <2>3, <4>1 DEF PageOf
      <4>3. ToSet(Resource(k)) \subseteq ResourcesOf(K)
        BY <4>2, ResourcesOfUnion
      <4> QED
        BY <1>7, <4>2, <4>3
    <3> QED
      BY <3>1, <3>2, <3>3
  <2>4. ASSUME ~Full', last', NEW k \in lasting
        PROVE  k <= token'
    <3>1. CASE k <= token
      BY <1>5, <3>1
    <3>2. CASE k \notin listing
      <4>1. 2 * k \in ToSet(Resource(k)) /\ k \in Keys
        BY <1>5, ResourceNumbers
      <4>2. 2 * k \in ResourcesOf({j \in seen : j <= token})
        BY <1>3, <1>7, <2>1, <3>2, <4>1
      <4>3. PICK j \in seen : j <= token /\ 2 * k \in ToSet(Resource(j))
        BY <4>2 DEF ResourcesOf
      <4>4. j = k
        BY <1>5, <4>1, <4>3, ResourceOfOneKey
      <4> QED
        BY <1>5, <4>3, <4>4
    <3>3. CASE k \in listing /\ ~(k <= token)
      <4>1. k \in Ahead
        BY <1>5, <3>3 DEF Ahead
      <4> QED
        BY <1>2, <2>4, <4>1 DEF PageOf
    <3> QED
      BY <3>1, <3>2, <3>3
  <2> QED
    BY <1>1, <2>1, <2>3, <2>4 DEF ReachInv
<1> QED
  BY <1>9, <1>10, <1>11, <1>12, <1>13 DEF CollectionInv

LEMMA ListOfMore ==
  ASSUME NEW S, NEW T, S \subseteq T, NEW s \in Seq(S)
  PROVE  s \in Seq(T)
<1>1. \A i \in 1..Len(s) : s[i] \in T
  <2>1. \A i \in 1..Len(s) : s[i] \in S
    BY ElementOfSeq
  <2> QED
    BY <2>1
<1> QED
  BY <1>1

Associative(s, t, u) == (s \o t) \o u = s \o (t \o u)

LEMMA Associates ==
  ASSUME NEW S, NEW s \in Seq(S), NEW t \in Seq(S), NEW u \in Seq(S)
  PROVE  Associative(s, t, u)
BY ConcatAssociative, SMT DEF Associative

\* The first resources h at hand are given out, and t stays at hand.
LEMMA GivenOut ==
  ASSUME CollectionInv,
         NEW h \in Seq(ResourcesOf(Keys)), NEW t \in Seq(ResourcesOf(Keys)), h # <<>>,
         page = h \o t, given' = given \o h, page' = t
  PROVE  /\ given' \in Seq(ResourcesOf(Keys)) /\ page' \in Seq(ResourcesOf(Keys))
         /\ count = Len(page') + Len(given') /\ Len(given') \in Nat /\ Len(given') <= count
         /\ Promised!Increasing(given' \o page') /\ Promised!Increasing(given')
         /\ Held' = Held /\ ToSet(given) \subseteq ToSet(given') /\ ToSet(given') \subseteq Held
         /\ IsStrictPrefix(given, given') /\ given' # <<>>
<1> DEFINE g == given \o h
<1>1. /\ given \in Seq(ResourcesOf(Keys))
      /\ given \in Seq(Nat) /\ count = Len(page) + Len(given)
      /\ ResourcesOf(Keys) \subseteq Nat
  BY ListsOfNumbers DEF CollectionInv, TypeOK
<1>2. h \in Seq(Nat) /\ t \in Seq(Nat)
  BY <1>1, ListOfMore
<1>3. /\ g \in Seq(Nat) /\ Len(g) = Len(given) + Len(h)
      /\ ToSet(g) = ToSet(given) \cup ToSet(h)
  BY <1>1, <1>2, Joined
<1>4. Len(page) = Len(h) + Len(t) /\ ToSet(page) = ToSet(h) \cup ToSet(t)
  BY <1>2, Joined
<1>5. g \in Seq(ResourcesOf(Keys))
  BY <1>1, ConcatProperties
<1>6. /\ Len(h) \in Nat /\ Len(t) \in Nat /\ Len(given) \in Nat
      /\ DOMAIN given = 1..Len(given) /\ Len(h) > 0
  BY <1>1, <1>2
<1>7. Held' = Held /\ ToSet(given) \subseteq ToSet(g) /\ ToSet(g) \subseteq Held
  BY <1>3, <1>4 DEF Held
<1>8. g \o t = given \o page
  <2>1. (given \o h) \o t = given \o (h \o t)
    <3>1. given \in Seq(Nat) /\ h \in Seq(Nat) /\ t \in Seq(Nat)
      BY <1>1, <1>2
    <3>2. Associative(given, h, t)
      BY <3>1, Associates
    <3> QED
      BY <3>2 DEF Associative
  <2> QED
    BY <2>1
<1> HIDE DEF g
<1>9. Promised!Increasing(g \o t)
  BY <1>8 DEF CollectionInv, OrderInv
<1>10. Promised!Increasing(g)
  <2>1. /\ DOMAIN g = 1..Len(g) /\ Len(g) \in Nat
        /\ DOMAIN (g \o t) = 1..(Len(g) + Len(t))
    <3>1. DOMAIN g = 1..Len(g) /\ Len(g) \in Nat
      BY <1>3
    <3>2. (g \o t) \in Seq(Nat) /\ Len(g \o t) = Len(g) + Len(t)
      BY <1>2, <1>3, Joined
    <3>3. DOMAIN (g \o t) = 1..Len(g \o t)
      BY <3>2, LenProperties
    <3> QED
      BY <3>1, <3>2, <3>3
  <2>2. \A i \in 1..Len(g) : i \in 1..(Len(g) + Len(t)) /\ (g \o t)[i] = g[i]
    <3> SUFFICES ASSUME NEW i \in 1..Len(g)
                 PROVE  i \in 1..(Len(g) + Len(t)) /\ (g \o t)[i] = g[i]
      OBVIOUS
    <3>1. i \in 1..(Len(g) + Len(t)) /\ i <= Len(g)
      BY <1>6, <2>1
    <3>2. (g \o t)[i] = IF i <= Len(g) THEN g[i] ELSE t[i - Len(g)]
      BY <1>2, <1>3, <3>1, ConcatProperties
    <3> QED
      BY <3>1, <3>2
  <2> QED
    BY <1>9, <2>1, <2>2 DEF Promised!Increasing
<1>11. IsStrictPrefix(given, g) /\ g # <<>>
  <2>1. Len(given) \in 0..Len(g) /\ Len(given) # Len(g) /\ Len(g) > 0
    <3>1. Len(g) = Len(given) + Len(h) /\ Len(given) \in Nat /\ Len(h) \in Nat /\ Len(h) > 0
      BY <1>3, <1>6
    <3>2. \A m, n \in Nat : n > 0 => m \in 0..(m + n) /\ m # m + n /\ m + n > 0
      OBVIOUS
    <3> QED
      BY <3>1, <3>2, Zenon
  <2>2. g # given /\ g # <<>>
    BY <2>1
  <2>3. SubSeq(g, 1, Len(given)) = given
    <3>1. /\ SubSeq(g, 1, Len(given)) \in Seq(Nat) /\ Len(SubSeq(g, 1, Len(given))) = Len(given)
          /\ \A i \in 1..Len(given) : SubSeq(g, 1, Len(given))[i] = g[i]
      BY <1>3, <2>1, FirstOfList
    <3>2. \A i \in 1..Len(given) : g[i] = given[i]
      <4> SUFFICES ASSUME NEW i \in 1..Len(given) PROVE g[i] = given[i]
        OBVIOUS
      <4>1. i \in 1..(Len(given) + Len(h)) /\ i <= Len(given)
        BY <1>6
      <4> QED
        BY <1>1, <1>2, <4>1, ConcatProperties DEF g
    <3>3. \A i \in 1..Len(SubSeq(g, 1, Len(given))) : SubSeq(g, 1, Len(given))[i] = given[i]
      BY <3>1, <3>2
    <3> HIDE DEF g
    <3> QED
      BY <1>1, <3>1, <3>3, SeqEqual
  <2>4. SubSeq(given, 1, Len(given)) = given
    BY <1>1, SubSeqFull
  <2>5. Len(given) <= Len(g)
    BY <1>3, <1>6
  <2> QED
    BY <2>2, <2>3, <2>4, <2>5 DEF IsStrictPrefix, IsPrefix
<1>12. given' = g
  BY DEF g
<1>13. count = Len(t) + Len(g) /\ Len(g) \in Nat /\ Len(g) <= count
  BY <1>1, <1>3, <1>4, <1>6
<1> QED
  BY <1>5, <1>7, <1>9, <1>10, <1>11, <1>12, <1>13

\* The two ways to give out: the first resource at hand, or all of them.
LEMMA HeadAndTail ==
  ASSUME CollectionInv, page # <<>>
  PROVE  /\ <<Head(page)>> \in Seq(ResourcesOf(Keys)) /\ <<Head(page)>> # <<>>
         /\ Tail(page) \in Seq(ResourcesOf(Keys))
         /\ page = <<Head(page)>> \o Tail(page)
         /\ Append(given, Head(page)) = given \o <<Head(page)>>
         /\ page \in Seq(ResourcesOf(Keys)) /\ page = page \o <<>>
<1>1. page \in Seq(ResourcesOf(Keys)) /\ given \in Seq(ResourcesOf(Keys))
  BY DEF CollectionInv, TypeOK
<1>2. Head(page) \in ResourcesOf(Keys) /\ Tail(page) \in Seq(ResourcesOf(Keys))
  BY <1>1, HeadTailProperties
<1>3. Append(given, Head(page)) = given \o <<Head(page)>>
  BY <1>1, <1>2, AppendIsConcat
<1>4. page = page \o <<>>
  BY <1>1, ConcatEmptySeq
<1>5. page = <<Head(page)>> \o Tail(page)
  <2> DEFINE h == <<Head(page)>>
             t == Tail(page)
             u == h \o t
  <2>1. /\ h \in Seq(ResourcesOf(Keys)) /\ Len(h) = 1 /\ h[1] = page[1]
        /\ t \in Seq(ResourcesOf(Keys)) /\ Len(t) = Len(page) - 1 /\ Len(page) \in Nat
        /\ \A i \in 1..Len(t) : t[i] = page[i + 1]
    BY <1>1, <1>2, HeadTailProperties
  <2> HIDE DEF h, t
  <2>2. /\ u \in Seq(ResourcesOf(Keys)) /\ Len(u) = Len(page)
        /\ \A i \in 1..Len(page) : u[i] = IF i <= 1 THEN h[i] ELSE t[i - 1]
    <3>1. /\ u \in Seq(ResourcesOf(Keys)) /\ Len(u) = Len(h) + Len(t)
          /\ \A i \in 1..(Len(h) + Len(t)) : u[i] = IF i <= Len(h) THEN h[i] ELSE t[i - Len(h)]
      <4>1. \A S : \A x, y \in Seq(S) :
               /\ x \o y \in Seq(S) /\ Len(x \o y) = Len(x) + Len(y)
               /\ \A i \in 1..(Len(x) + Len(y)) :
                     (x \o y)[i] = IF i <= Len(x) THEN x[i] ELSE y[i - Len(x)]
        BY ConcatProperties
      <4>2. h \in Seq(ResourcesOf(Keys)) /\ t \in Seq(ResourcesOf(Keys))
        BY <2>1
      <4> QED
        BY <4>1, <4>2, Zenon
    <3>2. Len(h) + Len(t) = Len(page)
      BY <2>1
    <3> QED
      BY <2>1, <3>1, <3>2
  <2> HIDE DEF u
  <2>3. \A i \in 1..Len(page) : u[i] = page[i]
    <3> SUFFICES ASSUME NEW i \in 1..Len(page) PROVE u[i] = page[i]
      OBVIOUS
    <3>1. CASE i = 1
      BY <2>1, <2>2, <3>1
    <3>2. CASE i # 1
      <4>1. i - 1 \in 1..Len(t) /\ (i - 1) + 1 = i /\ ~(i <= 1)
        BY <2>1, <3>2
      <4> QED
        BY <2>1, <2>2, <4>1
    <3> QED
      BY <3>1, <3>2
  <2>4. u = page
    BY <1>1, <2>2, <2>3, SeqEqual
  <2> QED
    BY <2>4 DEF u, h, t
<1> QED
  BY <1>1, <1>2, <1>3, <1>4, <1>5

LEMMA YieldItemInv ==
  ASSUME CollectionInv, YieldItem
  PROVE  CollectionInv'
<1>1. /\ use = "iteration" /\ step = "using" /\ outcome = "running" /\ page # <<>>
      /\ given' = Append(given, Head(page)) /\ page' = Tail(page) /\ step' = "yielded"
      /\ UNCHANGED <<asked, service, paginator, count, outcome>>
  BY DEF YieldItem
<1>2. /\ given' \in Seq(ResourcesOf(Keys)) /\ page' \in Seq(ResourcesOf(Keys))
      /\ count = Len(page') + Len(given')
      /\ Promised!Increasing(given' \o page') /\ Held' = Held
      /\ ToSet(given) \subseteq ToSet(given') /\ given' # <<>>
  <2>1. given' = given \o <<Head(page)>>
    BY <1>1, HeadAndTail
  <2> QED
    BY <1>1, <2>1, HeadAndTail, GivenOut
<1>3. UNCHANGED <<seen, lasting, changes, listing>>
  BY <1>1 DEF service
<1>4. StepInv'
  BY <1>1, <1>2 DEF CollectionInv, StepInv, asked, paginator
<1>5. outcome' \in {"running", "returned", "raised"} /\ listing \ listing' = {}
  BY <1>1, <1>3
<1> QED
  BY <1>1, <1>2, <1>3, <1>4, <1>5, NothingRead

LEMMA StartBatchInv ==
  ASSUME CollectionInv, StartBatch
  PROVE  CollectionInv'
<1>1. /\ use = "batch" /\ step = "using" /\ outcome = "running" /\ page # <<>>
      /\ given' = given \o page /\ page' = <<>> /\ step' = "acting"
      /\ UNCHANGED <<asked, service, paginator, count, outcome>>
  BY DEF StartBatch
<1>2. /\ given' \in Seq(ResourcesOf(Keys)) /\ page' \in Seq(ResourcesOf(Keys))
      /\ count = Len(page') + Len(given')
      /\ Promised!Increasing(given' \o page') /\ Held' = Held
      /\ ToSet(given) \subseteq ToSet(given') /\ given' # <<>>
  <2>1. <<>> \in Seq(ResourcesOf(Keys))
    OBVIOUS
  <2> QED
    BY <1>1, <2>1, HeadAndTail, GivenOut
<1>3. UNCHANGED <<seen, lasting, changes, listing>>
  BY <1>1 DEF service
<1>4. StepInv'
  BY <1>1, <1>2 DEF CollectionInv, StepInv, asked, paginator
<1>5. outcome' \in {"running", "returned", "raised"} /\ listing \ listing' = {}
  BY <1>1, <1>3
<1> QED
  BY <1>1, <1>2, <1>3, <1>4, <1>5, NothingRead

\* The other steps of the call move no resource.
LEMMA OtherStepsInv ==
  ASSUME CollectionInv,
         ReadRaises \/ Resume \/ PageDone \/ BatchOfNone \/ BatchReturns \/ BatchRaises
  PROVE  CollectionInv'
<1>1. UNCHANGED <<asked, paginator, count, page, given, seen, lasting, changes>>
  BY DEF ReadRaises, Resume, PageDone, BatchOfNone, BatchReturns, BatchRaises, ServiceActs, service
<1>2. /\ listing' \subseteq listing
      /\ \A k \in listing \ listing' : ToSet(Resource(k)) \subseteq ToSet(given')
  <2>1. CASE listing' = listing
    BY <2>1
  <2>2. CASE ServiceActs
    BY <1>1, <2>2 DEF ServiceActs
  <2> QED
    BY <2>1, <2>2
       DEF ReadRaises, Resume, PageDone, BatchOfNone, BatchReturns, BatchRaises, service
<1>3. /\ step' \in {"asking", "using", "yielded", "acting"}
      /\ outcome' \in {"running", "returned", "raised"}
  <2>1. /\ step \in {"asking", "using", "yielded", "acting"}
        /\ outcome \in {"running", "returned", "raised"}
    BY DEF CollectionInv, TypeOK
  <2> QED
    BY <2>1 DEF ReadRaises, Resume, PageDone, BatchOfNone, BatchReturns, BatchRaises,
                NextPage, NothingToDo
<1>4. StepInv'
  <2>1. StepInv /\ use' = use /\ paginated' = paginated /\ last' = last /\ token' = token
        /\ elements' = elements /\ empties' = empties
    BY <1>1 DEF CollectionInv, asked, paginator
  <2>2. CASE step' = step
    BY <1>1, <2>1, <2>2 DEF StepInv
  <2>3. CASE step = "yielded" /\ step' = "using"
    BY <1>1, <2>1, <2>3 DEF StepInv
  <2>4. CASE ~last /\ page = <<>> /\ step' = "asking"
    BY <1>1, <2>1, <2>4 DEF StepInv
  <2>5. step = "acting" => page = <<>>
    BY <2>1 DEF StepInv
  <2> QED
    BY <2>2, <2>3, <2>4, <2>5
       DEF ReadRaises, Resume, PageDone, BatchOfNone, BatchReturns, BatchRaises,
           NextPage, NothingToDo
<1>5. /\ page' \in Seq(ResourcesOf(Keys)) /\ given' \in Seq(ResourcesOf(Keys))
      /\ count = Len(page') + Len(given')
  BY <1>1 DEF CollectionInv, TypeOK
<1>6. /\ Promised!Increasing(given' \o page') /\ Held' = Held
      /\ ToSet(given) \subseteq ToSet(given')
  BY <1>1 DEF CollectionInv, OrderInv, Held
<1> QED
  BY <1>1, <1>2, <1>3, <1>4, <1>5, <1>6, NothingRead

LEMMA OthersChangeInv ==
  ASSUME CollectionInv, OthersChange
  PROVE  CollectionInv'
<1>1. /\ changes < MaxChanges /\ changes' = changes + 1
      /\ seen' = seen \cup listing' /\ lasting' = lasting \ (listing \ listing')
      /\ use' = use /\ paginated' = paginated /\ limit' = limit /\ token' = token
      /\ elements' = elements /\ empties' = empties /\ last' = last /\ step' = step
      /\ count' = count /\ page' = page /\ given' = given /\ outcome' = outcome
  BY DEF OthersChange, asked, paginator
<1>2. listing' \subseteq Keys
  <2>1. listing \subseteq Keys
    BY DEF CollectionInv, TypeOK
  <2>2. PICK k \in Keys : listing' = listing \cup {k} \/ listing' = listing \ {k}
    BY DEF OthersChange
  <2> QED
    BY <2>1, <2>2
<1>3. AtMost' = AtMost /\ Full' = Full /\ Held' = Held
  BY <1>1 DEF AtMost, Full, Held
<1>4. TypeOK'
  <2>1. changes' \in 0..MaxChanges
    BY <1>1, BoundsAssumption DEF CollectionInv, TypeOK
  <2>2. lasting' \subseteq seen' /\ listing' \subseteq seen' /\ seen' \subseteq Keys
    BY <1>1, <1>2 DEF CollectionInv, TypeOK
  <2> QED
    BY <1>1, <2>1, <2>2 DEF CollectionInv, TypeOK
<1>5. StepInv'
  BY <1>1 DEF CollectionInv, StepInv
<1>6. LimitInv'
  BY <1>1, <1>3 DEF CollectionInv, LimitInv
<1>7. OrderInv'
  <2>1. {k \in seen : k <= token} \subseteq {k \in seen' : k <= token}
    BY <1>1
  <2>2. ResourcesOf({k \in seen : k <= token}) \subseteq ResourcesOf({k \in seen' : k <= token})
    BY <2>1, ResourcesOfUnion
  <2> QED
    BY <1>1, <1>3, <2>2 DEF CollectionInv, OrderInv
<1>8. ReachInv'
  <2>1. /\ lasting' \subseteq lasting
        /\ \A k \in lasting' \ listing' : k \in lasting \ listing
    BY <1>1
  <2> QED
    BY <1>1, <1>3, <2>1 DEF CollectionInv, ReachInv
<1> QED
  BY <1>4, <1>5, <1>6, <1>7, <1>8 DEF CollectionInv

(* Whatever the bounds, an iteration is where its step says, keeps the limit *)
(* it counts resources by, has given out and holds resources of listed keys  *)
(* in order and none twice, and has missed none of those that stayed.        *)
THEOREM CollectionInvariant == Spec => []CollectionInv
<1>1. Init => CollectionInv
  BY InitInv
<1>2. CollectionInv /\ [Next]_vars => CollectionInv'
  <2> SUFFICES ASSUME CollectionInv, [Next]_vars PROVE CollectionInv'
    OBVIOUS
  <2>1. CASE ReadPage
    BY <2>1, ReadPageInv
  <2>2. CASE YieldItem
    BY <2>2, YieldItemInv
  <2>3. CASE StartBatch
    BY <2>3, StartBatchInv
  <2>4. CASE ReadRaises \/ Resume \/ PageDone \/ BatchOfNone \/ BatchReturns \/ BatchRaises
    BY <2>4, OtherStepsInv
  <2>5. CASE OthersChange
    BY <2>5, OthersChangeInv
  <2>6. CASE UNCHANGED vars
    BY <2>6 DEF vars, asked, service, paginator, CollectionInv, TypeOK, StepInv, LimitInv,
                OrderInv, ReachInv, Full, Held, AtMost
  <2> QED
    BY <2>1, <2>2, <2>3, <2>4, <2>5, <2>6 DEF Next, Call
<1> QED
  BY <1>1, <1>2, PTL DEF Spec

(* The state is well typed: among others, the resources counted are those    *)
(* given out and those at hand, and never more keys are counted than there   *)
(* are.                                                                      *)
THEOREM TypeCorrect == Spec => []TypeOK
<1>1. CollectionInv => TypeOK
  BY DEF CollectionInv
<1> QED
  BY <1>1, CollectionInvariant, PTL

-----------------------------------------------------------------------------
(* An iteration keeps the promise of an enumeration.                         *)

\* What the caller is told.
Ending ==
    CASE outcome = "running" -> "running"
      [] outcome # "running" /\ (outcome = "raised" \/ CutShort) -> "abandoned"
      [] OTHER -> "complete"

LEMMA EndingIs ==
  /\ outcome = "running" => Ending = "running"
  /\ outcome = "raised" => Ending = "abandoned"
  /\ outcome = "returned" /\ CutShort => Ending = "abandoned"
  /\ outcome = "returned" /\ ~CutShort => Ending = "complete"
BY DEF Ending

LEMMA NothingGiven ==
  ASSUME UNCHANGED <<asked, seen, lasting, given, outcome, empties>>
  PROVE  UNCHANGED Promised!vars
BY DEF asked, Promised!vars, AtMost, CutShort

LEMMA SomethingGiven ==
  ASSUME CollectionInv, outcome = "running",
         UNCHANGED <<asked, seen, lasting, outcome>>,
         Promised!Increasing(given'), IsStrictPrefix(given, given'), ToSet(given') \subseteq Held,
         Len(given') \in Nat, Len(given') <= count
  PROVE  Promised!Give
<1>1. AtMost' = AtMost
  BY DEF asked, AtMost
<1>2. Promised!WithinLimit(given')
  <2>1. AtMost # None => count <= AtMost /\ AtMost \in Nat
    BY LimitsAssumption DEF CollectionInv, TypeOK, LimitInv, AtMost
  <2>2. count \in Nat
    BY ListsOfNumbers
  <2> QED
    BY <2>1, <2>2 DEF Promised!WithinLimit
<1>3. ToSet(given') \subseteq ResourcesOf(seen)
  <2>1. ResourcesOf({k \in seen : k <= token}) \subseteq ResourcesOf(seen)
    <3>1. {k \in seen : k <= token} \subseteq seen
      OBVIOUS
    <3> QED
      BY <3>1, ResourcesOfUnion
  <2> QED
    BY <2>1 DEF CollectionInv, OrderInv
<1>4. Ending = "running" /\ Ending' = "running"
  BY DEF Ending
<1>5. UNCHANGED <<AtMost, ResourcesOf(seen), ResourcesOf(lasting), Ending>>
  BY <1>1, <1>4
<1> QED
  BY <1>2, <1>3, <1>4, <1>5, Zenon
     DEF Promised!Give, Ending, ToSet, Promised!ToSet, IsStrictPrefix, IsPrefix,
         Promised!IsStrictPrefix, Promised!IsPrefix

\* At the end of the last page everything that stayed was given out.
LEMMA EverythingGiven ==
  ASSUME CollectionInv, last, page = <<>>
  PROVE  Len(given) = AtMost \/ ResourcesOf(lasting) \subseteq ToSet(given)
<1>1. CASE Full
  <2>1. count = Len(given)
    BY ListsOfNumbers
  <2> QED
    BY <1>1, <2>1 DEF Full
<1>2. CASE ~Full
  <2>1. ASSUME NEW k \in lasting PROVE ToSet(Resource(k)) \subseteq ToSet(given)
    <3>1. ToSet(Resource(k)) \subseteq Held
      BY <1>2 DEF CollectionInv, ReachInv
    <3>2. Held = ToSet(given)
      BY DEF Held, ToSet
    <3> QED
      BY <3>1, <3>2
  <2> QED
    BY <2>1 DEF ResourcesOf
<1> QED
  BY <1>1, <1>2

LEMMA Returned ==
  ASSUME outcome = "running", outcome' = "returned",
         UNCHANGED <<asked, seen, lasting, given, empties>>,
         CutShort \/ Len(given) = AtMost \/ ResourcesOf(lasting) \subseteq ToSet(given)
  PROVE  Promised!Complete \/ Promised!Abandon
<1>1. AtMost' = AtMost /\ CutShort' = CutShort
  BY DEF asked, AtMost, CutShort
<1>2. Ending = "running"
  BY DEF Ending
<1>3. CASE CutShort
  <2>1. Ending' = "abandoned"
    BY <1>1, <1>3 DEF Ending
  <2> QED
    BY <1>1, <1>2, <2>1 DEF Promised!Abandon, Ending
<1>4. CASE ~CutShort
  <2>1. Ending' = "complete"
    BY <1>1, <1>4 DEF Ending
  <2>2. UNCHANGED <<AtMost, ResourcesOf(seen), ResourcesOf(lasting), given>>
    BY <1>1
  <2>3. Len(given) = AtMost \/ ResourcesOf(lasting) \subseteq ToSet(given)
    BY <1>4
  <2> QED
    BY <1>2, <2>1, <2>2, <2>3, Zenon DEF Promised!Complete, Ending, ToSet, Promised!ToSet
<1> QED
  BY <1>3, <1>4

LEMMA Raised ==
  ASSUME outcome = "running", outcome' = "raised",
         UNCHANGED <<asked, seen, lasting, given>>
  PROVE  Promised!Abandon
<1>1. AtMost' = AtMost
  BY DEF asked, AtMost
<1>2. Ending = "running" /\ Ending' = "abandoned"
  BY DEF Ending
<1> QED
  BY <1>1, <1>2 DEF Promised!Abandon, Ending

LEMMA InitPromised ==
  ASSUME Init
  PROVE  Promised!Init
<1>1. AtMost \in Nat \cup {None}
  BY LimitsAssumption DEF Init, AtMost
<1>2. lasting = seen /\ given = <<>> /\ outcome = "running" /\ seen \subseteq Keys
  BY DEF Init
<1>3. ResourcesOf(seen) \subseteq ResourcesOf(Keys)
  BY <1>2, ResourcesOfUnion
<1> QED
  BY <1>1, <1>2, <1>3 DEF Promised!Init

LEMMA CallPromised ==
  ASSUME CollectionInv, Call
  PROVE  [Promised!Next]_Promised!vars
<1>1. CASE ReadPage
  <2>1. UNCHANGED <<asked, seen, lasting, given>> /\ outcome = "running" /\ outcome' = "running"
    BY <1>1 DEF ReadPage, service
  <2>2. AtMost' = AtMost /\ Ending = "running" /\ Ending' = "running"
    BY <2>1 DEF asked, AtMost, Ending
  <2> QED
    BY <2>1, <2>2 DEF Promised!vars, Ending
<1>2. CASE YieldItem
  <2>1. /\ page # <<>> /\ outcome = "running" /\ page' = Tail(page)
        /\ UNCHANGED <<asked, seen, lasting, outcome>>
    BY <1>2 DEF YieldItem, service
  <2>2. given' = given \o <<Head(page)>>
    BY <1>2, <2>1, HeadAndTail DEF YieldItem
  <2>3. /\ Promised!Increasing(given') /\ IsStrictPrefix(given, given')
        /\ ToSet(given') \subseteq Held /\ Len(given') \in Nat /\ Len(given') <= count
    BY <2>1, <2>2, HeadAndTail, GivenOut
  <2> QED
    BY <2>1, <2>3, SomethingGiven DEF Promised!Next
<1>3. CASE StartBatch
  <2>1. /\ page # <<>> /\ outcome = "running" /\ page' = <<>> /\ given' = given \o page
        /\ UNCHANGED <<asked, seen, lasting, outcome>>
    BY <1>3 DEF StartBatch, service
  <2>2. <<>> \in Seq(ResourcesOf(Keys))
    OBVIOUS
  <2>3. /\ Promised!Increasing(given') /\ IsStrictPrefix(given, given')
        /\ ToSet(given') \subseteq Held /\ Len(given') \in Nat /\ Len(given') <= count
    BY <2>1, <2>2, HeadAndTail, GivenOut
  <2> QED
    BY <2>1, <2>3, SomethingGiven DEF Promised!Next
<1>4. CASE ReadRaises \/ BatchRaises
  <2>1. outcome = "running" /\ outcome' = "raised" /\ UNCHANGED <<asked, seen, lasting, given>>
    BY <1>4 DEF ReadRaises, BatchRaises, ServiceActs, service
  <2> QED
    BY <2>1, Raised DEF Promised!Next
<1>5. CASE Resume
  <2>1. /\ UNCHANGED <<asked, seen, lasting, given, empties>> /\ outcome = "running"
        /\ given # <<>>
    BY <1>5 DEF Resume, service, paginator, CollectionInv, StepInv
  <2>2. CASE Reached(Len(given))
    <3>1. /\ Len(given) \in Nat /\ Len(given) <= count /\ Len(given) # 0
          /\ count \in Nat /\ count <= AtMost
      <4>1. /\ given \in Seq(Nat) /\ Len(given) \in Nat /\ Len(page) \in Nat
            /\ count = Len(page) + Len(given)
        BY ListsOfNumbers
      <4>2. Len(given) # 0
        BY <2>1, <4>1
      <4>3. AtMost # None
        BY <2>2, LimitsAssumption DEF Reached, AtMost
      <4> QED
        BY <4>1, <4>2, <4>3 DEF CollectionInv, LimitInv
    <3>2. limit \in Nat /\ Len(given) >= limit
      BY <2>2, LimitsAssumption DEF Reached, CollectionInv, TypeOK
    <3>3. Len(given) = AtMost
      <4>1. CASE limit = 0 /\ ~paginated
        <5>1. AtMost = 1
          BY <4>1 DEF AtMost
        <5>2. count <= 1
          BY <3>1, <5>1
        <5>3. \A m, n \in Nat : m <= n /\ n <= 1 /\ m # 0 => m = 1
          OBVIOUS
        <5> QED
          BY <3>1, <5>1, <5>2, <5>3
      <4>2. CASE ~(limit = 0 /\ ~paginated)
        <5>1. AtMost = limit
          BY <4>2 DEF AtMost
        <5> QED
          BY <3>1, <3>2, <5>1
      <4> QED
        BY <4>1, <4>2
    <3>4. outcome' = "returned"
      BY <1>5, <2>2 DEF Resume
    <3> QED
      BY <2>1, <3>3, <3>4, Returned DEF Promised!Next
  <2>3. CASE ~Reached(Len(given))
    <3>1. UNCHANGED outcome
      BY <1>5, <2>3 DEF Resume
    <3> QED
      BY <2>1, <3>1, NothingGiven
  <2> QED
    BY <2>2, <2>3
<1>6. CASE PageDone \/ BatchOfNone \/ BatchReturns
  <2>1. /\ UNCHANGED <<asked, seen, lasting, given, empties>> /\ outcome = "running"
        /\ page = <<>>
    BY <1>6 DEF PageDone, BatchOfNone, BatchReturns, ServiceActs, service, paginator,
                CollectionInv, StepInv
  <2>2. \/ outcome' = "returned" /\ (last \/ CutShort)
        \/ outcome' = outcome
    <3>1. empties \in Nat
      BY BoundsAssumption DEF CollectionInv, TypeOK
    <3>2. BatchOfNone => last \/ CutShort
      BY DEF BatchOfNone, CollectionInv, StepInv, CutShort
    <3> QED
      BY <1>6, <3>2 DEF PageDone, BatchOfNone, BatchReturns, NextPage, NothingToDo
  <2>3. CASE outcome' = outcome
    BY <2>1, <2>3, NothingGiven
  <2>4. CASE outcome' = "returned" /\ (last \/ CutShort)
    <3>1. CutShort \/ Len(given) = AtMost \/ ResourcesOf(lasting) \subseteq ToSet(given)
      BY <2>1, <2>4, EverythingGiven
    <3> QED
      BY <2>1, <2>4, <3>1, Returned DEF Promised!Next
  <2> QED
    BY <2>2, <2>3, <2>4
<1> QED
  BY <1>1, <1>2, <1>3, <1>4, <1>5, <1>6 DEF Call

LEMMA OthersPromised ==
  ASSUME CollectionInv, OthersChange
  PROVE  Promised!Change
<1>1. /\ seen \subseteq seen' /\ lasting' \subseteq lasting
      /\ UNCHANGED <<asked, given, outcome, empties>>
  BY DEF OthersChange, paginator
<1>2. seen' \subseteq Keys
  BY OthersChangeInv DEF CollectionInv, TypeOK
<1>3. /\ ResourcesOf(seen) \subseteq ResourcesOf(seen') /\ ResourcesOf(seen') \subseteq ResourcesOf(Keys)
      /\ ResourcesOf(lasting') \subseteq ResourcesOf(lasting)
  BY <1>1, <1>2, ResourcesOfUnion
<1>4. UNCHANGED <<AtMost, given, outcome, CutShort>>
  BY <1>1 DEF asked, AtMost, CutShort
<1> QED
  BY <1>3, <1>4 DEF Promised!Change

(* However the listing changes between the pages, no resource is yielded or  *)
(* acted on twice or out of order, the limit is kept although the paginator  *)
(* counts keys and the code counts resources, and a call that returns has    *)
(* reached everything that was listed throughout, up to the limit, or has    *)
(* been stopped by an empty page.                                            *)
THEOREM ImplementsEnumeration == Spec => RefinesEnumeration
<1>1. Init => Promised!Init
  BY InitPromised
<1>2. CollectionInv /\ [Next]_vars => [Promised!Next]_Promised!vars
  <2> SUFFICES ASSUME CollectionInv, [Next]_vars PROVE [Promised!Next]_Promised!vars
    OBVIOUS
  <2>1. CASE Call
    BY <2>1, CallPromised
  <2>2. CASE OthersChange
    BY <2>2, OthersPromised DEF Promised!Next
  <2>3. CASE UNCHANGED vars
    BY <2>3, NothingGiven DEF vars, service, paginator
  <2> QED
    BY <2>1, <2>2, <2>3 DEF Next
<1> QED
  BY <1>1, <1>2, CollectionInvariant, PTL DEF Spec, RefinesEnumeration, Promised!Spec

-----------------------------------------------------------------------------
(* An iteration is bounded.                                                  *)

\* Keys to read, empty pages to come, and the last page.
Unread == Cardinality(Keys) - elements + MaxEmpty - empties + (IF last THEN 0 ELSE 1)

\* How many steps the call takes at most: eight for each key, for each empty
\* page and for the last one, two for each resource at hand, and a few.
StepRank == CASE step = "asking" -> 0 [] step = "using" -> 1 [] OTHER -> 2

Rank == 8 * Unread + 2 * Len(page) + StepRank + (IF outcome = "running" THEN 1 ELSE 0)

LEMMA RankIsNatural ==
  ASSUME CollectionInv
  PROVE  Rank \in Nat /\ Unread \in Nat /\ StepRank \in 0..2 /\ Len(page) \in Nat
<1>1. /\ elements \in 0..Cardinality(Keys) /\ Cardinality(Keys) \in Nat
      /\ empties \in 0..MaxEmpty /\ MaxEmpty \in Nat /\ last \in BOOLEAN
  BY KeysAssumption, BoundsAssumption, FS_CardinalityType DEF CollectionInv, TypeOK
<1>2. Unread \in Nat
  BY <1>1 DEF Unread
<1>3. StepRank \in 0..2
  BY DEF StepRank, CollectionInv, TypeOK
<1>4. Len(page) \in Nat
  BY ListsOfNumbers
<1> QED
  BY <1>2, <1>3, <1>4 DEF Rank

LEMMA UnreadFalls ==
  ASSUME NEW N \in Nat, NEW M \in Nat, NEW x \in Nat, NEW m \in Nat, NEW c \in Nat,
         NEW e \in {m, m + 1}, NEW b \in {0, 1}
  PROVE  /\ N - x + M - m + 1 \in Int /\ N - (x + c) + M - e + b \in Int
         /\ N - (x + c) + M - e + b <= N - x + M - m + 1 - c
         /\ (c = 0 /\ (b = 0 \/ e = m + 1))
            => N - (x + c) + M - e + b <= N - x + M - m + 1 - 1
OBVIOUS

LEMMA ReadPageDescends ==
  ASSUME CollectionInv, ReadPage
  PROVE  Rank' < Rank
<1>1. PICK K : PageOf(K)
  BY PageRead
<1>2. /\ step = "asking" /\ outcome = "running" /\ step' = "using" /\ outcome' = "running"
      /\ page = <<>> /\ ~last
  BY DEF ReadPage, CollectionInv, StepInv
<1>3. /\ elements \in Nat /\ empties \in Nat /\ Cardinality(Keys) \in Nat /\ MaxEmpty \in Nat
      /\ last \in BOOLEAN
  BY KeysAssumption, BoundsAssumption, FS_CardinalityType DEF CollectionInv, TypeOK
<1> DEFINE c == Cardinality(K)
<1>4. /\ c \in Nat /\ elements' = elements + c /\ empties' \in {empties, empties + 1}
      /\ Len(page') \in Nat /\ Len(page') <= 2 * c /\ last' \in BOOLEAN
  BY <1>1 DEF PageOf
<1>5. c = 0 => last' \/ empties' = empties + 1
  <2>1. IsFiniteSet(K)
    <3>1. K \subseteq Ahead /\ IsFiniteSet(Ahead)
      BY <1>1, AheadIsFinite DEF PageOf
    <3> QED
      BY <3>1, FS_Subset
  <2>2. c = 0 => K = {}
    BY <2>1, FS_EmptySet
  <2> QED
    BY <1>1, <2>2 DEF PageOf
<1> HIDE DEF c
<1> DEFINE w  == Unread
           w1 == Unread'
<1>6. w \in Int /\ w1 \in Int /\ w1 <= w - c /\ (c = 0 => w1 <= w - 1)
  <2>1. w = Cardinality(Keys) - elements + MaxEmpty - empties + 1
    BY <1>2 DEF Unread
  <2> DEFINE b == IF last' THEN 0 ELSE 1
             e == empties'
  <2>2. w1 = Cardinality(Keys) - (elements + c) + MaxEmpty - e + b
    BY <1>4 DEF Unread
  <2>3. /\ b \in {0, 1} /\ e \in {empties, empties + 1}
        /\ c = 0 => b = 0 \/ e = empties + 1
    BY <1>4, <1>5
  <2>4. /\ c \in Nat /\ Cardinality(Keys) \in Nat /\ elements \in Nat /\ MaxEmpty \in Nat
        /\ empties \in Nat
    BY <1>3, <1>4
  <2> HIDE DEF w, w1, b, e
  <2>5. /\ w \in Int /\ w1 \in Int /\ w1 <= w - c
        /\ (c = 0 /\ (b = 0 \/ e = empties + 1)) => w1 <= w - 1
    BY <2>1, <2>2, <2>3, <2>4, UnreadFalls
  <2> QED
    BY <2>3, <2>5
<1>7. Rank = 8 * w + 1
  <2>1. Len(page) = 0 /\ StepRank = 0
    BY <1>2 DEF StepRank
  <2> HIDE DEF w
  <2> QED
    BY <1>2, <1>6, <2>1 DEF Rank, w
<1>8. Rank' = 8 * w1 + 2 * Len(page') + 2
  <2>1. StepRank' = 1
    BY <1>2 DEF StepRank
  <2> HIDE DEF w1
  <2> QED
    BY <1>2, <1>4, <1>6, <2>1 DEF Rank, w1
<1> HIDE DEF w, w1
<1> QED
  BY <1>4, <1>6, <1>7, <1>8

LEMMA CallDescends ==
  ASSUME CollectionInv, Call
  PROVE  Rank' < Rank
<1>1. CASE ReadPage
  BY <1>1, ReadPageDescends
<1>2. CASE ~ReadPage
  <2>1. UNCHANGED paginator
    BY <1>2 DEF Call, ReadRaises, YieldItem, Resume, PageDone, BatchOfNone, StartBatch,
                BatchReturns, BatchRaises
  <2>2. Unread' = Unread
    BY <2>1 DEF Unread, paginator
  <2>3. Unread \in Nat /\ Len(page) \in Nat /\ StepRank \in 0..2
    BY RankIsNatural
  <2>4. outcome = "running"
    BY <1>2 DEF Call, ReadRaises, YieldItem, Resume, PageDone, BatchOfNone, StartBatch,
                BatchReturns, BatchRaises
  <2>5. CASE page' = page /\ step' = step /\ outcome' # "running"
    <3>1. StepRank' = StepRank
      BY <2>5 DEF StepRank
    <3> HIDE DEF Unread, StepRank
    <3> QED
      BY <2>2, <2>3, <2>4, <2>5, <3>1 DEF Rank
  <2>6. CASE YieldItem
    <3>1. /\ page # <<>> /\ page' = Tail(page) /\ step = "using" /\ step' = "yielded"
          /\ outcome' = "running"
      BY <2>4, <2>6 DEF YieldItem
    <3>2. Len(page') = Len(page) - 1
      BY <3>1, ListsOfNumbers, HeadTailProperties
    <3>3. StepRank = 1 /\ StepRank' = 2
      BY <3>1 DEF StepRank
    <3> HIDE DEF Unread, StepRank
    <3> QED
      BY <2>2, <2>3, <2>4, <3>1, <3>2, <3>3 DEF Rank
  <2>7. CASE StartBatch
    <3>1. /\ page # <<>> /\ page' = <<>> /\ step = "using" /\ step' = "acting"
          /\ outcome' = "running"
      BY <2>4, <2>7 DEF StartBatch
    <3>2. Len(page') = 0 /\ Len(page) >= 1
      <4>1. page \in Seq(Nat) /\ Len(page) \in Nat
        BY ListsOfNumbers
      <4> QED
        BY <3>1, <4>1
    <3>3. StepRank = 1 /\ StepRank' = 2
      BY <3>1 DEF StepRank
    <3> HIDE DEF Unread, StepRank
    <3> QED
      BY <2>2, <2>3, <2>4, <3>1, <3>2, <3>3 DEF Rank
  <2>8. CASE /\ page' = page /\ outcome' = "running"
             /\ \/ step = "yielded" /\ step' = "using"
                \/ step \in {"using", "acting"} /\ step' = "asking"
    <3>1. StepRank' < StepRank /\ StepRank' \in Nat
      BY <2>8 DEF StepRank
    <3> HIDE DEF Unread, StepRank
    <3> QED
      BY <2>2, <2>3, <2>4, <2>8, <3>1 DEF Rank
  <2>9. CASE ReadRaises \/ Resume \/ PageDone \/ BatchOfNone \/ BatchReturns \/ BatchRaises
    <3>1. \/ page' = page /\ step' = step /\ outcome' # "running"
          \/ /\ page' = page /\ outcome' = "running"
             /\ \/ step = "yielded" /\ step' = "using"
                \/ step \in {"using", "acting"} /\ step' = "asking"
      BY <2>4, <2>9 DEF ReadRaises, Resume, PageDone, BatchOfNone, BatchReturns, BatchRaises,
                        NextPage, NothingToDo
    <3> QED
      BY <2>5, <2>8, <3>1
  <2> QED
    BY <1>2, <2>6, <2>7, <2>9 DEF Call
<1> QED
  BY <1>1, <1>2

(* Every iteration is bounded, whatever others do to the listing meanwhile:  *)
(* each step of the call lowers Rank, and a change by another client leaves  *)
(* it.  No assumption of fairness is made.                                   *)
THEOREM IterationIsBounded ==
  Spec => [](Rank \in Nat) /\ [][Rank' < Rank \/ (OthersChange /\ Rank' = Rank)]_vars
<1>1. CollectionInv => Rank \in Nat
  BY RankIsNatural
<1>2. CollectionInv /\ [Next]_vars
      => [Rank' < Rank \/ (OthersChange /\ Rank' = Rank)]_vars
  <2> SUFFICES ASSUME CollectionInv, Next
               PROVE  Rank' < Rank \/ (OthersChange /\ Rank' = Rank)
    OBVIOUS
  <2>1. CASE Call
    BY <2>1, CallDescends
  <2>2. CASE OthersChange
    BY <2>2 DEF OthersChange, Rank, Unread, StepRank, paginator
  <2> QED
    BY <2>1, <2>2 DEF Next
<1> QED
  BY <1>1, <1>2, CollectionInvariant, PTL DEF Spec

=============================================================================
