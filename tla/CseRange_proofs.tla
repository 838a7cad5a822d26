---------------------------- MODULE CseRange_proofs ----------------------------
(****************************************************************************)
(* What get_object of an encrypted object guarantees for any cipher block,   *)
(* any object shorter than the largest Java long, and any range.             *)
(****************************************************************************)
EXTENDS CseRange, TLAPS

-----------------------------------------------------------------------------
(* Arithmetic.                                                               *)

(* The larger and the smaller of two numbers.                                *)
LEMMA MaxMin ==
  \A a, b \in Int : /\ Max({a, b}) = IF a >= b THEN a ELSE b
                    /\ Min({a, b}) = IF a <= b THEN a ELSE b
<1> SUFFICES ASSUME NEW a \in Int, NEW b \in Int
             PROVE  /\ Max({a, b}) = IF a >= b THEN a ELSE b
                    /\ Min({a, b}) = IF a <= b THEN a ELSE b
  OBVIOUS
<1>1. \A x \in {a, b} : (\A y \in {a, b} : x >= y) => x = IF a >= b THEN a ELSE b
  OBVIOUS
<1>2. \E x \in {a, b} : \A y \in {a, b} : x >= y
  OBVIOUS
<1>3. \A x \in {a, b} : (\A y \in {a, b} : x =< y) => x = IF a <= b THEN a ELSE b
  OBVIOUS
<1>4. \E x \in {a, b} : \A y \in {a, b} : x =< y
  OBVIOUS
<1> QED
  BY <1>1, <1>2, <1>3, <1>4 DEF Max, Min

(* Sizes of blocks: the tag is one block long.                               *)
LEMMA Blocks ==
  /\ AES_BLOCK_SIZE_BYTES \in Nat \ {0} /\ AES_BLOCK_SIZE \in Nat \ {0}
  /\ AES_BLOCK_SIZE = 8 * AES_BLOCK_SIZE_BYTES
  /\ TagLength = AES_BLOCK_SIZE_BYTES
  /\ JAVA_LONG_MAX_VALUE \in Nat /\ JAVA_LONG_MAX_VALUE >= AES_BLOCK_SIZE
<1>1. \A b \in Nat : (8 * b) \div 8 = b
  OBVIOUS
<1> QED
  BY <1>1, BlockAssumption, BoundsAssumption, LongAssumption DEF TagLength

(* The bounds of the range that is sent lie around those asked for: a lower  *)
(* bound that is not the start is at least a block before, an upper bound    *)
(* that is not the largest number more than a block after.                   *)
LEMMA BoundsAround ==
  ASSUME NEW v \in Nat, v <= JAVA_LONG_MAX_VALUE
  PROVE  /\ LowerBound(v) \in Nat /\ LowerBound(v) <= v
         /\ LowerBound(v) > 0 => LowerBound(v) + AES_BLOCK_SIZE <= v
         /\ LowerBound(v) = 0 <=> v < 2 * AES_BLOCK_SIZE
         /\ UpperBound(v) \in Nat /\ v <= UpperBound(v)
         /\ UpperBound(v) = JAVA_LONG_MAX_VALUE \/ v + 1 + AES_BLOCK_SIZE <= UpperBound(v)
<1> DEFINE B == AES_BLOCK_SIZE
           J == JAVA_LONG_MAX_VALUE
           r == v % B
           q == v \div B
<1>1. B \in Nat \ {0} /\ J \in Nat
  BY Blocks
<1>2. r \in Nat /\ r < B /\ q \in Nat /\ v = B * q + r
  BY <1>1
<1>3. LowerBound(v) = Max({v - r - B, 0})
  BY DEF LowerBound
<1>4. UpperBound(v) = Min({v + (B - r) + B, J})
  BY DEF UpperBound
<1> HIDE DEF B, J, r, q
<1>5. v - r - B \in Int /\ v + (B - r) + B \in Int
  BY <1>1, <1>2
<1>6. LowerBound(v) = IF v - r - B >= 0 THEN v - r - B ELSE 0
  BY <1>3, <1>5, MaxMin
<1>7. UpperBound(v) = IF v + (B - r) + B <= J THEN v + (B - r) + B ELSE J
  <2> DEFINE u == v + (B - r) + B
  <2>1. u \in Int /\ J \in Int
    BY <1>1, <1>5
  <2>2. UpperBound(v) = Min({u, J})
    BY <1>4
  <2> HIDE DEF u
  <2>3. UpperBound(v) = IF u <= J THEN u ELSE J
    BY <2>1, <2>2, MaxMin
  <2> QED
    BY <2>3 DEF u
<1>8. v - r - B <= 0 <=> v < 2 * B
  <2>1. v < 2 * B => q \in {0, 1}
    <3>1. q >= 2 => B * q >= 2 * B
      BY <1>1, <1>2
    <3> QED
      BY <1>1, <1>2, <3>1
  <2>2. v < 2 * B => B * q = 0 \/ B * q = B
    BY <1>1, <2>1
  <2>3. v < 2 * B => v - r - B <= 0
    BY <1>1, <1>2, <2>2
  <2>4. v - r - B <= 0 => v < 2 * B
    BY <1>1, <1>2
  <2> QED
    BY <2>3, <2>4
<1>9. /\ LowerBound(v) \in Nat /\ LowerBound(v) <= v
      /\ LowerBound(v) > 0 => LowerBound(v) + B <= v
      /\ LowerBound(v) = 0 <=> v < 2 * B
  BY <1>1, <1>2, <1>6, <1>8
<1>10. /\ UpperBound(v) \in Nat /\ v <= UpperBound(v)
       /\ UpperBound(v) = J \/ v + 1 + B <= UpperBound(v)
  BY <1>1, <1>2, <1>7 DEF J
<1> QED
  BY <1>9, <1>10 DEF B, J

(* What put_object stores of an object: AES/CBC fills up the last block.     *)
LEMMA StoredLengths ==
  ASSUME NEW o \in [crypto : Crypto, length : Lengths]
  PROVE  /\ o.length \in Nat /\ StoredLength(o) \in Nat /\ o.length <= StoredLength(o)
         /\ o.crypto = "none" => StoredLength(o) = o.length
         /\ o.crypto = "gcm" => StoredLength(o) = o.length + AES_BLOCK_SIZE_BYTES
         /\ o.crypto \in {"cbc_v1", "cbc_v2"} => StoredLength(o) % AES_BLOCK_SIZE_BYTES = 0
<1> DEFINE b == AES_BLOCK_SIZE_BYTES
           q == o.length \div b
<1>1. o.length \in Nat /\ b \in Nat \ {0} /\ o.crypto \in Crypto
  BY Blocks, BoundsAssumption
<1>2. CASE o.crypto = "none"
  BY <1>1, <1>2 DEF StoredLength
<1>3. CASE o.crypto = "gcm"
  BY <1>1, <1>3, Blocks DEF StoredLength
<1>4. CASE o.crypto \in {"cbc_v1", "cbc_v2"}
  <2>1. StoredLength(o) = (q + 1) * b
    BY <1>4 DEF StoredLength
  <2>2. q \in Nat /\ o.length < q * b + b
    <3>1. \A n \in Nat, m \in Nat \ {0} : n \div m \in Nat /\ n < (n \div m) * m + m
      OBVIOUS
    <3> QED
      BY <1>1, <3>1
  <2> HIDE DEF q, b
  <2>3. (q + 1) * b = q * b + b /\ (q + 1) * b \in Nat
    BY <1>1, <2>2
  <2>4. ((q + 1) * b) % b = 0
    <3>1. \A n \in Nat, m \in Nat \ {0} : (n * m) % m = 0
      OBVIOUS
    <3> QED
      BY <1>1, <2>2, <3>1
  <2>5. q * b \in Nat
    BY <1>1, <2>2
  <2>6. o.length <= StoredLength(o)
    BY <1>1, <2>1, <2>2, <2>3, <2>5
  <2> QED
    BY <1>1, <1>4, <2>1, <2>3, <2>4, <2>6 DEF b
<1> QED
  BY <1>1, <1>2, <1>3, <1>4 DEF Crypto

(* A slice of a list with a non-negative start.                              *)
LEMMA Slices ==
  ASSUME NEW n \in Nat, NEW i \in Nat, NEW j \in Int
  PROVE  LET f == IF i <= n THEN i ELSE n
             t == IF j >= 0 THEN IF j <= n THEN j ELSE n
                            ELSE IF j + n >= 0 THEN j + n ELSE 0
         IN  Slice(n, i, j) = [from |-> f, to |-> IF f >= t THEN f ELSE t]
<1> DEFINE At(k) == IF k < 0 THEN Max({k + n, 0}) ELSE Min({k, n})
           f == IF i <= n THEN i ELSE n
           t == IF j >= 0 THEN IF j <= n THEN j ELSE n
                          ELSE IF j + n >= 0 THEN j + n ELSE 0
<1>1. Slice(n, i, j) = [from |-> At(i), to |-> Max({At(i), At(j)})]
  BY DEF Slice
<1>2. At(i) = f
  <2>1. Min({i, n}) = IF i <= n THEN i ELSE n
    BY MaxMin
  <2> QED
    BY <2>1
<1>3. At(j) = t
  <2>1. CASE j < 0
    <3>1. Max({j + n, 0}) = IF j + n >= 0 THEN j + n ELSE 0
      BY MaxMin
    <3> QED
      BY <2>1, <3>1
  <2>2. CASE ~(j < 0)
    <3>1. Min({j, n}) = IF j <= n THEN j ELSE n
      BY MaxMin
    <3> QED
      BY <2>2, <3>1
  <2> QED
    BY <2>1, <2>2
<1>4. f \in Int /\ t \in Int
  OBVIOUS
<1> HIDE DEF At, f, t
<1>5. Max({f, t}) = IF f >= t THEN f ELSE t
  BY <1>4, MaxMin
<1> QED
  BY <1>1, <1>2, <1>3, <1>5 DEF f, t

(* The range f..u was fetched for i..k of an AES/GCM object of `n` bytes, and *)
(* the slice c, from i to j, is cut from the response, which ends at `to`.   *)
Chopped(n, i, k, f, u, to, j, c) ==
  /\ n \in Nat \ {0} /\ i \in Nat /\ k \in Nat /\ f \in Nat /\ u \in Nat
  /\ i <= k /\ f <= i /\ (f > 0 => f + AES_BLOCK_SIZE <= i) /\ k <= u
  /\ (u = JAVA_LONG_MAX_VALUE \/ k + 1 + AES_BLOCK_SIZE <= u)
  /\ n + AES_BLOCK_SIZE_BYTES <= JAVA_LONG_MAX_VALUE /\ f < n + AES_BLOCK_SIZE_BYTES
  /\ to = Min({u + 1, n + AES_BLOCK_SIZE_BYTES})
  /\ j = Min({k, MaxOffset(to - f)}) /\ c = Slice(to - f, i, j)

(* None of its bytes is of the tag, and of a response that starts with the   *)
(* object only the last that was asked for may be missing.                   *)
LEMMA ChoppedRange ==
  ASSUME NEW n, NEW i, NEW k, NEW f, NEW u, NEW to, NEW j, NEW c,
         Chopped(n, i, k, f, u, to, j, c)
  PROVE  /\ to \in Nat /\ f < to
         /\ c.from \in Nat /\ c.to \in Nat
         /\ c.from < c.to => f + c.to <= n
         /\ f = 0 => \/ c.from = Min({i, n}) /\ c.to = Min({k + 1, n}) - 1
                     \/ c.from >= c.to /\ Min({k + 1, n}) <= Min({i, n})
<1> DEFINE b == AES_BLOCK_SIZE_BYTES
           B == AES_BLOCK_SIZE
           J == JAVA_LONG_MAX_VALUE
           L == to - f
<1>1. b \in Nat \ {0} /\ B = 8 * b /\ J \in Nat /\ J >= B /\ TagLength = b
  BY Blocks
<1>2. /\ n \in Nat \ {0} /\ i \in Nat /\ k \in Nat /\ f \in Nat /\ u \in Nat
      /\ i <= k /\ f <= i /\ (f > 0 => f + B <= i) /\ k <= u
  BY DEF Chopped
<1>3. (u = J \/ k + 1 + B <= u) /\ n + b <= J /\ f < n + b
  BY DEF Chopped
<1>4. to = Min({u + 1, n + b}) /\ j = Min({k, L - b - 1}) /\ c = Slice(L, i, j)
  BY <1>1 DEF Chopped, MaxOffset
<1> HIDE DEF b, B, J
<1>5. to = IF u + 1 <= n + b THEN u + 1 ELSE n + b
  <2> DEFINE x == u + 1
             y == n + b
  <2>1. x \in Int /\ y \in Int /\ to = Min({x, y})
    BY <1>1, <1>2, <1>4
  <2> HIDE DEF x, y
  <2>2. to = IF x <= y THEN x ELSE y
    BY <2>1, MaxMin
  <2> QED
    BY <2>2 DEF x, y
<1>6. L \in Nat /\ to \in Nat /\ f < to
  BY <1>1, <1>2, <1>3, <1>5
<1>7. j = IF k <= L - b - 1 THEN k ELSE L - b - 1
  <2> DEFINE y == L - b - 1
  <2>1. y \in Int /\ k \in Int /\ j = Min({k, y})
    BY <1>1, <1>2, <1>4, <1>6
  <2> HIDE DEF y
  <2>2. j = IF k <= y THEN k ELSE y
    BY <2>1, MaxMin
  <2> QED
    BY <2>2 DEF y
<1>8. j \in Int
  BY <1>1, <1>2, <1>6, <1>7
<1> DEFINE s == IF i <= L THEN i ELSE L
           t == IF j >= 0 THEN IF j <= L THEN j ELSE L
                          ELSE IF j + L >= 0 THEN j + L ELSE 0
<1>9. c = [from |-> s, to |-> IF s >= t THEN s ELSE t]
  <2>1. i \in Nat /\ L \in Nat /\ j \in Int /\ c = Slice(L, i, j)
    BY <1>2, <1>4, <1>6, <1>8
  <2> HIDE DEF L
  <2> QED
    BY <2>1, Slices
<1>10. s \in Nat /\ t \in Nat
  BY <1>2, <1>6, <1>8
<1>11. c.from = s /\ c.to = IF s >= t THEN s ELSE t
  BY <1>9
<1>12. s < t => f + t <= n
  <2>1. CASE f = 0
    BY <1>1, <1>2, <1>3, <1>5, <1>6, <1>7, <2>1
  <2>2. CASE f > 0 /\ L <= b
    <3>1. i >= L
      BY <1>1, <1>2, <1>6, <2>2
    <3>2. t <= L
      BY <1>1, <1>2, <1>6, <1>7, <2>2
    <3> QED
      BY <1>2, <1>6, <1>10, <3>1, <3>2
  <2>3. CASE L > b
    BY <1>1, <1>2, <1>3, <1>5, <1>6, <1>7, <2>3
  <2> QED
    BY <1>1, <1>2, <1>6, <2>1, <2>2, <2>3
<1>13. Min({i, n}) = IF i <= n THEN i ELSE n
  <2>1. i \in Int /\ n \in Int
    BY <1>2
  <2> HIDE DEF L, s, t
  <2> QED
    BY <2>1, MaxMin
<1>14. Min({k + 1, n}) = IF k + 1 <= n THEN k + 1 ELSE n
  <2> DEFINE x == k + 1
  <2>1. x \in Int /\ n \in Int
    BY <1>2
  <2> HIDE DEF x, L, s, t
  <2>2. Min({x, n}) = IF x <= n THEN x ELSE n
    BY <2>1, MaxMin
  <2> QED
    BY <2>2 DEF x
<1>15. ASSUME f = 0
       PROVE  \/ c.from = Min({i, n}) /\ c.to = Min({k + 1, n}) - 1
              \/ c.from >= c.to /\ Min({k + 1, n}) <= Min({i, n})
  <2>1. CASE u + 1 >= n + b
    <3>1. L = n + b
      BY <1>1, <1>2, <1>5, <1>15, <2>1
    <3>2. j = (IF k <= n - 1 THEN k ELSE n - 1) /\ t = j
      BY <1>1, <1>2, <1>7, <3>1
    <3> QED
      BY <1>1, <1>2, <1>11, <1>13, <1>14, <3>1, <3>2
  <2>2. CASE u + 1 < n + b
    <3>1. L = u + 1 /\ k + 1 + B <= u
      BY <1>1, <1>2, <1>3, <1>5, <1>15, <2>2
    <3>2. j = k /\ t = k /\ k + 1 <= n
      BY <1>1, <1>2, <1>7, <2>2, <3>1
    <3> QED
      BY <1>1, <1>2, <1>11, <1>13, <1>14, <3>1, <3>2
  <2> QED
    BY <1>1, <1>2, <2>1, <2>2
<1> QED
  BY <1>6, <1>10, <1>11, <1>12, <1>15

-----------------------------------------------------------------------------
(* The invariant: the request and the response are functions of the object   *)
(* and of the range, so that the result can be told from them.               *)

AskedInv == asked # NoRange => asked.last <= JAVA_LONG_MAX_VALUE

SentInv ==
  step # "called" =>
      sent = IF asked = NoRange
             THEN NoRange
             ELSE [first |-> LowerBound(asked.first), last |-> UpperBound(asked.last)]

ResponseInv ==
  step \in {"answered", "returned"} =>
      \/ /\ sent = NoRange
         /\ response = [from |-> 0, to |-> StoredLength(object), clear |-> FALSE]
      \/ /\ sent # NoRange /\ sent.first < StoredLength(object)
         /\ response = [from |-> sent.first, clear |-> FALSE,
                        to |-> Min({sent.last + 1, StoredLength(object)})]

RangeInv == TypeOK /\ AskedInv /\ SentInv /\ ResponseInv

CallInv == RangeInv /\ NothingGarbled /\ EarlyRangeIsPrefix

(* A range is a pair of natural numbers in order.                            *)
LEMMA Ranges ==
  ASSUME RangeInv
  PROVE  /\ asked # NoRange =>
              /\ asked.first \in Nat /\ asked.last \in Nat /\ asked.first <= asked.last
              /\ asked.last <= JAVA_LONG_MAX_VALUE
              /\ asked.first <= JAVA_LONG_MAX_VALUE
         /\ sent # NoRange => sent.first \in Nat /\ sent.last \in Nat
         /\ object.length \in Nat /\ object.length \in Lengths /\ object.crypto \in Crypto
         /\ StoredLength(object) \in Nat
<1>1. JAVA_LONG_MAX_VALUE \in Nat
  BY Blocks
<1>2. asked \in ByteRange \cup {NoRange} /\ sent \in ByteRange \cup {NoRange}
  BY DEF RangeInv, TypeOK
<1>3. /\ asked # NoRange => asked.first \in Nat /\ asked.last \in Nat
                            /\ asked.first <= asked.last
      /\ sent # NoRange => sent.first \in Nat /\ sent.last \in Nat
  BY <1>2 DEF ByteRange
<1>4. asked # NoRange => asked.last <= JAVA_LONG_MAX_VALUE
  BY DEF RangeInv, AskedInv
<1>5. object \in [crypto : Crypto, length : Lengths]
  BY DEF RangeInv, TypeOK
<1>6. object.length \in Nat /\ StoredLength(object) \in Nat
  BY <1>5, StoredLengths
<1>7. asked # NoRange => asked.first <= JAVA_LONG_MAX_VALUE
  BY <1>1, <1>3, <1>4
<1>8. object.length \in Lengths /\ object.crypto \in Crypto
  BY <1>5
<1>9. sent # NoRange => sent.first \in Nat /\ sent.last \in Nat
  BY <1>3
<1> QED
  BY <1>3, <1>4, <1>6, <1>7, <1>8, <1>9

(* A range that is sent is the one asked for, widened.                       *)
LEMMA SentAround ==
  ASSUME RangeInv, step # "called"
  PROVE  /\ asked = NoRange <=> sent = NoRange
         /\ asked # NoRange =>
              /\ sent.first \in Nat /\ sent.last \in Nat
              /\ sent.first <= asked.first /\ asked.last <= sent.last
              /\ sent.first > 0 => sent.first + AES_BLOCK_SIZE <= asked.first
              /\ asked.first < 2 * AES_BLOCK_SIZE => sent.first = 0
              /\ sent.last = JAVA_LONG_MAX_VALUE
                 \/ asked.last + 1 + AES_BLOCK_SIZE <= sent.last
<1>1. CASE asked = NoRange
  BY <1>1 DEF RangeInv, SentInv
<1>2. CASE asked # NoRange
  <2>1. /\ asked.first \in Nat /\ asked.first <= JAVA_LONG_MAX_VALUE
        /\ asked.last \in Nat /\ asked.last <= JAVA_LONG_MAX_VALUE
    BY <1>2, Ranges
  <2>2. sent = [first |-> LowerBound(asked.first), last |-> UpperBound(asked.last)]
    BY <1>2 DEF RangeInv, SentInv
  <2>3. sent.first = LowerBound(asked.first) /\ sent.last = UpperBound(asked.last)
    BY <2>2
  <2>4. /\ sent.first \in Nat /\ sent.first <= asked.first
        /\ sent.first > 0 => sent.first + AES_BLOCK_SIZE <= asked.first
        /\ asked.first < 2 * AES_BLOCK_SIZE => sent.first = 0
    BY <2>1, <2>3, BoundsAround
  <2>5. /\ sent.last \in Nat /\ asked.last <= sent.last
        /\ sent.last = JAVA_LONG_MAX_VALUE \/ asked.last + 1 + AES_BLOCK_SIZE <= sent.last
    BY <2>1, <2>3, BoundsAround
  <2>6. sent # NoRange
    BY <2>4 DEF NoRange
  <2> QED
    BY <1>2, <2>4, <2>5, <2>6
<1> QED
  BY <1>1, <1>2

(* The response is a run of bytes of what is stored.                         *)
LEMMA ResponseBytes ==
  ASSUME RangeInv, step \in {"answered", "returned"}
  PROVE  /\ response.from \in Nat /\ response.to \in Nat
         /\ response.from <= response.to /\ response.to <= StoredLength(object)
         /\ sent = NoRange => response.from = 0 /\ response.to = StoredLength(object)
         /\ sent # NoRange =>
              /\ response.from = sent.first /\ sent.first < StoredLength(object)
              /\ response.to = Min({sent.last + 1, StoredLength(object)})
              /\ response.to = sent.last + 1 \/ response.to = StoredLength(object)
<1> DEFINE S == StoredLength(object)
<1>1. S \in Nat
  BY Ranges
<1>2. CASE sent = NoRange
  BY <1>1, <1>2 DEF RangeInv, ResponseInv
<1>3. CASE sent # NoRange
  <2>1. /\ response.from = sent.first /\ sent.first < S
        /\ response.to = Min({sent.last + 1, S})
    BY <1>3 DEF RangeInv, ResponseInv
  <2>2. asked # NoRange /\ asked.first \in Nat /\ asked.last \in Nat /\ asked.first <= asked.last
    BY <1>3, Ranges, SentAround
  <2>3. sent.first \in Nat /\ sent.last \in Nat /\ sent.first <= sent.last
    BY <2>2, SentAround
  <2> DEFINE u == sent.last + 1
  <2>4. u \in Int /\ S \in Int
    BY <1>1, <2>3
  <2> HIDE DEF u, S
  <2>5. Min({u, S}) = IF u <= S THEN u ELSE S
    BY <2>4, MaxMin
  <2>6. response.to = IF u <= S THEN u ELSE S
    BY <2>1, <2>5 DEF u
  <2>7. response.to \in Nat /\ response.from <= response.to /\ response.to <= S
    BY <1>1, <2>1, <2>3, <2>6 DEF u
  <2> QED
    BY <1>3, <2>1, <2>3, <2>6, <2>7 DEF u, S
<1> QED
  BY <1>2, <1>3

LEMMA InvInit == Init => CallInv
<1> SUFFICES ASSUME Init PROVE CallInv
  OBVIOUS
<1>1. asked \in ByteRange \cup {NoRange} /\ AskedInv
  <2>1. JAVA_LONG_MAX_VALUE \in Nat /\ JAVA_LONG_MAX_VALUE >= 8
    BY Blocks
  <2>2. \A x \in Positions : x \in Nat /\ x <= JAVA_LONG_MAX_VALUE
    <3>1. \A x \in 0..JAVA_LONG_MAX_VALUE : x \in Nat /\ x <= JAVA_LONG_MAX_VALUE
      BY <2>1
    <3> QED
      BY <3>1, BoundsAssumption
  <2>3. CASE asked = NoRange
    BY <2>3 DEF AskedInv
  <2>4. CASE asked # NoRange
    <3>1. /\ asked \in [first : Positions, last : Positions \cup {JAVA_LONG_MAX_VALUE - 1}]
          /\ asked.first <= asked.last
      BY <2>4 DEF Init
    <3>2. asked.first \in Positions /\ asked.last \in Positions \cup {JAVA_LONG_MAX_VALUE - 1}
      BY <3>1
    <3>3. asked.first \in Nat
      BY <2>1, <2>2, <3>2
    <3>4. asked.last \in Nat /\ asked.last <= JAVA_LONG_MAX_VALUE
      <4>1. CASE asked.last \in Positions
        BY <2>1, <2>2, <4>1
      <4>2. CASE asked.last = JAVA_LONG_MAX_VALUE - 1
        BY <2>1, <4>2
      <4> QED
        BY <3>2, <4>1, <4>2
    <3>5. asked \in [first : Nat, last : Nat]
      BY <3>1, <3>3, <3>4
    <3> QED
      BY <3>1, <3>4, <3>5 DEF AskedInv, ByteRange
  <2> QED
    BY <2>3, <2>4
<1>2. TypeOK
  BY <1>1 DEF Init, TypeOK, Nothing, Bytes
<1>3. SentInv /\ ResponseInv /\ NothingGarbled /\ EarlyRangeIsPrefix
  BY DEF Init, SentInv, ResponseInv, NothingGarbled, EarlyRangeIsPrefix
<1> QED
  BY <1>1, <1>2, <1>3 DEF CallInv, RangeInv

(* Every step keeps the request and the response what they should be.        *)
LEMMA RangeStep == ASSUME RangeInv, [Next]_vars PROVE RangeInv'
<1> USE DEF RangeInv
<1>1. CASE SendRequest
  <2>1. sent' \in ByteRange \cup {NoRange}
    <3>1. CASE asked = NoRange
      BY <1>1, <3>1 DEF SendRequest
    <3>2. CASE asked # NoRange
      <4>1. /\ asked.first \in Nat /\ asked.first <= JAVA_LONG_MAX_VALUE
            /\ asked.last \in Nat /\ asked.last <= JAVA_LONG_MAX_VALUE
            /\ asked.first <= asked.last
        BY <3>2, Ranges
      <4> DEFINE l == LowerBound(asked.first)
                 u == UpperBound(asked.last)
      <4>2. l \in Nat /\ l <= asked.first
        BY <4>1, BoundsAround
      <4>3. u \in Nat /\ asked.last <= u
        BY <4>1, BoundsAround
      <4>4. sent' = [first |-> l, last |-> u]
        BY <1>1, <3>2 DEF SendRequest
      <4> HIDE DEF l, u
      <4>5. l <= u
        BY <4>1, <4>2, <4>3
      <4> QED
        BY <4>2, <4>3, <4>4, <4>5 DEF ByteRange
    <3> QED
      BY <3>1, <3>2
  <2>2. TypeOK'
    BY <1>1, <2>1 DEF SendRequest, TypeOK
  <2>3. AskedInv' /\ SentInv' /\ ResponseInv'
    BY <1>1 DEF SendRequest, AskedInv, SentInv, ResponseInv
  <2> QED
    BY <2>2, <2>3
<1>2. CASE S3Answers
  <2>1. step = "sent" /\ step' = "answered" /\ UNCHANGED <<object, asked, sent, result>>
    BY <1>2 DEF S3Answers
  <2>2. StoredLength(object) = StoredLength(object)'
    BY <2>1 DEF StoredLength
  <2>3. ResponseInv'
    BY <1>2, <2>1, <2>2 DEF S3Answers, ResponseInv
  <2>4. response' \in Bytes
    <3> DEFINE S == StoredLength(object)
    <3>1. S \in Nat
      BY Ranges
    <3>2. CASE sent = NoRange
      <4>1. response' = [from |-> 0, to |-> S, clear |-> FALSE]
        BY <1>2, <3>2 DEF S3Answers
      <4> HIDE DEF S
      <4> QED
        BY <3>1, <4>1 DEF Bytes
    <3>3. CASE sent # NoRange
      <4>1. sent.first \in Nat /\ sent.last \in Nat
        BY <3>3, Ranges
      <4> DEFINE u == sent.last + 1
      <4>2. u \in Nat /\ S \in Int /\ u \in Int
        BY <3>1, <4>1
      <4>3. response' = [from |-> sent.first, clear |-> FALSE, to |-> Min({u, S})]
        BY <1>2, <3>3 DEF S3Answers
      <4> HIDE DEF u, S
      <4>4. Min({u, S}) = IF u <= S THEN u ELSE S
        BY <4>2, MaxMin
      <4>5. Min({u, S}) \in Nat
        BY <3>1, <4>2, <4>4
      <4> QED
        BY <4>1, <4>3, <4>5 DEF Bytes
    <3> QED
      BY <3>2, <3>3
  <2>5. TypeOK'
    BY <2>1, <2>4 DEF TypeOK
  <2>6. AskedInv' /\ SentInv'
    BY <2>1 DEF AskedInv, SentInv
  <2> QED
    BY <2>3, <2>5, <2>6
<1>3. ASSUME UNCHANGED <<object, asked, sent, response>>,
             step # "called", step' \in {"returned", "raised"},
             step' = "returned" => step = "answered", result' \in Bytes
      PROVE  RangeInv'
  <2>1. StoredLength(object) = StoredLength(object)'
    BY <1>3 DEF StoredLength
  <2>2. ResponseInv'
    BY <1>3, <2>1 DEF ResponseInv
  <2>3. TypeOK' /\ AskedInv' /\ SentInv'
    BY <1>3 DEF TypeOK, AskedInv, SentInv
  <2> QED
    BY <2>2, <2>3
<1>4. result \in Bytes /\ response \in Bytes /\ object.length \in Nat
  BY Ranges DEF TypeOK
<1>5. CASE S3Refuses
  BY <1>3, <1>4, <1>5 DEF S3Refuses
<1>6. CASE NotEncrypted
  <2>1. [response EXCEPT !.clear = TRUE] \in Bytes
    BY <1>4 DEF Bytes
  <2> QED
    BY <1>3, <1>6, <2>1 DEF NotEncrypted, Returns
<1>7. CASE DecryptCBC
  <2> DEFINE f == response.from
             n == object.length
             m == Max({f, n})
  <2>1. f \in Nat /\ n \in Nat
    BY <1>4 DEF Bytes
  <2>2. m \in Nat
    <3> HIDE DEF f, n
    <3>1. m = IF f >= n THEN f ELSE n
      BY <2>1, MaxMin
    <3> QED
      BY <2>1, <3>1
  <2> HIDE DEF m
  <2>3. [from |-> f, to |-> m, clear |-> f = 0] \in Bytes
    BY <2>1, <2>2 DEF Bytes
  <2>4. result' \in Bytes
    BY <1>4, <1>7, <2>3 DEF DecryptCBC, Returns, Raises, m
  <2>5. /\ UNCHANGED <<object, asked, sent, response>> /\ step = "answered"
        /\ step' \in {"returned", "raised"}
    BY <1>7 DEF DecryptCBC, Returns, Raises
  <2> QED
    BY <1>3, <2>4, <2>5
<1>8. CASE DecryptWholeGCM
  <2>1. Plaintext \in Bytes
    BY <1>4 DEF Plaintext, Bytes
  <2> QED
    BY <1>3, <1>8, <2>1 DEF DecryptWholeGCM, Returns
<1>9. CASE DecryptRangeGCM
  <2> DEFINE L == response.to - response.from
             j == Min({asked.last, MaxOffset(L)})
             chop == Slice(L, asked.first, j)
             body == [from |-> response.from + chop.from, to |-> response.from + chop.to,
                      clear |-> BlockOffset(response.from) * AES_BLOCK_SIZE_BYTES = response.from]
  <2>1. /\ step = "answered" /\ sent # NoRange /\ Returns(body)
        /\ UNCHANGED <<object, asked, sent, response>>
    BY <1>9 DEF DecryptRangeGCM
  <2>2. asked.first \in Nat /\ asked.last \in Nat
    BY <2>1, Ranges, SentAround
  <2>3. response.from \in Nat /\ L \in Nat
    BY <2>1, ResponseBytes
  <2>4. j \in Int
    <3> DEFINE y == MaxOffset(L)
               k == asked.last
    <3>1. y \in Int /\ k \in Int
      BY <2>2, <2>3, Blocks DEF MaxOffset
    <3> HIDE DEF y, k
    <3>2. Min({k, y}) = IF k <= y THEN k ELSE y
      BY <3>1, MaxMin
    <3>3. Min({k, y}) \in Int
      BY <3>1, <3>2
    <3> QED
      BY <3>3 DEF k, y
  <2>5. chop.from \in Nat /\ chop.to \in Nat
    <3> HIDE DEF L, j
    <3> DEFINE i == asked.first
               s == IF i <= L THEN i ELSE L
               t == IF j >= 0 THEN IF j <= L THEN j ELSE L
                              ELSE IF j + L >= 0 THEN j + L ELSE 0
    <3>1. chop = [from |-> s, to |-> IF s >= t THEN s ELSE t]
      BY <2>2, <2>3, <2>4, Slices
    <3>2. s \in Nat /\ t \in Nat
      BY <2>2, <2>3, <2>4
    <3> QED
      BY <3>1, <3>2
  <2>6. body \in Bytes
    <3> HIDE DEF chop
    <3> QED
      BY <2>3, <2>5 DEF Bytes
  <2> QED
    BY <1>3, <2>1, <2>6 DEF Returns
<1>10. CASE UNCHANGED vars
  <2>1. StoredLength(object) = StoredLength(object)'
    BY <1>10 DEF StoredLength, vars
  <2>2. ResponseInv'
    BY <1>10, <2>1 DEF ResponseInv, vars
  <2> QED
    BY <1>10, <2>2 DEF vars, TypeOK, AskedInv, SentInv
<1> QED
  BY <1>1, <1>2, <1>5, <1>6, <1>7, <1>8, <1>9, <1>10 DEF Next

(* What a range of an AES/GCM object that is not empty is answered with.     *)
LEMMA RangeOfGCM ==
  ASSUME RangeInv, DecryptRangeGCM, object.length > 0
  PROVE  /\ asked # NoRange /\ step' = "returned"
         /\ result'.from < result'.to => result'.to <= object.length
         /\ asked.first < 2 * AES_BLOCK_SIZE =>
              \/ /\ result'.clear /\ result'.from = Wanted.from
                 /\ result'.to = Wanted.to - 1
              \/ result'.from >= result'.to /\ Wanted.to <= Wanted.from
<1> DEFINE n == object.length
           i == asked.first
           k == asked.last
           f == sent.first
           u == sent.last
           to == response.to
           j == Min({k, MaxOffset(to - f)})
           c == Slice(to - f, i, j)
<1>1. step = "answered" /\ object.crypto = "gcm" /\ sent # NoRange
  BY DEF DecryptRangeGCM
<1>2. /\ asked # NoRange /\ f \in Nat /\ u \in Nat /\ f <= i /\ k <= u
      /\ f > 0 => f + AES_BLOCK_SIZE <= i
      /\ i < 2 * AES_BLOCK_SIZE => f = 0
      /\ u = JAVA_LONG_MAX_VALUE \/ k + 1 + AES_BLOCK_SIZE <= u
  BY <1>1, SentAround
<1>3. i \in Nat /\ k \in Nat /\ i <= k
  BY <1>2, Ranges
<1>4. /\ n \in Nat \ {0} /\ StoredLength(object) = n + AES_BLOCK_SIZE_BYTES
      /\ n + AES_BLOCK_SIZE_BYTES <= JAVA_LONG_MAX_VALUE
  <2>1. object \in [crypto : Crypto, length : Lengths]
    BY DEF RangeInv, TypeOK
  <2>2. StoredLength(object) = n + AES_BLOCK_SIZE_BYTES
    BY <1>1, <2>1, StoredLengths
  <2>3. n \in Nat /\ n \in Lengths
    BY Ranges
  <2> QED
    BY <2>2, <2>3, LongAssumption
<1>5. /\ response.from = f /\ f < n + AES_BLOCK_SIZE_BYTES
      /\ to = Min({u + 1, n + AES_BLOCK_SIZE_BYTES})
  BY <1>1, <1>4, ResponseBytes
<1>6. /\ step' = "returned"
      /\ result' = [from |-> f + c.from, to |-> f + c.to,
                    clear |-> BlockOffset(f) * AES_BLOCK_SIZE_BYTES = f]
  BY <1>5 DEF DecryptRangeGCM, Returns
<1>7. j = Min({k, MaxOffset(to - f)}) /\ c = Slice(to - f, i, j)
  OBVIOUS
<1> HIDE DEF n, i, k, f, u, to, j, c
<1>8. /\ c.from \in Nat /\ c.to \in Nat
      /\ c.from < c.to => f + c.to <= n
      /\ f = 0 => \/ c.from = Min({i, n}) /\ c.to = Min({k + 1, n}) - 1
                  \/ c.from >= c.to /\ Min({k + 1, n}) <= Min({i, n})
  <2>1. Chopped(n, i, k, f, u, to, j, c)
    BY <1>2, <1>3, <1>4, <1>5, <1>7 DEF Chopped
  <2> QED
    BY <2>1, ChoppedRange
<1>9. result'.from = f + c.from /\ result'.to = f + c.to
  BY <1>6
<1>10. result'.from < result'.to => result'.to <= n
  BY <1>2, <1>8, <1>9
<1>11. Wanted.from = Min({i, n}) /\ Wanted.to = Min({k + 1, n})
  BY <1>2 DEF Wanted, i, k, n
<1>12. ASSUME i < 2 * AES_BLOCK_SIZE
       PROVE  \/ /\ result'.clear /\ result'.from = Wanted.from
                 /\ result'.to = Wanted.to - 1
              \/ result'.from >= result'.to /\ Wanted.to <= Wanted.from
  <2>1. f = 0
    BY <1>2, <1>12
  <2>2. BlockOffset(0) * AES_BLOCK_SIZE_BYTES = 0
    <3>1. \A B \in Nat \ {0} : 0 \div B = 0
      OBVIOUS
    <3> QED
      BY <3>1, Blocks DEF BlockOffset
  <2>3. result'.clear
    BY <1>6, <2>1, <2>2
  <2>4. result'.from = c.from /\ result'.to = c.to
    BY <1>8, <1>9, <2>1
  <2> QED
    BY <1>8, <1>11, <2>1, <2>3, <2>4
<1> QED
  BY <1>2, <1>6, <1>10, <1>12 DEF i, n

(* Every step that ends the call ends it as promised.                        *)
LEMMA ResultStep ==
  ASSUME CallInv, [Next]_vars
  PROVE  NothingGarbled' /\ EarlyRangeIsPrefix'
<1> USE DEF CallInv
<1>1. object \in [crypto : Crypto, length : Lengths] /\ object.length \in Nat
  BY Ranges DEF RangeInv, TypeOK
<1>2. CASE SendRequest \/ S3Answers
  BY <1>2 DEF SendRequest, S3Answers, NothingGarbled, EarlyRangeIsPrefix
<1>3. CASE S3Refuses
  <2>1. asked # NoRange
    BY <1>3, SentAround DEF S3Refuses
  <2> QED
    BY <1>3, <2>1 DEF S3Refuses, NothingGarbled, EarlyRangeIsPrefix
<1>4. CASE NotEncrypted
  <2>1. /\ step = "answered" /\ object.crypto = "none"
        /\ step' = "returned" /\ UNCHANGED <<object, asked>>
        /\ result' = [response EXCEPT !.clear = TRUE]
    BY <1>4 DEF NotEncrypted, Returns
  <2>2. asked = NoRange => result' = Plaintext
    <3>1. StoredLength(object) = object.length
      BY <1>1, <2>1, StoredLengths
    <3>2. asked = NoRange =>
            response = [from |-> 0, to |-> StoredLength(object), clear |-> FALSE]
      BY <2>1, SentAround DEF RangeInv, ResponseInv
    <3>3. asked = NoRange => response = [from |-> 0, to |-> object.length, clear |-> FALSE]
      BY <3>1, <3>2
    <3>4. response \in Bytes
      BY DEF RangeInv, TypeOK
    <3>5. result' \in Bytes /\ result'.clear = TRUE
          /\ result'.from = response.from /\ result'.to = response.to
      BY <2>1, <3>4 DEF Bytes
    <3>6. result' = [from |-> response.from, to |-> response.to, clear |-> TRUE]
      BY <3>5 DEF Bytes
    <3>7. asked = NoRange => response.from = 0 /\ response.to = object.length
      BY <3>3
    <3> QED
      BY <3>6, <3>7 DEF Plaintext
  <2>3. Plaintext' = Plaintext
    BY <2>1 DEF Plaintext
  <2> QED
    BY <2>1, <2>2, <2>3 DEF NothingGarbled, EarlyRangeIsPrefix
<1>5. CASE DecryptCBC
  <2>1. /\ step = "answered" /\ object.crypto \in {"cbc_v1", "cbc_v2"}
        /\ UNCHANGED <<object, asked>>
    BY <1>5 DEF DecryptCBC
  <2>2. Plaintext' = Plaintext
    BY <2>1 DEF Plaintext
  <2>3. ASSUME ~RangeRefused
        PROVE  [from |-> response.from, to |-> Max({response.from, object.length}),
                clear |-> response.from = 0] = Plaintext
    <3>1. response.from = 0
      <4>1. CASE sent = NoRange
        BY <2>1, <4>1, ResponseBytes
      <4>2. CASE sent # NoRange
        BY <2>1, <2>3, <4>2, ResponseBytes DEF RangeRefused
      <4> QED
        BY <4>1, <4>2
    <3>2. Max({0, object.length}) = object.length
      <4> DEFINE n == object.length
      <4>1. n \in Nat
        BY <1>1
      <4> HIDE DEF n
      <4>2. Max({0, n}) = IF 0 >= n THEN 0 ELSE n
        BY <4>1, MaxMin
      <4>3. Max({0, n}) = n
        BY <4>1, <4>2
      <4> QED
        BY <4>3 DEF n
    <3> QED
      BY <3>1, <3>2 DEF Plaintext
  <2>4. asked = NoRange =>
          ~RangeRefused /\ (response.to - response.from) % AES_BLOCK_SIZE_BYTES = 0
    <3> SUFFICES ASSUME asked = NoRange
                 PROVE  ~RangeRefused
                        /\ (response.to - response.from) % AES_BLOCK_SIZE_BYTES = 0
      OBVIOUS
    <3>1. sent = NoRange
      BY <2>1, SentAround
    <3>2. response.from = 0 /\ response.to = StoredLength(object)
      BY <2>1, <3>1, ResponseBytes
    <3>3. StoredLength(object) \in Nat /\ StoredLength(object) % AES_BLOCK_SIZE_BYTES = 0
      BY <1>1, <2>1, StoredLengths
    <3>4. response.to - response.from = StoredLength(object)
      BY <3>2, <3>3
    <3> QED
      BY <3>1, <3>3, <3>4 DEF RangeRefused
  <2>5. \/ step' = "raised" /\ asked # NoRange
        \/ step' = "returned" /\ ~RangeRefused /\ result' = Plaintext
    BY <1>5, <2>3, <2>4 DEF DecryptCBC, Returns, Raises
  <2>6. ~RangeRefused /\ asked # NoRange => asked.first < 2 * AES_BLOCK_SIZE
    <3> SUFFICES ASSUME ~RangeRefused, asked # NoRange
                 PROVE  asked.first < 2 * AES_BLOCK_SIZE
      OBVIOUS
    <3>1. sent.first = 0
      BY <2>1, SentAround DEF RangeRefused
    <3>2. sent.first = LowerBound(asked.first)
      BY <2>1 DEF RangeInv, SentInv
    <3>3. asked.first \in Nat /\ asked.first <= JAVA_LONG_MAX_VALUE
      BY Ranges
    <3> QED
      BY <3>1, <3>2, <3>3, BoundsAround
  <2> QED
    BY <2>1, <2>2, <2>5, <2>6 DEF NothingGarbled, EarlyRangeIsPrefix
<1>6. CASE DecryptWholeGCM
  <2>1. /\ step' = "returned" /\ object.crypto = "gcm" /\ UNCHANGED <<object, asked>>
        /\ result' = Plaintext /\ asked = NoRange
    BY <1>6, SentAround DEF DecryptWholeGCM, Returns
  <2>2. Plaintext' = Plaintext /\ Plaintext.to = object.length
    BY <2>1 DEF Plaintext
  <2>3. NothingGarbled'
    BY <1>1, <2>1, <2>2 DEF NothingGarbled
  <2>4. EarlyRangeIsPrefix'
    <3>1. asked.first \notin 0..(2 * AES_BLOCK_SIZE - 1)
      BY <2>1, Blocks DEF NoRange
    <3> QED
      BY <2>1, <3>1 DEF EarlyRangeIsPrefix
  <2> QED
    BY <2>3, <2>4
<1>7. CASE DecryptRangeGCM
  <2>1. object.crypto = "gcm" /\ UNCHANGED <<object, asked>>
    BY <1>7 DEF DecryptRangeGCM
  <2>2. Wanted' = Wanted
    BY <2>1 DEF Wanted, Plaintext
  <2>3. asked # NoRange
    BY <1>7, SentAround DEF DecryptRangeGCM
  <2>4. NothingGarbled'
    BY <1>1, <1>7, <2>1, <2>3, RangeOfGCM DEF NothingGarbled
  <2>5. asked.first \in 0..(2 * AES_BLOCK_SIZE - 1) => asked.first < 2 * AES_BLOCK_SIZE
    BY Blocks
  <2>6. EarlyRangeIsPrefix'
    BY <1>1, <1>7, <2>1, <2>2, <2>5, RangeOfGCM DEF EarlyRangeIsPrefix
  <2> QED
    BY <2>4, <2>6
<1>8. CASE UNCHANGED vars
  <2>1. Plaintext' = Plaintext /\ Wanted' = Wanted
    BY <1>8 DEF vars, Plaintext, Wanted
  <2> QED
    BY <1>8, <2>1 DEF vars, NothingGarbled, EarlyRangeIsPrefix
<1> QED
  BY <1>2, <1>3, <1>4, <1>5, <1>6, <1>7, <1>8 DEF Next

-----------------------------------------------------------------------------
(* Theorems.                                                                 *)

(* The invariant holds of every reachable state: a call's request and its    *)
(* response are what its range and the object make them, and its result is   *)
(* as promised.                                                              *)
THEOREM CallInvariant == Spec => []CallInv
<1>1. CallInv /\ [Next]_vars => CallInv'
  BY RangeStep, ResultStep DEF CallInv
<1> QED
  BY InvInit, <1>1, PTL DEF Spec

(* Offsets never become negative and lengths never get lost, whatever the    *)
(* range asked for.                                                          *)
THEOREM TypeCorrect == Spec => []TypeOK
<1>1. CallInv => TypeOK
  BY DEF CallInv, RangeInv
<1> QED
  BY CallInvariant, <1>1, PTL

(* Every byte that was asked for and is there is fetched: the widened range  *)
(* (cse.py:461-487) is never too narrow.                                     *)
THEOREM FetchesTheRange == Spec => []RangeIsFetched
<1>1. CallInv => RangeIsFetched
  <2> SUFFICES ASSUME CallInv, step \in {"answered", "returned"}, Wanted.from < Wanted.to
               PROVE  response.from <= Wanted.from /\ Wanted.to <= response.to
    BY DEF RangeIsFetched
  <2> USE DEF CallInv
  <2> DEFINE n == object.length
             S == StoredLength(object)
  <2>1. n \in Nat /\ S \in Nat /\ n <= S
    BY Ranges, StoredLengths DEF RangeInv, TypeOK
  <2>2. CASE asked = NoRange
    <3>1. sent = NoRange
      BY <2>2, SentAround
    <3>2. response.from = 0 /\ response.to = S
      BY <3>1, ResponseBytes
    <3>3. Wanted.from = 0 /\ Wanted.to = n
      BY <2>2 DEF Wanted, Plaintext
    <3> QED
      BY <2>1, <3>2, <3>3
  <2>3. CASE asked # NoRange
    <3> DEFINE i == asked.first
               k == asked.last + 1
               u == sent.last + 1
    <3>1. /\ i \in Nat /\ k \in Nat /\ u \in Nat /\ k <= u
          /\ sent.first \in Nat /\ sent.first <= i
      BY <2>3, Ranges, SentAround
    <3>2. /\ response.from = sent.first
          /\ response.to = u \/ response.to = S
      BY <2>3, ResponseBytes, SentAround
    <3>3. Wanted.from = Min({i, n}) /\ Wanted.to = Min({k, n})
      BY <2>3 DEF Wanted
    <3> HIDE DEF i, k, u, n, S
    <3>4. i \in Int /\ k \in Int /\ n \in Int
      BY <2>1, <3>1
    <3>5. Min({i, n}) = IF i <= n THEN i ELSE n
      BY <3>4, MaxMin
    <3>6. Min({k, n}) = IF k <= n THEN k ELSE n
      BY <3>4, MaxMin
    <3> QED
      BY <2>1, <3>1, <3>2, <3>3, <3>5, <3>6
  <2> QED
    BY <2>2, <2>3
<1> QED
  BY CallInvariant, <1>1, PTL

(* The whole of an object comes back whichever way it was encrypted, a range *)
(* of an AES/CBC object that does not start in its first two blocks of       *)
(* AES_BLOCK_SIZE is refused, and no byte of an AES/GCM tag is ever taken    *)
(* for plaintext.                                                            *)
THEOREM GarblesNothing == Spec => []NothingGarbled
<1>1. CallInv => NothingGarbled
  BY DEF CallInv
<1> QED
  BY CallInvariant, <1>1, PTL

(* A range that starts in the first two blocks of an AES/GCM object gives    *)
(* the bytes asked for, in place, but at most its last one.                  *)
THEOREM EarlyRangesArePrefixes == Spec => []EarlyRangeIsPrefix
<1>1. CallInv => EarlyRangeIsPrefix
  BY DEF CallInv
<1> QED
  BY CallInvariant, <1>1, PTL

=============================================================================
