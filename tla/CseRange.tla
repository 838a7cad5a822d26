------------------------------- MODULE CseRange -------------------------------
(****************************************************************************)
(* S3CSE.get_object (src/aioboto3/s3/cse.py:334-487, 559-614): reading a     *)
(* client-side encrypted object, or a range of it.  A range is widened to    *)
(* cipher blocks, fetched, decrypted in counter mode from the block it       *)
(* starts at, and cut to what was asked for.                                 *)
(*                                                                           *)
(* A run of bytes is known by the offsets of its first byte and of the byte  *)
(* after its last one, and by whether the keystream put on it was its own.   *)
(****************************************************************************)
EXTENDS Integers, FiniteSets, FiniteSetsExt

CONSTANTS
    AES_BLOCK_SIZE,        \* 128, used as a number of bytes too
    AES_BLOCK_SIZE_BYTES,  \* 16
    JAVA_LONG_MAX_VALUE,
    Lengths,               \* bound: lengths of the objects considered
    Positions              \* bound: first and last bytes of the ranges asked for

ASSUME BlockAssumption ==
    /\ AES_BLOCK_SIZE_BYTES \in Nat \ {0}
    /\ AES_BLOCK_SIZE = 8 * AES_BLOCK_SIZE_BYTES
ASSUME BoundsAssumption ==
    /\ JAVA_LONG_MAX_VALUE \in Nat
    /\ Lengths \subseteq Nat /\ Positions \subseteq 0..JAVA_LONG_MAX_VALUE
\* "8EiB so I have no issue with hardcoding it" (cse.py:347): no object is that long.
ASSUME LongAssumption ==
    /\ JAVA_LONG_MAX_VALUE >= AES_BLOCK_SIZE
    /\ \A n \in Lengths : n + AES_BLOCK_SIZE_BYTES <= JAVA_LONG_MAX_VALUE

VARIABLES
    object,    \* what is stored: how it was encrypted and its plaintext's length
    step,      \* of the get_object call
    asked,     \* the first and the last byte of Range, or NoRange
    sent,      \* those of the range sent to S3
    response,  \* the bytes of the object S3 sent
    result     \* the body handed to the caller

vars == <<object, step, asked, sent, response, result>>

NoRange == [first |-> -1, last |-> -1]
ByteRange == {r \in [first : Nat, last : Nat] : r.first <= r.last}
Bytes == [from : Nat, to : Nat, clear : BOOLEAN]
Nothing == [from |-> 0, to |-> 0, clear |-> TRUE]

Crypto == {"none", "cbc_v1", "cbc_v2", "gcm"}

TypeOK ==
    /\ object \in [crypto : Crypto, length : Lengths]
    /\ step \in {"called", "sent", "answered", "returned", "raised"}
    /\ asked \in ByteRange \cup {NoRange}
    /\ sent \in ByteRange \cup {NoRange}
    /\ response \in Bytes
    /\ result \in Bytes

\* int(x-amz-tag-len) // 8, in bytes
TagLength == AES_BLOCK_SIZE \div 8

\* put_object: the length of what it stores.
StoredLength(o) ==
    CASE o.crypto = "none" -> o.length
      [] o.crypto = "gcm" -> o.length + TagLength
      [] OTHER -> (o.length \div AES_BLOCK_SIZE_BYTES + 1) * AES_BLOCK_SIZE_BYTES

\* The end of an open range is the largest number but one.
Init ==
    /\ object \in [crypto : Crypto, length : Lengths]
    /\ step = "called"
    /\ asked \in {NoRange} \cup
                 {r \in [first : Positions, last : Positions \cup {JAVA_LONG_MAX_VALUE - 1}] :
                     r.first <= r.last}
    /\ sent = NoRange
    /\ response = Nothing /\ result = Nothing

-----------------------------------------------------------------------------
(* The range that is sent.                                                   *)

\* Mutants: not clamped at 0; the block after; the block `value` is in.
LowerBoundUnclamped(value) == value - (value % AES_BLOCK_SIZE) - AES_BLOCK_SIZE
LowerBoundAfter(value) == value - (value % AES_BLOCK_SIZE) + AES_BLOCK_SIZE
LowerBoundOwn(value) == value - (value % AES_BLOCK_SIZE)

\* _get_cipher_block_lower_bound
LowerBound(value) == Max({value - (value % AES_BLOCK_SIZE) - AES_BLOCK_SIZE, 0})

\* _get_cipher_block_upper_bound
UpperBound(value) ==
    LET offset == AES_BLOCK_SIZE - (value % AES_BLOCK_SIZE)
    IN  Min({value + offset + AES_BLOCK_SIZE, JAVA_LONG_MAX_VALUE})

SendRequest ==
    /\ step = "called"
    /\ step' = "sent"
    /\ sent' = IF asked = NoRange
               THEN NoRange
               ELSE [first |-> LowerBound(asked.first), last |-> UpperBound(asked.last)]
    /\ UNCHANGED <<object, asked, response, result>>

\* S3 cuts the range to the object.
S3Answers ==
    /\ step = "sent"
    /\ step' = "answered"
    /\ \/ /\ sent = NoRange
          /\ response' = [from |-> 0, to |-> StoredLength(object), clear |-> FALSE]
       \/ /\ sent # NoRange /\ sent.first < StoredLength(object)
          /\ response' = [from |-> sent.first, clear |-> FALSE,
                          to |-> Min({sent.last + 1, StoredLength(object)})]
    /\ UNCHANGED <<object, asked, sent, result>>

\* InvalidRange
S3Refuses ==
    /\ step = "sent"
    /\ sent # NoRange /\ sent.first >= StoredLength(object)
    /\ step' = "raised"
    /\ UNCHANGED <<object, asked, sent, response, result>>

-----------------------------------------------------------------------------
(* Decryption.                                                               *)

Returns(bytes) ==
    /\ step' = "returned"
    /\ result' = bytes

Raises == step' = "raised" /\ UNCHANGED result

Plaintext == [from |-> 0, to |-> object.length, clear |-> TRUE]

\* Without x-amz-key metadata the response is handed on as it came.
NotEncrypted ==
    /\ step = "answered" /\ object.crypto = "none"
    /\ Returns([response EXCEPT !.clear = TRUE])
    /\ UNCHANGED <<object, asked, sent, response>>

\* Mutant: no range is refused.
NoRangeRefused == FALSE

\* `if range_start: raise`, which lets 0 pass.
RangeRefused == sent # NoRange /\ sent.first # 0

\* _decrypt_v1 and the CBC branch of _decrypt_v2: finalize and the unpadder
\* accept the whole ciphertext, and a range that starts later deciphers to
\* anything; one that stops short is not made of whole blocks.
DecryptCBC ==
    /\ step = "answered" /\ object.crypto \in {"cbc_v1", "cbc_v2"}
    /\ IF RangeRefused \/ (response.to - response.from) % AES_BLOCK_SIZE_BYTES # 0
       THEN Raises
       ELSE Returns([from |-> response.from, to |-> Max({response.from, object.length}),
                     clear |-> response.from = 0])
    /\ UNCHANGED <<object, asked, sent, response>>

DecryptWholeGCM ==
    /\ step = "answered" /\ object.crypto = "gcm" /\ sent = NoRange
    /\ Returns(Plaintext)
    /\ UNCHANGED <<object, asked, sent, response>>

\* _adjust_iv_for_range: the block whose counter deciphering starts with.
BlockOffset(byte_offset) == byte_offset \div AES_BLOCK_SIZE

\* result[i:j] of `length` bytes: a negative index counts from the end.
Slice(length, i, j) ==
    LET At(k) == IF k < 0 THEN Max({k + length, 0}) ELSE Min({k, length})
    IN  [from |-> At(i), to |-> Max({At(i), At(j)})]

\* max_offset; entire_file_length is the length of the response.
MaxOffset(length) == length - TagLength - 1

DecryptRangeGCM ==
    /\ step = "answered" /\ object.crypto = "gcm" /\ sent # NoRange
    /\ LET length == response.to - response.from
           chop   == Slice(length, asked.first, Min({asked.last, MaxOffset(length)}))
       IN  Returns([from  |-> response.from + chop.from,
                    to    |-> response.from + chop.to,
                    clear |-> BlockOffset(response.from) * AES_BLOCK_SIZE_BYTES = response.from])
    /\ UNCHANGED <<object, asked, sent, response>>

-----------------------------------------------------------------------------
Next == SendRequest \/ S3Answers \/ S3Refuses \/ NotEncrypted \/ DecryptCBC
        \/ DecryptWholeGCM \/ DecryptRangeGCM

Spec == Init /\ [][Next]_vars

-----------------------------------------------------------------------------
(* Properties.                                                               *)

\* The bytes of the object that were asked for.
Wanted ==
    IF asked = NoRange
    THEN Plaintext
    ELSE [from |-> Min({asked.first, object.length}),
          to |-> Min({asked.last + 1, object.length}), clear |-> TRUE]

Same(a, b) == a = b \/ (a.from = a.to /\ b.from = b.to)

\* Every byte that was asked for, and is there, is fetched (line 368).
RangeIsFetched ==
    step \in {"answered", "returned"} /\ Wanted.from < Wanted.to =>
        response.from <= Wanted.from /\ Wanted.to <= response.to

\* Asking for no range is never refused and gives the plaintext, whichever way
\* it was encrypted.  A range of an AES/CBC object is refused (lines 400, 476)
\* unless it starts in the first two blocks of AES_BLOCK_SIZE: RangeAsExpected
\* is about those.  A range of an AES/GCM object holds no byte of the
\* authentication tag, unless the object is empty.
NothingGarbled ==
    /\ asked = NoRange /\ step \in {"returned", "raised"} =>
           step = "returned" /\ result = Plaintext
    /\ step = "returned" /\ object.crypto \in {"cbc_v1", "cbc_v2"} /\ asked # NoRange =>
           asked.first < 2 * AES_BLOCK_SIZE
    /\ step = "returned" /\ object.crypto = "gcm" /\ object.length > 0
       /\ result.from < result.to => result.to <= object.length

\* A range that starts in the first two blocks of AES_BLOCK_SIZE gives what was
\* asked for but at most its last byte.
EarlyRangeIsPrefix ==
    step = "returned" /\ object.crypto = "gcm" /\ object.length > 0
    /\ asked.first \in 0..(2 * AES_BLOCK_SIZE - 1) =>
        \/ /\ result.clear /\ result.from = Wanted.from
           /\ result.to \in {Wanted.to - 1, Wanted.to}
        \/ result.from >= result.to /\ Wanted.to <= Wanted.from

\* A range of an AES/GCM object is "what the user is expecting" (line 351), and
\* one of an AES/CBC object is never answered: "Cant do range get when not using
\* KMS encryption" (line 400), "Cannot decrypt AES-CBC file with range" (476).
RangeAsExpected ==
    step = "returned" /\ asked # NoRange =>
        /\ object.crypto = "gcm" => Same(result, Wanted)
        /\ object.crypto \notin {"cbc_v1", "cbc_v2"}

=============================================================================
