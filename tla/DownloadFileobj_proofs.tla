------------------------ MODULE DownloadFileobj_proofs ------------------------
(****************************************************************************)
(* What download_fileobj guarantees for an object of any length, any chunk   *)
(* size, any number of requests at a time, any number of overwrites of the   *)
(* object meanwhile and any of the faults.                                   *)
(****************************************************************************)
EXTENDS DownloadFileobj, FiniteSetTheorems, TLAPS

-----------------------------------------------------------------------------
(* The invariant.                                                            *)

\* What can have been sent by now: nothing of a version that is yet to come.
Sent == {c \in Content : c.v <= version}

\* Where a _download_part has what it was sent.
Served == {"body", "lock", "done"} \cup Writing

\* Nothing is sent, queued or held back that is of a later version, and the
\* bytes in the file are where they belong.
DataInv ==
  /\ content \in [AllParts -> Sent]
  /\ io_queue \in Seq(Sent) /\ io_list \subseteq Sent
  /\ \A i \in DOMAIN file : file[i] = Hole \/ (file[i].at = i /\ file[i].v <= version)

\* A part that runs is one of the object's, was sent the start of its range, and
\* takes the lock only for an asynchronous file.
PartsInv ==
  /\ \A p \in AllParts : part[p] # "none" <=> p \in Parts
  /\ \A p \in AllParts : part[p] \in Served =>
         content[p].lo = Start(p) /\ content[p].hi <= End(p)
  /\ \A p \in AllParts : part[p] \in {"lock", "seek", "write"} => kind \in {"async", "named"}
  /\ \A p \in cancelling : p \in Parts /\ part[p] \notin Finished \cup {"none"}

\* The lock keeps seek and write of one part together.
LockInv ==
  /\ \A p, q \in AllParts : part[p] \in Writing /\ part[q] \in Writing => p = q
  /\ \A p \in AllParts : part[p] = "write" => position = Start(p)

\* As long as the object is the one head_object saw, parts are complete.
CompleteInv ==
  version = 1 =>
      /\ total_size = size \/ total_size = 0
      /\ \A p \in AllParts : part[p] \in Served => content[p].hi = End(p)

\* Where the caller's task is says what has been started and what is over.
MainInv ==
  /\ main = "head" => /\ total_size = 0 /\ outcome = "running"
                      /\ queue_reader = "none" /\ ~swallowed
  /\ main \in {"gather", "queue_reader"} =>
         outcome = "running" /\ (kind = "stream" <=> queue_reader # "none")
  /\ main = "queue_reader" => GatherDone
  /\ outcome = "returned" =>
         GatherDone /\ (IF kind = "stream" THEN queue_reader = "done"
                                           ELSE queue_reader = "none")

\* The queue_reader of a stream has written every byte before written_pos, which
\* is where the stream is, and is over only at the end or when it was cancelled.
QueueInv ==
  /\ queue_reader # "none" => kind = "stream"
  /\ swallowed => queue_reader = "done"
  /\ kind = "stream" /\ ~swallowed =>
         position = written_pos /\ \A i \in DOMAIN file : i < written_pos => file[i] # Hole
  /\ queue_reader = "done" /\ ~swallowed => total_size <= written_pos

\* The bytes of the parts that are done: any other file than a stream holds
\* them, and Callback has been told of as many.
Delivered ==
  {i \in 0..(MaxSize - 1) :
      \E p \in AllParts : part[p] = "done" /\ Start(p) <= i /\ i < content[p].hi}

DeliveredInv ==
  /\ kind # "stream" => \A i \in Delivered : file[i] # Hole
  /\ total_downloaded = Cardinality(Delivered)

DownloadInv ==
  /\ TypeOK /\ DataInv /\ PartsInv /\ LockInv /\ CompleteInv /\ MainInv /\ QueueInv
  /\ DeliveredInv /\ (closed => kind = "named")

-----------------------------------------------------------------------------
(* Offsets and ranges.                                                       *)

LEMMA Sizes ==
  /\ MultipartChunksize \in Nat /\ MultipartChunksize > 0
  /\ MaxSize \in Nat /\ MaxVersions \in Nat /\ MaxVersions > 0
BY SizesAssumption

LEMMA MinOfTwo == \A a, b \in Int : Min({a, b}) = IF a <= b THEN a ELSE b
<1> SUFFICES ASSUME NEW a \in Int, NEW b \in Int
             PROVE  Min({a, b}) = IF a <= b THEN a ELSE b
  OBVIOUS
<1>1. \A x \in {a, b} : (\A y \in {a, b} : x =< y) => x = IF a <= b THEN a ELSE b
  OBVIOUS
<1>2. \E x \in {a, b} : \A y \in {a, b} : x =< y
  OBVIOUS
<1> QED
  BY <1>1, <1>2 DEF Min

(* The parts of an object are disjoint ranges of it.                         *)
LEMMA PartFacts ==
  /\ \A p \in AllParts : p \in Nat /\ Start(p) \in Nat /\ Start(p) < MaxSize
  /\ \A p, q \in AllParts : p # q => \/ Start(p) + MultipartChunksize <= Start(q)
                                     \/ Start(q) + MultipartChunksize <= Start(p)
  /\ \A n \in 0..MaxSize : /\ PartsOf(n) \subseteq AllParts
                           /\ \A p \in PartsOf(n) : Start(p) < n
<1> DEFINE M == MultipartChunksize
<1>1. M \in Nat /\ M > 0 /\ MaxSize \in Nat
  BY Sizes
<1>2. \A p \in Nat : Start(p) = p * M
  BY DEF Start
<1> HIDE DEF M
<1>3. \A p \in Nat : p * M \in Nat
  BY <1>1
<1>4. \A p, q \in Nat : p < q => p * M + M <= q * M
  BY <1>1
<1>5. \A p \in AllParts : p \in Nat /\ Start(p) \in Nat /\ Start(p) < MaxSize
  BY <1>1, <1>2, <1>3 DEF AllParts, PartsOf
<1>6. ASSUME NEW p \in AllParts, NEW q \in AllParts, p # q
      PROVE  Start(p) + M <= Start(q) \/ Start(q) + M <= Start(p)
  <2>1. CASE p < q
    BY <1>2, <1>4, <1>5, <2>1
  <2>2. CASE q < p
    BY <1>2, <1>4, <1>5, <2>2
  <2> QED
    BY <1>5, <1>6, <2>1, <2>2
<1>7. ASSUME NEW n \in 0..MaxSize
      PROVE  PartsOf(n) \subseteq AllParts /\ \A p \in PartsOf(n) : Start(p) < n
  <2>1. \A p \in PartsOf(n) : p \in 0..MaxSize /\ p \in Nat /\ Start(p) < n
    BY <1>1 DEF PartsOf
  <2>2. \A p \in PartsOf(n) : Start(p) \in Nat /\ Start(p) < MaxSize
    BY <1>1, <1>2, <1>3, <2>1
  <2> QED
    BY <2>1, <2>2 DEF AllParts, PartsOf
<1> QED
  BY <1>5, <1>6, <1>7 DEF M

(* The range of a part.                                                      *)
LEMMA EndFacts ==
  ASSUME TypeOK, NEW p \in Parts
  PROVE  /\ p \in AllParts /\ Start(p) \in Nat /\ Start(p) < total_size
         /\ End(p) \in Nat /\ Start(p) < End(p) /\ End(p) <= total_size
         /\ End(p) <= Start(p) + MultipartChunksize
         /\ End(p) = total_size \/ End(p) = Start(p) + MultipartChunksize
<1>1. total_size \in 0..MaxSize /\ total_size \in Nat
  BY Sizes DEF TypeOK
<1>2. p \in AllParts /\ Start(p) \in Nat /\ Start(p) < total_size
  BY <1>1, PartFacts DEF Parts
<1> DEFINE a == Start(p) + MultipartChunksize
<1>3. a \in Int /\ total_size \in Int
  BY <1>1, <1>2, Sizes
<1>4. End(p) = Min({a, total_size})
  BY DEF End
<1> HIDE DEF a
<1>5. End(p) = IF a <= total_size THEN a ELSE total_size
  BY <1>3, <1>4, MinOfTwo
<1> QED
  BY <1>1, <1>2, <1>5, Sizes DEF a

(* Every byte of the object is in the range of a part.                       *)
LEMMA EveryByteInAPart ==
  ASSUME TypeOK, NEW i \in 0..(total_size - 1)
  PROVE  \E p \in Parts : Start(p) <= i /\ i < End(p)
<1> DEFINE M == MultipartChunksize
           p == i \div M
<1>1. M \in Nat /\ M > 0 /\ total_size \in Nat /\ total_size <= MaxSize /\ MaxSize \in Nat
  BY Sizes DEF TypeOK
<1>2. i \in Nat /\ i < total_size
  BY <1>1
<1>3. p \in Nat /\ p * M <= i /\ i < p * M + M
  <2>1. \A a \in Nat, b \in Nat \ {0} : /\ a \div b \in Nat /\ (a \div b) * b <= a
                                        /\ a < (a \div b) * b + b
    OBVIOUS
  <2> QED
    BY <1>1, <1>2, <2>1
<1>4. Start(p) = p * M
  BY DEF Start
<1> HIDE DEF M, p
<1>5. p <= p * M
  BY <1>1, <1>3
<1>6. p \in PartsOf(total_size)
  BY <1>1, <1>2, <1>3, <1>4, <1>5 DEF PartsOf
<1>7. p \in Parts /\ (End(p) = total_size \/ End(p) = Start(p) + M)
  BY <1>6, EndFacts DEF Parts, M
<1> QED
  BY <1>2, <1>3, <1>4, <1>7

(* A write at the offset the chunk has in the object: every byte of it lands *)
(* where it belongs, and no other byte changes.                              *)
LEMMA WriteInPlace ==
  ASSUME TypeOK, DataInv, NEW c \in Sent, NEW at \in Nat, at = c.lo, WriteAt(at, c)
  PROVE  /\ file' \in [0..(MaxSize - 1) -> Byte]
         /\ position' \in Nat /\ position' = c.hi
         /\ \A i \in DOMAIN file' : file'[i] = Hole \/ (file'[i].at = i /\ file'[i].v <= version)
         /\ \A i \in DOMAIN file : file[i] # Hole => file'[i] # Hole
         /\ \A i \in DOMAIN file : c.lo <= i /\ i < c.hi => file'[i] # Hole
<1>1. /\ c.v \in 1..MaxVersions /\ c.v <= version
      /\ c.lo \in Nat /\ c.hi \in Nat /\ c.lo <= c.hi /\ c.hi <= MaxSize
  BY Sizes DEF Sent, Content
<1>2. /\ DOMAIN file = 0..(MaxSize - 1) /\ MaxSize \in Nat
      /\ \A i \in DOMAIN file : file[i] \in Byte
  BY Sizes DEF TypeOK
<1>3. \A i \in DOMAIN file : i \in at..(at + Length(c) - 1) <=> c.lo <= i /\ i < c.hi
  BY <1>1, <1>2 DEF Length
<1>4. file' = [i \in DOMAIN file |-> IF i \in at..(at + Length(c) - 1)
                                     THEN [v |-> c.v, at |-> c.lo + i - at]
                                     ELSE file[i]]
  BY DEF WriteAt
<1>5. \A i \in DOMAIN file : c.lo <= i /\ i < c.hi => file'[i] = [v |-> c.v, at |-> i]
  BY <1>1, <1>2, <1>3, <1>4
<1>6. \A i \in DOMAIN file : ~(c.lo <= i /\ i < c.hi) => file'[i] = file[i]
  BY <1>2, <1>3, <1>4
<1>7. DOMAIN file' = DOMAIN file
  BY <1>4
<1>8. \A i \in DOMAIN file : [v |-> c.v, at |-> i] \in Byte /\ [v |-> c.v, at |-> i] # Hole
  BY <1>1, <1>2 DEF Byte, Hole
<1>9. \A i \in DOMAIN file : file'[i] \in Byte
  BY <1>2, <1>5, <1>6, <1>8
<1>10. position' = c.hi
  BY <1>1 DEF WriteAt, Length
<1>11. file' \in [0..(MaxSize - 1) -> Byte]
  BY <1>2, <1>4, <1>7, <1>9
<1>12. \A i \in DOMAIN file' : file'[i] = Hole \/ (file'[i].at = i /\ file'[i].v <= version)
  BY <1>1, <1>5, <1>6, <1>7 DEF DataInv
<1> QED
  BY <1>1, <1>5, <1>6, <1>8, <1>10, <1>11, <1>12

-----------------------------------------------------------------------------
LEMMA InvInit == Init => DownloadInv
<1> SUFFICES ASSUME Init PROVE DownloadInv
  OBVIOUS
<1> USE Sizes DEF Init
<1>1. NoContent \in Sent /\ NoContent \in Content
  BY DEF NoContent, Sent, Content
<1>2. TypeOK
  <2>1. file \in [0..(MaxSize - 1) -> Byte]
    BY DEF Byte
  <2>2. content \in [AllParts -> Content]
    BY <1>1
  <2>3. part \in [AllParts -> Waiting \cup Holding \cup Finished]
    BY DEF Waiting
  <2>4. io_queue \in Seq(Content)
    OBVIOUS
  <2>5. /\ version \in 1..MaxVersions /\ total_size \in 0..MaxSize
        /\ total_downloaded \in 0..MaxSize /\ written_pos \in 0..MaxSize /\ position \in Nat
    OBVIOUS
  <2>6. /\ main \in {"head", "gather", "queue_reader", "done"}
        /\ outcome \in {"running", "returned", "raised", "cancelled"}
        /\ queue_reader \in {"none", "get", "write"} \cup Finished
    OBVIOUS
  <2>7. closed \in BOOLEAN /\ swallowed \in BOOLEAN /\ io_list \subseteq Content
        /\ cancelling \subseteq AllParts
    OBVIOUS
  <2>8. kind \in {"async", "sync", "stream", "named"} /\ size \in 0..MaxSize
    OBVIOUS
  <2> QED
    BY <2>1, <2>2, <2>3, <2>4, <2>5, <2>6, <2>7, <2>8, Zenon DEF TypeOK
<1>3. DataInv
  BY <1>1 DEF DataInv
<1>4. PartsInv /\ LockInv
  <2>1. \A p \in AllParts : p \notin Parts
    <3>1. \A p \in Parts : Start(p) < 0
      BY PartFacts DEF Parts
    <3> QED
      BY <3>1, PartFacts
  <2> QED
    BY <2>1 DEF PartsInv, LockInv, Served, Writing, Finished
<1>5. CompleteInv /\ MainInv /\ QueueInv
  <2>1. \A i \in DOMAIN file : ~(i < 0)
    OBVIOUS
  <2> QED
    BY <2>1 DEF CompleteInv, MainInv, QueueInv, Served, Writing
<1>6. DeliveredInv
  <2>1. Delivered = {}
    BY DEF Delivered
  <2> QED
    BY <2>1, FS_EmptySet DEF DeliveredInv
<1> QED
  BY <1>2, <1>3, <1>4, <1>5, <1>6 DEF DownloadInv

-----------------------------------------------------------------------------
(* Steps of a part.                                                          *)

(* While a part runs the gather does.                                        *)
LEMMA RunningPart ==
  ASSUME DownloadInv, NEW p \in AllParts, part[p] \notin Finished \cup {"none"}
  PROVE  /\ p \in Parts /\ ~GatherDone
         /\ main # "head" /\ main # "queue_reader" /\ outcome # "returned"
<1> USE DEF DownloadInv
<1>1. p \in Parts
  BY DEF PartsInv
<1>2. ~GatherDone
  BY <1>1 DEF GatherDone, Finished
<1>3. main # "head"
  <2>1. total_size \in Nat /\ Start(p) \in Nat /\ Start(p) < total_size
    BY <1>1, EndFacts, Sizes DEF TypeOK
  <2>2. total_size # 0
    BY <2>1
  <2> QED
    BY <2>2 DEF MainInv
<1> QED
  BY <1>1, <1>2, <1>3 DEF MainInv

(* What a part was sent is a run of bytes of its range.                      *)
LEMMA ServedPart ==
  ASSUME DownloadInv, NEW p \in AllParts, part[p] \in Served
  PROVE  /\ p \in Parts /\ content[p] \in Sent
         /\ content[p].v \in 1..MaxVersions /\ content[p].v <= version
         /\ content[p].lo = Start(p) /\ content[p].hi <= End(p)
         /\ content[p].lo \in Nat /\ content[p].hi \in Nat
         /\ content[p].lo <= content[p].hi /\ content[p].hi <= MaxSize
<1> USE DEF DownloadInv
<1>1. content[p] \in Sent
  BY DEF DataInv
<1>2. p \in Parts /\ content[p].lo = Start(p) /\ content[p].hi <= End(p)
  BY DEF PartsInv, Served, Writing
<1>3. /\ content[p].v \in 1..MaxVersions /\ content[p].v <= version
      /\ content[p].lo \in 0..MaxSize /\ content[p].hi \in 0..MaxSize
      /\ content[p].lo <= content[p].hi
  BY <1>1 DEF Sent, Content
<1> QED
  BY <1>1, <1>2, <1>3, Sizes

(* A part that moves on without having written or completed anything.        *)
LEMMA PartMoves ==
  ASSUME DownloadInv, NEW p \in AllParts, NEW to \in (Waiting \cup Holding \cup Finished) \ {"none", "done"},
         part[p] \notin Finished \cup {"none"},
         Goes(p, to),
         UNCHANGED <<kind, closed, objectVars, mainVars, content, total_downloaded, queueVars, file>>,
         cancelling' \in {cancelling, cancelling \ {p}},
         to \in Finished => p \notin cancelling',
         to \in Served => part[p] \in Served,
         to \in {"lock", "seek", "write"} => kind \in {"async", "named"},
         to \in Writing => part[p] \in Writing \/ LockIsFree,
         IF part[p] = "seek" /\ to = "write" THEN position' = Start(p)
                                             ELSE position' = position /\ to # "write"
  PROVE  DownloadInv'
<1> USE DEF DownloadInv
<1>1. p \in Parts /\ main # "head" /\ main # "queue_reader" /\ outcome # "returned"
  BY RunningPart
<1>2. /\ part'[p] = to /\ \A q \in AllParts : q # p => part'[q] = part[q]
      /\ part' \in [AllParts -> Waiting \cup Holding \cup Finished]
  BY DEF TypeOK, Goes
<1>3. /\ UNCHANGED <<kind, closed, version, size, main, outcome, total_size, content,
                     total_downloaded, io_queue, io_list, queue_reader, written_pos, swallowed, file>>
      /\ UNCHANGED <<Sent, Parts>> /\ \A q \in AllParts : UNCHANGED <<Start(q), End(q)>>
  BY DEF objectVars, mainVars, queueVars, Sent, Parts, Start, End
<1>4. TypeOK'
  <2>1. cancelling' \subseteq AllParts /\ position' \in Nat
    BY PartFacts DEF TypeOK
  <2> QED
    BY <1>2, <1>3, <2>1 DEF TypeOK
<1>5. DataInv'
  BY <1>3 DEF DataInv
<1>6. PartsInv'
  <2>1. \A q \in AllParts : part'[q] # "none" <=> q \in Parts
    BY <1>1, <1>2 DEF PartsInv
  <2>2. \A q \in AllParts : part'[q] \in Served => part[q] \in Served
    BY <1>2
  <2>3. \A q \in AllParts : part'[q] \in {"lock", "seek", "write"} => kind \in {"async", "named"}
    BY <1>2 DEF PartsInv
  <2>4. \A q \in cancelling' : q \in Parts /\ part'[q] \notin Finished \cup {"none"}
    BY <1>2 DEF PartsInv, TypeOK
  <2> QED
    BY <1>3, <2>1, <2>2, <2>3, <2>4 DEF PartsInv
<1>7. LockInv'
  <2>1. \A q \in AllParts : q # p /\ to \in Writing => part[q] \notin Writing
    <3>1. CASE part[p] \in Writing
      BY <3>1 DEF LockInv
    <3>2. CASE LockIsFree
      BY <3>2 DEF LockIsFree, PartsInv, Writing
    <3> QED
      BY <3>1, <3>2
  <2>2. \A q, r \in AllParts : part'[q] \in Writing /\ part'[r] \in Writing => q = r
    BY <1>2, <2>1 DEF LockInv
  <2>3. to = "write" => position' = Start(p)
    OBVIOUS
  <2>4. \A q \in AllParts : q # p /\ part'[q] = "write" => position' = Start(q)
    <3> SUFFICES ASSUME NEW q \in AllParts, q # p, part'[q] = "write"
                 PROVE  position' = Start(q)
      OBVIOUS
    <3>1. part[q] = "write" /\ position = Start(q)
      BY <1>2 DEF LockInv
    <3>2. ~(part[p] = "seek" /\ to = "write")
      BY <3>1, <2>1 DEF Writing
    <3> QED
      BY <3>1, <3>2
  <2> QED
    BY <1>2, <1>3, <2>2, <2>3, <2>4 DEF LockInv
<1>8. CompleteInv'
  <2>1. \A q \in AllParts : part'[q] \in Served => part[q] \in Served
    BY <1>2
  <2> QED
    BY <1>3, <2>1 DEF CompleteInv
<1>9. MainInv'
  BY <1>1, <1>3 DEF MainInv
<1>10. QueueInv'
  <2>1. kind = "stream" => UNCHANGED position
    BY DEF PartsInv
  <2> QED
    BY <1>3, <2>1 DEF QueueInv
<1>11. DeliveredInv'
  <2>1. \A q \in AllParts : part'[q] = "done" <=> part[q] = "done"
    BY <1>2 DEF Finished
  <2>2. Delivered' = Delivered
    BY <1>3, <2>1 DEF Delivered
  <2> QED
    BY <1>3, <2>2 DEF DeliveredInv
<1> QED
  BY <1>3, <1>4, <1>5, <1>6, <1>7, <1>8, <1>9, <1>10, <1>11

(* A part that gets its range of the object as it is now.                    *)
LEMMA PartIsServed ==
  ASSUME DownloadInv, NEW p \in AllParts, GetSucceeds(p)
  PROVE  DownloadInv'
<1> USE DEF DownloadInv
<1> DEFINE c == [v |-> version, lo |-> Start(p), hi |-> Min({End(p), size})]
<1>1. /\ part[p] = "get" /\ Start(p) < size
      /\ content' = [content EXCEPT ![p] = c] /\ part' = [part EXCEPT ![p] = "body"]
      /\ UNCHANGED <<kind, closed, version, size, main, outcome, total_size, cancelling,
                     total_downloaded, io_queue, io_list, queue_reader, written_pos, swallowed,
                     position, file>>
  BY DEF GetSucceeds, Runs, Goes, others, objectVars, mainVars, queueVars, fileVars
<1>2. p \in Parts /\ main # "head" /\ main # "queue_reader" /\ outcome # "returned"
  BY <1>1, RunningPart DEF Finished
<1>3. /\ Start(p) \in Nat /\ End(p) \in Nat /\ Start(p) < End(p) /\ End(p) <= total_size
      /\ Start(p) < total_size
  BY <1>2, EndFacts
<1>4. /\ size \in Nat /\ size <= MaxSize /\ total_size \in Nat /\ total_size <= MaxSize
      /\ version \in 1..MaxVersions /\ MaxSize \in Nat
  BY Sizes DEF TypeOK
<1>5. Min({End(p), size}) = IF End(p) <= size THEN End(p) ELSE size
  <2>1. End(p) \in Int /\ size \in Int
    BY <1>3, <1>4
  <2> QED
    BY <2>1, MinOfTwo
<1>6. /\ c.lo = Start(p) /\ c.hi \in Nat /\ Start(p) <= c.hi /\ c.hi <= End(p)
      /\ End(p) <= size => c.hi = End(p)
      /\ c.v = version
  BY <1>1, <1>3, <1>4, <1>5
<1>7. c \in Content /\ c \in Sent
  <2>1. Start(p) \in 0..MaxSize /\ Min({End(p), size}) \in 0..MaxSize
    BY <1>3, <1>4, <1>6
  <2>2. c \in Content
    BY <1>4, <1>6, <2>1 DEF Content
  <2> QED
    BY <1>4, <1>6, <2>2 DEF Sent
<1> HIDE DEF c
<1>8. /\ part'[p] = "body" /\ \A q \in AllParts : q # p => part'[q] = part[q]
      /\ part' \in [AllParts -> Waiting \cup Holding \cup Finished]
  BY <1>1 DEF TypeOK, Holding
<1>9. /\ content'[p] = c /\ \A q \in AllParts : q # p => content'[q] = content[q]
      /\ content' \in [AllParts -> Content] /\ content' \in [AllParts -> Sent]
  BY <1>1, <1>7 DEF TypeOK, DataInv
<1>10. /\ UNCHANGED <<Sent, Parts>> /\ \A q \in AllParts : UNCHANGED <<Start(q), End(q)>>
  BY <1>1 DEF Sent, Parts, Start, End
<1>11. TypeOK' /\ DataInv'
  BY <1>1, <1>8, <1>9, <1>10 DEF TypeOK, DataInv
<1>12. PartsInv'
  <2>1. \A q \in AllParts : part'[q] \in Served =>
          content'[q].lo = Start(q) /\ content'[q].hi <= End(q)
    BY <1>6, <1>8, <1>9 DEF PartsInv
  <2>2. \A q \in AllParts : part'[q] # "none" <=> q \in Parts
    BY <1>2, <1>8 DEF PartsInv
  <2>3. \A q \in AllParts : part'[q] \in {"lock", "seek", "write"} => kind \in {"async", "named"}
    BY <1>8 DEF PartsInv
  <2>4. \A q \in cancelling' : q \in Parts /\ part'[q] \notin Finished \cup {"none"}
    BY <1>1, <1>8 DEF PartsInv, TypeOK, Finished
  <2> QED
    BY <1>1, <1>10, <2>1, <2>2, <2>3, <2>4 DEF PartsInv
<1>13. LockInv'
  <2>1. \A q \in AllParts : part'[q] \in Writing => part[q] = part'[q]
    BY <1>8 DEF Writing
  <2> QED
    BY <1>1, <1>10, <2>1 DEF LockInv, Writing
<1>14. CompleteInv'
  <2>1. version = 1 => End(p) <= size
    <3>1. version = 1 => total_size = size
      BY <1>3, <1>4 DEF CompleteInv
    <3> QED
      BY <1>3, <1>4, <3>1
  <2>2. version = 1 => \A q \in AllParts : part'[q] \in Served => content'[q].hi = End(q)
    BY <1>6, <1>8, <1>9, <2>1 DEF CompleteInv
  <2> QED
    BY <1>1, <1>10, <2>2 DEF CompleteInv
<1>15. MainInv'
  BY <1>1, <1>2 DEF MainInv
<1>16. QueueInv'
  BY <1>1 DEF QueueInv
<1>17. DeliveredInv'
  <2>1. \A q \in AllParts : /\ part'[q] = "done" <=> part[q] = "done"
                            /\ part[q] = "done" => content'[q] = content[q]
    BY <1>1, <1>8, <1>9
  <2>2. Delivered' = Delivered
    BY <1>10, <2>1 DEF Delivered
  <2> QED
    BY <1>1, <2>2 DEF DeliveredInv
<1> QED
  BY <1>1, <1>11, <1>12, <1>13, <1>14, <1>15, <1>16, <1>17

(* A part that ends, whatever became of its bytes.                           *)
LEMMA PartEnds ==
  ASSUME DownloadInv, NEW p \in AllParts, NEW to \in {"done", "cancelled"},
         part[p] \in Served \ {"done"}, Goes(p, to),
         UNCHANGED <<kind, closed, objectVars, mainVars, content, queue_reader, swallowed>>,
         cancelling' \in {cancelling, cancelling \ {p}}, p \notin cancelling'
  PROVE  /\ PartsInv' /\ CompleteInv' /\ MainInv' /\ (closed' => kind' = "named")
         /\ p \in Parts /\ part'[p] = to /\ \A q \in AllParts : q # p => part'[q] = part[q]
         /\ part' \in [AllParts -> Waiting \cup Holding \cup Finished]
         /\ cancelling' \subseteq AllParts
         /\ UNCHANGED <<version, size, main, outcome, total_size>>
         /\ UNCHANGED <<Sent, Parts>> /\ \A q \in AllParts : UNCHANGED <<Start(q), End(q)>>
<1> USE DEF DownloadInv
<1>1. p \in Parts /\ main # "head" /\ main # "queue_reader" /\ outcome # "returned"
  BY RunningPart DEF Served, Writing, Finished
<1>2. /\ part'[p] = to /\ \A q \in AllParts : q # p => part'[q] = part[q]
      /\ part' \in [AllParts -> Waiting \cup Holding \cup Finished]
  BY DEF TypeOK, Goes, Finished
<1>3. /\ UNCHANGED <<version, size, main, outcome, total_size>>
      /\ UNCHANGED <<Sent, Parts>> /\ \A q \in AllParts : UNCHANGED <<Start(q), End(q)>>
  BY DEF objectVars, mainVars, Sent, Parts, Start, End
<1>4. \A q \in AllParts : part'[q] \in Served => part[q] \in Served
  BY <1>2
<1>5. PartsInv'
  <2>1. \A q \in AllParts : part'[q] # "none" <=> q \in Parts
    BY <1>1, <1>2 DEF PartsInv
  <2>2. \A q \in AllParts : part'[q] \in {"lock", "seek", "write"} => kind \in {"async", "named"}
    BY <1>2 DEF PartsInv
  <2>3. \A q \in cancelling' : q \in Parts /\ part'[q] \notin Finished \cup {"none"}
    BY <1>2 DEF PartsInv, TypeOK
  <2> QED
    BY <1>3, <1>4, <2>1, <2>2, <2>3 DEF PartsInv
<1>6. CompleteInv'
  BY <1>3, <1>4 DEF CompleteInv
<1>7. MainInv'
  BY <1>1, <1>3 DEF MainInv
<1>8. cancelling' \subseteq AllParts
  BY DEF TypeOK
<1> QED
  BY <1>1, <1>2, <1>3, <1>5, <1>6, <1>7, <1>8

(* A part that is done delivers its bytes, which no other part has.          *)
LEMMA PartDelivers ==
  ASSUME DownloadInv, NEW p \in AllParts, part[p] \in Served \ {"done"}, Completes(p),
         UNCHANGED content
  PROVE  /\ Delivered' = Delivered \cup (content[p].lo)..(content[p].hi - 1)
         /\ total_downloaded' \in 0..MaxSize
         /\ total_downloaded' = Cardinality(Delivered')
<1> USE DEF DownloadInv
<1> DEFINE lo == content[p].lo
           hi == content[p].hi
           M == MultipartChunksize
<1>1. p \in Parts /\ lo = Start(p) /\ lo \in Nat /\ hi \in Nat /\ lo <= hi /\ hi <= MaxSize
      /\ hi <= lo + M
  <2>1. /\ p \in Parts /\ lo = Start(p) /\ lo \in Nat /\ hi \in Nat /\ lo <= hi
        /\ hi <= MaxSize /\ hi <= End(p)
    BY ServedPart
  <2>2. End(p) \in Nat /\ End(p) <= Start(p) + M
    BY <2>1, EndFacts
  <2> QED
    BY <2>1, <2>2, Sizes
<1>2. part'[p] = "done" /\ \A q \in AllParts : q # p => part'[q] = part[q]
  BY DEF Completes, Goes, TypeOK
<1>3. MaxSize \in Nat
  BY Sizes
<1>4. \A q \in AllParts : Start(q)' = Start(q) /\ content'[q] = content[q]
  BY DEF Start
<1>5. Delivered' = Delivered \cup lo..(hi - 1)
  <2>1. \A i \in 0..(MaxSize - 1) : i \in Delivered' <=>
          \E q \in AllParts : part'[q] = "done" /\ Start(q) <= i /\ i < content[q].hi
    BY <1>4 DEF Delivered
  <2>2. \A i \in 0..(MaxSize - 1) : i \in Delivered <=>
          \E q \in AllParts : part[q] = "done" /\ Start(q) <= i /\ i < content[q].hi
    BY DEF Delivered
  <2>3. \A i \in 0..(MaxSize - 1) : i \in Delivered' <=> i \in Delivered \/ (lo <= i /\ i < hi)
    <3>1. ASSUME NEW i \in 0..(MaxSize - 1), i \in Delivered'
          PROVE  i \in Delivered \/ (lo <= i /\ i < hi)
      BY <1>1, <1>2, <2>1, <2>2, <3>1
    <3>2. ASSUME NEW i \in 0..(MaxSize - 1), i \in Delivered PROVE i \in Delivered'
      BY <1>2, <2>1, <2>2, <3>2
    <3>3. ASSUME NEW i \in 0..(MaxSize - 1), lo <= i, i < hi PROVE i \in Delivered'
      BY <1>1, <1>2, <2>1, <3>3
    <3> QED
      BY <3>1, <3>2, <3>3
  <2>4. Delivered \subseteq 0..(MaxSize - 1) /\ Delivered' \subseteq 0..(MaxSize - 1)
    BY DEF Delivered
  <2> HIDE DEF lo, hi
  <2>5. lo..(hi - 1) \subseteq 0..(MaxSize - 1)
        /\ \A i \in 0..(MaxSize - 1) : i \in lo..(hi - 1) <=> lo <= i /\ i < hi
    BY <1>1, <1>3
  <2> QED
    BY <2>3, <2>4, <2>5
<1>6. Delivered \cap lo..(hi - 1) = {}
  <2> SUFFICES ASSUME NEW i \in Delivered, i \in lo..(hi - 1) PROVE FALSE
    OBVIOUS
  <2>1. i \in Nat /\ lo <= i /\ i < hi
    BY <1>1
  <2>2. PICK q \in AllParts : part[q] = "done" /\ Start(q) <= i /\ i < content[q].hi
    BY DEF Delivered
  <2>3. q # p
    BY <2>2
  <2>4. content[q].hi <= Start(q) + M /\ Start(q) \in Nat /\ content[q].hi \in Nat
    <3>1. q \in Parts /\ content[q].hi \in Nat /\ content[q].hi <= End(q)
      BY <2>2, ServedPart DEF Served
    <3>2. End(q) \in Nat /\ End(q) <= Start(q) + M /\ Start(q) \in Nat
      BY <3>1, EndFacts
    <3> QED
      BY <3>1, <3>2, Sizes
  <2>5. Start(p) + M <= Start(q) \/ Start(q) + M <= Start(p)
    BY <2>3, PartFacts
  <2> QED
    BY <1>1, <2>1, <2>2, <2>4, <2>5, Sizes
<1>7. IsFiniteSet(Delivered) /\ IsFiniteSet(Delivered') /\ Cardinality(Delivered') <= MaxSize
  <2>1. IsFiniteSet(0..(MaxSize - 1)) /\ Cardinality(0..(MaxSize - 1)) = MaxSize
    <3>1. 0 \in Int /\ MaxSize - 1 \in Int
      BY <1>3
    <3>2. IF 0 > MaxSize - 1 THEN Cardinality(0..(MaxSize - 1)) = 0
                              ELSE Cardinality(0..(MaxSize - 1)) = (MaxSize - 1) - 0 + 1
      BY <3>1, FS_Interval
    <3> QED
      BY <1>3, <3>1, <3>2, FS_Interval
  <2>2. Delivered \subseteq 0..(MaxSize - 1) /\ Delivered' \subseteq 0..(MaxSize - 1)
    BY DEF Delivered
  <2>3. IsFiniteSet(Delivered) /\ IsFiniteSet(Delivered')
    BY <2>1, <2>2, FS_Subset
  <2>4. Cardinality(Delivered') <= Cardinality(0..(MaxSize - 1))
    BY <2>1, <2>2, FS_Subset
  <2> QED
    BY <2>1, <2>3, <2>4
<1>8. IsFiniteSet(lo..(hi - 1)) /\ Cardinality(lo..(hi - 1)) = hi - lo
  <2> HIDE DEF lo, hi
  <2>1. lo \in Int /\ hi - 1 \in Int
    BY <1>1
  <2>2. /\ IsFiniteSet(lo..(hi - 1))
        /\ Cardinality(lo..(hi - 1)) = IF lo > hi - 1 THEN 0 ELSE (hi - 1) - lo + 1
    BY <2>1, FS_Interval
  <2> QED
    BY <1>1, <2>1, <2>2
<1>9. Cardinality(Delivered') = Cardinality(Delivered) + (hi - lo)
  <2> HIDE DEF lo, hi
  <2>1. Cardinality(Delivered \cup lo..(hi - 1)) =
          Cardinality(Delivered) + Cardinality(lo..(hi - 1)) - Cardinality(Delivered \cap lo..(hi - 1))
    BY <1>7, <1>8, FS_Union
  <2>2. Cardinality(Delivered \cap lo..(hi - 1)) = 0
    BY <1>6, FS_EmptySet
  <2>3. Cardinality(Delivered) \in Nat
    BY <1>7, FS_CardinalityType
  <2> QED
    BY <1>1, <1>5, <1>8, <2>1, <2>2, <2>3
<1>10. total_downloaded' = Cardinality(Delivered')
  BY <1>9 DEF Completes, Length, DeliveredInv
<1>11. total_downloaded' \in 0..MaxSize
  <2>1. Cardinality(Delivered') \in Nat
    BY <1>7, FS_CardinalityType
  <2> QED
    BY <1>3, <1>7, <1>10, <2>1
<1> QED
  BY <1>5, <1>10, <1>11

(* A part that writes into a file that can seek, and is done or, when the    *)
(* thread that writes outlives it, cancelled.                                *)
LEMMA PartWrites ==
  ASSUME DownloadInv, NEW p \in AllParts, NEW to \in {"done", "cancelled"},
         part[p] \in Served \ {"done"}, kind # "stream", kind = "sync" \/ part[p] = "write",
         WriteAt(Start(p), content[p]),
         IF to = "done" THEN Completes(p) ELSE Goes(p, to) /\ UNCHANGED total_downloaded,
         UNCHANGED <<kind, closed, objectVars, mainVars, content, queueVars>>,
         cancelling' \in {cancelling, cancelling \ {p}}, p \notin cancelling'
  PROVE  DownloadInv'
<1> USE DEF DownloadInv
<1>1. Goes(p, to)
  BY DEF Completes
<1>2. UNCHANGED <<io_queue, io_list, queue_reader, written_pos, swallowed>>
  BY DEF queueVars
<1>3. /\ PartsInv' /\ CompleteInv' /\ MainInv' /\ (closed' => kind' = "named")
      /\ p \in Parts /\ part'[p] = to /\ \A q \in AllParts : q # p => part'[q] = part[q]
      /\ part' \in [AllParts -> Waiting \cup Holding \cup Finished]
      /\ cancelling' \subseteq AllParts
      /\ UNCHANGED <<version, size, main, outcome, total_size>>
      /\ UNCHANGED <<Sent, Parts>> /\ \A q \in AllParts : UNCHANGED <<Start(q), End(q)>>
  BY <1>1, <1>2, PartEnds
<1>4. /\ content[p] \in Sent /\ content[p].lo = Start(p) /\ Start(p) \in Nat
      /\ content[p].hi \in Nat
  BY ServedPart
<1>5. /\ file' \in [0..(MaxSize - 1) -> Byte]
      /\ position' \in Nat
      /\ \A i \in DOMAIN file' : file'[i] = Hole \/ (file'[i].at = i /\ file'[i].v <= version)
      /\ \A i \in DOMAIN file : file[i] # Hole => file'[i] # Hole
      /\ \A i \in DOMAIN file : content[p].lo <= i /\ i < content[p].hi => file'[i] # Hole
  BY <1>4, WriteInPlace
<1>6. /\ Delivered' = IF to = "done" THEN Delivered \cup (content[p].lo)..(content[p].hi - 1)
                                     ELSE Delivered
      /\ total_downloaded' \in 0..MaxSize
      /\ total_downloaded' = Cardinality(Delivered')
  <2>1. CASE to = "done"
    BY <2>1, PartDelivers
  <2>2. CASE to = "cancelled"
    <3>1. \A q \in AllParts : part'[q] = "done" <=> part[q] = "done"
      BY <1>3, <2>2
    <3>2. Delivered' = Delivered
      BY <1>3, <3>1 DEF Delivered
    <3> QED
      BY <2>2, <3>2 DEF DeliveredInv, TypeOK
  <2> QED
    BY <2>1, <2>2
<1>7. TypeOK'
  BY <1>2, <1>3, <1>5, <1>6 DEF TypeOK
<1>8. DataInv'
  BY <1>2, <1>3, <1>5 DEF DataInv
<1>9. LockInv'
  <2>1. \A q \in AllParts : part'[q] \notin Writing
    <3> SUFFICES ASSUME NEW q \in AllParts, part'[q] \in Writing PROVE FALSE
      OBVIOUS
    <3>1. q # p /\ part[q] \in Writing
      BY <1>3 DEF Writing
    <3>2. CASE part[p] = "write"
      BY <3>1, <3>2 DEF LockInv, Writing
    <3>3. CASE kind = "sync"
      BY <3>1, <3>3 DEF PartsInv, Writing
    <3> QED
      BY <3>2, <3>3
  <2> QED
    BY <2>1 DEF LockInv, Writing
<1>10. QueueInv'
  BY <1>2, <1>3 DEF QueueInv
<1>11. DeliveredInv'
  <2>1. \A i \in Delivered' : i \in DOMAIN file
    <3>1. Delivered' \subseteq 0..(MaxSize - 1)
      BY DEF Delivered
    <3> QED
      BY <3>1 DEF TypeOK
  <2>2. \A i \in Delivered : file[i] # Hole
    BY DEF DeliveredInv
  <2>3. \A i \in Delivered' : file'[i] # Hole
    BY <1>4, <1>5, <1>6, <2>1, <2>2
  <2> QED
    BY <1>6, <2>3 DEF DeliveredInv
<1> QED
  BY <1>3, <1>7, <1>8, <1>9, <1>10, <1>11

(* A part that queues what it was sent.                                      *)
LEMMA PartQueues ==
  ASSUME DownloadInv, NEW p \in AllParts, BodyToQueue(p)
  PROVE  DownloadInv'
<1> USE DEF DownloadInv
<1>1. /\ part[p] = "body" /\ p \notin cancelling /\ kind = "stream" /\ Completes(p)
      /\ io_queue' = Append(io_queue, content[p])
      /\ UNCHANGED <<kind, closed, objectVars, mainVars, cancelling, content, io_list,
                     queue_reader, written_pos, swallowed, position, file>>
  BY DEF BodyToQueue, Runs, others, fileVars
<1>2. Goes(p, "done") /\ part[p] \in Served \ {"done"}
  BY <1>1 DEF Completes, Served
<1>3. /\ PartsInv' /\ CompleteInv' /\ MainInv' /\ (closed' => kind' = "named")
      /\ p \in Parts /\ part'[p] = "done" /\ \A q \in AllParts : q # p => part'[q] = part[q]
      /\ part' \in [AllParts -> Waiting \cup Holding \cup Finished]
      /\ cancelling' \subseteq AllParts
      /\ UNCHANGED <<version, size, main, outcome, total_size>>
      /\ UNCHANGED <<Sent, Parts>> /\ \A q \in AllParts : UNCHANGED <<Start(q), End(q)>>
  BY <1>1, <1>2, PartEnds
<1>4. content[p] \in Sent /\ content[p] \in Content
  BY <1>2, ServedPart DEF Sent
<1>5. io_queue' \in Seq(Content) /\ io_queue' \in Seq(Sent)
  BY <1>1, <1>4 DEF TypeOK, DataInv
<1>6. total_downloaded' \in 0..MaxSize /\ total_downloaded' = Cardinality(Delivered')
  BY <1>1, <1>2, PartDelivers
<1>7. TypeOK'
  BY <1>1, <1>3, <1>5, <1>6 DEF TypeOK
<1>8. DataInv'
  BY <1>1, <1>3, <1>5 DEF DataInv
<1>9. LockInv'
  <2>1. \A q \in AllParts : part'[q] \in Writing => part[q] = part'[q]
    BY <1>3 DEF Writing
  <2> QED
    BY <1>1, <1>3, <2>1 DEF LockInv, Writing
<1>10. QueueInv'
  BY <1>1, <1>3 DEF QueueInv
<1>11. DeliveredInv'
  BY <1>1, <1>6 DEF DeliveredInv
<1> QED
  BY <1>3, <1>7, <1>8, <1>9, <1>10, <1>11

(* Every step of a _download_part is one of those.                           *)
LEMMA PartStep ==
  ASSUME DownloadInv, NEW p \in AllParts, Part(p)
  PROVE  DownloadInv'
<1> USE DEF DownloadInv
<1>1. ASSUME NEW from \in {"semaphore", "get", "body", "lock", "seek", "write"},
             NEW to \in {"get", "failed", "lock", "seek"}, Moves(p, from, to),
             to = "lock" => from = "body" /\ kind \in {"async", "named"},
             to = "seek" => from = "lock" /\ LockIsFree
      PROVE  DownloadInv'
  <2>1. /\ part[p] = from /\ p \notin cancelling /\ Goes(p, to)
        /\ UNCHANGED <<kind, closed, objectVars, mainVars, content, total_downloaded,
                       queueVars, file, position, cancelling>>
    BY <1>1 DEF Moves, Runs, others, fileVars
  <2>2. /\ to \in (Waiting \cup Holding \cup Finished) \ {"none", "done", "write"}
        /\ part[p] \notin Finished \cup {"none"}
        /\ to \in Served => part[p] \in Served
        /\ to \in {"lock", "seek", "write"} => kind \in {"async", "named"}
        /\ to \in Writing => LockIsFree
    BY <1>1, <2>1 DEF Holding, Finished, Served, Writing, PartsInv
  <2> QED
    BY <2>1, <2>2, PartMoves
<1>2. CASE Acquire(p)
  BY <1>1, <1>2 DEF Acquire
<1>3. CASE GetSucceeds(p)
  BY <1>3, PartIsServed
<1>4. CASE GetFails(p)
  BY <1>1, <1>4 DEF GetFails
<1>5. CASE BodyFails(p)
  BY <1>1, <1>5 DEF BodyFails
<1>6. CASE BodyToQueue(p)
  BY <1>6, PartQueues
<1>7. CASE BodyToFile(p)
  <2>1. /\ part[p] = "body" /\ p \notin cancelling /\ kind = "sync"
        /\ UNCHANGED <<kind, closed, objectVars, mainVars, content, queueVars, cancelling>>
    BY <1>7 DEF BodyToFile, Runs, others
  <2>2. CASE WriteAt(Start(p), content[p]) /\ Completes(p)
    <3>1. part[p] \in Served \ {"done"}
      BY <2>1 DEF Served
    <3> QED
      BY <2>1, <2>2, <3>1, PartWrites
  <2>3. CASE Goes(p, "failed") /\ UNCHANGED <<total_downloaded, fileVars>>
    <3>1. UNCHANGED <<position, file>>
      BY <2>3 DEF fileVars
    <3>2. /\ "failed" \in (Waiting \cup Holding \cup Finished) \ {"none", "done", "write"}
          /\ part[p] \notin Finished \cup {"none"} /\ "failed" \notin Served
          /\ "failed" \notin Writing
      BY <2>1 DEF Finished, Served, Writing
    <3> QED
      BY <2>1, <2>3, <3>1, <3>2, PartMoves
  <2> QED
    BY <1>7, <2>2, <2>3 DEF BodyToFile
<1>8. CASE BodyToLock(p)
  BY <1>1, <1>8 DEF BodyToLock
<1>9. CASE Lock(p)
  BY <1>1, <1>9 DEF Lock
<1>10. CASE Seek(p)
  <2>1. /\ part[p] = "seek" /\ p \notin cancelling /\ Goes(p, "write") /\ position' = Start(p)
        /\ UNCHANGED <<kind, closed, objectVars, mainVars, content, total_downloaded,
                       queueVars, file, cancelling>>
    BY <1>10 DEF Seek, Runs, others
  <2>2. /\ "write" \in (Waiting \cup Holding \cup Finished) \ {"none", "done"}
        /\ part[p] \notin Finished \cup {"none"} /\ "write" \notin Finished
        /\ part[p] \in Served /\ part[p] \in Writing /\ kind \in {"async", "named"}
    BY <2>1 DEF Holding, Finished, Served, Writing, PartsInv
  <2> QED
    BY <2>1, <2>2, PartMoves
<1>11. CASE Write(p)
  <2>1. /\ part[p] = "write" /\ p \notin cancelling /\ Completes(p)
        /\ WriteAt(position, content[p])
        /\ UNCHANGED <<kind, closed, objectVars, mainVars, content, queueVars, cancelling>>
    BY <1>11 DEF Write, Runs, others
  <2>2. /\ part[p] \in Served \ {"done"} /\ kind # "stream" /\ position = Start(p)
    BY <2>1 DEF Served, Writing, PartsInv, LockInv
  <2> QED
    BY <2>1, <2>2, PartWrites
<1>12. CASE WriteFails(p)
  <2>1. PICK from \in Writing : Moves(p, from, "failed")
    BY <1>12 DEF WriteFails
  <2> QED
    BY <1>1, <2>1 DEF Writing
<1>13. CASE CancelDelivered(p)
  <2>1. /\ p \in cancelling /\ cancelling' = cancelling \ {p} /\ Goes(p, "cancelled")
        /\ UNCHANGED <<kind, closed, objectVars, mainVars, content, total_downloaded, queueVars>>
    BY <1>13 DEF CancelDelivered
  <2>2. part[p] \notin Finished \cup {"none"}
    <3>1. part[p] \notin Finished
      BY <2>1 DEF PartsInv
    <3>2. part[p] # "none"
      BY <2>1 DEF PartsInv
    <3> QED
      BY <3>1, <3>2
  <2>3. CASE part[p] = "write" /\ WriteAt(position, content[p])
    <3>1. /\ part[p] \in Served \ {"done"} /\ kind # "stream" /\ position = Start(p)
      BY <2>3 DEF Served, Writing, PartsInv, LockInv
    <3> QED
      BY <2>1, <2>3, <3>1, PartWrites
  <2>4. CASE UNCHANGED fileVars
    <3>1. UNCHANGED <<position, file>>
      BY <2>4 DEF fileVars
    <3>2. /\ "cancelled" \in (Waiting \cup Holding \cup Finished) \ {"none", "done", "write"}
          /\ "cancelled" \notin Served /\ "cancelled" \notin Writing
      BY DEF Finished, Served, Writing
    <3> QED
      BY <2>1, <2>2, <3>1, <3>2, PartMoves
  <2> QED
    BY <1>13, <2>3, <2>4 DEF CancelDelivered
<1> QED
  BY <1>2, <1>3, <1>4, <1>5, <1>6, <1>7, <1>8, <1>9, <1>10, <1>11, <1>12, <1>13 DEF Part

-----------------------------------------------------------------------------
(* Steps of queue_reader.                                                    *)

(* After the spin the loop goes on, or every byte has been written.          *)
LEMMA SpinFacts ==
  ASSUME Spin
  PROVE  /\ queue_reader' \in {"get", "write", "done"}
         /\ queue_reader' = "done" => ~(written_pos' < total_size)
BY DEF Spin, LoopOn

(* What a step of queue_reader, or its cancellation, leaves as it was.       *)
LEMMA QueueSteps ==
  ASSUME DownloadInv, queue_reader \in {"get", "write"},
         queue_reader' \in {"get", "write", "done", "failed"},
         UNCHANGED <<kind, closed, objectVars, mainVars, partVars>>
  PROVE  /\ kind = "stream" /\ ~swallowed
         /\ UNCHANGED <<version, size, main, outcome, total_size, part, content,
                        total_downloaded, cancelling, Sent>>
         /\ PartsInv' /\ LockInv' /\ CompleteInv' /\ MainInv' /\ DeliveredInv'
         /\ (closed' => kind' = "named")
<1> USE DEF DownloadInv
<1>1. UNCHANGED <<version, size, main, outcome, total_size, part, content,
                  total_downloaded, cancelling>>
  BY DEF objectVars, mainVars, partVars
<1>2. UNCHANGED <<Sent, Parts, Delivered>> /\ \A p \in AllParts : UNCHANGED <<Start(p), End(p)>>
  BY <1>1 DEF Sent, Parts, Delivered, Start, End
<1>3. kind = "stream" /\ ~swallowed
  BY DEF QueueInv
<1>4. PartsInv' /\ CompleteInv'
  BY <1>1, <1>2 DEF PartsInv, CompleteInv
<1>5. LockInv'
  <2>1. \A p \in AllParts : part[p] \notin Writing
    BY <1>3 DEF PartsInv, Writing
  <2> QED
    BY <1>1, <2>1 DEF LockInv, Writing
<1>6. MainInv'
  <2>1. GatherDone' = GatherDone
    BY <1>1, <1>2 DEF GatherDone
  <2> QED
    BY <1>1, <1>3, <2>1 DEF MainInv
<1>7. DeliveredInv'
  BY <1>1, <1>2, <1>3 DEF DeliveredInv
<1> QED
  BY <1>1, <1>2, <1>3, <1>4, <1>5, <1>6, <1>7

(* The queue_reader writes the chunk that starts where the stream is.        *)
LEMMA WriteNextChunk ==
  ASSUME DownloadInv, queue_reader = "write", NEW c \in NextChunks(io_list, written_pos),
         WriteAt(position, c)
  PROVE  /\ c \in Sent /\ c.lo = written_pos /\ position = written_pos
         /\ written_pos + Length(c) = c.hi /\ c.hi \in 0..MaxSize
         /\ file' \in [0..(MaxSize - 1) -> Byte] /\ position' \in Nat /\ position' = c.hi
         /\ \A i \in DOMAIN file' : file'[i] = Hole \/ (file'[i].at = i /\ file'[i].v <= version)
         /\ \A i \in DOMAIN file' : i < c.hi => file'[i] # Hole
<1> USE DEF DownloadInv
<1>1. c \in Sent /\ c.lo = written_pos
  BY DEF NextChunks, DataInv
<1>2. /\ position = written_pos /\ position \in Nat
      /\ \A i \in DOMAIN file : i < written_pos => file[i] # Hole
  BY DEF QueueInv, TypeOK
<1>3. c.lo \in Nat /\ c.hi \in 0..MaxSize /\ c.hi \in Nat
  BY <1>1, Sizes DEF Sent, Content
<1>4. /\ file' \in [0..(MaxSize - 1) -> Byte]
      /\ position' \in Nat /\ position' = c.hi
      /\ \A i \in DOMAIN file' : file'[i] = Hole \/ (file'[i].at = i /\ file'[i].v <= version)
      /\ \A i \in DOMAIN file : file[i] # Hole => file'[i] # Hole
      /\ \A i \in DOMAIN file : c.lo <= i /\ i < c.hi => file'[i] # Hole
  BY <1>1, <1>2, WriteInPlace
<1>5. DOMAIN file' = DOMAIN file /\ DOMAIN file = 0..(MaxSize - 1)
  BY <1>4 DEF TypeOK
<1>6. \A i \in DOMAIN file' : i < c.hi => file'[i] # Hole
  <2> SUFFICES ASSUME NEW i \in 0..(MaxSize - 1), i < c.hi PROVE file'[i] # Hole
    BY <1>5
  <2>1. i \in Int
    OBVIOUS
  <2>2. i < c.lo \/ c.lo <= i
    BY <1>3, <2>1
  <2> QED
    BY <1>1, <1>2, <1>4, <1>5, <2>2
<1>7. written_pos + Length(c) = c.hi
  BY <1>1, <1>3 DEF Length
<1> QED
  BY <1>1, <1>2, <1>3, <1>4, <1>6, <1>7

LEMMA QueueReaderStep ==
  ASSUME DownloadInv, QueueReader
  PROVE  DownloadInv'
<1> USE DEF DownloadInv
<1>1. CASE TakeChunk
  <2>1. /\ queue_reader = "get" /\ io_queue # <<>> /\ Spin
        /\ io_list' = io_list \cup {Head(io_queue)} /\ io_queue' = Tail(io_queue)
        /\ UNCHANGED <<kind, closed, objectVars, mainVars, partVars>>
        /\ UNCHANGED <<written_pos, swallowed, position, file>>
    BY <1>1 DEF TakeChunk, fileVars
  <2>2. /\ queue_reader' \in {"get", "write", "done"}
        /\ queue_reader' = "done" => ~(written_pos' < total_size)
    BY <2>1, SpinFacts
  <2>3. /\ kind = "stream" /\ ~swallowed
        /\ UNCHANGED <<version, size, main, outcome, total_size, part, content,
                       total_downloaded, cancelling, Sent>>
        /\ PartsInv' /\ LockInv' /\ CompleteInv' /\ MainInv' /\ DeliveredInv'
        /\ (closed' => kind' = "named")
    BY <2>1, <2>2, QueueSteps
  <2>4. io_queue \in Seq(Content) /\ io_queue \in Seq(Sent) /\ io_list \subseteq Content
        /\ io_list \subseteq Sent
    BY DEF TypeOK, DataInv
  <2>5. io_queue' \in Seq(Content) /\ io_queue' \in Seq(Sent)
    BY <2>1, <2>4
  <2>6. Head(io_queue) \in Content /\ Head(io_queue) \in Sent
    BY <2>1, <2>4
  <2>7. TypeOK'
    <3>1. io_list' \subseteq Content /\ queue_reader' \in {"none", "get", "write"} \cup Finished
      BY <2>1, <2>2, <2>4, <2>6 DEF Finished
    <3> QED
      BY <2>1, <2>3, <2>5, <3>1 DEF TypeOK
  <2>8. DataInv'
    BY <2>1, <2>3, <2>4, <2>5, <2>6 DEF DataInv
  <2>9. QueueInv'
    <3>1. written_pos \in Nat /\ total_size \in Nat
      BY Sizes DEF TypeOK
    <3> QED
      BY <2>1, <2>2, <2>3, <3>1 DEF QueueInv
  <2> QED
    BY <2>3, <2>7, <2>8, <2>9
<1>2. CASE WriteChunk
  <2>1. /\ queue_reader = "write" /\ Spin
        /\ UNCHANGED <<kind, closed, objectVars, mainVars, partVars, io_queue, swallowed>>
    BY <1>2 DEF WriteChunk
  <2>2. PICK c \in NextChunks(io_list, written_pos) :
          /\ WriteAt(position, c)
          /\ written_pos' = written_pos + Length(c)
          /\ io_list' = io_list \ {c}
    BY <1>2 DEF WriteChunk
  <2>3. /\ queue_reader' \in {"get", "write", "done"}
        /\ queue_reader' = "done" => ~(written_pos' < total_size)
    BY <2>1, SpinFacts
  <2>4. /\ kind = "stream" /\ ~swallowed
        /\ UNCHANGED <<version, size, main, outcome, total_size, part, content,
                       total_downloaded, cancelling, Sent>>
        /\ PartsInv' /\ LockInv' /\ CompleteInv' /\ MainInv' /\ DeliveredInv'
        /\ (closed' => kind' = "named")
    BY <2>1, <2>3, QueueSteps
  <2>5. /\ written_pos' = c.hi /\ c.hi \in 0..MaxSize
        /\ file' \in [0..(MaxSize - 1) -> Byte] /\ position' \in Nat /\ position' = c.hi
        /\ \A i \in DOMAIN file' : file'[i] = Hole \/ (file'[i].at = i /\ file'[i].v <= version)
        /\ \A i \in DOMAIN file' : i < c.hi => file'[i] # Hole
    BY <2>1, <2>2, WriteNextChunk
  <2>6. TypeOK'
    <3>1. io_list' \subseteq Content /\ queue_reader' \in {"none", "get", "write"} \cup Finished
      BY <2>2, <2>3 DEF Finished, TypeOK
    <3> QED
      BY <2>1, <2>4, <2>5, <3>1 DEF TypeOK
  <2>7. DataInv'
    BY <2>1, <2>2, <2>4, <2>5 DEF DataInv
  <2>8. QueueInv'
    <3>1. written_pos' \in Nat /\ total_size \in Nat
      BY <2>5, Sizes DEF TypeOK
    <3> QED
      BY <2>1, <2>3, <2>4, <2>5, <3>1 DEF QueueInv
  <2> QED
    BY <2>4, <2>6, <2>7, <2>8
<1>3. CASE WriteChunkFails
  <2>1. /\ queue_reader = "write" /\ queue_reader' = "failed"
        /\ UNCHANGED <<kind, closed, objectVars, mainVars, partVars>>
        /\ UNCHANGED <<io_queue, io_list, written_pos, swallowed, position, file>>
    BY <1>3 DEF WriteChunkFails, fileVars
  <2>2. /\ kind = "stream" /\ ~swallowed
        /\ UNCHANGED <<version, size, main, outcome, total_size, part, content,
                       total_downloaded, cancelling, Sent>>
        /\ PartsInv' /\ LockInv' /\ CompleteInv' /\ MainInv' /\ DeliveredInv'
        /\ (closed' => kind' = "named")
    BY <2>1, QueueSteps
  <2>3. TypeOK' /\ DataInv' /\ QueueInv'
    BY <2>1, <2>2 DEF TypeOK, Finished, DataInv, QueueInv
  <2> QED
    BY <2>2, <2>3
<1> QED
  BY <1>1, <1>2, <1>3 DEF QueueReader

-----------------------------------------------------------------------------
(* Steps of the caller's task, and of another client.                        *)

(* Where only the caller's task moves, only what is said of it is at stake.  *)
LEMMA MainSteps ==
  ASSUME DownloadInv, MainInv',
         main' \in {"head", "gather", "queue_reader", "done"},
         outcome' \in {"running", "returned", "raised", "cancelled"},
         UNCHANGED <<kind, closed, objectVars, total_size, part, content, total_downloaded,
                     queueVars, fileVars>>,
         cancelling' \subseteq {p \in Parts : part[p] \notin Finished \cup {"none"}}
  PROVE  DownloadInv'
<1> USE DEF DownloadInv
<1>1. UNCHANGED <<version, size, io_queue, io_list, queue_reader, written_pos, swallowed,
                  position, file>>
  BY DEF objectVars, queueVars, fileVars
<1>2. UNCHANGED <<Sent, Parts, Delivered>> /\ \A p \in AllParts : UNCHANGED <<Start(p), End(p)>>
  BY <1>1 DEF Sent, Parts, Delivered, Start, End
<1>3. cancelling' \subseteq AllParts
  BY PartFacts DEF Parts, TypeOK
<1>4. TypeOK'
  BY <1>1, <1>3 DEF TypeOK
<1>5. DataInv' /\ LockInv' /\ CompleteInv' /\ QueueInv' /\ DeliveredInv'
  BY <1>1, <1>2 DEF DataInv, LockInv, CompleteInv, QueueInv, DeliveredInv
<1>6. PartsInv'
  BY <1>1, <1>2 DEF PartsInv
<1> QED
  BY <1>4, <1>5, <1>6

(* The parts of the object that head_object finds are all to be downloaded.  *)
LEMMA HeadStep == ASSUME DownloadInv, HeadSucceeds PROVE DownloadInv'
<1> USE DEF DownloadInv
<1>1. /\ main = "head" /\ main' = "gather" /\ total_size' = size
      /\ part' = [p \in AllParts |-> IF p \in PartsOf(size) THEN "semaphore" ELSE "none"]
      /\ queue_reader' = IF kind = "stream" THEN LoopOn(written_pos, size) ELSE "none"
      /\ UNCHANGED <<kind, closed, version, size, outcome, content, total_downloaded,
                     cancelling, io_queue, io_list, written_pos, swallowed, position, file>>
  BY DEF HeadSucceeds, objectVars, fileVars
<1>2. /\ total_size = 0 /\ outcome = "running" /\ queue_reader = "none" /\ ~swallowed
      /\ size \in 0..MaxSize /\ size \in Nat
  BY <1>1, Sizes DEF MainInv, TypeOK
<1>3. Parts' = PartsOf(size) /\ Parts' \subseteq AllParts
  BY <1>1, <1>2, PartFacts DEF Parts
<1>4. \A p \in AllParts : part[p] = "none" /\ p \notin Parts
  <2>1. \A p \in Parts : Start(p) < 0
    BY <1>2, Sizes, PartFacts DEF Parts
  <2>2. \A p \in AllParts : p \notin Parts
    BY <2>1, PartFacts
  <2> QED
    BY <2>2 DEF PartsInv
<1>5. cancelling = {}
  BY <1>4 DEF PartsInv, TypeOK
<1>6. \A p \in AllParts : /\ part'[p] \in {"semaphore", "none"}
                          /\ part'[p] # "none" <=> p \in Parts'
  BY <1>1, <1>3
<1>7. /\ queue_reader' \in {"none", "get", "done"}
      /\ kind = "stream" <=> queue_reader' # "none"
      /\ queue_reader' = "done" => ~(written_pos < size)
  BY <1>1 DEF LoopOn
<1>8. TypeOK'
  <2>1. part' \in [AllParts -> Waiting \cup Holding \cup Finished]
    BY <1>1 DEF Waiting
  <2> QED
    BY <1>1, <1>2, <1>7, <2>1 DEF TypeOK, Finished
<1>9. DataInv'
  BY <1>1 DEF DataInv, Sent
<1>10. PartsInv' /\ LockInv' /\ CompleteInv'
  BY <1>1, <1>5, <1>6 DEF PartsInv, LockInv, CompleteInv, Served, Writing
<1>11. MainInv'
  BY <1>1, <1>2, <1>7 DEF MainInv
<1>12. QueueInv'
  <2>1. written_pos \in Nat
    BY Sizes DEF TypeOK
  <2> QED
    BY <1>1, <1>2, <1>7, <2>1 DEF QueueInv
<1>13. DeliveredInv'
  <2>1. Delivered = {} /\ Delivered' = {}
    BY <1>4, <1>6 DEF Delivered
  <2> QED
    BY <1>1, <2>1 DEF DeliveredInv
<1> QED
  BY <1>1, <1>8, <1>9, <1>10, <1>11, <1>12, <1>13

LEMMA MainStep == ASSUME DownloadInv, Main PROVE DownloadInv'
<1> USE DEF DownloadInv
<1>1. cancelling \subseteq {p \in Parts : part[p] \notin Finished \cup {"none"}}
  BY DEF PartsInv
<1>2. /\ main \in {"head", "gather", "queue_reader", "done"}
      /\ outcome \in {"running", "returned", "raised", "cancelled"}
  BY DEF TypeOK
<1>3. CASE HeadSucceeds
  BY <1>3, HeadStep
<1>4. CASE HeadFails
  <2>1. /\ main' = "done" /\ outcome' = "raised"
        /\ UNCHANGED <<kind, closed, objectVars, total_size, part, content, total_downloaded,
                       cancelling, queueVars, fileVars>>
    BY <1>4 DEF HeadFails, Finish, partVars
  <2>2. MainInv'
    BY <2>1 DEF MainInv
  <2> QED
    BY <1>1, <2>1, <2>2, MainSteps
<1>5. CASE GatherReturns
  <2>1. /\ main = "gather" /\ GatherDone
        /\ UNCHANGED <<kind, closed, objectVars, total_size, part, content, total_downloaded,
                       cancelling, queueVars, fileVars, queue_reader, swallowed>>
        /\ GatherDone'
    BY <1>5 DEF GatherReturns, partVars, queueVars, GatherDone, Parts
  <2>2. outcome = "running" /\ (kind = "stream" <=> queue_reader # "none")
    BY <2>1 DEF MainInv
  <2>3. CASE queue_reader = "none"
    <3>1. main' = "done" /\ outcome' = "returned"
      BY <1>5, <2>3 DEF GatherReturns, Finish
    <3>2. MainInv'
      BY <2>1, <2>2, <2>3, <3>1 DEF MainInv
    <3> QED
      BY <1>1, <2>1, <3>1, <3>2, MainSteps
  <2>4. CASE queue_reader # "none"
    <3>1. main' = "queue_reader" /\ outcome' = outcome
      BY <1>5, <2>4 DEF GatherReturns
    <3>2. MainInv'
      BY <2>1, <2>2, <2>4, <3>1 DEF MainInv
    <3> QED
      BY <1>1, <1>2, <2>1, <3>1, <3>2, MainSteps
  <2> QED
    BY <2>3, <2>4
<1>6. CASE GatherRaises
  <2>1. /\ main' = "done" /\ outcome' \in {"raised", "cancelled"}
        /\ UNCHANGED <<kind, closed, objectVars, total_size, part, content, total_downloaded,
                       cancelling, queueVars, fileVars>>
    BY <1>6 DEF GatherRaises, Finish, partVars
  <2>2. MainInv'
    BY <2>1 DEF MainInv
  <2> QED
    BY <1>1, <2>1, <2>2, MainSteps
<1>7. CASE QueueReaderReturns
  <2>1. /\ main = "queue_reader" /\ main' = "done"
        /\ UNCHANGED <<kind, closed, objectVars, total_size, part, content, total_downloaded,
                       cancelling, queueVars, fileVars, queue_reader, swallowed>>
        /\ GatherDone' = GatherDone
        /\ \/ queue_reader = "done" /\ outcome' = "returned"
           \/ outcome' = "raised"
    BY <1>7 DEF QueueReaderReturns, Finish, partVars, queueVars, GatherDone, Parts
  <2>2. GatherDone /\ (kind = "stream" <=> queue_reader # "none")
    BY <2>1 DEF MainInv
  <2>3. MainInv'
    BY <2>1, <2>2 DEF MainInv
  <2> QED
    BY <1>1, <2>1, <2>3, MainSteps
<1>8. CASE CloseFile
  <2>1. /\ kind = "named" /\ closed' = TRUE
        /\ UNCHANGED <<kind, version, size, main, outcome, total_size, part, content,
                       total_downloaded, cancelling, io_queue, io_list, queue_reader,
                       written_pos, swallowed, position, file>>
    BY <1>8 DEF CloseFile, objectVars, mainVars, partVars, queueVars, fileVars
  <2>2. UNCHANGED <<Sent, Parts, Delivered, GatherDone>>
        /\ \A p \in AllParts : UNCHANGED <<Start(p), End(p)>>
    BY <2>1 DEF Sent, Parts, Delivered, GatherDone, Start, End
  <2>3. TypeOK' /\ DataInv' /\ PartsInv'
    BY <2>1, <2>2 DEF TypeOK, DataInv, PartsInv
  <2>4. LockInv' /\ CompleteInv' /\ MainInv' /\ QueueInv' /\ DeliveredInv'
    BY <2>1, <2>2 DEF LockInv, CompleteInv, MainInv, QueueInv, DeliveredInv
  <2> QED
    BY <2>1, <2>3, <2>4
<1> QED
  BY <1>3, <1>4, <1>5, <1>6, <1>7, <1>8 DEF Main

(* A cancellation ends the call, is on its way to the parts that run, or is  *)
(* swallowed by queue_reader.                                                *)
LEMMA CancelStep == ASSUME DownloadInv, CancelMain PROVE DownloadInv'
<1> USE DEF DownloadInv
<1>1. /\ UNCHANGED <<kind, closed, objectVars, total_size, part, content, total_downloaded>>
      /\ UNCHANGED <<io_queue, io_list, written_pos>>
  BY DEF CancelMain
<1>2. CASE Finish("cancelled") /\ UNCHANGED <<cancelling, queue_reader, swallowed, fileVars>>
  <2>1. main' = "done" /\ outcome' = "cancelled" /\ UNCHANGED <<queueVars, fileVars>>
    BY <1>1, <1>2 DEF Finish, queueVars
  <2>2. MainInv'
    BY <2>1 DEF MainInv
  <2>3. cancelling' \subseteq {p \in Parts : part[p] \notin Finished \cup {"none"}}
    BY <1>2 DEF PartsInv
  <2> QED
    BY <1>1, <2>1, <2>2, <2>3, MainSteps
<1>3. CASE /\ main = "gather" /\ cancelling' = {p \in Parts : part[p] \notin Finished}
           /\ UNCHANGED <<main, outcome, queue_reader, swallowed, fileVars>>
  <2>1. UNCHANGED <<queueVars, fileVars, main, outcome>>
    BY <1>1, <1>3 DEF queueVars
  <2>2. MainInv'
    BY <1>1, <1>3 DEF MainInv
  <2>3. cancelling' \subseteq {p \in Parts : part[p] \notin Finished \cup {"none"}}
    <3>1. \A p \in Parts : p \in AllParts
      BY PartFacts DEF Parts, TypeOK
    <3> QED
      BY <1>3, <3>1 DEF PartsInv
  <2>4. /\ main' \in {"head", "gather", "queue_reader", "done"}
        /\ outcome' \in {"running", "returned", "raised", "cancelled"}
    BY <2>1 DEF TypeOK
  <2> QED
    BY <1>1, <2>1, <2>2, <2>3, <2>4, MainSteps
<1>4. CASE /\ queue_reader \in {"get", "write"}
           /\ queue_reader' = "done" /\ swallowed' = TRUE
           /\ \/ /\ queue_reader = "write"
                 /\ \E c \in NextChunks(io_list, written_pos) : WriteAt(position, c)
              \/ UNCHANGED fileVars
           /\ UNCHANGED <<main, outcome, cancelling>>
  <2>1. UNCHANGED <<kind, closed, objectVars, mainVars, partVars>>
    BY <1>1, <1>4 DEF mainVars, partVars
  <2>2. /\ kind = "stream" /\ ~swallowed
        /\ UNCHANGED <<version, size, main, outcome, total_size, part, content,
                       total_downloaded, cancelling, Sent>>
        /\ PartsInv' /\ LockInv' /\ CompleteInv' /\ MainInv' /\ DeliveredInv'
        /\ (closed' => kind' = "named")
    BY <1>4, <2>1, QueueSteps
  <2>3. /\ file' \in [0..(MaxSize - 1) -> Byte] /\ position' \in Nat
        /\ \A i \in DOMAIN file' : file'[i] = Hole \/ (file'[i].at = i /\ file'[i].v <= version)
    <3>1. CASE UNCHANGED fileVars
      BY <3>1 DEF fileVars, TypeOK, DataInv
    <3>2. CASE queue_reader = "write" /\ \E c \in NextChunks(io_list, written_pos) : WriteAt(position, c)
      BY <3>2, WriteNextChunk
    <3> QED
      BY <1>4, <3>1, <3>2
  <2>4. TypeOK' /\ DataInv'
    BY <1>1, <1>4, <2>2, <2>3 DEF TypeOK, DataInv, Finished
  <2>5. QueueInv'
    BY <1>1, <1>4, <2>2 DEF QueueInv
  <2> QED
    BY <2>2, <2>4, <2>5
<1> QED
  BY <1>2, <1>3, <1>4 DEF CancelMain

(* Overwriting the object changes none of what was sent of it.               *)
LEMMA OverwriteStep == ASSUME DownloadInv, Overwrite PROVE DownloadInv'
<1> USE DEF DownloadInv
<1>1. /\ version < MaxVersions /\ version' = version + 1 /\ size' \in 0..MaxSize
      /\ UNCHANGED <<kind, closed, main, outcome, total_size, part, content, total_downloaded,
                     cancelling, io_queue, io_list, queue_reader, written_pos, swallowed,
                     position, file>>
  BY DEF Overwrite, mainVars, partVars, queueVars, fileVars
<1>2. version \in Nat /\ version >= 1 /\ version' \in 1..MaxVersions
  BY <1>1, Sizes DEF TypeOK
<1>3. UNCHANGED <<Parts, Delivered, GatherDone>>
      /\ \A p \in AllParts : UNCHANGED <<Start(p), End(p)>>
  BY <1>1 DEF Parts, Delivered, GatherDone, Start, End
<1>4. TypeOK'
  BY <1>1, <1>2 DEF TypeOK
<1>5. DataInv'
  <2>1. Sent \subseteq Sent'
    BY <1>1, <1>2 DEF Sent, Content
  <2>2. content' \in [AllParts -> Sent'] /\ io_list' \subseteq Sent'
    BY <1>1, <2>1 DEF DataInv
  <2>3. io_queue' \in Seq(Sent')
    <3> DEFINE T == Sent'
    <3>1. io_queue \in Seq(Sent) /\ Sent \subseteq T
      BY <2>1 DEF DataInv
    <3> HIDE DEF T
    <3>2. io_queue \in Seq(T)
      BY <3>1
    <3> QED
      BY <1>1, <3>2 DEF T
  <2>4. \A i \in DOMAIN file : file[i] = Hole \/ (file[i].at = i /\ file[i].v <= version')
    <3> SUFFICES ASSUME NEW i \in DOMAIN file, file[i] # Hole
                 PROVE  file[i].at = i /\ file[i].v <= version'
      OBVIOUS
    <3>1. file[i] \in [v : 1..MaxVersions, at : 0..MaxSize]
      BY DEF TypeOK, Byte
    <3>2. file[i].v \in Nat /\ file[i].at = i /\ file[i].v <= version
      BY <3>1, Sizes DEF DataInv
    <3> QED
      BY <1>1, <1>2, <3>2
  <2> QED
    BY <1>1, <2>2, <2>3, <2>4 DEF DataInv
<1>6. CompleteInv'
  BY <1>1, <1>2 DEF CompleteInv
<1>7. PartsInv' /\ LockInv' /\ MainInv' /\ QueueInv' /\ DeliveredInv'
  BY <1>1, <1>3 DEF PartsInv, LockInv, MainInv, QueueInv, DeliveredInv
<1> QED
  BY <1>1, <1>4, <1>5, <1>6, <1>7

-----------------------------------------------------------------------------
(* Theorems.                                                                 *)

\* The invariant holds of every reachable state: the lock, the queue and the
\* ranges keep every byte apart from the others, whichever tasks have failed or
\* been cancelled.
THEOREM DownloadInvariant == Spec => []DownloadInv
<1>1. DownloadInv /\ [Next]_vars => DownloadInv'
  <2> SUFFICES ASSUME DownloadInv, [Next]_vars PROVE DownloadInv'
    OBVIOUS
  <2>1. CASE Overwrite
    BY <2>1, OverwriteStep
  <2>2. CASE \E p \in AllParts : Part(p)
    BY <2>2, PartStep
  <2>3. CASE QueueReader
    BY <2>3, QueueReaderStep
  <2>4. CASE Main
    BY <2>4, MainStep
  <2>5. CASE CancelMain
    BY <2>5, CancelStep
  <2>6. CASE UNCHANGED vars
    <3>1. /\ UNCHANGED <<kind, closed, version, size, main, outcome, total_size, part, content,
                         total_downloaded, cancelling>>
          /\ UNCHANGED <<io_queue, io_list, queue_reader, written_pos, swallowed, position, file>>
      BY <2>6 DEF vars, objectVars, mainVars, partVars, queueVars, fileVars
    <3>2. UNCHANGED <<Sent, Parts, Delivered, GatherDone>>
          /\ \A p \in AllParts : UNCHANGED <<Start(p), End(p)>>
      BY <3>1 DEF Sent, Parts, Delivered, GatherDone, Start, End
    <3>3. TypeOK' /\ DataInv' /\ PartsInv' /\ LockInv' /\ CompleteInv'
      BY <3>1, <3>2 DEF DownloadInv, TypeOK, DataInv, PartsInv, LockInv, CompleteInv
    <3>4. MainInv' /\ QueueInv' /\ DeliveredInv'
      BY <3>1, <3>2 DEF DownloadInv, MainInv, QueueInv, DeliveredInv
    <3> QED
      BY <3>1, <3>3, <3>4 DEF DownloadInv
  <2> QED
    BY <2>1, <2>2, <2>3, <2>4, <2>5, <2>6 DEF Next
<1> QED
  BY InvInit, <1>1, PTL DEF Spec

\* The bytes Callback is told of, and those queue_reader counts as written, never
\* add up to more than the longest object, and no task is left in a state that
\* the code does not have.
THEOREM TypeCorrect == Spec => []TypeOK
<1>1. DownloadInv => TypeOK
  BY DEF DownloadInv
<1> QED
  BY DownloadInvariant, <1>1, PTL

\* However the seeks and writes of the parts and the queue_reader interleave,
\* a byte is never written anywhere but at its own offset (inject.py:111-139,
\* 209-238).
THEOREM MisplacesNothing == Spec => []NothingMisplaced
<1>1. DownloadInv => NothingMisplaced
  BY DEF DownloadInv, DataInv, NothingMisplaced
<1> QED
  BY DownloadInvariant, <1>1, PTL

\* A call that returns has written the whole object, unless the object changed
\* meanwhile or queue_reader swallowed its cancellation (line 264).
THEOREM WritesTheWholeObject == Spec => []WholeWhenReturned
<1>1. DownloadInv => WholeWhenReturned
  <2> SUFFICES ASSUME DownloadInv, outcome = "returned", ~Changed, ~swallowed,
                      NEW i \in 0..(total_size - 1)
               PROVE  file[i] = [v |-> 1, at |-> i]
    BY DEF WholeWhenReturned, Downloaded
  <2> USE DEF DownloadInv
  <2>1. version = 1
    BY Sizes DEF Changed, TypeOK
  <2>2. i \in Nat /\ i < total_size /\ total_size \in Nat /\ i \in DOMAIN file
        /\ i \in 0..(MaxSize - 1)
    BY Sizes DEF TypeOK
  <2>3. file[i] # Hole
    <3>1. CASE kind = "stream"
      <4>1. written_pos \in Nat /\ total_size <= written_pos
        BY <3>1, Sizes DEF MainInv, QueueInv, TypeOK
      <4>2. i < written_pos
        BY <2>2, <4>1
      <4> QED
        BY <2>2, <3>1, <4>2 DEF QueueInv
    <3>2. CASE kind # "stream"
      <4>1. PICK p \in Parts : Start(p) <= i /\ i < End(p)
        BY EveryByteInAPart
      <4>2. p \in AllParts /\ part[p] = "done"
        BY EndFacts DEF MainInv, GatherDone
      <4>3. content[p].hi = End(p)
        BY <2>1, <4>2 DEF CompleteInv, Served
      <4>4. i \in Delivered
        BY <2>2, <4>1, <4>2, <4>3 DEF Delivered
      <4> QED
        BY <3>2, <4>4 DEF DeliveredInv
    <3> QED
      BY <3>1, <3>2
  <2>4. file[i] \in [v : 1..MaxVersions, at : 0..MaxSize] /\ file[i].at = i /\ file[i].v <= 1
    BY <2>1, <2>2, <2>3 DEF TypeOK, Byte, DataInv
  <2>5. file[i].v = 1
    BY <2>4, Sizes
  <2> QED
    BY <2>4, <2>5
<1> QED
  BY DownloadInvariant, <1>1, PTL

\* Callback has never been told of more bytes than a file that can seek holds.
THEOREM ReportsWhatIsWritten == Spec => []ProgressIsWritten
<1>1. DownloadInv => ProgressIsWritten
  <2> SUFFICES ASSUME DownloadInv, kind # "stream"
               PROVE  total_downloaded <= Cardinality({i \in DOMAIN file : file[i] # Hole})
    BY DEF ProgressIsWritten
  <2> DEFINE F == {i \in DOMAIN file : file[i] # Hole}
  <2>1. DOMAIN file = 0..(MaxSize - 1) /\ MaxSize \in Nat
    BY Sizes DEF DownloadInv, TypeOK
  <2>2. Delivered \subseteq F
    BY <2>1 DEF DownloadInv, DeliveredInv, Delivered
  <2>3. IsFiniteSet(F)
    <3>1. IsFiniteSet(0..(MaxSize - 1))
      <4>1. 0 \in Int /\ MaxSize - 1 \in Int
        BY <2>1
      <4> QED
        BY <4>1, FS_Interval
    <3>2. F \subseteq 0..(MaxSize - 1)
      BY <2>1
    <3> QED
      BY <3>1, <3>2, FS_Subset
  <2>4. Cardinality(Delivered) <= Cardinality(F)
    BY <2>2, <2>3, FS_Subset
  <2> QED
    BY <2>4 DEF DownloadInv, DeliveredInv
<1> QED
  BY DownloadInvariant, <1>1, PTL

\* Once a call has returned, or download_file has closed its file, nothing that
\* was left running changes the file.
THEOREM SettlesTheFile == Spec => FileSettled
<1>1. ASSUME DownloadInv, Next, outcome = "returned" \/ closed
      PROVE  UNCHANGED file
  <2> USE DEF DownloadInv
  <2>1. closed => kind = "named"
    BY <1>1
  <2>2. outcome = "returned" =>
          /\ \A p \in AllParts : part[p] \in Finished \cup {"none"}
          /\ queue_reader \notin {"get", "write"}
    <3>1. ASSUME outcome = "returned", NEW p \in AllParts
          PROVE  part[p] \in Finished \cup {"none"}
      BY <1>1, <3>1, RunningPart
    <3> QED
      BY <1>1, <3>1 DEF MainInv
  <2>3. ASSUME NEW p \in AllParts, Part(p)
        PROVE  UNCHANGED file
    <3>1. CASE \/ Acquire(p) \/ GetFails(p) \/ BodyFails(p) \/ BodyToLock(p) \/ Lock(p)
               \/ WriteFails(p)
      BY <3>1 DEF Acquire, GetFails, BodyFails, BodyToLock, Lock, WriteFails, Moves, fileVars
    <3>2. CASE GetSucceeds(p) \/ BodyToQueue(p) \/ Seek(p)
      BY <3>2 DEF GetSucceeds, BodyToQueue, Seek, fileVars
    <3>3. CASE BodyToFile(p) \/ Write(p)
      <4>1. part[p] \in {"body", "write"} /\ ~closed
        BY <1>1, <2>1, <3>3 DEF BodyToFile, Write, Runs
      <4> QED
        BY <1>1, <2>2, <4>1 DEF Finished
    <3>4. CASE CancelDelivered(p)
      <4>1. CASE part[p] = "write" /\ ~closed
        BY <1>1, <2>2, <4>1 DEF Finished
      <4>2. CASE UNCHANGED fileVars
        BY <4>2 DEF fileVars
      <4> QED
        BY <3>4, <4>1, <4>2 DEF CancelDelivered
    <3> QED
      BY <2>3, <3>1, <3>2, <3>3, <3>4 DEF Part
  <2>4. queue_reader \in {"get", "write"} => FALSE
    <3>1. queue_reader \in {"get", "write"} => kind = "stream"
      BY <1>1 DEF QueueInv
    <3> QED
      BY <1>1, <2>1, <2>2, <3>1
  <2>5. CASE QueueReader
    BY <2>4, <2>5 DEF QueueReader, TakeChunk, WriteChunk, WriteChunkFails
  <2>6. CASE CancelMain
    <3>1. UNCHANGED fileVars
      BY <2>4, <2>6 DEF CancelMain
    <3> QED
      BY <3>1 DEF fileVars
  <2>7. CASE Overwrite \/ Main
    BY <2>7 DEF Overwrite, Main, HeadSucceeds, HeadFails, GatherReturns, GatherRaises,
                QueueReaderReturns, CloseFile, fileVars
  <2> QED
    BY <1>1, <2>3, <2>5, <2>6, <2>7 DEF Next
<1>2. DownloadInv /\ [Next]_vars => [outcome = "returned" \/ closed => UNCHANGED file]_vars
  BY <1>1
<1> QED
  BY DownloadInvariant, <1>2, PTL DEF Spec, FileSettled

-----------------------------------------------------------------------------
(* How long a call can go on.                                                *)

(* The steps a part has ahead of it, at most.                                *)
StepsFrom(at) ==
  CASE at \in Waiting -> 6
    [] at = "get" -> 5
    [] at = "body" -> 4
    [] at = "lock" -> 3
    [] at = "seek" -> 2
    [] at = "write" -> 1
    [] at \in Finished -> 0

PartSteps == {s \in AllParts \X (1..6) : s[2] <= StepsFrom(part[s[1]])}

MainRank ==
  CASE main = "head" -> 4
    [] main = "gather" -> 2
    [] main = "queue_reader" -> 1
    [] main = "done" -> 0

ReaderRank == IF queue_reader \in {"get", "write"} THEN 1 ELSE 0
CloseRank == IF closed THEN 0 ELSE 1

(* The gather is cancelled at most once.                                     *)
CancelRank == IF \E p \in AllParts : p \in cancelling \/ part[p] = "cancelled" THEN 0 ELSE 1

(* A response is taken from the queue once, and written once.                *)
Rank == Cardinality(PartSteps) + 2 * Len(io_queue) + Cardinality(io_list)
        + MainRank + ReaderRank + CloseRank + CancelRank

(* The parts of an object are finitely many.                                 *)
LEMMA FinitelyManySteps == IsFiniteSet(AllParts \X (1..6))
<1>1. IsFiniteSet(0..MaxSize)
  <2>1. 0 \in Int /\ MaxSize \in Int
    BY Sizes
  <2> QED
    BY <2>1, FS_Interval
<1>2. AllParts \subseteq 0..MaxSize
  BY DEF AllParts, PartsOf
<1>3. IsFiniteSet(AllParts)
  BY <1>1, <1>2, FS_Subset
<1>4. IsFiniteSet(1..6)
  <2>1. 1 \in Int /\ 6 \in Int
    OBVIOUS
  <2> QED
    BY <2>1, FS_Interval
<1> QED
  BY <1>3, <1>4, FS_Product

(* Where a step leads to is where fewer of them are left.                    *)
LEMMA StepsOf ==
  /\ \A at \in Waiting \cup Holding \cup Finished : StepsFrom(at) \in 0..6
  /\ StepsFrom("semaphore") = 6 /\ StepsFrom("none") = 6 /\ StepsFrom("get") = 5
  /\ StepsFrom("body") = 4 /\ StepsFrom("lock") = 3 /\ StepsFrom("seek") = 2
  /\ StepsFrom("write") = 1 /\ \A at \in Finished : StepsFrom(at) = 0
BY DEF StepsFrom, Waiting, Holding, Writing, Finished

(* When one part moves on, fewer steps are left, at least three fewer if it  *)
(* was the body of its response that it had come to an end with.             *)
LEMMA FewerSteps ==
  ASSUME TypeOK, TypeOK', NEW p \in AllParts,
         \A q \in AllParts \ {p} : part'[q] = part[q],
         StepsFrom(part'[p]) < StepsFrom(part[p])
  PROVE  /\ Cardinality(PartSteps) \in Nat /\ Cardinality(PartSteps') \in Nat
         /\ Cardinality(PartSteps') < Cardinality(PartSteps)
         /\ part[p] = "body" /\ part'[p] = "done" =>
                Cardinality(PartSteps') + 3 <= Cardinality(PartSteps)
<1> DEFINE n == StepsFrom(part[p])
           m == StepsFrom(part'[p])
<1>1. n \in 0..6 /\ m \in 0..6 /\ m < n
  <2>1. part[p] \in Waiting \cup Holding \cup Finished
    BY DEF TypeOK
  <2>2. part'[p] \in Waiting \cup Holding \cup Finished
    BY DEF TypeOK, AllParts, PartsOf, Start
  <2> QED
    BY <2>1, <2>2, StepsOf
<1>2. \A q \in AllParts : StepsFrom(part'[q]) = IF q = p THEN m ELSE StepsFrom(part[q])
  OBVIOUS
<1>3. PartSteps = {s \in AllParts \X (1..6) : s[2] <= StepsFrom(part[s[1]])}
  BY DEF PartSteps
<1>4. PartSteps' = {s \in AllParts \X (1..6) : s[2] <= StepsFrom(part'[s[1]])}
  BY DEF PartSteps, AllParts, PartsOf, Start, StepsFrom, Waiting, Finished
<1>5. part[p] = "body" /\ part'[p] = "done" => n = 4 /\ m = 0
  BY StepsOf DEF Finished
<1> HIDE DEF n, m
<1>6. ASSUME NEW s \in AllParts \X (1..6), s[2] <= StepsFrom(part'[s[1]])
      PROVE  s[2] <= StepsFrom(part[s[1]]) /\ (s[1] = p => s[2] <= m)
  <2>1. s[1] \in AllParts /\ s[2] \in 1..6
    OBVIOUS
  <2>2. CASE s[1] = p
    <3>1. s[2] <= m
      BY <1>2, <1>6, <2>1, <2>2
    <3> QED
      BY <1>1, <2>1, <2>2, <3>1 DEF n
  <2>3. CASE s[1] # p
    BY <1>2, <1>6, <2>1, <2>3
  <2> QED
    BY <2>2, <2>3
<1>7. PartSteps' \subseteq PartSteps
  BY <1>3, <1>4, <1>6
<1>8. \A k \in 1..6 : <<p, k>> \in PartSteps' => k <= m
  <2> SUFFICES ASSUME NEW k \in 1..6, <<p, k>> \in PartSteps' PROVE k <= m
    OBVIOUS
  <2>1. <<p, k>> \in AllParts \X (1..6) /\ <<p, k>>[1] = p /\ <<p, k>>[2] = k
    OBVIOUS
  <2> QED
    BY <1>2, <1>4, <2>1
<1>9. \A k \in 1..6 : k <= n => <<p, k>> \in PartSteps
  <2> SUFFICES ASSUME NEW k \in 1..6, k <= n PROVE <<p, k>> \in PartSteps
    OBVIOUS
  <2>1. <<p, k>> \in AllParts \X (1..6) /\ <<p, k>>[1] = p /\ <<p, k>>[2] = k
    OBVIOUS
  <2> QED
    BY <1>3, <2>1 DEF n
<1>10. /\ IsFiniteSet(PartSteps) /\ IsFiniteSet(PartSteps')
       /\ Cardinality(PartSteps) \in Nat /\ Cardinality(PartSteps') \in Nat
  <2>1. IsFiniteSet(PartSteps)
    BY <1>3, FinitelyManySteps, FS_Subset
  <2>2. IsFiniteSet(PartSteps')
    BY <1>7, <2>1, FS_Subset
  <2> QED
    BY <2>1, <2>2, FS_CardinalityType
<1>11. Cardinality(PartSteps') < Cardinality(PartSteps)
  <2>1. <<p, n>> \in PartSteps /\ <<p, n>> \notin PartSteps'
    BY <1>1, <1>8, <1>9
  <2>2. PartSteps' # PartSteps
    BY <2>1
  <2>3. Cardinality(PartSteps') <= Cardinality(PartSteps)
        /\ (Cardinality(PartSteps) = Cardinality(PartSteps') => PartSteps = PartSteps')
    BY <1>7, <1>10, FS_Subset
  <2> QED
    BY <1>10, <2>2, <2>3
<1>12. ASSUME part[p] = "body", part'[p] = "done"
       PROVE  Cardinality(PartSteps') + 3 <= Cardinality(PartSteps)
  <2> DEFINE T == PartSteps
             A == T \ {<<p, 1>>}
             B == A \ {<<p, 2>>}
             C == B \ {<<p, 3>>}
  <2>1. /\ <<p, 1>> \in T /\ <<p, 2>> \in T /\ <<p, 3>> \in T
        /\ <<p, 1>> \notin PartSteps' /\ <<p, 2>> \notin PartSteps' /\ <<p, 3>> \notin PartSteps'
    BY <1>5, <1>8, <1>9, <1>12
  <2>2. <<p, 2>> \in A /\ <<p, 3>> \in B /\ PartSteps' \subseteq C
    BY <1>7, <2>1
  <2> HIDE DEF T
  <2>3. IsFiniteSet(A) /\ Cardinality(A) = Cardinality(T) - 1
    BY <1>10, <2>1, FS_RemoveElement DEF T
  <2> HIDE DEF A
  <2>4. IsFiniteSet(B) /\ Cardinality(B) = Cardinality(A) - 1
    BY <2>2, <2>3, FS_RemoveElement
  <2> HIDE DEF B
  <2>5. IsFiniteSet(C) /\ Cardinality(C) = Cardinality(B) - 1
    BY <2>2, <2>4, FS_RemoveElement
  <2> HIDE DEF C
  <2>6. Cardinality(PartSteps') <= Cardinality(C)
    BY <2>2, <2>5, FS_Subset
  <2>7. Cardinality(T) \in Nat /\ Cardinality(PartSteps') \in Nat
    BY <1>10 DEF T
  <2>8. Cardinality(C) = Cardinality(T) - 3
    BY <2>3, <2>4, <2>5, <2>7
  <2>9. Cardinality(PartSteps') <= Cardinality(T) - 3
    BY <2>6, <2>8
  <2> QED
    BY <2>7, <2>9 DEF T
<1> QED
  BY <1>10, <1>11, <1>12

(* What bounds a call at any moment is a number.                             *)
LEMMA RankParts ==
  ASSUME TypeOK, IsFiniteSet(io_list)
  PROVE  /\ Cardinality(PartSteps) \in Nat /\ Len(io_queue) \in Nat /\ Cardinality(io_list) \in Nat
         /\ MainRank \in Nat /\ ReaderRank \in 0..1 /\ CloseRank \in 0..1 /\ CancelRank \in 0..1
         /\ Rank \in Nat
<1>1. Cardinality(PartSteps) \in Nat
  <2>1. PartSteps \subseteq AllParts \X (1..6)
    BY DEF PartSteps
  <2>2. IsFiniteSet(PartSteps)
    BY <2>1, FinitelyManySteps, FS_Subset
  <2> QED
    BY <2>2, FS_CardinalityType
<1>2. Len(io_queue) \in Nat /\ Cardinality(io_list) \in Nat
  BY FS_CardinalityType DEF TypeOK
<1>3. ReaderRank \in 0..1 /\ CloseRank \in 0..1 /\ CancelRank \in 0..1
  BY DEF ReaderRank, CloseRank, CancelRank
<1>4. MainRank \in Nat
  BY DEF TypeOK, MainRank
<1> QED
  BY <1>1, <1>2, <1>3, <1>4 DEF Rank

(* A step of a part.                                                         *)
LEMMA PartRank ==
  ASSUME DownloadInv, TypeOK', IsFiniteSet(io_list), NEW p \in AllParts, Part(p)
  PROVE  IsFiniteSet(io_list') /\ Rank' < Rank
<1> USE DEF others, objectVars, mainVars, queueVars
<1>0. TypeOK /\ \A q \in cancelling : part[q] \notin Finished \cup {"none"}
  BY DEF DownloadInv, PartsInv
<1>1. part \in [AllParts -> Waiting \cup Holding \cup Finished] /\ io_queue \in Seq(Content)
  BY <1>0 DEF TypeOK
<1>2. UNCHANGED <<main, queue_reader, closed, io_list>>
  BY DEF Part, Acquire, GetSucceeds, GetFails, BodyFails, BodyToQueue, BodyToFile, BodyToLock,
         Lock, Seek, Write, WriteFails, CancelDelivered, Moves
<1>3. \/ \E to \in Waiting \cup Holding \cup Finished : Goes(p, to) /\ StepsFrom(to) < StepsFrom(part[p])
                /\ UNCHANGED <<io_queue, cancelling>>
      \/ /\ Goes(p, "done") /\ part[p] = "body" /\ cancelling' = cancelling
         /\ io_queue' = Append(io_queue, content[p])
      \/ CancelDelivered(p)
  <2>1. CASE Acquire(p) \/ GetSucceeds(p) \/ BodyToLock(p) \/ Lock(p) \/ Seek(p)
    BY <2>1, StepsOf DEF Acquire, GetSucceeds, BodyToLock, Lock, Seek, Moves, Runs, Holding, Writing
  <2>2. CASE GetFails(p) \/ BodyFails(p) \/ WriteFails(p)
    BY <2>2, StepsOf DEF GetFails, BodyFails, WriteFails, Moves, Runs, Writing, Finished
  <2>3. CASE BodyToFile(p) \/ Write(p)
    BY <2>3, StepsOf DEF BodyToFile, Write, Completes, Runs, Finished
  <2>4. CASE BodyToQueue(p)
    BY <2>4 DEF BodyToQueue, Completes, Runs
  <2> QED
    BY <2>1, <2>2, <2>3, <2>4 DEF Part
<1>4. CancelDelivered(p) => /\ Goes(p, "cancelled") /\ io_queue' = io_queue
                            /\ cancelling' = cancelling \ {p}
                            /\ StepsFrom("cancelled") < StepsFrom(part[p])
  <2> SUFFICES ASSUME CancelDelivered(p) PROVE StepsFrom("cancelled") < StepsFrom(part[p])
    BY DEF CancelDelivered
  <2>1. part[p] \notin Finished /\ part[p] \in Waiting \cup Holding
    BY <1>0, <1>1 DEF CancelDelivered
  <2>2. StepsFrom("cancelled") = 0
    BY StepsOf DEF Finished
  <2>3. \A at \in Waiting \cup Holding : 0 < StepsFrom(at)
    BY StepsOf DEF Waiting, Holding, Writing
  <2> QED
    BY <2>1, <2>2, <2>3
<1>5. /\ \A q \in AllParts \ {p} : part'[q] = part[q]
      /\ StepsFrom(part'[p]) < StepsFrom(part[p])
  <2>1. \E to : Goes(p, to) /\ StepsFrom(to) < StepsFrom(part[p])
    <3>1. StepsFrom("done") = 0 /\ StepsFrom("body") = 4
      BY StepsOf DEF Finished
    <3> QED
      BY <1>3, <1>4, <3>1
  <2> QED
    BY <1>1, <2>1 DEF Goes
<1>6. /\ Cardinality(PartSteps) \in Nat /\ Cardinality(PartSteps') \in Nat
      /\ Cardinality(PartSteps') < Cardinality(PartSteps)
      /\ part[p] = "body" /\ part'[p] = "done" =>
             Cardinality(PartSteps') + 3 <= Cardinality(PartSteps)
  BY <1>0, <1>5, FewerSteps
<1>7. \/ Len(io_queue') = Len(io_queue)
      \/ Len(io_queue') = Len(io_queue) + 1 /\ part[p] = "body" /\ part'[p] = "done"
  <2>1. CASE /\ Goes(p, "done") /\ part[p] = "body"
             /\ io_queue' = Append(io_queue, content[p])
    <3>1. part'[p] = "done"
      BY <1>1, <2>1 DEF Goes
    <3>2. content[p] \in Content
      BY <1>0 DEF TypeOK
    <3>3. Len(io_queue') = Len(io_queue) + 1
      BY <1>1, <2>1, <3>2
    <3> QED
      BY <2>1, <3>1, <3>3
  <2>2. CASE io_queue' = io_queue
    BY <2>2
  <2> QED
    BY <1>3, <1>4, <2>1, <2>2
<1>8. CancelRank' <= CancelRank
  <2>1. ASSUME NEW q \in AllParts, q \in cancelling \/ part[q] = "cancelled"
        PROVE  q \in cancelling' \/ part'[q] = "cancelled"
    <3>1. q # p => part'[q] = part[q]
      BY <1>5
    <3>2. part[p] # "cancelled"
      <4>1. StepsFrom("cancelled") = 0 /\ StepsFrom(part'[p]) \in Nat
        <5>1. part'[p] \in Waiting \cup Holding \cup Finished
          BY DEF TypeOK, AllParts, PartsOf, Start
        <5> QED
          BY <5>1, StepsOf DEF Finished
      <4> QED
        BY <1>5, <4>1
    <3>3. CASE cancelling' = cancelling
      BY <2>1, <3>1, <3>2, <3>3
    <3>4. CASE Goes(p, "cancelled") /\ cancelling' = cancelling \ {p}
      BY <1>1, <2>1, <3>1, <3>4 DEF Goes
    <3> QED
      BY <1>3, <1>4, <3>3, <3>4
  <2>2. AllParts' = AllParts
    BY DEF AllParts, PartsOf, Start
  <2> QED
    BY <2>1, <2>2 DEF CancelRank
<1>9. /\ MainRank' = MainRank /\ ReaderRank' = ReaderRank /\ CloseRank' = CloseRank
      /\ io_list' = io_list
  BY <1>2 DEF MainRank, ReaderRank, CloseRank
<1>10. /\ Len(io_queue) \in Nat /\ Cardinality(io_list) \in Nat /\ MainRank \in Nat
       /\ ReaderRank \in Nat /\ CloseRank \in Nat /\ CancelRank \in Nat /\ CancelRank' \in Nat
  <2>1. CancelRank' \in Nat
    BY DEF CancelRank
  <2> QED
    BY <1>0, <2>1, RankParts
<1>11. Rank' = Cardinality(PartSteps') + 2 * Len(io_queue') + Cardinality(io_list')
               + MainRank' + ReaderRank' + CloseRank' + CancelRank'
  BY DEF Rank
<1>12. Cardinality(PartSteps') + 2 * Len(io_queue') < Cardinality(PartSteps) + 2 * Len(io_queue)
  BY <1>6, <1>7, <1>10
<1> HIDE DEF others, objectVars, mainVars, queueVars
<1>13. Rank' < Rank
  <2>1. \A a, b, l, r, c, v, w, m, x, y \in Nat :
           a + 2 * b < x + 2 * y /\ w <= v =>
              a + 2 * b + l + m + r + c + w < x + 2 * y + l + m + r + c + v
    OBVIOUS
  <2>2. Len(io_queue') \in Nat
    BY <1>7, <1>10
  <2>3. Cardinality(PartSteps') + 2 * Len(io_queue') + Cardinality(io_list)
               + MainRank + ReaderRank + CloseRank + CancelRank'
        < Cardinality(PartSteps) + 2 * Len(io_queue) + Cardinality(io_list)
               + MainRank + ReaderRank + CloseRank + CancelRank
    BY <1>6, <1>8, <1>10, <1>12, <2>1, <2>2
  <2> QED
    BY <1>9, <1>11, <2>3 DEF Rank
<1> QED
  BY <1>9, <1>13

(* Sums that fall because one of their terms does.                           *)
LEMMA SumsFall ==
  /\ \A k, a, b, c, d, e, f, g, h \in Nat :
        a + b + c + d < e + f + g + h => k + a + b + c + d < k + e + f + g + h
  /\ \A a, b, c, d, e, f, g, h \in Nat :
        a <= e /\ b <= f /\ c <= g /\ d <= h /\ (a < e \/ b < f \/ c < g \/ d < h)
           => a + b + c + d < e + f + g + h
  /\ \A b, c, d, f, g, h \in Nat :
        b <= 1 /\ c <= g /\ d <= h => 2 + b + c + d < 4 + f + g + h
  /\ \A n, q, l, r, u, v, w, m, c, d \in Nat :
        2 * u + v < 2 * q + l /\ w <= r => n + 2 * u + v + m + w + c + d < n + 2 * q + l + m + r + c + d
  /\ \A n, q, l, m, c, d \in Nat : n + 2 * q + l + m + 0 + c + d < n + 2 * q + l + m + 1 + c + d
OBVIOUS

(* A step of queue_reader.                                                   *)
LEMMA ReaderRankStep ==
  ASSUME DownloadInv, TypeOK', IsFiniteSet(io_list), QueueReader
  PROVE  IsFiniteSet(io_list') /\ Rank' < Rank
<1> USE DEF partVars, mainVars, objectVars
<1>0. TypeOK
  BY DEF DownloadInv
<1>1. UNCHANGED <<part, main, closed, cancelling>> /\ queue_reader \in {"get", "write"}
  BY DEF QueueReader, TakeChunk, WriteChunk, WriteChunkFails
<1>2. PartSteps' = PartSteps /\ MainRank' = MainRank /\ CloseRank' = CloseRank
      /\ CancelRank' = CancelRank
  <2>1. AllParts' = AllParts
    BY DEF AllParts, PartsOf, Start
  <2>2. PartSteps' = PartSteps
    BY <1>1, <2>1 DEF PartSteps, StepsFrom
  <2> QED
    BY <1>1, <2>1, <2>2 DEF MainRank, CloseRank, CancelRank
<1>3. ReaderRank = 1 /\ ReaderRank' \in 0..1
  BY <1>1 DEF ReaderRank
<1>4. /\ Cardinality(PartSteps) \in Nat /\ Len(io_queue) \in Nat /\ Cardinality(io_list) \in Nat
      /\ MainRank \in Nat /\ CloseRank \in Nat /\ CancelRank \in Nat
  BY <1>0, RankParts
<1>5. Rank' = Cardinality(PartSteps) + 2 * Len(io_queue') + Cardinality(io_list')
              + MainRank + ReaderRank' + CloseRank + CancelRank
  BY <1>2 DEF Rank
<1>6. ASSUME Len(io_queue') \in Nat, Cardinality(io_list') \in Nat,
             2 * Len(io_queue') + Cardinality(io_list') < 2 * Len(io_queue) + Cardinality(io_list)
      PROVE  Rank' < Rank
  <2>1. ReaderRank \in Nat /\ ReaderRank' \in Nat /\ ReaderRank' <= ReaderRank
    BY <1>3
  <2>2. Cardinality(PartSteps) + 2 * Len(io_queue') + Cardinality(io_list')
              + MainRank + ReaderRank' + CloseRank + CancelRank
        < Cardinality(PartSteps) + 2 * Len(io_queue) + Cardinality(io_list)
              + MainRank + ReaderRank + CloseRank + CancelRank
    BY <1>4, <1>6, <2>1, SumsFall
  <2> QED
    BY <1>5, <2>2 DEF Rank
<1>7. CASE TakeChunk
  <2>1. io_queue # <<>> /\ io_queue' = Tail(io_queue) /\ io_list' = io_list \cup {Head(io_queue)}
    BY <1>7 DEF TakeChunk
  <2>2. Len(io_queue') \in Nat /\ Len(io_queue') = Len(io_queue) - 1
    <3>1. io_queue \in Seq(Content)
      BY <1>0 DEF TypeOK
    <3> QED
      BY <2>1, <3>1
  <2>3. /\ IsFiniteSet(io_list') /\ Cardinality(io_list') \in Nat
        /\ Cardinality(io_list') <= Cardinality(io_list) + 1
    <3>1. /\ IsFiniteSet(io_list')
          /\ Cardinality(io_list') = IF Head(io_queue) \in io_list THEN Cardinality(io_list)
                                     ELSE Cardinality(io_list) + 1
      BY <2>1, FS_AddElement
    <3> QED
      BY <1>4, <3>1, FS_CardinalityType
  <2>4. 2 * Len(io_queue') + Cardinality(io_list') < 2 * Len(io_queue) + Cardinality(io_list)
    BY <1>4, <2>2, <2>3
  <2> QED
    BY <1>6, <2>2, <2>3, <2>4
<1>8. CASE WriteChunk
  <2>1. PICK c \in NextChunks(io_list, written_pos) : io_list' = io_list \ {c}
    BY <1>8 DEF WriteChunk
  <2>2. c \in io_list /\ io_queue' = io_queue
    BY <1>8 DEF WriteChunk, NextChunks
  <2>3. /\ IsFiniteSet(io_list') /\ Cardinality(io_list') \in Nat
        /\ Cardinality(io_list') = Cardinality(io_list) - 1
    BY <2>1, <2>2, FS_RemoveElement, FS_CardinalityType
  <2>4. Len(io_queue') \in Nat
        /\ 2 * Len(io_queue') + Cardinality(io_list') < 2 * Len(io_queue) + Cardinality(io_list)
    BY <1>4, <2>2, <2>3
  <2> QED
    BY <1>6, <2>3, <2>4
<1>9. CASE WriteChunkFails
  <2>1. io_list' = io_list /\ io_queue' = io_queue /\ ReaderRank' = 0
    BY <1>9 DEF WriteChunkFails, ReaderRank
  <2> QED
    BY <1>3, <1>4, <1>5, <2>1, SumsFall DEF Rank
<1> QED
  BY <1>7, <1>8, <1>9 DEF QueueReader

(* A step of the caller's task, or its cancellation.                         *)
LEMMA CallerRank ==
  ASSUME DownloadInv, TypeOK', IsFiniteSet(io_list), Main \/ CancelMain
  PROVE  IsFiniteSet(io_list') /\ Rank' < Rank
<1> USE DEF mainVars, partVars, queueVars, objectVars
<1>0. TypeOK /\ AllParts' = AllParts
  BY DEF DownloadInv, AllParts, PartsOf, Start
<1>1. UNCHANGED <<io_queue, io_list>>
  BY DEF Main, CancelMain, HeadSucceeds, HeadFails, GatherReturns, GatherRaises,
         QueueReaderReturns, CloseFile
<1>2. /\ Cardinality(PartSteps) \in Nat /\ Len(io_queue) \in Nat /\ Cardinality(io_list) \in Nat
      /\ MainRank \in Nat /\ ReaderRank \in 0..1 /\ CloseRank \in 0..1 /\ CancelRank \in 0..1
  BY <1>0, RankParts
<1>3. MainRank' \in Nat /\ ReaderRank' \in 0..1 /\ CloseRank' \in 0..1 /\ CancelRank' \in 0..1
  BY DEF TypeOK, MainRank, ReaderRank, CloseRank, CancelRank
<1>4. PartSteps' = PartSteps
  <2>1. CASE part' = part
    BY <1>0, <2>1 DEF PartSteps, StepsFrom
  <2>2. CASE HeadSucceeds
    <3>1. \A p \in AllParts : part[p] = "none" /\ part'[p] \in {"none", "semaphore"}
      <4>1. \A p \in AllParts : p \notin Parts
        <5>1. total_size = 0
          BY <2>2 DEF HeadSucceeds, DownloadInv, MainInv
        <5>2. \A p \in Parts : Start(p) < 0
          BY <5>1 DEF Parts, PartsOf
        <5> QED
          BY <5>2, PartFacts
      <4> QED
        BY <2>2, <4>1 DEF HeadSucceeds, DownloadInv, PartsInv
    <3>2. \A p \in AllParts : StepsFrom(part[p]) = 6 /\ StepsFrom(part'[p]) = 6
      BY <3>1, StepsOf
    <3>3. \A s \in AllParts \X (1..6) :
             StepsFrom(part[s[1]]) = 6 /\ StepsFrom(part'[s[1]]) = 6
      BY <3>2
    <3>4. PartSteps' = {s \in AllParts \X (1..6) : s[2] <= StepsFrom(part'[s[1]])}
      BY <1>0 DEF PartSteps, StepsFrom
    <3> QED
      BY <3>3, <3>4 DEF PartSteps
  <2> QED
    BY <2>1, <2>2 DEF Main, CancelMain, HeadFails, GatherReturns, GatherRaises,
         QueueReaderReturns, CloseFile
<1>5. /\ MainRank \in Nat /\ ReaderRank \in Nat /\ CloseRank \in Nat /\ CancelRank \in Nat
      /\ MainRank' \in Nat /\ ReaderRank' \in Nat /\ CloseRank' \in Nat /\ CancelRank' \in Nat
      /\ ReaderRank' <= 1
  BY <1>2, <1>3
<1>6. MainRank' <= MainRank /\ ReaderRank' <= ReaderRank /\ CloseRank' <= CloseRank
      /\ CancelRank' <= CancelRank
      /\ \/ MainRank' < MainRank \/ ReaderRank' < ReaderRank \/ CloseRank' < CloseRank
         \/ CancelRank' < CancelRank
      => MainRank' + ReaderRank' + CloseRank' + CancelRank'
            < MainRank + ReaderRank + CloseRank + CancelRank
  BY <1>5, SumsFall
<1>7. /\ MainRank' + ReaderRank' + CloseRank' + CancelRank'
            < MainRank + ReaderRank + CloseRank + CancelRank
  <2>1. CASE HeadSucceeds
    <3>1. MainRank = 4 /\ MainRank' = 2 /\ CloseRank' = CloseRank
      BY <2>1 DEF HeadSucceeds, MainRank, CloseRank
    <3>2. CancelRank' <= CancelRank
      <4>1. \A p \in AllParts : ~(p \in cancelling \/ part[p] = "cancelled") \/ part[p] # "none"
        BY DEF DownloadInv, PartsInv
      <4>2. \A p \in AllParts : part[p] = "none"
        <5>1. total_size = 0
          BY <2>1 DEF HeadSucceeds, DownloadInv, MainInv
        <5>2. \A p \in Parts : Start(p) < 0
          BY <5>1 DEF Parts, PartsOf
        <5>3. \A p \in AllParts : p \notin Parts
          BY <5>2, PartFacts
        <5> QED
          BY <5>3 DEF DownloadInv, PartsInv
      <4>3. CancelRank = 1
        BY <4>1, <4>2 DEF CancelRank
      <4> QED
        BY <1>3, <4>3
    <3>3. 2 + ReaderRank' + CloseRank' + CancelRank' < 4 + ReaderRank + CloseRank + CancelRank
      <4>1. ReaderRank' <= 1 /\ CloseRank' <= CloseRank /\ CancelRank' <= CancelRank
        BY <1>5, <3>1, <3>2
      <4> QED
        BY <1>5, <4>1, SumsFall
    <3> QED
      BY <3>1, <3>3
  <2>2. CASE HeadFails \/ GatherReturns \/ GatherRaises \/ QueueReaderReturns
    <3>1. MainRank' < MainRank
      BY <2>2 DEF HeadFails, GatherReturns, GatherRaises, QueueReaderReturns, Finish, MainRank
    <3>2. UNCHANGED <<queue_reader, closed, part, cancelling>>
      BY <2>2 DEF HeadFails, GatherReturns, GatherRaises, QueueReaderReturns
    <3>3. ReaderRank' = ReaderRank /\ CloseRank' = CloseRank /\ CancelRank' = CancelRank
      BY <1>0, <3>2 DEF ReaderRank, CloseRank, CancelRank
    <3> QED
      <4>1. /\ MainRank' <= MainRank /\ ReaderRank' <= ReaderRank
            /\ CloseRank' <= CloseRank /\ CancelRank' <= CancelRank /\ MainRank' < MainRank
        BY <1>5, <3>1, <3>3
      <4> QED
        BY <1>6, <4>1
  <2>3. CASE CloseFile
    <3>1. CloseRank = 1 /\ CloseRank' = 0 /\ UNCHANGED <<main, queue_reader, part, cancelling>>
      BY <2>3 DEF CloseFile, CloseRank
    <3>2. MainRank' = MainRank /\ ReaderRank' = ReaderRank /\ CancelRank' = CancelRank
      BY <1>0, <3>1 DEF ReaderRank, MainRank, CancelRank
    <3> QED
      BY <1>5, <1>6, <3>1, <3>2
  <2>4. CASE CancelMain
    <3>1. CloseRank' = CloseRank /\ part' = part
      BY <2>4 DEF CancelMain, CloseRank
    <3>2. CASE /\ main \in {"head", "gather", "queue_reader"} /\ main' = "done"
               /\ UNCHANGED <<cancelling, queue_reader>>
      <4>1. MainRank' < MainRank /\ ReaderRank' = ReaderRank /\ CancelRank' = CancelRank
        BY <1>0, <3>1, <3>2 DEF MainRank, ReaderRank, CancelRank
      <4> QED
        <5>1. /\ MainRank' <= MainRank /\ ReaderRank' <= ReaderRank
              /\ CloseRank' <= CloseRank /\ CancelRank' <= CancelRank /\ MainRank' < MainRank
          BY <1>5, <3>1, <4>1
        <5> QED
          BY <1>6, <5>1
    <3>3. CASE /\ cancelling = {} /\ ~GatherOver /\ main' = main /\ queue_reader' = queue_reader
               /\ cancelling' = {p \in Parts : part[p] \notin Finished}
      <4>1. PICK p \in Parts : part[p] # "done"
        BY <3>3 DEF GatherOver, GatherDone
      <4>2. \A q \in Parts : part[q] # "failed" /\ part[q] # "cancelled"
        BY <3>3 DEF GatherOver
      <4>3. p \in cancelling' /\ p \in AllParts
        BY <1>0, <3>3, <4>1, <4>2, PartFacts DEF Finished, Parts, TypeOK
      <4>4. CancelRank = 1
        <5>1. \A q \in AllParts : part[q] = "cancelled" => q \in Parts
          BY DEF DownloadInv, PartsInv
        <5> QED
          BY <3>3, <4>2, <5>1 DEF CancelRank
      <4>5. CancelRank' = 0
        BY <1>0, <4>3 DEF CancelRank
      <4>6. MainRank' = MainRank /\ ReaderRank' = ReaderRank
        BY <3>3 DEF MainRank, ReaderRank
      <4> QED
        BY <1>5, <1>6, <3>1, <4>4, <4>5, <4>6
    <3>4. CASE /\ queue_reader \in {"get", "write"} /\ queue_reader' = "done"
               /\ UNCHANGED <<main, cancelling>>
      <4>1. ReaderRank = 1 /\ ReaderRank' = 0 /\ MainRank' = MainRank /\ CancelRank' = CancelRank
        BY <1>0, <3>1, <3>4 DEF MainRank, ReaderRank, CancelRank
      <4> QED
        BY <1>5, <1>6, <3>1, <4>1
    <3> QED
      BY <2>4, <3>2, <3>3, <3>4 DEF CancelMain, Finish
  <2> QED
    BY <2>1, <2>2, <2>3, <2>4 DEF Main
<1>8. Rank' = Cardinality(PartSteps) + 2 * Len(io_queue) + Cardinality(io_list)
              + MainRank' + ReaderRank' + CloseRank' + CancelRank'
  BY <1>1, <1>4 DEF Rank
<1> HIDE DEF mainVars, partVars, queueVars, objectVars
<1>9. Rank' < Rank
  <2> DEFINE k == Cardinality(PartSteps) + 2 * Len(io_queue) + Cardinality(io_list)
  <2>1. k \in Nat
    BY <1>2
  <2>2. Rank = k + MainRank + ReaderRank + CloseRank + CancelRank
    BY DEF Rank
  <2>3. Rank' = k + MainRank' + ReaderRank' + CloseRank' + CancelRank'
    BY <1>8
  <2> HIDE DEF k
  <2> QED
    <3>1. k + MainRank' + ReaderRank' + CloseRank' + CancelRank'
            < k + MainRank + ReaderRank + CloseRank + CancelRank
      BY <1>7, <1>5, <2>1, SumsFall
    <3> QED
      BY <2>2, <2>3, <3>1
<1> QED
  BY <1>1, <1>9

\* A download takes boundedly many steps, and so do the coroutines it leaves
\* running: every step but another client's overwriting of the object lowers
\* Rank, a natural number, which that one leaves alone.  Whatever fails, however
\* the object changes and whenever the call is cancelled, neither a part nor
\* queue_reader polls, retries or starts over: a call that does not end is
\* waiting for something that will not come.
THEOREM DownloadIsBounded ==
  Spec => [](Rank \in Nat) /\ [][Rank' < Rank \/ (Overwrite /\ Rank' = Rank)]_vars
<1>1. Init => IsFiniteSet(io_list)
  BY FS_EmptySet DEF Init
<1>2. ASSUME DownloadInv, DownloadInv', IsFiniteSet(io_list), Next
      PROVE  IsFiniteSet(io_list') /\ (Rank' < Rank \/ (Overwrite /\ Rank' = Rank))
  <2>1. TypeOK /\ TypeOK'
    BY <1>2 DEF DownloadInv
  <2>2. CASE Overwrite
    <3>1. UNCHANGED <<part, cancelling, io_queue, io_list, main, queue_reader, closed>>
      BY <2>2 DEF Overwrite, mainVars, partVars, queueVars
    <3>2. AllParts' = AllParts
      BY DEF AllParts, PartsOf, Start
    <3>3. PartSteps' = PartSteps
      BY <3>1, <3>2 DEF PartSteps, StepsFrom
    <3>4. /\ MainRank' = MainRank /\ ReaderRank' = ReaderRank /\ CloseRank' = CloseRank
          /\ CancelRank' = CancelRank
      BY <3>1, <3>2 DEF MainRank, ReaderRank, CloseRank, CancelRank
    <3> QED
      BY <1>2, <2>2, <3>1, <3>3, <3>4 DEF Rank
  <2>3. CASE \E p \in AllParts : Part(p)
    BY <1>2, <2>1, <2>3, PartRank
  <2>4. CASE QueueReader
    BY <1>2, <2>1, <2>4, ReaderRankStep
  <2>5. CASE Main \/ CancelMain
    BY <1>2, <2>1, <2>5, CallerRank
  <2> QED
    BY <1>2, <2>2, <2>3, <2>4, <2>5 DEF Next
<1>3. DownloadInv /\ DownloadInv' /\ IsFiniteSet(io_list) /\ [Next]_vars => IsFiniteSet(io_list)'
  BY <1>2 DEF vars, queueVars
<1>4. DownloadInv /\ DownloadInv' /\ IsFiniteSet(io_list) /\ [Next]_vars
         => [Rank' < Rank \/ (Overwrite /\ Rank' = Rank)]_vars
  BY <1>2
<1>5. DownloadInv /\ IsFiniteSet(io_list) => Rank \in Nat
  BY RankParts DEF DownloadInv
<1> QED
  BY <1>1, <1>3, <1>4, <1>5, DownloadInvariant, PTL DEF Spec

===============================================================================
