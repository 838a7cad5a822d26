------------------------- MODULE UploadFileobj_proofs -------------------------
(****************************************************************************)
(* What upload_fileobj guarantees for any number of uploaders, any queue and *)
(* part sizes, any file and any set of faults.                               *)
(****************************************************************************)
EXTENDS UploadFileobj, FiniteSetTheorems, SequenceTheorems, TLAPS

-----------------------------------------------------------------------------
(* The state before the multipart upload is created, and after it.           *)

Before == {"initial", "put_object", "callback", "create"}

(* Uploaders that took a part from the queue and have not called task_done   *)
(* for it, and those of them that will not, or not yet, list it as finished. *)
Busy    == {u \in Uploaders : uploader[u] \in {"upload", "callback", "failed", "cancelled"}}
Holding == {u \in Uploaders : uploader[u] \in {"upload", "failed", "cancelled"}}

NotStarted ==
    main \in Before =>
        /\ uploader = [u \in Uploaders |-> "none"]
        /\ reader = "none" /\ expected_parts = 0
        /\ io_queue = <<>> /\ finished_parts = <<>>
        /\ exception = None /\ exception_event = FALSE

(* Every part that was put is in the queue, with an uploader, or finished.   *)
Counts ==
    /\ unfinished_tasks = Len(io_queue) + Cardinality(Busy)
    /\ expected_parts = Len(io_queue) + Cardinality(Holding) + Len(finished_parts)

(* Between put_object and its Callback.                                      *)
JustPut == main = "callback" => object \in PutObjects

CountInv == TypeOK /\ payload.hi <= pos /\ NotStarted /\ Counts /\ JustPut

-----------------------------------------------------------------------------
(* Adding or removing one uploader, and a set no bigger than Uploaders.      *)
LEMMA SubsetCardinality ==
  ASSUME NEW S \in SUBSET Uploaders
  PROVE  /\ IsFiniteSet(S)
         /\ Cardinality(S) \in Nat
         /\ Cardinality(S) = 0 => S = {}
         /\ \A u \in Uploaders \ S : Cardinality(S \cup {u}) = Cardinality(S) + 1
         /\ \A u \in S : /\ Cardinality(S \ {u}) = Cardinality(S) - 1
                         /\ Cardinality(S) > 0
<1>1. IsFiniteSet(S)
  BY UploadersAssumption, FS_Subset
<1>2. Cardinality(S) \in Nat /\ (Cardinality(S) = 0 => S = {})
  BY <1>1, FS_CardinalityType, FS_EmptySet
<1>3. \A u \in Uploaders \ S : Cardinality(S \cup {u}) = Cardinality(S) + 1
  BY <1>1, FS_AddElement
<1>4. ASSUME NEW u \in S
      PROVE  Cardinality(S \ {u}) = Cardinality(S) - 1 /\ Cardinality(S) > 0
  <2>1. Cardinality(S \ {u}) = Cardinality(S) - 1
    BY <1>1, FS_RemoveElement
  <2> QED
    BY <1>2, <2>1
<1> QED
  BY <1>1, <1>2, <1>3, <1>4

(* Sorting rearranges: the result has the length and the elements it had.    *)
LEMMA SortedRearranges ==
  ASSUME NEW parts \in Seq(Part), NEW t \in SortedByPartNumber(parts)
  PROVE  /\ t \in Seq(Part)
         /\ Len(t) = Len(parts)
         /\ Range(t) = Range(parts)
         /\ \A i, j \in 1..Len(t) : i < j => t[i].n <= t[j].n
<1> DEFINE D == 1..Len(parts)
<1>1. /\ parts \in [D -> Part] /\ DOMAIN parts = D /\ Len(parts) \in Nat
  OBVIOUS
<1>2. PICK p \in Bijection(D, D) :
          /\ t = [i \in D |-> parts[p[i]]]
          /\ \A i, j \in D : i < j =>
               \/ parts[p[i]].n < parts[p[j]].n
               \/ parts[p[i]].n = parts[p[j]].n /\ p[i] < p[j]
  BY <1>1 DEF SortedByPartNumber
<1>3. p \in [D -> D] /\ \A j \in D : \E i \in D : p[i] = j
  BY DEF Bijection, Injection, Surjection
<1>4. /\ t \in Seq(Part) /\ Len(t) = Len(parts) /\ DOMAIN t = D
  <2>1. \A i \in D : parts[p[i]] \in Part
    BY <1>1, <1>3
  <2> QED
    BY <1>1, <1>2, <2>1
<1>5. Range(t) = Range(parts)
  BY <1>1, <1>2, <1>3, <1>4 DEF Range
<1>6. ASSUME NEW i \in D, NEW j \in D, i < j
      PROVE  t[i].n <= t[j].n
  <2>1. parts[p[i]].n \in Nat /\ parts[p[j]].n \in Nat
    BY <1>1, <1>3 DEF Part
  <2>2. t[i] = parts[p[i]] /\ t[j] = parts[p[j]]
    BY <1>2
  <2>3. parts[p[i]].n < parts[p[j]].n \/ parts[p[i]].n = parts[p[j]].n
    BY <1>2, <1>6
  <2> QED
    BY <2>1, <2>2, <2>3
<1> QED
  BY <1>1, <1>4, <1>5, <1>6

-----------------------------------------------------------------------------
(* Type correctness.  CallbackDone's decrement stays in Nat because of Counts. *)
(* Byte ranges.                                                              *)
LEMMA SizeNat == \A p \in Part : Size(p) \in Nat
  BY DEF Part, Size

LEMMA BytesFields ==
  /\ \A b \in Bytes : b \in [lo : Nat, hi : Nat] /\ b.lo <= b.hi
  /\ \A l, h \in Nat : l <= h => [lo |-> l, hi |-> h] \in Bytes
  BY DEF Bytes

LEMMA BodySizesNat ==
  ASSUME TypeOK, NEW b \in Bytes
  PROVE  /\ BodySizes(b) \subseteq Nat
         /\ ~processing => BodySizes(b) = {Size(b)}
         /\ Size(b) \in Nat
<1>1. b \in [lo : Nat, hi : Nat] /\ b.lo <= b.hi
  BY BytesFields
<1>2. Size(b) \in Nat
  BY <1>1 DEF Size
<1> QED
  BY <1>2, SizesAssumption DEF BodySizes

(* What put_object stores: one part, the whole file.                         *)
LEMMA PutObjectsAreParts ==
  ASSUME TypeOK, NEW o \in PutObjects
  PROVE  /\ o \in Seq(Part) /\ o # <<>> /\ Len(o) = 1
         /\ o[1].n = 1 /\ o[1].lo = 0 /\ o[1].hi = pos /\ o[1].size \in Nat
         /\ ~processing => o[1].size = pos
<1>1. WholeFile \in Bytes /\ Size(WholeFile) = pos /\ pos \in Nat
  BY DEF TypeOK, WholeFile, Bytes, Size
<1>2. PICK k \in BodySizes(WholeFile) : o = <<[n |-> 1, lo |-> 0, hi |-> pos, size |-> k]>>
  BY DEF PutObjects
<1>3. k \in Nat /\ (~processing => k = pos)
  BY <1>1, BodySizesNat
<1> DEFINE p == [n |-> 1, lo |-> 0, hi |-> pos, size |-> k]
<1>4. /\ p \in Part /\ p.n = 1 /\ p.lo = 0 /\ p.hi = pos /\ p.size = k
  BY <1>1, <1>3 DEF Part
<1>5. o = <<p>>
  BY <1>2
<1> HIDE DEF p
<1> QED
  BY <1>3, <1>4, <1>5

(* The part that io_queue.put appends.                                       *)
LEMMA PutAppends ==
  ASSUME TypeOK, ReaderPut
  PROVE  \E new \in Part :
           /\ new.n = part /\ new.lo = payload.lo /\ new.hi = payload.hi
           /\ ~processing => new.size = Size(new)
           /\ io_queue' = Append(io_queue, new)
<1>1. PICK k \in BodySizes(payload) :
          io_queue' = Append(io_queue, [n |-> part, lo |-> payload.lo,
                                        hi |-> payload.hi, size |-> k])
  BY DEF ReaderPut
<1> DEFINE new == [n |-> part, lo |-> payload.lo, hi |-> payload.hi, size |-> k]
<1>2. k \in Nat /\ (~processing => k = Size(payload))
  BY BodySizesNat DEF TypeOK
<1>3. new \in Part
  BY <1>2 DEF TypeOK, Bytes, Part
<1>4. new.size = k /\ Size(new) = Size(payload)
  BY DEF Size
<1> QED
  BY <1>1, <1>2, <1>3, <1>4

LEMMA BusyCounted ==
  ASSUME TypeOK, Counts, NEW u \in Busy
  PROVE  unfinished_tasks - 1 \in Nat
<1>1. Busy \in SUBSET Uploaders
  BY DEF Busy
<1>2. Cardinality(Busy) \in Nat /\ Cardinality(Busy) > 0
  BY <1>1, SubsetCardinality
<1>3. Len(io_queue) \in Nat
  BY DEF TypeOK
<1> QED
  BY <1>2, <1>3 DEF Counts

LEMMA TypeStep ==
  ASSUME CountInv, [Next]_vars
  PROVE  TypeOK'
<1> USE DEF mainVars, failVars, queueVars, readerVars, upVars, fileVars, s3Vars
<1>0. TypeOK /\ payload.hi <= pos /\ Counts /\ JustPut
  BY DEF CountInv
<1>1. CASE InitialRead
  BY <1>0, <1>1 DEF TypeOK, InitialRead, Reads
<1>2. CASE InitialEOF
  BY <1>0, <1>2 DEF TypeOK, InitialEOF, ReadsNothing, ProcessingFails, Finish, Errors
<1>3. CASE InitialReadFails
  BY <1>0, <1>3 DEF TypeOK, InitialReadFails, Finish, Errors
<1>4. CASE PutObjectSucceeds
  <2>1. object' \in Seq(Part)
    BY <1>0, <1>4, PutObjectsAreParts DEF TypeOK, PutObjectSucceeds
  <2> QED
    BY <1>0, <1>4, <2>1 DEF TypeOK, PutObjectSucceeds
<1>5. CASE PutObjectFails
  <2>1. object' \in Seq(Part)
    BY <1>0, <1>5, PutObjectsAreParts DEF TypeOK, PutObjectFails
  <2> QED
    BY <1>0, <1>5, <2>1 DEF TypeOK, PutObjectFails, Finish, Errors
<1>6. CASE PutObjectCallback
  <2>1. object[1].size \in Nat
    BY <1>0, <1>6, PutObjectsAreParts DEF JustPut, PutObjectCallback
  <2> QED
    BY <1>0, <1>6, <2>1 DEF TypeOK, PutObjectCallback, Finish, Errors
<1>7. CASE CreateSucceeds
  <2>1. [lo |-> 0, hi |-> pos] \in Bytes
    BY <1>0, BytesFields DEF TypeOK
  <2>2. reader' \in {"reading", "putting", "failed"}
    BY <1>7 DEF CreateSucceeds, StartFirstPart, ProcessThenPut
  <2> QED
    BY <1>0, <1>7, <2>1, <2>2 DEF TypeOK, CreateSucceeds, StartFirstPart
<1>8. CASE CreateFails
  BY <1>0, <1>8 DEF TypeOK, CreateFails, Finish, Errors
<1>9. CASE ReadChunk
  <2>1. pos' \in Nat /\ ended' \in BOOLEAN /\ processing' = processing /\ pos <= pos'
    BY <1>0, <1>9 DEF TypeOK, ReadChunk, Reads
  <2>2. payload' \in Bytes
    <3>1. payload \in [lo : Nat, hi : Nat] /\ payload.lo <= payload.hi
      BY <1>0, BytesFields DEF TypeOK
    <3>2. payload' = [lo |-> payload.lo, hi |-> pos']
      BY <1>9, <3>1 DEF ReadChunk
    <3>3. payload.lo <= pos'
      BY <1>0, <2>1, <3>1 DEF TypeOK
    <3> QED
      BY <2>1, <3>1, <3>2, <3>3, BytesFields
  <2>3. reader' \in {"reading", "putting", "failed"}
    BY <1>9 DEF ReadChunk, ProcessThenPut
  <2> QED
    BY <1>0, <1>9, <2>1, <2>2, <2>3 DEF TypeOK, ReadChunk
<1>10. CASE ReadEOF
  <2>1. reader' \in {"reading", "putting", "failed", "done"}
    BY <1>10 DEF ReadEOF, EndOfPayload, ProcessThenPut
  <2>2. /\ pos' = pos /\ ended' \in BOOLEAN /\ processing' = processing
        /\ payload' = payload
        /\ eof' \in BOOLEAN /\ read_once' \in BOOLEAN
    BY <1>0, <1>10 DEF TypeOK, ReadEOF, ReadsNothing
  <2> QED
    BY <1>0, <1>10, <2>1, <2>2 DEF TypeOK, ReadEOF
<1>11. CASE ReadFails
  BY <1>0, <1>11 DEF TypeOK, ReadFails, EndOfPayload, ProcessThenPut, Errors, Bytes
<1>12. CASE ReaderPut
  <2>1. PICK new \in Part : io_queue' = Append(io_queue, new)
    BY <1>0, <1>12, PutAppends
  <2>2. io_queue' \in Seq(Part)
    BY <1>0, <2>1 DEF TypeOK
  <2>3. /\ reader' \in {"done", "reading"} /\ part' \in Nat
        /\ payload' \in Bytes /\ read_once' \in BOOLEAN
    <3>1. [lo |-> pos, hi |-> pos] \in Bytes
      BY <1>0, BytesFields DEF TypeOK
    <3>2. CASE exception # None \/ eof
      BY <1>0, <1>12, <3>2 DEF TypeOK, ReaderPut
    <3>3. CASE ~(exception # None \/ eof)
      <4>1. /\ reader' = "reading" /\ part' = part + 1
            /\ payload' = [lo |-> pos, hi |-> pos] /\ read_once' = FALSE
        BY <1>12, <3>3 DEF ReaderPut
      <4>2. part \in Nat
        BY <1>0 DEF TypeOK
      <4>3. payload' \in Bytes
        BY <3>1, <4>1
      <4>4. part' \in Nat
        BY <4>1, <4>2
      <4> QED
        BY <4>1, <4>3, <4>4
    <3> QED
      BY <3>2, <3>3
  <2> QED
    BY <1>0, <1>12, <2>2, <2>3 DEF TypeOK, ReaderPut
<1>13. CASE UploadersStart
  BY <1>0, <1>13 DEF TypeOK, UploadersStart, Turn, Finished
<1>14. CASE AwaitReader
  <2>1. exception' \in Errors \cup {None} /\ exception_event' \in BOOLEAN
    BY <1>0, <1>14 DEF TypeOK, AwaitReader, Errors
  <2> QED
    BY <1>0, <1>14, <2>1 DEF TypeOK, AwaitReader
<1>15. CASE Wait
  <2>1. finished_parts' \in Seq(Part)
    BY <1>0, <1>15, SortedRearranges DEF TypeOK, Wait
  <2> QED
    BY <1>0, <1>15, <2>1 DEF TypeOK, Wait
<1>16. CASE AbortSucceeds
  BY <1>0, <1>16 DEF TypeOK, AbortSucceeds
<1>17. CASE AbortFails
  BY <1>0, <1>17 DEF TypeOK, AbortFails, Finish, Errors
<1>18. CASE CompleteSucceeds
  BY <1>0, <1>18 DEF TypeOK, CompleteSucceeds, Completes
<1>19. CASE CompleteFails
  BY <1>0, <1>19 DEF TypeOK, CompleteFails, Completes, Errors
<1>20. CASE AbortIncomplete
  BY <1>0, <1>20 DEF TypeOK, AbortIncomplete
<1>21. CASE ClosePending
  BY <1>0, <1>21 DEF TypeOK, ClosePending, RaiseOrReturn, Finish
<1>22. CASE Gather
  BY <1>0, <1>22 DEF TypeOK, Gather, RaiseOrReturn, Finish
<1>23. CASE CancelMain
  <2>1. /\ main' \in {"done", "gather_cancelled"}
        /\ outcome' \in {outcome, "cancelled"}
        /\ cancelling' \subseteq Uploaders
        /\ reader' \in {reader, "cancelled"}
    BY <1>0, <1>23 DEF TypeOK, CancelMain, Finish
  <2>2. s3' \in {"none", "open", "aborted", "completed"}
    BY <1>0, <1>23 DEF TypeOK, CancelMain, Completes
  <2>3. object' \in Seq(Part)
    BY <1>0, <1>23, PutObjectsAreParts DEF TypeOK, CancelMain, Completes
  <2> QED
    BY <1>0, <1>23, <2>1, <2>2, <2>3 DEF TypeOK, CancelMain
<1>24. ASSUME NEW u \in Uploaders, Get(u)
      PROVE  TypeOK'
  BY <1>0, <1>24 DEF TypeOK, Get, Runs
<1>25. ASSUME NEW u \in Uploaders, UploadPartSucceeds(u)
      PROVE  TypeOK'
  <2>1. part_args[u] \in Part
    BY <1>0 DEF TypeOK
  <2>2. finished_parts' \in Seq(Part)
    BY <1>0, <1>25, <2>1 DEF TypeOK, UploadPartSucceeds
  <2>3. reported' \in Nat
    BY <1>0, <1>25, <2>1 DEF TypeOK, UploadPartSucceeds, ReportSent, Part
  <2> QED
    BY <1>0, <1>25, <2>2, <2>3 DEF TypeOK, UploadPartSucceeds
<1>26. ASSUME NEW u \in Uploaders, UploadPartFails(u)
      PROVE  TypeOK'
  BY <1>0, <1>26 DEF TypeOK, UploadPartFails, Runs, Errors, Finished
<1>27. ASSUME NEW u \in Uploaders, CallbackDone(u)
      PROVE  TypeOK'
  <2>1. u \in Busy
    BY <1>27 DEF CallbackDone, Runs, Busy
  <2>2. unfinished_tasks' \in Nat
    BY <1>0, <1>27, <2>1, BusyCounted DEF CallbackDone, TaskDone
  <2> QED
    BY <1>0, <1>27, <2>2 DEF TypeOK, CallbackDone, NextTurn, Turn, Finished
<1>28. ASSUME NEW u \in Uploaders, CancelDelivered(u)
      PROVE  TypeOK'
  <2>1. unfinished_tasks' \in Nat
    <3>1. CASE uploader[u] = "callback"
      <4>1. u \in Busy
        BY <3>1 DEF Busy
      <4> QED
        BY <1>0, <1>28, <3>1, <4>1, BusyCounted DEF CancelDelivered, TaskDone
    <3>2. CASE uploader[u] # "callback"
      BY <1>0, <1>28, <3>2 DEF TypeOK, CancelDelivered
    <3> QED
      BY <3>1, <3>2
  <2>2. uploader' \in [Uploaders -> {"none", "start", "get", "upload", "callback"}
                                    \cup Finished]
    BY <1>0, <1>28 DEF TypeOK, CancelDelivered, NextTurn, Turn, Finished
  <2> QED
    BY <1>0, <1>28, <2>1, <2>2 DEF TypeOK, CancelDelivered
<1>29. ASSUME NEW u \in Uploaders, S3StoresPart(u)
      PROVE  TypeOK'
  BY <1>0, <1>29 DEF TypeOK, S3StoresPart
<1>30. CASE UNCHANGED vars
  BY <1>0, <1>30 DEF TypeOK, vars
<1> QED
  BY <1>1, <1>2, <1>3, <1>4, <1>5, <1>6, <1>7, <1>8, <1>9, <1>10, <1>11, <1>12, <1>13, <1>14, <1>15, <1>16, <1>17, <1>18, <1>19, <1>20, <1>21, <1>22, <1>23, <1>24, <1>25, <1>26, <1>27, <1>28, <1>29, <1>30
  DEF Next, SmallUpload, Reader, Uploader, Ending

-----------------------------------------------------------------------------
(* The file range under collection never runs ahead of the file.             *)
LEMMA PayloadStep ==
  ASSUME CountInv, [Next]_vars
  PROVE  (payload.hi <= pos)'
<1> USE DEF mainVars, failVars, queueVars, readerVars, upVars, fileVars, s3Vars
<1>0. /\ payload.hi <= pos /\ pos \in Nat /\ part \in Nat
      /\ payload \in [lo : Nat, hi : Nat]
  BY BytesFields DEF CountInv, TypeOK
<1>1. CASE InitialRead
  BY <1>0, <1>1 DEF InitialRead, Reads
<1>2. CASE ReadChunk
  BY <1>0, <1>2 DEF ReadChunk, Reads
<1>3. CASE UNCHANGED <<payload, pos>>
  BY <1>0, <1>3
<1>4. CASE CreateSucceeds
  BY <1>0, <1>4 DEF CreateSucceeds, StartFirstPart
<1>5. CASE ReadEOF
  BY <1>0, <1>5 DEF ReadEOF, ReadsNothing
<1>6. CASE ReadFails
  BY <1>0, <1>6 DEF ReadFails
<1>7. CASE ReaderPut
  BY <1>0, <1>7 DEF ReaderPut
<1>8. CASE InitialEOF
  BY <1>0, <1>8 DEF InitialEOF, ReadsNothing
<1>9. \/ InitialRead \/ ReadChunk \/ UNCHANGED <<payload, pos>>
      \/ CreateSucceeds \/ ReadEOF \/ ReadFails \/ ReaderPut \/ InitialEOF
  BY DEF Next, SmallUpload, Reader, Uploader, Ending, vars,
         InitialReadFails, PutObjectSucceeds, PutObjectFails,
         PutObjectCallback, CreateFails, UploadersStart, AwaitReader,
         Wait, AbortSucceeds, AbortFails, CompleteSucceeds, CompleteFails,
         AbortIncomplete, ClosePending, Gather, CancelMain, Get,
         UploadPartSucceeds, UploadPartFails, CallbackDone,
         CancelDelivered, S3StoresPart
<1> QED
  BY <1>1, <1>2, <1>3, <1>4, <1>5, <1>6, <1>7, <1>8, <1>9

(* Nothing of the multipart path moves before the upload is created.         *)
LEMMA NotStartedStep ==
  ASSUME CountInv, [Next]_vars
  PROVE  NotStarted'
<1> USE DEF mainVars, failVars, queueVars, readerVars, upVars, fileVars, s3Vars
<1> SUFFICES ASSUME main' \in Before
             PROVE  /\ main \in Before
                    /\ UNCHANGED <<uploader, reader, expected_parts, io_queue,
                                   finished_parts, failVars>>
  BY DEF CountInv, NotStarted
<1>1. main \in Before
  <2>1. CASE SmallUpload
    BY <2>1 DEF Before, SmallUpload, Finish, InitialRead, InitialEOF,
           InitialReadFails, PutObjectSucceeds, PutObjectFails,
           PutObjectCallback, CreateSucceeds, CreateFails
  <2>2. CASE Ending
    BY <2>2 DEF Before, Ending, RaiseOrReturn, Finish, AwaitReader, Wait,
           AbortSucceeds, AbortFails, CompleteSucceeds, CompleteFails,
           AbortIncomplete, ClosePending, Gather
  <2>3. CASE CancelMain
    BY <2>3 DEF Before, CancelMain, Finish
  <2>4. CASE UNCHANGED main
    BY <2>4
  <2> QED
    BY <2>1, <2>2, <2>3, <2>4 DEF vars, Next, Reader, Uploader,
           UploadersStart, S3StoresPart, ReadChunk, ReadEOF, ReadFails,
           ReaderPut, Get, UploadPartSucceeds, UploadPartFails,
           CallbackDone, CancelDelivered
<1>2. reader = "none" /\ \A u \in Uploaders : uploader[u] = "none"
  BY <1>1 DEF CountInv, NotStarted
<1>3. ~Reader /\ ~UploadersStart /\ ~CancelMain
  <2>1. ~Reader
    BY <1>2 DEF Reader, ReadChunk, ReadEOF, ReadFails, ReaderPut
  <2>2. ~UploadersStart
    BY <1>2, UploadersAssumption DEF UploadersStart
  <2>3. ~CancelMain
    BY DEF CancelMain, Finish, Before
  <2> QED
    BY <2>1, <2>2, <2>3
<1>4. \A u \in Uploaders : ~Uploader(u) /\ ~S3StoresPart(u)
  BY <1>2 DEF Uploader, S3StoresPart, Runs, Get, UploadPartSucceeds,
         UploadPartFails, CallbackDone, CancelDelivered
<1>5. ~Ending
  BY <1>1 DEF Before, Ending, AwaitReader, Wait, AbortSucceeds, AbortFails,
         CompleteSucceeds, CompleteFails, AbortIncomplete, ClosePending,
         Gather
<1>6. CASE SmallUpload
  BY <1>6 DEF Before, SmallUpload, Finish, InitialRead, InitialEOF,
         InitialReadFails, PutObjectSucceeds, PutObjectFails,
         PutObjectCallback, CreateSucceeds, CreateFails
<1> QED
  BY <1>1, <1>3, <1>4, <1>5, <1>6 DEF Next, vars

(* Nothing comes between put_object and its Callback.                        *)
LEMMA JustPutStep ==
  ASSUME CountInv, [Next]_vars
  PROVE  JustPut'
<1> USE DEF mainVars, failVars, queueVars, readerVars, upVars, fileVars, s3Vars
<1> SUFFICES ASSUME main' = "callback" PROVE (object \in PutObjects)'
  BY DEF JustPut
<1>1. CASE main = "callback" /\ UNCHANGED <<object, pos, processing>>
  BY <1>1 DEF CountInv, JustPut, PutObjects, BodySizes, WholeFile, Size
<1>2. CASE PutObjectSucceeds
  BY <1>2 DEF PutObjectSucceeds, PutObjects, BodySizes, WholeFile, Size
<1>3. ~SmallUpload \/ PutObjectSucceeds
  BY DEF SmallUpload, Finish, InitialRead, InitialEOF, InitialReadFails,
         PutObjectFails, PutObjectCallback, CreateSucceeds, CreateFails
<1>4. ~Ending /\ ~CancelMain
  BY DEF Ending, RaiseOrReturn, Finish, AwaitReader, Wait, AbortSucceeds,
         AbortFails, CompleteSucceeds, CompleteFails, AbortIncomplete,
         ClosePending, Gather, CancelMain
<1>5. CASE Reader
  <2>1. main' = main
    BY <1>5 DEF Reader, ReadChunk, ReadEOF, ReadFails, ReaderPut
  <2>2. reader = "none"
    BY <2>1 DEF CountInv, NotStarted, Before
  <2> QED
    BY <1>5, <2>2 DEF Reader, ReadChunk, ReadEOF, ReadFails, ReaderPut
<1>6. CASE \/ UploadersStart \/ UNCHANGED vars
           \/ \E u \in Uploaders : Uploader(u) \/ S3StoresPart(u)
  <2>1. UNCHANGED <<main, object, pos, processing>>
    BY <1>6 DEF vars, Uploader, UploadersStart, S3StoresPart, Get,
           UploadPartSucceeds, UploadPartFails, CallbackDone, CancelDelivered
  <2> QED
    BY <1>1, <2>1
<1> QED
  BY <1>2, <1>3, <1>4, <1>5, <1>6 DEF Next

(* Each part that was put stays accounted for.                               *)
LEMMA CountsStep ==
  ASSUME CountInv, [Next]_vars
  PROVE  Counts'
<1> USE DEF mainVars, failVars, queueVars, readerVars, upVars, fileVars, s3Vars
<1>0. /\ uploader \in [Uploaders -> {"none", "start", "get", "upload", "callback"}
                                    \cup Finished]
      /\ part_args \in [Uploaders -> Part]
      /\ io_queue \in Seq(Part) /\ finished_parts \in Seq(Part)
      /\ unfinished_tasks \in Nat /\ expected_parts \in Nat
      /\ payload \in Bytes /\ part \in Nat
      /\ Counts
  BY DEF CountInv, TypeOK
<1>a. Busy \in SUBSET Uploaders /\ Holding \in SUBSET Uploaders
  BY DEF Busy, Holding
<1>b. Cardinality(Busy) \in Nat /\ Cardinality(Holding) \in Nat
  BY <1>a, SubsetCardinality
<1>c. /\ Len(io_queue) \in Nat /\ Len(finished_parts) \in Nat
      /\ unfinished_tasks \in Nat /\ expected_parts \in Nat
      /\ unfinished_tasks = Len(io_queue) + Cardinality(Busy)
      /\ expected_parts = Len(io_queue) + Cardinality(Holding) + Len(finished_parts)
  BY <1>0 DEF Counts
<1>1. CASE CreateSucceeds
  <2>1. \A u \in Uploaders : uploader[u] = "none" /\ uploader'[u] = "start"
    BY <1>1 DEF CreateSucceeds, CountInv, NotStarted, Before
  <2>2. Busy' = Busy /\ Holding' = Holding
    BY <2>1 DEF Busy, Holding
  <2> QED
    BY <1>0, <1>1, <2>2 DEF CreateSucceeds, Counts
<1>2. CASE ReaderPut
  <2>1. PICK new \in Part : io_queue' = Append(io_queue, new)
    BY <1>2, PutAppends DEF CountInv
  <2>2. Len(io_queue') = Len(io_queue) + 1
    BY <1>0, <2>1
  <2>3. Busy' = Busy /\ Holding' = Holding
    BY <1>2 DEF ReaderPut, Busy, Holding
  <2>4. /\ unfinished_tasks' = unfinished_tasks + 1
        /\ expected_parts' = expected_parts + 1
        /\ finished_parts' = finished_parts
    BY <1>2 DEF ReaderPut
  <2> QED
    <3>1. unfinished_tasks' = Len(io_queue') + Cardinality(Busy')
      BY <1>b, <1>c, <2>2, <2>3, <2>4
    <3>2. expected_parts' = Len(io_queue') + Cardinality(Holding') + Len(finished_parts')
      <4>1. /\ Cardinality(Holding') = Cardinality(Holding)
            /\ Len(finished_parts') = Len(finished_parts)
        BY <2>3, <2>4
      <4>2. expected_parts' = expected_parts + 1
        BY <2>4
      <4> QED
        BY <1>b, <1>c, <2>2, <4>1, <4>2
    <3> QED
      BY <3>1, <3>2 DEF Counts
<1>3. CASE UploadersStart
  <2>1. \A u \in Uploaders : uploader[u] = "start" /\ uploader'[u] \in {"get", "exited"}
    BY <1>3 DEF UploadersStart, Turn
  <2>2. Busy' = Busy /\ Holding' = Holding
    BY <2>1 DEF Busy, Holding
  <2> QED
    BY <1>0, <1>3, <2>2 DEF UploadersStart, Counts
<1>4. ASSUME NEW u \in Uploaders, Get(u)
      PROVE  Counts'
  <2>1. Len(io_queue') = Len(io_queue) - 1 /\ Len(io_queue) \in Nat
    BY <1>0, <1>4 DEF Get
  <2>2. /\ uploader[u] = "get"
        /\ uploader' = [uploader EXCEPT ![u] = "upload"]
    BY <1>4 DEF Get, Runs
  <2>3. /\ Busy' = Busy \cup {u} /\ u \notin Busy
        /\ Holding' = Holding \cup {u} /\ u \notin Holding
    BY <1>0, <2>2 DEF Busy, Holding
  <2>4. /\ Cardinality(Busy') = Cardinality(Busy) + 1
        /\ Cardinality(Holding') = Cardinality(Holding) + 1
    BY <1>a, <2>3, SubsetCardinality
  <2>5. UNCHANGED <<unfinished_tasks, expected_parts, finished_parts>>
    BY <1>4 DEF Get
  <2> QED
    <3>1. unfinished_tasks' = Len(io_queue') + Cardinality(Busy')
      BY <1>b, <1>c, <2>1, <2>4, <2>5
    <3>2. expected_parts' = Len(io_queue') + Cardinality(Holding') + Len(finished_parts')
      BY <1>b, <1>c, <2>1, <2>4, <2>5
    <3> QED
      BY <3>1, <3>2 DEF Counts
<1>5. ASSUME NEW u \in Uploaders, UploadPartSucceeds(u)
      PROVE  Counts'
  <2>1. Len(finished_parts') = Len(finished_parts) + 1 /\ Len(finished_parts) \in Nat
    BY <1>0, <1>5 DEF UploadPartSucceeds
  <2>2. /\ uploader[u] = "upload"
        /\ uploader' = [uploader EXCEPT ![u] = "callback"]
    BY <1>5 DEF UploadPartSucceeds, Runs
  <2>3. Busy' = Busy /\ Holding' = Holding \ {u} /\ u \in Holding
    BY <1>0, <2>2 DEF Busy, Holding
  <2>4. Cardinality(Holding') = Cardinality(Holding) - 1
    BY <1>a, <2>3, SubsetCardinality
  <2>5. UNCHANGED queueVars
    BY <1>5 DEF UploadPartSucceeds
  <2> QED
    BY <1>b, <1>c, <2>1, <2>3, <2>4, <2>5 DEF Counts
<1>6. ASSUME NEW u \in Uploaders, UploadPartFails(u)
      PROVE  Counts'
  <2>1. /\ uploader[u] = "upload"
        /\ uploader' = [uploader EXCEPT ![u] = "failed"]
    BY <1>6 DEF UploadPartFails, Runs
  <2>2. Busy' = Busy /\ Holding' = Holding
    BY <1>0, <2>1 DEF Busy, Holding
  <2> QED
    BY <1>0, <1>6, <2>2 DEF UploadPartFails, Counts
<1>7. ASSUME NEW u \in Uploaders, uploader[u] = "callback", NextTurn(u),
             unfinished_tasks' = unfinished_tasks - 1,
             UNCHANGED <<io_queue, expected_parts, finished_parts>>
      PROVE  Counts'
  <2>1. Busy' = Busy \ {u} /\ u \in Busy /\ Holding' = Holding
    BY <1>0, <1>7 DEF Busy, Holding, NextTurn, Turn
  <2>2. Cardinality(Busy') = Cardinality(Busy) - 1
    BY <1>a, <2>1, SubsetCardinality
  <2>3. Len(io_queue) \in Nat
    BY <1>0
  <2> QED
    BY <1>0, <1>b, <1>7, <2>1, <2>2, <2>3 DEF Counts
<1>8. ASSUME NEW u \in Uploaders, CallbackDone(u)
      PROVE  Counts'
  BY <1>7, <1>8 DEF CallbackDone, TaskDone, Runs
<1>9. ASSUME NEW u \in Uploaders, CancelDelivered(u)
      PROVE  Counts'
  <2>1. CASE uploader[u] = "callback"
    BY <1>7, <1>9, <2>1 DEF CancelDelivered, TaskDone
  <2>2. CASE /\ uploader[u] = "upload" /\ UNCHANGED unfinished_tasks
             /\ uploader' = [uploader EXCEPT ![u] = "cancelled"]
    <3>1. Busy' = Busy /\ Holding' = Holding
      BY <1>0, <2>2 DEF Busy, Holding
    <3> QED
      BY <1>0, <1>9, <2>2, <3>1 DEF CancelDelivered, Counts
  <2>3. CASE /\ uploader[u] = "get" /\ UNCHANGED unfinished_tasks
             /\ uploader' = [uploader EXCEPT ![u] = "exited"]
    <3>1. Busy' = Busy /\ Holding' = Holding
      BY <1>0, <2>3 DEF Busy, Holding
    <3> QED
      BY <1>0, <1>9, <2>3, <3>1 DEF CancelDelivered, Counts
  <2> QED
    BY <1>9, <2>1, <2>2, <2>3 DEF CancelDelivered
<1>10. CASE Wait
  <2>1. Len(finished_parts') = Len(finished_parts)
    BY <1>0, <1>10, SortedRearranges DEF Wait
  <2>2. Busy' = Busy /\ Holding' = Holding
    BY <1>10 DEF Wait, Busy, Holding
  <2> QED
    BY <1>0, <1>10, <2>1, <2>2 DEF Wait, Counts
<1>11. CASE UNCHANGED <<queueVars, uploader, finished_parts>>
  <2>1. Busy' = Busy /\ Holding' = Holding
    BY <1>11 DEF Busy, Holding
  <2> QED
    BY <1>0, <1>11, <2>1 DEF Counts
<1>12. \/ CreateSucceeds \/ ReaderPut \/ UploadersStart \/ Wait
       \/ \E u \in Uploaders : Uploader(u)
       \/ UNCHANGED <<queueVars, uploader, finished_parts>>
  BY DEF Next, SmallUpload, Reader, Ending, vars, InitialRead, InitialEOF,
         InitialReadFails, PutObjectSucceeds, PutObjectFails,
         PutObjectCallback, CreateFails, ReadChunk, ReadEOF, ReadFails,
         AwaitReader, AbortSucceeds, AbortFails, CompleteSucceeds,
         CompleteFails, AbortIncomplete, ClosePending, Gather, CancelMain,
         S3StoresPart
<1> QED
  BY <1>1, <1>2, <1>3, <1>4, <1>5, <1>6, <1>8, <1>9, <1>10, <1>11, <1>12
     DEF Uploader

THEOREM CountInvariant == Spec => []CountInv
<1>1. Init => CountInv
  <2> SUFFICES ASSUME Init PROVE CountInv
    OBVIOUS
  <2>1. TypeOK
    <3>1. NoPart \in Part /\ [lo |-> 0, hi |-> 0] \in Bytes
      BY DEF NoPart, Part, Bytes
    <3>2. <<>> \in Seq(Part)
      OBVIOUS
    <3>3. part_args \in [Uploaders -> Part]
      BY <3>1 DEF Init
    <3>4. uploader \in [Uploaders -> {"none", "start", "get", "upload", "callback"}
                                    \cup Finished]
      BY DEF Init
    <3> QED
      BY <3>1, <3>2, <3>3, <3>4 DEF Init, TypeOK
  <2>2. NotStarted /\ payload.hi <= pos /\ JustPut
    BY DEF Init, NotStarted, JustPut
  <2>3. Busy = {} /\ Holding = {}
    BY DEF Init, Busy, Holding
  <2>4. Counts
    BY <2>3, FS_EmptySet DEF Init, Counts
  <2> QED
    BY <2>1, <2>2, <2>4 DEF CountInv
<1>2. CountInv /\ [Next]_vars => CountInv'
  BY TypeStep, PayloadStep, NotStartedStep, CountsStep, JustPutStep DEF CountInv
<1> QED
  BY <1>1, <1>2, PTL DEF Spec

(* Every variable keeps its type: in particular task_done is never called    *)
(* more often than put.                                                      *)
THEOREM TypeCorrect == Spec => []TypeOK
<1>1. CountInv => TypeOK
  BY DEF CountInv
<1> QED
  BY <1>1, CountInvariant, PTL

-----------------------------------------------------------------------------
(* How a failure reaches the caller.                                         *)

AfterReader == {"wait", "abort", "complete", "abort_incomplete", "close",
                "gather", "gather_cancelled"}

FailureInv ==
    /\ exception_event => exception # None
    /\ main \in {"await_reader", "wait"} /\ exception # None => exception_event
    /\ main \in AfterReader => reader \in {"done", "failed"}
    /\ main \in AfterReader /\ reader = "failed" => exception # None
    /\ main = "abort" => exception # None
    /\ main = "complete" => exception = None /\ unfinished_tasks = 0
    /\ cancelling # {} => main \notin Before \cup {"await_reader", "wait", "complete"}

(* Once every task is done, the queue is empty and nobody holds a part.      *)
LEMMA AllTasksDone ==
  ASSUME CountInv, unfinished_tasks = 0
  PROVE  /\ io_queue = <<>> /\ Busy = {} /\ Holding = {}
         /\ Len(finished_parts) = expected_parts
<1>1. /\ Busy \in SUBSET Uploaders /\ Holding \in SUBSET Uploaders
      /\ Holding \subseteq Busy
  BY DEF Busy, Holding
<1>2. Cardinality(Busy) \in Nat /\ (Cardinality(Busy) = 0 => Busy = {})
  BY <1>1, SubsetCardinality
<1>3. Len(io_queue) \in Nat /\ Len(finished_parts) \in Nat /\ io_queue \in Seq(Part)
  BY DEF CountInv, TypeOK
<1>4. Len(io_queue) = 0 /\ Cardinality(Busy) = 0
  BY <1>2, <1>3 DEF CountInv, Counts
<1>5. io_queue = <<>> /\ Busy = {} /\ Holding = {}
  BY <1>1, <1>2, <1>3, <1>4
<1>6. expected_parts = 0 + Cardinality({}) + Len(finished_parts)
  BY <1>4, <1>5 DEF CountInv, Counts
<1> QED
  BY <1>3, <1>5, <1>6, FS_EmptySet

LEMMA FailureStep ==
  ASSUME CountInv, CountInv', FailureInv, [Next]_vars
  PROVE  FailureInv'
<1> USE DEF mainVars, failVars, queueVars, readerVars, upVars, fileVars, s3Vars
<1>0. /\ exception \in Errors \cup {None}
      /\ None \notin Errors /\ None # "read_error" /\ None # "part_error"
      /\ None # "process_error" /\ None # "complete_error"
  BY NoneAssumption DEF CountInv, TypeOK, Errors
<1>1. CASE SmallUpload
  BY <1>0, <1>1 DEF SmallUpload, InitialRead, InitialEOF, InitialReadFails,
         PutObjectSucceeds, PutObjectFails, PutObjectCallback,
         CreateSucceeds, CreateFails, Finish, FailureInv, CountInv,
         NotStarted, Before, AfterReader
<1>2. CASE Reader
  <2>1. main = "await_reader" \/ main = "done"
    BY <1>2
       DEF Reader, ReadChunk, ReadEOF, ReadFails, ReaderPut, FailureInv,
           AfterReader, CountInv, TypeOK, NotStarted, Before
  <2> QED
    BY <1>0, <1>2, <2>1
       DEF Reader, ReadChunk, ReadEOF, ReadFails, ReaderPut, FailureInv,
           AfterReader, Before
<1>3. CASE UploadersStart
  BY <1>3 DEF UploadersStart, FailureInv, Before, AfterReader
<1>4. ASSUME NEW u \in Uploaders, Get(u)
      PROVE  FailureInv'
  BY <1>4 DEF Get, FailureInv, Before, AfterReader
<1>5. ASSUME NEW u \in Uploaders, UploadPartSucceeds(u)
      PROVE  FailureInv'
  BY <1>5 DEF UploadPartSucceeds, FailureInv, Before, AfterReader
<1>6. ASSUME NEW u \in Uploaders, UploadPartFails(u)
      PROVE  FailureInv'
  <2>1. main # "complete"
    <3> SUFFICES ASSUME main = "complete" PROVE FALSE
      OBVIOUS
    <3>1. Busy = {}
      BY AllTasksDone DEF FailureInv
    <3> QED
      BY <1>6, <3>1 DEF UploadPartFails, Runs, Busy
  <2> QED
    BY <1>0, <1>6, <2>1 DEF UploadPartFails, FailureInv, Before, AfterReader
<1>7. ASSUME NEW u \in Uploaders, CallbackDone(u) \/ CancelDelivered(u)
      PROVE  FailureInv'
  <2>1. main # "complete"
    <3> SUFFICES ASSUME main = "complete" PROVE FALSE
      OBVIOUS
    <3>1. Busy = {} /\ cancelling = {}
      BY AllTasksDone DEF FailureInv
    <3> QED
      BY <1>7, <3>1 DEF CallbackDone, CancelDelivered, Runs, Busy
  <2> QED
    BY <1>7, <2>1 DEF CallbackDone, CancelDelivered, FailureInv, Before, AfterReader
<1>8. ASSUME NEW u \in Uploaders, S3StoresPart(u)
      PROVE  FailureInv'
  BY <1>8 DEF S3StoresPart, FailureInv, Before, AfterReader
<1>9. CASE AwaitReader
  BY <1>0, <1>9 DEF AwaitReader, FailureInv, Before, AfterReader
<1>10. CASE Wait
  <2>1. CASE exception_event
    BY <1>10, <2>1 DEF Wait, MustAbort, FailureInv, Before, AfterReader
  <2>2. CASE ~exception_event
    <3>1. unfinished_tasks = 0 /\ exception = None
      BY <1>10, <2>2 DEF Wait, FailureInv
    <3>2. ~MustAbort
      BY <2>2, <3>1, AllTasksDone DEF MustAbort
    <3> QED
      BY <1>10, <2>2, <3>1, <3>2 DEF Wait, FailureInv, Before, AfterReader
  <2> QED
    BY <2>1, <2>2
<1>11. CASE AbortSucceeds \/ AbortFails
  BY <1>11 DEF AbortSucceeds, AbortFails, Finish, FailureInv, Before, AfterReader
<1>12. CASE CompleteSucceeds \/ CompleteFails
  BY <1>0, <1>12
     DEF CompleteSucceeds, CompleteFails, FailureInv, Before, AfterReader
<1>13. CASE AbortIncomplete \/ ClosePending \/ Gather
  BY <1>13
     DEF AbortIncomplete, ClosePending, Gather, RaiseOrReturn, Finish,
         FailureInv, Before, AfterReader
<1>14. CASE CancelMain
  BY <1>14 DEF CancelMain, Finish, FailureInv, Before, AfterReader
<1>15. CASE UNCHANGED vars
  BY <1>15 DEF vars, FailureInv, Before, AfterReader
<1> QED
  BY <1>1, <1>2, <1>3, <1>4, <1>5, <1>6, <1>7, <1>8, <1>9, <1>10, <1>11,
     <1>12, <1>13, <1>14, <1>15
     DEF Next, Uploader, Ending

THEOREM FailureInvariant == Spec => [](CountInv /\ FailureInv)
<1>1. Init => FailureInv
  BY DEF Init, FailureInv, AfterReader
<1>2. CountInv /\ CountInv' /\ FailureInv /\ [Next]_vars => FailureInv'
  BY FailureStep
<1> QED
  BY <1>1, <1>2, CountInvariant, PTL DEF Spec

(* A multipart upload is aborted at line 522 only because something failed:  *)
(* when join() returns, every part that was put has been listed as finished. *)
THEOREM AbortsOnlyOnFailure == Spec => []AbortOnlyOnFailure
<1>1. FailureInv => AbortOnlyOnFailure
  BY DEF FailureInv, AbortOnlyOnFailure
<1> QED
  BY <1>1, FailureInvariant, PTL
-----------------------------------------------------------------------------
(* What is left behind.  An upload is still open once the call is past its   *)
(* completion only if both complete and abort failed, and then no uploader   *)
(* holds a part any more whose failure could take the place of that error.   *)

Closing == {"close", "gather", "gather_cancelled"}

(* How a call ends that has reached its last lines, or made no task.         *)
Orderly == {"returned", "part_error", "read_error", "process_error", "complete_error"}

CleanupInv ==
    /\ main = "done" <=> outcome # "running"
    /\ main \in Before => s3 = "none"
    /\ main \in {"complete", "abort_incomplete"} => unfinished_tasks = 0
    /\ main = "abort_incomplete" => exception = "complete_error"
    /\ main \in Closing /\ s3 = "open" => exception = "complete_error" /\ unfinished_tasks = 0
    /\ main \in Before \cup {"await_reader", "gather", "gather_cancelled"} => helpers = {}
    /\ outcome \in Orderly =>
         /\ helpers = {}
         /\ \A u \in Uploaders : uploader[u] \in {"none"} \cup Finished
    /\ outcome # "running" => reader \notin {"reading", "putting"}
    /\ NoOrphanUpload

LEMMA CleanupStep ==
  ASSUME CountInv, CountInv', FailureInv, FailureInv', CleanupInv, [Next]_vars
  PROVE  CleanupInv'
<1> USE DEF mainVars, failVars, queueVars, readerVars, upVars, fileVars, s3Vars
<1>0. /\ exception \in Errors \cup {None} /\ None \notin Errors
      /\ outcome \in {"running", "returned", "cancelled"} \cup Errors
      /\ uploader \in [Uploaders -> {"none", "start", "get", "upload", "callback"}
                                    \cup Finished]
  BY NoneAssumption DEF CountInv, TypeOK
<1>1. CASE SmallUpload
  <2>1. main \in Before /\ outcome = "running"
    BY <1>1 DEF SmallUpload, InitialRead, InitialEOF, InitialReadFails,
           PutObjectSucceeds, PutObjectFails, PutObjectCallback,
           CreateSucceeds, CreateFails, Before, CleanupInv
  <2>2. /\ s3 = "none" /\ helpers = {} /\ reader = "none"
        /\ \A u \in Uploaders : uploader[u] = "none"
    BY <2>1 DEF CleanupInv, CountInv, NotStarted
  <2>3. CASE CreateSucceeds
    BY <2>1, <2>2, <2>3
       DEF CreateSucceeds, CleanupInv, NoOrphanUpload, Before, Closing, Orderly
  <2>4. CASE ~CreateSucceeds /\ ~CreateFails
    <3>1. /\ UNCHANGED <<s3, helpers, reader, uploader>>
          /\ \/ main' \in Before /\ outcome' = outcome
             \/ main' = "done" /\ outcome' # "running"
      BY <1>1, <2>1, <2>4
         DEF SmallUpload, InitialRead, InitialEOF, InitialReadFails,
             PutObjectSucceeds, PutObjectFails, PutObjectCallback, Before, Finish
    <3> QED
      BY <2>1, <2>2, <3>1 DEF CleanupInv, NoOrphanUpload, Before, Closing, Orderly
  <2>5. CASE CreateFails
    BY <2>1, <2>2, <2>5
       DEF CreateFails, Finish, CleanupInv, NoOrphanUpload, Before, Closing, Orderly
  <2> QED
    BY <2>3, <2>4, <2>5
<1>2. CASE Reader
  <2>1. main = "await_reader"
    BY <1>2 DEF Reader, ReadChunk, ReadEOF, ReadFails, ReaderPut, FailureInv,
           AfterReader, CountInv, TypeOK, NotStarted, Before, CleanupInv
  <2>2. UNCHANGED <<main, outcome, s3, helpers, uploader>>
    BY <1>2 DEF Reader, ReadChunk, ReadEOF, ReadFails, ReaderPut
  <2> QED
    BY <2>1, <2>2 DEF CleanupInv, NoOrphanUpload, Before, Closing, Orderly
<1>3. CASE UploadersStart
  <2>1. outcome \notin Orderly
    BY <1>3, UploadersAssumption DEF UploadersStart, CleanupInv, Finished
  <2> QED
    BY <1>3, <2>1 DEF UploadersStart, CleanupInv, NoOrphanUpload, Before, Closing
<1>4. ASSUME NEW u \in Uploaders, Uploader(u)
      PROVE  CleanupInv'
  <2>1. outcome \notin Orderly
    BY <1>4 DEF Uploader, Get, UploadPartSucceeds, UploadPartFails,
           CallbackDone, CancelDelivered, Runs, CleanupInv, Finished, Orderly
  <2>2. UNCHANGED <<main, outcome, s3, helpers, reader>>
    BY <1>4 DEF Uploader, Get, UploadPartSucceeds, UploadPartFails,
           CallbackDone, CancelDelivered
  <2>3. unfinished_tasks = 0 => UNCHANGED <<unfinished_tasks, exception>>
    <3> SUFFICES ASSUME unfinished_tasks = 0
                 PROVE  UNCHANGED <<unfinished_tasks, exception>>
      OBVIOUS
    <3>1. Busy = {}
      BY AllTasksDone
    <3>2. uploader[u] \notin {"upload", "callback"}
      BY <3>1 DEF Busy
    <3> QED
      BY <1>4, <3>2 DEF Uploader, Get, UploadPartSucceeds, UploadPartFails,
             CallbackDone, CancelDelivered, Runs
  <2> QED
    BY <2>1, <2>2, <2>3 DEF CleanupInv, NoOrphanUpload, Before, Closing
<1>5. ASSUME NEW u \in Uploaders, S3StoresPart(u)
      PROVE  CleanupInv'
  BY <1>5 DEF S3StoresPart, CleanupInv, NoOrphanUpload, Before, Closing, Orderly
<1>6. CASE AwaitReader \/ Wait
  <2>1. /\ main' # "done" /\ main' \notin Before \cup Closing \cup {"await_reader", "abort_incomplete"}
        /\ outcome = "running" /\ UNCHANGED <<outcome, s3, reader>>
    BY <1>6 DEF AwaitReader, Wait, CleanupInv, Before, Closing
  <2>2. main' = "complete" => unfinished_tasks' = 0
    BY DEF FailureInv
  <2> QED
    BY <2>1, <2>2 DEF CleanupInv, NoOrphanUpload, Before, Closing, Orderly
<1>7. CASE AbortSucceeds \/ CompleteSucceeds \/ AbortIncomplete
  BY <1>7 DEF AbortSucceeds, CompleteSucceeds, Completes, AbortIncomplete,
         CleanupInv, NoOrphanUpload, Before, Closing, Orderly
<1>8. CASE CompleteFails
  BY <1>8 DEF CompleteFails, CleanupInv, NoOrphanUpload, Before, Closing, Orderly
<1>9. CASE AbortFails
  BY <1>9 DEF AbortFails, Finish, CleanupInv, NoOrphanUpload, Before, Closing, Orderly,
         FailureInv, AfterReader
<1>10. CASE ClosePending \/ Gather
  <2>1. /\ main \in Closing /\ outcome = "running" /\ reader \in {"done", "failed"}
        /\ helpers' = {}
        /\ UNCHANGED <<s3, exception, unfinished_tasks, uploader, reader>>
    BY <1>10 DEF ClosePending, Gather, Closing, CleanupInv, FailureInv, AfterReader
  <2>2. CASE outcome' = outcome /\ main' = "gather"
    BY <2>1, <2>2 DEF CleanupInv, NoOrphanUpload, Before, Closing, Orderly
  <2>3. CASE /\ AllUploadersDone /\ main' = "done"
             /\ outcome' \in {"cancelled", IF exception = None THEN "returned" ELSE exception}
    <3>1. \A u \in Uploaders : uploader'[u] \in Finished
      BY <2>1, <2>3 DEF AllUploadersDone, Done
    <3>2. s3 = "open" => outcome' \in {"cancelled", "complete_error"}
      BY <1>0, <2>1, <2>3 DEF CleanupInv, Errors
    <3>3. outcome' # "running"
      BY <1>0, <2>3 DEF Errors
    <3> QED
      BY <2>1, <2>3, <3>1, <3>2, <3>3 DEF CleanupInv, NoOrphanUpload, Before, Closing, Orderly
  <2> QED
    BY <1>10, <2>2, <2>3 DEF ClosePending, Gather, RaiseOrReturn, Finish
<1>11. CASE CancelMain
  <2>1. outcome = "running"
    BY <1>11 DEF CancelMain, CleanupInv
  <2>2. CASE main' = "done" /\ outcome' = "cancelled"
    <3>1. reader' \notin {"reading", "putting"}
      BY <1>11 DEF CancelMain, FailureInv, AfterReader, CountInv, NotStarted, Before
    <3> QED
      BY <2>2, <3>1 DEF CleanupInv, NoOrphanUpload, Before, Closing, Orderly
  <2>3. CASE /\ main = "gather" /\ main' = "gather_cancelled"
             /\ UNCHANGED <<outcome, s3>>
    BY <1>11, <2>1, <2>3
       DEF CancelMain, CleanupInv, NoOrphanUpload, Before, Closing, Orderly
  <2> QED
    BY <1>11, <2>2, <2>3 DEF CancelMain, Finish
<1>12. CASE UNCHANGED vars
  BY <1>12 DEF vars, CleanupInv, NoOrphanUpload, Before, Closing, Orderly
<1> QED
  BY <1>1, <1>2, <1>3, <1>4, <1>5, <1>6, <1>7, <1>8, <1>9, <1>10, <1>11, <1>12
     DEF Next, Ending

THEOREM CleanupInvariant == Spec => []CleanupInv
<1>1. Init => CleanupInv
  BY DEF Init, CleanupInv, NoOrphanUpload, Before, Closing, Orderly
<1>2. /\ CountInv /\ CountInv' /\ FailureInv /\ FailureInv'
      /\ CleanupInv /\ [Next]_vars
      => CleanupInv'
  BY CleanupStep
<1> QED
  BY <1>1, <1>2, FailureInvariant, PTL DEF Spec

(* A failed part, read or Processing never leaves the multipart upload open. *)
THEOREM LeavesNoUpload == Spec => []NoOrphanUpload
<1>1. CleanupInv => NoOrphanUpload
  BY DEF CleanupInv
<1> QED
  BY <1>1, CleanupInvariant, PTL

(* A call that reaches its last lines has disposed of every task it made,    *)
(* and no ending leaves the reader in a file upload_file has closed.         *)
THEOREM LeavesNoTask == Spec => []TasksDisposed
<1>1. CleanupInv => TasksDisposed
  BY DEF CleanupInv, TasksDisposed, LiveTasks, FileClosed, Done, Orderly
<1> QED
  BY <1>1, CleanupInvariant, PTL
-----------------------------------------------------------------------------
(* What a function maps onto is no bigger than what it maps.                 *)
LEMMA OntoCardinality ==
  ASSUME NEW A, NEW B, IsFiniteSet(B), NEW f,
         \A m \in A : \E j \in B : f[j] = m
  PROVE  Cardinality(A) <= Cardinality(B)
<1> DEFINE S == {j \in B : f[j] \in A}
           g == [j \in S |-> f[j]]
<1>1. IsFiniteSet(S) /\ Cardinality(S) <= Cardinality(B)
  BY FS_Subset
<1>2. g \in Surjection(S, A)
  BY DEF Surjection
<1>3. IsFiniteSet(A) /\ Cardinality(A) <= Cardinality(S)
  BY <1>1, <1>2, FS_Surjection
<1>4. /\ Cardinality(A) \in Nat /\ Cardinality(S) \in Nat
      /\ Cardinality(B) \in Nat
  BY <1>1, <1>3, FS_CardinalityType
<1> QED
  BY <1>1, <1>3, <1>4

(* The numbers below a, and those from a + 1 to b.                           *)
LEMMA IntervalCardinality ==
  ASSUME NEW a \in Nat, NEW b \in Nat
  PROVE  /\ a >= 1 => Cardinality(1..(a - 1)) = a - 1
         /\ a <= b => Cardinality((a + 1)..b) = b - a
<1>1. /\ 1 \in Int /\ a - 1 \in Int
      /\ a + 1 \in Int /\ b \in Int
  OBVIOUS
<1>2. Cardinality(1..(a - 1)) = IF 1 > a - 1 THEN 0 ELSE (a - 1) - 1 + 1
  BY <1>1, FS_Interval
<1>3. Cardinality((a + 1)..b) = IF a + 1 > b THEN 0 ELSE b - (a + 1) + 1
  BY <1>1, FS_Interval
<1> QED
  BY <1>2, <1>3

(* An ascending list of k numbers onto 1..k is 1, 2, ..., k.                 *)
LEMMA AscendingOnto ==
  ASSUME NEW k \in Nat, NEW f \in [1..k -> 1..k],
         \A i, j \in 1..k : i < j => f[i] <= f[j],
         \A m \in 1..k : \E i \in 1..k : f[i] = m
  PROVE  \A i \in 1..k : f[i] = i
<1> SUFFICES ASSUME NEW i \in 1..k
             PROVE  f[i] = i
  OBVIOUS
<1> DEFINE v == f[i]
<1>0. /\ v \in Nat /\ 1 <= v /\ v <= k
      /\ i \in Nat /\ 1 <= i /\ i <= k
  OBVIOUS
<1>a. /\ f[i] = v /\ \A j \in 1..k : f[j] \in Nat
      /\ \A j \in 1..k : (i < j => v <= f[j]) /\ (j < i => f[j] <= v)
  OBVIOUS
<1> HIDE DEF v
<1>1. \A m \in 1..(v - 1) : \E j \in 1..(i - 1) : f[j] = m
  <2> SUFFICES ASSUME NEW m \in 1..(v - 1)
               PROVE  \E j \in 1..(i - 1) : f[j] = m
    OBVIOUS
  <2>1. m \in 1..k /\ m < v
    BY <1>0
  <2>2. PICK j \in 1..k : f[j] = m
    BY <2>1
  <2>3. CASE j >= i
    <3>1. v <= f[j]
      <4>1. CASE j = i
        BY <1>0, <1>a, <4>1
      <4>2. CASE j # i
        BY <1>0, <1>a, <2>2, <2>3, <4>2
      <4> QED
        BY <4>1, <4>2
    <3> QED
      BY <1>0, <2>1, <2>2, <3>1
  <2> QED
    BY <1>0, <2>2, <2>3
<1>2. \A m \in (v + 1)..k : \E j \in (i + 1)..k : f[j] = m
  <2> SUFFICES ASSUME NEW m \in (v + 1)..k
               PROVE  \E j \in (i + 1)..k : f[j] = m
    OBVIOUS
  <2>1. m \in 1..k /\ v < m
    BY <1>0
  <2>2. PICK j \in 1..k : f[j] = m
    BY <2>1
  <2>3. CASE j <= i
    <3>1. f[j] <= v
      <4>1. CASE j = i
        BY <1>0, <1>a, <4>1
      <4>2. CASE j # i
        BY <1>0, <1>a, <2>2, <2>3, <4>2
      <4> QED
        BY <4>1, <4>2
    <3> QED
      BY <1>0, <2>1, <2>2, <3>1
  <2> QED
    BY <1>0, <2>2, <2>3
<1>3. v - 1 <= i - 1
  <2>1. /\ Cardinality(1..(v - 1)) = v - 1
        /\ Cardinality(1..(i - 1)) = i - 1
    BY <1>0, IntervalCardinality
  <2>2. IsFiniteSet(1..(i - 1))
    BY <1>0, FS_Interval
  <2>3. Cardinality(1..(v - 1)) <= Cardinality(1..(i - 1))
    BY <1>1, <2>2, OntoCardinality
  <2> QED
    BY <2>1, <2>3
<1>4. k - v <= k - i
  <2>1. /\ Cardinality((v + 1)..k) = k - v
        /\ Cardinality((i + 1)..k) = k - i
    BY <1>0, IntervalCardinality
  <2>2. IsFiniteSet((i + 1)..k)
    BY <1>0, FS_Interval
  <2>3. Cardinality((v + 1)..k) <= Cardinality((i + 1)..k)
    <3> DEFINE A == (v + 1)..k
               B == (i + 1)..k
    <3>1. IsFiniteSet(B) /\ \A m \in A : \E j \in B : f[j] = m
      BY <1>2, <2>2
    <3> HIDE DEF A, B
    <3>2. Cardinality(A) <= Cardinality(B)
      BY <3>1, OntoCardinality
    <3> QED
      BY <3>2 DEF A, B
  <2> QED
    BY <2>1, <2>3
<1> QED
  <2>1. v = i
    BY <1>0, <1>3, <1>4
  <2> QED
    BY <2>1 DEF v

LEMMA RangeSteps ==
  ASSUME NEW s \in Seq(Part)
  PROVE  /\ \A e \in Part : Range(Append(s, e)) = Range(s) \cup {e}
         /\ s # <<>> => Range(s) = {Head(s)} \cup Range(Tail(s))
         /\ s = <<>> => Range(s) = {}
<1>1. ASSUME NEW e \in Part
      PROVE  Range(Append(s, e)) = Range(s) \cup {e}
  <2>1. /\ DOMAIN s = 1..Len(s) /\ DOMAIN Append(s, e) = 1..(Len(s) + 1)
        /\ Len(s) \in Nat
        /\ \A i \in 1..Len(s) : Append(s, e)[i] = s[i]
        /\ Append(s, e)[Len(s) + 1] = e
    BY AppendProperties
  <2>2. \A i \in 1..(Len(s) + 1) : i \in 1..Len(s) \/ i = Len(s) + 1
    BY <2>1
  <2>3. 1..Len(s) \subseteq 1..(Len(s) + 1) /\ Len(s) + 1 \in 1..(Len(s) + 1)
    BY <2>1
  <2> QED
    BY <2>1, <2>2, <2>3 DEF Range
<1>2. ASSUME s # <<>>
      PROVE  Range(s) = {Head(s)} \cup Range(Tail(s))
  <2>1. /\ DOMAIN s = 1..Len(s) /\ DOMAIN Tail(s) = 1..(Len(s) - 1)
        /\ Len(s) \in Nat \ {0}
        /\ Head(s) = s[1]
        /\ \A i \in 1..(Len(s) - 1) : Tail(s)[i] = s[i + 1]
    BY <1>2
  <2>2. \A i \in 1..Len(s) : i = 1 \/ i - 1 \in 1..(Len(s) - 1)
    BY <2>1
  <2>3. \A i \in 1..(Len(s) - 1) : i + 1 \in 1..Len(s)
    BY <2>1
  <2>4. ASSUME NEW x \in Range(s)
        PROVE  x \in {Head(s)} \cup Range(Tail(s))
    <3>1. PICK i \in 1..Len(s) : x = s[i]
      BY <2>1 DEF Range
    <3>2. CASE i = 1
      BY <2>1, <3>1, <3>2
    <3>3. CASE i - 1 \in 1..(Len(s) - 1)
      <4>1. Tail(s)[i - 1] = s[(i - 1) + 1]
        BY <2>1, <3>3
      <4>2. (i - 1) + 1 = i
        BY <3>1
      <4> QED
        BY <2>1, <3>1, <3>3, <4>1, <4>2 DEF Range
    <3> QED
      BY <2>2, <3>2, <3>3
  <2>5. Range(Tail(s)) \subseteq Range(s)
    BY <2>1, <2>3 DEF Range
  <2>6. Head(s) \in Range(s)
    BY <2>1 DEF Range
  <2> QED
    BY <2>4, <2>5, <2>6
<1>3. s = <<>> => Range(s) = {}
  BY DEF Range
<1> QED
  BY <1>1, <1>2, <1>3

-----------------------------------------------------------------------------
(* While nothing has failed, the parts under way are numbered 1 to           *)
(* expected_parts, each once, and each begins where the one before it ends.  *)

Held  == {part_args[u] : u \in Holding}
Known == Range(io_queue) \cup Held \cup Range(finished_parts)

Distinct == \A a, b \in Known : a.n = b.n => a = b
Adjacent == \A a, b \in Known : b.n = a.n + 1 => a.hi = b.lo

PartsInv ==
    /\ \A a \in Known : 1 <= a.n /\ a.n <= expected_parts
    /\ \A n \in 1..expected_parts : \E a \in Known : a.n = n
    /\ \A a \in Known : a.n = 1 => a.lo = 0
    /\ Distinct /\ Adjacent

(* Where the next part of the file_reader begins.                            *)
ReaderInv ==
    /\ reader \in {"reading", "putting"} =>
         /\ part = expected_parts + 1 /\ payload.hi = pos
         /\ part = 1 => payload.lo = 0
         /\ \A a \in Known : a.n = expected_parts => a.hi = payload.lo
         /\ eof => reader = "putting" /\ ended
    /\ reader = "done" =>
         /\ ended /\ expected_parts > 0
         /\ \A a \in Known : a.n = expected_parts => a.hi = pos
    /\ reader = "none" => expected_parts = 0 /\ ~eof

StoredInv ==
    /\ Range(finished_parts) \subseteq stored
    /\ main = "complete" => \A i, j \in DOMAIN finished_parts :
                               i < j => finished_parts[i].n <= finished_parts[j].n

DataInv == (exception = None => PartsInv /\ ReaderInv) /\ StoredInv

(* What is stored under the key, and when.                                   *)
ObjectInv ==
    /\ object # <<>> => ended /\ Tiles(object)
    /\ main = "callback" => object # <<>>
    /\ main \in {"close", "gather", "gather_cancelled"} /\ exception = None => object # <<>>
    /\ main = "abort_incomplete" => exception # None
    /\ main = "put_object" => ended
    /\ main = "done" <=> outcome # "running"

LEMMA KnownParts == CountInv => Known \subseteq Part
<1> SUFFICES ASSUME CountInv PROVE Known \subseteq Part
  OBVIOUS
<1>1. Range(io_queue) \subseteq Part /\ Range(finished_parts) \subseteq Part
  BY DEF CountInv, TypeOK, Range
<1>2. Held \subseteq Part
  BY DEF CountInv, TypeOK, Held, Holding
<1> QED
  BY <1>1, <1>2 DEF Known

LEMMA NothingKnownBefore ==
  ASSUME CountInv, main \in Before
  PROVE  Known = {} /\ Holding = {} /\ expected_parts = 0
<1>1. Holding = {}
  BY DEF CountInv, NotStarted, Holding
<1>2. Range(<<>>) = {}
  BY DEF Range
<1> QED
  BY <1>1, <1>2 DEF CountInv, NotStarted, Known, Held

(* A step of anybody but the reader moves parts along without changing them. *)
LEMMA KnownKept ==
  ASSUME CountInv, CountInv', exception' = None, [Next]_vars,
         ~SmallUpload, ~ReaderPut
  PROVE  Known' = Known
<1> USE DEF mainVars, failVars, queueVars, readerVars, upVars, fileVars, s3Vars
<1>0. /\ uploader \in [Uploaders -> {"none", "start", "get", "upload", "callback"}
                                    \cup Finished]
      /\ part_args \in [Uploaders -> Part]
      /\ io_queue \in Seq(Part) /\ finished_parts \in Seq(Part)
      /\ None # "part_error"
  BY NoneAssumption DEF CountInv, TypeOK, Errors
<1>1. ASSUME NEW u \in Uploaders, Get(u)
      PROVE  Known' = Known
  <2>1. /\ uploader[u] = "get" /\ uploader' = [uploader EXCEPT ![u] = "upload"]
        /\ part_args' = [part_args EXCEPT ![u] = Head(io_queue)]
        /\ io_queue # <<>> /\ io_queue' = Tail(io_queue)
        /\ finished_parts' = finished_parts
    BY <1>1 DEF Get, Runs
  <2>2. Holding' = Holding \cup {u} /\ u \notin Holding
    BY <1>0, <2>1 DEF Holding
  <2>3. Held' = Held \cup {Head(io_queue)}
    <3>1. part_args'[u] = Head(io_queue)
      BY <1>0, <2>1
    <3>2. \A v \in Holding : part_args'[v] = part_args[v]
      BY <1>0, <2>1, <2>2 DEF Holding
    <3> QED
      BY <2>2, <3>1, <3>2 DEF Held
  <2>4. Range(io_queue) = {Head(io_queue)} \cup Range(io_queue')
    BY <1>0, <2>1, RangeSteps
  <2> QED
    BY <2>1, <2>3, <2>4 DEF Known
<1>2. ASSUME NEW u \in Uploaders, UploadPartSucceeds(u)
      PROVE  Known' = Known
  <2>1. /\ uploader[u] = "upload" /\ uploader' = [uploader EXCEPT ![u] = "callback"]
        /\ part_args' = part_args /\ io_queue' = io_queue
        /\ finished_parts' = Append(finished_parts, part_args[u])
    BY <1>2 DEF UploadPartSucceeds, Runs
  <2>2. Holding = Holding' \cup {u}
    BY <1>0, <2>1 DEF Holding
  <2>3. Held = Held' \cup {part_args[u]}
    BY <2>1, <2>2 DEF Held
  <2>4. Range(finished_parts') = Range(finished_parts) \cup {part_args[u]}
    BY <1>0, <2>1, RangeSteps
  <2> QED
    BY <2>1, <2>3, <2>4 DEF Known
<1>3. ASSUME NEW u \in Uploaders, CallbackDone(u) \/ CancelDelivered(u)
      PROVE  Known' = Known
  <2>1. Holding' = Holding
    BY <1>0, <1>3 DEF CallbackDone, CancelDelivered, Runs, NextTurn, Turn, Holding
  <2>2. UNCHANGED <<part_args, io_queue, finished_parts>>
    BY <1>3 DEF CallbackDone, CancelDelivered
  <2> QED
    BY <2>1, <2>2 DEF Known, Held
<1>4. CASE UploadersStart
  <2>1. Holding' = Holding
    BY <1>0, <1>4 DEF UploadersStart, Turn, Holding
  <2> QED
    BY <1>4, <2>1 DEF UploadersStart, Known, Held
<1>5. CASE Wait
  <2>1. Range(finished_parts') = Range(finished_parts)
    BY <1>0, <1>5, SortedRearranges DEF Wait
  <2>2. Holding' = Holding
    BY <1>5 DEF Wait, Holding
  <2> QED
    BY <1>5, <2>1, <2>2 DEF Wait, Known, Held
<1>6. CASE UNCHANGED <<io_queue, uploader, part_args, finished_parts>>
  BY <1>6 DEF Known, Held, Holding
<1>7. \A u \in Uploaders : ~UploadPartFails(u)
  BY <1>0 DEF UploadPartFails
<1>8. \/ UploadersStart \/ Wait
      \/ \E u \in Uploaders : Uploader(u)
      \/ UNCHANGED <<io_queue, uploader, part_args, finished_parts>>
  BY DEF Next, Reader, Ending, vars, ReadChunk, ReadEOF, ReadFails,
         AwaitReader, AbortSucceeds, AbortFails, CompleteSucceeds,
         CompleteFails, AbortIncomplete, ClosePending, Gather, CancelMain,
         S3StoresPart
<1> QED
  BY <1>1, <1>2, <1>3, <1>4, <1>5, <1>6, <1>7, <1>8 DEF Uploader

(* The reader appends the part that continues the ones already known.        *)
LEMMA PartsStep ==
  ASSUME CountInv, CountInv', exception = None, exception' = None,
         PartsInv, ReaderInv, [Next]_vars
  PROVE  PartsInv' /\ ReaderInv'
<1> USE DEF mainVars, failVars, queueVars, readerVars, upVars, fileVars, s3Vars
<1>0. /\ Known \subseteq Part /\ expected_parts \in Nat /\ part \in Nat
      /\ pos \in Nat /\ payload \in [lo : Nat, hi : Nat]
      /\ io_queue \in Seq(Part) /\ None # "read_error"
  BY KnownParts, BytesFields, NoneAssumption DEF CountInv, TypeOK, Errors
<1>1. CASE SmallUpload
  <2>1. main \in Before
    BY <1>1
       DEF SmallUpload, InitialRead, InitialEOF, InitialReadFails,
           PutObjectSucceeds, PutObjectFails, PutObjectCallback,
           CreateSucceeds, CreateFails, Before
  <2>2. /\ Known = {} /\ expected_parts = 0 /\ reader = "none" /\ ~eof
        /\ io_queue = <<>> /\ finished_parts = <<>> /\ Holding = {}
    BY <2>1, NothingKnownBefore DEF CountInv, NotStarted, ReaderInv
  <2>3. CASE CreateSucceeds
    <3>1. Holding' = {}
      BY <2>3 DEF CreateSucceeds, Holding
    <3>2. Range(<<>>) = {}
      BY DEF Range
    <3>3. Known' = {} /\ expected_parts' = 0
      BY <2>2, <2>3, <3>1, <3>2 DEF CreateSucceeds, Known, Held
    <3>4. PartsInv'
      BY <3>3 DEF PartsInv, Distinct, Adjacent
    <3>5. ReaderInv'
      <4>1. /\ reader' \in {"reading", "putting", "failed"} /\ ~eof' /\ pos' = pos
            /\ part' = 1 /\ payload' = [lo |-> 0, hi |-> pos]
        BY <2>2, <2>3 DEF CreateSucceeds, StartFirstPart, ProcessThenPut
      <4> QED
        BY <3>3, <4>1 DEF ReaderInv
    <3> QED
      BY <3>4, <3>5
  <2>4. CASE ~CreateSucceeds
    <3>1. UNCHANGED <<io_queue, uploader, part_args, finished_parts, reader,
                      eof, expected_parts>>
      BY <1>1, <2>4
         DEF SmallUpload, InitialRead, InitialEOF, InitialReadFails,
             PutObjectSucceeds, PutObjectFails, PutObjectCallback, CreateFails
    <3>2. Known' = Known
      BY <3>1 DEF Known, Held, Holding
    <3> QED
      BY <2>2, <3>1, <3>2 DEF PartsInv, Distinct, Adjacent, ReaderInv
  <2> QED
    BY <2>3, <2>4
<1>2. CASE ReaderPut
  <2>2. PICK new \in Part :
            /\ new.n = part /\ new.lo = payload.lo /\ new.hi = payload.hi
            /\ io_queue' = Append(io_queue, new)
    BY <1>2, PutAppends DEF CountInv
  <2>1. /\ reader = "putting" /\ part = expected_parts + 1 /\ payload.hi = pos
        /\ expected_parts' = expected_parts + 1 /\ pos' = pos /\ ended' = ended
        /\ eof' = eof /\ io_queue' = Append(io_queue, new)
        /\ part = 1 => payload.lo = 0
        /\ \A a \in Known : a.n = expected_parts => a.hi = payload.lo
        /\ eof => ended
    BY <1>2, <2>2 DEF ReaderPut, ReaderInv
  <2>3. Known' = Known \cup {new}
    <3>1. Range(io_queue') = Range(io_queue) \cup {new}
      BY <1>0, <2>1, <2>2, RangeSteps
    <3>2. UNCHANGED <<uploader, part_args, finished_parts>>
      BY <1>2 DEF ReaderPut
    <3> QED
      BY <3>1, <3>2 DEF Known, Held, Holding
  <2>4. new.n = expected_parts + 1 /\ new.lo = payload.lo /\ new.hi = pos
    BY <2>1, <2>2
  <2>5. PartsInv'
    <3>0. Distinct /\ Adjacent
      BY DEF PartsInv
    <3>1. \A a \in Known : a.n \in Nat /\ 1 <= a.n /\ a.n <= expected_parts
      BY <1>0 DEF PartsInv, Part
    <3>2. \A a \in Known' : 1 <= a.n /\ a.n <= expected_parts'
      BY <1>0, <2>1, <2>3, <2>4, <3>1
    <3>3. \A n \in 1..expected_parts' : \E a \in Known' : a.n = n
      <4> SUFFICES ASSUME NEW n \in 1..expected_parts'
                   PROVE  \E a \in Known' : a.n = n
        OBVIOUS
      <4>1. n \in 1..expected_parts \/ n = new.n
        BY <1>0, <2>1, <2>4
      <4> QED
        BY <2>3, <4>1 DEF PartsInv
    <3>4. \A a \in Known' : a.n = 1 => a.lo = 0
      BY <2>1, <2>3, <2>4 DEF PartsInv
    <3>5. \A a, b \in Known' : a.n = b.n => a = b
      <4>1. \A a \in Known : a.n # new.n
        BY <1>0, <2>4, <3>1
      <4> QED
        BY <2>3, <3>0, <4>1 DEF Distinct
    <3>6. \A a, b \in Known' : b.n = a.n + 1 => a.hi = b.lo
      <4> SUFFICES ASSUME NEW a \in Known', NEW b \in Known', b.n = a.n + 1
                   PROVE  a.hi = b.lo
        OBVIOUS
      <4>1. CASE a \in Known /\ b \in Known
        BY <3>0, <4>1 DEF Adjacent
      <4>2. CASE a \in Known /\ b = new
        <5>1. a.n = expected_parts
          BY <1>0, <2>4, <3>1, <4>2
        <5> QED
          BY <2>1, <2>4, <4>2, <5>1
      <4>3. CASE a = new
        <5>1. b.n <= expected_parts + 1
          BY <1>0, <2>1, <3>2
        <5>2. b.n = expected_parts + 2
          BY <1>0, <2>4, <4>3
        <5> QED
          BY <1>0, <5>1, <5>2
      <4> QED
        BY <2>3, <4>1, <4>2, <4>3
    <3> QED
      BY <3>2, <3>3, <3>4, <3>5, <3>6 DEF PartsInv, Distinct, Adjacent
  <2>6. \A a \in Known' : a.n = expected_parts' => a.hi = pos
    <3>1. \A a \in Known : a.n \in Nat /\ a.n <= expected_parts
      BY <1>0 DEF PartsInv, Part
    <3> QED
      BY <1>0, <2>1, <2>3, <2>4, <3>1
  <2>7. CASE eof
    <3>1. reader' = "done"
      BY <1>2, <2>7 DEF ReaderPut
    <3>2. ended' /\ expected_parts' > 0
      BY <1>0, <2>1, <2>7
    <3> QED
      BY <2>1, <2>5, <2>6, <3>1, <3>2 DEF ReaderInv
  <2>8. CASE ~eof
    <3>1. /\ reader' = "reading" /\ part' = part + 1
          /\ payload' = [lo |-> pos, hi |-> pos]
      BY <1>2, <2>8 DEF ReaderPut
    <3>2. part' = expected_parts' + 1 /\ part' # 1
      BY <1>0, <2>1, <3>1
    <3>3. ~eof'
      BY <2>1, <2>8
    <3> QED
      BY <2>1, <2>5, <2>6, <3>1, <3>2, <3>3 DEF ReaderInv
  <2> QED
    BY <2>7, <2>8
<1>3. CASE ~SmallUpload /\ ~ReaderPut
  <2>1. Known' = Known /\ expected_parts' = expected_parts
    <3>1. expected_parts' = expected_parts
      BY <1>3
         DEF Next, Reader, Uploader, Ending, vars, ReadChunk, ReadEOF,
             ReadFails, UploadersStart, AwaitReader, Wait, AbortSucceeds,
             AbortFails, CompleteSucceeds, CompleteFails, AbortIncomplete,
             ClosePending, Gather, CancelMain, Get, UploadPartSucceeds,
             UploadPartFails, CallbackDone, CancelDelivered, S3StoresPart
    <3> QED
      BY <1>3, <3>1, KnownKept
  <2>2. PartsInv'
    BY <2>1 DEF PartsInv, Distinct, Adjacent
  <2>3. CASE ReadChunk
    <3>1. /\ reader = "reading" /\ reader' \in {"reading", "putting", "failed"}
          /\ eof' = eof /\ part' = part
          /\ payload' = [lo |-> payload.lo, hi |-> pos']
      BY <1>0, <2>3 DEF ReadChunk, ProcessThenPut
    <3> QED
      BY <2>1, <2>2, <3>1 DEF ReaderInv
  <2>4. CASE ReadEOF
    <3>1. /\ reader = "reading" /\ part' = part /\ payload' = payload
          /\ pos' = pos /\ ended' = TRUE
      BY <2>4 DEF ReadEOF, ReadsNothing
    <3>2. \/ reader' = "reading" /\ eof' = eof
          \/ reader' \in {"putting", "failed"}
          \/ reader' = "done" /\ Size(payload) = 0 /\ part # 1
      BY <2>4, <3>1 DEF ReadEOF, EndOfPayload, ProcessThenPut
    <3>3. Size(payload) = 0 => payload.lo = payload.hi
      BY <1>0 DEF Size
    <3>4. part = expected_parts + 1 /\ payload.hi = pos /\ (part = 1 => payload.lo = 0)
          /\ ~eof /\ \A a \in Known : a.n = expected_parts => a.hi = payload.lo
      BY <3>1 DEF ReaderInv
    <3>5. CASE reader' = "done"
      <4>1. payload.lo = pos /\ expected_parts > 0
        BY <1>0, <3>2, <3>3, <3>4, <3>5
      <4> QED
        BY <2>1, <2>2, <3>1, <3>4, <3>5, <4>1 DEF ReaderInv
    <3>6. CASE reader' \in {"reading", "putting", "failed"}
      BY <2>1, <2>2, <3>1, <3>2, <3>4, <3>6 DEF ReaderInv
    <3> QED
      BY <3>2, <3>5, <3>6
  <2>5. CASE /\ UNCHANGED <<part, payload, eof, pos, ended>>
             /\ reader' \in {reader, "cancelled"}
    BY <2>1, <2>2, <2>5 DEF ReaderInv
  <2>6. ~ReadFails
    BY <1>0 DEF ReadFails
  <2>7. \/ ReadChunk \/ ReadEOF
        \/ /\ UNCHANGED <<part, payload, eof, pos, ended>>
           /\ reader' \in {reader, "cancelled"}
    BY <1>3, <2>6
       DEF Next, Reader, Uploader, Ending, vars, UploadersStart, AwaitReader,
           Wait, AbortSucceeds, AbortFails, CompleteSucceeds, CompleteFails,
           AbortIncomplete, ClosePending, Gather, CancelMain, Get,
           UploadPartSucceeds, UploadPartFails, CallbackDone, CancelDelivered,
           S3StoresPart
  <2> QED
    BY <2>3, <2>4, <2>5, <2>7
<1> QED
  BY <1>1, <1>2, <1>3

(* What is listed has been received by S3, and is listed in ascending order. *)
LEMMA StoredStep ==
  ASSUME CountInv, CountInv', FailureInv, FailureInv', StoredInv, [Next]_vars
  PROVE  StoredInv'
<1> USE DEF mainVars, failVars, queueVars, readerVars, upVars, fileVars, s3Vars
<1>0. finished_parts \in Seq(Part) /\ finished_parts' \in Seq(Part)
      /\ part_args \in [Uploaders -> Part]
  BY DEF CountInv, TypeOK
<1>1. ASSUME NEW u \in Uploaders, UploadPartSucceeds(u)
      PROVE  StoredInv'
  <2>1. Range(finished_parts') = Range(finished_parts) \cup {part_args[u]}
    BY <1>0, <1>1, RangeSteps DEF UploadPartSucceeds
  <2>2. main # "complete"
    <3> SUFFICES ASSUME main = "complete" PROVE FALSE
      OBVIOUS
    <3>1. Busy = {}
      BY AllTasksDone DEF FailureInv
    <3> QED
      BY <1>1, <3>1 DEF UploadPartSucceeds, Runs, Busy
  <2> QED
    BY <1>1, <2>1, <2>2 DEF UploadPartSucceeds, StoredInv
<1>2. CASE Wait
  <2>1. CASE main' # "complete"
    BY <1>2, <2>1 DEF Wait, StoredInv
  <2>2. CASE main' = "complete"
    <3>1. finished_parts' \in SortedByPartNumber(finished_parts)
      BY <1>2, <2>2 DEF Wait
    <3>2. /\ Range(finished_parts') = Range(finished_parts)
          /\ \A i, j \in 1..Len(finished_parts') :
               i < j => finished_parts'[i].n <= finished_parts'[j].n
      BY <1>0, <3>1, SortedRearranges
    <3>3. DOMAIN finished_parts' = 1..Len(finished_parts')
      BY <1>0
    <3>4. stored' = stored
      BY <1>2 DEF Wait
    <3> QED
      BY <3>2, <3>3, <3>4 DEF StoredInv
  <2> QED
    BY <2>1, <2>2
<1>3. ASSUME NEW u \in Uploaders, S3StoresPart(u)
      PROVE  StoredInv'
  BY <1>3 DEF S3StoresPart, StoredInv
<1>4. CASE UNCHANGED <<finished_parts, stored>> /\ (main' = "complete" => main = "complete")
  BY <1>4 DEF StoredInv
<1>5. \/ Wait \/ \E u \in Uploaders : UploadPartSucceeds(u) \/ S3StoresPart(u)
      \/ UNCHANGED <<finished_parts, stored>> /\ (main' = "complete" => main = "complete")
  <2>1. CASE SmallUpload
    BY <2>1
       DEF SmallUpload, InitialRead, InitialEOF, InitialReadFails,
           PutObjectSucceeds, PutObjectFails, PutObjectCallback,
           CreateSucceeds, CreateFails, Finish
  <2>2. CASE Ending
    BY <2>2
       DEF Ending, AwaitReader, AbortSucceeds, AbortFails, CompleteSucceeds,
           CompleteFails, AbortIncomplete, ClosePending, Gather, RaiseOrReturn,
           Finish
  <2>3. CASE CancelMain
    BY <2>3 DEF CancelMain, Finish
  <2> QED
    BY <2>1, <2>2, <2>3
       DEF Next, Reader, Uploader, vars, ReadChunk, ReadEOF, ReadFails,
           ReaderPut, UploadersStart, Get, UploadPartFails, CallbackDone,
           CancelDelivered
<1> QED
  BY <1>1, <1>2, <1>3, <1>4, <1>5

LEMMA DataStep ==
  ASSUME CountInv, CountInv', FailureInv, FailureInv', DataInv, [Next]_vars
  PROVE  DataInv'
<1>1. exception' = None => exception = None
  <2>1. /\ None # "read_error" /\ None # "part_error"
        /\ None # "process_error" /\ None # "complete_error"
    BY NoneAssumption DEF Errors
  <2> QED
    BY <2>1
       DEF Next, SmallUpload, Reader, Uploader, Ending, vars, mainVars,
           failVars, queueVars, readerVars, upVars, fileVars, s3Vars,
           InitialRead, InitialEOF, InitialReadFails, PutObjectSucceeds,
           PutObjectFails, PutObjectCallback, CreateSucceeds, CreateFails,
           ReadChunk, ReadEOF, ReadFails, ReaderPut, UploadersStart,
           AwaitReader, Wait, AbortSucceeds, AbortFails, CompleteSucceeds,
           CompleteFails, AbortIncomplete, ClosePending, Gather, CancelMain,
           Get, UploadPartSucceeds, UploadPartFails, CallbackDone,
           CancelDelivered, S3StoresPart
<1> QED
  BY <1>1, PartsStep, StoredStep DEF DataInv

(* The request sent from line 530 lists 1, ..., expected_parts.              *)
LEMMA CompleteIsValid ==
  ASSUME CountInv, FailureInv, DataInv
  PROVE  CompleteRequestValid
<1> SUFFICES ASSUME main = "complete"
             PROVE  /\ ended
                    /\ Range(finished_parts) \subseteq stored
                    /\ \A i \in DOMAIN finished_parts : finished_parts[i].n = i
                    /\ Tiles(finished_parts)
  BY DEF CompleteRequestValid
<1> DEFINE k == expected_parts
           D == 1..k
<1>1. /\ io_queue = <<>> /\ Holding = {} /\ Len(finished_parts) = expected_parts
      /\ exception = None /\ reader \in {"done", "failed"}
      /\ reader = "failed" => exception # None
  BY AllTasksDone DEF FailureInv, AfterReader
<1>2. PartsInv /\ ReaderInv /\ StoredInv /\ reader = "done"
  BY <1>1 DEF DataInv
<1>3. Known = Range(finished_parts)
  <2>1. Range(<<>>) = {}
    BY DEF Range
  <2> QED
    BY <1>1, <2>1 DEF Known, Held
<1>4. /\ finished_parts \in [D -> Part] /\ DOMAIN finished_parts = D
      /\ Len(finished_parts) = k /\ k \in Nat /\ k > 0 /\ pos \in Nat
  BY <1>1, <1>2 DEF CountInv, TypeOK, ReaderInv
<1>5. \A i \in D : finished_parts[i] \in Known
  BY <1>3, <1>4 DEF Range
<1>6. \A i \in D : finished_parts[i].n = i
  <2> DEFINE f == [i \in D |-> finished_parts[i].n]
  <2>1. f \in [D -> D]
    <3>1. \A i \in D : /\ finished_parts[i].n \in Nat
                       /\ 1 <= finished_parts[i].n /\ finished_parts[i].n <= k
      BY <1>2, <1>4, <1>5 DEF PartsInv, Part
    <3> QED
      BY <1>4, <3>1
  <2>2. \A i, j \in D : i < j => f[i] <= f[j]
    BY <1>2, <1>4 DEF StoredInv
  <2>3. \A m \in D : \E i \in D : f[i] = m
    BY <1>2, <1>3, <1>4 DEF PartsInv, Range
  <2> HIDE DEF f
  <2>4. \A i \in D : f[i] = i
    <3>1. k \in Nat
      BY <1>4
    <3> HIDE DEF k
    <3> QED
      BY <2>1, <2>2, <2>3, <3>1, AscendingOnto
  <2> QED
    BY <2>4 DEF f
<1>7. Adjacent
  BY <1>2 DEF PartsInv
<1>8. Tiles(finished_parts)
  <2>1. finished_parts # <<>>
    BY <1>4
  <2>2. finished_parts[1].lo = 0
    BY <1>2, <1>4, <1>5, <1>6 DEF PartsInv
  <2>3. finished_parts[k].hi = pos
    BY <1>2, <1>4, <1>5, <1>6 DEF ReaderInv
  <2>4. ASSUME NEW i \in 1..(k - 1)
        PROVE  finished_parts[i].hi = finished_parts[i + 1].lo
    <3>1. i \in D /\ i + 1 \in D
      BY <1>4
    <3>2. finished_parts[i + 1].n = finished_parts[i].n + 1
      BY <1>6, <3>1
    <3> QED
      BY <1>5, <1>7, <3>1, <3>2 DEF Adjacent
  <2> QED
    BY <1>4, <2>1, <2>2, <2>3, <2>4 DEF Tiles
<1> QED
  BY <1>2, <1>4, <1>6, <1>8 DEF ReaderInv, StoredInv

THEOREM DataInvariant == Spec => [](CountInv /\ FailureInv /\ DataInv)
<1>1. Init => DataInv
  <2> SUFFICES ASSUME Init PROVE DataInv
    OBVIOUS
  <2>1. Holding = {} /\ Range(<<>>) = {}
    BY DEF Init, Holding, Range
  <2>2. Known = {}
    BY <2>1 DEF Init, Known, Held
  <2>3. PartsInv /\ ReaderInv
    BY <2>2 DEF Init, PartsInv, Distinct, Adjacent, ReaderInv
  <2>4. StoredInv
    BY <2>1 DEF Init, StoredInv
  <2> QED
    BY <2>3, <2>4 DEF DataInv
<1>2. /\ CountInv /\ CountInv' /\ FailureInv /\ FailureInv'
      /\ DataInv /\ [Next]_vars
      => DataInv'
  BY DataStep
<1> QED
  BY <1>1, <1>2, FailureInvariant, PTL DEF Spec

(* complete_multipart_upload names exactly the parts of the file, in order.  *)
THEOREM CompletesWithTheFile == Spec => []CompleteRequestValid
<1>1. CountInv /\ FailureInv /\ DataInv => CompleteRequestValid
  BY CompleteIsValid
<1> QED
  BY <1>1, DataInvariant, PTL

-----------------------------------------------------------------------------
(* The stored object.                                                        *)
LEMMA ObjectStep ==
  ASSUME CountInv, CountInv', FailureInv, DataInv, ObjectInv, [Next]_vars
  PROVE  ObjectInv'
<1> USE DEF mainVars, failVars, queueVars, readerVars, upVars, fileVars, s3Vars
<1>0. /\ exception \in Errors \cup {None} /\ None \notin Errors
      /\ None # "complete_error" /\ None # "part_error" /\ None # "read_error"
      /\ pos \in Nat
  BY NoneAssumption DEF CountInv, TypeOK, Errors
<1>1. \A o \in PutObjects : o # <<>> /\ Tiles(o)
  BY PutObjectsAreParts DEF CountInv, Tiles
<1>2. ASSUME UNCHANGED fileVars, object' = object \/ (ended /\ Tiles(object'))
      PROVE  (object # <<>> => ended /\ Tiles(object))'
  BY <1>2 DEF ObjectInv, Tiles
<1>3. ASSUME ended => pos' = pos /\ ended' = ended, UNCHANGED object
      PROVE  (object # <<>> => ended /\ Tiles(object))'
  BY <1>3 DEF ObjectInv, Tiles
<1>4. ASSUME main = "complete", Completes
      PROVE  ended /\ Tiles(object') /\ object' # <<>>
  BY <1>4, CompleteIsValid DEF Completes, CompleteRequestValid, Tiles
<1>5. CASE InitialRead \/ InitialEOF
  <2>1. ended => pos' = pos /\ ended' = ended
    BY <1>5 DEF InitialRead, InitialEOF, Reads, ReadsNothing
  <2>2. UNCHANGED object
    BY <1>5 DEF InitialRead, InitialEOF
  <2>3. (object # <<>> => ended /\ Tiles(object))'
    BY <1>3, <2>1, <2>2
  <2> QED
    BY <1>5, <2>3 DEF InitialRead, InitialEOF, ReadsNothing, Finish, ObjectInv
<1>6. CASE PutObjectSucceeds \/ PutObjectFails \/ PutObjectCallback
  <2>1. UNCHANGED fileVars
    BY <1>6 DEF PutObjectSucceeds, PutObjectFails, PutObjectCallback
  <2>2. object' = object \/ (ended /\ Tiles(object') /\ object' # <<>>)
    BY <1>1, <1>6
       DEF PutObjectSucceeds, PutObjectFails, PutObjectCallback, ObjectInv
  <2>3. (object # <<>> => ended /\ Tiles(object))'
    BY <1>2, <2>1, <2>2
  <2> QED
    BY <1>1, <1>6, <2>3
       DEF PutObjectSucceeds, PutObjectFails, PutObjectCallback, Finish, ObjectInv
<1>7. CASE InitialReadFails \/ CreateSucceeds \/ CreateFails
  <2>1. UNCHANGED fileVars /\ UNCHANGED object
    BY <1>7 DEF InitialReadFails, CreateSucceeds, CreateFails
  <2>2. (object # <<>> => ended /\ Tiles(object))'
    BY <1>2, <2>1
  <2> QED
    BY <1>7, <2>1, <2>2
       DEF InitialReadFails, CreateSucceeds, CreateFails, Finish, ObjectInv
<1>8. CASE Reader
  <2>1. ended => pos' = pos /\ ended' = ended
    BY <1>8
       DEF Reader, ReadChunk, ReadEOF, ReadFails, ReaderPut, Reads, ReadsNothing
  <2>2. UNCHANGED <<object, main, outcome>>
    BY <1>8 DEF Reader, ReadChunk, ReadEOF, ReadFails, ReaderPut
  <2>3. (object # <<>> => ended /\ Tiles(object))'
    BY <1>3, <2>1, <2>2
  <2>4. exception' = exception \/ exception' # None
    BY <1>0, <1>8 DEF Reader, ReadChunk, ReadEOF, ReadFails, ReaderPut
  <2>5. main # "put_object"
    BY <1>8
       DEF Reader, ReadChunk, ReadEOF, ReadFails, ReaderPut, CountInv,
           NotStarted, Before
  <2> QED
    BY <2>2, <2>3, <2>4, <2>5 DEF ObjectInv
<1>9. ASSUME NEW u \in Uploaders, Uploader(u) \/ S3StoresPart(u) \/ UploadersStart
      PROVE  ObjectInv'
  <2>1. UNCHANGED <<fileVars, object, main, outcome>>
    BY <1>9
       DEF Uploader, Get, UploadPartSucceeds, UploadPartFails, CallbackDone,
           CancelDelivered, S3StoresPart, UploadersStart
  <2>2. exception' = exception \/ exception' # None
    BY <1>0, <1>9
       DEF Uploader, Get, UploadPartSucceeds, UploadPartFails, CallbackDone,
           CancelDelivered, S3StoresPart, UploadersStart
  <2>3. (object # <<>> => ended /\ Tiles(object))'
    BY <1>2, <2>1
  <2> QED
    BY <2>1, <2>2, <2>3 DEF ObjectInv
<1>10. CASE CompleteSucceeds \/ CompleteFails
  <2>1. UNCHANGED fileVars /\ main = "complete"
    BY <1>10 DEF CompleteSucceeds, CompleteFails
  <2>2. object' = object \/ (ended /\ Tiles(object') /\ object' # <<>>)
    BY <1>4, <1>10, <2>1 DEF CompleteSucceeds, CompleteFails
  <2>3. (object # <<>> => ended /\ Tiles(object))'
    BY <1>2, <2>1, <2>2
  <2> QED
    BY <1>0, <1>4, <1>10, <2>1, <2>3
       DEF CompleteSucceeds, CompleteFails, ObjectInv
<1>11. CASE Ending /\ ~CompleteSucceeds /\ ~CompleteFails
  <2>1. UNCHANGED fileVars /\ UNCHANGED object
    BY <1>11
       DEF Ending, AwaitReader, Wait, AbortSucceeds, AbortFails,
           AbortIncomplete, ClosePending, Gather
  <2>2. (object # <<>> => ended /\ Tiles(object))'
    BY <1>2, <2>1
  <2>3. main = "abort_incomplete" => exception # None
    BY DEF ObjectInv
  <2> QED
    BY <1>0, <1>11, <2>1, <2>2, <2>3
       DEF Ending, AwaitReader, Wait, AbortSucceeds, AbortFails,
           AbortIncomplete, ClosePending, Gather, RaiseOrReturn, Finish,
           ObjectInv, FailureInv, Errors
<1>12. CASE CancelMain
  <2>1. UNCHANGED fileVars
    BY <1>12 DEF CancelMain
  <2>2. object' = object \/ (ended /\ Tiles(object') /\ object' # <<>>)
    BY <1>1, <1>4, <1>12 DEF CancelMain, ObjectInv
  <2>3. (object # <<>> => ended /\ Tiles(object))'
    BY <1>2, <2>1, <2>2
  <2>4. /\ exception' = exception
        /\ \/ main' = "done" /\ outcome' = "cancelled"
           \/ main = "gather" /\ main' = "gather_cancelled" /\ object' = object
              /\ outcome' = outcome
    BY <1>12 DEF CancelMain, Finish
  <2> QED
    BY <2>3, <2>4 DEF ObjectInv
<1>13. CASE UNCHANGED vars
  <2>1. UNCHANGED <<fileVars, object, main, outcome, exception>>
    BY <1>13 DEF vars
  <2>2. (object # <<>> => ended /\ Tiles(object))'
    BY <1>2, <2>1
  <2> QED
    BY <2>1, <2>2 DEF ObjectInv
<1> QED
  BY <1>5, <1>6, <1>7, <1>8, <1>9, <1>10, <1>11, <1>12, <1>13,
     UploadersAssumption
     DEF Next, SmallUpload, Ending

AllInv == CountInv /\ FailureInv /\ DataInv /\ ObjectInv

THEOREM ObjectInvariant == Spec => []AllInv
<1>1. Init => ObjectInv
  BY DEF Init, ObjectInv
<1>2. /\ CountInv /\ CountInv' /\ FailureInv /\ DataInv /\ ObjectInv /\ [Next]_vars
      => ObjectInv'
  BY ObjectStep
<1> QED
  BY <1>1, <1>2, DataInvariant, PTL DEF Spec, AllInv

-----------------------------------------------------------------------------
(* The refinement.  By ObjectInv the mapping never yields "torn".            *)

(* Every step leaves object and outcome alone, stores an object, raises, or  *)
(* returns after one was stored.                                             *)
LEMMA AtomicSteps ==
  ASSUME CountInv, FailureInv, DataInv, ObjectInv, [Next]_vars
  PROVE  \/ UNCHANGED <<object, outcome>>
         \/ /\ outcome = "running" /\ object' # <<>> /\ outcome' = outcome
         \/ /\ outcome = "running" /\ outcome' \notin {"running", "returned"}
            /\ object' = object \/ object' # <<>>
         \/ /\ outcome = "running" /\ outcome' = "returned"
            /\ object' = object /\ object # <<>>
<1> USE DEF mainVars, failVars, queueVars, readerVars, upVars, fileVars, s3Vars
<1>1. /\ exception \in Errors \cup {None}
      /\ \A e \in Errors : e # "running" /\ e # "returned"
      /\ main # "done" => outcome = "running"
  BY DEF CountInv, TypeOK, Errors, ObjectInv
<1>2. \A o \in PutObjects : o # <<>>
  BY PutObjectsAreParts DEF CountInv
<1>3. main = "complete" /\ Completes => object' # <<>>
  BY CompleteIsValid DEF Completes, CompleteRequestValid, Tiles
<1>4. CASE SmallUpload
  BY <1>1, <1>2, <1>4
     DEF SmallUpload, InitialRead, InitialEOF, InitialReadFails,
         PutObjectSucceeds, PutObjectFails, PutObjectCallback, CreateSucceeds,
         CreateFails, Finish, ObjectInv
<1>5. CASE CompleteSucceeds \/ CompleteFails
  BY <1>1, <1>3, <1>5 DEF CompleteSucceeds, CompleteFails
<1>6. CASE ClosePending \/ Gather
  <2>1. /\ object' = object
        /\ main \in {"close", "gather", "gather_cancelled"}
        /\ \/ outcome' = outcome
           \/ main # "gather_cancelled" /\ outcome' = IF exception = None THEN "returned" ELSE exception
           \/ outcome' = "cancelled"
    BY <1>6 DEF ClosePending, Gather, RaiseOrReturn, Finish
  <2>2. exception = None => object # <<>>
    BY <2>1 DEF ObjectInv
  <2>3. exception # None => exception \in Errors
    BY <1>1
  <2> QED
    BY <1>1, <2>1, <2>2, <2>3
<1>7. CASE AbortFails
  BY <1>1, <1>7 DEF AbortFails, Finish
<1>8. CASE CancelMain
  <2>1. object' = object \/ object' # <<>>
    BY <1>2, <1>3, <1>8 DEF CancelMain
  <2>2. \/ main # "done" /\ outcome' = "cancelled"
        \/ UNCHANGED <<object, outcome>>
    BY <1>8 DEF CancelMain, Finish
  <2> QED
    BY <1>1, <2>1, <2>2
<1>9. CASE UNCHANGED <<object, outcome>>
  BY <1>9
<1> QED
  BY <1>4, <1>5, <1>6, <1>7, <1>8, <1>9
     DEF Next, Reader, Uploader, Ending, vars, ReadChunk, ReadEOF, ReadFails,
         ReaderPut, UploadersStart, AwaitReader, Wait, AbortSucceeds,
         AbortIncomplete, Get, UploadPartSucceeds, UploadPartFails,
         CallbackDone, CancelDelivered, S3StoresPart

(* upload_fileobj implements AtomicUpload: whatever fails and whenever the   *)
(* caller is cancelled, the key holds its previous object or the whole file, *)
(* a call that returns has stored the file, and a call that has ended stores *)
(* nothing more.                                                             *)
THEOREM ImplementsAtomicUpload == Spec => RefinesAtomicUpload
<1>1. Init => Atomic!Init
  BY DEF Init, Atomic!Init
<1>2. AllInv /\ AllInv' /\ [Next]_vars => [Atomic!Next]_(Atomic!vars)
  <2> SUFFICES ASSUME AllInv, AllInv', [Next]_vars
               PROVE  [Atomic!Next]_(Atomic!vars)
    OBVIOUS
  <2> DEFINE M == IF object = <<>> THEN "previous"
                  ELSE IF Tiles(object) THEN "whole" ELSE "torn"
             R == IF outcome \in {"running", "returned"} THEN outcome ELSE "raised"
  <2>1. /\ M = IF object = <<>> THEN "previous" ELSE "whole"
        /\ M' = IF object' = <<>> THEN "previous" ELSE "whole"
    <3>1. object # <<>> => Tiles(object)
      BY DEF AllInv, ObjectInv
    <3>2. (object # <<>> => Tiles(object))'
      BY DEF AllInv, ObjectInv
    <3> QED
      BY <3>1, <3>2
  <2>2. \/ UNCHANGED <<object, outcome>>
        \/ /\ outcome = "running" /\ object' # <<>> /\ outcome' = outcome
        \/ /\ outcome = "running" /\ outcome' \notin {"running", "returned"}
           /\ object' = object \/ object' # <<>>
        \/ /\ outcome = "running" /\ outcome' = "returned"
           /\ object' = object /\ object # <<>>
    BY AtomicSteps DEF AllInv
  <2>3. \/ M' = M /\ R' = R
        \/ R = "running" /\ M' = "whole" /\ R' = R
        \/ R = "running" /\ R' = "raised" /\ M' \in {M, "whole"}
        \/ R = "running" /\ R' = "returned" /\ M' = M /\ M = "whole"
    BY <2>1, <2>2
  <2> QED
    BY <2>3 DEF Atomic!Next, Atomic!vars, Atomic!Store, Atomic!Return, Atomic!Raise
<1> QED
  BY <1>1, <1>2, ObjectInvariant, PTL DEF Spec, RefinesAtomicUpload, Atomic!Spec
-----------------------------------------------------------------------------
(* Which bytes the parts carry.  The bytes Callback was told of are counted  *)
(* as the size of a set: of the bytes of the Bodies, which part numbers tell *)
(* apart, and without Processing of file positions, which the parts          *)
(* partition.                                                                *)

BytesOf(a)     == a.lo..(a.hi - 1)
Covered(parts) == UNION {BytesOf(a) : a \in parts}

(* Every known part is in one place, once.                                   *)
Apart ==
    /\ \A i, j \in DOMAIN io_queue : io_queue[i] = io_queue[j] => i = j
    /\ \A u, v \in Holding : part_args[u] = part_args[v] => u = v
    /\ Range(io_queue) \cap Held = {}
    /\ (Range(io_queue) \cup Held) \cap Range(finished_parts) = {}

Disjoint == \A a, b \in Known : a # b => BytesOf(a) \cap BytesOf(b) = {}

Counted ==
    /\ IsFiniteSet(BodyBytes(Range(finished_parts)))
    /\ reported = Cardinality(BodyBytes(Range(finished_parts)))

(* Without Processing the Bodies are what was read.                          *)
CountedAsRead ==
    ~processing =>
        /\ \A a \in Known : a.size = Size(a)
        /\ IsFiniteSet(Covered(Range(finished_parts)))
        /\ reported = Cardinality(Covered(Range(finished_parts)))

(* How far the known parts reach, and how long they are.                     *)
ReachInv ==
    /\ reader \in {"reading", "putting"} =>
         /\ Covered(Known) = 0..(payload.lo - 1)
         /\ \A a \in Known : Size(a) >= MultipartChunksize
    /\ reader = "putting" /\ ~eof => payload.hi - payload.lo >= MultipartChunksize
    /\ reader = "done" =>
         /\ Covered(Known) = 0..(pos - 1)
         /\ \A a \in Known : a.n < expected_parts => Size(a) >= MultipartChunksize

BytesInv ==
    exception = None /\ reader # "none" =>
        Apart /\ Disjoint /\ Counted /\ CountedAsRead /\ ReachInv

AllReported(parts) ==
    /\ reported = Cardinality(BodyBytes(Range(parts)))
    /\ ~processing => reported = pos

ReportInv ==
    /\ main \in Before => reported = 0
    /\ main \in Closing /\ exception = None => unfinished_tasks = 0 /\ AllReported(object)
    /\ CallbackTotal /\ PartSizesLegal

(* Positions a part adds to those already covered.                           *)
LEMMA BytesOfPart ==
  ASSUME NEW a \in Part
  PROVE  IsFiniteSet(BytesOf(a)) /\ Cardinality(BytesOf(a)) = Size(a)
<1>1. a.lo \in Nat /\ a.hi \in Nat /\ a.lo <= a.hi
  BY DEF Part
<1>2. /\ IsFiniteSet(a.lo..(a.hi - 1))
      /\ Cardinality(a.lo..(a.hi - 1)) = IF a.lo > a.hi - 1 THEN 0 ELSE (a.hi - 1) - a.lo + 1
  <2>1. a.lo \in Int /\ a.hi - 1 \in Int
    BY <1>1
  <2> QED
    BY <2>1, FS_Interval
<1> QED
  BY <1>1, <1>2 DEF BytesOf, Size

LEMMA CoverOneMore ==
  ASSUME NEW S, NEW a \in Part, IsFiniteSet(Covered(S)),
         \A b \in S : BytesOf(a) \cap BytesOf(b) = {}
  PROVE  /\ Covered(S \cup {a}) = Covered(S) \cup BytesOf(a)
         /\ IsFiniteSet(Covered(S \cup {a}))
         /\ Cardinality(Covered(S \cup {a})) = Cardinality(Covered(S)) + Size(a)
<1>1. Covered(S \cup {a}) = Covered(S) \cup BytesOf(a)
  BY DEF Covered
<1>2. Covered(S) \cap BytesOf(a) = {}
  BY DEF Covered
<1>3. IsFiniteSet(BytesOf(a)) /\ Cardinality(BytesOf(a)) = Size(a) /\ Size(a) \in Nat
  BY BytesOfPart, SizeNat
<1> DEFINE C == Covered(S)
           B == BytesOf(a)
<1> HIDE DEF C, B
<1>4. /\ IsFiniteSet(C) /\ IsFiniteSet(B) /\ C \cap B = {}
      /\ Cardinality(B) = Size(a)
  BY <1>2, <1>3 DEF C, B
<1>5. /\ IsFiniteSet(C \cup B)
      /\ Cardinality(C \cup B) = Cardinality(C) + Cardinality(B) - Cardinality(C \cap B)
  BY <1>4, FS_Union
<1>6. Cardinality(C \cap B) = 0 /\ Cardinality(C) \in Nat
  BY <1>4, FS_EmptySet, FS_CardinalityType
<1>7. Cardinality(C \cup B) = Cardinality(C) + Size(a)
  BY <1>3, <1>4, <1>5, <1>6
<1>8. Covered(S \cup {a}) = C \cup B
  BY <1>1 DEF C, B
<1>9. /\ IsFiniteSet(Covered(S \cup {a}))
      /\ Cardinality(Covered(S \cup {a})) = Cardinality(C) + Size(a)
  BY <1>5, <1>7, <1>8
<1> QED
  BY <1>1, <1>9 DEF C

(* Bytes a Body adds to those of parts with other numbers.                   *)
LEMMA BodyOneMore ==
  ASSUME NEW S, NEW a \in Part, IsFiniteSet(BodyBytes(S)),
         \A b \in S : b.n # a.n
  PROVE  /\ IsFiniteSet(BodyBytes(S \cup {a}))
         /\ Cardinality(BodyBytes(S \cup {a})) = Cardinality(BodyBytes(S)) + a.size
<1> DEFINE B == {a.n} \X (1..a.size)
           C == BodyBytes(S)
<1>1. a.size \in Nat /\ a.n \in Nat
  BY DEF Part
<1>2. IsFiniteSet(B) /\ Cardinality(B) = a.size
  <2> DEFINE N == {a.n}
             K == 1..a.size
  <2>1. IsFiniteSet(N) /\ Cardinality(N) = 1
    BY FS_Singleton
  <2>2. IsFiniteSet(K) /\ Cardinality(K) = a.size
    <3>1. 1 \in Int /\ a.size \in Int
      BY <1>1
    <3>2. /\ IsFiniteSet(1..a.size)
          /\ Cardinality(1..a.size) = IF 1 > a.size THEN 0 ELSE a.size - 1 + 1
      BY <3>1, FS_Interval
    <3> QED
      BY <1>1, <3>2
  <2> HIDE DEF N, K
  <2>3. IsFiniteSet(N \X K) /\ Cardinality(N \X K) = Cardinality(N) * Cardinality(K)
    BY <2>1, <2>2, FS_Product
  <2>4. Cardinality(N \X K) = a.size
    BY <1>1, <2>1, <2>2, <2>3
  <2> QED
    BY <2>3, <2>4 DEF N, K
<1>3. BodyBytes(S \cup {a}) = C \cup B
  BY DEF BodyBytes
<1>4. C \cap B = {}
  <2> SUFFICES ASSUME NEW x \in B, x \in C PROVE FALSE
    OBVIOUS
  <2>1. x[1] = a.n
    OBVIOUS
  <2>2. PICK b \in S : x \in {b.n} \X (1..b.size)
    BY DEF BodyBytes
  <2>3. x[1] = b.n
    BY <2>2
  <2> QED
    BY <2>1, <2>3
<1>5. IsFiniteSet(C)
  OBVIOUS
<1> HIDE DEF B, C
<1>6. /\ IsFiniteSet(C \cup B)
      /\ Cardinality(C \cup B) = Cardinality(C) + Cardinality(B) - Cardinality(C \cap B)
  BY <1>2, <1>5, FS_Union
<1>7. Cardinality(C \cap B) = 0 /\ Cardinality(C) \in Nat
  BY <1>4, <1>5, FS_EmptySet, FS_CardinalityType
<1>8. Cardinality(C \cup B) = Cardinality(C) + a.size
  BY <1>1, <1>2, <1>6, <1>7
<1> QED
  BY <1>3, <1>6, <1>8 DEF C

LEMMA NoBodies == IsFiniteSet(BodyBytes({})) /\ Cardinality(BodyBytes({})) = 0
<1>1. BodyBytes({}) = {}
  BY DEF BodyBytes
<1> QED
  BY <1>1, FS_EmptySet

(* The queue holds no part twice, whichever end it changes at.               *)
LEMMA QueueOnce ==
  ASSUME NEW s \in Seq(Part), \A i, j \in DOMAIN s : s[i] = s[j] => i = j
  PROVE  /\ \A e \in Part \ Range(s) :
              \A i, j \in DOMAIN Append(s, e) : Append(s, e)[i] = Append(s, e)[j] => i = j
         /\ s # <<>> =>
              /\ \A i, j \in DOMAIN Tail(s) : Tail(s)[i] = Tail(s)[j] => i = j
              /\ Head(s) \notin Range(Tail(s))
<1>0. DOMAIN s = 1..Len(s) /\ Len(s) \in Nat
  OBVIOUS
<1>1. ASSUME NEW e \in Part \ Range(s)
      PROVE  \A i, j \in DOMAIN Append(s, e) : Append(s, e)[i] = Append(s, e)[j] => i = j
  <2>1. /\ DOMAIN Append(s, e) = 1..(Len(s) + 1)
        /\ \A i \in 1..Len(s) : Append(s, e)[i] = s[i]
        /\ Append(s, e)[Len(s) + 1] = e
    BY AppendProperties
  <2>2. \A i \in 1..(Len(s) + 1) : i \in 1..Len(s) \/ i = Len(s) + 1
    BY <1>0
  <2>3. \A i \in 1..Len(s) : s[i] # e
    BY <1>0, <1>1 DEF Range
  <2> QED
    BY <1>0, <2>1, <2>2, <2>3
<1>2. ASSUME s # <<>>
      PROVE  /\ \A i, j \in DOMAIN Tail(s) : Tail(s)[i] = Tail(s)[j] => i = j
             /\ Head(s) \notin Range(Tail(s))
  <2>1. /\ DOMAIN Tail(s) = 1..(Len(s) - 1) /\ Len(s) \in Nat \ {0}
        /\ Head(s) = s[1]
        /\ \A i \in 1..(Len(s) - 1) : Tail(s)[i] = s[i + 1]
    BY <1>2
  <2>2. \A i \in 1..(Len(s) - 1) : i + 1 \in 1..Len(s) /\ 1 \in 1..Len(s) /\ i + 1 # 1
    BY <2>1
  <2>3. \A i, j \in 1..(Len(s) - 1) : Tail(s)[i] = Tail(s)[j] => i = j
    <3> SUFFICES ASSUME NEW i \in 1..(Len(s) - 1), NEW j \in 1..(Len(s) - 1),
                        Tail(s)[i] = Tail(s)[j]
                 PROVE  i = j
      OBVIOUS
    <3>1. i + 1 = j + 1
      BY <1>0, <2>1, <2>2
    <3> QED
      BY <3>1
  <2>4. \A i \in 1..(Len(s) - 1) : Tail(s)[i] # s[1]
    BY <1>0, <2>1, <2>2
  <2> QED
    BY <2>1, <2>3, <2>4 DEF Range
<1> QED
  BY <1>1, <1>2
(* An error that is recorded is never taken back.                            *)
LEMMA FailureKept ==
  ASSUME CountInv, [Next]_vars, exception' = None
  PROVE  exception = None
<1>1. /\ None # "read_error" /\ None # "part_error"
      /\ None # "process_error" /\ None # "complete_error"
  BY NoneAssumption DEF Errors
<1> QED
  BY <1>1
     DEF Next, SmallUpload, Reader, Uploader, Ending, vars, mainVars,
         failVars, queueVars, readerVars, upVars, fileVars, s3Vars,
         InitialRead, InitialEOF, InitialReadFails, PutObjectSucceeds,
         PutObjectFails, PutObjectCallback, CreateSucceeds, CreateFails,
         ReadChunk, ReadEOF, ReadFails, ReaderPut, UploadersStart,
         AwaitReader, Wait, AbortSucceeds, AbortFails, CompleteSucceeds,
         CompleteFails, AbortIncomplete, ClosePending, Gather, CancelMain,
         Get, UploadPartSucceeds, UploadPartFails, CallbackDone,
         CancelDelivered, S3StoresPart

(* Parts stay apart, and each is counted when it moves to the finished ones. *)
LEMMA BytesStep ==
  ASSUME CountInv, CountInv', exception = None, exception' = None,
         PartsInv, PartsInv', ReaderInv, BytesInv, ReportInv, [Next]_vars
  PROVE  BytesInv'
<1> USE DEF mainVars, failVars, queueVars, readerVars, upVars, fileVars, s3Vars
<1>0. /\ Known \subseteq Part /\ expected_parts \in Nat /\ part \in Nat
      /\ pos \in Nat /\ payload \in [lo : Nat, hi : Nat] /\ payload.lo <= payload.hi
      /\ MultipartChunksize \in Nat \ {0}
      /\ io_queue \in Seq(Part) /\ finished_parts \in Seq(Part)
      /\ part_args \in [Uploaders -> Part]
      /\ uploader \in [Uploaders -> {"none", "start", "get", "upload", "callback"}
                                    \cup Finished]
      /\ None # "read_error" /\ None # "part_error"
  BY KnownParts, BytesFields, NoneAssumption, SizesAssumption DEF CountInv, TypeOK, Errors
<1>1. CASE reader = "none"
  <2> SUFFICES ASSUME CreateSucceeds PROVE BytesInv'
    <3>1. ~CreateSucceeds => reader' = "none"
      BY <1>1, UploadersAssumption
         DEF Next, SmallUpload, Reader, Uploader, Ending, vars, InitialRead,
             InitialEOF, InitialReadFails, PutObjectSucceeds, PutObjectFails,
             PutObjectCallback, CreateFails, ReadChunk, ReadEOF, ReadFails,
             ReaderPut, UploadersStart, AwaitReader, Wait, AbortSucceeds,
             AbortFails, CompleteSucceeds, CompleteFails, AbortIncomplete,
             ClosePending, Gather, CancelMain, Get, UploadPartSucceeds,
             UploadPartFails, CallbackDone, CancelDelivered, S3StoresPart
    <3> QED
      BY <3>1 DEF BytesInv
  <2>1. /\ io_queue' = <<>> /\ finished_parts' = <<>> /\ expected_parts' = 0
        /\ reported' = reported /\ part_args' = part_args
        /\ payload' = [lo |-> 0, hi |-> pos]
        /\ reader' \in {"reading", "putting", "failed"}
        /\ reader' = "putting" => pos >= MultipartChunksize
    BY <1>0 DEF CreateSucceeds, StartFirstPart, ProcessThenPut, CountInv, NotStarted, Before
  <2>2. Holding' = {} /\ Range(<<>>) = {}
    BY DEF CreateSucceeds, Holding, Range
  <2>3. Known' = {} /\ Held' = {}
    BY <2>1, <2>2 DEF Known, Held
  <2>4. Covered({}) = {} /\ 0..(0 - 1) = {}
    BY DEF Covered
  <2>5. Apart' /\ Disjoint'
    BY <2>1, <2>2, <2>3 DEF Apart, Disjoint
  <2>6. reported = 0
    BY DEF CreateSucceeds, ReportInv, Before
  <2>7. Counted' /\ CountedAsRead'
    BY <2>1, <2>2, <2>3, <2>4, <2>6, NoBodies, FS_EmptySet DEF Counted, CountedAsRead
  <2>8. ReachInv'
    BY <1>0, <2>1, <2>3, <2>4 DEF ReachInv
  <2> QED
    BY <2>5, <2>7, <2>8 DEF BytesInv
<1>2. CASE reader # "none" /\ ReaderPut
  <2>0. Apart /\ Disjoint /\ Counted /\ CountedAsRead /\ ReachInv
    BY <1>2 DEF BytesInv
  <2>2. PICK new \in Part :
            /\ new.n = part /\ new.lo = payload.lo /\ new.hi = payload.hi
            /\ ~processing => new.size = Size(new)
            /\ io_queue' = Append(io_queue, new)
    BY <1>2, PutAppends DEF CountInv
  <2>1. /\ reader = "putting" /\ part = expected_parts + 1 /\ payload.hi = pos
        /\ expected_parts' = expected_parts + 1 /\ pos' = pos /\ eof' = eof
        /\ io_queue' = Append(io_queue, new)
        /\ UNCHANGED <<uploader, part_args, finished_parts, reported, processing>>
        /\ \/ reader' = "reading" /\ ~eof /\ payload' = [lo |-> pos, hi |-> pos]
           \/ reader' = "done"
        /\ exception = None
    BY <1>2, <2>2 DEF ReaderPut, ReaderInv
  <2>3. new.n = expected_parts + 1 /\ new.lo = payload.lo /\ new.hi = pos
    BY <2>1, <2>2
  <2>4. Range(io_queue') = Range(io_queue) \cup {new}
    BY <1>0, <2>1, <2>2, RangeSteps
  <2>5. Holding' = Holding /\ Held' = Held
    BY <2>1 DEF Holding, Held
  <2>6. Known' = Known \cup {new}
    BY <2>1, <2>4, <2>5 DEF Known
  <2>7. \A a \in Known : a.n \in Nat /\ a.n <= expected_parts
    BY <1>0 DEF PartsInv, Part
  <2>8. new \notin Known
    BY <1>0, <2>3, <2>7
  <2>9. Apart'
    <3>1. new \in Part \ Range(io_queue)
      BY <2>2, <2>8 DEF Known
    <3>2. \A i, j \in DOMAIN io_queue' : io_queue'[i] = io_queue'[j] => i = j
      BY <1>0, <2>0, <2>1, <3>1, QueueOnce DEF Apart
    <3> QED
      BY <2>0, <2>1, <2>4, <2>5, <2>8, <3>2 DEF Apart, Known
  <2>10. Covered(Known) = 0..(payload.lo - 1)
    BY <2>0, <2>1 DEF ReachInv
  <2>11. \A b \in Known : BytesOf(new) \cap BytesOf(b) = {}
    <3> SUFFICES ASSUME NEW b \in Known, NEW x \in BytesOf(new), x \in BytesOf(b)
                 PROVE  FALSE
      OBVIOUS
    <3>1. x \in 0..(payload.lo - 1)
      BY <2>10 DEF Covered
    <3>2. x \in payload.lo..(pos - 1)
      BY <2>3 DEF BytesOf
    <3> QED
      BY <1>0, <3>1, <3>2
  <2>12. Disjoint'
    BY <2>0, <2>6, <2>11 DEF Disjoint
  <2>13. Counted' /\ CountedAsRead'
    BY <2>0, <2>1, <2>2, <2>6 DEF Counted, CountedAsRead
  <2>14. Covered(Known') = 0..(pos - 1)
    <3>1. Covered(Known') = 0..(payload.lo - 1) \cup payload.lo..(pos - 1)
      BY <2>3, <2>6, <2>10 DEF Covered, BytesOf
    <3>2. payload.lo \in Nat /\ payload.lo <= pos
      BY <1>0, <2>1
    <3> QED
      BY <1>0, <3>1, <3>2
  <2>15. \A a \in Known : Size(a) >= MultipartChunksize
    BY <2>0, <2>1 DEF ReachInv
  <2>16. CASE reader' = "done"
    <3>1. \A a \in Known' : a.n < expected_parts' => a \in Known
      BY <1>0, <2>1, <2>3, <2>6
    <3>2. ReachInv'
      BY <2>1, <2>14, <2>15, <2>16, <3>1 DEF ReachInv
    <3> QED
      BY <2>9, <2>12, <2>13, <3>2 DEF BytesInv
  <2>17. CASE reader' = "reading" /\ ~eof /\ payload' = [lo |-> pos, hi |-> pos]
    <3>1. Size(new) >= MultipartChunksize
      BY <2>0, <2>1, <2>3, <2>17 DEF ReachInv, Size
    <3>2. ReachInv'
      BY <2>6, <2>14, <2>15, <2>17, <3>1 DEF ReachInv
    <3> QED
      BY <2>9, <2>12, <2>13, <3>2 DEF BytesInv
  <2> QED
    BY <2>1, <2>16, <2>17
<1>3. CASE reader # "none" /\ ~ReaderPut
  <2>0. Apart /\ Disjoint /\ Counted /\ CountedAsRead /\ ReachInv
    BY <1>3 DEF BytesInv
  <2>1. ~SmallUpload
    BY <1>3 DEF SmallUpload, InitialRead, InitialEOF, InitialReadFails,
           PutObjectSucceeds, PutObjectFails, PutObjectCallback,
           CreateSucceeds, CreateFails, CountInv, NotStarted, Before
  <2>2. Known' = Known
    BY <1>3, <2>1, KnownKept
  <2>3. expected_parts' = expected_parts
    BY <1>3, <2>1
       DEF Next, Reader, Uploader, Ending, vars, ReadChunk, ReadEOF,
           ReadFails, UploadersStart, AwaitReader, Wait, AbortSucceeds,
           AbortFails, CompleteSucceeds, CompleteFails, AbortIncomplete,
           ClosePending, Gather, CancelMain, Get, UploadPartSucceeds,
           UploadPartFails, CallbackDone, CancelDelivered, S3StoresPart
  <2>4. Disjoint'
    BY <2>0, <2>2 DEF Disjoint
  <2>5. Apart' /\ Counted' /\ CountedAsRead'
    <3>1. ASSUME NEW u \in Uploaders, Get(u)
          PROVE  Apart' /\ Counted' /\ CountedAsRead'
      <4>1. /\ uploader[u] = "get" /\ uploader' = [uploader EXCEPT ![u] = "upload"]
            /\ part_args' = [part_args EXCEPT ![u] = Head(io_queue)]
            /\ io_queue # <<>> /\ io_queue' = Tail(io_queue)
            /\ UNCHANGED <<finished_parts, reported, processing>>
        BY <3>1 DEF Get, Runs
      <4>2. Holding' = Holding \cup {u} /\ u \notin Holding
        BY <1>0, <4>1 DEF Holding
      <4>3. part_args'[u] = Head(io_queue) /\ \A v \in Holding : part_args'[v] = part_args[v]
        BY <1>0, <4>1, <4>2 DEF Holding
      <4>4. Held' = Held \cup {Head(io_queue)}
        BY <4>2, <4>3 DEF Held
      <4>5. Range(io_queue) = {Head(io_queue)} \cup Range(io_queue')
        BY <1>0, <4>1, RangeSteps
      <4>6. /\ \A i, j \in DOMAIN io_queue' : io_queue'[i] = io_queue'[j] => i = j
            /\ Head(io_queue) \notin Range(io_queue')
        BY <1>0, <2>0, <4>1, QueueOnce DEF Apart
      <4>7. \A v \in Holding : part_args[v] # Head(io_queue)
        BY <2>0, <4>5 DEF Apart, Held
      <4>8. \A v, w \in Holding' : part_args'[v] = part_args'[w] => v = w
        BY <2>0, <4>2, <4>3, <4>7 DEF Apart
      <4> QED
        BY <2>0, <2>2, <4>1, <4>4, <4>5, <4>6, <4>8 DEF Apart, Counted, CountedAsRead
    <3>2. ASSUME NEW u \in Uploaders, UploadPartSucceeds(u)
          PROVE  Apart' /\ Counted' /\ CountedAsRead'
      <4> DEFINE p == part_args[u]
      <4>1. /\ uploader[u] = "upload" /\ uploader' = [uploader EXCEPT ![u] = "callback"]
            /\ part_args' = part_args /\ io_queue' = io_queue
            /\ finished_parts' = Append(finished_parts, p)
            /\ reported' = reported + p.size /\ processing' = processing
        BY <3>2 DEF UploadPartSucceeds, ReportSent, Runs
      <4>2. Holding' = Holding \ {u} /\ u \in Holding /\ p \in Held /\ p \in Part
        BY <1>0, <4>1 DEF Holding, Held
      <4>3. Held' = Held \ {p}
        BY <2>0, <4>1, <4>2 DEF Held, Apart
      <4>4. Range(finished_parts') = Range(finished_parts) \cup {p}
        BY <1>0, <4>1, <4>2, RangeSteps
      <4> HIDE DEF p
      <4>5. \A b \in Range(finished_parts) : BytesOf(p) \cap BytesOf(b) = {}
        BY <2>0, <4>2 DEF Apart, Disjoint, Known
      <4>6. Counted'
        <5>1. \A b \in Range(finished_parts) : b.n # p.n
          BY <2>0, <4>2 DEF Apart, Known, PartsInv, Distinct
        <5> QED
          BY <2>0, <4>1, <4>2, <4>4, <5>1, BodyOneMore DEF Counted
      <4>9. CountedAsRead'
        <5>1. ~processing => p.size = Size(p)
          BY <2>0, <4>2 DEF CountedAsRead, Known
        <5> QED
          BY <2>0, <2>2, <4>1, <4>2, <4>4, <4>5, <5>1, CoverOneMore DEF CountedAsRead
      <4>7. Apart'
        BY <2>0, <4>1, <4>2, <4>3, <4>4 DEF Apart
      <4> QED
        BY <4>6, <4>7, <4>9
    <3>3. ASSUME NEW u \in Uploaders, CallbackDone(u) \/ CancelDelivered(u)
          PROVE  Apart' /\ Counted' /\ CountedAsRead'
      <4>1. Holding' = Holding
        BY <1>0, <3>3 DEF CallbackDone, CancelDelivered, Runs, NextTurn, Turn, Holding
      <4>2. UNCHANGED <<part_args, io_queue, finished_parts, reported, processing>>
        BY <3>3 DEF CallbackDone, CancelDelivered
      <4> QED
        BY <2>0, <2>2, <4>1, <4>2 DEF Apart, Counted, CountedAsRead, Held
    <3>4. CASE UploadersStart
      <4>1. Holding' = Holding
        BY <1>0, <3>4 DEF UploadersStart, Turn, Holding
      <4> QED
        BY <2>0, <2>2, <3>4, <4>1 DEF UploadersStart, Apart, Counted, CountedAsRead, Held
    <3>5. CASE Wait
      <4>1. Range(finished_parts') = Range(finished_parts)
        BY <1>0, <3>5, SortedRearranges DEF Wait
      <4>2. Holding' = Holding /\ Held' = Held
        BY <3>5 DEF Wait, Holding, Held
      <4> QED
        BY <2>0, <2>2, <3>5, <4>1, <4>2 DEF Wait, Apart, Counted, CountedAsRead
    <3>6. CASE UNCHANGED <<io_queue, uploader, part_args, finished_parts, reported, processing>>
      BY <2>0, <2>2, <3>6 DEF Apart, Counted, CountedAsRead, Held, Holding
    <3>7. \A u \in Uploaders : ~UploadPartFails(u)
      BY <1>0 DEF UploadPartFails
    <3>8. \/ UploadersStart \/ Wait
          \/ \E u \in Uploaders : Uploader(u)
          \/ UNCHANGED <<io_queue, uploader, part_args, finished_parts, reported,
                         processing>>
      BY <1>3, <2>1
         DEF Next, Reader, Ending, vars, ReadChunk, ReadEOF, ReadFails, Reads,
             ReadsNothing,
             AwaitReader, AbortSucceeds, AbortFails, CompleteSucceeds,
             CompleteFails, AbortIncomplete, ClosePending, Gather, CancelMain,
             S3StoresPart
    <3> QED
      BY <3>1, <3>2, <3>3, <3>4, <3>5, <3>6, <3>7, <3>8 DEF Uploader
  <2>6. ReachInv'
    <3>1. CASE ReadChunk
      <4>1. /\ reader = "reading" /\ reader' \in {"reading", "putting", "failed"}
            /\ payload' = [lo |-> payload.lo, hi |-> pos']
            /\ reader' = "putting" => ~(Size(payload') < MultipartChunksize)
            /\ pos' \in Nat
        BY <1>0, <3>1 DEF ReadChunk, ProcessThenPut, Reads
      <4> QED
        BY <1>0, <2>0, <2>2, <4>1 DEF ReachInv, Size
    <3>2. CASE ReadEOF
      <4>1. /\ reader = "reading" /\ part' = part /\ payload' = payload
            /\ pos' = pos
        BY <3>2 DEF ReadEOF, ReadsNothing
      <4>2. \/ reader' = "reading"
            \/ reader' = "putting" /\ eof'
            \/ reader' = "failed"
            \/ reader' = "done" /\ Size(payload) = 0
        BY <3>2, <4>1 DEF ReadEOF, EndOfPayload, ProcessThenPut
      <4>3. Size(payload) = 0 => payload.lo = pos
        BY <1>0, <4>1 DEF Size, ReaderInv
      <4> QED
        BY <2>0, <2>2, <2>3, <4>1, <4>2, <4>3 DEF ReachInv
    <3>3. CASE /\ UNCHANGED <<payload, eof, pos>>
               /\ reader' \in {reader, "cancelled"}
      BY <2>0, <2>2, <2>3, <3>3 DEF ReachInv
    <3>4. ~ReadFails
      BY <1>0 DEF ReadFails
    <3> QED
      BY <1>3, <2>1, <3>1, <3>2, <3>3, <3>4
         DEF Next, Reader, Uploader, Ending, vars, UploadersStart, AwaitReader,
             Wait, AbortSucceeds, AbortFails, CompleteSucceeds, CompleteFails,
             AbortIncomplete, ClosePending, Gather, CancelMain, Get,
             UploadPartSucceeds, UploadPartFails, CallbackDone,
             CancelDelivered, S3StoresPart
  <2> QED
    BY <2>4, <2>5, <2>6 DEF BytesInv
<1> QED
  BY <1>1, <1>2, <1>3
(* The request sent from line 530 accounts for every byte.                   *)
LEMMA CompleteIsTotal ==
  ASSUME CountInv, FailureInv, DataInv, BytesInv, main = "complete"
  PROVE  /\ AllReported(finished_parts)
         /\ \A i \in 1..(Len(finished_parts) - 1) :
              /\ Size(finished_parts[i]) >= MultipartChunksize
              /\ ~processing => finished_parts[i].size >= MultipartChunksize
<1>1. /\ io_queue = <<>> /\ Holding = {} /\ Len(finished_parts) = expected_parts
      /\ exception = None /\ reader = "done"
  BY AllTasksDone DEF FailureInv, AfterReader
<1>2. Counted /\ CountedAsRead /\ ReachInv
  BY <1>1 DEF BytesInv
<1>3. Known = Range(finished_parts)
  <2>1. Range(<<>>) = {}
    BY DEF Range
  <2> QED
    BY <1>1, <2>1 DEF Known, Held
<1>4. pos \in Nat /\ finished_parts \in Seq(Part)
  BY DEF CountInv, TypeOK
<1>5. ~processing => reported = pos
  <2>1. Covered(Known) = 0..(pos - 1)
    BY <1>1, <1>2 DEF ReachInv
  <2>2. Cardinality(0..(pos - 1)) = IF 0 > pos - 1 THEN 0 ELSE (pos - 1) - 0 + 1
    <3>1. 0 \in Int /\ pos - 1 \in Int
      BY <1>4
    <3> QED
      BY <3>1, FS_Interval
  <2> QED
    BY <1>2, <1>3, <1>4, <2>1, <2>2 DEF CountedAsRead
<1>6. ASSUME NEW i \in 1..(Len(finished_parts) - 1)
      PROVE  /\ Size(finished_parts[i]) >= MultipartChunksize
             /\ ~processing => finished_parts[i].size >= MultipartChunksize
  <2>1. i \in DOMAIN finished_parts /\ i < Len(finished_parts)
    BY <1>4
  <2>2. finished_parts[i].n = i
    BY <2>1, CompleteIsValid DEF CompleteRequestValid
  <2>3. finished_parts[i] \in Known
    BY <1>3, <2>1 DEF Range
  <2> QED
    BY <1>1, <1>2, <2>1, <2>2, <2>3 DEF ReachInv, CountedAsRead
<1> QED
  BY <1>2, <1>5, <1>6 DEF Counted, AllReported

LEMMA ReportStep ==
  ASSUME CountInv, CountInv', FailureInv, CleanupInv, DataInv, BytesInv,
         ObjectInv, ReportInv, [Next]_vars
  PROVE  ReportInv'
<1> USE DEF mainVars, failVars, queueVars, readerVars, upVars, fileVars, s3Vars
<1>0. /\ exception \in Errors \cup {None} /\ None \notin Errors /\ pos \in Nat
      /\ \A e \in Errors : e # "returned"
      /\ None # "complete_error"
      /\ main = "done" <=> outcome # "running"
  BY NoneAssumption DEF CountInv, TypeOK, Errors, CleanupInv
<1>1. CASE SmallUpload
  <2>1. main \in Before /\ reported = 0 /\ s3 = "none" /\ outcome = "running"
    BY <1>0, <1>1 DEF SmallUpload, InitialRead, InitialEOF, InitialReadFails,
           PutObjectSucceeds, PutObjectFails, PutObjectCallback,
           CreateSucceeds, CreateFails, Before, ReportInv, CleanupInv
  <2>2. s3' \in {"none", "open"} /\ main' \notin Closing
    BY <1>1, <2>1 DEF SmallUpload, InitialRead, InitialEOF, InitialReadFails,
           PutObjectSucceeds, PutObjectFails, PutObjectCallback,
           CreateSucceeds, CreateFails, Closing, Finish
  <2>3. /\ main' \in Before => reported' = 0
        /\ outcome' = "returned" => PutObjectCallback
    BY <1>0, <1>1, <2>1
       DEF SmallUpload, InitialRead, InitialEOF, InitialReadFails,
           PutObjectSucceeds, PutObjectFails, PutObjectCallback,
           CreateSucceeds, CreateFails, Before, Finish
  <2>4. ASSUME PutObjectCallback PROVE AllReported(object)'
    <3>1. /\ object \in Seq(Part) /\ Len(object) = 1 /\ object[1].size \in Nat
          /\ ~processing => object[1].size = pos
      BY <2>4, PutObjectsAreParts DEF CountInv, JustPut, PutObjectCallback
    <3>2. object[1] \in Part /\ Range(object) = {} \cup {object[1]}
      BY <3>1 DEF Range
    <3>3. Cardinality(BodyBytes(Range(object))) = 0 + object[1].size
      BY <3>2, NoBodies, BodyOneMore
    <3>4. UNCHANGED <<object, pos, processing>> /\ reported' = object[1].size
      BY <2>1, <2>4, <3>1 DEF PutObjectCallback
    <3> QED
      BY <3>1, <3>3, <3>4 DEF AllReported
  <2> QED
    BY <2>2, <2>3, <2>4 DEF ReportInv, AllReported, CallbackTotal, PartSizesLegal
<1>2. CASE Reader
  <2>1. main = "await_reader"
    BY <1>0, <1>2 DEF Reader, ReadChunk, ReadEOF, ReadFails, ReaderPut, FailureInv,
           AfterReader, CountInv, TypeOK, NotStarted, Before, CleanupInv
  <2>2. UNCHANGED <<main, outcome, s3, object, processing>>
    BY <1>2 DEF Reader, ReadChunk, ReadEOF, ReadFails, ReaderPut, Reads, ReadsNothing
  <2> QED
    BY <1>0, <2>1, <2>2 DEF ReportInv, CallbackTotal, PartSizesLegal, Before, Closing
<1>3. CASE UploadersStart \/ (\E u \in Uploaders : S3StoresPart(u)) \/ UNCHANGED vars
  BY <1>3 DEF UploadersStart, S3StoresPart, vars, ReportInv, AllReported, CallbackTotal,
         PartSizesLegal
<1>4. ASSUME NEW u \in Uploaders, Uploader(u)
      PROVE  ReportInv'
  <2>1. outcome # "returned"
    BY <1>4 DEF Uploader, Get, UploadPartSucceeds, UploadPartFails,
           CallbackDone, CancelDelivered, Runs, CleanupInv, Finished, Orderly
  <2>2. main \notin Before
    BY <1>4 DEF Uploader, Get, UploadPartSucceeds, UploadPartFails,
           CallbackDone, CancelDelivered, Runs, CountInv, NotStarted
  <2>3. UNCHANGED <<main, outcome, s3, object, pos, processing>>
    BY <1>4 DEF Uploader, Get, UploadPartSucceeds, UploadPartFails,
           CallbackDone, CancelDelivered
  <2>4. unfinished_tasks = 0 => UNCHANGED <<unfinished_tasks, exception, reported>>
    <3> SUFFICES ASSUME unfinished_tasks = 0
                 PROVE  UNCHANGED <<unfinished_tasks, exception, reported>>
      OBVIOUS
    <3>1. Busy = {}
      BY AllTasksDone
    <3>2. uploader[u] \notin {"upload", "callback"}
      BY <3>1 DEF Busy
    <3> QED
      BY <1>4, <3>2 DEF Uploader, Get, UploadPartSucceeds, UploadPartFails,
             CallbackDone, CancelDelivered, Runs
  <2>5. exception' = None => exception = None
    BY FailureKept, <1>4 DEF Next
  <2> QED
    BY <2>1, <2>2, <2>3, <2>4, <2>5 DEF ReportInv, AllReported, CallbackTotal, PartSizesLegal
<1>5. CASE CompleteSucceeds \/ CompleteFails
  <2>1. /\ main = "complete" /\ outcome = "running" /\ outcome' = outcome
        /\ \/ Completes
           \/ UNCHANGED <<s3, object>>
        /\ UNCHANGED <<unfinished_tasks, reported, pos, processing>>
        /\ main' \notin Before
        /\ main' \in Closing => exception' = exception
    BY <1>0, <1>5 DEF CompleteSucceeds, CompleteFails, Before, Closing
  <2>2. unfinished_tasks = 0 /\ AllReported(finished_parts)
    BY <2>1, CompleteIsTotal DEF FailureInv
  <2>3. PartSizesLegal'
    BY <2>1, CompleteIsTotal DEF Completes, PartSizesLegal, ReportInv
  <2>4. main' \in Closing /\ exception' = None => object' = finished_parts
    BY <1>0, <1>5 DEF CompleteSucceeds, CompleteFails, Completes, Closing
  <2> QED
    BY <2>1, <2>2, <2>3, <2>4 DEF ReportInv, AllReported, CallbackTotal
<1>6. CASE CancelMain
  <2>1. /\ UNCHANGED <<exception, unfinished_tasks, reported, pos, processing>>
        /\ \/ main' = "done" /\ outcome' = "cancelled"
           \/ /\ main = "gather" /\ main' = "gather_cancelled" /\ outcome' = outcome
              /\ object' = object
    BY <1>6 DEF CancelMain, Finish
  <2>2. PartSizesLegal'
    <3>1. CASE main = "complete"
      BY <1>6, <3>1, CompleteIsTotal DEF CancelMain, Completes, PartSizesLegal, ReportInv
    <3>2. CASE main \in {"put_object", "create"}
      <4>1. s3 = "none"
        BY <3>2 DEF CleanupInv, Before
      <4> QED
        BY <1>6, <3>2, <4>1 DEF CancelMain, PartSizesLegal
    <3>3. CASE main \notin {"complete", "put_object", "create"}
      BY <1>6, <3>3 DEF CancelMain, PartSizesLegal, ReportInv
    <3> QED
      BY <3>1, <3>2, <3>3
  <2> QED
    BY <1>0, <2>1, <2>2 DEF ReportInv, AllReported, CallbackTotal, Closing, Before
<1>7. CASE AwaitReader \/ Wait \/ AbortSucceeds \/ AbortFails \/ AbortIncomplete
  <2>1. /\ UNCHANGED <<reported, object, pos, unfinished_tasks, processing>>
        /\ s3' \in {s3, "aborted"}
        /\ main' \notin Before
        /\ outcome' # "returned"
        /\ main' \in Closing => exception' # None
    BY <1>0, <1>7 DEF AwaitReader, Wait, AbortSucceeds, AbortFails,
           AbortIncomplete, Before, Closing, Finish, FailureInv, CleanupInv
  <2> QED
    BY <2>1 DEF ReportInv, AllReported, CallbackTotal, PartSizesLegal
<1>8. CASE ClosePending \/ Gather
  <2>1. /\ UNCHANGED <<reported, object, s3, pos, unfinished_tasks, exception, processing>>
        /\ main \in Closing /\ main' \notin Before
        /\ outcome' = "returned" => exception = None
    BY <1>0, <1>8 DEF ClosePending, Gather, RaiseOrReturn, Before, Closing, Finish
  <2> QED
    BY <2>1 DEF ReportInv, AllReported, CallbackTotal, PartSizesLegal
<1> QED
  BY <1>1, <1>2, <1>3, <1>4, <1>5, <1>6, <1>7, <1>8 DEF Next, Ending

THEOREM ReportInvariant == Spec => [](BytesInv /\ ReportInv)
<1>1. Init => BytesInv /\ ReportInv
  BY DEF Init, BytesInv, ReportInv, CallbackTotal, PartSizesLegal, Closing
<1>2. /\ AllInv /\ AllInv' /\ CleanupInv /\ BytesInv /\ ReportInv /\ [Next]_vars
      => BytesInv' /\ ReportInv'
  <2> SUFFICES ASSUME AllInv, AllInv', CleanupInv, BytesInv, ReportInv, [Next]_vars
               PROVE  BytesInv' /\ ReportInv'
    OBVIOUS
  <2>1. CASE exception' = None
    <3>1. exception = None
      BY <2>1, FailureKept DEF AllInv
    <3>2. PartsInv /\ PartsInv' /\ ReaderInv
      BY <2>1, <3>1 DEF AllInv, DataInv
    <3> QED
      BY <2>1, <3>1, <3>2, BytesStep, ReportStep DEF AllInv
  <2>2. CASE exception' # None
    BY <2>2, ReportStep DEF AllInv, BytesInv
  <2> QED
    BY <2>1, <2>2
<1> QED
  BY <1>1, <1>2, ObjectInvariant, CleanupInvariant, PTL DEF Spec

(* A call that returns has told Callback of every byte of the object, once.  *)
THEOREM ReportsEveryByte == Spec => []CallbackTotal
<1>1. ReportInv => CallbackTotal
  BY DEF ReportInv
<1> QED
  BY <1>1, ReportInvariant, PTL

(* Only the last part of a completed upload is made from fewer than          *)
(* multipart_chunksize bytes, or without Processing is shorter.              *)
THEOREM PartsAreLongEnough == Spec => []PartSizesLegal
<1>1. ReportInv => PartSizesLegal
  BY DEF ReportInv
<1> QED
  BY <1>1, ReportInvariant, PTL

-----------------------------------------------------------------------------
(* How long a call can go on.                                                *)

(* The steps left for the part an uploader has: S3 stores it, the response   *)
(* comes, the callback returns.                                              *)
Stage(u) ==
  IF uploader[u] = "upload" THEN (IF part_args[u] \in stored THEN 2 ELSE 3)
  ELSE IF uploader[u] = "callback" THEN 1 ELSE 0

UploadSteps == {s \in Uploaders \X (1..3) : s[2] <= Stage(s[1])}

(* A part that has been put is one in the queue, and unless the file is over *)
(* the next one begins.                                                      *)
ReaderRank ==
  IF reader = "reading" THEN (IF read_once THEN 6 ELSE 7)
  ELSE IF reader = "putting" THEN (IF eof THEN 5 ELSE 12) ELSE 0

StartRank == IF \E u \in Uploaders : uploader[u] = "start" THEN 1 ELSE 0

Crew == Cardinality(Uploaders)

(* Both ClosePending and a cancellation of the gather cancel the uploaders.  *)
MainRank ==
  CASE main = "initial" -> 2 * Crew + 22
    [] main = "create" -> 2 * Crew + 21
    [] main = "put_object" -> 2
    [] main = "callback" -> 1
    [] main = "await_reader" -> 2 * Crew + 7
    [] main = "wait" -> 2 * Crew + 6
    [] main = "complete" -> 2 * Crew + 5
    [] main \in {"abort", "abort_incomplete"} -> 2 * Crew + 4
    [] main = "close" -> 2 * Crew + 3
    [] main = "gather" -> Crew + 2
    [] main = "gather_cancelled" -> 1
    [] main = "done" -> 0

Total(bytes, r, queued, u, s, c, m) == 7 * bytes + r + 4 * queued + u + s + c + m

Left == MaxFileSize - pos

Rank == Total(Left, ReaderRank, Len(io_queue), Cardinality(UploadSteps),
              StartRank, Cardinality(cancelling), MainRank)

(* The ways in which a step lowers the total: no term grows and one falls;   *)
(* bytes have been read; a part has been put; a part has been taken from the *)
(* queue; the multipart upload begins; uploaders are cancelled.              *)
Falls(bytes, r, q, u, s, c, m, bytes1, r1, q1, u1, s1, c1, m1) ==
  \/ /\ bytes1 <= bytes /\ r1 <= r /\ q1 <= q /\ u1 <= u /\ s1 <= s /\ c1 <= c /\ m1 <= m
     /\ r1 < r \/ u1 < u \/ s1 < s \/ c1 < c \/ m1 < m
  \/ /\ bytes1 < bytes /\ r1 <= r + 6
     /\ q1 = q /\ u1 = u /\ s1 = s /\ c1 = c /\ m1 <= m
  \/ /\ bytes1 = bytes /\ r1 < r - 4 /\ q1 = q + 1 /\ u1 = u /\ s1 = s /\ c1 = c /\ m1 = m
  \/ /\ bytes1 = bytes /\ r1 = r /\ q1 = q - 1 /\ u1 <= u + 3 /\ s1 <= s /\ c1 = c /\ m1 = m
  \/ /\ bytes1 = bytes /\ r1 <= r + 12 /\ q1 = q /\ u1 <= u /\ s1 <= s + 1 /\ c1 = c
     /\ m1 < m - 13
  \/ /\ bytes1 = bytes /\ r1 <= r /\ q1 = q /\ u1 <= u /\ s1 <= s /\ c1 + m1 < m

LEMMA TotalFalls ==
  \A bytes, r, q, u, s, c, m, bytes1, r1, q1, u1, s1, c1, m1 \in Nat :
      Falls(bytes, r, q, u, s, c, m, bytes1, r1, q1, u1, s1, c1, m1)
         => Total(bytes1, r1, q1, u1, s1, c1, m1) < Total(bytes, r, q, u, s, c, m)
BY DEF Total, Falls

LEMMA TotalNat ==
  ASSUME NEW bytes \in Nat, NEW r \in Nat, NEW q \in Nat, NEW u \in Nat, NEW s \in Nat,
         NEW c \in Nat, NEW m \in Nat
  PROVE  Total(bytes, r, q, u, s, c, m) \in Nat
BY DEF Total

(* The terms are numbers.                                                    *)
LEMMA TermsNat ==
  ASSUME TypeOK
  PROVE  /\ ReaderRank \in Nat /\ Len(io_queue) \in Nat /\ IsFiniteSet(UploadSteps)
         /\ Cardinality(UploadSteps) \in Nat
         /\ StartRank \in Nat /\ StartRank <= 1 /\ Crew \in Nat /\ MainRank \in Nat
         /\ IsFiniteSet(cancelling) /\ Cardinality(cancelling) \in Nat
         /\ Cardinality(cancelling) <= Crew
         /\ \A u \in Uploaders : Stage(u) \in 0..3
<1>1. IsFiniteSet(Uploaders \X (1..3))
  <2>1. 1 \in Int /\ 3 \in Int
    OBVIOUS
  <2>2. IsFiniteSet(1..3)
    BY <2>1, FS_Interval
  <2> QED
    BY <2>2, UploadersAssumption, FS_Product
<1>2. IsFiniteSet(UploadSteps)
  <2>1. UploadSteps \subseteq Uploaders \X (1..3)
    BY DEF UploadSteps
  <2> QED
    BY <1>1, <2>1, FS_Subset
<1>3. Cardinality(UploadSteps) \in Nat
  BY <1>2, FS_CardinalityType
<1>4. Crew \in Nat
  BY UploadersAssumption, FS_CardinalityType DEF Crew
<1>5. IsFiniteSet(cancelling) /\ Cardinality(cancelling) \in Nat /\ Cardinality(cancelling) <= Crew
  <2>1. cancelling \subseteq Uploaders
    BY DEF TypeOK
  <2> QED
    BY <2>1, UploadersAssumption, FS_Subset, FS_CardinalityType DEF Crew
<1>6. ReaderRank \in Nat /\ Len(io_queue) \in Nat /\ StartRank \in Nat /\ StartRank <= 1
  BY DEF ReaderRank, StartRank, TypeOK
<1>7. MainRank \in Nat
  <2>1. /\ 2 * Crew + 22 \in Nat /\ 2 * Crew + 21 \in Nat /\ 2 * Crew + 7 \in Nat
        /\ 2 * Crew + 6 \in Nat /\ 2 * Crew + 5 \in Nat /\ 2 * Crew + 4 \in Nat
        /\ 2 * Crew + 3 \in Nat /\ Crew + 2 \in Nat
    BY <1>4
  <2>2. main \in {"initial", "put_object", "callback", "create", "await_reader", "wait", "abort",
                 "complete", "abort_incomplete", "close", "gather", "gather_cancelled", "done"}
    BY DEF TypeOK
  <2> QED
    BY <2>1, <2>2, Zenon DEF MainRank
<1>8. \A u \in Uploaders : Stage(u) \in 0..3
  BY DEF Stage
<1> QED
  BY <1>2, <1>3, <1>4, <1>5, <1>6, <1>7, <1>8

(* An element more.                                                          *)
LEMMA OneMore ==
  ASSUME NEW S, NEW x, IsFiniteSet(S)
  PROVE  /\ IsFiniteSet(S \cup {x}) /\ Cardinality(S \cup {x}) \in Nat
         /\ Cardinality(S \cup {x}) <= Cardinality(S) + 1
<1>1. IsFiniteSet(S \cup {x})
  BY FS_AddElement
<1>2. Cardinality(S) \in Nat /\ Cardinality(S \cup {x}) \in Nat
  BY <1>1, FS_CardinalityType
<1>3. Cardinality(S \cup {x}) = IF x \in S THEN Cardinality(S) ELSE Cardinality(S) + 1
  BY FS_AddElement
<1> QED
  BY <1>1, <1>2, <1>3

(* Uploaders that move on have fewer steps left, and one that takes a part   *)
(* has three more.                                                           *)
LEMMA FewerUploadSteps ==
  ASSUME TypeOK, TypeOK'
  PROVE  /\ (\A u \in Uploaders : Stage(u)' <= Stage(u)) =>
              /\ Cardinality(UploadSteps)' <= Cardinality(UploadSteps)
              /\ (\E u \in Uploaders : Stage(u)' < Stage(u)) =>
                     Cardinality(UploadSteps)' < Cardinality(UploadSteps)
         /\ \A u \in Uploaders :
              (\A v \in Uploaders \ {u} : Stage(v)' <= Stage(v)) =>
                 Cardinality(UploadSteps)' <= Cardinality(UploadSteps) + 3
<1> DEFINE T == UploadSteps
           S == UploadSteps'
<1>1. /\ IsFiniteSet(T) /\ Cardinality(T) \in Nat
      /\ \A u \in Uploaders : Stage(u) \in 0..3
  BY TermsNat
<1>2. /\ IsFiniteSet(S) /\ Cardinality(S) \in Nat
      /\ \A u \in Uploaders : Stage(u)' \in 0..3
  <2>1. \A u \in Uploaders : Stage(u)' \in 0..3
    BY DEF Stage
  <2>2. S \subseteq Uploaders \X (1..3)
    BY DEF UploadSteps
  <2>3. IsFiniteSet(Uploaders \X (1..3))
    <3>1. 1 \in Int /\ 3 \in Int
      OBVIOUS
    <3>2. IsFiniteSet(1..3)
      BY <3>1, FS_Interval
    <3> QED
      BY <3>2, UploadersAssumption, FS_Product
  <2>4. IsFiniteSet(S)
    BY <2>2, <2>3, FS_Subset
  <2> QED
    BY <2>1, <2>4, FS_CardinalityType
<1>3. \A u \in Uploaders, k \in 1..3 : <<u, k>> \in T <=> k <= Stage(u)
  <2> SUFFICES ASSUME NEW u \in Uploaders, NEW k \in 1..3
               PROVE  <<u, k>> \in T <=> k <= Stage(u)
    OBVIOUS
  <2>1. <<u, k>> \in Uploaders \X (1..3) /\ <<u, k>>[1] = u /\ <<u, k>>[2] = k
    OBVIOUS
  <2> QED
    BY <2>1 DEF UploadSteps
<1>4. \A u \in Uploaders, k \in 1..3 : <<u, k>> \in S <=> k <= Stage(u)'
  <2> SUFFICES ASSUME NEW u \in Uploaders, NEW k \in 1..3
               PROVE  <<u, k>> \in S <=> k <= Stage(u)'
    OBVIOUS
  <2>1. <<u, k>> \in Uploaders \X (1..3) /\ <<u, k>>[1] = u /\ <<u, k>>[2] = k
    OBVIOUS
  <2> QED
    BY <2>1 DEF UploadSteps, Stage
<1>5. \A s \in T \cup S : \E u \in Uploaders, k \in 1..3 : s = <<u, k>>
  BY DEF UploadSteps
<1> HIDE DEF T, S
<1>6. ASSUME \A u \in Uploaders : Stage(u)' <= Stage(u)
      PROVE  /\ Cardinality(S) <= Cardinality(T)
             /\ (\E u \in Uploaders : Stage(u)' < Stage(u)) => Cardinality(S) < Cardinality(T)
  <2>1. \A u \in Uploaders, k \in 1..3 : k <= Stage(u)' => k <= Stage(u)
    BY <1>1, <1>2, <1>6
  <2>2. ASSUME NEW s \in S PROVE s \in T
    <3>1. PICK u \in Uploaders, k \in 1..3 : s = <<u, k>>
      BY <1>5
    <3> QED
      BY <1>3, <1>4, <2>1, <3>1
  <2>3. Cardinality(S) <= Cardinality(T) /\ (Cardinality(T) = Cardinality(S) => T = S)
    BY <1>1, <2>2, FS_Subset
  <2>4. ASSUME NEW u \in Uploaders, Stage(u)' < Stage(u)
        PROVE  T # S
    <3>1. Stage(u) \in 1..3 /\ ~(Stage(u) <= Stage(u)') /\ Stage(u) <= Stage(u)
      BY <1>1, <1>2, <2>4
    <3> QED
      BY <1>3, <1>4, <3>1
  <2> QED
    BY <1>1, <1>2, <2>3, <2>4
<1>7. ASSUME NEW u \in Uploaders, \A v \in Uploaders \ {u} : Stage(v)' <= Stage(v)
      PROVE  Cardinality(S) <= Cardinality(T) + 3
  <2> DEFINE A == T \cup {<<u, 1>>}
             B == A \cup {<<u, 2>>}
             C == B \cup {<<u, 3>>}
  <2>1. ASSUME NEW v \in Uploaders, NEW k \in 1..3, <<v, k>> \in S, v # u
        PROVE  k <= Stage(v)
    <3>1. k <= Stage(v)' /\ Stage(v)' <= Stage(v)
      BY <1>4, <1>7, <2>1
    <3>2. Stage(v) \in 0..3 /\ Stage(v)' \in 0..3
      BY <1>1, <1>2
    <3> QED
      BY <3>1, <3>2
  <2>2. \A k \in 1..3 : k = 1 \/ k = 2 \/ k = 3
    OBVIOUS
  <2>3. \A v \in Uploaders, k \in 1..3 : <<v, k>> \in S => <<v, k>> \in C
    BY <1>3, <2>1, <2>2
  <2>4. ASSUME NEW s \in S PROVE s \in C
    <3>1. PICK v \in Uploaders, k \in 1..3 : s = <<v, k>>
      BY <1>5
    <3> QED
      BY <2>3, <3>1
  <2>5. IsFiniteSet(A) /\ Cardinality(A) \in Nat /\ Cardinality(A) <= Cardinality(T) + 1
    BY <1>1, OneMore
  <2> HIDE DEF A
  <2>6. IsFiniteSet(B) /\ Cardinality(B) \in Nat /\ Cardinality(B) <= Cardinality(A) + 1
    BY <2>5, OneMore
  <2> HIDE DEF B
  <2>7. IsFiniteSet(C) /\ Cardinality(C) \in Nat /\ Cardinality(C) <= Cardinality(B) + 1
    BY <2>6, OneMore
  <2> HIDE DEF C
  <2>8. Cardinality(S) <= Cardinality(C)
    BY <2>4, <2>7, FS_Subset
  <2> QED
    BY <1>1, <1>2, <2>5, <2>6, <2>7, <2>8
<1> QED
  BY <1>6, <1>7 DEF T, S

LEMMA TermsNatNext ==
  TypeOK' => /\ ReaderRank' \in Nat /\ Len(io_queue') \in Nat
             /\ Cardinality(UploadSteps)' \in Nat
             /\ StartRank' \in Nat /\ StartRank' <= 1 /\ MainRank' \in Nat
             /\ Cardinality(cancelling') \in Nat /\ Cardinality(cancelling') <= Crew
<1>1. TypeOK => /\ ReaderRank \in Nat /\ Len(io_queue) \in Nat
                /\ Cardinality(UploadSteps) \in Nat
                /\ StartRank \in Nat /\ StartRank <= 1 /\ MainRank \in Nat
                /\ Cardinality(cancelling) \in Nat /\ Cardinality(cancelling) <= Crew
  BY TermsNat
<1>2. TypeOK' => (/\ ReaderRank \in Nat /\ Len(io_queue) \in Nat
                  /\ Cardinality(UploadSteps) \in Nat
                  /\ StartRank \in Nat /\ StartRank <= 1 /\ MainRank \in Nat
                  /\ Cardinality(cancelling) \in Nat /\ Cardinality(cancelling) <= Crew)'
  BY <1>1, PTL
<1> QED
  BY <1>2 DEF Crew

(* The ways in which a step lowers the rank.                                 *)
RankDrop ==
  \/ /\ pos' = pos /\ ReaderRank' <= ReaderRank /\ io_queue' = io_queue
     /\ Cardinality(UploadSteps)' <= Cardinality(UploadSteps)
     /\ StartRank' <= StartRank /\ Cardinality(cancelling') <= Cardinality(cancelling)
     /\ MainRank' <= MainRank
     /\ \/ ReaderRank' < ReaderRank \/ StartRank' < StartRank \/ MainRank' < MainRank
        \/ Cardinality(UploadSteps)' < Cardinality(UploadSteps)
        \/ Cardinality(cancelling') < Cardinality(cancelling)
  \/ /\ pos < pos' /\ ReaderRank' <= ReaderRank + 6 /\ io_queue' = io_queue
     /\ UNCHANGED <<UploadSteps, StartRank, cancelling>> /\ MainRank' <= MainRank
  \/ /\ pos' = pos /\ ReaderRank' < ReaderRank - 4 /\ Len(io_queue') = Len(io_queue) + 1
     /\ UNCHANGED <<UploadSteps, StartRank, cancelling, MainRank>>
  \/ /\ pos' = pos /\ ReaderRank' = ReaderRank /\ Len(io_queue') = Len(io_queue) - 1
     /\ Cardinality(UploadSteps)' <= Cardinality(UploadSteps) + 3
     /\ StartRank' <= StartRank /\ UNCHANGED <<cancelling, MainRank>>
  \/ /\ pos' = pos /\ ReaderRank' <= ReaderRank + 12 /\ io_queue' = io_queue
     /\ Cardinality(UploadSteps)' <= Cardinality(UploadSteps)
     /\ cancelling' = cancelling /\ MainRank' < MainRank - 13
  \/ /\ pos' = pos /\ ReaderRank' <= ReaderRank /\ io_queue' = io_queue
     /\ Cardinality(UploadSteps)' <= Cardinality(UploadSteps) /\ StartRank' <= StartRank
     /\ MainRank' + Crew < MainRank

LEMMA RankFalls ==
  ASSUME TypeOK, TypeOK', pos \in 0..MaxFileSize, pos' \in 0..MaxFileSize
  PROVE  RankDrop => Rank' < Rank
<1> DEFINE q == Len(io_queue)
           u == Cardinality(UploadSteps)
           c == Cardinality(cancelling)
<1>1. /\ ReaderRank \in Nat /\ q \in Nat /\ u \in Nat /\ StartRank \in Nat
      /\ c \in Nat /\ MainRank \in Nat /\ Crew \in Nat
  BY TermsNat
<1>2. /\ ReaderRank' \in Nat /\ q' \in Nat /\ u' \in Nat /\ StartRank' \in Nat
      /\ c' \in Nat /\ MainRank' \in Nat /\ c' <= Crew
  BY TermsNatNext
<1>3. StartRank' <= StartRank + 1
  BY DEF StartRank
<1>4. /\ UploadSteps' = UploadSteps => u' = u
      /\ cancelling' = cancelling => c' = c
      /\ io_queue' = io_queue => q' = q
  OBVIOUS
<1>5. /\ Left \in Nat /\ Left' \in Nat
      /\ (pos' = pos => Left' = Left) /\ (pos < pos' => Left' < Left)
  <2>1. \A x, y \in 0..MaxFileSize :
           MaxFileSize - x \in Nat /\ (x < y => MaxFileSize - y < MaxFileSize - x)
    BY SizesAssumption
  <2>2. Left = MaxFileSize - pos /\ Left' = MaxFileSize - pos'
    BY DEF Left
  <2> QED
    BY <2>1, <2>2
<1>6. Rank = Total(Left, ReaderRank, q, u, StartRank, c, MainRank)
      /\ Rank' = Total(Left', ReaderRank', q', u', StartRank', c', MainRank')
  BY DEF Rank, Total
<1>7. RankDrop => Falls(Left, ReaderRank, q, u, StartRank, c, MainRank,
                        Left', ReaderRank', q', u', StartRank', c', MainRank')
  <2>1. (Left' = Left => Left' <= Left) /\ (q' = q => q' <= q)
    BY <1>1, <1>5
  <2>2. MainRank' + Crew < MainRank => c' + MainRank' < MainRank
    <3>1. \A a, d, n, m \in Nat : a <= n /\ d + n < m => a + d < m
      OBVIOUS
    <3> HIDE DEF q, u, c
    <3> QED
      BY <1>1, <1>2, <3>1
  <2>3. RankDrop =>
          \/ /\ pos' = pos /\ ReaderRank' <= ReaderRank /\ io_queue' = io_queue
             /\ u' <= u /\ StartRank' <= StartRank /\ c' <= c /\ MainRank' <= MainRank
             /\ \/ ReaderRank' < ReaderRank \/ StartRank' < StartRank \/ MainRank' < MainRank
                \/ u' < u \/ c' < c
          \/ /\ pos < pos' /\ ReaderRank' <= ReaderRank + 6 /\ io_queue' = io_queue
             /\ UNCHANGED <<UploadSteps, StartRank, cancelling>> /\ MainRank' <= MainRank
          \/ /\ pos' = pos /\ ReaderRank' < ReaderRank - 4 /\ q' = q + 1
             /\ UNCHANGED <<UploadSteps, StartRank, cancelling, MainRank>>
          \/ /\ pos' = pos /\ ReaderRank' = ReaderRank /\ q' = q - 1 /\ u' <= u + 3
             /\ StartRank' <= StartRank /\ UNCHANGED <<cancelling, MainRank>>
          \/ /\ pos' = pos /\ ReaderRank' <= ReaderRank + 12 /\ io_queue' = io_queue
             /\ u' <= u /\ cancelling' = cancelling /\ MainRank' < MainRank - 13
          \/ /\ pos' = pos /\ ReaderRank' <= ReaderRank /\ io_queue' = io_queue
             /\ u' <= u /\ StartRank' <= StartRank /\ MainRank' + Crew < MainRank
    BY Zenon DEF RankDrop
  <2> HIDE DEF q, u, c
  <2> QED
    BY <1>3, <1>4, <1>5, <2>1, <2>2, <2>3, Zenon DEF Falls
<1> HIDE DEF q, u, c
<1>8. Falls(Left, ReaderRank, q, u, StartRank, c, MainRank,
            Left', ReaderRank', q', u', StartRank', c', MainRank')
      => Total(Left', ReaderRank', q', u', StartRank', c', MainRank')
            < Total(Left, ReaderRank, q, u, StartRank, c, MainRank)
  BY <1>1, <1>2, <1>5, TotalFalls
<1> QED
  BY <1>6, <1>7, <1>8

(* Terms whose variables a step leaves alone.                                *)
LEMMA TermsKept ==
  /\ UNCHANGED <<reader, read_once, eof>> => ReaderRank' = ReaderRank
  /\ UNCHANGED <<uploader, part_args, stored>> =>
        UploadSteps' = UploadSteps /\ StartRank' = StartRank
  /\ main' = main => MainRank' = MainRank
<1>1. UNCHANGED <<reader, read_once, eof>> => ReaderRank' = ReaderRank
  BY DEF ReaderRank
<1>2. UNCHANGED <<uploader, part_args, stored>> =>
         UploadSteps' = UploadSteps /\ StartRank' = StartRank
  BY DEF UploadSteps, Stage, StartRank
<1>3. main' = main => MainRank' = MainRank
  BY DEF MainRank
<1> QED
  BY <1>1, <1>2, <1>3

(* A step that only takes the caller's task further.                         *)
LEMMA CallerGoesOn ==
  ASSUME TypeOK, TypeOK', ReaderRank' <= ReaderRank, MainRank' < MainRank,
         UNCHANGED <<pos, io_queue, uploader, part_args, stored, cancelling>>
  PROVE  RankDrop
<1>1. UploadSteps' = UploadSteps /\ StartRank' = StartRank
  BY TermsKept
<1>2. /\ Cardinality(UploadSteps)' = Cardinality(UploadSteps)
      /\ Cardinality(cancelling') = Cardinality(cancelling)
  BY <1>1
<1>3. /\ Cardinality(UploadSteps) \in Nat /\ StartRank \in Nat /\ Cardinality(cancelling) \in Nat
      /\ MainRank \in Nat /\ MainRank' \in Nat
  BY TermsNat, TermsNatNext
<1>4. /\ Cardinality(UploadSteps)' <= Cardinality(UploadSteps) /\ StartRank' <= StartRank
      /\ Cardinality(cancelling') <= Cardinality(cancelling) /\ MainRank' <= MainRank
  BY <1>1, <1>2, <1>3
<1> QED
  BY <1>4, Zenon DEF RankDrop

LEMMA SmallUploadRank ==
  ASSUME CountInv, TypeOK', pos \in 0..MaxFileSize, SmallUpload
  PROVE  pos' \in 0..MaxFileSize /\ RankDrop
<1> USE DEF mainVars, failVars, queueVars, readerVars, upVars, fileVars, s3Vars
<1>0. TypeOK /\ NotStarted
  BY DEF CountInv
<1>1. /\ ReaderRank \in Nat /\ Crew \in Nat /\ MainRank \in Nat
      /\ Cardinality(UploadSteps) \in Nat /\ StartRank \in Nat
  BY <1>0, TermsNat
<1>2. CASE InitialRead
  <2>1. pos' \in 0..MaxFileSize /\ pos < pos'
    BY <1>2, SizesAssumption DEF InitialRead, Reads
  <2>2. UNCHANGED <<UploadSteps, StartRank, cancelling, io_queue, ReaderRank>>
    BY <1>2, TermsKept DEF InitialRead
  <2>3. MainRank' <= MainRank
    BY <1>1, <1>2 DEF InitialRead, MainRank
  <2>4. ReaderRank' <= ReaderRank + 6
    BY <1>1, <2>2
  <2> QED
    BY <2>1, <2>2, <2>3, <2>4 DEF RankDrop
<1>3. CASE CreateSucceeds
  <2>1. /\ uploader = [u \in Uploaders |-> "none"] /\ reader = "none"
    BY <1>0, <1>3 DEF NotStarted, Before, CreateSucceeds
  <2>2. UNCHANGED <<pos, io_queue, cancelling, part_args, stored, eof>>
        /\ uploader' = [u \in Uploaders |-> "start"]
    BY <1>3 DEF CreateSucceeds
  <2>3. \A u \in Uploaders : Stage(u)' <= Stage(u)
    BY <2>1, <2>2 DEF Stage
  <2>4. Cardinality(UploadSteps)' <= Cardinality(UploadSteps)
    BY <1>0, <2>3, FewerUploadSteps
  <2>5. MainRank' < MainRank - 13
    BY <1>1, <1>3 DEF CreateSucceeds, MainRank
  <2>6. ReaderRank' <= ReaderRank + 12
    <3>1. ReaderRank' <= 12
      BY DEF ReaderRank
    <3>2. ReaderRank' \in Nat
      BY TermsNatNext
    <3> QED
      BY <1>1, <3>1, <3>2
  <2> QED
    BY <2>2, <2>4, <2>5, <2>6 DEF RankDrop
<1>4. CASE InitialEOF \/ InitialReadFails \/ PutObjectSucceeds \/ PutObjectFails
           \/ PutObjectCallback \/ CreateFails
  <2>1. UNCHANGED <<pos, io_queue, uploader, part_args, stored, cancelling,
                    reader, read_once, eof>>
    BY <1>4 DEF InitialEOF, ReadsNothing, InitialReadFails, PutObjectSucceeds, PutObjectFails,
                PutObjectCallback, CreateFails
  <2>2. MainRank' < MainRank
    BY <1>1, <1>4 DEF InitialEOF, InitialReadFails, PutObjectSucceeds, PutObjectFails,
                      PutObjectCallback, CreateFails, Finish, MainRank
  <2>3. ReaderRank' <= ReaderRank
    BY <1>1, <2>1, TermsKept
  <2> QED
    BY <1>0, <2>1, <2>2, <2>3, CallerGoesOn
<1> QED
  BY <1>2, <1>3, <1>4 DEF SmallUpload

LEMMA FileReaderRank ==
  ASSUME TypeOK, TypeOK', pos \in 0..MaxFileSize, Reader
  PROVE  pos' \in 0..MaxFileSize /\ RankDrop
<1> USE DEF mainVars, failVars, queueVars, readerVars, upVars, fileVars, s3Vars
<1>1. /\ ReaderRank \in Nat /\ MainRank \in Nat /\ Cardinality(cancelling) \in Nat
      /\ Cardinality(UploadSteps) \in Nat /\ StartRank \in Nat
  BY TermsNat
<1>2. UNCHANGED <<UploadSteps, StartRank, cancelling, MainRank>>
  BY TermsKept DEF Reader, ReadChunk, ReadEOF, ReadFails, ReaderPut
<1>3. /\ Cardinality(UploadSteps)' <= Cardinality(UploadSteps) /\ StartRank' <= StartRank
      /\ Cardinality(cancelling') <= Cardinality(cancelling) /\ MainRank' <= MainRank
  BY <1>1, <1>2
<1>4. CASE ReadChunk
  <2>1. pos' \in 0..MaxFileSize /\ pos < pos'
    BY <1>4, SizesAssumption DEF ReadChunk, Reads
  <2>2. ReaderRank' <= ReaderRank + 6
    BY <1>4 DEF ReadChunk, ProcessThenPut, ReaderRank
  <2> QED
    BY <1>2, <1>3, <1>4, <2>1, <2>2 DEF RankDrop, ReadChunk
<1>5. CASE ReadEOF \/ ReadFails
  <2>1. UNCHANGED <<pos, io_queue>>
    BY <1>5 DEF ReadEOF, ReadFails, ReadsNothing
  <2>2. ReaderRank' < ReaderRank
    BY <1>5 DEF ReadEOF, ReadFails, EndOfPayload, ProcessThenPut, ReaderRank
  <2>3. ReaderRank' <= ReaderRank
    BY <1>1, <2>2, TermsNatNext
  <2> QED
    BY <1>3, <2>1, <2>2, <2>3, Zenon DEF RankDrop
<1>6. CASE ReaderPut
  <2>1. pos' = pos /\ Len(io_queue') = Len(io_queue) + 1
    BY <1>6 DEF ReaderPut, TypeOK
  <2>2. ReaderRank' < ReaderRank - 4
    BY <1>6 DEF ReaderPut, ReaderRank
  <2> QED
    BY <1>2, <2>1, <2>2, Zenon DEF RankDrop
<1> QED
  BY <1>4, <1>5, <1>6 DEF Reader

(* A step of an uploader, or of S3 for it.                                   *)
LEMMA UploaderRank ==
  ASSUME TypeOK, TypeOK',
         UploadersStart \/ \E u \in Uploaders : Uploader(u) \/ S3StoresPart(u)
  PROVE  pos' = pos /\ RankDrop
<1> USE DEF mainVars, failVars, queueVars, readerVars, upVars, fileVars, s3Vars
<1>1. /\ ReaderRank \in Nat /\ MainRank \in Nat /\ Cardinality(cancelling) \in Nat
      /\ Cardinality(UploadSteps) \in Nat /\ StartRank \in Nat
      /\ \A u \in Uploaders : Stage(u) \in 0..3
  BY TermsNat
<1>2. UNCHANGED <<pos, reader, read_once, eof, main>>
  BY DEF UploadersStart, Uploader, Get, UploadPartSucceeds, UploadPartFails, CallbackDone,
         CancelDelivered, S3StoresPart
<1>3. ReaderRank' = ReaderRank /\ MainRank' = MainRank
  BY <1>2, TermsKept
<1>4. ReaderRank' <= ReaderRank /\ MainRank' <= MainRank
  BY <1>1, <1>3
<1>5. CASE UploadersStart
  <2>1. /\ UNCHANGED <<io_queue, cancelling, part_args, stored>>
        /\ \A u \in Uploaders : uploader[u] = "start" /\ uploader'[u] \in {"get", "exited"}
    BY <1>5 DEF UploadersStart, Turn
  <2>2. \A u \in Uploaders : Stage(u)' <= Stage(u)
    BY <2>1 DEF Stage
  <2>3. Cardinality(UploadSteps)' <= Cardinality(UploadSteps)
    BY <2>2, FewerUploadSteps
  <2>4. StartRank' < StartRank /\ StartRank' <= StartRank
    BY <2>1, UploadersAssumption DEF StartRank
  <2>5. Cardinality(cancelling') <= Cardinality(cancelling)
    BY <1>1, <2>1
  <2> QED
    BY <1>2, <1>4, <2>1, <2>3, <2>4, <2>5, Zenon DEF RankDrop
<1>6. ASSUME NEW u \in Uploaders,
             UploadPartSucceeds(u) \/ UploadPartFails(u) \/ CallbackDone(u) \/ S3StoresPart(u)
      PROVE  RankDrop
  <2>1. UNCHANGED <<io_queue, cancelling, part_args>>
    BY <1>6 DEF UploadPartSucceeds, UploadPartFails, CallbackDone, S3StoresPart
  <2>2. \A v \in Uploaders : Stage(v)' <= Stage(v)
    BY <1>6 DEF UploadPartSucceeds, UploadPartFails, CallbackDone, S3StoresPart, Runs,
                NextTurn, Turn, Stage, TypeOK
  <2>3. Stage(u)' < Stage(u)
    BY <1>6 DEF UploadPartSucceeds, UploadPartFails, CallbackDone, S3StoresPart, Runs,
                NextTurn, Turn, Stage, TypeOK
  <2>4. /\ Cardinality(UploadSteps)' <= Cardinality(UploadSteps)
        /\ Cardinality(UploadSteps)' < Cardinality(UploadSteps)
    BY <2>2, <2>3, FewerUploadSteps
  <2>5. StartRank' <= StartRank
    BY <1>6 DEF UploadPartSucceeds, UploadPartFails, CallbackDone, S3StoresPart,
                NextTurn, Turn, StartRank, TypeOK
  <2>6. Cardinality(cancelling') <= Cardinality(cancelling)
    BY <1>1, <2>1
  <2> QED
    BY <1>2, <1>4, <2>1, <2>4, <2>5, <2>6, Zenon DEF RankDrop
<1>7. ASSUME NEW u \in Uploaders, CancelDelivered(u)
      PROVE  RankDrop
  <2>1. UNCHANGED <<io_queue, part_args, stored>> /\ u \in cancelling
        /\ cancelling' = cancelling \ {u}
    BY <1>7 DEF CancelDelivered
  <2>2. \A v \in Uploaders : Stage(v)' <= Stage(v)
    BY <1>7 DEF CancelDelivered, NextTurn, Turn, Stage, TypeOK
  <2>3. Cardinality(UploadSteps)' <= Cardinality(UploadSteps)
    BY <2>2, FewerUploadSteps
  <2>4. StartRank' <= StartRank
    BY <1>7 DEF CancelDelivered, NextTurn, Turn, StartRank, TypeOK
  <2>5. Cardinality(cancelling') = Cardinality(cancelling) - 1
    BY <2>1, SubsetCardinality DEF TypeOK
  <2>6. /\ Cardinality(cancelling') <= Cardinality(cancelling)
        /\ Cardinality(cancelling') < Cardinality(cancelling)
    BY <1>1, <2>5
  <2> QED
    BY <1>2, <1>4, <2>1, <2>3, <2>4, <2>6, Zenon DEF RankDrop
<1>8. ASSUME NEW u \in Uploaders, Get(u)
      PROVE  RankDrop
  <2>1. UNCHANGED <<cancelling, stored>> /\ Len(io_queue') = Len(io_queue) - 1
    BY <1>8 DEF Get, TypeOK
  <2>2. \A v \in Uploaders \ {u} : Stage(v)' <= Stage(v)
    BY <1>8 DEF Get, Stage, TypeOK
  <2>3. Cardinality(UploadSteps)' <= Cardinality(UploadSteps) + 3
    BY <2>2, FewerUploadSteps
  <2>4. StartRank' <= StartRank
    BY <1>8 DEF Get, StartRank, TypeOK
  <2> QED
    BY <1>2, <1>3, <2>1, <2>3, <2>4, Zenon DEF RankDrop
<1> QED
  BY <1>2, <1>5, <1>6, <1>7, <1>8 DEF Uploader

(* A step of the caller's task in the multipart path, or its cancellation.   *)
LEMMA EndingRank ==
  ASSUME TypeOK, TypeOK', Ending \/ CancelMain
  PROVE  pos' = pos /\ RankDrop
<1> USE DEF mainVars, failVars, queueVars, readerVars, upVars, fileVars, s3Vars
<1>1. /\ ReaderRank \in Nat /\ MainRank \in Nat /\ Crew \in Nat
      /\ Cardinality(UploadSteps) \in Nat /\ StartRank \in Nat
  BY TermsNat
<1>2. UNCHANGED <<pos, io_queue, uploader, part_args, stored, read_once, eof>>
  BY DEF Ending, AwaitReader, Wait, AbortSucceeds, AbortFails, CompleteSucceeds, CompleteFails,
         AbortIncomplete, ClosePending, Gather, CancelMain
<1>3. ReaderRank' <= ReaderRank
  <2>1. reader' = reader \/ reader' = "cancelled"
    BY DEF Ending, AwaitReader, Wait, AbortSucceeds, AbortFails, CompleteSucceeds, CompleteFails,
           AbortIncomplete, ClosePending, Gather, CancelMain
  <2>2. CASE reader' = reader
    BY <1>1, <1>2, <2>2, TermsKept
  <2>3. CASE reader' = "cancelled"
    BY <1>1, <2>3 DEF ReaderRank
  <2> QED
    BY <2>1, <2>2, <2>3
<1>4. ASSUME MainRank' + Crew < MainRank
      PROVE  RankDrop
  <2>1. UploadSteps' = UploadSteps /\ StartRank' = StartRank
    BY <1>2, TermsKept
  <2>2. Cardinality(UploadSteps)' <= Cardinality(UploadSteps) /\ StartRank' <= StartRank
    BY <1>1, <2>1
  <2> QED
    BY <1>2, <1>3, <1>4, <2>2, Zenon DEF RankDrop
<1>5. CASE AwaitReader \/ Wait \/ AbortSucceeds \/ AbortFails \/ CompleteSucceeds
           \/ CompleteFails \/ AbortIncomplete \/ Gather
  <2>1. cancelling' = cancelling
    BY <1>5 DEF AwaitReader, Wait, AbortSucceeds, AbortFails, CompleteSucceeds, CompleteFails,
                AbortIncomplete, Gather
  <2>2. MainRank' < MainRank
    <3>1. CASE AwaitReader \/ Wait
      BY <1>1, <3>1 DEF AwaitReader, Wait, MainRank
    <3>2. CASE AbortSucceeds \/ AbortFails \/ AbortIncomplete
      BY <1>1, <3>2 DEF AbortSucceeds, AbortFails, AbortIncomplete, Finish, MainRank
    <3>3. CASE CompleteSucceeds \/ CompleteFails
      BY <1>1, <3>3 DEF CompleteSucceeds, CompleteFails, MainRank
    <3>4. CASE Gather
      BY <1>1, <3>4 DEF Gather, RaiseOrReturn, Finish, MainRank
    <3> QED
      BY <1>5, <3>1, <3>2, <3>3, <3>4
  <2> QED
    BY <1>2, <1>3, <2>1, <2>2, CallerGoesOn
<1>6. CASE ClosePending
  <2>1. MainRank' + Crew < MainRank
    BY <1>1, <1>6 DEF ClosePending, RaiseOrReturn, Finish, MainRank
  <2> QED
    BY <1>2, <1>4, <2>1
<1>7. CASE CancelMain
  <2>1. CASE main = "gather"
    <3>1. MainRank' + Crew < MainRank
      BY <1>1, <1>7, <2>1 DEF CancelMain, MainRank
    <3> QED
      BY <1>2, <1>4, <3>1
  <2>2. CASE main # "gather"
    <3>1. cancelling' = cancelling
      BY <1>7, <2>2 DEF CancelMain
    <3>2. MainRank' < MainRank
      BY <1>1, <1>7, <2>2 DEF CancelMain, Finish, MainRank
    <3> QED
      BY <1>2, <1>3, <3>1, <3>2, CallerGoesOn
  <2> QED
    BY <2>1, <2>2
<1> QED
  BY <1>2, <1>5, <1>6, <1>7 DEF Ending

\* An upload of a file of at most MaxFileSize bytes takes boundedly many steps:
\* every step of the caller, the reader, an uploader or S3, whatever fails and
\* whenever the call is cancelled, lowers Rank, a natural number.  No task
\* polls, retries or starts over: a call that does not end is waiting for
\* something that will not come, as in ReaderStuck.
THEOREM UploadIsBounded ==
  Spec => [](Rank \in Nat) /\ [][Rank' < Rank]_vars
<1>1. Init => pos \in 0..MaxFileSize
  BY SizesAssumption DEF Init
<1>2. ASSUME CountInv, CountInv', pos \in 0..MaxFileSize, Next
      PROVE  pos' \in 0..MaxFileSize /\ Rank' < Rank
  <2>1. TypeOK /\ TypeOK'
    BY <1>2 DEF CountInv
  <2>2. pos' \in 0..MaxFileSize /\ RankDrop
    <3>1. CASE SmallUpload
      BY <1>2, <2>1, <3>1, SmallUploadRank
    <3>2. CASE Reader
      BY <1>2, <2>1, <3>2, FileReaderRank
    <3>3. CASE UploadersStart \/ \E u \in Uploaders : Uploader(u) \/ S3StoresPart(u)
      BY <1>2, <2>1, <3>3, UploaderRank
    <3>4. CASE Ending \/ CancelMain
      BY <1>2, <2>1, <3>4, EndingRank
    <3> QED
      BY <1>2, <3>1, <3>2, <3>3, <3>4 DEF Next
  <2> QED
    BY <1>2, <2>1, <2>2, RankFalls
<1>3. CountInv /\ CountInv' /\ pos \in 0..MaxFileSize /\ [Next]_vars
         => (pos \in 0..MaxFileSize)'
  BY <1>2 DEF vars, fileVars
<1>4. CountInv /\ CountInv' /\ pos \in 0..MaxFileSize /\ [Next]_vars => [Rank' < Rank]_vars
  BY <1>2
<1>5. CountInv /\ pos \in 0..MaxFileSize => Rank \in Nat
  <2> SUFFICES ASSUME CountInv, pos \in 0..MaxFileSize PROVE Rank \in Nat
    OBVIOUS
  <2>1. Left \in Nat
    BY SizesAssumption DEF Left
  <2> QED
    BY <2>1, TermsNat, TotalNat DEF CountInv, Rank
<1> QED
  BY <1>1, <1>3, <1>4, <1>5, CountInvariant, PTL DEF Spec

=============================================================================
