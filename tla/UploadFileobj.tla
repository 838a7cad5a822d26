---------------------------- MODULE UploadFileobj ----------------------------
(****************************************************************************)
(* upload_fileobj (src/aioboto3/s3/inject.py:299-570): the coroutine that    *)
(* uploads a file-like object, in one put_object when the file is shorter    *)
(* than multipart_threshold and as a multipart upload otherwise.  Besides    *)
(* the caller's task ("main") the multipart path runs one file_reader task,  *)
(* Config.max_request_concurrency uploader tasks, a bounded io_queue between *)
(* them, and two helper tasks (io_queue.join() and exception_event.wait()).  *)
(*                                                                           *)
(* A step of this specification is what one task does between two awaits.    *)
(* The file is a stream of bytes whose length is known only when a read      *)
(* returns b'': a part is the half-open range of file bytes it carries, and  *)
(* the size of its Body, which is that of the range unless Processing made   *)
(* something else of it.  upload_file (573-603) calls it with a file it      *)
(* opens, and closes when the call ends.                                     *)
(****************************************************************************)
EXTENDS Integers, Sequences, FiniteSets, Functions

CONSTANTS
    Uploaders,           \* the Config.max_request_concurrency uploader tasks
    MaxIoQueueSize,      \* Config.max_io_queue_size
    MultipartThreshold,  \* Config.multipart_threshold
    MultipartChunksize,  \* Config.multipart_chunksize
    IoChunksize,         \* Config.io_chunksize
    MaxFileSize,         \* bound: the longest file considered
    ProcessedSizes,      \* the lengths of what Processing may return
    Faults,              \* which calls may fail in this instance
    None                 \* no exception

FaultKinds == {"read", "process", "put", "callback", "create", "part",
               "complete", "abort", "cancel"}

Errors == {"read_error", "process_error", "put_error", "callback_error",
           "create_error", "part_error", "complete_error", "abort_error"}

ASSUME UploadersAssumption == IsFiniteSet(Uploaders) /\ Uploaders # {}
ASSUME SizesAssumption ==
    /\ {MaxIoQueueSize, MultipartThreshold, MultipartChunksize, IoChunksize}
           \subseteq Nat \ {0}
    /\ MaxFileSize \in Nat
    /\ ProcessedSizes \subseteq Nat /\ ProcessedSizes # {}
ASSUME FaultsAssumption == Faults \subseteq FaultKinds
ASSUME NoneAssumption == None \notin Errors

Bytes == {b \in [lo : Nat, hi : Nat] : b.lo <= b.hi}
\* A part's PartNumber, the bytes it was made from, and len(Body).
Part  == {p \in [n : Nat, lo : Nat, hi : Nat, size : Nat] : p.lo <= p.hi}
NoPart == [n |-> 0, lo |-> 0, hi |-> 0, size |-> 0]

VARIABLES
    main,             \* where the caller's task is suspended
    outcome,          \* what the call returned or raised
    exception,        \* the nonlocal `exception`
    exception_event,  \* the asyncio.Event that announces it
    finished_parts,   \* parts uploaded, in the order the responses came
    expected_parts,   \* parts the reader has queued
    io_queue,         \* parts waiting for an uploader
    unfinished_tasks, \* asyncio.Queue's count of put() minus task_done()
    helpers,          \* helper tasks created and not yet cancelled
    reader,           \* where the file_reader task is suspended
    part,             \* file_reader's part number
    payload,          \* the bytes collected for it
    eof,              \* file_reader's eof
    read_once,        \* loop_counter > 0
    uploader,         \* where each uploader task is suspended
    part_args,        \* the part each uploader took last
    cancelling,       \* uploader tasks with a cancellation on its way
    pos,              \* bytes read from the file
    ended,            \* a read has returned b''
    processing,       \* Processing is given
    s3,               \* the multipart upload at S3
    stored,           \* parts S3 received for it
    object,           \* the object under Bucket/Key: <<>> is the previous one
    reported          \* bytes reported through Callback

mainVars   == <<main, outcome, helpers>>
failVars   == <<exception, exception_event>>
queueVars  == <<io_queue, unfinished_tasks, expected_parts>>
readerVars == <<reader, part, payload, eof, read_once>>
upVars     == <<uploader, part_args, cancelling>>
fileVars   == <<pos, ended, processing>>
s3Vars     == <<s3, stored, object>>
vars == <<mainVars, failVars, queueVars, readerVars, upVars, fileVars, s3Vars,
          finished_parts, reported>>

Size(p) == p.hi - p.lo
Finished == {"exited", "failed", "cancelled"}
Done(u) == uploader[u] \in Finished

TypeOK ==
    /\ main \in {"initial", "put_object", "callback", "create", "await_reader",
                 "wait", "abort", "complete", "abort_incomplete", "close",
                 "gather", "gather_cancelled", "done"}
    /\ outcome \in {"running", "returned", "cancelled"} \cup Errors
    /\ exception \in Errors \cup {None}
    /\ exception_event \in BOOLEAN
    /\ finished_parts \in Seq(Part)
    /\ expected_parts \in Nat
    /\ io_queue \in Seq(Part)
    /\ unfinished_tasks \in Nat
    /\ helpers \in {{}, {"join", "event"}}
    /\ reader \in {"none", "reading", "putting", "done", "failed", "cancelled"}
    /\ part \in Nat
    /\ payload \in Bytes
    /\ eof \in BOOLEAN
    /\ read_once \in BOOLEAN
    /\ uploader \in [Uploaders -> {"none", "start", "get", "upload", "callback"}
                                  \cup Finished]
    /\ part_args \in [Uploaders -> Part]
    /\ cancelling \subseteq Uploaders
    /\ pos \in Nat
    /\ ended \in BOOLEAN
    /\ processing \in BOOLEAN
    /\ s3 \in {"none", "open", "completed", "aborted"}
    /\ stored \subseteq Part
    /\ object \in Seq(Part)
    /\ reported \in Nat

Init ==
    /\ main = "initial" /\ outcome = "running" /\ helpers = {}
    /\ exception = None /\ exception_event = FALSE
    /\ finished_parts = <<>> /\ expected_parts = 0
    /\ io_queue = <<>> /\ unfinished_tasks = 0
    /\ reader = "none" /\ part = 0 /\ payload = [lo |-> 0, hi |-> 0]
    /\ eof = FALSE /\ read_once = FALSE
    /\ uploader = [u \in Uploaders |-> "none"]
    /\ part_args = [u \in Uploaders |-> NoPart]
    /\ cancelling = {}
    /\ pos = 0 /\ ended = FALSE /\ processing \in BOOLEAN
    /\ s3 = "none" /\ stored = {} /\ object = <<>>
    /\ reported = 0

Finish(how) ==
    /\ main' = "done"
    /\ outcome' = how

-----------------------------------------------------------------------------
(* The file.  A read returns between 1 and num_bytes bytes, or b'' once the  *)
(* end is reached; MaxFileSize bounds the stream.                            *)

Reads(num_bytes) ==
    \E k \in 1..num_bytes :
        /\ ~ended /\ pos + k <= MaxFileSize
        /\ pos' = pos + k
        /\ UNCHANGED <<ended, processing>>

ReadsNothing == ended' = TRUE /\ UNCHANGED <<pos, processing>>

\* What Processing makes of a payload need not be as long; it may raise instead.
BodySizes(bytes) == IF processing THEN ProcessedSizes ELSE {Size(bytes)}
ProcessingFails == processing /\ "process" \in Faults

(* The single put_object.                                                    *)

InitialRead ==
    /\ main = "initial"
    /\ Reads(MultipartThreshold)
    /\ main' = IF pos' < MultipartThreshold THEN "initial" ELSE "create"
    /\ UNCHANGED <<outcome, helpers, failVars, queueVars, readerVars, upVars,
                   s3Vars, finished_parts, reported>>

InitialEOF ==
    /\ main = "initial"
    /\ ReadsNothing
    /\ \/ main' = "put_object" /\ UNCHANGED outcome
       \/ ProcessingFails /\ Finish("process_error")
    /\ UNCHANGED <<helpers, failVars, queueVars, readerVars, upVars, s3Vars,
                   finished_parts, reported>>

InitialReadFails ==
    /\ main = "initial" /\ "read" \in Faults
    /\ Finish("read_error")
    /\ UNCHANGED <<helpers, failVars, queueVars, readerVars, upVars, fileVars,
                   s3Vars, finished_parts, reported>>

WholeFile == [lo |-> 0, hi |-> pos]
PutObjects == {<<[n |-> 1, lo |-> 0, hi |-> pos, size |-> k]>> : k \in BodySizes(WholeFile)}

PutObjectSucceeds ==
    /\ main = "put_object"
    /\ object' \in PutObjects
    /\ main' = "callback"
    /\ UNCHANGED <<outcome, helpers, failVars, queueVars, readerVars, upVars,
                   fileVars, s3, stored, finished_parts, reported>>

\* The error may follow the write: only its response was lost.
PutObjectFails ==
    /\ main = "put_object" /\ "put" \in Faults
    /\ Finish("put_error")
    /\ object' \in {object} \cup PutObjects
    /\ UNCHANGED <<helpers, failVars, queueVars, readerVars, upVars, fileVars,
                   s3, stored, finished_parts, reported>>

\* Unlike an uploader's, this Callback call is not guarded.
PutObjectCallback ==
    /\ main = "callback"
    /\ reported' = reported + object[1].size
    /\ \/ Finish("returned")
       \/ "callback" \in Faults /\ Finish("callback_error")
    /\ UNCHANGED <<helpers, failVars, queueVars, readerVars, upVars, fileVars,
                   s3Vars, finished_parts>>

-----------------------------------------------------------------------------
(* The file_reader task.                                                     *)

\* Processing, if any, runs on a finished payload and may raise; what it returns
\* is put, however short (ReaderPut chooses its length).
ProcessThenPut ==
    reader' \in {"putting"} \cup IF ProcessingFails THEN {"failed"} ELSE {}

StartFirstPart ==
    /\ part' = 1
    /\ payload' = [lo |-> 0, hi |-> pos]
    /\ read_once' = FALSE
    /\ IF pos < MultipartChunksize THEN reader' = "reading" ELSE ProcessThenPut

CreateSucceeds ==
    /\ main = "create"
    /\ s3' = "open"
    /\ main' = "await_reader"
    /\ uploader' = [u \in Uploaders |-> "start"]
    /\ StartFirstPart
    /\ UNCHANGED <<outcome, helpers, failVars, queueVars, eof, part_args,
                   cancelling, fileVars, stored, object, finished_parts,
                   reported>>

CreateFails ==
    /\ main = "create" /\ "create" \in Faults
    /\ Finish("create_error")
    /\ s3' \in {"none", "open"}
    /\ UNCHANGED <<helpers, failVars, queueVars, readerVars, upVars, fileVars,
                   stored, object, finished_parts, reported>>

\* Mutant: a read that returns less than was asked for ends the part.
ReadChunkOnce ==
    /\ reader = "reading"
    /\ Reads(IoChunksize)
    /\ payload' = [payload EXCEPT !.hi = pos']
    /\ read_once' = TRUE
    /\ ProcessThenPut
    /\ UNCHANGED <<mainVars, failVars, queueVars, part, eof, upVars, s3Vars,
                   finished_parts, reported>>

ReadChunk ==
    /\ reader = "reading"
    /\ Reads(IoChunksize)
    /\ payload' = [payload EXCEPT !.hi = pos']
    /\ read_once' = TRUE
    /\ IF Size(payload') < MultipartChunksize
       THEN UNCHANGED reader
       ELSE ProcessThenPut
    /\ UNCHANGED <<mainVars, failVars, queueVars, part, eof, upVars, s3Vars,
                   finished_parts, reported>>

\* What follows the inner loop when it is left by break.
EndOfPayload ==
    IF Size(payload') = 0 /\ part # 1 THEN reader' = "done" ELSE ProcessThenPut

\* The first b'' read for a part is not taken for the end of the file.
ReadEOF ==
    /\ reader = "reading"
    /\ ReadsNothing
    /\ IF read_once
       THEN eof' = TRUE /\ UNCHANGED <<payload, read_once>> /\ EndOfPayload
       ELSE read_once' = TRUE /\ UNCHANGED <<eof, payload, reader>>
    /\ UNCHANGED <<mainVars, failVars, queueVars, part, upVars, s3Vars,
                   finished_parts, reported>>

ReadFails ==
    /\ reader = "reading" /\ "read" \in Faults
    /\ exception' = "read_error"
    /\ exception_event' = TRUE
    /\ eof' = TRUE
    /\ payload' = [lo |-> pos, hi |-> pos]
    /\ EndOfPayload
    /\ UNCHANGED <<mainVars, queueVars, part, read_once, upVars, fileVars,
                   s3Vars, finished_parts, reported>>

\* io_queue.put, which waits while the queue is full, then the loop's test.
ReaderPut ==
    /\ reader = "putting"
    /\ Len(io_queue) < MaxIoQueueSize
    /\ \E k \in BodySizes(payload) :
          io_queue' = Append(io_queue, [n |-> part, lo |-> payload.lo,
                                        hi |-> payload.hi, size |-> k])
    /\ unfinished_tasks' = unfinished_tasks + 1
    /\ expected_parts' = expected_parts + 1
    /\ IF exception # None \/ eof
       THEN reader' = "done" /\ UNCHANGED <<part, payload, read_once>>
       ELSE /\ reader' = "reading"
            /\ part' = part + 1
            /\ payload' = [lo |-> pos, hi |-> pos]
            /\ read_once' = FALSE
    /\ UNCHANGED <<mainVars, failVars, eof, upVars, fileVars, s3Vars,
                   finished_parts, reported>>

-----------------------------------------------------------------------------
(* The uploader tasks and S3's side of upload_part.  A task that is being    *)
(* cancelled does not resume otherwise.                                      *)

Runs(u, at) == uploader[u] = at /\ u \notin cancelling

\* The test at the head of an uploader's loop.
Turn == IF exception = None THEN "get" ELSE "exited"

NextTurn(u) == uploader' = [uploader EXCEPT ![u] = Turn]

\* The tasks start together, after the reader's first step, which may already
\* have failed.
UploadersStart ==
    /\ \A u \in Uploaders : uploader[u] = "start"
    /\ uploader' = [u \in Uploaders |-> Turn]
    /\ UNCHANGED <<mainVars, failVars, queueVars, readerVars, part_args,
                   cancelling, fileVars, s3Vars, finished_parts, reported>>

Get(u) ==
    /\ Runs(u, "get") /\ io_queue # <<>>
    /\ part_args' = [part_args EXCEPT ![u] = Head(io_queue)]
    /\ io_queue' = Tail(io_queue)
    /\ uploader' = [uploader EXCEPT ![u] = "upload"]
    /\ UNCHANGED <<mainVars, failVars, unfinished_tasks, expected_parts,
                   readerVars, cancelling, fileVars, s3Vars, finished_parts,
                   reported>>

S3StoresPart(u) ==
    /\ uploader[u] = "upload" /\ s3 = "open"
    /\ part_args[u] \notin stored
    /\ stored' = stored \cup {part_args[u]}
    /\ UNCHANGED <<mainVars, failVars, queueVars, readerVars, upVars, fileVars,
                   s3, object, finished_parts, reported>>

\* Mutant: Callback is told of the bytes read, not of those sent.
ReportRead(u) == reported' = reported + Size(part_args[u])

ReportSent(u) == reported' = reported + part_args[u].size

UploadPartSucceeds(u) ==
    /\ Runs(u, "upload") /\ part_args[u] \in stored
    /\ finished_parts' = Append(finished_parts, part_args[u])
    /\ ReportSent(u)
    /\ uploader' = [uploader EXCEPT ![u] = "callback"]
    /\ UNCHANGED <<mainVars, failVars, queueVars, readerVars, part_args,
                   cancelling, fileVars, s3Vars>>

\* An injected fault, or S3's NoSuchUpload.  The task leaves without task_done.
UploadPartFails(u) ==
    /\ Runs(u, "upload")
    /\ "part" \in Faults \/ (s3 # "open" /\ part_args[u] \notin stored)
    /\ exception' = "part_error"
    /\ exception_event' = TRUE
    /\ uploader' = [uploader EXCEPT ![u] = "failed"]
    /\ UNCHANGED <<mainVars, queueVars, readerVars, part_args, cancelling,
                   fileVars, s3Vars, finished_parts, reported>>

\* Mutants: task_done is forgotten, or called twice.
TaskNotDone == UNCHANGED unfinished_tasks
TaskDoneTwice == unfinished_tasks' = unfinished_tasks - 2

TaskDone == unfinished_tasks' = unfinished_tasks - 1

\* Callback returned or raised: both end in task_done.
CallbackDone(u) ==
    /\ Runs(u, "callback")
    /\ TaskDone
    /\ NextTurn(u)
    /\ UNCHANGED <<mainVars, failVars, io_queue, expected_parts, readerVars,
                   part_args, cancelling, fileVars, s3Vars, finished_parts,
                   reported>>

\* CancelledError reaches the task: get() breaks out of the loop, upload_part
\* lets it through, and the bare except around Callback swallows it.
CancelDelivered(u) ==
    /\ u \in cancelling
    /\ cancelling' = cancelling \ {u}
    /\ \/ /\ uploader[u] = "upload"
          /\ uploader' = [uploader EXCEPT ![u] = "cancelled"]
          /\ UNCHANGED unfinished_tasks
       \/ /\ uploader[u] = "get"
          /\ uploader' = [uploader EXCEPT ![u] = "exited"]
          /\ UNCHANGED unfinished_tasks
       \/ /\ uploader[u] = "callback"
          /\ TaskDone
          /\ NextTurn(u)
    /\ UNCHANGED <<mainVars, failVars, io_queue, expected_parts, readerVars,
                   part_args, fileVars, s3Vars, finished_parts, reported>>

-----------------------------------------------------------------------------
(* The caller's task, from `await file_reader_future` on.                    *)

\* Mutant: an exception of the reader is let through.
AwaitReaderUnguarded ==
    /\ main = "await_reader"
    /\ \A u \in Uploaders : uploader[u] # "start"
    /\ \/ reader = "done" /\ main' = "wait" /\ UNCHANGED outcome
       \/ reader = "failed" /\ Finish("process_error")
    /\ helpers' = {"join", "event"}
    /\ UNCHANGED <<failVars, queueVars, readerVars, upVars, fileVars, s3Vars,
                   finished_parts, reported>>

\* The end of the reader wakes the caller after the uploaders have started.
AwaitReader ==
    /\ main = "await_reader"
    /\ \A u \in Uploaders : uploader[u] # "start"
    /\ \/ reader = "done" /\ UNCHANGED failVars
       \/ reader = "failed" /\ exception' = "process_error" /\ exception_event' = TRUE
    /\ main' = "wait"
    /\ helpers' = {"join", "event"}
    /\ UNCHANGED <<outcome, queueVars, readerVars, upVars, fileVars, s3Vars,
                   finished_parts, reported>>

\* Mutant: the parts are left in the order they were finished.
AsFinished(parts) == {parts}

\* finished_parts.sort(key=PartNumber): the ascending, stable rearrangement.
SortedByPartNumber(parts) ==
    LET Orders == {p \in Bijection(DOMAIN parts, DOMAIN parts) :
                      \A i, j \in DOMAIN parts : i < j =>
                          \/ parts[p[i]].n < parts[p[j]].n
                          \/ parts[p[i]].n = parts[p[j]].n /\ p[i] < p[j]}
    IN  {[i \in 1..Len(parts) |-> parts[p[i]]] : p \in Orders}

\* Mutants: exception_event is not looked at; the parts are counted against the
\* reader's part number.
MustAbortOnCount == Len(finished_parts) # expected_parts
MustAbortOnPart == exception_event \/ Len(finished_parts) # part

MustAbort == exception_event \/ Len(finished_parts) # expected_parts

Wait ==
    /\ main = "wait"
    /\ unfinished_tasks = 0 \/ exception_event
    /\ IF MustAbort
       THEN main' = "abort" /\ UNCHANGED finished_parts
       ELSE main' = "complete" /\ finished_parts' \in SortedByPartNumber(finished_parts)
    /\ UNCHANGED <<outcome, helpers, failVars, queueVars, readerVars, upVars,
                   fileVars, s3Vars, reported>>

AbortSucceeds ==
    /\ main = "abort"
    /\ s3' = "aborted"
    /\ main' = "close"
    /\ UNCHANGED <<outcome, helpers, failVars, queueVars, readerVars, upVars,
                   fileVars, stored, object, finished_parts, reported>>

AbortFails ==
    /\ main = "abort" /\ "abort" \in Faults
    /\ Finish("abort_error")
    /\ s3' \in {s3, "aborted"}
    /\ UNCHANGED <<helpers, failVars, queueVars, readerVars, upVars, fileVars,
                   stored, object, finished_parts, reported>>

\* S3 builds the object from the parts the request lists.
Completes == s3' = "completed" /\ object' = finished_parts

CompleteSucceeds ==
    /\ main = "complete"
    /\ Completes
    /\ main' = "close"
    /\ UNCHANGED <<outcome, helpers, failVars, queueVars, readerVars, upVars,
                   fileVars, stored, finished_parts, reported>>

CompleteFails ==
    /\ main = "complete" /\ "complete" \in Faults
    /\ Completes \/ UNCHANGED <<s3, object>>
    /\ exception' = "complete_error"
    /\ main' = "abort_incomplete"
    /\ UNCHANGED <<outcome, helpers, exception_event, queueVars, readerVars,
                   upVars, fileVars, stored, finished_parts, reported>>

\* Whatever abort_multipart_upload raises here is swallowed, a cancellation of
\* the caller included; a completed upload cannot be aborted any more.
AbortIncomplete ==
    /\ main = "abort_incomplete"
    /\ \/ s3 = "open" /\ s3' = "aborted"
       \/ (s3 # "open" \/ Faults \cap {"abort", "cancel"} # {}) /\ UNCHANGED s3
    /\ main' = "close"
    /\ UNCHANGED <<outcome, helpers, failVars, queueVars, readerVars, upVars,
                   fileVars, stored, object, finished_parts, reported>>

\* Mutant: the cancelled uploaders are not waited for.
NobodyAwaited == TRUE

AllUploadersDone == \A u \in Uploaders : Done(u)

\* `if exception: raise exception`, the last lines of the function.
RaiseOrReturn == Finish(IF exception = None THEN "returned" ELSE exception)

\* Dispose of the helper tasks, then cancel the uploaders still running.
ClosePending ==
    /\ main = "close"
    /\ helpers' = {}
    /\ cancelling' = {u \in Uploaders : ~Done(u)}
    /\ IF AllUploadersDone
       THEN RaiseOrReturn
       ELSE main' = "gather" /\ UNCHANGED outcome
    /\ UNCHANGED <<failVars, queueVars, readerVars, uploader, part_args,
                   fileVars, s3Vars, finished_parts, reported>>

Gather ==
    /\ AllUploadersDone
    /\ \/ main = "gather" /\ RaiseOrReturn
       \/ main = "gather_cancelled" /\ Finish("cancelled")
    /\ UNCHANGED <<helpers, failVars, queueVars, readerVars, upVars, fileVars,
                   s3Vars, finished_parts, reported>>

\* The caller's task is cancelled: CancelledError is not an Exception, so every
\* await lets it through except those under a bare except and the gather, which
\* first waits for its children.
CancelMain ==
    /\ "cancel" \in Faults
    /\ \/ /\ main \in {"initial", "put_object", "callback", "create",
                       "await_reader", "wait", "abort", "complete"}
          /\ Finish("cancelled")
          /\ UNCHANGED cancelling
       \/ /\ main = "gather"
          /\ main' = "gather_cancelled"
          /\ cancelling' = cancelling \cup {u \in Uploaders : ~Done(u)}
          /\ UNCHANGED outcome
    /\ reader' = IF main = "await_reader" /\ reader \in {"reading", "putting"}
                 THEN "cancelled" ELSE reader
    /\ CASE main = "put_object" -> object' \in {object} \cup PutObjects /\ UNCHANGED s3
         [] main = "create" -> s3' \in {"none", "open"} /\ UNCHANGED object
         [] main = "abort" -> s3' \in {s3, "aborted"} /\ UNCHANGED object
         [] main = "complete" -> Completes \/ UNCHANGED <<s3, object>>
         [] OTHER -> UNCHANGED <<s3, object>>
    /\ UNCHANGED <<helpers, failVars, queueVars, part, payload, eof, read_once,
                   uploader, part_args, fileVars, stored, finished_parts,
                   reported>>

-----------------------------------------------------------------------------
SmallUpload == InitialRead \/ InitialEOF \/ InitialReadFails
               \/ PutObjectSucceeds \/ PutObjectFails \/ PutObjectCallback
               \/ CreateSucceeds \/ CreateFails

Reader == ReadChunk \/ ReadEOF \/ ReadFails \/ ReaderPut

Uploader(u) == Get(u) \/ UploadPartSucceeds(u)
               \/ UploadPartFails(u) \/ CallbackDone(u) \/ CancelDelivered(u)

Ending == AwaitReader \/ Wait \/ AbortSucceeds \/ AbortFails
          \/ CompleteSucceeds \/ CompleteFails \/ AbortIncomplete
          \/ ClosePending \/ Gather

Next == \/ SmallUpload
        \/ Reader
        \/ UploadersStart
        \/ \E u \in Uploaders : Uploader(u) \/ S3StoresPart(u)
        \/ Ending
        \/ CancelMain

Spec == Init /\ [][Next]_vars

\* The event loop runs every task that is ready and every call is answered.
Fairness ==
    /\ WF_vars(SmallUpload)
    /\ WF_vars(Reader)
    /\ WF_vars(UploadersStart)
    /\ \A u \in Uploaders : WF_vars(Uploader(u)) /\ WF_vars(S3StoresPart(u))
    /\ WF_vars(Ending)

FairSpec == Spec /\ Fairness

-----------------------------------------------------------------------------
(* Properties.                                                               *)

LiveTasks ==
    {u \in Uploaders : uploader[u] # "none" /\ ~Done(u)}
    \cup {r \in {"reader"} : reader \in {"reading", "putting"}}
    \cup {h \in helpers : \/ h = "join" /\ unfinished_tasks # 0
                          \/ h = "event" /\ ~exception_event}

\* `parts` are consecutive and cover the file from its first to its last byte.
Tiles(parts) ==
    /\ parts # <<>>
    /\ parts[1].lo = 0 /\ parts[Len(parts)].hi = pos
    /\ \A i \in 1..(Len(parts) - 1) : parts[i].hi = parts[i + 1].lo

\* complete_multipart_upload (inject.py:530) lists parts S3 has received,
\* numbered 1, 2, ... in that order, that make up the whole file: no part is
\* lost or listed twice however reader, queue and uploaders interleave.
CompleteRequestValid ==
    main = "complete" =>
        /\ ended
        /\ Range(finished_parts) \subseteq stored
        /\ \A i \in DOMAIN finished_parts : finished_parts[i].n = i
        /\ Tiles(finished_parts)

\* The upload is only aborted at line 522 because something failed: the test
\* len(finished_parts) != expected_parts alone never sends it there, which
\* would abort and then return as if the file had been uploaded.
AbortOnlyOnFailure == main = "abort" => exception # None

\* Every part of the stored object but its last is made from at least
\* multipart_chunksize bytes of the file, whatever the sizes the reads returned
\* (466-485), and without Processing is at least that long (S3 rejects shorter
\* ones).  Of the length of what Processing returns nothing is promised.
PartSizesLegal ==
    s3 = "completed" =>
        \A i \in 1..(Len(object) - 1) :
            /\ Size(object[i]) >= MultipartChunksize
            /\ ~processing => object[i].size >= MultipartChunksize

\* The bytes of the Bodies of `parts`.
BodyBytes(parts) == UNION {{p.n} \X (1..p.size) : p \in parts}

\* When the call returns, Callback has been told of every byte of the object,
\* once, in whatever order the parts were finished (386-390, 434-447): as many
\* as were sent, and as many as the file has unless Processing changed them.
CallbackTotal ==
    outcome = "returned" =>
        /\ reported = Cardinality(BodyBytes(Range(object)))
        /\ ~processing => reported = pos

\* An error of a part, of the file or of Processing that the multipart path
\* raises (line 570) leaves no unfinished upload at S3.
NoOrphanUpload ==
    outcome \in {"part_error", "read_error", "process_error"} => s3 # "open"

\* upload_file closes the file it has opened as soon as upload_fileobj ends.
FileClosed == outcome # "running"

\* A call that reaches its last lines leaves no task behind (lines 545-566), and
\* none, were it cancelled, leaves its reader in a file upload_file has closed.
TasksDisposed ==
    /\ outcome \in {"returned", "part_error", "read_error", "process_error",
                    "complete_error"} => LiveTasks = {}
    /\ FileClosed => reader \notin {"reading", "putting"}

\* The call implements AtomicUpload: the object is never torn, a call that
\* returns has stored the whole file, and nothing is stored once it has ended.
Atomic == INSTANCE AtomicUpload WITH
    object <- IF object = <<>> THEN "previous"
              ELSE IF Tiles(object) THEN "whole" ELSE "torn",
    outcome <- IF outcome \in {"running", "returned"} THEN outcome ELSE "raised"

RefinesAtomicUpload == Atomic!Spec

\* The only way not to end: every uploader has left after a failure and the
\* reader waits for room in a queue nobody drains.
ReaderStuck ==
    /\ reader = "putting" /\ Len(io_queue) = MaxIoQueueSize
    /\ AllUploadersDone

\* Every call ends, or ends up in ReaderStuck.
UploadEnds == <>(outcome # "running" \/ ReaderStuck)

\* "Raise exception later after we've disposed of the pending co-routines"
\* (line 523): a failure is raised in the end.
FailureEventuallyRaised == exception # None ~> outcome # "running"

\* tests/test_s3.py: "Task leak detected" when a cancelled call leaves a task.
NoTaskLeak == outcome # "running" => LiveTasks = {}

=============================================================================
