--------------------------- MODULE DownloadFileobj ---------------------------
(****************************************************************************)
(* download_fileobj (src/aioboto3/s3/inject.py:142-296) and the coroutines   *)
(* it gathers, one _download_part (111-139) per range of the object, at most *)
(* Config.max_request_concurrency of them at a time.  They write into a      *)
(* seekable file themselves, under a lock when it is asynchronous; for any   *)
(* other file they queue what they got for the queue_reader task, which      *)
(* writes it in order.  download_file (74-108) does so with an asynchronous  *)
(* file it opens, and closes when the call ends.                             *)
(*                                                                           *)
(* A step is what one task does between two awaits.  A byte is told from the *)
(* others by the object's version and by its offset there.  A stream whose   *)
(* write is synchronous takes the same steps with nothing in between.        *)
(****************************************************************************)
EXTENDS Integers, Sequences, FiniteSets, FiniteSetsExt, SequencesExt

CONSTANTS
    MultipartChunksize,     \* Config.multipart_chunksize
    MaxRequestConcurrency,  \* Config.max_request_concurrency
    MaxSize,                \* bound: the longest object considered
    MaxVersions,            \* bound: versions of the object
    Faults                  \* what may go wrong in this instance

FaultKinds == {"head", "get", "body", "write", "cancel"}

ASSUME SizesAssumption ==
    /\ {MultipartChunksize, MaxRequestConcurrency, MaxVersions} \subseteq Nat \ {0}
    /\ MaxSize \in Nat
ASSUME FaultsAssumption == Faults \subseteq FaultKinds

VARIABLES
    kind,         \* of Fileobj: "async" or "sync" when it can seek, "stream", or
                  \* "named" for the one download_file opens
    closed,       \* download_file has closed it
    version,      \* the object's version
    size,         \* and its length
    main,         \* where the caller's task is suspended
    outcome,      \* what the call returned or raised
    total_size,   \* ContentLength of the head_object response
    part,         \* where each _download_part is suspended
    content,      \* what it was sent
    total_downloaded,
    io_queue,     \* responses on their way to the queue_reader
    io_list,      \* those it holds back
    queue_reader, \* where that task is suspended
    written_pos,
    cancelling,   \* parts with a cancellation on its way
    swallowed,    \* queue_reader has swallowed a cancellation
    position,     \* of the file
    file          \* its content

objectVars == <<version, size>>
mainVars   == <<main, outcome, total_size>>
partVars   == <<part, content, total_downloaded, cancelling>>
queueVars  == <<io_queue, io_list, queue_reader, written_pos, swallowed>>
fileVars   == <<position, file>>
others     == <<kind, closed, objectVars, mainVars, cancelling>>
vars == <<kind, closed, objectVars, mainVars, partVars, queueVars, fileVars>>

\* Bytes lo..hi-1 of a version; the byte at an offset of the file.
Content == {c \in [v : 1..MaxVersions, lo : 0..MaxSize, hi : 0..MaxSize] : c.lo <= c.hi}
NoContent == [v |-> 1, lo |-> 0, hi |-> 0]
Hole == [v |-> 0, at |-> 0]
Byte == {Hole} \cup [v : 1..MaxVersions, at : 0..MaxSize]

Start(p) == p * MultipartChunksize
PartsOf(length) == {p \in 0..MaxSize : Start(p) < length}
Parts == PartsOf(total_size)
AllParts == PartsOf(MaxSize)
Length(c) == c.hi - c.lo

Waiting  == {"none", "semaphore"}
Writing  == {"seek", "write"}
Holding  == {"get", "body", "lock"} \cup Writing
Finished == {"done", "failed", "cancelled"}

TypeOK ==
    /\ kind \in {"async", "sync", "stream", "named"}
    /\ closed \in BOOLEAN
    /\ version \in 1..MaxVersions
    /\ size \in 0..MaxSize
    /\ main \in {"head", "gather", "queue_reader", "done"}
    /\ outcome \in {"running", "returned", "raised", "cancelled"}
    /\ total_size \in 0..MaxSize
    /\ part \in [AllParts -> Waiting \cup Holding \cup Finished]
    /\ content \in [AllParts -> Content]
    /\ total_downloaded \in 0..MaxSize
    /\ io_queue \in Seq(Content)
    /\ io_list \subseteq Content
    /\ queue_reader \in {"none", "get", "write"} \cup Finished
    /\ written_pos \in 0..MaxSize
    /\ cancelling \subseteq AllParts
    /\ swallowed \in BOOLEAN
    /\ position \in Nat
    /\ file \in [0..(MaxSize - 1) -> Byte]

Init ==
    /\ kind \in {"async", "sync", "stream", "named"}
    /\ closed = FALSE
    /\ version = 1 /\ size \in 0..MaxSize
    /\ main = "head" /\ outcome = "running" /\ total_size = 0
    /\ part = [p \in AllParts |-> "none"]
    /\ content = [p \in AllParts |-> NoContent]
    /\ total_downloaded = 0
    /\ io_queue = <<>> /\ io_list = {}
    /\ queue_reader = "none" /\ written_pos = 0
    /\ cancelling = {} /\ swallowed = FALSE
    /\ position = 0
    /\ file = [i \in 0..(MaxSize - 1) |-> Hole]

Finish(how) ==
    /\ main' = "done"
    /\ outcome' = how

-----------------------------------------------------------------------------
(* The object and head_object.                                               *)

\* Another client overwrites the object during the download.
Overwrite ==
    /\ version < MaxVersions
    /\ version' = version + 1
    /\ size' \in 0..MaxSize
    /\ UNCHANGED <<kind, closed, mainVars, partVars, queueVars, fileVars>>

\* The test of queue_reader's loop.
LoopOn(pos, total) == IF pos < total THEN "get" ELSE "done"

HeadSucceeds ==
    /\ main = "head"
    /\ main' = "gather"
    /\ total_size' = size
    /\ part' = [p \in AllParts |-> IF p \in PartsOf(size) THEN "semaphore" ELSE "none"]
    /\ queue_reader' = IF kind = "stream" THEN LoopOn(written_pos, size) ELSE "none"
    /\ UNCHANGED <<kind, closed, objectVars, outcome, content, total_downloaded, cancelling,
                   io_queue, io_list, written_pos, swallowed, fileVars>>

HeadFails ==
    /\ main = "head" /\ "head" \in Faults
    /\ Finish("raised")
    /\ UNCHANGED <<kind, closed, objectVars, total_size, partVars, queueVars, fileVars>>

-----------------------------------------------------------------------------
(* _download_part.  A coroutine that is being cancelled does not resume      *)
(* otherwise.                                                                *)

Runs(p, at) == part[p] = at /\ p \notin cancelling

Goes(p, to) == part' = [part EXCEPT ![p] = to]

Moves(p, from, to) ==
    /\ Runs(p, from)
    /\ Goes(p, to)
    /\ UNCHANGED <<others, content, total_downloaded, queueVars, fileVars>>

Acquire(p) ==
    /\ Cardinality({q \in Parts : part[q] \in Holding}) < MaxRequestConcurrency
    /\ Moves(p, "semaphore", "get")

\* Mutant: the last byte of a range is taken for its end.
EndOneShort(p) == Min({Start(p) + MultipartChunksize, total_size}) - 1

\* The end of the range asked for; the header names the last byte, End(p) - 1.
End(p) == Min({Start(p) + MultipartChunksize, total_size})

\* The service cuts the range to the object as it is now.
GetSucceeds(p) ==
    /\ Runs(p, "get") /\ Start(p) < size
    /\ content' = [content EXCEPT ![p] =
                      [v |-> version, lo |-> Start(p), hi |-> Min({End(p), size})]]
    /\ Goes(p, "body")
    /\ UNCHANGED <<others, total_downloaded, queueVars, fileVars>>

\* An error, or a range that starts beyond the end of the object.
GetFails(p) ==
    /\ "get" \in Faults \/ Start(p) >= size
    /\ Moves(p, "get", "failed")

BodyFails(p) == "body" \in Faults /\ Moves(p, "body", "failed")

\* Mutant: a part is taken to be as long as the others.
CompletesByChunk(p) ==
    /\ Goes(p, "done")
    /\ total_downloaded' = total_downloaded + MultipartChunksize

\* The wrapper callback, then the end of the coroutine.
Completes(p) ==
    /\ Goes(p, "done")
    /\ total_downloaded' = total_downloaded + Length(content[p])

\* file.write at a position of the file.
WriteAt(at, c) ==
    /\ file' = [i \in DOMAIN file |-> IF i \in at..(at + Length(c) - 1)
                                      THEN [v |-> c.v, at |-> c.lo + i - at]
                                      ELSE file[i]]
    /\ position' = at + Length(c)

BodyToQueue(p) ==
    /\ Runs(p, "body") /\ kind = "stream"
    /\ io_queue' = Append(io_queue, content[p])
    /\ Completes(p)
    /\ UNCHANGED <<others, content, io_list, queue_reader, written_pos, swallowed, fileVars>>

BodyToFile(p) ==
    /\ Runs(p, "body") /\ kind = "sync"
    /\ \/ WriteAt(Start(p), content[p]) /\ Completes(p)
       \/ "write" \in Faults /\ Goes(p, "failed") /\ UNCHANGED <<total_downloaded, fileVars>>
    /\ UNCHANGED <<others, content, queueVars>>

\* Mutant: no lock around seek and write.
LockNotTaken == TRUE

LockIsFree == \A q \in Parts : part[q] \notin Writing

\* `async with write_lock`, which is entered at once when the lock is free.
BodyToLock(p) == kind \in {"async", "named"} /\ Moves(p, "body", "lock")

Lock(p) == LockIsFree /\ Moves(p, "lock", "seek")

Seek(p) ==
    /\ Runs(p, "seek") /\ ~closed
    /\ position' = Start(p)
    /\ Goes(p, "write")
    /\ UNCHANGED <<others, content, total_downloaded, queueVars, file>>

Write(p) ==
    /\ Runs(p, "write") /\ ~closed
    /\ WriteAt(position, content[p])
    /\ Completes(p)
    /\ UNCHANGED <<others, content, queueVars>>

WriteFails(p) ==
    /\ "write" \in Faults \/ closed
    /\ \E from \in Writing : Moves(p, from, "failed")

\* The thread that writes an asynchronous file finishes the call it is in.
CancelDelivered(p) ==
    /\ p \in cancelling
    /\ cancelling' = cancelling \ {p}
    /\ Goes(p, "cancelled")
    /\ \/ part[p] = "write" /\ ~closed /\ WriteAt(position, content[p])
       \/ UNCHANGED fileVars
    /\ UNCHANGED <<kind, closed, objectVars, mainVars, content, total_downloaded, queueVars>>

-----------------------------------------------------------------------------
(* queue_reader.                                                             *)

\* Mutant: a chunk is written as soon as it is taken from the queue.
NextChunksInAnyOrder(list, pos) == list

\* The chunks the spin over io_list can write now.
NextChunks(list, pos) == {c \in list : c.lo = pos}

\* Mutant: only the chunk just taken is looked at.
SpinOnce ==
    queue_reader' = IF queue_reader = "get" /\ NextChunks(io_list', written_pos') # {}
                    THEN "write" ELSE LoopOn(written_pos', total_size)

\* The spin is over when there are none.
Spin ==
    queue_reader' = IF NextChunks(io_list', written_pos') # {}
                    THEN "write" ELSE LoopOn(written_pos', total_size)

TakeChunk ==
    /\ queue_reader = "get" /\ io_queue # <<>>
    /\ io_list' = io_list \cup {Head(io_queue)}
    /\ io_queue' = Tail(io_queue)
    /\ UNCHANGED written_pos
    /\ Spin
    /\ UNCHANGED <<kind, closed, objectVars, mainVars, partVars, swallowed, fileVars>>

WriteChunk ==
    /\ queue_reader = "write"
    /\ \E c \in NextChunks(io_list, written_pos) :
          /\ WriteAt(position, c)
          /\ written_pos' = written_pos + Length(c)
          /\ io_list' = io_list \ {c}
    /\ Spin
    /\ UNCHANGED <<kind, closed, objectVars, mainVars, partVars, io_queue, swallowed>>

WriteChunkFails ==
    /\ queue_reader = "write" /\ "write" \in Faults
    /\ queue_reader' = "failed"
    /\ UNCHANGED <<kind, closed, objectVars, mainVars, partVars, io_queue, io_list,
                   written_pos, swallowed, fileVars>>

-----------------------------------------------------------------------------
(* The caller's task.                                                        *)

\* Mutant: as if asyncio.wait(FIRST_COMPLETED) had been called.
SomePartDone == Parts = {} \/ \E p \in Parts : part[p] = "done"

GatherDone == \A p \in Parts : part[p] = "done"

GatherReturns ==
    /\ main = "gather" /\ GatherDone
    /\ IF queue_reader = "none"
       THEN Finish("returned")
       ELSE main' = "queue_reader" /\ UNCHANGED outcome
    /\ UNCHANGED <<kind, closed, objectVars, total_size, partVars, queueVars, fileVars>>

\* The first part that fails, or is cancelled, ends the gather; the others run
\* on and so does queue_reader.
GatherRaises ==
    /\ main = "gather"
    /\ \/ (\E p \in Parts : part[p] = "failed") /\ Finish("raised")
       \/ (\E p \in Parts : part[p] = "cancelled") /\ Finish("cancelled")
    /\ UNCHANGED <<kind, closed, objectVars, total_size, partVars, queueVars, fileVars>>

QueueReaderReturns ==
    /\ main = "queue_reader"
    /\ \/ queue_reader = "done" /\ Finish("returned")
       \/ queue_reader = "failed" /\ Finish("raised")
    /\ UNCHANGED <<kind, closed, objectVars, total_size, partVars, queueVars, fileVars>>

GatherOver == GatherDone \/ \E p \in Parts : part[p] \in {"failed", "cancelled"}

\* A cancellation goes to what the caller awaits: to all the parts of the
\* gather, or to queue_reader, which catches CancelledError and returns.
CancelMain ==
    /\ "cancel" \in Faults
    /\ \/ /\ \/ main = "head"
             \/ main = "gather" /\ GatherOver
             \/ main = "queue_reader" /\ queue_reader \in Finished
          /\ Finish("cancelled")
          /\ UNCHANGED <<cancelling, queue_reader, swallowed, fileVars>>
       \/ /\ main = "gather" /\ cancelling = {} /\ ~GatherOver
          /\ cancelling' = {p \in Parts : part[p] \notin Finished}
          /\ UNCHANGED <<main, outcome, queue_reader, swallowed, fileVars>>
       \/ /\ main = "queue_reader" /\ queue_reader \in {"get", "write"}
          /\ queue_reader' = "done" /\ swallowed' = TRUE
          /\ \/ /\ queue_reader = "write"
                /\ \E c \in NextChunks(io_list, written_pos) : WriteAt(position, c)
             \/ UNCHANGED fileVars
          /\ UNCHANGED <<main, outcome, cancelling>>
    /\ UNCHANGED <<kind, closed, objectVars, total_size, part, content, total_downloaded,
                   io_queue, io_list, written_pos>>

\* download_file leaves its `async with`, whether or not parts run on.
CloseFile ==
    /\ kind = "named" /\ outcome # "running" /\ ~closed
    /\ closed' = TRUE
    /\ UNCHANGED <<kind, objectVars, mainVars, partVars, queueVars, fileVars>>

-----------------------------------------------------------------------------
Part(p) == Acquire(p) \/ GetSucceeds(p) \/ GetFails(p) \/ BodyFails(p)
           \/ BodyToQueue(p) \/ BodyToFile(p) \/ BodyToLock(p) \/ Lock(p)
           \/ Seek(p) \/ Write(p) \/ WriteFails(p) \/ CancelDelivered(p)

QueueReader == TakeChunk \/ WriteChunk \/ WriteChunkFails

Main == HeadSucceeds \/ HeadFails \/ GatherReturns \/ GatherRaises
        \/ QueueReaderReturns \/ CloseFile

Next == \/ Overwrite
        \/ \E p \in AllParts : Part(p)
        \/ QueueReader
        \/ Main
        \/ CancelMain

Spec == Init /\ [][Next]_vars

\* The event loop runs every task that is ready and every call is answered.
Fairness == /\ \A p \in AllParts : WF_vars(Part(p))
            /\ WF_vars(QueueReader)
            /\ WF_vars(Main)

FairSpec == Spec /\ Fairness

-----------------------------------------------------------------------------
(* Properties.                                                               *)

Changed == version > 1
Downloaded == \A i \in 0..(total_size - 1) : file[i] = [v |-> 1, at |-> i]

\* However the parts, the lock and the queue interleave, a byte is never
\* written anywhere but at its own offset, in particular when seek and write
\* of several parts mix or parts run on after the call has raised.
NothingMisplaced == \A i \in DOMAIN file : file[i] = Hole \/ file[i].at = i

\* A call that returns has written the whole object, unless the object changed
\* under it or its cancellation was swallowed (line 264).
WholeWhenReturned ==
    outcome = "returned" /\ ~Changed /\ ~swallowed => Downloaded

\* The file no longer changes once a call has returned, or download_file has
\* closed it: no part and no queue_reader that is left over writes later.
FileSettled ==
    [][outcome = "returned" \/ closed => UNCHANGED file]_vars

\* Callback is never told of bytes that a file that can seek does not hold.
ProgressIsWritten ==
    kind # "stream" =>
        total_downloaded <= Cardinality({i \in DOMAIN file : file[i] # Hole})

\* The only way not to end: a part came short because the object shrank, and
\* queue_reader waits for the rest with nothing left to wait for.
Starved ==
    /\ main = "queue_reader" /\ queue_reader = "get"
    /\ Changed /\ io_queue = <<>> /\ GatherDone

\* Every call ends, or is Starved.
DownloadEnds == <>(outcome # "running" \/ Starved)

\* "Download an object from S3 to a file-like object." (line 152): a call that
\* returns has done so, and one that is cancelled does not return.
DownloadsTheObject == outcome = "returned" => Downloaded

=============================================================================
