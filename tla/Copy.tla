--------------------------------- MODULE Copy ---------------------------------
(****************************************************************************)
(* copy (src/aioboto3/s3/inject.py:606-707): one copy_object when the source *)
(* is shorter than multipart_threshold, else a multipart upload whose parts  *)
(* are ranges of the source, each copied by a coroutine of one gather, at    *)
(* most Config.max_request_concurrency at a time.                            *)
(*                                                                           *)
(* A step is what one task does between two awaits.  An object is the list   *)
(* of the ranges of the source it was made of.                               *)
(****************************************************************************)
EXTENDS Integers, Sequences, FiniteSets, FiniteSetsExt, SequencesExt

CONSTANTS
    MultipartThreshold,     \* Config.multipart_threshold
    MultipartChunksize,     \* Config.multipart_chunksize
    MaxRequestConcurrency,  \* Config.max_request_concurrency
    MaxSize,                \* bound: the longest source considered
    MaxResizes,             \* bound: times the source is overwritten
    Faults                  \* what may go wrong in this instance

FaultKinds == {"head", "copy", "create", "part", "complete", "abort", "cancel"}

ASSUME SizesAssumption ==
    /\ {MultipartThreshold, MultipartChunksize, MaxRequestConcurrency} \subseteq Nat \ {0}
    /\ {MaxSize, MaxResizes} \subseteq Nat
ASSUME FaultsAssumption == Faults \subseteq FaultKinds

VARIABLES
    size,            \* length of the source now
    resizes,
    main,            \* where the caller's task is suspended
    outcome,         \* what the call returned or raised
    exception,       \* err, while abort_multipart_upload runs
    content_length,  \* of the head_object response
    task,            \* where each part's coroutine is suspended
    cancelling,      \* parts with a cancellation on its way
    finished_parts,  \* part numbers, in the order the responses came
    s3,              \* the multipart upload at S3
    stored,          \* parts S3 has copied for it
    object           \* the object under Bucket/Key: <<>> is the previous one

sourceVars == <<size, resizes>>
mainVars   == <<main, outcome, exception, content_length>>
taskVars   == <<task, cancelling>>
s3Vars     == <<s3, stored, object>>
others     == <<sourceVars, content_length, taskVars, finished_parts>>
vars == <<sourceVars, mainVars, taskVars, finished_parts, s3Vars>>

CeilDiv(a, b) == (a + b - 1) \div b
AllParts == 1..CeilDiv(MaxSize, MultipartChunksize)
Parts == 1..CeilDiv(content_length, MultipartChunksize)  \* 1..num_parts
SourceRange == [lo : 0..MaxSize, hi : 0..MaxSize]        \* bytes lo..hi-1

Errors == {"head_error", "copy_error", "create_error", "part_error",
           "complete_error", "abort_error"}
Finished == {"done", "failed", "cancelled"}

TypeOK ==
    /\ size \in 0..MaxSize /\ resizes \in 0..MaxResizes
    /\ main \in {"head", "copy_object", "create", "gather", "complete", "abort", "done"}
    /\ outcome \in {"running", "returned", "cancelled"} \cup Errors
    /\ exception \in {"none"} \cup Errors
    /\ content_length \in 0..MaxSize
    /\ task \in [AllParts -> {"none", "semaphore", "copying"} \cup Finished]
    /\ Cardinality({p \in AllParts : task[p] = "copying"}) <= MaxRequestConcurrency
    /\ cancelling \subseteq AllParts
    /\ finished_parts \in Seq(AllParts)
    /\ s3 \in {"none", "open", "completed", "aborted"}
    /\ stored \subseteq AllParts
    /\ object \in Seq(SourceRange)

Init ==
    /\ size \in 0..MaxSize /\ resizes = 0
    /\ main = "head" /\ outcome = "running" /\ exception = "none"
    /\ content_length = 0
    /\ task = [p \in AllParts |-> "none"] /\ cancelling = {}
    /\ finished_parts = <<>>
    /\ s3 = "none" /\ stored = {} /\ object = <<>>

Finish(how) ==
    /\ main' = "done"
    /\ outcome' = how

\* Another client overwrites the source with one of another length.
Resize ==
    /\ resizes < MaxResizes
    /\ resizes' = resizes + 1
    /\ size' \in 0..MaxSize
    /\ UNCHANGED <<mainVars, taskVars, finished_parts, s3Vars>>

-----------------------------------------------------------------------------
(* head_object, copy_object and create_multipart_upload.                     *)

HeadSucceeds ==
    /\ main = "head"
    /\ content_length' = size
    /\ main' = IF size < MultipartThreshold THEN "copy_object" ELSE "create"
    /\ UNCHANGED <<sourceVars, outcome, exception, taskVars, finished_parts, s3Vars>>

HeadFails ==
    /\ main = "head" /\ "head" \in Faults
    /\ Finish("head_error")
    /\ UNCHANGED <<others, exception, s3Vars>>

WholeSource == <<[lo |-> 0, hi |-> content_length]>>

CopyObjectSucceeds ==
    /\ main = "copy_object"
    /\ object' = WholeSource
    /\ Finish("returned")
    /\ UNCHANGED <<others, exception, s3, stored>>

\* The error may follow the copy: only its response was lost.
CopyObjectFails ==
    /\ main = "copy_object" /\ "copy" \in Faults
    /\ Finish("copy_error")
    /\ object' \in {object, WholeSource}
    /\ UNCHANGED <<others, exception, s3, stored>>

CreateSucceeds ==
    /\ main = "create"
    /\ s3' = "open"
    /\ main' = "gather"
    /\ task' = [p \in AllParts |-> IF p \in Parts THEN "semaphore" ELSE "none"]
    /\ UNCHANGED <<sourceVars, outcome, exception, content_length, cancelling, finished_parts, stored, object>>

CreateFails ==
    /\ main = "create" /\ "create" \in Faults
    /\ Finish("create_error")
    /\ s3' \in {"none", "open"}
    /\ UNCHANGED <<others, exception, stored, object>>

-----------------------------------------------------------------------------
(* One coroutine per part, and S3's side of upload_part_copy.                *)

Runs(p, at) == task[p] = at /\ p \notin cancelling

Goes(p, to) == task' = [task EXCEPT ![p] = to]

Moves(p, from, to) ==
    /\ Runs(p, from)
    /\ Goes(p, to)
    /\ UNCHANGED <<sourceVars, mainVars, cancelling, finished_parts, s3Vars>>

RangeStart(p) == (p - 1) * MultipartChunksize

\* range_end + 1
RangeEnd(p) == IF p = Max(Parts) THEN content_length ELSE p * MultipartChunksize

\* Mutants: no semaphore; one that is not released when a request fails.
AcquireFreely(p) == Moves(p, "semaphore", "copying")
AcquireOnce(p) ==
    /\ Cardinality({q \in Parts : task[q] \in {"copying", "failed"}}) < MaxRequestConcurrency
    /\ Moves(p, "semaphore", "copying")

Acquire(p) ==
    /\ Cardinality({q \in Parts : task[q] = "copying"}) < MaxRequestConcurrency
    /\ Moves(p, "semaphore", "copying")

S3CopiesPart(p) ==
    /\ task[p] = "copying" /\ p \notin stored
    /\ s3 = "open" /\ RangeEnd(p) <= size
    /\ stored' = stored \cup {p}
    /\ UNCHANGED <<sourceVars, mainVars, taskVars, finished_parts, s3, object>>

PartSucceeds(p) ==
    /\ Runs(p, "copying") /\ p \in stored
    /\ finished_parts' = Append(finished_parts, p)
    /\ Goes(p, "done")
    /\ UNCHANGED <<sourceVars, mainVars, cancelling, s3Vars>>

\* An injected fault, a range the source no longer has, or NoSuchUpload.
PartFails(p) ==
    /\ Moves(p, "copying", "failed")
    /\ \/ "part" \in Faults
       \/ p \notin stored /\ (s3 # "open" \/ RangeEnd(p) > size)

CancelDelivered(p) ==
    /\ p \in cancelling
    /\ cancelling' = cancelling \ {p}
    /\ Goes(p, "cancelled")
    /\ UNCHANGED <<sourceVars, mainVars, finished_parts, s3Vars>>

-----------------------------------------------------------------------------
(* The caller's task, from the gather on.                                    *)

\* Mutant: as if the gather had been told to return_exceptions.
AllPartsOver == \A p \in Parts : task[p] \in Finished

GatherDone == \A p \in Parts : task[p] = "done"

\* Mutant: the parts are left in the order they were finished.
AsFinished(parts) == {parts}

\* finished_parts.sort(key=PartNumber): the ascending rearrangement.
Sorted(parts) ==
    LET Orders == {p \in Bijection(DOMAIN parts, DOMAIN parts) :
                      \A i, j \in DOMAIN parts : i < j => parts[p[i]] <= parts[p[j]]}
    IN  {[i \in DOMAIN parts |-> parts[p[i]]] : p \in Orders}

GatherReturns ==
    /\ main = "gather" /\ GatherDone
    /\ finished_parts' \in Sorted(finished_parts)
    /\ main' = "complete"
    /\ UNCHANGED <<sourceVars, outcome, exception, content_length, taskVars, s3Vars>>

\* Mutant: the error leaves at once.
NotCaught(err) == Finish(err) /\ exception' = err

\* `except Exception as err`
Caught(err) == main' = "abort" /\ exception' = err /\ UNCHANGED outcome

\* The first part that fails ends the gather, the others run on.  CancelledError
\* is not an Exception: the upload is not aborted then.
GatherRaises ==
    /\ main = "gather"
    /\ \/ (\E p \in Parts : task[p] = "failed") /\ Caught("part_error")
       \/ (\E p \in Parts : task[p] = "cancelled") /\ Finish("cancelled") /\ UNCHANGED exception
    /\ UNCHANGED <<others, s3Vars>>

\* S3 builds the object from the parts the request lists.
Completes ==
    /\ s3' = "completed"
    /\ object' = [i \in DOMAIN finished_parts |->
                     [lo |-> RangeStart(finished_parts[i]), hi |-> RangeEnd(finished_parts[i])]]

CompleteSucceeds ==
    /\ main = "complete"
    /\ Completes
    /\ Finish("returned")
    /\ UNCHANGED <<others, exception, stored>>

CompleteFails ==
    /\ main = "complete" /\ "complete" \in Faults
    /\ Completes \/ UNCHANGED <<s3, object>>
    /\ Caught("complete_error")
    /\ UNCHANGED <<others, stored>>

AbortSucceeds ==
    /\ main = "abort" /\ s3 = "open"
    /\ s3' = "aborted"
    /\ Finish(exception)
    /\ UNCHANGED <<others, exception, stored, object>>

\* `raise err2 from err`: an injected fault, or the upload was completed.
AbortFails ==
    /\ main = "abort"
    /\ \/ "abort" \in Faults /\ s3' \in {s3, "aborted"} /\ s3 = "open"
       \/ s3 # "open" /\ UNCHANGED s3
    /\ Finish("abort_error")
    /\ UNCHANGED <<others, exception, stored, object>>

GatherOver == GatherDone \/ \E p \in Parts : task[p] \in {"failed", "cancelled"}

CancelMain ==
    /\ "cancel" \in Faults
    /\ IF main = "gather" /\ ~GatherOver
       THEN /\ cancelling' = {p \in Parts : task[p] \notin Finished}
            /\ cancelling = {}
            /\ UNCHANGED <<main, outcome, s3, object>>
       ELSE /\ main # "done"
            /\ Finish("cancelled")
            /\ UNCHANGED cancelling
            /\ CASE main = "copy_object" -> object' \in {object, WholeSource} /\ UNCHANGED s3
                 [] main = "create" -> s3' \in {"none", "open"} /\ UNCHANGED object
                 [] main = "complete" -> Completes \/ UNCHANGED <<s3, object>>
                 [] main = "abort" /\ s3 = "open" -> s3' \in {s3, "aborted"} /\ UNCHANGED object
                 [] OTHER -> UNCHANGED <<s3, object>>
    /\ UNCHANGED <<sourceVars, exception, content_length, task, finished_parts, stored>>

-----------------------------------------------------------------------------
Part(p) == Acquire(p) \/ PartSucceeds(p) \/ PartFails(p) \/ CancelDelivered(p)

Main == HeadSucceeds \/ HeadFails \/ CopyObjectSucceeds \/ CopyObjectFails
        \/ CreateSucceeds \/ CreateFails \/ GatherReturns \/ GatherRaises
        \/ CompleteSucceeds \/ CompleteFails \/ AbortSucceeds \/ AbortFails

Next == \/ Resize
        \/ \E p \in AllParts : Part(p) \/ S3CopiesPart(p)
        \/ Main
        \/ CancelMain

Spec == Init /\ [][Next]_vars

\* The event loop runs every task that is ready and every call is answered.
Fairness == /\ \A p \in AllParts : WF_vars(Part(p)) /\ WF_vars(S3CopiesPart(p))
            /\ WF_vars(Main)

FairSpec == Spec /\ Fairness

-----------------------------------------------------------------------------
(* Properties.                                                               *)

\* The ranges follow one another and cover the source as head_object saw it.
Tiles(ranges) ==
    /\ ranges # <<>>
    /\ ranges[1].lo = 0 /\ ranges[Len(ranges)].hi = content_length
    /\ \A i \in 1..(Len(ranges) - 1) : ranges[i].hi = ranges[i + 1].lo

\* complete_multipart_upload (line 694) lists every part once, in order, all of
\* them copied, and no other part is under way.
CompleteRequestValid ==
    main = "complete" =>
        /\ finished_parts = [i \in Parts |-> i]
        /\ Parts \subseteq stored
        /\ \A p \in Parts : task[p] = "done"

\* When copy raises the error of a part or of the completion, the upload has
\* been aborted or was completed after all, though other parts still run.
NoOrphanUpload == outcome \in {"part_error", "complete_error"} => s3 # "open"

\* copy implements AtomicUpload: the object is never torn, a call that returns
\* has stored a whole copy, and nothing is stored once it has ended.  Of a source
\* that is overwritten meanwhile only the length is known here.
Atomic == INSTANCE AtomicUpload WITH
    object <- IF object = <<>> THEN "previous"
              ELSE IF Tiles(object) THEN "whole" ELSE "torn",
    outcome <- IF outcome \in {"running", "returned"} THEN outcome ELSE "raised"

RefinesAtomicUpload == Atomic!Spec

\* Every call ends, and so do the tasks it leaves running.
CopyEnds == <>(outcome # "running" /\ \A p \in AllParts : task[p] \in {"none"} \cup Finished)

=============================================================================
