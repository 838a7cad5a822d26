----------------------------- MODULE BatchWriter -----------------------------
(****************************************************************************)
(* BatchWriter (src/aioboto3/dynamodb/table.py:23-134): put_item and         *)
(* delete_item collect requests in _items_buffer and send them to DynamoDB   *)
(* flush_amount at a time.  The tasks that write inside the `async with`     *)
(* block share the writer; a step is what a task does between two awaits.    *)
(*                                                                           *)
(* A put or delete is a request for a primary key, told apart from the       *)
(* others by the moment (id) it was made: which of the two kinds it is makes *)
(* no difference to the writer.                                              *)
(****************************************************************************)
EXTENDS Integers, Sequences, FiniteSets, SequencesExt

CONSTANTS
    Tasks,        \* the tasks that call put_item and delete_item
    Exit,         \* the task that runs __aexit__
    Keys,         \* values of the primary key
    FlushAmount,  \* flush_amount
    MaxRequests,  \* bound: requests made in all
    MayRaise      \* whether batch_write_item may fail (throttled, cancelled...)

ASSUME TasksAssumption == Exit \notin Tasks
ASSUME AmountsAssumption == FlushAmount \in Nat \ {0} /\ MaxRequests \in Nat
ASSUME MayRaiseAssumption == MayRaise \in BOOLEAN

VARIABLES
    overwrite,     \* overwrite_by_pkeys was given
    items_buffer,  \* _items_buffer
    made,          \* requests made so far
    call,          \* what each task's batch_write_item call is doing
    batch,         \* items_to_send of that call
    unprocessed,   \* the UnprocessedItems it was answered
    block,         \* the `async with` block
    table,         \* the last request applied to each key, 0 for none
    applied,       \* requests applied to the table
    failed,        \* some call has raised
    overlapped     \* some task used the writer during another one's flush

vars == <<overwrite, items_buffer, made, call, batch, unprocessed, block, table,
          applied, failed, overlapped>>

Request == [key : Keys, id : Nat]
Flushers == Tasks \cup {Exit}

TypeOK ==
    /\ overwrite \in BOOLEAN
    /\ items_buffer \in Seq(Request)
    /\ made \in Seq(Keys)
    /\ call \in [Flushers -> {"idle", "sent", "answered"}]
    /\ {batch, unprocessed} \subseteq [Flushers -> Seq(Request)]
    /\ \A t \in Flushers : Len(batch[t]) <= FlushAmount
    /\ block \in {"open", "exiting", "closed", "raised"}
    /\ table \in [Keys -> Nat]
    /\ applied \subseteq 1..Len(made)
    /\ failed \in BOOLEAN
    /\ overlapped \in BOOLEAN

Init ==
    /\ overwrite \in BOOLEAN
    /\ items_buffer = <<>> /\ made = <<>>
    /\ call = [t \in Flushers |-> "idle"]
    /\ batch = [t \in Flushers |-> <<>>] /\ unprocessed = batch
    /\ block = "open"
    /\ table = [k \in Keys |-> 0] /\ applied = {}
    /\ failed = FALSE /\ overlapped = FALSE

NoteOverlap(t) ==
    overlapped' = (overlapped \/ \E u \in Flushers \ {t} : call[u] # "idle")

\* The i-th of the given positions, in ascending order.
Nth(positions, i) ==
    CHOOSE p \in positions : Cardinality({q \in positions : q <= p}) = i

\* The part of the list `items` at the given positions.
At(items, positions) ==
    [i \in 1..Cardinality(positions) |-> items[Nth(positions, i)]]

\* Mutant: the item stays.
KeepDup(items, key) == items

\* _remove_dup_pkeys_request_if_any removes from the list it iterates over:
\* the item after a removed one is never looked at.
Removed(items, key) ==
    LET removed[i \in 0..Len(items)] ==
            i > 0 /\ items[i].key = key /\ ~removed[i - 1]
    IN  {i \in 1..Len(items) : removed[i]}

RemoveDup(items, key) == At(items, (1..Len(items)) \ Removed(items, key))

MustFlush(items) == Len(items) >= FlushAmount

\* Mutant: one item too many.
FirstBatchPlusOne(items) == [i \in DOMAIN items \cap 1..(FlushAmount + 1) |-> items[i]]

FirstBatch(items) == [i \in DOMAIN items \cap 1..FlushAmount |-> items[i]]

\* _flush up to its await: the batch leaves the buffer before it is sent.
Send(t, items) ==
    /\ batch' = [batch EXCEPT ![t] = FirstBatch(items)]
    /\ items_buffer' = SubSeq(items, FlushAmount + 1, Len(items))
    /\ call' = [call EXCEPT ![t] = "sent"]
    /\ UNCHANGED unprocessed

PutOrDelete(t, key) ==
    /\ call[t] = "idle" /\ Len(made) < MaxRequests
    /\ block = "open" \/ failed
    /\ made' = Append(made, key)
    /\ LET rest  == IF overwrite THEN RemoveDup(items_buffer, key) ELSE items_buffer
           items == Append(rest, [key |-> key, id |-> Len(made')])
       IN  IF MustFlush(items)
           THEN Send(t, items)
           ELSE items_buffer' = items /\ UNCHANGED <<batch, unprocessed, call>>
    /\ NoteOverlap(t)
    /\ UNCHANGED <<overwrite, block, table, applied, failed>>

-----------------------------------------------------------------------------
(* DynamoDB and the rest of _flush.                                          *)

Apply(items) ==
    /\ table' = [k \in Keys |->
                   IF \E r \in ToSet(items) : r.key = k
                   THEN (CHOOSE r \in ToSet(items) : r.key = k).id ELSE table[k]]
    /\ applied' = applied \cup {r.id : r \in ToSet(items)}

DistinctIn(items) ==
    \A i, j \in 1..Len(items) : items[i].key = items[j].key => i = j

Returns(t) ==
    /\ call' = [call EXCEPT ![t] = "idle"]
    /\ batch' = [batch EXCEPT ![t] = <<>>]
    /\ unprocessed' = [unprocessed EXCEPT ![t] = <<>>]

\* DynamoDB processes some of the batch (if it could process none it would
\* raise) and returns the others as UnprocessedItems.
ServiceProcesses(t) ==
    /\ call[t] = "sent" /\ DistinctIn(batch[t])
    /\ \E done \in (SUBSET (1..Len(batch[t]))) \ {{}} :
          /\ Apply(At(batch[t], done))
          /\ unprocessed' =
                [unprocessed EXCEPT ![t] = At(batch[t], (1..Len(batch[t])) \ done)]
    /\ call' = [call EXCEPT ![t] = "answered"]
    /\ UNCHANGED <<overwrite, items_buffer, made, batch, block, failed, overlapped>>

\* Two requests for one key in a batch are refused.  Any other error, or a
\* cancellation, may follow the processing of some of the items.
CallRaises(t) ==
    /\ call[t] = "sent"
    /\ \/ ~DistinctIn(batch[t]) /\ UNCHANGED <<table, applied>>
       \/ /\ DistinctIn(batch[t]) /\ MayRaise
          /\ \E done \in SUBSET (1..Len(batch[t])) : Apply(At(batch[t], done))
    /\ failed' = TRUE
    /\ block' = IF t = Exit THEN "raised" ELSE block
    /\ Returns(t)
    /\ UNCHANGED <<overwrite, items_buffer, made, overlapped>>

\* Mutants: what was buffered during the call is overwritten; all the items
\* sent are buffered again.
AnsweredOverwrites(t) ==
    /\ call[t] = "answered"
    /\ items_buffer' = unprocessed[t]
    /\ Returns(t)
    /\ UNCHANGED <<overwrite, made, block, table, applied, failed, overlapped>>
AnsweredResendsAll(t) ==
    /\ call[t] = "answered"
    /\ items_buffer' = items_buffer \o batch[t]
    /\ Returns(t)
    /\ UNCHANGED <<overwrite, made, block, table, applied, failed, overlapped>>

\* The rest of _flush: the unprocessed items join whatever has been buffered.
Answered(t) ==
    /\ call[t] = "answered"
    /\ items_buffer' = items_buffer \o unprocessed[t]
    /\ Returns(t)
    /\ UNCHANGED <<overwrite, made, block, table, applied, failed, overlapped>>

-----------------------------------------------------------------------------
(* __aexit__.  The block is left when its tasks are done, or because one of  *)
(* them raised; the others then run on beside the exit.                      *)

LeaveBlock ==
    /\ block = "open"
    /\ failed \/ \A t \in Tasks : call[t] = "idle"
    /\ block' = "exiting"
    /\ UNCHANGED <<overwrite, items_buffer, made, call, batch, unprocessed, table,
                   applied, failed, overlapped>>

ExitFlush ==
    /\ block = "exiting" /\ call[Exit] = "idle"
    /\ items_buffer # <<>>
    /\ Send(Exit, items_buffer)
    /\ NoteOverlap(Exit)
    /\ UNCHANGED <<overwrite, made, block, table, applied, failed>>

\* Mutant: a last batch that is not full is left behind.
ExitDoneEarly ==
    /\ block = "exiting" /\ call[Exit] = "idle"
    /\ Len(items_buffer) < FlushAmount
    /\ block' = "closed"
    /\ UNCHANGED <<overwrite, items_buffer, made, call, batch, unprocessed, table,
                   applied, failed, overlapped>>

ExitDone ==
    /\ block = "exiting" /\ call[Exit] = "idle"
    /\ items_buffer = <<>>
    /\ block' = "closed"
    /\ UNCHANGED <<overwrite, items_buffer, made, call, batch, unprocessed, table,
                   applied, failed, overlapped>>

-----------------------------------------------------------------------------
Call(t) == ServiceProcesses(t) \/ CallRaises(t) \/ Answered(t)

Next == \/ \E t \in Tasks, k \in Keys : PutOrDelete(t, k)
        \/ \E t \in Flushers : Call(t)
        \/ LeaveBlock \/ ExitFlush \/ ExitDone

Spec == Init /\ [][Next]_vars

\* Calls are answered and __aexit__ runs on; nobody has to write or to leave.
Fairness == /\ \A t \in Flushers : WF_vars(Call(t))
            /\ WF_vars(ExitFlush \/ ExitDone)

FairSpec == Spec /\ Fairness

-----------------------------------------------------------------------------
(* Properties.                                                               *)

Buffered == {r.id : r \in ToSet(items_buffer)}
InFlight ==
    UNION {{r.id : r \in ToSet(IF call[t] = "sent" THEN batch[t] ELSE unprocessed[t])} :
               t \in Flushers}

\* The last request made for each key that has one.
Newest == {i \in 1..Len(made) : \A j \in 1..Len(made) : made[j] = made[i] => j <= i}

\* Until a call raises, the last request for a key is buffered, under way or
\* applied: no interleaving of the writer's tasks loses it (_flush cuts the
\* buffer before the await and only appends to it after, lines 108-119).
NothingLost == ~failed => Newest \subseteq Buffered \cup InFlight \cup applied

\* When the block has been left without an error (131-134), the last request
\* made for each key has been carried out; and unless calls overlapped the table
\* holds it.  When they did, an earlier request for the key may have come back
\* as unprocessed, been sent again after it (119) and replaced it.
ClosedMeansWritten ==
    block = "closed" /\ ~failed =>
        \A i \in Newest : i \in applied /\ (~overlapped => table[made[i]] = i)

\* As long as calls do not overlap, what the writer holds stays in order: with
\* overwrite_by_pkeys no two requests for one key, which DynamoDB would refuse,
\* come together in the buffer or in a batch, though RemoveDup skips items as it
\* removes; and between calls the buffer is shorter than a batch, as the single
\* flush per request keeps up with what DynamoDB leaves unprocessed.
OrderedUnlessOverlapped ==
    ~overlapped =>
        /\ overwrite =>
               DistinctIn(items_buffer) /\ \A t \in Flushers : DistinctIn(batch[t])
        /\ (\A t \in Flushers : call[t] = "idle") => Len(items_buffer) < FlushAmount

\* As long as calls do not overlap, a request never overwrites a later one for
\* its key, not even when it was returned as unprocessed and sent again.
NewestWins == [][~overlapped' => \A k \in Keys : table'[k] >= table[k]]_vars

\* Leaving the block ends: each flush gets rid of at least one request.
ExitEnds == block = "exiting" ~> block \in {"closed", "raised"}

=============================================================================
