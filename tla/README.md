# TLA+ models of aioboto3

aioboto3 puts asyncio versions of boto3's resources, S3 transfers, DynamoDB
batch writer and client-side encryption on top of aiobotocore. Its own logic
is what several coroutines do to shared state between two `await`s; that is
what is specified here. A step of every module is what one task does between
two awaits, because in asyncio nothing else runs meanwhile.

All modules are model-checked by TLC on the instances listed under *Runs*. Every
safety property the passing runs check is also a theorem that TLAPS checks for
every value of the constants (*Proofs*).

## Inventory

| part | source | state | what is hard |
|---|---|---|---|
| `upload_fileobj` | `s3/inject.py` 299-570 | the file's position, the reader's part and payload, `io_queue`, `finished_parts`, `expected_parts`, `exception`, `exception_event`, the tasks, the multipart upload at S3 | one reader, N uploaders and two helper tasks around a bounded queue; failures of the file, of `Processing`, of a part, of the completion and of the abort; cancellation of the caller |
| `download_fileobj` | `s3/inject.py` 111-296 | the file's position and content, `io_queue`, the list of chunks held back, `written_pos`, `total_downloaded`, the lock | ranges arrive in any order; seek and write of several coroutines share one position; failures leave the other coroutines running; cancellation |
| `copy` | `s3/inject.py` 606-707 | `finished_parts`, the coroutines, the semaphore, the multipart upload at S3 | the first failure ends the gather, the other coroutines run on while the upload is aborted |
| `upload_file`, `download_file`, object and bucket variants | `s3/inject.py` 75-108, 573-603 | an open file | the file is closed when the call ends, whatever still runs |
| `BatchWriter` | `dynamodb/table.py` | `_items_buffer` | several tasks write and flush at once; unprocessed items come back later; de-duplication removes from the list it iterates over; errors and the exit |
| client-side encryption, reading and ranges | `s3/cse.py` 334-487, 559-614 | none that outlives a call | offsets, block bounds and initial counters; lengths that are not a multiple of a block; the tag at the end |
| client-side encryption, its clients | `s3/cse.py` 216-265, 290-332 | the S3 client, the KMS client | set up lazily by whichever call comes first; closed in two awaits |
| key wrapping | `s3/cse.py` 86-205 | keys | calls into `cryptography` and KMS |
| attribute cache of a resource | `resources/factory.py` 133-142, 251-276; `s3/inject.py` 710-732 | `meta.data` | a load and an action of two tasks at once; a bucket's `{}` placeholder |
| collections and batch actions | `resources/collection.py`, `resources/action.py` 50-90 | page and item counts | limits across pages, counted twice; a listing that changes between the pages, also by the action itself |
| response handlers and resource factory | `resources/factory.py`, `resources/response.py` | classes | none: sequential construction |
| session, `ResourceCreatorContext` | `session.py`, `resources/base.py` | the client behind a resource | the lifecycle of the client; its API version is looked up apart from the resource's |
| `AsyncChalice` | `experimental/async_chalice.py` | none | one call in a loop of its own |

How they interact: `session` builds resource classes with the factory, and
event handlers add the transfer functions to S3 clients, buckets and objects
and the batch writer to DynamoDB tables. Transfers, writer and collections call
the client only; the parts share no state but the client and, for one resource,
`meta.data`. S3CSE calls the client for every object. The service side (S3,
DynamoDB) is modelled inside the module of its caller, as far as the code
relies on it, and marked external in `PROJECT.json`.

What makes each part correct:

- a transfer to S3 stores the whole content or nothing, never a torn object,
  reports success only for the whole content, and cleans up (upload aborted,
  tasks disposed of) when it raises its recorded error;
- a download writes every byte at its own offset, returns when everything is
  there, and nothing writes afterwards;
- the batch writer loses no request, keeps the newest per key, and `__aexit__`
  empties the buffer;
- a range of an encrypted object is what was asked for, or is refused;
- an attribute of a resource is what the service has, unless calls overlap;
- a collection gives out no resource twice, none too many, and none is missing
  that was there all the time;
- a client that was opened is closed by whoever opened it, found by every call
  in between, and of the same API version as the resource it serves.

`PROJECT.json` lists the hazards line by line with the properties that face
them, and names every line a definition stands for.

## Modules

| module | models |
|---|---|
| `AtomicUpload` | abstract: what the caller of an upload or a copy may rely on |
| `UploadFileobj` | `upload_fileobj`; implements `AtomicUpload` |
| `UploadFileobj_proofs` | proofs: types, counts, why an upload is aborted, what is cleaned up, the complete request, the implementation of `AtomicUpload`, the bytes reported, the lengths of the parts |
| `Copy` | `copy`; implements `AtomicUpload` |
| `Copy_proofs` | proofs: the properties of `Copy` and the implementation |
| `DownloadFileobj` | `download_fileobj` and `_download_part` |
| `DownloadFileobj_proofs` | proofs: the properties of `DownloadFileobj` |
| `BatchWriter` | `BatchWriter` with the tasks that share it and `__aexit__` |
| `BatchWriter_proofs` | proofs: the properties of `BatchWriter` |
| `CseRange` | `get_object`, its range arithmetic and decryption contexts |
| `CseRange_proofs` | proofs: the arithmetic, and the properties of `CseRange` |
| `ResourceCache` | `property_loader`, `do_action`, `load`, `bucket_load` on one resource |
| `ResourceCache_proofs` | proofs: the properties of `ResourceCache` |
| `Enumeration` | abstract: what an iteration over a changing collection promises |
| `Collection` | `AIOResourceCollection` and `AioBatchAction`; implements `Enumeration` |
| `Collection_proofs` | proofs: the types, the implementation of `Enumeration`, and that an iteration is bounded |
| `Clients` | `S3CSE` and `KMSCryptoContext` as owners of clients, `Session.resource`, `ResourceCreatorContext` |
| `Clients_proofs` | proofs: the properties of `Clients` |

Variables have the names the code gives its own (`finished_parts`,
`io_queue`, `written_pos`, `items_buffer`...). Besides these a module has a
variable for the await each task is suspended at (`main`, `reader`, `uploader`,
`part`, `task`, `call`), the state of the service and, in some, a history
variable used by the properties only (`overlapped`, `failed`, `swallowed`,
`reported`, `seen`, `lasting`). An operator whose comment starts with *Mutant* is a defective
variant of the definition that follows it; no specification uses it. It is
there to show that the named property would notice the defect.

### UploadFileobj and AtomicUpload

`SmallUpload` is the code up to the decision for a multipart upload,
`Reader` the `file_reader` task, `Uploader(u)` one uploader, `Ending` the
caller's task from `await file_reader_future` on, and `CancelMain` a
cancellation of the caller at whichever await it is. A part is its number and
the half-open range of file bytes it carries, so that a lost, repeated or
misplaced byte shows in `Tiles`. A read returns any number of bytes up to what
was asked for. `UploadPartFails`, `PutObjectFails`, `CreateFails` and
`CompleteFails` may come after S3 has carried the request out. S3 takes parts
of an open upload only, and builds the object from the parts the complete
request lists. Where there is a `Processing` (`processing`) the length of a Body
(`size`) is any of `ProcessedSizes`, else that of the range it is made from; the
callback is told of `size`. So the range says where a part's data comes from, the
size what is sent. "Whole" is said of the ranges: what a `Processing` makes of its
bytes is the user's affair.

asyncio details that matter and are kept: the uploaders start after the
reader's first step; a task that is being cancelled does not resume in another
way; `get()` turns a cancellation into an ordinary end, `upload_part` lets it
through, and the bare `except` around `Callback` swallows it; a gather that is
cancelled waits for its children.

`upload_file` opens a file, calls `upload_fileobj` and closes the file when that
ends, however it ends. This adds no step of its own: `FileClosed` is the
condition under which the file is closed, and `TasksDisposed` says that no
reader is then left that would go on reading.

`AtomicUpload` has an `object` ("previous", "whole" or "torn") and an
`outcome`. `Store` is the moment the content appears, `Return` and `Raise` the
end of the call. A call that raises may still have stored the content, since
the answer to the request may have been lost.

### Copy

The same for `copy`: the parts are ranges of the source, which another client
may overwrite with one of another length (`Resize`). A part of a range the
source no longer has fails. `finished_parts.sort` is the choice of an ascending
rearrangement (`Sorted`), of which there is one. `Callback` is left out: nothing
in the code depends on it.

### DownloadFileobj

`Fileobj` is an asynchronous file that can seek (`BodyToLock`, `Lock`, `Seek`,
`Write`), a synchronous one (`BodyToFile`), one that cannot seek
(`BodyToQueue` and the `queue_reader` task), or the file `download_file` has
opened, which `CloseFile` closes when the call ends: a part that is left over
then raises instead of writing. A byte is the version of the
object it came from and its offset, so that the file's content says which byte
was written where. The object may be overwritten during the download, and the
service cuts a range to the object as it is at that moment. A thread that
writes a file for a cancelled coroutine finishes its call.

### BatchWriter

A request is its key and the moment it was made. `PutOrDelete` is `put_item`
or `delete_item` with de-duplication and the `_flush` it may trigger up to its
await; `ServiceProcesses`, `CallRaises` and `Answered` are the rest of the
flush. DynamoDB applies any non-empty part of a batch and returns the rest as
unprocessed, refuses a batch with two requests for a key, and may raise after
any part. `LeaveBlock`, `ExitFlush`, `ExitDone` are `__aexit__`. `RemoveDup` is
the removal from the list being iterated, with the item after a removed one
skipped: `Removed` are the positions that go, and `At` is what the others leave.

### CseRange

One call of `get_object`, for objects that are not encrypted, AES/CBC with
either version of the metadata, or AES/GCM. Bytes are offsets plus whether they
were deciphered with their own keystream; the arithmetic (`LowerBound`,
`UpperBound`, `BlockOffset`, Python's slice) is the code's. A range the code does
not understand raises ValueError before anything is sent (357-359) and is not
among those considered, nor is one whose last byte comes before its first.
`AES_BLOCK_SIZE` is
128, as in the code, which uses a number of bits as a number of bytes too.
`JAVA_LONG_MAX_VALUE` is the largest upper bound the code sends; `cse.py` 347 says
that it stands for 8 EiB, which no object reaches, and that is `LongAssumption`.

### ResourceCache

The value of an attribute is the number of actions the service had carried out
when the data was read. `StartLoad` to `LoadReturns` is `property_loader` with
the resource's own `load` or with `bucket_load`; `StartReload` to `ReloadReturns`
is `load` or `reload` called by the user. `bucket_load` stores `{}` before it asks
for the list and leaves it there when it fails, does not find the bucket, or is
answered AccessDenied, which it swallows (`ListingDenied`); any other error is
raised (`LoadRaises`). `StartAction` to `ActionReturns` is `do_action`, which clears
the cache after its await. An action of a bucket may create or delete it, so that
`listed` changes with it (`ServiceActs`). `lookup` remembers how the last load to
end ended. Left out: a resource without `load`, whose attributes raise
ResourceLoadException when it has no data; and changes other clients make at the
service, which no cache of this kind can know of.

### Collection and Enumeration

A listing is a set of keys in the service's order, and a key may stand for
several resources, as a reservation of EC2 instances does: the response handler
makes the resources, `MaxItems` of the paginator counts the keys, `pages()`
counts the resources. `ReadPage` is a request and what `pages()` makes of its
answer; `YieldItem`, `Resume` and `PageDone` are `__anext__`; `StartBatch` to
`BatchReturns` is one round of `AioBatchAction`, after which a deleting action
has taken the page's resources out of the listing. Between two requests other
clients add and remove keys (`OthersChange`). botocore's paginator is external:
a page holds the keys after the last one read, may be empty although more
follow, and ends the iteration at `MaxItems`. `page_size` is the service's.
`Ascending` is the list of the keys in their order, of which there is one;
`Handler` joins the resources of one key after the other.

`Enumeration` is the promise: the resources given out were listed, are in order
and none is there twice, they are at most `limit`, and a call that completes has
given `limit` of them or all that were listed throughout. Two readings of the
code enter the mapping and are named in the module: for an operation that is
not paginated `limit=0` gives one resource, because the limit is looked at after
the append (`AtMost`), and a batch action ends at a page without resources even
if more follow, which is an abandoned enumeration the caller cannot tell from a
complete one (`CutShort`).

### Clients

A client is its kind (`main` or `kms`) and a number; `attr` is the one the
object's attribute refers to. `StartSetup`, `SetupS3` and `SetupKMS` are
`S3CSE.setup` with the context's `setup`, whether from `async with` or from a
call that finds `_s3_client` None (`NeedsSetup`); `StartClose`, `CloseS3`,
`CloseKMS` are `close`. A call is `get_object` of an encrypted object, or
`put_object`: two uses of the clients, in the one order or the other
(`UseClient`). `Resource` looks up the version of the resource model and of the
client, `EnterClient` and `LoadClass` are `__aenter__`, `ExitClient` is
`__aexit__`. Any await may raise. A context without a client (RSA, AES) is
the case in which `KMSCryptoContext` adds nothing; an explicit `setup()` and
`close()` are the same steps as those of the block.

## Runs

| run | shows | bounds |
|---|---|---|
| `upload` | all properties of `UploadFileobj`, every fault together | 2 uploaders, a queue of 1, a file of at most 9 bytes, parts of 3-4, which `Processing` makes 0 or 5 long |
| `upload_stall` | a failed part may never be raised: the reader waits for room in a queue nobody drains | 8 bytes, parts of 2 |
| `upload_cancel_leak` | a cancelled caller leaves uploaders behind | 4 bytes, parts of 2 |
| `download` | all properties of `DownloadFileobj`, four kinds of file, every fault | 3 parts, 2 at a time, one overwrite |
| `download_cancel_swallowed` | a cancelled download to a stream may return | 3 parts, no other fault |
| `copy` | all properties of `Copy`, every fault | 4 parts, 2 at a time, one overwrite |
| `batch_writer` | all properties of `BatchWriter`, with and without `overwrite_by_pkeys` | 2 tasks, 3 keys, batches of 3, 5 requests |
| `cse_range` | what does hold of whole objects and of ranges | 11 lengths and 21 positions around the limits of blocks of 16 and 128 |
| `cse_range_expected` | a range is not what was asked for, or not refused | one length |
| `resource_cache` | what an access of an attribute can give | 2 tasks, 2 actions in all, 3 accesses or direct loads each |
| `collection` | an iteration and a batch action implement `Enumeration` and end | 4 keys, one of them of two resources, pages of 2, limits None and 0 to 3, 2 changes by others, 1 empty page |
| `clients` | who holds which client, what a call finds, which version it has | 2 callers with 2 calls each beside the owner, 2 API versions |

Why the bounds are enough. Two uploaders, or coroutines, are the least that
can finish out of order, and a queue of one part is the least that makes the
reader wait and the tightest for a stall. Three parts and more give a first, a
middle and a short last one, and more parts than slots. `MultipartChunksize` is
not a multiple of `IoChunksize` in `upload`, so that parts differ in size.
Batches of three let the writer's buffer hold several requests before it is
flushed; with five requests, unprocessed ones come back behind newer ones and
make the buffer longer than a batch once calls overlap. Processed lengths of 0
and 5 are shorter and longer than any part. Two actions can create a bucket and
delete it again.
Four keys on pages of two give a full page, one
cut by the limit in the middle of a key's two resources, and a third request
after a page that was short; two changes can remove a key and bring it back, or
move two at once from one side of the token to the other. Two callers and the
owner are the least with which two setups overlap while the owner closes.
For the cipher the real block sizes are used; only the lengths are bounded. The
theorems remove the bounds from all safety properties.

`CHECK_DEADLOCK FALSE` appears everywhere since each module models calls that
end.

### Fairness

Liveness is checked under weak fairness of each task and of each answer of the
service: the event loop runs every ready task, and botocore's timeouts make
every request return or raise in the end. Nothing is assumed of the
environment: no caller has to write, leave the block or cancel, no object has
to be overwritten, no fault has to happen.

- `UploadEnds` holds but for one state, `ReaderStuck`, named in the property
  and the subject of `upload_stall`.
- `DownloadEnds` holds but for `Starved`: a stream's object shrank during the
  download and `queue_reader` waits for bytes that do not come.
- `CopyEnds` includes the coroutines `copy` leaves running when it raises.
- `CallEnds` of `Collection` needs the call's own steps only (`WF_vars(Call)`):
  the loop resumes it, requests are answered, and who iterates asks for the
  next resource. The changes of others are not fair.
- `ExitEnds` relies on DynamoDB's promise to process at least one request of a
  batch it answers, or to raise.

### Disagreements between the code and what is said of it

Each is the subject of a run that checks one property and is violated; the
lines are quoted in `PROJECT.json`.

1. `upload_stall`: a failure can be recorded and never raised.
2. `upload_cancel_leak`: the tests assert that no task leaks on cancellation;
   uploaders do when the caller is cancelled at other awaits than the tested one.
3. `download_cancel_swallowed`: `queue_reader` swallows the cancellation of
   the caller, who is then told that the object was downloaded.
4. `cse_range_expected`, for an AES/GCM object: the last byte of a range is
   missing, and ranges that do not start in the first blocks are cut at the wrong
   offsets and deciphered with the wrong counter.
5. `cse_range_expected`, for an AES/CBC object: the docs say that there are no
   range downloads, the code has a message for the refusal, and two tests hold
   the expectation for `bytes=20-30`, commented out. `if range_start:` lets 0 pass,
   the widened start of any range in the first two blocks of 128 bytes: such a
   range gives the whole plaintext, if the widened range reaches the object's
   end. TLC stops at this one; with `-continue` it lists both kinds.
   `NothingGarbled` says what does hold: ranges that start later are refused.

Behaviour that no document contradicts is not in this list but in the
properties that allow for it: an error of `abort_multipart_upload` itself leaves
uploaders running (`TasksDisposed` and `NoOrphanUpload` do not speak of
`abort_error`), and after a failed completion it leaves the upload open
(`NoOrphanUpload` does not speak of `complete_error`); a cancelled `copy` does not
abort its upload; two first calls of an `S3CSE` that is not set up both open
clients, of which one pair is lost (`~overlapped` in `ClientsAccountedFor`); a
client stays open if what follows it in `__aenter__`, or the close of the other
client, raises (`failed` there); a load that was answered before an action and
returns after it leaves the old data cached (`~overlapped` in `AccessIsFresh`); a
batch action stops at an empty page (`CutShort`); requests whose
`batch_write_item` raises are dropped (`~failed` in `NothingLost`). The hazards
about these cases therefore name no property.

The batch writer is the one where the outcome may surprise. Requests that come
back unprocessed may stand behind newer ones once calls overlap (`~overlapped` in
`OrderedUnlessOverlapped`, `NewestWins` and the table's part of
`ClosedMeansWritten`). In batches of three, let the first be 1, 2 and 3 for the keys
k1, k2 and k3, and another task put 4 for k2 and 5 for k3 meanwhile. If 1 and 2
come back unprocessed the buffer is 4, 5, 1, 2, of which `__aexit__` sends 4, 5
and 1, then 2: every request was carried out, the block is left without an
error, and the table holds the old 2 for k2.

## Proofs

Each proof module extends the one it is about. It defines an inductive invariant,
proves that every action preserves it, and derives the properties from it.
A conjunct that many actions disturb has a lemma of its own, with one step per
action.

The assumptions are those the modules state about their constants. Sizes,
lengths, numbers of requests and of calls are arbitrary natural numbers, positive
where a zero would mean nothing; faults are any of the known kinds; `None` and
the like are none of the values they stand beside. Besides that:

- `UploadFileobj`: there is at least one uploader and finitely many.
- `Clients`: the tasks that share an `S3CSE` are finitely many.
- `CseRange`: `AES_BLOCK_SIZE` is eight times the number of bytes in a block, as the
  code has it, and an object is shorter than `JAVA_LONG_MAX_VALUE` by a block or
  more (`LongAssumption`). Else the upper bound sent for a block that ends past
  the limit would cut the object.
- `Collection`: the service can list finitely many keys.

`BatchWriter`, `Copy`, `DownloadFileobj` and `ResourceCache` need nothing more. Their
tasks and actors are any set.

### The upload

- `TypeCorrect` (`TypeOK`). That `unfinished_tasks` is never negative
  does not follow from the types. The inductive invariant is `CountInv`:
  `unfinished_tasks` is the number of parts in the queue plus those held by an
  uploader that has not called `task_done`, and `expected_parts` is queued
  plus held plus finished.
- `AbortsOnlyOnFailure` (`AbortOnlyOnFailure`). `FailureInv` says
  how an exception and its event go together while the caller waits, that the
  reader is over by then, and that one that failed has left an exception. When
  `join` returns without one, nothing is queued or held, so by the counts the
  finished parts are as many as expected and the upload is completed.
- `LeavesNoUpload` and `LeavesNoTask` (`NoOrphanUpload`, `TasksDisposed`).
  `CleanupInv` adds which ends of a call pass the last lines, where the helpers
  have been cancelled and every uploader gathered. The case that needs it
  is an upload still open when the last lines are reached: complete and abort
  have both failed, and as `unfinished_tasks` is 0 no uploader holds a part whose
  own failure could take the place of that error. Both theorems are about the ends
  their properties name: nothing is claimed of the uploaders and helpers of a
  cancelled call (`upload_cancel_leak` shows they may run on) or of one that raises
  the abort's error, and nothing of the upload when the completion and the abort
  have both failed. That the reader is over holds of every end.
- `CompletesWithTheFile` (`CompleteRequestValid`). `DataInv` follows
  the data while there is no exception: the parts known (queued, held or
  finished) are numbered 1 to `expected_parts` without a gap and each starts
  where the one before ended, the reader's payload starts where the last one
  ended and ends at the file's position, and finished parts are stored. At the
  completion all are finished; `AscendingOnto` shows that an ascending list of n
  numbers that covers 1..n is 1..n, so the sorted list tiles the file.
- `ImplementsAtomicUpload` (`RefinesAtomicUpload`). `ObjectInv` says
  that a stored object is the whole file as read, and that after a completed
  upload without error there is one. Then every step is a `Store`, a
  `Return`, a `Raise` or a stutter of `AtomicUpload`.
- `ReportsEveryByte` and `PartsAreLongEnough` (`CallbackTotal`, `PartSizesLegal`).
  The sum over the finished parts is taken as the number of bytes of their Bodies,
  each told by its part's number and its place (`Counted` in `BytesInv`), which needs
  no sum over a list: parts are in one place once, and so are their bytes. Without
  `Processing` the same number is that of the file positions the parts cover
  (`CountedAsRead`), as these are disjoint; together they reach as far as the
  reader has come, and at the completion they cover the file. That a part is long
  enough is said of the bytes it is made from, and of its Body without `Processing`:
  the code uploads a part that `Processing` shrinks below S3's limit.
- `UploadIsBounded`: each step lowers `Rank`, a natural number, for a file of at
  most `MaxFileSize` bytes. A byte still to be read weighs more than what reading
  it can start (a part put, queued, uploaded, called back); `ClosePending` and a
  cancelled gather pay for the cancellations they send. No task polls or
  retries, so a call that does not end, as in `ReaderStuck`, is waiting.

### The copy

`CopyInv` ties `task`, `finished_parts` and what S3 stores together (`PartsInv`),
and says what each await of the caller has to show (`MainInv`). `CeilDivBounds`
and `RangesAdjoin` are the arithmetic: the ranges adjoin, and the last one ends
with the source. `AscendingIsIdentity` shows that the sorted list of n different
numbers from 1..n is 1..n. Theorems: `TypeCorrect`, `CompletesWithTheSource`,
`LeavesNoUpload`, `ImplementsAtomicUpload`, and `CopyIsBounded`: every step but a
`Resize` by somebody else lowers `Rank`, those of the coroutines a failed copy
leaves running included.

### The download

`DownloadInv` has a conjunct for each thing that could go wrong. `LockInv`: one part
at a time is between its seek and its write, and the file then stands at that
part's start. `DataInv`: what is sent, queued or held back
is of a version that exists already, and a byte in the file is at its own offset.
`QueueInv`: `queue_reader` has written every byte before `written_pos`, and ends at
`total_size` unless it was cancelled. `DeliveredInv`: any other file holds the
bytes of every part that is done, and `Callback` was told of as many. As in the upload they
are counted as positions, not added up. `PartsInv` and `MainInv` say what is
running where.

- `MisplacesNothing` (`NothingMisplaced`) is part of `DataInv`.
- `WritesTheWholeObject` (`WholeWhenReturned`): as long as nobody overwrites the
  object every part carries the whole of its range (`CompleteInv`), and
  `EveryByteInAPart` finds the part of each offset.
- `ReportsWhatIsWritten` (`ProgressIsWritten`): from the count of `DeliveredInv`.
- `SettlesTheFile` (`FileSettled`): a call that returns has no part or
  queue reader left that could write.
- `DownloadIsBounded`: every step but an `Overwrite` by somebody else lowers
  `Rank`, which counts what each part, the queue, the held back chunks and the
  caller have left to do. In `Starved` too nothing spins.

### The batch writer

- `LosesNothing` and `ExitWritesAll` (`NothingLost`, `ClosedMeansWritten`). `WriterInv`:
  what is in the buffer, sent or unprocessed was really asked for (`Genuine`);
  when the block has been left without a failure no task is in a flush. That the
  newest request of a key is in one of these places or applied is inductive with
  it. For the table `TableInv` adds that, unless calls overlapped, it holds a
  request no older than any carried out (`ApplyWrites`, `TableStep`).
- `StaysInOrder` and `NewestStays` (`OrderedUnlessOverlapped`, `NewestWins`).
  `AloneInv`: unless calls overlapped, one task flushes at a time, the buffer is
  empty meanwhile and shorter than a batch otherwise, with `overwrite_by_pkeys` no
  key is in it twice, and whatever is on its way is newer than what the table has.
- What iterating and removing at once computes is `RemovedIs`: of matching items
  in a row the first, third, fifth... go. As no key is there twice, the one that
  matches goes (`RemoveDupKeeps`). The recursion in `Removed` is shown
  to have this closed form for a value.
- `WritingIsBounded`: each step lowers `Rank`, for at most `MaxRequests` requests. The
  loop of `__aexit__` cannot spin: a batch is never empty (`RankInv`), DynamoDB
  processes one of it at least, and fewer come back than were sent.

### Ranges of an encrypted object

`CallInv` says that the request and the response are functions of the object and
of the range. `ChoppedRange` is then the arithmetic for every length and range:
what `LowerBound`, `UpperBound`, `BlockOffset` and the slice make of
them. `BoundsAround` shows that the start sent is 0 exactly for a range in the first
two blocks of `AES_BLOCK_SIZE`, which is what `if range_start:` tells apart. Theorems: `TypeCorrect`, `FetchesTheRange` (`RangeIsFetched`), `GarblesNothing`
(`NothingGarbled`), `EarlyRangesArePrefixes` (`EarlyRangeIsPrefix`).

### The attribute cache

- `ExplainsTheMissing` (`MissingExplained`) needs `EmptyInv`: a `{}` that nobody is
  about to replace is there because the last load to end found nothing, was denied
  or raised, for one that found data would have stored it over the `{}`; and
  `OverlapNoted`: of two calls at a time the later one has noted it.
- `AccessesAreFresh` (`AccessIsFresh`) needs `FreshInv`: unless calls overlapped or
  raised, the cached data is what the service has whenever no call is under way
  (`LoadedIsFresh` for a load), or `{}` if the bucket is not listed or the last
  look-up was denied.

### The clients

`ClientsInv`: how many clients a setup that is under way can still make
(`CountInv`, which bounds the numbers of clients by the number of users), how
far setting up has come (`SetupInv`), that both versions are the one looked up
(`VersionInv`), and that without an overlap there is one client of a kind and
none once the owner has closed it (`AloneInv`). Theorems: `TypeCorrect`,
`NoClientIsLost` (`ClientsAccountedFor`), `PairsVersions`, `FindsItsClients`
(`CallFindsItsClients`).

### Collections

A page is made by three operators whose results take an induction over data. The
library's induction theorems cannot be instantiated here, as they take an
operator for a parameter; `LeastNumber` (every nonempty set of naturals has a least
element, from `NatLessThanWellFounded`) and `AllNumbers` (a set of naturals with
0 and with every successor is `Nat`) serve instead, applied to the set of numbers a
claim holds for.

- `AscendingLists`: the ascending list of a finite set exists, and lists each
  element once. `FirstOfThem`: its first n elements are those up to the n-th,
  which is why a token is enough to ask for the next page.
- `FlattenUnfolds` and `HandlerLists`: the recursive function in `FlattenSeq`
  exists, and the list of resources is ascending, has those of the keys and no
  others, and is one to two times as long as the list of keys.
- `PageRead` puts together what one page is (`PageOf`): the keys read are those
  between the old and the new token; the page has all their resources, unless
  it is cut, and then exactly `AtMost` have been given out or are at hand (`Full`);
  a page that is the last one without being `Full` leaves nothing ahead.

`CollectionInv` is `StepInv` (where the call is and what is at hand), `LimitInv`
(the two counts and the limit: a key makes a resource or more, so the paginator's
count is never ahead), `OrderInv` (what was given out and is at hand is ascending
and of keys up to the token that were listed) and `ReachInv`: a key that lasts
and is not listed any more was taken out by the action itself, none up to the
token is missed, and on the last page none is left beyond it. The third part of
`ReachInv` is what the end of the call needs, the first keeps it true when a
batch action deletes what it has listed. Theorems:

- `TypeCorrect` (`TypeOK`).
- `ImplementsEnumeration` (`RefinesEnumeration`): reading a page is a stutter,
  `YieldItem` and `StartBatch` are a `Give`, the changes of others a `Change`, and
  an end is `Complete` because of `ReachInv`, or `Abandon` if it is an error or
  a batch action cut short.
- `IterationIsBounded`: each step of the call lowers `Rank`, a natural number, and
  changes of others leave it. A call takes no more steps than `Rank` is at the
  start, at most `8 * (Cardinality(Keys) + MaxEmpty + 1) + 1`.

### Only model-checked

Liveness: `UploadEnds`, `DownloadEnds`, `CopyEnds`, `ExitEnds`, `CallEnds`. TLAPS has no
rules for `ENABLED`, and so none for fairness. What does not need it is proved:
`UploadIsBounded`, `DownloadIsBounded`, `CopyIsBounded`, `WritingIsBounded` and
`IterationIsBounded` bound the steps of a call, so that it can only fail to end by
waiting. That it does not wait for ever, or only where the property says so,
is what TLC checks.

The four properties of the runs that are violated have of course no theorem.

## Not modelled

- Key wrapping and the crypto contexts for RSA and AES keys: computation in the
  `cryptography` package without state. What `put_object` encrypts is kept as the
  length of what it stores.
- The generation of resource classes from JSON definitions, and the
  registration of event handlers: sequential construction of classes from data.
  What the handler makes of a page is in `Collection`, the methods it generates
  in `ResourceCache`, its failures in `Clients`.
- `Session.__init__` and `Session.client`: calls into botocore. `docs/conf.py` and
  `resources/make_pr.py` are tools around the package.
- `AsyncChalice`: one call in a loop of its own, without state.
- The object and bucket variants of the transfers pass their arguments on.
- Memory, threads, and retries inside botocore: a request is answered or
  raises, once.
- The number of parts of an upload: nothing in the code compares it with S3's
  limit.

## Plan

Done: the upload with its abstract specification, which is the part with most
concurrency; download, to a named file too; copy; batch writer; ranges of
encrypted objects; the attribute cache; collections and batch actions with
their abstract specification; the clients of S3CSE and of a resource. For all of
them every safety property is proved and both kinds of abstract specification
are shown to be implemented.

What could follow: `put_object`'s encryption beside the ranges, should it get
logic of its own; and the second file a transfer could share with another one.
