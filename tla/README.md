# Verification of mq-bridge-meilisearch

TLA+ modules of the endpoint this repository builds: a document sink that turns
batches of messages into Meilisearch requests, and a reader that scans an index
page by page. TLC checks the modules on small instances; TLAPS proves the
theorems of the `*Proofs` modules for every value of the constants.

Contents: [the system](#the-system), [what is hard](#what-is-hard),
[the modules](#the-modules), [the runs](#the-runs), [the proofs](#the-proofs),
[divergences](#divergences-between-code-and-documents),
[assumptions and what is left out](#assumptions-and-what-is-left-out),
[plan](#plan).

## The system

| part | state it keeps | operations | module |
|---|---|---|---|
| batch planning (`publisher.rs`: `classify`, `target_index`, `document_id`, `plan`) | none between batches; in the loop `runs`, `segment`, `segment_start`, `keyed`, `unkeyed` | one iteration per message | `Planning`, `BatchPlan` |
| `send_batch` (`issue_run`, `send_documents`, `delete_ids`, `confirm`, `settle`, `report`) | `issued`, `unissued`, `outcomes` of the call | enqueue each run, confirm each, settle | `Publisher`, `Settling` |
| index preparation (`create`, `prepare_index`, `ensure_index`) | `known_indexes` | create the index, apply its settings, wait for both | `Publisher` |
| task waiting (`client.rs`: `wait_for_task`, `wait_for_tasks`, `latest_pending_task`, `is_retryable`) | none | poll until the task has ended, however it ended | `Publisher`, `SharedIndex` |
| NDJSON framing (`DocumentChunks`, `append_document`) | the body being framed, the line carried over | frame a body, send it | `DocumentChunks` |
| `update_existing` (`keep_existing`, `await_queued_writes`, `existing_ids`) | none | look the documents up, write those found | `ExistingDocuments` |
| `update_where` (`patch_of`, `issue_patch`, `matching_ids`, `patch_batch`) | indexes settled and failures of the batch | find matches, patch each, settle | `ParentPatch` |
| rebuild (`Pass`, `swap_in`, `on_disconnect_hook`) | `written`, `refused`, `unwritten` | record a batch, object or swap and delete | `Rebuild` |
| configuration (`config.rs`) | none | accept or refuse a configuration | `Configuration`, `PlanningAssumption` |
| index reader (`consumer.rs`) | `offset`, backoff | `receive_batch`, the commit closure, `create` | `IndexReader` |
| checkpoint store (`checkpoint.rs`) | the saved offset | load, save | `IndexReader.saved` |
| Meilisearch (external) | tasks, indexes, documents | apply, fail or forget a task | `Meilisearch`, `SharedIndex` |
| mq-bridge route (external) | position in the source, retry backlog, dead letters | publish, resend, give up, commit, restart, disconnect | in each module with a route |
| factory (`lib.rs`), health and status, packages, CI | none that decides anything | delegation, observation | not modelled |

How they interact: the route calls `create` once and then `send_batch` with one
batch at a time (`requires_ordered_publish`). `send_batch` plans the batch,
prepares and writes each run through the client, waits for the tasks and
returns which messages failed, each retryable or permanent. Meilisearch applies
the tasks of an index in the order it accepted them, at its own pace. With
`swap_into` the publisher also notes in its `Pass` what became of each document,
and the hook the route runs when it disconnects decides from these notes whether
the rebuilt index replaces the live one. The reader is called for a page at a
time; each page comes with a closure the route calls later with what became of
each message.

What makes each part correct:

- planning: writes to one document keep their order, no message is lost or sent
  twice, no segment is opened without need;
- `send_batch`: nothing is reported as delivered that is not in the index, and
  no failure, resend or restart puts an older write over a newer one;
- preparation: no document is indexed before the settings of its index;
- waiting: it ends whatever happens to the task;
- framing: every document once and in order, no body past the limit that could
  have been cut;
- `update_existing`: the look-up sees what other routes have queued;
- `update_where`: every match is patched, changes of one parent stay in order;
- rebuild: what is live is the old index or the whole new one;
- reader: no document is skipped, the checkpoint does not go backwards, a drain
  ends with every document delivered, and the scan reaches the end unless its
  key is rejected.

## What is hard

`PROJECT.json` lists each hazard at its line. In short: runs are confirmed one
after another although all were enqueued, so any of them may fail while later
ones succeed; a reply may be lost after its request was taken, or the request
may arrive after its retry; a run may be cut into several requests of which a
later one is refused; a task may fail, be canceled or vanish, and a restored
server may use its number again; the process may stop anywhere, in the middle of
a rebuild too; other routes write between a look-up and the write that relies on
it; the reader reads its offset before it awaits a page and writes it after,
while commits write it too.

## The modules

**`Planning`**: the operators of the planning loop. A message is the record of
what the plan reads: `operation`, `index`, `doc` (its id, after `stringify`) and
`valid` (whether `document_id` accepts it). `Plan` holds the loop's variables;
`segmentStart` counts the runs before the current segment, so the Rust slice
`runs[segment_start..]` is `Current`. `Considered` is one iteration.

**`BatchPlan`**: that loop as a state machine, one action per way an iteration
ends (`StopPlan`, `RejectDocument`, `JoinRun`, `OpenRun`). `plan`, `batch` and
`done` are the loop's variables.

**`Settling`**: from outcomes to verdicts, as operators. `Calls` says how far a
call of `send_batch` can get (how many runs are issued, how many confirmed and
how each ended), `RunVerdict` and `Settled` are `settle`. `Publisher` reaches
these outcomes step by step, `Rebuild` takes one of them at once; `EndsAsCall`
checks that the one allows the other.

**`Meilisearch`** (external): the task queue. A document is the number of the
message that wrote it last. Numbers grow in source order, so a stale write is a
smaller number; a delete is a write with its own number, which is what lets a
delete overtaken by an insert be seen. `faults` bounds the mishaps of the
network, the server and the process together. `late` holds requests delayed on
the way, and `Restore` takes the server back to where it was fresh, after which
task numbers are used again; both only where `RareMishaps` names them.

**`Publisher`**: `send_batch` and `create`, one step per HTTP request or poll.
`config` is the endpoint's configuration and never changes. `phase` is where the
call stands: `start` (preparing a literal index), `idle`, `issue` (the loop at
publisher.rs:951), `confirm` (the loop at 962). `prep` and `asked` are the
program counter of `prepare_index`, `body` and `requests` that of
`send_documents`, `waited` that of `wait_for_tasks`. `Outcomes` and `Verdict`
apply `settle`; `Judged` is `report`.

| code | action |
|---|---|
| `create_index`: request; answered "exists"; task ended | `AskCreate`, `CreateAnsweredExists`, `CreateFinished` |
| `update_settings`: request; task ended | `AskSettings`, `Prepared` |
| any of these failing | `PrepareFailed`, `ReplyLost`, `RequestRefused`, `PollRefused` |
| `add_documents`, `delete_documents` | `WriteDocuments(k)`: the next `k` messages of the run |
| `wait_for_tasks`: the last task; the earlier ones | `AwaitLast`, `ReadEarlier` |
| `confirm` without `wait_for_task` | `DoNotWait` |
| `settle`, `report`, return | `Return`, composed into `SinkRoute!Report` |

**`SinkRoute`**: the publisher, Meilisearch and a route around them, with
crashes. A behaviour starts with one of `Scenarios`, a configuration and a
stream.

**`DocumentSink`**, **`SinkPromise`**: what a route into Meilisearch promises,
without batches, runs, requests or tasks. Messages are received, sent, stored
under their key, reported and committed; when reports wait for the writes, an
older message never replaces one reported, and no report leaves an older message
of a key open behind a delivered one. `SinkPromise` maps `SinkRoute` to it: the
key of a message is the document of its index, `sent` are the messages in some
task, `store` is what the documents hold.

**`DocumentChunks`**: `send_documents` framing the lines of one run. A line is
where it ends in the text of all lines, so the bytes of a body are a difference.
`last` is behind `read` exactly when a line is carried over (publisher.rs:212).

**`Configuration`**: the rules of `resolve` as a predicate on what they compare.

**`Rebuild`**: a route with `swap_into`. A batch is one step (`Deliver`) that
picks one of `Settling!Calls` and which of the writes sent were applied; `pass`
is the `Pass`, `Recorded` its `record`, `MaySwap` its `objection`. The hook is a
step per request (`CreateLive`, `SwapIndexes`, `DeleteBuilt`), each of which may
fail with or without having had its effect. A crash starts a new `pass`.

**`SharedIndex`** (external): an index that two routes write, with merging
writes. A document is the owner's part and the part another route adds. Beside
it the ghost variables `expected` and `disturbed`: the documents that exist once
the queue, as `await_queued_writes` saw it, has been applied (`Promised`), and
those written or lost since. A task's effect (`After`) and `Promised` are given
by the last change of each part, not change by change: both say the same, and
this one can be reasoned about.

**`ExistingDocuments`**: `update_existing` on such an index. `AskPending`,
`AwaitQueued` are `await_queued_writes`, `CheckExisting` a chunk of
`existing_ids`, `KeepExisting` the rest of `keep_existing`.

**`ParentPatch`**: `update_where`. `position` walks the loop of `patch_batch`
(publisher.rs:763), `ReadPage` is a page of `matching_ids`, `Issued` and
`Abandon` are the two ends of `issue_patch`, `ConfirmNext` an entry of the
confirm loop. `place` (external) is the order in which the index lists its
documents, by which the pages are cut: `InOrder` the matches in that order,
`Rearranged` what an applied task may make of it, in which only the documents it
wrote change their places among the others.

**`IndexReader`**: the reader. `reading` is the page request between the read of
the offset (consumer.rs:188) and the write of it (214); `inflight` holds the
batches whose commit closure has not been called. A page request may fail with
any of `Errors`: those that are `Permanent` (`consumer_error`) end the scan, the
others are asked again. `ended` says how the scan ended: on such an error, or,
where the route drains the index (`exitOnEmpty`), on an empty page. `Restart`
starts it again.

Definitions commented "Mutant" are deliberately wrong variants of the one they
precede, each the way a bug in that code could look. Nothing uses them: put in
place of the original, each makes the run named for it in `PROJECT.json` fail,
which shows that the property does depend on the code.

## The runs

| run | instance | shows |
|---|---|---|
| `plan` | every batch of 1 to 4 messages from insert and delete of 2 documents in 2 templated indexes, a document that is refused, a truncate and a message without an index; and every batch of 1 to 6 of those on one index | order per document, order in a body, every message accounted for, segments only where needed |
| `sink_safety` | three endpoints: one waits and prepares nothing, every stream of an insert and 2 more writes to 2 documents of an index that writes the first one twice; one waits and prepares, 3 streams over 2 templated indexes with refused and stopping messages; one does not wait, the streams that write 1 document. Batches of 1 to 3, requests of any size, 2 mishaps | `AckedWriteSurvives`, `ResendBehindNoAck`, `SettingsBeforeDocuments`, `EveryCommitSettled`, `EndsAsCall`, `Converged`, and `KeepsPromise`: `SinkRoute` implements `DocumentSink` |
| `sink_liveness` | a literal index that is prepared, one stream of 3 writes with a switch of operation, batches of 1 or 2, fairness, 2 mishaps, late requests and a restore among them | `EverythingSettled`, `SentBehindAcked` |
| `reader_single` | 5 documents, followed or drained, pages of 1 or 2, 1 batch in flight, fairness, 3 mishaps, among them requests that fail with each of the `Errors` | `NothingSkipped`, `CheckpointMonotone`, `DrainedWhole`, `ScanCompletes` |
| `reader_pipelined` | the same with 2 batches in flight | a violation, [below](#divergences-between-code-and-documents) |
| `chunks` | every run of up to 5 lines of 1 to 3 bytes, limit 4, no or one bad payload | `EveryDocumentOnce`, `BodyFits`, `CutOnlyWhenFull` |
| `rebuild_replace` | every stream of up to 3 inserts and deletes of 2 documents, one with a refused message and one with a truncate; batches of 1 or 2; 2 mishaps, 1 crash; a live index or none | `LiveOldOrWhole`, `RetriedDoesNotBlock` |
| `rebuild_crash` | the streams of inserts and deletes only, with 1 mishap | a violation, below |
| `existing_checks` | 2 streams of 2 and 3 messages, batches of 1 or 2, look-ups of one id, 2 writes or deletions of the owner, 2 mishaps | `CheckSeesQueue`, `CallReturns` |
| `existing_stub` | the same without mishaps | a violation, below |
| `patch_settled` | 2 documents of one parent, one or both there at first; streams with a message without a value and one that matches nothing; batches of up to 3 that read one page, or of up to 2 that read a document a page and have no parent twice; 1 write or deletion of the owner, 1 mishap | `AckedPatchSurvives`, `EveryMatchRead` |
| `patch_shifted` | 2 changes of one parent in one batch, a document a page, no mishap, no owner | a violation, below |

Why the bounds are enough. The proofs remove them wherever a property is proved,
and cover endpoints without `primary_key`, which no run instantiates; the bounds
are there for the cases in which a property could fail. Two documents and two
indexes are what a conflict needs: one document that switches operation and
another that must not be affected. Six messages on one index give three segments
with a document untouched since the first. Three writes in a stream are a
failing one, one that succeeds before or after it, and one in a later batch; two
mishaps are a failure and a second one during its resend, or a crash on top. A
batch of three is cut into up to three requests, so a run can be half sent.
Lines of one to three bytes under a limit of four give bodies below, at and past
the limit and a line that is carried over twice in a row. A rebuild of three
messages has a refused one, a retried one and one behind them, and a crash
between two commits. The owner's two writes are a creation and a deletion around
one look-up. The reader's five documents make pages that end at, before and
behind the end of the index. In the two `patch` runs the documents are
symmetric: nothing but their places tells them apart, and the initial states
have all places.

Fairness. In `SinkRoute` the publisher's own steps and the route's are one
weakly fair action (`Call`, `Report`, `Resend`, `Commit`, `Receive`): they are
one task of an async runtime, which polls a task that is ready; in
`ExistingDocuments` it is `Step`. `Apply` and `ApplyTask` are weakly fair:
Meilisearch works through its queue, which is what the unbounded wait in
`wait_for_task` relies on ("Meilisearch does not lose an enqueued task"). For
the reader, the page request, its answer and the full acknowledgement of the
oldest batch are weakly fair. Nothing is assumed of mishaps, of the owner or of
giving up; they are bounded in number or not needed, so liveness says that
everything ends once the mishaps have stopped. `CHECK_DEADLOCK FALSE` is set
where the instance really ends, at the end of the batch, the stream or the
rebuild, or when the reader's route ends. A permanent error of the reader is a
mishap like the others; that the route starts again after it is not assumed,
which is why `ScanCompletes` makes an exception for it, and only for it.

Properties in words:

- `SameDocumentOrder`, `BodyOrder`: two writes to one document are in one
  request, in order, or in two whose segments are in order.
- `EveryMessageAccounted`: each message is in exactly one run, or rejected, or
  at or behind the stop.
- `SegmentsOnlyOnSwitch`: one run per operation and index in a segment, and a
  segment opens only if a document of the one before switched operation.
- `AckedWriteSurvives`: what was reported as delivered stays in the index, or
  something newer does.
- `ResendBehindNoAck`: nothing is handed back for a resend that is older than a
  delivered write to its document.
- `SentBehindAcked`: whatever the publisher enqueues, for the first time, again
  or after a restart, is newer than what was reported for its document, also
  with late requests and restores.
- `EveryCommitSettled`: the source forgets no message that was neither delivered
  nor dead-lettered.
- `EndsAsCall`: how a call ends is one of `Settling!Calls`.
- `KeepsPromise`: the refinement of `DocumentSink`.
- `LiveOldOrWhole`: the live index is the old one or all the source describes.
- `RetriedDoesNotBlock`: a drained source without a dead letter goes live.
- `DeadLetterBlocksSwap`: no swap while fields of a dead letter are missing.
- `CheckSeesQueue`: the look-up of `update_existing` finds what the queue makes
  of the documents, unless the owner wrote since.
- `CallReturns`: the wait for another route's task ends.
- `NoStub`: a document with an added part has its owner's part.
- `AckedPatchSurvives`: a delivered change of a parent, or a newer one, is in all
  its documents, as long as the owner writes nothing.
- `DrainedWhole`: a scan that ends on an empty page has delivered everything.
- `ScanCompletes`: every document is delivered in the end, or a permanent error
  has ended the scan for good; errors the route retries end nothing.
- `EveryMatchRead`: no match is missed while paging.
- `EveryDocumentOnce`, `BodyFits`, `CutOnlyWhenFull`: the bodies of a run.
- `SettingsBeforeDocuments`, `EverythingSettled`, `Converged`,
  `NothingSkipped`, `CheckpointMonotone`: as stated above each definition.

`settle` and the confirm loop protect the same thing twice: the loop stops
before a run behind a failed segment, so `settle` never sees that such a run
succeeded, and its own test `run.segment <= cut` is a second line of defence.
Dropping either alone violates none of the delivery properties; `EndsAsCall`
notices the loop's.

## The proofs

TLAPS proves the theorems below for every value of the constants: any number
of documents, indexes, messages, tasks, mishaps and crashes, batches, runs and
requests of any size, and any configurations and streams. Each inductive
invariant was checked by TLC on the bounds of the runs before it was proved.
Beside the assumptions on the constants, which say what `config.rs` enforces, a
theorem has a hypothesis only where its statement is false without it; each is
named here.

### Planning: `BatchPlanProofs`

From `PlanningAssumption` (`operation` needs `primary_key`, as config.rs:306
enforces) and `BatchAssumption`.

- `PlanInvariant`: the inductive invariant `IInv`. `SameDocumentOrder` alone is
  not inductive: a message may join any run of the current segment, so one must
  know that every earlier write to its document with the other operation is in
  an earlier segment. `IInv` says that runs are ordered by segment, that
  `segmentStart` separates the current segment from those before it, that the
  positions of a run are in order and not beyond `done`, that a segment has one
  run per operation and index, and, with `primary_key`, that `keyed` holds for
  each document of the current segment the operation of the run that carries it.
- `TypeCorrect`, `SameDocumentOrderHolds`, `BodyOrderHolds`: consequences.
- `EveryMessageAccountedHolds`: from a second invariant that every position up
  to `done` has exactly one place. It rests on `IInv`, since a position that is
  appended must not be carried yet.
- `SegmentsOnlyOnSwitchHolds`: from a third, that the notes of the plan are
  backed. An operation is in `keyed` or `unkeyed` only if a message of the
  current segment wrote so, and each segment but the first has a message that
  switched the operation of a document of the one before. With ids and without.

### Settling: `SettlingProofs`

Lemmas about the operators of `Planning` and `Settling`, for any plan of any
batch, so that they can be cited wherever a batch is planned or settled. `Sound`
is what `IInv` says of a plan, and `PlanOfSound` that every plan is sound:
`CutWellFormed`, `ReadyWellFormed`, `JoinedWellFormed`, `OpenedWellFormed`,
`ReadyKeeps`, `JoinedHas` and `OpenedHas` say what one iteration keeps.

`SettleKeepsOrder` is the result: for every sound plan and every way a call can
go, no message is handed back that is older than one of its document that
counts as delivered. Two writes of a document are in one run, which is settled
as a whole, or in runs of different segments, and behind the first failed
segment nothing counts as delivered.

### The sink: `SinkProofs`

What holds whatever happens, late requests and restored servers included, and
so does `EveryTaskAddressed`:

- `RouteInvariant`: `CallInv` says where a call is: its plan is that of its
  messages, what is left of the body is the rest of the current run, one run
  after the other is issued until one cannot be, and no outcome is confirmed
  behind a failed segment. `RouteInv` relates the call to the route: what is in
  hand, delivered, dead-lettered and to be resent, and that what is to be
  resent is newer than what was delivered of its document.
- `TypeCorrect`; `EndsAsCallHolds`: a call ends as one of `Settling!Calls`, which
  is what lets `SettleKeepsOrder` be used of it and justifies that `Rebuild`
  takes a call as one step.
- `ResendBehindNoAckHolds`, `SentBehindAckedHolds`: the two halves of ordering,
  what is handed back and what is enqueued, also after a restart.

What needs a server that is not restored from a snapshot (`"restore"` not in
`RareMishaps`), since a restored one forgets what it accepted:

- `EveryCommitSettledHolds`: `TakenInv` follows each message of an issued run to
  the task that carries it, so what is reported as delivered was accepted by
  Meilisearch, and nothing is committed that is neither delivered nor dead.
- `SettingsBeforeDocumentsHolds`: `SettingsInv` says that an index that is
  written to, or whose settings were applied, is configured.

What also needs that no request arrives after the publisher gave up on it
(`RareMishaps = {}`); with a late request it is false, as
[explained below](#assumptions-and-what-is-left-out):

- `DeliveryInvariant`: what the call enqueued has nothing newer of its document
  before it (`NewestInv`), each delivered message has such an entry
  (`CoveredInv`), and a message whose task succeeded has landed: it is in its
  document, or a newer one is, and nothing older waits in the queue
  (`LandedInv`).
- `AckedWriteSurvivesHolds`: part of `LandedInv`. The property alone is not
  inductive, as an older write that is still queued would undo it later.
- `ConvergedHolds`: the queue of an index is applied in order, and each document
  is what the last entry applied to it made it.
- `KeepsPromiseHolds`: the refinement. `StartMapped` maps the initial states,
  `StepMapped` every step to one of `DocumentSink` or to a stutter; the mapping
  is that of `SinkPromise`. It needs `DeliveryInvariant`, since applying a task
  is a step of the sink only if it puts nothing older over a delivered write,
  and `StoredInv`, that a document is what some task made it.

### Framing: `DocumentChunksProofs`

For runs of any length, lines of any size and any limit, from `ChunksAssumption`
(a line has at least a byte). `ChunksInvariant` is its inductive invariant:
beside the three properties, the body in hand starts where the last one ended
and fits unless it is a single line (`InHand`), and it was ended only because its
next line would not fit or the run is over (`Ended`). Without `Ended`,
`CutOnlyWhenFull` says nothing of the body being framed, of which it is about to
become a claim. `TypeCorrect`, `EveryDocumentOnceHolds`, `BodyFitsHolds` and
`CutOnlyWhenFullHolds` are the consequences. It is what allows `Publisher` and
the other modules to cut a run anywhere.

### Rebuild: `RebuildProofs`

A batch is one step here, so the proof first says what one call does
(`Answered`): it splits its messages into acknowledged, retried and refused, what
is acknowledged was applied, and nothing is retried that is older than what was
acknowledged of its document; the last is `SettleKeepsOrder` again. `Batched`,
`LastWins` and `FinalWins` follow this to the documents and to the `Pass`.

- `TypeCorrect` and `RetriedDoesNotBlockHolds`, for every write method. For the
  second, `Justified` says that a pass holds something against the swap only if
  it is in the dead letters or still to be resent.
- `LiveOldOrWholeHolds`, where documents are replaced
  (`WriteMethods = {"replace"}`). `IInv` says that the built index is what the
  last acknowledged message of each document made it (`Latest`), that the pass
  remembers a last message that is not written, or that something was refused,
  unless a crash made it forget (`Remembered`), and that the live index is
  replaced only when the source is drained (`Replaced`). The hypothesis is
  needed: with `update`, a message that succeeds clears the note of an earlier
  one of the same document that was given up, whose fields are then missing.

### `update_existing`: `ExistingDocumentsProofs`

`Promised` are the documents that exist once the queue has been applied, and the
first half of the module is about what moves it. Applying the oldest task does
not change what is promised (`PromisedApplied`); a task that is lost or enqueued
changes it for the documents it writes and for no other (`PromisedLost`,
`PromisedAppended`); a document for which nothing is queued is as promised
(`PromisedUnqueued`).

- `RouteInvariant`: tasks end in the order of the queue, unless they are gone
  (`Fifo`); from the moment the queue is read until the look-up is done, what
  was enqueued since is for documents that count as disturbed, and the queue
  promises of the others what was expected; during the look-up nothing older
  than the awaited task is pending (`Awaited`).
- `TypeCorrect`, and `CheckSeesQueueHolds`: the look-up finds what the queue makes
  of each document, except those disturbed since. The awaited task may have
  failed; `await_queued_writes` passes over that, and the proof shows that it
  may, since a task fails only once those before it have ended.

### `update_where`: `ParentPatchProofs`

For any documents, parents, streams, batches, pages, owner's writes and mishaps,
in four layers, each an invariant that rests on those before it.

- `CallInvariant`: `CallInv` says where a call of `patch_batch` is. `Numbers`
  relates the messages of a call to what was committed, delivered and is to be
  resent; `Placed` says that what lies behind the current position was noted in
  `issued` or refused, and that what lies beyond the last entry of a confirmed
  batch comes after a failure; `Concluded` that from the first entry that failed
  on all fail. `TypeCorrect` is part of it: that `Report` reads no entry that is
  not there needs `Placed`.
- `QueueInv`: while the queue is waited for, it promises the documents expected
  and disturbed by nobody (`PromisedKept`). Once the wait is over they exist and
  no task deletes one (`NoneDeleted`), and the queue holds nothing but writes of
  the owner and the updates of earlier messages of the batch, each for documents
  of its own parent (`OwnersOrSent`). The wait may end with a task that failed,
  as in `update_existing`.
- `ReadInv`: as long as nothing that is queued can move the matches (`Still`),
  what was read is a prefix of them in the order of the index, hence all of them
  once a page is not full (`WholeRead`): no earlier message of the batch has the
  parent (`Apart`), and an update of another parent, applied meanwhile, leaves
  the order of the matches as it was (`OrderStays`). Where all is on one page
  (`Fits`), nothing has to stay still. `EveryMatchReadHolds` follows.
- `DeliveryInvariant`: while the owner does not write, each update sent is in a
  task with nothing older behind it in the queue (`Carried`); the tasks of a
  noted message, with what is still to be sent of the one in hand, reach every
  document of its parent unless the message failed (`EntryFull`, `WriteFull`);
  and what is confirmed or was reported as delivered has landed (`Landed`): it
  is in the documents, or a newer one is, and nothing older is queued for them.
  `AckedPatchSurvives` alone is not inductive: an older update that is still
  queued would undo it. `AckedPatchSurvivesHolds` follows.

`EveryMatchReadHolds` and `AckedPatchSurvivesHolds` have the hypothesis
`WholePages`, of the `Sizes` and `Streams` together: a parent that two messages
within `batch_size` of each other have in common has fewer documents than a page
(`Fits`). The sizes and streams of `patch_settled` satisfy it. With `PATCH_PAGE`
1000 (publisher.rs:359) it excludes a parent with 1000 documents or more that
may change twice within a batch, and nothing else: `batch_size` 1 always
satisfies it. What it excludes is the divergence `patch_shifted` shows, and there
TLC violates `AckedPatchSurvives` as well, the document that was missed being
reported as patched.

### The reader: `IndexReaderProofs`

`TypeCorrect` for any number of batches in flight; `NothingSkippedOneBatch`,
`CheckpointMonotoneOneBatch` and `DrainedWholeOneBatch` under `MaxInFlight = 1`:
then a page is requested only when nothing is in flight, so its start is still
the offset when it arrives, a commit is of the batch that ends at the offset,
and the empty page that ends a drain comes when everything before it was
delivered. With two batches in flight the first is false, which
`reader_pipelined` shows, and so is the second: behind a refused batch the
younger one saves its own boundary, and the commit of the refused batch's
repetition moves it back.

### What is only model-checked

- **Liveness**: `EverythingSettled`, `ScanCompletes` and `CallReturns`. The
  prover has no rules for fairness, which is about ENABLED.
- **What the hypotheses leave out**: the cases without `WholePages`, with late
  requests and restores, of `method: update` in `LiveOldOrWhole` and of more than
  one batch in flight. In each the property concerned has a counterexample.
- **Deadlock**, where a configuration leaves the check on.
- **The divergences** below, which are counterexamples TLC finds.

Induction over data needs an operator as a parameter, which the prover cannot
instantiate. Where a proof follows a loop (`PlanOf`), it
therefore counts its iterations (`UpTo`) and says what each keeps; that
`Planning` and `Settling` agree with another definition of what they compute is
not stated beyond that. `SharedIndex` does without: what a queue makes of an
index is a matter of the last change of each document, and of the order of
natural numbers.

## Divergences between code and documents

Each is a counterexample TLC finds, in the run named.

- `reader_pipelined`: `src/src/consumer.rs:212` says that "the commit rolls back
  to the acknowledged boundary so nothing a batch did not ack is skipped". With
  one batch in flight it is true, and proved. With two, a page is requested at
  the offset the first batch advanced to; the first batch is refused and its
  commit rolls the offset back; the page arrives and `offset = start + count`
  overwrites the rollback. (The younger batch's commit also saves its own
  boundary, so a restart does not help.) `commit_requires_order` orders the
  commits but does not keep a second batch from being received before the first
  is committed; whether that happens is up to the route.
- `rebuild_crash`: `src/README.md:507` says that a document "that was refused or
  dead-lettered blocks the swap, since the new index would be missing it". The
  notes are kept in memory (publisher.rs:921): an insert that fails, is
  dead-lettered and committed before a restart is neither read again nor
  remembered, and the index goes live without its document.
- `existing_stub`: `src/src/config.rs:17` says that with `update_existing` "a
  child table cannot recreate a deleted parent as a stub". The write is an
  ordinary update, enqueued after the look-up (publisher.rs:613); a deletion in
  between leaves a stub. The gap `src/README.md:435` names is another one.
- `patch_shifted`: `src/src/publisher.rs:719` says that every id is read before
  the first write since "an update enqueued while paging could reorder the pages
  and hide a document". That holds within a message; the updates of the message
  before it in the batch may be applied while this one pages
  (publisher.rs:722).

## Assumptions and what is left out

- **The route** is mq-bridge code, modelled from what the endpoint asks of it
  and what the README says of it: one `send_batch` at a time; failed messages are
  dead-lettered when permanent and resent, alone and in order, when retryable,
  before the route reads on; the source is committed behind a batch whose
  messages are all settled. What the route does not commit before a crash is
  read again; what was acknowledged but not committed no longer counts as
  acknowledged, as the source was not told. An endpoint whose creation fails is
  created again, also after a permanent failure, when the operator would.
- **Meilisearch** applies the tasks of an index in order and each whole or not
  at all. A vanished task may have been applied or not. A restore goes back to
  the fresh server. Swapping and deleting an index are single steps.
- **Late requests and restores** are part of `sink_liveness` only. The code can
  do nothing about a request that a proxy holds back until after its retry: the
  older document then ends on top of a newer one already reported as delivered,
  although `src/README.md:202` says that the resend changes nothing. Likewise a
  wait cannot tell a foreign task that was given its number by a restored server.
  `AckedWriteSurvives`, `Converged` and `KeepsPromise` are claimed without
  either, `EveryCommitSettled` and `SettingsBeforeDocuments` without restores.
- **`Publisher`** writes with `method: replace`. Merging matters where several
  routes write one document, which is `ExistingDocuments` and `ParentPatch`.
- **`Rebuild`**: a call is one step; `create_index` is on; nobody else writes the
  live index; the build index is absent at first. `written` is set by any batch,
  as in the code. The runs use `method: replace`. Two things are read from
  `record` and not covered by a run: with `update`, a later success clears the
  note of an earlier dead letter of the same document (`MCRebuild_crash.cfg` with
  `WriteMethods = {"update"}`, `OperationMapped = FALSE` and no crash violates
  `DeadLetterBlocksSwap` that way); with `update_existing`
  into an empty build index, nothing is written and the pass still counts as
  written.
- **`ExistingDocuments`**: a batch is one run, since `operation` is refused
  beside this method and the index is a literal; a batch is retried until it is
  settled, the route does not give up on it.
- **`ParentPatch`**: `wait_for_task` is on and the index is a literal, already
  prepared. In which order Meilisearch lists documents is its own affair: a
  document that is written may move to the end. While the owner writes, no claim
  is made of several pages. Whatever a deletion of the owner does to a page in
  between is thus left open.
- **Ids, templates, JSON, compression** are abstracted: what `document_id` and
  `patch_of` accept is part of the message, `operation` values are compared
  without regard to case in the code and are single values here, and a run may be
  cut anywhere, which `DocumentChunks` justifies. The ids of messages without
  `primary_key` are unknown to the plan, so all messages to an index count as
  one document.
- **Timing**: delays and timeouts are not modelled; a poll that is worth
  repeating is a step without effect. The reader's idle delay is kept as a
  number, since it has a bound; a draining route, which skips the sleep, leaves
  it as it is.
- **The reader** assumes that the index does not change during the scan, as the
  README tells its user to ensure, and that a checkpoint is configured. Commits
  arrive in order (`commit_requires_order`), one for every batch: a batch the
  route drops without a commit, other than by starting the endpoint again, "does
  not" roll back (`src/README.md:541`), so the scan goes on behind it, and that
  case is left out. The write of the offset and the save of the checkpoint are
  one step.
- **Not modelled**: `lib.rs` (two delegating calls), `status` and health,
  the configuration's schema, defaults and URL, the path of the checkpoint
  store, the packages for Python and Node, and CI. They hold no state and take
  no part in what the properties say.

## Plan

Done: planning, settling, publisher, Meilisearch and the route with the
refinement of `DocumentSink`, framing, rebuild, `update_existing`,
`update_where` and the reader are modelled, checked and proved as above. Every
invariant and every action property of a passing run is a theorem. What is
left:

Templated indexes in `ExistingDocuments` and `ParentPatch`, where a batch waits
for the queue of each index.
