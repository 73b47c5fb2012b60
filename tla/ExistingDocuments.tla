------------------------- MODULE ExistingDocuments -------------------------
(***************************************************************************)
(* A route with `method: update_existing`: keep_existing waits for what is *)
(* queued on the index, looks the documents of the run up, and writes the  *)
(* ones it found in a later task.  Another route owns the documents and    *)
(* creates and deletes them meanwhile.                                     *)
(*                                                                         *)
(* The route sends upserts only (config.rs refuses `operation`), so a      *)
(* batch is one run on one index; what fails goes back as a whole.         *)
(***************************************************************************)
EXTENDS SharedIndex

CONSTANTS
  Streams,     \* the streams of the route: sequences of documents to add to
  BatchSize,   \* `batch_size` of the route
  ChunkSize    \* EXISTENCE_CHECK_CHUNK

ASSUME RouteAssumption == /\ Streams \subseteq Seq(Docs)
                          /\ BatchSize \in Nat \ {0} /\ ChunkSize \in Nat \ {0}

VARIABLES
  stream,      \* the documents the messages add to
  next,        \* the first message not settled
  phase,       \* idle, ask, await, check, write or confirm
  batch,       \* the numbers of the messages of the call
  awaited,     \* the task waited for, or 0
  unchecked,   \* documents still to be looked up
  found,       \* documents looked up that exist
  body,        \* messages kept and still to be sent
  requests     \* tasks of the run

call == <<batch, awaited, unchecked, found, body, requests>>
vars == <<stream, next, phase, call, server>>

TypeOK ==
  /\ ServerTypeOK
  /\ next \in 1 .. Len(stream) + 1
  /\ phase \in {"idle", "ask", "await", "check", "write", "confirm"}
  /\ batch \in Seq(DOMAIN stream) /\ body \in Seq(DOMAIN stream)
  /\ awaited \in 0 .. Len(tasks) /\ requests \in Seq(DOMAIN tasks)
  /\ unchecked \subseteq Docs /\ found \subseteq Docs

Init ==
  /\ stream \in Streams /\ next = 1 /\ phase = "idle"
  /\ batch = <<>> /\ awaited = 0 /\ unchecked = {} /\ found = {}
  /\ body = <<>> /\ requests = <<>>
  /\ tasks = <<>> /\ docs = [d \in Docs |-> Gone] /\ owned = 0 /\ faults = 0
  /\ expected = {} /\ disturbed = {}

SendBatch ==
  /\ phase = "idle" /\ next <= Len(stream)
  /\ \E n \in next .. Min({next + BatchSize - 1, Len(stream)}) :
       batch' = [k \in 1 .. n - next + 1 |-> next + k - 1]
  /\ phase' = "ask"
  /\ UNCHANGED <<stream, next, awaited, unchecked, found, body, requests, server>>

Wanted == {stream[n] : n \in Range(batch)}

(* await_queued_writes: which task to wait for.                            *)
AskPending ==
  /\ phase = "ask"
  /\ awaited' = LatestPending
  /\ phase' = IF awaited' = 0 THEN "check" ELSE "await"
  /\ unchecked' = Wanted /\ found' = {}
  /\ expected' = Promised /\ disturbed' = {}
  /\ UNCHANGED <<stream, next, batch, body, requests, tasks, docs, owned, faults>>

AwaitQueued ==
  /\ phase = "await" /\ QueueApplied(awaited)
  /\ phase' = "check"
  /\ UNCHANGED <<stream, next, call, server>>

(* existing_ids, a chunk of the ids at a time.                             *)
CheckExisting ==
  /\ phase = "check" /\ unchecked # {}
  /\ \E chunk \in kSubset(Min({ChunkSize, Cardinality(unchecked)}), unchecked) :
       /\ found' = found \cup (chunk \cap Existing(docs))
       /\ unchecked' = unchecked \ chunk
  /\ UNCHANGED <<stream, next, phase, batch, awaited, body, requests, server>>

(* Mutant: the documents are kept in place of their messages.              *)
KeepExistingDocuments ==
  /\ phase = "check" /\ unchecked = {}
  /\ body' = SelectSeq([k \in DOMAIN batch |-> stream[batch[k]]], LAMBDA d : d \in found)
  /\ phase' = IF body' = <<>> THEN "confirm" ELSE "write"
  /\ UNCHANGED <<stream, next, batch, awaited, unchecked, found, requests, server>>

(* The numbers of a set, in source order. *)
InOrder(S) ==
  {s \in [1 .. Cardinality(S) -> S] :
     Range(s) = S /\ \A k, l \in DOMAIN s : k < l => s[k] < s[l]}

(* The messages whose document exists are kept, in order; without any      *)
(* there is nothing to send.                                               *)
KeepExisting ==
  /\ phase = "check" /\ unchecked = {}
  /\ body' \in InOrder({n \in Range(batch) : stream[n] \in found})
  /\ phase' = IF body' = <<>> THEN "confirm" ELSE "write"
  /\ UNCHANGED <<stream, next, batch, awaited, unchecked, found, requests, server>>

Additions(k) == [j \in 1 .. k |-> [doc |-> stream[body[j]], part |-> "added", number |-> body[j]]]

WriteDocuments ==
  /\ phase = "write"
  /\ \E k \in 1 .. Len(body) :
       /\ Enqueued(Additions(k))
       /\ body' = SubSeq(body, k + 1, Len(body))
       /\ phase' = IF k = Len(body) THEN "confirm" ELSE "write"
  /\ requests' = Append(requests, Len(tasks'))
  /\ UNCHANGED <<stream, next, batch, awaited, unchecked, found, docs, owned, faults,
                 expected, disturbed>>

(* The call is over.  The messages are settled, kept or not, unless they   *)
(* are to be sent again.                                                   *)
Returned(outcome) ==
  /\ next' = IF outcome = "retryable" THEN next ELSE next + Len(batch)
  /\ phase' = "idle" /\ batch' = <<>> /\ awaited' = 0 /\ unchecked' = {} /\ found' = {}
  /\ body' = <<>> /\ requests' = <<>>
  /\ UNCHANGED stream

(* wait_for_tasks: the first task that failed speaks for the run.          *)
Confirm ==
  /\ phase = "confirm"
  /\ Range(requests) \cap Pending = {}
  /\ LET bad == {k \in DOMAIN requests : TaskOutcome(requests[k]) # "ok"}
     IN Returned(IF bad = {} THEN "ok" ELSE TaskOutcome(requests[Min(bad)]))
  /\ UNCHANGED server

QueuedTaskLost ==
  /\ phase = "await" /\ QueueLost(awaited) /\ Returned("retryable") /\ UNCHANGED server

(* A request fails without having an effect.  A poll that may heal is      *)
(* repeated instead.                                                       *)
Refused ==
  /\ Mishap
  /\ \/ phase \in {"ask", "check", "write"} /\ Returned("retryable")
     \/ phase \in {"ask", "check", "write", "await"} /\ Returned("permanent")
     \/ phase = "confirm" /\ requests # <<>> /\ Returned("permanent")
  /\ UNCHANGED <<tasks, docs, owned, expected, disturbed>>

(* The write is enqueued but its 202 never arrives.                        *)
ReplyLost ==
  /\ phase = "write" /\ Mishap
  /\ \E k \in 1 .. Len(body) : Enqueued(Additions(k))
  /\ Returned("retryable")
  /\ UNCHANGED <<docs, owned, expected, disturbed>>

(* The process stops; its batch was not committed and is read again.       *)
Crash == phase # "idle" /\ Mishap /\ Returned("retryable")
         /\ UNCHANGED <<tasks, docs, owned, expected, disturbed>>

Step == \/ AskPending \/ AwaitQueued \/ CheckExisting \/ KeepExisting
        \/ WriteDocuments \/ Confirm \/ QueuedTaskLost

route == <<stream, next, phase, call>>
ApplyTask == \E t \in DOMAIN tasks : Apply(t) /\ UNCHANGED route
LoseTask == \E t \in DOMAIN tasks : Lose(t) /\ UNCHANGED route
Owner == OwnerWrites /\ UNCHANGED route

Next == SendBatch \/ Step \/ Refused \/ ReplyLost \/ Crash \/ ApplyTask \/ LoseTask \/ Owner

(* The route's own steps are scheduled by the runtime, and Meilisearch     *)
(* works through its queue.                                                *)
Spec == Init /\ [][Next]_vars /\ WF_vars(Step) /\ WF_vars(ApplyTask)

-----------------------------------------------------------------------------
(* keep_existing: "a parent another route just created or deleted is       *)
(* seen".  What the look-up finds is what the queue makes of the documents *)
(* up to the moment it was read, except for those the owner has written    *)
(* again since or whose task was lost.                                     *)
CheckSeesQueue ==
  phase \in {"check", "write"} =>
    \A d \in Wanted \ (unchecked \cup disturbed) : d \in found <=> d \in expected

(* The wait for another route's task ends whatever becomes of the task:    *)
(* await_queued_writes passes over its failure.                            *)
CallReturns == phase # "idle" ~> phase = "idle"

(* config.rs:17: "so a child table cannot recreate a deleted parent as a   *)
(* stub".  A document with an added part has its owner's part too.         *)
NoStub == \A d \in Docs : docs[d].added # 0 => docs[d].owner # 0

=============================================================================
