---------------------------- MODULE ParentPatch ----------------------------
(***************************************************************************)
(* A route with `update_where`: each message, a changed parent, is written *)
(* to every document that refers to it.  issue_patch pages through the     *)
(* matches and enqueues their updates; patch_batch does so for a batch and *)
(* settles it.  Another route owns the documents.                          *)
(*                                                                         *)
(* The pages follow the order in which the index lists documents.  It is   *)
(* external, and an update that is applied may give the documents it wrote *)
(* other places (issue_patch: "an update enqueued while paging could       *)
(* reorder the pages").                                                    *)
(***************************************************************************)
EXTENDS SharedIndex

CONSTANTS
  Parents,     \* the values `update_where` compares
  ParentOf,    \* the parent each document refers to
  NoParent,    \* a message without a value, or whose payload is not JSON
  Streams,     \* the streams of the route: sequences of parents
  Stored,      \* the documents there may be at first
  Sizes        \* `batch_size` of the route, with PATCH_PAGE

ASSUME PatchAssumption == /\ ParentOf \in [Docs -> Parents] /\ NoParent \notin Parents
                          /\ Streams \subseteq Seq(Parents \cup {NoParent})
                          /\ Stored \subseteq SUBSET Docs /\ IsFiniteSet(Docs)
                          /\ Sizes \subseteq [batch : Nat \ {0}, page : Nat \ {0}]

VARIABLES
  sizes,       \* the batch and page size in use
  place,       \* the place of each document in the order of the index
  stream,      \* the parents the messages carry
  received,    \* messages read from the source
  committed,   \* messages the source will not deliver again
  backlog,     \* messages to resend
  acked,       \* messages reported as delivered
  dead,        \* messages dead-lettered
  phase,       \* idle, issue, await, page, write or confirm
  batch,       \* the numbers of the messages of the call
  position,    \* the position being issued
  settled,     \* the queue of the index was waited for in this call
  awaited,     \* the task waited for, or 0
  ids,         \* the matches read
  unsent,      \* those of them not sent yet
  requests,    \* tasks of the message
  issued,      \* positions issued, with their tasks
  failures,    \* the failure of each position, or none
  first,       \* the failure that ends the confirming, or none
  confirmed    \* entries of `issued` confirmed

given == <<sizes, stream>>
source == <<given, received, committed, backlog, acked, dead>>
message == <<ids, unsent, requests>>
call == <<batch, position, settled, awaited, message, issued, failures, first, confirmed>>
vars == <<place, source, phase, call, server>>

Failure == {"retryable", "permanent"}

Places == {f \in [Docs -> 1 .. Cardinality(Docs)] : \A d, e \in Docs : d # e => f[d] # f[e]}

TypeOK ==
  /\ ServerTypeOK /\ place \in Places /\ sizes \in [batch : Nat, page : Nat]
  /\ phase \in {"idle", "issue", "await", "page", "write", "confirm"}
  /\ committed \in 0 .. Len(stream) /\ received \in committed .. Len(stream)
  /\ backlog \subseteq 1 .. received /\ acked \subseteq 1 .. received /\ dead \subseteq 1 .. received
  /\ batch \in Seq(DOMAIN stream) /\ position \in 0 .. Len(batch) + 1
  /\ settled \in BOOLEAN /\ awaited \in 0 .. Len(tasks)
  /\ ids \in Seq(Docs) /\ unsent \in Seq(Docs) /\ requests \in Seq(DOMAIN tasks)
  /\ issued \in Seq([position : DOMAIN batch, tasks : Seq(DOMAIN tasks)])
  /\ failures \in [DOMAIN batch -> Failure \cup {"none"}]
  /\ first \in Failure \cup {"none"} /\ confirmed \in 0 .. Len(issued)

Init ==
  /\ sizes \in Sizes /\ stream \in Streams /\ place \in Places
  /\ received = 0 /\ committed = 0 /\ backlog = {} /\ acked = {} /\ dead = {}
  /\ phase = "idle" /\ batch = <<>> /\ position = 0 /\ settled = FALSE /\ awaited = 0
  /\ ids = <<>> /\ unsent = <<>> /\ requests = <<>> /\ issued = <<>>
  /\ failures = <<>> /\ first = "none" /\ confirmed = 0
  /\ \E stored \in Stored :
       docs = [d \in Docs |-> IF d \in stored THEN [owner |-> 1, added |-> 0] ELSE Gone]
  /\ tasks = <<>> /\ owned = 0 /\ faults = 0 /\ expected = {} /\ disturbed = {}

-----------------------------------------------------------------------------
SendBatch(numbers) ==
  /\ phase = "idle" /\ phase' = "issue"
  /\ batch' = numbers /\ position' = 1
  /\ failures' = [i \in DOMAIN numbers |-> "none"]
  /\ UNCHANGED <<place, settled, awaited, message, issued, first, confirmed, server>>

NoCall ==
  /\ phase' = "idle" /\ batch' = <<>> /\ position' = 0 /\ settled' = FALSE /\ awaited' = 0
  /\ ids' = <<>> /\ unsent' = <<>> /\ requests' = <<>> /\ issued' = <<>>
  /\ failures' = <<>> /\ first' = "none" /\ confirmed' = 0

Parent == stream[batch[position]]
Matches == {d \in Existing(docs) : ParentOf[d] = Parent}

(* Turns to the next message, or to confirming behind the last one.        *)
TurnTo(p) == position' = p /\ phase' = IF p > Len(batch) THEN "confirm" ELSE "issue"

(* patch_of fails: the message has no value, or is no document.            *)
RejectMessage ==
  /\ phase = "issue" /\ Parent = NoParent
  /\ failures' = [failures EXCEPT ![position] = "permanent"]
  /\ TurnTo(position + 1)
  /\ UNCHANGED <<place, source, batch, settled, awaited, message, issued, first, confirmed, server>>

(* The first message of a batch waits for what is queued on the index.     *)
AskPending ==
  /\ phase = "issue" /\ Parent # NoParent /\ ~settled
  /\ settled' = TRUE /\ awaited' = LatestPending
  /\ phase' = IF awaited' = 0 THEN "page" ELSE "await"
  /\ expected' = Promised /\ disturbed' = {}
  /\ UNCHANGED <<place, source, batch, position, message, issued, failures, first, confirmed,
                 tasks, docs, owned, faults>>

AwaitQueued ==
  /\ phase = "await" /\ QueueApplied(awaited) /\ phase' = "page"
  /\ UNCHANGED <<place, source, call, server>>

StartPaging ==
  /\ phase = "issue" /\ Parent # NoParent /\ settled /\ phase' = "page"
  /\ UNCHANGED <<place, source, call, server>>

(* A set in the order of the places. *)
InOrder(S, places) ==
  {s \in [1 .. Cardinality(S) -> S] :
     Range(s) = S /\ \A k, l \in DOMAIN s : k < l => places[s[k]] < places[s[l]]}

(* matching_ids: one page of the matches, behind those read already.       *)
Page(matching) == SubSeq(matching, Len(ids) + 1, Min({Len(ids) + sizes.page, Len(matching)}))

(* Mutant: the updates of a page are sent before the next page is read.    *)
ReadPageWriting ==
  /\ phase = "page"
  /\ \E page \in {Page(matching) : matching \in InOrder(Matches, place)} :
       /\ ids' = ids \o page
       /\ phase' = IF Len(page) < sizes.page THEN "write" ELSE "page"
       /\ IF page = <<>> THEN UNCHANGED <<tasks, requests>>
          ELSE /\ Enqueued([j \in DOMAIN page |->
                             [doc |-> page[j], part |-> "added", number |-> batch[position]]])
               /\ requests' = Append(requests, Len(tasks'))
  /\ UNCHANGED <<place, source, batch, position, settled, awaited, unsent, issued, failures,
                 first, confirmed, docs, owned, faults, expected, disturbed>>

(* A page that is not full is the last one.                                *)
ReadPage ==
  /\ phase = "page"
  /\ \E page \in {Page(matching) : matching \in InOrder(Matches, place)} :
       /\ ids' = ids \o page
       /\ IF Len(page) < sizes.page THEN phase' = "write" /\ unsent' = ids'
                                   ELSE UNCHANGED <<phase, unsent>>
  /\ UNCHANGED <<place, source, batch, position, settled, awaited, requests, issued, failures,
                 first, confirmed, server>>

Updates(k) == [j \in 1 .. k |-> [doc |-> unsent[j], part |-> "added", number |-> batch[position]]]

(* send_patch, as many documents as fit a request.                         *)
SendPatch ==
  /\ phase = "write" /\ unsent # <<>>
  /\ \E k \in 1 .. Len(unsent) : /\ Enqueued(Updates(k))
                                 /\ unsent' = SubSeq(unsent, k + 1, Len(unsent))
  /\ requests' = Append(requests, Len(tasks'))
  /\ UNCHANGED <<place, source, phase, batch, position, settled, awaited, ids, issued, failures,
                 first, confirmed, docs, owned, faults, expected, disturbed>>

(* Mutant: the message is noted in place of its position.                  *)
IssuedMessage ==
  /\ phase = "write" /\ unsent = <<>>
  /\ issued' = Append(issued, [position |-> batch[position], tasks |-> requests])
  /\ ids' = <<>> /\ requests' = <<>> /\ TurnTo(position + 1)
  /\ UNCHANGED <<place, source, batch, settled, awaited, unsent, failures, first, confirmed, server>>

Issued ==
  /\ phase = "write" /\ unsent = <<>>
  /\ issued' = Append(issued, [position |-> position, tasks |-> requests])
  /\ ids' = <<>> /\ requests' = <<>> /\ TurnTo(position + 1)
  /\ UNCHANGED <<place, source, batch, settled, awaited, unsent, failures, first, confirmed, server>>

(* Mutant: a message that fails does not stop the later ones.              *)
AbandonMessage(failure) ==
  /\ failures' = [failures EXCEPT ![position] = failure]
  /\ ids' = <<>> /\ unsent' = <<>> /\ requests' = <<>> /\ TurnTo(position + 1)
  /\ UNCHANGED <<issued, batch, settled, awaited, first, confirmed>>

(* issue_patch fails: the message and those behind it are not issued.      *)
Abandon(failure) ==
  /\ failures' = [failures EXCEPT ![position] = failure]
  /\ issued' = Append(issued, [position |-> position, tasks |-> <<>>])
  /\ phase' = "confirm"
  /\ UNCHANGED <<batch, position, settled, awaited, message, first, confirmed>>

QueuedTaskLost ==
  /\ phase = "await" /\ QueueLost(awaited) /\ Abandon("retryable")
  /\ UNCHANGED <<place, source, server>>

Asking == (phase = "issue" /\ Parent # NoParent /\ ~settled) \/ phase = "page"

Refused ==
  /\ Mishap
  /\ \/ (Asking \/ (phase = "write" /\ unsent # <<>>)) /\ Abandon("retryable")
     \/ (Asking \/ phase = "await" \/ (phase = "write" /\ unsent # <<>>)) /\ Abandon("permanent")
  /\ UNCHANGED <<place, source, tasks, docs, owned, expected, disturbed>>

(* The update is enqueued but its 202 never arrives.                       *)
ReplyLost ==
  /\ phase = "write" /\ unsent # <<>> /\ Mishap
  /\ \E k \in 1 .. Len(unsent) : Enqueued(Updates(k))
  /\ Abandon("retryable")
  /\ UNCHANGED <<place, source, docs, owned, expected, disturbed>>

-----------------------------------------------------------------------------
Confirming == phase = "confirm" /\ confirmed < Len(issued)
Entry == issued[confirmed + 1]

(* The entry fails: its position has a failure, of its own if it has one.  *)
EntryFails(failure) ==
  /\ failures' = [failures EXCEPT ![Entry.position] = IF @ = "none" THEN failure ELSE @]
  /\ first' = IF first = "none" THEN failure ELSE first

(* Once one has failed, it and every later one fail without being waited   *)
(* for; until then the first task that ended badly speaks for an entry.    *)
ConfirmNext ==
  /\ Confirming
  /\ IF first # "none" THEN EntryFails(first)
     ELSE IF failures[Entry.position] # "none" THEN EntryFails(failures[Entry.position])
     ELSE /\ Range(Entry.tasks) \cap Pending = {}
          /\ LET bad == {k \in DOMAIN Entry.tasks : TaskOutcome(Entry.tasks[k]) # "ok"}
             IN IF bad = {} THEN UNCHANGED <<failures, first>>
                ELSE EntryFails(TaskOutcome(Entry.tasks[Min(bad)]))
  /\ confirmed' = confirmed + 1
  /\ UNCHANGED <<place, source, phase, batch, position, settled, awaited, message, issued, server>>

(* A poll is answered with an error no repetition heals.                   *)
PollRefused ==
  /\ Confirming /\ first = "none" /\ failures[Entry.position] = "none" /\ Entry.tasks # <<>>
  /\ Mishap /\ EntryFails("permanent") /\ confirmed' = confirmed + 1
  /\ UNCHANGED <<place, source, phase, batch, position, settled, awaited, message, issued,
                 tasks, docs, owned, expected, disturbed>>

(* What is behind the last position issued goes back with the first failure.*)
Verdict(i) == IF failures[i] = "none" /\ first # "none" /\ issued # <<>>
                 /\ i > Last(issued).position
              THEN first ELSE failures[i]

Judged(verdict) == {batch[i] : i \in {k \in DOMAIN batch : Verdict(k) = verdict}}

(* send_batch returns, and the route takes its answer.                     *)
Report ==
  /\ phase = "confirm" /\ confirmed = Len(issued)
  /\ acked' = acked \cup Judged("none") /\ dead' = dead \cup Judged("permanent")
  /\ backlog' = Judged("retryable")
  /\ NoCall
  /\ UNCHANGED <<place, given, received, committed, server>>

Receive ==
  /\ committed = received /\ received < Len(stream)
  /\ \E n \in received + 1 .. Min({received + sizes.batch, Len(stream)}) :
       /\ received' = n
       /\ SendBatch([k \in 1 .. n - received |-> received + k])
  /\ UNCHANGED <<given, committed, backlog, acked, dead>>

Resend == /\ backlog # {} /\ backlog' = {}
          /\ \E numbers \in InOrder(backlog, [n \in backlog |-> n]) : SendBatch(numbers)
          /\ UNCHANGED <<given, received, committed, acked, dead>>

Commit == /\ phase = "idle" /\ backlog = {} /\ committed < received
          /\ committed' = received
          /\ UNCHANGED <<place, given, received, backlog, acked, dead, phase, call, server>>

Crash ==
  /\ Mishap /\ NoCall
  /\ received' = committed /\ backlog' = {}
  /\ acked' = acked \cap 1 .. committed /\ dead' = dead \cap 1 .. committed
  /\ UNCHANGED <<place, given, committed, tasks, docs, owned, expected, disturbed>>

(* The task is applied; the documents it wrote may be listed elsewhere.    *)
Rearranged(moved) == {f \in Places : \A d, e \in Docs \ moved :
                                       place[d] < place[e] => f[d] < f[e]}

ApplyTask ==
  /\ \E t \in Pending : Apply(t) /\ place' \in Rearranged(Touched(t))
  /\ UNCHANGED <<source, phase, call>>

LoseTask == \E t \in DOMAIN tasks : Lose(t) /\ UNCHANGED <<place, source, phase, call>>
Owner == OwnerWrites /\ UNCHANGED <<place, source, phase, call>>

Next == \/ RejectMessage \/ AskPending \/ AwaitQueued \/ StartPaging \/ ReadPage \/ SendPatch
        \/ Issued \/ QueuedTaskLost \/ Refused \/ ReplyLost \/ ConfirmNext \/ PollRefused
        \/ Report \/ Receive \/ Resend \/ Commit \/ Crash \/ ApplyTask \/ LoseTask \/ Owner

Spec == Init /\ [][Next]_vars

-----------------------------------------------------------------------------
(* A change of a parent that was reported as delivered is in every         *)
(* document that refers to it, or a newer change of the parent is, as long *)
(* as the owner writes nothing: no message of a batch counts as delivered  *)
(* that was not issued or whose updates were not confirmed, and none is    *)
(* overtaken by an older one sent again (patch_batch: "two changes to the  *)
(* same parent are never applied out of order").                           *)
AckedPatchSurvives ==
  \A n \in acked : \A d \in Docs :
    (owned = 0 /\ d \in Existing(docs) /\ ParentOf[d] = stream[n]) => docs[d].added >= n

(* issue_patch: "Every id is read before the first write: an update        *)
(* enqueued while paging could reorder the pages and hide a document".     *)
(* Once the pages are read, every document that refers to the parent is    *)
(* among the matches, those included that were queued when the batch       *)
(* started, but for those the owner has written since; no claim is made of *)
(* several pages read while the owner writes.                              *)
EveryMatchRead ==
  (phase = "write" /\ (Len(ids) < sizes.page \/ disturbed = {})) =>
    \A d \in expected \ disturbed : ParentOf[d] = Parent => d \in Range(ids)

=============================================================================
