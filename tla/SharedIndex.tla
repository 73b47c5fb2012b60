---------------------------- MODULE SharedIndex ----------------------------
(***************************************************************************)
(* An index of Meilisearch (external) that several routes write.  As in    *)
(* Meilisearch, the tasks are applied in the order they were enqueued; but *)
(* writes merge, so a document is the parts the routes wrote: the owner's, *)
(* and the part added by a route that only adds to it.  A part is the      *)
(* number of the write it is from, 0 when the document has none.           *)
(***************************************************************************)
EXTENDS Naturals, Sequences, SequencesExt

CONSTANTS
  Docs,        \* the documents of the index
  MaxOwner,    \* bound: writes of the route that owns the documents
  MaxFaults    \* bound: mishaps of the network, the server, the process

ASSUME SharedIndexAssumption == MaxOwner \in Nat /\ MaxFaults \in Nat

VARIABLES
  tasks,       \* every task enqueued so far
  docs,        \* the documents
  owned,       \* writes of the owner so far
  faults,      \* mishaps so far
  expected,    \* documents that exist once what was queued when it was read
               \* by await_queued_writes has been applied
  disturbed    \* documents written by the owner, or of tasks lost, since

server == <<tasks, docs, owned, faults, expected, disturbed>>

Parts == {"owner", "added"}
Gone == [p \in Parts |-> 0]

(* A write of one part of a document; one with number 0 deletes it.        *)
Change == [doc : Docs, part : Parts, number : Nat]

Task == [changes : Seq(Change),
         status : {"enqueued", "succeeded", "failed", "unknown"}]

ServerTypeOK ==
  /\ tasks \in Seq(Task) /\ docs \in [Docs -> [Parts -> Nat]]
  /\ owned \in 0 .. MaxOwner /\ faults \in 0 .. MaxFaults
  /\ expected \subseteq Docs /\ disturbed \subseteq Docs

(* A part is what the last change of it makes of it, or the deletion of    *)
(* its document.                                                           *)
After(contents, changes) ==
  [d \in Docs |-> [p \in Parts |->
     LET of == {k \in DOMAIN changes : /\ changes[k].doc = d
                                       /\ changes[k].part = p \/ changes[k].number = 0}
     IN IF of = {} THEN contents[d][p] ELSE changes[Max(of)].number]]

Existing(contents) == {d \in Docs : contents[d] # Gone}
Touched(t) == {c.doc : c \in Range(tasks[t].changes)}

(* The last change of the document does not delete it.                     *)
Keeps(changes, d) == changes[Max({k \in DOMAIN changes : changes[k].doc = d})].number # 0

Pending == {t \in DOMAIN tasks : tasks[t].status = "enqueued"}

(* The tasks of the queue that are for a document.                         *)
Writers(d) == {t \in Pending : d \in Touched(t)}

(* The documents that exist once every task of the queue has been applied. *)
Promised == {d \in Docs : IF Writers(d) = {} THEN d \in Existing(docs)
                          ELSE Keeps(tasks[Max(Writers(d))].changes, d)}

Mishap == faults < MaxFaults /\ faults' = faults + 1

Enqueued(changes) == tasks' = Append(tasks, [changes |-> changes, status |-> "enqueued"])

Ends(t, status) == tasks' = [tasks EXCEPT ![t].status = status]

Apply(t) == /\ Pending # {} /\ t = Min(Pending) /\ Ends(t, "succeeded")
            /\ docs' = After(docs, tasks[t].changes)
            /\ UNCHANGED <<owned, faults, expected, disturbed>>

(* A task fails and nothing of it is applied, or is gone: a poll is        *)
(* answered task_not_found from now on.                                    *)
Lose(t) == /\ \/ Pending # {} /\ t = Min(Pending) /\ Ends(t, "failed")
              \/ tasks[t].status # "unknown" /\ Ends(t, "unknown")
           /\ Mishap
           /\ disturbed' = disturbed \cup Touched(t)
           /\ UNCHANGED <<docs, owned, expected>>

(* The route that owns the documents writes or deletes one.                *)
OwnerWrites == /\ owned < MaxOwner /\ owned' = owned + 1
               /\ \E d \in Docs, number \in {0, owned + 1} :
                    /\ Enqueued(<<[doc |-> d, part |-> "owner", number |-> number]>>)
                    /\ disturbed' = disturbed \cup {d}
               /\ UNCHANGED <<docs, faults, expected>>

(* A document of a task ended as a wait for it reports: the failure of a   *)
(* task is permanent, one that is gone has to be sent again.               *)
TaskOutcome(t) == CASE tasks[t].status = "succeeded" -> "ok"
                    [] tasks[t].status = "unknown" -> "retryable"
                    [] OTHER -> "permanent"

-----------------------------------------------------------------------------
(* Mutant: the task that has waited longest is taken for the newest.       *)
LatestPendingOldest == IF Pending = {} THEN 0 ELSE Min(Pending)

(* latest_pending_task: the newest task not finished yet, or 0.            *)
LatestPending == IF Pending = {} THEN 0 ELSE Max(Pending)

(* Mutant: a task that has failed is waited for, for ever.                 *)
QueueAppliedOnSuccess(t) == t # 0 /\ tasks[t].status = "succeeded"

(* The wait of await_queued_writes is over; how the task ended is its own  *)
(* route's to report.                                                      *)
QueueApplied(t) == t # 0 /\ tasks[t].status \in {"succeeded", "failed"}

(* It is over for a task that is gone, but with a failure.                 *)
QueueLost(t) == t # 0 /\ tasks[t].status = "unknown"

=============================================================================
