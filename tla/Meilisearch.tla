---------------------------- MODULE Meilisearch ----------------------------
(***************************************************************************)
(* Meilisearch as the crate uses it (external: an HTTP service).  A write  *)
(* is answered with a task; the tasks of an index are applied in the order *)
(* they were enqueued and end as succeeded, failed or canceled.  A task is *)
(* numbered by its place in `tasks`; numbers are used again only after a   *)
(* restore from a snapshot.                                                *)
(*                                                                         *)
(* A document is abstracted to the number of the message that wrote it     *)
(* last (0: none yet): the numbers grow in source order, so a stale write  *)
(* shows as a smaller number.  A deletion is a write like any other.       *)
(***************************************************************************)
EXTENDS Planning, FiniteSetsExt

CONSTANTS
  MaxFaults,    \* bound: mishaps of the network, the server, the process
  RareMishaps   \* of these, the rare ones considered: late requests, restores

ASSUME FaultsAssumption == MaxFaults \in Nat /\ RareMishaps \subseteq {"late", "restore"}

VARIABLES
  tasks,     \* every task enqueued so far
  docs,      \* the documents of each index
  indexes,   \* each index: absent, created, or configured (settings applied)
  late,      \* requests held back on the way, as the tasks they ask for
  faults     \* mishaps so far

server == <<tasks, docs, indexes, late, faults>>

Entry == [doc : Docs, number : Nat \ {0}]

Task == [index : Indexes, kind : {"create", "settings", "write"},
         writes : Seq(Entry),
         status : {"enqueued", "succeeded", "failed", "exists", "unknown"}]

ServerTypeOK ==
  /\ tasks \in Seq(Task)
  /\ docs \in [Indexes -> [Docs -> Nat]]
  /\ indexes \in [Indexes -> {"absent", "created", "configured"}]
  /\ late \subseteq Task
  /\ faults \in 0 .. MaxFaults

ServerInit == /\ tasks = <<>>
              /\ docs = [i \in Indexes |-> [d \in Docs |-> 0]]
              /\ indexes = [i \in Indexes |-> "absent"]
              /\ late = {} /\ faults = 0

Mishap == faults < MaxFaults /\ faults' = faults + 1

NewTask(index, kind, writes) ==
  [index |-> index, kind |-> kind, writes |-> writes, status |-> "enqueued"]

(* A request that reaches the queue. *)
Enqueued(index, kind, writes) ==
  /\ tasks' = Append(tasks, NewTask(index, kind, writes))
  /\ UNCHANGED <<docs, indexes, late>>

(* A request that is held back on the way, and may reach the queue later. *)
HeldBack(index, kind, writes) ==
  /\ "late" \in RareMishaps
  /\ late' = late \cup {NewTask(index, kind, writes)}
  /\ UNCHANGED <<tasks, docs, indexes>>

Arrival == \E q \in late : /\ tasks' = Append(tasks, q) /\ late' = late \ {q}
                           /\ UNCHANGED <<docs, indexes, faults>>

-----------------------------------------------------------------------------
Waiting(i) == {t \in DOMAIN tasks : tasks[t].index = i /\ tasks[t].status = "enqueued"}

(* The next task of each index. *)
NextTasks == {Min(Waiting(i)) : i \in {j \in Indexes : Waiting(j) # {}}}

Ends(t, status) == tasks' = [tasks EXCEPT ![t].status = status]

(* What the documents of an index become: the last entry for each wins. *)
Stored(old, writes) ==
  [d \in Docs |-> LET at == {k \in DOMAIN writes : writes[k].doc = d}
                  IN IF at = {} THEN old[d] ELSE writes[Max(at)].number]

ApplyCreate(t) ==
  /\ tasks[t].kind = "create"
  /\ Ends(t, IF indexes[tasks[t].index] = "absent" THEN "succeeded" ELSE "exists")
  /\ indexes' = [indexes EXCEPT ![tasks[t].index] = IF @ = "absent" THEN "created" ELSE @]
  /\ UNCHANGED <<docs, late, faults>>

ApplySettings(t) ==
  /\ tasks[t].kind = "settings"
  /\ Ends(t, "succeeded")
  /\ indexes' = [indexes EXCEPT ![tasks[t].index] = "configured"]
  /\ UNCHANGED <<docs, late, faults>>

(* Writing to an index that does not exist creates it, unconfigured. *)
ApplyWrite(t) ==
  /\ tasks[t].kind = "write"
  /\ Ends(t, "succeeded")
  /\ docs' = [docs EXCEPT ![tasks[t].index] = Stored(@, tasks[t].writes)]
  /\ indexes' = [indexes EXCEPT ![tasks[t].index] = IF @ = "absent" THEN "created" ELSE @]
  /\ UNCHANGED <<late, faults>>

(* The task fails or is canceled: nothing of it is applied. *)
FailTask(t) == /\ t \in NextTasks /\ Mishap /\ Ends(t, "failed")
               /\ UNCHANGED <<docs, indexes, late>>

(* The task is gone: a poll is answered task_not_found from now on.  An    *)
(* enqueued one takes its write with it.                                   *)
ForgetTask(t) == /\ tasks[t].status # "unknown"
                 /\ Mishap /\ Ends(t, "unknown")
                 /\ UNCHANGED <<docs, indexes, late>>

(* Meilisearch is restored from a snapshot of when it was fresh. *)
Restore == /\ "restore" \in RareMishaps /\ tasks # <<>> /\ Mishap
           /\ tasks' = <<>> /\ UNCHANGED late
           /\ docs' = [i \in Indexes |-> [d \in Docs |-> 0]]
           /\ indexes' = [i \in Indexes |-> "absent"]

(* What a poll of a task is answered. *)
Status(t) == IF t \in DOMAIN tasks THEN tasks[t].status ELSE "unknown"

ApplyTask == \E t \in NextTasks : ApplyCreate(t) \/ ApplySettings(t) \/ ApplyWrite(t)

LoseTask == \E t \in DOMAIN tasks : FailTask(t) \/ ForgetTask(t)

=============================================================================
