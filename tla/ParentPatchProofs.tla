-------------------------- MODULE ParentPatchProofs ------------------------
(***************************************************************************)
(* Proofs about a route with `update_where`, for any number of parents,    *)
(* documents, messages, owner's writes and mishaps and for batches and     *)
(* pages of every size.                                                    *)
(***************************************************************************)
EXTENDS ParentPatch, FiniteSetTheorems, SequenceTheorems, WellFoundedInduction,
        NaturalsInduction, TLAPS

(***************************************************************************)
(* Numbers.                                                                *)
(***************************************************************************)
Below == {p \in Nat \X Nat : p[1] < p[2]}

(* A set of natural numbers has a least one. *)
LEMMA LeastNat ==
  ASSUME NEW S, S \subseteq Nat, S # {}
  PROVE  \E m \in S : \A k \in S : m <= k
<1>1. IsWellFoundedOn(Below, Nat)
  <2>1. IsWellFoundedOn(OpToRel(<, Nat), Nat)
    BY NatLessThanWellFounded
  <2>2. OpToRel(<, Nat) = Below
    BY DEF OpToRel, Below
  <2>3. QED BY <2>1, <2>2
<1>2. PICK m \in S : \A k \in S : ~(<<k, m>> \in Below)
  BY <1>1, WFMin
<1>3. \A j \in Nat, k \in Nat : j < k => <<j, k>> \in Below
  BY DEF Below
<1>4. ASSUME NEW k \in S, ~(m <= k) PROVE FALSE
  <2>1. m \in Nat /\ k \in Nat /\ k < m
    BY <1>4
  <2>2. QED BY <1>2, <1>3, <2>1
<1>5. QED BY <1>4

(* What Min and Max of FiniteSetsExt choose. *)
LEMMA MinOf ==
  ASSUME NEW S, S \subseteq Nat, S # {}
  PROVE  Min(S) \in S /\ \A k \in S : Min(S) <= k
BY LeastNat DEF Min

LEMMA MaxOf ==
  ASSUME NEW N \in Nat, NEW S, S \subseteq 0 .. N, S # {}
  PROVE  Max(S) \in S /\ \A k \in S : k <= Max(S)
<1> DEFINE T == {k \in 0 .. N : N - k \in S}
<1>1. T \subseteq Nat /\ T # {}
  <2>1. PICK k \in S : TRUE
    OBVIOUS
  <2>2. N - k \in 0 .. N /\ N - (N - k) = k
    BY <2>1
  <2>3. N - k \in T
    BY <2>1, <2>2
  <2>4. QED BY <2>3
<1>2. PICK m \in T : \A k \in T : m <= k
  BY <1>1, LeastNat
<1>3. ASSUME NEW k \in S PROVE k <= N - m
  <2>1. k \in 0 .. N /\ N - k \in 0 .. N /\ N - (N - k) = k
    OBVIOUS
  <2>2. N - k \in T
    BY <2>1
  <2>3. m <= N - k
    BY <1>2, <2>2
  <2>4. QED BY <1>2, <2>1, <2>3
<1>4. \E j \in S : \A k \in S : k <= j
  BY <1>2, <1>3
<1>5. QED BY <1>4 DEF Max

-----------------------------------------------------------------------------
(***************************************************************************)
(* What changes make of documents.                                         *)
(***************************************************************************)
Contents == [Docs -> [Parts -> Nat]]

LEMMA TaskParts ==
  ASSUME NEW ts \in Seq(Task)
  PROVE  /\ Len(ts) \in Nat /\ DOMAIN ts = 1 .. Len(ts)
         /\ \A t \in 1 .. Len(ts) :
              /\ ts[t] \in Task /\ ts[t].changes \in Seq(Change)
              /\ ts[t].status \in {"enqueued", "succeeded", "failed", "unknown"}
<1>1. Len(ts) \in Nat /\ DOMAIN ts = 1 .. Len(ts) /\ \A t \in 1 .. Len(ts) : ts[t] \in Task
  BY ElementOfSeq, LenProperties
<1>2. QED BY <1>1 DEF Task

LEMMA ChangeParts ==
  ASSUME NEW changes \in Seq(Change)
  PROVE  /\ Len(changes) \in Nat /\ DOMAIN changes = 1 .. Len(changes)
         /\ \A k \in DOMAIN changes :
              /\ changes[k].doc \in Docs /\ changes[k].part \in Parts
              /\ changes[k].number \in Nat
<1>1. /\ Len(changes) \in Nat /\ DOMAIN changes = 1 .. Len(changes)
      /\ \A k \in 1 .. Len(changes) : changes[k] \in Change
  BY ElementOfSeq, LenProperties
<1>2. QED BY <1>1 DEF Change

(* The changes that decide what a part of a document becomes.              *)
Deciding(changes, d, p) ==
  {k \in DOMAIN changes : /\ changes[k].doc = d
                          /\ changes[k].part = p \/ changes[k].number = 0}

LEMMA AfterPart ==
  ASSUME NEW contents \in Contents, NEW changes \in Seq(Change), NEW d \in Docs, NEW p \in Parts
  PROVE  /\ Deciding(changes, d, p) = {} => After(contents, changes)[d][p] = contents[d][p]
         /\ Deciding(changes, d, p) # {} =>
              /\ Max(Deciding(changes, d, p)) \in Deciding(changes, d, p)
              /\ \A k \in Deciding(changes, d, p) : k <= Max(Deciding(changes, d, p))
              /\ After(contents, changes)[d][p] = changes[Max(Deciding(changes, d, p))].number
<1>1. After(contents, changes)[d][p]
        = IF Deciding(changes, d, p) = {} THEN contents[d][p]
          ELSE changes[Max(Deciding(changes, d, p))].number
  BY DEF After, Deciding
<1>2. Deciding(changes, d, p) \subseteq 0 .. Len(changes) /\ Len(changes) \in Nat
  BY ChangeParts DEF Deciding
<1>3. QED BY <1>1, <1>2, MaxOf

LEMMA AfterType ==
  ASSUME NEW contents \in Contents, NEW changes \in Seq(Change)
  PROVE  After(contents, changes) \in Contents
<1>1. ASSUME NEW d \in Docs, NEW p \in Parts
      PROVE  After(contents, changes)[d][p] \in Nat
  <2>1. contents[d][p] \in Nat
    BY DEF Contents
  <2>2. \A k \in Deciding(changes, d, p) : changes[k].number \in Nat
    BY ChangeParts DEF Deciding
  <2>3. QED BY <2>1, <2>2, AfterPart
<1>2. After(contents, changes)
        = [d \in Docs |-> [p \in Parts |-> After(contents, changes)[d][p]]]
  BY DEF After
<1>3. QED BY <1>1, <1>2 DEF Contents

(* A document exists if one of its parts does.                             *)
LEMMA ExistsByPart ==
  ASSUME NEW contents \in Contents, NEW d \in Docs
  PROVE  d \in Existing(contents) <=> \E p \in Parts : contents[d][p] # 0
BY DEF Existing, Gone, Contents

(* Changes leave a document alone that none of them is for; whether it     *)
(* exists behind those that are for it, the last of them says.             *)
LEMMA ExistsAfter ==
  ASSUME NEW contents \in Contents, NEW changes \in Seq(Change), NEW d \in Docs
  PROVE  d \in Existing(After(contents, changes)) <=>
           IF d \in {c.doc : c \in Range(changes)} THEN Keeps(changes, d)
           ELSE d \in Existing(contents)
<1> DEFINE K == {k \in DOMAIN changes : changes[k].doc = d}
           new == After(contents, changes)
<1>1. new \in Contents
  BY AfterType
<1>2. K \subseteq 0 .. Len(changes) /\ Len(changes) \in Nat
  BY ChangeParts
<1>3. d \in {c.doc : c \in Range(changes)} <=> K # {}
  BY DEF Range
<1>4. \A p \in Parts : Deciding(changes, d, p) \subseteq K
  BY DEF Deciding
<1>5. CASE K = {}
  <2>1. \A p \in Parts : new[d][p] = contents[d][p]
    BY <1>4, <1>5, AfterPart
  <2> HIDE DEF new
  <2>2. d \in Existing(new) <=> d \in Existing(contents)
    BY <1>1, <2>1, ExistsByPart
  <2>3. QED BY <1>3, <1>5, <2>2 DEF new
<1>6. CASE K # {}
  <2> DEFINE last == Max(K)
  <2> HIDE DEF K
  <2>1. last \in K /\ \A k \in K : k <= last
    BY <1>2, <1>6, MaxOf
  <2>2. Keeps(changes, d) <=> changes[last].number # 0
    BY DEF Keeps, K
  <2> HIDE DEF last
  <2>3. last \in DOMAIN changes /\ changes[last].doc = d /\ changes[last].part \in Parts
    BY <2>1, ChangeParts DEF K
  <2>4. ASSUME NEW p \in Parts, last \in Deciding(changes, d, p)
        PROVE  new[d][p] = changes[last].number
    <3>1. /\ Max(Deciding(changes, d, p)) \in Deciding(changes, d, p)
          /\ \A k \in Deciding(changes, d, p) : k <= Max(Deciding(changes, d, p))
          /\ new[d][p] = changes[Max(Deciding(changes, d, p))].number
      BY <2>4, AfterPart
    <3>2. Max(Deciding(changes, d, p)) \in K
      BY <1>4, <3>1
    <3>3. last <= Max(Deciding(changes, d, p)) /\ Max(Deciding(changes, d, p)) <= last
      BY <2>1, <2>4, <3>1, <3>2
    <3>4. last \in Nat /\ Max(Deciding(changes, d, p)) \in Nat
      <4>1. \A k \in K : k \in Nat
        BY <1>2
      <4>2. QED BY <2>1, <3>2, <4>1
    <3>5. Max(Deciding(changes, d, p)) = last
      BY <3>3, <3>4
    <3>6. QED BY <3>1, <3>5
  <2>5. CASE changes[last].number = 0
    <3>1. \A p \in Parts : last \in Deciding(changes, d, p)
      BY <2>3, <2>5 DEF Deciding
    <3>2. \A p \in Parts : new[d][p] = 0
      BY <2>4, <2>5, <3>1
    <3> HIDE DEF new
    <3>3. d \notin Existing(new)
      BY <1>1, <3>2, ExistsByPart
    <3>4. QED BY <1>3, <1>6, <2>2, <2>5, <3>3 DEF new
  <2>6. CASE changes[last].number # 0
    <3>1. PICK p \in Parts : p = changes[last].part
      BY <2>3
    <3>2. last \in Deciding(changes, d, p)
      BY <2>3, <3>1 DEF Deciding
    <3>3. new[d][p] # 0
      BY <2>4, <2>6, <3>2
    <3> HIDE DEF new
    <3>4. d \in Existing(new)
      BY <1>1, <3>3, ExistsByPart
    <3>5. QED BY <1>3, <1>6, <2>2, <2>6, <3>4 DEF new
  <2>7. QED BY <2>5, <2>6
<1>7. QED BY <1>5, <1>6

-----------------------------------------------------------------------------
(***************************************************************************)
(* What the steps of Meilisearch and of the owner do to the queue.         *)
(***************************************************************************)
(* A task that ended was the oldest of the queue, unless it is gone. *)
Fifo == \A t, u \in DOMAIN tasks :
          u < t /\ tasks[t].status \in {"succeeded", "failed"} => u \notin Pending

(* What the queue makes of the documents outside S stays the same. *)
Unaltered(S) == \A d \in Docs \ S : d \in Promised' <=> d \in Promised

(* No task is added, and the queue loses at most t. *)
QueueLoses(t) == /\ Len(tasks') = Len(tasks) /\ DOMAIN tasks' = DOMAIN tasks
                 /\ Pending' = Pending \ {t}
                 /\ \A u \in DOMAIN tasks : tasks'[u].changes = tasks[u].changes

(* What is known of a document is known of the tasks that are for it. *)
LEMMA PromisedOf ==
  ASSUME NEW d \in Docs
  PROVE  /\ Writers(d) = {} => (d \in Promised <=> d \in Existing(docs))
         /\ Writers(d) # {} => (d \in Promised <=> Keeps(tasks[Max(Writers(d))].changes, d))
BY DEF Promised

LEMMA PromisedOfNext ==
  ASSUME NEW d \in Docs
  PROVE  /\ Writers(d)' = {} => (d \in Promised' <=> d \in Existing(docs'))
         /\ \A W \in {Writers(d)'} :
              W # {} => (d \in Promised' <=> Keeps(tasks'[Max(W)].changes, d))
BY DEF Promised, Existing

(* A task that ended or is gone is the same but for its status. *)
LEMMA EndedTask ==
  ASSUME tasks \in Seq(Task), NEW t \in DOMAIN tasks,
         NEW status \in {"succeeded", "failed", "unknown"}, Ends(t, status)
  PROVE  /\ tasks' \in Seq(Task) /\ QueueLoses(t) /\ tasks'[t].status = status
         /\ \A u \in DOMAIN tasks : u # t => tasks'[u] = tasks[u]
<1>1. /\ Len(tasks) \in Nat /\ DOMAIN tasks = 1 .. Len(tasks)
      /\ \A u \in 1 .. Len(tasks) : tasks[u] \in Task
  BY TaskParts
<1>2. [tasks[t] EXCEPT !.status = status] \in Task
  BY <1>1 DEF Task
<1>3. tasks' \in Seq(Task) /\ Len(tasks') = Len(tasks) /\ DOMAIN tasks' = DOMAIN tasks
  BY <1>1, <1>2 DEF Ends
<1>4. /\ \A u \in DOMAIN tasks : u # t => tasks'[u] = tasks[u]
      /\ tasks'[t].status = status /\ tasks'[t].changes = tasks[t].changes
  BY <1>1 DEF Ends, Task
<1>5. \A u \in DOMAIN tasks : tasks'[u].changes = tasks[u].changes
  BY <1>4
<1>6. Pending' = Pending \ {t}
  BY <1>3, <1>4 DEF Pending
<1>7. QED BY <1>3, <1>4, <1>5, <1>6 DEF QueueLoses

LEMMA PendingTasks ==
  ASSUME tasks \in Seq(Task)
  PROVE  /\ Len(tasks) \in Nat /\ Pending \subseteq 1 .. Len(tasks)
         /\ \A d : Writers(d) \subseteq Pending
BY TaskParts DEF Pending, Writers

(* A step that takes task t out of the queue leaves the documents alone    *)
(* that t is not for.                                                      *)
LEMMA TakenElsewhere ==
  ASSUME tasks \in Seq(Task), NEW t, QueueLoses(t), NEW d \in Docs, d \notin Touched(t),
         d \in Existing(docs') <=> d \in Existing(docs)
  PROVE  d \in Promised' <=> d \in Promised
<1>1. /\ \A u \in DOMAIN tasks : tasks'[u].changes = tasks[u].changes
      /\ Pending' = Pending \ {t} /\ Pending \subseteq DOMAIN tasks
  BY DEF QueueLoses, Pending
<1>2. \A u \in DOMAIN tasks : Touched(u)' = Touched(u)
  BY <1>1 DEF Touched
<1>3. Writers(d)' = Writers(d)
  BY <1>1, <1>2 DEF Writers
<1>4. CASE Writers(d) = {}
  BY <1>3, <1>4, PromisedOf, PromisedOfNext
<1>5. CASE Writers(d) # {}
  <2>1. Max(Writers(d)) \in DOMAIN tasks
    BY <1>1, <1>5, PendingTasks, MaxOf
  <2>2. tasks'[Max(Writers(d))].changes = tasks[Max(Writers(d))].changes
    BY <1>1, <2>1
  <2>3. QED BY <1>3, <1>5, <2>2, PromisedOf, PromisedOfNext
<1>6. QED BY <1>4, <1>5

(* The oldest task of the queue is applied: what was to be expected of the *)
(* documents stays so.                                                     *)
LEMMA TakenApplied ==
  ASSUME tasks \in Seq(Task), docs \in Contents, NEW t \in Pending, \A u \in Pending : t <= u,
         QueueLoses(t), docs' = After(docs, tasks[t].changes),
         NEW d \in Docs, d \in Touched(t)
  PROVE  d \in Promised' <=> d \in Promised
<1>1. /\ \A u \in DOMAIN tasks : tasks'[u].changes = tasks[u].changes
      /\ Pending' = Pending \ {t} /\ t \in DOMAIN tasks
      /\ Pending \subseteq DOMAIN tasks
  BY DEF QueueLoses, Pending
<1>2. \A u \in DOMAIN tasks : Touched(u)' = Touched(u)
  BY <1>1 DEF Touched
<1>3. Writers(d)' = Writers(d) \ {t} /\ t \in Writers(d)
  BY <1>1, <1>2 DEF Writers
<1>4. Writers(d) \subseteq 0 .. Len(tasks) /\ Len(tasks) \in Nat /\ Writers(d) \subseteq Pending
  BY PendingTasks
<1>5. Max(Writers(d)) \in Writers(d) /\ \A u \in Writers(d) : u <= Max(Writers(d))
  BY <1>3, <1>4, MaxOf
<1>6. CASE Writers(d)' = {}
  <2>1. Max(Writers(d)) = t
    BY <1>3, <1>5, <1>6
  <2>2. d \in Promised <=> Keeps(tasks[t].changes, d)
    BY <1>3, <2>1, PromisedOf
  <2>3. d \in Existing(docs') <=> Keeps(tasks[t].changes, d)
    <3>1. tasks[t].changes \in Seq(Change)
      BY <1>1, TaskParts
    <3>2. d \in {c.doc : c \in Range(tasks[t].changes)}
      BY DEF Touched
    <3>3. QED BY <3>1, <3>2, ExistsAfter
  <2>4. QED BY <1>6, <2>2, <2>3, PromisedOfNext
<1>7. CASE Writers(d)' # {}
  <2>1. PICK W : W = Writers(d)'
    OBVIOUS
  <2>2. Max(W) \in W /\ \A u \in W : u <= Max(W)
    <3>1. W \subseteq 0 .. Len(tasks) /\ W # {}
      BY <1>3, <1>4, <1>7, <2>1
    <3>2. QED BY <1>4, <3>1, MaxOf
  <2>3. Max(W) = Max(Writers(d))
    <3>1. PICK u \in W : TRUE
      BY <1>7, <2>1
    <3>2. u \in Writers(d) /\ u \in Pending /\ u # t /\ u \in Nat /\ t \in Nat
      BY <1>3, <1>4, <2>1, <3>1
    <3>3. t < u /\ u <= Max(Writers(d)) /\ Max(Writers(d)) \in Nat
      BY <1>4, <1>5, <3>2
    <3>4. Max(Writers(d)) \in W
      BY <1>3, <1>5, <2>1, <3>2, <3>3
    <3>5. Max(W) \in Writers(d) /\ Max(W) \in Nat
      BY <1>3, <1>4, <2>1, <2>2
    <3>6. Max(W) <= Max(Writers(d)) /\ Max(Writers(d)) <= Max(W)
      BY <1>5, <2>2, <3>4, <3>5
    <3>7. QED BY <3>3, <3>5, <3>6
  <2>4. tasks'[Max(W)].changes = tasks[Max(W)].changes
    BY <1>1, <1>3, <2>1, <2>2, <1>4
  <2>5. d \in Promised' <=> Keeps(tasks'[Max(W)].changes, d)
    BY <1>7, <2>1, PromisedOfNext
  <2>6. QED BY <1>3, <2>3, <2>4, <2>5, PromisedOf
<1>8. QED BY <1>6, <1>7

LEMMA ApplyKeeps ==
  ASSUME ServerTypeOK, Fifo, NEW t \in DOMAIN tasks, Apply(t)
  PROVE  /\ ServerTypeOK' /\ Fifo' /\ QueueLoses(t) /\ Unaltered({})
         /\ t \in Pending /\ \A u \in Pending : t <= u
<1>1. /\ tasks \in Seq(Task) /\ docs \in Contents
      /\ Ends(t, "succeeded") /\ docs' = After(docs, tasks[t].changes)
      /\ Pending # {} /\ t = Min(Pending)
      /\ UNCHANGED <<owned, faults, expected, disturbed>>
  BY DEF ServerTypeOK, Apply, Contents
<1>2. /\ tasks' \in Seq(Task) /\ QueueLoses(t)
      /\ \A u \in DOMAIN tasks : u # t => tasks'[u] = tasks[u]
  BY <1>1, EndedTask
<1>3. t \in Pending /\ \A u \in Pending : t <= u
  <2>1. Pending \subseteq Nat
    BY <1>1, PendingTasks
  <2>2. QED BY <1>1, <2>1, MinOf
<1>4. tasks[t].changes \in Seq(Change)
  BY <1>1, TaskParts
<1>5. docs' \in Contents
  BY <1>1, <1>4, AfterType
<1>6. ServerTypeOK'
  BY <1>1, <1>2, <1>5 DEF ServerTypeOK, Contents
<1>7. Fifo'
  <2>1. SUFFICES ASSUME NEW s \in DOMAIN tasks, NEW u \in DOMAIN tasks, u < s,
                        tasks'[s].status \in {"succeeded", "failed"}, u \in Pending \ {t}
                 PROVE  FALSE
    BY <1>2 DEF Fifo, QueueLoses
  <2>2. CASE s = t
    BY <1>1, <1>3, <2>1, <2>2, TaskParts
  <2>3. CASE s # t
    BY <1>2, <2>1, <2>3 DEF Fifo
  <2>4. QED BY <2>2, <2>3
<1>8. Unaltered({})
  <2>1. SUFFICES ASSUME NEW d \in Docs PROVE d \in Promised' <=> d \in Promised
    BY DEF Unaltered
  <2>2. CASE d \in Touched(t)
    BY <1>1, <1>2, <1>3, <2>2, TakenApplied
  <2>3. CASE d \notin Touched(t)
    <3>1. d \in Existing(docs') <=> d \in Existing(docs)
      BY <1>1, <1>4, <2>3, ExistsAfter DEF Touched
    <3>2. QED BY <1>1, <1>2, <2>3, <3>1, TakenElsewhere
  <2>4. QED BY <2>2, <2>3
<1>9. QED BY <1>2, <1>3, <1>6, <1>7, <1>8

LEMMA LoseKeeps ==
  ASSUME ServerTypeOK, Fifo, NEW t \in DOMAIN tasks, Lose(t)
  PROVE  ServerTypeOK' /\ Fifo' /\ QueueLoses(t) /\ Unaltered(Touched(t))
<1>1. PICK status \in {"failed", "unknown"} :
        Ends(t, status) /\ (status = "failed" => Pending # {} /\ t = Min(Pending))
  BY DEF Lose
<1>2. /\ tasks \in Seq(Task) /\ docs \in Contents
      /\ faults' \in 0 .. MaxFaults /\ disturbed' = disturbed \cup Touched(t)
      /\ UNCHANGED <<docs, owned, expected>>
  BY SharedIndexAssumption DEF ServerTypeOK, Lose, Mishap, Contents, SharedIndexAssumption
<1>3. /\ tasks' \in Seq(Task) /\ QueueLoses(t) /\ tasks'[t].status = status
      /\ \A u \in DOMAIN tasks : u # t => tasks'[u] = tasks[u]
  BY <1>1, <1>2, EndedTask
<1>4. Touched(t) \subseteq Docs
  BY <1>2, TaskParts, ChangeParts DEF Touched, Range
<1>5. ServerTypeOK'
  BY <1>2, <1>3, <1>4 DEF ServerTypeOK, Contents
<1>6. Fifo'
  <2>1. SUFFICES ASSUME NEW s \in DOMAIN tasks, NEW u \in DOMAIN tasks, u < s,
                        tasks'[s].status \in {"succeeded", "failed"}, u \in Pending \ {t}
                 PROVE  FALSE
    BY <1>3 DEF Fifo, QueueLoses
  <2>2. CASE s = t
    <3>1. Pending \subseteq Nat /\ t = Min(Pending)
      BY <1>1, <1>2, <1>3, <2>1, <2>2, PendingTasks
    <3>2. t <= u
      BY <2>1, <3>1, MinOf
    <3>3. QED BY <1>2, <2>1, <2>2, <3>2, TaskParts
  <2>3. CASE s # t
    BY <1>3, <2>1, <2>3 DEF Fifo
  <2>4. QED BY <2>2, <2>3
<1>7. Unaltered(Touched(t))
  <2>1. ASSUME NEW d \in Docs, d \notin Touched(t) PROVE d \in Promised' <=> d \in Promised
    BY <1>2, <1>3, <2>1, TakenElsewhere DEF Existing
  <2>2. QED BY <2>1 DEF Unaltered
<1>8. QED BY <1>3, <1>5, <1>6, <1>7

(* The queue grows by a task that makes these changes. *)
QueueGrows(changes) ==
  /\ Len(tasks') = Len(tasks) + 1
  /\ Pending' = Pending \cup {Len(tasks) + 1}
  /\ \A u \in DOMAIN tasks : tasks'[u] = tasks[u]
  /\ \A u \in {Len(tasks) + 1} : tasks'[u].changes = changes /\ tasks'[u].status = "enqueued"

LEMMA EnqueuedKeeps ==
  ASSUME ServerTypeOK, Fifo, NEW changes \in Seq(Change), Enqueued(changes),
         UNCHANGED docs, owned' \in 0 .. MaxOwner, faults' \in 0 .. MaxFaults,
         expected' \subseteq Docs, disturbed' \subseteq Docs
  PROVE  /\ ServerTypeOK' /\ Fifo' /\ QueueGrows(changes)
         /\ Unaltered({c.doc : c \in Range(changes)})
<1> DEFINE q == [changes |-> changes, status |-> "enqueued"]
<1>1. q \in Task /\ tasks \in Seq(Task) /\ tasks' = Append(tasks, q)
  BY DEF Task, ServerTypeOK, Enqueued
<1>2. q.changes = changes /\ q.status = "enqueued"
  OBVIOUS
<1> HIDE DEF q
<1>3. /\ Len(tasks) \in Nat /\ DOMAIN tasks = 1 .. Len(tasks)
      /\ tasks' \in Seq(Task) /\ Len(tasks') = Len(tasks) + 1
      /\ DOMAIN tasks' = 1 .. Len(tasks) + 1
      /\ \A u \in DOMAIN tasks : tasks'[u] = tasks[u]
      /\ tasks'[Len(tasks) + 1] = q
  BY <1>1, TaskParts
<1>4. ServerTypeOK'
  BY <1>3 DEF ServerTypeOK
<1>5. Pending' = Pending \cup {Len(tasks) + 1}
  BY <1>2, <1>3 DEF Pending
<1>6. QueueGrows(changes)
  BY <1>2, <1>3, <1>5 DEF QueueGrows
<1>7. Fifo'
  BY <1>2, <1>3, <1>5 DEF Fifo
<1>8. ASSUME NEW d \in Docs, d \notin {c.doc : c \in Range(changes)}
      PROVE  d \in Promised' <=> d \in Promised
  <2>1. \A u \in DOMAIN tasks : Touched(u)' = Touched(u)
    BY <1>3 DEF Touched
  <2>2. \A u \in {Len(tasks) + 1} : d \notin Touched(u)'
    BY <1>2, <1>3, <1>8 DEF Touched
  <2>3. Pending \subseteq DOMAIN tasks
    BY DEF Pending
  <2>4. Writers(d)' = Writers(d)
    BY <1>5, <2>1, <2>2, <2>3 DEF Writers
  <2>5. CASE Writers(d) = {}
    BY <2>4, <2>5, PromisedOf, PromisedOfNext
  <2>6. CASE Writers(d) # {}
    <3>1. Max(Writers(d)) \in DOMAIN tasks
      <4>1. Writers(d) \subseteq 0 .. Len(tasks) /\ Writers(d) \subseteq DOMAIN tasks
        BY <1>1, <2>3, PendingTasks
      <4>2. QED BY <1>3, <2>6, <4>1, MaxOf
    <3>2. tasks'[Max(Writers(d))].changes = tasks[Max(Writers(d))].changes
      BY <1>3, <3>1
    <3>3. QED BY <2>4, <2>6, <3>2, PromisedOf, PromisedOfNext
  <2>7. QED BY <2>5, <2>6
<1>9. QED BY <1>4, <1>6, <1>7, <1>8 DEF Unaltered

-----------------------------------------------------------------------------
(***************************************************************************)
(* The call and the source.                                                *)
(***************************************************************************)
SourceTypes ==
  /\ place \in Places /\ sizes \in Sizes
  /\ stream \in Streams /\ stream \in Seq(Parents \cup {NoParent})
  /\ committed \in 0 .. Len(stream) /\ received \in committed .. Len(stream)
  /\ backlog \subseteq 1 .. received /\ acked \subseteq 1 .. received /\ dead \subseteq 1 .. received

CallTypes ==
  /\ phase \in {"idle", "issue", "await", "page", "write", "confirm"}
  /\ batch \in Seq(DOMAIN stream) /\ position \in 0 .. Len(batch) + 1
  /\ settled \in BOOLEAN /\ ids \in Seq(Docs) /\ unsent \in Seq(Docs)
  /\ failures \in [DOMAIN batch -> Failure \cup {"none"}]
  /\ first \in Failure \cup {"none"} /\ confirmed \in 0 .. Len(issued)

TaskTypes ==
  /\ awaited \in 0 .. Len(tasks) /\ requests \in Seq(DOMAIN tasks)
  /\ issued \in Seq([position : DOMAIN batch, tasks : Seq(DOMAIN tasks)])

(* The messages of a call come in order, behind what is committed and what *)
(* was delivered; so do those to resend.  All that is read and not         *)
(* committed is of one batch.                                              *)
Numbers ==
  /\ \A i \in DOMAIN batch : committed < batch[i] /\ batch[i] <= received
  /\ \A i, j \in DOMAIN batch : i < j => batch[i] < batch[j]
  /\ received <= committed + sizes.batch
  /\ \A m \in backlog : committed < m
  /\ \A a \in acked : /\ \A m \in backlog : a < m
                      /\ \A i \in DOMAIN batch : a < batch[i]

Working == phase \in {"issue", "await", "page", "write"}

Phases ==
  /\ Working => position \in DOMAIN batch
  /\ phase \in {"await", "page", "write"} => settled /\ Parent # NoParent
  /\ phase = "await" => awaited # 0
  /\ phase \in {"idle", "issue", "await"} => ids = <<>> /\ unsent = <<>> /\ requests = <<>>
  /\ phase = "page" => unsent = <<>> /\ requests = <<>>
  /\ phase = "idle" => batch = <<>> /\ issued = <<>> /\ ~settled
  /\ Working /\ ~settled => issued = <<>>

HasEntry(i) == \E k \in DOMAIN issued : issued[k].position = i
Rejected(i) == stream[batch[i]] = NoParent /\ failures[i] = "permanent"
Failing(k) == failures[issued[k].position] # "none"
Unissued(i) == issued # <<>> /\ i > issued[Len(issued)].position /\ Failing(Len(issued))

(* The messages turned to are those issued and those rejected; once the    *)
(* confirming has begun, the others lie behind one that failed.            *)
Placed ==
  /\ \A k \in DOMAIN issued : /\ issued[k].position <= position
                              /\ phase # "confirm" => issued[k].position < position
                              /\ stream[batch[issued[k].position]] # NoParent
  /\ \A k, l \in DOMAIN issued : k < l => issued[k].position < issued[l].position
  /\ phase # "confirm" =>
       /\ first = "none" /\ confirmed = 0
       /\ \A i \in DOMAIN batch : failures[i] # "none" => Rejected(i) /\ i < position
  /\ Working => \A i \in DOMAIN batch : i < position => HasEntry(i) \/ Rejected(i)
  /\ phase = "confirm" => \A i \in DOMAIN batch : HasEntry(i) \/ Rejected(i) \/ Unissued(i)

(* From the first entry on that failed, all that are confirmed fail.       *)
Concluded ==
  phase = "confirm" =>
    /\ \A k \in 1 .. confirmed : Failing(k) => first # "none"
    /\ \A k, l \in 1 .. confirmed : k < l /\ Failing(k) => Failing(l)
    /\ \A i \in DOMAIN batch : failures[i] = "retryable" => HasEntry(i)

CallInv == /\ ServerTypeOK /\ Fifo /\ SourceTypes /\ CallTypes /\ TaskTypes
           /\ Numbers /\ Phases /\ Placed /\ Concluded

(* What the elements of the sequences of the call are. *)
LEMMA CallParts ==
  ASSUME CallInv
  PROVE  /\ tasks \in Seq(Task) /\ Len(tasks) \in Nat /\ DOMAIN tasks = 1 .. Len(tasks)
         /\ Len(stream) \in Nat /\ DOMAIN stream = 1 .. Len(stream)
         /\ received \in Nat /\ committed \in Nat /\ position \in Nat
         /\ Len(batch) \in Nat /\ DOMAIN batch = 1 .. Len(batch)
         /\ \A i \in 1 .. Len(batch) : batch[i] \in 1 .. Len(stream)
         /\ Len(issued) \in Nat /\ DOMAIN issued = 1 .. Len(issued)
         /\ \A k \in 1 .. Len(issued) : /\ issued[k].position \in 1 .. Len(batch)
                                        /\ issued[k].tasks \in Seq(1 .. Len(tasks))
<1>1. /\ tasks \in Seq(Task) /\ stream \in Seq(Parents \cup {NoParent})
      /\ batch \in Seq(DOMAIN stream)
      /\ issued \in Seq([position : DOMAIN batch, tasks : Seq(DOMAIN tasks)])
  BY DEF CallInv, ServerTypeOK, SourceTypes, CallTypes, TaskTypes
<1>2. /\ Len(tasks) \in Nat /\ DOMAIN tasks = 1 .. Len(tasks)
      /\ Len(stream) \in Nat /\ DOMAIN stream = 1 .. Len(stream)
      /\ Len(batch) \in Nat /\ DOMAIN batch = 1 .. Len(batch)
      /\ Len(issued) \in Nat /\ DOMAIN issued = 1 .. Len(issued)
  BY <1>1, LenProperties
<1>3. \A i \in 1 .. Len(batch) : batch[i] \in 1 .. Len(stream)
  BY <1>1, <1>2, ElementOfSeq
<1>4. \A k \in 1 .. Len(issued) : issued[k] \in [position : 1 .. Len(batch),
                                                 tasks : Seq(1 .. Len(tasks))]
  BY <1>1, <1>2, ElementOfSeq
<1>5. /\ committed \in 0 .. Len(stream) /\ received \in committed .. Len(stream)
      /\ position \in 0 .. Len(batch) + 1
  BY DEF CallInv, SourceTypes, CallTypes
<1>6. received \in Nat /\ committed \in Nat /\ position \in Nat
  BY <1>2, <1>5
<1>7. QED BY <1>1, <1>2, <1>3, <1>4, <1>6

LEMMA SeqGrows ==
  ASSUME NEW S, NEW T, S \subseteq T, NEW s \in Seq(S)
  PROVE  s \in Seq(T)
<1>1. Len(s) \in Nat /\ s \in [1 .. Len(s) -> S]
  BY LenProperties
<1>2. \A k \in 1 .. Len(s) : s[k] \in T
  BY <1>1
<1>3. s \in [1 .. Len(s) -> T]
  BY <1>1, <1>2
<1>4. QED BY <1>1, <1>3, SeqDef

(* No task is forgotten, so what is noted of tasks stays of its type. *)
LEMMA TasksNoted ==
  ASSUME TaskTypes, ServerTypeOK, ServerTypeOK', Len(tasks) <= Len(tasks')
  PROVE  /\ awaited \in 0 .. Len(tasks') /\ requests \in Seq(DOMAIN tasks')
         /\ issued \in Seq([position : DOMAIN batch, tasks : Seq(DOMAIN tasks')])
<1>1. /\ Len(tasks) \in Nat /\ Len(tasks') \in Nat
      /\ DOMAIN tasks = 1 .. Len(tasks) /\ DOMAIN tasks' = 1 .. Len(tasks')
  BY LenProperties DEF ServerTypeOK
<1>2. DOMAIN tasks \subseteq DOMAIN tasks'
  BY <1>1
<1>3. \A s \in Seq(DOMAIN tasks) : s \in Seq(DOMAIN tasks')
  BY <1>2, SeqGrows
<1> DEFINE E == [position : DOMAIN batch, tasks : Seq(DOMAIN tasks)]
           F == [position : DOMAIN batch, tasks : Seq(DOMAIN tasks')]
<1>4. E \subseteq F
  BY <1>3
<1>5. issued \in Seq(E)
  BY DEF TaskTypes
<1> HIDE DEF E, F
<1>6. issued \in Seq(F)
  BY <1>4, <1>5, SeqGrows
<1>7. QED BY <1>1, <1>3, <1>6 DEF TaskTypes, F

LEMMA FifoStays == ASSUME Fifo, UNCHANGED tasks PROVE Fifo'
BY DEF Fifo, Pending

(* What a step leaves that does not touch the source, or the call. *)
LEMMA SourceStays ==
  ASSUME CallInv, UNCHANGED <<place, source, batch>>
  PROVE  SourceTypes' /\ Numbers'
BY DEF CallInv, SourceTypes, Numbers, source, given

LEMMA ServerStays ==
  ASSUME CallInv, UNCHANGED server
  PROVE  ServerTypeOK' /\ Fifo'
BY FifoStays DEF CallInv, ServerTypeOK, server

LEMMA CallStays ==
  ASSUME CallInv, UNCHANGED <<source, phase, call>>
  PROVE  CallTypes' /\ Numbers' /\ Phases' /\ Placed' /\ Concluded'
<1>1. UNCHANGED <<sizes, stream, received, committed, backlog, acked, dead, phase,
                  batch, position, settled, awaited, ids, unsent, requests, issued, failures,
                  first, confirmed>>
  BY DEF source, given, call, message
<1>2. CallTypes' /\ Numbers' /\ Phases'
  BY <1>1 DEF CallInv, CallTypes, Numbers, Phases, Working, Parent
<1>3. /\ \A i \in DOMAIN batch : (HasEntry(i) => HasEntry(i)') /\ (Rejected(i) <=> Rejected(i)')
                                   /\ (Unissued(i) => Unissued(i)')
      /\ \A k : Failing(k) <=> Failing(k)'
  BY <1>1 DEF HasEntry, Rejected, Unissued, Failing
<1>4. Placed'
  BY <1>1, <1>3 DEF CallInv, Placed, Working
<1>5. Concluded'
  BY <1>1, <1>3 DEF CallInv, Concluded
<1>6. QED BY <1>2, <1>4, <1>5

(* The steps of the server. *)
LEMMA ServerCallStep ==
  ASSUME CallInv, ServerTypeOK', Fifo', Len(tasks) <= Len(tasks'), place' \in Places,
         UNCHANGED <<source, phase, call>>
  PROVE  CallInv'
<1>1. SourceTypes'
  BY DEF CallInv, SourceTypes, source, given
<1>2. TaskTypes'
  <2>1. UNCHANGED <<awaited, requests, issued, batch>>
    BY DEF call, message
  <2>2. QED BY <2>1, TasksNoted DEF CallInv, TaskTypes
<1>3. QED BY <1>1, <1>2, CallStays DEF CallInv

LEMMA ApplyCall ==
  ASSUME CallInv, ApplyTask
  PROVE  /\ CallInv'
         /\ \E t \in Pending : /\ Apply(t) /\ QueueLoses(t) /\ Unaltered({})
                               /\ \A u \in Pending : t <= u
<1>1. PICK t \in Pending : Apply(t) /\ place' \in Rearranged(Touched(t))
  BY DEF ApplyTask
<1>2. t \in DOMAIN tasks
  BY DEF Pending
<1>3. /\ ServerTypeOK' /\ Fifo' /\ QueueLoses(t) /\ Unaltered({})
      /\ \A u \in Pending : t <= u
  BY <1>1, <1>2, ApplyKeeps DEF CallInv
<1>4. place' \in Places
  BY <1>1 DEF Rearranged
<1>5. Len(tasks) <= Len(tasks')
  BY <1>3, CallParts DEF QueueLoses
<1>6. CallInv'
  BY <1>3, <1>4, <1>5, ServerCallStep DEF ApplyTask
<1>7. QED BY <1>1, <1>3, <1>6

LEMMA LoseCall ==
  ASSUME CallInv, LoseTask
  PROVE  /\ CallInv'
         /\ \E t \in DOMAIN tasks : Lose(t) /\ QueueLoses(t) /\ Unaltered(Touched(t))
<1>1. PICK t \in DOMAIN tasks : Lose(t) /\ UNCHANGED <<place, source, phase, call>>
  BY DEF LoseTask
<1>2. ServerTypeOK' /\ Fifo' /\ QueueLoses(t) /\ Unaltered(Touched(t))
  BY <1>1, LoseKeeps DEF CallInv
<1>3. Len(tasks) <= Len(tasks')
  BY <1>2, CallParts DEF QueueLoses
<1>4. place' \in Places
  BY <1>1 DEF CallInv, SourceTypes
<1>5. CallInv'
  BY <1>1, <1>2, <1>3, <1>4, ServerCallStep
<1>6. QED BY <1>1, <1>2, <1>5

LEMMA OwnerCall ==
  ASSUME CallInv, Owner
  PROVE  /\ CallInv'
         /\ \E changes \in Seq(Change), d \in Docs :
              /\ QueueGrows(changes) /\ Unaltered({d})
              /\ {c.doc : c \in Range(changes)} = {d} /\ disturbed' = disturbed \cup {d}
<1>1. PICK d \in Docs, number \in {0, owned + 1} :
        /\ Enqueued(<<[doc |-> d, part |-> "owner", number |-> number]>>)
        /\ disturbed' = disturbed \cup {d}
  BY DEF Owner, OwnerWrites
<1>2. /\ owned' \in 0 .. MaxOwner /\ faults' \in 0 .. MaxFaults /\ owned \in Nat
      /\ expected' \subseteq Docs /\ disturbed' \subseteq Docs
      /\ UNCHANGED docs /\ UNCHANGED <<place, source, phase, call>>
  BY <1>1, SharedIndexAssumption
     DEF Owner, OwnerWrites, CallInv, ServerTypeOK, SharedIndexAssumption
<1>3. PICK changes \in Seq(Change) :
        Enqueued(changes) /\ {c.doc : c \in Range(changes)} = {d}
  <2> DEFINE c == [doc |-> d, part |-> "owner", number |-> number]
  <2>1. c \in Change
    BY <1>2 DEF Change, Parts
  <2>2. <<c>> \in Seq(Change) /\ Range(<<c>>) = {c} /\ c.doc = d
    BY <2>1 DEF Range
  <2>3. Enqueued(<<c>>)
    BY <1>1
  <2> HIDE DEF c
  <2>4. {x.doc : x \in Range(<<c>>)} = {d}
    BY <2>2
  <2>5. QED BY <2>2, <2>3, <2>4
<1>4. ServerTypeOK' /\ Fifo' /\ QueueGrows(changes) /\ Unaltered({c.doc : c \in Range(changes)})
  BY <1>2, <1>3, EnqueuedKeeps DEF CallInv
<1>5. Len(tasks) <= Len(tasks') /\ place' \in Places
  BY <1>2, <1>4, CallParts DEF QueueGrows, CallInv, SourceTypes
<1>6. CallInv'
  BY <1>2, <1>4, <1>5, ServerCallStep
<1>7. QED BY <1>1, <1>3, <1>4, <1>6

-----------------------------------------------------------------------------
(***************************************************************************)
(* The steps of a call keep CallInv.                                       *)
(***************************************************************************)
(* The entries lie where they belong, once the message of this position is *)
(* done with. *)
Entered(p) ==
  /\ \A k \in DOMAIN issued : /\ issued[k].position \in 1 .. p
                              /\ stream[batch[issued[k].position]] # NoParent
  /\ \A k, l \in DOMAIN issued : k < l => issued[k].position < issued[l].position
  /\ \A i \in DOMAIN batch : i <= p => HasEntry(i) \/ Rejected(i)
  /\ \A i \in DOMAIN batch : failures[i] # "none" => Rejected(i) /\ i <= p

LEMMA Turned ==
  ASSUME CallInv, Working, TurnTo(position + 1), UNCHANGED <<stream, batch, first, confirmed>>,
         \A p \in {position} : Entered(p)'
  PROVE  Placed' /\ Concluded' /\ (Working' => position' \in DOMAIN batch')
                 /\ position' \in 0 .. Len(batch') + 1 /\ phase' \in {"issue", "confirm"}
<1>1. /\ Len(batch) \in Nat /\ DOMAIN batch = 1 .. Len(batch) /\ position \in 1 .. Len(batch)
      /\ position' = position + 1 /\ phase' \in {"issue", "confirm"}
      /\ phase' = IF position + 1 > Len(batch) THEN "confirm" ELSE "issue"
      /\ first = "none" /\ confirmed = 0
  BY CallParts DEF CallInv, Phases, Placed, Working, TurnTo
<1>2. /\ \A k \in DOMAIN issued' : /\ issued'[k].position \in 1 .. position
                                   /\ stream'[batch'[issued'[k].position]] # NoParent
      /\ \A k, l \in DOMAIN issued' : k < l => issued'[k].position < issued'[l].position
      /\ \A i \in DOMAIN batch' : i <= position => HasEntry(i)' \/ Rejected(i)'
      /\ \A i \in DOMAIN batch' : failures'[i] # "none" => Rejected(i)' /\ i <= position
  BY DEF Entered
<1>3. \A k \in DOMAIN issued' : issued'[k].position < position' /\ issued'[k].position <= position'
  BY <1>1, <1>2
<1>4. \A i \in DOMAIN batch' : i < position' => HasEntry(i)' \/ Rejected(i)'
  BY <1>1, <1>2
<1>5. phase' = "confirm" => \A i \in DOMAIN batch' : i <= position
  BY <1>1
<1>6. \A i \in DOMAIN batch' : failures'[i] # "none" => Rejected(i)' /\ i < position'
  BY <1>1, <1>2
<1>7. Placed'
  BY <1>1, <1>2, <1>3, <1>4, <1>5, <1>6 DEF Placed, Working
<1>8. Concluded'
  <2>1. \A i \in DOMAIN batch' : failures'[i] # "retryable"
    BY <1>2 DEF Rejected
  <2>2. 1 .. confirmed' = {}
    BY <1>1
  <2>3. QED BY <2>1, <2>2 DEF Concluded
<1>9. QED BY <1>1, <1>7, <1>8 DEF Working

LEMMA RejectCall ==
  ASSUME CallInv, RejectMessage
  PROVE  CallInv'
<1>1. /\ phase = "issue" /\ Parent = NoParent
      /\ failures' = [failures EXCEPT ![position] = "permanent"]
      /\ position' = position + 1
      /\ phase' = IF position + 1 > Len(batch) THEN "confirm" ELSE "issue"
      /\ UNCHANGED <<place, source, batch, settled, awaited, ids, unsent, requests, issued,
                     first, confirmed, server>>
      /\ UNCHANGED stream
  BY DEF RejectMessage, TurnTo, message, source, given
<1>2. SourceTypes' /\ Numbers' /\ ServerTypeOK' /\ Fifo'
  BY <1>1, SourceStays, ServerStays
<1>3. /\ position \in 1 .. Len(batch) /\ Len(batch) \in Nat /\ DOMAIN batch = 1 .. Len(batch)
      /\ DOMAIN issued = 1 .. Len(issued) /\ Len(issued) \in Nat
      /\ \A k \in 1 .. Len(issued) : issued[k].position \in 1 .. Len(batch)
  BY <1>1, CallParts DEF CallInv, Phases, Working
<1>4. /\ failures \in [DOMAIN batch -> Failure \cup {"none"}] /\ "permanent" \in Failure
      /\ failures'[position] = "permanent"
      /\ \A i \in DOMAIN batch : i # position => failures'[i] = failures[i]
  BY <1>1, <1>3 DEF CallInv, CallTypes, Failure
<1>5. TaskTypes'
  BY <1>1 DEF CallInv, TaskTypes, server
<1>6. \A i \in DOMAIN batch : (HasEntry(i) => HasEntry(i)') /\ (Rejected(i) => Rejected(i)')
  BY <1>1, <1>4 DEF HasEntry, Rejected
<1>7. \A i \in {position} : Rejected(i)'
  BY <1>1, <1>4 DEF Rejected, Parent
<1>8. \A p \in {position} : Entered(p)'
  <2>1. \A i \in DOMAIN batch : i <= position => HasEntry(i)' \/ Rejected(i)'
    <3>1. \A i \in DOMAIN batch : i <= position => i < position \/ i = position
      BY <1>3
    <3>2. QED BY <1>1, <1>3, <1>6, <1>7, <3>1 DEF CallInv, Placed, Working
  <2>2. \A i \in DOMAIN batch : failures'[i] # "none" => Rejected(i)' /\ i <= position
    <3>1. \A i \in DOMAIN batch : failures[i] # "none" => Rejected(i) /\ i < position
      BY <1>1 DEF CallInv, Placed
    <3>2. QED BY <1>3, <1>4, <1>6, <1>7, <3>1
  <2>3. /\ \A k \in DOMAIN issued' : /\ issued'[k].position \in 1 .. position
                                    /\ stream'[batch'[issued'[k].position]] # NoParent
        /\ \A k, l \in DOMAIN issued' : k < l => issued'[k].position < issued'[l].position
    BY <1>1, <1>3 DEF CallInv, Placed
  <2>4. QED BY <1>1, <2>1, <2>2, <2>3 DEF Entered
<1>9. Placed' /\ Concluded' /\ position' \in 0 .. Len(batch') + 1 /\ (Working' => position' \in DOMAIN batch')
  BY <1>1, <1>8, Turned DEF Working, TurnTo
<1>10. CallTypes'
  BY <1>1, <1>4, <1>9 DEF CallInv, CallTypes
<1>11. Phases'
  BY <1>1, <1>9 DEF CallInv, Phases, Working
<1>12. QED BY <1>2, <1>5, <1>9, <1>10, <1>11 DEF CallInv

(* A step within the work on a message. *)
LEMMA Lingers ==
  ASSUME CallInv, Working, Working', ServerTypeOK', Fifo', Len(tasks) <= Len(tasks'),
         UNCHANGED <<place, source, batch, position, issued, failures, first, confirmed>>,
         settled' \in BOOLEAN, ids' \in Seq(Docs), unsent' \in Seq(Docs),
         awaited' \in 0 .. Len(tasks'), requests' \in Seq(DOMAIN tasks'), Phases'
  PROVE  CallInv'
<1>1. UNCHANGED <<sizes, stream, received, committed, backlog, acked, dead>>
  BY DEF source, given
<1>2. SourceTypes' /\ Numbers'
  BY SourceStays
<1>3. CallTypes'
  BY <1>1 DEF CallInv, CallTypes, Working
<1>4. TaskTypes'
  BY TasksNoted DEF CallInv, TaskTypes
<1>5. \A i \in DOMAIN batch : (HasEntry(i) => HasEntry(i)') /\ (Rejected(i) <=> Rejected(i)')
  BY <1>1 DEF HasEntry, Rejected
<1>6. phase # "confirm" /\ phase' # "confirm"
  BY DEF Working
<1>7. Placed'
  BY <1>1, <1>5, <1>6 DEF CallInv, Placed, Working
<1>8. Concluded'
  BY <1>6 DEF Concluded
<1>9. QED BY <1>2, <1>3, <1>4, <1>7, <1>8 DEF CallInv

(* The newest task of the queue is one that was enqueued. *)
LEMMA LatestTask ==
  ASSUME tasks \in Seq(Task)
  PROVE  /\ LatestPending \in 0 .. Len(tasks) /\ \A t \in Pending : t <= LatestPending
         /\ LatestPending = 0 => Pending = {}
<1>1. Pending \subseteq 0 .. Len(tasks) /\ Len(tasks) \in Nat /\ 0 \notin Pending
  BY PendingTasks
<1>2. CASE Pending = {}
  BY <1>1, <1>2 DEF LatestPending
<1>3. CASE Pending # {}
  <2>1. Max(Pending) \in Pending /\ \A t \in Pending : t <= Max(Pending)
    BY <1>1, <1>3, MaxOf
  <2>2. LatestPending = Max(Pending)
    BY <1>3 DEF LatestPending
  <2>3. QED BY <1>1, <2>1, <2>2
<1>4. QED BY <1>2, <1>3

LEMMA AskCall ==
  ASSUME CallInv, AskPending
  PROVE  CallInv'
<1>1. /\ phase = "issue" /\ Parent # NoParent /\ ~settled /\ settled' = TRUE
      /\ awaited' = LatestPending
      /\ phase' = IF awaited' = 0 THEN "page" ELSE "await"
      /\ expected' = Promised /\ disturbed' = {}
      /\ UNCHANGED <<place, source, batch, position, ids, unsent, requests, issued, failures,
                     first, confirmed, tasks, docs, owned, faults>>
      /\ UNCHANGED stream
  BY DEF AskPending, message, source, given
<1>2. ServerTypeOK' /\ Fifo'
  BY <1>1, FifoStays DEF CallInv, ServerTypeOK, Promised
<1>3. /\ tasks \in Seq(Task) /\ awaited' \in 0 .. Len(tasks') /\ Len(tasks) <= Len(tasks')
      /\ requests' \in Seq(DOMAIN tasks') /\ ids' \in Seq(Docs) /\ unsent' \in Seq(Docs)
  BY <1>1, CallParts, LatestTask DEF CallInv, ServerTypeOK, CallTypes, TaskTypes
<1>4. Working /\ Working'
  BY <1>1 DEF Working
<1>5. Phases'
  BY <1>1 DEF CallInv, Phases, Working, Parent
<1>6. QED BY <1>1, <1>2, <1>3, <1>4, <1>5, Lingers

LEMMA PagingCall ==
  ASSUME CallInv, AwaitQueued \/ StartPaging
  PROVE  CallInv'
<1>1. /\ phase \in {"issue", "await"} /\ Parent # NoParent /\ settled /\ phase' = "page"
      /\ UNCHANGED <<place, source, batch, position, settled, awaited, ids, unsent, requests,
                     issued, failures, first, confirmed, server>>
      /\ UNCHANGED <<stream, tasks>>
  BY DEF AwaitQueued, StartPaging, CallInv, Phases, call, message, source, given, server
<1>2. ServerTypeOK' /\ Fifo'
  BY <1>1, ServerStays
<1>3. /\ awaited' \in 0 .. Len(tasks') /\ Len(tasks) <= Len(tasks') /\ settled' \in BOOLEAN
      /\ requests' \in Seq(DOMAIN tasks') /\ ids' \in Seq(Docs) /\ unsent' \in Seq(Docs)
  BY <1>1, CallParts DEF CallInv, CallTypes, TaskTypes
<1>4. Working /\ Working'
  BY <1>1 DEF Working
<1>5. Phases'
  BY <1>1 DEF CallInv, Phases, Working, Parent
<1>6. QED BY <1>1, <1>2, <1>3, <1>4, <1>5, Lingers

(* What is enumerated in order is a sequence. *)
LEMMA InOrderSeq ==
  ASSUME NEW S, IsFiniteSet(S), NEW places, NEW s \in InOrder(S, places)
  PROVE  s \in Seq(S) /\ Len(s) = Cardinality(S) /\ Range(s) = S
<1>1. Cardinality(S) \in Nat /\ s \in [1 .. Cardinality(S) -> S] /\ Range(s) = S
  BY FS_CardinalityType DEF InOrder
<1>2. QED BY <1>1, SeqDef, LenProperties

LEMMA MatchesFinite == Matches \subseteq Docs /\ IsFiniteSet(Matches)
<1>1. Matches \subseteq Docs /\ IsFiniteSet(Docs)
  BY PatchAssumption DEF PatchAssumption, Matches, Existing
<1>2. QED BY <1>1, FS_Subset

(* A page is a part of the matches, the end of them if it is not full. *)
LEMMA PageParts ==
  ASSUME CallInv, NEW S, NEW matching \in Seq(S)
  PROVE  LET size == sizes.page
             page == Page(matching)
         IN /\ page \in Seq(S) /\ size \in Nat \ {0} /\ Len(ids) \in Nat
            /\ Len(ids) <= Len(matching) =>
                 /\ Len(page) = IF Len(ids) + size <= Len(matching) THEN size
                                ELSE Len(matching) - Len(ids)
                 /\ \A k \in 1 .. Len(page) : page[k] = matching[Len(ids) + k]
<1> DEFINE ends == {Len(ids) + sizes.page, Len(matching)}
<1>1. /\ sizes.page \in Nat \ {0} /\ Len(ids) \in Nat /\ Len(matching) \in Nat
  BY PatchAssumption, LenProperties DEF PatchAssumption, CallInv, SourceTypes, CallTypes
<1>2. ends \subseteq Nat /\ ends # {}
  BY <1>1
<1>3. Min(ends) \in ends /\ \A k \in ends : Min(ends) <= k
  <2> HIDE DEF ends
  <2>1. QED BY <1>2, MinOf
<1>4. PICK m \in Nat : /\ m = Min(ends) /\ m <= Len(matching)
                       /\ m = IF Len(ids) + sizes.page <= Len(matching)
                              THEN Len(ids) + sizes.page ELSE Len(matching)
  <2>1. Min(ends) = IF Len(ids) + sizes.page <= Len(matching)
                 THEN Len(ids) + sizes.page ELSE Len(matching)
    BY <1>1, <1>3
  <2>2. QED BY <1>1, <2>1
<1>5. Page(matching) = SubSeq(matching, Len(ids) + 1, m)
  BY <1>4 DEF Page
<1> HIDE DEF ends
<1>6. \A k \in Len(ids) + 1 .. m : matching[k] \in S
  BY <1>1, <1>4, ElementOfSeq
<1>7. /\ Page(matching) \in Seq(S)
      /\ Len(Page(matching)) = IF Len(ids) + 1 <= m THEN m - (Len(ids) + 1) + 1 ELSE 0
      /\ \A k \in 1 .. m - (Len(ids) + 1) + 1 :
           Page(matching)[k] = matching[(Len(ids) + 1) + k - 1]
  <2>1. Len(ids) + 1 \in Int /\ m \in Int
    BY <1>1
  <2>2. QED BY <1>5, <1>6, <2>1, SubSeqProperties
<1>8. Len(ids) <= Len(matching) => Len(ids) <= m /\ Len(Page(matching)) = m - Len(ids)
  <2>1. \A a \in Nat, b \in Nat, c \in Nat, z \in Nat \ {0} :
          (a <= b /\ c = IF a + z <= b THEN a + z ELSE b) =>
             a <= c /\ (IF a + 1 <= c THEN c - (a + 1) + 1 ELSE 0) = c - a
    OBVIOUS
  <2>2. QED BY <1>1, <1>4, <1>7, <2>1
<1>9. \A k \in Nat \ {0} : k <= m - Len(ids) => Page(matching)[k] = matching[Len(ids) + k]
  <2>1. \A k \in Nat \ {0} : k <= m - Len(ids) =>
          k \in 1 .. m - (Len(ids) + 1) + 1 /\ (Len(ids) + 1) + k - 1 = Len(ids) + k
    BY <1>1
  <2>2. QED BY <1>7, <2>1
<1>10. QED BY <1>1, <1>4, <1>7, <1>8, <1>9

(* What is read in a step, and that the step is one of the call. *)
LEMMA ReadCall ==
  ASSUME CallInv, ReadPage
  PROVE  CallInv'
<1>1. /\ phase = "page" /\ phase' \in {"page", "write"}
      /\ phase' = "page" => unsent' = unsent
      /\ phase' = "write" => unsent' = ids'
      /\ UNCHANGED <<place, source, batch, position, settled, awaited, requests, issued,
                     failures, first, confirmed, server>>
      /\ UNCHANGED <<stream, tasks>>
  BY DEF ReadPage, source, given, server
<1>2. PICK matching \in InOrder(Matches, place) : ids' = ids \o Page(matching)
  BY DEF ReadPage
<1>3. ids' \in Seq(Docs)
  <2>1. matching \in Seq(Docs)
    BY <1>2, MatchesFinite, InOrderSeq, SeqGrows
  <2>2. Page(matching) \in Seq(Docs)
    BY <2>1, PageParts
  <2>3. ids \in Seq(Docs)
    BY DEF CallInv, CallTypes
  <2>4. QED BY <1>2, <2>2, <2>3, ConcatProperties
<1>4. ServerTypeOK' /\ Fifo'
  BY <1>1, ServerStays
<1>5. /\ awaited' \in 0 .. Len(tasks') /\ Len(tasks) <= Len(tasks') /\ settled' \in BOOLEAN
      /\ requests' \in Seq(DOMAIN tasks') /\ unsent' \in Seq(Docs)
  BY <1>1, <1>3, CallParts DEF CallInv, CallTypes, TaskTypes
<1>6. Working /\ Working'
  BY <1>1 DEF Working
<1>7. Phases'
  BY <1>1 DEF CallInv, Phases, Working, Parent
<1>8. QED BY <1>1, <1>3, <1>4, <1>5, <1>6, <1>7, Lingers

(* The updates of a request are changes of documents. *)
LEMMA UpdatesType ==
  ASSUME CallInv, phase = "write", NEW k \in 1 .. Len(unsent)
  PROVE  /\ Updates(k) \in Seq(Change) /\ Len(Updates(k)) = k
         /\ \A c \in Range(Updates(k)) : c.part = "added" /\ c.number = batch[position]
         /\ {c.doc : c \in Range(Updates(k))} = {unsent[j] : j \in 1 .. k}
<1>1. /\ unsent \in Seq(Docs) /\ Len(unsent) \in Nat
      /\ batch[position] \in Nat /\ k \in Nat
  BY CallParts, LenProperties DEF CallInv, CallTypes, Phases, Working
<1>2. \A j \in 1 .. k : unsent[j] \in Docs
  BY <1>1, ElementOfSeq
<1>3. Updates(k) \in [1 .. k -> Change]
  BY <1>1, <1>2 DEF Updates, Change, Parts
<1>4. Updates(k) \in Seq(Change) /\ Len(Updates(k)) = k /\ DOMAIN Updates(k) = 1 .. k
  BY <1>1, <1>3, SeqDef, LenProperties
<1>5. /\ \A j \in 1 .. k : /\ Updates(k)[j].doc = unsent[j] /\ Updates(k)[j].part = "added"
                          /\ Updates(k)[j].number = batch[position]
      /\ Range(Updates(k)) = {Updates(k)[j] : j \in 1 .. k}
  BY <1>4 DEF Range, Updates
<1>6. \A c \in Range(Updates(k)) : c.part = "added" /\ c.number = batch[position]
  BY <1>5
<1>7. {c.doc : c \in Range(Updates(k))} = {unsent[j] : j \in 1 .. k}
  BY <1>5
<1>8. QED BY <1>4, <1>6, <1>7

LEMMA SendCall ==
  ASSUME CallInv, SendPatch
  PROVE  /\ CallInv'
         /\ \E k \in 1 .. Len(unsent) : /\ QueueGrows(Updates(k))
                                        /\ Unaltered({unsent[j] : j \in 1 .. k})
                                        /\ unsent' = SubSeq(unsent, k + 1, Len(unsent))
<1>1. /\ phase = "write" /\ requests' = Append(requests, Len(tasks'))
      /\ UNCHANGED <<place, source, phase, batch, position, settled, awaited, ids, issued,
                     failures, first, confirmed, docs, owned, faults, expected, disturbed>>
      /\ UNCHANGED stream
  BY DEF SendPatch, source, given
<1>2. PICK k \in 1 .. Len(unsent) :
        Enqueued(Updates(k)) /\ unsent' = SubSeq(unsent, k + 1, Len(unsent))
  BY DEF SendPatch
<1>3. /\ ServerTypeOK' /\ Fifo' /\ QueueGrows(Updates(k))
      /\ Unaltered({unsent[j] : j \in 1 .. k})
  <2>1. /\ owned' \in 0 .. MaxOwner /\ faults' \in 0 .. MaxFaults /\ docs' = docs
        /\ expected' \subseteq Docs /\ disturbed' \subseteq Docs
    BY <1>1 DEF CallInv, ServerTypeOK
  <2>2. QED BY <1>1, <1>2, <2>1, UpdatesType, EnqueuedKeeps DEF CallInv
<1>4. /\ Len(tasks) \in Nat /\ Len(tasks') = Len(tasks) + 1
      /\ DOMAIN tasks' = 1 .. Len(tasks')
  BY <1>3, CallParts, LenProperties DEF QueueGrows, ServerTypeOK
<1>5. /\ awaited' \in 0 .. Len(tasks') /\ Len(tasks) <= Len(tasks') /\ settled' \in BOOLEAN
      /\ ids' \in Seq(Docs)
  BY <1>1, <1>4 DEF CallInv, CallTypes, TaskTypes
<1>6. unsent' \in Seq(Docs)
  <2>1. unsent \in Seq(Docs) /\ Len(unsent) \in Nat
    BY LenProperties DEF CallInv, CallTypes
  <2>2. \A j \in k + 1 .. Len(unsent) : unsent[j] \in Docs
    BY <2>1, ElementOfSeq
  <2>3. QED BY <1>2, <2>1, <2>2, SubSeqProperties
<1>7. requests' \in Seq(DOMAIN tasks')
  <2>1. requests \in Seq(DOMAIN tasks')
    BY <1>3, <1>4, <1>5, TasksNoted DEF CallInv
  <2>2. Len(tasks') \in DOMAIN tasks'
    BY <1>4
  <2>3. QED BY <1>1, <2>1, <2>2, AppendProperties
<1>8. Working /\ Working'
  BY <1>1 DEF Working
<1>9. Phases'
  BY <1>1 DEF CallInv, Phases, Working, Parent
<1>10. CallInv'
  BY <1>1, <1>3, <1>5, <1>6, <1>7, <1>8, <1>9, Lingers
<1>11. QED BY <1>2, <1>3, <1>10

(* The entry of a message is noted behind those of the messages before it. *)
LEMMA EntryAdded ==
  ASSUME CallInv, Working, Parent # NoParent, NEW noted \in Seq(DOMAIN tasks'),
         ServerTypeOK', Len(tasks) <= Len(tasks'), UNCHANGED <<stream, batch>>,
         issued' = Append(issued, [position |-> position, tasks |-> noted])
  PROVE  /\ issued' \in Seq([position : DOMAIN batch', tasks : Seq(DOMAIN tasks')])
         /\ Len(issued') = Len(issued) + 1 /\ DOMAIN issued' = 1 .. Len(issued) + 1
         /\ \A k \in 1 .. Len(issued) : issued'[k] = issued[k]
         /\ issued'[Len(issued) + 1] = [position |-> position, tasks |-> noted]
         /\ \A k \in DOMAIN issued' : /\ issued'[k].position \in 1 .. position
                                      /\ stream'[batch'[issued'[k].position]] # NoParent
         /\ \A k, l \in DOMAIN issued' : k < l => issued'[k].position < issued'[l].position
         /\ \A i \in DOMAIN batch : HasEntry(i) => HasEntry(i)'
         /\ \A i \in {position} : HasEntry(i)'
<1> DEFINE e == [position |-> position, tasks |-> noted]
           E == [position : DOMAIN batch, tasks : Seq(DOMAIN tasks')]
<1>1. /\ position \in 1 .. Len(batch) /\ Len(batch) \in Nat /\ DOMAIN batch = 1 .. Len(batch)
      /\ DOMAIN issued = 1 .. Len(issued) /\ Len(issued) \in Nat
      /\ \A k \in 1 .. Len(issued) : issued[k].position \in 1 .. Len(batch)
  BY CallParts DEF CallInv, Phases, Working
<1>2. e \in E /\ e.position = position
  BY <1>1
<1>3. issued \in Seq(E)
  BY TasksNoted DEF CallInv
<1> HIDE DEF e, E
<1>4. issued' = Append(issued, e)
  BY DEF e
<1>5. /\ issued' \in Seq(E) /\ Len(issued') = Len(issued) + 1
      /\ \A k \in 1 .. Len(issued) : issued'[k] = issued[k]
      /\ issued'[Len(issued) + 1] = e
  BY <1>2, <1>3, <1>4, AppendProperties
<1>6. DOMAIN issued' = 1 .. Len(issued) + 1
  BY <1>5, LenProperties
<1>7. /\ \A k \in 1 .. Len(issued) : /\ issued[k].position < position
                                     /\ stream[batch[issued[k].position]] # NoParent
      /\ \A k, l \in 1 .. Len(issued) : k < l => issued[k].position < issued[l].position
  BY <1>1 DEF CallInv, Placed, Working
<1>8. \A k \in 1 .. Len(issued) + 1 : k \in 1 .. Len(issued) \/ k = Len(issued) + 1
  BY <1>1
<1>9. \A k \in DOMAIN issued' : /\ issued'[k].position \in 1 .. position
                                /\ stream'[batch'[issued'[k].position]] # NoParent
  BY <1>1, <1>2, <1>5, <1>6, <1>7, <1>8 DEF Parent
<1>10. \A k, l \in DOMAIN issued' : k < l => issued'[k].position < issued'[l].position
  <2>1. SUFFICES ASSUME NEW k \in DOMAIN issued', NEW l \in DOMAIN issued', k < l
                 PROVE  issued'[k].position < issued'[l].position
    OBVIOUS
  <2>2. k \in 1 .. Len(issued)
    BY <1>1, <1>6, <2>1
  <2>3. CASE l \in 1 .. Len(issued)
    BY <1>5, <1>7, <2>1, <2>2, <2>3
  <2>4. CASE l = Len(issued) + 1
    BY <1>2, <1>5, <1>7, <2>2, <2>4
  <2>5. QED BY <1>6, <1>8, <2>3, <2>4
<1>11. \A i \in DOMAIN batch : HasEntry(i) => HasEntry(i)'
  <2>1. \A k \in 1 .. Len(issued) : k \in DOMAIN issued' /\ issued'[k].position = issued[k].position
    BY <1>1, <1>5, <1>6
  <2>2. QED BY <1>1, <2>1 DEF HasEntry
<1>12. \A i \in {position} : HasEntry(i)'
  <2>1. Len(issued) + 1 \in DOMAIN issued'
    BY <1>1, <1>6
  <2>2. QED BY <1>2, <1>5, <2>1 DEF HasEntry
<1>13. QED BY <1>5, <1>6, <1>9, <1>10, <1>11, <1>12 DEF e, E

LEMMA IssuedCall ==
  ASSUME CallInv, Issued
  PROVE  CallInv'
<1>1. /\ phase = "write" /\ unsent = <<>> /\ Parent # NoParent
      /\ issued' = Append(issued, [position |-> position, tasks |-> requests])
      /\ ids' = <<>> /\ requests' = <<>> /\ TurnTo(position + 1)
      /\ UNCHANGED <<place, source, batch, settled, awaited, unsent, failures, first,
                     confirmed, server>>
      /\ UNCHANGED <<stream, tasks>>
  BY DEF Issued, source, given, server, CallInv, Phases
<1>2. SourceTypes' /\ Numbers' /\ ServerTypeOK' /\ Fifo'
  BY <1>1, SourceStays, ServerStays
<1>3. Working /\ requests \in Seq(DOMAIN tasks') /\ Len(tasks) <= Len(tasks')
  BY <1>1, CallParts DEF Working, CallInv, TaskTypes
<1>4. /\ issued' \in Seq([position : DOMAIN batch', tasks : Seq(DOMAIN tasks')])
      /\ Len(issued') = Len(issued) + 1
      /\ \A k \in DOMAIN issued' : /\ issued'[k].position \in 1 .. position
                                   /\ stream'[batch'[issued'[k].position]] # NoParent
      /\ \A k, l \in DOMAIN issued' : k < l => issued'[k].position < issued'[l].position
      /\ \A i \in DOMAIN batch : HasEntry(i) => HasEntry(i)'
      /\ \A i \in {position} : HasEntry(i)'
  BY <1>1, <1>2, <1>3, EntryAdded
<1>5. \A p \in {position} : Entered(p)'
  <2>1. \A i \in DOMAIN batch : i <= position => i < position \/ i = position
    BY CallParts
  <2>2. /\ \A i \in DOMAIN batch : i < position => HasEntry(i) \/ Rejected(i)
        /\ \A i \in DOMAIN batch : failures[i] # "none" => Rejected(i) /\ i < position
    BY <1>1, <1>3 DEF CallInv, Placed
  <2>3. \A i \in DOMAIN batch : Rejected(i) => Rejected(i)'
    BY <1>1 DEF Rejected
  <2>4. \A i \in DOMAIN batch' : i <= position => HasEntry(i)' \/ Rejected(i)'
    BY <1>1, <1>4, <2>1, <2>2, <2>3
  <2>5. \A i \in DOMAIN batch' : failures'[i] # "none" => Rejected(i)' /\ i <= position
    BY <1>1, <2>2, <2>3, CallParts
  <2>6. QED BY <1>4, <2>4, <2>5 DEF Entered
<1>6. /\ Placed' /\ Concluded' /\ (Working' => position' \in DOMAIN batch')
      /\ position' \in 0 .. Len(batch') + 1 /\ phase' \in {"issue", "confirm"}
  BY <1>1, <1>3, <1>5, Turned
<1>7. CallTypes'
  <2>1. first = "none" /\ confirmed = 0 /\ Len(issued) \in Nat
    BY <1>1, CallParts DEF CallInv, Placed
  <2>2. confirmed' \in 0 .. Len(issued')
    BY <1>1, <1>4, <2>1
  <2>3. QED BY <1>1, <1>6, <2>2 DEF CallInv, CallTypes
<1>8. TaskTypes'
  BY <1>1, <1>4 DEF CallInv, TaskTypes
<1>9. Phases'
  BY <1>1, <1>6 DEF CallInv, Phases, Working
<1>10. QED BY <1>2, <1>6, <1>7, <1>8, <1>9 DEF CallInv

LEMMA AbandonCall ==
  ASSUME CallInv, Working, Parent # NoParent, NEW failure \in Failure, Abandon(failure),
         UNCHANGED <<place, source>>, ServerTypeOK', Fifo', Len(tasks) <= Len(tasks')
  PROVE  CallInv'
<1>1. /\ failures' = [failures EXCEPT ![position] = failure]
      /\ issued' = Append(issued, [position |-> position, tasks |-> <<>>])
      /\ phase' = "confirm"
      /\ UNCHANGED <<batch, position, settled, awaited, ids, unsent, requests, first, confirmed>>
      /\ UNCHANGED stream
  BY DEF Abandon, message, source, given
<1>2. SourceTypes' /\ Numbers'
  BY <1>1, SourceStays
<1>3. /\ issued' \in Seq([position : DOMAIN batch', tasks : Seq(DOMAIN tasks')])
      /\ Len(issued') = Len(issued) + 1 /\ DOMAIN issued' = 1 .. Len(issued) + 1
      /\ issued'[Len(issued) + 1].position = position
      /\ \A k \in DOMAIN issued' : /\ issued'[k].position \in 1 .. position
                                   /\ stream'[batch'[issued'[k].position]] # NoParent
      /\ \A k, l \in DOMAIN issued' : k < l => issued'[k].position < issued'[l].position
      /\ \A i \in DOMAIN batch : HasEntry(i) => HasEntry(i)'
      /\ \A i \in {position} : HasEntry(i)'
  <2>1. <<>> \in Seq(DOMAIN tasks')
    OBVIOUS
  <2> DEFINE noted == <<>>
  <2>2. noted \in Seq(DOMAIN tasks') /\ issued' = Append(issued, [position |-> position, tasks |-> noted])
    BY <1>1, <2>1
  <2> HIDE DEF noted
  <2>3. /\ issued' \in Seq([position : DOMAIN batch', tasks : Seq(DOMAIN tasks')])
        /\ Len(issued') = Len(issued) + 1 /\ DOMAIN issued' = 1 .. Len(issued) + 1
        /\ issued'[Len(issued) + 1] = [position |-> position, tasks |-> noted]
        /\ \A k \in DOMAIN issued' : /\ issued'[k].position \in 1 .. position
                                     /\ stream'[batch'[issued'[k].position]] # NoParent
        /\ \A k, l \in DOMAIN issued' : k < l => issued'[k].position < issued'[l].position
        /\ \A i \in DOMAIN batch : HasEntry(i) => HasEntry(i)'
        /\ \A i \in {position} : HasEntry(i)'
    BY <1>1, <2>2, EntryAdded
  <2>4. issued'[Len(issued) + 1].position = position
    BY <2>3
  <2>5. QED BY <2>3, <2>4
<1>4. /\ position \in 1 .. Len(batch) /\ Len(batch) \in Nat /\ DOMAIN batch = 1 .. Len(batch)
      /\ Len(issued) \in Nat /\ first = "none" /\ confirmed = 0
      /\ \A i \in DOMAIN batch : i < position => HasEntry(i) \/ Rejected(i)
      /\ \A i \in DOMAIN batch : failures[i] # "none" => Rejected(i) /\ i < position
  BY CallParts DEF CallInv, Phases, Working, Placed
<1>5. /\ failures' \in [DOMAIN batch -> Failure \cup {"none"}]
      /\ failures'[position] = failure /\ failure # "none"
      /\ \A i \in DOMAIN batch : i # position => failures'[i] = failures[i]
  BY <1>1, <1>4 DEF CallInv, CallTypes, Failure
<1>6. CallTypes'
  BY <1>1, <1>3, <1>4, <1>5 DEF CallInv, CallTypes
<1>7. TaskTypes'
  BY <1>1, <1>3, TasksNoted DEF CallInv, TaskTypes
<1>8. Phases'
  BY <1>1 DEF Phases, Working
<1>9. \A i \in DOMAIN batch : Rejected(i) /\ i < position => Rejected(i)'
  BY <1>1, <1>4, <1>5 DEF Rejected
<1>10. \A i \in DOMAIN batch : i > position => Unissued(i)'
  <2>1. Len(issued') \in DOMAIN issued' /\ Len(issued') # 0
    BY <1>3, <1>4
  <2>2. issued' # <<>>
    BY <2>1
  <2>3. QED BY <1>3, <1>5, <2>1, <2>2 DEF Unissued, Failing
<1>11. Placed'
  <2>1. \A i \in DOMAIN batch : HasEntry(i)' \/ Rejected(i)' \/ Unissued(i)'
    <3>1. \A i \in DOMAIN batch : i < position \/ i = position \/ i > position
      BY <1>4
    <3>2. \A i \in DOMAIN batch : i < position => HasEntry(i)' \/ Rejected(i)'
      BY <1>3, <1>4, <1>9
    <3>3. QED BY <1>3, <1>10, <3>1, <3>2
  <2>2. \A k \in DOMAIN issued' : issued'[k].position <= position'
    <3>1. position' = position /\ \A k \in 1 .. position : k <= position
      BY <1>1, <1>4
    <3>2. \A k \in DOMAIN issued' : issued'[k].position \in 1 .. position
      BY <1>3
    <3>3. QED BY <3>1, <3>2
  <2>3. QED BY <1>1, <1>3, <2>1, <2>2 DEF Placed, Working
<1>12. Concluded'
  <2>1. \A i \in DOMAIN batch : failures'[i] = "retryable" => HasEntry(i)'
    <3>1. \A i \in DOMAIN batch : i # position => failures'[i] # "retryable"
      BY <1>4, <1>5 DEF Rejected
    <3>2. QED BY <1>3, <3>1
  <2>2. 1 .. confirmed' = {}
    BY <1>1, <1>4
  <2>3. QED BY <1>1, <2>1, <2>2 DEF Concluded
<1>13. QED BY <1>2, <1>6, <1>7, <1>8, <1>11, <1>12 DEF CallInv

LEMMA QueuedLostCall ==
  ASSUME CallInv, QueuedTaskLost
  PROVE  CallInv'
<1>1. /\ Working /\ Parent # NoParent /\ "retryable" \in Failure /\ Abandon("retryable")
      /\ UNCHANGED <<place, source>> /\ UNCHANGED server /\ UNCHANGED tasks
  BY DEF QueuedTaskLost, CallInv, Phases, Working, Failure, server
<1>2. ServerTypeOK' /\ Fifo'
  BY <1>1, ServerStays
<1>3. QED BY <1>1, <1>2, AbandonCall, CallParts

LEMMA RefusedCall ==
  ASSUME CallInv, Refused
  PROVE  CallInv'
<1>1. /\ Working /\ Parent # NoParent /\ Mishap
      /\ UNCHANGED <<place, source>> /\ UNCHANGED <<tasks, docs, owned, expected, disturbed>>
  BY DEF Refused, Asking, CallInv, Phases, Working
<1>2. PICK failure \in Failure : Abandon(failure)
  BY DEF Refused, Failure
<1>3. ServerTypeOK' /\ Fifo'
  BY <1>1, FifoStays, SharedIndexAssumption
     DEF CallInv, ServerTypeOK, Mishap, SharedIndexAssumption
<1>4. QED BY <1>1, <1>2, <1>3, AbandonCall, CallParts

LEMMA ReplyLostCall ==
  ASSUME CallInv, ReplyLost
  PROVE  /\ CallInv'
         /\ \E k \in 1 .. Len(unsent) : /\ QueueGrows(Updates(k))
                                        /\ Unaltered({unsent[j] : j \in 1 .. k})
<1>1. /\ phase = "write" /\ Working /\ Parent # NoParent /\ Mishap
      /\ "retryable" \in Failure /\ Abandon("retryable")
      /\ UNCHANGED <<place, source>> /\ UNCHANGED <<docs, owned, expected, disturbed>>
  BY DEF ReplyLost, CallInv, Phases, Working, Failure
<1>2. PICK k \in 1 .. Len(unsent) : Enqueued(Updates(k))
  BY DEF ReplyLost
<1>3. /\ ServerTypeOK' /\ Fifo' /\ QueueGrows(Updates(k))
      /\ Unaltered({unsent[j] : j \in 1 .. k})
  <2>1. /\ owned' \in 0 .. MaxOwner /\ faults' \in 0 .. MaxFaults /\ docs' = docs
        /\ expected' \subseteq Docs /\ disturbed' \subseteq Docs
    BY <1>1, SharedIndexAssumption DEF CallInv, ServerTypeOK, Mishap, SharedIndexAssumption
  <2>2. QED BY <1>1, <1>2, <2>1, UpdatesType, EnqueuedKeeps DEF CallInv
<1>4. Len(tasks) <= Len(tasks')
  BY <1>3, CallParts DEF QueueGrows
<1>5. QED BY <1>1, <1>3, <1>4, AbandonCall

(* The confirming of an entry, whatever comes of it. *)
LEMMA ConfirmedCall ==
  ASSUME CallInv, Confirming, confirmed' = confirmed + 1,
         UNCHANGED <<place, source, phase, batch, position, settled, awaited, message, issued,
                     tasks>>,
         ServerTypeOK',
         \/ \E failure \in Failure : EntryFails(failure)
         \/ first = "none" /\ failures[Entry.position] = "none" /\ UNCHANGED <<failures, first>>
  PROVE  CallInv'
<1> DEFINE p == Entry.position
<1>1. /\ phase = "confirm" /\ confirmed + 1 \in 1 .. Len(issued) /\ confirmed \in Nat
      /\ p = issued[confirmed + 1].position /\ p \in 1 .. Len(batch)
      /\ DOMAIN batch = 1 .. Len(batch) /\ DOMAIN issued = 1 .. Len(issued)
      /\ Len(issued) \in Nat /\ Len(batch) \in Nat
      /\ \A k \in 1 .. Len(issued) : issued[k].position \in 1 .. Len(batch)
  <2>1. confirmed \in 0 .. Len(issued)
    BY DEF CallInv, CallTypes
  <2>2. QED BY <2>1, CallParts DEF Confirming, Entry
<1>2. /\ UNCHANGED <<phase, batch, position, settled, awaited, ids, unsent, requests, issued,
                     stream, tasks>>
      /\ UNCHANGED <<place, source>>
  BY DEF message, source, given
<1> HIDE DEF p
<1>3. /\ failures' \in [DOMAIN batch -> Failure \cup {"none"}] /\ first' \in Failure \cup {"none"}
      /\ first # "none" => first' = first
      /\ \A i \in DOMAIN batch : i # p => failures'[i] = failures[i]
      /\ failures[p] # "none" => failures'[p] = failures[p]
      /\ failures'[p] = "none" => first = "none"
      /\ failures'[p] # "none" => first' # "none"
  <2>1. failures \in [DOMAIN batch -> Failure \cup {"none"}] /\ first \in Failure \cup {"none"}
    BY DEF CallInv, CallTypes
  <2>2. CASE first = "none" /\ failures[Entry.position] = "none" /\ UNCHANGED <<failures, first>>
    BY <2>1, <2>2 DEF p
  <2>3. ASSUME NEW failure \in Failure, EntryFails(failure) PROVE <1>3!:
    <3>1. /\ failures' = [failures EXCEPT ![p] = IF @ = "none" THEN failure ELSE @]
          /\ first' = IF first = "none" THEN failure ELSE first
      BY <2>3 DEF EntryFails, p
    <3>2. failure # "none"
      BY DEF Failure
    <3>3. QED BY <1>1, <2>1, <3>1, <3>2
  <2>4. QED BY <2>2, <2>3
<1>4. SourceTypes' /\ Numbers' /\ Fifo'
  BY <1>2, SourceStays, FifoStays DEF CallInv
<1>5. confirmed' \in 0 .. Len(issued')
  BY <1>1, <1>2
<1>6. CallTypes'
  BY <1>2, <1>3, <1>5 DEF CallInv, CallTypes
<1>7. TaskTypes'
  BY <1>2 DEF CallInv, TaskTypes
<1>8. Phases'
  BY <1>1, <1>2 DEF Phases, Working
<1>9. \A i \in DOMAIN batch : failures[i] # "none" => failures'[i] = failures[i]
  BY <1>3
<1>10. /\ \A i \in DOMAIN batch : HasEntry(i) => HasEntry(i)'
       /\ \A i \in DOMAIN batch : Rejected(i) => Rejected(i)'
       /\ \A k \in DOMAIN issued : Failing(k) => Failing(k)'
  BY <1>1, <1>2, <1>9 DEF HasEntry, Rejected, Failing
<1>11. \A i \in DOMAIN batch : Unissued(i) => Unissued(i)'
  <2>1. Len(issued) \in DOMAIN issued
    BY <1>1
  <2>2. QED BY <1>2, <1>10, <2>1 DEF Unissued
<1>12. Placed'
  <2>1. \A i \in DOMAIN batch : HasEntry(i)' \/ Rejected(i)' \/ Unissued(i)'
    BY <1>1, <1>10, <1>11 DEF CallInv, Placed
  <2>2. QED BY <1>1, <1>2, <2>1 DEF CallInv, Placed, Working
<1>13. Concluded'
  <2>1. \A k \in 1 .. confirmed : /\ k \in DOMAIN issued /\ issued[k].position # p
                                  /\ Failing(k)' <=> Failing(k)
    <3>1. ASSUME NEW k \in 1 .. confirmed
          PROVE  k \in DOMAIN issued /\ issued[k].position # p /\ issued[k].position \in DOMAIN batch
      <4>1. k \in 1 .. Len(issued) /\ k < confirmed + 1
        BY <1>1, <3>1
      <4>2. issued[k].position < p /\ issued[k].position \in 1 .. Len(batch)
        BY <1>1, <4>1 DEF CallInv, Placed
      <4>3. QED BY <1>1, <4>1, <4>2
    <3>2. QED BY <1>2, <1>3, <3>1 DEF Failing
  <2>2. \A k \in {confirmed + 1} : Failing(k)' <=> failures'[p] # "none"
    BY <1>1, <1>2 DEF Failing
  <2>3. \A k \in 1 .. confirmed' : k \in 1 .. confirmed \/ k = confirmed + 1
    BY <1>1
  <2>4. /\ \A k \in 1 .. confirmed : Failing(k) => first # "none"
        /\ \A k, l \in 1 .. confirmed : k < l /\ Failing(k) => Failing(l)
    BY <1>1 DEF CallInv, Concluded
  <2>5. \A k \in 1 .. confirmed' : Failing(k)' => first' # "none"
    BY <1>3, <2>1, <2>2, <2>3, <2>4
  <2>6. ASSUME NEW k \in 1 .. confirmed', NEW l \in 1 .. confirmed', k < l, Failing(k)'
        PROVE  Failing(l)'
    <3>1. k \in 1 .. confirmed
      BY <1>1, <2>6
    <3>2. Failing(k) /\ first # "none"
      BY <2>1, <2>4, <2>6, <3>1
    <3>3. CASE l \in 1 .. confirmed
      BY <2>1, <2>4, <2>6, <3>1, <3>2, <3>3
    <3>4. CASE l = confirmed + 1
      BY <1>3, <2>2, <3>2, <3>4
    <3>5. QED BY <2>3, <3>3, <3>4
  <2>7. \A i \in DOMAIN batch : failures'[i] = "retryable" => HasEntry(i)'
    <3>1. \A i \in {p} : HasEntry(i)
      BY <1>1 DEF HasEntry
    <3>2. \A i \in DOMAIN batch : failures[i] = "retryable" => HasEntry(i)
      BY <1>1 DEF CallInv, Concluded
    <3>3. QED BY <1>3, <1>10, <3>1, <3>2
  <2>8. QED BY <1>2, <2>5, <2>6, <2>7 DEF Concluded
<1>14. QED BY <1>4, <1>6, <1>7, <1>8, <1>12, <1>13 DEF CallInv

(* How a step that confirms an entry comes to its end. *)
LEMMA ConfirmCases ==
  ASSUME CallInv, ConfirmNext \/ PollRefused
  PROVE  \/ \E failure \in Failure : EntryFails(failure)
         \/ /\ first = "none" /\ failures[Entry.position] = "none" /\ ConfirmNext
            /\ UNCHANGED <<failures, first>>
            /\ \A k \in DOMAIN Entry.tasks : /\ Entry.tasks[k] \notin Pending
                                             /\ TaskOutcome(Entry.tasks[k]) = "ok"
<1>1. Confirming /\ confirmed \in 0 .. Len(issued)
  BY DEF ConfirmNext, PollRefused, CallInv, CallTypes
<1>2. Entry.position \in DOMAIN batch /\ Entry.tasks \in Seq(DOMAIN tasks)
  <2>1. confirmed + 1 \in 1 .. Len(issued) /\ Entry = issued[confirmed + 1]
    BY <1>1, CallParts DEF Confirming, Entry
  <2>2. QED BY <2>1, CallParts
<1>3. CASE PollRefused
  BY <1>3 DEF PollRefused, Failure
<1>4. CASE ConfirmNext /\ first # "none"
  <2>1. first \in Failure /\ EntryFails(first)
    BY <1>4 DEF ConfirmNext, CallInv, CallTypes
  <2>2. QED BY <2>1
<1>5. CASE ConfirmNext /\ first = "none" /\ failures[Entry.position] # "none"
  <2>1. failures[Entry.position] \in Failure /\ EntryFails(failures[Entry.position])
    BY <1>2, <1>5 DEF ConfirmNext, CallInv, CallTypes
  <2>2. QED BY <2>1
<1>6. CASE ConfirmNext /\ first = "none" /\ failures[Entry.position] = "none"
  <2> DEFINE bad == {k \in DOMAIN Entry.tasks : TaskOutcome(Entry.tasks[k]) # "ok"}
  <2>1. /\ Range(Entry.tasks) \cap Pending = {}
        /\ IF bad = {} THEN UNCHANGED <<failures, first>>
           ELSE EntryFails(TaskOutcome(Entry.tasks[Min(bad)]))
    BY <1>6 DEF ConfirmNext
  <2>2. CASE bad = {}
    BY <1>6, <2>1, <2>2 DEF Range
  <2>3. CASE bad # {}
    <3>1. bad \subseteq Nat
      BY <1>2, LenProperties
    <3>2. Min(bad) \in bad
      <4> HIDE DEF bad
      <4>1. QED BY <2>3, <3>1, MinOf
    <3>3. TaskOutcome(Entry.tasks[Min(bad)]) # "ok"
      BY <3>2
    <3>4. \A t : TaskOutcome(t) # "ok" => TaskOutcome(t) \in Failure
      BY DEF TaskOutcome, Failure
    <3>5. QED BY <2>1, <2>3, <3>3, <3>4
  <2>4. QED BY <2>2, <2>3
<1>7. QED BY <1>3, <1>4, <1>5, <1>6

LEMMA ConfirmCall ==
  ASSUME CallInv, ConfirmNext \/ PollRefused
  PROVE  CallInv'
<1>1. /\ Confirming /\ confirmed' = confirmed + 1
      /\ UNCHANGED <<place, source, phase, batch, position, settled, awaited, message, issued, tasks>>
  BY DEF ConfirmNext, PollRefused, server
<1>2. ServerTypeOK'
  <2>1. CASE ConfirmNext
    BY <2>1 DEF ConfirmNext, server, CallInv, ServerTypeOK
  <2>2. CASE PollRefused
    BY <2>2, SharedIndexAssumption
       DEF PollRefused, Mishap, CallInv, ServerTypeOK, SharedIndexAssumption
  <2>3. QED BY <2>1, <2>2
<1>3. \/ \E failure \in Failure : EntryFails(failure)
      \/ first = "none" /\ failures[Entry.position] = "none" /\ UNCHANGED <<failures, first>>
  BY ConfirmCases
<1>4. QED BY <1>1, <1>2, <1>3, ConfirmedCall

(* No call is on its way. *)
LEMMA NoCallKeeps ==
  ASSUME TaskTypes, NoCall, UNCHANGED tasks
  PROVE  CallTypes' /\ TaskTypes' /\ Phases' /\ Placed' /\ Concluded' /\ batch' = <<>>
<1>1. CallTypes'
  <2>1. failures' \in [DOMAIN batch' -> Failure \cup {"none"}]
    BY DEF NoCall
  <2>2. /\ batch' \in Seq(DOMAIN stream') /\ position' \in 0 .. Len(batch') + 1
        /\ ids' \in Seq(Docs) /\ unsent' \in Seq(Docs) /\ confirmed' \in 0 .. Len(issued')
    BY EmptySeq DEF NoCall
  <2>3. /\ phase' = "idle" /\ settled' \in BOOLEAN /\ first' \in Failure \cup {"none"}
    BY DEF NoCall
  <2>4. QED BY <2>1, <2>2, <2>3 DEF CallTypes
<1>2. TaskTypes'
  BY DEF NoCall, TaskTypes
<1>3. Phases'
  BY DEF NoCall, Phases, Working
<1>4. Placed'
  BY DEF NoCall, Placed, Working
<1>5. Concluded'
  BY DEF NoCall, Concluded
<1>6. QED BY <1>1, <1>2, <1>3, <1>4, <1>5 DEF NoCall

(* A call starts with no message turned to. *)
LEMMA SendBatchKeeps ==
  ASSUME CallInv, NEW numbers \in Seq(DOMAIN stream), numbers # <<>>, SendBatch(numbers),
         UNCHANGED stream
  PROVE  CallTypes' /\ TaskTypes' /\ Phases' /\ Placed' /\ Concluded' /\ ServerTypeOK' /\ Fifo'
<1>1. /\ phase = "idle" /\ phase' = "issue" /\ batch' = numbers /\ position' = 1
      /\ failures' = [i \in DOMAIN numbers |-> "none"]
      /\ UNCHANGED <<settled, awaited, ids, unsent, requests, issued, first, confirmed, tasks, server>>
  BY DEF SendBatch, message, server
<1>2. ServerTypeOK' /\ Fifo'
  BY <1>1, ServerStays
<1>3. /\ Len(numbers) \in Nat /\ DOMAIN numbers = 1 .. Len(numbers) /\ Len(numbers) # 0
  BY EmptySeq, LenProperties
<1>4. /\ issued = <<>> /\ ids = <<>> /\ unsent = <<>> /\ requests = <<>> /\ ~settled
      /\ first = "none" /\ confirmed = 0
  BY <1>1 DEF CallInv, Phases, Placed
<1>5. position' \in 0 .. Len(batch') + 1 /\ position' \in DOMAIN batch'
  BY <1>1, <1>3
<1>6. failures' \in [DOMAIN batch' -> Failure \cup {"none"}]
  BY <1>1
<1>7. CallTypes'
  BY <1>1, <1>4, <1>5, <1>6 DEF CallInv, CallTypes
<1>8. TaskTypes'
  BY <1>1, <1>4 DEF CallInv, TaskTypes
<1>9. Phases'
  BY <1>1, <1>4, <1>5 DEF Phases, Working
<1>10. Placed'
  <2>1. \A i \in DOMAIN batch' : ~(i < position') /\ failures'[i] = "none"
    BY <1>1, <1>3
  <2>2. DOMAIN issued' = {}
    BY <1>1, <1>4
  <2>3. QED BY <1>1, <1>4, <2>1, <2>2 DEF Placed, Working
<1>11. Concluded'
  BY <1>1 DEF Concluded
<1>12. QED BY <1>2, <1>7, <1>8, <1>9, <1>10, <1>11

LEMMA ReceiveCall ==
  ASSUME CallInv, Receive
  PROVE  CallInv'
<1>1. PICK n \in received + 1 .. Min({received + sizes.batch, Len(stream)}) :
        received' = n /\ SendBatch([k \in 1 .. n - received |-> received + k])
  BY DEF Receive
<1> DEFINE numbers == [k \in 1 .. n - received |-> received + k]
           S == {received + sizes.batch, Len(stream)}
<1>2. /\ committed = received /\ received \in Nat /\ Len(stream) \in Nat
      /\ DOMAIN stream = 1 .. Len(stream) /\ sizes.batch \in Nat \ {0}
      /\ UNCHANGED <<sizes, stream, committed, backlog, acked, dead>>
  BY CallParts, PatchAssumption DEF Receive, given, CallInv, SourceTypes, PatchAssumption
<1>3. n \in Nat /\ received < n /\ n <= received + sizes.batch /\ n <= Len(stream)
  <2>1. S \subseteq Nat /\ S # {}
    BY <1>2
  <2>2. Min(S) \in S /\ \A k \in S : Min(S) <= k
    <3> HIDE DEF S
    <3>1. QED BY <2>1, MinOf
  <2>3. Min(S) \in Nat /\ Min(S) <= received + sizes.batch /\ Min(S) <= Len(stream)
    BY <2>1, <2>2
  <2>4. n \in Nat /\ received < n /\ n <= Min(S)
    BY <1>1, <1>2, <2>3
  <2>5. QED BY <1>2, <2>3, <2>4
<1>4. numbers \in Seq(DOMAIN stream) /\ Len(numbers) = n - received
  <2>1. numbers \in [1 .. n - received -> DOMAIN stream] /\ n - received \in Nat
    BY <1>2, <1>3
  <2>2. numbers \in Seq(DOMAIN stream)
    BY <2>1, SeqDef
  <2>3. Len(numbers) \in Nat /\ 1 .. Len(numbers) = 1 .. n - received
    BY <2>1, <2>2, LenProperties
  <2>4. QED BY <2>1, <2>2, <2>3
<1>5. numbers # <<>>
  <2> HIDE DEF numbers
  <2>1. Len(numbers) # 0
    BY <1>2, <1>3, <1>4
  <2>2. QED BY <2>1
<1>6. SendBatch(numbers) /\ batch' = numbers
  BY <1>1 DEF SendBatch
<1>7. DOMAIN numbers = 1 .. n - received /\ \A k \in 1 .. n - received : numbers[k] = received + k
  OBVIOUS
<1> HIDE DEF numbers, S
<1>8. CallTypes' /\ TaskTypes' /\ Phases' /\ Placed' /\ Concluded' /\ ServerTypeOK' /\ Fifo'
  BY <1>2, <1>4, <1>5, <1>6, SendBatchKeeps
<1>9. SourceTypes'
  <2>1. received' \in committed' .. Len(stream') /\ 1 .. received \subseteq 1 .. received'
    BY <1>1, <1>2, <1>3
  <2>2. place' = place
    BY <1>1 DEF SendBatch
  <2>3. QED BY <1>2, <2>1, <2>2 DEF CallInv, SourceTypes
<1>10. Numbers'
  <2>1. \A i \in DOMAIN batch' : committed' < batch'[i] /\ batch'[i] <= received'
    BY <1>1, <1>2, <1>3, <1>6, <1>7
  <2>2. \A i, j \in DOMAIN batch' : i < j => batch'[i] < batch'[j]
    BY <1>2, <1>3, <1>6, <1>7
  <2>3. received' <= committed' + sizes'.batch
    BY <1>1, <1>2, <1>3
  <2>4. /\ \A m \in backlog' : committed' < m
        /\ \A a \in acked' : \A m \in backlog' : a < m
    BY <1>2 DEF CallInv, Numbers
  <2>5. \A a \in acked' : \A i \in DOMAIN batch' : a < batch'[i]
    <3>1. acked \subseteq 1 .. received
      BY DEF CallInv, SourceTypes
    <3>2. QED BY <1>2, <1>3, <1>6, <1>7, <3>1
  <2>6. QED BY <2>1, <2>2, <2>3, <2>4, <2>5 DEF Numbers
<1>11. QED BY <1>8, <1>9, <1>10 DEF CallInv

LEMMA ResendCall ==
  ASSUME CallInv, Resend
  PROVE  CallInv'
<1> DEFINE own == [n \in backlog |-> n]
<1>1. PICK numbers \in InOrder(backlog, own) : SendBatch(numbers)
  BY DEF Resend
<1>2. /\ backlog # {} /\ backlog' = {} /\ batch' = numbers
      /\ UNCHANGED <<sizes, stream, received, committed, acked, dead, place>>
  BY <1>1 DEF Resend, given, SendBatch
<1>3. /\ backlog \subseteq 1 .. received /\ received \in Nat /\ Len(stream) \in Nat
      /\ DOMAIN stream = 1 .. Len(stream) /\ received <= Len(stream)
  BY CallParts DEF CallInv, SourceTypes
<1>4. IsFiniteSet(backlog)
  <2>1. IsFiniteSet(1 .. received)
    BY <1>3, FS_Interval
  <2>2. QED BY <1>3, <2>1, FS_Subset
<1>5. \A k, l \in DOMAIN numbers : k < l => own[numbers[k]] < own[numbers[l]]
  BY <1>1 DEF InOrder
<1>6. numbers \in Seq(backlog) /\ Range(numbers) = backlog
  BY <1>1, <1>4, InOrderSeq
<1>7. /\ Len(numbers) \in Nat /\ DOMAIN numbers = 1 .. Len(numbers)
      /\ \A k \in DOMAIN numbers : numbers[k] \in backlog
  BY <1>6, LenProperties
<1>8. \A k, l \in DOMAIN numbers : k < l => numbers[k] < numbers[l]
  BY <1>5, <1>7
<1>9. numbers \in Seq(DOMAIN stream)
  <2>1. backlog \subseteq DOMAIN stream
    BY <1>3
  <2>2. QED BY <1>6, <2>1, SeqGrows
<1>10. numbers # <<>>
  BY <1>2, <1>6 DEF Range
<1> HIDE DEF own
<1>11. CallTypes' /\ TaskTypes' /\ Phases' /\ Placed' /\ Concluded' /\ ServerTypeOK' /\ Fifo'
  BY <1>1, <1>2, <1>9, <1>10, SendBatchKeeps
<1>12. SourceTypes'
  BY <1>2 DEF CallInv, SourceTypes
<1>13. Numbers'
  <2>1. \A i \in DOMAIN batch' : committed' < batch'[i] /\ batch'[i] <= received'
    <3>1. \A m \in backlog : committed < m /\ m <= received
      BY <1>3 DEF CallInv, Numbers
    <3>2. QED BY <1>2, <1>7, <3>1
  <2>2. \A i, j \in DOMAIN batch' : i < j => batch'[i] < batch'[j]
    BY <1>2, <1>8
  <2>3. received' <= committed' + sizes'.batch
    BY <1>2 DEF CallInv, Numbers
  <2>4. /\ \A m \in backlog' : committed' < m
        /\ \A a \in acked' : \A m \in backlog' : a < m
    BY <1>2
  <2>5. \A a \in acked' : \A i \in DOMAIN batch' : a < batch'[i]
    BY <1>2, <1>7 DEF CallInv, Numbers
  <2>6. QED BY <2>1, <2>2, <2>3, <2>4, <2>5 DEF Numbers
<1>14. QED BY <1>11, <1>12, <1>13 DEF CallInv

LEMMA CommitCall ==
  ASSUME CallInv, Commit
  PROVE  CallInv'
<1>1. /\ phase = "idle" /\ backlog = {} /\ committed' = received
      /\ UNCHANGED <<place, sizes, stream, received, backlog, acked, dead, phase, batch, position,
                     settled, awaited, ids, unsent, requests, issued, failures, first, confirmed>>
      /\ UNCHANGED tasks /\ UNCHANGED server
  BY DEF Commit, given, call, message, server
<1>2. ServerTypeOK' /\ Fifo'
  BY <1>1, ServerStays
<1>3. batch = <<>> /\ first = "none" /\ confirmed = 0 /\ issued = <<>>
  BY <1>1 DEF CallInv, Phases, Placed
<1>4. SourceTypes'
  <2>1. received \in committed .. Len(stream) /\ received \in Nat /\ Len(stream) \in Nat
    BY CallParts DEF CallInv, SourceTypes
  <2>2. received' \in committed' .. Len(stream') /\ committed' \in 0 .. Len(stream')
    BY <1>1, <2>1, CallParts
  <2>3. QED BY <1>1, <2>2 DEF CallInv, SourceTypes
<1>5. CallTypes'
  BY <1>1 DEF CallInv, CallTypes
<1>6. TaskTypes'
  BY <1>1 DEF CallInv, TaskTypes
<1>7. Numbers'
  <2>1. received' <= committed' + sizes'.batch
    <3>1. received \in Nat /\ sizes.batch \in Nat
      BY CallParts, PatchAssumption DEF CallInv, SourceTypes, PatchAssumption
    <3>2. QED BY <1>1, <3>1
  <2>2. QED BY <1>1, <1>3, <2>1 DEF CallInv, Numbers
<1>8. Phases'
  BY <1>1 DEF CallInv, Phases, Working
<1>9. Placed' /\ Concluded'
  BY <1>1, <1>3 DEF Placed, Concluded, Working
<1>10. QED BY <1>2, <1>4, <1>5, <1>6, <1>7, <1>8, <1>9 DEF CallInv

LEMMA CrashCall ==
  ASSUME CallInv, Crash
  PROVE  CallInv'
<1>1. /\ Mishap /\ NoCall /\ received' = committed /\ backlog' = {}
      /\ acked' = acked \cap 1 .. committed /\ dead' = dead \cap 1 .. committed
      /\ UNCHANGED <<place, sizes, stream, committed, tasks, docs, owned, expected, disturbed>>
  BY DEF Crash, given
<1>2. ServerTypeOK' /\ Fifo'
  BY <1>1, FifoStays, SharedIndexAssumption
     DEF CallInv, ServerTypeOK, Mishap, SharedIndexAssumption
<1>3. CallTypes' /\ TaskTypes' /\ Phases' /\ Placed' /\ Concluded' /\ batch' = <<>>
  BY <1>1, NoCallKeeps DEF CallInv
<1>4. SourceTypes'
  <2>1. received' \in committed' .. Len(stream')
    BY <1>1, CallParts DEF CallInv, SourceTypes
  <2>2. QED BY <1>1, <2>1 DEF CallInv, SourceTypes
<1>5. Numbers'
  <2>1. received' <= committed' + sizes'.batch
    <3>1. committed \in Nat /\ sizes.batch \in Nat
      BY CallParts, PatchAssumption DEF CallInv, SourceTypes, PatchAssumption
    <3>2. QED BY <1>1, <3>1
  <2>2. QED BY <1>1, <1>3, <2>1 DEF Numbers
<1>6. QED BY <1>2, <1>3, <1>4, <1>5 DEF CallInv

(* No message is reported as delivered behind one that is to be sent again. *)
LEMMA VerdictOrder ==
  ASSUME CallInv, phase = "confirm", confirmed = Len(issued),
         NEW i \in DOMAIN batch, NEW j \in DOMAIN batch, i < j, Verdict(i) = "retryable"
  PROVE  Verdict(j) # "none"
<1>1. /\ i \in 1 .. Len(batch) /\ j \in 1 .. Len(batch) /\ Len(batch) \in Nat
      /\ Len(issued) \in Nat /\ DOMAIN issued = 1 .. Len(issued)
      /\ \A k \in 1 .. Len(issued) : issued[k].position \in 1 .. Len(batch)
  BY CallParts
<1>2. HasEntry(j) \/ Rejected(j) \/ Unissued(j)
  BY DEF CallInv, Placed
<1>3. \A p \in DOMAIN batch : failures[p] # "none" => Verdict(p) = failures[p]
  BY DEF Verdict
<1>4. CASE failures[i] = "none"
  <2>1. /\ first # "none" /\ issued # <<>> /\ i > Last(issued).position
    BY <1>4 DEF Verdict
  <2>2. issued[Len(issued)].position \in 1 .. Len(batch)
    <3>1. Len(issued) # 0
      <4>1. issued \in Seq([position : DOMAIN batch, tasks : Seq(DOMAIN tasks)])
        BY DEF CallInv, TaskTypes
      <4>2. QED BY <2>1, <4>1, EmptySeq
    <3>2. QED BY <1>1, <3>1
  <2>3. j > Last(issued).position
    BY <1>1, <2>1, <2>2 DEF Last
  <2>4. QED BY <1>3, <2>1, <2>3 DEF Verdict
<1>5. CASE failures[i] # "none"
  <2>1. failures[i] = "retryable"
    BY <1>3, <1>5
  <2>2. PICK k \in DOMAIN issued : issued[k].position = i
    BY <2>1 DEF CallInv, Concluded, HasEntry
  <2>3. Failing(k) /\ k \in 1 .. confirmed /\ first # "none"
    BY <1>1, <2>1, <2>2 DEF Failing, CallInv, Concluded
  <2>4. CASE HasEntry(j)
    <3>1. PICK l \in DOMAIN issued : issued[l].position = j
      BY <2>4 DEF HasEntry
    <3>2. k < l
      <4>1. \A a, b \in DOMAIN issued : a < b => issued[a].position < issued[b].position
        BY DEF CallInv, Placed
      <4>2. k \in Nat /\ l \in Nat /\ i \in Nat /\ j \in Nat
        BY <1>1
      <4>3. l < k => j < i
        BY <2>2, <3>1, <4>1
      <4>4. l # k
        BY <1>1, <2>2, <3>1
      <4>5. QED BY <4>2, <4>3, <4>4
    <3>3. Failing(l)
      BY <1>1, <2>3, <3>2 DEF CallInv, Concluded
    <3>4. QED BY <1>3, <3>1, <3>3 DEF Failing
  <2>5. CASE Rejected(j)
    BY <1>3, <2>5 DEF Rejected
  <2>6. CASE Unissued(j)
    BY <1>3, <2>3, <2>6 DEF Unissued, Verdict, Last
  <2>7. QED BY <1>2, <2>4, <2>5, <2>6
<1>6. QED BY <1>4, <1>5

LEMMA ReportCall ==
  ASSUME CallInv, Report
  PROVE  CallInv'
<1>1. /\ phase = "confirm" /\ confirmed = Len(issued) /\ NoCall
      /\ acked' = acked \cup Judged("none") /\ dead' = dead \cup Judged("permanent")
      /\ backlog' = Judged("retryable")
      /\ UNCHANGED <<place, sizes, stream, received, committed, server, tasks>>
  BY DEF Report, given, server
<1>2. ServerTypeOK' /\ Fifo'
  BY <1>1, ServerStays
<1>3. CallTypes' /\ TaskTypes' /\ Phases' /\ Placed' /\ Concluded' /\ batch' = <<>>
  BY <1>1, NoCallKeeps DEF CallInv
<1>4. /\ \A i \in DOMAIN batch : /\ batch[i] \in 1 .. received /\ batch[i] \in Nat
                                 /\ committed < batch[i] /\ i \in Nat
      /\ received \in Nat
  <2>1. \A i \in DOMAIN batch : committed < batch[i] /\ batch[i] <= received
    BY DEF CallInv, Numbers
  <2>2. \A i \in DOMAIN batch : batch[i] \in Nat /\ 1 <= batch[i] /\ i \in Nat
    BY CallParts
  <2>3. QED BY <2>1, <2>2, CallParts
<1>5. \A verdict : Judged(verdict) \subseteq 1 .. received
  BY <1>4 DEF Judged
<1>6. SourceTypes'
  BY <1>1, <1>5 DEF CallInv, SourceTypes
<1>7. Numbers'
  <2>1. \A m \in backlog' : committed' < m
    BY <1>1, <1>4 DEF Judged
  <2>2. received' <= committed' + sizes'.batch
    BY <1>1 DEF CallInv, Numbers
  <2>3. \A a \in acked' : \A m \in backlog' : a < m
    <3>1. SUFFICES ASSUME NEW a \in acked', NEW m \in Judged("retryable") PROVE a < m
      BY <1>1
    <3>2. PICK i \in DOMAIN batch : m = batch[i] /\ Verdict(i) = "retryable"
      BY DEF Judged
    <3>3. CASE a \in acked
      BY <3>2, <3>3 DEF CallInv, Numbers
    <3>4. CASE a \in Judged("none")
      <4>1. PICK j \in DOMAIN batch : a = batch[j] /\ Verdict(j) = "none"
        BY <3>4 DEF Judged
      <4>2. ~(i < j)
        BY <1>1, <3>2, <4>1, VerdictOrder
      <4>3. i # j
        BY <3>2, <4>1
      <4>4. j < i
        BY <1>4, <4>2, <4>3
      <4>5. QED BY <3>2, <4>1, <4>4 DEF CallInv, Numbers
    <3>5. QED BY <1>1, <3>1, <3>3, <3>4
  <2>4. Len(batch') = 0 /\ DOMAIN batch' = {}
    BY <1>3
  <2>5. QED BY <2>1, <2>2, <2>3, <2>4 DEF Numbers
<1>8. QED BY <1>2, <1>3, <1>6, <1>7 DEF CallInv

-----------------------------------------------------------------------------
LEMMA InitCall == Init => CallInv
<1> SUFFICES ASSUME Init PROVE CallInv
  OBVIOUS
<1>1. /\ tasks = <<>> /\ owned = 0 /\ faults = 0 /\ expected = {} /\ disturbed = {}
      /\ committed = 0 /\ received = 0 /\ backlog = {} /\ acked = {} /\ dead = {}
      /\ stream \in Streams /\ stream \in Seq(Parents \cup {NoParent})
      /\ sizes \in Sizes /\ place \in Places
  BY PatchAssumption DEF Init, PatchAssumption
<1>2. docs \in [Docs -> [Parts -> Nat]]
  BY DEF Init, Gone, Parts
<1>3. ServerTypeOK /\ Fifo
  BY <1>1, <1>2, SharedIndexAssumption DEF ServerTypeOK, Fifo, Pending, SharedIndexAssumption
<1>4. SourceTypes
  <2>1. Len(stream) \in Nat
    BY <1>1, LenProperties
  <2>2. QED BY <1>1, <2>1 DEF SourceTypes
<1>5. /\ phase = "idle" /\ batch = <<>> /\ position = 0 /\ settled = FALSE /\ awaited = 0
      /\ ids = <<>> /\ unsent = <<>> /\ requests = <<>> /\ issued = <<>>
      /\ failures = <<>> /\ first = "none" /\ confirmed = 0
  BY DEF Init
<1>6. CallTypes
  <2>1. failures \in [DOMAIN batch -> Failure \cup {"none"}]
    BY <1>5
  <2>2. /\ batch \in Seq(DOMAIN stream) /\ position \in 0 .. Len(batch) + 1
        /\ ids \in Seq(Docs) /\ unsent \in Seq(Docs) /\ confirmed \in 0 .. Len(issued)
    BY <1>5, EmptySeq
  <2>3. phase = "idle" /\ settled \in BOOLEAN /\ first \in Failure \cup {"none"}
    BY <1>5
  <2>4. QED BY <2>1, <2>2, <2>3 DEF CallTypes
<1>7. TaskTypes
  BY <1>1, <1>5 DEF TaskTypes
<1>8. Numbers /\ Phases /\ Placed /\ Concluded
  <2>1. sizes.batch \in Nat
    BY <1>1, PatchAssumption DEF PatchAssumption
  <2>2. received <= committed + sizes.batch
    BY <1>1, <2>1
  <2>3. QED BY <1>1, <1>5, <2>2 DEF Numbers, Phases, Placed, Concluded, Working
<1>9. QED BY <1>3, <1>4, <1>6, <1>7, <1>8 DEF CallInv

LEMMA NextCall == CallInv /\ [Next]_vars => CallInv'
<1> SUFFICES ASSUME CallInv, [Next]_vars PROVE CallInv'
  OBVIOUS
<1>1. CASE RejectMessage
  BY <1>1, RejectCall
<1>2. CASE AskPending
  BY <1>2, AskCall
<1>3. CASE AwaitQueued \/ StartPaging
  BY <1>3, PagingCall
<1>4. CASE ReadPage
  BY <1>4, ReadCall
<1>5. CASE SendPatch
  BY <1>5, SendCall
<1>6. CASE Issued
  BY <1>6, IssuedCall
<1>7. CASE QueuedTaskLost
  BY <1>7, QueuedLostCall
<1>8. CASE Refused
  BY <1>8, RefusedCall
<1>9. CASE ReplyLost
  BY <1>9, ReplyLostCall
<1>10. CASE ConfirmNext \/ PollRefused
  BY <1>10, ConfirmCall
<1>11. CASE Report
  BY <1>11, ReportCall
<1>12. CASE Receive
  BY <1>12, ReceiveCall
<1>13. CASE Resend
  BY <1>13, ResendCall
<1>14. CASE Commit
  BY <1>14, CommitCall
<1>15. CASE Crash
  BY <1>15, CrashCall
<1>16. CASE ApplyTask
  BY <1>16, ApplyCall
<1>17. CASE LoseTask
  BY <1>17, LoseCall
<1>18. CASE Owner
  BY <1>18, OwnerCall
<1>19. CASE UNCHANGED vars
  <2>1. /\ UNCHANGED <<place, source, phase, call>> /\ UNCHANGED server
        /\ UNCHANGED <<place, tasks>>
    BY <1>19 DEF vars, server
  <2>2. ServerTypeOK' /\ Fifo' /\ Len(tasks) <= Len(tasks') /\ place' \in Places
    BY <2>1, ServerStays, CallParts DEF CallInv, SourceTypes
  <2>3. QED BY <2>1, <2>2, ServerCallStep
<1>20. QED
  BY <1>1, <1>2, <1>3, <1>4, <1>5, <1>6, <1>7, <1>8, <1>9, <1>10, <1>11, <1>12, <1>13, <1>14,
     <1>15, <1>16, <1>17, <1>18, <1>19 DEF Next

(* Where a batch of patches is, in patch_batch: the positions behind it    *)
(* are noted in order unless they failed before they were issued, and from *)
(* the first noted one that failed on, all that are confirmed fail.  The   *)
(* queue of the index ends its tasks in order.                             *)
THEOREM CallInvariant == Spec => []CallInv
BY InitCall, NextCall, PTL DEF Spec

(* Whatever becomes of the pages, of the updates and of the waits for      *)
(* them, the state of the route stays what it is meant to be: the          *)
(* positions noted in `issued`, and the failures, are of messages of the   *)
(* batch, and the tasks of an entry are tasks that were enqueued.          *)
THEOREM TypeCorrect == Spec => []TypeOK
<1>1. CallInv => TypeOK
  <2>1. SUFFICES ASSUME CallInv PROVE TypeOK
    OBVIOUS
  <2>2. sizes \in [batch : Nat, page : Nat]
    <3>1. \A r \in [batch : Nat \ {0}, page : Nat \ {0}] : r \in [batch : Nat, page : Nat]
      OBVIOUS
    <3>2. sizes \in [batch : Nat \ {0}, page : Nat \ {0}]
      BY <2>1, PatchAssumption DEF CallInv, SourceTypes, PatchAssumption
    <3>3. QED BY <3>1, <3>2
  <2>3. ServerTypeOK /\ SourceTypes /\ CallTypes /\ TaskTypes
    BY <2>1 DEF CallInv
  <2>4. QED BY <2>2, <2>3, Zenon DEF SourceTypes, CallTypes, TaskTypes, TypeOK
<1>2. QED BY <1>1, CallInvariant, PTL

-----------------------------------------------------------------------------
(***************************************************************************)
(* What is known of the index, and of its queue, while a call works: the   *)
(* documents that were promised when the queue was looked at exist, once   *)
(* it has been applied, and nothing but a write of the owner is left of it.*)
(***************************************************************************)
Known == expected \ disturbed
Owners(t) == Touched(t) # {} /\ Touched(t) \subseteq disturbed /\ owned > 0
NoDelete(t) == \A c \in Range(tasks[t].changes) : c.number = 0 => c.doc \in disturbed

PromisedKept == Known \subseteq Promised /\ \A t \in Pending : awaited < t => Owners(t)
NoneDeleted == Known \subseteq Existing(docs) /\ \A t \in Pending : NoDelete(t)
OwnersOnly == \A t \in Pending : Owners(t)

(* The task is for documents of a parent of the batch: of an earlier one,  *)
(* or of the one that is being written.                                    *)
Sent(t) == \E i \in DOMAIN batch : /\ i < position \/ (i = position /\ phase = "write")
                                   /\ \A d \in Touched(t) : ParentOf[d] = stream[batch[i]]
OwnersOrSent == \A t \in Pending : Owners(t) \/ Sent(t)

(* What was read refers to the parent. *)
OfParent(a) == {d \in Docs : ParentOf[d] = a}
Referred == ids \in Seq(OfParent(Parent)) /\ unsent \in Seq(OfParent(Parent))

QueueInv ==
  /\ phase = "await" => PromisedKept
  /\ phase \in {"issue", "page", "write"} /\ settled => NoneDeleted /\ OwnersOrSent
  /\ phase \in {"page", "write"} => Referred

LEMMA OwnersNoDelete == ASSUME NEW t, Owners(t) PROVE NoDelete(t)
BY DEF Owners, NoDelete, Touched

LEMMA SameQueue ==
  ASSUME UNCHANGED server
  PROVE  /\ PromisedKept /\ awaited' = awaited => PromisedKept'
         /\ NoneDeleted => NoneDeleted'
         /\ OwnersOnly => OwnersOnly'
<1>1. UNCHANGED <<tasks, docs, owned, expected, disturbed>>
  BY DEF server
<1>2. Known' = Known /\ Pending' = Pending /\ Existing(docs') = Existing(docs)
  BY <1>1 DEF Known, Pending, Existing
<1>3. Promised' = Promised
  BY <1>1 DEF Promised, Writers, Pending, Touched, Existing, Keeps
<1>4. \A t : (Owners(t) => Owners(t)') /\ (NoDelete(t) => NoDelete(t)')
  BY <1>1 DEF Owners, NoDelete, Touched
<1>5. QED BY <1>2, <1>3, <1>4 DEF PromisedKept, NoneDeleted, OwnersOnly

(* What was sent for a message counts as such while the batch goes on. *)
LEMMA StillSent ==
  ASSUME CallInv, UNCHANGED <<batch, stream>>, UNCHANGED server,
         \/ position' = position /\ (phase = "write" => phase' = "write")
         \/ position' = position + 1
  PROVE  OwnersOrSent => OwnersOrSent'
<1>1. /\ DOMAIN batch = 1 .. Len(batch) /\ Len(batch) \in Nat /\ position \in Nat
  BY CallParts
<1>2. UNCHANGED <<tasks, owned, disturbed>>
  BY DEF server
<1>3. \A t : (Owners(t) => Owners(t)') /\ Touched(t)' = Touched(t)
  BY <1>2 DEF Owners, Touched
<1>4. \A i \in DOMAIN batch : i < position \/ (i = position /\ phase = "write") =>
        i < position' \/ (i = position' /\ phase' = "write")
  BY <1>1
<1>5. \A t : Sent(t) => Sent(t)'
  BY <1>3, <1>4 DEF Sent
<1>6. Pending' = Pending
  BY <1>2 DEF Pending
<1>7. QED BY <1>3, <1>5, <1>6 DEF OwnersOrSent

(* A document that exists does so behind changes that do not delete it. *)
LEMMA StaysThere ==
  ASSUME NEW contents \in Contents, NEW changes \in Seq(Change), NEW d \in Existing(contents),
         \A c \in Range(changes) : c.doc = d => c.number # 0
  PROVE  d \in Existing(After(contents, changes))
<1>1. d \in Docs
  BY DEF Existing
<1>2. CASE d \in {c.doc : c \in Range(changes)}
  <2> DEFINE K == {k \in DOMAIN changes : changes[k].doc = d}
  <2>1. K \subseteq 0 .. Len(changes) /\ Len(changes) \in Nat
    BY ChangeParts
  <2>2. K # {}
    BY <1>2 DEF Range
  <2>3. Max(K) \in K
    <3> HIDE DEF K
    <3>1. QED BY <2>1, <2>2, MaxOf
  <2>4. changes[Max(K)].number # 0
    BY <2>3 DEF Range
  <2>5. QED BY <1>1, <1>2, <2>4, ExistsAfter DEF Keeps
<1>3. CASE d \notin {c.doc : c \in Range(changes)}
  BY <1>1, <1>3, ExistsAfter
<1>4. QED BY <1>2, <1>3

LEMMA ServerQueue ==
  ASSUME CallInv, ApplyTask \/ LoseTask \/ Owner
  PROVE  /\ PromisedKept => PromisedKept'
         /\ NoneDeleted => NoneDeleted'
         /\ OwnersOrSent => OwnersOrSent'
<1>1. UNCHANGED <<awaited, phase, position, batch, stream>>
  BY DEF ApplyTask, LoseTask, Owner, call, source, given
<1>2. /\ tasks \in Seq(Task) /\ docs \in Contents /\ expected \subseteq Docs /\ owned \in Nat
      /\ Len(tasks) \in Nat /\ DOMAIN tasks = 1 .. Len(tasks) /\ awaited \in 0 .. Len(tasks)
      /\ Pending \subseteq DOMAIN tasks
  BY CallParts, SharedIndexAssumption
     DEF CallInv, ServerTypeOK, Contents, TaskTypes, Pending, SharedIndexAssumption
<1>3. CASE ApplyTask
  <2>1. PICK t \in Pending : Apply(t) /\ QueueLoses(t) /\ Unaltered({})
    BY <1>3, ApplyCall
  <2>2. /\ docs' = After(docs, tasks[t].changes) /\ UNCHANGED <<owned, expected, disturbed>>
        /\ Pending' = Pending \ {t} /\ \A u \in DOMAIN tasks : tasks'[u].changes = tasks[u].changes
    BY <2>1 DEF Apply, QueueLoses
  <2>3. \A u \in Pending : (Owners(u) => Owners(u)') /\ (NoDelete(u) => NoDelete(u)')
    BY <1>2, <2>2 DEF Owners, NoDelete, Touched
  <2>4. PromisedKept => PromisedKept'
    BY <1>1, <1>2, <2>1, <2>2, <2>3 DEF PromisedKept, Known, Unaltered
  <2>5. ASSUME NoneDeleted PROVE NoneDeleted'
    <3>1. SUFFICES ASSUME NEW d \in Known PROVE d \in Existing(docs')
      BY <2>2, <2>3, <2>5 DEF NoneDeleted, Known
    <3>2. d \in Existing(docs) /\ NoDelete(t) /\ d \notin disturbed
      BY <2>5, <3>1 DEF NoneDeleted, Known
    <3>3. \A c \in Range(tasks[t].changes) : c.doc = d => c.number # 0
      BY <3>2 DEF NoDelete
    <3>4. tasks[t].changes \in Seq(Change)
      BY <1>2, TaskParts
    <3>5. QED BY <1>2, <2>2, <3>2, <3>3, <3>4, StaysThere
  <2>6. OwnersOrSent => OwnersOrSent'
    <3>1. \A u \in Pending : Sent(u) => Sent(u)'
      BY <1>1, <1>2, <2>2 DEF Sent, Touched
    <3>2. QED BY <2>2, <2>3, <3>1 DEF OwnersOrSent
  <2>7. QED BY <2>4, <2>5, <2>6
<1>4. CASE LoseTask
  <2>1. PICK t \in DOMAIN tasks : Lose(t) /\ QueueLoses(t) /\ Unaltered(Touched(t))
    BY <1>4, LoseCall
  <2>2. /\ UNCHANGED <<docs, owned, expected>> /\ disturbed' = disturbed \cup Touched(t)
        /\ Pending' = Pending \ {t} /\ \A u \in DOMAIN tasks : tasks'[u].changes = tasks[u].changes
    BY <2>1 DEF Lose, QueueLoses
  <2>3. \A u \in Pending : (Owners(u) => Owners(u)') /\ (NoDelete(u) => NoDelete(u)')
    BY <1>2, <2>2 DEF Owners, NoDelete, Touched
  <2>4. PromisedKept => PromisedKept'
    BY <1>1, <1>2, <2>1, <2>2, <2>3 DEF PromisedKept, Known, Unaltered
  <2>5. NoneDeleted => NoneDeleted'
    BY <2>2, <2>3 DEF NoneDeleted, Known, Existing
  <2>6. OwnersOrSent => OwnersOrSent'
    <3>1. \A u \in Pending : Sent(u) => Sent(u)'
      BY <1>1, <1>2, <2>2 DEF Sent, Touched
    <3>2. QED BY <2>2, <2>3, <3>1 DEF OwnersOrSent
  <2>7. QED BY <2>4, <2>5, <2>6
<1>5. CASE Owner
  <2>1. PICK changes \in Seq(Change), d \in Docs :
          /\ QueueGrows(changes) /\ Unaltered({d})
          /\ {c.doc : c \in Range(changes)} = {d} /\ disturbed' = disturbed \cup {d}
    BY <1>5, OwnerCall
  <2>2. /\ UNCHANGED <<docs, expected>> /\ owned' = owned + 1 /\ owned' > 0
        /\ Pending' = Pending \cup {Len(tasks) + 1}
        /\ \A u \in DOMAIN tasks : tasks'[u] = tasks[u]
        /\ \A u \in {Len(tasks) + 1} : tasks'[u].changes = changes
    BY <1>2, <1>5, <2>1 DEF Owner, OwnerWrites, QueueGrows
  <2>3. \A u \in Pending : (Owners(u) => Owners(u)') /\ (NoDelete(u) => NoDelete(u)')
    BY <1>2, <2>1, <2>2 DEF Owners, NoDelete, Touched
  <2>4. \A u \in {Len(tasks) + 1} : Owners(u)'
    BY <2>1, <2>2 DEF Owners, Touched
  <2>5. \A u \in {Len(tasks) + 1} : NoDelete(u)'
    BY <2>1, <2>2 DEF NoDelete
  <2>6. PromisedKept => PromisedKept'
    BY <1>1, <1>2, <2>1, <2>2, <2>3, <2>4 DEF PromisedKept, Known, Unaltered
  <2>7. NoneDeleted => NoneDeleted'
    BY <2>1, <2>2, <2>3, <2>5 DEF NoneDeleted, Known, Existing
  <2>8. OwnersOrSent => OwnersOrSent'
    <3>1. \A u \in Pending : Sent(u) => Sent(u)'
      BY <1>1, <1>2, <2>2 DEF Sent, Touched
    <3>2. QED BY <2>2, <2>3, <2>4, <3>1 DEF OwnersOrSent
  <2>9. QED BY <2>6, <2>7, <2>8
<1>6. QED BY <1>3, <1>4, <1>5

(* The wait is over: what was promised is there. *)
LEMMA AwaitedQueue ==
  ASSUME CallInv, PromisedKept, QueueApplied(awaited)
  PROVE  NoneDeleted /\ OwnersOnly
<1>1. /\ tasks \in Seq(Task) /\ Len(tasks) \in Nat /\ DOMAIN tasks = 1 .. Len(tasks)
      /\ awaited \in 1 .. Len(tasks) /\ tasks[awaited].status \in {"succeeded", "failed"}
      /\ Pending \subseteq 1 .. Len(tasks) /\ awaited \notin Pending
  BY CallParts DEF CallInv, TaskTypes, QueueApplied, Pending
<1>2. OwnersOnly
  <2>1. \A t \in Pending : ~(t < awaited)
    BY <1>1 DEF CallInv, Fifo
  <2>2. \A t \in Pending : awaited < t
    BY <1>1, <2>1
  <2>3. QED BY <2>2 DEF OwnersOnly, PromisedKept
<1>3. Known \subseteq Existing(docs)
  <2>1. ASSUME NEW d \in Known PROVE d \in Existing(docs)
    <3>1. d \in Promised /\ d \in Docs /\ d \notin disturbed
      BY <2>1 DEF PromisedKept, Promised, Known
    <3>2. Writers(d) = {}
      BY <1>2, <3>1 DEF Writers, OwnersOnly, Owners
    <3>3. QED BY <3>1, <3>2, PromisedOf
  <2>2. QED BY <2>1
<1>4. QED BY <1>2, <1>3, OwnersNoDelete DEF OwnersOnly, NoneDeleted

LEMMA AskQueue ==
  ASSUME CallInv, AskPending
  PROVE  /\ phase' = "await" => PromisedKept'
         /\ phase' = "page" => NoneDeleted' /\ OwnersOnly'
<1>1. /\ awaited' = LatestPending /\ phase' = (IF awaited' = 0 THEN "page" ELSE "await")
      /\ expected' = Promised /\ disturbed' = {} /\ UNCHANGED <<tasks, docs, owned>>
      /\ tasks \in Seq(Task)
  BY DEF AskPending, CallInv, ServerTypeOK
<1>2. Promised' = Promised /\ Pending' = Pending
  BY <1>1 DEF Promised, Writers, Pending, Touched, Existing, Keeps
<1>3. /\ LatestPending \in 0 .. Len(tasks) /\ \A t \in Pending : t <= LatestPending
      /\ LatestPending = 0 => Pending = {}
      /\ Pending \subseteq 1 .. Len(tasks) /\ Len(tasks) \in Nat
  BY <1>1, LatestTask, PendingTasks
<1>4. Known' \subseteq Promised
  BY <1>1 DEF Known
<1>5. phase' = "await" => PromisedKept'
  <2>1. \A t \in Pending' : ~(awaited' < t)
    BY <1>1, <1>2, <1>3
  <2>2. QED BY <1>2, <1>4, <2>1 DEF PromisedKept
<1>6. ASSUME phase' = "page" PROVE NoneDeleted' /\ OwnersOnly'
  <2>1. Pending = {}
    BY <1>1, <1>3, <1>6
  <2>2. Promised \subseteq Existing(docs)
    BY <2>1, PromisedOf DEF Writers, Promised
  <2>3. Existing(docs') = Existing(docs)
    BY <1>1 DEF Existing
  <2>4. QED BY <1>2, <1>4, <2>1, <2>2, <2>3 DEF NoneDeleted, OwnersOnly
<1>7. QED BY <1>5, <1>6

LEMMA SendQueue ==
  ASSUME CallInv, SendPatch, NoneDeleted, OwnersOrSent, Referred
  PROVE  NoneDeleted' /\ OwnersOrSent' /\ Referred'
<1>1. PICK k \in 1 .. Len(unsent) : /\ QueueGrows(Updates(k))
                                    /\ unsent' = SubSeq(unsent, k + 1, Len(unsent))
  BY SendCall
<1>2. /\ UNCHANGED <<docs, owned, expected, disturbed>> /\ phase = "write" /\ phase' = "write"
      /\ UNCHANGED <<batch, stream, position, ids>>
      /\ Pending' = Pending \cup {Len(tasks) + 1} /\ Pending \subseteq DOMAIN tasks
      /\ \A u \in DOMAIN tasks : tasks'[u] = tasks[u]
      /\ \A u \in {Len(tasks) + 1} : tasks'[u].changes = Updates(k)
  BY <1>1 DEF SendPatch, QueueGrows, Pending, source, given
<1>3. NoneDeleted'
  <2>1. \A u \in Pending : NoDelete(u) => NoDelete(u)'
    BY <1>2 DEF NoDelete
  <2>2. batch[position] # 0
    BY <1>2, CallParts DEF CallInv, Phases, Working
  <2>3. \A u \in {Len(tasks) + 1} : NoDelete(u)'
    BY <1>2, <2>2, UpdatesType DEF NoDelete
  <2>4. QED BY <1>2, <2>1, <2>3 DEF NoneDeleted, Known, Existing
<1>4. OwnersOrSent'
  <2>1. \A u \in Pending : (Owners(u) => Owners(u)') /\ (Sent(u) => Sent(u)')
    BY <1>2 DEF Owners, Sent, Touched
  <2>2. position \in DOMAIN batch
    BY <1>2 DEF CallInv, Phases, Working
  <2>3. \A j \in 1 .. k : ParentOf[unsent[j]] = Parent
    <3>1. \A j \in 1 .. Len(unsent) : unsent[j] \in OfParent(Parent)
      BY ElementOfSeq DEF Referred
    <3>2. Len(unsent) \in Nat
      BY LenProperties DEF Referred
    <3>3. QED BY <3>1, <3>2 DEF OfParent
  <2>4. {c.doc : c \in Range(Updates(k))} = {unsent[j] : j \in 1 .. k}
    BY <1>2, UpdatesType
  <2>5. \A u \in {Len(tasks) + 1} : \A d \in Touched(u)' : ParentOf[d] = Parent
    <3>1. \A u \in {Len(tasks) + 1} : Touched(u)' = {unsent[j] : j \in 1 .. k}
      BY <1>2, <2>4 DEF Touched
    <3>2. QED BY <2>3, <3>1
  <2>6. \A u \in {Len(tasks) + 1} : Sent(u)'
    BY <1>2, <2>2, <2>5 DEF Sent, Parent
  <2>7. QED BY <1>2, <2>1, <2>6 DEF OwnersOrSent
<1>5. Referred'
  <2>1. unsent \in Seq(OfParent(Parent)) /\ Len(unsent) \in Nat
    BY LenProperties DEF Referred
  <2>2. \A i \in k + 1 .. Len(unsent) : unsent[i] \in OfParent(Parent)
    BY <2>1, ElementOfSeq
  <2>3. unsent' \in Seq(OfParent(Parent))
    BY <1>1, <2>1, <2>2, SubSeqProperties
  <2>4. Parent' = Parent
    BY <1>2 DEF Parent
  <2>5. QED BY <1>2, <2>3, <2>4 DEF Referred
<1>6. QED BY <1>3, <1>4, <1>5

(* Steps behind which no message is worked on. *)
LEMMA Paused ==
  ASSUME CallInv, Refused \/ QueuedTaskLost \/ ReplyLost \/ ConfirmNext \/ PollRefused
                  \/ Report \/ Receive \/ Resend \/ Commit \/ Crash
  PROVE  phase' \in {"confirm", "idle"} \/ (phase' = "issue" /\ ~settled')
<1>1. ASSUME NEW failure, Abandon(failure) PROVE phase' = "confirm"
  BY <1>1 DEF Abandon
<1>2. CASE Refused
  <2>1. \E failure \in Failure : Abandon(failure)
    BY <1>2 DEF Refused, Failure
  <2>2. QED BY <1>1, <2>1
<1>3. CASE QueuedTaskLost
  <2>1. Abandon("retryable")
    BY <1>3 DEF QueuedTaskLost
  <2>2. QED BY <1>1, <2>1
<1>4. CASE ReplyLost
  <2>1. Abandon("retryable")
    BY <1>4 DEF ReplyLost
  <2>2. QED BY <1>1, <2>1
<1>5. CASE ConfirmNext
  <2>1. phase = "confirm" /\ phase' = phase
    BY <1>5 DEF ConfirmNext, Confirming
  <2>2. QED BY <2>1
<1>6. CASE PollRefused
  <2>1. phase = "confirm" /\ phase' = phase
    BY <1>6 DEF PollRefused, Confirming
  <2>2. QED BY <2>1
<1>7. CASE Report \/ Crash
  BY <1>7 DEF Report, Crash, NoCall
<1>8. CASE Receive
  <2>1. phase = "idle" /\ phase' = "issue" /\ settled' = settled
    BY <1>8 DEF Receive, SendBatch
  <2>2. QED BY <2>1 DEF CallInv, Phases
<1>9. CASE Resend
  <2>1. phase = "idle" /\ phase' = "issue" /\ settled' = settled
    BY <1>9 DEF Resend, SendBatch
  <2>2. QED BY <2>1 DEF CallInv, Phases
<1>10. CASE Commit
  <2>1. phase = "idle" /\ phase' = phase
    BY <1>10 DEF Commit
  <2>2. QED BY <2>1
<1>11. QED BY <1>2, <1>3, <1>4, <1>5, <1>6, <1>7, <1>8, <1>9, <1>10

LEMMA QueueStep ==
  ASSUME CallInv, QueueInv, [Next]_vars
  PROVE  QueueInv'
<1>1. CASE RejectMessage \/ Issued
  <2>1. /\ phase \in {"issue", "write"} /\ phase' \in {"issue", "confirm"} /\ UNCHANGED server
        /\ position' = position + 1 /\ UNCHANGED <<settled, batch, stream>>
    BY <1>1 DEF RejectMessage, Issued, TurnTo, source, given
  <2>2. (NoneDeleted => NoneDeleted') /\ (OwnersOrSent => OwnersOrSent')
    BY <2>1, SameQueue, StillSent
  <2>3. QED BY <2>1, <2>2 DEF QueueInv
<1>2. CASE AskPending \/ AwaitQueued \/ StartPaging
  <2>1. Referred'
    <3>1. ids' = <<>> /\ unsent' = <<>>
      BY <1>2 DEF AskPending, AwaitQueued, StartPaging, call, message, CallInv, Phases
    <3>2. QED BY <3>1, EmptySeq DEF Referred
  <2>2. OwnersOnly' => OwnersOrSent'
    BY DEF OwnersOnly, OwnersOrSent
  <2>3. CASE AskPending
    <3>1. phase' \in {"await", "page"}
      BY <2>3 DEF AskPending
    <3>2. QED BY <2>1, <2>2, <2>3, <3>1, AskQueue DEF QueueInv
  <2>4. CASE AwaitQueued
    <3>1. phase' = "page" /\ UNCHANGED server
      BY <2>4 DEF AwaitQueued
    <3>2. NoneDeleted /\ OwnersOnly
      BY <2>4, AwaitedQueue DEF AwaitQueued, QueueInv
    <3>3. NoneDeleted' /\ OwnersOnly'
      BY <3>1, <3>2, SameQueue
    <3>4. QED BY <2>1, <2>2, <3>1, <3>3 DEF QueueInv
  <2>5. CASE StartPaging
    <3>1. /\ phase = "issue" /\ settled /\ phase' = "page" /\ UNCHANGED server
          /\ UNCHANGED <<position, batch, stream>>
      BY <2>5 DEF StartPaging, call, source, given
    <3>2. NoneDeleted' /\ OwnersOrSent'
      BY <3>1, SameQueue, StillSent DEF QueueInv
    <3>3. QED BY <2>1, <3>1, <3>2 DEF QueueInv
  <2>6. QED BY <1>2, <2>3, <2>4, <2>5
<1>3. CASE ReadPage
  <2>1. /\ phase = "page" /\ phase' \in {"page", "write"} /\ UNCHANGED server
        /\ UNCHANGED <<settled, position, batch, stream>>
        /\ unsent' = unsent \/ unsent' = ids'
    BY <1>3 DEF ReadPage, source, given
  <2>2. settled
    BY <2>1 DEF CallInv, Phases
  <2>3. NoneDeleted' /\ OwnersOrSent'
    BY <2>1, <2>2, SameQueue, StillSent DEF QueueInv
  <2>4. Referred'
    <3>1. PICK matching \in InOrder(Matches, place) : ids' = ids \o Page(matching)
      BY <1>3 DEF ReadPage
    <3>2. Page(matching) \in Seq(Matches)
      BY <3>1, MatchesFinite, InOrderSeq, PageParts
    <3>3. Matches \subseteq OfParent(Parent)
      BY DEF Matches, Existing, OfParent
    <3>4. Page(matching) \in Seq(OfParent(Parent))
      BY <3>2, <3>3, SeqGrows
    <3>5. ids \in Seq(OfParent(Parent)) /\ unsent \in Seq(OfParent(Parent))
      BY <2>1 DEF QueueInv, Referred
    <3>6. ids' \in Seq(OfParent(Parent))
      BY <3>1, <3>4, <3>5, ConcatProperties
    <3>7. Parent' = Parent
      BY <2>1 DEF Parent
    <3>8. QED BY <2>1, <3>5, <3>6, <3>7 DEF Referred
  <2>5. QED BY <2>1, <2>3, <2>4 DEF QueueInv
<1>4. CASE SendPatch
  <2>1. phase = "write" /\ phase' = "write" /\ settled
    BY <1>4 DEF SendPatch, CallInv, Phases
  <2>2. NoneDeleted' /\ OwnersOrSent' /\ Referred'
    BY <1>4, <2>1, SendQueue DEF QueueInv
  <2>3. QED BY <2>1, <2>2 DEF QueueInv
<1>5. CASE Refused \/ QueuedTaskLost \/ ReplyLost \/ ConfirmNext \/ PollRefused \/ Report
           \/ Receive \/ Resend \/ Commit \/ Crash
  BY <1>5, Paused DEF QueueInv
<1>6. CASE ApplyTask \/ LoseTask \/ Owner
  <2>1. UNCHANGED <<phase, settled, ids, unsent, batch, stream, position>>
    BY <1>6 DEF ApplyTask, LoseTask, Owner, call, message, source, given
  <2>2. Referred => Referred'
    BY <2>1 DEF Referred, Parent
  <2>3. QED BY <1>6, <2>1, <2>2, ServerQueue DEF QueueInv
<1>7. CASE UNCHANGED vars
  <2>1. /\ UNCHANGED <<phase, settled, awaited, ids, unsent, batch, stream, position>>
        /\ UNCHANGED server
    BY <1>7 DEF vars, call, message, source, given
  <2>2. Referred => Referred'
    BY <2>1 DEF Referred, Parent
  <2>3. QED BY <2>1, <2>2, SameQueue, StillSent DEF QueueInv
<1>8. QED
  BY <1>1, <1>2, <1>3, <1>4, <1>5, <1>6, <1>7 DEF Next

LEMMA QueueCorrect == Spec => []QueueInv
<1>1. Init => QueueInv
  BY DEF Init, QueueInv
<1>2. QED BY <1>1, CallInvariant, QueueStep, PTL DEF Spec

-----------------------------------------------------------------------------
(***************************************************************************)
(* What is read.                                                           *)
(***************************************************************************)
(* There is one order of the places. *)
LEMMA InOrderUnique ==
  ASSUME place \in Places, NEW S, S \subseteq Docs, IsFiniteSet(S),
         NEW s \in InOrder(S, place), NEW r \in InOrder(S, place)
  PROVE  s = r
<1>1. /\ s \in Seq(S) /\ r \in Seq(S) /\ Range(s) = S /\ Range(r) = S
      /\ Len(s) = Len(r) /\ Len(s) \in Nat
      /\ DOMAIN s = 1 .. Len(s) /\ DOMAIN r = 1 .. Len(s)
  BY InOrderSeq, LenProperties
<1>2. /\ \A k, l \in 1 .. Len(s) : k < l => place[s[k]] < place[s[l]]
      /\ \A k, l \in 1 .. Len(s) : k < l => place[r[k]] < place[r[l]]
  BY <1>1 DEF InOrder
<1>3. \A d \in S : place[d] \in Nat
  BY FS_CardinalityType, PatchAssumption DEF Places, PatchAssumption
<1> DEFINE differ == {i \in 1 .. Len(s) : s[i] # r[i]}
<1>4. CASE differ = {}
  <2>1. \A i \in 1 .. Len(s) : s[i] = r[i]
    BY <1>4
  <2>2. QED BY <1>1, <2>1, SeqEqual
<1>5. CASE differ # {}
  <2>1. PICK i \in differ : \A k \in differ : i <= k
    <3>1. differ \subseteq Nat
      OBVIOUS
    <3> HIDE DEF differ
    <3>2. QED BY <1>5, <3>1, LeastNat
  <2>2. /\ i \in 1 .. Len(s) /\ s[i] # r[i] /\ s[i] \in S /\ r[i] \in S
        /\ \A k \in 1 .. Len(s) : k < i => s[k] = r[k]
    BY <1>1, <2>1, ElementOfSeq
  <2>3. PICK j \in 1 .. Len(s) : r[j] = s[i]
    BY <1>1, <2>2 DEF Range
  <2>4. PICK l \in 1 .. Len(s) : s[l] = r[i]
    BY <1>1, <2>2 DEF Range
  <2>5. /\ place[s[i]] \in Nat /\ place[r[i]] \in Nat
    BY <1>3, <2>2
  <2>6. i < j
    <3>1. j # i
      BY <2>2, <2>3
    <3>2. ~(j < i)
      <4>1. SUFFICES ASSUME j < i PROVE FALSE
        OBVIOUS
      <4>2. s[j] = s[i] /\ place[s[j]] < place[s[i]]
        BY <1>2, <2>2, <2>3, <4>1
      <4>3. QED BY <2>5, <4>2
    <3>3. QED BY <2>2, <3>1, <3>2
  <2>7. i < l
    <3>1. l # i
      BY <2>2, <2>4
    <3>2. ~(l < i)
      <4>1. SUFFICES ASSUME l < i PROVE FALSE
        OBVIOUS
      <4>2. r[l] = r[i] /\ place[r[l]] < place[r[i]]
        BY <1>2, <2>2, <2>4, <4>1
      <4>3. QED BY <2>5, <4>2
    <3>3. QED BY <2>2, <3>1, <3>2
  <2>8. place[r[i]] < place[s[i]] /\ place[s[i]] < place[r[i]]
    BY <1>2, <2>2, <2>3, <2>4, <2>6, <2>7
  <2>9. QED BY <2>5, <2>8
<1>6. QED BY <1>4, <1>5

Prefix(s, r) == Len(s) <= Len(r) /\ \A i \in 1 .. Len(s) : s[i] = r[i]

(* Pages put together are what they are pages of, once one is not full.    *)
LEMMA PagePrefix ==
  ASSUME CallInv, NEW matching \in Seq(Docs), Prefix(ids, matching)
  PROVE  LET new == ids \o Page(matching)
         IN /\ new \in Seq(Docs) /\ Prefix(new, matching)
            /\ IF Len(Page(matching)) < sizes.page THEN new = matching
               ELSE sizes.page <= Len(new)
<1> DEFINE page == Page(matching)
           new == ids \o page
<1>1. /\ page \in Seq(Docs) /\ sizes.page \in Nat \ {0} /\ Len(ids) \in Nat
      /\ Len(ids) <= Len(matching) /\ Len(matching) \in Nat /\ ids \in Seq(Docs)
      /\ Len(page) = IF Len(ids) + sizes.page <= Len(matching) THEN sizes.page
                     ELSE Len(matching) - Len(ids)
      /\ \A k \in 1 .. Len(page) : page[k] = matching[Len(ids) + k]
  BY PageParts, LenProperties DEF Prefix, CallInv, CallTypes
<1>2. Len(page) \in Nat
  BY <1>1
<1> HIDE DEF page
<1>3. /\ new \in Seq(Docs) /\ Len(new) = Len(ids) + Len(page)
      /\ \A i \in 1 .. Len(ids) + Len(page) :
           new[i] = IF i <= Len(ids) THEN ids[i] ELSE page[i - Len(ids)]
  BY <1>1, ConcatProperties
<1> HIDE DEF new
<1>4. Len(new) \in Nat /\ Len(new) <= Len(matching)
  BY <1>1, <1>2, <1>3
<1>5. ASSUME NEW i \in 1 .. Len(new) PROVE new[i] = matching[i]
  <2>1. CASE i <= Len(ids)
    <3>1. i \in 1 .. Len(ids) /\ new[i] = ids[i]
      BY <1>1, <1>3, <1>4, <1>5, <2>1
    <3>2. QED BY <3>1 DEF Prefix
  <2>2. CASE ~(i <= Len(ids))
    <3>1. /\ i - Len(ids) \in 1 .. Len(page) /\ new[i] = page[i - Len(ids)]
          /\ Len(ids) + (i - Len(ids)) = i
      BY <1>1, <1>2, <1>3, <1>4, <1>5, <2>2
    <3>2. QED BY <1>1, <3>1
  <2>3. QED BY <2>1, <2>2
<1>6. Prefix(new, matching)
  BY <1>4, <1>5 DEF Prefix
<1>7. ASSUME Len(page) < sizes.page PROVE new = matching
  <2>1. Len(new) = Len(matching)
    BY <1>1, <1>2, <1>3, <1>7
  <2>2. QED BY <1>3, <1>5, <2>1, SeqEqual
<1>8. ~(Len(page) < sizes.page) => sizes.page <= Len(new)
  BY <1>1, <1>2, <1>3
<1>9. QED BY <1>3, <1>6, <1>7, <1>8 DEF new, page

(* The message is the first of its batch that changes its parent.          *)
Apart == \A i \in DOMAIN batch : i < position => stream[batch[i]] # Parent

(* Nothing the queue holds can change what is being read.                  *)
Still == Apart /\ (owned = 0 \/ disturbed = {})

(* The documents of the parent fit a page, which is not full with them.    *)
Fits(parent, page) == Cardinality(OfParent(parent)) < page

ReadInv ==
  /\ phase = "page" => ids = <<>> \/ sizes.page <= Len(ids)
  /\ phase = "page" /\ Still => \A s \in InOrder(Matches, place) : Prefix(ids, s)
  /\ phase = "write" /\ (Len(ids) < sizes.page \/ (Apart /\ disturbed = {})) =>
       \A d \in Known : ParentOf[d] = Parent => d \in Range(ids)
  /\ phase \in {"page", "write"} /\ Fits(Parent, sizes.page) =>
       (phase = "page" => ids = <<>>) /\ (phase = "write" => Len(ids) < sizes.page)

(* A step that reads the last page has read all the matches, if they were  *)
(* on one page or nothing changed between the pages.                       *)
LEMMA WholeRead ==
  ASSUME CallInv, ReadInv, ReadPage
  PROVE  /\ phase' = "page" => /\ sizes.page <= Len(ids')
                               /\ Still => \A s \in InOrder(Matches, place) : Prefix(ids', s)
         /\ phase' = "write" /\ (Len(ids') < sizes.page \/ Still) => Range(ids') = Matches
         /\ Fits(Parent, sizes.page) => phase' = "write" /\ Len(ids') < sizes.page
<1>1. PICK matching \in InOrder(Matches, place) :
        /\ ids' = ids \o Page(matching)
        /\ phase' = (IF Len(Page(matching)) < sizes.page THEN "write" ELSE "page")
  BY DEF ReadPage
<1>2. /\ matching \in Seq(Matches) /\ Range(matching) = Matches
      /\ Len(matching) = Cardinality(Matches) /\ Len(matching) \in Nat
      /\ Matches \subseteq Docs /\ IsFiniteSet(Matches) /\ matching \in Seq(Docs)
  BY MatchesFinite, InOrderSeq, SeqGrows, LenProperties
<1>3. /\ Page(matching) \in Seq(Docs) /\ sizes.page \in Nat \ {0} /\ Len(ids) \in Nat
      /\ ids \in Seq(Docs) /\ Len(Page(matching)) \in Nat
  BY <1>2, PageParts, LenProperties DEF CallInv, CallTypes
<1>4. Len(ids') = Len(ids) + Len(Page(matching))
  BY <1>1, <1>3, ConcatProperties
<1>5. phase = "page"
  BY DEF ReadPage
<1>6. ids = <<>> => Prefix(ids, matching)
  BY <1>2 DEF Prefix
<1>7. Still => Prefix(ids, matching)
  BY <1>1, <1>5 DEF ReadInv
<1>8. ASSUME Prefix(ids, matching)
      PROVE  /\ Prefix(ids', matching)
             /\ Len(Page(matching)) < sizes.page => ids' = matching
  BY <1>1, <1>2, <1>8, PagePrefix
<1>9. phase' = "page" => sizes.page <= Len(ids')
  BY <1>1, <1>3, <1>4
<1>10. ASSUME phase' = "page", Still, NEW s \in InOrder(Matches, place) PROVE Prefix(ids', s)
  <2>1. s = matching
    BY <1>1, <1>2, InOrderUnique DEF CallInv, SourceTypes
  <2>2. QED BY <1>7, <1>8, <1>10, <2>1
<1>11. ASSUME phase' = "write", Len(ids') < sizes.page \/ Still PROVE Range(ids') = Matches
  <2>1. Len(Page(matching)) < sizes.page
    BY <1>1, <1>11
  <2>2. Prefix(ids, matching)
    <3>1. CASE Still
      BY <1>7, <3>1
    <3>2. CASE Len(ids') < sizes.page
      <4>1. ~(sizes.page <= Len(ids))
        BY <1>3, <1>4, <3>2
      <4>2. QED BY <1>5, <1>6, <4>1 DEF ReadInv
    <3>3. QED BY <1>11, <3>1, <3>2
  <2>3. QED BY <1>2, <1>8, <2>1, <2>2
<1>12. ASSUME Fits(Parent, sizes.page)
       PROVE  phase' = "write" /\ Len(ids') < sizes.page
  <2>1. Cardinality(Matches) < sizes.page
    <3>1. Matches \subseteq OfParent(Parent) /\ OfParent(Parent) \subseteq Docs /\ IsFiniteSet(Docs)
      BY PatchAssumption DEF PatchAssumption, Matches, Existing, OfParent
    <3>2. /\ Cardinality(Matches) <= Cardinality(OfParent(Parent))
          /\ Cardinality(Matches) \in Nat /\ Cardinality(OfParent(Parent)) \in Nat
      BY <3>1, FS_Subset, FS_CardinalityType
    <3>3. Cardinality(OfParent(Parent)) < sizes.page
      BY <1>12 DEF Fits
    <3>4. QED BY <1>3, <3>2, <3>3
  <2>2. ids = <<>> /\ Len(ids) = 0
    BY <1>5, <1>12 DEF ReadInv
  <2>3. Len(Page(matching)) <= Len(matching)
    <3>1. Len(ids) <= Len(matching)
      BY <1>2, <2>2
    <3>2. Len(Page(matching)) = IF Len(ids) + sizes.page <= Len(matching) THEN sizes.page
                                ELSE Len(matching) - Len(ids)
      BY <1>2, <3>1, PageParts
    <3>3. QED BY <1>2, <1>3, <2>2, <3>2
  <2>4. Len(Page(matching)) < sizes.page
    BY <1>2, <1>3, <2>1, <2>3
  <2>5. QED BY <1>1, <1>3, <1>4, <2>2, <2>4
<1>13. QED BY <1>9, <1>10, <1>11, <1>12

LEMMA SameOrder ==
  ASSUME UNCHANGED <<docs, place, stream, batch, position>>
  PROVE  InOrder(Matches, place)' = InOrder(Matches, place)
<1>1. Matches' = Matches
  BY DEF Matches, Existing, Parent
<1>2. QED BY <1>1 DEF InOrder

(* A task of another message changes neither the matches nor their order.  *)
LEMMA OrderStays ==
  ASSUME CallInv, QueueInv, Still, phase = "page", NEW t \in Pending, Apply(t),
         place' \in Rearranged(Touched(t)), UNCHANGED <<stream, batch, position>>
  PROVE  InOrder(Matches, place)' \subseteq InOrder(Matches, place)
<1>1. settled /\ Working /\ Parent # NoParent
  BY DEF CallInv, Phases, Working
<1>2. PICK i \in DOMAIN batch : i < position /\ \A d \in Touched(t) : ParentOf[d] = stream[batch[i]]
  <2>1. ~Owners(t)
    BY DEF Owners, Still
  <2>2. Sent(t)
    BY <1>1, <2>1 DEF QueueInv, OwnersOrSent
  <2>3. QED BY <2>2 DEF Sent
<1>3. \A d \in Docs : ParentOf[d] = Parent => d \notin Touched(t)
  BY <1>2 DEF Still, Apart
<1>4. ASSUME NEW d \in Docs, d \notin Touched(t)
      PROVE  d \in Existing(docs') <=> d \in Existing(docs)
  <2>1. docs' = After(docs, tasks[t].changes) /\ t \in DOMAIN tasks
    BY DEF Apply, Pending
  <2>2. tasks[t].changes \in Seq(Change) /\ docs \in Contents
    BY <2>1, TaskParts DEF CallInv, ServerTypeOK, Contents
  <2>3. d \notin {c.doc : c \in Range(tasks[t].changes)}
    BY <1>4 DEF Touched
  <2>4. QED BY <1>4, <2>1, <2>2, <2>3, ExistsAfter
<1>5. Parent' = Parent
  BY DEF Parent
<1>6. Matches' = Matches /\ Matches \subseteq Docs \ Touched(t)
  <2>1. \A d \in Docs : ParentOf[d] = Parent => (d \in Existing(docs') <=> d \in Existing(docs))
    BY <1>3, <1>4
  <2>2. Existing(docs') \subseteq Docs /\ Existing(docs) \subseteq Docs
    BY DEF Existing
  <2>3. Matches' = {d \in Existing(docs') : ParentOf[d] = Parent}
    BY <1>5 DEF Matches, Existing
  <2>4. Matches' = Matches
    BY <2>1, <2>2, <2>3 DEF Matches
  <2>5. QED BY <1>3, <2>2, <2>4 DEF Matches
<1>7. /\ place \in Places /\ place' \in Places
      /\ \A d, e \in Docs \ Touched(t) : place[d] < place[e] => place'[d] < place'[e]
  BY DEF CallInv, SourceTypes, Rearranged
<1>8. \A d \in Docs : place[d] \in Nat /\ place'[d] \in Nat
  <2>1. place \in [Docs -> 1 .. Cardinality(Docs)] /\ place' \in [Docs -> 1 .. Cardinality(Docs)]
    BY <1>7 DEF Places
  <2>2. \A n \in 1 .. Cardinality(Docs) : n \in Nat
    OBVIOUS
  <2>3. QED BY <2>1, <2>2
<1>9. ASSUME NEW d \in Matches, NEW e \in Matches, place'[d] < place'[e] PROVE place[d] < place[e]
  <2>1. d \in Docs \ Touched(t) /\ e \in Docs \ Touched(t) /\ d # e
    BY <1>6, <1>8, <1>9
  <2>2. place[d] # place[e]
    BY <1>7, <2>1 DEF Places
  <2>3. ~(place[e] < place[d])
    BY <1>7, <1>8, <1>9, <2>1
  <2>4. QED BY <1>8, <2>1, <2>2, <2>3
<1>10. ASSUME NEW s \in InOrder(Matches, place') PROVE s \in InOrder(Matches, place)
  <2>1. /\ s \in [1 .. Cardinality(Matches) -> Matches] /\ Range(s) = Matches
        /\ \A k, l \in DOMAIN s : k < l => place'[s[k]] < place'[s[l]]
    BY DEF InOrder
  <2>2. \A k, l \in DOMAIN s : k < l => place[s[k]] < place[s[l]]
    BY <1>9, <2>1
  <2>3. QED BY <2>1, <2>2 DEF InOrder
<1>11. InOrder(Matches, place)' = InOrder(Matches, place')
  BY <1>6 DEF InOrder
<1>12. QED BY <1>10, <1>11

(* Reading is as it was for a step that does not touch it.                 *)
LEMMA ReadStays ==
  ASSUME ReadInv, phase' = phase, UNCHANGED <<sizes, ids, stream, batch, position, expected>>,
         disturbed \subseteq disturbed',
         phase = "page" /\ Still' =>
           Still /\ InOrder(Matches, place)' \subseteq InOrder(Matches, place)
  PROVE  ReadInv'
<1>1. Known' \subseteq Known /\ Parent' = Parent /\ (Apart' <=> Apart)
  BY DEF Known, Parent, Apart
<1>2. phase' = "page" /\ Still' => \A s \in InOrder(Matches, place)' : Prefix(ids', s)
  BY DEF ReadInv
<1>3. phase' = "write" /\ (Len(ids') < sizes'.page \/ (Apart' /\ disturbed' = {})) =>
        \A d \in Known' : ParentOf[d] = Parent' => d \in Range(ids')
  <2>1. disturbed' = {} => disturbed = {}
    OBVIOUS
  <2>2. QED BY <1>1, <2>1 DEF ReadInv
<1>4. Fits(Parent', sizes'.page) =>
        (phase' = "page" => ids' = <<>>) /\ (phase' = "write" => Len(ids') < sizes'.page)
  BY <1>1 DEF ReadInv
<1>5. phase' = "page" => ids' = <<>> \/ sizes'.page <= Len(ids')
  BY DEF ReadInv
<1>6. QED BY <1>2, <1>3, <1>4, <1>5 DEF ReadInv

LEMMA ReadStep ==
  ASSUME CallInv, QueueInv, ReadInv, [Next]_vars
  PROVE  ReadInv'
<1>1. CASE AskPending \/ AwaitQueued \/ StartPaging
  <2>1. phase' \in {"await", "page"} /\ ids' = <<>>
    <3>1. CASE AskPending
      BY <3>1 DEF AskPending, message, CallInv, Phases
    <3>2. CASE AwaitQueued \/ StartPaging
      BY <3>2 DEF AwaitQueued, StartPaging, call, message, CallInv, Phases
    <3>3. QED BY <1>1, <3>1, <3>2
  <2>2. \A s \in InOrder(Matches, place)' : Prefix(ids', s)
    <3>1. \A s \in InOrder(Matches, place)' : Len(s) \in Nat
      <4>1. InOrder(Matches, place)' = InOrder(Matches', place')
        BY DEF InOrder
      <4>2. IsFiniteSet(Matches')
        <5>1. Matches' \subseteq Docs /\ IsFiniteSet(Docs)
          BY PatchAssumption DEF PatchAssumption, Matches, Existing
        <5>2. QED BY <5>1, FS_Subset
      <4>3. QED BY <4>1, <4>2, InOrderSeq, LenProperties
    <3>2. QED BY <2>1, <3>1 DEF Prefix
  <2>3. QED BY <2>1, <2>2 DEF ReadInv
<1>2. CASE ReadPage
  <2>1. /\ phase = "page" /\ phase' \in {"page", "write"}
        /\ UNCHANGED <<sizes, stream, batch, position, issued, place>> /\ UNCHANGED server
    BY <1>2 DEF ReadPage, source, given
  <2>2. UNCHANGED <<docs, owned, expected, disturbed>>
    BY <2>1 DEF server
  <2>3. Matches' = Matches /\ Known' = Known /\ Parent' = Parent /\ (Still' <=> Still) /\ (Apart' <=> Apart)
    BY <2>1, <2>2 DEF Matches, Existing, Known, Parent, Still, Apart
  <2>4. InOrder(Matches, place)' = InOrder(Matches, place)
    BY <2>1, <2>3 DEF InOrder
  <2>5. /\ phase' = "page" => /\ sizes.page <= Len(ids')
                              /\ Still => \A s \in InOrder(Matches, place) : Prefix(ids', s)
        /\ phase' = "write" /\ (Len(ids') < sizes.page \/ Still) => Range(ids') = Matches
        /\ Fits(Parent, sizes.page) => phase' = "write" /\ Len(ids') < sizes.page
    BY <1>2, WholeRead
  <2>6. \A d \in Known : ParentOf[d] = Parent => d \in Matches
    <3>1. Known \subseteq Existing(docs)
      BY <2>1 DEF QueueInv, CallInv, Phases, NoneDeleted
    <3>2. QED BY <3>1 DEF Matches, Existing
  <2>7. phase' = "write" /\ (Len(ids') < sizes'.page \/ (Apart' /\ disturbed' = {})) =>
          \A d \in Known' : ParentOf[d] = Parent' => d \in Range(ids')
    BY <2>1, <2>2, <2>3, <2>5, <2>6 DEF Still
  <2>8. phase' = "page" => sizes'.page <= Len(ids')
    BY <2>1, <2>5
  <2>9. phase' = "page" /\ Still' => \A s \in InOrder(Matches, place)' : Prefix(ids', s)
    BY <2>3, <2>4, <2>5
  <2>10. Fits(Parent', sizes'.page) =>
           (phase' = "page" => ids' = <<>>) /\ (phase' = "write" => Len(ids') < sizes'.page)
    BY <2>1, <2>3, <2>5
  <2>11. QED BY <2>7, <2>8, <2>9, <2>10 DEF ReadInv
<1>3. CASE SendPatch
  <2>1. /\ phase = "write" /\ phase' = phase
        /\ UNCHANGED <<sizes, ids, stream, batch, position, expected, disturbed>>
    BY <1>3 DEF SendPatch, source, given
  <2>2. QED BY <2>1, ReadStays
<1>4. CASE ApplyTask
  <2>1. PICK t \in Pending : Apply(t) /\ place' \in Rearranged(Touched(t))
    BY <1>4 DEF ApplyTask
  <2>2. /\ phase' = phase /\ UNCHANGED <<owned, disturbed, expected>>
        /\ UNCHANGED <<sizes, ids, stream, batch, position>>
    BY <1>4, <2>1 DEF ApplyTask, Apply, source, given, call, message
  <2>3. Still' => Still
    BY <2>2 DEF Still, Apart, Parent
  <2>4. phase = "page" /\ Still => InOrder(Matches, place)' \subseteq InOrder(Matches, place)
    BY <2>1, <2>2, OrderStays
  <2>5. QED BY <2>2, <2>3, <2>4, ReadStays
<1>5. CASE LoseTask
  <2>1. PICK t \in DOMAIN tasks : Lose(t)
    BY <1>5, LoseCall
  <2>2. /\ phase' = phase /\ UNCHANGED <<docs, place, owned, expected>>
        /\ UNCHANGED <<sizes, ids, stream, batch, position>>
        /\ disturbed \subseteq disturbed'
    BY <1>5, <2>1 DEF LoseTask, Lose, source, given, call, message
  <2>3. Still' => Still
    BY <2>2 DEF Still, Apart, Parent
  <2>4. QED BY <2>2, <2>3, SameOrder, ReadStays
<1>6. CASE Owner
  <2>1. /\ phase' = phase /\ UNCHANGED expected
        /\ UNCHANGED <<sizes, ids, stream, batch, position>>
        /\ disturbed \subseteq disturbed' /\ disturbed' # {} /\ owned' = owned + 1
    BY <1>6 DEF Owner, OwnerWrites, source, given, call, message
  <2>2. ~Still'
    <3>1. owned \in Nat
      BY SharedIndexAssumption DEF CallInv, ServerTypeOK, SharedIndexAssumption
    <3>2. owned' # 0
      BY <2>1, <3>1
    <3>3. QED BY <2>1, <3>2 DEF Still
  <2>3. QED BY <2>1, <2>2, ReadStays
<1>7. CASE RejectMessage \/ Issued
  <2>1. phase' \in {"issue", "confirm"}
    BY <1>7 DEF RejectMessage, Issued, TurnTo
  <2>2. QED BY <2>1 DEF ReadInv
<1>8. CASE Refused \/ QueuedTaskLost \/ ReplyLost \/ ConfirmNext \/ PollRefused \/ Report
           \/ Receive \/ Resend \/ Commit \/ Crash
  BY <1>8, Paused DEF ReadInv
<1>9. CASE UNCHANGED vars
  <2>1. /\ phase' = phase
        /\ UNCHANGED <<sizes, ids, stream, batch, position, expected, disturbed, owned>>
        /\ UNCHANGED <<docs, place>>
    BY <1>9 DEF vars, source, given, call, message, server
  <2>2. Still' => Still
    BY <2>1 DEF Still, Apart, Parent
  <2>3. QED BY <2>1, <2>2, SameOrder, ReadStays
<1>10. QED BY <1>1, <1>2, <1>3, <1>4, <1>5, <1>6, <1>7, <1>8, <1>9 DEF Next

LEMMA ReadCorrect == Spec => []ReadInv
<1>1. Init => ReadInv
  BY DEF Init, ReadInv
<1>2. QED BY <1>1, CallInvariant, QueueCorrect, ReadStep, PTL DEF Spec

(***************************************************************************)
(* Pages are whole: no parent whose documents do not fit a page is changed *)
(* twice within a batch.                                                   *)
(***************************************************************************)
WholePages ==
  \A s \in Sizes, st \in Streams : \A m, n \in DOMAIN st :
    m < n /\ n < m + s.batch /\ st[m] = st[n] /\ st[m] # NoParent => Fits(st[m], s.page)

LEMMA PagesWhole ==
  ASSUME WholePages, CallInv, Working, Parent # NoParent
  PROVE  Fits(Parent, sizes.page) \/ Apart
<1>1. position \in DOMAIN batch
  BY DEF CallInv, Phases
<1>2. SUFFICES ASSUME NEW i \in DOMAIN batch, i < position, stream[batch[i]] = Parent
               PROVE  Fits(Parent, sizes.page)
  BY DEF Apart
<1>3. /\ committed < batch[i] /\ batch[i] < batch[position] /\ batch[position] <= received
      /\ received <= committed + sizes.batch
  BY <1>1, <1>2 DEF CallInv, Numbers
<1>4. /\ committed \in Nat /\ received \in Nat /\ sizes.batch \in Nat
      /\ batch[i] \in Nat /\ batch[position] \in Nat
      /\ batch[i] \in DOMAIN stream /\ batch[position] \in DOMAIN stream
  <2>1. committed \in Nat /\ received \in Nat /\ DOMAIN stream = 1 .. Len(stream)
    BY CallParts
  <2>2. sizes.batch \in Nat
    BY PatchAssumption DEF CallInv, SourceTypes, PatchAssumption
  <2>3. batch[i] \in DOMAIN stream /\ batch[position] \in DOMAIN stream
    BY <1>1, ElementOfSeq, LenProperties DEF CallInv, CallTypes
  <2>4. QED BY <2>1, <2>2, <2>3
<1>5. batch[position] < batch[i] + sizes.batch
  BY <1>3, <1>4
<1>6. sizes \in Sizes /\ stream \in Streams
  BY DEF CallInv, SourceTypes
<1>7. stream[batch[i]] = stream[batch[position]] /\ stream[batch[i]] # NoParent
  BY <1>2 DEF Parent
<1>8. Fits(stream[batch[i]], sizes.page)
  BY <1>3, <1>4, <1>5, <1>6, <1>7 DEF WholePages
<1>9. QED BY <1>2, <1>8

(* Where no parent with more documents than a page is changed twice in a   *)
(* batch, every document that refers to the parent is among those read     *)
(* before the first write (issue_patch: "Every id is read before the first *)
(* write: an update enqueued while paging could reorder the pages and hide *)
(* a document").  The run patch_shifted shows what becomes of it elsewhere.*)
THEOREM EveryMatchReadHolds == ASSUME WholePages PROVE Spec => []EveryMatchRead
<1>1. CallInv /\ ReadInv => EveryMatchRead
  <2>1. SUFFICES ASSUME CallInv, ReadInv, phase = "write", Len(ids) < sizes.page \/ disturbed = {},
                        NEW d \in Known, ParentOf[d] = Parent
                 PROVE  d \in Range(ids)
    BY DEF EveryMatchRead, Known
  <2>2. Working /\ Parent # NoParent
    BY <2>1 DEF Working, CallInv, Phases
  <2>3. Fits(Parent, sizes.page) \/ Apart
    BY <2>1, <2>2, PagesWhole
  <2>4. Len(ids) < sizes.page \/ (Apart /\ disturbed = {})
    BY <2>1, <2>3 DEF ReadInv
  <2>5. QED BY <2>1, <2>4 DEF ReadInv
<1>2. QED BY <1>1, CallInvariant, ReadCorrect, PTL

-----------------------------------------------------------------------------
(***************************************************************************)
(* What is delivered, while the owner leaves the documents alone.          *)
(***************************************************************************)
NoneBelow(t, d, n) == \A c \in Range(tasks[t].changes) : c.doc = d => c.number >= n

(* Update n of the documents is applied, and no older one is to follow.    *)
Landed(n, D) == \A d \in D : docs[d].added >= n /\ \A t \in Pending : NoneBelow(t, d, n)

(* Task t carries update n, and no older one is behind it in the queue.    *)
Carried(t, n) ==
  /\ \A c \in Range(tasks[t].changes) : c.number = n
  /\ \A u \in Pending : t <= u => \A c \in Range(tasks[u].changes) : c.number >= n
  /\ tasks[t].status = "succeeded" => Landed(n, Touched(t))

(* Tasks only add to documents that exist.                                 *)
Additive == \A t \in DOMAIN tasks : \A c \in Range(tasks[t].changes) :
              c.part = "added" /\ c.number > 0 /\ c.doc \in Existing(docs)

(* What is known of updates up to N stays so.                              *)
DeliveryKept(N) ==
  /\ Existing(docs') = Existing(docs) /\ DOMAIN tasks \subseteq DOMAIN tasks'
  /\ \A t \in DOMAIN tasks : Touched(t)' = Touched(t)
  /\ \A n \in 0 .. N : \A t \in DOMAIN tasks : Carried(t, n) => Carried(t, n)'
  /\ \A n \in 0 .. N : \A D \in SUBSET Docs : Landed(n, D) => Landed(n, D)'

LEMMA SameDelivery ==
  ASSUME UNCHANGED <<tasks, docs>>, NEW N \in Nat
  PROVE  DeliveryKept(N) /\ (Additive => Additive')
<1>1. Pending' = Pending /\ Existing(docs') = Existing(docs)
  BY DEF Pending, Existing
<1>2. \A t : Touched(t)' = Touched(t) /\ \A d, n : NoneBelow(t, d, n) <=> NoneBelow(t, d, n)'
  BY DEF Touched, NoneBelow
<1>3. \A n, D : Landed(n, D) => Landed(n, D)'
  BY <1>1, <1>2 DEF Landed
<1>4. \A t, n : Carried(t, n) => Carried(t, n)'
  BY <1>1, <1>2, <1>3 DEF Carried
<1>5. QED BY <1>1, <1>2, <1>3, <1>4 DEF DeliveryKept, Additive

LEMMA QueueParts ==
  ASSUME CallInv
  PROVE  /\ tasks \in Seq(Task) /\ docs \in Contents /\ Pending \subseteq DOMAIN tasks
         /\ DOMAIN tasks = 1 .. Len(tasks) /\ Len(tasks) \in Nat
         /\ \A t \in DOMAIN tasks : /\ tasks[t].changes \in Seq(Change) /\ Touched(t) \subseteq Docs
                                    /\ \A c \in Range(tasks[t].changes) : c.number \in Nat
<1>1. /\ tasks \in Seq(Task) /\ docs \in Contents /\ Pending \subseteq DOMAIN tasks
      /\ DOMAIN tasks = 1 .. Len(tasks) /\ Len(tasks) \in Nat
  BY CallParts DEF CallInv, ServerTypeOK, Contents, Pending
<1>2. \A t \in DOMAIN tasks : tasks[t].changes \in Seq(Change)
  BY <1>1, TaskParts
<1>3. \A t \in DOMAIN tasks : \A c \in Range(tasks[t].changes) : c.number \in Nat /\ c.doc \in Docs
  BY <1>2, ChangeParts DEF Range
<1>4. \A t \in DOMAIN tasks : Touched(t) \subseteq Docs
  BY <1>3 DEF Touched
<1>5. QED BY <1>1, <1>2, <1>3, <1>4

LEMMA ApplyDelivery ==
  ASSUME CallInv, Additive, ApplyTask, NEW N \in Nat
  PROVE  DeliveryKept(N) /\ Additive'
<1>1. PICK t \in Pending : Apply(t) /\ QueueLoses(t) /\ \A u \in Pending : t <= u
  BY ApplyCall
<1>2. /\ tasks \in Seq(Task) /\ docs \in Contents /\ Pending \subseteq DOMAIN tasks
      /\ t \in DOMAIN tasks /\ tasks[t].changes \in Seq(Change) /\ Touched(t) \subseteq Docs
      /\ \A u \in DOMAIN tasks : Touched(u) \subseteq Docs
  BY <1>1, QueueParts
<1>3. /\ docs' = After(docs, tasks[t].changes) /\ DOMAIN tasks' = DOMAIN tasks
      /\ Pending' = Pending \ {t} /\ \A u \in DOMAIN tasks : tasks'[u].changes = tasks[u].changes
      /\ \A u \in DOMAIN tasks : u # t => tasks'[u] = tasks[u]
  BY <1>1, <1>2, EndedTask DEF Apply, QueueLoses
<1>4. /\ \A u \in DOMAIN tasks : Touched(u)' = Touched(u)
      /\ \A u \in DOMAIN tasks : \A d, n : NoneBelow(u, d, n) <=> NoneBelow(u, d, n)'
  BY <1>3 DEF Touched, NoneBelow
<1>5. \A c \in Range(tasks[t].changes) : /\ c.part = "added" /\ c.number # 0 /\ c.number \in Nat
                                         /\ c.doc \in Existing(docs)
  BY <1>2, QueueParts DEF Additive
<1>6. Existing(docs') = Existing(docs)
  <2>1. ASSUME NEW d \in Docs PROVE d \in Existing(docs') <=> d \in Existing(docs)
    <3>1. CASE d \in Existing(docs)
      BY <1>2, <1>3, <1>5, <3>1, StaysThere
    <3>2. CASE d \notin Existing(docs)
      <4>1. d \notin {c.doc : c \in Range(tasks[t].changes)}
        BY <1>5, <3>2
      <4>2. QED BY <1>2, <1>3, <2>1, <4>1, ExistsAfter
    <3>3. QED BY <3>1, <3>2
  <2>2. QED BY <2>1 DEF Existing
<1>7. ASSUME NEW d \in Docs, NEW n \in 0 .. N,
             \A c \in Range(tasks[t].changes) : c.doc = d => c.number >= n,
             docs[d].added >= n \/ d \in Touched(t)
      PROVE  docs'[d].added >= n
  <2> DEFINE changes == tasks[t].changes
  <2>1. "added" \in Parts
    BY DEF Parts
  <2>2. CASE Deciding(changes, d, "added") = {}
    <3>1. docs'[d]["added"] = docs[d]["added"]
      BY <1>2, <1>3, <2>1, <2>2, AfterPart
    <3>2. d \notin Touched(t)
      BY <1>5, <2>2 DEF Touched, Range, Deciding
    <3>3. QED BY <1>7, <3>1, <3>2
  <2>3. CASE Deciding(changes, d, "added") # {}
    <3>1. PICK k \in Deciding(changes, d, "added") : docs'[d]["added"] = changes[k].number
      BY <1>2, <1>3, <2>1, <2>3, AfterPart
    <3>2. changes[k] \in Range(changes) /\ changes[k].doc = d
      BY <3>1 DEF Deciding, Range
    <3>3. QED BY <1>7, <3>1, <3>2
  <2>4. QED BY <2>2, <2>3
<1>8. ASSUME NEW n \in 0 .. N, NEW D \in SUBSET Docs, Landed(n, D) PROVE Landed(n, D)'
  <2>1. \A d \in D : docs'[d].added >= n
    BY <1>1, <1>7, <1>8 DEF Landed, NoneBelow
  <2>2. \A d \in D : \A u \in Pending' : NoneBelow(u, d, n)'
    BY <1>2, <1>3, <1>4, <1>8 DEF Landed
  <2>3. QED BY <2>1, <2>2 DEF Landed
<1>9. ASSUME NEW n \in 0 .. N, NEW s \in DOMAIN tasks, Carried(s, n) PROVE Carried(s, n)'
  <2>1. \A c \in Range(tasks'[s].changes) : c.number = n
    BY <1>3, <1>9 DEF Carried
  <2>2. \A u \in Pending' : s <= u => \A c \in Range(tasks'[u].changes) : c.number >= n
    BY <1>2, <1>3, <1>9 DEF Carried
  <2>3. ASSUME tasks'[s].status = "succeeded" PROVE Landed(n, Touched(s))'
    <3>1. CASE s # t
      <4>1. Landed(n, Touched(s))
        BY <1>3, <1>9, <2>3, <3>1 DEF Carried
      <4>2. \A D \in {Touched(s)} : Landed(n, D)'
        BY <1>2, <1>8, <4>1
      <4>3. QED BY <1>4, <4>2 DEF Landed
    <3>2. CASE s = t
      <4>1. n \in Nat /\ \A c \in Range(tasks[t].changes) : c.number = n /\ c.number >= n
        BY <1>9, <3>2 DEF Carried
      <4>2. \A d \in Touched(t) : docs'[d].added >= n
        BY <1>2, <1>7, <4>1
      <4>3. \A u \in Pending : \A c \in Range(tasks[u].changes) : c.number >= n
        BY <1>1, <1>9, <3>2 DEF Carried
      <4>4. \A d : \A u \in Pending' : NoneBelow(u, d, n)'
        BY <1>2, <1>3, <4>3 DEF NoneBelow
      <4>5. \A d \in Touched(s)' : docs'[d].added >= n
        BY <1>4, <3>2, <4>2
      <4>6. QED BY <4>4, <4>5 DEF Landed
    <3>3. QED BY <3>1, <3>2
  <2>4. QED BY <2>1, <2>2, <2>3 DEF Carried
<1>10. Additive'
  BY <1>3, <1>6 DEF Additive
<1>11. QED BY <1>3, <1>4, <1>6, <1>8, <1>9, <1>10 DEF DeliveryKept

LEMMA LoseDelivery ==
  ASSUME CallInv, Additive, LoseTask, NEW N \in Nat
  PROVE  DeliveryKept(N) /\ Additive'
<1>1. PICK t \in DOMAIN tasks : Lose(t) /\ QueueLoses(t)
  BY LoseCall
<1>2. PICK status \in {"failed", "unknown"} : Ends(t, status)
  BY <1>1 DEF Lose
<1>3. /\ tasks \in Seq(Task) /\ Pending \subseteq DOMAIN tasks
      /\ \A u \in DOMAIN tasks : Touched(u) \subseteq Docs
  BY QueueParts
<1>4. /\ docs' = docs /\ DOMAIN tasks' = DOMAIN tasks
      /\ Pending' = Pending \ {t} /\ \A u \in DOMAIN tasks : tasks'[u].changes = tasks[u].changes
      /\ \A u \in DOMAIN tasks : u # t => tasks'[u] = tasks[u]
      /\ tasks'[t].status = status
  BY <1>1, <1>2, <1>3, EndedTask DEF Lose, QueueLoses
<1>5. /\ \A u \in DOMAIN tasks : Touched(u)' = Touched(u)
      /\ \A u \in DOMAIN tasks : \A d, n : NoneBelow(u, d, n) <=> NoneBelow(u, d, n)'
      /\ Existing(docs') = Existing(docs)
  BY <1>4 DEF Touched, NoneBelow, Existing
<1>6. ASSUME NEW n, NEW D, Landed(n, D) PROVE Landed(n, D)'
  BY <1>3, <1>4, <1>5, <1>6 DEF Landed
<1>7. ASSUME NEW n \in 0 .. N, NEW s \in DOMAIN tasks, Carried(s, n) PROVE Carried(s, n)'
  <2>1. \A c \in Range(tasks'[s].changes) : c.number = n
    BY <1>4, <1>7 DEF Carried
  <2>2. \A u \in Pending' : s <= u => \A c \in Range(tasks'[u].changes) : c.number >= n
    BY <1>3, <1>4, <1>7 DEF Carried
  <2>3. ASSUME tasks'[s].status = "succeeded" PROVE Landed(n, Touched(s))'
    <3>1. s # t /\ tasks[s].status = "succeeded"
      BY <1>2, <1>4, <2>3
    <3>2. \A D \in {Touched(s)} : Landed(n, D)'
      BY <1>6, <1>7, <3>1 DEF Carried
    <3>3. QED BY <1>5, <3>2 DEF Landed
  <2>4. QED BY <2>1, <2>2, <2>3 DEF Carried
<1>8. Additive'
  BY <1>4, <1>5 DEF Additive
<1>9. QED BY <1>4, <1>5, <1>6, <1>7, <1>8 DEF DeliveryKept

(* A request is enqueued behind everything sent before: its updates are    *)
(* the newest.                                                             *)
LEMMA SendDelivery ==
  ASSUME CallInv, Additive, phase = "write", Range(unsent) \subseteq Existing(docs),
         NEW k \in 1 .. Len(unsent), QueueGrows(Updates(k)), docs' = docs, Len(tasks') \in Nat,
         DOMAIN tasks' = 1 .. Len(tasks')
  PROVE  /\ DeliveryKept(batch[position]) /\ Additive'
         /\ \A t \in {Len(tasks) + 1} : /\ \A n \in {batch[position]} : Carried(t, n)'
                                        /\ Touched(t)' = {unsent[j] : j \in 1 .. k}
<1> DEFINE N == batch[position]
           new == Len(tasks) + 1
<1>1. /\ tasks \in Seq(Task) /\ Pending \subseteq DOMAIN tasks
      /\ Len(tasks) \in Nat /\ DOMAIN tasks = 1 .. Len(tasks)
      /\ \A u \in DOMAIN tasks : \A c \in Range(tasks[u].changes) : c.number \in Nat
  BY QueueParts
<1>2. N \in Nat /\ N > 0
  BY CallParts DEF CallInv, Phases, Working
<1>3. /\ Pending' = Pending \cup {new} /\ DOMAIN tasks' = 1 .. new
      /\ \A u \in DOMAIN tasks : tasks'[u] = tasks[u]
      /\ tasks'[new].changes = Updates(k) /\ tasks'[new].status = "enqueued"
  BY DEF QueueGrows
<1>4. /\ \A c \in Range(Updates(k)) : c.part = "added" /\ c.number = N
      /\ {c.doc : c \in Range(Updates(k))} = {unsent[j] : j \in 1 .. k}
  BY UpdatesType
<1> HIDE DEF N, new
<1>5. /\ \A u \in DOMAIN tasks : Touched(u)' = Touched(u)
      /\ \A u \in DOMAIN tasks : \A d, n : NoneBelow(u, d, n) <=> NoneBelow(u, d, n)'
      /\ Existing(docs') = Existing(docs)
  BY <1>3 DEF Touched, NoneBelow, Existing
<1>6. \A t \in {new} : Touched(t)' = {unsent[j] : j \in 1 .. k}
  BY <1>3, <1>4 DEF Touched
<1>7. \A n \in 0 .. N : \A t \in {new} : \A c \in Range(tasks'[t].changes) : c.number >= n
  BY <1>2, <1>3, <1>4
<1>8. ASSUME NEW n \in 0 .. N, NEW D, Landed(n, D) PROVE Landed(n, D)'
  <2>1. \A d : \A t \in {new} : NoneBelow(t, d, n)'
    BY <1>7 DEF NoneBelow
  <2>2. QED BY <1>1, <1>3, <1>5, <1>8, <2>1 DEF Landed
<1>9. ASSUME NEW n \in 0 .. N, NEW s \in DOMAIN tasks, Carried(s, n) PROVE Carried(s, n)'
  <2>1. \A c \in Range(tasks'[s].changes) : c.number = n
    BY <1>3, <1>9 DEF Carried
  <2>2. \A u \in Pending' : s <= u => \A c \in Range(tasks'[u].changes) : c.number >= n
    BY <1>1, <1>3, <1>7, <1>9 DEF Carried
  <2>3. ASSUME tasks'[s].status = "succeeded" PROVE Landed(n, Touched(s))'
    <3>1. tasks[s].status = "succeeded"
      BY <1>3, <2>3
    <3>2. \A D \in {Touched(s)} : Landed(n, D)'
      BY <1>8, <1>9, <3>1 DEF Carried
    <3>3. QED BY <1>5, <3>2 DEF Landed
  <2>4. QED BY <2>1, <2>2, <2>3 DEF Carried
<1>10. \A t \in {new} : \A n \in {N} : Carried(t, n)'
  <2>1. \A u \in Pending' : new <= u => u = new
    BY <1>1, <1>3 DEF new
  <2>2. \A u \in Pending' : new <= u => \A c \in Range(tasks'[u].changes) : c.number >= N
    BY <1>2, <1>3, <1>4, <2>1
  <2>3. \A c \in Range(tasks'[new].changes) : c.number = N
    BY <1>3, <1>4
  <2>4. tasks'[new].status # "succeeded"
    BY <1>3
  <2>5. QED BY <2>2, <2>3, <2>4 DEF Carried
<1>11. Additive'
  <2>1. \A t \in DOMAIN tasks' : t \in DOMAIN tasks \/ t = new
    BY <1>1, <1>3 DEF new
  <2>2. {unsent[j] : j \in 1 .. k} \subseteq Existing(docs)
    <3>1. Len(unsent) \in Nat /\ DOMAIN unsent = 1 .. Len(unsent)
      BY LenProperties DEF CallInv, CallTypes
    <3>2. QED BY <3>1 DEF Range
  <2>3. \A c \in Range(Updates(k)) : c.doc \in Existing(docs)
    BY <1>4, <2>2
  <2>4. QED BY <1>2, <1>3, <1>4, <1>5, <2>1, <2>3 DEF Additive
<1>12. DOMAIN tasks \subseteq DOMAIN tasks'
  BY <1>1, <1>3 DEF new
<1>13. QED BY <1>5, <1>6, <1>8, <1>9, <1>10, <1>11, <1>12 DEF DeliveryKept, N, new

Number(k) == batch[issued[k].position]
Referring(n) == {d \in Existing(docs) : ParentOf[d] = stream[n]}

(* The tasks of an entry carry its update, to all documents that refer to  *)
(* the parent unless it failed; once it is confirmed, the update has landed.*)
EntryCarried(k) == \A t \in Range(issued[k].tasks) : Carried(t, Number(k))
EntryFull(k) == Failing(k) \/ \A d \in Referring(Number(k)) :
                                \E t \in Range(issued[k].tasks) : d \in Touched(t)
EntryLanded(k) == Failing(k) \/ Landed(Number(k), Referring(Number(k)))

(* So do those of the message being written, with what is still to be sent.*)
WriteCarried == \A t \in Range(requests) : Carried(t, batch[position])
WriteFull == \A d \in Matches : d \in Range(unsent) \/ \E t \in Range(requests) : d \in Touched(t)

DeliverInv == owned = 0 =>
  /\ Additive /\ ids \in Seq(Existing(docs)) /\ unsent \in Seq(Existing(docs))
  /\ phase = "write" => WriteCarried /\ WriteFull
  /\ \A k \in DOMAIN issued : EntryCarried(k) /\ EntryFull(k)
  /\ \A k \in 1 .. confirmed : EntryLanded(k)
  /\ \A n \in acked : Landed(n, Referring(n))

LEMMA NotedNumbers ==
  ASSUME CallInv
  PROVE  /\ Len(stream) \in Nat /\ DOMAIN issued = 1 .. Len(issued) /\ Len(issued) \in Nat
         /\ \A k \in DOMAIN issued : /\ issued[k].tasks \in Seq(DOMAIN tasks)
                                     /\ Range(issued[k].tasks) \subseteq DOMAIN tasks
                                     /\ Number(k) \in Nat /\ Number(k) <= Len(stream)
         /\ \A n \in acked : n \in Nat /\ n <= Len(stream)
         /\ Range(requests) \subseteq DOMAIN tasks
         /\ Working => /\ batch[position] \in Nat /\ batch[position] <= Len(stream)
                       /\ \A k \in DOMAIN issued : Number(k) <= batch[position]
                       /\ \A n \in acked : n <= batch[position]
<1>1. /\ Len(stream) \in Nat /\ DOMAIN issued = 1 .. Len(issued) /\ Len(issued) \in Nat
      /\ DOMAIN tasks = 1 .. Len(tasks) /\ DOMAIN batch = 1 .. Len(batch) /\ received \in Nat
      /\ Len(batch) \in Nat /\ received \in committed .. Len(stream) /\ committed \in Nat
      /\ \A i \in DOMAIN batch : batch[i] \in 1 .. Len(stream)
      /\ \A k \in DOMAIN issued : /\ issued[k].position \in DOMAIN batch
                                  /\ issued[k].tasks \in Seq(DOMAIN tasks)
  BY CallParts DEF CallInv, SourceTypes
<1>2. \A s \in Seq(DOMAIN tasks) : Range(s) \subseteq DOMAIN tasks
  <2>1. ASSUME NEW s \in Seq(DOMAIN tasks), NEW t \in Range(s) PROVE t \in DOMAIN tasks
    <3>1. DOMAIN s = 1 .. Len(s)
      BY LenProperties
    <3>2. QED BY <2>1, <3>1, ElementOfSeq DEF Range
  <2>2. QED BY <2>1
<1>3. requests \in Seq(DOMAIN tasks)
  BY DEF CallInv, TaskTypes
<1>4. \A n \in acked : n \in Nat /\ n <= Len(stream)
  <2>1. acked \subseteq 1 .. received
    BY DEF CallInv, SourceTypes
  <2>2. QED BY <1>1, <2>1
<1>5. \A k \in DOMAIN issued : Number(k) \in Nat /\ Number(k) <= Len(stream)
  BY <1>1 DEF Number
<1>6. ASSUME Working
      PROVE  /\ batch[position] \in Nat /\ batch[position] <= Len(stream)
             /\ \A k \in DOMAIN issued : Number(k) <= batch[position]
             /\ \A n \in acked : n <= batch[position]
  <2>1. position \in DOMAIN batch /\ \A k \in DOMAIN issued : issued[k].position < position
    BY <1>6 DEF CallInv, Phases, Placed, Working
  <2>2. /\ \A i, j \in DOMAIN batch : i < j => batch[i] < batch[j]
        /\ \A n \in acked : \A i \in DOMAIN batch : n < batch[i]
    BY DEF CallInv, Numbers
  <2>3. \A k \in DOMAIN issued : Number(k) < batch[position]
    BY <1>1, <2>1, <2>2 DEF Number
  <2>4. \A n \in acked : n < batch[position]
    BY <2>1, <2>2
  <2>5. batch[position] \in Nat /\ batch[position] <= Len(stream)
    BY <1>1, <2>1
  <2>6. QED BY <1>4, <1>5, <2>3, <2>4, <2>5
<1>7. QED BY <1>1, <1>2, <1>3, <1>4, <1>5, <1>6

LEMMA LandedKept ==
  ASSUME NEW N \in Nat, DeliveryKept(N), stream' = stream, NEW n \in 0 .. N
  PROVE  /\ Referring(n)' = Referring(n)
         /\ Landed(n, Referring(n)) => Landed(n, Referring(n))'
<1>1. Referring(n)' = Referring(n) /\ Referring(n) \in SUBSET Docs
  BY DEF Referring, DeliveryKept, Existing
<1>2. ASSUME Landed(n, Referring(n)) PROVE Landed(n, Referring(n))'
  <2>1. \A D \in {Referring(n)} : Landed(n, D)'
    BY <1>1, <1>2 DEF DeliveryKept
  <2>2. QED BY <1>1, <2>1 DEF Landed
<1>3. QED BY <1>1, <1>2

LEMMA EntryKept ==
  ASSUME CallInv, NEW N \in Nat, DeliveryKept(N), NEW k \in DOMAIN issued, Number(k) <= N,
         issued'[k] = issued[k], UNCHANGED <<stream, batch>>, Failing(k) => Failing(k)'
  PROVE  /\ EntryCarried(k) => EntryCarried(k)'
         /\ EntryFull(k) => EntryFull(k)'
         /\ EntryLanded(k) => EntryLanded(k)'
<1>1. PICK n \in 0 .. N : n = Number(k)
  BY NotedNumbers
<1>2. Number(k)' = n /\ Range(issued[k].tasks) \subseteq DOMAIN tasks
  BY <1>1, NotedNumbers DEF Number
<1>3. EntryCarried(k) => EntryCarried(k)'
  <2>1. \A t \in DOMAIN tasks : Carried(t, n) => Carried(t, n)'
    BY DEF DeliveryKept
  <2>2. \A t : \A m \in {n} : Carried(t, m)' => (m = Number(k)' => Carried(t, Number(k))')
    BY DEF Carried, Landed
  <2>3. QED BY <1>1, <1>2, <2>1, <2>2 DEF EntryCarried
<1>4. Referring(n)' = Referring(n) /\ (Landed(n, Referring(n)) => Landed(n, Referring(n))')
  BY LandedKept
<1>5. Referring(Number(k))' = Referring(n)'
  BY <1>2 DEF Referring
<1>6. EntryFull(k) => EntryFull(k)'
  <2>1. \A t \in DOMAIN tasks : Touched(t)' = Touched(t)
    BY DEF DeliveryKept
  <2>2. QED BY <1>1, <1>2, <1>4, <1>5, <2>1 DEF EntryFull
<1>7. EntryLanded(k) => EntryLanded(k)'
  <2>1. Landed(n, Referring(n))' => Landed(Number(k), Referring(Number(k)))'
    BY <1>2, <1>5 DEF Landed
  <2>2. QED BY <1>1, <1>4, <2>1 DEF EntryLanded
<1>8. QED BY <1>3, <1>6, <1>7

LEMMA WriteKept ==
  ASSUME CallInv, Working, NEW N \in Nat, DeliveryKept(N), batch[position] <= N,
         UNCHANGED <<stream, batch, position>>
  PROVE  /\ Matches' = Matches
         /\ \A t \in DOMAIN tasks : Carried(t, batch[position]) => Carried(t, batch[position])'
         /\ UNCHANGED <<requests, unsent>> =>
              (WriteCarried => WriteCarried') /\ (WriteFull => WriteFull')
<1>1. PICK n \in 0 .. N : n = batch[position]
  BY NotedNumbers
<1>2. batch'[position'] = n /\ Range(requests) \subseteq DOMAIN tasks
  BY <1>1, NotedNumbers
<1>3. Matches' = Matches
  BY DEF DeliveryKept, Matches, Parent
<1>4. \A t \in DOMAIN tasks : Touched(t)' = Touched(t) /\ (Carried(t, n) => Carried(t, n)')
  BY DEF DeliveryKept
<1>5. \A t : Carried(t, n)' => Carried(t, batch[position])'
  BY <1>2 DEF Carried, Landed
<1>6. \A t \in DOMAIN tasks : Carried(t, batch[position]) => Carried(t, batch[position])'
  BY <1>1, <1>4, <1>5
<1>7. ASSUME UNCHANGED <<requests, unsent>>, WriteCarried PROVE WriteCarried'
  BY <1>2, <1>6, <1>7 DEF WriteCarried
<1>8. ASSUME UNCHANGED <<requests, unsent>>, WriteFull PROVE WriteFull'
  BY <1>2, <1>3, <1>4, <1>8 DEF WriteFull
<1>9. QED BY <1>3, <1>6, <1>7, <1>8

(* What is noted stays delivered in a step that only adds to it.           *)
LEMMA DeliverKept ==
  ASSUME CallInv, DeliverInv, owned = 0, NEW N \in Nat, DeliveryKept(N), Additive',
         UNCHANGED <<stream, batch>>, acked' = acked,
         \A k \in DOMAIN issued : /\ Number(k) <= N /\ issued'[k] = issued[k]
                                  /\ Failing(k) => Failing(k)',
         \A n \in acked : n <= N,
         \A k \in DOMAIN issued' : k \in DOMAIN issued \/ (EntryCarried(k)' /\ EntryFull(k)'),
         \A k \in 1 .. confirmed' : k \in 1 .. confirmed \/ EntryLanded(k)',
         ids' \in Seq(Existing(docs)), unsent' \in Seq(Existing(docs)),
         phase' = "write" => WriteCarried' /\ WriteFull'
  PROVE  DeliverInv'
<1>1. /\ \A k \in DOMAIN issued : EntryCarried(k) /\ EntryFull(k)
      /\ \A k \in 1 .. confirmed : EntryLanded(k)
      /\ \A n \in acked : Landed(n, Referring(n))
  BY DEF DeliverInv
<1>2. \A k \in DOMAIN issued' : EntryCarried(k)' /\ EntryFull(k)'
  BY <1>1, EntryKept
<1>3. \A k \in 1 .. confirmed' : EntryLanded(k)'
  <2>1. \A k \in 1 .. confirmed : k \in DOMAIN issued
    BY NotedNumbers DEF CallInv, CallTypes
  <2>2. QED BY <1>1, <2>1, EntryKept
<1>4. \A n \in acked' : Landed(n, Referring(n))'
  <2>1. \A n \in acked : n \in 0 .. N
    BY NotedNumbers
  <2>2. QED BY <1>1, <2>1, LandedKept
<1>5. ids' \in Seq(Existing(docs')) /\ unsent' \in Seq(Existing(docs'))
  BY DEF DeliveryKept
<1>6. QED BY <1>2, <1>3, <1>4, <1>5 DEF DeliverInv

(* Nothing is noted any more, or yet.                                      *)
LEMMA DeliverEmptied ==
  ASSUME CallInv, DeliverInv, UNCHANGED <<tasks, docs, owned, stream>>,
         issued' = <<>>, confirmed' = 0, ids' = <<>>, unsent' = <<>>, phase' # "write",
         owned = 0 => \A n \in acked' : n \in acked \/ (n \in Nat /\ Landed(n, Referring(n)))
  PROVE  DeliverInv'
<1> SUFFICES ASSUME owned = 0 PROVE DeliverInv'
  BY DEF DeliverInv
<1>1. Additive'
  BY SameDelivery, NotedNumbers DEF DeliverInv
<1>2. \A n \in acked' : Landed(n, Referring(n))'
  <2>1. SUFFICES ASSUME NEW n \in acked' PROVE Landed(n, Referring(n))'
    OBVIOUS
  <2>2. n \in Nat /\ Landed(n, Referring(n))
    BY <2>1, NotedNumbers DEF DeliverInv
  <2>3. DeliveryKept(n)
    BY <2>2, SameDelivery
  <2>4. n \in 0 .. n
    BY <2>2
  <2>5. QED BY <2>2, <2>3, <2>4, LandedKept
<1>3. DOMAIN issued' = {} /\ 1 .. confirmed' = {}
  OBVIOUS
<1>4. ids' \in Seq(Existing(docs')) /\ unsent' \in Seq(Existing(docs'))
  BY EmptySeq
<1>5. QED BY <1>1, <1>2, <1>3, <1>4 DEF DeliverInv

(* A step of the route that notes nothing and leaves the queue alone.      *)
LEMMA DeliverQuiet ==
  ASSUME CallInv, DeliverInv, owned = 0, UNCHANGED <<tasks, docs>>,
         UNCHANGED <<stream, batch, acked, issued, confirmed>>,
         \A k \in DOMAIN issued : Failing(k) => Failing(k)',
         ids' \in Seq(Existing(docs)), unsent' \in Seq(Existing(docs)),
         phase' = "write" => WriteCarried' /\ WriteFull'
  PROVE  DeliverInv'
<1>1. Len(stream) \in Nat
  BY NotedNumbers
<1>2. DeliveryKept(Len(stream)) /\ Additive'
  BY <1>1, SameDelivery DEF DeliverInv
<1>3. /\ \A k \in DOMAIN issued : /\ Number(k) <= Len(stream) /\ issued'[k] = issued[k]
                                  /\ Failing(k) => Failing(k)'
      /\ \A n \in acked : n <= Len(stream)
      /\ \A k \in DOMAIN issued' : k \in DOMAIN issued \/ (EntryCarried(k)' /\ EntryFull(k)')
      /\ \A k \in 1 .. confirmed' : k \in 1 .. confirmed \/ EntryLanded(k)'
  BY NotedNumbers
<1>4. QED BY <1>1, <1>2, <1>3, DeliverKept

LEMMA RejectDeliver ==
  ASSUME CallInv, DeliverInv, owned = 0, RejectMessage
  PROVE  DeliverInv'
<1>1. /\ phase = "issue" /\ phase' # "write" /\ failures' = [failures EXCEPT ![position] = "permanent"]
      /\ UNCHANGED <<stream, batch, acked, issued, confirmed, ids, unsent, tasks, docs>>
  BY DEF RejectMessage, TurnTo, source, given, message, server
<1>2. \A k \in DOMAIN issued : Failing(k) => Failing(k)'
  <2>1. \A k \in DOMAIN issued : /\ issued[k].position \in DOMAIN batch
                                 /\ issued[k].position # position
    BY <1>1, CallParts DEF CallInv, Placed
  <2>2. QED BY <1>1, <2>1 DEF Failing, CallInv, CallTypes
<1>3. QED BY <1>1, <1>2, DeliverQuiet DEF DeliverInv

LEMMA AskDeliver ==
  ASSUME CallInv, DeliverInv, owned = 0, AskPending \/ AwaitQueued \/ StartPaging
  PROVE  DeliverInv'
<1>1. /\ phase' # "write"
      /\ UNCHANGED <<stream, batch, acked, issued, confirmed, ids, unsent, tasks, docs, failures>>
  <2>1. CASE AskPending
    BY <2>1 DEF AskPending, source, given, message
  <2>2. CASE AwaitQueued \/ StartPaging
    BY <2>2 DEF AwaitQueued, StartPaging, source, given, call, message, server
  <2>3. QED BY <2>1, <2>2
<1>2. \A k \in DOMAIN issued : Failing(k) => Failing(k)'
  BY <1>1 DEF Failing
<1>3. QED BY <1>1, <1>2, DeliverQuiet DEF DeliverInv

LEMMA ReadDeliver ==
  ASSUME WholePages, CallInv, ReadInv, DeliverInv, owned = 0, ReadPage
  PROVE  DeliverInv'
<1>1. /\ phase = "page" /\ phase' \in {"page", "write"}
      /\ phase' = "page" => unsent' = unsent
      /\ phase' = "write" => unsent' = ids'
      /\ UNCHANGED <<stream, batch, acked, issued, confirmed, tasks, docs, failures, position, requests>>
  BY DEF ReadPage, source, given, server
<1>2. PICK matching \in InOrder(Matches, place) : ids' = ids \o Page(matching)
  BY DEF ReadPage
<1>3. ids' \in Seq(Existing(docs)) /\ unsent' \in Seq(Existing(docs))
  <2>1. matching \in Seq(Matches)
    BY <1>2, MatchesFinite, InOrderSeq
  <2>2. Page(matching) \in Seq(Matches) /\ Matches \subseteq Existing(docs)
    BY <2>1, PageParts DEF Matches
  <2>3. Page(matching) \in Seq(Existing(docs))
    BY <2>2, SeqGrows
  <2>4. ids \in Seq(Existing(docs)) /\ unsent \in Seq(Existing(docs))
    BY DEF DeliverInv
  <2>5. ids' \in Seq(Existing(docs))
    BY <1>2, <2>3, <2>4, ConcatProperties
  <2>6. QED BY <1>1, <2>4, <2>5
<1>4. \A k \in DOMAIN issued : Failing(k) => Failing(k)'
  BY <1>1 DEF Failing
<1>5. ASSUME phase' = "write" PROVE WriteCarried' /\ WriteFull'
  <2>1. requests' = <<>>
    BY <1>1 DEF CallInv, Phases
  <2>2. Range(requests') = {}
    BY <2>1 DEF Range
  <2>3. Len(ids') < sizes.page \/ Still
    <3>1. CASE Apart
      BY <3>1 DEF Still
    <3>2. CASE Fits(Parent, sizes.page)
      BY <3>2, WholeRead
    <3>3. Working /\ Parent # NoParent
      BY <1>1 DEF Working, CallInv, Phases
    <3>4. Fits(Parent, sizes.page) \/ Apart
      BY <3>3, PagesWhole
    <3>5. QED BY <3>1, <3>2, <3>4
  <2>4. Range(ids') = Matches
    BY <1>5, <2>3, WholeRead
  <2>5. Matches' = Matches
    BY <1>1 DEF Matches, Existing, Parent
  <2>6. QED BY <1>1, <1>5, <2>2, <2>4, <2>5 DEF WriteCarried, WriteFull
<1>6. QED BY <1>1, <1>3, <1>4, <1>5, DeliverQuiet

LEMMA SendDeliver ==
  ASSUME CallInv, DeliverInv, owned = 0, SendPatch
  PROVE  DeliverInv'
<1>1. /\ phase = "write" /\ phase' = "write" /\ requests' = Append(requests, Len(tasks'))
      /\ UNCHANGED <<stream, batch, acked, issued, confirmed, docs, failures, position, ids>>
  BY DEF SendPatch, source, given
<1>2. PICK k \in 1 .. Len(unsent) : /\ QueueGrows(Updates(k))
                                    /\ unsent' = SubSeq(unsent, k + 1, Len(unsent))
  BY SendCall
<1>3. /\ unsent \in Seq(Existing(docs)) /\ ids \in Seq(Existing(docs)) /\ Additive
      /\ WriteCarried /\ WriteFull
  BY <1>1 DEF DeliverInv
<1>4. /\ Len(unsent) \in Nat /\ DOMAIN unsent = 1 .. Len(unsent)
      /\ Range(unsent) \subseteq Existing(docs)
      /\ \A j \in 1 .. Len(unsent) : unsent[j] \in Existing(docs)
  BY <1>3, LenProperties, ElementOfSeq DEF Range
<1>5. /\ Len(tasks') \in Nat /\ DOMAIN tasks' = 1 .. Len(tasks') /\ Len(tasks') = Len(tasks) + 1
      /\ DOMAIN tasks = 1 .. Len(tasks) /\ Len(tasks) \in Nat
  <2>1. ServerTypeOK'
    BY SendCall DEF CallInv
  <2>2. QED BY <1>2, <2>1, LenProperties, QueueParts DEF ServerTypeOK, QueueGrows
<1>6. /\ DeliveryKept(batch[position]) /\ Additive'
      /\ \A t \in {Len(tasks) + 1} : /\ \A n \in {batch[position]} : Carried(t, n)'
                                     /\ Touched(t)' = {unsent[j] : j \in 1 .. k}
  BY <1>1, <1>2, <1>3, <1>4, <1>5, SendDelivery
<1>7. /\ Working /\ batch[position] \in Nat
      /\ \A l \in DOMAIN issued : Number(l) <= batch[position]
      /\ \A n \in acked : n <= batch[position]
      /\ Range(requests) \subseteq DOMAIN tasks
  BY <1>1, NotedNumbers DEF Working
<1>8. Range(requests') = Range(requests) \cup {Len(tasks) + 1}
  <2>1. requests \in Seq(DOMAIN tasks') /\ Len(tasks') \in DOMAIN tasks'
    BY <1>5, TasksNoted, SendCall DEF CallInv
  <2>2. /\ Append(requests, Len(tasks')) \in Seq(DOMAIN tasks') /\ Len(requests) \in Nat
        /\ Len(requests') = Len(requests) + 1 /\ DOMAIN requests' = 1 .. Len(requests')
        /\ DOMAIN requests = 1 .. Len(requests)
        /\ \A i \in 1 .. Len(requests) : requests'[i] = requests[i]
        /\ requests'[Len(requests) + 1] = Len(tasks')
    BY <1>1, <2>1, AppendProperties, LenProperties
  <2>3. \A i \in 1 .. Len(requests) + 1 : i \in 1 .. Len(requests) \/ i = Len(requests) + 1
    BY <2>2
  <2>4. \A i \in 1 .. Len(requests) : i \in DOMAIN requests'
    BY <2>2
  <2>5. Len(requests) + 1 \in DOMAIN requests'
    BY <2>2
  <2>6. \A t : t \in Range(requests') <=> t \in Range(requests) \/ t = Len(tasks')
    BY <2>2, <2>3, <2>4, <2>5 DEF Range
  <2>7. QED BY <1>5, <2>6
<1>9. /\ Matches' = Matches
      /\ \A t \in DOMAIN tasks : Carried(t, batch[position]) => Carried(t, batch[position])'
  BY <1>1, <1>6, <1>7, WriteKept
<1>10. WriteCarried'
  <2>1. \A t \in {Len(tasks) + 1} : Carried(t, batch[position])'
    BY <1>1, <1>6 DEF Carried, Landed
  <2>2. QED BY <1>3, <1>7, <1>8, <1>9, <2>1 DEF WriteCarried
<1>11. \A j \in k + 1 .. Len(unsent) : unsent[j] \in Range(unsent')
  <2>1. \A j \in k + 1 .. Len(unsent) : unsent[j] \in Existing(docs)
    BY <1>4
  <2>2. /\ unsent' \in Seq(Existing(docs))
        /\ Len(unsent') = IF k + 1 <= Len(unsent) THEN Len(unsent) - (k + 1) + 1 ELSE 0
        /\ \A i \in 1 .. Len(unsent) - (k + 1) + 1 : unsent'[i] = unsent[(k + 1) + i - 1]
    BY <1>2, <1>4, <2>1, SubSeqProperties
  <2>3. DOMAIN unsent' = 1 .. Len(unsent')
    BY <2>2, LenProperties
  <2>4. ASSUME NEW j \in k + 1 .. Len(unsent) PROVE unsent[j] \in Range(unsent')
    <3>1. k \in Nat /\ j \in Nat /\ k < j /\ j <= Len(unsent) /\ k + 1 <= Len(unsent)
      BY <1>4, <2>4
    <3>2. j - k \in 1 .. Len(unsent) - (k + 1) + 1 /\ (k + 1) + (j - k) - 1 = j
      BY <1>4, <3>1
    <3>3. Len(unsent') = Len(unsent) - (k + 1) + 1
      BY <2>2, <3>1
    <3>4. unsent'[j - k] = unsent[j] /\ j - k \in DOMAIN unsent'
      BY <2>2, <2>3, <3>2, <3>3
    <3>5. QED BY <3>4 DEF Range
  <2>5. QED BY <2>4
<1>12. WriteFull'
  <2>1. SUFFICES ASSUME NEW d \in Matches
                 PROVE  d \in Range(unsent') \/ \E t \in Range(requests') : d \in Touched(t)'
    BY <1>9 DEF WriteFull
  <2>2. CASE \E t \in Range(requests) : d \in Touched(t)
    BY <1>6, <1>7, <1>8, <2>2 DEF DeliveryKept
  <2>3. CASE d \in Range(unsent)
    <3>1. PICK j \in 1 .. Len(unsent) : d = unsent[j]
      BY <1>4, <2>3 DEF Range
    <3>2. j \in 1 .. k \/ j \in k + 1 .. Len(unsent)
      BY <1>4, <3>1
    <3>3. j \in 1 .. k => d \in {unsent[i] : i \in 1 .. k}
      BY <3>1
    <3>4. QED BY <1>6, <1>8, <1>11, <3>1, <3>2, <3>3
  <2>4. QED BY <1>3, <2>1, <2>2, <2>3 DEF WriteFull
<1>13. unsent' \in Seq(Existing(docs))
  <2>1. \A j \in k + 1 .. Len(unsent) : unsent[j] \in Existing(docs)
    BY <1>4
  <2>2. QED BY <1>2, <1>4, <2>1, SubSeqProperties
<1>14. \A l \in DOMAIN issued : Failing(l) => Failing(l)'
  BY <1>1 DEF Failing
<1>15. QED BY <1>1, <1>3, <1>6, <1>7, <1>10, <1>12, <1>13, <1>14, DeliverKept

LEMMA IssuedDeliver ==
  ASSUME CallInv, DeliverInv, owned = 0, Issued
  PROVE  DeliverInv'
<1>1. /\ phase = "write" /\ phase' # "write" /\ unsent = <<>> /\ unsent' = unsent /\ ids' = <<>>
      /\ issued' = Append(issued, [position |-> position, tasks |-> requests])
      /\ UNCHANGED <<stream, batch, acked, confirmed, tasks, docs, failures>> /\ UNCHANGED server
  BY DEF Issued, TurnTo, source, given, server
<1>2. WriteCarried /\ WriteFull /\ Additive
  BY <1>1 DEF DeliverInv
<1>3. /\ Working /\ Parent # NoParent /\ requests \in Seq(DOMAIN tasks') /\ ServerTypeOK'
      /\ Len(tasks) <= Len(tasks')
  BY <1>1, ServerStays, CallParts DEF CallInv, TaskTypes, Phases, Working
<1>4. /\ DOMAIN issued' = 1 .. Len(issued) + 1 /\ \A k \in 1 .. Len(issued) : issued'[k] = issued[k]
      /\ issued'[Len(issued) + 1] = [position |-> position, tasks |-> requests]
  BY <1>1, <1>3, EntryAdded
<1>5. /\ Len(stream) \in Nat /\ DOMAIN issued = 1 .. Len(issued) /\ Len(issued) \in Nat
      /\ \A k \in DOMAIN issued : Number(k) <= Len(stream)
      /\ \A n \in acked : n <= Len(stream)
      /\ batch[position] \in Nat /\ batch[position] <= Len(stream)
      /\ Range(requests) \subseteq DOMAIN tasks
  BY <1>3, NotedNumbers
<1>6. DeliveryKept(Len(stream)) /\ Additive'
  BY <1>1, <1>2, <1>5, SameDelivery
<1>7. \A k \in {Len(issued) + 1} : EntryCarried(k)' /\ EntryFull(k)'
  <2> DEFINE k == Len(issued) + 1
  <2>1. PICK n \in Nat : n = batch[position]
    BY <1>5
  <2>2. issued'[k].tasks = requests /\ batch'[issued'[k].position] = n
    BY <1>1, <1>4, <2>1
  <2>3. /\ \A t \in DOMAIN tasks : Carried(t, n) => Carried(t, n)'
        /\ \A t \in DOMAIN tasks : Touched(t)' = Touched(t)
        /\ Referring(n)' = Referring(n)
    <3>1. n \in 0 .. Len(stream)
      BY <1>5, <2>1
    <3>2. QED BY <1>1, <1>5, <1>6, <3>1, LandedKept DEF DeliveryKept
  <2>4. Matches = Referring(n)
    BY <2>1 DEF Matches, Referring, Parent
  <2> HIDE DEF k
  <2>5. \A m \in {k} : EntryCarried(m)'
    <3>1. \A t \in Range(requests) : Carried(t, n)'
      BY <1>2, <1>5, <2>1, <2>3 DEF WriteCarried
    <3>2. \A m \in {k} : \A t \in Range(issued'[m].tasks) : Carried(t, n)'
      BY <2>2, <3>1
    <3>3. \A m \in {k} : Number(m)' = n
      BY <2>2 DEF Number
    <3>4. \A m \in {k} : \A t : Carried(t, n)' => Carried(t, Number(m))'
      BY <3>3 DEF Carried, Landed
    <3>5. QED BY <3>2, <3>4 DEF EntryCarried
  <2>6. \A m \in {k} : EntryFull(m)'
    <3>1. \A d \in Referring(n) : \E t \in Range(requests) : d \in Touched(t)
      BY <1>1, <1>2, <2>4 DEF WriteFull, Range
    <3>2. \A m \in {k} : Number(m)' = n /\ issued'[m].tasks = requests
      BY <2>2 DEF Number
    <3>3. \A m \in {k} : Referring(Number(m))' = Referring(n)
      BY <2>3, <3>2 DEF Referring
    <3>4. \A d \in Referring(n) : \E t \in Range(requests) : d \in Touched(t)'
      BY <1>5, <2>3, <3>1
    <3>5. QED BY <3>2, <3>3, <3>4 DEF EntryFull
  <2>7. QED BY <2>5, <2>6 DEF k
<1>8. \A k \in DOMAIN issued' : k \in DOMAIN issued \/ (EntryCarried(k)' /\ EntryFull(k)')
  <2>1. \A k \in 1 .. Len(issued) + 1 : k \in 1 .. Len(issued) \/ k = Len(issued) + 1
    BY <1>5
  <2>2. QED BY <1>4, <1>5, <1>7, <2>1
<1>9. \A k \in DOMAIN issued : /\ Number(k) <= Len(stream) /\ issued'[k] = issued[k]
                               /\ Failing(k) => Failing(k)'
  BY <1>1, <1>4, <1>5 DEF Failing
<1>10. ids' \in Seq(Existing(docs)) /\ unsent' \in Seq(Existing(docs))
  BY <1>1, EmptySeq
<1>11. QED BY <1>1, <1>5, <1>6, <1>8, <1>9, <1>10, DeliverKept

LEMMA AbandonDeliver ==
  ASSUME CallInv, DeliverInv, owned = 0, Working, Parent # NoParent, NEW failure \in Failure,
         Abandon(failure), UNCHANGED source, ServerTypeOK', Len(tasks) <= Len(tasks'),
         NEW N \in Nat, DeliveryKept(N), Additive',
         \A k \in DOMAIN issued : Number(k) <= N, \A n \in acked : n <= N
  PROVE  DeliverInv'
<1>1. /\ failures' = [failures EXCEPT ![position] = failure]
      /\ issued' = Append(issued, [position |-> position, tasks |-> <<>>])
      /\ phase' = "confirm" /\ UNCHANGED <<stream, batch, ids, unsent, confirmed, acked>>
  BY DEF Abandon, message, source, given
<1>2. /\ DOMAIN issued' = 1 .. Len(issued) + 1 /\ \A k \in 1 .. Len(issued) : issued'[k] = issued[k]
      /\ issued'[Len(issued) + 1].position = position
      /\ issued'[Len(issued) + 1].tasks = <<>>
  <2> DEFINE noted == <<>>
  <2>1. noted \in Seq(DOMAIN tasks') /\ issued' = Append(issued, [position |-> position, tasks |-> noted])
    BY <1>1, EmptySeq
  <2> HIDE DEF noted
  <2>2. /\ DOMAIN issued' = 1 .. Len(issued) + 1
        /\ \A k \in 1 .. Len(issued) : issued'[k] = issued[k]
        /\ issued'[Len(issued) + 1] = [position |-> position, tasks |-> noted]
    BY <1>1, <2>1, EntryAdded
  <2>3. QED BY <2>2 DEF noted
<1>3. /\ DOMAIN issued = 1 .. Len(issued) /\ Len(issued) \in Nat
      /\ \A k \in DOMAIN issued : /\ issued[k].position \in DOMAIN batch
                                  /\ issued[k].position # position
      /\ position \in DOMAIN batch
  <2>1. /\ DOMAIN issued = 1 .. Len(issued) /\ Len(issued) \in Nat /\ DOMAIN batch = 1 .. Len(batch)
        /\ \A k \in DOMAIN issued : issued[k].position \in DOMAIN batch
    BY CallParts
  <2>2. position \in DOMAIN batch /\ position \in Nat
    BY CallParts DEF CallInv, Phases
  <2>3. \A k \in DOMAIN issued : issued[k].position < position
    BY DEF CallInv, Placed, Working
  <2>4. \A k \in DOMAIN issued : issued[k].position # position
    BY <2>2, <2>3
  <2>5. QED BY <2>1, <2>2, <2>4
<1>4. /\ failures'[position] = failure /\ failure # "none"
      /\ \A i \in DOMAIN batch : i # position => failures'[i] = failures[i]
  BY <1>1, <1>3 DEF CallInv, CallTypes, Failure
<1>5. \A k \in DOMAIN issued : /\ Number(k) <= N /\ issued'[k] = issued[k]
                               /\ Failing(k) => Failing(k)'
  BY <1>2, <1>3, <1>4 DEF Failing
<1>6. \A k \in {Len(issued) + 1} : EntryCarried(k)' /\ EntryFull(k)'
  <2>1. \A k \in {Len(issued) + 1} : Failing(k)' /\ Range(issued'[k].tasks) = {}
    BY <1>2, <1>4 DEF Failing, Range
  <2>2. QED BY <2>1 DEF EntryCarried, EntryFull
<1>7. \A k \in DOMAIN issued' : k \in DOMAIN issued \/ (EntryCarried(k)' /\ EntryFull(k)')
  <2>1. \A k \in 1 .. Len(issued) + 1 : k \in 1 .. Len(issued) \/ k = Len(issued) + 1
    BY <1>3
  <2>2. QED BY <1>2, <1>3, <1>6, <2>1
<1>8. ids' \in Seq(Existing(docs)) /\ unsent' \in Seq(Existing(docs))
  BY <1>1 DEF DeliverInv
<1>9. QED BY <1>1, <1>5, <1>7, <1>8, DeliverKept

LEMMA FailedDeliver ==
  ASSUME CallInv, DeliverInv, owned = 0, QueuedTaskLost \/ Refused \/ ReplyLost
  PROVE  DeliverInv'
<1>1. CallInv' /\ ServerTypeOK'
  BY QueuedLostCall, RefusedCall, ReplyLostCall DEF CallInv
<1>2. /\ Working /\ Parent # NoParent /\ UNCHANGED source /\ docs' = docs
  BY DEF QueuedTaskLost, Refused, ReplyLost, Asking, CallInv, Phases, Working, server
<1>3. PICK failure \in Failure : Abandon(failure)
  BY DEF QueuedTaskLost, Refused, ReplyLost, Failure
<1>4. Additive
  BY DEF DeliverInv
<1>5. CASE QueuedTaskLost \/ Refused
  <2>1. UNCHANGED <<tasks, docs>>
    BY <1>5 DEF QueuedTaskLost, Refused, server
  <2>2. /\ Len(stream) \in Nat /\ \A k \in DOMAIN issued : Number(k) <= Len(stream)
        /\ \A n \in acked : n <= Len(stream)
    BY NotedNumbers
  <2>3. DeliveryKept(Len(stream)) /\ Additive' /\ Len(tasks) <= Len(tasks')
    BY <1>4, <2>1, <2>2, SameDelivery, CallParts
  <2>4. QED BY <1>1, <1>2, <1>3, <2>2, <2>3, AbandonDeliver
<1>6. CASE ReplyLost
  <2>1. PICK k \in 1 .. Len(unsent) : QueueGrows(Updates(k))
    BY <1>6, ReplyLostCall
  <2>2. phase = "write"
    BY <1>6 DEF ReplyLost
  <2>3. Range(unsent) \subseteq Existing(docs)
    <3>1. unsent \in Seq(Existing(docs))
      BY DEF DeliverInv
    <3>2. QED BY <3>1, LenProperties, ElementOfSeq DEF Range
  <2>4. Len(tasks') \in Nat /\ DOMAIN tasks' = 1 .. Len(tasks') /\ Len(tasks) <= Len(tasks')
    BY <1>1, <2>1, LenProperties, QueueParts DEF ServerTypeOK, QueueGrows
  <2>5. DeliveryKept(batch[position]) /\ Additive'
    BY <1>2, <1>4, <2>1, <2>2, <2>3, <2>4, SendDelivery
  <2>6. /\ batch[position] \in Nat /\ \A l \in DOMAIN issued : Number(l) <= batch[position]
        /\ \A n \in acked : n <= batch[position]
    BY <1>2, NotedNumbers
  <2>7. QED BY <1>1, <1>2, <1>3, <2>4, <2>5, <2>6, AbandonDeliver
<1>7. QED BY <1>5, <1>6

(* An entry is confirmed only if its update has landed, or as a failure.   *)
LEMMA ConfirmDeliver ==
  ASSUME CallInv, DeliverInv, owned = 0, ConfirmNext \/ PollRefused
  PROVE  DeliverInv'
<1>1. /\ Confirming /\ confirmed' = confirmed + 1 /\ phase' = phase
      /\ UNCHANGED <<stream, batch, issued, acked, tasks, docs, ids, unsent>>
  BY DEF ConfirmNext, PollRefused, source, given, message, server
<1>2. /\ phase = "confirm" /\ confirmed + 1 \in DOMAIN issued /\ confirmed \in Nat
      /\ Entry = issued[confirmed + 1] /\ Entry.position \in DOMAIN batch
  <2>1. confirmed \in 0 .. Len(issued) /\ confirmed < Len(issued) /\ Entry = issued[confirmed + 1]
    BY <1>1 DEF CallInv, CallTypes, Confirming, Entry
  <2>2. confirmed + 1 \in 1 .. Len(issued) /\ confirmed \in Nat
    BY <2>1, CallParts
  <2>3. QED BY <1>1, <2>1, <2>2, CallParts DEF Confirming
<1>3. failures \in [DOMAIN batch -> Failure \cup {"none"}]
  BY DEF CallInv, CallTypes
<1>4. /\ Len(stream) \in Nat /\ \A k \in DOMAIN issued : Number(k) \in Nat /\ Number(k) <= Len(stream)
      /\ \A n \in acked : n <= Len(stream)
  BY NotedNumbers
<1>5. /\ Additive /\ ids \in Seq(Existing(docs)) /\ unsent \in Seq(Existing(docs))
      /\ \A k \in DOMAIN issued : EntryCarried(k) /\ EntryFull(k)
  BY DEF DeliverInv
<1>6. DeliveryKept(Len(stream)) /\ Additive'
  BY <1>1, <1>4, <1>5, SameDelivery
<1>7. /\ \A k \in DOMAIN issued : Failing(k) => Failing(k)'
      /\ \A k \in {confirmed + 1} : EntryLanded(k)'
  <2>1. ASSUME NEW failure \in Failure, EntryFails(failure)
        PROVE  /\ failures'[Entry.position] # "none"
               /\ \A i \in DOMAIN batch : failures[i] # "none" => failures'[i] # "none"
    BY <1>2, <1>3, <2>1 DEF EntryFails, Failure
  <2>2. CASE \E failure \in Failure : EntryFails(failure)
    <3>1. /\ \A k \in {confirmed + 1} : Failing(k)'
          /\ \A k \in DOMAIN issued : Failing(k) => Failing(k)'
      BY <1>1, <1>2, <2>1, <2>2, CallParts DEF Failing
    <3>2. QED BY <3>1 DEF EntryLanded
  <2>3. CASE /\ first = "none" /\ failures[Entry.position] = "none" /\ ConfirmNext
             /\ UNCHANGED <<failures, first>>
             /\ \A k \in DOMAIN Entry.tasks : /\ Entry.tasks[k] \notin Pending
                                              /\ TaskOutcome(Entry.tasks[k]) = "ok"
    <3>1. \A k \in DOMAIN issued : Failing(k) => Failing(k)'
      BY <1>1, <2>3 DEF Failing
    <3>2. \A k \in {confirmed + 1} : EntryLanded(k)
      <4>1. SUFFICES ASSUME NEW k \in {confirmed + 1} PROVE Landed(Number(k), Referring(Number(k)))
        BY DEF EntryLanded
      <4>2. ~Failing(k) /\ k \in DOMAIN issued /\ issued[k] = Entry
        BY <1>2, <2>3, <4>1 DEF Failing
      <4>3. \A t \in Range(issued[k].tasks) : tasks[t].status = "succeeded"
        <5>1. \A t : TaskOutcome(t) = "ok" => tasks[t].status = "succeeded"
          BY DEF TaskOutcome
        <5>2. QED BY <2>3, <4>2, <5>1 DEF Range
      <4>4. \A t \in Range(issued[k].tasks) : Landed(Number(k), Touched(t))
        BY <1>5, <4>2, <4>3 DEF EntryCarried, Carried
      <4>5. \A d \in Referring(Number(k)) : \E t \in Range(issued[k].tasks) : d \in Touched(t)
        BY <1>5, <4>2 DEF EntryFull
      <4>6. QED BY <4>4, <4>5 DEF Landed
    <3>3. \A k \in {confirmed + 1} : EntryLanded(k)'
      BY <1>1, <1>2, <1>4, <1>6, <3>1, <3>2, EntryKept
    <3>4. QED BY <3>1, <3>3
  <2>4. QED BY <2>2, <2>3, ConfirmCases
<1>8. \A k \in 1 .. confirmed' : k \in 1 .. confirmed \/ EntryLanded(k)'
  <2>1. \A k \in 1 .. confirmed' : k \in 1 .. confirmed \/ k = confirmed + 1
    BY <1>1, <1>2
  <2>2. QED BY <1>7, <2>1
<1>9. /\ \A k \in DOMAIN issued : /\ Number(k) <= Len(stream) /\ issued'[k] = issued[k]
                                  /\ Failing(k) => Failing(k)'
      /\ \A k \in DOMAIN issued' : k \in DOMAIN issued \/ (EntryCarried(k)' /\ EntryFull(k)')
  BY <1>1, <1>4, <1>7
<1>10. phase' # "write"
  BY <1>1, <1>2
<1>11. QED BY <1>1, <1>4, <1>5, <1>6, <1>8, <1>9, <1>10, DeliverKept

(* A message counts as delivered only if its entry was confirmed.          *)
LEMMA ReportDeliver ==
  ASSUME CallInv, DeliverInv, Report
  PROVE  DeliverInv'
<1>1. /\ phase = "confirm" /\ confirmed = Len(issued)
      /\ acked' = acked \cup Judged("none")
      /\ UNCHANGED <<tasks, docs, owned, stream>>
      /\ issued' = <<>> /\ confirmed' = 0 /\ ids' = <<>> /\ unsent' = <<>> /\ phase' # "write"
  BY DEF Report, NoCall, given, server
<1>2. ASSUME owned = 0, NEW n \in Judged("none") PROVE n \in Nat /\ Landed(n, Referring(n))
  <2>1. PICK i \in DOMAIN batch : n = batch[i] /\ Verdict(i) = "none"
    BY <1>2 DEF Judged
  <2>2. failures[i] = "none" /\ (first = "none" \/ ~(issued # <<>> /\ i > Last(issued).position))
    BY <2>1 DEF Verdict
  <2>3. HasEntry(i) \/ Rejected(i) \/ Unissued(i)
    BY <1>1 DEF CallInv, Placed
  <2>4. ~Rejected(i)
    BY <2>2 DEF Rejected
  <2>5. ~Unissued(i)
    <3>1. SUFFICES ASSUME Unissued(i) PROVE FALSE
      OBVIOUS
    <3>2. issued # <<>> /\ i > Last(issued).position /\ Failing(Len(issued))
      BY <3>1 DEF Unissued, Last
    <3>3. Len(issued) \in 1 .. confirmed
      <4>1. issued \in Seq([position : DOMAIN batch, tasks : Seq(DOMAIN tasks)])
        BY DEF CallInv, TaskTypes
      <4>2. Len(issued) \in Nat \ {0}
        BY <3>2, <4>1, EmptySeq
      <4>3. QED BY <1>1, <4>2
    <3>4. first # "none"
      BY <1>1, <3>2, <3>3 DEF CallInv, Concluded
    <3>5. QED BY <2>2, <3>2, <3>4
  <2>6. PICK k \in DOMAIN issued : issued[k].position = i
    BY <2>3, <2>4, <2>5 DEF HasEntry
  <2>7. k \in 1 .. confirmed /\ ~Failing(k) /\ Number(k) = n
    BY <1>1, <2>1, <2>2, <2>6, CallParts DEF Failing, Number
  <2>8. EntryLanded(k)
    BY <1>2, <2>7 DEF DeliverInv
  <2>9. QED BY <2>7, <2>8, NotedNumbers DEF EntryLanded
<1>3. owned = 0 => \A n \in acked' : n \in acked \/ (n \in Nat /\ Landed(n, Referring(n)))
  BY <1>1, <1>2
<1>4. QED BY <1>1, <1>3, DeliverEmptied

LEMMA IdleDeliver ==
  ASSUME CallInv, DeliverInv, Receive \/ Resend \/ Commit \/ Crash
  PROVE  DeliverInv'
<1>1. CASE Receive \/ Resend \/ Commit
  <2>1. /\ phase = "idle" /\ phase' # "write"
        /\ UNCHANGED <<tasks, docs, owned, stream, issued, confirmed, ids, unsent, acked>>
    <3>1. CASE Receive
      BY <3>1 DEF Receive, SendBatch, given, message, server
    <3>2. CASE Resend
      BY <3>2 DEF Resend, SendBatch, given, message, server
    <3>3. CASE Commit
      BY <3>3 DEF Commit, given, call, message, server
    <3>4. QED BY <1>1, <3>1, <3>2, <3>3
  <2>2. issued = <<>> /\ confirmed = 0 /\ ids = <<>> /\ unsent = <<>>
    BY <2>1 DEF CallInv, Phases, Placed
  <2>3. QED BY <2>1, <2>2, DeliverEmptied
<1>2. CASE Crash
  <2>1. /\ acked' \subseteq acked /\ UNCHANGED <<tasks, docs, owned, stream>>
        /\ issued' = <<>> /\ confirmed' = 0 /\ ids' = <<>> /\ unsent' = <<>> /\ phase' # "write"
    BY <1>2 DEF Crash, NoCall, given
  <2>2. QED BY <2>1, DeliverEmptied
<1>3. QED BY <1>1, <1>2

LEMMA ServerDeliver ==
  ASSUME CallInv, DeliverInv, owned = 0, ApplyTask \/ LoseTask
  PROVE  DeliverInv'
<1>1. UNCHANGED <<stream, batch, position, acked, issued, confirmed, failures, phase, ids,
                  unsent, requests>>
  BY DEF ApplyTask, LoseTask, source, given, call, message
<1>2. /\ Len(stream) \in Nat /\ \A k \in DOMAIN issued : Number(k) <= Len(stream)
      /\ \A n \in acked : n <= Len(stream)
      /\ Working => batch[position] <= Len(stream)
  BY NotedNumbers
<1>3. Additive /\ ids \in Seq(Existing(docs)) /\ unsent \in Seq(Existing(docs))
  BY DEF DeliverInv
<1>4. DeliveryKept(Len(stream)) /\ Additive'
  BY <1>2, <1>3, ApplyDelivery, LoseDelivery
<1>5. \A k \in DOMAIN issued : /\ Number(k) <= Len(stream) /\ issued'[k] = issued[k]
                               /\ Failing(k) => Failing(k)'
  BY <1>1, <1>2 DEF Failing
<1>6. phase' = "write" => WriteCarried' /\ WriteFull'
  BY <1>1, <1>2, <1>4, WriteKept DEF Working, DeliverInv
<1>7. QED BY <1>1, <1>2, <1>3, <1>4, <1>5, <1>6, DeliverKept

LEMMA DeliverStep ==
  ASSUME WholePages, CallInv, ReadInv, DeliverInv, [Next]_vars
  PROVE  DeliverInv'
<1>1. CASE Owner
  <2>1. owned' = owned + 1 /\ owned \in Nat
    BY <1>1, SharedIndexAssumption
       DEF Owner, OwnerWrites, CallInv, ServerTypeOK, SharedIndexAssumption
  <2>2. owned' # 0
    BY <2>1
  <2>3. QED BY <2>2 DEF DeliverInv
<1>2. CASE Report \/ Receive \/ Resend \/ Commit \/ Crash
  BY <1>2, ReportDeliver, IdleDeliver
<1>3. CASE ~Owner /\ ~(Report \/ Receive \/ Resend \/ Commit \/ Crash)
  <2>1. owned' = owned
    <3>1. CASE RejectMessage \/ AwaitQueued \/ StartPaging \/ ReadPage \/ Issued \/ QueuedTaskLost
               \/ ConfirmNext
      BY <3>1 DEF RejectMessage, AwaitQueued, StartPaging, ReadPage, Issued, QueuedTaskLost,
                  ConfirmNext, server
    <3>2. CASE AskPending \/ SendPatch \/ Refused \/ ReplyLost \/ PollRefused
      BY <3>2 DEF AskPending, SendPatch, Refused, ReplyLost, PollRefused
    <3>3. CASE ApplyTask
      BY <3>3 DEF ApplyTask, Apply
    <3>4. CASE LoseTask
      BY <3>4 DEF LoseTask, Lose
    <3>5. CASE UNCHANGED vars
      BY <3>5 DEF vars, server
    <3>6. QED BY <1>3, <3>1, <3>2, <3>3, <3>4, <3>5 DEF Next
  <2>2. SUFFICES ASSUME owned = 0 PROVE DeliverInv'
    BY <2>1 DEF DeliverInv
  <2>3. CASE RejectMessage
    BY <2>2, <2>3, RejectDeliver
  <2>4. CASE AskPending \/ AwaitQueued \/ StartPaging
    BY <2>2, <2>4, AskDeliver
  <2>5. CASE ReadPage
    BY <2>2, <2>5, ReadDeliver
  <2>6. CASE SendPatch
    BY <2>2, <2>6, SendDeliver
  <2>7. CASE Issued
    BY <2>2, <2>7, IssuedDeliver
  <2>8. CASE QueuedTaskLost \/ Refused \/ ReplyLost
    BY <2>2, <2>8, FailedDeliver
  <2>9. CASE ConfirmNext \/ PollRefused
    BY <2>2, <2>9, ConfirmDeliver
  <2>10. CASE ApplyTask \/ LoseTask
    BY <2>2, <2>10, ServerDeliver
  <2>11. CASE UNCHANGED vars
    <3>1. UNCHANGED <<stream, batch, position, acked, issued, confirmed, failures, phase, ids,
                      unsent, requests, tasks, docs>>
      BY <2>11 DEF vars, source, given, call, message, server
    <3>2. \A k \in DOMAIN issued : Failing(k) => Failing(k)'
      BY <3>1 DEF Failing
    <3>3. phase' = "write" => WriteCarried' /\ WriteFull'
      <4>1. DeliveryKept(Len(stream)) /\ Len(stream) \in Nat
        BY <3>1, NotedNumbers, SameDelivery
      <4>2. QED BY <2>2, <3>1, <4>1, NotedNumbers, WriteKept DEF Working, DeliverInv
    <3>4. ids' \in Seq(Existing(docs)) /\ unsent' \in Seq(Existing(docs))
      BY <2>2, <3>1 DEF DeliverInv
    <3>5. QED BY <2>2, <3>1, <3>2, <3>3, <3>4, DeliverQuiet
  <2>12. QED BY <1>3, <2>3, <2>4, <2>5, <2>6, <2>7, <2>8, <2>9, <2>10, <2>11 DEF Next
<1>4. QED BY <1>1, <1>2, <1>3

(* While the owner does not write, every update sent by issue_patch has    *)
(* nothing older queued behind it; the tasks of a noted message reach all  *)
(* documents that refer to its parent unless it failed; and what is        *)
(* confirmed or was reported as delivered has landed there.                *)
THEOREM DeliveryInvariant == ASSUME WholePages PROVE Spec => []DeliverInv
<1>1. Init => DeliverInv
  <2>1. SUFFICES ASSUME Init PROVE DeliverInv
    OBVIOUS
  <2>2. /\ tasks = <<>> /\ ids = <<>> /\ unsent = <<>> /\ issued = <<>> /\ confirmed = 0
        /\ acked = {} /\ phase = "idle"
    BY <2>1 DEF Init
  <2>3. Additive
    BY <2>2 DEF Additive
  <2>4. ids \in Seq(Existing(docs)) /\ unsent \in Seq(Existing(docs))
    BY <2>2, EmptySeq
  <2>5. DOMAIN issued = {} /\ 1 .. confirmed = {}
    BY <2>2
  <2>6. QED BY <2>2, <2>3, <2>4, <2>5 DEF DeliverInv
<1>2. QED BY <1>1, CallInvariant, ReadCorrect, DeliverStep, PTL DEF Spec

(* Where no parent with more documents than a page is changed twice in a   *)
(* batch, a change of a parent that was reported as delivered              *)
(* is in every document that refers to it, or a newer change of the parent *)
(* is, as long as the owner has not written: whatever tasks were lost,     *)
(* requests refused, replies lost, and however often a batch was sent      *)
(* again after a crash.                                                    *)
THEOREM AckedPatchSurvivesHolds == ASSUME WholePages PROVE Spec => []AckedPatchSurvives
<1>1. CallInv /\ DeliverInv => AckedPatchSurvives
  <2>1. SUFFICES ASSUME CallInv, DeliverInv, NEW n \in acked, NEW d \in Docs, owned = 0,
                        d \in Existing(docs), ParentOf[d] = stream[n]
                 PROVE  docs[d].added >= n
    BY DEF AckedPatchSurvives
  <2>2. Landed(n, Referring(n)) /\ d \in Referring(n)
    BY <2>1 DEF DeliverInv, Referring
  <2>3. QED BY <2>2 DEF Landed
<1>2. QED BY <1>1, CallInvariant, DeliveryInvariant, PTL

=============================================================================
