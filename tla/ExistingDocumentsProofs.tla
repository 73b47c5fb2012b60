----------------------- MODULE ExistingDocumentsProofs ---------------------
(***************************************************************************)
(* Proofs about `method: update_existing` on an index that another route   *)
(* owns, for any number of documents, messages, owner's writes and mishaps.*)
(***************************************************************************)
EXTENDS ExistingDocuments, FiniteSetTheorems, SequenceTheorems, WellFoundedInduction,
        NaturalsInduction, TLAPS

(***************************************************************************)
(* Numbers.                                                                *)
(***************************************************************************)
Below == {p \in Nat \X Nat : p[1] < p[2]}

(* A set of natural numbers has a least one. *)
LEMMA LeastNat ==
  ASSUME NEW S, S \subseteq Nat, S # {}
  PROVE  \E m \in S : \A k \in S : m <= k
<1>1. IsWellFoundedOn(Below, Nat)
  <2>1. IsWellFoundedOn(OpToRel(<, Nat), Nat)
    BY NatLessThanWellFounded
  <2>2. OpToRel(<, Nat) = Below
    BY DEF OpToRel, Below
  <2>3. QED BY <2>1, <2>2
<1>2. PICK m \in S : \A k \in S : ~(<<k, m>> \in Below)
  BY <1>1, WFMin
<1>3. \A j \in Nat, k \in Nat : j < k => <<j, k>> \in Below
  BY DEF Below
<1>4. ASSUME NEW k \in S, ~(m <= k) PROVE FALSE
  <2>1. m \in Nat /\ k \in Nat /\ k < m
    BY <1>4
  <2>2. QED BY <1>2, <1>3, <2>1
<1>5. QED BY <1>4

(* What Min and Max of FiniteSetsExt choose. *)
LEMMA MinOf ==
  ASSUME NEW S, S \subseteq Nat, S # {}
  PROVE  Min(S) \in S /\ \A k \in S : Min(S) <= k
BY LeastNat DEF Min

LEMMA MaxOf ==
  ASSUME NEW N \in Nat, NEW S, S \subseteq 0 .. N, S # {}
  PROVE  Max(S) \in S /\ \A k \in S : k <= Max(S)
<1> DEFINE T == {k \in 0 .. N : N - k \in S}
<1>1. T \subseteq Nat /\ T # {}
  <2>1. PICK k \in S : TRUE
    OBVIOUS
  <2>2. N - k \in 0 .. N /\ N - (N - k) = k
    BY <2>1
  <2>3. N - k \in T
    BY <2>1, <2>2
  <2>4. QED BY <2>3
<1>2. PICK m \in T : \A k \in T : m <= k
  BY <1>1, LeastNat
<1>3. ASSUME NEW k \in S PROVE k <= N - m
  <2>1. k \in 0 .. N /\ N - k \in 0 .. N /\ N - (N - k) = k
    OBVIOUS
  <2>2. N - k \in T
    BY <2>1
  <2>3. m <= N - k
    BY <1>2, <2>2
  <2>4. QED BY <1>2, <2>1, <2>3
<1>4. \E j \in S : \A k \in S : k <= j
  BY <1>2, <1>3
<1>5. QED BY <1>4 DEF Max

-----------------------------------------------------------------------------
(***************************************************************************)
(* What changes make of documents.                                         *)
(***************************************************************************)
Contents == [Docs -> [Parts -> Nat]]

LEMMA TaskParts ==
  ASSUME NEW ts \in Seq(Task)
  PROVE  /\ Len(ts) \in Nat /\ DOMAIN ts = 1 .. Len(ts)
         /\ \A t \in 1 .. Len(ts) :
              /\ ts[t] \in Task /\ ts[t].changes \in Seq(Change)
              /\ ts[t].status \in {"enqueued", "succeeded", "failed", "unknown"}
<1>1. Len(ts) \in Nat /\ DOMAIN ts = 1 .. Len(ts) /\ \A t \in 1 .. Len(ts) : ts[t] \in Task
  BY ElementOfSeq, LenProperties
<1>2. QED BY <1>1 DEF Task

LEMMA ChangeParts ==
  ASSUME NEW changes \in Seq(Change)
  PROVE  /\ Len(changes) \in Nat /\ DOMAIN changes = 1 .. Len(changes)
         /\ \A k \in DOMAIN changes :
              /\ changes[k].doc \in Docs /\ changes[k].part \in Parts
              /\ changes[k].number \in Nat
<1>1. /\ Len(changes) \in Nat /\ DOMAIN changes = 1 .. Len(changes)
      /\ \A k \in 1 .. Len(changes) : changes[k] \in Change
  BY ElementOfSeq, LenProperties
<1>2. QED BY <1>1 DEF Change

(* The changes that decide what a part of a document becomes.              *)
Deciding(changes, d, p) ==
  {k \in DOMAIN changes : /\ changes[k].doc = d
                          /\ changes[k].part = p \/ changes[k].number = 0}

LEMMA AfterPart ==
  ASSUME NEW contents \in Contents, NEW changes \in Seq(Change), NEW d \in Docs, NEW p \in Parts
  PROVE  /\ Deciding(changes, d, p) = {} => After(contents, changes)[d][p] = contents[d][p]
         /\ Deciding(changes, d, p) # {} =>
              /\ Max(Deciding(changes, d, p)) \in Deciding(changes, d, p)
              /\ \A k \in Deciding(changes, d, p) : k <= Max(Deciding(changes, d, p))
              /\ After(contents, changes)[d][p] = changes[Max(Deciding(changes, d, p))].number
<1>1. After(contents, changes)[d][p]
        = IF Deciding(changes, d, p) = {} THEN contents[d][p]
          ELSE changes[Max(Deciding(changes, d, p))].number
  BY DEF After, Deciding
<1>2. Deciding(changes, d, p) \subseteq 0 .. Len(changes) /\ Len(changes) \in Nat
  BY ChangeParts DEF Deciding
<1>3. QED BY <1>1, <1>2, MaxOf

LEMMA AfterType ==
  ASSUME NEW contents \in Contents, NEW changes \in Seq(Change)
  PROVE  After(contents, changes) \in Contents
<1>1. ASSUME NEW d \in Docs, NEW p \in Parts
      PROVE  After(contents, changes)[d][p] \in Nat
  <2>1. contents[d][p] \in Nat
    BY DEF Contents
  <2>2. \A k \in Deciding(changes, d, p) : changes[k].number \in Nat
    BY ChangeParts DEF Deciding
  <2>3. QED BY <2>1, <2>2, AfterPart
<1>2. After(contents, changes)
        = [d \in Docs |-> [p \in Parts |-> After(contents, changes)[d][p]]]
  BY DEF After
<1>3. QED BY <1>1, <1>2 DEF Contents

(* A document exists if one of its parts does.                             *)
LEMMA ExistsByPart ==
  ASSUME NEW contents \in Contents, NEW d \in Docs
  PROVE  d \in Existing(contents) <=> \E p \in Parts : contents[d][p] # 0
BY DEF Existing, Gone, Contents

(* Changes leave a document alone that none of them is for; whether it     *)
(* exists behind those that are for it, the last of them says.             *)
LEMMA ExistsAfter ==
  ASSUME NEW contents \in Contents, NEW changes \in Seq(Change), NEW d \in Docs
  PROVE  d \in Existing(After(contents, changes)) <=>
           IF d \in {c.doc : c \in Range(changes)} THEN Keeps(changes, d)
           ELSE d \in Existing(contents)
<1> DEFINE K == {k \in DOMAIN changes : changes[k].doc = d}
           new == After(contents, changes)
<1>1. new \in Contents
  BY AfterType
<1>2. K \subseteq 0 .. Len(changes) /\ Len(changes) \in Nat
  BY ChangeParts
<1>3. d \in {c.doc : c \in Range(changes)} <=> K # {}
  BY DEF Range
<1>4. \A p \in Parts : Deciding(changes, d, p) \subseteq K
  BY DEF Deciding
<1>5. CASE K = {}
  <2>1. \A p \in Parts : new[d][p] = contents[d][p]
    BY <1>4, <1>5, AfterPart
  <2> HIDE DEF new
  <2>2. d \in Existing(new) <=> d \in Existing(contents)
    BY <1>1, <2>1, ExistsByPart
  <2>3. QED BY <1>3, <1>5, <2>2 DEF new
<1>6. CASE K # {}
  <2> DEFINE last == Max(K)
  <2> HIDE DEF K
  <2>1. last \in K /\ \A k \in K : k <= last
    BY <1>2, <1>6, MaxOf
  <2>2. Keeps(changes, d) <=> changes[last].number # 0
    BY DEF Keeps, K
  <2> HIDE DEF last
  <2>3. last \in DOMAIN changes /\ changes[last].doc = d /\ changes[last].part \in Parts
    BY <2>1, ChangeParts DEF K
  <2>4. ASSUME NEW p \in Parts, last \in Deciding(changes, d, p)
        PROVE  new[d][p] = changes[last].number
    <3>1. /\ Max(Deciding(changes, d, p)) \in Deciding(changes, d, p)
          /\ \A k \in Deciding(changes, d, p) : k <= Max(Deciding(changes, d, p))
          /\ new[d][p] = changes[Max(Deciding(changes, d, p))].number
      BY <2>4, AfterPart
    <3>2. Max(Deciding(changes, d, p)) \in K
      BY <1>4, <3>1
    <3>3. last <= Max(Deciding(changes, d, p)) /\ Max(Deciding(changes, d, p)) <= last
      BY <2>1, <2>4, <3>1, <3>2
    <3>4. last \in Nat /\ Max(Deciding(changes, d, p)) \in Nat
      <4>1. \A k \in K : k \in Nat
        BY <1>2
      <4>2. QED BY <2>1, <3>2, <4>1
    <3>5. Max(Deciding(changes, d, p)) = last
      BY <3>3, <3>4
    <3>6. QED BY <3>1, <3>5
  <2>5. CASE changes[last].number = 0
    <3>1. \A p \in Parts : last \in Deciding(changes, d, p)
      BY <2>3, <2>5 DEF Deciding
    <3>2. \A p \in Parts : new[d][p] = 0
      BY <2>4, <2>5, <3>1
    <3> HIDE DEF new
    <3>3. d \notin Existing(new)
      BY <1>1, <3>2, ExistsByPart
    <3>4. QED BY <1>3, <1>6, <2>2, <2>5, <3>3 DEF new
  <2>6. CASE changes[last].number # 0
    <3>1. PICK p \in Parts : p = changes[last].part
      BY <2>3
    <3>2. last \in Deciding(changes, d, p)
      BY <2>3, <3>1 DEF Deciding
    <3>3. new[d][p] # 0
      BY <2>4, <2>6, <3>2
    <3> HIDE DEF new
    <3>4. d \in Existing(new)
      BY <1>1, <3>3, ExistsByPart
    <3>5. QED BY <1>3, <1>6, <2>2, <2>6, <3>4 DEF new
  <2>7. QED BY <2>5, <2>6
<1>7. QED BY <1>5, <1>6

-----------------------------------------------------------------------------
(***************************************************************************)
(* What the steps of Meilisearch and of the owner do to the queue.         *)
(***************************************************************************)
(* A task that ended was the oldest of the queue, unless it is gone. *)
Fifo == \A t, u \in DOMAIN tasks :
          u < t /\ tasks[t].status \in {"succeeded", "failed"} => u \notin Pending

(* What the queue makes of the documents outside S stays the same. *)
Unaltered(S) == \A d \in Docs \ S : d \in Promised' <=> d \in Promised

(* No task is added, and the queue loses at most t. *)
QueueLoses(t) == /\ Len(tasks') = Len(tasks) /\ DOMAIN tasks' = DOMAIN tasks
                 /\ Pending' = Pending \ {t}
                 /\ \A u \in DOMAIN tasks : tasks'[u].changes = tasks[u].changes

(* What is known of a document is known of the tasks that are for it. *)
LEMMA PromisedOf ==
  ASSUME NEW d \in Docs
  PROVE  /\ Writers(d) = {} => (d \in Promised <=> d \in Existing(docs))
         /\ Writers(d) # {} => (d \in Promised <=> Keeps(tasks[Max(Writers(d))].changes, d))
BY DEF Promised

LEMMA PromisedOfNext ==
  ASSUME NEW d \in Docs
  PROVE  /\ Writers(d)' = {} => (d \in Promised' <=> d \in Existing(docs'))
         /\ \A W \in {Writers(d)'} :
              W # {} => (d \in Promised' <=> Keeps(tasks'[Max(W)].changes, d))
BY DEF Promised, Existing

(* A task that ended or is gone is the same but for its status. *)
LEMMA EndedTask ==
  ASSUME tasks \in Seq(Task), NEW t \in DOMAIN tasks,
         NEW status \in {"succeeded", "failed", "unknown"}, Ends(t, status)
  PROVE  /\ tasks' \in Seq(Task) /\ QueueLoses(t) /\ tasks'[t].status = status
         /\ \A u \in DOMAIN tasks : u # t => tasks'[u] = tasks[u]
<1>1. /\ Len(tasks) \in Nat /\ DOMAIN tasks = 1 .. Len(tasks)
      /\ \A u \in 1 .. Len(tasks) : tasks[u] \in Task
  BY TaskParts
<1>2. [tasks[t] EXCEPT !.status = status] \in Task
  BY <1>1 DEF Task
<1>3. tasks' \in Seq(Task) /\ Len(tasks') = Len(tasks) /\ DOMAIN tasks' = DOMAIN tasks
  BY <1>1, <1>2 DEF Ends
<1>4. /\ \A u \in DOMAIN tasks : u # t => tasks'[u] = tasks[u]
      /\ tasks'[t].status = status /\ tasks'[t].changes = tasks[t].changes
  BY <1>1 DEF Ends, Task
<1>5. \A u \in DOMAIN tasks : tasks'[u].changes = tasks[u].changes
  BY <1>4
<1>6. Pending' = Pending \ {t}
  BY <1>3, <1>4 DEF Pending
<1>7. QED BY <1>3, <1>4, <1>5, <1>6 DEF QueueLoses

LEMMA PendingTasks ==
  ASSUME tasks \in Seq(Task)
  PROVE  /\ Len(tasks) \in Nat /\ Pending \subseteq 1 .. Len(tasks)
         /\ \A d : Writers(d) \subseteq Pending
BY TaskParts DEF Pending, Writers

(* A step that takes task t out of the queue leaves the documents alone    *)
(* that t is not for.                                                      *)
LEMMA TakenElsewhere ==
  ASSUME tasks \in Seq(Task), NEW t, QueueLoses(t), NEW d \in Docs, d \notin Touched(t),
         d \in Existing(docs') <=> d \in Existing(docs)
  PROVE  d \in Promised' <=> d \in Promised
<1>1. /\ \A u \in DOMAIN tasks : tasks'[u].changes = tasks[u].changes
      /\ Pending' = Pending \ {t} /\ Pending \subseteq DOMAIN tasks
  BY DEF QueueLoses, Pending
<1>2. \A u \in DOMAIN tasks : Touched(u)' = Touched(u)
  BY <1>1 DEF Touched
<1>3. Writers(d)' = Writers(d)
  BY <1>1, <1>2 DEF Writers
<1>4. CASE Writers(d) = {}
  BY <1>3, <1>4, PromisedOf, PromisedOfNext
<1>5. CASE Writers(d) # {}
  <2>1. Max(Writers(d)) \in DOMAIN tasks
    BY <1>1, <1>5, PendingTasks, MaxOf
  <2>2. tasks'[Max(Writers(d))].changes = tasks[Max(Writers(d))].changes
    BY <1>1, <2>1
  <2>3. QED BY <1>3, <1>5, <2>2, PromisedOf, PromisedOfNext
<1>6. QED BY <1>4, <1>5

(* The oldest task of the queue is applied: what was to be expected of the *)
(* documents stays so.                                                     *)
LEMMA TakenApplied ==
  ASSUME tasks \in Seq(Task), docs \in Contents, NEW t \in Pending, \A u \in Pending : t <= u,
         QueueLoses(t), docs' = After(docs, tasks[t].changes),
         NEW d \in Docs, d \in Touched(t)
  PROVE  d \in Promised' <=> d \in Promised
<1>1. /\ \A u \in DOMAIN tasks : tasks'[u].changes = tasks[u].changes
      /\ Pending' = Pending \ {t} /\ t \in DOMAIN tasks
      /\ Pending \subseteq DOMAIN tasks
  BY DEF QueueLoses, Pending
<1>2. \A u \in DOMAIN tasks : Touched(u)' = Touched(u)
  BY <1>1 DEF Touched
<1>3. Writers(d)' = Writers(d) \ {t} /\ t \in Writers(d)
  BY <1>1, <1>2 DEF Writers
<1>4. Writers(d) \subseteq 0 .. Len(tasks) /\ Len(tasks) \in Nat /\ Writers(d) \subseteq Pending
  BY PendingTasks
<1>5. Max(Writers(d)) \in Writers(d) /\ \A u \in Writers(d) : u <= Max(Writers(d))
  BY <1>3, <1>4, MaxOf
<1>6. CASE Writers(d)' = {}
  <2>1. Max(Writers(d)) = t
    BY <1>3, <1>5, <1>6
  <2>2. d \in Promised <=> Keeps(tasks[t].changes, d)
    BY <1>3, <2>1, PromisedOf
  <2>3. d \in Existing(docs') <=> Keeps(tasks[t].changes, d)
    <3>1. tasks[t].changes \in Seq(Change)
      BY <1>1, TaskParts
    <3>2. d \in {c.doc : c \in Range(tasks[t].changes)}
      BY DEF Touched
    <3>3. QED BY <3>1, <3>2, ExistsAfter
  <2>4. QED BY <1>6, <2>2, <2>3, PromisedOfNext
<1>7. CASE Writers(d)' # {}
  <2>1. PICK W : W = Writers(d)'
    OBVIOUS
  <2>2. Max(W) \in W /\ \A u \in W : u <= Max(W)
    <3>1. W \subseteq 0 .. Len(tasks) /\ W # {}
      BY <1>3, <1>4, <1>7, <2>1
    <3>2. QED BY <1>4, <3>1, MaxOf
  <2>3. Max(W) = Max(Writers(d))
    <3>1. PICK u \in W : TRUE
      BY <1>7, <2>1
    <3>2. u \in Writers(d) /\ u \in Pending /\ u # t /\ u \in Nat /\ t \in Nat
      BY <1>3, <1>4, <2>1, <3>1
    <3>3. t < u /\ u <= Max(Writers(d)) /\ Max(Writers(d)) \in Nat
      BY <1>4, <1>5, <3>2
    <3>4. Max(Writers(d)) \in W
      BY <1>3, <1>5, <2>1, <3>2, <3>3
    <3>5. Max(W) \in Writers(d) /\ Max(W) \in Nat
      BY <1>3, <1>4, <2>1, <2>2
    <3>6. Max(W) <= Max(Writers(d)) /\ Max(Writers(d)) <= Max(W)
      BY <1>5, <2>2, <3>4, <3>5
    <3>7. QED BY <3>3, <3>5, <3>6
  <2>4. tasks'[Max(W)].changes = tasks[Max(W)].changes
    BY <1>1, <1>3, <2>1, <2>2, <1>4
  <2>5. d \in Promised' <=> Keeps(tasks'[Max(W)].changes, d)
    BY <1>7, <2>1, PromisedOfNext
  <2>6. QED BY <1>3, <2>3, <2>4, <2>5, PromisedOf
<1>8. QED BY <1>6, <1>7

LEMMA ApplyKeeps ==
  ASSUME ServerTypeOK, Fifo, NEW t \in DOMAIN tasks, Apply(t)
  PROVE  /\ ServerTypeOK' /\ Fifo' /\ QueueLoses(t) /\ Unaltered({})
         /\ t \in Pending /\ \A u \in Pending : t <= u
<1>1. /\ tasks \in Seq(Task) /\ docs \in Contents
      /\ Ends(t, "succeeded") /\ docs' = After(docs, tasks[t].changes)
      /\ Pending # {} /\ t = Min(Pending)
      /\ UNCHANGED <<owned, faults, expected, disturbed>>
  BY DEF ServerTypeOK, Apply, Contents
<1>2. /\ tasks' \in Seq(Task) /\ QueueLoses(t)
      /\ \A u \in DOMAIN tasks : u # t => tasks'[u] = tasks[u]
  BY <1>1, EndedTask
<1>3. t \in Pending /\ \A u \in Pending : t <= u
  <2>1. Pending \subseteq Nat
    BY <1>1, PendingTasks
  <2>2. QED BY <1>1, <2>1, MinOf
<1>4. tasks[t].changes \in Seq(Change)
  BY <1>1, TaskParts
<1>5. docs' \in Contents
  BY <1>1, <1>4, AfterType
<1>6. ServerTypeOK'
  BY <1>1, <1>2, <1>5 DEF ServerTypeOK, Contents
<1>7. Fifo'
  <2>1. SUFFICES ASSUME NEW s \in DOMAIN tasks, NEW u \in DOMAIN tasks, u < s,
                        tasks'[s].status \in {"succeeded", "failed"}, u \in Pending \ {t}
                 PROVE  FALSE
    BY <1>2 DEF Fifo, QueueLoses
  <2>2. CASE s = t
    BY <1>1, <1>3, <2>1, <2>2, TaskParts
  <2>3. CASE s # t
    BY <1>2, <2>1, <2>3 DEF Fifo
  <2>4. QED BY <2>2, <2>3
<1>8. Unaltered({})
  <2>1. SUFFICES ASSUME NEW d \in Docs PROVE d \in Promised' <=> d \in Promised
    BY DEF Unaltered
  <2>2. CASE d \in Touched(t)
    BY <1>1, <1>2, <1>3, <2>2, TakenApplied
  <2>3. CASE d \notin Touched(t)
    <3>1. d \in Existing(docs') <=> d \in Existing(docs)
      BY <1>1, <1>4, <2>3, ExistsAfter DEF Touched
    <3>2. QED BY <1>1, <1>2, <2>3, <3>1, TakenElsewhere
  <2>4. QED BY <2>2, <2>3
<1>9. QED BY <1>2, <1>3, <1>6, <1>7, <1>8

LEMMA LoseKeeps ==
  ASSUME ServerTypeOK, Fifo, NEW t \in DOMAIN tasks, Lose(t)
  PROVE  ServerTypeOK' /\ Fifo' /\ QueueLoses(t) /\ Unaltered(Touched(t))
<1>1. PICK status \in {"failed", "unknown"} :
        Ends(t, status) /\ (status = "failed" => Pending # {} /\ t = Min(Pending))
  BY DEF Lose
<1>2. /\ tasks \in Seq(Task) /\ docs \in Contents
      /\ faults' \in 0 .. MaxFaults /\ disturbed' = disturbed \cup Touched(t)
      /\ UNCHANGED <<docs, owned, expected>>
  BY SharedIndexAssumption DEF ServerTypeOK, Lose, Mishap, Contents, SharedIndexAssumption
<1>3. /\ tasks' \in Seq(Task) /\ QueueLoses(t) /\ tasks'[t].status = status
      /\ \A u \in DOMAIN tasks : u # t => tasks'[u] = tasks[u]
  BY <1>1, <1>2, EndedTask
<1>4. Touched(t) \subseteq Docs
  BY <1>2, TaskParts, ChangeParts DEF Touched, Range
<1>5. ServerTypeOK'
  BY <1>2, <1>3, <1>4 DEF ServerTypeOK, Contents
<1>6. Fifo'
  <2>1. SUFFICES ASSUME NEW s \in DOMAIN tasks, NEW u \in DOMAIN tasks, u < s,
                        tasks'[s].status \in {"succeeded", "failed"}, u \in Pending \ {t}
                 PROVE  FALSE
    BY <1>3 DEF Fifo, QueueLoses
  <2>2. CASE s = t
    <3>1. Pending \subseteq Nat /\ t = Min(Pending)
      BY <1>1, <1>2, <1>3, <2>1, <2>2, PendingTasks
    <3>2. t <= u
      BY <2>1, <3>1, MinOf
    <3>3. QED BY <1>2, <2>1, <2>2, <3>2, TaskParts
  <2>3. CASE s # t
    BY <1>3, <2>1, <2>3 DEF Fifo
  <2>4. QED BY <2>2, <2>3
<1>7. Unaltered(Touched(t))
  <2>1. ASSUME NEW d \in Docs, d \notin Touched(t) PROVE d \in Promised' <=> d \in Promised
    BY <1>2, <1>3, <2>1, TakenElsewhere DEF Existing
  <2>2. QED BY <2>1 DEF Unaltered
<1>8. QED BY <1>3, <1>5, <1>6, <1>7

(* The queue grows by a task that makes these changes. *)
QueueGrows(changes) ==
  /\ Len(tasks') = Len(tasks) + 1
  /\ Pending' = Pending \cup {Len(tasks) + 1}
  /\ \A u \in DOMAIN tasks : tasks'[u] = tasks[u]
  /\ \A u \in {Len(tasks) + 1} : tasks'[u].changes = changes /\ tasks'[u].status = "enqueued"

LEMMA EnqueuedKeeps ==
  ASSUME ServerTypeOK, Fifo, NEW changes \in Seq(Change), Enqueued(changes),
         UNCHANGED docs, owned' \in 0 .. MaxOwner, faults' \in 0 .. MaxFaults,
         expected' \subseteq Docs, disturbed' \subseteq Docs
  PROVE  /\ ServerTypeOK' /\ Fifo' /\ QueueGrows(changes)
         /\ Unaltered({c.doc : c \in Range(changes)})
<1> DEFINE q == [changes |-> changes, status |-> "enqueued"]
<1>1. q \in Task /\ tasks \in Seq(Task) /\ tasks' = Append(tasks, q)
  BY DEF Task, ServerTypeOK, Enqueued
<1>2. q.changes = changes /\ q.status = "enqueued"
  OBVIOUS
<1> HIDE DEF q
<1>3. /\ Len(tasks) \in Nat /\ DOMAIN tasks = 1 .. Len(tasks)
      /\ tasks' \in Seq(Task) /\ Len(tasks') = Len(tasks) + 1
      /\ DOMAIN tasks' = 1 .. Len(tasks) + 1
      /\ \A u \in DOMAIN tasks : tasks'[u] = tasks[u]
      /\ tasks'[Len(tasks) + 1] = q
  BY <1>1, TaskParts
<1>4. ServerTypeOK'
  BY <1>3 DEF ServerTypeOK
<1>5. Pending' = Pending \cup {Len(tasks) + 1}
  BY <1>2, <1>3 DEF Pending
<1>6. QueueGrows(changes)
  BY <1>2, <1>3, <1>5 DEF QueueGrows
<1>7. Fifo'
  BY <1>2, <1>3, <1>5 DEF Fifo
<1>8. ASSUME NEW d \in Docs, d \notin {c.doc : c \in Range(changes)}
      PROVE  d \in Promised' <=> d \in Promised
  <2>1. \A u \in DOMAIN tasks : Touched(u)' = Touched(u)
    BY <1>3 DEF Touched
  <2>2. \A u \in {Len(tasks) + 1} : d \notin Touched(u)'
    BY <1>2, <1>3, <1>8 DEF Touched
  <2>3. Pending \subseteq DOMAIN tasks
    BY DEF Pending
  <2>4. Writers(d)' = Writers(d)
    BY <1>5, <2>1, <2>2, <2>3 DEF Writers
  <2>5. CASE Writers(d) = {}
    BY <2>4, <2>5, PromisedOf, PromisedOfNext
  <2>6. CASE Writers(d) # {}
    <3>1. Max(Writers(d)) \in DOMAIN tasks
      <4>1. Writers(d) \subseteq 0 .. Len(tasks) /\ Writers(d) \subseteq DOMAIN tasks
        BY <1>1, <2>3, PendingTasks
      <4>2. QED BY <1>3, <2>6, <4>1, MaxOf
    <3>2. tasks'[Max(Writers(d))].changes = tasks[Max(Writers(d))].changes
      BY <1>3, <3>1
    <3>3. QED BY <2>4, <2>6, <3>2, PromisedOf, PromisedOfNext
  <2>7. QED BY <2>5, <2>6
<1>9. QED BY <1>4, <1>6, <1>7, <1>8 DEF Unaltered

-----------------------------------------------------------------------------
(***************************************************************************)
(* The route.                                                              *)
(***************************************************************************)
CallInv == stream \in Seq(Docs) /\ TypeOK /\ next + Len(batch) <= Len(stream) + 1

(* What the queue makes of the documents is what was expected of them. *)
Expected == \A d \in Docs \ disturbed : d \in Promised <=> d \in expected

(* Until the look-up is done, what was enqueued since the queue was read   *)
(* is the owner's, and the look-up begins once the queue that was read has *)
(* been applied.                                                           *)
Awaited ==
  /\ phase \in {"await", "check"} =>
       /\ \A t \in Pending : awaited < t => Touched(t) \subseteq disturbed
       /\ Expected /\ found \cap unchecked = {}
  /\ phase = "await" => unchecked = Wanted
  /\ phase = "check" => \A t \in Pending : awaited < t

IInv == CallInv /\ Fifo /\ Awaited /\ CheckSeesQueue

(* What the messages of the call are for. *)
LEMMA WantedDocs == ASSUME CallInv PROVE Wanted \subseteq Docs /\ Range(batch) \subseteq DOMAIN stream
<1>1. /\ batch \in Seq(DOMAIN stream) /\ stream \in Seq(Docs)
      /\ DOMAIN stream = 1 .. Len(stream)
  BY LenProperties DEF CallInv, TypeOK
<1>2. Range(batch) \subseteq DOMAIN stream
  BY <1>1, ElementOfSeq, LenProperties DEF Range
<1>3. \A n \in DOMAIN stream : stream[n] \in Docs
  BY <1>1, ElementOfSeq
<1>4. QED BY <1>2, <1>3 DEF Wanted

(* What a call that is over leaves. *)
LEMMA ReturnedKeeps ==
  ASSUME CallInv, NEW outcome, Returned(outcome), ServerTypeOK'
  PROVE  CallInv' /\ Awaited' /\ CheckSeesQueue'
<1>1. /\ stream \in Seq(Docs) /\ Len(stream) \in Nat /\ Len(batch) \in Nat
      /\ next \in 1 .. Len(stream) + 1 /\ next + Len(batch) <= Len(stream) + 1
  BY LenProperties DEF CallInv, TypeOK
<1>2. /\ next' \in {next, next + Len(batch)} /\ phase' = "idle" /\ batch' = <<>>
      /\ awaited' = 0 /\ unchecked' = {} /\ found' = {} /\ body' = <<>> /\ requests' = <<>>
      /\ stream' = stream
  BY DEF Returned
<1>3. next' \in 1 .. Len(stream) + 1
  BY <1>1, <1>2
<1>4. tasks' \in Seq(Task) /\ Len(tasks') \in Nat
  BY LenProperties DEF ServerTypeOK
<1>5. Len(<<>>) = 0 /\ \A S : <<>> \in Seq(S)
  OBVIOUS
<1>6. CallInv'
  BY <1>1, <1>2, <1>3, <1>4, <1>5 DEF CallInv, TypeOK
<1>7. QED BY <1>2, <1>6 DEF Awaited, CheckSeesQueue

(* The route keeps a call while the server takes a step. *)
LEMMA ServerKeeps ==
  ASSUME CallInv, CheckSeesQueue, ServerTypeOK', Len(tasks) <= Len(tasks'),
         disturbed \subseteq disturbed', UNCHANGED <<stream, next, phase, call, expected>>
  PROVE  CallInv' /\ CheckSeesQueue'
<1>1. /\ Len(tasks) \in Nat /\ Len(tasks') \in Nat
      /\ DOMAIN tasks = 1 .. Len(tasks) /\ DOMAIN tasks' = 1 .. Len(tasks')
  BY LenProperties DEF CallInv, TypeOK, ServerTypeOK
<1>2. awaited' \in 0 .. Len(tasks') /\ requests' \in Seq(DOMAIN tasks')
  <2>1. \A k \in 1 .. Len(requests) : requests[k] \in DOMAIN tasks
    BY ElementOfSeq DEF CallInv, TypeOK
  <2>2. requests \in [1 .. Len(requests) -> DOMAIN tasks'] /\ Len(requests) \in Nat
    BY <1>1, <2>1, LenProperties DEF CallInv, TypeOK
  <2>3. requests \in Seq(DOMAIN tasks')
    BY <2>2, SeqDef
  <2>4. QED BY <1>1, <2>3 DEF CallInv, TypeOK, call
<1>3. CallInv'
  BY <1>2 DEF CallInv, TypeOK, call
<1>4. Wanted' = Wanted
  BY DEF Wanted, call
<1>5. CheckSeesQueue'
  BY <1>4 DEF CheckSeesQueue, call
<1>6. QED BY <1>3, <1>5

(* What is pending and was expected, as the queue is applied or lost. *)
LEMMA QueueKeeps ==
  ASSUME CallInv, Awaited, NEW t \in DOMAIN tasks, QueueLoses(t),
         Unaltered(disturbed'), disturbed \subseteq disturbed',
         UNCHANGED <<stream, next, phase, call, expected>>
  PROVE  Awaited'
<1>1. \A u \in Pending' : u \in Pending /\ u \in DOMAIN tasks /\ Touched(u)' = Touched(u)
  BY DEF QueueLoses, Pending, Touched
<1>2. Expected => Expected'
  BY DEF Unaltered, Expected
<1>3. Wanted' = Wanted
  BY DEF Wanted, call
<1>4. QED BY <1>1, <1>2, <1>3 DEF Awaited, call

LEMMA ApplyStep ==
  ASSUME IInv, ApplyTask
  PROVE  IInv'
<1>1. PICK t \in DOMAIN tasks : Apply(t) /\ UNCHANGED route
  BY DEF ApplyTask
<1>2. /\ CallInv /\ ServerTypeOK /\ Fifo /\ Awaited /\ CheckSeesQueue
      /\ Len(tasks) \in Nat
  BY LenProperties DEF IInv, CallInv, TypeOK, ServerTypeOK
<1>3. ServerTypeOK' /\ Fifo' /\ QueueLoses(t) /\ Unaltered({})
  BY <1>1, <1>2, ApplyKeeps
<1>4. UNCHANGED <<expected, disturbed>> /\ UNCHANGED <<stream, next, phase, call, expected>>
  BY <1>1 DEF Apply, route
<1>5. disturbed \subseteq disturbed' /\ Unaltered(disturbed') /\ Len(tasks) <= Len(tasks')
  BY <1>2, <1>3, <1>4 DEF Unaltered, QueueLoses
<1>6. CallInv' /\ CheckSeesQueue'
  BY <1>2, <1>3, <1>4, <1>5, ServerKeeps
<1>7. Awaited'
  BY <1>2, <1>3, <1>4, <1>5, QueueKeeps
<1>8. QED BY <1>3, <1>6, <1>7 DEF IInv

LEMMA LoseStep ==
  ASSUME IInv, LoseTask
  PROVE  IInv'
<1>1. PICK t \in DOMAIN tasks : Lose(t) /\ UNCHANGED route
  BY DEF LoseTask
<1>2. /\ CallInv /\ ServerTypeOK /\ Fifo /\ Awaited /\ CheckSeesQueue
      /\ Len(tasks) \in Nat
  BY LenProperties DEF IInv, CallInv, TypeOK, ServerTypeOK
<1>3. ServerTypeOK' /\ Fifo' /\ QueueLoses(t) /\ Unaltered(Touched(t))
  BY <1>1, <1>2, LoseKeeps
<1>4. /\ disturbed' = disturbed \cup Touched(t)
      /\ UNCHANGED <<stream, next, phase, call, expected>>
  BY <1>1 DEF Lose, route
<1>5. disturbed \subseteq disturbed' /\ Unaltered(disturbed') /\ Len(tasks) <= Len(tasks')
  BY <1>2, <1>3, <1>4 DEF Unaltered, QueueLoses
<1>6. CallInv' /\ CheckSeesQueue'
  BY <1>2, <1>3, <1>4, <1>5, ServerKeeps
<1>7. Awaited'
  BY <1>2, <1>3, <1>4, <1>5, QueueKeeps
<1>8. QED BY <1>3, <1>6, <1>7 DEF IInv

LEMMA OwnerStep ==
  ASSUME IInv, Owner
  PROVE  IInv'
<1>1. PICK d \in Docs, number \in {0, owned + 1} :
        /\ Enqueued(<<[doc |-> d, part |-> "owner", number |-> number]>>)
        /\ disturbed' = disturbed \cup {d}
  BY DEF Owner, OwnerWrites
<1>2. /\ CallInv /\ ServerTypeOK /\ Fifo /\ Awaited /\ CheckSeesQueue
      /\ tasks \in Seq(Task) /\ owned \in Nat /\ disturbed \subseteq Docs
  BY SharedIndexAssumption DEF IInv, CallInv, TypeOK, ServerTypeOK, SharedIndexAssumption
<1>3. /\ owned' \in 0 .. MaxOwner /\ faults' \in 0 .. MaxFaults
      /\ UNCHANGED docs /\ UNCHANGED expected /\ UNCHANGED <<stream, next, phase, call, expected>>
  BY <1>2, SharedIndexAssumption
     DEF Owner, OwnerWrites, route, ServerTypeOK, SharedIndexAssumption
<1>4. PICK changes \in Seq(Change) :
        Enqueued(changes) /\ {c.doc : c \in Range(changes)} = {d}
  <2> DEFINE c == [doc |-> d, part |-> "owner", number |-> number]
  <2>1. c \in Change
    BY <1>2 DEF Change, Parts
  <2>2. <<c>> \in Seq(Change) /\ Range(<<c>>) = {c} /\ c.doc = d
    BY <2>1 DEF Range
  <2>3. Enqueued(<<c>>)
    BY <1>1
  <2> HIDE DEF c
  <2>4. {x.doc : x \in Range(<<c>>)} = {d}
    BY <2>2
  <2>5. QED BY <2>2, <2>3, <2>4
<1>5. disturbed' \subseteq Docs
  BY <1>1, <1>2
<1>6. /\ ServerTypeOK' /\ Fifo' /\ QueueGrows(changes) /\ Unaltered({d})
  <2>1. /\ ServerTypeOK' /\ Fifo'
        /\ QueueGrows(changes)
        /\ Unaltered({c.doc : c \in Range(changes)})
    <3>1. expected' \subseteq Docs
      BY <1>2, <1>3 DEF ServerTypeOK
    <3>2. QED BY <1>2, <1>3, <1>4, <1>5, <3>1, EnqueuedKeeps
  <2>2. QED BY <1>4, <2>1
<1>7. disturbed \subseteq disturbed' /\ Unaltered(disturbed')
  BY <1>1, <1>6 DEF Unaltered
<1>8. CallInv' /\ CheckSeesQueue'
  <2>1. Len(tasks) <= Len(tasks')
    BY <1>2, <1>6, LenProperties DEF QueueGrows
  <2>2. QED BY <1>2, <1>3, <1>6, <1>7, <2>1, ServerKeeps
<1>9. Awaited'
  <2>1. Expected => Expected'
    BY <1>3, <1>7 DEF Unaltered, Expected
  <2>2. Wanted' = Wanted
    BY <1>3 DEF Wanted, call
  <2>3. Len(tasks) \in Nat /\ DOMAIN tasks = 1 .. Len(tasks)
    BY <1>2, LenProperties
  <2>4. awaited \in 0 .. Len(tasks) /\ awaited < Len(tasks) + 1
    BY <1>2, <2>3 DEF CallInv, TypeOK
  <2>5. \A t \in Pending' : t \in Pending \/ t = Len(tasks) + 1
    BY <1>6 DEF QueueGrows
  <2>6. \A t \in Pending : Touched(t)' = Touched(t)
    BY <1>6 DEF QueueGrows, Pending, Touched
  <2>7. \A t \in {Len(tasks) + 1} : Touched(t)' \subseteq disturbed'
    BY <1>1, <1>4, <1>6 DEF QueueGrows, Touched
  <2>8. QED
    BY <1>2, <1>3, <1>7, <2>1, <2>2, <2>4, <2>5, <2>6, <2>7 DEF Awaited, call
<1>10. QED BY <1>6, <1>8, <1>9 DEF IInv

(* A step of the route that leaves the server alone. *)
LEMMA PromisedStays == ASSUME UNCHANGED <<tasks, docs>> PROVE Promised' = Promised
BY DEF Promised, Writers, Pending, Touched, Existing

LEMMA FifoStays == ASSUME Fifo, UNCHANGED tasks PROVE Fifo'
BY DEF Fifo, Pending

LEMMA SendStep ==
  ASSUME IInv, SendBatch
  PROVE  IInv'
<1>1. /\ stream \in Seq(Docs) /\ Len(stream) \in Nat /\ DOMAIN stream = 1 .. Len(stream)
      /\ next \in 1 .. Len(stream) + 1 /\ CallInv /\ Fifo /\ phase = "idle"
      /\ UNCHANGED <<stream, next, awaited, unchecked, found, body, requests, server>>
      /\ phase' = "ask"
  BY LenProperties DEF IInv, CallInv, TypeOK, SendBatch
<1>2. PICK n \in next .. Min({next + BatchSize - 1, Len(stream)}) :
        batch' = [k \in 1 .. n - next + 1 |-> next + k - 1]
  BY DEF SendBatch
<1>3. n \in next .. Len(stream)
  <2> DEFINE S == {next + BatchSize - 1, Len(stream)}
  <2>1. S \subseteq Nat /\ S # {} /\ Len(stream) \in S
    BY <1>1, RouteAssumption DEF RouteAssumption
  <2>2. Min(S) <= Len(stream) /\ Min(S) \in Nat
    <3> HIDE DEF S
    <3>1. QED BY <2>1, MinOf
  <2>3. QED BY <1>1, <1>2, <2>2
<1>4. batch' \in Seq(DOMAIN stream) /\ Len(batch') = n - next + 1
  <2>1. n - next + 1 \in Nat
    BY <1>1, <1>3
  <2>2. batch' \in [1 .. n - next + 1 -> DOMAIN stream]
    BY <1>1, <1>2, <1>3
  <2>3. batch' \in Seq(DOMAIN stream)
    BY <2>1, <2>2, SeqDef
  <2>4. QED BY <2>1, <2>2, <2>3, LenProperties
<1>5. CallInv'
  <2>1. next' + Len(batch') <= Len(stream') + 1
    BY <1>1, <1>3, <1>4
  <2>2. QED BY <1>1, <1>4, <2>1 DEF CallInv, TypeOK, ServerTypeOK, server
<1>6. Fifo'
  BY <1>1, FifoStays DEF server
<1>7. QED BY <1>1, <1>5, <1>6 DEF IInv, Awaited, CheckSeesQueue

LEMMA AskStep ==
  ASSUME IInv, AskPending
  PROVE  IInv'
<1>1. /\ CallInv /\ Fifo /\ tasks \in Seq(Task) /\ Len(tasks) \in Nat
      /\ DOMAIN tasks = 1 .. Len(tasks)
      /\ UNCHANGED <<stream, next, batch, body, requests, tasks, docs, owned, faults>>
      /\ awaited' = LatestPending
      /\ phase' = IF awaited' = 0 THEN "check" ELSE "await"
      /\ unchecked' = Wanted /\ found' = {} /\ expected' = Promised
      /\ disturbed' = {}
  BY LenProperties DEF IInv, CallInv, TypeOK, ServerTypeOK, AskPending
<1>2. /\ awaited' \in 0 .. Len(tasks) /\ \A t \in Pending : t <= awaited'
      /\ awaited' = 0 => Pending = {}
  <2>1. Pending \subseteq 0 .. Len(tasks) /\ 0 \notin Pending
    BY <1>1 DEF Pending
  <2>2. CASE Pending = {}
    BY <1>1, <2>2 DEF LatestPending
  <2>3. CASE Pending # {}
    <3>1. Max(Pending) \in Pending /\ \A t \in Pending : t <= Max(Pending)
      BY <1>1, <2>1, <2>3, MaxOf
    <3>2. awaited' = Max(Pending)
      BY <1>1, <2>3 DEF LatestPending
    <3>3. QED BY <2>1, <3>1, <3>2
  <2>4. QED BY <2>2, <2>3
<1>3. CallInv'
  <2>1. Wanted \subseteq Docs /\ Promised \subseteq Docs
    BY <1>1, WantedDocs DEF Promised
  <2>2. QED BY <1>1, <1>2, <2>1 DEF CallInv, TypeOK, ServerTypeOK
<1>4. Fifo' /\ Pending' = Pending
  BY <1>1, FifoStays DEF Pending
<1>5. Promised' = Promised /\ Wanted' = Wanted
  BY <1>1, PromisedStays DEF Wanted
<1>6. Expected'
  BY <1>1, <1>5 DEF Expected
<1>7. \A t \in Pending' : ~(awaited' < t)
  BY <1>1, <1>2, <1>4 DEF Pending
<1>8. Awaited'
  BY <1>1, <1>2, <1>4, <1>5, <1>6, <1>7 DEF Awaited
<1>9. CheckSeesQueue'
  BY <1>1, <1>5 DEF CheckSeesQueue
<1>10. QED BY <1>3, <1>4, <1>8, <1>9 DEF IInv

LEMMA AwaitStep ==
  ASSUME IInv, AwaitQueued
  PROVE  IInv'
<1>1. /\ CallInv /\ Fifo /\ Awaited /\ phase = "await" /\ phase' = "check"
      /\ UNCHANGED <<stream, next, call, server>> /\ QueueApplied(awaited)
      /\ tasks \in Seq(Task) /\ Len(tasks) \in Nat /\ DOMAIN tasks = 1 .. Len(tasks)
      /\ awaited \in 0 .. Len(tasks)
  BY LenProperties DEF IInv, CallInv, TypeOK, ServerTypeOK, AwaitQueued
<1>2. CallInv'
  BY <1>1 DEF CallInv, TypeOK, ServerTypeOK, call, server
<1>3. Fifo' /\ Pending' = Pending /\ Promised' = Promised /\ Wanted' = Wanted
  BY <1>1, FifoStays, PromisedStays DEF Pending, server, Wanted, call
<1>4. \A t \in Pending : awaited < t
  <2>1. awaited \in DOMAIN tasks /\ tasks[awaited].status \in {"succeeded", "failed"}
    BY <1>1 DEF QueueApplied
  <2>2. \A t \in Pending : t \in DOMAIN tasks /\ tasks[t].status = "enqueued"
    BY DEF Pending
  <2>3. \A t \in Pending : ~(t < awaited) /\ t # awaited
    BY <1>1, <2>1, <2>2 DEF Fifo
  <2>4. QED BY <1>1, <2>1, <2>2, <2>3
<1>5. Expected' /\ \A t : Touched(t)' = Touched(t)
  BY <1>1, <1>3 DEF Awaited, Expected, server, Touched
<1>6. Awaited'
  BY <1>1, <1>3, <1>4, <1>5 DEF Awaited, call, server
<1>7. CheckSeesQueue'
  BY <1>1, <1>3 DEF CheckSeesQueue, Awaited, call
<1>8. QED BY <1>2, <1>3, <1>6, <1>7 DEF IInv

LEMMA CheckStep ==
  ASSUME IInv, CheckExisting
  PROVE  IInv'
<1>1. /\ CallInv /\ Fifo /\ Awaited /\ CheckSeesQueue /\ phase = "check"
      /\ UNCHANGED <<stream, next, phase, batch, awaited, body, requests, server>>
      /\ tasks \in Seq(Task) /\ docs \in Contents /\ unchecked \subseteq Docs /\ found \subseteq Docs
  BY DEF IInv, CallInv, TypeOK, ServerTypeOK, CheckExisting, Contents
<1>2. PICK chunk \in SUBSET unchecked :
        found' = found \cup (chunk \cap Existing(docs)) /\ unchecked' = unchecked \ chunk
  BY DEF CheckExisting, kSubset
<1>3. CallInv'
  BY <1>1, <1>2 DEF CallInv, TypeOK, ServerTypeOK, server
<1>4. Fifo' /\ Pending' = Pending /\ Promised' = Promised /\ Wanted' = Wanted
  BY <1>1, FifoStays, PromisedStays DEF Pending, server, Wanted
<1>5. Expected' /\ \A t : Touched(t)' = Touched(t)
  BY <1>1, <1>4 DEF Awaited, Expected, server, Touched
<1>6. Awaited'
  BY <1>1, <1>2, <1>4, <1>5 DEF Awaited, server
<1>7. \A d \in Docs \ disturbed : d \in Existing(docs) <=> d \in expected
  <2>1. ASSUME NEW d \in Docs, d \notin disturbed
        PROVE  d \in Promised <=> d \in Existing(docs)
    <3>1. Writers(d) = {}
      BY <1>1, <2>1 DEF Awaited, Writers
    <3>2. QED BY <3>1, PromisedOf
  <2>2. QED BY <1>1, <2>1 DEF Awaited, Expected
<1>8. CheckSeesQueue'
  <2>1. SUFFICES ASSUME NEW d \in Wanted, d \notin unchecked', d \notin disturbed
                 PROVE  d \in found' <=> d \in expected
    BY <1>1, <1>4 DEF CheckSeesQueue, server
  <2>2. d \in Docs
    BY <1>1, WantedDocs
  <2>3. CASE d \in unchecked
    <3>1. d \in chunk /\ d \notin found
      BY <1>1, <1>2, <2>1, <2>3 DEF Awaited
    <3>2. QED BY <1>2, <1>7, <2>1, <2>2, <3>1
  <2>4. CASE d \notin unchecked
    BY <1>1, <1>2, <2>1, <2>4 DEF CheckSeesQueue
  <2>5. QED BY <2>3, <2>4
<1>9. QED BY <1>3, <1>4, <1>6, <1>8 DEF IInv

LEMMA KeepStep ==
  ASSUME IInv, KeepExisting
  PROVE  IInv'
<1>1. /\ CallInv /\ Fifo /\ CheckSeesQueue /\ phase = "check"
      /\ UNCHANGED <<stream, next, batch, awaited, unchecked, found, requests, server>>
      /\ phase' \in {"confirm", "write"} /\ Len(stream) \in Nat
      /\ DOMAIN stream = 1 .. Len(stream)
  BY LenProperties DEF IInv, CallInv, TypeOK, KeepExisting
<1>2. body' \in Seq(DOMAIN stream)
  <2> DEFINE S == {n \in Range(batch) : stream[n] \in found}
  <2>1. S \subseteq 1 .. Len(stream)
    BY <1>1, WantedDocs
  <2>2. IsFiniteSet(1 .. Len(stream))
    BY <1>1, FS_Interval
  <2>3. Cardinality(S) \in Nat
    <3> HIDE DEF S
    <3>1. QED BY <2>1, <2>2, FS_Subset, FS_CardinalityType
  <2>4. body' \in [1 .. Cardinality(S) -> S]
    BY DEF KeepExisting, InOrder
  <2> HIDE DEF S
  <2>5. body' \in [1 .. Cardinality(S) -> 1 .. Len(stream)]
    BY <2>1, <2>4, Zenon
  <2>6. QED BY <1>1, <2>3, <2>5, SeqDef
<1>3. CallInv'
  BY <1>1, <1>2 DEF CallInv, TypeOK, ServerTypeOK, server
<1>4. Fifo' /\ Wanted' = Wanted
  BY <1>1, FifoStays DEF server, Wanted
<1>5. Awaited'
  BY <1>1 DEF Awaited
<1>6. CheckSeesQueue'
  BY <1>1, <1>4 DEF CheckSeesQueue, server
<1>7. QED BY <1>3, <1>4, <1>5, <1>6 DEF IInv

(* What a request carries are messages of the call. *)
LEMMA AdditionsType ==
  ASSUME CallInv, NEW k \in 1 .. Len(body)
  PROVE  Additions(k) \in Seq(Change)
<1>1. /\ body \in Seq(DOMAIN stream) /\ stream \in Seq(Docs) /\ Len(body) \in Nat
      /\ DOMAIN stream = 1 .. Len(stream) /\ Len(stream) \in Nat
  BY LenProperties DEF CallInv, TypeOK
<1>2. \A j \in 1 .. k : body[j] \in DOMAIN stream /\ body[j] \in Nat /\ stream[body[j]] \in Docs
  <2>1. ASSUME NEW j \in 1 .. k
        PROVE  body[j] \in DOMAIN stream /\ body[j] \in Nat /\ stream[body[j]] \in Docs
    <3>1. j \in 1 .. Len(body)
      BY <1>1
    <3>2. body[j] \in DOMAIN stream
      BY <1>1, <3>1, ElementOfSeq
    <3>3. QED BY <1>1, <3>2, ElementOfSeq
  <2>2. QED BY <2>1
<1>3. \A j \in 1 .. k : [doc |-> stream[body[j]], part |-> "added", number |-> body[j]] \in Change
  BY <1>2 DEF Change, Parts
<1>4. Additions(k) \in [1 .. k -> Change] /\ k \in Nat
  BY <1>1, <1>3 DEF Additions
<1>5. QED BY <1>4, SeqDef

LEMMA WriteStep ==
  ASSUME IInv, WriteDocuments
  PROVE  IInv'
<1>1. PICK k \in 1 .. Len(body) :
        /\ Enqueued(Additions(k)) /\ body' = SubSeq(body, k + 1, Len(body))
        /\ phase' = IF k = Len(body) THEN "confirm" ELSE "write"
  BY DEF WriteDocuments
<1>2. /\ CallInv /\ ServerTypeOK /\ Fifo /\ CheckSeesQueue /\ phase = "write"
      /\ requests' = Append(requests, Len(tasks'))
      /\ UNCHANGED <<stream, next, batch, awaited, unchecked, found, docs, owned, faults,
                     expected, disturbed>>
      /\ owned' \in 0 .. MaxOwner /\ faults' \in 0 .. MaxFaults /\ disturbed' \subseteq Docs
  BY DEF IInv, CallInv, TypeOK, ServerTypeOK, WriteDocuments
<1>3. ServerTypeOK' /\ Fifo' /\ QueueGrows(Additions(k))
  <2>1. expected' \subseteq Docs
    BY <1>2 DEF ServerTypeOK
  <2>2. QED BY <1>1, <1>2, <2>1, AdditionsType, EnqueuedKeeps
<1>4. /\ Len(tasks) \in Nat /\ Len(tasks') = Len(tasks) + 1
      /\ DOMAIN tasks = 1 .. Len(tasks) /\ DOMAIN tasks' = 1 .. Len(tasks) + 1
  BY <1>2, <1>3, LenProperties DEF ServerTypeOK, QueueGrows
<1>5. requests' \in Seq(DOMAIN tasks')
  <2>1. requests \in Seq(DOMAIN tasks)
    BY <1>2 DEF CallInv, TypeOK
  <2>2. \A j \in 1 .. Len(requests) : requests[j] \in DOMAIN tasks'
    BY <1>4, <2>1, ElementOfSeq
  <2>3. requests \in [1 .. Len(requests) -> DOMAIN tasks'] /\ Len(requests) \in Nat
    BY <2>1, <2>2, LenProperties
  <2>4. requests \in Seq(DOMAIN tasks') /\ Len(tasks') \in DOMAIN tasks'
    BY <1>4, <2>3, SeqDef
  <2>5. QED BY <1>2, <2>4, AppendProperties
<1>6. body' \in Seq(DOMAIN stream)
  <2>1. body \in Seq(DOMAIN stream) /\ Len(body) \in Nat
    BY <1>2, LenProperties DEF CallInv, TypeOK
  <2>2. \A j \in k + 1 .. Len(body) : body[j] \in DOMAIN stream
    BY <2>1, ElementOfSeq
  <2>3. QED BY <1>1, <2>1, <2>2, SubSeqProperties
<1>7. CallInv'
  <2>1. awaited' \in 0 .. Len(tasks')
    BY <1>2, <1>4 DEF CallInv, TypeOK
  <2>2. /\ phase' \in {"idle", "ask", "await", "check", "write", "confirm"}
        /\ batch' \in Seq(DOMAIN stream') /\ body' \in Seq(DOMAIN stream')
        /\ next' \in 1 .. Len(stream') + 1
        /\ stream' \in Seq(Docs) /\ next' + Len(batch') <= Len(stream') + 1
        /\ unchecked' \subseteq Docs /\ found' \subseteq Docs
    BY <1>1, <1>2, <1>6 DEF CallInv, TypeOK
  <2>3. QED BY <1>3, <1>5, <2>1, <2>2 DEF CallInv, TypeOK
<1>8. Awaited'
  BY <1>1 DEF Awaited
<1>9. CheckSeesQueue'
  BY <1>1, <1>2 DEF CheckSeesQueue, Wanted
<1>10. QED BY <1>3, <1>7, <1>8, <1>9 DEF IInv

(* A call that is over, however it ended. *)
LEMMA ReturnStep ==
  ASSUME IInv, Confirm \/ QueuedTaskLost \/ Refused \/ ReplyLost \/ Crash
  PROVE  IInv'
<1>1. /\ CallInv /\ ServerTypeOK /\ Fifo
      /\ docs' = docs /\ UNCHANGED <<owned, expected, disturbed>>
      /\ \E outcome : Returned(outcome)
  BY DEF IInv, CallInv, TypeOK, Confirm, QueuedTaskLost, Refused, ReplyLost, Crash, server
<1>2. faults' \in 0 .. MaxFaults
  BY <1>1, SharedIndexAssumption
     DEF Confirm, QueuedTaskLost, Refused, ReplyLost, Crash, server, Mishap, ServerTypeOK,
         SharedIndexAssumption
<1>3. ServerTypeOK' /\ Fifo'
  <2>1. CASE UNCHANGED tasks
    BY <1>1, <1>2, <2>1, FifoStays DEF ServerTypeOK
  <2>2. CASE ReplyLost
    <3>1. PICK k \in 1 .. Len(body) : Enqueued(Additions(k))
      BY <2>2 DEF ReplyLost
    <3>2. owned' \in 0 .. MaxOwner /\ expected' \subseteq Docs /\ disturbed' \subseteq Docs
      BY <1>1 DEF ServerTypeOK
    <3>3. QED BY <1>1, <1>2, <3>1, <3>2, AdditionsType, EnqueuedKeeps
  <2>3. QED BY <2>1, <2>2 DEF Confirm, QueuedTaskLost, Refused, Crash, server
<1>4. QED BY <1>1, <1>3, ReturnedKeeps DEF IInv

LEMMA IdleStep ==
  ASSUME IInv, UNCHANGED vars
  PROVE  IInv'
<1>1. UNCHANGED <<stream, next, phase, call, server>>
  BY DEF vars
<1>2. Fifo' /\ Pending' = Pending /\ Promised' = Promised /\ Wanted' = Wanted
  BY <1>1, FifoStays, PromisedStays DEF IInv, Pending, server, Wanted, call
<1>3. CallInv'
  BY <1>1 DEF IInv, CallInv, TypeOK, ServerTypeOK, call, server
<1>4. (Expected => Expected') /\ \A t : Touched(t)' = Touched(t)
  BY <1>1, <1>2 DEF Expected, server, Touched
<1>5. Awaited' /\ CheckSeesQueue'
  BY <1>1, <1>2, <1>4 DEF IInv, Awaited, CheckSeesQueue, call, server
<1>6. QED BY <1>2, <1>3, <1>5 DEF IInv

(* The inductive invariant: what the route knows of the queue. *)
THEOREM RouteInvariant == Spec => []IInv
<1>1. Init => IInv
  <2>1. SUFFICES ASSUME Init PROVE IInv
    OBVIOUS
  <2>2. stream \in Seq(Docs) /\ tasks = <<>>
    BY <2>1, RouteAssumption DEF Init, RouteAssumption
  <2>3. /\ stream \in Seq(Docs) /\ Len(stream) \in Nat /\ tasks = <<>> /\ Len(tasks) = 0
        /\ \A S : <<>> \in Seq(S)
    BY <2>2
  <2>4. docs \in [Docs -> [Parts -> Nat]]
    BY <2>1 DEF Init, Gone
  <2>5. CallInv
    BY <2>1, <2>3, <2>4, SharedIndexAssumption
       DEF Init, CallInv, TypeOK, ServerTypeOK, SharedIndexAssumption
  <2>6. Fifo /\ Awaited /\ CheckSeesQueue
    BY <2>1 DEF Init, Fifo, Awaited, CheckSeesQueue
  <2>7. QED BY <2>5, <2>6 DEF IInv
<1>2. IInv /\ [Next]_vars => IInv'
  BY SendStep, AskStep, AwaitStep, CheckStep, KeepStep, WriteStep, ReturnStep,
     ApplyStep, LoseStep, OwnerStep, IdleStep
  DEF Next, Step
<1>3. QED BY <1>1, <1>2, PTL DEF Spec

(* Every variable keeps its type: in particular what is sent is taken from *)
(* the messages of the call, and what is waited for was enqueued.          *)
THEOREM TypeCorrect == Spec => []TypeOK
<1>1. IInv => TypeOK
  BY DEF IInv, CallInv
<1>2. QED BY <1>1, RouteInvariant, PTL

(* The look-up of update_existing sees what the queue makes of the         *)
(* documents, unless the owner has written since or a task was lost        *)
(* (await_queued_writes, keep_existing): for any number of documents,      *)
(* messages, chunks, mishaps and writes of the owner.                      *)
THEOREM CheckSeesQueueHolds == Spec => []CheckSeesQueue
<1>1. IInv => CheckSeesQueue
  BY DEF IInv
<1>2. QED BY <1>1, RouteInvariant, PTL

=============================================================================
