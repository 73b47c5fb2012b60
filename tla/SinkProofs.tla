---------------------------- MODULE SinkProofs -----------------------------
(***************************************************************************)
(* Proofs about the publisher and the route around it, for every set of    *)
(* documents and indexes, every endpoint and stream, batches of any size   *)
(* and any number of mishaps.                                              *)
(*                                                                         *)
(* First what the steps of send_batch keep true of the call, and what the  *)
(* route makes of its verdicts.  Nothing is assumed there of the mishaps:  *)
(* requests may arrive late, the server be restored.                       *)
(*                                                                         *)
(* Then what a report of the publisher is worth: that a message reported   *)
(* as delivered was taken over by Meilisearch, that no document comes      *)
(* before the settings of its index, and that a confirmed write survives.  *)
(* They hold as long as the server is not restored from a snapshot; the    *)
(* last ones also need that no request arrives late, after the publisher   *)
(* gave up on it.  So does the refinement: SinkRoute implements            *)
(* DocumentSink, to which SinkPromise maps it.                             *)
(***************************************************************************)
EXTENDS SinkPromise, SettlingProofs

(* The messages of the call. *)
Messages == [i \in DOMAIN batch |-> stream[batch[i]]]

(* Between calls nothing of a call is left. *)
Quiet == /\ batch = <<>> /\ plan = EmptyPlan /\ body = <<>> /\ requests = <<>>
         /\ issued = <<>> /\ unissued = "none" /\ waited = "none" /\ outcomes = <<>>

(* The first k messages of the current run have been sent. *)
SentOfRun(k) ==
  body = SubSeq(CurrentRun.positions, k + 1, Len(CurrentRun.positions))

(* Where the call is: its plan is that of its messages; one run after the  *)
(* other is issued, until one cannot be; then they are confirmed, none of  *)
(* them behind a failed segment.                                           *)
Control ==
  /\ phase \in {"start", "idle"} => Quiet
  /\ phase \in {"issue", "confirm"} =>
       plan = PlanOf(Messages) /\ Len(issued) <= Len(plan.runs)
  /\ phase = "issue" =>
       /\ Len(issued) < Len(plan.runs) /\ unissued = "none"
       /\ waited = "none" /\ outcomes = <<>>
       /\ \E k \in 0 .. Len(CurrentRun.positions) - 1 : SentOfRun(k)
  /\ phase = "confirm" =>
       prep = "none" /\ ((unissued = "none") <=> (Len(issued) = Len(plan.runs)))
  /\ phase = "start" => ~Routed /\ config.createIndex
  /\ prep # "none" => Unprepared
  /\ Len(outcomes) <= Len(issued)
  /\ \A r \in DOMAIN outcomes : ~Behind(plan, outcomes, r)
  /\ waited # "none" => config.waitForTask /\ Confirming

CallInv == stream \in Seq(Message) /\ TypeOK /\ Control

-----------------------------------------------------------------------------
(***************************************************************************)
(* What the steps of Meilisearch do to its state.                          *)
(***************************************************************************)
LEMMA TaskParts ==
  ASSUME ServerTypeOK, NEW t \in DOMAIN tasks
  PROVE  /\ DOMAIN tasks = 1 .. Len(tasks) /\ Len(tasks) \in Nat /\ t \in Nat
         /\ tasks[t] \in Task /\ tasks[t].index \in Indexes
         /\ tasks[t].kind \in {"create", "settings", "write"}
         /\ tasks[t].writes \in Seq(Entry)
         /\ tasks[t].status \in {"enqueued", "succeeded", "failed", "exists", "unknown"}
<1>1. tasks \in Seq(Task)
  BY DEF ServerTypeOK
<1>2. tasks[t] \in Task /\ DOMAIN tasks = 1 .. Len(tasks) /\ Len(tasks) \in Nat /\ t \in Nat
  BY <1>1
<1>3. QED BY <1>2 DEF Task

(* The next tasks are enqueued, and none of their index is before them. *)
LEMMA NextTaskParts ==
  ASSUME ServerTypeOK, NEW t \in NextTasks
  PROVE  /\ t \in DOMAIN tasks /\ tasks[t].status = "enqueued"
         /\ \A u \in DOMAIN tasks :
              tasks[u].index = tasks[t].index /\ tasks[u].status = "enqueued" => t <= u
<1>1. PICK i \in Indexes : Waiting(i) # {} /\ t = Min(Waiting(i))
  BY DEF NextTasks
<1>2. Waiting(i) \subseteq Nat
  BY TaskParts DEF Waiting
<1>3. t \in Waiting(i) /\ \A u \in Waiting(i) : t <= u
  BY <1>1, <1>2, MinOf
<1>4. QED BY <1>3 DEF Waiting

LEMMA EnqueuedTypes ==
  ASSUME ServerTypeOK, NEW index \in Indexes,
         NEW kind \in {"create", "settings", "write"}, NEW writes \in Seq(Entry),
         Enqueued(index, kind, writes)
  PROVE  /\ tasks' \in Seq(Task) /\ Len(tasks') = Len(tasks) + 1
         /\ docs' = docs /\ indexes' = indexes /\ late' = late
<1>1. NewTask(index, kind, writes) \in Task
  BY DEF NewTask, Task
<1>2. tasks \in Seq(Task) /\ tasks' = Append(tasks, NewTask(index, kind, writes))
  BY DEF ServerTypeOK, Enqueued
<1> HIDE DEF Enqueued
<1>3. tasks' \in Seq(Task) /\ Len(tasks') = Len(tasks) + 1
  BY <1>1, <1>2
<1>4. QED BY <1>3 DEF Enqueued

(* The end of a task changes its status and nothing else of it. *)
LEMMA EndsTypes ==
  ASSUME ServerTypeOK, NEW t \in DOMAIN tasks,
         NEW status \in {"succeeded", "failed", "exists", "unknown"}, Ends(t, status)
  PROVE  /\ tasks' \in Seq(Task) /\ DOMAIN tasks' = DOMAIN tasks /\ Len(tasks') = Len(tasks)
         /\ tasks'[t].status = status
         /\ \A u \in DOMAIN tasks :
              /\ tasks'[u].index = tasks[u].index /\ tasks'[u].kind = tasks[u].kind
              /\ tasks'[u].writes = tasks[u].writes
              /\ u # t => tasks'[u] = tasks[u]
<1>1. tasks \in Seq(Task) /\ tasks' = [tasks EXCEPT ![t] = [tasks[t] EXCEPT !.status = status]]
  BY DEF ServerTypeOK, Ends
<1>2. tasks[t] \in Task
  BY <1>1
<1>3. [tasks[t] EXCEPT !.status = status] \in Task
  BY <1>2 DEF Task
<1>4. /\ [tasks[t] EXCEPT !.status = status].status = status
      /\ [tasks[t] EXCEPT !.status = status].index = tasks[t].index
      /\ [tasks[t] EXCEPT !.status = status].kind = tasks[t].kind
      /\ [tasks[t] EXCEPT !.status = status].writes = tasks[t].writes
  BY <1>2 DEF Task
<1> HIDE DEF Ends
<1> DEFINE x == [tasks[t] EXCEPT !.status = status]
<1> HIDE DEF x
<1>5. tasks' = [tasks EXCEPT ![t] = x]
  BY <1>1 DEF x
<1>6. x \in Task
  BY <1>3 DEF x
<1>7. tasks' \in Seq(Task) /\ DOMAIN tasks' = DOMAIN tasks /\ Len(tasks') = Len(tasks)
  BY <1>1, <1>5, <1>6
<1>8. tasks'[t] = x /\ \A u \in DOMAIN tasks : u # t => tasks'[u] = tasks[u]
  BY <1>1, <1>5
<1>9. tasks'[t].status = status /\ tasks'[t].index = tasks[t].index
      /\ tasks'[t].kind = tasks[t].kind /\ tasks'[t].writes = tasks[t].writes
  BY <1>4, <1>8 DEF x
<1>10. QED BY <1>7, <1>8, <1>9

(* A write stores, for each document it names, one of its entries for it.  *)
LEMMA StoredEntry ==
  ASSUME NEW old \in [Docs -> Nat], NEW writes \in Seq(Entry), NEW d \in Docs
  PROVE  /\ Stored(old, writes) \in [Docs -> Nat]
         /\ \/ /\ Stored(old, writes)[d] = old[d]
               /\ \A k \in DOMAIN writes : writes[k].doc # d
            \/ \E k \in DOMAIN writes :
                 /\ writes[k].doc = d /\ Stored(old, writes)[d] = writes[k].number
                 /\ \A l \in DOMAIN writes : writes[l].doc = d => l <= k
<1> DEFINE at(e) == {k \in DOMAIN writes : writes[k].doc = e}
<1>1. ASSUME NEW e \in Docs, at(e) # {}
      PROVE  Max(at(e)) \in at(e) /\ \A l \in at(e) : l <= Max(at(e))
  <2>1. at(e) \subseteq 0 .. Len(writes) /\ Len(writes) \in Nat
    OBVIOUS
  <2> HIDE DEF at
  <2>2. QED BY <1>1, <2>1, MaxOf
<1>2. Stored(old, writes) =
        [e \in Docs |-> IF at(e) = {} THEN old[e] ELSE writes[Max(at(e))].number]
  BY DEF Stored
<1>3. \A k \in DOMAIN writes : writes[k].number \in Nat
  <2>1. \A k \in DOMAIN writes : writes[k] \in Entry
    OBVIOUS
  <2>2. QED BY <2>1 DEF Entry
<1>4. ASSUME NEW e \in Docs
      PROVE  (IF at(e) = {} THEN old[e] ELSE writes[Max(at(e))].number) \in Nat
  <2>1. \A k \in at(e) : k \in DOMAIN writes
    OBVIOUS
  <2> HIDE DEF at
  <2>2. QED BY <1>1, <1>3, <2>1
<1>5. Stored(old, writes) \in [Docs -> Nat]
  <2> HIDE DEF at
  <2>1. QED BY <1>2, <1>4
<1>6. Stored(old, writes)[d] = IF at(d) = {} THEN old[d] ELSE writes[Max(at(d))].number
  <2> HIDE DEF at
  <2>1. QED BY <1>2
<1>7. CASE at(d) = {}
  <2>1. \A k \in DOMAIN writes : writes[k].doc # d
    BY <1>7
  <2> HIDE DEF at
  <2>2. Stored(old, writes)[d] = old[d]
    BY <1>6, <1>7
  <2>3. QED BY <1>5, <2>1, <2>2
<1>8. CASE at(d) # {}
  <2>1. PICK k \in at(d) : Stored(old, writes)[d] = writes[k].number /\ \A l \in at(d) : l <= k
    <3> HIDE DEF at
    <3>1. QED BY <1>1, <1>6, <1>8
  <2>2. /\ k \in DOMAIN writes /\ writes[k].doc = d
        /\ \A l \in DOMAIN writes : writes[l].doc = d => l <= k
    BY <2>1
  <2>3. QED BY <1>5, <2>1, <2>2
<1>9. QED BY <1>7, <1>8

(* What a task becomes when it is applied.  *)
LEMMA AppliedTypes ==
  ASSUME ServerTypeOK, ApplyTask
  PROVE  /\ ServerTypeOK' /\ late' = late /\ faults' = faults
         /\ DOMAIN tasks' = DOMAIN tasks /\ Len(tasks') = Len(tasks)
         /\ \E t \in NextTasks :
              /\ t \in DOMAIN tasks
              /\ tasks'[t].status = IF tasks[t].kind = "create" /\ indexes[tasks[t].index] # "absent"
                                    THEN "exists" ELSE "succeeded"
              /\ \A u \in DOMAIN tasks :
                   /\ tasks'[u].index = tasks[u].index /\ tasks'[u].kind = tasks[u].kind
                   /\ tasks'[u].writes = tasks[u].writes
                   /\ u # t => tasks'[u] = tasks[u]
              /\ docs' = IF tasks[t].kind = "write"
                         THEN [docs EXCEPT ![tasks[t].index] = Stored(@, tasks[t].writes)]
                         ELSE docs
              /\ indexes' = [indexes EXCEPT ![tasks[t].index] =
                               IF tasks[t].kind = "settings" THEN "configured"
                               ELSE IF @ = "absent" THEN "created" ELSE @]
<1>1. PICK t \in NextTasks : ApplyCreate(t) \/ ApplySettings(t) \/ ApplyWrite(t)
  BY DEF ApplyTask
<1>2. t \in DOMAIN tasks /\ tasks[t].index \in Indexes /\ tasks[t].writes \in Seq(Entry)
  BY NextTaskParts, TaskParts
<1>3. PICK status \in {"succeeded", "exists"} :
        /\ Ends(t, status)
        /\ status = IF tasks[t].kind = "create" /\ indexes[tasks[t].index] # "absent"
                    THEN "exists" ELSE "succeeded"
  BY <1>1 DEF ApplyCreate, ApplySettings, ApplyWrite
<1>4. /\ tasks' \in Seq(Task) /\ DOMAIN tasks' = DOMAIN tasks /\ Len(tasks') = Len(tasks)
      /\ tasks'[t].status = status
      /\ \A u \in DOMAIN tasks :
           /\ tasks'[u].index = tasks[u].index /\ tasks'[u].kind = tasks[u].kind
           /\ tasks'[u].writes = tasks[u].writes
           /\ u # t => tasks'[u] = tasks[u]
  BY <1>2, <1>3, EndsTypes
<1>5. /\ docs' = IF tasks[t].kind = "write"
                 THEN [docs EXCEPT ![tasks[t].index] = Stored(@, tasks[t].writes)]
                 ELSE docs
      /\ indexes' = [indexes EXCEPT ![tasks[t].index] =
                       IF tasks[t].kind = "settings" THEN "configured"
                       ELSE IF @ = "absent" THEN "created" ELSE @]
      /\ late' = late /\ faults' = faults
  BY <1>1 DEF ApplyCreate, ApplySettings, ApplyWrite
<1>6. docs' \in [Indexes -> [Docs -> Nat]]
  <2>1. docs \in [Indexes -> [Docs -> Nat]] /\ docs[tasks[t].index] \in [Docs -> Nat]
    BY <1>2 DEF ServerTypeOK
  <2>2. Stored(docs[tasks[t].index], tasks[t].writes) \in [Docs -> Nat]
    <3>1. CASE Docs = {}
      BY <3>1 DEF Stored
    <3>2. CASE Docs # {}
      BY <1>2, <2>1, <3>2, StoredEntry
    <3>3. QED BY <3>1, <3>2
  <2>3. QED BY <1>2, <1>5, <2>1, <2>2
<1>7. indexes' \in [Indexes -> {"absent", "created", "configured"}]
  BY <1>2, <1>5 DEF ServerTypeOK
<1>8. ServerTypeOK'
  BY <1>4, <1>5, <1>6, <1>7 DEF ServerTypeOK
<1>9. QED BY <1>2, <1>3, <1>4, <1>5, <1>8

(* What happens to the tasks while the publisher looks on. *)
LEMMA TroubleTypes ==
  ASSUME ServerTypeOK, LoseTask \/ Restore \/ Arrival
  PROVE  /\ ServerTypeOK'
         /\ "restore" \notin RareMishaps => DOMAIN tasks \subseteq DOMAIN tasks'
<1> USE FaultsAssumption DEF FaultsAssumption
<1>1. CASE LoseTask
  <2>1. PICK t \in DOMAIN tasks : FailTask(t) \/ ForgetTask(t)
    BY <1>1 DEF LoseTask
  <2>2. PICK status \in {"failed", "unknown"} : Ends(t, status)
    BY <2>1 DEF FailTask, ForgetTask
  <2>3. tasks' \in Seq(Task) /\ DOMAIN tasks' = DOMAIN tasks
    BY <2>1, <2>2, EndsTypes
  <2>4. docs' = docs /\ indexes' = indexes /\ late' = late /\ faults' \in 0 .. MaxFaults
    BY <2>1 DEF FailTask, ForgetTask, Mishap, ServerTypeOK
  <2>5. QED BY <2>3, <2>4 DEF ServerTypeOK
<1>2. CASE Restore
  <2>1. tasks' = <<>> /\ late' = late /\ "restore" \in RareMishaps
    BY <1>2 DEF Restore
  <2>2. faults' \in 0 .. MaxFaults
    BY <1>2 DEF Restore, Mishap, ServerTypeOK
  <2>3. docs' \in [Indexes -> [Docs -> Nat]]
    BY <1>2 DEF Restore
  <2>4. indexes' \in [Indexes -> {"absent", "created", "configured"}]
    BY <1>2 DEF Restore
  <2>5. QED BY <2>1, <2>2, <2>3, <2>4 DEF ServerTypeOK
<1>3. CASE Arrival
  <2>1. PICK q \in late : /\ tasks' = Append(tasks, q) /\ late' = late \ {q}
                          /\ UNCHANGED <<docs, indexes, faults>>
    BY <1>3 DEF Arrival
  <2>2. q \in Task /\ tasks \in Seq(Task)
    BY <2>1 DEF ServerTypeOK
  <2>3. tasks' \in Seq(Task) /\ DOMAIN tasks \subseteq DOMAIN tasks'
    BY <2>1, <2>2
  <2>4. QED BY <2>1, <2>3 DEF ServerTypeOK
<1>4. QED BY <1>1, <1>2, <1>3

-----------------------------------------------------------------------------
(***************************************************************************)
(* The call.                                                               *)
(***************************************************************************)
LEMMA MessagesOf ==
  ASSUME stream \in Seq(Message), NEW numbers \in Seq(DOMAIN stream)
  PROVE  LET b == [i \in DOMAIN numbers |-> stream[numbers[i]]]
         IN b \in Seq(Message) /\ Len(b) = Len(numbers) /\ Len(b) \in Nat
<1> DEFINE b == [i \in DOMAIN numbers |-> stream[numbers[i]]]
<1>1. DOMAIN numbers = 1 .. Len(numbers) /\ Len(numbers) \in Nat
  OBVIOUS
<1>2. \A i \in 1 .. Len(numbers) : stream[numbers[i]] \in Message
  <2>1. \A i \in 1 .. Len(numbers) : numbers[i] \in DOMAIN stream
    OBVIOUS
  <2>2. \A k \in DOMAIN stream : stream[k] \in Message
    OBVIOUS
  <2>3. QED BY <2>1, <2>2
<1>3. b \in [1 .. Len(numbers) -> Message]
  BY <1>1, <1>2
<1>4. b \in Seq(Message) /\ Len(b) = Len(numbers)
  BY <1>1, <1>3
<1>5. QED BY <1>1, <1>4

(* The plan of the call, as the rest of the publisher may rely on it. *)
LEMMA PlanOfCall ==
  ASSUME stream \in Seq(Message), NEW numbers \in Seq(DOMAIN stream),
         NEW p, p = PlanOf([i \in DOMAIN numbers |-> stream[numbers[i]]])
  PROVE  /\ p \in Plan /\ Len(p.runs) \in Nat
         /\ \A r \in 1 .. Len(p.runs) :
              /\ p.runs[r].index \in Indexes
              /\ p.runs[r].positions \in Seq(DOMAIN numbers)
              /\ Len(p.runs[r].positions) \in Nat \ {0}
<1> DEFINE b == [i \in DOMAIN numbers |-> stream[numbers[i]]]
<1>1. /\ b \in Seq(Message) /\ Len(b) = Len(numbers) /\ Len(b) \in Nat
      /\ DOMAIN numbers = 1 .. Len(b)
  BY MessagesOf
<1>2. p = PlanOf(b)
  OBVIOUS
<1> HIDE DEF b
<1>3. Sound(b, p, Len(b))
  BY <1>1, <1>2, PlanOfSound
<1>4. /\ p \in Plan /\ Filled(p)
      /\ \A r \in 1 .. Len(p.runs) : \A k \in Positions(p, r) :
           p.runs[r].positions[k] \in 1 .. Len(b)
  BY <1>1, <1>3, SoundParts
<1>5. /\ Len(p.runs) \in Nat
      /\ \A r \in 1 .. Len(p.runs) : /\ p.runs[r].index \in Indexes
                                     /\ p.runs[r].positions \in Seq(Nat)
                                     /\ Len(p.runs[r].positions) \in Nat \ {0}
  <2>1. /\ Len(p.runs) \in Nat
        /\ \A r \in 1 .. Len(p.runs) : /\ p.runs[r].index \in Indexes
                                       /\ p.runs[r].positions \in Seq(Nat)
                                       /\ Len(p.runs[r].positions) \in Nat
    BY <1>4, PlanParts
  <2>2. \A r \in 1 .. Len(p.runs) : Len(p.runs[r].positions) > 0
    BY <1>4 DEF Filled
  <2>3. QED BY <2>1, <2>2
<1>6. ASSUME NEW r \in 1 .. Len(p.runs)
      PROVE  p.runs[r].positions \in Seq(DOMAIN numbers)
  <2> DEFINE s == p.runs[r].positions
  <2>1. s \in Seq(Nat) /\ \A k \in 1 .. Len(s) : s[k] \in DOMAIN numbers
    BY <1>1, <1>4, <1>5, <1>6 DEF Positions
  <2> HIDE DEF s
  <2>2. s \in Seq(DOMAIN numbers)
    BY <2>1, Narrowed
  <2>3. QED BY <2>2 DEF s
<1>7. QED BY <1>4, <1>5, <1>6

LEMMA CallParts ==
  ASSUME CallInv, phase \in {"issue", "confirm"}
  PROVE  /\ Messages \in Seq(Message) /\ Len(Messages) = Len(batch) /\ Len(batch) \in Nat
         /\ plan = PlanOf(Messages) /\ plan \in Plan /\ Len(plan.runs) \in Nat
         /\ \A r \in 1 .. Len(plan.runs) :
              /\ plan.runs[r].index \in Indexes
              /\ plan.runs[r].positions \in Seq(DOMAIN batch)
              /\ Len(plan.runs[r].positions) \in Nat \ {0}
<1>1. stream \in Seq(Message) /\ batch \in Seq(DOMAIN stream) /\ plan = PlanOf(Messages)
  BY DEF CallInv, TypeOK, PublisherTypeOK, Control
<1>2. Messages \in Seq(Message) /\ Len(Messages) = Len(batch) /\ Len(batch) \in Nat
  BY <1>1, MessagesOf DEF Messages
<1>3. /\ plan \in Plan /\ Len(plan.runs) \in Nat
      /\ \A r \in 1 .. Len(plan.runs) :
           /\ plan.runs[r].index \in Indexes
           /\ plan.runs[r].positions \in Seq(DOMAIN batch)
           /\ Len(plan.runs[r].positions) \in Nat \ {0}
  BY <1>1, PlanOfCall DEF Messages
<1>4. QED BY <1>1, <1>2, <1>3

(* While runs are issued, there is a current one. *)
LEMMA CurrentParts ==
  ASSUME CallInv, phase = "issue"
  PROVE  /\ Len(issued) \in Nat /\ Len(issued) + 1 \in 1 .. Len(plan.runs)
         /\ CurrentRun = plan.runs[Len(issued) + 1]
         /\ CurrentRun.index \in Indexes
         /\ CurrentRun.positions \in Seq(DOMAIN batch) /\ Len(CurrentRun.positions) \in Nat \ {0}
<1>1. Len(issued) \in Nat /\ Len(issued) < Len(plan.runs)
  BY DEF CallInv, TypeOK, PublisherTypeOK, Control
<1>2. Len(plan.runs) \in Nat
  BY CallParts
<1>3. Len(issued) + 1 \in 1 .. Len(plan.runs)
  BY <1>1, <1>2
<1>4. QED BY <1>1, <1>3, CallParts DEF CurrentRun

LEMMA TargetTyped ==
  ASSUME CallInv, phase \in {"start", "issue"}
  PROVE  Target \in Indexes
BY CurrentParts, PlanningAssumption DEF Target, PlanningAssumption

(* What a request carries. *)
LEMMA EntriesTyped ==
  ASSUME CallInv, phase = "issue", NEW k \in 1 .. Len(body)
  PROVE  /\ Len(body) \in Nat /\ Entries(k) \in Seq(Entry) /\ Len(Entries(k)) = k
         /\ \A j \in 1 .. k :
              /\ body[j] \in DOMAIN batch /\ batch[body[j]] \in DOMAIN stream
              /\ Entries(k)[j].number = batch[body[j]]
              /\ Entries(k)[j].doc = stream[batch[body[j]]].doc
<1>1. /\ body \in Seq(DOMAIN batch) /\ batch \in Seq(DOMAIN stream)
      /\ stream \in Seq(Message) /\ Len(body) \in Nat /\ k \in Nat
  BY DEF CallInv, TypeOK, PublisherTypeOK
<1>2. ASSUME NEW j \in 1 .. k
      PROVE  /\ body[j] \in DOMAIN batch /\ batch[body[j]] \in DOMAIN stream
             /\ batch[body[j]] \in Nat \ {0}
             /\ stream[batch[body[j]]].doc \in Docs
  <2>1. body[j] \in DOMAIN batch
    <3>1. j \in 1 .. Len(body)
      BY <1>1
    <3>2. \A i \in 1 .. Len(body) : body[i] \in DOMAIN batch
      BY <1>1, ElementOfSeq
    <3>3. QED BY <3>1, <3>2
  <2>2. batch[body[j]] \in DOMAIN stream
    <3>1. batch \in [1 .. Len(batch) -> DOMAIN stream] /\ DOMAIN batch = 1 .. Len(batch)
      BY <1>1, LenProperties
    <3>2. QED BY <2>1, <3>1
  <2>3. batch[body[j]] \in Nat \ {0} /\ stream[batch[body[j]]] \in Message
    <3>1. stream \in [1 .. Len(stream) -> Message] /\ DOMAIN stream = 1 .. Len(stream)
          /\ Len(stream) \in Nat
      BY <1>1, LenProperties
    <3>2. QED BY <2>2, <3>1
  <2>4. QED BY <2>1, <2>2, <2>3 DEF Message
<1>3. \A j \in 1 .. k :
        [doc |-> stream[batch[body[j]]].doc, number |-> batch[body[j]]] \in Entry
  BY <1>2 DEF Entry
<1>4. Entries(k) \in [1 .. k -> Entry]
  BY <1>3 DEF Entries
<1>5. Entries(k) \in Seq(Entry) /\ Len(Entries(k)) = k
  BY <1>1, <1>4
<1>6. \A j \in 1 .. k : /\ Entries(k)[j].number = batch[body[j]]
                        /\ Entries(k)[j].doc = stream[batch[body[j]]].doc
  BY DEF Entries
<1>7. QED BY <1>1, <1>2, <1>5, <1>6

LEMMA RequestsTyped ==
  ASSUME CallInv, NEW q \in Requests
  PROVE  /\ phase \in {"start", "issue"} /\ Target \in Indexes
         /\ q.kind \in {"create", "settings", "write"} /\ q.writes \in Seq(Entry)
         /\ \/ q.kind # "write" /\ q.writes = <<>>
            \/ /\ Writing /\ q.kind = "write"
               /\ \E k \in 1 .. Len(body) : q.writes = Entries(k)
<1>1. CASE Unprepared /\ prep = "none"
  <2>1. q = [kind |-> "create", writes |-> <<>>]
    BY <1>1 DEF Requests, Writing
  <2>2. QED BY <1>1, <2>1, TargetTyped DEF Unprepared
<1>2. CASE ~(Unprepared /\ prep = "none") /\ prep = "created" /\ config.settings
  <2>1. q = [kind |-> "settings", writes |-> <<>>]
    BY <1>2 DEF Requests, Writing
  <2>2. Unprepared
    BY <1>2 DEF CallInv, Control
  <2>3. QED BY <2>1, <2>2, TargetTyped DEF Unprepared
<1>3. CASE /\ ~(Unprepared /\ prep = "none") /\ ~(prep = "created" /\ config.settings)
           /\ Writing
  <2>1. q \in {[kind |-> "write", writes |-> Entries(k)] : k \in Sizes}
    BY <1>3 DEF Requests
  <2>2. PICK k \in Sizes : q = [kind |-> "write", writes |-> Entries(k)]
    BY <2>1
  <2>3. phase = "issue" /\ Len(body) \in Nat
    BY <1>3 DEF Writing, CallInv, TypeOK, PublisherTypeOK
  <2>4. Len(body) > 0
    <3>1. PICK j \in 0 .. Len(CurrentRun.positions) - 1 : SentOfRun(j)
      BY <2>3 DEF CallInv, Control
    <3>2. Len(body) = Len(CurrentRun.positions) - j
      BY <2>3, <3>1, CurrentParts DEF SentOfRun
    <3>3. QED BY <2>3, <3>1, <3>2, CurrentParts
  <2>5. k \in 1 .. Len(body)
    BY <2>2, <2>3, <2>4 DEF Sizes
  <2>6. QED BY <1>3, <2>2, <2>3, <2>5, EntriesTyped, TargetTyped
<1>4. CASE /\ ~(Unprepared /\ prep = "none") /\ ~(prep = "created" /\ config.settings)
           /\ ~Writing
  BY <1>4 DEF Requests
<1>5. QED BY <1>1, <1>2, <1>3, <1>4

-----------------------------------------------------------------------------
(***************************************************************************)
(* What the steps of the publisher keep.                                   *)
(***************************************************************************)
LEMMA WholeSeq ==
  ASSUME NEW S, NEW s \in Seq(S)
  PROVE  SubSeq(s, 1, Len(s)) = s
OBVIOUS

LEMMA RestOfRest ==
  ASSUME NEW S, NEW s \in Seq(S), NEW j \in 0 .. Len(s), NEW k \in Nat,
         NEW rest, rest = SubSeq(s, j + 1, Len(s)), k <= Len(rest)
  PROVE  /\ Len(rest) = Len(s) - j
         /\ j + k \in 0 .. Len(s)
         /\ SubSeq(rest, k + 1, Len(rest)) = SubSeq(s, j + k + 1, Len(s))
         /\ \A i \in 1 .. Len(rest) : rest[i] = s[j + i]
<1>1. Len(s) \in Nat /\ Len(rest) = Len(s) - j
  OBVIOUS
<1>2. \A i \in 1 .. Len(rest) : rest[i] = s[j + i]
  BY <1>1
<1>3. j + k \in 0 .. Len(s)
  BY <1>1
<1>4. SubSeq(rest, k + 1, Len(rest)) = SubSeq(s, j + k + 1, Len(s))
  BY <1>1, <1>2, <1>3
<1>5. QED BY <1>1, <1>2, <1>3, <1>4

(* Numbers that were asked for stay so. *)
LEMMA UidsKept ==
  ASSUME "restore" \notin RareMishaps => DOMAIN tasks \subseteq DOMAIN tasks'
  PROVE  Uids \subseteq Uids'
BY DEF Uids

LEMMA UnchangedKeeps ==
  ASSUME CallInv, UNCHANGED given, UNCHANGED publisher, Uids \subseteq Uids'
  PROVE  PublisherTypeOK' /\ Control'
<1>1. PublisherTypeOK'
  <2>1. PublisherTypeOK
    BY DEF CallInv, TypeOK
  <2>2. /\ asked \in Uids' \cup {0}
        /\ requests \in Seq(Uids')
    BY <2>1 DEF PublisherTypeOK
  <2>3. issued \in Seq(Seq(Uids'))
    <3>1. issued \in Seq(Seq(Uids)) /\ Seq(Uids) \subseteq Seq(Uids')
      BY <2>1 DEF PublisherTypeOK
    <3>2. QED BY <3>1
  <2>4. QED BY <2>1, <2>2, <2>3 DEF PublisherTypeOK, publisher, given, call
<1>2. Control'
  <2>1. Control
    BY DEF CallInv
  <2>2. QED BY <2>1 DEF Control, Quiet, Messages, SentOfRun, CurrentRun, Unprepared,
                        Confirming, Passed, publisher, given, call
<1>3. QED BY <1>1, <1>2

(* A call begins with the first run of its plan, if there is one. *)
LEMMA SendKeeps ==
  ASSUME CallInv, UNCHANGED given, UNCHANGED tasks,
         NEW numbers \in Seq(DOMAIN stream), SendBatch(numbers)
  PROVE  PublisherTypeOK' /\ Control'
<1>1. /\ stream \in Seq(Message) /\ PublisherTypeOK /\ Control
      /\ phase = "idle" /\ Quiet /\ prep = "none"
  BY DEF CallInv, TypeOK, Control, SendBatch, Unprepared
<1>2. /\ batch' = numbers /\ plan' = PlanOf([i \in DOMAIN numbers |-> stream[numbers[i]]])
      /\ TurnTo(plan', 1)
      /\ UNCHANGED <<prep, asked, known, requests, issued, unissued, waited, outcomes>>
      /\ config' = config /\ stream' = stream /\ tasks' = tasks
  BY DEF SendBatch, given
<1>3. /\ plan' \in Plan /\ Len(plan'.runs) \in Nat
      /\ \A r \in 1 .. Len(plan'.runs) :
           /\ plan'.runs[r].positions \in Seq(DOMAIN numbers)
           /\ Len(plan'.runs[r].positions) \in Nat \ {0}
  BY <1>1, <1>2, PlanOfCall
<1>4. plan' = PlanOf(Messages')
  BY <1>2 DEF Messages
<1>5. issued' = <<>> /\ Len(issued') = 0 /\ outcomes' = <<>> /\ unissued' = "none"
      /\ waited' = "none" /\ prep' = "none" /\ requests' = <<>>
  BY <1>1, <1>2 DEF Quiet
<1>6. /\ asked' \in Uids' \cup {0} /\ known' \subseteq Indexes /\ config' \in Config
      /\ batch' \in Seq(DOMAIN stream')
  BY <1>1, <1>2 DEF PublisherTypeOK, Uids
<1>7. CASE Len(plan'.runs) = 0
  <2>1. phase' = "confirm" /\ body' = <<>>
    BY <1>2, <1>7 DEF TurnTo
  <2>2. PublisherTypeOK'
    BY <1>3, <1>5, <1>6, <2>1 DEF PublisherTypeOK
  <2>3. Control'
    BY <1>4, <1>5, <1>7, <2>1 DEF Control
  <2>4. QED BY <2>2, <2>3
<1>8. CASE Len(plan'.runs) # 0
  <2>1. 1 \in 1 .. Len(plan'.runs) /\ 1 <= Len(plan'.runs)
    BY <1>3, <1>8
  <2>2. phase' = "issue" /\ body' = plan'.runs[1].positions
    BY <1>2, <2>1 DEF TurnTo
  <2>3. body' \in Seq(DOMAIN batch')
    BY <1>2, <1>3, <2>1, <2>2
  <2>4. PublisherTypeOK'
    BY <1>3, <1>5, <1>6, <2>2, <2>3 DEF PublisherTypeOK
  <2>5. CurrentRun' = plan'.runs[1]
    BY <1>5 DEF CurrentRun
  <2>6. 0 \in 0 .. Len(CurrentRun'.positions) - 1 /\ SentOfRun(0)'
    BY <1>3, <2>1, <2>2, <2>5, WholeSeq DEF SentOfRun
  <2>7. Control'
    BY <1>3, <1>4, <1>5, <2>1, <2>2, <2>6 DEF Control
  <2>8. QED BY <2>4, <2>7
<1>9. QED BY <1>7, <1>8

(* The call ends, by its report or by a crash. *)
LEMMA EndKeeps ==
  ASSUME CallInv, UNCHANGED given, Uids \subseteq Uids',
         \/ Return
         \/ Restarted
  PROVE  PublisherTypeOK' /\ Control'
<1>1. NoCall /\ config' = config /\ stream' = stream
  BY DEF Return, Restarted, given
<1>2. Quiet' /\ Len(outcomes') <= Len(issued')
  BY <1>1 DEF NoCall, Quiet
<1>3. phase' \in {"start", "idle"} /\ (phase' = "start" => ~Routed /\ config'.createIndex)
  BY <1>1 DEF Return, Restarted, Created
<1>4. prep' = "none"
  <2>1. CASE Return
    BY <2>1 DEF Return, AllConfirmed, CallInv, Control
  <2>2. CASE Restarted
    BY <2>2 DEF Restarted
  <2>3. QED BY <2>1, <2>2
<1>5. asked' \in Uids' \cup {0} /\ known' \subseteq Indexes
  BY DEF Return, Restarted, CallInv, TypeOK, PublisherTypeOK
<1>6. EmptyPlan \in Plan
  BY EmptyWellFormed DEF CallInv, WellFormed
<1>7. PublisherTypeOK'
  BY <1>1, <1>2, <1>3, <1>4, <1>5, <1>6 DEF PublisherTypeOK, Quiet, CallInv, TypeOK
<1>8. Control'
  BY <1>2, <1>3, <1>4 DEF Control, Quiet
<1>9. QED BY <1>7, <1>8

(* A step of the preparation that goes on. *)
LEMMA PrepareKeeps ==
  ASSUME CallInv, UNCHANGED given, Uids \subseteq Uids', UNCHANGED call,
         Unprepared, UNCHANGED phase, UNCHANGED known, asked' \in Uids' \cup {0},
         prep' \in {"create", "created", "settings"}
  PROVE  PublisherTypeOK' /\ Control'
<1>1. PublisherTypeOK'
  <2>1. PublisherTypeOK
    BY DEF CallInv, TypeOK
  <2>2. requests \in Seq(Uids')
    BY <2>1 DEF PublisherTypeOK
  <2>3. issued \in Seq(Seq(Uids'))
    <3>1. issued \in Seq(Seq(Uids)) /\ Seq(Uids) \subseteq Seq(Uids')
      BY <2>1 DEF PublisherTypeOK
    <3>2. QED BY <3>1
  <2>4. QED BY <2>1, <2>2, <2>3 DEF PublisherTypeOK, given, call
<1>2. Control'
  <2>1. Control /\ phase \in {"start", "issue"}
    BY DEF CallInv, Unprepared
  <2>2. Unprepared'
    BY DEF Unprepared, CurrentRun, given, call
  <2>3. QED BY <2>1, <2>2 DEF Control, Quiet, Messages, SentOfRun, CurrentRun,
                              Confirming, Passed, given, call
<1>3. QED BY <1>1, <1>2

(* The index is prepared. *)
LEMMA PreparedKeeps ==
  ASSUME CallInv, UNCHANGED given, UNCHANGED tasks, Prepared
  PROVE  PublisherTypeOK' /\ Control'
<1>1. /\ prep # "none" /\ Unprepared /\ phase \in {"start", "issue"}
      /\ Target \in Indexes
  BY TargetTyped DEF Prepared, CallInv, Control, Unprepared
<1>2. /\ prep' = "none" /\ UNCHANGED <<asked, call>> /\ Uids' = Uids
      /\ \/ phase = "start" /\ phase' = "idle" /\ known' = known
         \/ phase = "issue" /\ phase' = "issue" /\ known' = known \cup {Target}
  BY <1>1 DEF Prepared, Uids
<1>3. PublisherTypeOK'
  BY <1>1, <1>2 DEF PublisherTypeOK, CallInv, TypeOK, given, call
<1>4. Control'
  BY <1>1, <1>2 DEF CallInv, Control, Quiet, Messages, SentOfRun, CurrentRun,
                    Confirming, Passed, given, call
<1>5. QED BY <1>3, <1>4

(* A step that failed. *)
LEMMA AbandonKeeps ==
  ASSUME CallInv, UNCHANGED given, Uids \subseteq Uids', phase \in {"start", "issue"},
         NEW failure \in Failure, Abandon(failure)
  PROVE  PublisherTypeOK' /\ Control'
<1>1. /\ prep' = "none"
      /\ UNCHANGED <<asked, known, batch, plan, body, requests, issued, waited, outcomes>>
      /\ \/ phase = "start" /\ phase' = "start" /\ unissued' = unissued
         \/ phase = "issue" /\ phase' = "confirm" /\ unissued' = failure
  BY DEF Abandon
<1>2. PublisherTypeOK'
  <2>1. PublisherTypeOK
    BY DEF CallInv, TypeOK
  <2>2. asked \in Uids' \cup {0} /\ requests \in Seq(Uids')
    BY <2>1 DEF PublisherTypeOK
  <2>3. issued \in Seq(Seq(Uids'))
    <3>1. issued \in Seq(Seq(Uids)) /\ Seq(Uids) \subseteq Seq(Uids')
      BY <2>1 DEF PublisherTypeOK
    <3>2. QED BY <3>1
  <2>4. QED BY <1>1, <2>1, <2>2, <2>3 DEF PublisherTypeOK, given
<1>3. Control'
  <2>1. Control
    BY DEF CallInv
  <2>2. CASE phase = "start"
    BY <1>1, <2>1, <2>2 DEF Control, Quiet, given
  <2>3. CASE phase = "issue"
    <3>1. Len(issued) # Len(plan.runs) /\ unissued' # "none"
      BY <1>1, <2>1, <2>3, CurrentParts DEF Failure, Control
    <3>2. waited' = "none" /\ outcomes' = <<>>
      BY <1>1, <2>1, <2>3 DEF Control
    <3>3. Len(issued) <= Len(plan.runs) /\ Len(outcomes) <= Len(issued)
      BY <2>1, <2>3 DEF Control
    <3>4. QED BY <1>1, <2>1, <2>3, <3>1, <3>2, <3>3 DEF Control, Messages, given
  <2>4. QED BY <2>2, <2>3
<1>4. QED BY <1>2, <1>3

(* A request accepted: the rest of the run follows, or the next run. *)
LEMMA WriteKeeps ==
  ASSUME CallInv, UNCHANGED given, NEW k \in 1 .. Len(body), WriteDocuments(k)
  PROVE  PublisherTypeOK' /\ Control' /\ ServerTypeOK'
<1> DEFINE uid == Len(tasks')
           s == CurrentRun.positions
<1>1. /\ stream \in Seq(Message) /\ PublisherTypeOK /\ Control /\ ServerTypeOK
      /\ phase = "issue" /\ prep = "none" /\ Writing
  BY DEF CallInv, TypeOK, WriteDocuments, Writing
<1>2. /\ Enqueued(Target, "write", Entries(k)) /\ faults' = faults
      /\ UNCHANGED <<prep, asked, known, batch, plan, unissued, waited, outcomes>>
      /\ config' = config /\ stream' = stream
  BY DEF WriteDocuments, given
<1>3. /\ tasks' \in Seq(Task) /\ Len(tasks') = Len(tasks) + 1
      /\ docs' = docs /\ indexes' = indexes /\ late' = late
  BY <1>1, <1>2, EnqueuedTypes, TargetTyped, EntriesTyped
<1>4. ServerTypeOK'
  BY <1>1, <1>2, <1>3 DEF ServerTypeOK
<1>5. tasks \in Seq(Task) /\ Len(tasks) \in Nat /\ Uids \subseteq Uids' /\ uid \in Uids'
  <2>1. tasks \in Seq(Task) /\ Len(tasks) \in Nat
    BY <1>1 DEF ServerTypeOK
  <2>2. DOMAIN tasks \subseteq DOMAIN tasks' /\ uid \in DOMAIN tasks' /\ uid \in Nat \ {0}
    BY <1>3, <2>1
  <2>3. QED BY <2>1, <2>2 DEF Uids
<1>6. /\ Len(issued) \in Nat /\ Len(issued) + 1 \in 1 .. Len(plan.runs)
      /\ s \in Seq(DOMAIN batch) /\ Len(s) \in Nat /\ Len(body) \in Nat
  BY <1>1, CurrentParts, EntriesTyped
<1>7. /\ plan \in Plan /\ plan = PlanOf(Messages) /\ Len(plan.runs) \in Nat
      /\ \A r \in 1 .. Len(plan.runs) :
           /\ plan.runs[r].positions \in Seq(DOMAIN batch)
           /\ Len(plan.runs[r].positions) \in Nat \ {0}
  BY <1>1, CallParts
<1>8. /\ requests \in Seq(Uids') /\ asked \in Uids' \cup {0} /\ issued \in Seq(Seq(Uids'))
  <2>1. requests \in Seq(Uids') /\ asked \in Uids' \cup {0}
    <3>1. requests \in Seq(Uids) /\ asked \in Uids \cup {0}
      BY <1>1 DEF PublisherTypeOK
    <3>2. QED BY <1>5, <3>1
  <2>2. issued \in Seq(Seq(Uids)) /\ Seq(Uids) \subseteq Seq(Uids')
    BY <1>1, <1>5 DEF PublisherTypeOK
  <2>3. QED BY <2>1, <2>2
<1>9. PICK j \in 0 .. Len(s) - 1 : body = SubSeq(s, j + 1, Len(s))
  BY <1>1 DEF Control, SentOfRun
<1>10. Messages' = Messages /\ unissued' = "none" /\ waited' = "none" /\ outcomes' = <<>>
  BY <1>1, <1>2 DEF Control, Messages
<1> HIDE DEF uid, s
<1>11. CASE k < Len(body)
  <2>1. /\ body' = SubSeq(body, k + 1, Len(body))
        /\ requests' = Append(requests, uid)
        /\ UNCHANGED <<phase, issued>>
    BY <1>11 DEF WriteDocuments, uid
  <2>2. body' \in Seq(DOMAIN batch)
    <3>1. body \in Seq(DOMAIN batch)
      BY <1>1 DEF PublisherTypeOK
    <3>2. QED BY <1>11, <2>1, <3>1
  <2>3. PublisherTypeOK'
    <3>1. requests' \in Seq(Uids')
      BY <1>5, <1>8, <2>1
    <3>2. QED BY <1>1, <1>2, <1>8, <2>1, <2>2, <3>1 DEF PublisherTypeOK
  <2>4. j + k \in 0 .. Len(s) - 1 /\ body' = SubSeq(s, j + k + 1, Len(s))
    <3>1. k \in Nat /\ k < Len(body) /\ k <= Len(body) /\ j \in 0 .. Len(s) /\ j \in Nat
      BY <1>6, <1>9, <1>11
    <3>2. /\ Len(body) = Len(s) - j
          /\ body' = SubSeq(s, j + k + 1, Len(s))
      BY <1>6, <1>9, <2>1, <3>1, RestOfRest
    <3>3. QED BY <1>6, <3>1, <3>2
  <2>5. CurrentRun' = CurrentRun
    BY <1>2, <2>1 DEF CurrentRun
  <2>6. \E i \in 0 .. Len(CurrentRun'.positions) - 1 : SentOfRun(i)'
    BY <2>4, <2>5 DEF SentOfRun, s
  <2>7. Control'
    BY <1>1, <1>2, <1>7, <1>10, <2>1, <2>6 DEF Control
  <2>8. QED BY <1>4, <2>3, <2>7
<1>12. CASE ~(k < Len(body))
  <2>1. /\ issued' = Append(issued, Append(requests, uid)) /\ requests' = <<>>
        /\ TurnTo(plan, Len(issued') + 1)
    BY <1>12 DEF WriteDocuments, uid
  <2>2. Append(requests, uid) \in Seq(Uids') /\ requests' \in Seq(Uids')
    BY <1>5, <1>8, <2>1
  <2>3. issued' \in Seq(Seq(Uids')) /\ Len(issued') = Len(issued) + 1
    BY <1>8, <2>1, <2>2
  <2>4. CASE Len(issued') + 1 <= Len(plan.runs)
    <3>1. phase' = "issue" /\ body' = plan.runs[Len(issued') + 1].positions
      BY <2>1, <2>4 DEF TurnTo
    <3>2. Len(issued') + 1 \in 1 .. Len(plan.runs)
      BY <1>6, <1>7, <2>3, <2>4
    <3>3. CurrentRun' = plan.runs[Len(issued') + 1]
      BY <1>2 DEF CurrentRun
    <3>4. body' \in Seq(DOMAIN batch)
      BY <1>7, <3>1, <3>2
    <3>5. PublisherTypeOK'
      BY <1>1, <1>2, <1>8, <2>2, <2>3, <3>1, <3>4 DEF PublisherTypeOK
    <3>6. 0 \in 0 .. Len(CurrentRun'.positions) - 1 /\ SentOfRun(0)'
      <4> DEFINE t == plan.runs[Len(issued') + 1].positions
      <4>1. t \in Seq(DOMAIN batch) /\ Len(t) \in Nat \ {0}
        BY <1>7, <3>2
      <4> HIDE DEF t
      <4>2. t = SubSeq(t, 0 + 1, Len(t)) /\ 0 \in 0 .. Len(t) - 1
        BY <4>1, WholeSeq
      <4>3. body' = t /\ CurrentRun'.positions = t
        BY <3>1, <3>3 DEF t
      <4>4. QED BY <4>2, <4>3 DEF SentOfRun
    <3>7. Control'
      <4>1. plan' = plan /\ plan' = PlanOf(Messages') /\ prep' = "none"
        BY <1>1, <1>2, <1>7, <1>10
      <4>2. Len(issued') < Len(plan'.runs) /\ Len(issued') <= Len(plan'.runs)
        BY <1>6, <1>7, <2>3, <3>2, <4>1
      <4>3. \E i \in 0 .. Len(CurrentRun'.positions) - 1 : SentOfRun(i)'
        BY <3>6
      <4>4. phase' = "issue" /\ Len(outcomes') <= Len(issued')
        BY <1>6, <1>10, <2>3, <3>1
      <4>5. QED BY <1>10, <4>1, <4>2, <4>3, <4>4 DEF Control
    <3>8. QED BY <1>4, <3>5, <3>7
  <2>5. CASE ~(Len(issued') + 1 <= Len(plan.runs))
    <3>1. phase' = "confirm" /\ body' = <<>>
      BY <2>1, <2>5 DEF TurnTo
    <3>2. Len(issued') = Len(plan.runs)
      BY <1>6, <1>7, <2>3, <2>5
    <3>3. PublisherTypeOK'
      BY <1>1, <1>2, <1>8, <2>2, <2>3, <3>1 DEF PublisherTypeOK
    <3>4. Control'
      BY <1>1, <1>2, <1>6, <1>7, <1>10, <2>3, <3>1, <3>2 DEF Control
    <3>5. QED BY <1>4, <3>3, <3>4
  <2>6. QED BY <2>4, <2>5
<1>13. QED BY <1>11, <1>12

LEMMA TaskOutcomeTyped == ASSUME NEW t PROVE TaskOutcome(t) \in Outcome
BY DEF TaskOutcome, Outcome, Failure

(* An outcome is added to those of the runs confirmed. *)
LEMMA ConfirmedKeeps ==
  ASSUME CallInv, UNCHANGED given, UNCHANGED tasks, Confirming,
         NEW outcome \in Outcome, Confirmed(outcome),
         UNCHANGED <<phase, prep, asked, known, batch, plan, body, requests, issued, unissued>>
  PROVE  PublisherTypeOK' /\ Control'
<1>1. PublisherTypeOK /\ Control /\ phase = "confirm" /\ Len(outcomes) < Len(issued)
  BY DEF CallInv, TypeOK, Confirming
<1>2. outcomes' = Append(outcomes, outcome) /\ waited' = "none"
  BY DEF Confirmed
<1>3. /\ outcomes \in Seq(Outcome) /\ Len(outcomes) \in Nat /\ Len(issued) \in Nat
      /\ Len(issued) <= Len(plan.runs) /\ Len(plan.runs) \in Nat
  BY <1>1, CallParts DEF PublisherTypeOK, Outcome, Control
<1>4. outcomes' \in Seq(Outcome) /\ Len(outcomes') = Len(outcomes) + 1
  BY <1>2, <1>3
<1>5. PublisherTypeOK'
  BY <1>1, <1>2, <1>4 DEF PublisherTypeOK, Uids, given, Outcome
<1>6. Monotone(plan) /\ \A r \in 1 .. Len(plan.runs) : plan.runs[r].segment \in Nat
  <2>1. Sound(Messages, plan, Len(Messages)) /\ plan \in Plan
    BY <1>1, CallParts, PlanOfSound
  <2>2. QED BY <1>1, <2>1, CallParts, SoundParts, PlanParts
<1>7. ASSUME NEW r \in DOMAIN outcomes', NEW s \in FailedRuns(outcomes')
      PROVE  ~(plan.runs[s].segment < plan.runs[r].segment)
  <2>1. r \in 1 .. Len(outcomes) + 1 /\ s \in 1 .. Len(outcomes) + 1
    BY <1>4 DEF FailedRuns
  <2>2. r \in 1 .. Len(plan.runs) /\ s \in 1 .. Len(plan.runs)
    BY <1>1, <1>3, <2>1
  <2>3. CASE s = Len(outcomes) + 1
    BY <1>6, <2>1, <2>2, <2>3 DEF Monotone
  <2>4. CASE s \in 1 .. Len(outcomes)
    <3>1. s \in FailedRuns(outcomes)
      BY <1>2, <1>3, <1>7, <2>4 DEF FailedRuns
    <3>2. ~Behind(plan, outcomes, r)
      BY <1>1, <1>3, <2>1 DEF Control, Confirming, Passed
    <3>3. QED BY <3>1, <3>2 DEF Behind
  <2>5. QED BY <1>3, <2>1, <2>3, <2>4
<1>8. \A r \in DOMAIN outcomes' : ~Behind(plan', outcomes', r)
  BY <1>7 DEF Behind
<1>9. Control'
  BY <1>1, <1>2, <1>3, <1>4, <1>8 DEF Control, Messages, given
<1>10. QED BY <1>5, <1>9

(* The last task of the run being confirmed has ended. *)
LEMMA WaitedKeeps ==
  ASSUME CallInv, UNCHANGED given, UNCHANGED tasks, Confirming, config.waitForTask,
         waited' \in Outcome,
         UNCHANGED <<phase, prep, asked, known, batch, plan, body, requests, issued,
                     unissued, outcomes>>
  PROVE  PublisherTypeOK' /\ Control'
<1>1. PublisherTypeOK /\ Control /\ phase = "confirm"
  BY DEF CallInv, TypeOK, Confirming
<1>2. PublisherTypeOK'
  BY <1>1 DEF PublisherTypeOK, Uids, given, Outcome
<1>3. Confirming'
  BY DEF Confirming, Passed
<1>4. Control'
  BY <1>1, <1>3 DEF Control, Messages, given
<1>5. QED BY <1>2, <1>4

(* What a call reports with a verdict: the numbers of its messages that    *)
(* have it, in the order of the batch.                                     *)
LEMMA JudgedParts ==
  ASSUME batch \in Seq(Nat), NEW verdict
  PROVE  /\ Judged(verdict) \in Seq(Nat)
         /\ Range(Judged(verdict)) = {batch[i] : i \in {j \in 1 .. Len(batch) : Verdict(j) = verdict}}
         /\ Ascending(batch) => Ascending(Judged(verdict))
<1> DEFINE W == {j \in 1 .. Len(batch) : Verdict(j) = verdict}
           h == CHOOSE f : f = [i \in 0 .. Len(batch) |->
                  IF i = 0 THEN <<>>
                  ELSE IF Verdict(i) = verdict THEN Append(f[i - 1], batch[i]) ELSE f[i - 1]]
<1>1. Judged(verdict) = h[Len(batch)]
  BY DEF Judged
<1>2. Len(batch) \in Nat
  OBVIOUS
<1>3. PICK g : Gathering(batch, W, g, Len(batch))
  <2> HIDE DEF W
  <2>1. QED BY <1>2, GatheringExists
<1>4. ASSUME NEW f
      PROVE  Gathering(batch, W, f, Len(batch)) <=>
               f = [i \in 0 .. Len(batch) |->
                      IF i = 0 THEN <<>>
                      ELSE IF Verdict(i) = verdict THEN Append(f[i - 1], batch[i]) ELSE f[i - 1]]
  <2>1. \A i \in 0 .. Len(batch) : i # 0 => (i \in W <=> Verdict(i) = verdict)
    BY <1>2
  <2> HIDE DEF W
  <2>2. [n \in 0 .. Len(batch) |->
           IF n = 0 THEN <<>>
           ELSE IF n \in W THEN Append(f[n - 1], batch[n]) ELSE f[n - 1]]
        = [i \in 0 .. Len(batch) |->
             IF i = 0 THEN <<>>
             ELSE IF Verdict(i) = verdict THEN Append(f[i - 1], batch[i]) ELSE f[i - 1]]
    BY <2>1
  <2>3. QED BY <2>2 DEF Gathering
<1>5. Gathering(batch, W, h, Len(batch))
  <2>1. g = [i \in 0 .. Len(batch) |->
               IF i = 0 THEN <<>>
               ELSE IF Verdict(i) = verdict THEN Append(g[i - 1], batch[i]) ELSE g[i - 1]]
    BY <1>3, <1>4
  <2>2. h = [i \in 0 .. Len(batch) |->
               IF i = 0 THEN <<>>
               ELSE IF Verdict(i) = verdict THEN Append(h[i - 1], batch[i]) ELSE h[i - 1]]
    BY <2>1, Zenon
  <2> HIDE DEF W, h
  <2>3. QED BY <1>4, <2>2
<1> HIDE DEF h
<1>6. /\ h[Len(batch)] \in Seq(Nat)
      /\ Range(h[Len(batch)]) = {batch[i] : i \in W \cap 1 .. Len(batch)}
      /\ Ascending(batch) => Ascending(h[Len(batch)])
  <2> HIDE DEF W
  <2>1. QED BY <1>5, GatheredParts
<1>7. W \cap 1 .. Len(batch) = W
  OBVIOUS
<1>8. QED BY <1>1, <1>6, <1>7

(* Every step of the publisher itself. *)
LEMMA StepKeeps ==
  ASSUME CallInv, UNCHANGED given, PublisherStep
  PROVE  PublisherTypeOK' /\ Control' /\ ServerTypeOK'
<1>1. PublisherTypeOK /\ Control /\ ServerTypeOK
  BY DEF CallInv, TypeOK
<1>2. ASSUME UNCHANGED server
      PROVE  ServerTypeOK' /\ tasks' = tasks /\ Uids \subseteq Uids'
  BY <1>1, <1>2 DEF ServerTypeOK, server, Uids
<1>3. ASSUME Unprepared, NEW kind \in {"create", "settings"}, NEW next \in {"create", "settings"},
             Ask(kind, next)
      PROVE  PublisherTypeOK' /\ Control' /\ ServerTypeOK'
  <2>1. /\ Enqueued(Target, kind, <<>>) /\ faults' = faults
        /\ prep' = next /\ asked' = Len(tasks') /\ UNCHANGED <<phase, known, call>>
    BY <1>3 DEF Ask
  <2>2. Target \in Indexes /\ <<>> \in Seq(Entry)
    BY <1>3, TargetTyped DEF Unprepared
  <2>3. /\ tasks' \in Seq(Task) /\ Len(tasks') = Len(tasks) + 1
        /\ docs' = docs /\ indexes' = indexes /\ late' = late
    BY <1>1, <2>1, <2>2, EnqueuedTypes
  <2>4. ServerTypeOK'
    BY <1>1, <2>1, <2>3 DEF ServerTypeOK
  <2>5. DOMAIN tasks \subseteq DOMAIN tasks' /\ Len(tasks') \in DOMAIN tasks'
        /\ Len(tasks') \in Nat \ {0}
    <3>1. tasks \in Seq(Task)
      BY <1>1 DEF ServerTypeOK
    <3>2. QED BY <2>3, <3>1
  <2>6. Uids \subseteq Uids' /\ asked' \in Uids' \cup {0}
    BY <2>1, <2>5 DEF Uids
  <2>7. QED BY <1>3, <2>1, <2>4, <2>6, PrepareKeeps
<1>4. CASE AskCreate
  BY <1>3, <1>4 DEF AskCreate
<1>5. CASE AskSettings
  BY <1>1, <1>3, <1>5 DEF AskSettings, Control
<1>6. CASE CreateAnsweredExists
  <2>1. /\ Unprepared /\ prep' = "created" /\ UNCHANGED server
        /\ UNCHANGED <<phase, asked, known, call>>
    BY <1>6 DEF CreateAnsweredExists
  <2>2. asked' \in Uids' \cup {0}
    BY <1>1, <1>2, <2>1 DEF PublisherTypeOK
  <2>3. QED BY <1>2, <2>1, <2>2, PrepareKeeps
<1>7. CASE CreateFinished
  <2>1. /\ Unprepared /\ prep' = "created" /\ UNCHANGED server
        /\ UNCHANGED <<phase, asked, known, call>>
    BY <1>1, <1>7 DEF CreateFinished, Control
  <2>2. asked' \in Uids' \cup {0}
    BY <1>1, <1>2, <2>1 DEF PublisherTypeOK
  <2>3. QED BY <1>2, <2>1, <2>2, PrepareKeeps
<1>8. CASE Prepared
  BY <1>2, <1>8, PreparedKeeps DEF Prepared
<1>9. CASE PrepareFailed
  <2>1. /\ Abandon(TaskOutcome(asked)) /\ UNCHANGED server
        /\ phase \in {"start", "issue"}
    BY <1>1, <1>9 DEF PrepareFailed, Control, Unprepared
  <2>2. TaskOutcome(asked) \in Failure
    BY <1>9 DEF PrepareFailed, TaskOutcome, Failure
  <2>3. QED BY <1>2, <2>1, <2>2, AbandonKeeps
<1>10. ASSUME NEW k \in 1 .. Len(body), WriteDocuments(k)
       PROVE  PublisherTypeOK' /\ Control' /\ ServerTypeOK'
  BY <1>10, WriteKeeps
<1>11. CASE AwaitLast
  <2>1. /\ Confirming /\ config.waitForTask /\ waited' = TaskOutcome(Last(Tasks))
        /\ UNCHANGED server
        /\ UNCHANGED <<phase, prep, asked, known, batch, plan, body, requests, issued,
                       unissued, outcomes>>
    BY <1>11 DEF AwaitLast
  <2>2. waited' \in Outcome
    BY <2>1, TaskOutcomeTyped
  <2>3. QED BY <1>2, <2>1, <2>2, WaitedKeeps
<1>12. CASE ReadEarlier
  <2>1. /\ Confirming /\ waited # "none" /\ UNCHANGED server
        /\ UNCHANGED <<phase, prep, asked, known, batch, plan, body, requests, issued, unissued>>
    BY <1>12 DEF ReadEarlier
  <2>2. PICK k \in DOMAIN Tasks : Confirmed(waited) \/ Confirmed(TaskOutcome(Tasks[k]))
    BY <1>12 DEF ReadEarlier
  <2>3. TaskOutcome(Tasks[k]) \in Outcome
    BY TaskOutcomeTyped
  <2>4. waited \in Outcome
    BY <1>1, <2>1 DEF PublisherTypeOK, Outcome
  <2>5. QED BY <1>2, <2>1, <2>2, <2>3, <2>4, ConfirmedKeeps
<1>13. CASE DoNotWait
  BY <1>2, <1>13, ConfirmedKeeps DEF DoNotWait, Outcome
<1>14. QED
  BY <1>4, <1>5, <1>6, <1>7, <1>8, <1>9, <1>10, <1>11, <1>12, <1>13 DEF PublisherStep

(* Every mishap of the publisher. *)
LEMMA MishapKeeps ==
  ASSUME CallInv, UNCHANGED given, PublisherMishap
  PROVE  PublisherTypeOK' /\ Control' /\ ServerTypeOK'
<1> USE FaultsAssumption DEF FaultsAssumption
<1>1. PublisherTypeOK /\ Control /\ ServerTypeOK
  BY DEF CallInv, TypeOK
<1>2. Mishap => faults' \in 0 .. MaxFaults
  BY <1>1 DEF Mishap, ServerTypeOK
<1>3. ASSUME Mishap, UNCHANGED <<tasks, docs, indexes, late>>
      PROVE  ServerTypeOK' /\ Uids \subseteq Uids' /\ tasks' = tasks
  BY <1>1, <1>2, <1>3 DEF ServerTypeOK, Uids
<1>4. CASE ReplyLost
  <2>1. PICK q \in Requests :
          /\ Mishap /\ Abandon("retryable")
          /\ Enqueued(Target, q.kind, q.writes) \/ HeldBack(Target, q.kind, q.writes)
    BY <1>4 DEF ReplyLost
  <2>2. /\ phase \in {"start", "issue"} /\ Target \in Indexes
        /\ q.kind \in {"create", "settings", "write"} /\ q.writes \in Seq(Entry)
    BY RequestsTyped
  <2>3. ServerTypeOK' /\ DOMAIN tasks \subseteq DOMAIN tasks'
    <3>1. CASE Enqueued(Target, q.kind, q.writes)
      <4>1. /\ tasks' \in Seq(Task) /\ Len(tasks') = Len(tasks) + 1
            /\ docs' = docs /\ indexes' = indexes /\ late' = late
        BY <1>1, <2>2, <3>1, EnqueuedTypes
      <4>2. ServerTypeOK'
        BY <1>1, <1>2, <2>1, <4>1 DEF ServerTypeOK
      <4>3. tasks \in Seq(Task)
        BY <1>1 DEF ServerTypeOK
      <4>4. QED BY <4>1, <4>2, <4>3
    <3>2. CASE HeldBack(Target, q.kind, q.writes)
      <4>1. NewTask(Target, q.kind, q.writes) \in Task
        BY <2>2 DEF NewTask, Task
      <4>2. late' \subseteq Task /\ UNCHANGED <<tasks, docs, indexes>>
        BY <1>1, <3>2, <4>1 DEF HeldBack, ServerTypeOK
      <4>3. QED BY <1>1, <1>2, <2>1, <4>2 DEF ServerTypeOK
    <3>3. QED BY <2>1, <3>1, <3>2
  <2>4. Uids \subseteq Uids'
    BY <2>3, UidsKept
  <2>5. QED BY <2>1, <2>2, <2>3, <2>4, AbandonKeeps DEF Failure
<1>5. CASE RequestRefused
  <2>1. PICK q \in Requests, failure \in Failure :
          /\ Mishap /\ UNCHANGED <<tasks, docs, indexes, late>> /\ Abandon(failure)
    BY <1>5 DEF RequestRefused
  <2>2. phase \in {"start", "issue"}
    BY RequestsTyped
  <2>3. QED BY <1>3, <2>1, <2>2, AbandonKeeps
<1>6. CASE PollRefused
  <2>1. Mishap /\ UNCHANGED <<tasks, docs, indexes, late>>
    BY <1>6 DEF PollRefused
  <2>2. CASE prep \in {"create", "settings"} /\ Abandon("permanent")
    <3>1. phase \in {"start", "issue"}
      BY <1>1, <2>2 DEF Control, Unprepared
    <3>2. QED BY <1>3, <2>1, <2>2, <3>1, AbandonKeeps DEF Failure
  <2>3. CASE /\ Confirming /\ config.waitForTask
             /\ waited' = "permanent" /\ UNCHANGED outcomes
             /\ UNCHANGED <<phase, prep, asked, known, batch, plan, body, requests,
                            issued, unissued>>
    BY <1>3, <2>1, <2>3, WaitedKeeps DEF Outcome, Failure
  <2>4. CASE /\ Confirming /\ Confirmed("permanent")
             /\ UNCHANGED <<phase, prep, asked, known, batch, plan, body, requests,
                            issued, unissued>>
    BY <1>3, <2>1, <2>4, ConfirmedKeeps DEF Outcome, Failure
  <2>5. QED BY <1>6, <2>2, <2>3, <2>4 DEF PollRefused
<1>7. QED BY <1>4, <1>5, <1>6 DEF PublisherMishap

-----------------------------------------------------------------------------
(***************************************************************************)
(* The route.                                                              *)
(***************************************************************************)

(* Messages read and neither reported as delivered nor dead-lettered. *)
Open == (committed + 1 .. received) \ (acked \cup dead)

(* The messages still open are those of the call or those to be resent, in *)
(* source order, and none of them is older than a message of its document  *)
(* reported as delivered.                                                  *)
RouteInv ==
  /\ Ascending(batch) /\ Ascending(backlog)
  /\ phase \in {"issue", "confirm"} => backlog = <<>>
  /\ Range(batch) \cup Range(backlog) = Open
  /\ acked \cap dead = {}
  /\ 1 .. committed \subseteq acked \cup dead
  /\ \A n \in acked, m \in Open : SameDocument(m, n) => n < m

IInv == CallInv /\ RouteInv

(* A step of the call, of Meilisearch, or none. *)
LEMMA InnerKeeps ==
  ASSUME IInv, UNCHANGED <<given, route>>,
         \/ PublisherStep
         \/ PublisherMishap
         \/ ApplyTask /\ UNCHANGED publisher
         \/ (LoseTask \/ Restore \/ Arrival) /\ UNCHANGED publisher
         \/ UNCHANGED <<server, publisher>>
  PROVE  IInv' /\ UNCHANGED batch
<1>1. CallInv /\ ServerTypeOK /\ UNCHANGED given
  BY DEF IInv, CallInv, TypeOK
<1>2. ServerTypeOK' /\ PublisherTypeOK' /\ Control'
  <2>1. CASE PublisherStep
    BY <1>1, <2>1, StepKeeps
  <2>2. CASE PublisherMishap
    BY <1>1, <2>2, MishapKeeps
  <2>3. CASE ApplyTask /\ UNCHANGED publisher
    <3>1. ServerTypeOK' /\ DOMAIN tasks' = DOMAIN tasks
      BY <1>1, <2>3, AppliedTypes
    <3>2. Uids \subseteq Uids'
      BY <3>1, UidsKept
    <3>3. QED BY <1>1, <2>3, <3>1, <3>2, UnchangedKeeps
  <2>4. CASE (LoseTask \/ Restore \/ Arrival) /\ UNCHANGED publisher
    <3>1. ServerTypeOK' /\ Uids \subseteq Uids'
      BY <1>1, <2>4, TroubleTypes, UidsKept
    <3>2. QED BY <1>1, <2>4, <3>1, UnchangedKeeps
  <2>5. CASE UNCHANGED <<server, publisher>>
    <3>1. ServerTypeOK' /\ Uids \subseteq Uids'
      BY <1>1, <2>5 DEF ServerTypeOK, server, Uids
    <3>2. QED BY <1>1, <2>5, <3>1, UnchangedKeeps
  <2>6. QED BY <2>1, <2>2, <2>3, <2>4, <2>5
<1>3. CallInv'
  BY <1>1, <1>2 DEF CallInv, TypeOK, given, route
<1>4. batch' = batch /\ (phase' \in {"issue", "confirm"} => phase \in {"issue", "confirm"})
  <2>1. CASE PublisherStep
    <3>1. ASSUME NEW k \in 1 .. Len(body), WriteDocuments(k) PROVE batch' = batch /\ phase = "issue"
      BY <3>1 DEF WriteDocuments, Writing
    <3>2. AwaitLast \/ ReadEarlier \/ DoNotWait => batch' = batch /\ phase' = phase
      BY DEF AwaitLast, ReadEarlier, DoNotWait
    <3>3. AskCreate \/ AskSettings \/ CreateAnsweredExists \/ CreateFinished
          => batch' = batch /\ phase' = phase
      BY DEF AskCreate, AskSettings, Ask, CreateAnsweredExists, CreateFinished, call
    <3>4. Prepared => batch' = batch /\ (phase' = phase \/ phase' = "idle")
      BY DEF Prepared, call
    <3>5. PrepareFailed => batch' = batch /\ (phase' = phase \/ phase = "issue")
      BY <1>1 DEF PrepareFailed, Abandon, CallInv, Control, Unprepared
    <3>6. QED BY <2>1, <3>1, <3>2, <3>3, <3>4, <3>5 DEF PublisherStep
  <2>2. CASE PublisherMishap
    <3>1. ReplyLost => batch' = batch /\ (phase' = phase \/ phase = "issue")
      BY <1>1, RequestsTyped DEF ReplyLost, Abandon
    <3>2. RequestRefused => batch' = batch /\ (phase' = phase \/ phase = "issue")
      BY <1>1, RequestsTyped DEF RequestRefused, Abandon
    <3>3. PollRefused => batch' = batch /\ (phase' = phase \/ phase = "issue")
      BY <1>1 DEF PollRefused, Abandon, CallInv, Control, Unprepared
    <3>4. QED BY <2>2, <3>1, <3>2, <3>3 DEF PublisherMishap
  <2>3. CASE UNCHANGED publisher
    BY <2>3 DEF publisher, call
  <2>4. QED BY <2>1, <2>2, <2>3 DEF publisher
<1>5. RouteInv'
  BY <1>4 DEF IInv, RouteInv, Open, SameDocument, Index, Doc, given, route
<1>6. QED BY <1>3, <1>4, <1>5 DEF IInv

(* What a report makes of a call: each of its messages has one verdict.    *)
LEMMA ReportParts ==
  ASSUME IInv, Report
  PROVE  /\ batch \in Seq(Nat) /\ Range(batch) = Open
         /\ Outcomes \in Seq(Outcome) /\ Len(Outcomes) <= Len(plan.runs)
         /\ \A i \in 1 .. Len(batch) : Verdict(i) \in Outcome
         /\ \A i \in 1 .. Len(batch), j \in 1 .. Len(batch) :
              Verdict(i) = "retryable" /\ Verdict(j) = "ok"
                /\ SameDocument(batch[i], batch[j]) => batch[j] < batch[i]
         /\ \A i, j \in 1 .. Len(batch) : batch[i] = batch[j] => i = j
<1>1. /\ CallInv /\ RouteInv /\ PublisherTypeOK /\ Control /\ stream \in Seq(Message)
      /\ phase = "confirm"
  BY DEF IInv, CallInv, TypeOK, Report, Return, AllConfirmed
<1>2. backlog = <<>> /\ Range(backlog) = {} /\ Ascending(batch)
  <2>1. backlog = <<>> /\ Ascending(batch)
    BY <1>1 DEF RouteInv
  <2>2. QED BY <2>1 DEF Range
<1>3. Range(batch) = Open
  BY <1>1, <1>2 DEF RouteInv
<1>4. /\ batch \in Seq(DOMAIN stream) /\ Len(batch) \in Nat /\ batch \in Seq(Nat)
      /\ DOMAIN batch = 1 .. Len(batch)
      /\ \A i \in 1 .. Len(batch) : batch[i] \in Nat
  BY <1>1 DEF PublisherTypeOK
<1>5. \A i, j \in 1 .. Len(batch) : /\ batch[i] = batch[j] => i = j
                                    /\ i < j => batch[i] < batch[j]
                                    /\ batch[i] < batch[j] => i < j
  BY <1>2, <1>4 DEF Ascending
<1>6. /\ Messages \in Seq(Message) /\ Len(Messages) = Len(batch)
      /\ plan = PlanOf(Messages) /\ plan \in Plan /\ Len(plan.runs) \in Nat
  BY <1>1, CallParts
<1>7. Outcomes \in Seq(Outcome) /\ Len(Outcomes) <= Len(plan.runs)
  <2>1. outcomes \in Seq(Outcome) /\ unissued \in Failure \cup {"none"}
    BY <1>1 DEF PublisherTypeOK, Outcome
  <2>2. /\ Len(outcomes) <= Len(issued) /\ Len(issued) <= Len(plan.runs)
        /\ (unissued = "none") <=> (Len(issued) = Len(plan.runs))
        /\ Len(issued) \in Nat /\ Len(outcomes) \in Nat
    BY <1>1 DEF Control, PublisherTypeOK
  <2>3. CASE unissued # "none" /\ Len(outcomes) = Len(issued)
    <3>1. Outcomes = Append(outcomes, unissued) /\ unissued \in Outcome
      BY <2>1, <2>3 DEF Outcomes, OutcomesOf, Outcome
    <3>2. QED BY <1>6, <2>1, <2>2, <2>3, <3>1
  <2>4. CASE ~(unissued # "none" /\ Len(outcomes) = Len(issued))
    <3>1. Outcomes = outcomes
      BY <2>4 DEF Outcomes, OutcomesOf
    <3>2. QED BY <1>6, <2>1, <2>2, <3>1
  <2>5. QED BY <2>3, <2>4
<1>8. Sound(Messages, plan, Len(Messages))
  BY <1>6, PlanOfSound
<1>9. \A i \in 1 .. Len(batch) : Verdict(i) \in Outcome
  BY <1>6, <1>7, <1>8, SettledCases DEF Verdict
<1>10. ASSUME NEW i \in 1 .. Len(batch), NEW j \in 1 .. Len(batch),
              Verdict(i) = "retryable", Verdict(j) = "ok", SameDocument(batch[i], batch[j])
       PROVE  batch[j] < batch[i]
  <2>1. SUFFICES ASSUME i < j PROVE FALSE
    BY <1>2, <1>4, <1>10 DEF Ascending
  <2>2. SameKey(Messages[i], Messages[j])
    BY <1>4, <1>10 DEF SameKey, SameDocument, Index, Doc, Messages
  <2>3. /\ Settled(PlanOf(Messages), Outcomes, j) = "ok"
        /\ Settled(PlanOf(Messages), Outcomes, i) = "retryable"
    BY <1>6, <1>10 DEF Verdict
  <2>4. Len(Outcomes) <= Len(PlanOf(Messages).runs) /\ i \in 1 .. Len(Messages)
        /\ j \in 1 .. Len(Messages)
    BY <1>6, <1>7
  <2>5. QED BY <1>6, <1>7, <2>1, <2>2, <2>3, <2>4, SettleKeepsOrder
<1>11. QED BY <1>3, <1>4, <1>5, <1>7, <1>9, <1>10

(* A report keeps what the route knows of its messages. *)
LEMMA ReportKeeps ==
  ASSUME IInv, Report
  PROVE  IInv'
<1> DEFINE V(v) == {batch[i] : i \in {j \in 1 .. Len(batch) : Verdict(j) = v}}
<1>1. /\ CallInv /\ RouteInv /\ ServerTypeOK
      /\ committed \in 0 .. Len(stream) /\ received \in committed .. Len(stream)
      /\ acked \subseteq 1 .. received /\ dead \subseteq 1 .. received
      /\ stream \in Seq(Message) /\ Len(stream) \in Nat
  BY DEF IInv, CallInv, TypeOK
<1>2. /\ batch \in Seq(Nat) /\ Range(batch) = Open
      /\ \A i \in 1 .. Len(batch) : Verdict(i) \in Outcome
      /\ \A i \in 1 .. Len(batch), j \in 1 .. Len(batch) :
           Verdict(i) = "retryable" /\ Verdict(j) = "ok"
             /\ SameDocument(batch[i], batch[j]) => batch[j] < batch[i]
      /\ \A i, j \in 1 .. Len(batch) : batch[i] = batch[j] => i = j
  BY ReportParts
<1>3. /\ Range(Judged("ok")) = V("ok")
      /\ Range(Judged("permanent")) = V("permanent")
      /\ Range(Judged("retryable")) = V("retryable")
      /\ Judged("retryable") \in Seq(Nat) /\ Ascending(Judged("retryable"))
  BY <1>1, <1>2, JudgedParts DEF RouteInv
<1>4. /\ acked' = acked \cup V("ok") /\ dead' = dead \cup V("permanent")
      /\ backlog' = Judged("retryable") /\ received' = received /\ committed' = committed
      /\ Return /\ UNCHANGED <<given, server>> /\ batch' = <<>> /\ phase' = "idle"
  BY <1>3 DEF Report, Return, NoCall
<1>5. V("ok") \cup V("permanent") \cup V("retryable") = Open
  <2>1. Range(batch) = {batch[i] : i \in 1 .. Len(batch)}
    BY <1>2 DEF Range
  <2>2. \A i \in 1 .. Len(batch) : Verdict(i) \in {"ok", "permanent", "retryable"}
    BY <1>2 DEF Outcome, Failure
  <2>3. QED BY <1>2, <2>1, <2>2
<1>6. /\ V("ok") \cap V("permanent") = {} /\ V("ok") \cap V("retryable") = {}
      /\ V("permanent") \cap V("retryable") = {}
  BY <1>2
<1>7. \A n \in V("ok"), m \in V("retryable") : SameDocument(m, n) => n < m
  BY <1>2
<1> HIDE DEF V
<1>8. Open \subseteq 1 .. received /\ Open \cap (acked \cup dead) = {}
  BY <1>1 DEF Open
<1>9. Open' = V("retryable")
  BY <1>1, <1>4, <1>5, <1>6, <1>8 DEF Open
<1>10. TypeOK' /\ Control' /\ stream' = stream
  <2>1. Uids \subseteq Uids' /\ ServerTypeOK'
    BY <1>1, <1>4 DEF Uids, server, ServerTypeOK
  <2>2. PublisherTypeOK' /\ Control'
    BY <1>1, <1>4, <2>1, EndKeeps
  <2>3. acked' \subseteq 1 .. received /\ dead' \subseteq 1 .. received
    BY <1>1, <1>4, <1>5, <1>8
  <2>4. backlog' \in Seq(1 .. received)
    <3> DEFINE s == Judged("retryable")
    <3>1. s \in Seq(Nat) /\ Range(s) \subseteq 1 .. received
      BY <1>3, <1>5, <1>8
    <3> HIDE DEF s
    <3>2. \A k \in 1 .. Len(s) : s[k] \in 1 .. received
      BY <3>1 DEF Range
    <3>3. s \in Seq(1 .. received)
      BY <3>1, <3>2, Narrowed
    <3>4. QED BY <1>4, <3>3 DEF s
  <2>5. QED BY <1>1, <1>4, <2>1, <2>2, <2>3, <2>4 DEF TypeOK, given
<1>11. RouteInv'
  <2>1. Ascending(batch') /\ Range(batch') = {}
    BY <1>4 DEF Ascending, Range
  <2>2. Range(batch') \cup Range(backlog') = Open'
    BY <1>3, <1>4, <1>9, <2>1
  <2>3. acked' \cap dead' = {}
    BY <1>1, <1>4, <1>5, <1>6, <1>8 DEF RouteInv
  <2>4. 1 .. committed' \subseteq acked' \cup dead'
    BY <1>1, <1>4 DEF RouteInv
  <2>5. \A m, n : SameDocument(m, n)' <=> SameDocument(m, n)
    BY <1>10 DEF SameDocument, Index, Doc
  <2>6. ASSUME NEW n \in acked', NEW m \in Open', SameDocument(m, n) PROVE n < m
    <3>1. m \in V("retryable") /\ m \in Open
      BY <1>5, <1>9
    <3>2. CASE n \in acked
      BY <1>1, <2>6, <3>1, <3>2 DEF RouteInv
    <3>3. CASE n \in V("ok")
      BY <1>7, <2>6, <3>1, <3>3
    <3>4. QED BY <1>4, <3>2, <3>3
  <2>7. QED BY <1>3, <1>4, <2>1, <2>2, <2>3, <2>4, <2>5, <2>6 DEF RouteInv
<1>12. QED BY <1>1, <1>10, <1>11 DEF IInv, CallInv

(* The other steps of the route. *)
LEMMA RouteKeeps ==
  ASSUME IInv, Receive \/ Resend \/ GiveUp \/ Commit \/ Crash
  PROVE  IInv'
<1>1. /\ CallInv /\ RouteInv /\ ServerTypeOK /\ PublisherTypeOK /\ Control
      /\ committed \in Nat /\ received \in Nat /\ committed <= received
      /\ received <= Len(stream) /\ Len(stream) \in Nat /\ stream \in Seq(Message)
      /\ acked \subseteq 1 .. received /\ dead \subseteq 1 .. received
      /\ backlog \in Seq(1 .. received)
  BY DEF IInv, CallInv, TypeOK
<1>2. /\ Ascending(<<>>) /\ Range(<<>>) = {} /\ \A S : <<>> \in Seq(S)
  BY DEF Ascending, Range
<1>3. phase = "idle" => batch = <<>> /\ Open = Range(backlog)
  BY <1>1, <1>2 DEF Control, Quiet, RouteInv
<1>4. given' = given
  BY DEF Receive, Resend, GiveUp, Commit, Crash, Restarted
<1>5. stream' = stream /\ config' = config
      /\ \A m, n : SameDocument(m, n)' <=> SameDocument(m, n)
  BY <1>4 DEF given, SameDocument, Index, Doc
<1>6. CASE Receive
  <2>1. /\ committed = received /\ UNCHANGED <<server, committed, backlog, acked, dead>>
        /\ phase = "idle"
    BY <1>6 DEF Receive, SendBatch
  <2>2. PICK n \in received + 1 .. Min({received + BatchSize, Len(stream)}) :
          /\ received' = n /\ SendBatch([k \in 1 .. n - received |-> received + k])
    BY <1>6 DEF Receive
  <2> DEFINE numbers == [k \in 1 .. n - received |-> received + k]
  <2>3. n \in Nat /\ received + 1 <= n /\ n <= Len(stream)
    <3> DEFINE m == Min({received + BatchSize, Len(stream)})
    <3>1. received + BatchSize \in Nat
      BY <1>1, RouteAssumption DEF RouteAssumption
    <3>2. {received + BatchSize, Len(stream)} \subseteq Nat
      BY <1>1, <3>1
    <3>3. m \in {received + BatchSize, Len(stream)}
          /\ \A k \in {received + BatchSize, Len(stream)} : m <= k
      BY <3>2, MinOf
    <3>4. m <= Len(stream) /\ m \in Nat
      BY <3>1, <3>3, <1>1
    <3> HIDE DEF m
    <3>5. n \in received + 1 .. m
      BY <2>2 DEF m
    <3>6. QED BY <1>1, <3>4, <3>5
  <2>4. n - received \in Nat /\ \A k \in 1 .. n - received : received + k \in 1 .. Len(stream)
    BY <1>1, <2>3
  <2>5. numbers \in [1 .. n - received -> DOMAIN stream]
    <3>1. DOMAIN stream = 1 .. Len(stream)
      BY <1>1
    <3>2. QED BY <2>4, <3>1
  <2>6. numbers \in Seq(DOMAIN stream) /\ Len(numbers) = n - received
    BY <2>4, <2>5
  <2>7. Ascending(numbers) /\ Range(numbers) = received + 1 .. n
    <3>1. Ascending(numbers)
      BY <1>1, <2>4, <2>6 DEF Ascending
    <3>2. Range(numbers) = {received + k : k \in 1 .. n - received}
      BY DEF Range
    <3>3. \A i \in received + 1 .. n : i - received \in 1 .. n - received
                                      /\ received + (i - received) = i
      BY <1>1, <2>3
    <3>4. {received + k : k \in 1 .. n - received} = received + 1 .. n
      <4>1. \A k \in 1 .. n - received : received + k \in received + 1 .. n
        BY <1>1, <2>3
      <4>2. QED BY <3>3, <4>1
    <3>5. QED BY <3>1, <3>2, <3>4
  <2> HIDE DEF numbers
  <2>8. SendBatch(numbers)
    BY <2>2 DEF numbers
  <2>9. PublisherTypeOK' /\ Control' /\ batch' = numbers
    BY <1>1, <1>4, <2>1, <2>6, <2>8, SendKeeps DEF server, SendBatch
  <2>10. Open' = received + 1 .. n /\ Open = {}
    BY <1>1, <2>1, <2>2, <2>3 DEF Open
  <2>11. backlog = <<>>
    <3>1. Range(backlog) = {}
      BY <1>3, <2>1, <2>10
    <3>2. Len(backlog) \in Nat /\ DOMAIN backlog = 1 .. Len(backlog)
      BY <1>1
    <3>3. 1 \notin DOMAIN backlog
      BY <3>1 DEF Range
    <3>4. QED BY <1>1, <3>2, <3>3
  <2>12. TypeOK'
    <3>1. received' \in committed' .. Len(stream') /\ committed' \in 0 .. Len(stream')
      BY <1>1, <1>5, <2>1, <2>2, <2>3
    <3>2. acked' \subseteq 1 .. received' /\ dead' \subseteq 1 .. received'
      BY <1>1, <2>1, <2>2, <2>3
    <3>3. backlog' \in Seq(1 .. received')
      BY <1>2, <2>1, <2>11
    <3>4. QED BY <1>1, <2>1, <2>9, <3>1, <3>2, <3>3 DEF TypeOK, ServerTypeOK, server
  <2>13. RouteInv'
    <3>1. \A m \in Open', k \in acked' : k < m
      BY <1>1, <2>1, <2>10
    <3>2. Range(batch') \cup Range(backlog') = Open'
      BY <1>2, <2>1, <2>7, <2>9, <2>10, <2>11
    <3>3. QED BY <1>1, <1>2, <2>1, <2>7, <2>9, <2>11, <3>1, <3>2 DEF RouteInv
  <2>14. QED BY <1>1, <1>5, <2>9, <2>12, <2>13 DEF IInv, CallInv
<1>7. CASE Resend
  <2>1. /\ SendBatch(backlog) /\ backlog' = <<>> /\ phase = "idle"
        /\ UNCHANGED <<given, server, received, committed, acked, dead>>
    BY <1>7 DEF Resend, SendBatch
  <2>2. backlog \in Seq(DOMAIN stream)
    <3>1. DOMAIN stream = 1 .. Len(stream) /\ 1 .. received \subseteq DOMAIN stream
      BY <1>1
    <3>2. QED BY <1>1, <3>1
  <2>3. PublisherTypeOK' /\ Control' /\ batch' = backlog
    BY <1>1, <1>4, <2>1, <2>2, SendKeeps DEF server, SendBatch
  <2>4. TypeOK'
    BY <1>1, <1>2, <1>5, <2>1, <2>3 DEF TypeOK, ServerTypeOK, server
  <2>5. Open' = Open
    BY <2>1 DEF Open
  <2>6. RouteInv'
    <3>1. Range(batch') \cup Range(backlog') = Open'
      BY <1>2, <1>3, <2>1, <2>3, <2>5
    <3>2. QED BY <1>1, <1>2, <1>5, <2>1, <2>3, <2>5, <3>1 DEF RouteInv
  <2>7. QED BY <1>1, <1>5, <2>3, <2>4, <2>6 DEF IInv, CallInv
<1>8. ASSUME UNCHANGED <<server, publisher>>
      PROVE  ServerTypeOK' /\ PublisherTypeOK' /\ Control'
  <2>1. Uids \subseteq Uids' /\ ServerTypeOK'
    BY <1>1, <1>8 DEF Uids, server, ServerTypeOK
  <2>2. QED BY <1>1, <1>4, <1>8, <2>1, UnchangedKeeps
<1>9. CASE GiveUp
  <2>1. /\ dead' = dead \cup Range(backlog) /\ backlog' = <<>> /\ phase = "idle"
        /\ UNCHANGED <<server, publisher, received, committed, acked>>
    BY <1>9 DEF GiveUp
  <2>2. phase' = phase /\ batch' = batch
    BY <2>1 DEF publisher, call
  <2>3. Open' = {} /\ Open \subseteq 1 .. received /\ Open \cap acked = {}
    BY <1>1, <1>3, <2>1 DEF Open
  <2>4. TypeOK'
    <3>1. dead' \subseteq 1 .. received /\ backlog' \in Seq(1 .. received)
      BY <1>1, <1>2, <1>3, <2>1, <2>3
    <3>2. /\ received' = received /\ committed' = committed /\ acked' = acked
          /\ ServerTypeOK' /\ PublisherTypeOK'
      BY <1>8, <2>1
    <3>3. committed \in 0 .. Len(stream) /\ received \in committed .. Len(stream)
      BY <1>1
    <3>4. QED BY <1>1, <1>5, <3>1, <3>2, <3>3 DEF TypeOK
  <2>5. RouteInv'
    <3>1. acked' \cap dead' = {} /\ 1 .. committed' \subseteq acked' \cup dead'
      BY <1>1, <1>3, <2>1, <2>3 DEF RouteInv
    <3>2. Range(batch') \cup Range(backlog') = Open'
      BY <1>2, <1>3, <2>1, <2>2, <2>3
    <3>3. QED BY <1>1, <1>2, <1>3, <2>1, <2>2, <2>3, <3>1, <3>2 DEF RouteInv
  <2>6. QED BY <1>1, <1>5, <1>8, <2>1, <2>4, <2>5 DEF IInv, CallInv
<1>10. CASE Commit
  <2>1. /\ committed' = received /\ backlog = <<>> /\ phase = "idle"
        /\ UNCHANGED <<server, publisher, received, backlog, acked, dead>>
    BY <1>10 DEF Commit
  <2>2. phase' = phase /\ batch' = batch
    BY <2>1 DEF publisher, call
  <2>3. Open = {} /\ Open' = {}
    BY <1>1, <1>2, <1>3, <2>1 DEF Open
  <2>4. TypeOK'
    BY <1>1, <1>5, <1>8, <2>1 DEF TypeOK
  <2>5. RouteInv'
    <3>1. 1 .. committed' \subseteq acked' \cup dead'
      BY <1>1, <2>1, <2>3 DEF RouteInv, Open
    <3>2. Range(batch') \cup Range(backlog') = Open'
      BY <1>2, <1>3, <2>1, <2>2, <2>3
    <3>3. acked' \cap dead' = {} /\ Ascending(batch') /\ Ascending(backlog')
      BY <1>1, <2>1, <2>2 DEF RouteInv
    <3>4. QED BY <2>1, <2>2, <2>3, <3>1, <3>2, <3>3 DEF RouteInv
  <2>6. QED BY <1>1, <1>5, <1>8, <2>1, <2>4, <2>5 DEF IInv, CallInv
<1>11. CASE Crash
  <2>1. /\ Restarted /\ Mishap /\ received' = committed /\ backlog' = <<>>
        /\ acked' = acked \cap 1 .. committed /\ dead' = dead \cap 1 .. committed
        /\ UNCHANGED <<tasks, docs, indexes, late, committed>>
    BY <1>11 DEF Crash
  <2>2. batch' = <<>>
    BY <2>1 DEF Restarted, NoCall
  <2>3. ServerTypeOK' /\ Uids \subseteq Uids'
    BY <1>1, <2>1, FaultsAssumption DEF ServerTypeOK, Mishap, FaultsAssumption, Uids
  <2>4. PublisherTypeOK' /\ Control'
    BY <1>1, <1>4, <2>1, <2>3, EndKeeps
  <2>5. TypeOK'
    BY <1>1, <1>2, <1>5, <2>1, <2>3, <2>4 DEF TypeOK
  <2>6. Open' = {}
    BY <1>1, <2>1 DEF Open
  <2>7. RouteInv'
    <3>1. acked' \cap dead' = {} /\ 1 .. committed' \subseteq acked' \cup dead'
      BY <1>1, <2>1 DEF RouteInv
    <3>2. QED BY <1>2, <2>1, <2>2, <2>6, <3>1 DEF RouteInv
  <2>8. QED BY <1>1, <1>5, <2>4, <2>5, <2>7 DEF IInv, CallInv
<1>12. QED BY <1>6, <1>7, <1>9, <1>10, <1>11

LEMMA NextKeeps ==
  ASSUME IInv, [Next]_vars
  PROVE  IInv'
<1>1. CASE Receive \/ Resend \/ GiveUp \/ Commit \/ Crash
  BY <1>1, RouteKeeps
<1>2. CASE Report
  BY <1>2, ReportKeeps
<1>3. CASE Call
  BY <1>3, InnerKeeps DEF Call
<1>4. CASE Apply
  BY <1>4, InnerKeeps DEF Apply
<1>5. CASE Trouble
  BY <1>5, InnerKeeps DEF Trouble
<1>6. CASE UNCHANGED vars
  BY <1>6, InnerKeeps DEF vars
<1>7. QED BY <1>1, <1>2, <1>3, <1>4, <1>5, <1>6 DEF Next

LEMMA InitHolds == Init => IInv
<1>1. SUFFICES ASSUME Init PROVE IInv
  OBVIOUS
<1>2. PICK s \in Scenarios : config = s.config /\ stream = s.stream
  BY <1>1 DEF Init
<1>3. config \in Config /\ stream \in Seq(Message) /\ Len(stream) \in Nat
  BY <1>2, RouteAssumption DEF RouteAssumption
<1>4. ServerTypeOK
  BY <1>1, FaultsAssumption DEF Init, ServerInit, ServerTypeOK, FaultsAssumption
<1>5. Quiet /\ prep = "none" /\ asked = 0 /\ known = {} /\ phase = Created
  BY <1>1 DEF Init, PublisherInit, Quiet
<1>6. EmptyPlan \in Plan /\ \A S : <<>> \in Seq(S)
  BY <1>3, EmptyWellFormed DEF WellFormed
<1>7. phase \in {"start", "idle"} /\ (phase = "start" => ~Routed /\ config.createIndex)
  BY <1>5 DEF Created
<1>8. PublisherTypeOK
  BY <1>3, <1>5, <1>6, <1>7 DEF PublisherTypeOK, Quiet
<1>9. Control
  BY <1>5, <1>7 DEF Control, Quiet
<1>10. /\ received = 0 /\ committed = 0 /\ backlog = <<>> /\ acked = {} /\ dead = {}
       /\ batch = <<>>
  BY <1>1, <1>5 DEF Init, Quiet
<1>11. TypeOK
  BY <1>3, <1>4, <1>6, <1>8, <1>10 DEF TypeOK
<1>12. RouteInv
  BY <1>10 DEF RouteInv, Open, Ascending, Range
<1>13. QED BY <1>3, <1>9, <1>11, <1>12 DEF IInv, CallInv

(* The invariant of the route: every step keeps it. *)
THEOREM RouteInvariant == Spec => []IInv
BY InitHolds, NextKeeps, PTL DEF Spec

(* Every variable keeps its type: in particular no request names a message *)
(* that is not in the batch, and nothing is waited for that was not asked  *)
(* for.                                                                    *)
THEOREM TypeCorrect == Spec => []TypeOK
<1>1. IInv => TypeOK
  BY DEF IInv, CallInv
<1>2. QED BY <1>1, RouteInvariant, PTL

(* Nothing handed back to be resent is older than a write of its document  *)
(* reported as delivered, whatever failed and in whatever order.           *)
THEOREM ResendBehindNoAckHolds == Spec => []ResendBehindNoAck
<1>1. IInv => ResendBehindNoAck
  <2>1. SUFFICES ASSUME IInv, NEW n \in acked, NEW k \in DOMAIN backlog,
                        SameDocument(backlog[k], n)
                 PROVE  n < backlog[k]
    BY DEF ResendBehindNoAck
  <2>2. backlog[k] \in Open
    BY <2>1 DEF IInv, RouteInv, Range
  <2>3. QED BY <2>1, <2>2 DEF IInv, RouteInv
<1>2. QED BY <1>1, RouteInvariant, PTL

LEMMA CallEnds ==
  ASSUME CallInv, AllConfirmed
  PROVE  [issued |-> Len(issued), unissued |-> unissued, confirmed |-> outcomes] \in Calls(plan)
<1> DEFINE c == [issued |-> Len(issued), unissued |-> unissued, confirmed |-> outcomes]
<1>1. PublisherTypeOK /\ Control /\ phase = "confirm"
  BY DEF CallInv, TypeOK, AllConfirmed
<1>2. /\ Len(issued) \in 0 .. Len(plan.runs) /\ Len(plan.runs) \in Nat
      /\ Len(outcomes) \in Nat /\ Len(outcomes) <= Len(issued)
      /\ (unissued = "none") <=> (Len(issued) = Len(plan.runs))
      /\ unissued \in Failure \cup {"none"}
  BY <1>1, CallParts DEF Control, PublisherTypeOK
<1>3. outcomes \in UNION {[1 .. n -> Outcome] : n \in 0 .. Len(plan.runs)}
  <3>1. outcomes \in [1 .. Len(outcomes) -> Outcome]
    BY <1>1 DEF PublisherTypeOK, Outcome
  <3>2. Len(outcomes) \in 0 .. Len(plan.runs)
    BY <1>2
  <3>3. QED BY <3>1, <3>2
<1>4. \A r \in DOMAIN outcomes : ~Behind(plan, outcomes, r)
  BY <1>1 DEF Control
<1>5. Len(outcomes) = Len(issued) \/ Behind(plan, outcomes, Len(outcomes) + 1)
  BY <1>1, <1>2 DEF AllConfirmed, Confirming, Passed
<1>6. c \in [issued : 0 .. Len(plan.runs), unissued : Failure \cup {"none"},
             confirmed : UNION {[1 .. n -> Outcome] : n \in 0 .. Len(plan.runs)}]
  BY <1>2, <1>3
<1>7. c.issued = Len(issued) /\ c.unissued = unissued /\ c.confirmed = outcomes
  OBVIOUS
<1> HIDE DEF c
<1>8. QED BY <1>2, <1>4, <1>5, <1>6, <1>7 DEF Calls

(* A call ends in one of the ways the specification of a call allows:      *)
(* stopping at the first failure to issue, and confirming up to the first  *)
(* run behind a failed segment, no further and no less.                    *)
THEOREM EndsAsCallHolds == Spec => []EndsAsCall
<1>1. IInv => EndsAsCall
  BY CallEnds DEF IInv, EndsAsCall
<1>2. QED BY <1>1, RouteInvariant, PTL

Request(q) == \E r \in Requests : q = NewTask(Target, r.kind, r.writes)

(* What a step does to the queue: unless the server is restored, the tasks *)
(* in it stay as they were asked for, and a task that joins them was asked *)
(* for now or was held back on the way.                                    *)
LEMMA QueueStep ==
  ASSUME IInv, [Next]_vars, ~Restore
  PROVE  /\ \/ tasks' = tasks
            \/ ApplyTask \/ LoseTask
            \/ tasks' # tasks /\ Len(tasks') = Len(tasks) + 1
         /\ DOMAIN tasks \subseteq DOMAIN tasks'
         /\ \A t \in DOMAIN tasks : /\ tasks'[t].index = tasks[t].index
                                    /\ tasks'[t].kind = tasks[t].kind
                                    /\ tasks'[t].writes = tasks[t].writes
         /\ \A t \in DOMAIN tasks' \ DOMAIN tasks :
              /\ t = Len(tasks) + 1
              /\ late' = late => Request(tasks'[t])
              /\ late' # late => tasks'[t] \in late
         /\ \A q \in late' : q \in late \/ Request(q)
<1> DEFINE Grown == /\ Len(tasks') = Len(tasks) + 1 /\ tasks' # tasks
                    /\ DOMAIN tasks' = DOMAIN tasks \cup {Len(tasks) + 1}
                    /\ \A t \in DOMAIN tasks : tasks'[t] = tasks[t]
           Goal == /\ \/ tasks' = tasks
                      \/ ApplyTask \/ LoseTask
                      \/ tasks' # tasks /\ Len(tasks') = Len(tasks) + 1
                   /\ DOMAIN tasks \subseteq DOMAIN tasks'
                   /\ \A t \in DOMAIN tasks : /\ tasks'[t].index = tasks[t].index
                                              /\ tasks'[t].kind = tasks[t].kind
                                              /\ tasks'[t].writes = tasks[t].writes
                   /\ \A t \in DOMAIN tasks' \ DOMAIN tasks :
                        /\ t = Len(tasks) + 1
                        /\ late' = late => Request(tasks'[t])
                        /\ late' # late => tasks'[t] \in late
                   /\ \A q \in late' : q \in late \/ Request(q)
<1>1. CallInv /\ ServerTypeOK /\ tasks \in Seq(Task)
  BY DEF IInv, CallInv, TypeOK, ServerTypeOK
<1>2. ASSUME NEW x, tasks' = Append(tasks, x)
      PROVE  Grown /\ tasks'[Len(tasks) + 1] = x
  BY <1>1, <1>2
<1>3. ASSUME NEW r \in Requests, Enqueued(Target, r.kind, r.writes)
      PROVE  Goal
  <2>1. tasks' = Append(tasks, NewTask(Target, r.kind, r.writes)) /\ late' = late
    BY <1>3 DEF Enqueued
  <2>2. Grown /\ tasks'[Len(tasks) + 1] = NewTask(Target, r.kind, r.writes)
    BY <1>2, <2>1
  <2>3. Request(tasks'[Len(tasks) + 1])
    BY <1>3, <2>2 DEF Request
  <2>4. QED BY <2>1, <2>2, <2>3
<1>4. ASSUME tasks' = tasks, late' = late PROVE Goal
  BY <1>4
<1>5. CASE Call
  <2>1. CASE AskCreate
    <3>1. [kind |-> "create", writes |-> <<>>] \in Requests
      <4>1. Unprepared /\ prep = "none" /\ prep # "created" /\ ~Writing
        BY <2>1 DEF AskCreate, Writing
      <4>2. Requests = {[kind |-> "create", writes |-> <<>>]}
        BY <4>1 DEF Requests
      <4>3. QED BY <4>2
    <3>2. Enqueued(Target, "create", <<>>)
      BY <2>1 DEF AskCreate, Ask
    <3>3. QED BY <1>3, <3>1, <3>2
  <2>2. CASE AskSettings
    <3>1. [kind |-> "settings", writes |-> <<>>] \in Requests
      <4>1. prep = "created" /\ config.settings /\ ~(Unprepared /\ prep = "none") /\ ~Writing
        BY <2>2 DEF AskSettings, Writing
      <4>2. Requests = {[kind |-> "settings", writes |-> <<>>]}
        BY <4>1 DEF Requests
      <4>3. QED BY <4>2
    <3>2. Enqueued(Target, "settings", <<>>)
      BY <2>2 DEF AskSettings, Ask
    <3>3. QED BY <1>3, <3>1, <3>2
  <2>3. ASSUME NEW l \in 1 .. Len(body), WriteDocuments(l)
        PROVE  Goal
    <3>1. Writing /\ l \in Sizes /\ Enqueued(Target, "write", Entries(l))
      BY <2>3 DEF WriteDocuments
    <3>2. [kind |-> "write", writes |-> Entries(l)] \in Requests
      <4>1. ~(Unprepared /\ prep = "none") /\ ~(prep = "created" /\ config.settings)
        BY <3>1 DEF Writing
      <4>2. Requests = {[kind |-> "write", writes |-> Entries(k)] : k \in Sizes}
        BY <3>1, <4>1 DEF Requests
      <4>3. QED BY <3>1, <4>2
    <3>3. QED BY <1>3, <3>1, <3>2
  <2>4. CASE CreateAnsweredExists \/ CreateFinished \/ Prepared \/ PrepareFailed
              \/ AwaitLast \/ ReadEarlier \/ DoNotWait
    BY <1>4, <2>4 DEF CreateAnsweredExists, CreateFinished, Prepared, PrepareFailed,
                      AwaitLast, ReadEarlier, DoNotWait, server
  <2>5. QED BY <1>5, <2>1, <2>2, <2>3, <2>4 DEF Call, PublisherStep
<1>6. CASE PublisherMishap
  <2>1. CASE ReplyLost
    <3>1. PICK r \in Requests : \/ Enqueued(Target, r.kind, r.writes)
                                \/ HeldBack(Target, r.kind, r.writes)
      BY <2>1 DEF ReplyLost
    <3>2. CASE HeldBack(Target, r.kind, r.writes)
      <4>1. tasks' = tasks /\ late' = late \cup {NewTask(Target, r.kind, r.writes)}
        BY <3>2 DEF HeldBack
      <4>2. Request(NewTask(Target, r.kind, r.writes))
        BY DEF Request
      <4>3. QED BY <4>1, <4>2
    <3>3. QED BY <1>3, <3>1, <3>2
  <2>2. CASE RequestRefused \/ PollRefused
    BY <1>4, <2>2 DEF RequestRefused, PollRefused
  <2>3. QED BY <1>6, <2>1, <2>2 DEF PublisherMishap
<1>7. CASE ApplyTask
  <2>1. /\ DOMAIN tasks' = DOMAIN tasks /\ late' = late
        /\ \A t \in DOMAIN tasks : /\ tasks'[t].index = tasks[t].index
                                   /\ tasks'[t].kind = tasks[t].kind
                                   /\ tasks'[t].writes = tasks[t].writes
    BY <1>1, <1>7, AppliedTypes
  <2>2. QED BY <1>7, <2>1
<1>8. CASE LoseTask
  <2>1. PICK t \in DOMAIN tasks : FailTask(t) \/ ForgetTask(t)
    BY <1>8 DEF LoseTask
  <2>2. PICK status \in {"failed", "unknown"} : Ends(t, status)
    BY <2>1 DEF FailTask, ForgetTask
  <2>3. /\ DOMAIN tasks' = DOMAIN tasks
        /\ \A u \in DOMAIN tasks : /\ tasks'[u].index = tasks[u].index
                                   /\ tasks'[u].kind = tasks[u].kind
                                   /\ tasks'[u].writes = tasks[u].writes
    BY <1>1, <2>1, <2>2, EndsTypes
  <2>4. late' = late
    BY <2>1 DEF FailTask, ForgetTask
  <2>5. QED BY <1>8, <2>3, <2>4
<1>9. CASE Arrival
  <2>1. PICK q \in late : tasks' = Append(tasks, q) /\ late' = late \ {q}
    BY <1>9 DEF Arrival
  <2>2. Grown /\ tasks'[Len(tasks) + 1] = q /\ late' # late
    BY <1>2, <2>1
  <2>3. QED BY <2>1, <2>2
<1>10. CASE Receive \/ Resend \/ GiveUp \/ Report \/ Commit \/ Crash \/ UNCHANGED vars
  BY <1>4, <1>10 DEF Receive, Resend, GiveUp, Report, Commit, Crash, vars, server
<1>11. Goal
  BY <1>5, <1>6, <1>7, <1>8, <1>9, <1>10 DEF Next, Apply, Trouble
<1>12. QED BY <1>11

(* What a step adds to the queue, but for a request held back on the way,  *)
(* are writes of the call's own messages, or none.                         *)
LEMMA NewTasks ==
  ASSUME IInv, [Next]_vars, late' = late,
         NEW t \in DOMAIN tasks' \ DOMAIN tasks, NEW k \in DOMAIN tasks'[t].writes
  PROVE  \E i \in DOMAIN batch : tasks'[t].writes[k].number = batch[i]
<1>1. CallInv
  BY DEF IInv
<1>2. ~Restore
  BY DEF Restore
<1>3. Request(tasks'[t])
  BY <1>2, QueueStep
<1>4. PICK q \in Requests : tasks'[t] = NewTask(Target, q.kind, q.writes)
  BY <1>3 DEF Request
<1>5. tasks'[t].writes = q.writes
  BY <1>4 DEF NewTask
<1>6. PICK l \in 1 .. Len(body) : Writing /\ q.writes = Entries(l)
  BY <1>1, <1>5, RequestsTyped
<1>7. /\ Entries(l) \in Seq(Entry) /\ Len(Entries(l)) = l
      /\ \A j \in 1 .. l : /\ body[j] \in DOMAIN batch
                           /\ Entries(l)[j].number = batch[body[j]]
  BY <1>1, <1>6, EntriesTyped DEF Writing
<1>8. k \in 1 .. l
  BY <1>5, <1>6, <1>7
<1>9. QED BY <1>5, <1>6, <1>7, <1>8

(* Whatever a step puts into the queue, but for a request held back on the *)
(* way, is newer than what was reported as delivered for the document.     *)
THEOREM SentBehindAckedHolds == Spec => SentBehindAcked
<1>1. ASSUME IInv, [Next]_vars, late' = late,
             NEW t \in DOMAIN tasks' \ DOMAIN tasks, NEW k \in DOMAIN tasks'[t].writes,
             NEW n \in acked, SameDocument(tasks'[t].writes[k].number, n)
      PROVE  tasks'[t].writes[k].number > n
  <2>1. PICK i \in DOMAIN batch : tasks'[t].writes[k].number = batch[i]
    BY <1>1, NewTasks
  <2>2. batch[i] \in Open /\ batch[i] \in Nat /\ n \in Nat
    BY <1>1, <2>1 DEF IInv, RouteInv, Range, CallInv, TypeOK, PublisherTypeOK
  <2>3. QED BY <1>1, <2>1, <2>2 DEF IInv, RouteInv
<1>2. IInv /\ [Next]_vars =>
        [late' = late =>
           \A t \in DOMAIN tasks' \ DOMAIN tasks : \A k \in DOMAIN tasks'[t].writes :
             \A n \in acked : SameDocument(tasks'[t].writes[k].number, n) =>
                               tasks'[t].writes[k].number > n]_vars
  BY <1>1
<1>3. QED BY <1>2, RouteInvariant, PTL DEF Spec, SentBehindAcked

(***************************************************************************)
(* What a report is worth.                                                 *)
(***************************************************************************)
(* What a task writes are messages of the stream, where they belong. *)
Addressed(q) ==
  IF q.kind = "write"
  THEN \A k \in DOMAIN q.writes : /\ q.writes[k].number \in DOMAIN stream
                                  /\ q.writes[k].doc = Doc(q.writes[k].number)
                                  /\ q.index = Index(q.writes[k].number)
  ELSE q.writes = <<>>

AddressInv == /\ \A t \in DOMAIN tasks : Addressed(tasks[t])
              /\ \A q \in late : Addressed(q) /\ q.status = "enqueued"

(* The message at place p of run r. *)
Number(r, p) == batch[plan.runs[r].positions[p]]

Writes(t, n) == \E k \in DOMAIN tasks[t].writes : tasks[t].writes[k].number = n

(* The tasks ts write the messages at the first j places of run r.         *)
TakenIn(queue, b, p, ts, r, j) ==
  /\ \A i \in DOMAIN ts :
       /\ ts[i] \in DOMAIN queue
       /\ \A k \in DOMAIN queue[ts[i]].writes : \E q \in 1 .. j :
            queue[ts[i]].writes[k].number = b[p.runs[r].positions[q]]
  /\ \A q \in 1 .. j : \E i \in DOMAIN ts : \E k \in DOMAIN queue[ts[i]].writes :
       queue[ts[i]].writes[k].number = b[p.runs[r].positions[q]]

Taken(ts, r, j) == TakenIn(tasks, batch, plan, ts, r, j)

(* How many messages of the current run have been sent. *)
Done == Len(CurrentRun.positions) - Len(body)

(* Meilisearch took what the call counts as issued. *)
TakenInv ==
  /\ phase \in {"issue", "confirm"} =>
       \A r \in DOMAIN issued : Taken(issued[r], r, Len(plan.runs[r].positions))
  /\ phase = "issue" => Taken(requests, Len(issued) + 1, Done)

AckedInv == \A n \in acked : \E t \in DOMAIN tasks : Writes(t, n)

Configured(i) == indexes[i] = "configured"

(* An index that is written to, or taken to be prepared, has its settings. *)
SettingsFirst ==
  /\ \A t \in DOMAIN tasks : tasks[t].kind = "write" => Configured(tasks[t].index)
  /\ \A t \in DOMAIN tasks :
       tasks[t].kind = "settings" /\ tasks[t].status = "succeeded" => Configured(tasks[t].index)
  /\ \A q \in late : q.kind = "write" => Configured(q.index)
  /\ \A i \in known : Configured(i)
  /\ ~Routed /\ phase # "start" => Configured(Literal)
  /\ prep = "settings" => /\ asked \in DOMAIN tasks
                          /\ tasks[asked].kind = "settings" /\ tasks[asked].index = Target
  /\ \A i \in Indexes, d \in Docs : docs[i][d] # 0 => Configured(i)

SettingsInv == config.createIndex /\ config.settings => SettingsFirst

-----------------------------------------------------------------------------
(* No entry behind the k-th of task t has an older message of its document *)
Newest(t, k) ==
  \A u \in DOMAIN tasks : \A l \in DOMAIN tasks[u].writes :
    /\ t < u \/ (t = u /\ k <= l)
    /\ SameDocument(tasks[u].writes[l].number, tasks[t].writes[k].number)
    => tasks[t].writes[k].number <= tasks[u].writes[l].number

(* The tasks the call may read its outcomes from. *)
MineOf(complete, open) == (UNION {Range(complete[r]) : r \in DOMAIN complete}) \cup Range(open)

Mine == MineOf(issued, IF phase = "issue" THEN requests ELSE <<>>)

Prompt == late = {}

NewestInv == \A t \in Mine : \A k \in DOMAIN tasks[t].writes : Newest(t, k)

CoveredInv == \A n \in acked : \E t \in DOMAIN tasks : \E k \in DOMAIN tasks[t].writes :
                tasks[t].writes[k].number = n /\ Newest(t, k)

(* Message n, or a newer one of its document, is in the index, and nothing *)
(* older waits to be applied.                                              *)
Landed(n) ==
  /\ docs[Index(n)][Doc(n)] >= n
  /\ \A t \in DOMAIN tasks : tasks[t].status = "enqueued" =>
       \A k \in DOMAIN tasks[t].writes :
         SameDocument(tasks[t].writes[k].number, n) => n <= tasks[t].writes[k].number

AllLanded(t) == \A n \in DOMAIN stream : Writes(t, n) => Landed(n)

LandedInv ==
  /\ \A t \in Mine : tasks[t].status = "succeeded" => AllLanded(t)
  /\ config.waitForTask =>
       /\ waited = "ok" => \A t \in DOMAIN tasks : t = Last(Tasks) => AllLanded(t)
       /\ \A r \in DOMAIN outcomes : outcomes[r] = "ok" =>
            \A t \in Range(issued[r]) : AllLanded(t)
       /\ \A n \in acked : Landed(n)

Fifo == \A t, u \in DOMAIN tasks :
          /\ t < u /\ tasks[t].index = tasks[u].index /\ tasks[t].status = "enqueued"
          => tasks[u].status \notin {"succeeded", "exists"}

TraceInv ==
  (\A t \in DOMAIN tasks : tasks[t].status \notin {"failed", "unknown"}) =>
    \A i \in Indexes, d \in Docs :
      \/ docs[i][d] = 0 /\ \A t \in DOMAIN tasks : \A k \in DOMAIN tasks[t].writes :
                             tasks[t].index = i /\ tasks[t].writes[k].doc = d =>
                               tasks[t].status = "enqueued"
      \/ \E t \in DOMAIN tasks : \E k \in DOMAIN tasks[t].writes :
           /\ tasks[t].index = i /\ tasks[t].writes[k].doc = d
           /\ docs[i][d] = tasks[t].writes[k].number
           /\ \A u \in DOMAIN tasks : \A l \in DOMAIN tasks[u].writes :
                /\ t < u \/ (t = u /\ k < l)
                /\ tasks[u].index = i /\ tasks[u].writes[l].doc = d
                => tasks[u].status = "enqueued"

(***************************************************************************)
(* Where the call is in its plan.                                          *)
(***************************************************************************)
LEMMA BodyParts ==
  ASSUME CallInv, phase = "issue"
  PROVE  /\ Len(body) \in Nat \ {0} /\ Done \in Nat
         /\ Done + Len(body) = Len(CurrentRun.positions)
         /\ \A i \in 1 .. Len(body) :
              /\ Done + i \in 1 .. Len(CurrentRun.positions)
              /\ body[i] = CurrentRun.positions[Done + i]
              /\ batch[body[i]] = Number(Len(issued) + 1, Done + i)
<1> DEFINE s == CurrentRun.positions
<1>1. s \in Seq(DOMAIN batch) /\ Len(s) \in Nat
  BY CurrentParts
<1>2. PICK j \in 0 .. Len(s) - 1 : body = SubSeq(s, j + 1, Len(s))
  BY DEF CallInv, Control, SentOfRun
<1> HIDE DEF s
<1>3. /\ Len(body) = Len(s) - j
      /\ \A i \in 1 .. Len(body) : body[i] = s[j + i]
  <2>1. j \in 0 .. Len(s) /\ 0 \in Nat /\ 0 <= Len(body)
    BY <1>1, <1>2
  <2>2. QED BY <1>1, <1>2, <2>1, RestOfRest
<1>4. Done = j /\ j \in Nat /\ Len(body) \in Nat \ {0}
  BY <1>1, <1>2, <1>3 DEF Done, s
<1>5. \A i \in 1 .. Len(body) : Done + i \in 1 .. Len(s)
  BY <1>1, <1>3, <1>4
<1>6. \A i \in 1 .. Len(body) : batch[body[i]] = Number(Len(issued) + 1, Done + i)
  BY <1>3, <1>4 DEF Number, CurrentRun, s
<1>7. QED BY <1>1, <1>3, <1>4, <1>5, <1>6 DEF s

(* What the messages of a run have in common, and where they stand. *)
LEMMA NumberParts ==
  ASSUME CallInv, phase \in {"issue", "confirm"}, NEW r \in 1 .. Len(plan.runs),
         NEW p \in 1 .. Len(plan.runs[r].positions)
  PROVE  /\ plan.runs[r].positions[p] \in 1 .. Len(batch)
         /\ Number(r, p) \in DOMAIN stream /\ Number(r, p) \in Nat \ {0}
         /\ Index(Number(r, p)) = plan.runs[r].index
         /\ At(Messages, plan, r, p) = stream[Number(r, p)]
<1>1. /\ Messages \in Seq(Message) /\ Len(Messages) = Len(batch) /\ Len(batch) \in Nat
      /\ plan = PlanOf(Messages)
  BY CallParts
<1>2. Sound(Messages, plan, Len(Messages))
  BY <1>1, PlanOfSound
<1>3. /\ plan.runs[r].positions[p] \in 1 .. Len(batch)
      /\ TargetIndex(At(Messages, plan, r, p)) = plan.runs[r].index
  BY <1>1, <1>2, SoundParts DEF Positions
<1>4. batch \in Seq(DOMAIN stream) /\ stream \in Seq(Message)
  BY DEF CallInv, TypeOK, PublisherTypeOK
<1>5. Number(r, p) \in DOMAIN stream /\ Number(r, p) \in Nat \ {0}
  <2>1. batch[plan.runs[r].positions[p]] \in DOMAIN stream
    BY <1>3, <1>4
  <2>2. DOMAIN stream = 1 .. Len(stream) /\ Len(stream) \in Nat
    BY <1>4
  <2>3. QED BY <2>1, <2>2 DEF Number
<1>6. At(Messages, plan, r, p) = stream[Number(r, p)]
  BY <1>3, <1>4 DEF At, Messages, Number
<1>7. QED BY <1>3, <1>5, <1>6 DEF Index

(* The plan sends the messages for one document in source order. *)
LEMMA NumbersInOrder ==
  ASSUME IInv, phase \in {"issue", "confirm"},
         NEW r \in 1 .. Len(plan.runs), NEW p \in 1 .. Len(plan.runs[r].positions),
         NEW s \in 1 .. Len(plan.runs), NEW q \in 1 .. Len(plan.runs[s].positions),
         r < s \/ (r = s /\ p <= q), SameDocument(Number(s, q), Number(r, p))
  PROVE  Number(r, p) <= Number(s, q)
<1>1. CallInv /\ Ascending(batch) /\ batch \in Seq(DOMAIN stream)
  BY DEF IInv, CallInv, TypeOK, PublisherTypeOK, RouteInv
<1> DEFINE i == plan.runs[r].positions[p]
           j == plan.runs[s].positions[q]
<1>2. /\ i \in 1 .. Len(batch) /\ j \in 1 .. Len(batch)
      /\ Number(r, p) = batch[i] /\ Number(s, q) = batch[j]
      /\ batch[i] \in Nat /\ batch[j] \in Nat
      /\ At(Messages, plan, r, p) = stream[batch[i]]
      /\ At(Messages, plan, s, q) = stream[batch[j]]
  BY <1>1, NumberParts DEF Number
<1>3. SUFFICES ASSUME batch[j] < batch[i] PROVE FALSE
  <2>1. \A x \in Nat, y \in Nat : x <= y \/ y < x
    OBVIOUS
  <2>2. QED BY <1>2, <2>1
<1> HIDE DEF i, j
<1>4. j < i
  <2>1. i < j => batch[i] < batch[j]
    BY <1>1, <1>2 DEF Ascending
  <2>2. i = j => batch[i] = batch[j]
    OBVIOUS
  <2>3. QED BY <1>2, <1>3, <2>1, <2>2
<1>5. /\ Messages \in Seq(Message) /\ plan = PlanOf(Messages)
  BY <1>1, CallParts
<1>6. Ordered(Messages, plan) /\ Increasing(plan)
  BY <1>5, PlanOfSound, SoundParts
<1>7. SameKey(At(Messages, plan, s, q), At(Messages, plan, r, p))
  BY <1>2 DEF SameKey, SameDocument, Index, Doc
<1>8. r = s
  BY <1>4, <1>6, <1>7 DEF Ordered, Positions, i, j
<1>9. CASE p = q
  BY <1>2, <1>3, <1>8, <1>9
<1>10. CASE p < q
  <2>1. i < j
    BY <1>6, <1>8, <1>10 DEF Increasing, Positions, i, j
  <2>2. QED BY <1>2, <1>4, <2>1
<1>11. p \in Nat /\ q \in Nat
  OBVIOUS
<1>12. QED BY <1>8, <1>9, <1>10, <1>11

LEMMA GivenKept ==
  ASSUME [Next]_vars
  PROVE  /\ stream' = stream /\ config' = config
         /\ \A n : Index(n)' = Index(n) /\ Doc(n)' = Doc(n)
         /\ \A m, n : SameDocument(m, n)' <=> SameDocument(m, n)
<1>1. given' = given
  BY DEF Next, Receive, Resend, GiveUp, Report, Commit, Crash, Call, Apply, Trouble, vars
<1>2. stream' = stream /\ config' = config
  BY <1>1 DEF given
<1>3. \A n : Index(n)' = Index(n) /\ Doc(n)' = Doc(n)
  BY <1>2 DEF Index, Doc
<1>4. QED BY <1>2, <1>3 DEF SameDocument

-----------------------------------------------------------------------------
(***************************************************************************)
(* What a task writes.                                                     *)
(***************************************************************************)

(* A request that is sent is enqueued, for what the current run carries.   *)
LEMMA RequestParts ==
  ASSUME CallInv, NEW q, Request(q)
  PROVE  /\ q.status = "enqueued" /\ q.index = Target
         /\ q.kind # "write" => q.writes = <<>>
         /\ q.kind = "write" =>
              /\ Writing /\ Target = CurrentRun.index /\ Len(issued) + 1 \in 1 .. Len(plan.runs)
              /\ \E k \in 1 .. Len(body) :
                   /\ q.writes \in Seq(Entry) /\ DOMAIN q.writes = 1 .. k
                   /\ \A j \in 1 .. k :
                        /\ Done + j \in 1 .. Len(CurrentRun.positions)
                        /\ q.writes[j].number = Number(Len(issued) + 1, Done + j)
                        /\ q.writes[j].doc = Doc(q.writes[j].number)
<1>1. PICK r \in Requests : q = NewTask(Target, r.kind, r.writes)
  BY DEF Request
<1>2. /\ q.status = "enqueued" /\ q.index = Target
      /\ q.kind = r.kind /\ q.writes = r.writes
  BY <1>1 DEF NewTask
<1>3. CASE q.kind # "write"
  BY <1>2, <1>3, RequestsTyped
<1>4. CASE q.kind = "write"
  <2>1. PICK k \in 1 .. Len(body) : Writing /\ r.writes = Entries(k)
    BY <1>2, <1>4, RequestsTyped
  <2>2. phase = "issue" /\ Target = CurrentRun.index
    BY <2>1 DEF Writing, Target
  <2>3. /\ Entries(k) \in Seq(Entry) /\ Len(Entries(k)) = k
        /\ \A j \in 1 .. k : /\ Entries(k)[j].number = batch[body[j]]
                             /\ Entries(k)[j].doc = stream[batch[body[j]]].doc
    BY <2>2, EntriesTyped
  <2>4. Len(issued) + 1 \in 1 .. Len(plan.runs)
    BY <2>2, CurrentParts
  <2>5. ASSUME NEW j \in 1 .. k
        PROVE  /\ Done + j \in 1 .. Len(CurrentRun.positions)
               /\ Entries(k)[j].number = Number(Len(issued) + 1, Done + j)
               /\ Entries(k)[j].doc = Doc(Entries(k)[j].number)
    <3>1. j \in 1 .. Len(body)
      BY <2>2, BodyParts
    <3>2. QED BY <2>2, <2>3, <3>1, BodyParts DEF Doc
  <2>6. DOMAIN Entries(k) = 1 .. k
    BY <2>3
  <2>7. QED BY <1>2, <1>4, <2>1, <2>2, <2>3, <2>4, <2>5, <2>6
<1>5. QED BY <1>3, <1>4

LEMMA RequestAddressed ==
  ASSUME CallInv, NEW q, Request(q)
  PROVE  Addressed(q)
<1>1. CASE q.kind # "write"
  BY <1>1, RequestParts DEF Addressed
<1>2. CASE q.kind = "write"
  <2>1. Writing /\ q.index = CurrentRun.index /\ Len(issued) + 1 \in 1 .. Len(plan.runs)
    BY <1>2, RequestParts
  <2>2. ASSUME NEW j \in DOMAIN q.writes
        PROVE  /\ q.writes[j].number \in DOMAIN stream
               /\ q.writes[j].doc = Doc(q.writes[j].number)
               /\ q.index = Index(q.writes[j].number)
    <3>1. /\ Done + j \in 1 .. Len(CurrentRun.positions)
          /\ q.writes[j].number = Number(Len(issued) + 1, Done + j)
          /\ q.writes[j].doc = Doc(q.writes[j].number)
      BY <1>2, RequestParts
    <3>2. /\ Number(Len(issued) + 1, Done + j) \in DOMAIN stream
          /\ Index(Number(Len(issued) + 1, Done + j)) = CurrentRun.index
      BY <2>1, <3>1, NumberParts DEF CurrentRun, Writing
    <3>3. QED BY <2>1, <3>1, <3>2
  <2>3. QED BY <1>2, <2>2 DEF Addressed
<1>3. QED BY <1>1, <1>2

LEMMA RequestNumbers ==
  ASSUME IInv, NEW q, Request(q), NEW l \in DOMAIN q.writes
  PROVE  q.writes[l].number \in DOMAIN stream /\ q.writes[l].number \in Nat
<1>1. CallInv /\ stream \in Seq(Message)
  BY DEF IInv, CallInv
<1>2. q.kind = "write" /\ Addressed(q)
  BY <1>1, RequestParts, RequestAddressed
<1>3. q.writes[l].number \in DOMAIN stream
  BY <1>2 DEF Addressed
<1>4. QED BY <1>1, <1>3

LEMMA AddressKept ==
  ASSUME IInv, AddressInv, [Next]_vars
  PROVE  AddressInv'
<1>1. CallInv /\ tasks \in Seq(Task)
  BY DEF IInv, CallInv, TypeOK, ServerTypeOK
<1>2. stream' = stream /\ \A n : Index(n)' = Index(n) /\ Doc(n)' = Doc(n)
  BY GivenKept
<1>3. CASE Restore
  <2>1. tasks' = <<>> /\ late' = late
    BY <1>3 DEF Restore
  <2>2. QED BY <1>2, <2>1 DEF AddressInv, Addressed
<1>4. CASE ~Restore
  <2>1. ASSUME NEW q, Request(q) PROVE Addressed(q) /\ q.status = "enqueued"
    BY <1>1, <2>1, RequestParts, RequestAddressed
  <2>2. ASSUME NEW q \in late' PROVE Addressed(q) /\ q.status = "enqueued"
    BY <1>4, <2>1, QueueStep DEF AddressInv
  <2>3. ASSUME NEW t \in DOMAIN tasks' PROVE Addressed(tasks'[t])
    <3>1. CASE t \in DOMAIN tasks
      <4>1. /\ tasks'[t].index = tasks[t].index /\ tasks'[t].kind = tasks[t].kind
            /\ tasks'[t].writes = tasks[t].writes
        BY <1>4, <3>1, QueueStep
      <4>2. Addressed(tasks[t])
        BY <3>1 DEF AddressInv
      <4>3. QED BY <4>1, <4>2 DEF Addressed
    <3>2. CASE t \notin DOMAIN tasks
      <4>1. Request(tasks'[t]) \/ tasks'[t] \in late
        BY <1>4, <3>2, QueueStep
      <4>2. QED BY <2>1, <4>1 DEF AddressInv
    <3>3. QED BY <3>1, <3>2
  <2>4. QED BY <1>2, <2>2, <2>3 DEF AddressInv, Addressed
<1>5. QED BY <1>3, <1>4

(* Every task, and every request held back, writes messages of the stream  *)
(* to the documents they are for, in the index they are for.               *)
THEOREM EveryTaskAddressed == Spec => []AddressInv
<1>1. Init => AddressInv
  BY DEF Init, ServerInit, AddressInv
<1>2. IInv /\ AddressInv /\ [Next]_vars => AddressInv'
  BY AddressKept
<1>3. QED BY <1>1, <1>2, RouteInvariant, PTL DEF Spec

-----------------------------------------------------------------------------
(***************************************************************************)
(* What the call has sent.                                                 *)
(***************************************************************************)

(* How a step takes the call on: it ends it, begins one, issues a request, *)
(* or leaves alone what was issued.                                        *)
LEMMA CallStep ==
  ASSUME IInv, [Next]_vars
  PROVE  \/ phase' \in {"start", "idle"}
         \/ \E numbers : SendBatch(numbers) /\ UNCHANGED tasks
         \/ \E k \in 1 .. Len(body) : WriteDocuments(k)
         \/ /\ phase \in {"issue", "confirm"} /\ UNCHANGED <<batch, plan, issued>>
            /\ \/ phase = "issue" /\ UNCHANGED <<phase, body, requests>>
               \/ phase' = "confirm"
<1> DEFINE Aside == /\ UNCHANGED <<batch, plan, issued>>
                    /\ UNCHANGED <<phase, body, requests>> \/ phase' = "confirm"
<1>1. Control /\ phase \in {"start", "idle", "issue", "confirm"}
  BY DEF IInv, CallInv, TypeOK, PublisherTypeOK
<1>2. CASE Receive \/ Resend
  BY <1>2 DEF Receive, Resend, server
<1>3. CASE GiveUp \/ Commit
  BY <1>3 DEF GiveUp, Commit, publisher
<1>4. CASE Report \/ Crash
  BY <1>4 DEF Report, Return, Crash, Restarted, Created
<1>5. CASE Call
  <2>1. AskCreate \/ AskSettings => Aside
    BY DEF AskCreate, AskSettings, Ask, call
  <2>2. CreateAnsweredExists \/ CreateFinished => Aside
    BY DEF CreateAnsweredExists, CreateFinished, call
  <2>3. Prepared => Aside \/ phase' = "idle"
    BY DEF Prepared, call
  <2>4. PrepareFailed => Aside
    BY DEF PrepareFailed, Abandon
  <2>5. AwaitLast \/ ReadEarlier \/ DoNotWait => Aside
    BY DEF AwaitLast, ReadEarlier, DoNotWait
  <2>6. (\E k \in 1 .. Len(body) : WriteDocuments(k)) \/ Aside \/ phase' = "idle"
    BY <1>5, <2>1, <2>2, <2>3, <2>4, <2>5 DEF Call, PublisherStep
  <2>7. Aside => phase \in {"issue", "confirm"} \/ phase' \in {"start", "idle"}
    <3>1. prep # "none" => Unprepared
      BY <1>1 DEF Control
    <3>2. PrepareFailed => phase = "issue" \/ phase' = phase
      BY <3>1 DEF PrepareFailed, Unprepared, Abandon
    <3>3. AwaitLast \/ ReadEarlier \/ DoNotWait => phase = "confirm"
      BY DEF AwaitLast, ReadEarlier, DoNotWait, Confirming
    <3>4. AskCreate \/ AskSettings \/ CreateAnsweredExists \/ CreateFinished => phase' = phase
      BY DEF AskCreate, AskSettings, Ask, CreateAnsweredExists, CreateFinished
    <3>5. Prepared => phase' = phase \/ phase' = "idle"
      BY DEF Prepared
    <3>6. (\E k \in 1 .. Len(body) : WriteDocuments(k)) => phase = "issue"
      BY DEF WriteDocuments, Writing
    <3>7. QED BY <1>1, <1>5, <3>2, <3>3, <3>4, <3>5, <3>6 DEF Call, PublisherStep
  <2>8. QED BY <1>1, <2>6, <2>7
<1>6. CASE PublisherMishap
  <2>1. prep # "none" => Unprepared
    BY <1>1 DEF Control
  <2>2. CallInv
    BY DEF IInv
  <2>3. ReplyLost \/ RequestRefused => phase \in {"start", "issue"} /\ \E f : Abandon(f)
    BY <2>2, RequestsTyped DEF ReplyLost, RequestRefused
  <2>4. PollRefused => \/ phase \in {"start", "issue"} /\ \E f : Abandon(f)
                       \/ phase = "confirm" /\ Aside
    BY <2>1 DEF PollRefused, Unprepared, Confirming
  <2>5. ASSUME phase \in {"start", "issue"}, NEW f, Abandon(f)
        PROVE  Aside /\ (phase = "issue" \/ phase' = "start")
    BY <2>5 DEF Abandon
  <2>6. Aside /\ (phase \in {"issue", "confirm"} \/ phase' = "start")
    BY <1>6, <2>3, <2>4, <2>5 DEF PublisherMishap
  <2>7. QED BY <1>1, <2>6
<1>7. CASE Apply \/ UNCHANGED vars \/ (Trouble /\ UNCHANGED publisher)
  <2>1. Aside /\ phase' = phase
    BY <1>7 DEF Apply, vars, publisher, call
  <2>2. QED BY <1>1, <2>1
<1>8. QED BY <1>2, <1>3, <1>4, <1>5, <1>6, <1>7 DEF Next, Trouble

(* What has been taken stays so. *)
LEMMA TakenKept ==
  ASSUME IInv, [Next]_vars, ~Restore, UNCHANGED <<batch, plan>>,
         NEW ts, NEW r, NEW j, Taken(ts, r, j)
  PROVE  Taken(ts, r, j)'
<1>1. /\ DOMAIN tasks \subseteq DOMAIN tasks'
      /\ \A t \in DOMAIN tasks : tasks'[t].writes = tasks[t].writes
  BY QueueStep
<1>2. \A p : Number(r, p)' = Number(r, p)
  BY DEF Number
<1>3. /\ \A i \in DOMAIN ts :
           /\ ts[i] \in DOMAIN tasks'
           /\ \A k \in DOMAIN tasks'[ts[i]].writes : \E p \in 1 .. j :
                tasks'[ts[i]].writes[k].number = Number(r, p)
  BY <1>1 DEF Taken, TakenIn, Number
<1>4. \A p \in 1 .. j : \E i \in DOMAIN ts :
        \E k \in DOMAIN tasks'[ts[i]].writes : tasks'[ts[i]].writes[k].number = Number(r, p)
  BY <1>1 DEF Taken, TakenIn, Number
<1>5. QED BY <1>2, <1>3, <1>4 DEF Taken, TakenIn, Number

(* The task of a request, and what it writes. *)
LEMMA WrittenParts ==
  ASSUME CallInv, NEW k \in 1 .. Len(body), WriteDocuments(k)
  PROVE  LET uid == Len(tasks) + 1
         IN /\ phase = "issue" /\ Len(tasks) \in Nat /\ k \in Nat
            /\ Len(tasks') = uid /\ DOMAIN tasks' = DOMAIN tasks \cup {uid}
            /\ uid \notin DOMAIN tasks /\ \A t \in DOMAIN tasks : tasks'[t] = tasks[t]
            /\ tasks'[uid].status = "enqueued"
            /\ DOMAIN tasks'[uid].writes = 1 .. k
            /\ \A j \in 1 .. k : tasks'[uid].writes[j].number = Number(Len(issued) + 1, Done + j)
<1> DEFINE uid == Len(tasks) + 1
           x == NewTask(Target, "write", Entries(k))
<1>1. /\ phase = "issue" /\ tasks' = Append(tasks, x)
      /\ tasks \in Seq(Task)
  BY DEF WriteDocuments, Writing, Enqueued, CallInv, TypeOK, ServerTypeOK
<1>2. /\ Entries(k) \in Seq(Entry) /\ Len(Entries(k)) = k
      /\ \A j \in 1 .. k : Entries(k)[j].number = batch[body[j]]
  BY <1>1, EntriesTyped
<1>3. Len(tasks) \in Nat /\ k \in Nat /\ Len(body) \in Nat
  BY <1>1, BodyParts
<1>4. x.writes = Entries(k) /\ x.status = "enqueued"
  BY DEF NewTask
<1>5. \A j \in 1 .. k : Entries(k)[j].number = Number(Len(issued) + 1, Done + j)
  <2>1. \A j \in 1 .. k : j \in 1 .. Len(body)
    BY <1>3
  <2>2. QED BY <1>1, <1>2, <2>1, BodyParts
<1>6. DOMAIN Entries(k) = 1 .. k
  BY <1>2
<1> HIDE DEF x
<1>7. /\ Len(tasks') = uid /\ DOMAIN tasks' = DOMAIN tasks \cup {uid}
      /\ uid \notin DOMAIN tasks /\ tasks'[uid] = x
      /\ \A t \in DOMAIN tasks : tasks'[t] = tasks[t]
  BY <1>1, <1>3
<1>8. QED BY <1>1, <1>3, <1>4, <1>5, <1>6, <1>7

(* A request that is taken goes on where the run had come to. *)
LEMMA WriteTaken ==
  ASSUME IInv, TakenInv, [Next]_vars, NEW k \in 1 .. Len(body), WriteDocuments(k)
  PROVE  TakenInv'
<1>1. CallInv /\ PublisherTypeOK
  BY DEF IInv, CallInv, TypeOK
<1>2. PICK uid, r, d, ts : uid = Len(tasks) + 1 /\ r = Len(issued) + 1 /\ d = Done
                           /\ ts = Append(requests, uid)
  OBVIOUS
<1>3. /\ phase = "issue" /\ Len(tasks) \in Nat /\ k \in Nat
      /\ Len(tasks') = uid /\ DOMAIN tasks' = DOMAIN tasks \cup {uid}
      /\ uid \notin DOMAIN tasks /\ \A t \in DOMAIN tasks : tasks'[t] = tasks[t]
      /\ DOMAIN tasks'[uid].writes = 1 .. k
      /\ \A j \in 1 .. k : tasks'[uid].writes[j].number = Number(r, d + j)
  BY <1>1, <1>2, WrittenParts
<1>4. /\ batch' = batch /\ plan' = plan /\ \A q, p : Number(q, p)' = Number(q, p)
      /\ ~Restore
  <2>1. batch' = batch /\ plan' = plan
    BY DEF WriteDocuments
  <2>2. ~Restore
    <3>1. Restore => Len(tasks') = 0
      BY DEF Restore
    <3>2. QED BY <1>2, <1>3, <3>1
  <2>3. QED BY <2>1, <2>2 DEF Number
<1>5. /\ r \in 1 .. Len(plan.runs) /\ CurrentRun = plan.runs[r]
      /\ Len(issued) \in Nat /\ Len(body) \in Nat \ {0} /\ d \in Nat
      /\ d + Len(body) = Len(plan.runs[r].positions)
  BY <1>1, <1>2, <1>3, CurrentParts, BodyParts
<1>6. issued \in Seq(Seq(Uids)) /\ requests \in Seq(Uids)
  BY <1>1 DEF PublisherTypeOK
<1>7. /\ DOMAIN ts = DOMAIN requests \cup {Len(requests) + 1}
      /\ ts[Len(requests) + 1] = uid /\ \A i \in DOMAIN requests : ts[i] = requests[i]
  BY <1>2, <1>6
<1>8. Taken(ts, r, d + k)'
  <2>1. PICK old : old = requests
    OBVIOUS
  <2>2. Taken(old, r, d)
    BY <1>2, <1>3, <2>1 DEF TakenInv
  <2>3. Taken(old, r, d)'
    BY <1>4, <2>2, TakenKept
  <2>4. /\ \A i \in DOMAIN old :
             /\ old[i] \in DOMAIN tasks'
             /\ \A l \in DOMAIN tasks'[old[i]].writes : \E p \in 1 .. d :
                  tasks'[old[i]].writes[l].number = Number(r, p)
        /\ \A p \in 1 .. d : \E i \in DOMAIN old : \E l \in DOMAIN tasks'[old[i]].writes :
             tasks'[old[i]].writes[l].number = Number(r, p)
    BY <1>4, <2>3 DEF Taken, TakenIn, Number
  <2>5. \A p \in 1 .. d : p \in 1 .. d + k
    BY <1>3, <1>5
  <2>6. ASSUME NEW i \in DOMAIN ts
        PROVE  /\ ts[i] \in DOMAIN tasks'
               /\ \A l \in DOMAIN tasks'[ts[i]].writes : \E p \in 1 .. d + k :
                    tasks'[ts[i]].writes[l].number = Number(r, p)
    <3>1. CASE i \in DOMAIN requests
      BY <1>7, <2>1, <2>4, <2>5, <3>1
    <3>2. CASE i = Len(requests) + 1
      <4>1. \A l \in 1 .. k : d + l \in 1 .. d + k
        BY <1>3, <1>5
      <4>2. ts[i] = uid
        BY <1>7, <3>2
      <4>3. QED BY <1>3, <4>1, <4>2
    <3>3. QED BY <1>7, <3>1, <3>2
  <2>7. ASSUME NEW p \in 1 .. d + k
        PROVE  \E i \in DOMAIN ts : \E l \in DOMAIN tasks'[ts[i]].writes :
                 tasks'[ts[i]].writes[l].number = Number(r, p)
    <3>1. CASE p \in 1 .. d
      BY <1>7, <2>1, <2>4, <3>1
    <3>2. CASE p \notin 1 .. d
      <4>1. p - d \in 1 .. k /\ d + (p - d) = p
        BY <1>3, <1>5, <3>2
      <4>2. tasks'[uid].writes[p - d].number = Number(r, p)
        BY <1>3, <4>1
      <4>3. /\ Len(requests) + 1 \in DOMAIN ts /\ ts[Len(requests) + 1] = uid
            /\ p - d \in DOMAIN tasks'[uid].writes
        BY <1>3, <1>7, <4>1
      <4>4. QED BY <4>2, <4>3
    <3>3. QED BY <3>1, <3>2
  <2>8. QED BY <1>4, <2>6, <2>7 DEF Taken, TakenIn, Number
<1>9. ASSUME NEW q \in DOMAIN issued, NEW u, u = issued[q],
             NEW n, n = Len(plan.runs[q].positions)
      PROVE  Taken(u, q, n)'
  BY <1>3, <1>4, <1>9, TakenKept DEF TakenInv
<1>10. CASE k < Len(body)
  <2>1. /\ body' = SubSeq(body, k + 1, Len(body)) /\ requests' = ts
        /\ phase' = "issue" /\ issued' = issued
    BY <1>2, <1>3, <1>10 DEF WriteDocuments
  <2>2. Len(body') = Len(body) - k
    <3>1. body \in Seq(DOMAIN batch)
      BY <1>1 DEF PublisherTypeOK
    <3>2. QED BY <1>3, <1>5, <1>10, <2>1, <3>1
  <2>3. Done' = d + k
    BY <1>2, <1>3, <1>4, <1>5, <2>1, <2>2 DEF Done, CurrentRun
  <2>4. Taken(requests, Len(issued) + 1, Done)'
    BY <1>2, <1>8, <2>1, <2>3 DEF Taken
  <2>5. \A q \in DOMAIN issued' : Taken(issued[q], q, Len(plan.runs[q].positions))'
    BY <1>4, <1>9, <2>1 DEF Taken
  <2>6. QED BY <2>4, <2>5 DEF TakenInv
<1>11. CASE ~(k < Len(body))
  <2>1. /\ issued' = Append(issued, ts) /\ requests' = <<>>
        /\ TurnTo(plan, Len(issued') + 1)
    BY <1>2, <1>3, <1>11 DEF WriteDocuments
  <2>2. /\ DOMAIN issued' = DOMAIN issued \cup {r} /\ issued'[r] = ts /\ Len(issued') = r
        /\ \A q \in DOMAIN issued : issued'[q] = issued[q]
    BY <1>2, <1>6, <2>1
  <2>3. d + k = Len(plan.runs[r].positions)
    <3>1. k \in Nat /\ k <= Len(body) /\ Len(body) \in Nat
      BY <1>3, <1>5
    <3>2. k = Len(body)
      BY <1>11, <3>1
    <3>3. QED BY <1>5, <3>2
  <2>4. \A q \in DOMAIN issued' : Taken(issued[q], q, Len(plan.runs[q].positions))'
    <3>1. Taken(issued[r], r, Len(plan.runs[r].positions))'
      BY <1>4, <1>8, <2>2, <2>3 DEF Taken
    <3>2. \A q \in DOMAIN issued : Taken(issued[q], q, Len(plan.runs[q].positions))'
      BY <1>4, <1>9, <2>2 DEF Taken
    <3>3. QED BY <2>2, <3>1, <3>2
  <2>5. phase' = "issue" => Taken(requests, Len(issued) + 1, Done)'
    <3>1. SUFFICES ASSUME phase' = "issue" PROVE Taken(requests, Len(issued) + 1, Done)'
      OBVIOUS
    <3>2. body' = plan'.runs[Len(issued') + 1].positions
      BY <1>4, <2>1, <3>1 DEF TurnTo
    <3>3. CurrentRun'.positions = body' /\ Len(body') \in Nat
      <4>1. Len(issued') + 1 \in 1 .. Len(plan.runs)
        <5>1. Len(issued') + 1 <= Len(plan.runs)
          BY <2>1, <3>1 DEF TurnTo
        <5>2. Len(plan.runs) \in Nat
          BY <1>1, <1>3, CallParts
        <5>3. QED BY <1>2, <1>5, <2>2, <5>1, <5>2
      <4>2. QED BY <1>1, <1>3, <1>4, <3>2, <4>1, CallParts DEF CurrentRun
    <3>4. Done' = 0
      BY <3>3 DEF Done
    <3>5. DOMAIN requests' = {} /\ 1 .. 0 = {}
      BY <2>1
    <3>6. QED BY <3>4, <3>5 DEF Taken, TakenIn
  <2>6. QED BY <2>4, <2>5 DEF TakenInv
<1>12. QED BY <1>10, <1>11

LEMMA CallTaken ==
  ASSUME IInv, TakenInv, [Next]_vars, ~Restore
  PROVE  TakenInv'
<1>1. CASE phase' \in {"start", "idle"}
  BY <1>1 DEF TakenInv
<1>2. ASSUME NEW numbers, SendBatch(numbers), UNCHANGED tasks
      PROVE  TakenInv'
  <2>1. issued' = <<>> /\ requests' = <<>> /\ TurnTo(plan', 1)
    BY <1>2 DEF SendBatch, IInv, CallInv, Control, Quiet
  <2>2. DOMAIN issued' = {} /\ DOMAIN requests' = {} /\ Len(issued') = 0 /\ 1 .. 0 = {}
    BY <2>1
  <2>3. phase' = "issue" => Done' = 0
    <3>1. SUFFICES ASSUME phase' = "issue" PROVE Done' = 0
      OBVIOUS
    <3>2. body' = plan'.runs[1].positions
      BY <2>1, <3>1 DEF TurnTo
    <3>3. CurrentRun'.positions = body'
      BY <2>2, <3>2 DEF CurrentRun
    <3>4. CallInv' /\ PublisherTypeOK'
      BY NextKeeps DEF IInv, CallInv, TypeOK
    <3>5. Len(body') \in Nat
      BY <3>4 DEF PublisherTypeOK
    <3>6. QED BY <3>3, <3>5 DEF Done
  <2>4. QED BY <2>2, <2>3 DEF TakenInv, Taken, TakenIn
<1>3. ASSUME NEW k \in 1 .. Len(body), WriteDocuments(k)
      PROVE  TakenInv'
  BY <1>3, WriteTaken
<1>4. CASE /\ phase \in {"issue", "confirm"} /\ UNCHANGED <<batch, plan, issued>>
           /\ \/ phase = "issue" /\ UNCHANGED <<phase, body, requests>>
              \/ phase' = "confirm"
  <2>1. ASSUME NEW q \in DOMAIN issued, NEW u, u = issued[q],
               NEW n, n = Len(plan.runs[q].positions)
        PROVE  Taken(u, q, n)'
    BY <1>4, <2>1, TakenKept DEF TakenInv
  <2>2. \A q \in DOMAIN issued' : Taken(issued[q], q, Len(plan.runs[q].positions))'
    BY <1>4, <2>1 DEF Taken
  <2>3. phase' = "issue" => Taken(requests, Len(issued) + 1, Done)'
    <3>1. SUFFICES ASSUME phase' = "issue" PROVE Taken(requests, Len(issued) + 1, Done)'
      OBVIOUS
    <3>2. /\ phase = "issue" /\ UNCHANGED <<batch, plan, issued, body, requests>>
      BY <1>4, <3>1
    <3>3. PICK ts, r, d : ts = requests /\ r = Len(issued) + 1 /\ d = Done
      OBVIOUS
    <3>4. Taken(ts, r, d)'
      BY <3>2, <3>3, TakenKept DEF TakenInv
    <3>5. Done' = Done
      BY <3>2 DEF Done, CurrentRun
    <3>6. QED BY <3>2, <3>3, <3>4, <3>5 DEF Taken
  <2>4. QED BY <2>2, <2>3 DEF TakenInv
<1>5. QED BY <1>1, <1>2, <1>3, <1>4, CallStep

(* A message reported as delivered was in a run that was confirmed, and so *)
(* issued.                                                                 *)
LEMMA OkParts ==
  ASSUME IInv, Report, NEW n \in Range(Judged("ok"))
  PROVE  \E r \in DOMAIN outcomes : \E p \in 1 .. Len(plan.runs[r].positions) :
           /\ outcomes[r] = "ok" /\ r \in DOMAIN issued /\ r \in 1 .. Len(plan.runs)
           /\ phase = "confirm" /\ n = Number(r, p)
<1>1. CallInv /\ PublisherTypeOK /\ Control /\ AllConfirmed /\ phase = "confirm"
  BY DEF IInv, CallInv, TypeOK, Report, Return, AllConfirmed
<1>2. /\ Messages \in Seq(Message) /\ Len(Messages) = Len(batch) /\ Len(batch) \in Nat
      /\ plan = PlanOf(Messages) /\ plan \in Plan /\ Len(plan.runs) \in Nat
  BY <1>1, CallParts
<1>3. Sound(Messages, plan, Len(Messages))
  BY <1>2, PlanOfSound
<1>4. batch \in Seq(Nat) /\ Outcomes \in Seq(Outcome)
  BY ReportParts
<1>5. PICK i \in 1 .. Len(batch) : n = batch[i] /\ Verdict(i) = "ok"
  <2>1. Range(Judged("ok")) = {batch[i] : i \in {j \in 1 .. Len(batch) : Verdict(j) = "ok"}}
    BY <1>4, JudgedParts
  <2>2. QED BY <2>1
<1>6. ~Refused(plan, i)
  BY <1>2, <1>3, <1>4, <1>5, SettledCases DEF Verdict
<1>7. PICK r \in 1 .. Len(plan.runs) :
        Carriers(plan, i) = {r} /\ Settled(plan, Outcomes, i) = RunVerdict(plan, Outcomes, r)
  BY <1>2, <1>3, <1>4, <1>6, SettledCases
<1> DEFINE c == [issued |-> Len(issued), unissued |-> unissued, confirmed |-> outcomes]
<1>8. c \in Calls(plan)
  BY <1>1, CallEnds
<1>9. c.issued = Len(issued) /\ c.unissued = unissued /\ c.confirmed = outcomes
  OBVIOUS
<1> HIDE DEF c
<1>10. RunVerdict(plan, OutcomesOf(c.issued, c.unissued, c.confirmed), r) = "ok"
  BY <1>5, <1>7, <1>9 DEF Verdict, Outcomes
<1>11. r \in 1 .. Len(outcomes) /\ outcomes[r] = "ok"
  BY <1>2, <1>8, <1>9, <1>10, OkWasConfirmed
<1>12. r \in DOMAIN outcomes /\ r \in DOMAIN issued
  <2>1. outcomes \in Seq(Outcome) /\ issued \in Seq(Seq(Uids)) /\ Len(outcomes) <= Len(issued)
    BY <1>1 DEF PublisherTypeOK, Control, Outcome
  <2>2. QED BY <1>11, <2>1
<1>13. PICK p \in 1 .. Len(plan.runs[r].positions) : plan.runs[r].positions[p] = i
  <2>1. i \in Range(plan.runs[r].positions)
    BY <1>7 DEF Carriers
  <2>2. DOMAIN plan.runs[r].positions = 1 .. Len(plan.runs[r].positions)
    BY <1>1, CallParts
  <2>3. QED BY <2>1, <2>2 DEF Range
<1>14. n = Number(r, p)
  BY <1>5, <1>13 DEF Number
<1>15. QED BY <1>1, <1>11, <1>12, <1>13, <1>14

(* Nothing but a report makes a message one reported as delivered. *)
LEMMA AckedStep ==
  ASSUME IInv, [Next]_vars, ~Report
  PROVE  acked' \subseteq acked
BY DEF Next, Receive, Resend, GiveUp, Commit, Crash, Call, Apply, Trouble, vars, route

LEMMA AckedKept ==
  ASSUME IInv, TakenInv, AckedInv, [Next]_vars, ~Restore
  PROVE  AckedInv'
<1>1. /\ DOMAIN tasks \subseteq DOMAIN tasks'
      /\ \A t \in DOMAIN tasks : tasks'[t].writes = tasks[t].writes
  BY QueueStep
<1>2. ASSUME NEW n, NEW t \in DOMAIN tasks, Writes(t, n)
      PROVE  \E u \in DOMAIN tasks' : Writes(u, n)'
  BY <1>1, <1>2 DEF Writes
<1>3. \A n \in acked : \E t \in DOMAIN tasks' : Writes(t, n)'
  BY <1>2 DEF AckedInv
<1>4. CASE ~Report
  BY <1>3, <1>4, AckedStep DEF AckedInv
<1>5. CASE Report
  <2>1. acked' = acked \cup Range(Judged("ok"))
    BY <1>5 DEF Report
  <2>2. ASSUME NEW n \in Range(Judged("ok")) PROVE \E t \in DOMAIN tasks : Writes(t, n)
    <3>1. PICK r \in DOMAIN outcomes : \E p \in 1 .. Len(plan.runs[r].positions) :
            r \in DOMAIN issued /\ phase = "confirm" /\ n = Number(r, p)
      BY <1>5, OkParts
    <3>2. Taken(issued[r], r, Len(plan.runs[r].positions))
      BY <3>1 DEF TakenInv
    <3>3. \E i \in DOMAIN issued[r] : issued[r][i] \in DOMAIN tasks /\ Writes(issued[r][i], n)
      BY <3>1, <3>2 DEF Taken, TakenIn, Number, Writes
    <3>4. QED BY <3>3
  <2>3. QED BY <1>2, <1>3, <2>1, <2>2 DEF AckedInv
<1>6. QED BY <1>4, <1>5

(* While the server is not restored from a snapshot, no message is dropped:*)
(* one the source will not deliver again was dead-lettered or reported as  *)
(* delivered, not both, and what is reported as delivered Meilisearch took.*)
THEOREM EveryCommitSettledHolds ==
  ASSUME "restore" \notin RareMishaps
  PROVE  Spec => []EveryCommitSettled
<1>1. Init => TakenInv /\ AckedInv
  BY DEF Init, PublisherInit, Created, TakenInv, AckedInv
<1>2. IInv /\ TakenInv /\ AckedInv /\ [Next]_vars => TakenInv' /\ AckedInv'
  <2>1. ~Restore
    BY DEF Restore
  <2>2. QED BY <2>1, CallTaken, AckedKept
<1>3. IInv /\ AckedInv => EveryCommitSettled
  BY DEF IInv, RouteInv, AckedInv, Writes, EveryCommitSettled
<1>4. QED BY <1>1, <1>2, <1>3, RouteInvariant, PTL DEF Spec

-----------------------------------------------------------------------------
(***************************************************************************)
(* Settings before documents.                                              *)
(***************************************************************************)

(* What a step does to the documents: nothing, unless it applies a task.   *)
LEMMA ServerStep ==
  ASSUME IInv, [Next]_vars, ~Restore
  PROVE  \/ ApplyTask /\ UNCHANGED <<given, publisher, route>>
         \/ LoseTask /\ UNCHANGED <<docs, indexes, late, given, publisher, route>>
         \/ UNCHANGED <<docs, indexes>> /\ \A t \in DOMAIN tasks : tasks'[t] = tasks[t]
<1>1. tasks \in Seq(Task)
  BY DEF IInv, CallInv, TypeOK, ServerTypeOK
<1>2. ASSUME NEW x, tasks' = Append(tasks, x)
      PROVE  \A t \in DOMAIN tasks : tasks'[t] = tasks[t]
  BY <1>1, <1>2
<1> DEFINE Grown == UNCHANGED <<docs, indexes>> /\ \A t \in DOMAIN tasks : tasks'[t] = tasks[t]
<1>3. ASSUME NEW index, NEW kind, NEW writes, Enqueued(index, kind, writes)
      PROVE  Grown
  BY <1>2, <1>3 DEF Enqueued
<1>4. ASSUME UNCHANGED <<tasks, docs, indexes>> PROVE Grown
  BY <1>4
<1> HIDE DEF Grown
<1>5. CASE Call
  <2>1. AskCreate \/ AskSettings => Grown
    BY <1>3 DEF AskCreate, AskSettings, Ask
  <2>2. ASSUME NEW k \in 1 .. Len(body), WriteDocuments(k) PROVE Grown
    BY <1>3, <2>2 DEF WriteDocuments
  <2>3. CreateAnsweredExists \/ CreateFinished \/ Prepared \/ PrepareFailed => Grown
    BY <1>4 DEF CreateAnsweredExists, CreateFinished, Prepared, PrepareFailed, server
  <2>4. AwaitLast \/ ReadEarlier \/ DoNotWait => Grown
    BY <1>4 DEF AwaitLast, ReadEarlier, DoNotWait, server
  <2>5. QED BY <1>5, <2>1, <2>2, <2>3, <2>4 DEF Call, PublisherStep, Grown
<1>6. CASE PublisherMishap
  <2>1. ReplyLost => Grown
    BY <1>3, <1>4 DEF ReplyLost, HeldBack
  <2>2. RequestRefused \/ PollRefused => Grown
    BY <1>4 DEF RequestRefused, PollRefused
  <2>3. QED BY <1>6, <2>1, <2>2 DEF PublisherMishap, Grown
<1>7. CASE Apply
  BY <1>7 DEF Apply
<1>8. CASE LoseTask /\ UNCHANGED <<given, publisher, route>>
  BY <1>8 DEF LoseTask, FailTask, ForgetTask
<1>9. CASE Arrival
  <2>1. Grown
    BY <1>2, <1>9 DEF Arrival, Grown
  <2>2. QED BY <2>1 DEF Grown
<1>10. CASE Receive \/ Resend \/ GiveUp \/ Report \/ Commit \/ Crash \/ UNCHANGED vars
  <2>1. Grown
    BY <1>4, <1>10 DEF Receive, Resend, GiveUp, Report, Commit, Crash, vars, server
  <2>2. QED BY <2>1 DEF Grown
<1>11. QED BY <1>5, <1>6, <1>7, <1>8, <1>9, <1>10 DEF Next, Trouble

(* What a step does to the preparation of an index. *)
LEMMA PrepStep ==
  ASSUME IInv, [Next]_vars
  PROVE  /\ prep' = "settings" => AskSettings \/ (prep = "settings" /\ UNCHANGED publisher)
         /\ Prepared \/ (known' \subseteq known /\ (phase = "start" => phase' = "start"))
<1> DEFINE Early == phase' = "start" \/ phase # "start"
           Goal == /\ prep' = "settings" =>
                        AskSettings \/ (prep = "settings" /\ UNCHANGED publisher)
                   /\ Prepared \/ (known' \subseteq known /\ Early)
<1>1. /\ phase \in {"idle", "confirm"} => prep = "none"
      /\ prep # "none" => phase \in {"start", "issue"}
      /\ phase = "start" => ~Routed /\ config.createIndex
  BY DEF IInv, CallInv, Control, Unprepared
<1>2. CASE Receive \/ Resend
  BY <1>1, <1>2 DEF Receive, Resend, SendBatch
<1>3. CASE UNCHANGED publisher
  BY <1>3 DEF publisher
<1>4. CASE Report
  BY <1>1, <1>4 DEF Report, Return, AllConfirmed
<1>5. CASE Crash
  BY <1>1, <1>5 DEF Crash, Restarted, Created
<1>6. ASSUME NEW f, Abandon(f) PROVE Goal
  BY <1>6 DEF Abandon
<1>7. CASE Call
  <2>1. CASE AskCreate
    BY <2>1 DEF AskCreate, Ask
  <2>2. CASE AskSettings
    BY <2>2 DEF AskSettings, Ask
  <2>3. CASE CreateAnsweredExists \/ CreateFinished
    BY <2>3 DEF CreateAnsweredExists, CreateFinished
  <2>4. CASE Prepared
    BY <2>4 DEF Prepared
  <2>5. CASE PrepareFailed
    BY <1>6, <2>5 DEF PrepareFailed
  <2>6. ASSUME NEW k \in 1 .. Len(body), WriteDocuments(k) PROVE Goal
    BY <2>6 DEF WriteDocuments, Writing
  <2>7. CASE AwaitLast \/ ReadEarlier \/ DoNotWait
    BY <1>1, <2>7 DEF AwaitLast, ReadEarlier, DoNotWait, Confirming
  <2>8. QED BY <1>7, <2>1, <2>2, <2>3, <2>4, <2>5, <2>6, <2>7 DEF Call, PublisherStep
<1>8. CASE PublisherMishap
  <2>1. CASE ReplyLost \/ RequestRefused
    BY <1>6, <2>1 DEF ReplyLost, RequestRefused
  <2>2. CASE PollRefused
    BY <1>1, <1>6, <2>2 DEF PollRefused, Confirming
  <2>3. QED BY <1>8, <2>1, <2>2 DEF PublisherMishap
<1>9. QED
  BY <1>2, <1>3, <1>4, <1>5, <1>7, <1>8
  DEF Next, GiveUp, Commit, Apply, Trouble, vars

(* A literal index is the index of every run. *)
LEMMA RunIndex ==
  ASSUME CallInv, phase = "issue", ~Routed
  PROVE  CurrentRun.index = Literal
<1>1. /\ Len(issued) + 1 \in 1 .. Len(plan.runs) /\ CurrentRun = plan.runs[Len(issued) + 1]
      /\ 1 \in 1 .. Len(CurrentRun.positions)
  BY CurrentParts
<1>2. Index(Number(Len(issued) + 1, 1)) = CurrentRun.index
  BY <1>1, NumberParts
<1>3. QED BY <1>2 DEF Index, TargetIndex

LEMMA SettingsKept ==
  ASSUME IInv, AddressInv, SettingsInv, [Next]_vars, ~Restore
  PROVE  SettingsInv'
<1>1. SUFFICES ASSUME config.createIndex, config.settings PROVE SettingsFirst'
  BY GivenKept DEF SettingsInv
<1>2. SettingsFirst
  BY <1>1 DEF SettingsInv
<1>3. CallInv /\ ServerTypeOK /\ PublisherTypeOK /\ Control
  BY DEF IInv, CallInv, TypeOK
<1>4. /\ DOMAIN tasks \subseteq DOMAIN tasks'
      /\ \A t \in DOMAIN tasks : /\ tasks'[t].index = tasks[t].index
                                 /\ tasks'[t].kind = tasks[t].kind
                                 /\ tasks'[t].writes = tasks[t].writes
      /\ \A t \in DOMAIN tasks' \ DOMAIN tasks : Request(tasks'[t]) \/ tasks'[t] \in late
      /\ \A q \in late' : q \in late \/ Request(q)
  BY QueueStep
(* Settings once applied stay. *)
<1>5. ASSUME NEW i \in Indexes, Configured(i) PROVE Configured(i)'
  <2>1. CASE ApplyTask
    <3>1. PICK t \in DOMAIN tasks :
            indexes' = [indexes EXCEPT ![tasks[t].index] =
                          IF tasks[t].kind = "settings" THEN "configured"
                          ELSE IF @ = "absent" THEN "created" ELSE @]
      BY <1>3, <2>1, AppliedTypes
    <3>2. QED BY <1>3, <1>5, <3>1 DEF Configured, ServerTypeOK
  <2>2. CASE ~ApplyTask
    BY <1>5, <2>2, ServerStep DEF Configured
  <2>3. QED BY <2>1, <2>2
(* A write that is asked for goes to an index that has them. *)
<1>6. ASSUME NEW q, Request(q), q.kind = "write"
      PROVE  q.index \in Indexes /\ Configured(q.index)
  <2>1. Writing /\ q.index = CurrentRun.index /\ phase = "issue"
    BY <1>3, <1>6, RequestParts DEF Writing
  <2>2. CASE Routed
    BY <1>1, <1>2, <1>3, <2>1, <2>2, CurrentParts DEF Writing, Unprepared, SettingsFirst
  <2>3. CASE ~Routed
    BY <1>2, <1>3, <2>1, <2>3, RunIndex, CurrentParts DEF SettingsFirst
  <2>4. QED BY <2>2, <2>3
<1>7. \A t \in DOMAIN tasks : tasks[t].index \in Indexes
  BY <1>3, TaskParts
<1>8. \A q \in late : q.index \in Indexes
  BY <1>3 DEF ServerTypeOK, Task
<1>9. ASSUME NEW q \in late', q.kind = "write" PROVE Configured(q.index)'
  <2>1. q.index \in Indexes /\ Configured(q.index)
    BY <1>2, <1>4, <1>6, <1>8, <1>9 DEF SettingsFirst
  <2>2. PICK i \in Indexes : i = q.index
    BY <2>1
  <2>3. Configured(i)'
    BY <1>5, <2>1, <2>2
  <2>4. QED BY <2>2, <2>3
<1>10. ASSUME NEW t \in DOMAIN tasks', tasks'[t].kind = "write"
       PROVE  indexes'[tasks'[t].index] = "configured"
  <2>1. CASE t \in DOMAIN tasks
    BY <1>2, <1>4, <1>5, <1>7, <1>10, <2>1 DEF SettingsFirst, Configured
  <2>2. CASE t \notin DOMAIN tasks
    <3>1. tasks'[t].index \in Indexes /\ Configured(tasks'[t].index)
      BY <1>2, <1>4, <1>6, <1>8, <1>10, <2>2 DEF SettingsFirst, Configured
    <3>2. QED BY <1>5, <3>1 DEF Configured
  <2>3. QED BY <2>1, <2>2
<1>11. ASSUME NEW t \in DOMAIN tasks', tasks'[t].kind = "settings", tasks'[t].status = "succeeded"
       PROVE  indexes'[tasks'[t].index] = "configured"
  <2>1. CASE t \notin DOMAIN tasks
    <3>1. tasks'[t].status = "enqueued"
      BY <1>3, <1>4, <2>1, RequestParts DEF AddressInv
    <3>2. QED BY <1>11, <3>1
  <2>2. CASE t \in DOMAIN tasks /\ tasks[t].status = "succeeded"
    BY <1>2, <1>4, <1>5, <1>7, <1>11, <2>2 DEF SettingsFirst, Configured
  <2>3. CASE t \in DOMAIN tasks /\ tasks[t].status # "succeeded" /\ ApplyTask
    <3>1. PICK u \in DOMAIN tasks :
            /\ \A v \in DOMAIN tasks : v # u => tasks'[v] = tasks[v]
            /\ indexes' = [indexes EXCEPT ![tasks[u].index] =
                             IF tasks[u].kind = "settings" THEN "configured"
                             ELSE IF @ = "absent" THEN "created" ELSE @]
      BY <1>3, <2>3, AppliedTypes
    <3>2. t = u
      BY <1>11, <2>3, <3>1
    <3>3. QED BY <1>3, <1>4, <1>7, <1>11, <3>1, <3>2 DEF ServerTypeOK
  <2>4. CASE t \in DOMAIN tasks /\ tasks[t].status # "succeeded" /\ ~ApplyTask
    <3>1. LoseTask
      BY <1>11, <2>4, ServerStep
    <3>2. PICK u \in DOMAIN tasks : FailTask(u) \/ ForgetTask(u)
      BY <3>1 DEF LoseTask
    <3>3. PICK status \in {"failed", "unknown"} : Ends(u, status)
      BY <3>2 DEF FailTask, ForgetTask
    <3>4. tasks'[u].status = status /\ \A v \in DOMAIN tasks : v # u => tasks'[v] = tasks[v]
      BY <1>3, <3>3, EndsTypes
    <3>5. QED BY <1>11, <2>4, <3>4
  <2>5. QED BY <2>1, <2>2, <2>3, <2>4
(* An index is taken to be prepared when its settings are applied. *)
<1>12. Prepared => Target \in Indexes /\ Configured(Target)
  <2>1. SUFFICES ASSUME Prepared PROVE Target \in Indexes /\ Configured(Target)
    OBVIOUS
  <2>2. prep = "settings" /\ Status(asked) = "succeeded"
    BY <1>1, <2>1 DEF Prepared
  <2>3. asked \in DOMAIN tasks /\ tasks[asked].kind = "settings" /\ tasks[asked].index = Target
    BY <1>2, <2>2 DEF SettingsFirst
  <2>4. tasks[asked].status = "succeeded"
    BY <2>2, <2>3 DEF Status
  <2>5. QED BY <1>2, <1>7, <2>3, <2>4 DEF SettingsFirst
<1>13. ASSUME NEW i \in known' PROVE Configured(i)'
  <2>1. known' \subseteq known \/ (Prepared /\ known' \subseteq known \cup {Target})
    BY PrepStep DEF Prepared
  <2>2. i \in Indexes /\ Configured(i)
    BY <1>2, <1>3, <1>12, <2>1 DEF SettingsFirst, PublisherTypeOK
  <2>3. QED BY <1>5, <2>2
<1>14. ASSUME ~Routed, phase' # "start" PROVE Configured(Literal)'
  <2>1. Literal \in Indexes
    BY PlanningAssumption DEF PlanningAssumption
  <2>2. phase # "start" \/ Prepared
    BY <1>14, PrepStep
  <2>3. Configured(Literal)
    BY <1>2, <1>12, <1>14, <2>2 DEF SettingsFirst, Target
  <2>4. QED BY <1>5, <2>1, <2>3
<1>15. ASSUME prep' = "settings"
       PROVE  /\ asked' \in DOMAIN tasks'
              /\ tasks'[asked'].kind = "settings" /\ tasks'[asked'].index = Target'
  <2>1. CASE AskSettings
    <3>1. /\ tasks' = Append(tasks, NewTask(Target, "settings", <<>>))
          /\ asked' = Len(tasks') /\ UNCHANGED <<phase, call>>
      BY <2>1 DEF AskSettings, Ask, Enqueued
    <3>2. tasks \in Seq(Task)
      BY <1>3 DEF ServerTypeOK
    <3>3. asked' \in DOMAIN tasks' /\ tasks'[asked'] = NewTask(Target, "settings", <<>>)
      BY <3>1, <3>2
    <3>4. Target' = Target
      BY <3>1 DEF Target, CurrentRun, call
    <3>5. QED BY <3>3, <3>4 DEF NewTask
  <2>2. CASE prep = "settings" /\ UNCHANGED publisher
    <3>1. Target' = Target /\ asked' = asked
      BY <2>2 DEF Target, CurrentRun, call, publisher
    <3>2. QED BY <1>2, <1>4, <2>2, <3>1 DEF SettingsFirst
  <2>3. QED BY <1>15, <2>1, <2>2, PrepStep
<1>16. ASSUME NEW i \in Indexes, NEW d \in Docs, docs'[i][d] # 0 PROVE Configured(i)'
  <2>1. CASE docs[i][d] # 0
    BY <1>2, <1>5, <2>1 DEF SettingsFirst
  <2>2. CASE docs[i][d] = 0
    <3>1. ApplyTask
      BY <1>16, <2>2, ServerStep
    <3>2. PICK t \in DOMAIN tasks :
            docs' = IF tasks[t].kind = "write"
                    THEN [docs EXCEPT ![tasks[t].index] = Stored(@, tasks[t].writes)]
                    ELSE docs
      BY <1>3, <3>1, AppliedTypes
    <3>3. tasks[t].kind = "write" /\ i = tasks[t].index
      BY <1>3, <1>16, <2>2, <3>2 DEF ServerTypeOK
    <3>4. Configured(i)
      BY <1>2, <3>3 DEF SettingsFirst
    <3>5. QED BY <1>5, <3>4
  <2>3. QED BY <2>1, <2>2
<1>17. QED
  BY <1>9, <1>10, <1>11, <1>13, <1>14, <1>15, <1>16 DEF SettingsFirst, Configured

(* While the server is not restored from a snapshot, no document is        *)
(* indexed before the settings of its index, however the requests of       *)
(* prepare_index fail, arrive late or are repeated.                        *)
THEOREM SettingsBeforeDocumentsHolds ==
  ASSUME "restore" \notin RareMishaps
  PROVE  Spec => []SettingsBeforeDocuments
<1>1. Init => SettingsInv
  BY DEF Init, PublisherInit, ServerInit, Created, SettingsInv, SettingsFirst
<1>2. IInv /\ AddressInv /\ SettingsInv /\ [Next]_vars => SettingsInv'
  <2>1. ~Restore
    BY DEF Restore
  <2>2. QED BY <2>1, SettingsKept
<1>3. SettingsInv => SettingsBeforeDocuments
  BY DEF SettingsInv, SettingsFirst, Configured, SettingsBeforeDocuments
<1>4. QED BY <1>1, <1>2, <1>3, RouteInvariant, EveryTaskAddressed, PTL DEF Spec

-----------------------------------------------------------------------------
(***************************************************************************)
(* The order of the writes to a document.  From here on no request arrives *)
(* late and the server is not restored.                                    *)
(***************************************************************************)
LEMMA EntryParts ==
  ASSUME IInv, AddressInv, NEW t \in DOMAIN tasks, NEW k \in DOMAIN tasks[t].writes
  PROVE  LET n == tasks[t].writes[k].number
         IN /\ t \in Nat /\ k \in Nat /\ n \in DOMAIN stream /\ n \in Nat
            /\ Index(n) = tasks[t].index /\ Index(n) \in Indexes
            /\ Doc(n) = tasks[t].writes[k].doc /\ Doc(n) \in Docs
            /\ tasks[t].kind = "write" /\ tasks[t].writes \in Seq(Entry)
<1>1. ServerTypeOK /\ stream \in Seq(Message)
  BY DEF IInv, CallInv, TypeOK
<1>2. /\ t \in Nat /\ tasks[t].index \in Indexes /\ tasks[t].writes \in Seq(Entry)
      /\ tasks[t].kind \in {"create", "settings", "write"}
  BY <1>1, TaskParts
<1>3. k \in Nat
  BY <1>2
<1>4. Addressed(tasks[t])
  BY DEF AddressInv
<1>5. tasks[t].kind = "write"
  BY <1>4 DEF Addressed
<1> DEFINE n == tasks[t].writes[k].number
<1>6. /\ n \in DOMAIN stream /\ tasks[t].writes[k].doc = Doc(n) /\ tasks[t].index = Index(n)
  BY <1>4, <1>5 DEF Addressed
<1> HIDE DEF n
<1>7. n \in Nat /\ stream[n] \in Message
  BY <1>1, <1>6
<1>8. Doc(n) \in Docs
  BY <1>7 DEF Message, Doc
<1>9. QED BY <1>2, <1>3, <1>5, <1>6, <1>7, <1>8 DEF n

LEMMA MineOfCases ==
  ASSUME NEW complete, NEW open, NEW t
  PROVE  t \in MineOf(complete, open) <=>
           (\E r \in DOMAIN complete : t \in Range(complete[r])) \/ t \in Range(open)
<1> DEFINE S == {Range(complete[r]) : r \in DOMAIN complete}
<1>1. (\E x \in S : t \in x) <=> \E r \in DOMAIN complete : t \in Range(complete[r])
  OBVIOUS
<1>2. MineOf(complete, open) = (UNION S) \cup Range(open)
  BY DEF MineOf
<1> HIDE DEF S
<1>3. t \in UNION S <=> \E x \in S : t \in x
  OBVIOUS
<1>4. t \in (UNION S) \cup Range(open) <=> t \in UNION S \/ t \in Range(open)
  OBVIOUS
<1>5. (t \in MineOf(complete, open)) = (t \in (UNION S) \cup Range(open))
  BY <1>2, Zenon
<1>6. QED BY <1>1, <1>3, <1>4, <1>5, Zenon

LEMMA MineCases ==
  /\ \A t : t \in Mine <=> ((\E r \in DOMAIN issued : t \in Range(issued[r]))
                              \/ (phase = "issue" /\ t \in Range(requests)))
  /\ \A t : t \in Mine' <=> ((\E r \in DOMAIN issued' : t \in Range(issued'[r]))
                              \/ (phase' = "issue" /\ t \in Range(requests')))
<1>1. \A t : t \notin Range(<<>>)
  BY DEF Range
<1>2. QED BY <1>1, MineOfCases DEF Mine

(* What the call has issued so far. *)
LEMMA MineParts ==
  ASSUME IInv, TakenInv, NEW t \in Mine
  PROVE  /\ phase \in {"issue", "confirm"} /\ t \in DOMAIN tasks
         /\ \A k \in DOMAIN tasks[t].writes :
              \E r \in 1 .. Len(plan.runs) : \E p \in 1 .. Len(plan.runs[r].positions) :
                /\ tasks[t].writes[k].number = Number(r, p)
                /\ r \in 1 .. Len(issued) \/ (r = Len(issued) + 1 /\ p <= Done)
<1>1. CallInv /\ PublisherTypeOK /\ Control
  BY DEF IInv, CallInv, TypeOK
<1>2. phase \in {"issue", "confirm"}
  <2>1. SUFFICES ASSUME phase \in {"start", "idle"} PROVE FALSE
    BY <1>1 DEF PublisherTypeOK
  <2>2. issued = <<>> /\ phase # "issue"
    BY <1>1, <2>1 DEF Control, Quiet
  <2>3. QED BY <2>2, MineCases
<1>3. /\ issued \in Seq(Seq(Uids)) /\ Len(issued) <= Len(plan.runs) /\ Len(plan.runs) \in Nat
      /\ \A r \in 1 .. Len(plan.runs) : Len(plan.runs[r].positions) \in Nat
  BY <1>1, <1>2, CallParts DEF PublisherTypeOK, Control
<1>4. CASE \E r \in DOMAIN issued : t \in Range(issued[r])
  <2>1. PICK r \in DOMAIN issued : \E i \in DOMAIN issued[r] : t = issued[r][i]
    BY <1>4 DEF Range
  <2>2. r \in 1 .. Len(issued) /\ r \in 1 .. Len(plan.runs)
    BY <1>3, <2>1
  <2>3. Taken(issued[r], r, Len(plan.runs[r].positions))
    BY <1>2, <2>1 DEF TakenInv
  <2>4. t \in DOMAIN tasks
    BY <2>1, <2>3 DEF Taken, TakenIn
  <2>5. ASSUME NEW k \in DOMAIN tasks[t].writes
        PROVE  \E p \in 1 .. Len(plan.runs[r].positions) :
                 tasks[t].writes[k].number = Number(r, p)
    BY <2>1, <2>3 DEF Taken, TakenIn, Number
  <2>6. QED BY <1>2, <2>2, <2>4, <2>5
<1>5. CASE phase = "issue" /\ t \in Range(requests)
  <2>1. PICK i \in DOMAIN requests : t = requests[i]
    BY <1>5 DEF Range
  <2>2. Taken(requests, Len(issued) + 1, Done)
    BY <1>5 DEF TakenInv
  <2>3. /\ Len(issued) + 1 \in 1 .. Len(plan.runs)
        /\ CurrentRun = plan.runs[Len(issued) + 1]
    BY <1>1, <1>5, CurrentParts
  <2>4. t \in DOMAIN tasks
    BY <2>1, <2>2 DEF Taken, TakenIn
  <2>5. ASSUME NEW k \in DOMAIN tasks[t].writes
        PROVE  \E p \in 1 .. Done : tasks[t].writes[k].number = Number(Len(issued) + 1, p)
    BY <2>1, <2>2 DEF Taken, TakenIn, Number
  <2>6. \A p \in 1 .. Done : p \in 1 .. Len(CurrentRun.positions) /\ p <= Done
    BY <1>1, <1>5, BodyParts
  <2>7. QED BY <1>2, <2>3, <2>4, <2>5, <2>6
<1>6. QED BY <1>4, <1>5, MineCases

(* A request writes nothing older than what the call issued before it, ... *)
LEMMA RequestBehindMine ==
  ASSUME IInv, TakenInv, NEW q, Request(q), NEW l \in DOMAIN q.writes,
         NEW t \in Mine, NEW k \in DOMAIN tasks[t].writes,
         SameDocument(q.writes[l].number, tasks[t].writes[k].number)
  PROVE  tasks[t].writes[k].number <= q.writes[l].number
<1>1. CallInv /\ PublisherTypeOK
  BY DEF IInv, CallInv, TypeOK
<1>2. /\ Writing /\ Len(issued) + 1 \in 1 .. Len(plan.runs)
      /\ Done + l \in 1 .. Len(CurrentRun.positions) /\ l \in Nat \ {0}
      /\ q.writes[l].number = Number(Len(issued) + 1, Done + l)
  <2>1. q.kind = "write"
    BY <1>1, RequestParts
  <2>2. QED BY <1>1, <2>1, RequestParts
<1>3. PICK r \in 1 .. Len(plan.runs) : \E p \in 1 .. Len(plan.runs[r].positions) :
        /\ tasks[t].writes[k].number = Number(r, p)
        /\ r \in 1 .. Len(issued) \/ (r = Len(issued) + 1 /\ p <= Done)
  BY MineParts
<1>4. PICK p \in 1 .. Len(plan.runs[r].positions) :
        /\ tasks[t].writes[k].number = Number(r, p)
        /\ r \in 1 .. Len(issued) \/ (r = Len(issued) + 1 /\ p <= Done)
  BY <1>3
<1>5. phase = "issue" /\ Len(issued) \in Nat /\ Done \in Nat
  BY <1>1, <1>2, BodyParts, CurrentParts DEF Writing
<1>6. r < Len(issued) + 1 \/ (r = Len(issued) + 1 /\ p <= Done + l)
  BY <1>2, <1>4, <1>5
<1>7. Done + l \in 1 .. Len(plan.runs[Len(issued) + 1].positions)
  BY <1>2 DEF CurrentRun
<1>8. QED BY <1>2, <1>4, <1>5, <1>6, <1>7, NumbersInOrder

(* ... has its own writes in order, ...                                    *)
LEMMA RequestRising ==
  ASSUME IInv, NEW q, Request(q), NEW k \in DOMAIN q.writes, NEW l \in DOMAIN q.writes, k <= l,
         SameDocument(q.writes[l].number, q.writes[k].number)
  PROVE  q.writes[k].number <= q.writes[l].number
<1>1. CallInv
  BY DEF IInv
<1>2. q.kind = "write"
  BY <1>1, RequestParts
<1>3. /\ Writing /\ Len(issued) + 1 \in 1 .. Len(plan.runs)
      /\ Done + l \in 1 .. Len(CurrentRun.positions) /\ l \in Nat
      /\ Done + k \in 1 .. Len(CurrentRun.positions) /\ k \in Nat
      /\ q.writes[l].number = Number(Len(issued) + 1, Done + l)
      /\ q.writes[k].number = Number(Len(issued) + 1, Done + k)
  BY <1>1, <1>2, RequestParts
<1>4. phase = "issue" /\ Done \in Nat
  BY <1>1, <1>3, BodyParts DEF Writing
<1>5. Done + k <= Done + l
  BY <1>3, <1>4
<1>6. CurrentRun = plan.runs[Len(issued) + 1]
  BY DEF CurrentRun
<1>7. QED BY <1>3, <1>4, <1>5, <1>6, NumbersInOrder

(* ... and nothing older than what was reported as delivered.              *)
LEMMA RequestBehindAcked ==
  ASSUME IInv, NEW q, Request(q), NEW l \in DOMAIN q.writes, NEW n \in acked,
         SameDocument(q.writes[l].number, n)
  PROVE  n < q.writes[l].number
<1>1. CallInv
  BY DEF IInv
<1>2. q.kind = "write"
  BY <1>1, RequestParts
<1>3. /\ Writing /\ Len(issued) + 1 \in 1 .. Len(plan.runs)
      /\ Done + l \in 1 .. Len(CurrentRun.positions)
      /\ q.writes[l].number = Number(Len(issued) + 1, Done + l)
  BY <1>1, <1>2, RequestParts
<1>4. plan.runs[Len(issued) + 1].positions[Done + l] \in 1 .. Len(batch)
  BY <1>1, <1>3, NumberParts DEF Writing, CurrentRun
<1>5. q.writes[l].number \in Range(batch)
  <2>1. DOMAIN batch = 1 .. Len(batch)
    BY <1>1 DEF CallInv, TypeOK, PublisherTypeOK
  <2>2. QED BY <1>3, <1>4, <2>1 DEF Number, Range
<1>6. QED BY <1>5 DEF IInv, RouteInv

LEMMA PromptKept ==
  ASSUME "late" \notin RareMishaps, Prompt, [Next]_vars
  PROVE  Prompt'
<1>1. ASSUME NEW index, NEW kind, NEW writes,
             Enqueued(index, kind, writes) \/ HeldBack(index, kind, writes)
      PROVE  late' = late
  BY <1>1 DEF Enqueued, HeldBack
<1>2. Call => late' = late
  <2>1. \A k \in 1 .. Len(body) : WriteDocuments(k) => late' = late
    BY <1>1 DEF WriteDocuments
  <2>2. AskCreate \/ AskSettings => late' = late
    BY <1>1 DEF AskCreate, AskSettings, Ask
  <2>3. QED BY <2>1, <2>2 DEF Call, PublisherStep, CreateAnsweredExists, CreateFinished,
              Prepared, PrepareFailed, AwaitLast, ReadEarlier, DoNotWait, server
<1>3. PublisherMishap => late' = late
  BY <1>1 DEF PublisherMishap, ReplyLost, RequestRefused, PollRefused
<1>4. Apply \/ LoseTask \/ Restore => late' = late
  BY DEF Apply, ApplyTask, ApplyCreate, ApplySettings, ApplyWrite, LoseTask, FailTask,
         ForgetTask, Restore
<1>5. ~Arrival
  BY DEF Arrival, Prompt
<1>6. Receive \/ Resend \/ GiveUp \/ Report \/ Commit \/ Crash \/ UNCHANGED vars => late' = late
  BY DEF Receive, Resend, GiveUp, Report, Commit, Crash, vars, server
<1>7. late' = late
  BY <1>2, <1>3, <1>4, <1>5, <1>6 DEF Next, Trouble
<1>8. QED BY <1>7 DEF Prompt

(* The queue of a prompt network: what joins it was asked for now. *)
LEMMA PromptQueue ==
  ASSUME IInv, Prompt, [Next]_vars, ~Restore
  PROVE  /\ DOMAIN tasks \subseteq DOMAIN tasks'
         /\ \A t \in DOMAIN tasks : /\ tasks'[t].index = tasks[t].index
                                    /\ tasks'[t].kind = tasks[t].kind
                                    /\ tasks'[t].writes = tasks[t].writes
         /\ \A t \in DOMAIN tasks' \ DOMAIN tasks :
              t = Len(tasks) + 1 /\ Request(tasks'[t]) /\ tasks'[t].status = "enqueued"
<1>1. CallInv
  BY DEF IInv
<1>2. \A t \in DOMAIN tasks' \ DOMAIN tasks : Request(tasks'[t])
  BY QueueStep DEF Prompt
<1>3. \A t \in DOMAIN tasks' \ DOMAIN tasks : tasks'[t].status = "enqueued"
  BY <1>1, <1>2, RequestParts
<1>4. QED BY <1>2, <1>3, QueueStep

(* What the call counts as issued grows by the tasks it asks for. *)
LEMMA MineStep ==
  ASSUME IInv, [Next]_vars, NEW t \in Mine'
  PROVE  \/ t \in Mine
         \/ t = Len(tasks) + 1 /\ t \notin DOMAIN tasks /\ t \in DOMAIN tasks'
<1>1. CallInv /\ PublisherTypeOK /\ Control /\ CallInv' /\ PublisherTypeOK' /\ Control'
  BY NextKeeps DEF IInv, CallInv, TypeOK
<1>2. CASE phase' \in {"start", "idle"}
  <2>1. issued' = <<>>
    BY <1>1, <1>2 DEF Control, Quiet
  <2>2. QED BY <1>2, <2>1, MineCases
<1>3. CASE \E numbers : SendBatch(numbers)
  <2>1. issued' = <<>> /\ requests' = <<>>
    BY <1>1, <1>3 DEF SendBatch, Control, Quiet
  <2>2. QED BY <2>1, MineCases DEF Range
<1>4. ASSUME NEW k \in 1 .. Len(body), WriteDocuments(k)
      PROVE  \/ t \in Mine
             \/ t = Len(tasks) + 1 /\ t \notin DOMAIN tasks /\ t \in DOMAIN tasks'
  <2> DEFINE uid == Len(tasks) + 1
  <2>1. phase = "issue" /\ Len(tasks') = uid /\ uid \notin DOMAIN tasks /\ uid \in DOMAIN tasks'
    BY <1>1, <1>4, WrittenParts
  <2>2. requests \in Seq(Uids) /\ issued \in Seq(Seq(Uids))
    BY <1>1 DEF PublisherTypeOK
  <2>3. PICK ts : ts = Append(requests, uid)
    OBVIOUS
  <2>4. \A i \in DOMAIN ts : ts[i] = uid \/ (i \in DOMAIN requests /\ ts[i] = requests[i])
    BY <2>2, <2>3
  <2>5. Range(ts) \subseteq Range(requests) \cup {uid}
    BY <2>4 DEF Range
  <2>6. CASE k < Len(body)
    <3>1. requests' = ts /\ issued' = issued
      BY <1>4, <2>1, <2>3, <2>6 DEF WriteDocuments
    <3>2. CASE \E r \in DOMAIN issued : t \in Range(issued[r])
      <4>1. t \in Mine
        BY <3>2, MineCases
      <4>2. QED BY <4>1
    <3>3. CASE t \in Range(ts)
      BY <2>1, <2>5, <3>3, MineCases
    <3>4. (\E r \in DOMAIN issued : t \in Range(issued[r])) \/ t \in Range(ts)
      <4>1. t \in Mine' <=> ((\E r \in DOMAIN issued' : t \in Range(issued'[r]))
                             \/ (phase' = "issue" /\ t \in Range(requests')))
        BY MineCases
      <4>2. QED BY <3>1, <4>1
    <3>5. QED BY <3>2, <3>3, <3>4
  <2>7. CASE ~(k < Len(body))
    <3>1. requests' = <<>> /\ issued' = Append(issued, ts)
      BY <1>4, <2>1, <2>3, <2>7 DEF WriteDocuments
    <3>2. \A r \in DOMAIN issued' : issued'[r] = ts \/ (r \in DOMAIN issued /\ issued'[r] = issued[r])
      BY <2>2, <3>1
    <3>3. Range(requests') = {}
      BY <3>1 DEF Range
    <3>4. PICK r \in DOMAIN issued' : t \in Range(issued'[r])
      BY <3>3, MineCases
    <3>5. CASE issued'[r] = ts
      BY <2>1, <2>5, <3>4, <3>5, MineCases
    <3>6. CASE r \in DOMAIN issued /\ issued'[r] = issued[r]
      <4>1. t \in Mine
        BY <3>4, <3>6, MineCases
      <4>2. QED BY <4>1
    <3>7. QED BY <3>2, <3>5, <3>6
  <2>8. QED BY <2>6, <2>7
<1>5. CASE /\ UNCHANGED <<batch, plan, issued>>
           /\ \/ phase = "issue" /\ UNCHANGED <<phase, body, requests>>
              \/ phase' = "confirm"
  BY <1>5, MineCases
<1>6. QED BY <1>2, <1>3, <1>4, <1>5, CallStep

(* A task that is not followed by older writes stays so as long as none is *)
(* asked for.                                                              *)
LEMMA NewestKept ==
  ASSUME IInv, Prompt, [Next]_vars, ~Restore,
         NEW t \in DOMAIN tasks, NEW k \in DOMAIN tasks[t].writes, Newest(t, k),
         \A q : Request(q) => \A l \in DOMAIN q.writes :
           SameDocument(q.writes[l].number, tasks[t].writes[k].number) =>
             tasks[t].writes[k].number <= q.writes[l].number
  PROVE  Newest(t, k)'
<1>1. stream' = stream
  BY GivenKept
<1>2. ASSUME NEW u \in DOMAIN tasks', NEW l \in DOMAIN tasks'[u].writes,
             t < u \/ (t = u /\ k <= l),
             SameDocument(tasks'[u].writes[l].number, tasks[t].writes[k].number)
      PROVE  tasks[t].writes[k].number <= tasks'[u].writes[l].number
  <2>1. CASE u \in DOMAIN tasks
    BY <1>2, <2>1, PromptQueue DEF Newest
  <2>2. CASE u \notin DOMAIN tasks
    BY <1>2, <2>2, PromptQueue
  <2>3. QED BY <2>1, <2>2
<1>3. tasks'[t].writes = tasks[t].writes
  BY PromptQueue
<1>4. QED BY <1>1, <1>2, <1>3 DEF Newest, SameDocument, Index, Doc

LEMMA NewestKeeps ==
  ASSUME IInv, TakenInv, NewestInv, Prompt, [Next]_vars, ~Restore
  PROVE  NewestInv'
<1>1. SUFFICES ASSUME NEW t \in Mine', NEW k \in DOMAIN tasks'[t].writes
               PROVE  Newest(t, k)'
  BY DEF NewestInv
<1>2. CASE t \in Mine
  <2>1. t \in DOMAIN tasks
    BY <1>2, MineParts
  <2>2. tasks'[t].writes = tasks[t].writes
    BY <2>1, PromptQueue
  <2>3. Newest(t, k)
    BY <1>2, <2>2 DEF NewestInv
  <2>4. QED BY <1>2, <2>1, <2>2, <2>3, NewestKept, RequestBehindMine
<1>3. CASE t = Len(tasks) + 1 /\ t \notin DOMAIN tasks /\ t \in DOMAIN tasks'
  <2>1. Request(tasks'[t])
    BY <1>3, PromptQueue
  <2>2. stream' = stream
    BY GivenKept
  <2>3. \A u \in DOMAIN tasks' : ~(t < u)
    <3>1. \A u \in DOMAIN tasks' : u \in DOMAIN tasks \/ u = t
      BY <1>3, PromptQueue
    <3>2. tasks \in Seq(Task)
      BY DEF IInv, CallInv, TypeOK, ServerTypeOK
    <3>3. QED BY <1>3, <3>1, <3>2
  <2>4. ASSUME NEW l \in DOMAIN tasks'[t].writes, k <= l,
               SameDocument(tasks'[t].writes[l].number, tasks'[t].writes[k].number)
        PROVE  tasks'[t].writes[k].number <= tasks'[t].writes[l].number
    BY <2>1, <2>4, RequestRising
  <2>5. QED BY <2>2, <2>3, <2>4 DEF Newest, SameDocument, Index, Doc
<1>4. QED BY <1>2, <1>3, MineStep

LEMMA CoveredKeeps ==
  ASSUME IInv, AddressInv, TakenInv, NewestInv, CoveredInv, Prompt, [Next]_vars, ~Restore
  PROVE  CoveredInv'
<1>1. SUFFICES ASSUME NEW n \in acked'
               PROVE  \E t \in DOMAIN tasks' : \E k \in DOMAIN tasks'[t].writes :
                        tasks'[t].writes[k].number = n /\ Newest(t, k)'
  BY DEF CoveredInv
<1>2. CASE n \in acked
  <2>1. PICK t \in DOMAIN tasks : \E k \in DOMAIN tasks[t].writes :
          tasks[t].writes[k].number = n /\ Newest(t, k)
    BY <1>2 DEF CoveredInv
  <2>2. PICK k \in DOMAIN tasks[t].writes : tasks[t].writes[k].number = n /\ Newest(t, k)
    BY <2>1
  <2>3. \A q : Request(q) => \A l \in DOMAIN q.writes :
          SameDocument(q.writes[l].number, n) => n <= q.writes[l].number
    <3>1. SUFFICES ASSUME NEW q, Request(q), NEW l \in DOMAIN q.writes,
                          SameDocument(q.writes[l].number, n)
                   PROVE  n <= q.writes[l].number
      OBVIOUS
    <3>2. n < q.writes[l].number
      BY <1>2, <3>1, RequestBehindAcked
    <3>3. n \in Nat /\ q.writes[l].number \in Nat
      BY <2>2, <3>1, EntryParts, RequestNumbers
    <3>4. QED BY <3>2, <3>3
  <2>4. Newest(t, k)'
    BY <2>2, <2>3, NewestKept
  <2>5. QED BY <2>2, <2>4, PromptQueue
<1>3. CASE n \notin acked
  <2>1. Report
    BY <1>3, AckedStep
  <2>2. n \in Range(Judged("ok")) /\ UNCHANGED <<tasks, given>>
    BY <1>3, <2>1 DEF Report, server
  <2>3. PICK r \in DOMAIN outcomes : \E p \in 1 .. Len(plan.runs[r].positions) :
          r \in DOMAIN issued /\ phase = "confirm" /\ n = Number(r, p)
    BY <2>1, <2>2, OkParts
  <2>4. Taken(issued[r], r, Len(plan.runs[r].positions))
    BY <2>3 DEF TakenInv
  <2>5. PICK i \in DOMAIN issued[r] : \E k \in DOMAIN tasks[issued[r][i]].writes :
          issued[r][i] \in DOMAIN tasks /\ tasks[issued[r][i]].writes[k].number = n
    BY <2>3, <2>4 DEF Taken, TakenIn, Number
  <2>6. issued[r][i] \in Mine
    BY <2>3, MineCases DEF Range
  <2>7. PICK t \in DOMAIN tasks : \E k \in DOMAIN tasks[t].writes :
          tasks[t].writes[k].number = n /\ Newest(t, k)
    BY <2>5, <2>6 DEF NewestInv
  <2>8. PICK k \in DOMAIN tasks[t].writes : tasks[t].writes[k].number = n /\ Newest(t, k)
    BY <2>7
  <2>9. Newest(t, k)'
    BY <2>2, <2>8 DEF Newest, SameDocument, Index, Doc, given
  <2>10. QED BY <2>2, <2>7, <2>9, <2>8
<1>4. QED BY <1>2, <1>3

-----------------------------------------------------------------------------
(***************************************************************************)
(* A confirmed write survives.                                             *)
(***************************************************************************)

(* A task ends once, by being applied or by being lost, but may be         *)
(* forgotten even then.                                                    *)
LEMMA StatusStep ==
  ASSUME IInv, [Next]_vars, ~Restore, NEW t \in DOMAIN tasks
  PROVE  /\ t \in DOMAIN tasks'
         /\ \/ tasks'[t].status = tasks[t].status
            \/ tasks'[t].status \in {"failed", "unknown"}
            \/ /\ tasks[t].status = "enqueued" /\ tasks'[t].status \in {"succeeded", "exists"}
               /\ ApplyTask /\ t \in NextTasks /\ DOMAIN tasks' = DOMAIN tasks
               /\ docs' = IF tasks[t].kind = "write"
                          THEN [docs EXCEPT ![tasks[t].index] = Stored(@, tasks[t].writes)]
                          ELSE docs
<1>1. ServerTypeOK
  BY DEF IInv, CallInv, TypeOK
<1>2. t \in DOMAIN tasks'
  BY QueueStep
<1>3. CASE ApplyTask
  <2>1. PICK u \in NextTasks :
          /\ u \in DOMAIN tasks
          /\ tasks'[u].status = IF tasks[u].kind = "create" /\ indexes[tasks[u].index] # "absent"
                                THEN "exists" ELSE "succeeded"
          /\ \A v \in DOMAIN tasks : v # u => tasks'[v] = tasks[v]
          /\ docs' = IF tasks[u].kind = "write"
                     THEN [docs EXCEPT ![tasks[u].index] = Stored(@, tasks[u].writes)]
                     ELSE docs
    BY <1>1, <1>3, AppliedTypes
  <2>2. CASE t # u
    BY <1>2, <2>1, <2>2
  <2>3. CASE t = u
    <3>1. tasks[t].status = "enqueued" /\ t \in NextTasks
      BY <1>1, <2>1, <2>3, NextTaskParts
    <3>2. DOMAIN tasks' = DOMAIN tasks
      BY <1>1, <1>3, AppliedTypes
    <3>3. tasks'[t].status \in {"succeeded", "exists"}
      BY <2>1, <2>3
    <3>4. QED BY <1>2, <1>3, <2>1, <2>3, <3>1, <3>2, <3>3
  <2>4. QED BY <2>2, <2>3
<1>4. CASE LoseTask
  <2>1. PICK u \in DOMAIN tasks : FailTask(u) \/ ForgetTask(u)
    BY <1>4 DEF LoseTask
  <2>2. PICK status \in {"failed", "unknown"} : Ends(u, status)
    BY <2>1 DEF FailTask, ForgetTask
  <2>3. tasks'[u].status = status /\ \A v \in DOMAIN tasks : v # u => tasks'[v] = tasks[v]
    BY <1>1, <2>2, EndsTypes
  <2>4. QED BY <1>2, <2>3
<1>5. CASE \A u \in DOMAIN tasks : tasks'[u] = tasks[u]
  BY <1>2, <1>5
<1>6. QED BY <1>3, <1>4, <1>5, ServerStep

(* What applying a task leaves in the document of one of its messages, or  *)
(* of another one.                                                         *)
LEMMA StoredParts ==
  ASSUME IInv, AddressInv, NEW t \in DOMAIN tasks, NEW i \in Indexes, NEW d \in Docs,
         docs' = IF tasks[t].kind = "write"
                 THEN [docs EXCEPT ![tasks[t].index] = Stored(@, tasks[t].writes)]
                 ELSE docs
  PROVE  \/ /\ docs'[i][d] = docs[i][d]
            /\ \A k \in DOMAIN tasks[t].writes : ~(tasks[t].index = i /\ tasks[t].writes[k].doc = d)
         \/ \E k \in DOMAIN tasks[t].writes :
              /\ tasks[t].index = i /\ tasks[t].writes[k].doc = d
              /\ docs'[i][d] = tasks[t].writes[k].number
              /\ \A l \in DOMAIN tasks[t].writes : tasks[t].writes[l].doc = d => l <= k
<1>1. docs \in [Indexes -> [Docs -> Nat]] /\ ServerTypeOK
  BY DEF IInv, CallInv, TypeOK, ServerTypeOK
<1>2. tasks[t].writes \in Seq(Entry)
  BY <1>1, TaskParts
<1>3. CASE tasks[t].kind = "write" /\ tasks[t].index = i
  <2>1. docs'[i] = Stored(docs[i], tasks[t].writes)
    BY <1>1, <1>3
  <2>2. PICK old, writes : old = docs[i] /\ writes = tasks[t].writes
    OBVIOUS
  <2>3. old \in [Docs -> Nat] /\ writes \in Seq(Entry)
    BY <1>1, <1>2, <2>2
  <2>4. \/ /\ Stored(old, writes)[d] = old[d]
           /\ \A k \in DOMAIN writes : writes[k].doc # d
        \/ \E k \in DOMAIN writes :
             /\ writes[k].doc = d /\ Stored(old, writes)[d] = writes[k].number
             /\ \A l \in DOMAIN writes : writes[l].doc = d => l <= k
    BY <2>3, StoredEntry
  <2>5. QED BY <1>3, <2>1, <2>2, <2>4
<1>4. CASE tasks[t].kind # "write"
  BY <1>4 DEF AddressInv, Addressed
<1>5. CASE tasks[t].kind = "write" /\ tasks[t].index # i
  BY <1>1, <1>5
<1>6. QED BY <1>3, <1>4, <1>5

(* What has landed stays in the index, as long as nothing older is asked   *)
(* for.                                                                    *)
LEMMA LandedKept ==
  ASSUME IInv, AddressInv, Prompt, [Next]_vars, ~Restore,
         NEW t \in DOMAIN tasks, NEW k \in DOMAIN tasks[t].writes,
         NEW n, n = tasks[t].writes[k].number, Landed(n),
         \A q : Request(q) => \A l \in DOMAIN q.writes :
           SameDocument(q.writes[l].number, n) => n <= q.writes[l].number
  PROVE  Landed(n)'
<1>1. n \in Nat /\ Index(n) \in Indexes /\ Doc(n) \in Docs
  BY EntryParts
<1>2. stream' = stream /\ Index(n)' = Index(n) /\ Doc(n)' = Doc(n)
  BY GivenKept
<1>3. docs'[Index(n)][Doc(n)] >= n
  <2>1. CASE ApplyTask
    <3>1. PICK u \in NextTasks :
            /\ u \in DOMAIN tasks
            /\ docs' = IF tasks[u].kind = "write"
                       THEN [docs EXCEPT ![tasks[u].index] = Stored(@, tasks[u].writes)]
                       ELSE docs
      BY <2>1, AppliedTypes DEF IInv, CallInv, TypeOK
    <3>2. tasks[u].status = "enqueued"
      BY <3>1, NextTaskParts DEF IInv, CallInv, TypeOK
    <3>3. CASE docs'[Index(n)][Doc(n)] = docs[Index(n)][Doc(n)]
      BY <3>3 DEF Landed
    <3>4. CASE \E l \in DOMAIN tasks[u].writes :
                 /\ tasks[u].index = Index(n) /\ tasks[u].writes[l].doc = Doc(n)
                 /\ docs'[Index(n)][Doc(n)] = tasks[u].writes[l].number
      <4>1. PICK l \in DOMAIN tasks[u].writes :
                 /\ tasks[u].index = Index(n) /\ tasks[u].writes[l].doc = Doc(n)
                 /\ docs'[Index(n)][Doc(n)] = tasks[u].writes[l].number
        BY <3>4
      <4>2. tasks[u].writes[l].number \in Nat /\ SameDocument(tasks[u].writes[l].number, n)
        BY <3>1, <4>1, EntryParts DEF SameDocument
      <4>3. n <= tasks[u].writes[l].number
        BY <3>1, <3>2, <4>2 DEF Landed
      <4>4. QED BY <1>1, <4>1, <4>2, <4>3
    <3>5. \/ docs'[Index(n)][Doc(n)] = docs[Index(n)][Doc(n)]
          \/ \E l \in DOMAIN tasks[u].writes :
               /\ tasks[u].index = Index(n) /\ tasks[u].writes[l].doc = Doc(n)
               /\ docs'[Index(n)][Doc(n)] = tasks[u].writes[l].number
      <4>1. u \in DOMAIN tasks
        BY <3>1
      <4>2. \A i \in Indexes, e \in Docs :
              \/ docs'[i][e] = docs[i][e]
              \/ \E l \in DOMAIN tasks[u].writes :
                   /\ tasks[u].index = i /\ tasks[u].writes[l].doc = e
                   /\ docs'[i][e] = tasks[u].writes[l].number
        BY <3>1, <4>1, StoredParts
      <4>3. QED BY <1>1, <4>2
    <3>6. QED BY <3>3, <3>4, <3>5
  <2>2. CASE ~ApplyTask
    BY <2>2, ServerStep DEF Landed
  <2>3. QED BY <2>1, <2>2
<1>4. ASSUME NEW u \in DOMAIN tasks', tasks'[u].status = "enqueued",
             NEW l \in DOMAIN tasks'[u].writes, SameDocument(tasks'[u].writes[l].number, n)
      PROVE  n <= tasks'[u].writes[l].number
  <2>1. CASE u \in DOMAIN tasks
    <3>1. tasks[u].status = "enqueued" /\ tasks'[u].writes = tasks[u].writes
      BY <1>4, <2>1, StatusStep, PromptQueue
    <3>2. QED BY <1>4, <2>1, <3>1 DEF Landed
  <2>2. CASE u \notin DOMAIN tasks
    BY <1>4, <2>2, PromptQueue
  <2>3. QED BY <2>1, <2>2
<1>5. QED BY <1>2, <1>3, <1>4 DEF Landed, SameDocument, Index, Doc

(* A task of the call that is applied has landed: the queue of an index is *)
(* first in, first out, and nothing behind it is older.                    *)
LEMMA NewlyLanded ==
  ASSUME IInv, AddressInv, Prompt, [Next]_vars, ~Restore,
         NEW t \in DOMAIN tasks, tasks[t].status # "succeeded", tasks'[t].status = "succeeded",
         NEW k \in DOMAIN tasks[t].writes, Newest(t, k),
         NEW n, n = tasks[t].writes[k].number
  PROVE  Landed(n)'
<1>1. /\ n \in Nat /\ Index(n) \in Indexes /\ Doc(n) \in Docs
      /\ Index(n) = tasks[t].index /\ Doc(n) = tasks[t].writes[k].doc
      /\ t \in Nat /\ k \in Nat
  BY EntryParts
<1>2. stream' = stream /\ Index(n)' = Index(n) /\ Doc(n)' = Doc(n)
  BY GivenKept
<1>3. /\ tasks[t].status = "enqueued" /\ t \in NextTasks /\ DOMAIN tasks' = DOMAIN tasks
      /\ docs' = IF tasks[t].kind = "write"
                 THEN [docs EXCEPT ![tasks[t].index] = Stored(@, tasks[t].writes)]
                 ELSE docs
  BY StatusStep
<1>4. docs'[Index(n)][Doc(n)] >= n
  <2>1. PICK l \in DOMAIN tasks[t].writes :
          /\ tasks[t].writes[l].doc = Doc(n)
          /\ docs'[Index(n)][Doc(n)] = tasks[t].writes[l].number
          /\ k <= l
    BY <1>1, <1>3, StoredParts
  <2>2. tasks[t].writes[l].number \in Nat /\ SameDocument(tasks[t].writes[l].number, n)
    BY <1>1, <2>1, EntryParts DEF SameDocument
  <2>3. n <= tasks[t].writes[l].number
    BY <2>1, <2>2 DEF Newest
  <2>4. QED BY <1>1, <2>1, <2>2, <2>3
<1>5. ASSUME NEW u \in DOMAIN tasks', tasks'[u].status = "enqueued",
             NEW l \in DOMAIN tasks'[u].writes, SameDocument(tasks'[u].writes[l].number, n)
      PROVE  n <= tasks'[u].writes[l].number
  <2>1. u \in DOMAIN tasks /\ u # t
    BY <1>3, <1>5
  <2>2. tasks[u].status = "enqueued" /\ tasks'[u].writes = tasks[u].writes
    BY <1>5, <2>1, StatusStep, PromptQueue
  <2>3. l \in DOMAIN tasks[u].writes /\ SameDocument(tasks[u].writes[l].number, n)
    BY <1>5, <2>2
  <2>4. tasks[u].index = tasks[t].index /\ u \in Nat
    BY <1>1, <2>1, <2>3, EntryParts DEF SameDocument
  <2>5. t < u
    <3>1. t <= u
      BY <1>3, <2>1, <2>2, <2>4, NextTaskParts DEF IInv, CallInv, TypeOK
    <3>2. QED BY <1>1, <2>1, <2>4, <3>1
  <2>6. n <= tasks[u].writes[l].number
    BY <2>1, <2>3, <2>5 DEF Newest
  <2>7. QED BY <2>2, <2>6
<1>6. QED BY <1>2, <1>4, <1>5 DEF Landed, SameDocument, Index, Doc

LEMMA MineLanded ==
  ASSUME IInv, AddressInv, TakenInv, NewestInv, Prompt, [Next]_vars, ~Restore,
         NEW t \in Mine,
         AllLanded(t) \/ (tasks[t].status # "succeeded" /\ tasks'[t].status = "succeeded")
  PROVE  AllLanded(t)'
<1>1. t \in DOMAIN tasks
  BY MineParts
<1>2. tasks'[t].writes = tasks[t].writes
  BY <1>1, PromptQueue
<1>3. ASSUME NEW n, NEW k \in DOMAIN tasks[t].writes, n = tasks[t].writes[k].number
      PROVE  Landed(n)'
  <2>1. CASE AllLanded(t)
    <3>1. n \in DOMAIN stream
      BY <1>1, <1>3, EntryParts
    <3>2. Landed(n)
      BY <1>3, <2>1, <3>1 DEF AllLanded, Writes
    <3>3. \A q : Request(q) => \A l \in DOMAIN q.writes :
            SameDocument(q.writes[l].number, n) => n <= q.writes[l].number
      BY <1>3, RequestBehindMine
    <3>4. QED BY <1>1, <1>3, <3>2, <3>3, LandedKept
  <2>2. CASE tasks[t].status # "succeeded" /\ tasks'[t].status = "succeeded"
    <3>1. Newest(t, k)
      BY <1>3 DEF NewestInv
    <3>2. QED BY <1>1, <1>3, <2>2, <3>1, NewlyLanded
  <2>3. QED BY <2>1, <2>2
<1>4. \A n \in DOMAIN stream' : Writes(t, n)' => Landed(n)'
  BY <1>2, <1>3 DEF Writes
<1>5. QED BY <1>4 DEF AllLanded

(* An outcome is good news only if the tasks were read. *)
LEMMA OutcomeStep ==
  ASSUME IInv, [Next]_vars
  PROVE  /\ waited' = "ok" => AwaitLast \/ (waited = "ok" /\ UNCHANGED <<issued, outcomes>>)
         /\ \A r \in DOMAIN outcomes' : outcomes'[r] = "ok" =>
              \/ r \in DOMAIN outcomes /\ outcomes[r] = "ok" /\ UNCHANGED issued
              \/ r = Len(outcomes) + 1 /\ (ReadEarlier \/ DoNotWait)
<1> DEFINE Same == UNCHANGED <<issued, waited, outcomes>>
           None == waited' = "none" /\ outcomes' = <<>>
           Goal == /\ waited' = "ok" => AwaitLast \/ (waited = "ok" /\ UNCHANGED <<issued, outcomes>>)
                   /\ \A r \in DOMAIN outcomes' : outcomes'[r] = "ok" =>
                        \/ r \in DOMAIN outcomes /\ outcomes[r] = "ok" /\ UNCHANGED issued
                        \/ r = Len(outcomes) + 1 /\ (ReadEarlier \/ DoNotWait)
<1>1. Same \/ None => Goal
  OBVIOUS
<1>2. Control /\ outcomes \in Seq(Failure \cup {"ok"})
  BY DEF IInv, CallInv, TypeOK, PublisherTypeOK
<1>3. ASSUME NEW o, Confirmed(o), UNCHANGED issued, o = "ok" => ReadEarlier \/ DoNotWait
      PROVE  Goal
  <2>1. outcomes' = Append(outcomes, o) /\ waited' = "none"
    BY <1>3 DEF Confirmed
  <2>2. \A r \in DOMAIN outcomes' : \/ r \in DOMAIN outcomes /\ outcomes'[r] = outcomes[r]
                                    \/ r = Len(outcomes) + 1 /\ outcomes'[r] = o
    BY <1>2, <2>1
  <2>3. QED BY <1>3, <2>1, <2>2
<1>4. CASE Receive \/ Resend \/ GiveUp \/ Commit \/ Apply \/ UNCHANGED vars
           \/ (Trouble /\ UNCHANGED publisher)
  <2>1. Same
    BY <1>4 DEF Receive, Resend, SendBatch, GiveUp, Commit, Apply, vars, publisher, call
  <2>2. QED BY <1>1, <2>1
<1>5. CASE Report \/ Crash
  <2>1. None
    BY <1>5 DEF Report, Return, Crash, Restarted, NoCall
  <2>2. QED BY <1>1, <2>1
<1>6. CASE Call
  <2>1. CASE AskCreate \/ AskSettings \/ CreateAnsweredExists \/ CreateFinished \/ Prepared
    <3>1. Same
      BY <2>1 DEF AskCreate, AskSettings, Ask, CreateAnsweredExists, CreateFinished, Prepared, call
    <3>2. QED BY <1>1, <3>1
  <2>2. CASE PrepareFailed
    <3>1. Same
      BY <2>2 DEF PrepareFailed, Abandon
    <3>2. QED BY <1>1, <3>1
  <2>3. ASSUME NEW k \in 1 .. Len(body), WriteDocuments(k) PROVE Goal
    <3>1. waited = "none" /\ outcomes = <<>> /\ UNCHANGED <<waited, outcomes>>
      BY <1>2, <2>3 DEF WriteDocuments, Writing, Control
    <3>2. QED BY <1>1, <3>1
  <2>4. CASE AwaitLast
    BY <2>4 DEF AwaitLast
  <2>5. CASE ReadEarlier \/ DoNotWait
    <3>1. PICK o : Confirmed(o) /\ UNCHANGED issued
      BY <2>5 DEF ReadEarlier, DoNotWait
    <3>2. QED BY <1>3, <2>5, <3>1
  <2>6. QED BY <1>6, <2>1, <2>2, <2>3, <2>4, <2>5 DEF Call, PublisherStep
<1>7. CASE PublisherMishap
  <2>1. CASE \E f : Abandon(f)
    <3>1. Same
      BY <2>1 DEF Abandon
    <3>2. QED BY <1>1, <3>1
  <2>2. CASE waited' = "permanent" /\ UNCHANGED <<outcomes, issued>>
    BY <2>2
  <2>3. CASE Confirmed("permanent") /\ UNCHANGED issued
    BY <1>3, <2>3
  <2>4. QED
    BY <1>7, <2>1, <2>2, <2>3 DEF PublisherMishap, ReplyLost, RequestRefused, PollRefused
<1>8. QED BY <1>4, <1>5, <1>6, <1>7 DEF Next, Trouble

(* A run that is being confirmed was issued, with at least one task. *)
LEMMA TasksParts ==
  ASSUME IInv, TakenInv, phase = "confirm", NEW r \in DOMAIN issued
  PROVE  /\ Range(issued[r]) \subseteq Mine /\ Last(issued[r]) \in Range(issued[r])
         /\ Len(issued[r]) \in Nat \ {0} /\ DOMAIN issued[r] = 1 .. Len(issued[r])
         /\ DOMAIN Front(issued[r]) = 1 .. Len(issued[r]) - 1
<1>1. CallInv /\ PublisherTypeOK /\ Control
  BY DEF IInv, CallInv, TypeOK
<1>2. /\ issued \in Seq(Seq(Uids)) /\ Len(issued) <= Len(plan.runs) /\ Len(plan.runs) \in Nat
      /\ \A s \in 1 .. Len(plan.runs) : Len(plan.runs[s].positions) \in Nat \ {0}
  BY <1>1, CallParts DEF PublisherTypeOK, Control
<1>3. issued[r] \in Seq(Uids) /\ r \in 1 .. Len(plan.runs)
  BY <1>2
<1>4. DOMAIN issued[r] # {}
  <2>1. Taken(issued[r], r, Len(plan.runs[r].positions))
    BY DEF TakenInv
  <2>2. 1 \in 1 .. Len(plan.runs[r].positions)
    BY <1>2, <1>3
  <2>3. QED BY <2>1, <2>2 DEF Taken, TakenIn
<1>5. PICK s : s = issued[r]
  OBVIOUS
<1>6. Len(s) \in Nat \ {0} /\ DOMAIN s = 1 .. Len(s)
  BY <1>3, <1>4, <1>5
<1>7. Last(s) \in Range(s)
  BY <1>6 DEF Last, Range
<1>8. DOMAIN Front(s) = 1 .. Len(s) - 1
  BY <1>3, <1>5, <1>6 DEF Front
<1>9. QED BY <1>5, <1>6, <1>7, <1>8, MineCases

LEMMA LandedKeeps ==
  ASSUME IInv, AddressInv, TakenInv, NewestInv, CoveredInv, LandedInv, Prompt,
         [Next]_vars, ~Restore
  PROVE  LandedInv'
<1>1. CallInv /\ PublisherTypeOK /\ Control /\ config' = config
  BY GivenKept DEF IInv, CallInv, TypeOK
<1>2. ASSUME NEW t \in Mine', tasks'[t].status = "succeeded"
      PROVE  AllLanded(t)'
  <2>1. CASE t \in Mine
    <3>1. tasks[t].status = "succeeded" => AllLanded(t)
      BY <2>1 DEF LandedInv
    <3>2. QED BY <1>2, <2>1, <3>1, MineLanded
  <2>2. CASE t \notin Mine
    <3>1. t \notin DOMAIN tasks /\ t \in DOMAIN tasks'
      BY <2>2, MineStep
    <3>2. tasks'[t].status = "enqueued"
      BY <3>1, PromptQueue
    <3>3. QED BY <1>2, <3>2
  <2>3. QED BY <2>1, <2>2
<1> SUFFICES ASSUME config.waitForTask
             PROVE  /\ waited' = "ok" => \A t \in DOMAIN tasks' :
                                           t = Last(Tasks)' => AllLanded(t)'
                    /\ \A r \in DOMAIN outcomes' : outcomes'[r] = "ok" =>
                         \A t \in Range(issued'[r]) : AllLanded(t)'
                    /\ \A n \in acked' : Landed(n)'
  BY <1>1, <1>2 DEF LandedInv
<1>3. waited # "none" \/ AwaitLast \/ ReadEarlier =>
        /\ phase = "confirm" /\ Len(outcomes) + 1 \in DOMAIN issued
  <2>1. waited # "none" \/ AwaitLast \/ ReadEarlier => Confirming
    BY <1>1 DEF Control, AwaitLast, ReadEarlier
  <2>2. Len(outcomes) \in Nat /\ Len(issued) \in Nat /\ DOMAIN issued = 1 .. Len(issued)
    BY <1>1 DEF PublisherTypeOK
  <2>3. QED BY <2>1, <2>2 DEF Confirming
<1>4. ASSUME waited' = "ok", NEW t \in DOMAIN tasks', t = Last(Tasks)'
      PROVE  AllLanded(t)'
  <2>1. issued' = issued /\ outcomes' = outcomes /\ (AwaitLast \/ waited = "ok")
    BY <1>4, OutcomeStep DEF AwaitLast
  <2>2. phase = "confirm" /\ Len(outcomes) + 1 \in DOMAIN issued
    BY <1>3, <2>1
  <2>3. t = Last(Tasks)
    BY <1>4, <2>1 DEF Tasks
  <2>4. t \in Mine /\ t \in DOMAIN tasks
    BY <2>2, <2>3, TasksParts, MineParts DEF Tasks
  <2>5. AllLanded(t)
    <3>1. CASE waited = "ok"
      BY <2>3, <2>4, <3>1 DEF LandedInv
    <3>2. CASE AwaitLast
      <4>1. TaskOutcome(t) = "ok"
        BY <1>4, <2>3, <3>2 DEF AwaitLast
      <4>2. tasks[t].status = "succeeded"
        BY <2>4, <4>1 DEF TaskOutcome, Status
      <4>3. QED BY <2>4, <4>2 DEF LandedInv
    <3>3. QED BY <2>1, <3>1, <3>2
  <2>6. QED BY <2>4, <2>5, MineLanded
<1>5. ASSUME NEW r \in DOMAIN outcomes', outcomes'[r] = "ok", NEW t \in Range(issued'[r])
      PROVE  AllLanded(t)'
  <2>1. CASE r \in DOMAIN outcomes /\ outcomes[r] = "ok" /\ UNCHANGED issued
    <3>1. t \in Range(issued[r]) /\ AllLanded(t)
      BY <1>5, <2>1 DEF LandedInv
    <3>2. r \in DOMAIN issued
      BY <1>1, <2>1 DEF Control, PublisherTypeOK
    <3>3. t \in Mine
      BY <3>1, <3>2, MineCases
    <3>4. QED BY <3>1, <3>3, MineLanded
  <2>2. CASE r = Len(outcomes) + 1 /\ ReadEarlier
    <3>1. phase = "confirm" /\ r \in DOMAIN issued /\ issued' = issued /\ Tasks = issued[r]
      BY <1>3, <2>2 DEF ReadEarlier, Tasks
    <3>2. t \in Range(issued[r]) /\ t \in Mine /\ t \in DOMAIN tasks
      BY <1>5, <3>1, TasksParts, MineParts
    <3>3. /\ \A j \in 1 .. Len(Tasks) - 1 : TaskOutcome(Tasks[j]) = "ok"
          /\ waited = "ok"
      <4>1. PICK k \in DOMAIN Tasks :
              /\ \A j \in 1 .. k - 1 : TaskOutcome(Tasks[j]) = "ok"
              /\ IF k = Len(Tasks) THEN Confirmed(waited)
                 ELSE /\ Ended(Tasks[k]) /\ TaskOutcome(Tasks[k]) # "ok"
                      /\ Confirmed(TaskOutcome(Tasks[k]))
        BY <2>2 DEF ReadEarlier
      <4>2. outcomes \in Seq(Failure \cup {"ok"})
        BY <1>1 DEF PublisherTypeOK
      <4>3. \A o : Confirmed(o) => o = "ok"
        BY <1>5, <2>2, <4>2 DEF Confirmed
      <4>4. k = Len(Tasks) /\ Confirmed(waited)
        BY <4>1, <4>3
      <4>5. QED BY <4>1, <4>3, <4>4
    <3>4. PICK k \in 1 .. Len(issued[r]) : t = issued[r][k]
      BY <3>1, <3>2, TasksParts DEF Range
    <3>5. CASE k = Len(issued[r])
      <4>1. t = Last(Tasks)
        BY <3>1, <3>4, <3>5 DEF Last
      <4>2. AllLanded(t)
        BY <3>2, <3>3, <4>1 DEF LandedInv
      <4>3. QED BY <3>2, <4>2, MineLanded
    <3>6. CASE k # Len(issued[r])
      <4>1. k \in 1 .. Len(Tasks) - 1
        BY <3>1, <3>4, <3>6, TasksParts
      <4>2. TaskOutcome(t) = "ok"
        BY <3>1, <3>3, <3>4, <4>1
      <4>3. tasks[t].status = "succeeded"
        BY <3>2, <4>2 DEF TaskOutcome, Status
      <4>4. AllLanded(t)
        BY <3>2, <4>3 DEF LandedInv
      <4>5. QED BY <3>2, <4>4, MineLanded
    <3>7. QED BY <3>5, <3>6
  <2>3. ~DoNotWait
    BY DEF DoNotWait
  <2>4. QED BY <1>5, <2>1, <2>2, <2>3, OutcomeStep
<1>6. ASSUME NEW n \in acked' PROVE Landed(n)'
  <2>1. CASE n \in acked
    <3>1. PICK t \in DOMAIN tasks : \E k \in DOMAIN tasks[t].writes : tasks[t].writes[k].number = n
      BY <2>1 DEF CoveredInv
    <3>2. PICK k \in DOMAIN tasks[t].writes : tasks[t].writes[k].number = n
      BY <3>1
    <3>3. ASSUME NEW q, Request(q), NEW l \in DOMAIN q.writes, SameDocument(q.writes[l].number, n)
          PROVE  n <= q.writes[l].number
      <4>1. n < q.writes[l].number
        BY <2>1, <3>3, RequestBehindAcked
      <4>2. n \in Nat /\ q.writes[l].number \in Nat
        BY <3>2, <3>3, EntryParts, RequestNumbers
      <4>3. QED BY <4>1, <4>2
    <3>4. Landed(n)
      BY <2>1 DEF LandedInv
    <3>5. QED BY <3>2, <3>3, <3>4, LandedKept
  <2>2. CASE n \notin acked
    <3>1. Report
      BY <1>6, <2>2, AckedStep
    <3>2. n \in Range(Judged("ok")) /\ UNCHANGED <<tasks, docs, given>>
      BY <1>6, <2>2, <3>1 DEF Report, server
    <3>3. PICK r \in DOMAIN outcomes : \E p \in 1 .. Len(plan.runs[r].positions) :
            /\ outcomes[r] = "ok" /\ r \in DOMAIN issued /\ r \in 1 .. Len(plan.runs)
            /\ phase = "confirm" /\ n = Number(r, p)
      BY <3>1, <3>2, OkParts
    <3>4. Taken(issued[r], r, Len(plan.runs[r].positions))
      BY <3>3 DEF TakenInv
    <3>5. PICK i \in DOMAIN issued[r] : Writes(issued[r][i], n)
      BY <3>3, <3>4 DEF Taken, TakenIn, Number, Writes
    <3>6. AllLanded(issued[r][i])
      BY <3>3, <3>5 DEF LandedInv, Range
    <3>7. n \in DOMAIN stream
      BY <1>1, <3>3, NumberParts
    <3>8. Landed(n)
      BY <3>5, <3>6, <3>7 DEF AllLanded
    <3>9. stream' = stream
      BY <3>2 DEF given
    <3>10. QED BY <3>2, <3>8, <3>9 DEF Landed, SameDocument, Index, Doc
  <2>3. QED BY <2>1, <2>2
<1>7. QED BY <1>4, <1>5, <1>6

(* As long as no request arrives late and the server is not restored from  *)
(* a snapshot, the call has sent nothing that is older than what it sent   *)
(* before, and what was reported as delivered has landed.                  *)
THEOREM DeliveryInvariant ==
  ASSUME RareMishaps = {}
  PROVE  Spec => [](TakenInv /\ NewestInv /\ CoveredInv /\ LandedInv /\ Prompt)
<1>1. Init => TakenInv /\ NewestInv /\ CoveredInv /\ LandedInv /\ Prompt
  <2>1. Init => Mine = {}
    <3>1. SUFFICES ASSUME Init, NEW t \in Mine PROVE FALSE
      OBVIOUS
    <3>2. issued = <<>> /\ phase # "issue"
      BY <3>1 DEF Init, PublisherInit, Created
    <3>3. QED BY <3>1, <3>2, MineCases
  <2>2. Init => TakenInv /\ CoveredInv /\ Prompt
    BY DEF Init, PublisherInit, ServerInit, Created, TakenInv, CoveredInv, Prompt
  <2>3. Init => waited = "none" /\ outcomes = <<>> /\ acked = {}
    BY DEF Init, PublisherInit
  <2>4. QED BY <2>1, <2>2, <2>3 DEF NewestInv, LandedInv
<1>2. /\ IInv /\ AddressInv /\ TakenInv /\ NewestInv /\ CoveredInv /\ LandedInv /\ Prompt
      /\ [Next]_vars
      => TakenInv' /\ NewestInv' /\ CoveredInv' /\ LandedInv' /\ Prompt'
  <2>1. ~Restore /\ "late" \notin RareMishaps
    BY DEF Restore
  <2>2. QED BY <2>1, CallTaken, NewestKeeps, CoveredKeeps, LandedKeeps, PromptKept
<1>3. QED BY <1>1, <1>2, RouteInvariant, EveryTaskAddressed, PTL DEF Spec

(* As long as no request arrives late and the server is not restored from  *)
(* a snapshot, a write reported as delivered by a sink that waits for its  *)
(* tasks is in the index, or a newer one of its document is, whatever is   *)
(* sent again, lost, or applied afterwards.                                *)
THEOREM AckedWriteSurvivesHolds ==
  ASSUME RareMishaps = {}
  PROVE  Spec => []AckedWriteSurvives
<1>1. LandedInv => AckedWriteSurvives
  BY DEF LandedInv, Landed, AckedWriteSurvives
<1>2. QED BY <1>1, DeliveryInvariant, PTL

-----------------------------------------------------------------------------
(***************************************************************************)
(* What the index holds in the end.                                        *)
(***************************************************************************)

(* The tasks of an index are applied in the order they were enqueued. *)
LEMMA FifoKeeps ==
  ASSUME IInv, Fifo, Prompt, [Next]_vars, ~Restore
  PROVE  Fifo'
<1>1. SUFFICES ASSUME NEW t \in DOMAIN tasks', NEW u \in DOMAIN tasks', t < u,
                      tasks'[t].index = tasks'[u].index, tasks'[t].status = "enqueued"
               PROVE  tasks'[u].status \notin {"succeeded", "exists"}
  BY DEF Fifo
<1>2. ServerTypeOK
  BY DEF IInv, CallInv, TypeOK
<1>3. DOMAIN tasks = 1 .. Len(tasks) /\ Len(tasks) \in Nat
  BY <1>2 DEF ServerTypeOK
<1>4. CASE u \notin DOMAIN tasks
  BY <1>4, PromptQueue
<1>5. CASE u \in DOMAIN tasks
  <2>1. t \in DOMAIN tasks
    <3>1. t \in DOMAIN tasks \/ t = Len(tasks) + 1
      BY PromptQueue
    <3>2. QED BY <1>1, <1>3, <1>5, <3>1
  <2>2. tasks[t].status = "enqueued" /\ tasks[t].index = tasks[u].index
    BY <1>1, <1>5, <2>1, PromptQueue, StatusStep
  <2>3. tasks[u].status \notin {"succeeded", "exists"}
    BY <1>1, <1>5, <2>1, <2>2 DEF Fifo
  <2>4. u \notin NextTasks
    <3>1. u \in NextTasks => u <= t
      BY <1>2, <2>1, <2>2, NextTaskParts
    <3>2. QED BY <1>1, <1>3, <1>5, <2>1, <3>1
  <2>5. QED BY <1>5, <2>3, <2>4, StatusStep
<1>6. QED BY <1>4, <1>5

(* As long as no task is lost, a document is what the last entry for it    *)
(* that is not waiting made it.                                            *)
LEMMA TraceKeeps ==
  ASSUME IInv, AddressInv, Fifo, TraceInv, Prompt, [Next]_vars, ~Restore
  PROVE  TraceInv'
<1>1. ServerTypeOK
  BY DEF IInv, CallInv, TypeOK
<1>2. SUFFICES
        ASSUME \A t \in DOMAIN tasks' : tasks'[t].status \notin {"failed", "unknown"},
               NEW i \in Indexes, NEW d \in Docs
        PROVE  \/ docs'[i][d] = 0 /\ \A t \in DOMAIN tasks' : \A k \in DOMAIN tasks'[t].writes :
                                       tasks'[t].index = i /\ tasks'[t].writes[k].doc = d =>
                                         tasks'[t].status = "enqueued"
               \/ \E t \in DOMAIN tasks' : \E k \in DOMAIN tasks'[t].writes :
                    /\ tasks'[t].index = i /\ tasks'[t].writes[k].doc = d
                    /\ docs'[i][d] = tasks'[t].writes[k].number
                    /\ \A u \in DOMAIN tasks' : \A l \in DOMAIN tasks'[u].writes :
                         /\ t < u \/ (t = u /\ k < l)
                         /\ tasks'[u].index = i /\ tasks'[u].writes[l].doc = d
                         => tasks'[u].status = "enqueued"
  BY DEF TraceInv
<1>3. /\ \A t \in DOMAIN tasks : /\ t \in DOMAIN tasks'
                                 /\ tasks'[t].index = tasks[t].index
                                 /\ tasks'[t].writes = tasks[t].writes
      /\ \A t \in DOMAIN tasks' : t \in DOMAIN tasks \/ tasks'[t].status = "enqueued"
  BY PromptQueue
<1>4. \A t \in DOMAIN tasks : tasks[t].status \notin {"failed", "unknown"}
  <2>1. ASSUME NEW t \in DOMAIN tasks PROVE tasks[t].status \notin {"failed", "unknown"}
    <3>1. t \in DOMAIN tasks' /\ tasks'[t].status \notin {"failed", "unknown"}
      BY <1>2, <1>3
    <3>2. QED BY <3>1, StatusStep
  <2>2. QED BY <2>1
<1>5. \/ docs[i][d] = 0 /\ \A t \in DOMAIN tasks : \A k \in DOMAIN tasks[t].writes :
                             tasks[t].index = i /\ tasks[t].writes[k].doc = d =>
                               tasks[t].status = "enqueued"
      \/ \E t \in DOMAIN tasks : \E k \in DOMAIN tasks[t].writes :
           /\ tasks[t].index = i /\ tasks[t].writes[k].doc = d
           /\ docs[i][d] = tasks[t].writes[k].number
           /\ \A u \in DOMAIN tasks : \A l \in DOMAIN tasks[u].writes :
                /\ t < u \/ (t = u /\ k < l)
                /\ tasks[u].index = i /\ tasks[u].writes[l].doc = d
                => tasks[u].status = "enqueued"
  BY <1>4 DEF TraceInv
(* The document stays, and so do the tasks that write it. *)
<1>6. ASSUME docs'[i][d] = docs[i][d],
             \A t \in DOMAIN tasks : \A k \in DOMAIN tasks[t].writes :
               tasks[t].index = i /\ tasks[t].writes[k].doc = d =>
                 tasks'[t].status = tasks[t].status
      PROVE  \/ docs'[i][d] = 0 /\ \A t \in DOMAIN tasks' : \A k \in DOMAIN tasks'[t].writes :
                                       tasks'[t].index = i /\ tasks'[t].writes[k].doc = d =>
                                         tasks'[t].status = "enqueued"
             \/ \E t \in DOMAIN tasks' : \E k \in DOMAIN tasks'[t].writes :
                  /\ tasks'[t].index = i /\ tasks'[t].writes[k].doc = d
                  /\ docs'[i][d] = tasks'[t].writes[k].number
                  /\ \A u \in DOMAIN tasks' : \A l \in DOMAIN tasks'[u].writes :
                       /\ t < u \/ (t = u /\ k < l)
                       /\ tasks'[u].index = i /\ tasks'[u].writes[l].doc = d
                       => tasks'[u].status = "enqueued"
  <2>1. CASE docs[i][d] = 0 /\ \A t \in DOMAIN tasks : \A k \in DOMAIN tasks[t].writes :
                             tasks[t].index = i /\ tasks[t].writes[k].doc = d =>
                               tasks[t].status = "enqueued"
    BY <1>3, <1>6, <2>1
  <2>2. CASE \E t \in DOMAIN tasks : \E k \in DOMAIN tasks[t].writes :
               /\ tasks[t].index = i /\ tasks[t].writes[k].doc = d
               /\ docs[i][d] = tasks[t].writes[k].number
               /\ \A u \in DOMAIN tasks : \A l \in DOMAIN tasks[u].writes :
                    /\ t < u \/ (t = u /\ k < l)
                    /\ tasks[u].index = i /\ tasks[u].writes[l].doc = d
                    => tasks[u].status = "enqueued"
    <3>1. PICK t \in DOMAIN tasks : \E k \in DOMAIN tasks[t].writes :
               /\ tasks[t].index = i /\ tasks[t].writes[k].doc = d
               /\ docs[i][d] = tasks[t].writes[k].number
               /\ \A u \in DOMAIN tasks : \A l \in DOMAIN tasks[u].writes :
                    /\ t < u \/ (t = u /\ k < l)
                    /\ tasks[u].index = i /\ tasks[u].writes[l].doc = d
                    => tasks[u].status = "enqueued"
      BY <2>2
    <3>2. PICK k \in DOMAIN tasks[t].writes :
               /\ tasks[t].index = i /\ tasks[t].writes[k].doc = d
               /\ docs[i][d] = tasks[t].writes[k].number
               /\ \A u \in DOMAIN tasks : \A l \in DOMAIN tasks[u].writes :
                    /\ t < u \/ (t = u /\ k < l)
                    /\ tasks[u].index = i /\ tasks[u].writes[l].doc = d
                    => tasks[u].status = "enqueued"
      BY <3>1
    <3>3. ASSUME NEW u \in DOMAIN tasks', NEW l \in DOMAIN tasks'[u].writes,
                 t < u \/ (t = u /\ k < l),
                 tasks'[u].index = i, tasks'[u].writes[l].doc = d
          PROVE  tasks'[u].status = "enqueued"
      BY <1>3, <1>6, <3>2, <3>3
    <3>4. t \in DOMAIN tasks' /\ k \in DOMAIN tasks'[t].writes
      BY <1>3, <3>2
    <3>5. /\ tasks'[t].index = i /\ tasks'[t].writes[k].doc = d
          /\ docs'[i][d] = tasks'[t].writes[k].number
      BY <1>3, <1>6, <3>2
    <3>6. QED BY <3>3, <3>4, <3>5
  <2>3. QED BY <1>5, <2>1, <2>2
<1>7. CASE ApplyTask
  <2>1. PICK s \in NextTasks :
          /\ s \in DOMAIN tasks
          /\ \A u \in DOMAIN tasks : u # s => tasks'[u] = tasks[u]
          /\ docs' = IF tasks[s].kind = "write"
                     THEN [docs EXCEPT ![tasks[s].index] = Stored(@, tasks[s].writes)]
                     ELSE docs
    BY <1>1, <1>7, AppliedTypes
  <2>2. CASE /\ docs'[i][d] = docs[i][d]
             /\ \A k \in DOMAIN tasks[s].writes :
                  ~(tasks[s].index = i /\ tasks[s].writes[k].doc = d)
    <3>1. \A t \in DOMAIN tasks : \A k \in DOMAIN tasks[t].writes :
            tasks[t].index = i /\ tasks[t].writes[k].doc = d =>
              tasks'[t].status = tasks[t].status
      BY <2>1, <2>2
    <3>2. QED BY <1>6, <2>2, <3>1
  <2>3. CASE \E k \in DOMAIN tasks[s].writes :
               /\ tasks[s].index = i /\ tasks[s].writes[k].doc = d
               /\ docs'[i][d] = tasks[s].writes[k].number
               /\ \A l \in DOMAIN tasks[s].writes : tasks[s].writes[l].doc = d => l <= k
    <3>1. PICK k \in DOMAIN tasks[s].writes :
               /\ tasks[s].index = i /\ tasks[s].writes[k].doc = d
               /\ docs'[i][d] = tasks[s].writes[k].number
               /\ \A l \in DOMAIN tasks[s].writes : tasks[s].writes[l].doc = d => l <= k
      BY <2>3
    <3>2. ASSUME NEW u \in DOMAIN tasks', NEW l \in DOMAIN tasks'[u].writes,
                 s < u \/ (s = u /\ k < l),
                 tasks'[u].index = i, tasks'[u].writes[l].doc = d
          PROVE  tasks'[u].status = "enqueued"
      <4>1. CASE u \notin DOMAIN tasks
        BY <1>3, <4>1
      <4>2. CASE u \in DOMAIN tasks
        <5>1. tasks[u].index = i /\ tasks[u].writes[l].doc = d /\ l \in DOMAIN tasks[u].writes
          BY <1>3, <3>2, <4>2
        <5>2. s < u
          <6>1. s = u => l <= k
            BY <3>1, <5>1
          <6>2. k \in Nat /\ l \in Nat
            BY <2>1, <4>2, <5>1, EntryParts
          <6>3. QED BY <3>2, <6>1, <6>2
        <5>3. tasks[s].status = "enqueued"
          BY <1>1, <2>1, NextTaskParts
        <5>4. tasks[u].status \notin {"succeeded", "exists"}
          BY <2>1, <3>1, <4>2, <5>1, <5>2, <5>3 DEF Fifo
        <5>5. tasks[u].status \in {"enqueued", "succeeded", "failed", "exists", "unknown"}
          BY <1>1, <4>2, TaskParts
        <5>6. u # s
          <6>1. s \in Nat /\ u \in Nat
            BY <1>1, <2>1, <4>2, TaskParts
          <6>2. QED BY <5>2, <6>1
        <5>7. tasks[u].status = "enqueued"
          BY <1>4, <4>2, <5>4, <5>5
        <5>8. QED BY <2>1, <4>2, <5>6, <5>7
      <4>3. QED BY <4>1, <4>2
    <3>3. s \in DOMAIN tasks' /\ k \in DOMAIN tasks'[s].writes
      BY <1>3, <2>1, <3>1
    <3>4. /\ tasks'[s].index = i /\ tasks'[s].writes[k].doc = d
          /\ docs'[i][d] = tasks'[s].writes[k].number
      BY <1>3, <2>1, <3>1
    <3>5. QED BY <3>2, <3>3, <3>4
  <2>4. QED BY <2>1, <2>2, <2>3, StoredParts
<1>8. CASE LoseTask
  <2>1. PICK u \in DOMAIN tasks : FailTask(u) \/ ForgetTask(u)
    BY <1>8 DEF LoseTask
  <2>2. PICK status \in {"failed", "unknown"} : Ends(u, status)
    BY <2>1 DEF FailTask, ForgetTask
  <2>3. tasks'[u].status = status
    BY <1>1, <2>2, EndsTypes
  <2>4. QED BY <1>2, <1>3, <2>3
<1>9. CASE UNCHANGED docs /\ \A t \in DOMAIN tasks : tasks'[t] = tasks[t]
  BY <1>6, <1>9
<1>10. QED BY <1>7, <1>8, <1>9, ServerStep

LEMMA ConvergedThen ==
  ASSUME IInv, AddressInv, CoveredInv, TraceInv,
         committed = Len(stream), dead = {},
         \A t \in DOMAIN tasks : tasks[t].status \notin {"enqueued", "failed", "unknown"},
         NEW n \in 1 .. Len(stream)
  PROVE  docs[Index(n)][Doc(n)] = Max({m \in 1 .. Len(stream) : SameDocument(m, n)})
<1>1. Len(stream) \in Nat /\ stream \in Seq(Message) /\ ServerTypeOK
  BY DEF IInv, CallInv, TypeOK
<1>2. 1 .. Len(stream) \subseteq acked
  BY DEF IInv, RouteInv
<1>3. ASSUME NEW m \in 1 .. Len(stream)
      PROVE  \E t \in DOMAIN tasks : \E k \in DOMAIN tasks[t].writes :
               /\ tasks[t].writes[k].number = m /\ Newest(t, k)
               /\ tasks[t].index = Index(m) /\ tasks[t].writes[k].doc = Doc(m)
               /\ t \in Nat /\ k \in Nat /\ Index(m) \in Indexes /\ Doc(m) \in Docs
  <2>1. m \in acked
    BY <1>2
  <2>2. PICK t \in DOMAIN tasks : \E k \in DOMAIN tasks[t].writes :
          tasks[t].writes[k].number = m /\ Newest(t, k)
    BY <2>1 DEF CoveredInv
  <2>3. PICK k \in DOMAIN tasks[t].writes : tasks[t].writes[k].number = m /\ Newest(t, k)
    BY <2>2
  <2>4. QED BY <2>3, EntryParts
<1>4. Index(n) \in Indexes /\ Doc(n) \in Docs
  BY <1>3
<1>5. PICK t \in DOMAIN tasks : \E k \in DOMAIN tasks[t].writes :
        /\ tasks[t].index = Index(n) /\ tasks[t].writes[k].doc = Doc(n)
        /\ docs[Index(n)][Doc(n)] = tasks[t].writes[k].number
        /\ \A u \in DOMAIN tasks : \A l \in DOMAIN tasks[u].writes :
             /\ t < u \/ (t = u /\ k < l)
             /\ tasks[u].index = Index(n) /\ tasks[u].writes[l].doc = Doc(n)
             => tasks[u].status = "enqueued"
  <2>1. PICK t \in DOMAIN tasks : \E k \in DOMAIN tasks[t].writes :
          tasks[t].index = Index(n) /\ tasks[t].writes[k].doc = Doc(n)
    BY <1>3
  <2>2. tasks[t].status # "enqueued"
    OBVIOUS
  <2>3. QED BY <1>4, <2>1, <2>2 DEF TraceInv
<1>6. PICK k \in DOMAIN tasks[t].writes :
        /\ tasks[t].index = Index(n) /\ tasks[t].writes[k].doc = Doc(n)
        /\ docs[Index(n)][Doc(n)] = tasks[t].writes[k].number
        /\ \A u \in DOMAIN tasks : \A l \in DOMAIN tasks[u].writes :
             /\ t < u \/ (t = u /\ k < l)
             /\ tasks[u].index = Index(n) /\ tasks[u].writes[l].doc = Doc(n)
             => tasks[u].status = "enqueued"
  BY <1>5
<1> DEFINE top == tasks[t].writes[k].number
           S == {m \in 1 .. Len(stream) : SameDocument(m, n)}
<1>7. /\ t \in Nat /\ k \in Nat /\ top \in 1 .. Len(stream) /\ top \in Nat
      /\ Index(top) = Index(n) /\ Doc(top) = Doc(n)
  BY <1>1, <1>6, EntryParts
<1>8. top \in S
  BY <1>7 DEF SameDocument
<1>9. ASSUME NEW m \in S PROVE m <= top
  <2>1. m \in 1 .. Len(stream) /\ Index(m) = Index(n) /\ Doc(m) = Doc(n)
    BY DEF SameDocument
  <2>2. PICK u \in DOMAIN tasks : \E l \in DOMAIN tasks[u].writes :
          /\ tasks[u].writes[l].number = m /\ Newest(u, l)
          /\ tasks[u].index = Index(m) /\ tasks[u].writes[l].doc = Doc(m)
          /\ u \in Nat /\ l \in Nat
    BY <1>3, <2>1
  <2>3. PICK l \in DOMAIN tasks[u].writes :
          /\ tasks[u].writes[l].number = m /\ Newest(u, l)
          /\ tasks[u].index = Index(m) /\ tasks[u].writes[l].doc = Doc(m)
          /\ u \in Nat /\ l \in Nat
    BY <2>2
  <2>4. ~(t < u \/ (t = u /\ k < l))
    BY <1>6, <2>1, <2>3
  <2>5. u < t \/ (u = t /\ l <= k)
    BY <1>7, <2>3, <2>4
  <2>6. SameDocument(top, tasks[u].writes[l].number)
    BY <1>7, <2>1, <2>3 DEF SameDocument
  <2>7. QED BY <2>3, <2>5, <2>6 DEF Newest
<1>10. Max(S) \in S /\ \A m \in S : m <= Max(S)
  <2>1. S \subseteq 0 .. Len(stream) /\ S # {}
    BY <1>1, <1>8
  <2> HIDE DEF S
  <2>2. QED BY <1>1, <2>1, MaxOf
<1>11. Max(S) = top
  <2>1. Max(S) <= top /\ top <= Max(S) /\ Max(S) \in Nat
    BY <1>1, <1>8, <1>9, <1>10
  <2>2. QED BY <1>7, <2>1
<1>12. QED BY <1>6, <1>11

(* As long as no request arrives late and the server is not restored from  *)
(* a snapshot: once all is delivered and applied, with nothing lost or     *)
(* given up, each document is what its newest message made it, however     *)
(* often the batches before were cut, failed or were sent again.           *)
THEOREM ConvergedHolds ==
  ASSUME RareMishaps = {}
  PROVE  Spec => []Converged
<1>1. Init => Fifo /\ TraceInv
  BY DEF Init, ServerInit, Fifo, TraceInv
<1>2. IInv /\ AddressInv /\ Fifo /\ TraceInv /\ Prompt /\ [Next]_vars => Fifo' /\ TraceInv'
  <2>1. ~Restore
    BY DEF Restore
  <2>2. QED BY <2>1, FifoKeeps, TraceKeeps
<1>3. IInv /\ AddressInv /\ CoveredInv /\ TraceInv => Converged
  BY ConvergedThen DEF Converged
<1>4. QED BY <1>1, <1>2, <1>3, RouteInvariant, EveryTaskAddressed, DeliveryInvariant, PTL DEF Spec

-----------------------------------------------------------------------------
(***************************************************************************)
(* SinkRoute implements DocumentSink: every step of the publisher, of      *)
(* Meilisearch and of the route is one the sink promises, or none.         *)
(***************************************************************************)
Key == (Indexes \cup {NoIndex}) \X Docs

Source == [n \in DOMAIN stream |-> <<Index(n), Doc(n)>>]

StoreOf(ds) == [k \in Key |-> IF k[1] \in Indexes THEN ds[k[1]][k[2]] ELSE 0]

(* A document is what some entry for it made it. *)
StoredInv ==
  \A i \in Indexes, d \in Docs :
    \/ docs[i][d] = 0
    \/ \E t \in DOMAIN tasks : \E k \in DOMAIN tasks[t].writes :
         /\ tasks[t].index = i /\ tasks[t].writes[k].doc = d
         /\ docs[i][d] = tasks[t].writes[k].number

PromiseInv == /\ IInv /\ AddressInv /\ StoredInv
              /\ TakenInv /\ NewestInv /\ CoveredInv /\ LandedInv /\ Prompt

-----------------------------------------------------------------------------
LEMMA SentOfCases ==
  ASSUME NEW ts, NEW n
  PROVE  n \in {w.number : w \in UNION {Range(ts[t].writes) : t \in DOMAIN ts}} <=>
           (\E t \in DOMAIN ts : \E k \in DOMAIN ts[t].writes : ts[t].writes[k].number = n)
<1> DEFINE S == {Range(ts[t].writes) : t \in DOMAIN ts}
           U == UNION S
<1>1. ASSUME NEW w PROVE w \in U <=> \E t \in DOMAIN ts : w \in Range(ts[t].writes)
  <2>1. (\E x \in S : w \in x) <=> \E t \in DOMAIN ts : w \in Range(ts[t].writes)
    OBVIOUS
  <2> HIDE DEF S
  <2>2. w \in U <=> \E x \in S : w \in x
    OBVIOUS
  <2>3. QED BY <2>1, <2>2
<1> HIDE DEF U
<1>2. (n \in {w.number : w \in U}) <=> \E w \in U : w.number = n
  OBVIOUS
<1>3. ASSUME NEW w, w \in U
      PROVE  \E t \in DOMAIN ts : \E k \in DOMAIN ts[t].writes : ts[t].writes[k] = w
  BY <1>1, <1>3 DEF Range
<1>4. ASSUME NEW t \in DOMAIN ts, NEW k \in DOMAIN ts[t].writes PROVE ts[t].writes[k] \in U
  <2>1. ts[t].writes[k] \in Range(ts[t].writes)
    BY DEF Range
  <2>2. QED BY <1>1, <2>1
<1>5. (\E w \in U : w.number = n) <=>
        (\E t \in DOMAIN ts : \E k \in DOMAIN ts[t].writes : ts[t].writes[k].number = n)
  BY <1>3, <1>4
<1>6. QED BY <1>2, <1>5 DEF U

LEMMA SentCases ==
  /\ \A n : n \in Sent <=> \E t \in DOMAIN tasks : \E k \in DOMAIN tasks[t].writes :
                             tasks[t].writes[k].number = n
  /\ \A n : n \in Sent' <=> \E t \in DOMAIN tasks' : \E k \in DOMAIN tasks'[t].writes :
                              tasks'[t].writes[k].number = n
BY SentOfCases DEF Sent

LEMMA StoredKeeps ==
  ASSUME IInv, AddressInv, StoredInv, [Next]_vars, ~Restore
  PROVE  StoredInv'
<1>1. ServerTypeOK
  BY DEF IInv, CallInv, TypeOK
<1>2. SUFFICES ASSUME NEW i \in Indexes, NEW d \in Docs, docs'[i][d] # 0
               PROVE  \E t \in DOMAIN tasks' : \E k \in DOMAIN tasks'[t].writes :
                        /\ tasks'[t].index = i /\ tasks'[t].writes[k].doc = d
                        /\ docs'[i][d] = tasks'[t].writes[k].number
  BY DEF StoredInv
<1>3. \A t \in DOMAIN tasks : /\ t \in DOMAIN tasks' /\ tasks'[t].index = tasks[t].index
                              /\ tasks'[t].writes = tasks[t].writes
  BY QueueStep
<1>4. CASE docs'[i][d] = docs[i][d]
  <2>1. PICK t \in DOMAIN tasks : \E k \in DOMAIN tasks[t].writes :
          /\ tasks[t].index = i /\ tasks[t].writes[k].doc = d
          /\ docs[i][d] = tasks[t].writes[k].number
    BY <1>2, <1>4 DEF StoredInv
  <2>2. QED BY <1>3, <1>4, <2>1
<1>5. CASE docs'[i][d] # docs[i][d]
  <2>1. ApplyTask
    BY <1>5, ServerStep
  <2>2. PICK t \in DOMAIN tasks :
          docs' = IF tasks[t].kind = "write"
                  THEN [docs EXCEPT ![tasks[t].index] = Stored(@, tasks[t].writes)]
                  ELSE docs
    BY <1>1, <2>1, AppliedTypes
  <2>3. PICK k \in DOMAIN tasks[t].writes :
          /\ tasks[t].index = i /\ tasks[t].writes[k].doc = d
          /\ docs'[i][d] = tasks[t].writes[k].number
    BY <1>5, <2>2, StoredParts
  <2>4. QED BY <1>3, <2>3
<1>6. QED BY <1>4, <1>5

LEMMA PromiseKeeps ==
  ASSUME RareMishaps = {}, PromiseInv, [Next]_vars
  PROVE  PromiseInv' /\ ~Restore /\ late' = late
<1>1. ~Restore /\ "late" \notin RareMishaps
  BY DEF Restore
<1>2. IInv' /\ AddressInv' /\ StoredInv' /\ Prompt'
  BY <1>1, NextKeeps, AddressKept, StoredKeeps, PromptKept DEF PromiseInv
<1>3. TakenInv' /\ NewestInv' /\ CoveredInv' /\ LandedInv'
  BY <1>1, CallTaken, NewestKeeps, CoveredKeeps, LandedKeeps DEF PromiseInv
<1>4. late' = late
  BY <1>2 DEF PromiseInv, Prompt
<1>5. QED BY <1>1, <1>2, <1>3, <1>4 DEF PromiseInv

-----------------------------------------------------------------------------
(* What the sink is told of: its state in terms of that of the route. *)
LEMMA SourceParts ==
  ASSUME IInv
  PROVE  /\ Source \in Seq(Key) /\ Len(Source) = Len(stream)
         /\ \A m, n \in DOMAIN stream : Source[m] = Source[n] <=> SameDocument(m, n)
         /\ acked \cup dead \cup Open \subseteq DOMAIN stream
<1>1. /\ stream \in Seq(Message) /\ Len(stream) \in Nat /\ DOMAIN stream = 1 .. Len(stream)
      /\ received \in 0 .. Len(stream) /\ committed \in 0 .. received
      /\ acked \subseteq 1 .. received /\ dead \subseteq 1 .. received
  BY DEF IInv, CallInv, TypeOK
<1>2. ASSUME NEW n \in DOMAIN stream
      PROVE  <<Index(n), Doc(n)>> \in Key
  <2>1. stream[n] \in Message
    BY <1>1
  <2>2. stream[n].doc \in Docs /\ TargetIndex(stream[n]) \in Indexes \cup {NoIndex}
    BY <2>1, PlanningAssumption DEF PlanningAssumption, Message, TargetIndex
  <2>3. QED BY <2>2 DEF Key, Index, Doc
<1>3. Source \in Seq(Key) /\ Len(Source) = Len(stream)
  <2>1. Source \in [1 .. Len(stream) -> Key] /\ Len(stream) \in Nat
    BY <1>1, <1>2 DEF Source
  <2> HIDE DEF Source
  <2>2. QED BY <2>1
<1>4. \A m, n \in DOMAIN stream : Source[m] = Source[n] <=> SameDocument(m, n)
  BY DEF Source, SameDocument
<1>5. acked \cup dead \cup Open \subseteq DOMAIN stream
  BY <1>1 DEF Open
<1>6. QED BY <1>3, <1>4, <1>5

(* Sink!vars is unchanged, but for what is listed with the action. *)
LEMMA SinkKept ==
  ASSUME [Next]_vars
  PROVE  config' = config /\ Source' = Source /\ (docs' = docs => StoreOf(docs') = StoreOf(docs))
BY GivenKept DEF Source, Index, Doc

LEMMA StartMapped == Init => Sink!Init
<1> SUFFICES ASSUME Init PROVE Sink!Init
  OBVIOUS
<1>1. IInv
  BY InitHolds
<1>2. Source \in Seq(Key)
  BY <1>1, SourceParts
<1>3. Sent = {}
  <2>1. tasks = <<>>
    BY DEF Init, ServerInit
  <2>2. DOMAIN tasks = {}
    BY <2>1
  <2>3. \A n : n \notin Sent
    BY <2>2, SentCases
  <2>4. QED BY <2>3
<1>4. StoreOf(docs) = [k \in Key |-> 0]
  <2>1. \A k \in Key : k[2] \in Docs
    BY DEF Key
  <2>2. \A k \in Key : (IF k[1] \in Indexes THEN docs[k[1]][k[2]] ELSE 0) = 0
    BY <2>1 DEF Init, ServerInit
  <2>3. QED BY <2>2 DEF StoreOf
<1>5. received = 0 /\ committed = 0 /\ acked = {} /\ dead = {} /\ config.waitForTask \in BOOLEAN
  BY <1>1 DEF Init, IInv, CallInv, TypeOK, PublisherTypeOK, Config
<1>6. QED BY <1>2, <1>3, <1>4, <1>5 DEF Sink!Init, Source, StoreOf, Key

(* A step that sends requests, or none. *)
LEMMA SendMapped ==
  ASSUME RareMishaps = {}, PromiseInv, [Next]_vars,
         UNCHANGED <<docs, received, committed, acked, dead>>
  PROVE  Sink!Send
<1>1. ~Restore /\ late' = late /\ IInv
  BY PromiseKeeps DEF PromiseInv
<1>2. ASSUME NEW n, n \in Sent PROVE n \in Sent'
  BY <1>1, <1>2, SentCases, QueueStep
<1>3. ASSUME NEW n \in Sent', n \notin Sent PROVE n \in Open
  <2>1. PICK t \in DOMAIN tasks' : \E k \in DOMAIN tasks'[t].writes : tasks'[t].writes[k].number = n
    BY SentCases
  <2>2. t \notin DOMAIN tasks
    BY <1>1, <1>3, <2>1, SentCases, QueueStep
  <2>3. PICK k \in DOMAIN tasks'[t].writes : tasks'[t].writes[k].number = n
    BY <2>1
  <2>4. \E i \in DOMAIN batch : n = batch[i]
    BY <1>1, <2>2, <2>3, NewTasks
  <2>5. n \in Range(batch)
    BY <2>4 DEF Range
  <2>6. QED BY <1>1, <2>5 DEF IInv, RouteInv
<1>4. Sent' = Sent \cup (Sent' \ Sent) /\ Sent' \ Sent \in SUBSET Open
  BY <1>2, <1>3
<1>5. config' = config /\ Source' = Source /\ StoreOf(docs') = StoreOf(docs)
  BY SinkKept
<1>6. QED BY <1>4, <1>5 DEF Sink!Send, Sink!Open, Open, Source, StoreOf, Key

LEMMA StoreMapped ==
  ASSUME RareMishaps = {}, PromiseInv, [Next]_vars, Apply
  PROVE  Sink!Store
<1>1. /\ ~Restore /\ IInv /\ AddressInv /\ PromiseInv' /\ ApplyTask
      /\ UNCHANGED <<received, committed, acked, dead>>
  BY PromiseKeeps DEF PromiseInv, Apply, route
<1>2. Sent' = Sent
  <2>1. \A t : t \in DOMAIN tasks' <=> t \in DOMAIN tasks
    BY <1>1, AppliedTypes DEF IInv, CallInv, TypeOK
  <2>2. \A t \in DOMAIN tasks : tasks'[t].writes = tasks[t].writes
    BY <1>1, QueueStep
  <2>3. \A n : n \in Sent' <=> n \in Sent
    BY <2>1, <2>2, SentCases
  <2>4. QED BY <2>3
<1>3. ASSUME NEW k \in Key, k[1] \in Indexes
      PROVE  k[2] \in Docs /\ StoreOf(docs')[k] = docs'[k[1]][k[2]]
             /\ StoreOf(docs)[k] = docs[k[1]][k[2]] /\ k = <<k[1], k[2]>>
  BY <1>3 DEF StoreOf, Key
<1>4. ASSUME NEW k \in Key, k[1] \notin Indexes
      PROVE  StoreOf(docs')[k] = 0 /\ StoreOf(docs)[k] = 0
  BY <1>4 DEF StoreOf
<1>5. StoreOf(docs') \in [Key -> Sent \cup {0}]
  <2>1. ASSUME NEW k \in Key PROVE StoreOf(docs')[k] \in Sent \cup {0}
    <3>1. CASE k[1] \in Indexes
      <4>1. StoredInv'
        BY <1>1 DEF PromiseInv
      <4>2. docs'[k[1]][k[2]] \in Sent' \cup {0}
        BY <1>3, <3>1, <4>1, SentCases DEF StoredInv
      <4>3. QED BY <1>2, <1>3, <3>1, <4>2
    <3>2. CASE k[1] \notin Indexes
      BY <1>4, <3>2
    <3>3. QED BY <3>1, <3>2
  <2>2. StoreOf(docs') = [k \in Key |-> StoreOf(docs')[k]]
    BY DEF StoreOf
  <2>3. QED BY <2>1, <2>2
<1>6. ASSUME NEW k \in Key, StoreOf(docs')[k] # StoreOf(docs)[k]
      PROVE  /\ StoreOf(docs')[k] # 0 /\ Source[StoreOf(docs')[k]] = k
             /\ config.waitForTask => \A n \in acked : Source[n] = k => n <= StoreOf(docs')[k]
  <2>1. k[1] \in Indexes
    BY <1>4, <1>6
  <2>2. PICK i \in Indexes, d \in Docs : i = k[1] /\ d = k[2] /\ k = <<i, d>>
    BY <1>3, <2>1
  <2>3. docs'[i][d] # docs[i][d] /\ StoreOf(docs')[k] = docs'[i][d]
    BY <1>3, <1>6, <2>1, <2>2
  <2>4. PICK t \in DOMAIN tasks :
          docs' = IF tasks[t].kind = "write"
                  THEN [docs EXCEPT ![tasks[t].index] = Stored(@, tasks[t].writes)]
                  ELSE docs
    BY <1>1, AppliedTypes DEF IInv, CallInv, TypeOK
  <2>5. PICK l \in DOMAIN tasks[t].writes :
          /\ tasks[t].index = i /\ tasks[t].writes[l].doc = d
          /\ docs'[i][d] = tasks[t].writes[l].number
    BY <1>1, <2>3, <2>4, StoredParts
  <2>6. /\ docs'[i][d] \in DOMAIN stream /\ docs'[i][d] # 0
        /\ Index(docs'[i][d]) = i /\ Doc(docs'[i][d]) = d
    <3>1. /\ docs'[i][d] \in DOMAIN stream
          /\ Index(docs'[i][d]) = i /\ Doc(docs'[i][d]) = d
      BY <1>1, <2>5, EntryParts
    <3>2. stream \in Seq(Message)
      BY <1>1 DEF IInv, CallInv
    <3>3. 0 \notin DOMAIN stream
      BY <3>2
    <3>4. QED BY <3>1, <3>3
  <2>7. Source[docs'[i][d]] = k
    BY <2>2, <2>6 DEF Source
  <2>8. ASSUME config.waitForTask, NEW n \in acked, Source[n] = k
        PROVE  n <= docs'[i][d]
    <3>1. n \in DOMAIN stream
      BY <1>1, SourceParts
    <3>2. Index(n) = i /\ Doc(n) = d
      BY <2>2, <2>8, <3>1 DEF Source
    <3>3. LandedInv' /\ config' = config /\ n \in acked'
      BY <1>1, GivenKept DEF PromiseInv
    <3>4. docs'[Index(n)'][Doc(n)'] >= n
      BY <2>8, <3>3 DEF LandedInv, Landed
    <3>5. Index(n)' = Index(n) /\ Doc(n)' = Doc(n)
      BY GivenKept
    <3>6. n \in Nat /\ docs'[i][d] \in Nat
      <4>1. stream \in Seq(Message)
        BY <1>1 DEF IInv, CallInv
      <4>2. QED BY <2>6, <3>1, <4>1
    <3>7. QED BY <3>2, <3>4, <3>5, <3>6
  <2>9. QED BY <2>3, <2>6, <2>7, <2>8
<1>7. config' = config /\ Source' = Source
  BY SinkKept
<1>8. QED BY <1>1, <1>2, <1>5, <1>6, <1>7 DEF Sink!Store, Source, StoreOf, Key

(* A report, whose verdicts come from the call or from the route giving up.*)
LEMMA ReportMapped ==
  ASSUME RareMishaps = {}, PromiseInv, [Next]_vars,
         UNCHANGED <<tasks, docs, received, committed>>,
         NEW A \in SUBSET Open, NEW D \in SUBSET Open, A \cap D = {},
         acked' = acked \cup A, dead' = dead \cup D
  PROVE  Sink!Report
<1>1. IInv /\ PromiseInv'
  BY PromiseKeeps DEF PromiseInv
<1>2. config' = config /\ Source' = Source /\ StoreOf(docs') = StoreOf(docs)
  BY SinkKept
<1>3. Sent' = Sent
  BY DEF Sent
<1>4. ASSUME NEW n \in A
      PROVE  /\ n \in Sent /\ Index(n) \in Indexes /\ Doc(n) \in Docs
             /\ config.waitForTask => docs[Index(n)][Doc(n)] >= n
  <2>1. n \in acked' /\ CoveredInv' /\ LandedInv' /\ IInv' /\ AddressInv'
    BY <1>1 DEF PromiseInv
  <2>2. PICK t \in DOMAIN tasks : \E k \in DOMAIN tasks[t].writes : tasks[t].writes[k].number = n
    BY <2>1 DEF CoveredInv
  <2>3. n \in Sent /\ Index(n) \in Indexes /\ Doc(n) \in Docs
    BY <1>1, <2>2, SentCases, EntryParts DEF PromiseInv
  <2>4. Index(n)' = Index(n) /\ Doc(n)' = Doc(n) /\ config' = config
    BY GivenKept
  <2>5. config.waitForTask => docs'[Index(n)'][Doc(n)'] >= n
    BY <2>1, <2>4 DEF LandedInv, Landed
  <2>6. QED BY <2>3, <2>4, <2>5
<1>5. A \subseteq Sent
  BY <1>4
<1>6. \A n \in A : n \in DOMAIN stream
  BY <1>1, SourceParts
<1>7. config.waitForTask => \A n \in A : n <= StoreOf(docs)[Source[n]]
  <2>1. SUFFICES ASSUME config.waitForTask, NEW n \in A PROVE n <= StoreOf(docs)[Source[n]]
    OBVIOUS
  <2>2. Source[n] = <<Index(n), Doc(n)>> /\ Source[n] \in Key
    BY <1>4, <1>6, <2>1 DEF Source, Key
  <2>3. StoreOf(docs)[Source[n]] = docs[Index(n)][Doc(n)]
    BY <1>4, <2>1, <2>2 DEF StoreOf
  <2>4. docs[Index(n)][Doc(n)] >= n /\ n \in Nat /\ docs[Index(n)][Doc(n)] \in Nat
    BY <1>1, <1>4, <1>6, <2>1 DEF IInv, CallInv, TypeOK, ServerTypeOK
  <2>5. QED BY <2>3, <2>4
<1>8. \A n \in acked', k \in Open \ (A \cup D) : Source[n] = Source[k] => n < k
  <2>1. SUFFICES ASSUME NEW n \in acked', NEW k \in Open \ (A \cup D), Source[n] = Source[k]
                 PROVE  n < k
    OBVIOUS
  <2>2. n \in DOMAIN stream /\ k \in DOMAIN stream
    BY <1>1, SourceParts
  <2>3. SameDocument(k, n)
    BY <1>1, <2>1, <2>2, SourceParts DEF SameDocument
  <2>4. k \in Open'
    BY DEF Open
  <2>5. RouteInv'
    BY <1>1 DEF PromiseInv, IInv
  <2>6. SameDocument(k, n)'
    BY <2>3, GivenKept
  <2>7. QED BY <2>4, <2>5, <2>6 DEF RouteInv
<1>9. QED BY <1>2, <1>3, <1>5, <1>7, <1>8 DEF Sink!Report, Sink!Open, Open, Source, StoreOf, Key

LEMMA StepMapped ==
  ASSUME RareMishaps = {}, PromiseInv, [Next]_vars
  PROVE  Sink!Next \/ UNCHANGED Sink!vars
<1>1. /\ IInv /\ ~Restore /\ late' = late /\ Prompt
      /\ config' = config /\ Source' = Source /\ (docs' = docs => StoreOf(docs') = StoreOf(docs))
  BY PromiseKeeps, SinkKept DEF PromiseInv
<1>2. tasks' = tasks => Sent' = Sent
  BY DEF Sent
<1>3. CASE UNCHANGED <<tasks, docs, received, committed, acked, dead>>
  BY <1>1, <1>2, <1>3 DEF Sink!vars, Source, StoreOf, Key
<1>4. CASE Receive
  <2>1. /\ committed = received /\ UNCHANGED <<tasks, docs, committed, acked, dead>>
        /\ received' \in received + 1 .. Len(stream)
    <3>1. /\ committed = received /\ UNCHANGED <<tasks, docs, committed, acked, dead>>
          /\ received' \in received + 1 .. Min({received + BatchSize, Len(stream)})
      BY <1>4 DEF Receive, server
    <3>2. Min({received + BatchSize, Len(stream)}) <= Len(stream)
      <4>1. {received + BatchSize, Len(stream)} \subseteq Nat
        BY <1>1, RouteAssumption DEF RouteAssumption, IInv, CallInv, TypeOK
      <4>2. QED BY <4>1, MinOf
    <3>3. Min({received + BatchSize, Len(stream)}) \in Nat /\ received \in Nat /\ Len(stream) \in Nat
      <4>1. received \in Nat /\ Len(stream) \in Nat /\ BatchSize \in Nat
        BY <1>1, RouteAssumption DEF RouteAssumption, IInv, CallInv, TypeOK
      <4>2. {received + BatchSize, Len(stream)} \subseteq Nat
        BY <4>1
      <4>3. QED BY <4>1, <4>2, MinOf
    <3>4. QED BY <3>1, <3>2, <3>3
  <2>2. Len(Source) = Len(stream)
    BY <1>1, SourceParts
  <2>3. Sink!Receive
    BY <1>1, <1>2, <2>1, <2>2 DEF Sink!Receive, Source, StoreOf, Key
  <2>4. QED BY <2>3 DEF Sink!Next
<1>5. CASE Resend
  <2>1. UNCHANGED <<tasks, docs, received, committed, acked, dead>>
    BY <1>5 DEF Resend, server
  <2>2. QED BY <1>3, <2>1
<1>6. CASE GiveUp
  <2>1. /\ UNCHANGED <<tasks, docs, received, committed>>
        /\ acked' = acked \cup {} /\ dead' = dead \cup Range(backlog)
    BY <1>6 DEF GiveUp, server
  <2>2. Range(backlog) \in SUBSET Open
    BY <1>1 DEF IInv, RouteInv
  <2>3. Sink!Report
    BY <2>1, <2>2, ReportMapped
  <2>4. QED BY <2>3 DEF Sink!Next
<1>7. CASE Report
  <2>1. /\ UNCHANGED <<tasks, docs, received, committed>>
        /\ acked' = acked \cup Range(Judged("ok")) /\ dead' = dead \cup Range(Judged("permanent"))
    BY <1>7 DEF Report, server
  <2>2. /\ batch \in Seq(Nat) /\ Range(batch) = Open
        /\ \A i, j \in 1 .. Len(batch) : batch[i] = batch[j] => i = j
    BY <1>1, <1>7, ReportParts
  <2>3. \A verdict : Range(Judged(verdict)) =
                       {batch[i] : i \in {j \in 1 .. Len(batch) : Verdict(j) = verdict}}
    BY <2>2, JudgedParts
  <2>4. \A verdict : Range(Judged(verdict)) \in SUBSET Open
    <3>1. \A i \in 1 .. Len(batch) : batch[i] \in Open
      BY <2>2 DEF Range
    <3>2. QED BY <2>3, <3>1
  <2>5. Range(Judged("ok")) \cap Range(Judged("permanent")) = {}
    BY <2>2, <2>3
  <2>6. Sink!Report
    BY <2>1, <2>4, <2>5, ReportMapped
  <2>7. QED BY <2>6 DEF Sink!Next
<1>8. CASE Commit
  <2>1. /\ UNCHANGED <<tasks, docs, received, acked, dead>> /\ committed' = received
        /\ phase = "idle" /\ backlog = <<>>
    BY <1>8 DEF Commit, server
  <2>2. Open = {}
    <3>1. batch = <<>>
      BY <1>1, <2>1 DEF IInv, CallInv, Control, Quiet
    <3>2. Range(batch) = {} /\ Range(backlog) = {}
      BY <2>1, <3>1 DEF Range
    <3>3. QED BY <1>1, <3>2 DEF IInv, RouteInv
  <2>3. Sink!Commit
    BY <1>1, <1>2, <2>1, <2>2 DEF Sink!Commit, Sink!Open, Open, Source, StoreOf, Key
  <2>4. QED BY <2>3 DEF Sink!Next
<1>9. CASE Crash
  <2>1. /\ UNCHANGED <<tasks, docs, committed>> /\ received' = committed
        /\ acked' = acked \cap 1 .. committed /\ dead' = dead \cap 1 .. committed
    BY <1>9 DEF Crash
  <2>2. Sink!Restart
    BY <1>1, <1>2, <2>1 DEF Sink!Restart, Source, StoreOf, Key
  <2>3. QED BY <2>2 DEF Sink!Next
<1>10. CASE Apply
  BY <1>10, StoreMapped DEF Sink!Next
<1>11. CASE Call \/ (Trouble /\ ~Arrival)
  <2>1. UNCHANGED <<received, committed, acked, dead>>
    BY <1>11 DEF Call, Trouble, route
  <2>2. UNCHANGED docs
    <3>1. \A i, k, w : Enqueued(i, k, w) \/ HeldBack(i, k, w) => UNCHANGED docs
      BY DEF Enqueued, HeldBack
    <3>2. Call => UNCHANGED docs
      BY <3>1 DEF Call, PublisherStep, AskCreate, AskSettings, Ask, CreateAnsweredExists,
         CreateFinished, Prepared, PrepareFailed, WriteDocuments, AwaitLast, ReadEarlier,
         DoNotWait, server
    <3>3. PublisherMishap => UNCHANGED docs
      BY <3>1 DEF PublisherMishap, ReplyLost, RequestRefused, PollRefused
    <3>4. LoseTask => UNCHANGED docs
      BY DEF LoseTask, FailTask, ForgetTask
    <3>5. QED BY <1>1, <1>11, <3>2, <3>3, <3>4 DEF Trouble
  <2>3. QED BY <2>1, <2>2, SendMapped DEF Sink!Next
<1>12. ~Arrival
  BY <1>1 DEF Arrival, Prompt
<1>13. UNCHANGED vars => UNCHANGED <<tasks, docs, received, committed, acked, dead>>
  BY DEF vars, server, route
<1>14. QED
  BY <1>3, <1>4, <1>5, <1>6, <1>7, <1>8, <1>9, <1>10, <1>11, <1>12, <1>13 DEF Next

(* The sink keeps its promise: as long as no request arrives late and the  *)
(* server is not restored from a snapshot, the publisher with its batches, *)
(* runs, tasks and resends, Meilisearch and the route around them          *)
(* implement DocumentSink.                                                 *)
THEOREM KeepsPromiseHolds ==
  ASSUME RareMishaps = {}
  PROVE  Spec => KeepsPromise
<1>1. Init => StoredInv
  BY DEF Init, ServerInit, StoredInv
<1>2. IInv /\ AddressInv /\ StoredInv /\ [Next]_vars => StoredInv'
  <2>1. ~Restore
    BY DEF Restore
  <2>2. QED BY <2>1, StoredKeeps
<1>3. Init => Sink!Init
  BY StartMapped
<1>4. /\ IInv /\ AddressInv /\ StoredInv
      /\ TakenInv /\ NewestInv /\ CoveredInv /\ LandedInv /\ Prompt /\ [Next]_vars
      => [Sink!Next]_(Sink!vars)
  BY StepMapped DEF PromiseInv
<1>5. QED
  BY <1>1, <1>2, <1>3, <1>4, RouteInvariant, EveryTaskAddressed, DeliveryInvariant, PTL
  DEF Spec, KeepsPromise, Sink!Spec

=============================================================================
