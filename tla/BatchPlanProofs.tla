-------------------------- MODULE BatchPlanProofs --------------------------
(***************************************************************************)
(* Proofs about the planning loop, for every set of documents, indexes and *)
(* operation values and for batches of every length.  What one iteration   *)
(* does to a plan is the subject of the lemmas of SettlingProofs.          *)
(***************************************************************************)
EXTENDS BatchPlan, SettlingProofs

IInv == /\ batch \in Seq(Message)
        /\ done \in 0 .. Len(batch)
        /\ WellFormed(batch, plan, done)

(* Each kind of iteration keeps the invariant of the loop. *)
LEMMA IInvKept ==
  ASSUME IInv, [Next]_vars
  PROVE  IInv'
<1>1. CASE UNCHANGED vars
  BY <1>1 DEF IInv, vars
<1>2. CASE Considering
  <2>1. /\ batch \in Seq(Message) /\ done \in Nat /\ done < Len(batch)
        /\ batch' = batch /\ done' = done + 1
        /\ WellFormed(batch, plan, done)
    BY <1>2 DEF IInv, Considering
  <2>2. batch[done + 1] \in Message /\ done + 1 \in 0 .. Len(batch)
    BY <2>1
  <2>3. SUFFICES WellFormed(batch, plan', done + 1)
    BY <2>1, <2>2 DEF IInv
  <2>4. CASE StopPlan
    BY <2>1, <2>4, AsideWellFormed DEF StopPlan, Position
  <2>5. CASE RejectDocument
    BY <2>1, <2>5, AsideWellFormed DEF RejectDocument, Position
  <2>6. ASSUME ~Unplaceable(batch[done + 1])
        PROVE  /\ WellFormed(batch, Ready(plan, batch[done + 1]), done)
               /\ Admits(Ready(plan, batch[done + 1]), batch[done + 1])
    BY <2>1, <2>2, <2>6, ReadyWellFormed
  <2>7. CASE JoinRun
    <3>1. PICK r \in Fitting(Ready(plan, batch[done + 1]), batch[done + 1]) :
            plan' = Joined(Ready(plan, batch[done + 1]), r, done + 1)
      BY <2>7 DEF JoinRun, Position
    <3>2. ~Unplaceable(batch[done + 1])
      BY <2>7 DEF JoinRun, Placeable, Position
    <3>3. QED BY <2>1, <2>6, <3>1, <3>2, JoinedWellFormed
  <2>8. CASE OpenRun
    <3>1. /\ Fitting(Ready(plan, batch[done + 1]), batch[done + 1]) = {}
          /\ plan' = Opened(Ready(plan, batch[done + 1]), batch[done + 1], done + 1)
          /\ ~Unplaceable(batch[done + 1])
      BY <2>8 DEF OpenRun, Placeable, Position
    <3>2. QED BY <2>1, <2>6, <3>1, OpenedWellFormed
  <2>9. QED BY <1>2, <2>1, <2>4, <2>5, <2>7, <2>8 DEF Next, vars
<1>3. QED BY <1>1, <1>2
        DEF Next, StopPlan, RejectDocument, JoinRun, OpenRun

(* The invariant of the loop: established by Init, kept by each kind of    *)
(* iteration.                                                              *)
THEOREM PlanInvariant == Spec => []IInv
<1>1. Init => IInv
  <2>1. SUFFICES ASSUME Init PROVE IInv
    OBVIOUS
  <2>2. batch \in Seq(Message) /\ done \in 0 .. Len(batch)
    BY <2>1, BatchAssumption DEF Init, BatchAssumption
  <2>3. WellFormed(batch, EmptyPlan, 0)
    BY <2>2, EmptyWellFormed
  <2>4. QED BY <2>1, <2>2, <2>3 DEF Init, IInv
<1>2. QED BY <1>1, IInvKept, PTL DEF Spec

(* The plan, its runs and its notes always have their types: segment and   *)
(* position numbers stay natural and every run names a real index.         *)
THEOREM TypeCorrect == Spec => []TypeOK
<1>1. IInv => TypeOK
  BY DEF IInv, TypeOK, WellFormed
<1>2. QED BY <1>1, PlanInvariant, PTL

(* Whatever the batch, the documents and the indexes, two writes of one    *)
(* document are planned in source order: in one request body, or in runs   *)
(* of an earlier and a later segment.                                      *)
THEOREM SameDocumentOrderHolds == Spec => []SameDocumentOrder
<1>1. IInv => SameDocumentOrder
  <2>1. SUFFICES ASSUME IInv,
                        NEW r \in 1 .. Len(plan.runs), NEW s \in 1 .. Len(plan.runs),
                        NEW i \in 1 .. done, NEW j \in 1 .. done,
                        Carries(r, i), Carries(s, j), i < j, SameDocument(i, j)
                 PROVE  \/ r = s
                        \/ r < s /\ plan.runs[r].segment < plan.runs[s].segment
    BY DEF SameDocumentOrder
  <2>2. PICK k \in Positions(plan, r) : plan.runs[r].positions[k] = i
    BY <2>1 DEF Carries, Positions
  <2>3. PICK l \in Positions(plan, s) : plan.runs[s].positions[l] = j
    BY <2>1 DEF Carries, Positions
  <2>4. SameKey(At(batch, plan, r, k), At(batch, plan, s, l))
    BY <2>1, <2>2, <2>3 DEF SameKey, SameDocument, At
  <2>5. QED BY <2>1, <2>2, <2>3, <2>4 DEF IInv, WellFormed, Ordered
<1>2. QED BY <1>1, PlanInvariant, PTL

(* The request body of every run lists its messages in source order. *)
THEOREM BodyOrderHolds == Spec => []BodyOrder
<1>1. IInv => BodyOrder
  BY DEF IInv, WellFormed, Increasing, BodyOrder, Positions
<1>2. QED BY <1>1, PlanInvariant, PTL

-----------------------------------------------------------------------------
(***************************************************************************)
(* No message is lost or planned twice.                                    *)
(***************************************************************************)
AInv == Accounted(plan, done)

(* What a plan is when a message is about to be placed: as it was, but for *)
(* the segment and the notes.                                              *)
LEMMA ReadyToPlace ==
  ASSUME IInv, AInv, Considering, ~Unplaceable(batch[done + 1])
  PROVE  LET m == batch[done + 1]
             q == Ready(plan, m)
         IN /\ m \in Message /\ q \in Plan
            /\ WellFormed(batch, q, done) /\ Admits(q, m) /\ Accounted(q, done)
            /\ q.runs = plan.runs /\ q.stopped = 0 /\ q.rejected = plan.rejected
            /\ \A r, i : Has(q, r, i) <=> Has(plan, r, i)
<1> DEFINE m == batch[done + 1]
           q == Ready(plan, m)
<1>1. /\ m \in Message /\ plan \in Plan /\ plan.stopped = 0 /\ done \in Nat
      /\ batch \in Seq(Message)
      /\ WellFormed(batch, plan, done) /\ Accounted(plan, done)
  BY DEF IInv, AInv, Considering, WellFormed
<1>2. WellFormed(batch, q, done) /\ Admits(q, m) /\ q \in Plan
  <2>1. WellFormed(batch, q, done) /\ Admits(q, m)
    BY <1>1, ReadyWellFormed
  <2>2. QED BY <2>1 DEF WellFormed
<1>3. q.runs = plan.runs /\ q.stopped = 0 /\ q.rejected = plan.rejected
  BY <1>1, ReadyKeeps
<1>4. \A r, i : Has(q, r, i) <=> Has(plan, r, i)
  BY <1>3 DEF Has, Positions
<1>5. Accounted(q, done)
  BY <1>1, <1>3, <1>4 DEF Accounted
<1>6. QED BY <1>1, <1>2, <1>3, <1>4, <1>5

(* Each iteration accounts for the message it considers. *)
LEMMA AccountInvariant == Spec => []AInv
<1>1. Init => AInv
  BY BatchAssumption, EmptyWellFormed DEF Init, AInv, BatchAssumption
<1>2. IInv /\ AInv /\ [Next]_vars => AInv'
  <2>1. SUFFICES ASSUME IInv, AInv, [Next]_vars PROVE AInv'
    OBVIOUS
  <2>2. CASE UNCHANGED vars
    BY <2>1, <2>2 DEF AInv, vars
  <2>3. CASE Next
    <3>1. /\ plan \in Plan /\ done \in Nat /\ plan.stopped = 0
          /\ done' = done + 1 /\ Accounted(plan, done) /\ Considering
      BY <2>1, <2>3 DEF IInv, AInv, WellFormed, Next, StopPlan, RejectDocument,
                        JoinRun, OpenRun, Considering
    <3>2. SUFFICES Accounted(plan', done + 1)
      BY <3>1 DEF AInv
    <3>3. CASE StopPlan
      BY <3>1, <3>3, StoppedAccounted DEF StopPlan, Position
    <3>4. CASE RejectDocument
      BY <3>1, <3>4, RejectedAccounted DEF RejectDocument, Position
    <3> DEFINE q == Ready(plan, batch[done + 1])
    <3>5. CASE JoinRun
      <4>1. PICK r \in Fitting(q, batch[done + 1]) : plan' = Joined(q, r, done + 1)
        BY <3>5 DEF JoinRun, Position
      <4>2. q \in Plan /\ q.stopped = 0 /\ Accounted(q, done)
        BY <2>1, <3>1, <3>5, ReadyToPlace DEF JoinRun, Placeable, Position
      <4> HIDE DEF q
      <4>3. r \in 1 .. Len(q.runs)
        BY <4>2, PlanParts DEF Fitting, Current
      <4>4. QED BY <3>1, <4>1, <4>2, <4>3, JoinedAccounted
    <3>6. CASE OpenRun
      <4>1. plan' = Opened(q, batch[done + 1], done + 1) /\ ~Unplaceable(batch[done + 1])
        BY <3>6 DEF OpenRun, Placeable, Position
      <4>2. q \in Plan /\ q.stopped = 0 /\ Accounted(q, done) /\ batch[done + 1] \in Message
        BY <2>1, <3>1, <4>1, ReadyToPlace
      <4> HIDE DEF q
      <4>3. QED BY <3>1, <4>1, <4>2, OpenedAccounted
    <3>7. QED BY <2>3, <3>3, <3>4, <3>5, <3>6 DEF Next
  <2>4. QED BY <2>1, <2>2, <2>3
<1>3. QED BY <1>1, <1>2, PlanInvariant, PTL DEF Spec

(* When the plan is finished every message of the batch is in exactly one  *)
(* run, or set aside, or at or behind the message the plan stopped at.     *)
THEOREM EveryMessageAccountedHolds == Spec => []EveryMessageAccounted
<1>1. IInv /\ AInv => EveryMessageAccounted
  <2>1. SUFFICES ASSUME IInv, AInv, Planned, NEW i \in 1 .. Len(batch)
                 PROVE  LET carriers == {r \in 1 .. Len(plan.runs) : Carries(r, i)}
                            behind   == plan.stopped # 0 /\ i >= plan.stopped
                        IN \/ behind /\ carriers = {} /\ i \notin plan.rejected
                           \/ ~behind /\ i \in plan.rejected /\ carriers = {}
                           \/ /\ ~behind /\ i \notin plan.rejected
                              /\ \E r \in carriers : carriers = {r}
    BY DEF EveryMessageAccounted
  <2>2. /\ done \in 0 .. Len(batch) /\ Len(batch) \in Nat /\ i \in Nat
        /\ plan.stopped = 0 => done = Len(batch)
        /\ Accounted(plan, done)
    BY <2>1 DEF IInv, AInv, Planned
  <2>3. \A r : Carries(r, i) <=> Has(plan, r, i)
    BY DEF Carries, Has, Positions
  <2>4. CASE plan.stopped # 0 /\ i >= plan.stopped
    <3>1. plan.stopped = done /\ done \notin plan.rejected
      BY <2>2, <2>4 DEF Accounted
    <3>2. \A r \in 1 .. Len(plan.runs) : ~Has(plan, r, i)
      BY <2>2, <2>4, <3>1 DEF Accounted
    <3>3. i \notin plan.rejected
      BY <2>2, <2>4, <3>1 DEF Accounted
    <3>4. QED BY <2>3, <2>4, <3>2, <3>3
  <2>5. CASE ~(plan.stopped # 0 /\ i >= plan.stopped)
    <3>1. i \in 1 .. done /\ i # plan.stopped
      BY <2>1, <2>2, <2>5 DEF Accounted
    <3>2. CASE i \in plan.rejected
      BY <2>2, <2>3, <2>5, <3>2 DEF Accounted
    <3>3. CASE i \notin plan.rejected
      <4>1. PICK r \in 1 .. Len(plan.runs) : Has(plan, r, i)
        BY <2>2, <3>1, <3>3 DEF Accounted
      <4>2. \A s \in 1 .. Len(plan.runs) : Has(plan, s, i) => s = r
        BY <2>2, <4>1 DEF Accounted
      <4>3. {s \in 1 .. Len(plan.runs) : Carries(s, i)} = {r}
        BY <2>3, <4>1, <4>2
      <4>4. QED BY <2>5, <3>3, <4>3
    <3>4. QED BY <3>2, <3>3
  <2>6. QED BY <2>4, <2>5
<1>2. QED BY <1>1, PlanInvariant, AccountInvariant, PTL

-----------------------------------------------------------------------------
(***************************************************************************)
(* A segment is opened only for a document that switches its operation.    *)
(* What is noted of the current segment is borne out by one of its runs,   *)
(* so a conflict read from the notes is a switch between two runs.         *)
(***************************************************************************)
Backed(b, p) ==
  Keyed => /\ p.unkeyed = {}
           /\ \A i \in Indexes, d \in Docs : p.keyed[<<i, d>>] # "none" =>
                \E r \in Current(p) : \E k \in Positions(p, r) :
                  /\ p.runs[r].index = i /\ p.runs[r].op = p.keyed[<<i, d>>]
                  /\ At(b, p, r, k).doc = d

(* A document of segment g - 1 switches its operation in segment g. *)
SwitchAt(b, p, g) ==
  \E r, t \in 1 .. Len(p.runs) : \E k \in Positions(p, r), l \in Positions(p, t) :
    /\ p.runs[r].segment + 1 = g /\ p.runs[t].segment = g
    /\ p.runs[r].op # p.runs[t].op
    /\ SameKey(At(b, p, r, k), At(b, p, t, l))

SInv == Backed(batch, plan) /\ \A g \in 1 .. plan.segment : SwitchAt(batch, plan, g)

(* Every run of p is in q, of the same operation, index and segment, with  *)
(* its positions.                                                          *)
Grown(p, q) ==
  /\ Len(p.runs) <= Len(q.runs)
  /\ \A r \in 1 .. Len(p.runs) :
       /\ q.runs[r].op = p.runs[r].op /\ q.runs[r].index = p.runs[r].index
       /\ q.runs[r].segment = p.runs[r].segment
       /\ \A k \in Positions(p, r) : /\ k \in Positions(q, r)
                                     /\ q.runs[r].positions[k] = p.runs[r].positions[k]

(* The message considered is in run t of the current segment, at place l.  *)
Carrying(p, t, l) ==
  /\ t \in Current(p) /\ t \in 1 .. Len(p.runs) /\ l \in Positions(p, t)
  /\ p.runs[t].op = Classify(batch[done + 1])
  /\ p.runs[t].index = TargetIndex(batch[done + 1])
  /\ p.runs[t].positions[l] = done + 1

(* A switch seen in a plan is seen in every plan it grows into. *)
LEMMA SwitchKept ==
  ASSUME NEW b, NEW p, NEW q, Grown(p, q), Len(p.runs) \in Nat, Len(q.runs) \in Nat,
         NEW g, SwitchAt(b, p, g)
  PROVE  SwitchAt(b, q, g)
<1>1. PICK r \in 1 .. Len(p.runs), t \in 1 .. Len(p.runs) :
        \E k \in Positions(p, r), l \in Positions(p, t) :
          /\ p.runs[r].segment + 1 = g /\ p.runs[t].segment = g
          /\ p.runs[r].op # p.runs[t].op
          /\ SameKey(At(b, p, r, k), At(b, p, t, l))
  BY DEF SwitchAt
<1>2. PICK k \in Positions(p, r), l \in Positions(p, t) :
          /\ p.runs[r].segment + 1 = g /\ p.runs[t].segment = g
          /\ p.runs[r].op # p.runs[t].op
          /\ SameKey(At(b, p, r, k), At(b, p, t, l))
  BY <1>1
<1>3. r \in 1 .. Len(q.runs) /\ t \in 1 .. Len(q.runs)
  BY DEF Grown
<1>4. /\ k \in Positions(q, r) /\ l \in Positions(q, t)
      /\ At(b, q, r, k) = At(b, p, r, k)
      /\ At(b, q, t, l) = At(b, p, t, l)
  BY DEF Grown, At
<1>5. /\ q.runs[r].segment + 1 = g /\ q.runs[t].segment = g
      /\ q.runs[r].op # q.runs[t].op
  BY <1>2 DEF Grown
<1>6. SameKey(At(b, q, r, k), At(b, q, t, l))
  BY <1>2, <1>4
<1>7. QED BY <1>3, <1>4, <1>5, <1>6 DEF SwitchAt

(* Where a message joins or opens a run, the plan grows by it and the rest *)
(* of the plan is as it was made ready.                                    *)
LEMMA Placement ==
  ASSUME IInv, JoinRun \/ OpenRun
  PROVE  LET q == Ready(plan, batch[done + 1])
         IN /\ plan'.segment = q.segment /\ plan'.segmentStart = q.segmentStart
            /\ plan'.keyed = q.keyed /\ plan'.unkeyed = q.unkeyed
            /\ Grown(plan, plan') /\ \E t, l : Carrying(plan', t, l)
<1> DEFINE m == batch[done + 1]
           q == Ready(plan, m)
<1>1. /\ plan \in Plan /\ m \in Message /\ ~Unplaceable(m) /\ done \in Nat
      /\ WellFormed(batch, plan, done) /\ batch \in Seq(Message)
  BY DEF IInv, JoinRun, OpenRun, Considering, Placeable, Position, WellFormed
<1>2. WellFormed(batch, q, done) /\ q \in Plan
  BY <1>1, ReadyWellFormed DEF WellFormed
<1>3. q.runs = plan.runs
  BY <1>1, ReadyKeeps
<1>4. m = batch[done + 1]
  OBVIOUS
<1>5. CASE JoinRun
  <2>1. PICK t \in Fitting(q, m) : plan' = Joined(q, t, done + 1)
    BY <1>5 DEF JoinRun, Position
  <2> HIDE DEF m, q
  <2>2. /\ t \in Current(q) /\ t \in 1 .. Len(q.runs)
        /\ q.runs[t].op = Classify(m) /\ q.runs[t].index = TargetIndex(m)
    BY <1>2, PlanParts DEF Fitting, Current
  <2>3. PICK old, run : /\ old = q.runs[t].positions
                        /\ run = [q.runs[t] EXCEPT !.positions = Append(old, done + 1)]
    OBVIOUS
  <2>4. /\ q.runs \in Seq(Run) /\ q.runs[t] \in Run /\ old \in Seq(Nat) /\ Len(old) \in Nat
        /\ Len(q.runs) \in Nat
    BY <1>2, <2>2, <2>3, PlanParts
  <2>5. /\ run.op = q.runs[t].op /\ run.index = q.runs[t].index
        /\ run.segment = q.runs[t].segment /\ run.positions = Append(old, done + 1)
    BY <2>3, <2>4 DEF Run
  <2>6. plan' = [q EXCEPT !.runs = [q.runs EXCEPT ![t] = run]]
    BY <2>1, <2>3 DEF Joined
  <2>7. /\ plan'.segment = q.segment /\ plan'.segmentStart = q.segmentStart
        /\ plan'.keyed = q.keyed /\ plan'.unkeyed = q.unkeyed
        /\ plan'.runs = [q.runs EXCEPT ![t] = run]
    BY <1>2, <2>6 DEF Plan
  <2>8. /\ Len(plan'.runs) = Len(q.runs) /\ plan'.runs[t] = run
        /\ \A r \in 1 .. Len(q.runs) : r # t => plan'.runs[r] = q.runs[r]
    BY <2>2, <2>4, <2>7
  <2>9. /\ Len(Append(old, done + 1)) = Len(old) + 1
        /\ \A k \in 1 .. Len(old) : Append(old, done + 1)[k] = old[k]
        /\ Append(old, done + 1)[Len(old) + 1] = done + 1
    BY <1>1, <2>4, AppendProperties
  <2>10. /\ Positions(plan', t) = 1 .. Len(old) + 1 /\ Positions(q, t) = 1 .. Len(old)
         /\ Positions(q, t) \subseteq Positions(plan', t)
         /\ Len(old) + 1 \in Positions(plan', t)
    BY <2>3, <2>4, <2>5, <2>8, <2>9 DEF Positions
  <2>11. Grown(q, plan')
    <3>1. ASSUME NEW r \in 1 .. Len(q.runs)
          PROVE  /\ plan'.runs[r].op = q.runs[r].op /\ plan'.runs[r].index = q.runs[r].index
                 /\ plan'.runs[r].segment = q.runs[r].segment
                 /\ \A k \in Positions(q, r) :
                      /\ k \in Positions(plan', r)
                      /\ plan'.runs[r].positions[k] = q.runs[r].positions[k]
      <4>1. CASE r # t
        BY <2>8, <4>1 DEF Positions
      <4>2. CASE r = t
        <5>1. plan'.runs[t].positions = Append(old, done + 1)
          BY <2>5, <2>8
        <5>2. \A k \in Positions(q, t) : plan'.runs[t].positions[k] = q.runs[t].positions[k]
          BY <2>3, <2>9, <2>10, <5>1
        <5>3. QED BY <2>5, <2>8, <2>10, <4>2, <5>2
      <4>3. QED BY <4>1, <4>2
    <3>2. QED BY <2>4, <2>8, <3>1 DEF Grown
  <2>12. Carrying(plan', t, Len(old) + 1)
    <3>1. t \in Current(plan') /\ t \in 1 .. Len(plan'.runs)
      BY <2>2, <2>7, <2>8 DEF Current
    <3>2. QED BY <1>4, <2>2, <2>5, <2>8, <2>9, <2>10, <3>1 DEF Carrying
  <2>13. Grown(plan, plan')
    BY <1>3, <2>11 DEF Grown, Positions
  <2>14. QED BY <2>7, <2>12, <2>13 DEF q, m
<1>6. CASE OpenRun
  <2>1. plan' = Opened(q, m, done + 1)
    BY <1>6 DEF OpenRun, Position
  <2> HIDE DEF m, q
  <2>2. PICK last, run : /\ last = Len(q.runs) + 1
                         /\ run = [op |-> Classify(m), index |-> TargetIndex(m),
                                   segment |-> q.segment, positions |-> <<done + 1>>]
    OBVIOUS
  <2>3. /\ q.runs \in Seq(Run) /\ Len(q.runs) \in Nat /\ q.segment \in Nat
        /\ Classify(m) \in Kinds /\ TargetIndex(m) \in Indexes
        /\ q.segmentStart \in 0 .. Len(q.runs)
    BY <1>1, <1>2, PlanParts, MessageParts DEF WellFormed, Segmented
  <2>4. run \in Run
    BY <1>1, <2>2, <2>3 DEF Run
  <2>5. plan' = [q EXCEPT !.runs = Append(q.runs, run)]
    BY <2>1, <2>2 DEF Opened
  <2>6. /\ plan'.segment = q.segment /\ plan'.segmentStart = q.segmentStart
        /\ plan'.keyed = q.keyed /\ plan'.unkeyed = q.unkeyed
        /\ plan'.runs = Append(q.runs, run)
    BY <1>2, <2>5 DEF Plan
  <2>7. /\ Len(plan'.runs) = last /\ plan'.runs[last] = run
        /\ \A r \in 1 .. Len(q.runs) : plan'.runs[r] = q.runs[r]
    BY <2>2, <2>3, <2>4, <2>6, AppendProperties
  <2>8. Grown(plan, plan')
    BY <1>3, <2>2, <2>3, <2>7 DEF Grown, Positions
  <2>9. Carrying(plan', last, 1)
    <3>1. last \in Current(plan') /\ last \in 1 .. Len(plan'.runs)
      BY <2>2, <2>3, <2>6, <2>7 DEF Current
    <3>2. Positions(plan', last) = {1} /\ plan'.runs[last].positions[1] = done + 1
      BY <1>1, <2>2, <2>7 DEF Positions
    <3>3. QED BY <1>4, <2>2, <2>7, <3>1, <3>2 DEF Carrying
  <2>10. QED BY <2>6, <2>8, <2>9 DEF q, m
<1>7. QED BY <1>5, <1>6

(* What is noted of the segment stays borne out, and a new segment has the *)
(* switch it was opened for.                                               *)
LEMMA PlacementSwitches ==
  ASSUME IInv, SInv, JoinRun \/ OpenRun
  PROVE  SInv'
<1> DEFINE m == batch[done + 1]
           c == Cut(plan, m)
           q == Ready(plan, m)
<1>1. /\ plan \in Plan /\ m \in Message /\ ~Unplaceable(m) /\ done \in Nat
      /\ WellFormed(batch, plan, done) /\ batch \in Seq(Message) /\ batch' = batch
      /\ Segmented(plan) /\ plan.segment \in Nat /\ Len(plan.runs) \in Nat
      /\ plan.segmentStart \in Nat
      /\ plan.keyed \in [Indexes \X Docs -> Kinds \cup {"none"}]
  <2>1. /\ plan \in Plan /\ m \in Message /\ ~Unplaceable(m) /\ done \in Nat
        /\ WellFormed(batch, plan, done) /\ batch \in Seq(Message) /\ batch' = batch
    BY DEF IInv, JoinRun, OpenRun, Considering, Placeable, Position, WellFormed
  <2>2. QED BY <2>1, PlanParts DEF WellFormed
<1>2. WellFormed(batch, c, done) /\ c \in Plan
      /\ c.keyed \in [Indexes \X Docs -> Kinds \cup {"none"}]
  BY <1>1, CutWellFormed, PlanParts DEF WellFormed
<1>3. /\ plan'.segment = q.segment /\ plan'.segmentStart = q.segmentStart
      /\ plan'.keyed = q.keyed /\ plan'.unkeyed = q.unkeyed
      /\ Grown(plan, plan') /\ \E t, l : Carrying(plan', t, l)
  BY Placement
<1>4. PICK t, l : Carrying(plan', t, l)
  BY <1>3
<1>5. IInv'
  BY IInvKept DEF Next
<1>6. /\ Segmented(plan') /\ Len(plan'.runs) \in Nat /\ plan'.segment \in Nat
      /\ plan' \in Plan
  BY <1>5, PlanParts DEF IInv, WellFormed
<1>7. /\ Classify(m) \in Kinds /\ TargetIndex(m) \in Indexes /\ m.doc \in Docs
      /\ Other(Classify(m)) # Classify(m) /\ Other(Classify(m)) \in Kinds
  BY <1>1, MessageParts
<1>8. /\ q.segment = c.segment /\ q.segmentStart = c.segmentStart
      /\ Keyed => /\ q.unkeyed = c.unkeyed
                  /\ q.keyed = [c.keyed EXCEPT ![<<TargetIndex(m), m.doc>>] = Classify(m)]
  <2>1. q = Noted(c, m)
    BY DEF Ready
  <2> HIDE DEF q, c
  <2>2. QED BY <1>2, <2>1 DEF Noted, Plan
<1>9. /\ t \in Current(plan') /\ t \in 1 .. Len(plan'.runs) /\ l \in Positions(plan', t)
      /\ plan'.runs[t].op = Classify(m) /\ plan'.runs[t].index = TargetIndex(m)
      /\ At(batch, plan', t, l) = m
      /\ plan'.runs[t].segment = plan'.segment
  <2>1. plan'.runs[t].segment = plan'.segment
    BY <1>4, <1>6 DEF Carrying, Segmented, Current
  <2>2. QED BY <1>4, <2>1 DEF Carrying, At
<1> HIDE DEF m, c, q
<1>10. CASE ~Conflicts(plan, m)
  <2>1. c = plan
    BY <1>10 DEF Cut, c
  <2>2. plan'.segment = plan.segment /\ plan'.segmentStart = plan.segmentStart
    BY <1>3, <1>8, <2>1
  <2>3. \A g \in 1 .. plan'.segment : SwitchAt(batch, plan', g)
    BY <1>1, <1>3, <1>6, <2>2, SwitchKept DEF SInv
  <2>4. Backed(batch, plan')
    <3>1. SUFFICES ASSUME Keyed
                   PROVE  /\ plan'.unkeyed = {}
                          /\ \A i \in Indexes, d \in Docs : plan'.keyed[<<i, d>>] # "none" =>
                               \E r \in Current(plan') : \E k \in Positions(plan', r) :
                                 /\ plan'.runs[r].index = i
                                 /\ plan'.runs[r].op = plan'.keyed[<<i, d>>]
                                 /\ At(batch, plan', r, k).doc = d
      BY DEF Backed
    <3>2. plan'.unkeyed = {}
      BY <1>3, <1>8, <2>1, <3>1 DEF SInv, Backed
    <3>3. ASSUME NEW i \in Indexes, NEW d \in Docs, plan'.keyed[<<i, d>>] # "none"
          PROVE  \E r \in Current(plan') : \E k \in Positions(plan', r) :
                   /\ plan'.runs[r].index = i
                   /\ plan'.runs[r].op = plan'.keyed[<<i, d>>]
                   /\ At(batch, plan', r, k).doc = d
      <4>1. CASE <<i, d>> = <<TargetIndex(m), m.doc>>
        <5>1. plan'.keyed[<<i, d>>] = Classify(m) /\ i = TargetIndex(m) /\ d = m.doc
          BY <1>1, <1>3, <1>7, <1>8, <2>1, <3>1, <4>1
        <5>2. QED BY <1>9, <5>1
      <4>2. CASE <<i, d>> # <<TargetIndex(m), m.doc>>
        <5>1. plan'.keyed[<<i, d>>] = plan.keyed[<<i, d>>]
          BY <1>1, <1>3, <1>8, <2>1, <3>1, <4>2
        <5>2. PICK r \in Current(plan) : \E k \in Positions(plan, r) :
                /\ plan.runs[r].index = i /\ plan.runs[r].op = plan.keyed[<<i, d>>]
                /\ At(batch, plan, r, k).doc = d
          BY <3>1, <3>3, <5>1 DEF SInv, Backed
        <5>3. PICK k \in Positions(plan, r) :
                /\ plan.runs[r].index = i /\ plan.runs[r].op = plan.keyed[<<i, d>>]
                /\ At(batch, plan, r, k).doc = d
          BY <5>2
        <5>4. r \in 1 .. Len(plan.runs) /\ r \in Current(plan')
          BY <1>1, <1>3, <1>6, <2>2 DEF Current, Grown
        <5>5. /\ plan'.runs[r].index = i /\ plan'.runs[r].op = plan'.keyed[<<i, d>>]
              /\ k \in Positions(plan', r) /\ At(batch, plan', r, k).doc = d
          BY <1>3, <5>1, <5>3, <5>4 DEF Grown, At
        <5>6. QED BY <5>4, <5>5
      <4>3. QED BY <4>1, <4>2
    <3>4. QED BY <3>2, <3>3
  <2>5. QED BY <1>1, <2>3, <2>4 DEF SInv
<1>11. CASE Conflicts(plan, m)
  <2>1. /\ c.segment = plan.segment + 1 /\ c.segmentStart = Len(plan.runs)
        /\ c.keyed = NothingKeyed /\ c.unkeyed = {}
    BY <1>1, <1>11 DEF Cut, c, Plan
  <2>2. PICK r \in Current(plan) : \E k \in Positions(plan, r) :
          /\ plan.runs[r].index = TargetIndex(m) /\ plan.runs[r].op # Classify(m)
          /\ Keyed => At(batch, plan, r, k).doc = m.doc
    <3>1. CASE Keyed
      <4>1. plan.keyed[<<TargetIndex(m), m.doc>>] = Other(Classify(m))
        BY <1>11, <3>1 DEF Conflicts, SInv, Backed
      <4>2. Other(Classify(m)) # "none"
        BY <1>7 DEF Kinds
      <4>3. QED BY <1>7, <3>1, <4>1, <4>2 DEF SInv, Backed
    <3>2. CASE ~Keyed
      <4>1. PICK r \in Current(plan) : /\ plan.runs[r].index = TargetIndex(m)
                                       /\ plan.runs[r].op # Classify(m)
        BY <1>11, <3>2 DEF Conflicts
      <4>2. r \in 1 .. Len(plan.runs) /\ Len(plan.runs[r].positions) \in Nat
        <5>1. r \in 1 .. Len(plan.runs)
          BY <1>1 DEF Current
        <5>2. QED BY <1>1, <5>1, PlanParts
      <4>3. 1 \in Positions(plan, r)
        BY <1>1, <4>2 DEF WellFormed, Filled, Positions
      <4>4. QED BY <3>2, <4>1, <4>3
    <3>3. QED BY <3>1, <3>2
  <2>3. PICK k \in Positions(plan, r) :
          /\ plan.runs[r].index = TargetIndex(m) /\ plan.runs[r].op # Classify(m)
          /\ Keyed => At(batch, plan, r, k).doc = m.doc
    BY <2>2
  <2>4. r \in 1 .. Len(plan.runs) /\ plan.runs[r].segment = plan.segment
    BY <1>1 DEF Current, Segmented
  <2>5. SwitchAt(batch, plan', plan.segment + 1)
    <3>1. /\ r \in 1 .. Len(plan'.runs) /\ k \in Positions(plan', r)
          /\ plan'.runs[r].segment = plan.segment /\ plan'.runs[r].op # Classify(m)
          /\ At(batch, plan', r, k) = At(batch, plan, r, k)
      <4>1. /\ plan'.runs[r].segment = plan.runs[r].segment
            /\ plan'.runs[r].op = plan.runs[r].op
            /\ k \in Positions(plan', r)
            /\ plan'.runs[r].positions[k] = plan.runs[r].positions[k]
        BY <1>3, <2>4 DEF Grown
      <4>2. r \in 1 .. Len(plan'.runs)
        BY <1>1, <1>3, <1>6, <2>4 DEF Grown
      <4>3. QED BY <2>3, <2>4, <4>1, <4>2 DEF At
    <3>2. plan'.runs[t].segment = plan.segment + 1
      BY <1>3, <1>8, <1>9, <2>1
    <3>3. TargetIndex(At(batch, plan, r, k)) = TargetIndex(m)
      BY <1>1, <2>3, <2>4 DEF WellFormed, Uniform
    <3>4. SameKey(At(batch, plan', r, k), At(batch, plan', t, l))
      BY <1>9, <2>3, <3>1, <3>3 DEF SameKey
    <3>5. plan'.runs[r].op # plan'.runs[t].op
      BY <1>9, <3>1
    <3>6. QED BY <1>9, <3>1, <3>2, <3>4, <3>5 DEF SwitchAt
  <2>6. ASSUME NEW g \in 1 .. plan'.segment PROVE SwitchAt(batch, plan', g)
    <3>1. plan'.segment = plan.segment + 1
      BY <1>3, <1>8, <2>1
    <3>2. CASE g = plan.segment + 1
      BY <2>5, <3>2
    <3>3. CASE g \in 1 .. plan.segment
      BY <1>1, <1>3, <1>6, <3>3, SwitchKept DEF SInv
    <3>4. QED BY <1>1, <3>1, <3>2, <3>3
  <2>7. Backed(batch, plan')
    <3>1. SUFFICES ASSUME Keyed
                   PROVE  /\ plan'.unkeyed = {}
                          /\ \A i \in Indexes, d \in Docs : plan'.keyed[<<i, d>>] # "none" =>
                               \E s \in Current(plan') : \E j \in Positions(plan', s) :
                                 /\ plan'.runs[s].index = i
                                 /\ plan'.runs[s].op = plan'.keyed[<<i, d>>]
                                 /\ At(batch, plan', s, j).doc = d
      BY DEF Backed
    <3>2. plan'.unkeyed = {}
      BY <1>3, <1>8, <2>1, <3>1
    <3>3. ASSUME NEW i \in Indexes, NEW d \in Docs, plan'.keyed[<<i, d>>] # "none"
          PROVE  \E s \in Current(plan') : \E j \in Positions(plan', s) :
                   /\ plan'.runs[s].index = i
                   /\ plan'.runs[s].op = plan'.keyed[<<i, d>>]
                   /\ At(batch, plan', s, j).doc = d
      <4>1. plan'.keyed[<<TargetIndex(m), m.doc>>] = Classify(m)
        BY <1>2, <1>3, <1>7, <1>8, <3>1
      <4>2. i = TargetIndex(m) /\ d = m.doc
        <5>1. SUFFICES ASSUME <<i, d>> # <<TargetIndex(m), m.doc>> PROVE FALSE
          OBVIOUS
        <5>2. plan'.keyed[<<i, d>>] = NothingKeyed[<<i, d>>]
          BY <1>2, <1>3, <1>8, <2>1, <3>1, <5>1
        <5>3. NothingKeyed[<<i, d>>] = "none"
          BY DEF NothingKeyed
        <5>4. QED BY <3>3, <5>2, <5>3
      <4>3. QED BY <1>9, <4>1, <4>2
    <3>4. QED BY <3>2, <3>3
  <2>8. QED BY <1>1, <2>6, <2>7 DEF SInv
<1>12. QED BY <1>10, <1>11

LEMMA SwitchInvariant == Spec => []SInv
<1>1. Init => SInv
  <2>1. SUFFICES ASSUME Init PROVE SInv
    OBVIOUS
  <2>2. /\ plan.segment = 0 /\ plan.keyed = NothingKeyed /\ plan.unkeyed = {}
    BY <2>1 DEF Init, EmptyPlan
  <2>3. \A i \in Indexes, d \in Docs : NothingKeyed[<<i, d>>] = "none"
    BY DEF NothingKeyed
  <2>4. QED BY <2>2, <2>3 DEF SInv, Backed
<1>2. IInv /\ SInv /\ [Next]_vars => SInv'
  <2>1. SUFFICES ASSUME IInv, SInv, [Next]_vars PROVE SInv'
    OBVIOUS
  <2>2. CASE UNCHANGED vars
    BY <2>1, <2>2 DEF SInv, vars
  <2>3. CASE StopPlan \/ RejectDocument
    <3>1. plan \in Plan
      BY <2>1 DEF IInv, WellFormed
    <3>2. /\ batch' = batch
          /\ plan'.runs = plan.runs /\ plan'.segment = plan.segment
          /\ plan'.segmentStart = plan.segmentStart
          /\ plan'.keyed = plan.keyed /\ plan'.unkeyed = plan.unkeyed
      BY <2>3, <3>1 DEF StopPlan, RejectDocument, Considering, Stopped, Rejected, Plan
    <3>3. /\ \A r : Positions(plan', r) = Positions(plan, r)
          /\ \A r, k : At(batch', plan', r, k) = At(batch, plan, r, k)
      BY <3>2 DEF Positions, At
    <3>4. Backed(batch', plan')
      <4>1. Current(plan') = Current(plan)
        BY <3>2 DEF Current
      <4>2. QED BY <2>1, <3>2, <3>3, <4>1 DEF SInv, Backed
    <3>5. \A g \in 1 .. plan'.segment : SwitchAt(batch', plan', g)
      BY <2>1, <3>2, <3>3 DEF SInv, SwitchAt
    <3>6. QED BY <3>4, <3>5 DEF SInv
  <2>4. CASE JoinRun \/ OpenRun
    BY <2>1, <2>4, PlacementSwitches
  <2>5. QED BY <2>1, <2>2, <2>3, <2>4 DEF Next
<1>3. QED BY <1>1, <1>2, PlanInvariant, PTL DEF Spec

(* A segment has one run per operation and index, and every segment but    *)
(* the first was opened because a document of the one before switched its  *)
(* operation, whatever the batch: `plan` cuts no batch more finely than it *)
(* must.                                                                   *)
THEOREM SegmentsOnlyOnSwitchHolds == Spec => []SegmentsOnlyOnSwitch
<1>1. IInv /\ SInv => SegmentsOnlyOnSwitch
  <2>1. SUFFICES ASSUME IInv, SInv PROVE SegmentsOnlyOnSwitch
    OBVIOUS
  <2>2. /\ plan \in Plan /\ Segmented(plan) /\ OneRunEach(plan)
        /\ Uniform(batch, plan, done)
    BY <2>1 DEF IInv, WellFormed
  <2>3. ASSUME NEW s \in 1 .. Len(plan.runs), plan.runs[s].segment > 0
        PROVE  \E r, t \in 1 .. Len(plan.runs) : \E i, j \in 1 .. done :
                 /\ plan.runs[r].segment + 1 = plan.runs[t].segment
                 /\ plan.runs[t].segment = plan.runs[s].segment
                 /\ Carries(r, i) /\ Carries(t, j)
                 /\ SameDocument(i, j)
                 /\ plan.runs[r].op # plan.runs[t].op
    <3>1. plan.runs[s].segment \in 1 .. plan.segment
      BY <2>2, <2>3, PlanParts DEF Segmented
    <3>2. PICK r \in 1 .. Len(plan.runs), t \in 1 .. Len(plan.runs) :
            \E k \in Positions(plan, r), l \in Positions(plan, t) :
              /\ plan.runs[r].segment + 1 = plan.runs[s].segment
              /\ plan.runs[t].segment = plan.runs[s].segment
              /\ plan.runs[r].op # plan.runs[t].op
              /\ SameKey(At(batch, plan, r, k), At(batch, plan, t, l))
      BY <2>1, <3>1 DEF SInv, SwitchAt
    <3>3. PICK k \in Positions(plan, r), l \in Positions(plan, t) :
              /\ plan.runs[r].segment + 1 = plan.runs[s].segment
              /\ plan.runs[t].segment = plan.runs[s].segment
              /\ plan.runs[r].op # plan.runs[t].op
              /\ SameKey(At(batch, plan, r, k), At(batch, plan, t, l))
      BY <3>2
    <3>4. PICK i, j : i = plan.runs[r].positions[k] /\ j = plan.runs[t].positions[l]
      OBVIOUS
    <3>5. i \in 1 .. done /\ j \in 1 .. done
      BY <2>2, <3>4 DEF Uniform
    <3>6. Carries(r, i) /\ Carries(t, j)
      BY <3>4 DEF Carries, Positions
    <3>7. SameDocument(i, j)
      BY <3>3, <3>4 DEF SameDocument, SameKey, At
    <3>8. QED BY <3>3, <3>5, <3>6, <3>7
  <2>4. QED BY <2>2, <2>3 DEF SegmentsOnlyOnSwitch, OneRunEach
<1>2. QED BY <1>1, PlanInvariant, SwitchInvariant, PTL

=============================================================================
