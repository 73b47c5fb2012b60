--------------------------- MODULE SettlingProofs ---------------------------
(***************************************************************************)
(* Lemmas about the operators of Planning and Settling, for every set of   *)
(* documents, indexes and operation values and for batches of every        *)
(* length.  They speak of a plan p of the first n messages of a batch b,   *)
(* so that they can be cited wherever a batch is planned or settled.       *)
(***************************************************************************)
EXTENDS Settling, SequenceTheorems, WellFoundedInduction, NaturalsInduction, TLAPS

(* A sequence all of whose elements are in a set is a sequence over it. *)
LEMMA Narrowed ==
  ASSUME NEW T, NEW S, NEW s \in Seq(T), \A k \in 1 .. Len(s) : s[k] \in S
  PROVE  s \in Seq(S)
<1>1. s \in [1 .. Len(s) -> T] /\ Len(s) \in Nat
  BY LenProperties
<1>2. s \in [1 .. Len(s) -> S]
  BY <1>1, Zenon
<1>3. QED BY <1>1, <1>2, SeqDef

(***************************************************************************)
(* Least and greatest numbers of a set.                                    *)
(***************************************************************************)
Below == {p \in Nat \X Nat : p[1] < p[2]}

(* A set of natural numbers has a least one. *)
LEMMA LeastNat ==
  ASSUME NEW S, S \subseteq Nat, S # {}
  PROVE  \E m \in S : \A k \in S : m <= k
<1>1. IsWellFoundedOn(Below, Nat)
  <2>1. IsWellFoundedOn(OpToRel(<, Nat), Nat)
    BY NatLessThanWellFounded
  <2>2. OpToRel(<, Nat) = Below
    BY DEF OpToRel, Below
  <2>3. QED BY <2>1, <2>2
<1>2. PICK m \in S : \A k \in S : ~(<<k, m>> \in Below)
  BY <1>1, WFMin
<1>3. \A j \in Nat, k \in Nat : j < k => <<j, k>> \in Below
  BY DEF Below
<1>4. ASSUME NEW k \in S, ~(m <= k) PROVE FALSE
  <2>1. m \in Nat /\ k \in Nat /\ k < m
    BY <1>4
  <2>2. QED BY <1>2, <1>3, <2>1
<1>5. QED BY <1>4

(* What is true of 0, and of a number whenever it is true of the one       *)
(* before, is true up to any bound.                                        *)
LEMMA UpTo ==
  ASSUME NEW N \in Nat, NEW S, 0 \in S, \A n \in 0 .. N - 1 : n \in S => n + 1 \in S
  PROVE  0 .. N \subseteq S
<1> DEFINE T == (0 .. N) \ S
<1>1. SUFFICES ASSUME T # {} PROVE FALSE
  OBVIOUS
<1>2. PICK m \in T : \A k \in T : m <= k
  <2>1. T \subseteq Nat
    OBVIOUS
  <2> HIDE DEF T
  <2>2. QED BY <1>1, <2>1, LeastNat
<1>3. m # 0 /\ m - 1 \in 0 .. N - 1
  BY <1>2
<1>4. m - 1 \in S
  BY <1>2, <1>3
<1>5. (m - 1) + 1 = m
  BY <1>2
<1>6. QED BY <1>2, <1>3, <1>4, <1>5

(* What Min and Max of FiniteSetsExt choose. *)
LEMMA MinOf ==
  ASSUME NEW S, S \subseteq Nat, S # {}
  PROVE  Min(S) \in S /\ \A k \in S : Min(S) <= k
BY LeastNat DEF Min

LEMMA MaxOf ==
  ASSUME NEW N \in Nat, NEW S, S \subseteq 0 .. N, S # {}
  PROVE  Max(S) \in S /\ \A k \in S : k <= Max(S)
<1> DEFINE T == {k \in 0 .. N : N - k \in S}
<1>1. T \subseteq Nat /\ T # {}
  <2>1. PICK k \in S : TRUE
    OBVIOUS
  <2>2. N - k \in 0 .. N /\ N - (N - k) = k
    BY <2>1
  <2>3. N - k \in T
    BY <2>1, <2>2
  <2>4. QED BY <2>3
<1>2. PICK m \in T : \A k \in T : m <= k
  BY <1>1, LeastNat
<1>3. ASSUME NEW k \in S PROVE k <= N - m
  <2>1. k \in 0 .. N /\ N - k \in 0 .. N /\ N - (N - k) = k
    OBVIOUS
  <2>2. N - k \in T
    BY <2>1
  <2>3. m <= N - k
    BY <1>2, <2>2
  <2>4. QED BY <1>2, <2>1, <2>3
<1>4. \E j \in S : \A k \in S : k <= j
  BY <1>2, <1>3
<1>5. QED BY <1>4 DEF Max

-----------------------------------------------------------------------------
(***************************************************************************)
(* Planning.                                                               *)
(***************************************************************************)
Positions(p, r) == 1 .. Len(p.runs[r].positions)

(* The message at place k of run r. *)
At(b, p, r, k) == b[p.runs[r].positions[k]]

(* segmentStart separates the runs of the current segment from the others. *)
Segmented(p) ==
  /\ p.segmentStart \in 0 .. Len(p.runs)
  /\ \A r \in 1 .. Len(p.runs) :
       IF r > p.segmentStart THEN p.runs[r].segment = p.segment
                             ELSE p.runs[r].segment < p.segment

(* A run holds messages already considered, of its operation and index. *)
Uniform(b, p, n) ==
  \A r \in 1 .. Len(p.runs) : \A k \in Positions(p, r) :
    /\ p.runs[r].positions[k] \in 1 .. n
    /\ Classify(At(b, p, r, k)) = p.runs[r].op
    /\ TargetIndex(At(b, p, r, k)) = p.runs[r].index

(* Later runs are not of earlier segments. *)
Monotone(p) ==
  \A r, s \in 1 .. Len(p.runs) : r < s => p.runs[r].segment <= p.runs[s].segment

(* A segment has one run per operation and index. *)
OneRunEach(p) ==
  \A r, s \in 1 .. Len(p.runs) :
    (/\ p.runs[r].segment = p.runs[s].segment
     /\ p.runs[r].op = p.runs[s].op
     /\ p.runs[r].index = p.runs[s].index) => r = s

(* `keyed` remembers the operation of each document of the segment. *)
KeyedRecalls(b, p) ==
  Keyed => \A r \in Current(p) : \A k \in Positions(p, r) :
    p.keyed[<<p.runs[r].index, At(b, p, r, k).doc>>] = p.runs[r].op

Increasing(p) ==
  \A r \in 1 .. Len(p.runs) : \A k, l \in Positions(p, r) :
    k < l => p.runs[r].positions[k] < p.runs[r].positions[l]

(* No run is empty. *)
Filled(p) == \A r \in 1 .. Len(p.runs) : Len(p.runs[r].positions) > 0

SameKey(x, y) == TargetIndex(x) = TargetIndex(y) /\ (Keyed => x.doc = y.doc)

Ordered(b, p) ==
  \A r, s \in 1 .. Len(p.runs) : \A k \in Positions(p, r), l \in Positions(p, s) :
    /\ p.runs[r].positions[k] < p.runs[s].positions[l]
    /\ SameKey(At(b, p, r, k), At(b, p, s, l))
    => \/ r = s
       \/ r < s /\ p.runs[r].segment < p.runs[s].segment

(* The inductive invariant of the loop. *)
WellFormed(b, p, n) ==
  /\ p \in Plan
  /\ Segmented(p) /\ Monotone(p)
  /\ Uniform(b, p, n)
  /\ OneRunEach(p)
  /\ KeyedRecalls(b, p)
  /\ Increasing(p) /\ Filled(p)
  /\ Ordered(b, p)

(* m can be placed: its document is noted with its operation, and without  *)
(* a key no run of the segment writes its index the other way.             *)
Admits(p, m) ==
  IF Keyed THEN p.keyed[<<TargetIndex(m), m.doc>>] = Classify(m)
  ELSE \A r \in Current(p) :
         p.runs[r].index = TargetIndex(m) => p.runs[r].op = Classify(m)

-----------------------------------------------------------------------------
(* The operation and the index read from a message are always defined. *)
LEMMA MessageParts ==
  ASSUME NEW m \in Message, ~Unplaceable(m)
  PROVE  /\ Classify(m) \in Kinds
         /\ TargetIndex(m) \in Indexes
         /\ m.doc \in Docs
         /\ Other(Classify(m)) \in Kinds
         /\ Other(Classify(m)) # Classify(m)
         /\ \A op \in Kinds : op # Classify(m) => op = Other(Classify(m))
BY PlanningAssumption
   DEF Classify, TargetIndex, Message, Unplaceable, Kinds, Other, PlanningAssumption

(* The parts of a plan, and of each of its runs, have their types. *)
LEMMA PlanParts ==
  ASSUME NEW p \in Plan
  PROVE  /\ p.runs \in Seq(Run) /\ Len(p.runs) \in Nat
         /\ p.segment \in Nat /\ p.segmentStart \in Nat
         /\ p.keyed \in [Indexes \X Docs -> Kinds \cup {"none"}]
         /\ p.unkeyed \in SUBSET (Indexes \X Kinds)
         /\ p.rejected \in SUBSET Nat /\ p.stopped \in Nat
         /\ \A r \in 1 .. Len(p.runs) :
              /\ p.runs[r] \in Run
              /\ p.runs[r].op \in Kinds
              /\ p.runs[r].index \in Indexes
              /\ p.runs[r].segment \in Nat
              /\ p.runs[r].positions \in Seq(Nat)
              /\ Len(p.runs[r].positions) \in Nat
<1>1. p.runs \in Seq(Run)
  BY DEF Plan
<1>2. \A r \in 1 .. Len(p.runs) : p.runs[r] \in Run
  BY <1>1
<1>3. QED BY <1>1, <1>2 DEF Plan, Run

(* Opening a segment keeps the plan well formed, and nothing conflicts in  *)
(* the plan it returns.                                                    *)
LEMMA CutWellFormed ==
  ASSUME NEW b \in Seq(Message), NEW n \in Nat, NEW p, WellFormed(b, p, n),
         NEW m \in Message, ~Unplaceable(m)
  PROVE  WellFormed(b, Cut(p, m), n) /\ ~Conflicts(Cut(p, m), m)
<1> DEFINE q == Cut(p, m)
<1>1. CASE ~Conflicts(p, m)
  BY <1>1 DEF Cut
<1>2. CASE Conflicts(p, m)
  <2>1. /\ q = [p EXCEPT !.segment = p.segment + 1, !.segmentStart = Len(p.runs),
                         !.keyed = NothingKeyed, !.unkeyed = {}]
        /\ p \in Plan
    BY <1>2 DEF Cut, WellFormed
  <2>2. /\ q.runs = p.runs /\ q.segment = p.segment + 1
        /\ q.segmentStart = Len(p.runs)
        /\ q.keyed = NothingKeyed /\ q.unkeyed = {}
    BY <2>1 DEF Plan
  <2>3. q \in Plan
    <3>1. /\ p.segment + 1 \in Nat /\ Len(p.runs) \in Nat
          /\ NothingKeyed \in [Indexes \X Docs -> Kinds \cup {"none"}]
      BY <2>1 DEF Plan, NothingKeyed
    <3>2. QED BY <2>1, <3>1 DEF Plan
  <2>4. Current(q) = {}
    BY <2>2, <2>3 DEF Current, Plan
  <2>5. Segmented(q)
    <3>1. \A r \in 1 .. Len(p.runs) : p.runs[r].segment \in Nat
      BY <2>1, PlanParts
    <3>2. Len(p.runs) \in Nat /\ p.segment \in Nat
      BY <2>1, PlanParts
    <3>3. \A r \in 1 .. Len(p.runs) : p.runs[r].segment < p.segment + 1
      BY <3>1, <3>2 DEF WellFormed, Segmented
    <3>4. QED BY <2>2, <3>2, <3>3 DEF Segmented
  <2>6. /\ Uniform(b, q, n) /\ Increasing(q) /\ Ordered(b, q) /\ Monotone(q)
        /\ OneRunEach(q) /\ Filled(q)
    BY <2>2 DEF WellFormed, Uniform, Increasing, Ordered, Monotone, OneRunEach, Filled,
                Positions, At
  <2>7. KeyedRecalls(b, q)
    BY <2>4 DEF KeyedRecalls
  <2>8. ~Conflicts(q, m)
    <3>1. q.keyed[<<TargetIndex(m), m.doc>>] = "none"
      BY <2>2, MessageParts DEF NothingKeyed
    <3>2. QED BY <2>2, <2>4, <3>1, MessageParts DEF Conflicts, Kinds
  <2>9. QED BY <2>3, <2>5, <2>6, <2>7, <2>8 DEF WellFormed
<1>3. QED BY <1>1, <1>2

(* After the cut and the note the plan is ready to place m. *)
LEMMA ReadyWellFormed ==
  ASSUME NEW b \in Seq(Message), NEW n \in Nat, NEW p, WellFormed(b, p, n),
         NEW m \in Message, ~Unplaceable(m)
  PROVE  WellFormed(b, Ready(p, m), n) /\ Admits(Ready(p, m), m)
<1> DEFINE c == Cut(p, m)
           q == Ready(p, m)
<1>1. WellFormed(b, c, n) /\ ~Conflicts(c, m)
  BY CutWellFormed
<1>2. c \in Plan /\ q = Noted(c, m)
  BY <1>1 DEF WellFormed, Ready
<1>3. /\ q.runs = c.runs /\ q.segment = c.segment
      /\ q.segmentStart = c.segmentStart
      /\ q \in Plan
  <2>1. CASE Keyed
    <3>1. q = [c EXCEPT !.keyed = [c.keyed EXCEPT ![<<TargetIndex(m), m.doc>>] = Classify(m)]]
      BY <1>2, <2>1 DEF Noted
    <3>2. [c.keyed EXCEPT ![<<TargetIndex(m), m.doc>>] = Classify(m)]
            \in [Indexes \X Docs -> Kinds \cup {"none"}]
      BY <1>2, PlanParts, MessageParts
    <3>3. QED BY <1>2, <3>1, <3>2 DEF Plan
  <2>2. CASE ~Keyed
    <3>1. q = [c EXCEPT !.unkeyed = c.unkeyed \cup {<<TargetIndex(m), Classify(m)>>}]
      BY <1>2, <2>2 DEF Noted
    <3>2. c.unkeyed \cup {<<TargetIndex(m), Classify(m)>>} \in SUBSET (Indexes \X Kinds)
      BY <1>2, PlanParts, MessageParts
    <3>3. QED BY <1>2, <3>1, <3>2 DEF Plan
  <2>3. QED BY <2>1, <2>2
<1>4. Current(q) = Current(c)
  BY <1>3 DEF Current
<1>5. /\ Segmented(q) /\ Monotone(q) /\ Uniform(b, q, n) /\ OneRunEach(q)
      /\ Increasing(q) /\ Filled(q) /\ Ordered(b, q)
  <2>1. Segmented(q) /\ Monotone(q) /\ OneRunEach(q) /\ Filled(q)
    BY <1>1, <1>3 DEF WellFormed, Segmented, Monotone, OneRunEach, Filled
  <2>2. Uniform(b, q, n) /\ Increasing(q)
    BY <1>1, <1>3 DEF WellFormed, Uniform, Increasing, Positions, At
  <2>3. Ordered(b, q)
    BY <1>1, <1>3 DEF WellFormed, Ordered, Positions, At
  <2>4. QED BY <2>1, <2>2, <2>3
<1>6. CASE Keyed
  <2>1. q.keyed = [c.keyed EXCEPT ![<<TargetIndex(m), m.doc>>] = Classify(m)]
    BY <1>2, <1>6 DEF Noted, Plan
  <2>2. q.keyed[<<TargetIndex(m), m.doc>>] = Classify(m)
    BY <1>2, <2>1, MessageParts DEF Plan
  <2>3. c.keyed[<<TargetIndex(m), m.doc>>] # Other(Classify(m))
    BY <1>1, <1>6 DEF Conflicts
  <2>4. ASSUME NEW r \in Current(q), NEW k \in Positions(q, r)
        PROVE  q.keyed[<<q.runs[r].index, At(b, q, r, k).doc>>] = q.runs[r].op
    <3>1. /\ r \in Current(c) /\ k \in Positions(c, r)
          /\ q.runs[r] = c.runs[r] /\ At(b, q, r, k) = At(b, c, r, k)
      BY <1>3, <1>4 DEF Positions, At
    <3>2. c.keyed[<<c.runs[r].index, At(b, c, r, k).doc>>] = c.runs[r].op
      BY <1>1, <1>6, <3>1 DEF WellFormed, KeyedRecalls
    <3>3. r \in 1 .. Len(c.runs) /\ c.runs[r] \in Run
      BY <1>2, <3>1, PlanParts DEF Current
    <3>4. c.runs[r].op \in Kinds
      BY <1>2, <3>3, PlanParts
    <3>5. CASE <<c.runs[r].index, At(b, c, r, k).doc>> = <<TargetIndex(m), m.doc>>
      BY <3>1, <3>2, <3>4, <3>5, <2>2, <2>3, MessageParts
    <3>6. CASE <<c.runs[r].index, At(b, c, r, k).doc>> # <<TargetIndex(m), m.doc>>
      BY <3>1, <3>2, <3>6, <2>1, <1>2 DEF Plan
    <3>7. QED BY <3>5, <3>6
  <2>5. QED BY <1>3, <1>5, <1>6, <2>2, <2>4 DEF WellFormed, KeyedRecalls, Admits
<1>7. CASE ~Keyed
  <2>1. \A r \in Current(c) : c.runs[r].index = TargetIndex(m) => c.runs[r].op = Classify(m)
    BY <1>1, <1>7 DEF Conflicts
  <2>2. QED BY <1>3, <1>4, <1>5, <1>7, <2>1 DEF WellFormed, KeyedRecalls, Admits
<1>8. QED BY <1>6, <1>7

(* A message that joins the run of its operation and index. *)
LEMMA JoinedWellFormed ==
  ASSUME NEW b \in Seq(Message), NEW n \in Nat, n < Len(b),
         ~Unplaceable(b[n + 1]),
         NEW p, WellFormed(b, p, n), Admits(p, b[n + 1]),
         NEW r \in Fitting(p, b[n + 1])
  PROVE  WellFormed(b, Joined(p, r, n + 1), n + 1)
<1> DEFINE m == b[n + 1]
           q == Joined(p, r, n + 1)
           old == p.runs[r].positions
           run == [p.runs[r] EXCEPT !.positions = Append(old, n + 1)]
<1>1. /\ p \in Plan /\ m \in Message
      /\ r \in Current(p) /\ r \in 1 .. Len(p.runs) /\ r > p.segmentStart
      /\ p.runs[r].op = Classify(m) /\ p.runs[r].index = TargetIndex(m)
  BY PlanParts DEF WellFormed, Fitting, Current
<1>2. p.runs[r] \in Run /\ old \in Seq(Nat) /\ Len(old) \in Nat
  BY <1>1, PlanParts
<1>3. /\ run \in Run
      /\ run.positions = Append(old, n + 1)
      /\ run.op = p.runs[r].op /\ run.index = p.runs[r].index
      /\ run.segment = p.runs[r].segment
  <2>1. Append(old, n + 1) \in Seq(Nat)
    BY <1>2
  <2>2. QED BY <1>2, <2>1 DEF Run
<1>4. /\ Len(old) \in Nat
      /\ Len(Append(old, n + 1)) = Len(old) + 1
      /\ \A k \in 1 .. Len(old) : Append(old, n + 1)[k] = old[k]
      /\ Append(old, n + 1)[Len(old) + 1] = n + 1
  <2>1. n + 1 \in Nat /\ old \in Seq(Nat) /\ Len(old) \in Nat
    BY <1>2
  <2>2. QED
    <3> HIDE DEF old
    <3> QED BY <2>1, AppendProperties
<1>5. /\ q.segment = p.segment /\ q.segmentStart = p.segmentStart
      /\ q.keyed = p.keyed
      /\ q.runs = [p.runs EXCEPT ![r] = run]
      /\ q \in Plan
  <2>1. q = [p EXCEPT !.runs = [p.runs EXCEPT ![r] = run]]
    BY DEF Joined
  <2>2. [p.runs EXCEPT ![r] = run] \in Seq(Run)
    BY <1>1, <1>3, PlanParts
  <2>3. QED BY <1>1, <2>1, <2>2 DEF Plan
<1> HIDE DEF q, run
<1>6. /\ Len(q.runs) = Len(p.runs) /\ Current(q) = Current(p)
      /\ q.runs[r] = run
      /\ \A s \in 1 .. Len(p.runs) :
           /\ s # r => q.runs[s] = p.runs[s]
           /\ q.runs[s].op = p.runs[s].op
           /\ q.runs[s].index = p.runs[s].index
           /\ q.runs[s].segment = p.runs[s].segment
  <2>1. p.runs \in Seq(Run) /\ r \in 1 .. Len(p.runs)
    BY <1>1, PlanParts
  <2>2. Len(q.runs) = Len(p.runs) /\ q.runs[r] = run
    BY <1>3, <1>5, <2>1, ExceptSeq
  <2>3. \A s \in 1 .. Len(p.runs) : s # r => q.runs[s] = p.runs[s]
    BY <1>3, <1>5, <2>1, ExceptSeq
  <2>4. Current(q) = Current(p)
    BY <1>5, <2>2 DEF Current
  <2>5. QED BY <1>3, <2>2, <2>3, <2>4
<1>7. Segmented(q) /\ Monotone(q) /\ OneRunEach(q)
  <2>1. Segmented(q)
    BY <1>5, <1>6 DEF WellFormed, Segmented
  <2>2. Monotone(q)
    BY <1>6 DEF WellFormed, Monotone
  <2>3. QED BY <1>6, <2>1, <2>2 DEF WellFormed, OneRunEach
\* Every place of q is a place of p, or the new one at the end of run r.
<1>8. \A s \in 1 .. Len(p.runs) : \A k \in Positions(q, s) :
        \/ /\ k \in Positions(p, s)
           /\ q.runs[s].positions[k] = p.runs[s].positions[k]
           /\ At(b, q, s, k) = At(b, p, s, k)
        \/ /\ s = r /\ k = Len(old) + 1
           /\ q.runs[s].positions[k] = n + 1 /\ At(b, q, s, k) = m
  <2>1. SUFFICES ASSUME NEW s \in 1 .. Len(p.runs), NEW k \in Positions(q, s)
                 PROVE  \/ /\ k \in Positions(p, s)
                           /\ q.runs[s].positions[k] = p.runs[s].positions[k]
                        \/ /\ s = r /\ k = Len(old) + 1
                           /\ q.runs[s].positions[k] = n + 1
    BY DEF At
  <2>2. CASE s # r
    BY <1>6, <2>1, <2>2 DEF Positions
  <2>3. CASE s = r
    <3>1. q.runs[s].positions = Append(old, n + 1)
      BY <1>3, <1>6, <2>3
    <3>2. k \in 1 .. Len(old) + 1
      BY <1>4, <2>1, <3>1 DEF Positions
    <3>3. k \in 1 .. Len(old) \/ k = Len(old) + 1
      <4>1. \A x \in Nat : 1 .. x + 1 = (1 .. x) \cup {x + 1}
        OBVIOUS
      <4>2. Len(old) \in Nat
        BY <1>4
      <4> HIDE DEF old
      <4>3. QED BY <3>2, <4>1, <4>2
    <3>4. CASE k = Len(old) + 1
      BY <1>4, <2>3, <3>1, <3>4
    <3>5. CASE k \in 1 .. Len(old)
      BY <1>4, <2>3, <3>1, <3>5 DEF Positions
    <3>6. QED BY <3>3, <3>4, <3>5
  <2>4. QED BY <2>2, <2>3
<1>9. \A s \in 1 .. Len(p.runs) : \A k \in Positions(p, s) :
        /\ p.runs[s].positions[k] \in 1 .. n
        /\ Classify(At(b, p, s, k)) = p.runs[s].op
        /\ TargetIndex(At(b, p, s, k)) = p.runs[s].index
  BY DEF WellFormed, Uniform
<1>10. Uniform(b, q, n + 1)
  <2>1. SUFFICES ASSUME NEW s \in 1 .. Len(p.runs), NEW k \in Positions(q, s)
                 PROVE  /\ q.runs[s].positions[k] \in 1 .. n + 1
                        /\ Classify(At(b, q, s, k)) = p.runs[s].op
                        /\ TargetIndex(At(b, q, s, k)) = p.runs[s].index
    BY <1>6 DEF Uniform
  <2>2. CASE /\ k \in Positions(p, s)
             /\ q.runs[s].positions[k] = p.runs[s].positions[k]
             /\ At(b, q, s, k) = At(b, p, s, k)
    BY <1>9, <2>2
  <2>3. CASE s = r /\ q.runs[s].positions[k] = n + 1 /\ At(b, q, s, k) = m
    BY <1>1, <2>3
  <2>4. QED BY <1>8, <2>2, <2>3
<1>11. KeyedRecalls(b, q)
  <2>1. SUFFICES ASSUME Keyed, NEW s \in Current(q), NEW k \in Positions(q, s)
                 PROVE  q.keyed[<<q.runs[s].index, At(b, q, s, k).doc>>] = q.runs[s].op
    BY DEF KeyedRecalls
  <2>2. s \in Current(p) /\ s \in 1 .. Len(p.runs)
    <3>1. s \in Current(p)
      BY <1>6, <2>1
    <3>2. QED BY <1>1, <3>1, PlanParts DEF Current
  <2>3. CASE k \in Positions(p, s) /\ At(b, q, s, k) = At(b, p, s, k)
    BY <1>5, <1>6, <2>1, <2>2, <2>3 DEF WellFormed, KeyedRecalls
  <2>4. CASE s = r /\ At(b, q, s, k) = m
    <3>1. p.keyed[<<TargetIndex(m), m.doc>>] = Classify(m)
      BY <2>1 DEF Admits
    <3>2. q.runs[s].index = TargetIndex(m) /\ q.runs[s].op = Classify(m)
      BY <1>1, <1>6, <2>4
    <3>3. QED BY <1>5, <2>4, <3>1, <3>2
  <2>5. QED BY <1>8, <2>2, <2>3, <2>4
<1>12. Increasing(q)
  <2>1. \A s \in 1 .. Len(p.runs) : \A k, l \in Positions(p, s) :
          k < l => p.runs[s].positions[k] < p.runs[s].positions[l]
    BY DEF WellFormed, Increasing
  <2>2. \A s \in 1 .. Len(p.runs) : \A k \in Positions(q, s) : k \in Nat
    BY <1>6 DEF Positions
  <2>3. \A k \in Positions(p, r) : k < Len(old) + 1
    BY <1>4 DEF Positions
  <2>4. SUFFICES ASSUME NEW s \in 1 .. Len(p.runs), NEW k \in Positions(q, s),
                        NEW l \in Positions(q, s), k < l
                 PROVE  q.runs[s].positions[k] < q.runs[s].positions[l]
    BY <1>6 DEF Increasing
  <2>5. CASE l \in Positions(p, s) /\ q.runs[s].positions[l] = p.runs[s].positions[l]
    <3>1. k \in Positions(p, s) /\ q.runs[s].positions[k] = p.runs[s].positions[k]
      <4>1. ~(s = r /\ k = Len(old) + 1)
        BY <1>4, <2>3, <2>4, <2>5, <2>2
      <4>2. QED BY <1>8, <2>4, <4>1
    <3>2. QED BY <2>1, <2>4, <2>5, <3>1
  <2>6. CASE s = r /\ l = Len(old) + 1 /\ q.runs[s].positions[l] = n + 1
    <3>1. k \in Positions(p, s) /\ q.runs[s].positions[k] = p.runs[s].positions[k]
      <4>1. k # Len(old) + 1
        BY <1>4, <2>2, <2>4, <2>6
      <4>2. QED BY <1>8, <2>4, <4>1
    <3>2. p.runs[s].positions[k] \in 1 .. n
      BY <1>9, <3>1
    <3>3. QED BY <2>6, <3>1, <3>2
  <2>7. QED BY <1>8, <2>4, <2>5, <2>6
<1>13. Ordered(b, q)
  <2>1. SUFFICES ASSUME NEW s \in 1 .. Len(p.runs), NEW t \in 1 .. Len(p.runs),
                        NEW k \in Positions(q, s), NEW l \in Positions(q, t),
                        q.runs[s].positions[k] < q.runs[t].positions[l],
                        SameKey(At(b, q, s, k), At(b, q, t, l)), s # t
                 PROVE  s < t /\ q.runs[s].segment < q.runs[t].segment
    BY <1>6 DEF Ordered
  <2>2. \/ /\ k \in Positions(p, s)
           /\ q.runs[s].positions[k] = p.runs[s].positions[k]
           /\ At(b, q, s, k) = At(b, p, s, k)
        \/ s = r /\ q.runs[s].positions[k] = n + 1
    BY <1>8
  <2>3. q.runs[t].positions[l] \in 1 .. n + 1
    BY <1>6, <1>10 DEF Uniform
  <2>4. /\ k \in Positions(p, s)
        /\ q.runs[s].positions[k] = p.runs[s].positions[k]
        /\ At(b, q, s, k) = At(b, p, s, k)
    BY <2>1, <2>2, <2>3
  <2>5. CASE /\ l \in Positions(p, t)
             /\ q.runs[t].positions[l] = p.runs[t].positions[l]
             /\ At(b, q, t, l) = At(b, p, t, l)
    BY <1>6, <2>1, <2>4, <2>5 DEF WellFormed, Ordered
  <2>6. CASE t = r /\ At(b, q, t, l) = m
    \* The earlier write is in an earlier segment: in this one it would be in r.
    <3>1. /\ SameKey(At(b, p, s, k), m)
          /\ p.runs[s].index = TargetIndex(m)
      BY <1>9, <2>1, <2>4, <2>6 DEF SameKey
    <3>2. s \notin Current(p)
      <4>1. SUFFICES ASSUME s \in Current(p) PROVE FALSE
        OBVIOUS
      <4>2. p.runs[s].op = Classify(m)
        <5>1. CASE Keyed
          <6>1. p.keyed[<<p.runs[s].index, At(b, p, s, k).doc>>] = p.runs[s].op
            BY <2>4, <4>1, <5>1 DEF WellFormed, KeyedRecalls
          <6>2. QED BY <3>1, <5>1, <6>1 DEF Admits, SameKey
        <5>2. CASE ~Keyed
          BY <3>1, <4>1, <5>2 DEF Admits
        <5>3. QED BY <5>1, <5>2
      <4>3. p.runs[s].segment = p.runs[r].segment
        BY <1>1, <4>1, PlanParts DEF WellFormed, Segmented, Current
      <4>4. QED BY <1>1, <2>1, <2>6, <3>1, <4>2, <4>3 DEF WellFormed, OneRunEach
    <3>3. s <= p.segmentStart
      BY <1>1, <3>2, PlanParts DEF Current
    <3>4. p.runs[s].segment < p.segment /\ p.runs[r].segment = p.segment
      BY <1>1, <3>3, PlanParts DEF WellFormed, Segmented
    <3>5. QED BY <1>1, <1>6, <2>6, <3>3, <3>4, PlanParts
  <2>7. QED BY <1>8, <2>5, <2>6
<1>14. Filled(q)
  <2>1. Len(q.runs[r].positions) > 0
    BY <1>3, <1>4, <1>6
  <2>2. \A s \in 1 .. Len(p.runs) : s # r => Len(q.runs[s].positions) > 0
    BY <1>6 DEF WellFormed, Filled
  <2>3. QED BY <1>6, <2>1, <2>2 DEF Filled
<1>15. QED BY <1>5, <1>7, <1>10, <1>11, <1>12, <1>13, <1>14 DEF WellFormed, q

(* A message that opens the run of its operation and index. *)
LEMMA OpenedWellFormed ==
  ASSUME NEW b \in Seq(Message), NEW n \in Nat, n < Len(b),
         ~Unplaceable(b[n + 1]),
         NEW p, WellFormed(b, p, n), Admits(p, b[n + 1]),
         Fitting(p, b[n + 1]) = {}
  PROVE  WellFormed(b, Opened(p, b[n + 1], n + 1), n + 1)
<1> DEFINE m == b[n + 1]
           q == Opened(p, m, n + 1)
           last == Len(p.runs) + 1
           run == [op |-> Classify(m), index |-> TargetIndex(m),
                   segment |-> p.segment, positions |-> <<n + 1>>]
<1>1. /\ p \in Plan /\ m \in Message
      /\ p.runs \in Seq(Run) /\ Len(p.runs) \in Nat
      /\ p.segmentStart \in 0 .. Len(p.runs)
  BY PlanParts DEF WellFormed, Segmented
<1>2. run \in Run
  <2>1. n + 1 \in Nat /\ p.segment \in Nat
    BY <1>1, PlanParts
  <2>2. QED BY <1>1, <2>1, MessageParts DEF Run
<1>3. /\ q.segment = p.segment /\ q.segmentStart = p.segmentStart
      /\ q.keyed = p.keyed /\ q.runs = Append(p.runs, run)
      /\ q \in Plan
  <2>1. q = [p EXCEPT !.runs = Append(p.runs, run)]
    BY DEF Opened
  <2>2. Append(p.runs, run) \in Seq(Run)
    BY <1>1, <1>2, AppendProperties
  <2>3. QED BY <1>1, <2>1, <2>2 DEF Plan
<1>4. /\ run.positions = <<n + 1>> /\ run.segment = p.segment
       /\ run.op = Classify(m) /\ run.index = TargetIndex(m)
  OBVIOUS
<1>5. Admits(p, m) /\ Fitting(p, m) = {}
  OBVIOUS
<1> HIDE DEF q, run, m
<1>6. /\ Len(q.runs) = last /\ q.runs[last] = run
      /\ \A s \in 1 .. Len(p.runs) : q.runs[s] = p.runs[s]
  BY <1>1, <1>2, <1>3, AppendProperties
<1>7. /\ \A s \in 1 .. last : s \in 1 .. Len(p.runs) \/ s = last
      /\ \A s \in Current(q) : s \in Current(p) \/ s = last
      /\ Current(p) \subseteq 1 .. Len(p.runs)
      /\ last \notin 1 .. Len(p.runs)
  BY <1>1, <1>3, <1>6 DEF Current
<1>8. /\ Positions(q, last) = {1} /\ q.runs[last].positions[1] = n + 1
      /\ At(b, q, last, 1) = m
      /\ \A s \in 1 .. Len(p.runs) : \A k \in Positions(q, s) :
           /\ k \in Positions(p, s)
           /\ q.runs[s].positions[k] = p.runs[s].positions[k]
           /\ At(b, q, s, k) = At(b, p, s, k)
  <2>1. Len(<<n + 1>>) = 1 /\ <<n + 1>>[1] = n + 1 /\ 1 .. 1 = {1}
    OBVIOUS
  <2>2. Positions(q, last) = {1} /\ q.runs[last].positions[1] = n + 1
    BY <1>6, <1>4, <2>1 DEF Positions
  <2>3. At(b, q, last, 1) = m
    BY <2>2 DEF At, m
  <2>4. QED BY <1>6, <2>2, <2>3 DEF Positions, At
<1>9. \A s \in 1 .. Len(p.runs) : \A k \in Positions(p, s) :
        /\ p.runs[s].positions[k] \in 1 .. n
        /\ Classify(At(b, p, s, k)) = p.runs[s].op
        /\ TargetIndex(At(b, p, s, k)) = p.runs[s].index
  BY DEF WellFormed, Uniform
<1>10. Segmented(q)
  <2>1. \A s \in 1 .. Len(p.runs) :
          IF s > p.segmentStart THEN p.runs[s].segment = p.segment
                                ELSE p.runs[s].segment < p.segment
    BY DEF WellFormed, Segmented
  <2>2. SUFFICES ASSUME NEW s \in 1 .. last
                 PROVE  IF s > p.segmentStart THEN q.runs[s].segment = p.segment
                                              ELSE q.runs[s].segment < p.segment
    BY <1>1, <1>3, <1>6 DEF Segmented
  <2>3. CASE s = last
    BY <1>1, <1>6, <1>4, <2>3
  <2>4. CASE s \in 1 .. Len(p.runs)
    BY <1>6, <2>1, <2>4
  <2>5. QED BY <1>7, <2>3, <2>4
<1>11. Uniform(b, q, n + 1)
  <2>1. \A k \in 1 .. n : k \in 1 .. n + 1
    OBVIOUS
  <2>2. n + 1 \in 1 .. n + 1
    OBVIOUS
  <2>3. SUFFICES ASSUME NEW s \in 1 .. last, NEW k \in Positions(q, s)
                 PROVE  /\ q.runs[s].positions[k] \in 1 .. n + 1
                        /\ Classify(At(b, q, s, k)) = q.runs[s].op
                        /\ TargetIndex(At(b, q, s, k)) = q.runs[s].index
    BY <1>6 DEF Uniform
  <2>4. CASE s = last
    BY <1>6, <1>8, <1>4, <2>2, <2>3, <2>4
  <2>5. CASE s \in 1 .. Len(p.runs)
    <3>1. /\ k \in Positions(p, s)
          /\ q.runs[s].positions[k] = p.runs[s].positions[k]
          /\ At(b, q, s, k) = At(b, p, s, k)
      BY <1>8, <2>3, <2>5
    <3>2. q.runs[s] = p.runs[s]
      BY <1>6, <2>5
    <3>3. QED BY <1>9, <2>1, <2>5, <3>1, <3>2
  <2>6. QED BY <1>7, <2>4, <2>5
<1>12. OneRunEach(q) /\ Monotone(q)
  <2>1. ASSUME NEW s \in 1 .. Len(p.runs)
        PROVE  /\ p.runs[s].segment \in Nat /\ p.runs[s].segment <= p.segment
               /\ p.runs[s].segment = p.segment => s \in Current(p)
    <3>1. p.runs[s].segment \in Nat /\ p.segment \in Nat
      BY <1>1, PlanParts
    <3>2. QED BY <1>1, <3>1 DEF WellFormed, Segmented, Current
  <2>2. ASSUME NEW s \in 1 .. Len(p.runs), p.runs[s].segment = p.segment
        PROVE  ~(p.runs[s].op = Classify(m) /\ p.runs[s].index = TargetIndex(m))
    BY <1>5, <2>1, <2>2 DEF Fitting
  <2>3. OneRunEach(q)
    <3>1. SUFFICES ASSUME NEW s \in 1 .. last, NEW t \in 1 .. last,
                          q.runs[s].segment = q.runs[t].segment,
                          q.runs[s].op = q.runs[t].op, q.runs[s].index = q.runs[t].index
                   PROVE  s = t
      BY <1>6 DEF OneRunEach
    <3>2. CASE s \in 1 .. Len(p.runs) /\ t \in 1 .. Len(p.runs)
      BY <1>6, <3>1, <3>2 DEF WellFormed, OneRunEach
    <3>3. CASE s = last
      BY <1>4, <1>6, <1>7, <2>2, <3>1, <3>3
    <3>4. CASE t = last
      BY <1>4, <1>6, <1>7, <2>2, <3>1, <3>4
    <3>5. QED BY <1>7, <3>2, <3>3, <3>4
  <2>4. Monotone(q)
    <3>1. SUFFICES ASSUME NEW s \in 1 .. last, NEW t \in 1 .. last, s < t
                   PROVE  q.runs[s].segment <= q.runs[t].segment
      BY <1>6 DEF Monotone
    <3>2. s \in 1 .. Len(p.runs)
      BY <1>1, <3>1
    <3>3. CASE t = last
      BY <1>4, <1>6, <2>1, <3>2, <3>3
    <3>4. CASE t \in 1 .. Len(p.runs)
      BY <1>6, <3>1, <3>2, <3>4 DEF WellFormed, Monotone
    <3>5. QED BY <1>7, <3>3, <3>4
  <2>5. QED BY <2>3, <2>4
<1>13. KeyedRecalls(b, q)
  <2>1. SUFFICES ASSUME Keyed, NEW s \in Current(q), NEW k \in Positions(q, s)
                 PROVE  q.keyed[<<q.runs[s].index, At(b, q, s, k).doc>>] = q.runs[s].op
    BY DEF KeyedRecalls
  <2>2. CASE s = last
    <3>1. p.keyed[<<TargetIndex(m), m.doc>>] = Classify(m)
      BY <1>5, <2>1 DEF Admits
    <3>2. At(b, q, s, k) = m
      BY <1>8, <2>1, <2>2
    <3>3. QED BY <1>3, <1>6, <1>4, <2>2, <3>1, <3>2
  <2>3. CASE s \in Current(p)
    <3>1. /\ s \in 1 .. Len(p.runs) /\ k \in Positions(p, s)
          /\ At(b, q, s, k) = At(b, p, s, k) /\ q.runs[s] = p.runs[s]
      BY <1>6, <1>7, <1>8, <2>1, <2>3
    <3>2. QED BY <1>3, <2>1, <2>3, <3>1 DEF WellFormed, KeyedRecalls
  <2>4. QED BY <1>7, <2>1, <2>2, <2>3
<1>14. Increasing(q)
  <2>1. SUFFICES ASSUME NEW s \in 1 .. last, NEW k \in Positions(q, s),
                        NEW l \in Positions(q, s), k < l
                 PROVE  q.runs[s].positions[k] < q.runs[s].positions[l]
    BY <1>6 DEF Increasing
  <2>2. CASE s = last
    BY <1>8, <2>1, <2>2
  <2>3. CASE s \in 1 .. Len(p.runs)
    BY <1>8, <2>1, <2>3 DEF WellFormed, Increasing
  <2>4. QED BY <1>7, <2>2, <2>3
<1>15. Ordered(b, q)
  <2>1. SUFFICES ASSUME NEW s \in 1 .. last, NEW t \in 1 .. last,
                        NEW k \in Positions(q, s), NEW l \in Positions(q, t),
                        q.runs[s].positions[k] < q.runs[t].positions[l],
                        SameKey(At(b, q, s, k), At(b, q, t, l)), s # t
                 PROVE  s < t /\ q.runs[s].segment < q.runs[t].segment
    BY <1>6 DEF Ordered
  <2>2. s \in 1 .. Len(p.runs)
    <3>1. q.runs[t].positions[l] \in 1 .. n + 1
      BY <1>6, <1>11 DEF Uniform
    <3>2. CASE s = last
      <4>1. q.runs[s].positions[k] = n + 1
        BY <1>8, <2>1, <3>2
      <4>2. QED BY <2>1, <3>1, <4>1
    <3>3. QED BY <1>7, <3>2
  <2>3. /\ k \in Positions(p, s)
        /\ q.runs[s].positions[k] = p.runs[s].positions[k]
        /\ At(b, q, s, k) = At(b, p, s, k) /\ q.runs[s] = p.runs[s]
    BY <1>6, <1>8, <2>1, <2>2
  <2>4. CASE t \in 1 .. Len(p.runs)
    <3>1. /\ l \in Positions(p, t) /\ q.runs[t] = p.runs[t]
          /\ q.runs[t].positions[l] = p.runs[t].positions[l]
          /\ At(b, q, t, l) = At(b, p, t, l)
      BY <1>6, <1>8, <2>1, <2>4
    <3>2. QED BY <2>1, <2>2, <2>3, <2>4, <3>1 DEF WellFormed, Ordered
  <2>5. CASE t = last
    \* The earlier write is in an earlier segment: in this one it would be in a
    \* run that fits.
    <3>1. /\ SameKey(At(b, p, s, k), m)
          /\ p.runs[s].index = TargetIndex(m)
      BY <1>8, <1>9, <2>1, <2>2, <2>3, <2>5 DEF SameKey
    <3>2. s \notin Current(p)
      <4>1. SUFFICES ASSUME s \in Current(p) PROVE FALSE
        OBVIOUS
      <4>2. CASE Keyed
        <5>1. p.keyed[<<p.runs[s].index, At(b, p, s, k).doc>>] = p.runs[s].op
          BY <2>3, <4>1, <4>2 DEF WellFormed, KeyedRecalls
        <5>2. p.runs[s].op = Classify(m)
          BY <1>5, <3>1, <4>2, <5>1 DEF Admits, SameKey
        <5>3. QED BY <1>5, <3>1, <4>1, <5>2 DEF Fitting
      <4>3. CASE ~Keyed
        BY <1>5, <3>1, <4>1, <4>3 DEF Admits, Fitting
      <4>4. QED BY <4>2, <4>3
    <3>3. s <= p.segmentStart
      BY <1>1, <2>2, <3>2 DEF Current
    <3>4. p.runs[s].segment < p.segment
      BY <1>1, <2>2, <3>3 DEF WellFormed, Segmented
    <3>5. s < t
      BY <1>1, <1>4, <2>2, <2>5
    <3>6. q.runs[s] = p.runs[s] /\ q.runs[t].segment = p.segment
      BY <1>4, <1>6, <2>3, <2>5
    <3>7. QED BY <3>4, <3>5, <3>6
  <2>6. QED BY <1>7, <2>4, <2>5
<1>16. Filled(q)
  <2>1. Len(q.runs[last].positions) > 0
    <3>1. q.runs[last].positions = <<n + 1>>
      BY <1>4, <1>6
    <3>2. QED BY <3>1
  <2>2. \A s \in 1 .. Len(p.runs) : Len(q.runs[s].positions) > 0
    BY <1>6 DEF WellFormed, Filled
  <2>3. QED BY <1>6, <1>7, <2>1, <2>2 DEF Filled
<1>17. QED BY <1>3, <1>10, <1>11, <1>12, <1>13, <1>14, <1>15, <1>16 DEF WellFormed, q, m

(* A message that is set aside, or that ends the plan, changes no run. *)
LEMMA AsideWellFormed ==
  ASSUME NEW b \in Seq(Message), NEW n \in Nat, NEW p, WellFormed(b, p, n)
  PROVE  /\ WellFormed(b, Stopped(p, n + 1), n + 1)
         /\ WellFormed(b, Rejected(p, n + 1), n + 1)
<1>1. SUFFICES ASSUME NEW q \in Plan, q.runs = p.runs, q.segment = p.segment,
                      q.segmentStart = p.segmentStart, q.keyed = p.keyed
               PROVE  WellFormed(b, q, n + 1)
  <2>1. p \in Plan /\ n + 1 \in Nat
    BY DEF WellFormed
  <2>2. /\ Stopped(p, n + 1) \in Plan
        /\ Stopped(p, n + 1).runs = p.runs
        /\ Stopped(p, n + 1).segment = p.segment
        /\ Stopped(p, n + 1).segmentStart = p.segmentStart
        /\ Stopped(p, n + 1).keyed = p.keyed
    BY <2>1 DEF Stopped, Plan
  <2>3. /\ Rejected(p, n + 1) \in Plan
        /\ Rejected(p, n + 1).runs = p.runs
        /\ Rejected(p, n + 1).segment = p.segment
        /\ Rejected(p, n + 1).segmentStart = p.segmentStart
        /\ Rejected(p, n + 1).keyed = p.keyed
    <3>1. p.rejected \cup {n + 1} \in SUBSET Nat
      BY <2>1, PlanParts
    <3>2. QED BY <2>1, <3>1 DEF Rejected, Plan
  <2>4. QED BY <1>1, <2>2, <2>3
<1>2. Current(q) = Current(p) /\ \A r : Positions(q, r) = Positions(p, r)
  BY <1>1 DEF Current, Positions
<1>3. \A r, k : At(b, q, r, k) = At(b, p, r, k)
  BY <1>1 DEF At
<1>4. Segmented(q) /\ Monotone(q) /\ OneRunEach(q)
  BY <1>1 DEF WellFormed, Segmented, Monotone, OneRunEach
<1>5. Uniform(b, q, n + 1)
  <2>1. \A k \in 1 .. n : k \in 1 .. n + 1
    OBVIOUS
  <2>2. QED BY <1>1, <1>2, <1>3, <2>1 DEF WellFormed, Uniform
<1>6. KeyedRecalls(b, q) /\ Increasing(q) /\ Filled(q) /\ Ordered(b, q)
  BY <1>1, <1>2, <1>3 DEF WellFormed, KeyedRecalls, Increasing, Filled, Ordered
<1>7. QED BY <1>1, <1>4, <1>5, <1>6 DEF WellFormed

-----------------------------------------------------------------------------
Has(p, r, i) == \E k \in Positions(p, r) : p.runs[r].positions[k] = i

Accounted(p, n) ==
  /\ \A r, s \in 1 .. Len(p.runs) : \A i \in Nat :
       Has(p, r, i) /\ Has(p, s, i) => r = s
  /\ \A r \in 1 .. Len(p.runs) : \A i \in Nat :
       Has(p, r, i) => i \in 1 .. n /\ i \notin p.rejected /\ i # p.stopped
  /\ p.rejected \subseteq 1 .. n
  /\ p.stopped # 0 => p.stopped = n /\ n \notin p.rejected
  /\ \A i \in 1 .. n :
       i \in p.rejected \/ i = p.stopped \/ \E r \in 1 .. Len(p.runs) : Has(p, r, i)

(* Making a plan ready for a message moves no message. *)
LEMMA ReadyKeeps ==
  ASSUME NEW p \in Plan, NEW m
  PROVE  /\ Ready(p, m).runs = p.runs
         /\ Ready(p, m).rejected = p.rejected
         /\ Ready(p, m).stopped = p.stopped
<1> DEFINE c == Cut(p, m)
<1>1. /\ c.runs = p.runs /\ c.rejected = p.rejected /\ c.stopped = p.stopped
  <2>1. CASE Conflicts(p, m)
    <3>1. c = [p EXCEPT !.segment = @ + 1, !.segmentStart = Len(p.runs),
                        !.keyed = NothingKeyed, !.unkeyed = {}]
      BY <2>1 DEF Cut
    <3>2. QED BY <3>1 DEF Plan
  <2>2. CASE ~Conflicts(p, m)
    BY <2>2 DEF Cut, Plan
  <2>3. QED BY <2>1, <2>2
<1> HIDE DEF c
<1>2. Ready(p, m) = Noted(c, m)
  BY DEF Ready, c
<1>3. Noted(c, m).runs = c.runs /\ Noted(c, m).rejected = c.rejected
      /\ Noted(c, m).stopped = c.stopped
  BY DEF Noted
<1>4. QED BY <1>1, <1>2, <1>3

(* Joining a run adds one message to it and moves no other. *)
LEMMA JoinedHas ==
  ASSUME NEW p \in Plan, NEW r \in 1 .. Len(p.runs), NEW i \in Nat
  PROVE  /\ Len(Joined(p, r, i).runs) = Len(p.runs)
         /\ Joined(p, r, i).rejected = p.rejected
         /\ Joined(p, r, i).stopped = p.stopped
         /\ \A s \in 1 .. Len(p.runs) : \A j \in Nat :
              Has(Joined(p, r, i), s, j) <=> Has(p, s, j) \/ (s = r /\ j = i)
<1> DEFINE q == Joined(p, r, i)
           old == p.runs[r].positions
<1>1. old \in Seq(Nat) /\ p.runs \in Seq(Run)
  BY PlanParts
<1>2. /\ q.rejected = p.rejected /\ q.stopped = p.stopped
      /\ Len(q.runs) = Len(p.runs)
      /\ q.runs[r].positions = Append(old, i)
      /\ \A s \in 1 .. Len(p.runs) : s # r => q.runs[s] = p.runs[s]
  <2>1. q = [p EXCEPT !.runs = [p.runs EXCEPT ![r] =
                [p.runs[r] EXCEPT !.positions = Append(old, i)]]]
    BY DEF Joined
  <2>2. [p.runs[r] EXCEPT !.positions = Append(old, i)].positions = Append(old, i)
    <3>1. p.runs[r] \in Run
      BY PlanParts
    <3>2. QED BY <3>1 DEF Run
  <2>3. [p.runs[r] EXCEPT !.positions = Append(old, i)] \in Run
    <3>1. p.runs[r] \in Run /\ Append(old, i) \in Seq(Nat)
      BY <1>1, PlanParts, AppendProperties
    <3>2. QED BY <3>1 DEF Run
  <2>4. q.runs = [p.runs EXCEPT ![r] = [p.runs[r] EXCEPT !.positions = Append(old, i)]]
    BY <2>1 DEF Plan
  <2>5. q.rejected = p.rejected /\ q.stopped = p.stopped
    BY <2>1 DEF Plan
  <2> HIDE DEF q
  <2>6. QED BY <1>1, <2>2, <2>3, <2>4, <2>5, ExceptSeq
<1> HIDE DEF q
<1>3. /\ Len(old) \in Nat
      /\ Len(Append(old, i)) = Len(old) + 1
      /\ \A k \in 1 .. Len(old) : Append(old, i)[k] = old[k]
      /\ Append(old, i)[Len(old) + 1] = i
  BY <1>1, AppendProperties
<1>4. ASSUME NEW s \in 1 .. Len(p.runs), NEW j \in Nat
      PROVE  Has(q, s, j) <=> Has(p, s, j) \/ (s = r /\ j = i)
  <2>1. CASE s # r
    BY <1>2, <2>1 DEF Has, Positions
  <2>2. CASE s = r
    <3>1. Positions(q, r) = 1 .. Len(old) + 1 /\ Positions(p, r) = 1 .. Len(old)
      BY <1>2, <1>3 DEF Positions
    <3>2. \A x \in Nat : 1 .. x + 1 = (1 .. x) \cup {x + 1}
      OBVIOUS
    <3>3. Positions(q, r) = Positions(p, r) \cup {Len(old) + 1}
      BY <1>3, <3>1, <3>2
    <3>4. QED BY <1>2, <1>3, <2>2, <3>1, <3>3 DEF Has
  <2>3. QED BY <2>1, <2>2
<1>5. QED BY <1>2, <1>4 DEF q

(* Opening a run adds one message, alone in it, and moves no other. *)
LEMMA OpenedHas ==
  ASSUME NEW p \in Plan, NEW m \in Message, ~Unplaceable(m), NEW i \in Nat
  PROVE  /\ Len(Opened(p, m, i).runs) = Len(p.runs) + 1
         /\ Opened(p, m, i).rejected = p.rejected
         /\ Opened(p, m, i).stopped = p.stopped
         /\ \A s \in 1 .. Len(p.runs) : \A j \in Nat :
              Has(Opened(p, m, i), s, j) <=> Has(p, s, j)
         /\ \A j \in Nat : Has(Opened(p, m, i), Len(p.runs) + 1, j) <=> j = i
<1> DEFINE q == Opened(p, m, i)
           run == [op |-> Classify(m), index |-> TargetIndex(m),
                   segment |-> p.segment, positions |-> <<i>>]
<1>1. run \in Run /\ run.positions = <<i>>
  BY PlanParts, MessageParts DEF Run
<1>2. q.runs = Append(p.runs, run) /\ q.rejected = p.rejected /\ q.stopped = p.stopped
  BY DEF Opened, Plan
<1> HIDE DEF q, run
<1>3. /\ Len(q.runs) = Len(p.runs) + 1 /\ q.runs[Len(p.runs) + 1] = run
      /\ \A s \in 1 .. Len(p.runs) : q.runs[s] = p.runs[s]
  BY <1>1, <1>2, PlanParts, AppendProperties
<1>4. Len(<<i>>) = 1 /\ <<i>>[1] = i /\ 1 .. 1 = {1}
  OBVIOUS
<1>5. QED BY <1>1, <1>2, <1>3, <1>4 DEF Has, Positions, q

(* Where the message after the first n goes, and that it has one place. *)
LEMMA StoppedAccounted ==
  ASSUME NEW n \in Nat, NEW p \in Plan, Accounted(p, n), p.stopped = 0
  PROVE  Accounted(Stopped(p, n + 1), n + 1)
<1> DEFINE q == Stopped(p, n + 1)
<1>1. q.runs = p.runs /\ q.rejected = p.rejected /\ q.stopped = n + 1
  BY DEF Stopped, Plan
<1> HIDE DEF q
<1>2. \A r, i : Has(q, r, i) <=> Has(p, r, i)
  BY <1>1 DEF Has, Positions
<1>3. /\ \A i \in 1 .. n : i \in 1 .. n + 1 /\ i # n + 1 /\ i # 0
      /\ \A i \in 1 .. n + 1 : i \in 1 .. n \/ i = n + 1
      /\ n + 1 # 0 /\ n + 1 \notin 1 .. n
  OBVIOUS
<1>4. \A i \in 1 .. n : i \in q.rejected \/ \E r \in 1 .. Len(q.runs) : Has(q, r, i)
  BY <1>1, <1>2, <1>3 DEF Accounted
<1>5. \A r \in 1 .. Len(q.runs) : \A i \in Nat :
        Has(q, r, i) => i \in 1 .. n /\ i \notin q.rejected
  BY <1>1, <1>2 DEF Accounted
<1>6. q.rejected \subseteq 1 .. n
  BY <1>1 DEF Accounted
<1>7. \A r, s \in 1 .. Len(q.runs) : \A i \in Nat : Has(q, r, i) /\ Has(q, s, i) => r = s
  BY <1>1, <1>2 DEF Accounted
<1>8. QED BY <1>1, <1>3, <1>4, <1>5, <1>6, <1>7 DEF Accounted, q

LEMMA RejectedAccounted ==
  ASSUME NEW n \in Nat, NEW p \in Plan, Accounted(p, n), p.stopped = 0
  PROVE  Accounted(Rejected(p, n + 1), n + 1)
<1> DEFINE q == Rejected(p, n + 1)
<1>1. q.runs = p.runs /\ q.rejected = p.rejected \cup {n + 1} /\ q.stopped = 0
  BY DEF Rejected, Plan
<1> HIDE DEF q
<1>2. \A r, i : Has(q, r, i) <=> Has(p, r, i)
  BY <1>1 DEF Has, Positions
<1>3. /\ \A i \in 1 .. n : i \in 1 .. n + 1 /\ i # n + 1 /\ i # 0
      /\ \A i \in 1 .. n + 1 : i \in 1 .. n \/ i = n + 1
      /\ n + 1 \in 1 .. n + 1
  OBVIOUS
<1>4. \A i \in 1 .. n + 1 : i \in q.rejected \/ \E r \in 1 .. Len(q.runs) : Has(q, r, i)
  <2>1. \A i \in 1 .. n : i \in p.rejected \/ \E r \in 1 .. Len(p.runs) : Has(p, r, i)
    BY <1>3 DEF Accounted
  <2>2. QED BY <1>1, <1>2, <1>3, <2>1
<1>5. \A r \in 1 .. Len(q.runs) : \A i \in Nat :
        Has(q, r, i) => i \in 1 .. n + 1 /\ i \notin q.rejected /\ i # 0
  BY <1>1, <1>2, <1>3 DEF Accounted
<1>6. q.rejected \subseteq 1 .. n + 1
  BY <1>1, <1>3 DEF Accounted
<1>7. \A r, s \in 1 .. Len(q.runs) : \A i \in Nat : Has(q, r, i) /\ Has(q, s, i) => r = s
  BY <1>1, <1>2 DEF Accounted
<1>8. QED BY <1>1, <1>4, <1>5, <1>6, <1>7 DEF Accounted, q

LEMMA JoinedAccounted ==
  ASSUME NEW n \in Nat, NEW p \in Plan, Accounted(p, n), p.stopped = 0,
         NEW r \in 1 .. Len(p.runs)
  PROVE  Accounted(Joined(p, r, n + 1), n + 1)
<1> DEFINE q == Joined(p, r, n + 1)
<1>1. /\ Len(q.runs) = Len(p.runs)
      /\ q.rejected = p.rejected /\ q.stopped = 0
      /\ \A s \in 1 .. Len(p.runs) : \A j \in Nat :
           Has(q, s, j) <=> Has(p, s, j) \/ (s = r /\ j = n + 1)
  BY JoinedHas
<1> HIDE DEF q
<1>2. /\ \A i \in 1 .. n : i \in 1 .. n + 1 /\ i # n + 1 /\ i # 0 /\ i \in Nat
      /\ \A i \in 1 .. n + 1 : i \in 1 .. n \/ i = n + 1
      /\ n + 1 \in 1 .. n + 1 /\ n + 1 # 0 /\ n + 1 \in Nat
  OBVIOUS
<1>3. \A i \in 1 .. n + 1 : i \in q.rejected \/ \E s \in 1 .. Len(q.runs) : Has(q, s, i)
  <2>1. \A i \in 1 .. n : i \in p.rejected \/ \E s \in 1 .. Len(p.runs) : Has(p, s, i)
    BY <1>2 DEF Accounted
  <2>2. QED BY <1>1, <1>2, <2>1
<1>4. ASSUME NEW s \in 1 .. Len(p.runs), NEW i \in Nat, Has(q, s, i)
      PROVE  \/ Has(p, s, i) /\ i \in 1 .. n /\ i \notin q.rejected
             \/ s = r /\ i = n + 1
  BY <1>1, <1>4 DEF Accounted
<1>5. n + 1 \notin q.rejected /\ q.rejected \subseteq 1 .. n + 1
  BY <1>1, <1>2 DEF Accounted
<1>6. \A s, t \in 1 .. Len(q.runs) : \A i \in Nat : Has(q, s, i) /\ Has(q, t, i) => s = t
  <2>1. \A s, t \in 1 .. Len(p.runs) : \A i \in Nat : Has(p, s, i) /\ Has(p, t, i) => s = t
    BY DEF Accounted
  <2>2. \A i \in 1 .. n : i # n + 1
    OBVIOUS
  <2>3. QED BY <1>1, <1>4, <2>1, <2>2
<1>7. QED BY <1>1, <1>2, <1>3, <1>4, <1>5, <1>6 DEF Accounted, q

LEMMA OpenedAccounted ==
  ASSUME NEW n \in Nat, NEW p \in Plan, Accounted(p, n), p.stopped = 0,
         NEW m \in Message, ~Unplaceable(m)
  PROVE  Accounted(Opened(p, m, n + 1), n + 1)
<1> DEFINE q == Opened(p, m, n + 1)
           last == Len(p.runs) + 1
<1>1. /\ Len(q.runs) = last
      /\ q.rejected = p.rejected /\ q.stopped = 0
      /\ \A s \in 1 .. Len(p.runs) : \A j \in Nat : Has(q, s, j) <=> Has(p, s, j)
      /\ \A j \in Nat : Has(q, last, j) <=> j = n + 1
  BY OpenedHas
<1>2. /\ \A s \in 1 .. last : s \in 1 .. Len(p.runs) \/ s = last
      /\ \A s \in 1 .. Len(p.runs) : s \in 1 .. last
      /\ last \in 1 .. last
  BY PlanParts
<1> HIDE DEF q, last
<1>3. /\ \A i \in 1 .. n : i \in 1 .. n + 1 /\ i # n + 1 /\ i # 0 /\ i \in Nat
      /\ \A i \in 1 .. n + 1 : i \in 1 .. n \/ i = n + 1
      /\ n + 1 \in 1 .. n + 1 /\ n + 1 # 0 /\ n + 1 \in Nat
  OBVIOUS
<1>4. \A i \in 1 .. n + 1 : i \in q.rejected \/ \E s \in 1 .. Len(q.runs) : Has(q, s, i)
  <2>1. \A i \in 1 .. n : i \in p.rejected \/ \E s \in 1 .. Len(p.runs) : Has(p, s, i)
    BY <1>3 DEF Accounted
  <2>2. QED BY <1>1, <1>2, <1>3, <2>1
<1>5. ASSUME NEW s \in 1 .. last, NEW i \in Nat, Has(q, s, i)
      PROVE  \/ /\ s \in 1 .. Len(p.runs) /\ Has(p, s, i)
                /\ i \in 1 .. n /\ i \notin q.rejected
             \/ s = last /\ i = n + 1
  BY <1>1, <1>2, <1>5 DEF Accounted
<1>6. n + 1 \notin q.rejected /\ q.rejected \subseteq 1 .. n + 1
  BY <1>1, <1>3 DEF Accounted
<1>7. \A s, t \in 1 .. Len(q.runs) : \A i \in Nat : Has(q, s, i) /\ Has(q, t, i) => s = t
  <2>1. \A s, t \in 1 .. Len(p.runs) : \A i \in Nat : Has(p, s, i) /\ Has(p, t, i) => s = t
    BY DEF Accounted
  <2>2. \A i \in 1 .. n : i # n + 1
    OBVIOUS
  <2>3. QED BY <1>1, <1>5, <2>1, <2>2
<1>8. QED BY <1>1, <1>3, <1>4, <1>5, <1>6, <1>7 DEF Accounted, q

-----------------------------------------------------------------------------
(***************************************************************************)
(* The plan of a whole batch.                                              *)
(***************************************************************************)

(* The messages carried are valid, and have a place. *)
Sendable(m) == m.valid /\ ~Unplaceable(m)

Sifted(b, p) ==
  \A r \in 1 .. Len(p.runs) : \A i \in Nat : Has(p, r, i) => Sendable(b[i])

(* p is a plan of the first n messages of b, or of those it stopped at. *)
Sound(b, p, n) ==
  \E d \in 0 .. n : /\ WellFormed(b, p, d) /\ Accounted(p, d) /\ Sifted(b, p)
                    /\ p.stopped = 0 => d = n

LEMMA EmptyWellFormed ==
  ASSUME NEW b \in Seq(Message)
  PROVE  WellFormed(b, EmptyPlan, 0) /\ Accounted(EmptyPlan, 0) /\ Sifted(b, EmptyPlan)
<1>1. /\ EmptyPlan \in Plan
      /\ EmptyPlan.runs = <<>> /\ Len(EmptyPlan.runs) = 0
      /\ EmptyPlan.segmentStart = 0
      /\ EmptyPlan.rejected = {} /\ EmptyPlan.stopped = 0
  <2>1. NothingKeyed \in [Indexes \X Docs -> Kinds \cup {"none"}]
    BY DEF NothingKeyed
  <2>2. QED BY <2>1 DEF EmptyPlan, Plan
<1>2. 1 .. Len(EmptyPlan.runs) = {} /\ Current(EmptyPlan) = {}
  BY <1>1 DEF Current
<1>3. WellFormed(b, EmptyPlan, 0)
  BY <1>1, <1>2 DEF WellFormed, Segmented, Monotone, Uniform, OneRunEach, KeyedRecalls,
                    Increasing, Filled, Ordered
<1>4. Accounted(EmptyPlan, 0)
  BY <1>1, <1>2 DEF Accounted
<1>5. Sifted(b, EmptyPlan)
  BY <1>2 DEF Sifted
<1>6. QED BY <1>3, <1>4, <1>5

(* One pass of the loop. *)
LEMMA ConsideredSound ==
  ASSUME NEW b \in Seq(Message), NEW n \in Nat, n < Len(b), NEW p, Sound(b, p, n)
  PROVE  Sound(b, Considered(p, b[n + 1], n + 1), n + 1)
<1> DEFINE m == b[n + 1]
<1>1. PICK d \in 0 .. n : /\ WellFormed(b, p, d) /\ Accounted(p, d) /\ Sifted(b, p)
                          /\ p.stopped = 0 => d = n
  BY DEF Sound
<1>2. m \in Message /\ n + 1 \in 0 .. n + 1 /\ d \in 0 .. n + 1 /\ p \in Plan
  BY <1>1 DEF WellFormed
<1>3. CASE p.stopped # 0
  <2>1. Considered(p, m, n + 1) = p
    BY <1>3 DEF Considered
  <2>2. QED BY <1>1, <1>2, <1>3, <2>1 DEF Sound
<1>4. CASE p.stopped = 0
  <2>1. WellFormed(b, p, n) /\ Accounted(p, n)
    BY <1>1, <1>4
  <2>2. SUFFICES /\ WellFormed(b, Considered(p, m, n + 1), n + 1)
                 /\ Accounted(Considered(p, m, n + 1), n + 1)
                 /\ Sifted(b, Considered(p, m, n + 1))
    BY <1>2 DEF Sound
  <2>3. CASE Unplaceable(m)
    <3>1. Considered(p, m, n + 1) = Stopped(p, n + 1)
      BY <1>4, <2>3 DEF Considered
    <3>2. Sifted(b, Stopped(p, n + 1))
      BY <1>1, <1>2 DEF Sifted, Has, Positions, Stopped, Plan
    <3>3. QED BY <1>2, <1>4, <2>1, <3>1, <3>2, AsideWellFormed, StoppedAccounted
  <2>4. CASE ~Unplaceable(m) /\ ~m.valid
    <3>1. Considered(p, m, n + 1) = Rejected(p, n + 1)
      BY <1>4, <2>4 DEF Considered
    <3>2. Sifted(b, Rejected(p, n + 1))
      BY <1>1, <1>2 DEF Sifted, Has, Positions, Rejected, Plan
    <3>3. QED BY <1>2, <1>4, <2>1, <3>1, <3>2, AsideWellFormed, RejectedAccounted
  <2>5. CASE ~Unplaceable(m) /\ m.valid
    <3> DEFINE q == Ready(p, m)
    <3>1. Considered(p, m, n + 1) = Placed(p, m, n + 1)
      BY <1>4, <2>5 DEF Considered
    <3>2. WellFormed(b, q, n) /\ Admits(q, m)
      BY <1>2, <2>1, <2>5, ReadyWellFormed
    <3>3. /\ q \in Plan /\ q.runs = p.runs
          /\ q.rejected = p.rejected /\ q.stopped = 0
      BY <1>2, <1>4, <3>2, ReadyKeeps DEF WellFormed
    <3>4. Accounted(q, n) /\ Sifted(b, q)
      <4>1. \A r, i : Has(q, r, i) <=> Has(p, r, i)
        BY <3>3 DEF Has, Positions
      <4>2. QED BY <1>1, <1>4, <2>1, <3>3, <4>1 DEF Accounted, Sifted
    <3> HIDE DEF q
    <3>5. CASE Fitting(q, m) = {}
      <4>1. Considered(p, m, n + 1) = Opened(q, m, n + 1)
        BY <3>1, <3>5 DEF Placed, q
      <4>2. WellFormed(b, Opened(q, m, n + 1), n + 1)
        BY <2>5, <3>2, <3>5, OpenedWellFormed
      <4>3. Accounted(Opened(q, m, n + 1), n + 1)
        BY <1>2, <2>5, <3>3, <3>4, OpenedAccounted
      <4>4. Sifted(b, Opened(q, m, n + 1))
        <5>1. n + 1 \in Nat
          OBVIOUS
        <5>2. /\ Len(Opened(q, m, n + 1).runs) = Len(q.runs) + 1
              /\ \A s \in 1 .. Len(q.runs) : \A j \in Nat :
                   Has(Opened(q, m, n + 1), s, j) <=> Has(q, s, j)
              /\ \A j \in Nat : Has(Opened(q, m, n + 1), Len(q.runs) + 1, j) <=> j = n + 1
          BY <1>2, <2>5, <3>3, <5>1, OpenedHas
        <5>3. Len(q.runs) \in Nat
          BY <3>3, PlanParts
        <5>4. ASSUME NEW s \in 1 .. Len(q.runs) + 1, NEW j \in Nat,
                     Has(Opened(q, m, n + 1), s, j)
              PROVE  Sendable(b[j])
          <6>1. CASE s \in 1 .. Len(q.runs)
            BY <3>4, <5>2, <5>4, <6>1 DEF Sifted
          <6>2. CASE s = Len(q.runs) + 1
            BY <2>5, <5>2, <5>4, <6>2 DEF Sendable
          <6>3. QED BY <5>3, <6>1, <6>2
        <5>5. QED BY <5>2, <5>4 DEF Sifted
      <4>5. QED BY <4>1, <4>2, <4>3, <4>4
    <3>6. CASE Fitting(q, m) # {}
      <4> DEFINE r == CHOOSE s \in Fitting(q, m) : TRUE
      <4>1. Considered(p, m, n + 1) = Joined(q, r, n + 1)
        BY <3>1, <3>6 DEF Placed, q
      <4>2. r \in Fitting(q, m)
        BY <3>6
      <4> HIDE DEF r
      <4>3. r \in 1 .. Len(q.runs)
        BY <3>3, <4>2, PlanParts DEF Fitting, Current
      <4>4. WellFormed(b, Joined(q, r, n + 1), n + 1)
        BY <2>5, <3>2, <4>2, JoinedWellFormed
      <4>5. Accounted(Joined(q, r, n + 1), n + 1)
        BY <3>3, <3>4, <4>3, JoinedAccounted
      <4>6. Sifted(b, Joined(q, r, n + 1))
        <5>1. n + 1 \in Nat
          OBVIOUS
        <5>2. /\ Len(Joined(q, r, n + 1).runs) = Len(q.runs)
              /\ \A s \in 1 .. Len(q.runs) : \A j \in Nat :
                   Has(Joined(q, r, n + 1), s, j) <=> Has(q, s, j) \/ (s = r /\ j = n + 1)
          BY <3>3, <4>3, <5>1, JoinedHas
        <5>3. QED BY <2>5, <3>4, <5>2 DEF Sifted, Sendable
      <4>7. QED BY <4>1, <4>4, <4>5, <4>6
    <3>7. QED BY <3>5, <3>6
  <2>6. QED BY <2>3, <2>4, <2>5
<1>5. QED BY <1>3, <1>4

(* f holds the plans of the first 0, 1, ... k messages of b. *)
Looped(b, f, k) ==
  f = [n \in 0 .. k |-> IF n = 0 THEN EmptyPlan ELSE Considered(f[n - 1], b[n], n)]

(* The loop has a result. *)
LEMMA PlanningExists ==
  ASSUME NEW b, NEW k \in Nat
  PROVE  \E f : Looped(b, f, k)
<1> DEFINE S == {j \in 0 .. k : \E f : Looped(b, f, j)}
<1>1. 0 \in S
  <2> DEFINE g == [n \in 0 .. 0 |-> EmptyPlan]
  <2>1. g = [n \in 0 .. 0 |-> IF n = 0 THEN EmptyPlan ELSE Considered(g[n - 1], b[n], n)]
    OBVIOUS
  <2>2. Looped(b, g, 0)
    BY <2>1 DEF Looped
  <2>3. QED BY <2>2
<1>2. ASSUME NEW j \in 0 .. k - 1, j \in S PROVE j + 1 \in S
  <2>1. PICK f : Looped(b, f, j)
    BY <1>2
  <2> DEFINE g == [n \in 0 .. j + 1 |->
                     IF n = j + 1 THEN Considered(f[j], b[j + 1], j + 1) ELSE f[n]]
  <2>2. ASSUME NEW n \in 0 .. j + 1
        PROVE  g[n] = IF n = 0 THEN EmptyPlan ELSE Considered(g[n - 1], b[n], n)
    <3>1. CASE n = j + 1
      <4>1. g[n - 1] = f[j] /\ n # 0
        BY <3>1
      <4>2. QED BY <3>1, <4>1
    <3>2. CASE n # j + 1
      <4>1. n \in 0 .. j /\ g[n] = f[n]
        BY <3>2
      <4>2. f[n] = IF n = 0 THEN EmptyPlan ELSE Considered(f[n - 1], b[n], n)
        BY <2>1, <4>1 DEF Looped
      <4>3. n # 0 => g[n - 1] = f[n - 1]
        BY <4>1
      <4>4. QED BY <4>1, <4>2, <4>3
    <3>3. QED BY <3>1, <3>2
  <2>3. Looped(b, g, j + 1)
    BY <2>2 DEF Looped
  <2>4. j + 1 \in 0 .. k
    OBVIOUS
  <2> HIDE DEF g
  <2>5. QED BY <2>3, <2>4
<1> HIDE DEF S
<1>3. k \in S
  BY <1>1, <1>2, UpTo
<1>4. QED BY <1>3 DEF S

(* The plan of a batch is a plan of all its messages. *)
LEMMA PlanOfSound ==
  ASSUME NEW b \in Seq(Message)
  PROVE  Sound(b, PlanOf(b), Len(b))
<1> DEFINE h == CHOOSE f : f = [n \in 0 .. Len(b) |->
                  IF n = 0 THEN EmptyPlan ELSE Considered(f[n - 1], b[n], n)]
           S == {n \in 0 .. Len(b) : Sound(b, h[n], n)}
<1>1. PlanOf(b) = h[Len(b)]
  BY DEF PlanOf
<1>2. Len(b) \in Nat
  OBVIOUS
<1>3. PICK g : Looped(b, g, Len(b))
  BY <1>2, PlanningExists
<1>4. Looped(b, h, Len(b))
  BY <1>3, Zenon DEF Looped
<1>5. \A n \in 0 .. Len(b) :
        h[n] = IF n = 0 THEN EmptyPlan ELSE Considered(h[n - 1], b[n], n)
  BY <1>4 DEF Looped
<1> HIDE DEF h
<1>6. 0 \in S
  <2>1. h[0] = EmptyPlan
    BY <1>2, <1>5
  <2>2. Sound(b, h[0], 0)
    BY <2>1, EmptyWellFormed DEF Sound
  <2>3. QED BY <1>2, <2>2
<1>7. ASSUME NEW n \in 0 .. Len(b) - 1, n \in S PROVE n + 1 \in S
  <2>1. /\ n \in Nat /\ n < Len(b) /\ n + 1 \in 0 .. Len(b)
        /\ (n + 1) - 1 = n /\ n + 1 # 0
    BY <1>2
  <2>2. h[n + 1] = Considered(h[n], b[n + 1], n + 1)
    BY <1>5, <2>1
  <2>3. Sound(b, h[n + 1], n + 1)
    BY <1>7, <2>1, <2>2, ConsideredSound
  <2>4. QED BY <2>1, <2>3
<1> HIDE DEF S
<1>8. Len(b) \in S
  <2>1. 0 .. Len(b) \subseteq S
    BY <1>2, <1>6, <1>7, UpTo
  <2>2. QED BY <1>2, <2>1
<1>9. QED BY <1>1, <1>8 DEF S

-----------------------------------------------------------------------------
(***************************************************************************)
(* Settling.                                                               *)
(***************************************************************************)

(* The plan set the message aside, or stopped at it or before it. *)
Refused(p, i) == i \in p.rejected \/ (p.stopped # 0 /\ i >= p.stopped)

LEMMA CarriersHave ==
  ASSUME NEW p \in Plan, NEW i
  PROVE  Carriers(p, i) = {r \in 1 .. Len(p.runs) : Has(p, r, i)}
<1>1. DOMAIN p.runs = 1 .. Len(p.runs)
  BY PlanParts
<1>2. ASSUME NEW r \in 1 .. Len(p.runs)
      PROVE  i \in Range(p.runs[r].positions) <=> Has(p, r, i)
  <2>1. DOMAIN p.runs[r].positions = Positions(p, r)
    BY PlanParts DEF Positions
  <2>2. QED BY <2>1 DEF Has, Range
<1>3. QED BY <1>1, <1>2 DEF Carriers

(* What the plan of a whole batch looks like from outside. *)
LEMMA SoundParts ==
  ASSUME NEW b \in Seq(Message), NEW p, Sound(b, p, Len(b))
  PROVE  /\ p \in Plan /\ Monotone(p) /\ Increasing(p) /\ Filled(p) /\ Ordered(b, p)
         /\ \A r \in 1 .. Len(p.runs) : \A k \in Positions(p, r) :
              /\ p.runs[r].positions[k] \in 1 .. Len(b)
              /\ TargetIndex(At(b, p, r, k)) = p.runs[r].index
         /\ \A i \in 1 .. Len(b) :
              IF Refused(p, i) THEN Carriers(p, i) = {}
              ELSE Sendable(b[i]) /\ \E r \in 1 .. Len(p.runs) : Carriers(p, i) = {r}
<1>1. PICK d \in 0 .. Len(b) : /\ WellFormed(b, p, d) /\ Accounted(p, d) /\ Sifted(b, p)
                               /\ p.stopped = 0 => d = Len(b)
  BY DEF Sound
<1>2. Len(b) \in Nat /\ d \in Nat /\ d <= Len(b)
  BY <1>1
<1>3. /\ p \in Plan /\ Monotone(p) /\ Increasing(p) /\ Filled(p) /\ Ordered(b, p)
      /\ Uniform(b, p, d)
  BY <1>1 DEF WellFormed
<1>4. \A r \in 1 .. Len(p.runs) : \A k \in Positions(p, r) :
        /\ p.runs[r].positions[k] \in 1 .. Len(b)
        /\ TargetIndex(At(b, p, r, k)) = p.runs[r].index
  BY <1>2, <1>3 DEF Uniform
<1>5. ASSUME NEW i \in 1 .. Len(b), Refused(p, i)
      PROVE  Carriers(p, i) = {}
  <2>1. ASSUME NEW r \in 1 .. Len(p.runs), Has(p, r, i) PROVE FALSE
    <3>1. i \in 1 .. d /\ i \notin p.rejected /\ i # p.stopped
      BY <1>1, <2>1 DEF Accounted
    <3>2. p.stopped # 0 => p.stopped = d
      BY <1>1 DEF Accounted
    <3>3. QED BY <1>2, <1>5, <3>1, <3>2 DEF Refused
  <2>2. QED BY <1>3, <2>1, CarriersHave
<1>6. ASSUME NEW i \in 1 .. Len(b), ~Refused(p, i)
      PROVE  Sendable(b[i]) /\ \E r \in 1 .. Len(p.runs) : Carriers(p, i) = {r}
  <2>1. i \in 1 .. d /\ i \notin p.rejected /\ i # p.stopped
    <3>1. p.stopped # 0 => p.stopped = d
      BY <1>1 DEF Accounted
    <3>2. p.stopped \in Nat
      BY <1>3, PlanParts
    <3>3. QED BY <1>1, <1>2, <1>6, <3>1, <3>2 DEF Refused
  <2>2. PICK r \in 1 .. Len(p.runs) : Has(p, r, i)
    BY <1>1, <2>1 DEF Accounted
  <2>3. \A s \in 1 .. Len(p.runs) : Has(p, s, i) => s = r
    BY <1>1, <2>2 DEF Accounted
  <2>4. Sendable(b[i])
    BY <1>1, <2>2 DEF Sifted
  <2>5. QED BY <1>3, <2>2, <2>3, <2>4, CarriersHave
<1>7. QED BY <1>3, <1>4, <1>5, <1>6

(* The first of the runs that failed. *)
LEMMA FirstFailed ==
  ASSUME NEW outcomes \in Seq(Outcome), FailedRuns(outcomes) # {}
  PROVE  LET first == Min(FailedRuns(outcomes))
         IN /\ first \in 1 .. Len(outcomes) /\ outcomes[first] \in Failure
            /\ \A r \in FailedRuns(outcomes) : first <= r
<1>1. FailedRuns(outcomes) \subseteq 1 .. Len(outcomes)
  BY DEF FailedRuns
<1>2. FailedRuns(outcomes) \subseteq Nat
  BY <1>1
<1>3. /\ Min(FailedRuns(outcomes)) \in FailedRuns(outcomes)
      /\ \A r \in FailedRuns(outcomes) : Min(FailedRuns(outcomes)) <= r
  BY <1>2, MinOf
<1>4. \A r \in FailedRuns(outcomes) : outcomes[r] \in Failure
  BY DEF FailedRuns, Outcome
<1>5. QED BY <1>1, <1>3, <1>4

(* A run counts as delivered only if nothing failed, or its own outcome is *)
(* "ok" and no run of an earlier segment failed.                           *)
LEMMA RunVerdictCases ==
  ASSUME NEW p \in Plan, NEW outcomes \in Seq(Outcome), NEW r \in 1 .. Len(p.runs)
  PROVE  /\ RunVerdict(p, outcomes, r) \in Outcome
         /\ FailedRuns(outcomes) = {} => RunVerdict(p, outcomes, r) = "ok"
         /\ FailedRuns(outcomes) # {} =>
              (RunVerdict(p, outcomes, r) = "ok" <=>
                 /\ r \in 1 .. Len(outcomes) /\ outcomes[r] = "ok"
                 /\ p.runs[r].segment <= p.runs[Min(FailedRuns(outcomes))].segment)
<1> DEFINE failed == FailedRuns(outcomes)
<1>1. DOMAIN outcomes = 1 .. Len(outcomes) /\ \A s \in 1 .. Len(outcomes) : outcomes[s] \in Outcome
  OBVIOUS
<1>2. \A s : s \in failed <=> s \in 1 .. Len(outcomes) /\ outcomes[s] # "ok"
  BY <1>1 DEF FailedRuns
<1>3. RunVerdict(p, outcomes, r) =
        IF r \in failed THEN outcomes[r]
        ELSE IF \/ failed = {}
                \/ /\ r \in 1 .. Len(outcomes)
                   /\ p.runs[r].segment <= p.runs[Min(failed)].segment
        THEN "ok" ELSE outcomes[Min(failed)]
  BY <1>1 DEF RunVerdict
<1>4. CASE failed = {}
  BY <1>3, <1>4 DEF Outcome
<1>5. CASE failed # {}
  <2>1. outcomes[Min(failed)] \in Failure
    BY <1>5, FirstFailed
  <2>2. "ok" \notin Failure
    BY DEF Failure
  <2> HIDE DEF failed
  <2>3. QED BY <1>1, <1>2, <1>3, <1>5, <2>1, <2>2 DEF Outcome, failed
<1>6. QED BY <1>4, <1>5

(* settle returns one of the three verdicts for every message. *)
LEMMA SettledCases ==
  ASSUME NEW b \in Seq(Message), NEW p, Sound(b, p, Len(b)),
         NEW outcomes \in Seq(Outcome), NEW i \in 1 .. Len(b)
  PROVE  /\ Settled(p, outcomes, i) \in Outcome
         /\ Refused(p, i) => Settled(p, outcomes, i) = "permanent"
         /\ ~Refused(p, i) => \E r \in 1 .. Len(p.runs) :
              Carriers(p, i) = {r} /\ Settled(p, outcomes, i) = RunVerdict(p, outcomes, r)
<1>1. CASE Refused(p, i)
  BY <1>1 DEF Settled, Refused, Outcome, Failure
<1>2. CASE ~Refused(p, i)
  <2>1. PICK r \in 1 .. Len(p.runs) : Carriers(p, i) = {r}
    BY <1>2, SoundParts
  <2>2. (CHOOSE s \in Carriers(p, i) : TRUE) = r
    BY <2>1
  <2>3. Settled(p, outcomes, i) = RunVerdict(p, outcomes, r)
    BY <1>2, <2>2 DEF Settled, Refused
  <2>4. RunVerdict(p, outcomes, r) \in Outcome
    BY SoundParts, RunVerdictCases
  <2>5. QED BY <1>2, <2>1, <2>3, <2>4
<1>3. QED BY <1>1, <1>2

(* settle: "a later write to the same document must not land ahead of it". *)
(* Whatever the outcomes are, no message is to be resent behind a later    *)
(* one of its document that counts as delivered.                           *)
THEOREM SettleKeepsOrder ==
  ASSUME NEW b \in Seq(Message), NEW outcomes \in Seq(Outcome),
         Len(outcomes) <= Len(PlanOf(b).runs),
         NEW i \in 1 .. Len(b), NEW j \in 1 .. Len(b), i < j, SameKey(b[i], b[j]),
         Settled(PlanOf(b), outcomes, j) = "ok"
  PROVE  Settled(PlanOf(b), outcomes, i) # "retryable"
<1> DEFINE p == PlanOf(b)
<1>1. Sound(b, p, Len(b))
  BY PlanOfSound
<1> HIDE DEF p
<1>2. p \in Plan /\ Monotone(p) /\ Ordered(b, p)
  BY <1>1, SoundParts
<1>3. SUFFICES ASSUME Settled(p, outcomes, i) = "retryable" PROVE FALSE
  BY DEF p
<1>4. PICK s \in 1 .. Len(p.runs) : Carriers(p, j) = {s} /\ RunVerdict(p, outcomes, s) = "ok"
  BY <1>1, SettledCases DEF p
<1>5. PICK r \in 1 .. Len(p.runs) :
        Carriers(p, i) = {r} /\ RunVerdict(p, outcomes, r) = "retryable"
  BY <1>1, <1>3, SettledCases
<1>6. r < s /\ p.runs[r].segment < p.runs[s].segment
  <2>1. Has(p, r, i) /\ Has(p, s, j)
    BY <1>2, <1>4, <1>5, CarriersHave
  <2>2. PICK k \in Positions(p, r) : p.runs[r].positions[k] = i
    BY <2>1 DEF Has
  <2>3. PICK l \in Positions(p, s) : p.runs[s].positions[l] = j
    BY <2>1 DEF Has
  <2>4. SameKey(At(b, p, r, k), At(b, p, s, l))
    BY <2>2, <2>3 DEF At
  <2>5. r = s \/ (r < s /\ p.runs[r].segment < p.runs[s].segment)
    BY <1>2, <2>2, <2>3, <2>4 DEF Ordered
  <2>6. QED BY <1>4, <1>5, <2>5
<1> DEFINE first == Min(FailedRuns(outcomes))
<1>7. FailedRuns(outcomes) # {}
  BY <1>2, <1>5, RunVerdictCases
<1>8. /\ first \in 1 .. Len(outcomes) /\ \A t \in FailedRuns(outcomes) : first <= t
      /\ first \in 1 .. Len(p.runs)
  <2>1. first \in 1 .. Len(outcomes) /\ \A t \in FailedRuns(outcomes) : first <= t
    BY <1>7, FirstFailed
  <2>2. Len(outcomes) \in Nat /\ Len(p.runs) \in Nat /\ Len(outcomes) <= Len(p.runs)
    BY <1>2, PlanParts DEF p
  <2>3. QED BY <2>1, <2>2
<1>9. /\ s \in 1 .. Len(outcomes) /\ outcomes[s] = "ok"
      /\ p.runs[s].segment <= p.runs[first].segment
  BY <1>2, <1>4, <1>7, RunVerdictCases
<1>10. /\ p.runs[r].segment \in Nat /\ p.runs[s].segment \in Nat
       /\ p.runs[first].segment \in Nat
  BY <1>2, <1>8, PlanParts
<1> HIDE DEF first
<1>11. r \in 1 .. Len(outcomes) /\ p.runs[r].segment <= p.runs[first].segment
  <2>1. r \in Nat /\ r >= 1 /\ s \in Nat /\ Len(outcomes) \in Nat
    BY <1>2, <1>4, <1>5, PlanParts
  <2>2. r < s /\ s <= Len(outcomes)
    BY <1>6, <1>9, <2>1
  <2>3. r \in 1 .. Len(outcomes)
    BY <2>1, <2>2
  <2>4. p.runs[r].segment <= p.runs[first].segment
    <3>1. \A x \in Nat, y \in Nat, z \in Nat : x < y /\ y <= z => x <= z
      OBVIOUS
    <3>2. QED BY <1>6, <1>9, <1>10, <3>1
  <2>5. QED BY <2>3, <2>4
<1>12. outcomes[r] # "ok"
  BY <1>2, <1>5, <1>7, <1>11, RunVerdictCases DEF first
<1>13. r \in FailedRuns(outcomes)
  BY <1>11, <1>12 DEF FailedRuns
<1>14. p.runs[first].segment <= p.runs[r].segment
  <2>1. first <= r
    BY <1>8, <1>13
  <2>2. first < r \/ first = r
    BY <1>8, <2>1
  <2>3. QED BY <1>2, <1>8, <1>10, <2>2 DEF Monotone
<1>15. \A x \in Nat, y \in Nat, z \in Nat : ~(x < y /\ y <= z /\ z <= x)
  OBVIOUS
<1>16. QED BY <1>6, <1>9, <1>10, <1>14, <1>15

(* The outcomes of a call that ended as one of Calls: one for each of its  *)
(* first runs, what stopped the issuing last.                              *)
LEMMA CallOutcomes ==
  ASSUME NEW p \in Plan, NEW c \in Calls(p)
  PROVE  LET outcomes == OutcomesOf(c.issued, c.unissued, c.confirmed)
         IN /\ c.confirmed \in Seq(Outcome) /\ Len(c.confirmed) \in 0 .. c.issued
            /\ c.issued \in 0 .. Len(p.runs)
            /\ outcomes \in Seq(Outcome) /\ Len(outcomes) <= Len(p.runs)
            /\ IF c.unissued # "none" /\ Len(c.confirmed) = c.issued
               THEN /\ Len(outcomes) = c.issued + 1 /\ outcomes[c.issued + 1] = c.unissued
                    /\ c.unissued \in Failure
                    /\ \A s \in 1 .. c.issued : outcomes[s] = c.confirmed[s]
               ELSE outcomes = c.confirmed
<1> DEFINE outcomes == OutcomesOf(c.issued, c.unissued, c.confirmed)
<1>1. Len(p.runs) \in Nat
  BY PlanParts
<1>2. /\ c.issued \in 0 .. Len(p.runs) /\ c.unissued \in Failure \cup {"none"}
      /\ c.confirmed \in UNION {[1 .. n -> Outcome] : n \in 0 .. Len(p.runs)}
      /\ (c.unissued = "none") <=> (c.issued = Len(p.runs))
      /\ Len(c.confirmed) <= c.issued
  BY DEF Calls
<1>3. PICK n \in 0 .. Len(p.runs) : c.confirmed \in [1 .. n -> Outcome]
  BY <1>2
<1>4. c.confirmed \in Seq(Outcome) /\ Len(c.confirmed) = n
  BY <1>1, <1>3
<1>5. CASE c.unissued # "none" /\ Len(c.confirmed) = c.issued
  <2>1. c.unissued \in Failure /\ c.unissued \in Outcome
    BY <1>2, <1>5 DEF Outcome
  <2>2. outcomes = Append(c.confirmed, c.unissued)
    BY <1>5 DEF OutcomesOf
  <2>3. /\ outcomes \in Seq(Outcome) /\ Len(outcomes) = Len(c.confirmed) + 1
        /\ outcomes[Len(c.confirmed) + 1] = c.unissued
        /\ \A s \in 1 .. Len(c.confirmed) : outcomes[s] = c.confirmed[s]
    BY <1>4, <2>1, <2>2, AppendProperties
  <2>4. c.issued < Len(p.runs)
    BY <1>1, <1>2, <1>5
  <2> HIDE DEF outcomes
  <2>5. QED BY <1>1, <1>2, <1>4, <1>5, <2>1, <2>3, <2>4 DEF outcomes
<1>6. CASE ~(c.unissued # "none" /\ Len(c.confirmed) = c.issued)
  <2>1. outcomes = c.confirmed
    BY <1>6 DEF OutcomesOf
  <2>2. QED BY <1>1, <1>2, <1>4, <1>6, <2>1
<1>7. QED BY <1>5, <1>6

(* Of the runs of such a call, only those confirmed with "ok" count as     *)
(* delivered: not one that was left unissued, nor one not waited for.      *)
LEMMA OkWasConfirmed ==
  ASSUME NEW p \in Plan, NEW c \in Calls(p), NEW r \in 1 .. Len(p.runs),
         RunVerdict(p, OutcomesOf(c.issued, c.unissued, c.confirmed), r) = "ok"
  PROVE  r \in 1 .. Len(c.confirmed) /\ c.confirmed[r] = "ok"
<1> DEFINE outcomes == OutcomesOf(c.issued, c.unissued, c.confirmed)
<1>1. /\ c.confirmed \in Seq(Outcome) /\ Len(c.confirmed) \in 0 .. c.issued
      /\ c.issued \in 0 .. Len(p.runs) /\ Len(p.runs) \in Nat
      /\ outcomes \in Seq(Outcome)
      /\ IF c.unissued # "none" /\ Len(c.confirmed) = c.issued
         THEN /\ Len(outcomes) = c.issued + 1 /\ outcomes[c.issued + 1] = c.unissued
              /\ c.unissued \in Failure
              /\ \A s \in 1 .. c.issued : outcomes[s] = c.confirmed[s]
         ELSE outcomes = c.confirmed
  BY CallOutcomes, PlanParts
<1>2. /\ (c.unissued = "none") <=> (c.issued = Len(p.runs))
      /\ \/ Len(c.confirmed) = c.issued
         \/ Behind(p, c.confirmed, Len(c.confirmed) + 1)
  BY DEF Calls
<1>3. "ok" \notin Failure
  BY DEF Failure
<1> HIDE DEF outcomes
<1>4. CASE FailedRuns(outcomes) # {}
  <2>1. r \in 1 .. Len(outcomes) /\ outcomes[r] = "ok"
    BY <1>1, <1>4, RunVerdictCases DEF outcomes
  <2>2. QED BY <1>1, <1>3, <2>1
<1>5. CASE FailedRuns(outcomes) = {}
  <2>1. \A s \in 1 .. Len(outcomes) : outcomes[s] = "ok"
    BY <1>1, <1>5 DEF FailedRuns
  <2>2. outcomes = c.confirmed
    BY <1>1, <1>3, <2>1
  <2>3. ~Behind(p, c.confirmed, Len(c.confirmed) + 1)
    BY <1>5, <2>2 DEF Behind
  <2>4. Len(c.confirmed) = Len(p.runs)
    BY <1>1, <1>2, <1>3, <2>1, <2>2, <2>3
  <2>5. QED BY <2>1, <2>2, <2>4
<1>6. QED BY <1>4, <1>5

-----------------------------------------------------------------------------
(***************************************************************************)
(* Gathering the elements of a sequence at some of its places, in order.   *)
(***************************************************************************)
Ascending(s) == \A k, l \in 1 .. Len(s) : k < l => s[k] < s[l]

(* f holds what is gathered at the places W of the first 0, 1, ... k. *)
Gathering(s, W, f, k) ==
  f = [n \in 0 .. k |-> IF n = 0 THEN <<>>
                        ELSE IF n \in W THEN Append(f[n - 1], s[n]) ELSE f[n - 1]]

LEMMA GatheringExists ==
  ASSUME NEW s, NEW W, NEW k \in Nat
  PROVE  \E f : Gathering(s, W, f, k)
<1> DEFINE S == {j \in 0 .. k : \E f : Gathering(s, W, f, j)}
<1>1. 0 \in S
  <2> DEFINE g == [n \in 0 .. 0 |-> <<>>]
  <2>1. g = [n \in 0 .. 0 |-> IF n = 0 THEN <<>>
                              ELSE IF n \in W THEN Append(g[n - 1], s[n]) ELSE g[n - 1]]
    OBVIOUS
  <2>2. Gathering(s, W, g, 0)
    BY <2>1 DEF Gathering
  <2>3. QED BY <2>2
<1>2. ASSUME NEW j \in 0 .. k - 1, j \in S PROVE j + 1 \in S
  <2>1. PICK f : Gathering(s, W, f, j)
    BY <1>2
  <2> DEFINE next == IF j + 1 \in W THEN Append(f[j], s[j + 1]) ELSE f[j]
             g == [n \in 0 .. j + 1 |-> IF n = j + 1 THEN next ELSE f[n]]
  <2>2. ASSUME NEW n \in 0 .. j + 1
        PROVE  g[n] = IF n = 0 THEN <<>>
                      ELSE IF n \in W THEN Append(g[n - 1], s[n]) ELSE g[n - 1]
    <3>1. CASE n = j + 1
      <4>1. g[n - 1] = f[j] /\ n # 0 /\ g[n] = next
        BY <3>1
      <4>2. QED BY <3>1, <4>1
    <3>2. CASE n # j + 1
      <4>1. n \in 0 .. j /\ g[n] = f[n]
        BY <3>2
      <4>2. f[n] = IF n = 0 THEN <<>>
                   ELSE IF n \in W THEN Append(f[n - 1], s[n]) ELSE f[n - 1]
        BY <2>1, <4>1 DEF Gathering
      <4>3. n # 0 => g[n - 1] = f[n - 1]
        BY <4>1
      <4>4. QED BY <4>1, <4>2, <4>3
    <3>3. QED BY <3>1, <3>2
  <2>3. Gathering(s, W, g, j + 1)
    BY <2>2 DEF Gathering
  <2>4. j + 1 \in 0 .. k
    OBVIOUS
  <2> HIDE DEF g
  <2>5. QED BY <2>3, <2>4
<1> HIDE DEF S
<1>3. k \in S
  BY <1>1, <1>2, UpTo
<1>4. QED BY <1>3 DEF S

(* What Append adds. *)
LEMMA AppendedRange ==
  ASSUME NEW T, NEW s \in Seq(T), NEW x \in T
  PROVE  Range(Append(s, x)) = Range(s) \cup {x}
<1>1. /\ DOMAIN Append(s, x) = DOMAIN s \cup {Len(s) + 1}
      /\ Append(s, x)[Len(s) + 1] = x
      /\ \A k \in DOMAIN s : Append(s, x)[k] = s[k]
  OBVIOUS
<1>2. QED BY <1>1 DEF Range

(* What is gathered are the elements at the places W, in their order. *)
LEMMA GatheredParts ==
  ASSUME NEW s \in Seq(Nat), NEW W, NEW f, Gathering(s, W, f, Len(s))
  PROVE  /\ f[Len(s)] \in Seq(Nat)
         /\ Range(f[Len(s)]) = {s[i] : i \in W \cap 1 .. Len(s)}
         /\ Ascending(s) => Ascending(f[Len(s)])
<1> DEFINE Good(n) == /\ f[n] \in Seq(Nat)
                      /\ Range(f[n]) = {s[i] : i \in W \cap 1 .. n}
                      /\ Ascending(s) => Ascending(f[n])
           S == {n \in 0 .. Len(s) : Good(n)}
<1>1. Len(s) \in Nat
  OBVIOUS
<1>2. \A n \in 0 .. Len(s) :
        f[n] = IF n = 0 THEN <<>>
               ELSE IF n \in W THEN Append(f[n - 1], s[n]) ELSE f[n - 1]
  BY DEF Gathering
<1>3. 0 \in S
  <2>1. f[0] = <<>>
    BY <1>1, <1>2
  <2>2. Range(f[0]) = {s[i] : i \in W \cap 1 .. 0}
    BY <2>1 DEF Range
  <2>3. Ascending(f[0])
    BY <2>1 DEF Ascending
  <2>4. f[0] \in Seq(Nat)
    BY <2>1
  <2>5. Good(0)
    BY <2>2, <2>3, <2>4
  <2> HIDE DEF Good
  <2>6. QED BY <1>1, <2>5
<1>4. ASSUME NEW n \in 0 .. Len(s) - 1, n \in S PROVE n + 1 \in S
  <2>1. /\ n \in Nat /\ n + 1 \in 1 .. Len(s) /\ n + 1 \in 0 .. Len(s) /\ n + 1 # 0
        /\ (n + 1) - 1 = n /\ s[n + 1] \in Nat
    BY <1>1
  <2>2. Good(n)
    BY <1>4
  <2>3. f[n + 1] = IF n + 1 \in W THEN Append(f[n], s[n + 1]) ELSE f[n]
    BY <1>2, <2>1
  <2>4. CASE n + 1 \notin W
    <3>1. W \cap 1 .. n + 1 = W \cap 1 .. n
      BY <2>1, <2>4
    <3>2. f[n + 1] = f[n]
      BY <2>3, <2>4
    <3>3. Good(n + 1)
      BY <2>2, <3>1, <3>2
    <3>4. QED BY <2>1, <3>3
  <2>5. CASE n + 1 \in W
    <3>1. W \cap 1 .. n + 1 = (W \cap 1 .. n) \cup {n + 1}
      BY <2>1, <2>5
    <3>2. f[n + 1] = Append(f[n], s[n + 1])
      BY <2>3, <2>5
    <3>3. f[n + 1] \in Seq(Nat) /\ Range(f[n + 1]) = Range(f[n]) \cup {s[n + 1]}
      BY <2>1, <2>2, <3>2, AppendedRange
    <3>4. Range(f[n + 1]) = {s[i] : i \in W \cap 1 .. n + 1}
      BY <2>2, <3>1, <3>3
    <3>5. ASSUME Ascending(s) PROVE Ascending(f[n + 1])
      <4>1. \A k \in 1 .. Len(f[n]) : f[n][k] < s[n + 1]
        <5>1. TAKE k \in 1 .. Len(f[n])
        <5>2. f[n][k] \in Range(f[n])
          BY <2>2 DEF Range
        <5>3. PICK i \in W \cap 1 .. n : f[n][k] = s[i]
          BY <2>2, <5>2
        <5>4. i \in 1 .. Len(s) /\ i < n + 1
          BY <2>1
        <5>5. s[i] < s[n + 1]
          BY <2>1, <3>5, <5>4 DEF Ascending
        <5>6. QED BY <5>3, <5>5
      <4>2. Ascending(f[n])
        BY <2>2, <3>5
      <4>3. /\ Len(f[n + 1]) = Len(f[n]) + 1 /\ Len(f[n]) \in Nat
            /\ f[n + 1][Len(f[n]) + 1] = s[n + 1]
            /\ \A k \in 1 .. Len(f[n]) : f[n + 1][k] = f[n][k]
        BY <2>1, <2>2, <3>2
      <4>4. ASSUME NEW k \in 1 .. Len(f[n + 1]), NEW l \in 1 .. Len(f[n + 1]), k < l
            PROVE  f[n + 1][k] < f[n + 1][l]
        <5>1. k \in 1 .. Len(f[n])
          BY <4>3, <4>4
        <5>2. l \in 1 .. Len(f[n]) \/ l = Len(f[n]) + 1
          BY <4>3, <4>4
        <5>3. CASE l = Len(f[n]) + 1
          BY <4>1, <4>3, <5>1, <5>3
        <5>4. CASE l \in 1 .. Len(f[n])
          BY <4>2, <4>3, <4>4, <5>1, <5>4 DEF Ascending
        <5>5. QED BY <5>2, <5>3, <5>4
      <4>5. QED BY <4>4 DEF Ascending
    <3>6. Good(n + 1)
      BY <3>3, <3>4, <3>5
    <3>7. QED BY <2>1, <3>6
  <2>6. QED BY <2>4, <2>5
<1> HIDE DEF S
<1>5. Len(s) \in S
  <2>1. 0 .. Len(s) \subseteq S
    BY <1>1, <1>3, <1>4, UpTo
  <2>2. QED BY <1>1, <2>1
<1>6. QED BY <1>5 DEF S

=============================================================================
