------------------------- MODULE IndexReaderProofs -------------------------
(***************************************************************************)
(* Proofs about the reader, for an index and pages of any size and any     *)
(* number of mishaps, when the route keeps one batch in flight.            *)
(***************************************************************************)
EXTENDS IndexReader, SequenceTheorems, TLAPS

(* What lies behind the scan position: with no batch in flight everything  *)
(* was delivered; otherwise the position is just behind the one batch.     *)
Accounted ==
  /\ \A d \in Documents : d < saved => d \in delivered
  /\ \A q \in reading : inflight = <<>> /\ q.start = offset
  /\ inflight = <<>> => \A d \in Documents : d < offset => d \in delivered
  /\ inflight # <<>> =>
       /\ Len(inflight) = 1
       /\ offset = inflight[1].start + inflight[1].count
       /\ offset <= Total
       /\ \A d \in Documents : d < inflight[1].start => d \in delivered

(* The types hold whatever the route keeps in flight, except that a batch  *)
(* stays inside the index.                                                 *)
WithinIndex == \A k \in 1 .. Len(inflight) : Covers(inflight[k]) \subseteq Documents

IInv == TypeOK /\ WithinIndex

LEMMA BatchParts ==
  ASSUME TypeOK, inflight # <<>>
  PROVE  /\ Head(inflight) = inflight[1] /\ 1 \in 1 .. Len(inflight)
         /\ inflight[1].start \in Nat /\ inflight[1].count \in Nat \ {0}
         /\ Tail(inflight) \in Seq(Batch)
         /\ Len(Tail(inflight)) = Len(inflight) - 1
         /\ \A k \in 1 .. Len(inflight) - 1 : Tail(inflight)[k] = inflight[k + 1]
<1>1. inflight \in Seq(Batch) /\ Len(inflight) \in Nat /\ Len(inflight) # 0
  BY DEF TypeOK
<1>2. 1 \in 1 .. Len(inflight) /\ inflight[1] \in Batch
  BY <1>1
<1>3. QED BY <1>1, <1>2, HeadTailProperties DEF Batch

(* Types and bounds are kept by every step. *)
LEMMA IndexInvariant == Spec => []IInv
<1>1. Init => IInv
  BY ReaderAssumption DEF Init, IInv, TypeOK, WithinIndex, ReaderAssumption
<1>2. IInv /\ [Next]_vars => IInv'
  <2>1. SUFFICES ASSUME IInv, [Next]_vars PROVE IInv'
    OBVIOUS
  <2>2. TypeOK /\ WithinIndex /\ inflight \in Seq(Batch) /\ Len(inflight) \in Nat
    BY <2>1 DEF IInv, TypeOK
  <2>3. CASE AskPage
    <3>1. PICK n \in 1 .. PageSize : reading' = {[start |-> offset, max |-> n]}
      BY <2>3 DEF AskPage
    <3>2. [start |-> offset, max |-> n] \in Read
      BY <2>2 DEF TypeOK, Read
    <3>3. QED BY <2>2, <2>3, <3>1, <3>2 DEF AskPage, IInv, TypeOK, WithinIndex
  <2>4. CASE ReceivePage
    <3> DEFINE Count(q) == LesserOf(q.max, Total - q.start)
               New(q) == [start |-> q.start, count |-> Count(q)]
    <3>1. PICK q \in reading : /\ q.start < Total
                               /\ offset' = q.start + Count(q)
                               /\ inflight' = Append(inflight, New(q))
                               /\ reading' = {} /\ delay' = BaseDelay
                               /\ UNCHANGED <<exitOnEmpty, ended, saved, delivered, mishaps>>
      BY <2>4 DEF ReceivePage
    <3>2. q.start \in Nat /\ q.max \in 1 .. PageSize
      BY <2>2 DEF TypeOK, Read
    <3>3. Count(q) \in Nat \ {0} /\ q.start + Count(q) <= Total
      BY <3>1, <3>2, ReaderAssumption DEF ReaderAssumption, LesserOf
    <3> HIDE DEF Count
    <3>4. New(q) \in Batch /\ Covers(New(q)) \subseteq Documents
      BY <3>2, <3>3, ReaderAssumption DEF Batch, Covers, Documents, ReaderAssumption
    <3> HIDE DEF New
    <3>5. /\ inflight' \in Seq(Batch) /\ Len(inflight') = Len(inflight) + 1
          /\ \A k \in 1 .. Len(inflight) : inflight'[k] = inflight[k]
          /\ inflight'[Len(inflight) + 1] = New(q)
      BY <2>2, <3>1, <3>4, AppendProperties
    <3>6. WithinIndex'
      <4>1. \A k \in 1 .. Len(inflight) + 1 :
              k \in 1 .. Len(inflight) \/ k = Len(inflight) + 1
        BY <2>2
      <4>2. QED BY <2>2, <3>4, <3>5, <4>1 DEF WithinIndex
    <3>7. TypeOK'
      <4>1. offset' \in Nat /\ delay' \in BaseDelay .. MaxDelay
        BY <3>1, <3>2, <3>3, ReaderAssumption DEF ReaderAssumption
      <4>2. QED BY <2>2, <3>1, <3>5, <4>1 DEF TypeOK
    <3>8. QED BY <3>6, <3>7 DEF IInv
  <2>5. CASE ReceiveEmpty
    BY <2>2, <2>5, ReaderAssumption
       DEF ReceiveEmpty, Idled, IInv, TypeOK, WithinIndex, LesserOf, ReaderAssumption
  <2>6. CASE ReceiveFails
    BY <2>2, <2>6, ReaderAssumption
       DEF ReceiveFails, Permanent, ClientErrors, Errors, Mishap, IInv, TypeOK, WithinIndex,
           ReaderAssumption
  <2>7. ASSUME inflight # <<>>, NEW acks \in SUBSET Covers(Head(inflight)),
               NEW k \in 0 .. Head(inflight).count,
               Committed(Head(inflight), acks, k),
               saved' \in {saved, Head(inflight).start + k},
               mishaps' \in 0 .. MaxMishaps
        PROVE  IInv'
    <3>1. /\ Head(inflight) = inflight[1] /\ 1 \in 1 .. Len(inflight)
          /\ inflight[1].start \in Nat /\ inflight[1].count \in Nat \ {0}
          /\ Tail(inflight) \in Seq(Batch)
          /\ Len(Tail(inflight)) = Len(inflight) - 1
          /\ \A j \in 1 .. Len(inflight) - 1 : Tail(inflight)[j] = inflight[j + 1]
      BY <2>2, <2>7, BatchParts
    <3>2. acks \subseteq Documents
      BY <2>2, <3>1 DEF WithinIndex
    <3>3. /\ inflight' = Tail(inflight) /\ UNCHANGED <<exitOnEmpty, ended, reading, delay>>
          /\ delivered' = delivered \cup acks
          /\ offset' \in {offset, inflight[1].start + k}
      BY <2>7, <3>1 DEF Committed
    <3>4. WithinIndex'
      <4>1. \A j \in 1 .. Len(inflight) - 1 : j + 1 \in 1 .. Len(inflight)
        BY <2>2
      <4>2. QED BY <2>2, <3>1, <3>3, <4>1 DEF WithinIndex
    <3>5. TypeOK'
      <4>1. inflight[1].start + k \in Nat
        BY <3>1
      <4>2. QED BY <2>2, <2>7, <3>1, <3>2, <3>3, <4>1 DEF TypeOK
    <3>6. QED BY <3>4, <3>5 DEF IInv
  <2>8. CASE Commit
    <3>1. Head(inflight).count \in 0 .. Head(inflight).count
      BY <2>2, <2>8, BatchParts DEF Commit
    <3>2. mishaps' \in 0 .. MaxMishaps
      BY <2>2, <2>8 DEF Commit, TypeOK
    <3>3. QED BY <2>7, <2>8, <3>1, <3>2 DEF Commit
  <2>9. CASE CommitRefused
    BY <2>2, <2>7, <2>9, ReaderAssumption DEF CommitRefused, Mishap, TypeOK, ReaderAssumption
  <2>10. CASE CommitUnsaved
    BY <2>2, <2>7, <2>10, ReaderAssumption DEF CommitUnsaved, Mishap, TypeOK, ReaderAssumption
  <2>11. CASE Restart
    BY <2>2, <2>11, ReaderAssumption
       DEF Restart, Mishap, IInv, TypeOK, WithinIndex, ReaderAssumption
  <2>12. CASE UNCHANGED vars
    BY <2>2, <2>12 DEF vars, IInv, TypeOK, WithinIndex
  <2>13. QED BY <2>1, <2>3, <2>4, <2>5, <2>6, <2>8, <2>9, <2>10, <2>11, <2>12 DEF Next
<1>3. QED BY <1>1, <1>2, PTL DEF Spec

(* The reader's state keeps its types, and no document outside the index   *)
(* is ever reported as delivered.                                          *)
THEOREM TypeCorrect == Spec => []TypeOK
<1>1. IInv => TypeOK
  BY DEF IInv
<1>2. QED BY <1>1, IndexInvariant, PTL

(* With one batch in flight the scan position is where everything before   *)
(* it was delivered or is in that batch.                                   *)
LEMMA AccountedInvariant ==
  ASSUME MaxInFlight = 1
  PROVE  Spec => []Accounted
<1>1. Init => Accounted
  BY ReaderAssumption DEF Init, Accounted, Documents, ReaderAssumption
<1>2. IInv /\ Accounted /\ [Next]_vars => Accounted'
  <2>1. SUFFICES ASSUME IInv, Accounted, [Next]_vars PROVE Accounted'
    OBVIOUS
  <2>2. /\ TypeOK /\ WithinIndex /\ inflight \in Seq(Batch) /\ Len(inflight) \in Nat
        /\ offset \in Nat /\ saved \in Nat
    BY <2>1 DEF IInv, TypeOK
  <2>3. CASE AskPage
    <3>1. inflight = <<>>
      BY <2>2, <2>3 DEF AskPage
    <3>2. QED BY <2>1, <2>3, <3>1 DEF AskPage, Accounted
  <2>4. CASE ReceivePage
    <3> DEFINE Count(q) == LesserOf(q.max, Total - q.start)
               New(q) == [start |-> q.start, count |-> Count(q)]
    <3>1. PICK q \in reading : /\ q.start < Total
                               /\ offset' = q.start + Count(q)
                               /\ inflight' = Append(inflight, New(q))
                               /\ reading' = {} /\ delay' = BaseDelay
                               /\ UNCHANGED <<exitOnEmpty, ended, saved, delivered, mishaps>>
      BY <2>4 DEF ReceivePage
    <3>2. inflight = <<>> /\ q.start = offset
      BY <2>1, <3>1 DEF Accounted
    <3>3. q.max \in 1 .. PageSize
      BY <2>2 DEF TypeOK, Read
    <3>4. offset' <= Total
      BY <2>2, <3>1, <3>2, <3>3, ReaderAssumption DEF ReaderAssumption, LesserOf
    <3> HIDE DEF Count
    <3>5. /\ Len(inflight') = 1 /\ inflight' # <<>>
          /\ inflight'[1].start = offset /\ inflight'[1].count = Count(q)
      BY <3>1, <3>2
    <3>6. QED BY <2>1, <3>1, <3>2, <3>4, <3>5 DEF Accounted
  <2>5. CASE ReceiveEmpty
    BY <2>1, <2>5 DEF ReceiveEmpty, Accounted
  <2>6. CASE ReceiveFails
    BY <2>1, <2>6 DEF ReceiveFails, Accounted
  <2>7. ASSUME inflight # <<>>, NEW acks \in SUBSET Covers(Head(inflight)),
               NEW k \in 0 .. Head(inflight).count,
               Committed(Head(inflight), acks, k),
               saved' \in {saved, Head(inflight).start + k}
        PROVE  Accounted'
    <3>1. /\ Head(inflight) = inflight[1] /\ inflight[1].start \in Nat
          /\ inflight[1].count \in Nat \ {0} /\ Len(inflight) = 1
          /\ Tail(inflight) = <<>>
      BY <2>1, <2>2, <2>7, BatchParts DEF Accounted
    <3>2. reading = {} /\ offset = inflight[1].start + inflight[1].count
      BY <2>1, <2>7 DEF Accounted
    <3>3. /\ inflight' = <<>> /\ reading' = {} /\ delivered' = delivered \cup acks
          /\ offset' = inflight[1].start + k
          /\ AckedPrefix(inflight[1], acks, k)
      BY <2>7, <3>1, <3>2 DEF Committed
    <3>4. \A d \in Documents : d < inflight[1].start + k => d \in delivered'
      <4>1. SUFFICES ASSUME NEW d \in Documents, d < inflight[1].start + k
                     PROVE  d \in delivered'
        OBVIOUS
      <4>2. d \in Nat
        BY ReaderAssumption DEF Documents, ReaderAssumption
      <4>3. CASE d < inflight[1].start
        BY <2>1, <2>7, <3>3, <4>3 DEF Accounted
      <4>4. CASE ~(d < inflight[1].start)
        <5>1. d \in Covers(inflight[1])
          BY <3>1, <4>1, <4>2, <4>4 DEF Covers
        <5>2. QED BY <3>3, <4>1, <5>1 DEF AckedPrefix
      <4>5. QED BY <4>3, <4>4
    <3>5. \A d \in Documents : d < saved' => d \in delivered'
      BY <2>1, <2>7, <3>1, <3>3, <3>4 DEF Accounted
    <3>6. QED BY <3>3, <3>4, <3>5 DEF Accounted
  <2>8. CASE Commit
    <3>1. Head(inflight).count \in 0 .. Head(inflight).count
      BY <2>2, <2>8, BatchParts DEF Commit
    <3>2. QED BY <2>7, <2>8, <3>1 DEF Commit
  <2>9. CASE CommitRefused
    BY <2>7, <2>9 DEF CommitRefused
  <2>10. CASE CommitUnsaved
    BY <2>7, <2>10 DEF CommitUnsaved
  <2>11. CASE Restart
    BY <2>1, <2>11 DEF Restart, Accounted
  <2>12. CASE UNCHANGED vars
    BY <2>1, <2>12 DEF vars, Accounted
  <2>13. QED BY <2>1, <2>3, <2>4, <2>5, <2>6, <2>8, <2>9, <2>10, <2>11, <2>12 DEF Next
<1>3. QED BY <1>1, <1>2, IndexInvariant, PTL DEF Spec

(* With one batch in flight nothing a batch did not acknowledge is skipped, *)
(* neither by the running scan nor by one that resumes from the checkpoint. *)
THEOREM NothingSkippedOneBatch ==
  ASSUME MaxInFlight = 1
  PROVE  Spec => []NothingSkipped
<1>1. IInv /\ Accounted => NothingSkipped
  <2>1. SUFFICES ASSUME IInv, Accounted, NEW d \in Documents, d < offset, d \notin delivered
                 PROVE  InFlight(d)
    BY DEF NothingSkipped, Accounted
  <2>2. /\ TypeOK /\ inflight # <<>> /\ ~(d < inflight[1].start)
        /\ offset = inflight[1].start + inflight[1].count
    BY <2>1 DEF IInv, Accounted
  <2>3. /\ 1 \in 1 .. Len(inflight) /\ inflight[1].start \in Nat
        /\ inflight[1].count \in Nat /\ d \in Nat
    BY <2>2, BatchParts, ReaderAssumption DEF Documents, ReaderAssumption
  <2>4. d \in Covers(inflight[1])
    BY <2>1, <2>2, <2>3 DEF Covers
  <2>5. QED BY <2>3, <2>4 DEF InFlight
<1>2. QED BY <1>1, AccountedInvariant, IndexInvariant, PTL

(* With one batch in flight an empty page means that all was delivered:    *)
(* nothing is left that a commit could roll back to.                       *)
THEOREM DrainedWholeOneBatch ==
  ASSUME MaxInFlight = 1
  PROVE  Spec => []DrainedWhole
<1>1. Init => DrainedWhole
  BY DEF Init, DrainedWhole
<1>2. IInv /\ IInv' /\ Accounted /\ DrainedWhole /\ [Next]_vars => DrainedWhole'
  <2>1. SUFFICES ASSUME IInv, IInv', Accounted, DrainedWhole, [Next]_vars
                 PROVE  DrainedWhole'
    OBVIOUS
  <2>2. delivered \subseteq Documents /\ delivered' \subseteq Documents /\ offset \in Nat
    BY <2>1 DEF IInv, TypeOK
  <2>3. delivered \subseteq delivered' /\ ended' = ended => DrainedWhole'
    BY <2>1, <2>2 DEF DrainedWhole, Documents
  <2>4. ended' # "drained" => DrainedWhole'
    BY DEF DrainedWhole
  <2>5. CASE AskPage
    BY <2>3, <2>5 DEF AskPage
  <2>6. CASE ReceivePage
    BY <2>3, <2>6 DEF ReceivePage
  <2>7. CASE ReceiveEmpty
    <3>1. PICK q \in reading : q.start >= Total /\ UNCHANGED delivered
      BY <2>7 DEF ReceiveEmpty
    <3>2. inflight = <<>> /\ offset >= Total
      BY <2>1, <3>1 DEF Accounted
    <3>3. \A d \in Documents : d < offset
      BY <2>2, <3>2, ReaderAssumption DEF Documents, ReaderAssumption
    <3>4. delivered = Documents
      BY <2>1, <2>2, <3>2, <3>3 DEF Accounted
    <3>5. QED BY <3>1, <3>4 DEF DrainedWhole, Documents
  <2>8. CASE ReceiveFails
    BY <2>4, <2>8 DEF ReceiveFails, Permanent, ClientErrors
  <2>9. ASSUME NEW acks, NEW k, Committed(Head(inflight), acks, k) PROVE DrainedWhole'
    BY <2>3, <2>9 DEF Committed
  <2>10. CASE Commit \/ CommitRefused \/ CommitUnsaved
    BY <2>9, <2>10 DEF Commit, CommitRefused, CommitUnsaved
  <2>11. CASE Restart
    BY <2>4, <2>11 DEF Restart
  <2>12. CASE UNCHANGED vars
    BY <2>3, <2>12 DEF vars
  <2>13. QED BY <2>1, <2>5, <2>6, <2>7, <2>8, <2>10, <2>11, <2>12 DEF Next
<1>3. QED BY <1>1, <1>2, AccountedInvariant, IndexInvariant, PTL DEF Spec

(* What was saved lies before what is in flight, or about to be read. *)
Resumed ==
  /\ inflight = <<>> => saved <= offset
  /\ inflight # <<>> => saved <= inflight[1].start

(* With one batch in flight the checkpoint never moves back: not by a      *)
(* commit that rolls the scan back, and not by one behind a restart.       *)
THEOREM CheckpointMonotoneOneBatch ==
  ASSUME MaxInFlight = 1
  PROVE  Spec => CheckpointMonotone
<1>1. Init => Resumed
  BY DEF Init, Resumed
<1>2. IInv /\ Accounted /\ Resumed /\ [Next]_vars => Resumed' /\ [saved' >= saved]_vars
  <2>1. SUFFICES ASSUME IInv, Accounted, Resumed, [Next]_vars
                 PROVE  Resumed' /\ saved' >= saved
    OBVIOUS
  <2>2. /\ TypeOK /\ inflight \in Seq(Batch) /\ Len(inflight) \in Nat
        /\ offset \in Nat /\ saved \in Nat
    BY <2>1 DEF IInv, TypeOK
  <2>3. CASE AskPage
    BY <2>1, <2>2, <2>3 DEF AskPage, Resumed
  <2>4. CASE ReceivePage
    <3>1. PICK q \in reading :
            /\ inflight' = Append(inflight, [start |-> q.start,
                                             count |-> LesserOf(q.max, Total - q.start)])
            /\ UNCHANGED saved
      BY <2>4 DEF ReceivePage
    <3>2. inflight = <<>> /\ q.start = offset
      BY <2>1, <3>1 DEF Accounted
    <3>3. inflight' # <<>> /\ inflight'[1].start = offset
      BY <3>1, <3>2
    <3>4. QED BY <2>1, <2>2, <3>1, <3>2, <3>3 DEF Resumed
  <2>5. CASE ReceiveEmpty
    BY <2>1, <2>2, <2>5 DEF ReceiveEmpty, Resumed
  <2>6. CASE ReceiveFails
    BY <2>1, <2>2, <2>6 DEF ReceiveFails, Resumed
  <2>7. ASSUME inflight # <<>>, NEW acks \in SUBSET Covers(Head(inflight)),
               NEW k \in 0 .. Head(inflight).count,
               Committed(Head(inflight), acks, k),
               saved' \in {saved, Head(inflight).start + k}
        PROVE  Resumed' /\ saved' >= saved
    <3>1. /\ Head(inflight) = inflight[1] /\ inflight[1].start \in Nat
          /\ inflight[1].count \in Nat \ {0} /\ Len(inflight) = 1
          /\ Tail(inflight) = <<>>
      BY <2>1, <2>2, <2>7, BatchParts DEF Accounted
    <3>2. inflight' = <<>> /\ offset' = inflight[1].start + k
      BY <2>1, <2>7, <3>1 DEF Committed, Accounted
    <3>3. saved <= inflight[1].start
      BY <2>1, <2>7 DEF Resumed
    <3>4. QED BY <2>2, <2>7, <3>1, <3>2, <3>3 DEF Resumed
  <2>8. CASE Commit
    <3>1. Head(inflight).count \in 0 .. Head(inflight).count
      BY <2>2, <2>8, BatchParts DEF Commit
    <3>2. QED BY <2>7, <2>8, <3>1 DEF Commit
  <2>9. CASE CommitRefused
    BY <2>7, <2>9 DEF CommitRefused
  <2>10. CASE CommitUnsaved
    BY <2>7, <2>10 DEF CommitUnsaved
  <2>11. CASE Restart
    BY <2>2, <2>11 DEF Restart, Resumed
  <2>12. CASE UNCHANGED vars
    BY <2>1, <2>2, <2>12 DEF vars, Resumed
  <2>13. QED BY <2>1, <2>3, <2>4, <2>5, <2>6, <2>8, <2>9, <2>10, <2>11, <2>12 DEF Next
<1>3. QED
  BY <1>1, <1>2, AccountedInvariant, IndexInvariant, PTL DEF Spec, CheckpointMonotone

=============================================================================
