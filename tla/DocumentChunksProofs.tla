------------------------ MODULE DocumentChunksProofs ------------------------
(***************************************************************************)
(* The framing of a run as request bodies, proved for runs of any length   *)
(* and documents of any size.                                              *)
(***************************************************************************)
EXTENDS DocumentChunks, TLAPS

(* The body in hand: what it starts with, that it fits, and what is carried*)
(* over once it is full.                                                   *)
InHand ==
  /\ bodies = <<>> => first = 1
  /\ bodies # <<>> => bodies[Len(bodies)].last = first - 1
  /\ last > first => Bytes(run.ends, first, last) <= MaxBytes
  /\ phase \in {"frame", "done"} => read = last
  /\ phase = "done" => first = last + 1 /\ read = Len(run.ends)

(* Why the body before the one in hand ended where it did. *)
Ended ==
  /\ read > last => first <= last /\ Bytes(run.ends, first, read) > MaxBytes
  /\ phase = "send" /\ read = last => read = Len(run.ends)
  /\ phase = "frame" /\ bodies # <<>> /\ first > read => read = Len(run.ends)
  /\ bodies # <<>> /\ first <= read => Bytes(run.ends, bodies[Len(bodies)].first, first) > MaxBytes

Chain == \A k \in DOMAIN bodies :
           /\ bodies[k].first = (IF k = 1 THEN 1 ELSE bodies[k - 1].last + 1)
           /\ bodies[k].first <= bodies[k].last

IInv == TypeOK /\ InHand /\ Ended /\ Chain /\ BodyFits /\ CutOnlyWhenFull

-----------------------------------------------------------------------------
LEMMA InitInv == Init => IInv
<1> SUFFICES ASSUME Init PROVE IInv
  OBVIOUS
<1>1. TypeOK
  BY ChunksAssumption DEF Init, TypeOK
<1> QED
  BY <1>1 DEF Init, IInv, InHand, Ended, Chain, BodyFits, CutOnlyWhenFull

(* A step that sends no body keeps what is said of the bodies sent. *)
LEMMA SentKept ==
  ASSUME IInv, UNCHANGED <<run, bodies>>
  PROVE  Chain' /\ BodyFits' /\ CutOnlyWhenFull'
BY DEF IInv, Chain, BodyFits, CutOnlyWhenFull

(* A body sent joins the bodies before it. *)
LEMMA SendBodyInv == ASSUME IInv, SendBody PROVE IInv'
<1> DEFINE n == Len(bodies)
           body == [first |-> first, last |-> last]
<1>1. /\ TypeOK /\ InHand /\ Ended /\ Chain /\ BodyFits /\ CutOnlyWhenFull
      /\ phase = "send" /\ phase' = "frame" /\ run' = run /\ read' = read
      /\ first' = last + 1 /\ last' = read /\ bodies' = Append(bodies, body)
      /\ first <= last
  BY DEF IInv, SendBody, TypeOK
<1>2. first \in Nat /\ last \in Nat /\ read \in Nat /\ last \in {read - 1, read}
      /\ read <= Len(run.ends) /\ Len(run.ends) \in Nat
  <2>1. Len(run.ends) \in Nat
    BY <1>1 DEF TypeOK
  <2>2. read \in 0 .. Len(run.ends) /\ first \in 1 .. read + 1
        /\ last \in first - 1 .. read /\ last \in {read - 1, read}
    BY <1>1 DEF TypeOK
  <2> QED
    BY <2>1, <2>2
<1>3. /\ n \in Nat /\ DOMAIN bodies = 1 .. n /\ DOMAIN bodies' = 1 .. n + 1
      /\ Len(bodies') = n + 1 /\ bodies' # <<>>
      /\ \A k \in 1 .. n : bodies'[k] = bodies[k]
      /\ bodies'[n + 1] = body
      /\ body \in Body /\ body.first = first /\ body.last = last
      /\ n = Len(bodies) /\ (bodies = <<>> <=> n = 0)
  <2>1. bodies \in Seq(Body)
    BY <1>1 DEF TypeOK
  <2>2. body \in Body
    BY <1>2 DEF Body
  <2>3. body.first = first /\ body.last = last
    OBVIOUS
  <2> HIDE DEF body
  <2>4. /\ n \in Nat /\ DOMAIN bodies = 1 .. n /\ (bodies = <<>> <=> n = 0)
    BY <2>1
  <2>5. /\ Len(Append(bodies, body)) = n + 1
        /\ DOMAIN Append(bodies, body) = 1 .. n + 1
        /\ Append(bodies, body)[n + 1] = body
        /\ \A k \in 1 .. n : Append(bodies, body)[k] = bodies[k]
    BY <2>1, <2>2
  <2>6. Append(bodies, body) # <<>>
    BY <2>1, <2>2
  <2> QED
    BY <1>1, <2>2, <2>3, <2>4, <2>5, <2>6
<1> HIDE DEF n, body
<1>4. TypeOK'
  <2>1. bodies' \in Seq(Body)
    BY <1>1, <1>3 DEF TypeOK
  <2> QED
    BY <1>1, <1>2, <2>1 DEF TypeOK
<1>5. InHand'
  <2>1. ~(last' > first')
    BY <1>1, <1>2
  <2> QED
    BY <1>1, <1>3, <1>2, <2>1 DEF InHand
<1>6. Ended'
  <2>1. CASE read = last
    BY <1>1, <1>3, <1>2, <2>1 DEF Ended
  <2>2. CASE read = last + 1
    <3>1. Bytes(run.ends, first, read) > MaxBytes
      BY <1>1, <1>2, <2>2 DEF Ended
    <3> QED
      BY <1>1, <1>3, <1>2, <2>2, <3>1 DEF Ended
  <2> QED
    BY <1>2, <2>1, <2>2
<1>7. Chain'
  <2>1. \A k \in 1 .. n : /\ bodies'[k].first = (IF k = 1 THEN 1 ELSE bodies'[k - 1].last + 1)
                          /\ bodies'[k].first <= bodies'[k].last
    <3> TAKE k \in 1 .. n
    <3>1. bodies'[k] = bodies[k] /\ (k # 1 => bodies'[k - 1] = bodies[k - 1])
      BY <1>3
    <3>2. /\ bodies[k].first = (IF k = 1 THEN 1 ELSE bodies[k - 1].last + 1)
          /\ bodies[k].first <= bodies[k].last
      BY <1>1, <1>3 DEF Chain
    <3> QED
      BY <3>1, <3>2
  <2>2. /\ bodies'[n + 1].first = (IF n + 1 = 1 THEN 1 ELSE bodies'[n].last + 1)
        /\ bodies'[n + 1].first <= bodies'[n + 1].last
    <3>1. /\ bodies'[n + 1].first = first /\ bodies'[n + 1].last = last
          /\ n # 0 => bodies'[n] = bodies[n]
      BY <1>3
    <3>2. IF n = 0 THEN first = 1 ELSE bodies[n].last = first - 1
      BY <1>1, <1>3 DEF InHand
    <3>3. n + 1 - 1 = n /\ (n + 1 = 1 <=> n = 0)
      BY <1>3
    <3>4. n # 0 => bodies'[n].last + 1 = first
      BY <1>3, <1>2, <3>1, <3>2
    <3> QED
      BY <1>1, <3>1, <3>2, <3>3, <3>4
  <2> QED
    BY <1>3, <2>1, <2>2 DEF Chain
<1>8. BodyFits'
  <2>1. \A k \in 1 .. n : \/ bodies'[k].first = bodies'[k].last
                          \/ Bytes(run.ends, bodies'[k].first, bodies'[k].last) <= MaxBytes
    BY <1>1, <1>3 DEF BodyFits
  <2>2. \/ first = last \/ Bytes(run.ends, first, last) <= MaxBytes
    BY <1>1, <1>2 DEF InHand
  <2> QED
    BY <1>1, <1>3, <2>1, <2>2 DEF BodyFits
<1>9. CutOnlyWhenFull'
  <2>1. \A k \in 1 .. n : k > 1 => Bytes(run.ends, bodies'[k - 1].first, bodies'[k].first) > MaxBytes
    <3> TAKE k \in 1 .. n
    <3> HAVE k > 1
    <3>1. bodies'[k] = bodies[k] /\ bodies'[k - 1] = bodies[k - 1]
      BY <1>3
    <3> QED
      BY <1>1, <1>3, <3>1 DEF CutOnlyWhenFull
  <2>2. n + 1 > 1 => Bytes(run.ends, bodies'[n].first, bodies'[n + 1].first) > MaxBytes
    <3> HAVE n + 1 > 1
    <3>1. bodies'[n] = bodies[Len(bodies)] /\ bodies'[n + 1].first = first /\ bodies # <<>>
      BY <1>3
    <3>2. first <= read
      BY <1>1, <1>2
    <3> QED
      BY <1>1, <3>1, <3>2 DEF Ended
  <2>3. \A k \in 1 .. n + 1 :
          k > 1 => Bytes(run.ends, bodies'[k - 1].first, bodies'[k].first) > MaxBytes
    <3> TAKE k \in 1 .. n + 1
    <3>1. k \in 1 .. n \/ k = n + 1
      BY <1>3
    <3>2. CASE k \in 1 .. n
      BY <2>1, <3>2
    <3>3. CASE k = n + 1
      <4>1. k - 1 = n
        BY <1>3, <3>3
      <4> QED
        BY <2>2, <3>3, <4>1
    <3> QED
      BY <3>1, <3>2, <3>3
  <2> QED
    BY <1>1, <1>3, <2>3 DEF CutOnlyWhenFull
<1> QED
  BY <1>4, <1>5, <1>6, <1>7, <1>8, <1>9 DEF IInv

LEMMA AppendInv == ASSUME IInv, AppendDocument PROVE IInv'
<1>1. /\ TypeOK /\ InHand /\ Ended
      /\ phase = "frame" /\ read < Len(run.ends) /\ read' = read + 1
      /\ run' = run /\ first' = first /\ bodies' = bodies
      /\ read = last
  BY DEF IInv, AppendDocument, InHand
<1>2. first \in Nat /\ last \in Nat /\ read \in Nat /\ Len(run.ends) \in Nat
      /\ first <= read + 1 /\ first >= 1
  BY <1>1 DEF TypeOK
<1>3. Chain' /\ BodyFits' /\ CutOnlyWhenFull'
  BY <1>1, SentKept
<1>4. CASE Full
  <2>1. phase' = "send" /\ last' = last /\ last >= first /\ Bytes(run.ends, first, read + 1) > MaxBytes
    BY <1>4 DEF AppendDocument, Full
  <2>2. TypeOK'
    BY <1>1, <1>2, <2>1 DEF TypeOK
  <2>3. InHand'
    BY <1>1, <1>2, <2>1 DEF InHand
  <2>4. Ended'
    BY <1>1, <1>2, <2>1 DEF Ended
  <2> QED
    BY <1>3, <2>2, <2>3, <2>4 DEF IInv
<1>5. CASE ~Full
  <2>1. phase' = phase /\ last' = read + 1
        /\ ~(last >= first /\ Bytes(run.ends, first, read + 1) > MaxBytes)
    BY <1>1, <1>5 DEF AppendDocument, Full
  <2>2. TypeOK'
    BY <1>1, <1>2, <2>1 DEF TypeOK
  <2>3. Bytes(run.ends, first, read + 1) \in Int
    <3>1. run.ends[read + 1] \in Nat
      BY <1>1, <1>2 DEF TypeOK
    <3>2. first # 1 => run.ends[first - 1] \in Nat
      BY <1>1, <1>2 DEF TypeOK
    <3> QED
      BY <1>2, <3>1, <3>2 DEF Bytes
  <2>4. InHand'
    BY <1>1, <1>2, <2>1, <2>3, ChunksAssumption DEF InHand
  <2>5. Ended'
    BY <1>1, <1>2, <2>1 DEF Ended
  <2> QED
    BY <1>3, <2>2, <2>4, <2>5 DEF IInv
<1> QED
  BY <1>4, <1>5

(* The other steps only end the framing, or turn to sending. *)
LEMMA PhaseInv ==
  ASSUME IInv, AppendFails \/ EndOfRun \/ SendFails \/ UNCHANGED vars PROVE IInv'
<1>1. /\ TypeOK /\ InHand /\ Ended
      /\ UNCHANGED <<run, first, last, read, bodies>>
  BY DEF IInv, AppendFails, EndOfRun, SendFails, vars
<1>2. /\ first \in Nat /\ last \in Nat /\ read \in Nat /\ Len(run.ends) \in Nat
      /\ first - 1 <= last
  BY <1>1 DEF TypeOK
<1>3. \/ phase' = "failed"
      \/ phase' = phase
      \/ phase = "frame" /\ read = Len(run.ends) /\ last >= first /\ phase' = "send"
      \/ phase = "frame" /\ read = Len(run.ends) /\ ~(last >= first) /\ phase' = "done"
  BY DEF AppendFails, EndOfRun, SendFails, vars
<1>4. TypeOK'
  BY <1>1, <1>2, <1>3 DEF TypeOK
<1>5. InHand'
  BY <1>1, <1>2, <1>3 DEF InHand
<1>6. Ended'
  BY <1>1, <1>2, <1>3 DEF Ended
<1>7. Chain' /\ BodyFits' /\ CutOnlyWhenFull'
  BY <1>1, SentKept
<1> QED
  BY <1>4, <1>5, <1>6, <1>7 DEF IInv

(* The inductive invariant of the framing: the bodies sent and the body in *)
(* hand follow each other without a gap.                                   *)
THEOREM ChunksInvariant == Spec => []IInv
<1>1. IInv /\ [Next]_vars => IInv'
  BY SendBodyInv, AppendInv, PhaseInv DEF Next
<1> QED
  BY InitInv, <1>1, PTL DEF Spec

(* The framing's state keeps its types: no body names a document outside   *)
(* the run, and the reading never goes past its end.                       *)
THEOREM TypeCorrect == Spec => []TypeOK
<1>1. IInv => TypeOK
  BY DEF IInv
<1> QED
  BY ChunksInvariant, <1>1, PTL

(* Every document is framed once and in order, for runs of any length.     *)
THEOREM EveryDocumentOnceHolds == Spec => []EveryDocumentOnce
<1>1. IInv => EveryDocumentOnce
  <2> SUFFICES ASSUME IInv PROVE EveryDocumentOnce
    OBVIOUS
  <2>1. /\ TypeOK /\ InHand /\ Chain
    BY DEF IInv
  <2>2. first \in Nat /\ last \in Nat /\ read \in Nat /\ Len(run.ends) \in Nat
    BY <2>1 DEF TypeOK
  <2>3. phase = "done" => IF bodies = <<>> THEN Len(run.ends) = 0
                          ELSE bodies[Len(bodies)].last = Len(run.ends)
    BY <2>1, <2>2 DEF InHand
  <2>4. Len(run.ends) = 0 => run.ends = <<>>
    BY <2>1 DEF TypeOK
  <2> QED
    BY <2>1, <2>3, <2>4 DEF EveryDocumentOnce, Chain
<1> QED
  BY ChunksInvariant, <1>1, PTL

(* No body but a single document is past `max_request_bytes`, whatever the *)
(* sizes of the documents.                                                 *)
THEOREM BodyFitsHolds == Spec => []BodyFits
<1>1. IInv => BodyFits
  BY DEF IInv
<1> QED
  BY ChunksInvariant, <1>1, PTL

(* No body is cut before it is full, whatever the sizes of the documents.  *)
THEOREM CutOnlyWhenFullHolds == Spec => []CutOnlyWhenFull
<1>1. IInv => CutOnlyWhenFull
  BY DEF IInv
<1> QED
  BY ChunksInvariant, <1>1, PTL

=============================================================================
