--------------------------- MODULE RebuildProofs ---------------------------
(***************************************************************************)
(* Proofs about a rebuild and its swap, for streams and batches of every   *)
(* length and any number of faults and crashes.                            *)
(***************************************************************************)
EXTENDS Rebuild, SettlingProofs, FiniteSetTheorems

(* What the rules of config.rs leave of a configuration with `swap_into`.  *)
Settings == config.wait /\ config.method \in WriteMethods

Messages == stream \in Seq(Message)

(* No message that is sent for its document comes behind message n. *)
Final(n) == \A m \in 1 .. Len(stream) : Doc(m) = Doc(n) /\ Writes(m) => m <= n

(* What message n makes of its document. *)
Effect(n) == IF Deletes(n) THEN {} ELSE {n}

(* Where a route starts, or is not yet past its first batch, nothing is    *)
(* under way; a pass that may swap is over.                                *)
Resting ==
  /\ phase = "start" => received = committed /\ backlog = {}
  /\ phase = "running" /\ ~pass.written => received = committed /\ backlog = {}
  /\ phase = "running" /\ pass.written => received > 0
  /\ phase \in {"create", "swap", "delete"} => Drained /\ MaySwap("Completed") /\ received > 0

(* The source is exhausted: nothing will be written or swapped any more.   *)
Over ==
  \/ phase \in {"delete", "ended"}
  \/ /\ committed = Len(stream)
     /\ phase = "start" \/ (phase = "running" /\ ~pass.written)

(* The index that is built holds nothing of a document the source does not *)
(* write, and of one whose last message was acknowledged what that message *)
(* made of it.                                                             *)
Latest ==
  ~Over =>
    /\ phase \in {"running", "create", "swap"} \/ acked # {} => built # Absent
    /\ built # Absent => \A d \in Docs :
         (\A n \in 1 .. Len(stream) : Writes(n) => Doc(n) # d) => built[d] = {}
    /\ \A n \in acked : Final(n) => built[Doc(n)] = Effect(n)

(* Every message received has a place, and what is resent is newer than    *)
(* what was acknowledged of its document.                                  *)
Sorted ==
  /\ 1 .. received \subseteq acked \cup dead \cup backlog
  /\ \A m \in backlog, n \in acked : Doc(m) = Doc(n) => n < m

(* The pass remembers the last message of a document that is not written,  *)
(* unless a crash made the route forget that it refused one.               *)
Remembered ==
  /\ ~Keyed => pass.unwritten = {}
  /\ phase = "start" /\ forgotten = {} => dead = {}
  /\ phase \in {"running", "create", "swap"} /\ forgotten = {} =>
      /\ \A n \in dead \cup backlog :
           Final(n) => pass.refused \/ (Writes(n) /\ Doc(n) \in pass.unwritten)
      /\ ~pass.refused => \A m \in backlog, n \in dead : n < m

(* The live index is replaced only when the source is exhausted. *)
Replaced ==
  live = before \/ (before = Absent /\ live = Empty) \/ committed = Len(stream)

(* The type invariant, with what makes it inductive.                       *)
Typed == /\ Messages /\ TypeOK /\ Settings
         /\ phase = "running" => built # Absent
         /\ \A m \in backlog : committed < m

IInv == /\ Typed
        /\ Resting /\ Latest /\ Sorted /\ Remembered /\ Replaced /\ LiveOldOrWhole

(* What a pass holds against the swap is in the dead letters or is still   *)
(* to be resent.                                                           *)
Justified ==
  /\ phase = "start" /\ crashes = 0 => received = 0
  /\ phase = "running" =>
       /\ crashes = 0 /\ ~pass.written => received = 0
       /\ Keyed /\ pass.refused => dead # {}
       /\ Keyed /\ dead = {} => \A d \in pass.unwritten : \E m \in backlog : Doc(m) = d

-----------------------------------------------------------------------------
(***************************************************************************)
(* One send_batch call, seen from outside.                                 *)
(***************************************************************************)

(* The call on the messages in S acknowledged those in ok, asked for those *)
(* in retried again and refused those in failed; the writes of those in    *)
(* landed were applied.                                                    *)
Answer(S, landed, ok, retried, failed) ==
  /\ ok \cup retried \cup failed = S
  /\ ok \cap retried = {} /\ ok \cap failed = {} /\ retried \cap failed = {}
  /\ ok \subseteq landed /\ landed \subseteq S
  /\ \A n \in landed \cup retried : Writes(n)
  /\ \A m \in retried, n \in ok : Doc(m) = Doc(n) => n < m

(* A call sends its messages in source order, so what it acknowledges was  *)
(* applied and what is to be resent is newer than that.                    *)
LEMMA Answered ==
  ASSUME Messages, config.wait, NEW numbers \in Seq(1 .. Len(stream)),
         \A k, l \in 1 .. Len(numbers) : k < l => numbers[k] < numbers[l],
         Deliver(numbers)
  PROVE  \E landed, ok, retried, failed \in SUBSET (1 .. Len(stream)) :
           /\ Answer(Range(numbers), landed, ok, retried, failed)
           /\ built' = Written(built, landed) /\ pass' = Recorded(failed, retried, ok)
           /\ acked' = acked \cup ok /\ dead' = dead \cup failed /\ backlog' = retried
<1>1. /\ stream \in [1 .. Len(stream) -> Message] /\ Len(stream) \in Nat
      /\ numbers \in [1 .. Len(numbers) -> 1 .. Len(stream)] /\ Len(numbers) \in Nat
      /\ DOMAIN numbers = 1 .. Len(numbers)
  BY LenProperties DEF Messages
<1>2. PICK b : b = [i \in DOMAIN numbers |-> stream[numbers[i]]]
  OBVIOUS
<1>3. /\ b \in Seq(Message) /\ Len(b) = Len(numbers)
      /\ \A i \in 1 .. Len(b) : b[i] = stream[numbers[i]]
  <2>1. b \in [1 .. Len(numbers) -> Message]
    BY <1>1, <1>2
  <2>2. b \in Seq(Message) /\ Len(b) = Len(numbers)
    <3>1. b \in Seq(Message)
      BY <1>1, <2>1, SeqDef
    <3>2. QED BY <1>1, <2>1, <3>1, LenProperties
  <2>3. QED BY <1>1, <1>2, <2>2
<1>4. PICK p : p = PlanOf(b)
  OBVIOUS
<1>5. Sound(b, p, Len(b)) /\ p \in Plan
  BY <1>3, <1>4, PlanOfSound, SoundParts
<1> DEFINE judged(c, v) ==
             {numbers[i] : i \in {k \in DOMAIN numbers :
                Settled(p, OutcomesOf(c.issued, c.unissued, c.confirmed), k) = v}}
           Done(c, landed) ==
             /\ built' = Written(built, landed)
             /\ pass' = Recorded(judged(c, "permanent"), judged(c, "retryable"), judged(c, "ok"))
             /\ acked' = acked \cup judged(c, "ok")
             /\ dead' = dead \cup judged(c, "permanent")
             /\ backlog' = judged(c, "retryable")
<1>6. PICK c \in Calls(p) : \E landed \in Landings(numbers, p, c) : Done(c, landed)
  BY <1>2, <1>4 DEF Deliver
<1>7. PICK landed \in Landings(numbers, p, c) : Done(c, landed)
  BY <1>6
<1> DEFINE outcomes == OutcomesOf(c.issued, c.unissued, c.confirmed)
<1>8. outcomes \in Seq(Outcome) /\ Len(outcomes) <= Len(p.runs)
  BY <1>5, CallOutcomes
<1>9. ASSUME NEW i \in 1 .. Len(b)
      PROVE  /\ Settled(p, outcomes, i) \in {"ok", "retryable", "permanent"}
             /\ Settled(p, outcomes, i) # "permanent" => Sendable(b[i])
             /\ Settled(p, outcomes, i) = "ok" => numbers[i] \in landed
  <2>1. Settled(p, outcomes, i) \in {"ok", "retryable", "permanent"}
    BY <1>3, <1>5, <1>8, SettledCases DEF Outcome, Failure
  <2>2. Settled(p, outcomes, i) # "permanent" => ~Refused(p, i)
    BY <1>3, <1>5, <1>8, SettledCases
  <2>3. ~Refused(p, i) => Sendable(b[i])
    BY <1>3, <1>5, SoundParts
  <2>4. ASSUME Settled(p, outcomes, i) = "ok" PROVE numbers[i] \in landed
    <3>1. PICK r \in 1 .. Len(p.runs) :
            Carriers(p, i) = {r} /\ Settled(p, outcomes, i) = RunVerdict(p, outcomes, r)
      BY <1>3, <1>5, <1>8, <2>2, <2>4, SettledCases
    <3>2. r \in 1 .. Len(c.confirmed) /\ c.confirmed[r] = "ok"
      BY <1>5, <2>4, <3>1, OkWasConfirmed
    <3>3. r \in DOMAIN c.confirmed \ FailedRuns(c.confirmed)
      <4>1. c.confirmed \in Seq(Outcome)
        BY <1>5, CallOutcomes
      <4>2. QED BY <3>2, <4>1 DEF FailedRuns
    <3>4. i \in Range(p.runs[r].positions)
      BY <3>1 DEF Carriers
    <3>5. numbers[i] \in Carried(numbers, p, DOMAIN c.confirmed \ FailedRuns(c.confirmed))
      BY <3>3, <3>4 DEF Carried
    <3>6. QED BY <3>5 DEF Landings
  <2>5. QED BY <2>1, <2>2, <2>3, <2>4
<1>10. ASSUME NEW n \in landed
      PROVE  \E i \in 1 .. Len(b) : n = numbers[i] /\ Sendable(b[i])
  <2>1. n \in Carried(numbers, p, 1 .. Min({c.issued + 1, Len(p.runs)}))
    BY DEF Landings
  <2>2. Min({c.issued + 1, Len(p.runs)}) <= Len(p.runs) /\ Len(p.runs) \in Nat
        /\ Min({c.issued + 1, Len(p.runs)}) \in Nat
    <3>1. c.issued \in Nat /\ Len(p.runs) \in Nat
      BY <1>5, CallOutcomes, PlanParts
    <3>2. {c.issued + 1, Len(p.runs)} \subseteq Nat
      BY <3>1
    <3>3. QED BY <3>1, <3>2, MinOf
  <2>3. PICK r \in 1 .. Min({c.issued + 1, Len(p.runs)}) :
          \E i \in Range(p.runs[r].positions) : n = numbers[i]
    BY <2>1 DEF Carried
  <2>4. PICK i \in Range(p.runs[r].positions) : n = numbers[i]
    BY <2>3
  <2>5. r \in 1 .. Len(p.runs) /\ r \in Carriers(p, i) /\ Has(p, r, i)
    <3>1. r \in 1 .. Len(p.runs)
      BY <2>2, <2>3
    <3>2. DOMAIN p.runs = 1 .. Len(p.runs)
      BY <1>5, PlanParts
    <3>3. r \in Carriers(p, i)
      BY <2>4, <3>1, <3>2 DEF Carriers
    <3>4. QED BY <1>5, <3>1, <3>3, CarriersHave
  <2>6. i \in 1 .. Len(b)
    BY <1>3, <1>5, <2>5, SoundParts DEF Has
  <2>7. Sendable(b[i])
    BY <1>3, <1>5, <2>5, <2>6, SoundParts
  <2>8. QED BY <2>4, <2>6, <2>7
<1>11. ASSUME NEW i \in 1 .. Len(b), NEW j \in 1 .. Len(b),
              Settled(p, outcomes, i) = "retryable", Settled(p, outcomes, j) = "ok",
              Doc(numbers[i]) = Doc(numbers[j])
       PROVE  numbers[j] < numbers[i]
  <2>1. SameKey(b[i], b[j])
    BY <1>3, <1>11, RebuildAssumption DEF SameKey, TargetIndex, Doc, RebuildAssumption
  <2>2. ~(i < j)
    BY <1>3, <1>4, <1>8, <1>11, <2>1, SettleKeepsOrder
  <2>3. i # j
    BY <1>11
  <2>4. j < i
    BY <1>1, <1>3, <2>2, <2>3
  <2>5. QED BY <1>3, <2>4
<1>12. PICK ok, retried, failed :
         /\ ok = judged(c, "ok") /\ retried = judged(c, "retryable")
         /\ failed = judged(c, "permanent")
  OBVIOUS
<1>13. /\ \A n : n \in ok <=>
            \E i \in 1 .. Len(b) : Settled(p, outcomes, i) = "ok" /\ n = numbers[i]
       /\ \A n : n \in retried <=>
            \E i \in 1 .. Len(b) : Settled(p, outcomes, i) = "retryable" /\ n = numbers[i]
       /\ \A n : n \in failed <=>
            \E i \in 1 .. Len(b) : Settled(p, outcomes, i) = "permanent" /\ n = numbers[i]
  BY <1>1, <1>3, <1>12
<1>14. /\ built' = Written(built, landed) /\ pass' = Recorded(failed, retried, ok)
       /\ acked' = acked \cup ok /\ dead' = dead \cup failed /\ backlog' = retried
  BY <1>7, <1>12
<1> HIDE DEF outcomes, judged, Done
<1>15. \A i, j \in 1 .. Len(b) : numbers[i] = numbers[j] => i = j
  <2>1. ASSUME NEW i \in 1 .. Len(b), NEW j \in 1 .. Len(b), numbers[i] = numbers[j], i # j
        PROVE  FALSE
    <3>1. i \in Nat /\ j \in Nat /\ numbers[i] \in Nat /\ numbers[j] \in Nat
      BY <1>1, <1>3
    <3>2. i < j \/ j < i
      BY <2>1, <3>1
    <3>3. numbers[i] < numbers[j] \/ numbers[j] < numbers[i]
      BY <1>3, <3>2
    <3>4. QED BY <2>1, <3>1, <3>3
  <2>2. QED BY <2>1
<1>16. Range(numbers) = {numbers[i] : i \in 1 .. Len(b)}
  BY <1>1, <1>3 DEF Range
<1>17. /\ ok \subseteq Range(numbers) /\ retried \subseteq Range(numbers)
       /\ failed \subseteq Range(numbers) /\ landed \subseteq Range(numbers)
  BY <1>10, <1>13, <1>16
<1>18. Range(numbers) \subseteq 1 .. Len(stream)
  BY <1>1 DEF Range
<1>19. ok \cup retried \cup failed = Range(numbers)
  <2>1. ASSUME NEW n \in Range(numbers) PROVE n \in ok \cup retried \cup failed
    <3>1. PICK i \in 1 .. Len(b) : n = numbers[i]
      BY <1>16
    <3>2. Settled(p, outcomes, i) \in {"ok", "retryable", "permanent"}
      BY <1>9
    <3>3. QED BY <1>13, <3>1, <3>2
  <2>2. QED BY <1>17, <2>1
<1>20. ok \cap retried = {} /\ ok \cap failed = {} /\ retried \cap failed = {}
  <2>1. ASSUME NEW n \in ok PROVE n \notin retried /\ n \notin failed
    <3>1. PICK i \in 1 .. Len(b) : Settled(p, outcomes, i) = "ok" /\ n = numbers[i]
      BY <1>13
    <3>2. \A j \in 1 .. Len(b) : n = numbers[j] => Settled(p, outcomes, j) = "ok"
      BY <1>15, <3>1
    <3>3. QED BY <1>13, <3>2
  <2>2. ASSUME NEW n \in retried PROVE n \notin failed
    <3>1. PICK i \in 1 .. Len(b) : Settled(p, outcomes, i) = "retryable" /\ n = numbers[i]
      BY <1>13
    <3>2. \A j \in 1 .. Len(b) : n = numbers[j] => Settled(p, outcomes, j) = "retryable"
      BY <1>15, <3>1
    <3>3. QED BY <1>13, <3>2
  <2>3. QED BY <2>1, <2>2
<1>21. ok \subseteq landed
  BY <1>9, <1>13
<1>22. \A n \in landed \cup retried : Writes(n)
  <2>1. ASSUME NEW n \in retried PROVE Writes(n)
    <3>1. PICK i \in 1 .. Len(b) : Settled(p, outcomes, i) = "retryable" /\ n = numbers[i]
      BY <1>13
    <3>2. Sendable(b[i])
      BY <1>9, <3>1
    <3>3. QED BY <1>3, <3>1, <3>2 DEF Sendable, Writes
  <2>2. ASSUME NEW n \in landed PROVE Writes(n)
    BY <1>3, <1>10 DEF Sendable, Writes
  <2>3. QED BY <2>1, <2>2
<1>23. \A m \in retried, n \in ok : Doc(m) = Doc(n) => n < m
  <2>1. ASSUME NEW m \in retried, NEW n \in ok, Doc(m) = Doc(n) PROVE n < m
    <3>1. PICK i \in 1 .. Len(b) : Settled(p, outcomes, i) = "retryable" /\ m = numbers[i]
      BY <1>13
    <3>2. PICK j \in 1 .. Len(b) : Settled(p, outcomes, j) = "ok" /\ n = numbers[j]
      BY <1>13
    <3>3. QED BY <1>11, <2>1, <3>1, <3>2
  <2>2. QED BY <2>1
<1>24. Answer(Range(numbers), landed, ok, retried, failed)
  BY <1>17, <1>19, <1>20, <1>21, <1>22, <1>23 DEF Answer
<1>25. QED BY <1>14, <1>17, <1>18, <1>24

(* What the replacing writes of a set of messages make of a document is    *)
(* what the last of them makes of it.                                      *)
LEMMA LastWins ==
  ASSUME config.method = "replace", NEW W, W \subseteq Nat,
         NEW most \in W, \A m \in W : m <= most, NEW old
  PROVE  Content(old, W) = Effect(most)
<1> DEFINE deletes == {n \in W : Deletes(n)}
           base == IF deletes = {} THEN old ELSE {}
           added == {n \in W : \A m \in deletes : m < n}
<1>1. Content(old, W) = IF added = {} THEN base ELSE {Max(added)}
  BY DEF Content
<1>2. CASE Deletes(most)
  <2>1. most \in deletes
    BY <1>2
  <2>2. added = {}
    <3>1. \A n \in W : ~(most < n)
      OBVIOUS
    <3>2. QED BY <2>1, <3>1
  <2>3. base = {}
    BY <2>1
  <2> HIDE DEF added, base
  <2>4. QED BY <1>1, <1>2, <2>2, <2>3 DEF Effect
<1>3. CASE ~Deletes(most)
  <2>1. most \in added
    <3>1. \A m \in W : m # most => m < most
      OBVIOUS
    <3>2. QED BY <1>3, <3>1
  <2>2. added \subseteq Nat /\ \A n \in added : n <= most
    OBVIOUS
  <2> HIDE DEF added, base
  <2>3. Max(added) = most
    <3>1. added # {} /\ \A n \in added : n <= most /\ n \in Nat
      BY <2>1, <2>2
    <3>2. Max(added) \in added /\ \A n \in added : n <= Max(added)
      <4>1. added \subseteq 0 .. most /\ most \in Nat
        BY <2>2
      <4>2. QED BY <3>1, <4>1, MaxOf
    <3>3. Max(added) \in Nat /\ most \in Nat
      BY <3>1, <3>2
    <3>4. QED BY <2>1, <3>1, <3>2, <3>3
  <2>4. QED BY <1>1, <1>3, <2>1, <2>3 DEF Effect
<1>4. QED BY <1>2, <1>3

-----------------------------------------------------------------------------
(***************************************************************************)
(* What Receive and Resend have in common.                                 *)
(***************************************************************************)

(* A step that sends the messages in S: new ones, behind all that were     *)
(* received, or the ones to resend.                                        *)
Batch(S, landed, ok, retried, failed) ==
  /\ Answer(S, landed, ok, retried, failed)
  /\ phase = "running" /\ S # {}
  /\ \/ S = backlog /\ received' = received
     \/ /\ backlog = {} /\ committed = received
        /\ received' \in received + 1 .. Len(stream) /\ S = received + 1 .. received'
  /\ built' = Written(built, landed) /\ pass' = Recorded(failed, retried, ok)
  /\ acked' = acked \cup ok /\ dead' = dead \cup failed /\ backlog' = retried
  /\ faults' \in 0 .. MaxFaults
  /\ UNCHANGED <<stream, config, phase, live, before, committed, forgotten, crashes>>

(* Receive sends the next messages of the source, Resend the backlog in    *)
(* source order.                                                           *)
LEMMA Batched ==
  ASSUME Typed, Receive \/ Resend
  PROVE  \E S, landed, ok, retried, failed \in SUBSET (1 .. Len(stream)) :
           Batch(S, landed, ok, retried, failed)
<1>1. /\ Messages /\ config.wait /\ Len(stream) \in Nat
      /\ committed \in Nat /\ received \in Nat /\ received <= Len(stream)
      /\ backlog \subseteq 1 .. received /\ faults \in 0 .. MaxFaults /\ MaxFaults \in Nat
  BY LenProperties, RebuildAssumption
  DEF Typed, TypeOK, Messages, Settings, RebuildAssumption
<1>2. ASSUME NEW numbers, Deliver(numbers)
      PROVE  /\ faults' \in 0 .. MaxFaults
             /\ UNCHANGED <<stream, config, phase, live, before, committed, forgotten, crashes>>
  BY <1>1, <1>2 DEF Deliver
<1>3. CASE Receive
  <2>1. phase = "running" /\ committed = received /\ received < Len(stream)
    BY <1>3 DEF Receive
  <2>2. PICK n \in received + 1 .. Min({received + BatchSize, Len(stream)}) :
          received' = n /\ Deliver([k \in 1 .. n - received |-> received + k])
    BY <1>3 DEF Receive
  <2>3. n \in received + 1 .. Len(stream)
    <3>1. BatchSize \in Nat
      BY RebuildAssumption DEF RebuildAssumption
    <3>2. {received + BatchSize, Len(stream)} \subseteq Nat
      BY <1>1, <3>1
    <3>3. /\ Min({received + BatchSize, Len(stream)}) \in Nat
          /\ Min({received + BatchSize, Len(stream)}) <= Len(stream)
      BY <3>2, MinOf
    <3>4. QED BY <1>1, <2>2, <3>3
  <2>4. PICK numbers : numbers = [k \in 1 .. n - received |-> received + k]
    OBVIOUS
  <2>5. numbers \in Seq(1 .. Len(stream)) /\ Len(numbers) = n - received
    <3>1. n - received \in Nat
      BY <1>1, <2>3
    <3>2. numbers \in [1 .. n - received -> 1 .. Len(stream)]
      BY <1>1, <2>3, <2>4
    <3>3. numbers \in Seq(1 .. Len(stream))
      BY <3>1, <3>2, SeqDef
    <3>4. QED BY <3>1, <3>2, <3>3, LenProperties
  <2>6. \A k, l \in 1 .. Len(numbers) : k < l => numbers[k] < numbers[l]
    BY <1>1, <2>3, <2>4, <2>5
  <2>7. Range(numbers) = received + 1 .. n
    <3>1. \A m \in received + 1 .. n :
            m - received \in 1 .. n - received /\ numbers[m - received] = m
      BY <1>1, <2>3, <2>4
    <3>2. \A k \in 1 .. n - received : numbers[k] \in received + 1 .. n
      BY <1>1, <2>3, <2>4
    <3>3. DOMAIN numbers = 1 .. n - received
      BY <2>4
    <3>4. QED BY <3>1, <3>2, <3>3 DEF Range
  <2>8. Deliver(numbers)
    BY <2>2, <2>4
  <2>9. PICK landed, ok, retried, failed \in SUBSET (1 .. Len(stream)) :
          /\ Answer(Range(numbers), landed, ok, retried, failed)
          /\ built' = Written(built, landed) /\ pass' = Recorded(failed, retried, ok)
          /\ acked' = acked \cup ok /\ dead' = dead \cup failed /\ backlog' = retried
    BY <1>1, <2>5, <2>6, <2>8, Answered
  <2>10. backlog = {}
    BY <1>1, <2>1 DEF Typed
  <2>11. Batch(received + 1 .. n, landed, ok, retried, failed)
    <3>1. received + 1 \in received + 1 .. n /\ received' = n
      BY <1>1, <2>2, <2>3
    <3>2. /\ faults' \in 0 .. MaxFaults
          /\ UNCHANGED <<stream, config, phase, live, before, committed, forgotten, crashes>>
      BY <1>2, <2>8
    <3>3. Answer(received + 1 .. n, landed, ok, retried, failed)
      BY <2>7, <2>9
    <3>4. QED BY <2>1, <2>3, <2>9, <2>10, <3>1, <3>2, <3>3 DEF Batch
  <2>12. received + 1 .. n \in SUBSET (1 .. Len(stream))
    BY <1>1, <2>3
  <2>13. QED BY <2>11, <2>12
<1>4. CASE Resend
  <2>1. phase = "running" /\ backlog # {} /\ received' = received
    BY <1>4 DEF Resend
  <2>2. PICK numbers \in InOrder(backlog) : Deliver(numbers)
    BY <1>4 DEF Resend
  <2>3. Cardinality(backlog) \in Nat
    <3>1. IsFiniteSet(1 .. received)
      BY <1>1, FS_Interval
    <3>2. QED BY <1>1, <3>1, FS_Subset, FS_CardinalityType
  <2>4. /\ numbers \in [1 .. Cardinality(backlog) -> backlog] /\ Range(numbers) = backlog
        /\ \A k, l \in DOMAIN numbers : k < l => numbers[k] < numbers[l]
    BY <2>2 DEF InOrder
  <2>5. numbers \in Seq(1 .. Len(stream)) /\ DOMAIN numbers = 1 .. Len(numbers)
    <3>1. numbers \in [1 .. Cardinality(backlog) -> 1 .. Len(stream)]
      <4>1. backlog \subseteq 1 .. Len(stream)
        BY <1>1
      <4>2. QED BY <2>4, <4>1, Zenon
    <3>2. numbers \in Seq(1 .. Len(stream))
      BY <2>3, <3>1, SeqDef
    <3>3. QED BY <3>2, LenProperties
  <2>6. PICK landed, ok, retried, failed \in SUBSET (1 .. Len(stream)) :
          /\ Answer(Range(numbers), landed, ok, retried, failed)
          /\ built' = Written(built, landed) /\ pass' = Recorded(failed, retried, ok)
          /\ acked' = acked \cup ok /\ dead' = dead \cup failed /\ backlog' = retried
    BY <1>1, <2>2, <2>4, <2>5, Answered
  <2>7. Batch(backlog, landed, ok, retried, failed)
    BY <1>2, <2>1, <2>2, <2>4, <2>6 DEF Batch
  <2>8. backlog \in SUBSET (1 .. Len(stream))
    BY <1>1
  <2>9. QED BY <2>7, <2>8
<1>5. QED BY <1>3, <1>4

-----------------------------------------------------------------------------
(***************************************************************************)
(* Types.                                                                  *)
(***************************************************************************)

(* Writes make of a document a set of the numbers of messages again.       *)
LEMMA ContentType ==
  ASSUME NEW N \in Nat, NEW old \in SUBSET (0 .. N), NEW W \in SUBSET (1 .. N)
  PROVE  Content(old, W) \subseteq 0 .. N
<1> DEFINE deletes == {n \in W : Deletes(n)}
           base == IF deletes = {} THEN old ELSE {}
           added == {n \in W : \A m \in deletes : m < n}
<1>1. Content(old, W) = IF added = {} \/ (config.method = "update_existing" /\ base = {})
                        THEN base
                        ELSE IF config.method = "replace" THEN {Max(added)}
                        ELSE base \cup added
  BY DEF Content
<1>2. base \subseteq 0 .. N /\ added \subseteq 0 .. N
  <2> HIDE DEF deletes
  <2>1. base \subseteq 0 .. N
    OBVIOUS
  <2>2. added \subseteq W
    OBVIOUS
  <2>3. 1 .. N \subseteq 0 .. N
    OBVIOUS
  <2> HIDE DEF base, added
  <2>4. QED BY <2>1, <2>2, <2>3
<1> HIDE DEF base, added
<1>3. added # {} => Max(added) \in added
  BY <1>2, MaxOf
<1>4. QED BY <1>1, <1>2, <1>3

(* A document that is not written stays as it is. *)
LEMMA Unwritten ==
  ASSUME NEW old
  PROVE  Content(old, {}) = old
BY DEF Content

LEMMA WrittenType ==
  ASSUME NEW N \in Nat, NEW contents \in [Docs -> SUBSET (0 .. N)], NEW W \in SUBSET (1 .. N)
  PROVE  Written(contents, W) \in [Docs -> SUBSET (0 .. N)]
<1>1. ASSUME NEW d \in Docs
      PROVE  Content(contents[d], {n \in W : Doc(n) = d}) \in SUBSET (0 .. N)
  <2>1. contents[d] \in SUBSET (0 .. N) /\ {n \in W : Doc(n) = d} \in SUBSET (1 .. N)
    OBVIOUS
  <2>2. QED BY <2>1, ContentType
<1>2. QED BY <1>1 DEF Written

LEMMA EmptyType ==
  ASSUME NEW N \in Nat
  PROVE  Empty \in [Docs -> SUBSET (0 .. N)] /\ Old \in [Docs -> SUBSET (0 .. N)]
BY DEF Empty, Old

(* An index that exists is told from one that does not.                    *)
LEMMA Present ==
  ASSUME NEW N \in Nat, NEW contents \in [Docs -> SUBSET (0 .. N)]
  PROVE  contents # Absent
<1>1. contents \in [Docs -> SUBSET Nat]
  OBVIOUS
<1>2. QED BY <1>1, RebuildAssumption DEF RebuildAssumption

(* What a pass records are documents. *)
LEMMA RecordedType ==
  ASSUME NEW failed, NEW retried, NEW ok, pass.unwritten \subseteq Docs,
         \A n \in retried : Doc(n) \in Docs
  PROVE  Recorded(failed, retried, ok) \in
           [written : BOOLEAN, refused : BOOLEAN, unwritten : SUBSET Docs]
<1> DEFINE cleared == {Doc(n) : n \in {k \in ok : \A m \in retried : Doc(m) = Doc(k) => m <= k}}
           noted == {Doc(n) : n \in {k \in retried : \A m \in ok : Doc(m) = Doc(k) => m <= k}}
           unwritten == IF Keyed THEN (pass.unwritten \ cleared) \cup noted ELSE {}
           refused == pass.refused \/ failed # {} \/ (retried # {} /\ ~Keyed)
<1>1. Recorded(failed, retried, ok) =
        [written |-> TRUE, refused |-> refused, unwritten |-> unwritten]
  BY DEF Recorded
<1>2. noted \subseteq Docs
  OBVIOUS
<1> HIDE DEF noted, cleared
<1>3. unwritten \in SUBSET Docs /\ refused \in BOOLEAN
  BY <1>2
<1> HIDE DEF unwritten, refused
<1>4. QED BY <1>1, <1>3

(* What TypeOK says of the numbers in it. *)
LEMMA Numbers ==
  ASSUME Typed
  PROVE  /\ Len(stream) \in Nat /\ committed \in Nat /\ received \in Nat
         /\ committed <= received /\ received <= Len(stream)
         /\ backlog \subseteq 1 .. received /\ acked \subseteq 1 .. received
         /\ dead \subseteq 1 .. received /\ forgotten \subseteq 1 .. Len(stream)
         /\ MaxFaults \in Nat /\ faults \in 0 .. MaxFaults
         /\ MaxCrashes \in Nat /\ crashes \in 0 .. MaxCrashes
         /\ \A n \in 1 .. Len(stream) : Doc(n) \in Docs
<1>1. Len(stream) \in Nat /\ \A n \in 1 .. Len(stream) : stream[n] \in Message
  BY LenProperties, ElementOfSeq DEF Typed, Messages
<1>2. \A n \in 1 .. Len(stream) : Doc(n) \in Docs
  BY <1>1 DEF Doc, Message
<1>3. committed \in 0 .. Len(stream) /\ received \in committed .. Len(stream)
  BY DEF Typed, TypeOK
<1>4. /\ backlog \subseteq 1 .. received /\ acked \subseteq 1 .. received
      /\ dead \subseteq 1 .. received /\ forgotten \subseteq 1 .. Len(stream)
      /\ faults \in 0 .. MaxFaults /\ crashes \in 0 .. MaxCrashes
  BY DEF Typed, TypeOK
<1>5. MaxFaults \in Nat /\ MaxCrashes \in Nat
  BY RebuildAssumption DEF RebuildAssumption
<1>6. QED BY <1>1, <1>2, <1>3, <1>4, <1>5

LEMMA TypedInit == Init => Typed
<1> SUFFICES ASSUME Init PROVE Typed
  OBVIOUS
<1>1. Messages
  BY RebuildAssumption DEF Init, Messages, RebuildAssumption
<1>2. Len(stream) \in Nat
  BY <1>1, LenProperties DEF Messages
<1>3. config \in Config /\ Settings
  BY DEF Init, Accepted, SwapRules, Settings
<1>4. built \in Contents /\ live \in Contents /\ before \in Contents
  BY <1>2, EmptyType DEF Init, Contents
<1>5. pass \in [written : BOOLEAN, refused : BOOLEAN, unwritten : SUBSET Docs]
  BY DEF Init, NewPass
<1>6. TypeOK
  BY <1>2, <1>3, <1>4, <1>5, RebuildAssumption DEF Init, TypeOK, RebuildAssumption
<1>7. QED BY <1>1, <1>3, <1>6 DEF Typed, Init

(* A step that sends messages. *)
LEMMA TypedBatch ==
  ASSUME Typed, NEW S \in SUBSET (1 .. Len(stream)), NEW landed \in SUBSET (1 .. Len(stream)),
         NEW ok \in SUBSET (1 .. Len(stream)), NEW retried \in SUBSET (1 .. Len(stream)),
         NEW failed \in SUBSET (1 .. Len(stream)), Batch(S, landed, ok, retried, failed)
  PROVE  Typed' /\ built \in [Docs -> SUBSET (0 .. Len(stream))] /\ S \subseteq 1 .. received'
<1>1. /\ stream' = stream /\ config' = config /\ phase' = phase /\ live' = live
      /\ before' = before /\ committed' = committed /\ forgotten' = forgotten
      /\ crashes' = crashes
  BY DEF Batch
<1>2. Messages' /\ Settings'
  BY <1>1 DEF Typed, Messages, Settings
<1>3. built \in [Docs -> SUBSET (0 .. Len(stream))]
  BY DEF Batch, Typed, TypeOK, Contents
<1>4. built' \in [Docs -> SUBSET (0 .. Len(stream))]
  <2>1. built' = Written(built, landed)
    BY DEF Batch
  <2>2. QED BY <1>3, <2>1, Numbers, WrittenType
<1>5. built' \in Contents' /\ live' \in Contents' /\ before' \in Contents'
  BY <1>1, <1>4 DEF Typed, TypeOK, Contents
<1>6. pass' \in [written : BOOLEAN, refused : BOOLEAN, unwritten : SUBSET Docs]
  <2>1. pass' = Recorded(failed, retried, ok)
    BY DEF Batch
  <2>2. pass.unwritten \subseteq Docs
    BY DEF Typed, TypeOK
  <2>3. QED BY <2>1, <2>2, Numbers, RecordedType
<1>7. /\ received' \in received .. Len(stream) /\ S \subseteq 1 .. received'
      /\ \A m \in S : committed < m
  <2>1. CASE S = backlog /\ received' = received
    BY <2>1, Numbers DEF Typed
  <2>2. CASE /\ backlog = {} /\ committed = received
             /\ received' \in received + 1 .. Len(stream) /\ S = received + 1 .. received'
    BY <2>2, Numbers
  <2>3. QED BY <2>1, <2>2 DEF Batch
<1>8. /\ backlog' \subseteq S /\ acked' \subseteq acked \cup S /\ dead' \subseteq dead \cup S
  BY DEF Batch, Answer
<1>9. 1 .. received \subseteq 1 .. received'
  BY <1>7, Numbers
<1>10. /\ backlog' \subseteq 1 .. received' /\ acked' \subseteq 1 .. received'
       /\ dead' \subseteq 1 .. received'
  BY <1>7, <1>8, <1>9, Numbers
<1>11. received' \in committed' .. Len(stream')
  BY <1>1, <1>7, Numbers
<1>12. faults' \in 0 .. MaxFaults
  BY DEF Batch
<1>13. TypeOK'
  BY <1>1, <1>5, <1>6, <1>10, <1>11, <1>12 DEF Typed, TypeOK
<1>14. built' # Absent
  BY <1>4, Numbers, Present
<1>15. \A m \in backlog' : committed' < m
  BY <1>1, <1>7, <1>8
<1>16. QED BY <1>2, <1>3, <1>7, <1>13, <1>14, <1>15 DEF Typed

LEMMA TypedStep ==
  ASSUME Typed, [Next]_vars
  PROVE  Typed'
<1>1. CASE Receive \/ Resend
  BY <1>1, Batched, TypedBatch
<1>2. CASE Start
  <2>1. built' \in Contents /\ built' # Absent
    BY <1>2, Numbers, EmptyType, Present DEF Start, Typed, TypeOK, Contents
  <2>2. pass' \in [written : BOOLEAN, refused : BOOLEAN, unwritten : SUBSET Docs]
    BY <1>2 DEF Start, NewPass
  <2>3. QED BY <1>2, <2>1, <2>2 DEF Start, Typed, TypeOK, Contents, Messages, Settings, route
<1>3. CASE GiveUp
  BY <1>3 DEF GiveUp, Typed, TypeOK, Contents, Messages, Settings, index
<1>4. CASE Commit
  BY <1>4, Numbers DEF Commit, Typed, TypeOK, Contents, Messages, Settings, index
<1>5. CASE Crash
  <2>1. acked' \subseteq 1 .. received' /\ dead' \subseteq 1 .. received'
    BY <1>5 DEF Crash
  <2>2. forgotten' \subseteq 1 .. Len(stream)
    BY <1>5, Numbers DEF Crash
  <2>3. crashes' \in 0 .. MaxCrashes
    BY <1>5, Numbers DEF Crash
  <2>4. received' \in committed' .. Len(stream)
    BY <1>5, Numbers DEF Crash
  <2>5. QED BY <1>5, <2>1, <2>2, <2>3, <2>4
             DEF Crash, Typed, TypeOK, Contents, Messages, Settings, index
<1>6. CASE Disconnect
  BY <1>6 DEF Disconnect, Typed, TypeOK, Contents, Messages, Settings, index, route
<1>7. CASE CreateLive
  <2>1. live' \in Contents
    BY <1>7, Numbers, EmptyType DEF CreateLive, Requested, Typed, TypeOK, Contents
  <2>2. faults' \in 0 .. MaxFaults /\ phase' \in {"swap", "ended"}
    BY <1>7, Numbers DEF CreateLive, Requested
  <2>3. QED BY <1>7, <2>1, <2>2
             DEF CreateLive, Typed, TypeOK, Contents, Messages, Settings, route
<1>8. CASE SwapIndexes
  <2>1. live' \in Contents /\ built' \in Contents
    BY <1>8 DEF SwapIndexes, Requested, Typed, TypeOK
  <2>2. faults' \in 0 .. MaxFaults /\ phase' \in {"delete", "ended"}
    BY <1>8, Numbers DEF SwapIndexes, Requested
  <2>3. QED BY <1>8, <2>1, <2>2
             DEF SwapIndexes, Typed, TypeOK, Contents, Messages, Settings, route
<1>9. CASE DeleteBuilt
  <2>1. built' \in Contents
    BY <1>9 DEF DeleteBuilt, Requested, Typed, TypeOK, Contents
  <2>2. faults' \in 0 .. MaxFaults /\ phase' = "ended"
    BY <1>9, Numbers DEF DeleteBuilt, Requested
  <2>3. QED BY <1>9, <2>1, <2>2
             DEF DeleteBuilt, Typed, TypeOK, Contents, Messages, Settings, route
<1>10. CASE UNCHANGED vars
  BY <1>10 DEF vars, index, route, Typed, TypeOK, Contents, Messages, Settings
<1>11. QED BY <1>1, <1>2, <1>3, <1>4, <1>5, <1>6, <1>7, <1>8, <1>9, <1>10 DEF Next

(* Every variable keeps its type, whatever the method of the writes: in    *)
(* particular a pass never records as unwritten what is not a document     *)
(* (Pass::record), and nothing is resent that was not received.            *)
THEOREM TypeCorrect == Spec => []TypeOK
<1>1. Typed => TypeOK
  BY DEF Typed
<1>2. QED BY <1>1, TypedInit, TypedStep, PTL DEF Spec

-----------------------------------------------------------------------------
(***************************************************************************)
(* What was retried does not block the swap.                               *)
(***************************************************************************)

(* What Pass::record makes of the flags. *)
LEMMA RecordedFlags ==
  ASSUME NEW failed, NEW retried, NEW ok
  PROVE  /\ Recorded(failed, retried, ok).written
         /\ Recorded(failed, retried, ok).refused <=>
              (pass.refused \/ failed # {} \/ (retried # {} /\ ~Keyed))
         /\ ~Keyed => Recorded(failed, retried, ok).unwritten = {}
BY DEF Recorded

(* The documents of a batch that were written and not retried behind that. *)
Cleared(ok, retried) ==
  {Doc(n) : n \in {k \in ok : \A m \in retried : Doc(m) = Doc(k) => m <= k}}

(* What Pass::record makes of the documents. *)
LEMMA RecordedDocuments ==
  ASSUME NEW failed, NEW retried, NEW ok, Keyed
  PROVE  Recorded(failed, retried, ok).unwritten =
           (pass.unwritten \ Cleared(ok, retried)) \cup Cleared(retried, ok)
BY DEF Recorded, Cleared

LEMMA JustifiedBatch ==
  ASSUME Typed, Justified,
         NEW S \in SUBSET (1 .. Len(stream)), NEW landed \in SUBSET (1 .. Len(stream)),
         NEW ok \in SUBSET (1 .. Len(stream)), NEW retried \in SUBSET (1 .. Len(stream)),
         NEW failed \in SUBSET (1 .. Len(stream)), Batch(S, landed, ok, retried, failed)
  PROVE  Justified'
<1>1. /\ stream' = stream /\ phase' = phase /\ phase = "running"
      /\ pass' = Recorded(failed, retried, ok) /\ dead' = dead \cup failed /\ backlog' = retried
      /\ S = backlog \/ backlog = {}
  BY DEF Batch
<1>2. ok \cup retried \cup failed = S
  BY DEF Batch, Answer
<1>3. pass'.written
  BY <1>1, RecordedFlags
<1>4. ASSUME Keyed, pass'.refused PROVE dead' # {}
  <2>1. pass.refused \/ failed # {}
    BY <1>1, <1>4, RecordedFlags
  <2>2. pass.refused => dead # {}
    BY <1>1, <1>4 DEF Justified
  <2>3. QED BY <1>1, <2>1, <2>2
<1>5. ASSUME Keyed, dead' = {}, NEW d \in pass'.unwritten PROVE \E m \in retried : Doc(m) = d
  <2>1. CASE \E k \in retried : Doc(k) = d
    BY <2>1
  <2>2. CASE ~ \E k \in retried : Doc(k) = d
    <3>1. d \in pass.unwritten /\ \A k \in ok : Doc(k) # d
      <4>1. \/ d \in pass.unwritten /\ d \notin Cleared(ok, retried)
            \/ d \in Cleared(retried, ok)
        <5>1. Keyed /\ d \in Recorded(failed, retried, ok).unwritten
          BY <1>1, <1>5
        <5>2. QED BY <5>1, RecordedDocuments
      <4>2. d \notin Cleared(retried, ok)
        BY <2>2 DEF Cleared
      <4>3. \A k \in ok : Doc(k) = d => d \in Cleared(ok, retried)
        BY <2>2 DEF Cleared
      <4>4. QED BY <4>1, <4>2, <4>3
    <3>2. dead = {} /\ failed = {}
      BY <1>1, <1>5
    <3>3. PICK m \in backlog : Doc(m) = d
      BY <1>1, <1>5, <3>1, <3>2 DEF Justified
    <3>4. m \in ok
      BY <1>1, <1>2, <2>2, <3>2, <3>3
    <3>5. QED BY <2>2, <3>1, <3>3, <3>4
  <2>3. QED BY <2>1, <2>2
<1>6. \A m : Doc(m)' = Doc(m)
  BY <1>1 DEF Doc
<1>7. QED BY <1>1, <1>3, <1>4, <1>5, <1>6 DEF Justified

LEMMA JustifiedStep ==
  ASSUME Typed, Justified, [Next]_vars
  PROVE  Justified'
<1>1. CASE Receive \/ Resend
  BY <1>1, Batched, JustifiedBatch
<1>2. CASE Start
  <2>1. /\ phase = "start" /\ phase' = "running" /\ UNCHANGED route /\ UNCHANGED crashes
        /\ ~pass'.written /\ ~pass'.refused /\ pass'.unwritten = {}
    BY <1>2 DEF Start, NewPass
  <2>2. QED BY <2>1 DEF Justified, route
<1>3. CASE GiveUp
  <2>1. dead' # {} /\ UNCHANGED <<phase, pass, received, crashes>> /\ phase = "running"
    BY <1>3 DEF GiveUp
  <2>2. QED BY <2>1 DEF Justified
<1>4. CASE Commit
  BY <1>4 DEF Commit, Justified, Doc
<1>5. CASE Crash
  <2>1. phase' = "start" /\ crashes' # 0
    BY <1>5, Numbers DEF Crash
  <2>2. QED BY <2>1 DEF Justified
<1>6. CASE Disconnect \/ CreateLive \/ SwapIndexes \/ DeleteBuilt
  <2>1. phase' \in {"create", "swap", "delete", "ended"}
    BY <1>6 DEF Disconnect, CreateLive, SwapIndexes, DeleteBuilt, Requested
  <2>2. QED BY <2>1 DEF Justified
<1>7. CASE UNCHANGED vars
  BY <1>7 DEF vars, route, Justified, Doc
<1>8. QED BY <1>1, <1>2, <1>3, <1>4, <1>5, <1>6, <1>7 DEF Next

(* A source drained without a dead letter may be swapped in, whatever was  *)
(* retried on the way and however often (Pass::record, Pass::objection):   *)
(* of streams, batches and failures of any number, with any method.        *)
THEOREM RetriedDoesNotBlockHolds == Spec => []RetriedDoesNotBlock
<1>1. Init => Justified
  BY DEF Init, Justified
<1>2. ASSUME Typed, Justified PROVE RetriedDoesNotBlock
  <2>1. SUFFICES ASSUME phase = "running", Drained, Keyed, dead = {}, crashes = 0, Len(stream) > 0
                 PROVE  MaySwap("Completed")
    BY DEF RetriedDoesNotBlock
  <2>2. received > 0 /\ backlog = {}
    BY <2>1 DEF Drained
  <2>3. pass.written
    BY <1>2, <2>1, <2>2 DEF Justified
  <2>4. ~pass.refused /\ pass.unwritten = {}
    BY <1>2, <2>1, <2>2 DEF Justified
  <2>5. QED BY <2>3, <2>4 DEF MaySwap
<1>3. Typed /\ Justified => RetriedDoesNotBlock
  BY <1>2
<1>4. (Typed /\ Justified) /\ [Next]_vars => (Typed /\ Justified)'
  BY TypedStep, JustifiedStep
<1>5. Init => Typed /\ Justified
  BY <1>1, TypedInit
<1>6. QED BY <1>3, <1>4, <1>5, PTL DEF Spec

-----------------------------------------------------------------------------
(***************************************************************************)
(* The live index is the old one or the whole new one.                     *)
(***************************************************************************)

(* What the source describes does not change. *)
LEMMA SameDescribed ==
  ASSUME UNCHANGED <<stream, config>>
  PROVE  Described' = Described
BY DEF Described, Written, Content, Doc, Deletes, Empty, Writes

LEMMA SameMessages ==
  ASSUME UNCHANGED <<stream, config>>
  PROVE  /\ \A n : Doc(n)' = Doc(n) /\ (Final(n)' <=> Final(n)) /\ Effect(n)' = Effect(n)
         /\ \A n : Writes(n)' <=> Writes(n)
         /\ Len(stream)' = Len(stream)
BY DEF Doc, Final, Effect, Deletes, Writes

(* What a set of replacing writes leaves of a document, when message n is  *)
(* the last that is sent for it.                                           *)
LEMMA FinalWins ==
  ASSUME config.method = "replace", Len(stream) \in Nat,
         NEW contents, NEW W \in SUBSET (1 .. Len(stream)), \A m \in W : Writes(m),
         NEW n \in W, Final(n), Doc(n) \in Docs
  PROVE  Written(contents, W)[Doc(n)] = Effect(n)
<1>1. PICK T : T = {m \in W : Doc(m) = Doc(n)}
  OBVIOUS
<1>2. Written(contents, W)[Doc(n)] = Content(contents[Doc(n)], T)
  BY <1>1 DEF Written
<1>3. T \subseteq Nat
  <2>1. W \subseteq Nat /\ T \subseteq W
    BY <1>1
  <2>2. QED BY <2>1
<1>4. ASSUME NEW m \in T PROVE m <= n
  <2>1. m \in 1 .. Len(stream) /\ Doc(m) = Doc(n) /\ Writes(m)
    BY <1>1
  <2>2. QED BY <2>1 DEF Final
<1>5. n \in T
  BY <1>1
<1>6. QED BY <1>2, <1>3, <1>4, <1>5, LastWins

(* A document that no message of a set writes. *)
LEMMA NoneWritten ==
  ASSUME NEW contents, NEW W \in SUBSET (1 .. Len(stream)), NEW d \in Docs,
         \A m \in W : Doc(m) # d
  PROVE  Written(contents, W)[d] = contents[d]
<1>1. {m \in W : Doc(m) = d} = {}
  OBVIOUS
<1>2. Written(contents, W)[d] = Content(contents[d], {})
  BY <1>1 DEF Written
<1>3. QED BY <1>2, Unwritten

LEMMA InvariantBatch ==
  ASSUME IInv, WriteMethods = {"replace"},
         NEW S \in SUBSET (1 .. Len(stream)), NEW landed \in SUBSET (1 .. Len(stream)),
         NEW ok \in SUBSET (1 .. Len(stream)), NEW retried \in SUBSET (1 .. Len(stream)),
         NEW failed \in SUBSET (1 .. Len(stream)), Batch(S, landed, ok, retried, failed)
  PROVE  IInv'
<1>1. Typed /\ config.method = "replace"
  BY DEF IInv, Typed, Settings
<1>2. /\ Typed' /\ built \in [Docs -> SUBSET (0 .. Len(stream))] /\ S \subseteq 1 .. received'
      /\ \A n \in 1 .. Len(stream) : Doc(n) \in Docs
      /\ Len(stream) \in Nat /\ received \in Nat /\ received <= Len(stream)
      /\ acked \subseteq 1 .. received /\ dead \subseteq 1 .. received
  BY <1>1, TypedBatch, Numbers
<1>3. /\ UNCHANGED <<stream, config, phase, live, before, committed, forgotten>>
      /\ phase = "running" /\ S # {}
      /\ built' = Written(built, landed) /\ pass' = Recorded(failed, retried, ok)
      /\ acked' = acked \cup ok /\ dead' = dead \cup failed /\ backlog' = retried
  BY DEF Batch
<1>4. /\ ok \cup retried \cup failed = S /\ ok \subseteq landed /\ landed \subseteq S
      /\ \A n \in landed \cup retried : Writes(n)
      /\ \A m \in retried, n \in ok : Doc(m) = Doc(n) => n < m
  BY DEF Batch, Answer
<1>5. \/ S = backlog /\ received' = received
      \/ /\ backlog = {} /\ committed = received
         /\ received' \in received + 1 .. Len(stream) /\ S = received + 1 .. received'
  BY DEF Batch
<1>6. /\ \A n : Doc(n)' = Doc(n) /\ (Final(n)' <=> Final(n)) /\ Effect(n)' = Effect(n)
      /\ \A n : Writes(n)' <=> Writes(n)
      /\ Len(stream') = Len(stream) /\ Described' = Described
  BY <1>3, SameMessages, SameDescribed
<1>7. S \subseteq Nat /\ acked \subseteq Nat /\ dead \subseteq Nat
  BY <1>2
<1>8. \A m \in S, n \in acked : Doc(m) = Doc(n) => n < m
  <2>1. CASE S = backlog
    BY <2>1 DEF IInv, Sorted
  <2>2. CASE S = received + 1 .. received'
    BY <1>2, <2>2
  <2>3. QED BY <1>5, <2>1, <2>2
<1>9. ~Over /\ received' > 0
  <2>1. CASE S = backlog /\ received' = received
    <3>1. pass.written /\ received > 0
      BY <1>3, <2>1 DEF IInv, Resting
    <3>2. QED BY <1>3, <2>1, <3>1 DEF Over
  <2>2. CASE committed = received /\ received' \in received + 1 .. Len(stream)
    <3>1. committed # Len(stream) /\ received' > 0
      BY <1>2, <2>2
    <3>2. QED BY <1>3, <3>1 DEF Over
  <2>3. QED BY <1>5, <2>1, <2>2
<1>10. Resting'
  <2>1. pass'.written
    BY <1>3, RecordedFlags
  <2>2. QED BY <1>3, <1>9, <2>1 DEF Resting
<1>11. Latest'
  <2>1. built' # Absent
    BY <1>2, <1>3 DEF Typed
  <2>2. ASSUME NEW d \in Docs, \A n \in 1 .. Len(stream) : Writes(n) => Doc(n) # d
        PROVE  built'[d] = {}
    <3>1. built[d] = {}
      BY <1>1, <1>3, <1>9, <2>2 DEF IInv, Latest, Typed
    <3>2. \A m \in landed : Doc(m) # d
      BY <1>4, <2>2
    <3>3. QED BY <1>3, <3>1, <3>2, NoneWritten
  <2>3. ASSUME NEW n \in acked \cup ok, Final(n) PROVE built'[Doc(n)] = Effect(n)
    <3>1. n \in 1 .. Len(stream)
      BY <1>2
    <3>2. CASE n \in ok
      BY <1>1, <1>2, <1>3, <1>4, <2>3, <3>1, <3>2, FinalWins
    <3>3. CASE n \in acked
      <4>1. \A m \in landed : Doc(m) # Doc(n)
        <5>1. ASSUME NEW m \in landed, Doc(m) = Doc(n) PROVE FALSE
          <6>1. n < m
            BY <1>4, <1>8, <3>3, <5>1
          <6>2. m <= n
            BY <1>4, <2>3, <5>1 DEF Final
          <6>3. m \in Nat /\ n \in Nat
            BY <3>1
          <6>4. QED BY <6>1, <6>2, <6>3
        <5>2. QED BY <5>1
      <4>2. built'[Doc(n)] = built[Doc(n)]
        BY <1>2, <1>3, <3>1, <4>1, NoneWritten
      <4>3. built[Doc(n)] = Effect(n)
        BY <1>9, <2>3, <3>3 DEF IInv, Latest
      <4>4. QED BY <4>2, <4>3
    <3>4. QED BY <3>2, <3>3
  <2>4. \A n \in acked' : Final(n)' => built'[Doc(n)'] = Effect(n)'
    BY <1>3, <1>6, <2>3
  <2>5. \A d \in Docs : (\A n \in 1 .. Len(stream') : Writes(n)' => Doc(n)' # d)
                          => built'[d] = {}
    BY <1>3, <1>6, <2>2
  <2>6. QED BY <2>1, <2>4, <2>5 DEF Latest
<1>12. Sorted'
  <2>1. ASSUME NEW n \in 1 .. received' PROVE n \in acked \cup ok \cup dead \cup failed \cup retried
    <3>1. n \in 1 .. received \/ n \in S
      BY <1>2, <1>5
    <3>2. n \in 1 .. received => n \in acked \cup dead \cup backlog
      BY DEF IInv, Sorted
    <3>3. backlog \subseteq S
      BY <1>5
    <3>4. QED BY <1>4, <3>1, <3>2, <3>3
  <2>2. \A m \in retried, n \in acked \cup ok : Doc(m) = Doc(n) => n < m
    BY <1>4, <1>8
  <2>3. 1 .. received' \subseteq acked' \cup dead' \cup backlog'
    BY <1>3, <2>1
  <2>4. \A m \in backlog', n \in acked' : Doc(m)' = Doc(n)' => n < m
    BY <1>3, <1>6, <2>2
  <2>5. QED BY <2>3, <2>4 DEF Sorted
<1>13. Remembered'
  <2>1. ~Keyed => pass'.unwritten = {}
    BY <1>3, RecordedFlags
  <2>2. SUFFICES ASSUME forgotten = {}
                 PROVE  /\ \A n \in dead' \cup backlog' :
                             Final(n) => \/ pass'.refused
                                         \/ Writes(n) /\ Doc(n) \in pass'.unwritten
                        /\ ~pass'.refused => \A m \in backlog', n \in dead' : n < m
    BY <1>3, <1>6, <2>1 DEF Remembered
  <2>3. ~pass.refused => \A m \in S, n \in dead : n < m
    <3>1. CASE S = backlog
      BY <1>3, <2>2, <3>1 DEF IInv, Remembered
    <3>2. CASE S = received + 1 .. received'
      BY <1>2, <3>2
    <3>3. QED BY <1>5, <3>1, <3>2
  <2>4. pass.refused \/ failed # {} \/ (retried # {} /\ ~Keyed) <=> pass'.refused
    BY <1>3, RecordedFlags
  <2>5. ASSUME NEW n \in dead' \cup backlog', Final(n), ~pass'.refused
        PROVE  Writes(n) /\ Doc(n) \in pass'.unwritten
    <3>1. failed = {} /\ ~pass.refused /\ n \in dead \cup retried
      BY <1>3, <2>4, <2>5
    <3>2. CASE n \in retried
      <4>1. Keyed
        BY <2>4, <2>5, <3>2
      <4>2. n \in {k \in retried : \A m \in ok : Doc(m) = Doc(k) => m <= k}
        BY <1>4, <1>7, <3>2
      <4>3. Doc(n) \in Cleared(retried, ok)
        BY <4>2 DEF Cleared
      <4>4. QED BY <1>3, <1>4, <3>2, <4>1, <4>3, RecordedDocuments
    <3>3. CASE n \in dead
      <4>1. Writes(n) /\ Doc(n) \in pass.unwritten
        BY <1>3, <2>2, <2>5, <3>1, <3>3 DEF IInv, Remembered
      <4>2. Keyed
        BY <4>1 DEF IInv, Remembered
      <4>3. ASSUME Doc(n) \in Cleared(ok, retried) PROVE FALSE
        <5>1. PICK k \in ok : Doc(k) = Doc(n)
          BY <4>3 DEF Cleared
        <5>2. k <= n
          BY <1>4, <2>5, <5>1 DEF Final
        <5>3. n < k
          BY <1>4, <2>3, <3>1, <3>3, <5>1
        <5>4. k \in Nat /\ n \in Nat
          BY <1>7, <3>3, <5>1
        <5>5. QED BY <5>2, <5>3, <5>4
      <4>4. QED BY <1>3, <4>1, <4>2, <4>3, RecordedDocuments
    <3>4. QED BY <3>1, <3>2, <3>3
  <2>6. ~pass'.refused => \A m \in backlog', n \in dead' : n < m
    BY <1>3, <1>4, <2>3, <2>4
  <2>7. QED BY <2>5, <2>6
<1>14. Replaced'
  BY <1>3 DEF IInv, Replaced, Empty
<1>15. LiveOldOrWhole'
  BY <1>3, <1>6 DEF IInv, LiveOldOrWhole, Empty
<1>16. QED BY <1>2, <1>10, <1>11, <1>12, <1>13, <1>14, <1>15 DEF IInv

LEMMA InvariantInit == Init => IInv
<1> SUFFICES ASSUME Init PROVE IInv
  OBVIOUS
<1>1. Typed
  BY TypedInit
<1>2. /\ phase = "start" /\ built = Absent /\ before = live /\ pass = NewPass
      /\ received = 0 /\ committed = 0 /\ backlog = {} /\ acked = {} /\ dead = {}
  BY DEF Init
<1>3. Resting /\ Latest /\ Sorted /\ Remembered
  BY <1>2 DEF Resting, Latest, Sorted, Remembered, NewPass
<1>4. Replaced /\ LiveOldOrWhole
  BY <1>2 DEF Replaced, LiveOldOrWhole
<1>5. QED BY <1>1, <1>3, <1>4 DEF IInv

(* When the swap may happen, what was built is what the source describes:  *)
(* the last message of every document was acknowledged, because the pass   *)
(* would remember it otherwise.                                            *)
LEMMA BuiltIsWhole ==
  ASSUME IInv, WriteMethods = {"replace"}, phase = "swap", forgotten = {}
  PROVE  built = Described /\ acked # {}
<1>1. /\ Typed /\ config.method = "replace" /\ Drained /\ received > 0
      /\ ~pass.refused /\ pass.unwritten = {}
  BY DEF IInv, Typed, Settings, Resting, MaySwap
<1>2. /\ Len(stream) \in Nat /\ received = Len(stream) /\ backlog = {}
      /\ \A n \in 1 .. Len(stream) : Doc(n) \in Docs
  BY <1>1, Numbers DEF Drained
<1>3. /\ built \in [Docs -> SUBSET (0 .. Len(stream))]
      /\ \A d \in Docs : (\A n \in 1 .. Len(stream) : Writes(n) => Doc(n) # d)
                           => built[d] = {}
      /\ \A n \in acked : Final(n) => built[Doc(n)] = Effect(n)
  <2>1. ~Over /\ built # Absent
    BY DEF Over, IInv, Latest
  <2>2. QED BY <1>1, <2>1 DEF IInv, Latest, Typed, TypeOK, Contents
<1>4. ASSUME NEW n \in 1 .. Len(stream), Final(n) PROVE n \in acked
  <2>1. n \notin dead
    BY <1>1, <1>4 DEF IInv, Remembered
  <2>2. QED BY <1>2, <2>1 DEF IInv, Sorted
<1>5. Final(Len(stream)) /\ Len(stream) \in 1 .. Len(stream)
  BY <1>1, <1>2 DEF Final
<1>6. PICK W : W = {n \in 1 .. Len(stream) : Writes(n)}
  OBVIOUS
<1>7. Described \in [Docs -> SUBSET (0 .. Len(stream))] /\ Described = Written(Empty, W)
  <2>1. Described = Written(Empty, W)
    BY <1>6 DEF Described
  <2>2. QED BY <1>2, <1>6, <2>1, EmptyType, WrittenType
<1>8. ASSUME NEW d \in Docs PROVE built[d] = Described[d]
  <2>1. CASE \A n \in W : Doc(n) # d
    <3>1. built[d] = {}
      BY <1>3, <1>6, <2>1
    <3>2. Described[d] = Empty[d]
      BY <1>6, <1>7, <2>1, NoneWritten
    <3>3. QED BY <3>1, <3>2 DEF Empty
  <2>2. CASE \E n \in W : Doc(n) = d
    <3>1. PICK T : T = {n \in W : Doc(n) = d}
      OBVIOUS
    <3>2. T \subseteq 0 .. Len(stream) /\ T # {}
      BY <1>6, <2>2, <3>1
    <3>3. PICK n \in T : \A m \in T : m <= n
      BY <1>2, <3>2, MaxOf
    <3>4. n \in W /\ Doc(n) = d /\ n \in 1 .. Len(stream)
      BY <1>6, <3>1
    <3>5. Final(n)
      BY <1>6, <3>1, <3>3, <3>4 DEF Final
    <3>6. built[d] = Effect(n)
      BY <1>3, <1>4, <3>4, <3>5
    <3>7. Described[d] = Effect(n)
      BY <1>1, <1>2, <1>6, <1>7, <3>4, <3>5, FinalWins
    <3>8. QED BY <3>6, <3>7
  <2>3. QED BY <2>1, <2>2
<1>9. built = Described
  BY <1>3, <1>7, <1>8
<1>10. QED BY <1>4, <1>5, <1>9

LEMMA InvariantStep ==
  ASSUME IInv, WriteMethods = {"replace"}, [Next]_vars
  PROVE  IInv'
<1>1. Typed /\ Typed'
  BY TypedStep DEF IInv
<1>2. /\ Len(stream) \in Nat /\ committed \in Nat /\ received \in Nat
      /\ committed <= received /\ received <= Len(stream)
      /\ backlog \subseteq 1 .. received /\ acked \subseteq 1 .. received
      /\ \A n \in 1 .. Len(stream) : Doc(n) \in Docs
  BY <1>1, Numbers
<1>3. Receive \/ Resend => IInv'
  BY <1>1, Batched, InvariantBatch
<1>4. ASSUME UNCHANGED <<stream, config>>
      PROVE  /\ \A n : Doc(n)' = Doc(n) /\ (Final(n)' <=> Final(n)) /\ Effect(n)' = Effect(n)
             /\ \A n : Writes(n)' <=> Writes(n)
             /\ Len(stream') = Len(stream) /\ Described' = Described
  BY <1>4, SameMessages, SameDescribed
<1>5. CASE Start
  <2>1. /\ UNCHANGED <<stream, config, live, before, route>>
        /\ phase = "start" /\ phase' = "running" /\ pass' = NewPass
        /\ built' = IF built = Absent THEN Empty ELSE built
        /\ received = committed /\ backlog = {}
    BY <1>5 DEF Start, IInv, Resting
  <2>2. Resting'
    BY <2>1 DEF Resting, NewPass, route
  <2>3. Latest'
    <3>1. SUFFICES ASSUME ~Over' PROVE Latest'
      BY DEF Latest
    <3>2. ~Over
      BY <2>1, <3>1 DEF Over, NewPass, route
    <3>3. CASE built = Absent
      <4>1. built' = Empty /\ Empty # Absent /\ acked' = {}
        BY <1>2, <2>1, <3>2, <3>3, EmptyType, Present DEF IInv, Latest, route
      <4>2. QED BY <4>1 DEF Latest, Empty
    <3>4. CASE built # Absent
      <4>1. built' = built /\ acked' = acked /\ UNCHANGED <<stream, config>>
        BY <2>1, <3>4 DEF route
      <4>2. QED BY <1>4, <3>2, <3>4, <4>1 DEF IInv, Latest
    <3>5. QED BY <3>3, <3>4
  <2>4. Sorted'
    BY <1>4, <2>1 DEF IInv, Sorted, route
  <2>5. Remembered'
    BY <2>1 DEF IInv, Remembered, NewPass, route
  <2>6. Replaced' /\ LiveOldOrWhole'
    BY <1>4, <2>1 DEF IInv, Replaced, LiveOldOrWhole, route, Empty
  <2>7. QED BY <1>1, <2>2, <2>3, <2>4, <2>5, <2>6 DEF IInv
<1>6. CASE GiveUp
  <2>1. /\ UNCHANGED <<stream, config, phase, built, live, before, pass, received, committed,
                       acked, forgotten>>
        /\ phase = "running" /\ backlog # {} /\ backlog' = {} /\ dead' = dead \cup backlog
    BY <1>6 DEF GiveUp, index
  <2>2. pass.written
    BY <2>1 DEF IInv, Resting
  <2>3. Resting'
    BY <2>1, <2>2 DEF IInv, Resting
  <2>4. Latest'
    BY <1>4, <2>1 DEF IInv, Latest, Over
  <2>5. Sorted'
    BY <2>1 DEF IInv, Sorted
  <2>6. Remembered'
    BY <1>4, <2>1 DEF IInv, Remembered
  <2>7. Replaced' /\ LiveOldOrWhole'
    BY <1>4, <2>1 DEF IInv, Replaced, LiveOldOrWhole, Empty
  <2>8. QED BY <1>1, <2>3, <2>4, <2>5, <2>6, <2>7 DEF IInv
<1>7. CASE Commit
  <2>1. /\ UNCHANGED <<stream, config, phase, built, live, before, pass, received, backlog,
                       acked, dead, forgotten>>
        /\ phase = "running" /\ backlog = {} /\ committed < received /\ committed' = received
    BY <1>7 DEF Commit, index
  <2>2. pass.written
    BY <1>2, <2>1 DEF IInv, Resting
  <2>3. Resting'
    BY <2>1, <2>2 DEF IInv, Resting
  <2>4. Latest'
    BY <1>4, <2>1, <2>2 DEF IInv, Latest, Over
  <2>5. Sorted' /\ Remembered'
    BY <1>4, <2>1 DEF IInv, Sorted, Remembered
  <2>6. Replaced' /\ LiveOldOrWhole'
    <3>1. committed # Len(stream)
      BY <1>2, <2>1
    <3>2. QED BY <1>4, <2>1, <3>1 DEF IInv, Replaced, LiveOldOrWhole, Empty
  <2>7. QED BY <1>1, <2>3, <2>4, <2>5, <2>6 DEF IInv
<1>8. CASE Crash
  <2>1. /\ UNCHANGED <<stream, config, built, live, before, pass, committed>>
        /\ phase \notin {"start", "ended"} /\ phase' = "start"
        /\ received' = committed /\ backlog' = {}
        /\ acked' = acked \cap 1 .. committed /\ dead' = dead \cap 1 .. committed
        /\ forgotten' = forgotten \cup dead
    BY <1>8 DEF Crash, index
  <2>2. Resting'
    BY <2>1 DEF Resting
  <2>3. Latest'
    <3>1. SUFFICES ASSUME committed # Len(stream) PROVE Latest'
      BY <2>1 DEF Latest, Over
    <3>2. ~Over
      BY <2>1, <3>1 DEF IInv, Resting, Drained, Over
    <3>3. QED BY <1>4, <2>1, <3>2 DEF IInv, Latest
  <2>4. Sorted'
    <3>1. ASSUME NEW n \in 1 .. committed PROVE n \in acked \cup dead
      <4>1. n \in 1 .. received /\ ~(committed < n)
        BY <1>2
      <4>2. QED BY <1>1, <4>1 DEF IInv, Sorted, Typed
    <3>2. QED BY <2>1, <3>1 DEF Sorted
  <2>5. Remembered'
    BY <2>1 DEF IInv, Remembered
  <2>6. Replaced'
    BY <2>1 DEF IInv, Replaced, Empty
  <2>7. LiveOldOrWhole'
    <3>1. CASE committed = Len(stream)
      <4>1. acked' = acked
        <5>1. committed = received
          BY <1>2, <3>1
        <5>2. QED BY <1>2, <2>1, <5>1
      <4>2. QED BY <1>4, <2>1, <4>1 DEF IInv, LiveOldOrWhole, Empty
    <3>2. CASE committed # Len(stream)
      BY <2>1, <3>2 DEF IInv, Replaced, LiveOldOrWhole, Empty
    <3>3. QED BY <3>1, <3>2
  <2>8. QED BY <1>1, <2>2, <2>3, <2>4, <2>5, <2>6, <2>7 DEF IInv
<1>9. CASE Disconnect
  <2>1. /\ UNCHANGED <<stream, config, built, live, before, pass, received, committed, backlog,
                       acked, dead, forgotten>>
        /\ phase = "running"
        /\ \/ phase' = "ended"
           \/ phase' = "create" /\ Drained /\ MaySwap("Completed")
    BY <1>9 DEF Disconnect, MaySwap, index, route
  <2>2. Resting'
    BY <2>1 DEF IInv, Resting, Drained, MaySwap
  <2>3. Latest'
    BY <1>4, <2>1 DEF IInv, Latest, Over, MaySwap
  <2>4. Sorted' /\ Remembered'
    BY <1>4, <2>1 DEF IInv, Sorted, Remembered
  <2>5. Replaced' /\ LiveOldOrWhole'
    BY <1>4, <2>1 DEF IInv, Replaced, LiveOldOrWhole, Empty
  <2>6. QED BY <1>1, <2>2, <2>3, <2>4, <2>5 DEF IInv
<1>10. CASE CreateLive
  <2>1. /\ UNCHANGED <<stream, config, built, before, pass, received, committed, backlog,
                       acked, dead, forgotten>>
        /\ phase = "create" /\ phase' \in {"swap", "ended"}
        /\ live' = live \/ (live = Absent /\ live' = Empty)
    BY <1>10 DEF CreateLive, Requested, route
  <2>2. Resting'
    BY <2>1 DEF IInv, Resting, Drained, MaySwap
  <2>3. Latest'
    BY <1>4, <2>1 DEF IInv, Latest, Over
  <2>4. Sorted' /\ Remembered'
    BY <1>4, <2>1 DEF IInv, Sorted, Remembered
  <2>5. Empty # Absent /\ Described # Absent
    <3>1. {n \in 1 .. Len(stream) : Writes(n)} \in SUBSET (1 .. Len(stream))
      OBVIOUS
    <3>2. QED BY <1>2, <3>1, EmptyType, WrittenType, Present DEF Described
  <2>6. Replaced'
    BY <2>1, <2>5 DEF IInv, Replaced, Empty
  <2>7. LiveOldOrWhole'
    BY <1>4, <2>1, <2>5 DEF IInv, LiveOldOrWhole, Empty
  <2>8. QED BY <1>1, <2>2, <2>3, <2>4, <2>6, <2>7 DEF IInv
<1>11. CASE SwapIndexes
  <2>1. /\ UNCHANGED <<stream, config, before, pass, received, committed, backlog,
                       acked, dead, forgotten>>
        /\ phase = "swap" /\ phase' \in {"delete", "ended"}
        /\ live' = live \/ live' = built
    BY <1>11 DEF SwapIndexes, Requested, route
  <2>2. Resting'
    BY <2>1 DEF IInv, Resting, Drained, MaySwap
  <2>3. Latest' /\ Remembered'
    BY <2>1 DEF IInv, Latest, Remembered, Over
  <2>4. Sorted'
    BY <1>4, <2>1 DEF IInv, Sorted
  <2>5. Replaced'
    BY <2>1 DEF IInv, Resting, Drained, Replaced
  <2>6. LiveOldOrWhole'
    <3>1. forgotten = {} => built = Described /\ acked # {}
      BY <2>1, BuiltIsWhole
    <3>2. QED BY <1>4, <2>1, <3>1 DEF IInv, LiveOldOrWhole, Empty
  <2>7. QED BY <1>1, <2>2, <2>3, <2>4, <2>5, <2>6 DEF IInv
<1>12. CASE DeleteBuilt
  <2>1. /\ UNCHANGED <<stream, config, live, before, pass, received, committed, backlog,
                       acked, dead, forgotten>>
        /\ phase' = "ended"
    BY <1>12 DEF DeleteBuilt, Requested, route
  <2>2. Resting' /\ Latest' /\ Remembered'
    BY <2>1 DEF IInv, Resting, Latest, Remembered, Over
  <2>3. Sorted'
    BY <1>4, <2>1 DEF IInv, Sorted
  <2>4. Replaced' /\ LiveOldOrWhole'
    BY <1>4, <2>1 DEF IInv, Replaced, LiveOldOrWhole, Empty
  <2>5. QED BY <1>1, <2>2, <2>3, <2>4 DEF IInv
<1>13. CASE UNCHANGED vars
  <2>1. UNCHANGED <<stream, config, phase, built, live, before, pass, received, committed,
                    backlog, acked, dead, forgotten>>
    BY <1>13 DEF vars, index, route
  <2>2. Resting' /\ Sorted' /\ Remembered'
    BY <1>4, <2>1 DEF IInv, Resting, Drained, MaySwap, Sorted, Remembered
  <2>3. Latest'
    BY <1>4, <2>1 DEF IInv, Latest, Over
  <2>4. Replaced' /\ LiveOldOrWhole'
    BY <1>4, <2>1 DEF IInv, Replaced, LiveOldOrWhole, Empty
  <2>5. QED BY <1>1, <2>2, <2>3, <2>4 DEF IInv
<1>14. QED BY <1>3, <1>5, <1>6, <1>7, <1>8, <1>9, <1>10, <1>11, <1>12, <1>13 DEF Next

(* Where documents are replaced by what is written, the live index holds   *)
(* the old documents, or everything the source describes once something of *)
(* it was acknowledged: for streams, batches, failures and crashes of any  *)
(* number, with the swap's own requests failing half done (Pass::objection *)
(* and swap_in).                                                           *)
THEOREM LiveOldOrWholeHolds ==
  ASSUME WriteMethods = {"replace"}
  PROVE  Spec => []LiveOldOrWhole
<1>1. IInv => LiveOldOrWhole
  BY DEF IInv
<1>2. IInv /\ [Next]_vars => IInv'
  BY InvariantStep
<1>3. QED BY <1>1, <1>2, InvariantInit, PTL DEF Spec

=============================================================================
