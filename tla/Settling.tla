------------------------------ MODULE Settling ------------------------------
(***************************************************************************)
(* From outcomes to verdicts: how far the confirm loop of send_batch goes  *)
(* once a run has failed, and what settle makes of the outcomes for every  *)
(* message of the batch (publisher.rs).                                    *)
(***************************************************************************)
EXTENDS Planning, SequencesExt

Failure == {"retryable", "permanent"}
Outcome == Failure \cup {"ok"}

(* The plan of a batch: the loop run over all its messages. *)
PlanOf(messages) ==
  LET upTo[n \in 0 .. Len(messages)] ==
        IF n = 0 THEN EmptyPlan ELSE Considered(upTo[n - 1], messages[n], n)
  IN upTo[Len(messages)]

FailedRuns(outcomes) == {r \in DOMAIN outcomes : outcomes[r] # "ok"}

(* A run of a later segment than one that was confirmed to have failed. *)
Behind(p, confirmed, r) == \E s \in FailedRuns(confirmed) :
                             p.runs[s].segment < p.runs[r].segment

(* Mutant: what stopped the issuing is not passed on. *)
OutcomesOfConfirmed(issued, unissued, confirmed) == confirmed

(* The outcomes settle works on: what stopped the issuing comes last, when *)
(* every run issued was confirmed.                                         *)
OutcomesOf(issued, unissued, confirmed) ==
  IF unissued # "none" /\ Len(confirmed) = issued THEN Append(confirmed, unissued)
  ELSE confirmed

(* How a call may go: the first `issued` runs are sent entirely, `unissued`*)
(* says what stopped the next one, and the loop waits for the runs sent    *)
(* until one lies behind a failed segment.                                 *)
Calls(p) ==
  {c \in [issued : 0 .. Len(p.runs), unissued : Failure \cup {"none"},
          confirmed : UNION {[1 .. n -> Outcome] : n \in 0 .. Len(p.runs)}] :
     /\ (c.unissued = "none") <=> (c.issued = Len(p.runs))
     /\ Len(c.confirmed) <= c.issued
     /\ \A r \in DOMAIN c.confirmed : ~Behind(p, c.confirmed, r)
     /\ \/ Len(c.confirmed) = c.issued
        \/ Behind(p, c.confirmed, Len(c.confirmed) + 1)}

(* Mutant: a run that was never confirmed counts as confirmed. *)
RunVerdictUnsent(p, outcomes, r) == IF r \in FailedRuns(outcomes) THEN outcomes[r] ELSE "ok"

(* A run of a segment behind the first failure, or one without an outcome, *)
(* goes back with the first failure.                                       *)
RunVerdict(p, outcomes, r) ==
  LET failed == FailedRuns(outcomes)
  IN IF r \in failed THEN outcomes[r]
     ELSE IF \/ failed = {}
             \/ /\ r \in DOMAIN outcomes
                /\ p.runs[r].segment <= p.runs[Min(failed)].segment
     THEN "ok"
     ELSE outcomes[Min(failed)]

Carriers(p, i) == {r \in DOMAIN p.runs : i \in Range(p.runs[r].positions)}

(* Mutant: where the plan stopped is forgotten. *)
SettledWithoutStop(p, outcomes, i) ==
  CASE i \in p.rejected -> "permanent"
    [] Carriers(p, i) = {} -> "ok"
    [] OTHER -> RunVerdict(p, outcomes, CHOOSE r \in Carriers(p, i) : TRUE)

(* The verdict on the message at position i. *)
Settled(p, outcomes, i) ==
  IF i \in p.rejected \/ (p.stopped # 0 /\ i >= p.stopped) THEN "permanent"
  ELSE RunVerdict(p, outcomes, CHOOSE r \in Carriers(p, i) : TRUE)

=============================================================================
