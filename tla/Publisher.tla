----------------------------- MODULE Publisher -----------------------------
(***************************************************************************)
(* MeilisearchPublisher::send_batch, one step per HTTP request or poll:    *)
(* every run is enqueued, then each is confirmed, then the outcomes are    *)
(* settled into a verdict per message.  `update_existing`, `update_where`  *)
(* and `swap_into` are not part of this module.                            *)
(***************************************************************************)
EXTENDS Meilisearch, Settling

Config ==
  [createIndex : BOOLEAN,    \* `create_index`
   settings : BOOLEAN,       \* `settings` is configured and not empty
   waitForTask : BOOLEAN]    \* `wait_for_task`

VARIABLES
  config,     \* the configuration of the endpoint
  stream,     \* the messages of the source, numbered in source order
  phase,      \* start (endpoint creation), idle, issue or confirm
  batch,      \* the numbers of the messages of the call
  plan,       \* the plan of the call
  prep,       \* prepare_index: none, create, created or settings
  asked,      \* the task prepare_index waits for
  known,      \* known_indexes
  body,       \* positions of the current run still to be sent
  requests,   \* tasks of the current run
  issued,     \* tasks of each run sent entirely
  unissued,   \* why issuing stopped, or none
  waited,     \* how the last task of the run being confirmed ended, or none
  outcomes    \* the outcome of each run confirmed

call == <<batch, plan, body, requests, issued, unissued, waited, outcomes>>
given == <<config, stream>>
publisher == <<phase, prep, asked, known, call>>

(* What a task is asked for by; a restore takes the tasks away. *)
Uids == IF "restore" \in RareMishaps THEN Nat \ {0} ELSE DOMAIN tasks

PublisherTypeOK ==
  /\ config \in Config /\ phase \in {"start", "idle", "issue", "confirm"}
  /\ batch \in Seq(DOMAIN stream) /\ plan \in Plan
  /\ prep \in {"none", "create", "created", "settings"}
  /\ asked \in Uids \cup {0} /\ known \subseteq Indexes
  /\ body \in Seq(DOMAIN batch) /\ requests \in Seq(Uids)
  /\ issued \in Seq(Seq(Uids))
  /\ unissued \in Failure \cup {"none"}
  /\ waited \in Failure \cup {"none", "ok"}
  /\ outcomes \in Seq(Failure \cup {"ok"})

(* A literal index is prepared when the endpoint is created. *)
Created == IF config.createIndex /\ ~Routed THEN "start" ELSE "idle"

NoCall == /\ batch' = <<>> /\ plan' = EmptyPlan /\ body' = <<>> /\ requests' = <<>>
          /\ issued' = <<>> /\ unissued' = "none" /\ waited' = "none" /\ outcomes' = <<>>

PublisherInit ==
  /\ phase = Created /\ prep = "none" /\ asked = 0 /\ known = {}
  /\ batch = <<>> /\ plan = EmptyPlan /\ body = <<>> /\ requests = <<>>
  /\ issued = <<>> /\ unissued = "none" /\ waited = "none" /\ outcomes = <<>>

(* The process stops and the endpoint is created anew. *)
Restarted == phase' = Created /\ prep' = "none" /\ asked' = 0 /\ known' = {} /\ NoCall

-----------------------------------------------------------------------------
(* Turns to run r of the plan, or to confirming when there is none left. *)
TurnTo(p, r) ==
  IF r <= Len(p.runs) THEN phase' = "issue" /\ body' = p.runs[r].positions
                      ELSE phase' = "confirm" /\ body' = <<>>

SendBatch(numbers) ==
  /\ phase = "idle"
  /\ batch' = numbers
  /\ plan' = PlanOf([i \in DOMAIN numbers |-> stream[numbers[i]]])
  /\ TurnTo(plan', 1)
  /\ UNCHANGED <<prep, asked, known, requests, issued, unissued, waited, outcomes>>

CurrentRun == plan.runs[Len(issued) + 1]

(* The index being prepared or written to. *)
Target == IF phase = "start" THEN Literal ELSE CurrentRun.index

(* ensure_index: a routed index not prepared yet. *)
Unprepared == \/ phase = "start"
              \/ /\ phase = "issue" /\ config.createIndex /\ Routed
                 /\ CurrentRun.index \notin known

(* A step that failed ends the issuing of runs; at start it ends create(), *)
(* which the route tries again.                                            *)
Abandon(failure) ==
  /\ prep' = "none"
  /\ IF phase = "start" THEN UNCHANGED <<phase, unissued>>
     ELSE phase' = "confirm" /\ unissued' = failure
  /\ UNCHANGED <<asked, known, batch, plan, body, requests, issued, waited, outcomes>>

-----------------------------------------------------------------------------
Ask(kind, next) ==
  /\ Enqueued(Target, kind, <<>>) /\ UNCHANGED faults
  /\ prep' = next /\ asked' = Len(tasks')
  /\ UNCHANGED <<phase, known, call>>

AskCreate == Unprepared /\ prep = "none" /\ Ask("create", "create")

(* Mutant: an index that exists is taken to be prepared. *)
CreateAnsweredKnown ==
  /\ Unprepared /\ prep = "none" /\ indexes[Target] # "absent"
  /\ known' = known \cup {Target}
  /\ phase' = IF phase = "start" THEN "idle" ELSE phase
  /\ UNCHANGED <<server, prep, asked, call>>

(* Some versions answer "index_already_exists" to the request itself. *)
CreateAnsweredExists ==
  /\ Unprepared /\ prep = "none" /\ indexes[Target] # "absent"
  /\ prep' = "created"
  /\ UNCHANGED <<server, phase, asked, known, call>>

CreateFinished ==
  /\ prep = "create" /\ Status(asked) \in {"succeeded", "exists"}
  /\ prep' = "created"
  /\ UNCHANGED <<server, phase, asked, known, call>>

AskSettings == prep = "created" /\ config.settings /\ Ask("settings", "settings")

Prepared ==
  /\ IF config.settings THEN prep = "settings" /\ Status(asked) = "succeeded"
                    ELSE prep = "created"
  /\ prep' = "none"
  /\ IF phase = "start" THEN phase' = "idle" /\ UNCHANGED known
     ELSE known' = known \cup {Target} /\ UNCHANGED phase
  /\ UNCHANGED <<server, asked, call>>

(* Mutant: the status of the task is reported as it is. *)
TaskStatus(t) == Status(t)

(* wait_for_task on a task that ended badly: failed is permanent, a task   *)
(* Meilisearch no longer knows has to be sent again.                       *)
TaskOutcome(t) == CASE Status(t) = "succeeded" -> "ok"
                    [] Status(t) = "unknown" -> "retryable"
                    [] OTHER -> "permanent"

PrepareFailed ==
  /\ prep \in {"create", "settings"}
  /\ Status(asked) \in {"failed", "unknown"}
  /\ Abandon(TaskOutcome(asked))
  /\ UNCHANGED server

-----------------------------------------------------------------------------
Writing == phase = "issue" /\ ~Unprepared /\ prep = "none"

(* How many messages of the run the next request carries: a delete run is  *)
(* one request; documents are split by size, which is not modelled, so     *)
(* anywhere.                                                               *)
Sizes == IF CurrentRun.op = "delete" THEN {Len(body)} ELSE 1 .. Len(body)

Entries(k) == [j \in 1 .. k |-> [doc |-> stream[batch[body[j]]].doc,
                                 number |-> batch[body[j]]]]

WriteDocuments(k) ==
  /\ Writing /\ k \in Sizes
  /\ Enqueued(Target, "write", Entries(k)) /\ UNCHANGED faults
  /\ IF k < Len(body)
     THEN /\ body' = SubSeq(body, k + 1, Len(body))
          /\ requests' = Append(requests, Len(tasks'))
          /\ UNCHANGED <<phase, issued>>
     ELSE /\ issued' = Append(issued, Append(requests, Len(tasks')))
          /\ requests' = <<>>
          /\ TurnTo(plan, Len(issued') + 1)
  /\ UNCHANGED <<prep, asked, known, batch, plan, unissued, waited, outcomes>>

(* A request about to be sent. *)
Requests ==
  CASE Unprepared /\ prep = "none" -> {[kind |-> "create", writes |-> <<>>]}
    [] prep = "created" /\ config.settings -> {[kind |-> "settings", writes |-> <<>>]}
    [] Writing -> {[kind |-> "write", writes |-> Entries(k)] : k \in Sizes}
    [] OTHER -> {}

(* The request is enqueued, at once or later, but its 202 never arrives. *)
ReplyLost == \E q \in Requests : /\ Mishap
                                 /\ \/ Enqueued(Target, q.kind, q.writes)
                                    \/ HeldBack(Target, q.kind, q.writes)
                                 /\ Abandon("retryable")

(* The request is not accepted. *)
RequestRefused == \E q \in Requests, failure \in Failure :
                    /\ Mishap /\ UNCHANGED <<tasks, docs, indexes, late>>
                    /\ Abandon(failure)

-----------------------------------------------------------------------------
(* Mutant: every run issued is waited for. *)
PassedNever(r) == FALSE

(* A run behind a failed segment is not waited for. *)
Passed(r) == Behind(plan, outcomes, r)

Confirming == /\ phase = "confirm" /\ Len(outcomes) < Len(issued)
              /\ ~Passed(Len(outcomes) + 1)

Tasks == issued[Len(outcomes) + 1]

(* Mutant: a task that is not found is polled for ever. *)
EndedFound(t) == Status(t) \in {"succeeded", "failed"}

Ended(t) == Status(t) # "enqueued"

Confirmed(outcome) == outcomes' = Append(outcomes, outcome) /\ waited' = "none"

(* wait_for_tasks waits for the last task first ... *)
AwaitLast ==
  /\ Confirming /\ config.waitForTask /\ waited = "none"
  /\ Ended(Last(Tasks))
  /\ waited' = TaskOutcome(Last(Tasks))
  /\ UNCHANGED <<server, phase, prep, asked, known, batch, plan, body, requests,
                 issued, unissued, outcomes>>

(* Mutant: the last task speaks for the earlier ones. *)
ReadLastOnly ==
  /\ Confirming /\ waited # "none"
  /\ Confirmed(waited)
  /\ UNCHANGED <<server, phase, prep, asked, known, batch, plan, body, requests,
                 issued, unissued>>

(* ... then reads the earlier ones in order, up to the first that failed. *)
ReadEarlier ==
  /\ Confirming /\ waited # "none"
  /\ \E k \in DOMAIN Tasks :
       /\ \A j \in 1 .. k - 1 : TaskOutcome(Tasks[j]) = "ok"
       /\ IF k = Len(Tasks) THEN Confirmed(waited)
          ELSE /\ Ended(Tasks[k]) /\ TaskOutcome(Tasks[k]) # "ok"
               /\ Confirmed(TaskOutcome(Tasks[k]))
  /\ UNCHANGED <<server, phase, prep, asked, known, batch, plan, body, requests,
                 issued, unissued>>

DoNotWait ==
  /\ Confirming /\ ~config.waitForTask
  /\ Confirmed("ok")
  /\ UNCHANGED <<server, phase, prep, asked, known, batch, plan, body, requests,
                 issued, unissued>>

(* A poll is answered with an error no repetition heals, such as a key     *)
(* that was revoked.  One that may heal is repeated: a step of no effect.  *)
PollRefused ==
  /\ Mishap /\ UNCHANGED <<tasks, docs, indexes, late>>
  /\ \/ prep \in {"create", "settings"} /\ Abandon("permanent")
     \/ /\ Confirming /\ config.waitForTask
        /\ IF waited = "none" THEN waited' = "permanent" /\ UNCHANGED outcomes
           ELSE Front(Tasks) # <<>> /\ Confirmed("permanent")
        /\ UNCHANGED <<phase, prep, asked, known, batch, plan, body, requests,
                       issued, unissued>>

PublisherStep ==
  \/ AskCreate \/ CreateAnsweredExists \/ CreateFinished \/ AskSettings \/ Prepared
  \/ PrepareFailed
  \/ \E k \in 1 .. Len(body) : WriteDocuments(k)
  \/ AwaitLast \/ ReadEarlier \/ DoNotWait

PublisherMishap == ReplyLost \/ RequestRefused \/ PollRefused

-----------------------------------------------------------------------------
AllConfirmed == phase = "confirm" /\ ~Confirming

Outcomes == OutcomesOf(Len(issued), unissued, outcomes)

Verdict(i) == Settled(plan, Outcomes, i)

(* Mutant: places in the batch are taken for the messages there. *)
JudgedPlaces(verdict) ==
  SelectSeq([i \in DOMAIN batch |-> i], LAMBDA i : Verdict(i) = verdict)

(* Mutant: the messages are handed back last first. *)
JudgedBackwards(verdict) ==
  Reverse(SelectSeq([i \in DOMAIN batch |-> batch[i]],
                    LAMBDA n : \E i \in DOMAIN batch :
                                 batch[i] = n /\ Verdict(i) = verdict))

(* The numbers of the batch with a verdict, in source order. *)
Judged(verdict) ==
  LET upTo[i \in 0 .. Len(batch)] ==
        IF i = 0 THEN <<>>
        ELSE IF Verdict(i) = verdict THEN Append(upTo[i - 1], batch[i]) ELSE upTo[i - 1]
  IN upTo[Len(batch)]

Return == /\ AllConfirmed /\ phase' = "idle" /\ NoCall
          /\ UNCHANGED <<prep, asked, known>>

=============================================================================
