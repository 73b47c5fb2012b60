----------------------------- MODULE SinkRoute -----------------------------
(***************************************************************************)
(* A route that ends in the publisher.  The route itself is mq-bridge code *)
(* (external), modelled from what the publisher asks of it: it sends one   *)
(* batch at a time (requires_ordered_publish), dead-letters the messages   *)
(* reported as NonRetryable, resends the Retryable ones in source order    *)
(* before it reads on, or gives up on them, and commits the source behind  *)
(* the batch.  A crash loses the call and the progress not yet committed.  *)
(***************************************************************************)
EXTENDS Publisher

CONSTANTS
  Scenarios,   \* endpoints, each with the messages to deliver to it
  BatchSize    \* `batch_size` of the route

ASSUME RouteAssumption == /\ Scenarios \subseteq [config : Config, stream : Seq(Message)]
                          /\ BatchSize \in Nat \ {0}

VARIABLES
  received,    \* messages read from the source
  committed,   \* messages the source will not deliver again
  backlog,     \* messages to resend
  acked,       \* messages reported as delivered
  dead         \* messages dead-lettered

route == <<received, committed, backlog, acked, dead>>
vars == <<given, server, publisher, route>>

TypeOK == /\ ServerTypeOK /\ PublisherTypeOK
          /\ committed \in 0 .. Len(stream) /\ received \in committed .. Len(stream)
          /\ backlog \in Seq(1 .. received)
          /\ acked \subseteq 1 .. received /\ dead \subseteq 1 .. received

Init == /\ \E s \in Scenarios : config = s.config /\ stream = s.stream
        /\ ServerInit /\ PublisherInit
        /\ received = 0 /\ committed = 0 /\ backlog = <<>>
        /\ acked = {} /\ dead = {}

Receive ==
  /\ committed = received /\ received < Len(stream)
  /\ \E n \in received + 1 .. Min({received + BatchSize, Len(stream)}) :
       /\ received' = n
       /\ SendBatch([k \in 1 .. n - received |-> received + k])
  /\ UNCHANGED <<given, server, committed, backlog, acked, dead>>

Resend ==
  /\ backlog # <<>> /\ SendBatch(backlog)
  /\ backlog' = <<>>
  /\ UNCHANGED <<given, server, received, committed, acked, dead>>

(* The attempts of the route's retry policy are used up. *)
GiveUp ==
  /\ phase = "idle" /\ backlog # <<>>
  /\ dead' = dead \cup Range(backlog) /\ backlog' = <<>>
  /\ UNCHANGED <<given, server, publisher, received, committed, acked>>

(* send_batch returns its SentBatch. *)
Report ==
  /\ Return
  /\ acked' = acked \cup Range(Judged("ok"))
  /\ dead' = dead \cup Range(Judged("permanent"))
  /\ backlog' = Judged("retryable")
  /\ UNCHANGED <<given, server, received, committed>>

Commit ==
  /\ phase = "idle" /\ backlog = <<>> /\ committed < received
  /\ committed' = received
  /\ UNCHANGED <<given, server, publisher, received, backlog, acked, dead>>

Crash ==
  /\ Mishap /\ Restarted
  /\ received' = committed /\ backlog' = <<>>
  /\ acked' = acked \cap 1 .. committed /\ dead' = dead \cap 1 .. committed
  /\ UNCHANGED <<given, tasks, docs, indexes, late, committed>>

Call == PublisherStep /\ UNCHANGED <<given, route>>
Apply == ApplyTask /\ UNCHANGED <<given, publisher, route>>
Trouble == \/ PublisherMishap /\ UNCHANGED <<given, route>>
           \/ (LoseTask \/ Restore \/ Arrival) /\ UNCHANGED <<given, publisher, route>>

Next == \/ Receive \/ Resend \/ GiveUp \/ Report \/ Commit \/ Crash
        \/ Call \/ Apply \/ Trouble

Spec == Init /\ [][Next]_vars

(* The route is a task the runtime keeps scheduling, with the publisher it *)
(* calls, and Meilisearch works through its queue.  Nothing is assumed of  *)
(* mishaps, nor of giving up.                                              *)
Fairness == /\ WF_vars(Call \/ Report \/ Resend \/ Commit \/ Receive)
            /\ WF_vars(Apply)

FairSpec == Spec /\ Fairness

-----------------------------------------------------------------------------
Index(n) == TargetIndex(stream[n])
Doc(n) == stream[n].doc
SameDocument(m, n) == Index(m) = Index(n) /\ Doc(m) = Doc(n)

(* A write reported as delivered is in the index, or a newer write of its  *)
(* document is: no failure, resend or restart puts an older one on top.    *)
(* README, Delivery: "the route never sees an unconfirmed write reported   *)
(* as delivered", and "an older row overwrites a newer one silently".      *)
AckedWriteSurvives ==
  config.waitForTask => \A n \in acked : docs[Index(n)][Doc(n)] >= n

(* What is handed back to be resent holds no write older than one already  *)
(* reported as delivered for the same document (settle: "a later write to  *)
(* the same document must not land ahead of it").                          *)
ResendBehindNoAck ==
  \A n \in acked : \A k \in DOMAIN backlog : SameDocument(backlog[k], n) => n < backlog[k]

(* No document is indexed before the settings of its index: the embedders  *)
(* and attributes of `settings` apply from the first load on (prepare_index*)
(* and ensure_index; README: "declare ... before the first load").         *)
SettingsBeforeDocuments ==
  config.createIndex /\ config.settings =>
    \A i \in Indexes : (\E d \in Docs : docs[i][d] # 0) => indexes[i] = "configured"

(* No message is dropped: one the source will not deliver again was        *)
(* dead-lettered or reported as delivered, not both, and what is reported  *)
(* as delivered was in a request Meilisearch took.  In send_batch a message*)
(* without a failure counts as delivered, so one the plan rejected, stopped*)
(* at, or never got to send is lost unless some branch marks it.           *)
EveryCommitSettled ==
  /\ acked \cap dead = {}
  /\ 1 .. committed \subseteq acked \cup dead
  /\ \A n \in acked : \E t \in DOMAIN tasks : \E k \in DOMAIN tasks[t].writes :
       tasks[t].writes[k].number = n

(* A call ends in one of the ways Rebuild takes a call to go in one step:  *)
(* issuing stops at the first failure, and confirming stops before the     *)
(* first run of a later segment than one that failed, not earlier and not  *)
(* later.                                                                  *)
EndsAsCall ==
  AllConfirmed => [issued |-> Len(issued), unissued |-> unissued,
                   confirmed |-> outcomes] \in Calls(plan)

(* "the writes already confirmed are not sent again" (README, Ordering),   *)
(* nor is an older write to one of their documents: whatever a batch, a    *)
(* resend or a restart puts into the queue is newer than what was reported *)
(* as delivered.  Only a request held back on the way can come behind.     *)
SentBehindAcked ==
  [][late' = late =>
       \A t \in DOMAIN tasks' \ DOMAIN tasks : \A k \in DOMAIN tasks'[t].writes :
         \A n \in acked : SameDocument(tasks'[t].writes[k].number, n) =>
                           tasks'[t].writes[k].number > n]_vars

(* Every stream is delivered to its end: the unbounded wait for a task     *)
(* always ends, whatever happened to the task.                             *)
EverythingSettled == <>[](committed = Len(stream))

(* Once all is delivered and applied, and nothing was given up or lost on  *)
(* the server, each document is what its newest message made it.           *)
Converged ==
  (/\ committed = Len(stream) /\ dead = {}
   /\ \A t \in DOMAIN tasks : tasks[t].status \notin {"enqueued", "failed", "unknown"}) =>
    \A n \in 1 .. Len(stream) : docs[Index(n)][Doc(n)] =
      Max({m \in 1 .. Len(stream) : SameDocument(m, n)})

=============================================================================
