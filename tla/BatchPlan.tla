----------------------------- MODULE BatchPlan -----------------------------
(***************************************************************************)
(* The planning loop of MeilisearchPublisher::plan as a state machine: one *)
(* step per message of the batch, in source order.  The loop shares no     *)
(* state with anything, so a step is one whole iteration.                  *)
(***************************************************************************)
EXTENDS Planning

CONSTANT Batches   \* the batches to plan

ASSUME BatchAssumption == Batches \subseteq Seq(Message)

VARIABLES
  batch,   \* the messages being planned
  done,    \* how many of them the loop has considered
  plan     \* the plan so far

vars == <<batch, done, plan>>

Init == /\ batch \in Batches
        /\ done = 0
        /\ plan = EmptyPlan

Position == done + 1

Considering == /\ done < Len(batch)
               /\ plan.stopped = 0
               /\ done' = done + 1
               /\ UNCHANGED batch

(* A truncate, or no index: the plan ends here. *)
StopPlan == /\ Considering
            /\ Unplaceable(batch[Position])
            /\ plan' = Stopped(plan, Position)

Placeable(m) == ~Unplaceable(m) /\ m.valid

(* A document Meilisearch would refuse is set aside and planning goes on. *)
RejectDocument == /\ Considering
                  /\ ~Unplaceable(batch[Position])
                  /\ ~batch[Position].valid
                  /\ plan' = Rejected(plan, Position)

(* The message joins the run of its operation and index in the segment. *)
JoinRun == /\ Considering
           /\ Placeable(batch[Position])
           /\ \E r \in Fitting(Ready(plan, batch[Position]), batch[Position]) :
                plan' = Joined(Ready(plan, batch[Position]), r, Position)

(* The segment has no such run yet: the message opens one. *)
OpenRun == /\ Considering
           /\ Placeable(batch[Position])
           /\ Fitting(Ready(plan, batch[Position]), batch[Position]) = {}
           /\ plan' = Opened(Ready(plan, batch[Position]), batch[Position], Position)

Next == StopPlan \/ RejectDocument \/ JoinRun \/ OpenRun

Spec == Init /\ [][Next]_vars

Planned == plan.stopped # 0 \/ done = Len(batch)

-----------------------------------------------------------------------------
(* Run r carries the message at position i. *)
Carries(r, i) == \E k \in 1 .. Len(plan.runs[r].positions) :
                   plan.runs[r].positions[k] = i

(* Messages i and j write the same document, as far as the plan can tell. *)
SameDocument(i, j) == /\ TargetIndex(batch[i]) = TargetIndex(batch[j])
                      /\ Keyed => batch[i].doc = batch[j].doc

TypeOK == /\ batch \in Seq(Message)
          /\ done \in 0 .. Len(batch)
          /\ plan \in Plan

(* Writes to one document keep their source order: the later one is in the *)
(* same run, behind the earlier one, or in a later run of a later segment, *)
(* which is issued and settled behind it.  publisher.rs, `Run`:            *)
(* "issuing insert(id=7); delete(id=7) out of order would leave document 7 *)
(* in the index for good".                                                 *)
SameDocumentOrder ==
  \A r, s \in 1 .. Len(plan.runs) : \A i, j \in 1 .. done :
    Carries(r, i) /\ Carries(s, j) /\ i < j /\ SameDocument(i, j) =>
      \/ r = s
      \/ r < s /\ plan.runs[r].segment < plan.runs[s].segment

(* Within one run the request body lists the messages in source order, so  *)
(* the last one to write a document is the one that stays.                 *)
BodyOrder ==
  \A r \in 1 .. Len(plan.runs) :
    \A k, l \in 1 .. Len(plan.runs[r].positions) :
      k < l => plan.runs[r].positions[k] < plan.runs[r].positions[l]

(* No message is lost or sent twice by the grouping: when planning ends,   *)
(* each message is in one run, or rejected, or at or behind the stop.      *)
EveryMessageAccounted ==
  Planned => \A i \in 1 .. Len(batch) :
    LET carriers == {r \in 1 .. Len(plan.runs) : Carries(r, i)}
        behind   == plan.stopped # 0 /\ i >= plan.stopped
    IN \/ behind /\ carriers = {} /\ i \notin plan.rejected
       \/ ~behind /\ i \in plan.rejected /\ carriers = {}
       \/ ~behind /\ i \notin plan.rejected /\ \E r \in carriers : carriers = {r}

(* "A batch costs one request per operation and index ... so a document    *)
(* switching operation starts a new segment" (README, Delivery): a segment *)
(* has one run per operation and index, and it was opened because some     *)
(* document of the previous segment switched operation.                    *)
SegmentsOnlyOnSwitch ==
  /\ \A r, s \in 1 .. Len(plan.runs) :
       (/\ plan.runs[r].segment = plan.runs[s].segment
        /\ plan.runs[r].op = plan.runs[s].op
        /\ plan.runs[r].index = plan.runs[s].index) => r = s
  /\ \A s \in 1 .. Len(plan.runs) : plan.runs[s].segment > 0 =>
       \E r, t \in 1 .. Len(plan.runs) : \E i, j \in 1 .. done :
         /\ plan.runs[r].segment + 1 = plan.runs[t].segment
         /\ plan.runs[t].segment = plan.runs[s].segment
         /\ Carries(r, i) /\ Carries(t, j)
         /\ SameDocument(i, j)
         /\ plan.runs[r].op # plan.runs[t].op

=============================================================================
