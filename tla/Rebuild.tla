------------------------------ MODULE Rebuild ------------------------------
(***************************************************************************)
(* A route that rebuilds an index under another name and swaps it with the *)
(* live one when its input is drained: `swap_into`, the Pass that decides  *)
(* whether the swap may happen, and swap_in, run by the disconnect hook.   *)
(*                                                                         *)
(* A batch is one step here, with the outcomes Settling allows for it; the *)
(* steps inside are the subject of Publisher.  What is built is literally  *)
(* one index, so Planning is used with Routed = FALSE.  The route around   *)
(* it is external, as in SinkRoute.                                        *)
(*                                                                         *)
(* A document is the set of the numbers of the messages whose fields it    *)
(* holds: one for `replace`, several after merges, none when it is absent. *)
(***************************************************************************)
EXTENDS Settling, Configuration

CONSTANTS
  Streams,        \* the message streams to rebuild from
  BatchSize,      \* `batch_size` of the route
  WriteMethods,   \* the values of `method` considered
  Absent,         \* in place of the documents of an index that does not exist
  MaxFaults,      \* bound: calls with a failure, failed requests of the swap
  MaxCrashes      \* bound: crashes

ASSUME RebuildAssumption ==
  /\ ~Routed /\ Streams \subseteq Seq(Message) /\ BatchSize \in Nat \ {0}
  /\ Absent \notin [Docs -> SUBSET Nat]
  /\ WriteMethods \subseteq Methods /\ MaxFaults \in Nat /\ MaxCrashes \in Nat

VARIABLES
  stream,     \* the messages of the source, numbered in source order
  config,     \* the configuration of the endpoint
  phase,      \* start, running, create, swap, delete or ended
  built,      \* the documents under the build name; Absent without an index
  live,       \* the documents under the live name
  before,     \* the live documents before the rebuild
  pass,       \* the Pass of the publisher
  received,   \* messages read from the source
  committed,  \* messages the source will not deliver again
  backlog,    \* messages to resend
  acked,      \* messages reported as delivered
  dead,       \* messages in the dead letters
  forgotten,  \* messages dead-lettered before a crash
  faults, crashes

index == <<built, live, before>>
route == <<received, committed, backlog, acked, dead, forgotten>>
vars == <<stream, config, phase, index, pass, route, faults, crashes>>

Empty == [d \in Docs |-> {}]
Old == [d \in Docs |-> {0}]

Contents == {Absent} \cup [Docs -> SUBSET (0 .. Len(stream))]

TypeOK ==
  /\ config \in Config
  /\ phase \in {"start", "running", "create", "swap", "delete", "ended"}
  /\ built \in Contents /\ live \in Contents /\ before \in Contents
  /\ pass \in [written : BOOLEAN, refused : BOOLEAN, unwritten : SUBSET Docs]
  /\ committed \in 0 .. Len(stream) /\ received \in committed .. Len(stream)
  /\ \A S \in {backlog, acked, dead} : S \subseteq 1 .. received
  /\ forgotten \subseteq 1 .. Len(stream)
  /\ faults \in 0 .. MaxFaults /\ crashes \in 0 .. MaxCrashes

NewPass == [written |-> FALSE, refused |-> FALSE, unwritten |-> {}]

Init ==
  /\ stream \in Streams
  /\ config \in {c \in Config : /\ Accepted(c) /\ c.swap = "fixed"
                                /\ c.key = Keyed /\ c.operation = OperationMapped
                                /\ c.method \in WriteMethods}
  /\ phase = "start" /\ built = Absent
  /\ live \in {Absent, Old} /\ before = live
  /\ pass = NewPass
  /\ received = 0 /\ committed = 0 /\ backlog = {}
  /\ acked = {} /\ dead = {} /\ forgotten = {}
  /\ faults = 0 /\ crashes = 0

-----------------------------------------------------------------------------
Doc(n) == stream[n].doc
Deletes(n) == Classify(stream[n]) = "delete"

(* What the writes of a set of messages make of a document.  They are      *)
(* applied in source order.                                                *)
Content(old, writes) ==
  LET deletes == {n \in writes : Deletes(n)}
      base == IF deletes = {} THEN old ELSE {}
      added == {n \in writes : \A m \in deletes : m < n}
  IN IF added = {} \/ (config.method = "update_existing" /\ base = {}) THEN base
     ELSE IF config.method = "replace" THEN {Max(added)}
     ELSE base \cup added

(* Documents as the writes of a set of messages leave them. *)
Written(contents, writes) ==
  [d \in Docs |-> Content(contents[d], {n \in writes : Doc(n) = d})]

(* A message the plan would send. *)
Writes(n) == stream[n].valid /\ ~Unplaceable(stream[n])

(* What the source describes: every message the plan would send, applied.  *)
Described == Written(Empty, {n \in 1 .. Len(stream) : Writes(n)})

(* Mutant: a document that is written in the end stays unwritten. *)
RecordedForever(failed, retried, ok) ==
  [written |-> TRUE, refused |-> pass.refused \/ failed # {} \/ (retried # {} /\ ~Keyed),
   unwritten |-> pass.unwritten \cup IF Keyed THEN {Doc(n) : n \in retried} ELSE {}]

(* Mutant: the message is noted where its document should be. *)
RecordedByMessage(failed, retried, ok) ==
  [written |-> TRUE, refused |-> pass.refused \/ failed # {} \/ (retried # {} /\ ~Keyed),
   unwritten |-> IF Keyed THEN (pass.unwritten \ ok) \cup retried ELSE {}]

(* Pass.record: a document written since is no longer unwritten; a message *)
(* refused for good, or to be retried without an id, spoils the pass.  The *)
(* messages of a batch are taken in order: the last of a document decides. *)
Recorded(failed, retried, ok) ==
  LET lastOf(n, S) == \A m \in S : Doc(m) = Doc(n) => m <= n
      noted == {Doc(n) : n \in {k \in retried : lastOf(k, ok)}}
      cleared == {Doc(n) : n \in {k \in ok : lastOf(k, retried)}}
  IN [written |-> TRUE,
      refused |-> pass.refused \/ failed # {} \/ (retried # {} /\ ~Keyed),
      unwritten |-> IF Keyed THEN (pass.unwritten \ cleared) \cup noted ELSE {}]

(* Pass.objection raises none. *)
MaySwap(outcome) == /\ outcome = "Completed"
                    /\ ~pass.refused /\ pass.unwritten = {} /\ pass.written

-----------------------------------------------------------------------------
(* create: the index to build exists, with whatever is in it. *)
Start ==
  /\ phase = "start" /\ phase' = "running"
  /\ built' = IF built = Absent THEN Empty ELSE built
  /\ pass' = NewPass
  /\ UNCHANGED <<stream, config, live, before, route, faults, crashes>>

(* The messages of a call that some runs carry. *)
Carried(numbers, p, runs) ==
  {numbers[i] : i \in UNION {Range(p.runs[r].positions) : r \in runs}}

(* The messages of a call whose writes may have been applied: all of a run *)
(* that was confirmed, any of the others that were sent.                   *)
Landings(numbers, p, c) ==
  LET sure == IF config.wait THEN DOMAIN c.confirmed \ FailedRuns(c.confirmed) ELSE {}
      sent == 1 .. Min({c.issued + 1, Len(p.runs)})
  IN {S \in SUBSET Carried(numbers, p, sent) : Carried(numbers, p, sure) \subseteq S}

(* One send_batch call and what the route does with its answer. *)
Deliver(numbers) ==
  LET p == PlanOf([i \in DOMAIN numbers |-> stream[numbers[i]]])
  IN \E c \in Calls(p) : \E landed \in Landings(numbers, p, c) :
       LET outcomes == OutcomesOf(c.issued, c.unissued, c.confirmed)
           judged(v) == {numbers[i] : i \in {k \in DOMAIN numbers : Settled(p, outcomes, k) = v}}
       IN /\ IF /\ FailedRuns(outcomes) = {}
                /\ landed = Carried(numbers, p, DOMAIN p.runs) THEN UNCHANGED faults
             ELSE faults < MaxFaults /\ faults' = faults + 1
          /\ built' = Written(built, landed)
          /\ pass' = Recorded(judged("permanent"), judged("retryable"), judged("ok"))
          /\ acked' = acked \cup judged("ok")
          /\ dead' = dead \cup judged("permanent")
          /\ backlog' = judged("retryable")
  /\ UNCHANGED <<stream, config, phase, live, before, committed, forgotten, crashes>>

Receive ==
  /\ phase = "running" /\ committed = received /\ received < Len(stream)
  /\ \E n \in received + 1 .. Min({received + BatchSize, Len(stream)}) :
       /\ received' = n
       /\ Deliver([k \in 1 .. n - received |-> received + k])

(* The numbers of a set, in source order. *)
InOrder(S) ==
  {s \in [1 .. Cardinality(S) -> S] :
     Range(s) = S /\ \A k, l \in DOMAIN s : k < l => s[k] < s[l]}

Resend ==
  /\ phase = "running" /\ backlog # {}
  /\ UNCHANGED received
  /\ \E numbers \in InOrder(backlog) : Deliver(numbers)

GiveUp ==
  /\ phase = "running" /\ backlog # {}
  /\ dead' = dead \cup backlog /\ backlog' = {}
  /\ UNCHANGED <<stream, config, phase, index, pass, received, committed, acked,
                 forgotten, faults, crashes>>

Commit ==
  /\ phase = "running" /\ backlog = {} /\ committed < received
  /\ committed' = received
  /\ UNCHANGED <<stream, config, phase, index, pass, received, backlog, acked, dead,
                 forgotten, faults, crashes>>

(* The process stops and the route is started again where it had committed.*)
Crash ==
  /\ crashes < MaxCrashes /\ crashes' = crashes + 1
  /\ phase \notin {"start", "ended"} /\ phase' = "start"
  /\ received' = committed /\ backlog' = {}
  /\ acked' = acked \cap 1 .. committed
  /\ dead' = dead \cap 1 .. committed /\ forgotten' = forgotten \cup dead
  /\ UNCHANGED <<stream, config, index, pass, committed, faults>>

-----------------------------------------------------------------------------
Drained == received = Len(stream) /\ committed = received /\ backlog = {}

(* The route ends and runs the disconnect hook.  A host that is too old    *)
(* reports no outcome.                                                     *)
Disconnect ==
  /\ phase = "running"
  /\ \E outcome \in {"Failed", "Stopped", "none"} \cup (IF Drained THEN {"Completed"} ELSE {}) :
       phase' = IF MaySwap(outcome) THEN "create" ELSE "ended"
  /\ UNCHANGED <<stream, config, index, pass, route, faults, crashes>>

(* A request of the hook goes through, or fails without having an effect,  *)
(* or has its effect and fails all the same: then the hook ends there.     *)
Requested(next, done, undone) ==
  \/ done /\ phase' = next /\ UNCHANGED faults
  \/ /\ faults < MaxFaults /\ faults' = faults + 1 /\ phase' = "ended"
     /\ done \/ undone

CreateLive ==
  /\ phase = "create"
  /\ Requested("swap", live' = (IF live = Absent THEN Empty ELSE live), UNCHANGED live)
  /\ UNCHANGED <<stream, config, built, before, pass, route, crashes>>

SwapIndexes ==
  /\ phase = "swap"
  /\ Requested("delete", live' = built /\ built' = live, UNCHANGED <<live, built>>)
  /\ UNCHANGED <<stream, config, before, pass, route, crashes>>

DeleteBuilt ==
  /\ phase = "delete"
  /\ Requested("ended", built' = Absent, UNCHANGED built)
  /\ UNCHANGED <<stream, config, live, before, pass, route, crashes>>

Next == \/ Start \/ Receive \/ Resend \/ GiveUp \/ Commit \/ Crash
        \/ Disconnect \/ CreateLive \/ SwapIndexes \/ DeleteBuilt

Spec == Init /\ [][Next]_vars

-----------------------------------------------------------------------------
(* Under the live name are the documents of before the rebuild or, when    *)
(* they were replaced, all that the source describes: never a part of it,  *)
(* whatever was refused, retried, stopped, repeated after a crash or half  *)
(* done by the hook, and never an empty source (Pass.objection, swap_in;   *)
(* README: "Searches keep hitting the old index until the swap").  What a  *)
(* process noted before it crashed is not known to the next: see           *)
(* DeadLetterBlocksSwap.                                                   *)
LiveOldOrWhole ==
  forgotten = {} =>
    \/ live = before
    \/ before = Absent /\ live = Empty
    \/ live = Described /\ acked # {}

(* README, Rebuilding an index: "one that failed and was then written by a *)
(* `retry` does not" block the swap.  A source drained without a dead      *)
(* letter goes live, whatever was retried on the way.                      *)
RetriedDoesNotBlock ==
  (phase = "running" /\ Drained /\ Keyed /\ dead = {} /\ crashes = 0 /\ Len(stream) > 0)
    => MaySwap("Completed")

Swapped == phase = "swap" /\ live' # live

(* README: "one that was refused or dead-lettered blocks the swap, since   *)
(* the new index would be missing it".  What is missing is a message whose *)
(* fields the source describes and the new index does not hold.            *)
DeadLetterBlocksSwap ==
  [][Swapped => \A n \in dead \cup forgotten :
                  n \in Described[Doc(n)] => n \in live'[Doc(n)]]_vars

=============================================================================
