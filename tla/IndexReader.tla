---------------------------- MODULE IndexReader ----------------------------
(***************************************************************************)
(* MeilisearchConsumer: a scan of an index by offset, with a durable       *)
(* checkpoint.  The documents are their positions 0 .. Total - 1: paging   *)
(* is only stable while nobody writes to the index (README, Reading), so   *)
(* the index does not change.  A document's payload, and the idle sleep    *)
(* itself, are left out.                                                   *)
(*                                                                         *)
(* The route (mq-bridge, external) decides how many batches it keeps in    *)
(* flight and how each message is disposed of; it commits the batches in   *)
(* the order they were received (commit_requires_order).  A batch it drops *)
(* without a commit, other than by starting the endpoint again, is not     *)
(* rolled back (README, Reading) and is left out.                          *)
(***************************************************************************)
EXTENDS Naturals, Sequences

CONSTANTS
  Total,        \* documents in the index
  PageSize,     \* the largest `max_messages` the route asks for
  MaxInFlight,  \* batches the route receives before committing the first
  BaseDelay,    \* `polling_interval_ms`
  MaxDelay,     \* `max_polling_interval_ms`
  MaxMishaps    \* bound: failed requests, refused messages, failed saves, restarts

ASSUME ReaderAssumption ==
  /\ Total \in Nat /\ PageSize \in Nat \ {0} /\ MaxInFlight \in Nat \ {0}
  /\ BaseDelay \in Nat /\ MaxDelay \in Nat /\ BaseDelay <= MaxDelay
  /\ MaxMishaps \in Nat

VARIABLES
  exitOnEmpty, \* the route drains the index instead of following it
  ended,       \* how the scan ended: no, drained, or the error it ended on
  offset,      \* where the next page starts
  saved,       \* the offset in the checkpoint store
  reading,     \* the page request in progress: a set of at most one
  inflight,    \* batches handed to the route and not committed
  delay,       \* the backoff's current idle delay
  delivered,   \* documents some batch acknowledged
  mishaps

vars == <<exitOnEmpty, ended, offset, saved, reading, inflight, delay, delivered, mishaps>>

Documents == 0 .. Total - 1

Read == [start : Nat, max : 1 .. PageSize]
Batch == [start : Nat, count : Nat \ {0}]

Covers(b) == b.start .. b.start + b.count - 1

LesserOf(a, b) == IF a <= b THEN a ELSE b

(* How a page request may fail: a client error (4xx), an error of the      *)
(* server, or no answer that can be read.                                  *)
ClientErrors == {"rejected", "notFound", "requestTimeout", "tooManyRequests"}
Errors == ClientErrors \cup {"server", "transport"}

(* Mutant: every client error is permanent. *)
PermanentForClient(e) == e \in ClientErrors

(* consumer_error: what cannot heal by reconnecting; the route retries the *)
(* other errors.                                                           *)
Permanent(e) == e \in ClientErrors \ {"notFound", "requestTimeout", "tooManyRequests"}

(* create: the scan resumes from the checkpoint, or from the start. *)
Init == /\ exitOnEmpty \in BOOLEAN /\ ended = "no"
        /\ offset = 0 /\ saved = 0 /\ reading = {} /\ inflight = <<>>
        /\ delay = BaseDelay /\ delivered = {} /\ mishaps = 0

Mishap == mishaps < MaxMishaps /\ mishaps' = mishaps + 1

(* receive_batch reads the offset and asks for a page ... *)
AskPage ==
  /\ ended = "no" /\ reading = {} /\ Len(inflight) < MaxInFlight
  /\ \E n \in 1 .. PageSize : reading' = {[start |-> offset, max |-> n]}
  /\ UNCHANGED <<exitOnEmpty, ended, offset, saved, inflight, delay, delivered, mishaps>>

(* ... and advances past the page once it has arrived. *)
ReceivePage ==
  \E q \in reading :
    /\ q.start < Total
    /\ LET count == LesserOf(q.max, Total - q.start)
       IN /\ offset' = q.start + count
          /\ inflight' = Append(inflight, [start |-> q.start, count |-> count])
    /\ reading' = {} /\ delay' = BaseDelay
    /\ UNCHANGED <<exitOnEmpty, ended, saved, delivered, mishaps>>

(* Mutant: the idle delay grows without a maximum. *)
IdledUncapped == delay' = 2 * delay

(* The idle delay grows up to its maximum. *)
Idled == delay' = LesserOf(2 * delay, MaxDelay)

(* An empty page is what a drain ends on; otherwise it costs the delay. *)
ReceiveEmpty ==
  \E q \in reading :
    /\ q.start >= Total /\ reading' = {}
    /\ IF exitOnEmpty THEN ended' = "drained" /\ UNCHANGED delay
       ELSE Idled /\ UNCHANGED ended
    /\ UNCHANGED <<exitOnEmpty, offset, saved, inflight, delivered, mishaps>>

(* The request fails: the route asks again, or ends on a permanent error.  *)
ReceiveFails ==
  /\ reading # {} /\ Mishap
  /\ reading' = {}
  /\ \E e \in Errors : ended' = IF Permanent(e) THEN e ELSE "no"
  /\ UNCHANGED <<exitOnEmpty, offset, saved, inflight, delay, delivered>>

(* Mutant: the boundary lies behind the last message acknowledged. *)
AckedToLast(b, acks, k) ==
  /\ \A d \in acks : d < b.start + k
  /\ k > 0 => b.start + k - 1 \in acks

(* The first k messages of a batch are acknowledged, and no more in a row. *)
AckedPrefix(b, acks, k) ==
  /\ \A d \in Covers(b) : d < b.start + k => d \in acks
  /\ k < b.count => b.start + k \notin acks

(* Mutant: the scan goes on behind what was refused. *)
CommittedWithoutRollback(b, acks, k) ==
  /\ AckedPrefix(b, acks, k)
  /\ delivered' = delivered \cup acks
  /\ inflight' = Tail(inflight)
  /\ UNCHANGED <<exitOnEmpty, ended, offset, reading, delay>>

(* The commit closure of the oldest batch, of which acks are acknowledged  *)
(* and the first k without a gap.                                          *)
Committed(b, acks, k) ==
  /\ AckedPrefix(b, acks, k)
  /\ offset' = IF k < b.count THEN b.start + k ELSE offset
  /\ delivered' = delivered \cup acks
  /\ inflight' = Tail(inflight)
  /\ UNCHANGED <<exitOnEmpty, ended, reading, delay>>

Commit ==
  /\ inflight # <<>>
  /\ LET b == Head(inflight)
     IN Committed(b, Covers(b), b.count) /\ saved' = b.start + b.count
  /\ UNCHANGED mishaps

(* Some message of the batch may not be acknowledged. *)
CommitRefused ==
  /\ inflight # <<>> /\ Mishap
  /\ LET b == Head(inflight)
     IN \E acks \in SUBSET Covers(b), k \in 0 .. b.count :
          Committed(b, acks, k) /\ saved' = b.start + k

(* The checkpoint store fails: the commit only warns. *)
CommitUnsaved ==
  /\ inflight # <<>> /\ Mishap
  /\ LET b == Head(inflight)
     IN \E acks \in SUBSET Covers(b), k \in 0 .. b.count : Committed(b, acks, k)
  /\ UNCHANGED saved

(* Mutant: the checkpoint is not loaded. *)
RestartFromScratch ==
  /\ Mishap
  /\ ended' = "no" /\ offset' = 0
  /\ reading' = {} /\ inflight' = <<>> /\ delay' = BaseDelay
  /\ UNCHANGED <<exitOnEmpty, saved, delivered>>

(* The process stops, or the route creates the endpoint anew; a scan that  *)
(* ended is started again.                                                 *)
Restart ==
  /\ Mishap
  /\ ended' = "no" /\ offset' = saved
  /\ reading' = {} /\ inflight' = <<>> /\ delay' = BaseDelay
  /\ UNCHANGED <<exitOnEmpty, saved, delivered>>

Next == \/ AskPage \/ ReceivePage \/ ReceiveEmpty \/ ReceiveFails
        \/ Commit \/ CommitRefused \/ CommitUnsaved \/ Restart

Spec == Init /\ [][Next]_vars

(* The route keeps receiving until the scan ends, Meilisearch answers, and *)
(* a batch is eventually acknowledged; mishaps are not fair.               *)
Fairness == /\ WF_vars(AskPage) /\ WF_vars(ReceivePage) /\ WF_vars(ReceiveEmpty)
            /\ WF_vars(Commit)

FairSpec == Spec /\ Fairness

-----------------------------------------------------------------------------
TypeOK == /\ exitOnEmpty \in BOOLEAN /\ ended \in {"no", "drained"} \cup Errors
          /\ offset \in Nat /\ saved \in Nat
          /\ reading \in SUBSET Read /\ (\A p, q \in reading : p = q)
          /\ inflight \in Seq(Batch)
          /\ delay \in BaseDelay .. MaxDelay
          /\ delivered \subseteq Documents
          /\ mishaps \in 0 .. MaxMishaps

InFlight(d) == \E k \in 1 .. Len(inflight) : d \in Covers(inflight[k])

(* "Advance optimistically; the commit rolls back to the acknowledged      *)
(* boundary so nothing a batch did not ack is skipped" (receive_batch):    *)
(* behind the scan position there are only documents that were delivered   *)
(* or are in flight, and a restart resumes behind delivered ones only.     *)
NothingSkipped ==
  /\ \A d \in Documents : d < offset => d \in delivered \/ InFlight(d)
  /\ \A d \in Documents : d < saved => d \in delivered

(* The checkpoint never moves back over documents already committed, in    *)
(* the order commit_requires_order promises.                               *)
CheckpointMonotone == [][saved' >= saved]_vars

(* A drain ends with every document delivered: the empty page it ends on   *)
(* (receive_batch: "The empty batch is what `exit_on_empty` ends a drain   *)
(* on") never comes while something refused is still to be read again.     *)
DrainedWhole == ended = "drained" => delivered = Documents

(* The scan reaches every document, whatever was refused, failed or lost   *)
(* before, unless its key is rejected: "a missing index or a busy instance *)
(* can [heal], so those stay connection-level and the route retries them"  *)
(* (consumer_error).                                                       *)
ScanCompletes == <>[](delivered = Documents \/ ended = "rejected")

=============================================================================
