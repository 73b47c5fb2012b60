---------------------------- MODULE DocumentSink ----------------------------
(***************************************************************************)
(* What a route into Meilisearch promises, whatever its batches, runs,     *)
(* requests and tasks are: every message of the source is written at least *)
(* once or dead-lettered before the source forgets it, and, when the route *)
(* waits for its writes, a message reported as delivered is in the index   *)
(* and no older write replaces it.  SinkRoute is shown to implement this.  *)
(***************************************************************************)
EXTENDS Naturals, Sequences

CONSTANT Keys   \* what a message may write: a document of an index

VARIABLES
  waits,       \* a report waits until the writes have been applied
  source,      \* the messages: a key for each
  received,    \* messages read from the source
  committed,   \* messages the source will not deliver again
  sent,        \* messages ever asked to be written
  acked,       \* messages reported as delivered
  dead,        \* messages dead-lettered
  store        \* the last message written to each key, 0 before the first

vars == <<waits, source, received, committed, sent, acked, dead, store>>

Open == (committed + 1 .. received) \ (acked \cup dead)

Init == /\ waits \in BOOLEAN /\ source \in Seq(Keys)
        /\ received = 0 /\ committed = 0
        /\ sent = {} /\ acked = {} /\ dead = {}
        /\ store = [k \in Keys |-> 0]

Receive == /\ committed = received
           /\ received' \in received + 1 .. Len(source)
           /\ UNCHANGED <<waits, source, committed, sent, acked, dead, store>>

(* Messages not reported on yet are sent, for the first time or again. *)
Send == /\ sent' \in {sent \cup S : S \in SUBSET Open}
        /\ UNCHANGED <<waits, source, received, committed, acked, dead, store>>

(* A key may take any message sent to it, so long as none of its messages  *)
(* reported as applied is newer.                                           *)
Store == /\ store' \in [Keys -> sent \cup {0}]
         /\ \A k \in Keys : store'[k] # store[k] =>
              /\ store'[k] # 0 /\ source[store'[k]] = k
              /\ waits => \A n \in acked : source[n] = k => n <= store'[k]
         /\ UNCHANGED <<waits, source, received, committed, sent, acked, dead>>

(* A report: what is delivered was sent, and, if waited for, is stored or  *)
(* superseded; no message still open is older than one delivered to the    *)
(* same key.                                                               *)
Report ==
  /\ \E A, D \in SUBSET Open :
       /\ A \cap D = {}
       /\ acked' = acked \cup A /\ dead' = dead \cup D
       /\ A \subseteq sent
       /\ waits => \A n \in A : n <= store[source[n]]
       /\ \A n \in acked', k \in Open \ (A \cup D) : source[n] = source[k] => n < k
  /\ UNCHANGED <<waits, source, received, committed, sent, store>>

Commit == /\ Open = {} /\ committed' = received
          /\ UNCHANGED <<waits, source, received, sent, acked, dead, store>>

(* What was not committed is read again. *)
Restart == /\ received' = committed
           /\ acked' = acked \cap 1 .. committed /\ dead' = dead \cap 1 .. committed
           /\ UNCHANGED <<waits, source, committed, sent, store>>

Next == Receive \/ Send \/ Store \/ Report \/ Commit \/ Restart

Spec == Init /\ [][Next]_vars

=============================================================================
