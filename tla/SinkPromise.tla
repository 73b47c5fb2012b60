----------------------------- MODULE SinkPromise ----------------------------
(***************************************************************************)
(* SinkRoute implements DocumentSink: a message writes the document of its *)
(* index, and a message is sent once a request that carries it is taken.   *)
(***************************************************************************)
EXTENDS SinkRoute

Sent == {w.number : w \in UNION {Range(tasks[t].writes) : t \in DOMAIN tasks}}

Sink == INSTANCE DocumentSink WITH
  waits  <- config.waitForTask,
  Keys   <- (Indexes \cup {NoIndex}) \X Docs,
  source <- [n \in DOMAIN stream |-> <<Index(n), Doc(n)>>],
  sent   <- Sent,
  store  <- [k \in (Indexes \cup {NoIndex}) \X Docs |->
               IF k[1] \in Indexes THEN docs[k[1]][k[2]] ELSE 0]

(* With `primary_key`, every step of the publisher, of Meilisearch and of  *)
(* the route around them is one the sink promises, or none at all.         *)
KeepsPromise == Sink!Spec

=============================================================================
