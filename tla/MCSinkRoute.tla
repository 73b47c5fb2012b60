---------------------------- MODULE MCSinkRoute ----------------------------
(* Instances of SinkRoute for TLC. *)
EXTENDS SinkPromise

CONSTANTS d1, d2, ix1, ix2, nowhere

MCOperations == {"insert", "delete", "truncate"}
MCDocs == {d1, d2}

Write(op, ix, d) == [operation |-> op, index |-> ix, doc |-> d, valid |-> TRUE]
Refused == [Write("insert", ix1, d1) EXCEPT !.valid = FALSE]

Of(n, S) == [1 .. n -> S]

Endpoint(create, settings, wait, streams) ==
  {[config |-> [createIndex |-> create, settings |-> settings, waitForTask |-> wait],
    stream |-> s] : s \in streams}

(* Every stream of an insert and two more writes to two documents of one   *)
(* index in which the first document is written twice.                     *)
OneIndex ==
  {s \in Of(3, {Write(op, ix1, d) : op \in {"insert", "delete"}, d \in MCDocs}) :
     s[1] = Write("insert", ix1, d1) /\ (s[2].doc = d1 \/ s[3].doc = d1)}

(* Those that write one document only. *)
OneDocument == {s \in OneIndex : \A n \in 1 .. 3 : s[n].doc = d1}

(* Streams over two indexes, with what the plan refuses or stops at.       *)
TwoIndexes ==
  {<<Write("insert", ix1, d1), Write("insert", ix2, d1), Write("delete", ix1, d1)>>,
   <<Write("insert", ix1, d1), Refused, Write("truncate", ix1, d1)>>,
   <<Write("insert", ix1, d1), Write("insert", nowhere, d1), Write("delete", ix1, d1)>>}

SafetyScenarios == Endpoint(FALSE, FALSE, TRUE, OneIndex)
                     \cup Endpoint(TRUE, TRUE, TRUE, TwoIndexes)
                     \cup Endpoint(FALSE, FALSE, FALSE, OneDocument)

(* Inserts and a switch of operation: two segments, or batches of any size.*)
LivenessScenarios ==
  Endpoint(TRUE, TRUE, TRUE,
    {<<Write("insert", ix1, d1), Write("insert", ix1, d2), Write("delete", ix1, d1)>>})

=============================================================================
