---------------------------- MODULE MCBatchPlan ----------------------------
(***************************************************************************)
(* Instances of BatchPlan for TLC.  The alphabets hold every message the   *)
(* plan tells apart on two documents; the batches are all sequences over   *)
(* one of them up to a length.                                             *)
(***************************************************************************)
EXTENDS BatchPlan

CONSTANTS d1, d2, ix1, ix2, nowhere

MCOperations == {"insert", "delete", "truncate"}
MCDocs == {d1, d2}

Write(op, ix, d) == [operation |-> op, index |-> ix, doc |-> d, valid |-> TRUE]

(* Writes to two documents of each given index, and one of each oddity. *)
Alphabet(ixs, ops) ==
  {Write(op, ix, d) : op \in ops, ix \in ixs, d \in MCDocs}
    \cup {[Write("insert", ix1, d1) EXCEPT !.valid = FALSE]}

Oddities == {Write("truncate", ix1, d1), Write("insert", nowhere, d1)}

UpTo(n, S) == UNION {[1 .. k -> S] : k \in 1 .. n}

(* Short batches over both indexes, and long ones on one of them, which is *)
(* what a literal index is.                                                *)
MCBatches == UpTo(4, Alphabet({ix1, ix2}, {"insert", "delete"}) \cup Oddities)
               \cup UpTo(6, Alphabet({ix1}, {"insert", "delete"}) \cup {Write("truncate", ix1, d1)})
=============================================================================
