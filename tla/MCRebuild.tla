----------------------------- MODULE MCRebuild -----------------------------
(* Instances of Rebuild for TLC. *)
EXTENDS Rebuild

CONSTANTS d1, d2, build, nowhere

MCOperations == {"insert", "delete", "truncate"}
MCDocs == {d1, d2}

Write(op, d) == [operation |-> op, index |-> build, doc |-> d, valid |-> TRUE]
Refused(d) == [Write("insert", d) EXCEPT !.valid = FALSE]

Of(n, S) == [1 .. n -> S]

(* Every stream of up to three writes ... *)
PlainStreams ==
  UNION {Of(n, {Write(op, d) : op \in {"insert", "delete"}, d \in MCDocs}) : n \in 0 .. 3}

(* ... and some the plan refuses. *)
MappedStreams ==
  PlainStreams
    \cup {<<Write("insert", d1), Refused(d1), Write("insert", d1)>>,
          <<Write("insert", d1), Write("truncate", d1), Write("insert", d2)>>}
=============================================================================
