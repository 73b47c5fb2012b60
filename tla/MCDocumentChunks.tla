-------------------------- MODULE MCDocumentChunks --------------------------
(* Every run of up to five documents of one to three bytes and every choice*)
(* of up to one payload that is no JSON object.                            *)
EXTENDS DocumentChunks, FiniteSetsExt, SequencesExt

Ends(sizes) == [i \in DOMAIN sizes |-> FoldLeft(+, 0, SubSeq(sizes, 1, i))]

MCRuns ==
  {r \in [ends : {Ends(sizes) : sizes \in UNION {[1 .. n -> 1 .. 3] : n \in 0 .. 5}},
          bad : {{}, {1}, {3}}] : r.bad \subseteq DOMAIN r.ends}

=============================================================================
