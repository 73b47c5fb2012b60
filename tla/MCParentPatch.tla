--------------------------- MODULE MCParentPatch ---------------------------
(* Instances of ParentPatch for TLC. *)
EXTENDS ParentPatch

CONSTANTS d1, d2, a1, a2, none

MCDocs == {d1, d2}

(* Both documents refer to one parent; no document refers to the other.    *)
MCParentOf == [d \in MCDocs |-> a1]

MCStreams == {<<a1, none, a1>>, <<a2, a1>>}

TwoChanges == {<<a1, a1>>}

MCStored == {{d1}, {d2}, {d1, d2}}

(* Nothing tells the documents apart.                                      *)
Symmetry == Permutations(MCDocs)

(* Batches that read all matches as one page, and batches that read a      *)
(* document a page but change no parent twice.                             *)
MCSizes == {[batch |-> 3, page |-> 3], [batch |-> 2, page |-> 1]}

(* Batches that read a document a page and change a parent twice.          *)
PagesInBatch == {[batch |-> 2, page |-> 1]}
=============================================================================
