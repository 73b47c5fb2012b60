--------------------------- MODULE MCIndexReader ---------------------------
(* Instances of IndexReader for TLC. *)
EXTENDS IndexReader
=============================================================================
