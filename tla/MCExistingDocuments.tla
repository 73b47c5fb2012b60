------------------------ MODULE MCExistingDocuments ------------------------
(* Instances of ExistingDocuments for TLC. *)
EXTENDS ExistingDocuments

CONSTANTS d1, d2

MCDocs == {d1, d2}
MCStreams == {<<d1, d2, d1>>, <<d1, d1>>}
=============================================================================
