------------------------ MODULE MCDocumentHighlights ------------------------
(* A small instance of DocumentHighlights for TLC: DocumentHighlights.cfg. *)
EXTENDS DocumentHighlights, TLC
=============================================================================
