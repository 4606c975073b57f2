----------------------------- MODULE MCCompletion -----------------------------
(* Small instances of Completion for TLC: the two configurations.          *)
EXTENDS Completion
=============================================================================
