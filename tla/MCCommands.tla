------------------------------ MODULE MCCommands ------------------------------
(* Small instances of Commands for TLC.                                    *)
EXTENDS Commands

(* Kinds of request that the users of an instance make. *)
Everything == {"extern", "raw", "hover", "state", "prepare"}
HoverAndRename == {"hover", "prepare"}
=============================================================================
