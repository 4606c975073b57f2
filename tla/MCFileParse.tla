----------------------------- MODULE MCFileParse -----------------------------
(* Small instances of FileParse for TLC.                                   *)
EXTENDS FileParse, TLC

Limits(visit, force, confirm, restart, elsewhere) ==
  [visit |-> visit, force |-> force, confirm |-> confirm,
   restart |-> restart, elsewhere |-> elsewhere]

(* Changing windows, with a configuration file to confirm; a forced        *)
(* compilation on the way; a crash or a restart.  (A file confirmed during *)
(* a forced compilation is a case of its own: the README, section 6.)      *)
Visiting == Limits(3, 0, 1, 0, 1)
Detouring == Limits(4, 1, 0, 0, 1)
Restarting == Limits(2, 1, 0, 1, 1)

Disturbances == {Visiting, Detouring, Restarting}

(* A forced compilation and nothing else.                                  *)
Forcing == {Limits(0, 1, 0, 0, 0)}
=============================================================================
