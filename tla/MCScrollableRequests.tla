------------------------ MODULE MCScrollableRequests ------------------------
(* Small instances of ScrollableRequests for TLC.                          *)
EXTENDS ScrollableRequests

Both == {"semantic_highlighting", "inlay_hints"}

(* Two screens that do not overlap and one between them, which is within   *)
(* what is requested for the first but not for the last.                   *)
Screens == {[start |-> 1, end |-> 2], [start |-> 2, end |-> 3], [start |-> 4, end |-> 5]}

Limits(scroll, visit, edit, entry, parse, toggle, fail, restart) ==
  [scroll |-> scroll, visit |-> visit, edit |-> edit, insert |-> entry,
   parse |-> parse, toggle |-> toggle, fail |-> fail, restart |-> restart]

Scrolling == Limits(2, 1, 1, 0, 0, 0, 1, 0)
Visiting == Limits(1, 2, 1, 0, 0, 0, 0, 0)
Switching == Limits(1, 1, 1, 1, 0, 2, 0, 0)
Restarting == Limits(0, 2, 0, 0, 1, 0, 0, 1)

Disturbances == {Scrolling, Visiting, Switching, Restarting}
=============================================================================
