--------------------------- MODULE OperationLedger ---------------------------
(***************************************************************************)
(* What RequestOperationManager promises ycmd, without queue, workers or   *)
(* futures: operations are numbered in the order they are issued, each is  *)
(* sent at most once and then closed, and the announced watermark only     *)
(* moves over closed operations, so that ycmd may forget what it knows     *)
(* about every operation up to it.                                         *)
(***************************************************************************)
EXTENDS Integers

VARIABLES
  issued,     \* operations 0 .. issued - 1 exist
  closed,     \* operations that will not be sent any more
  sent,       \* operations that have been sent
  announced   \* the watermark, -1 before the first

ledgerVars == <<issued, closed, sent, announced>>

Issued == 0 .. (issued - 1)

Init ==
  /\ issued = 0
  /\ closed = {}
  /\ sent = {}
  /\ announced = -1

Announce(w) ==
  /\ w \in announced .. (issued - 1)
  /\ \A i \in 0 .. w : i \in closed
  /\ announced' = w

Retire ==
  /\ \E w \in announced .. (issued - 1) : Announce(w)
  /\ UNCHANGED <<issued, closed, sent>>

(* A new operation, which may be closed at once when it cannot be sent.    *)
Issue ==
  /\ \E w \in announced .. (issued - 1) : Announce(w)
  /\ issued' = issued + 1
  /\ closed' \in {closed, closed \cup {issued}}
  /\ UNCHANGED sent

Send(i) ==
  /\ i \in Issued \ (closed \cup sent)
  /\ i > announced
  /\ sent' = sent \cup {i}
  /\ UNCHANGED <<issued, closed, announced>>

Close(i) ==
  /\ i \in Issued \ closed
  /\ closed' = closed \cup {i}
  /\ UNCHANGED <<issued, sent, announced>>

(* A new server session starts over.                                       *)
Renew ==
  /\ issued' = 0
  /\ closed' = {}
  /\ sent' = {}
  /\ announced' = -1

Next ==
  \/ Retire
  \/ Issue
  \/ \E i \in Issued : Send(i)
  \/ \E i \in Issued : Close(i)
  \/ Renew

Spec == Init /\ [][Next]_ledgerVars
=============================================================================
