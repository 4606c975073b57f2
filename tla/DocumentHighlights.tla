-------------------------- MODULE DocumentHighlights --------------------------
(***************************************************************************)
(* Document highlights: the DocumentHighlights object                      *)
(* (document_highlights.py), the poller and the events of                  *)
(* autoload/youcompleteme.vim that drive it, and what its renderer leaves  *)
(* in the buffers.                                                         *)
(*                                                                         *)
(* Vim runs the CursorMoved and TextChanged autocommands some time after   *)
(* the change, and a timer may fire in between: `unseen' says that a change*)
(* has been made whose autocommand has yet to run.                         *)
(***************************************************************************)
EXTENDS Integers, Sequences, FiniteSets

CONSTANTS
  Buffers,      \* buffers
  Cursors,      \* cursor positions
  MaxTick,      \* bound: changedtick of a buffer
  MaxRequests,  \* bound: requests posted
  MaxFailures,  \* bound: calls that raise
  MaxRestarts,  \* bound: restarts of ycmd
  None          \* Python's None

Place == [buffer : Buffers, tick : Nat, cursor : Cursors]

ASSUME BoundsAssumption ==
  MaxTick \in Nat /\ MaxRequests \in Nat /\ MaxFailures \in Nat /\ MaxRestarts \in Nat
ASSUME NoneAssumption == None \notin Place

VARIABLES
  current,    \* the current buffer
  cursor,     \* the cursor position in it
  ticks,      \* b:changedtick of each buffer
  existing,   \* buffers that have not been wiped out
  unseen,     \* a change whose autocommand has yet to run
  usable,     \* feature enabled here and IsServerReady
  request,    \* _request: its number, NoRequest or Unsent
  snapshot,   \* _snapshot
  rendered,   \* _rendered_snapshot
  marks,      \* buffers in which the renderer has drawn
  posted,     \* every request ever posted: what became of it
  timer,      \* the document_highlights timer is running
  failures, restarts

editor == <<current, cursor, ticks, existing>>
highlights == <<request, snapshot, rendered, marks, posted>>
vars == <<editor, unseen, usable, highlights, timer, failures, restarts>>

NoRequest == 0
Unsent == -1    \* a request whose Start() raised: it has no future

(* Mutant: the snapshot does not have the cursor position.                 *)
HereWithoutCursor == [buffer |-> current, tick |-> ticks[current]]

Here == [buffer |-> current, tick |-> ticks[current], cursor |-> cursor]

Done == request > 0 /\ posted[request] = "done"

(* Mutant: an answered request is not ready.                               *)
NothingRequested == request = NoRequest

Ready == request = NoRequest \/ Done

-----------------------------------------------------------------------------
(* DocumentHighlights.                                                     *)

(* Mutant: nothing is cancelled.                                           *)
NotCancelled == posted

(* _CancelRequest; a cancellation changes nothing once the answer is there.*)
Cancelled ==
  [i \in DOMAIN posted |->
     IF i = request /\ posted[i] = "pending" THEN "cancelled" ELSE posted[i]]

(* Mutant: nothing is erased.                                              *)
StillMarked == marks

(* _ClearRenderedHighlights: what it leaves drawn.                         *)
Unmarked == IF rendered = None THEN marks ELSE marks \ {rendered.buffer}

(* Mutant: only the request is given up, what is drawn stays.              *)
ClearRequest ==
  /\ posted' = Cancelled
  /\ request' = NoRequest
  /\ snapshot' = None
  /\ UNCHANGED <<marks, rendered>>

Clear ==
  /\ posted' = Cancelled
  /\ request' = NoRequest
  /\ snapshot' = None
  /\ marks' = Unmarked
  /\ rendered' = None

(* Request, when the place is not the one asked about or rendered already. *)
(* Posting, or collecting the data to post, may raise.                     *)
Repeated == Here \in {snapshot, rendered}

NewRequest ==
  /\ marks' = Unmarked
  /\ rendered' = None
  /\ snapshot' = Here

Request ==
  /\ ~Repeated
  /\ NewRequest
  /\ Len(posted) < MaxRequests
  /\ posted' = Append(Cancelled, "pending")
  /\ request' = Len(posted) + 1

FailingRequest ==
  /\ ~Repeated
  /\ NewRequest
  /\ failures < MaxFailures
  /\ posted' = Cancelled
  /\ request' \in {NoRequest, Unsent}

(* Update: the response is rendered if it is about the place we are at, and*)
(* Render may raise, after clearing what it has drawn.                     *)
Forget == request' = NoRequest /\ snapshot' = None /\ UNCHANGED posted

Update ==
  \/ /\ ~Done
     /\ UNCHANGED <<highlights, failures>>
  \/ /\ Done
     /\ Forget
     /\ snapshot # Here
     /\ UNCHANGED <<rendered, marks, failures>>
  \/ /\ Done
     /\ Forget
     /\ snapshot = Here
     /\ marks' = marks \cup {current}
     /\ rendered' = snapshot
     /\ UNCHANGED failures
  \/ /\ Done
     /\ Forget
     /\ snapshot = Here
     /\ failures < MaxFailures
     /\ failures' = failures + 1
     /\ marks' = marks \ {current}
     /\ UNCHANGED rendered

-----------------------------------------------------------------------------
(* autoload/youcompleteme.vim.                                             *)

ClearDocumentHighlights == timer' = FALSE /\ Clear

(* CursorHold, in Normal mode, when the earlier events have run.           *)
HoldCursor ==
  /\ ~unseen
  /\ UNCHANGED <<editor, unseen, usable, restarts>>
  /\ \/ /\ ~usable
        /\ ClearDocumentHighlights
        /\ UNCHANGED failures
     \/ /\ usable
        /\ Repeated
        /\ timer' = TRUE
        /\ UNCHANGED <<highlights, failures>>
     \/ /\ usable
        /\ Request
        /\ timer' = TRUE
        /\ UNCHANGED failures
     \/ /\ usable
        /\ FailingRequest
        /\ timer' = FALSE
        /\ failures' = failures + 1

(* s:PollDocumentHighlights; a timer that finds the request unanswered     *)
(* starts another one.                                                     *)
PollDocumentHighlights ==
  /\ timer
  /\ Ready
  /\ timer' = FALSE
  /\ Update
  /\ UNCHANGED <<editor, unseen, usable, restarts>>

(* CursorMoved, TextChanged and InsertEnter: the handlers clear.           *)
RunAutocommand ==
  /\ unseen
  /\ unseen' = FALSE
  /\ ClearDocumentHighlights
  /\ UNCHANGED <<editor, usable, failures, restarts>>

(* BufEnter runs within the command that enters the buffer.                *)
EnterBuffer(b) ==
  /\ b \in existing \ {current}
  /\ current' = b
  /\ cursor' \in Cursors
  /\ ClearDocumentHighlights
  /\ UNCHANGED <<ticks, existing, unseen, usable, failures, restarts>>

(* s:RestartServer clears, then _SetUpServer creates the object anew.      *)
RestartServer ==
  /\ restarts < MaxRestarts
  /\ restarts' = restarts + 1
  /\ ClearDocumentHighlights
  /\ usable' = FALSE
  /\ UNCHANGED <<editor, unseen, failures>>

(* The rest of the world: the cursor moves, text changes, a buffer that is *)
(* not current is wiped out, ycmd answers or becomes ready.                *)
MoveCursor ==
  /\ cursor' \in Cursors \ {cursor}
  /\ unseen' = TRUE
  /\ UNCHANGED <<current, ticks, existing, usable, highlights, timer, failures, restarts>>

EditText ==
  /\ ticks[current] < MaxTick
  /\ ticks' = [ticks EXCEPT ![current] = ticks[current] + 1]
  /\ unseen' = TRUE
  /\ UNCHANGED <<current, cursor, existing, usable, highlights, timer, failures, restarts>>

WipeOut(b) ==
  /\ b \in existing \ {current}
  /\ existing' = existing \ {b}
  /\ marks' = marks \ {b}
  /\ UNCHANGED <<current, cursor, ticks, unseen, usable, request, snapshot,
                 rendered, posted, timer, failures, restarts>>

Answer(i) ==
  /\ i \in DOMAIN posted
  /\ posted[i] = "pending"
  /\ posted' = [posted EXCEPT ![i] = "done"]
  /\ UNCHANGED <<editor, unseen, usable, request, snapshot, rendered, marks,
                 timer, failures, restarts>>

ServerReady ==
  /\ ~usable
  /\ usable' = TRUE
  /\ UNCHANGED <<editor, unseen, highlights, timer, failures, restarts>>

-----------------------------------------------------------------------------
Init ==
  /\ current \in Buffers
  /\ cursor \in Cursors
  /\ ticks = [b \in Buffers |-> 1]
  /\ existing = Buffers
  /\ unseen = FALSE
  /\ usable = FALSE
  /\ request = NoRequest
  /\ snapshot = None
  /\ rendered = None
  /\ marks = {}
  /\ posted = << >>
  /\ timer = FALSE
  /\ failures = 0
  /\ restarts = 0

Next ==
  \/ HoldCursor \/ PollDocumentHighlights \/ RunAutocommand
  \/ \E b \in Buffers : EnterBuffer(b)
  \/ RestartServer
  \/ MoveCursor \/ EditText
  \/ \E b \in Buffers : WipeOut(b)
  \/ \E i \in 1 .. MaxRequests : Answer(i)
  \/ ServerReady

Spec == Init /\ [][Next]_vars

(* Timers fire and every request ends, within its timeout if need be.      *)
FairSpec ==
  /\ Spec
  /\ WF_vars(PollDocumentHighlights)
  /\ \A i \in 1 .. MaxRequests : WF_vars(Answer(i))

-----------------------------------------------------------------------------
(* Properties.                                                             *)

(* Type correctness of editor, object and timer.                           *)
TypeOK ==
  /\ current \in Buffers
  /\ cursor \in Cursors
  /\ ticks \in [Buffers -> Nat]
  /\ existing \subseteq Buffers
  /\ unseen \in BOOLEAN /\ usable \in BOOLEAN /\ timer \in BOOLEAN
  /\ posted \in Seq({"pending", "done", "cancelled"})
  /\ request \in {Unsent} \cup 0 .. Len(posted)
  /\ snapshot \in Place \cup {None}
  /\ rendered \in Place \cup {None}
  /\ marks \subseteq Buffers
  /\ failures \in Nat /\ restarts \in Nat

(* "Moving the cursor, changing the buffer contents, ... or switching      *)
(* buffers clears the highlights": what is highlighted belongs to the text *)
(* and the cursor position of this moment unless the autocommand for the   *)
(* change is about to run, however late the response came.                 *)
HighlightsBelongHere == rendered \in {None, Here} \/ unseen

(* The highlights of every other place are gone from the buffers: all that *)
(* is drawn is what the next Clear will erase.                             *)
NoStrayMarks ==
  marks \subseteq IF rendered = None THEN {} ELSE {rendered.buffer}

(* "... and cancels any outstanding request": an unanswered request is     *)
(* the latest one, and it is still wanted.                                 *)
SupersededAreCancelled ==
  \A i \in DOMAIN posted : posted[i] = "pending" => i = request

(* Staying where a request was made ends with its result on the screen, as *)
(* long as nothing raises and ycmd is not restarted.                       *)
Undisturbed == failures = 0 /\ restarts = 0

HighlightsAppear ==
  \A b \in Buffers, t \in 1 .. MaxTick, c \in Cursors :
    LET place == [buffer |-> b, tick |-> t, cursor |-> c]
    IN (snapshot = place /\ Undisturbed) ~>
         (rendered = place \/ Here # place \/ unseen \/ ~Undisturbed)
=============================================================================
