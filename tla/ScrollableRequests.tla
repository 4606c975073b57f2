-------------------------- MODULE ScrollableRequests --------------------------
(***************************************************************************)
(* Semantic highlighting and inlay hints: ScrollingBufferRange             *)
(* (scrolling_range.py), its two subclasses, the poller each of them has   *)
(* in autoload/youcompleteme.vim, and the debounce timer of WinScrolled.   *)
(* Requests are made for a little more than is visible, answered late, and *)
(* drawn where the user may have scrolled, edited, hidden the buffer or    *)
(* switched the hints off in the meantime.                                 *)
(*                                                                         *)
(* The two kinds share the debounce timer only, which treats them alike: a *)
(* behaviour follows one kind.                                             *)
(***************************************************************************)
EXTENDS Integers

CONSTANTS
  Buffers,    \* buffers YCM completes in
  Kinds,      \* the kinds of scrollable looked at
  Lines,      \* number of lines of every buffer
  Views,      \* what can be visible: first topline and last botline of all windows
  MaxTick,    \* bound: changedtick of a buffer
  Budgets,    \* bounds: how often each kind of disturbance may happen
  Pending,    \* a request that is not answered
  None        \* Python's None; also the current buffer when YCM ignores it

Range == {r \in [start : 1..Lines, end : 1..Lines] : r.start <= r.end}
Response == [start : 1..Lines, end : 1..Lines, failed : BOOLEAN]
Disturbance == {"scroll", "visit", "edit", "insert", "parse", "toggle", "fail", "restart"}

ASSUME KindsAssumption == Kinds \subseteq {"semantic_highlighting", "inlay_hints"}
ASSUME LinesAssumption == Lines \in Nat /\ MaxTick \in Nat \ {0}
ASSUME ViewsAssumption == Views \subseteq Range
ASSUME BudgetsAssumption == Budgets \subseteq [Disturbance -> Nat]
ASSUME NoneAssumption ==
  None \notin Buffers /\ None \notin Range /\ None \notin Response /\ Pending # None

VARIABLES
  kind,             \* the scrollable this behaviour follows
  clearing,         \* g:ycm_clear_inlay_hints_in_insert_mode
  current,          \* the current buffer, None for one that YCM ignores
  previousAllowed,  \* s:previous_allowed_buffer_number
  view,             \* what is visible of each buffer, None when it is hidden
  tick,             \* b:changedtick
  insert,           \* the user is in insert mode
  enabled,          \* ShouldUse...Now of each buffer
  scrollable,       \* the ScrollingBufferRange of each buffer
  drawn,            \* what its renderer shows: lines, with the text they are for
  polled,           \* buffer_numbers of the kind's poller
  scrolling,        \* buffer_numbers of s:pollers.scrolling_requests
  missed,           \* history: the viewport could not be asked for
  budget            \* what is left of the bounds

options == <<kind, clearing>>
editor == <<current, previousAllowed, view, tick, insert>>
vars == <<options, editor, enabled, scrollable, drawn, polled, scrolling,
          missed, budget>>

-----------------------------------------------------------------------------
(* ScrollingBufferRange.  A request is for the text of `tick' and for      *)
(* `range' as long as it is outstanding; its answer says which lines it    *)
(* covers, at least those requested, and none when it is an error.         *)

NoTick == 0

NewScrollingBufferRange ==
  [request |-> None, tick |-> NoTick, range |-> None, latest |-> None,
   renderedTick |-> NoTick, preserve |-> FALSE]

Smaller(m, n) == IF m < n THEN m ELSE n
Larger(m, n) == IF m > n THEN m ELSE n

Within(r, s) == s.start <= r.start /\ r.end <= s.end

(* Mutant: the range is not cut off at the end of the buffer.              *)
RangeBeyondTheEnd(v) ==
  LET half == (v.end - v.start + 1) \div 2
  IN [start |-> Larger(v.start - half, 1), end |-> v.end + half]

(* RangeVisibleInBuffer: half as much again on either side.                *)
RangeVisibleInBuffer(v) ==
  LET half == (v.end - v.start + 1) \div 2
  IN [start |-> Larger(v.start - half, 1), end |-> Smaller(v.end + half, Lines)]

(* VisibleRangeOfBufferOverlaps *)
VisibleRangeOverlaps(v, r) == v # None /\ r # None /\ Within(v, r)

Ready(s) == s.request \notin {None, Pending}
Cancelled(s) == [s EXCEPT !.request = None]

(* Mutant: the text is not compared.                                       *)
SkippedByRange(s, v, now, force) == ~force /\ VisibleRangeOverlaps(v, s.range)

Skipped(s, v, now, force) ==
  ~force /\ s.tick = now /\ VisibleRangeOverlaps(v, s.range)

(* Mutant: what is drawn is preserved although it is for older text.       *)
SentPreserving(s, v, now, force) ==
  [request |-> Pending, tick |-> now, range |-> RangeVisibleInBuffer(v),
   latest |-> None, renderedTick |-> s.renderedTick, preserve |-> ~force]

Sent(s, v, now, force) ==
  [request |-> Pending, tick |-> now, range |-> RangeVisibleInBuffer(v),
   latest |-> None, renderedTick |-> s.renderedTick,
   preserve |-> ~force /\ s.renderedTick = now]

(* Request: the new state; whether it is to be polled is ToBePolled.       *)
Request(s, v, now, force) ==
  IF Skipped(s, v, now, force) THEN s
  ELSE IF v = None THEN Cancelled(s)
  ELSE Sent(s, v, now, force)

(* Mutant: a request that is kept is not polled again.                     *)
PolledIfSent(s, v, now, force) == v # None /\ ~Skipped(s, v, now, force)

ToBePolled(s, v, now, force) ==
  v # None /\ Request(s, v, now, force).request # None

(* _Draw: the renderer adds to what it shows, or replaces it; the range    *)
(* becomes, or grows to, what the answer covers.                           *)
Covered(answer) == {l \in 1..Lines : answer.start <= l /\ l <= answer.end}

Painted(s, shown) ==
  (IF s.preserve THEN shown ELSE {})
    \cup (IF s.latest.failed THEN {} ELSE {s.tick} \X Covered(s.latest))

Known(s) ==
  IF s.latest.failed THEN s.range
  ELSE [start |-> Smaller(s.range.start, s.latest.start),
        end |-> Larger(s.range.end, s.latest.end)]

Drawn(s) == [s EXCEPT !.range = Known(s), !.renderedTick = s.tick]

(* The first half of Update: the response is taken off the request. *)
Taken(s) == [s EXCEPT !.latest = s.request, !.request = None]

(* Refresh; a response that is not there (None) makes _Draw raise.         *)
Refreshes(s, now) == s.tick = now /\ s.request = None /\ s.latest # None
Refreshing(s) == [s EXCEPT !.preserve = FALSE]

-----------------------------------------------------------------------------
(* Vim's side.                                                             *)

Spend(what) ==
  /\ budget[what] > 0
  /\ budget' = [budget EXCEPT ![what] = budget[what] - 1]

(* Request, and poll for the answer or, if asked to, draw the last one.    *)
Ask(b, v, now, force, redraw) ==
  LET s == scrollable[b]
      asked == Request(s, v, now, force)
      polling == ToBePolled(s, v, now, force)
      again == redraw /\ ~polling /\ Refreshes(asked, now)
  IN /\ polled' = IF polling THEN polled \cup {b} ELSE polled \ {b}
     /\ scrollable' = [scrollable EXCEPT
          ![b] = IF again THEN Drawn(Refreshing(asked)) ELSE asked]
     /\ drawn' = IF again
                 THEN [drawn EXCEPT ![b] = Painted(Refreshing(asked), drawn[b])]
                 ELSE drawn
     /\ missed' = IF Skipped(s, v, now, force) THEN missed
                  ELSE [missed EXCEPT ![b] = v = None]

(* s:UpdateSemanticHighlighting, s:UpdateInlayHints for buffer b, of which *)
(* v is visible, at changedtick `now'.                                     *)
Update(b, v, now, force) ==
  IF enabled[b]
  THEN Ask(b, v, now, force, FALSE)
  ELSE /\ polled' = polled \ {b}
       /\ UNCHANGED <<scrollable, drawn, missed>>

(* Mutant: what comes of it is left to a timer that runs already.          *)
ScheduleIfIdle(b) ==
  /\ scrolling' = IF scrolling = {} THEN {} ELSE scrolling \cup {b}
  /\ polled' = polled \ {b}

(* s:ScheduleScrollingRequests *)
ScheduleScrollingRequests(b) ==
  /\ scrolling' = scrolling \cup {b}
  /\ polled' = polled \ {b}

(* WinScrolled: s:OnWinScrolled asks whether the current buffer is one of  *)
(* ours, and schedules the one that was scrolled.                          *)
OnWinScrolled(b, v) ==
  /\ Spend("scroll")
  /\ view[b] # None /\ v # view[b]
  /\ view' = [view EXCEPT ![b] = v]
  /\ IF current # None
     THEN /\ previousAllowed' = current
          /\ ScheduleScrollingRequests(b)
          /\ UNCHANGED missed
     ELSE /\ missed' = [missed EXCEPT ![b] = TRUE]
          /\ UNCHANGED <<previousAllowed, scrolling, polled>>
  /\ UNCHANGED <<options, current, tick, insert, enabled, scrollable, drawn>>

(* s:RequestAfterScrolling: the debounce timer, one buffer of its table    *)
(* after the other.                                                        *)
RequestAfterScrolling ==
  /\ scrolling # {}
  /\ scrolling' = {}
  /\ \E b \in scrolling : previousAllowed' = b
  /\ LET Moved(b) == b \in scrolling /\ enabled[b]
         Is(b) == Request(scrollable[b], view[b], tick[b], FALSE)
         Polling(b) == ToBePolled(scrollable[b], view[b], tick[b], FALSE)
     IN /\ scrollable' = [b \in Buffers |-> IF Moved(b) THEN Is(b) ELSE scrollable[b]]
        /\ polled' = {b \in Buffers : IF b \in scrolling THEN Moved(b) /\ Polling(b)
                                      ELSE b \in polled}
        /\ missed' = [b \in Buffers |->
             IF Moved(b) /\ ~Skipped(scrollable[b], view[b], tick[b], FALSE)
             THEN view[b] = None ELSE missed[b]]
  /\ UNCHANGED <<options, current, view, tick, insert, enabled, drawn, budget>>

(* s:PollScrollable: every buffer of the poller whose request is ready is  *)
(* updated.  An answer for older text is dropped and asked for again; the  *)
(* buffer then stays with the poller.                                      *)
Stale(b) == scrollable[b].tick # tick[b]

Updated(b) ==
  IF Stale(b)
  THEN Request(Taken(scrollable[b]), view[b], tick[b], TRUE)
  ELSE Drawn(Taken(scrollable[b]))

PaintedByUpdate(b) ==
  IF Stale(b) THEN drawn[b] ELSE Painted(Taken(scrollable[b]), drawn[b])

PollScrollable ==
  LET done == {b \in polled : Ready(scrollable[b])}
  IN /\ done # {}
     /\ scrollable' = [b \in Buffers |-> IF b \in done THEN Updated(b)
                                         ELSE scrollable[b]]
     /\ drawn' = [b \in Buffers |-> IF b \in done THEN PaintedByUpdate(b)
                                    ELSE drawn[b]]
     /\ polled' = {b \in polled : b \in done => Stale(b)}
     /\ missed' = [b \in Buffers |-> IF b \in done /\ Stale(b)
                                     THEN view[b] = None ELSE missed[b]]
     /\ UNCHANGED <<options, editor, enabled, scrolling, budget>>

-----------------------------------------------------------------------------
(* The user, in the current buffer unless it says otherwise.               *)

(* An edit in normal mode, or in insert mode where nothing is parsed.      *)
Change ==
  /\ Spend("edit")
  /\ current # None /\ tick[current] < MaxTick
  /\ tick' = [tick EXCEPT ![current] = tick[current] + 1]
  /\ UNCHANGED <<options, current, previousAllowed, view, insert, enabled, scrolling>>

OnTextChangedNormalMode ==
  /\ ~insert /\ Change
  /\ Update(current, view[current], tick'[current], TRUE)

OnTextChangedInsertMode ==
  /\ insert /\ Change
  /\ UNCHANGED <<scrollable, drawn, polled, missed>>

(* OnFileReadyToParse( 1 ): a parse that had to be repeated, or the server *)
(* has become ready.                                                       *)
OnFileReadyToParse ==
  /\ Spend("parse")
  /\ current # None /\ ~insert
  /\ Update(current, view[current], tick[current], TRUE)
  /\ UNCHANGED <<options, editor, enabled, scrolling>>

(* s:OnInsertEnter, s:OnInsertLeave with inlay hints out of the way.       *)
Clears == kind = "inlay_hints" /\ clearing /\ enabled[current]

OnInsertEnter ==
  /\ Spend("insert")
  /\ current # None /\ ~insert
  /\ insert' = TRUE
  /\ drawn' = IF Clears THEN [drawn EXCEPT ![current] = {}] ELSE drawn
  /\ UNCHANGED <<options, current, previousAllowed, view, tick, enabled, scrollable,
                 polled, scrolling, missed>>

(* Changed text is parsed, which sends a request; only without one the     *)
(* Refresh that follows has something to draw.                             *)
OnInsertLeave ==
  /\ insert /\ insert' = FALSE
  /\ previousAllowed' = current
  /\ LET s == scrollable[current]
     IN IF s.tick # tick[current]
        THEN Update(current, view[current], tick[current], TRUE)
        ELSE IF Clears /\ Refreshes(s, tick[current])
        THEN /\ scrollable' = [scrollable EXCEPT ![current] = Drawn(Refreshing(s))]
             /\ drawn' = [drawn EXCEPT ![current] = Painted(Refreshing(s), {})]
             /\ UNCHANGED <<polled, missed>>
        ELSE UNCHANGED <<scrollable, drawn, polled, missed>>
  /\ UNCHANGED <<options, current, view, tick, enabled, scrolling, budget>>

(* s:OnBufferEnter: b is parsed unless it was the last one to be asked     *)
(* about.  The window shows b from now on; the buffer it showed before is  *)
(* hidden, or still visible elsewhere.                                     *)
ShowsInstead(b, v, hide) ==
  [c \in Buffers |-> IF c = b THEN (IF view[b] = None THEN v ELSE view[b])
                     ELSE IF c = current /\ hide THEN None ELSE view[c]]

OnBufferEnter(b, v, hide) ==
  /\ Spend("visit")
  /\ ~insert /\ b # current
  /\ view' = ShowsInstead(b, v, hide)
  /\ current' = b
  /\ previousAllowed' = b
  /\ IF previousAllowed # b
     THEN Update(b, view'[b], tick[b], TRUE)
     ELSE /\ missed' = [missed EXCEPT ![b] = missed[b] \/ view[b] = None]
          /\ UNCHANGED <<scrollable, drawn, polled>>
  /\ UNCHANGED <<options, tick, insert, enabled, scrolling>>

(* A help window, say, is entered: YCM does not complete in it.            *)
EnterIgnored(hide) ==
  /\ Spend("visit")
  /\ ~insert /\ current # None
  /\ current' = None
  /\ view' = IF hide THEN [view EXCEPT ![current] = None] ELSE view
  /\ UNCHANGED <<options, previousAllowed, tick, insert, enabled, scrollable, drawn,
                 polled, scrolling, missed>>

(* s:OnBufferUnload of a buffer that is not visible (and will be loaded    *)
(* again with a new changedtick): the pollers forget it, and OnBufferUnload*)
(* cancels its requests.                                                   *)
OnBufferUnload(b) ==
  /\ Spend("edit")
  /\ b # current /\ view[b] = None /\ tick[b] < MaxTick
  /\ tick' = [tick EXCEPT ![b] = tick[b] + 1]
  /\ previousAllowed' = b
  /\ scrolling' = scrolling \ {b}
  /\ polled' = polled \ {b}
  /\ scrollable' = [scrollable EXCEPT ![b] = Cancelled(scrollable[b])]
  /\ drawn' = [drawn EXCEPT ![b] = {}]
  /\ missed' = [missed EXCEPT ![b] = TRUE]
  /\ UNCHANGED <<options, current, view, insert, enabled>>

(* s:ToggleInlayHints *)
ToggleInlayHints ==
  /\ Spend("toggle")
  /\ kind = "inlay_hints" /\ current # None /\ ~insert
  /\ enabled' = [enabled EXCEPT ![current] = ~enabled[current]]
  /\ IF enabled[current]
     THEN /\ drawn' = [drawn EXCEPT ![current] = {}]
          /\ UNCHANGED <<scrollable, polled, missed>>
     ELSE Ask(current, view[current], tick[current], FALSE, TRUE)
  /\ UNCHANGED <<options, editor, scrolling>>

(* _HandleLanguageServerStateResponse: a language server is disabled.      *)
DisableLanguageServer ==
  /\ Spend("toggle")
  /\ scrollable' = [b \in Buffers |-> Cancelled(scrollable[b])]
  /\ drawn' = [b \in Buffers |-> {}]
  /\ missed' = [b \in Buffers |-> TRUE]
  /\ UNCHANGED <<options, editor, enabled, polled, scrolling>>

(* RestartServer: the buffers are new, Vim's pollers are not.  What a      *)
(* former Buffer has highlighted stays where it is, unknown to the new one *)
(* (module SnapshotRenderers); hints are drawn over.                       *)
RestartServer ==
  /\ Spend("restart")
  /\ scrollable' = [b \in Buffers |-> NewScrollingBufferRange]
  /\ drawn' = [b \in Buffers |-> IF kind = "inlay_hints" THEN drawn[b] ELSE {}]
  /\ missed' = [b \in Buffers |-> TRUE]
  /\ UNCHANGED <<options, editor, enabled, polled, scrolling>>

(* ycmd answers for the lines requested, or more, or fails.                *)
Answer(b) ==
  /\ scrollable[b].request = Pending
  /\ \/ \E r \in {scrollable[b].range, [start |-> 1, end |-> Lines]} :
          /\ scrollable' = [scrollable EXCEPT ![b].request =
               [start |-> r.start, end |-> r.end, failed |-> FALSE]]
          /\ UNCHANGED budget
     \/ /\ Spend("fail")
        /\ scrollable' = [scrollable EXCEPT ![b].request =
             [start |-> 1, end |-> 1, failed |-> TRUE]]
  /\ UNCHANGED <<options, editor, enabled, drawn, polled, scrolling, missed>>

-----------------------------------------------------------------------------
Init ==
  /\ kind \in Kinds
  /\ clearing \in BOOLEAN
  /\ kind # "inlay_hints" => ~clearing
  /\ current = None /\ previousAllowed = None
  /\ view = [b \in Buffers |-> None]
  /\ tick = [b \in Buffers |-> 1]
  /\ insert = FALSE
  /\ enabled \in [Buffers -> {TRUE}]
  /\ scrollable = [b \in Buffers |-> NewScrollingBufferRange]
  /\ drawn = [b \in Buffers |-> {}]
  /\ polled = {} /\ scrolling = {}
  /\ missed = [b \in Buffers |-> FALSE]
  /\ budget \in Budgets

Next ==
  \/ \E b \in Buffers, v \in Views : OnWinScrolled(b, v)
  \/ RequestAfterScrolling
  \/ PollScrollable
  \/ OnTextChangedNormalMode
  \/ OnTextChangedInsertMode
  \/ OnFileReadyToParse
  \/ OnInsertEnter
  \/ OnInsertLeave
  \/ \E b \in Buffers, v \in Views, hide \in BOOLEAN : OnBufferEnter(b, v, hide)
  \/ \E hide \in BOOLEAN : EnterIgnored(hide)
  \/ \E b \in Buffers : OnBufferUnload(b)
  \/ ToggleInlayHints
  \/ DisableLanguageServer
  \/ RestartServer
  \/ \E b \in Buffers : Answer(b)

Spec == Init /\ [][Next]_vars

FairSpec ==
  /\ Spec
  /\ WF_vars(PollScrollable)
  /\ WF_vars(RequestAfterScrolling)
  /\ \A b \in Buffers : WF_vars(Answer(b))

-----------------------------------------------------------------------------
ScrollingBufferRange ==
  [request : {None, Pending} \cup Response, tick : 0..MaxTick,
   range : {None} \cup Range, latest : {None} \cup Response,
   renderedTick : 0..MaxTick, preserve : BOOLEAN]

(* The editor, every range, the pollers and the marks keep their types.    *)
TypeOK ==
  /\ kind \in Kinds /\ clearing \in BOOLEAN
  /\ current \in Buffers \cup {None} /\ previousAllowed \in Buffers \cup {None}
  /\ view \in [Buffers -> Views \cup {None}]
  /\ tick \in [Buffers -> 1..MaxTick]
  /\ insert \in BOOLEAN
  /\ enabled \in [Buffers -> BOOLEAN]
  /\ scrollable \in [Buffers -> ScrollingBufferRange]
  /\ drawn \in [Buffers -> SUBSET ((1..MaxTick) \X (1..Lines))]
  /\ polled \subseteq Buffers /\ scrolling \subseteq Buffers
  /\ missed \in [Buffers -> BOOLEAN]
  /\ budget \in [Disturbance -> Nat]

(* Marks are preserved from one answer to the next while the user scrolls, *)
(* never across an edit: what a buffer shows was all computed from one     *)
(* text, however answers, edits and redrawing interleave.                  *)
OneTextAtATime ==
  \A b \in Buffers : \A p, q \in drawn[b] : p[1] = q[1]

(* A request that is wanted is always on the way to being drawn: with the  *)
(* poller, or about to be looked at again when scrolling stops.            *)
RequestIsWatched ==
  \A b \in Buffers :
    enabled[b] /\ scrollable[b].request # None => b \in polled \cup scrolling

VisibleIsDrawn(b) ==
  \A l \in view[b].start .. view[b].end : <<tick[b], l>> \in drawn[b]

(* Hints are out of the way while the user inserts, if so configured.      *)
OutOfTheWay(b) == kind = "inlay_hints" /\ clearing /\ insert /\ b = current

(* Request() is skipped only when it is not needed: if the remembered tick *)
(* and range say that all that is visible has been asked for, and no       *)
(* request is outstanding, then it is on the screen, unless ycmd failed.   *)
SkippingIsSafe ==
  \A b \in Buffers :
    LET s == scrollable[b] IN
    /\ enabled[b] /\ ~missed[b] /\ ~OutOfTheWay(b)
    /\ Skipped(s, view[b], tick[b], FALSE)
    /\ s.request = None
    /\ s.latest # None => ~s.latest.failed
    => VisibleIsDrawn(b)

(* When the user comes to rest, what is visible is drawn from the present  *)
(* text, except where the plugin could not know that it was shown (missed) *)
(* or ycmd failed.                                                         *)
ViewportIsDrawn ==
  \A b \in Buffers :
    <>[](/\ view[b] # None /\ enabled[b] /\ ~insert /\ ~missed[b]
         /\ scrollable[b].tick # NoTick
         /\ scrollable[b].latest # None => ~scrollable[b].latest.failed
         => VisibleIsDrawn(b))
=============================================================================
