----------------------- MODULE ScrollableRequestsProofs -----------------------
(* Proofs about ScrollableRequests: its types, that a buffer shows marks of*)
(* one text at a time, that every wanted request is watched, and that a    *)
(* request is skipped only where all that is visible is drawn.             *)
EXTENDS ScrollableRequests, TLAPS

Marks == (1..MaxTick) \X (1..Lines)

OneText(shown) == \A p, q \in shown : p[1] = q[1]

(* What is shown is of the text that was rendered last, if this object has *)
(* rendered anything, and only that text's marks are ever preserved.       *)
RenderedText(s, shown) ==
  /\ s.renderedTick # NoTick => \A p \in shown : p[1] = s.renderedTick
  /\ s.preserve => s.renderedTick = s.tick /\ s.tick # NoTick

(* Where there is a request or an answer, it is known what for.            *)
AskedFor(s) ==
  s.request # None \/ s.latest # None => s.range \in Range /\ s.tick # NoTick

Good(s, shown) ==
  /\ s \in ScrollingBufferRange /\ shown \in SUBSET Marks
  /\ OneText(shown) /\ RenderedText(s, shown) /\ AskedFor(s)

-----------------------------------------------------------------------------
LEMMA GoodWithoutMarks ==
  ASSUME NEW s, NEW shown, Good(s, shown)
  PROVE  Good(s, {})
BY DEF Good, OneText, RenderedText

LEMMA NewIsGood ==
  ASSUME NEW shown \in SUBSET Marks, OneText(shown)
  PROVE  Good(NewScrollingBufferRange, shown)
<1>1. NewScrollingBufferRange \in ScrollingBufferRange
  BY LinesAssumption DEF NewScrollingBufferRange, ScrollingBufferRange, NoTick
<1> QED
  BY <1>1 DEF Good, RenderedText, AskedFor, NewScrollingBufferRange, NoTick

LEMMA CancelledIsGood ==
  ASSUME NEW s, NEW shown, Good(s, shown)
  PROVE  Good(Cancelled(s), shown) /\ Cancelled(s).request = None
<1>1. s \in ScrollingBufferRange
  BY DEF Good
<1>2. Cancelled(s) = [s EXCEPT !.request = None]
  BY DEF Cancelled
<1>3. Cancelled(s) \in ScrollingBufferRange
  BY <1>1, <1>2 DEF ScrollingBufferRange
<1>4. /\ Cancelled(s).request = None /\ Cancelled(s).latest = s.latest
      /\ Cancelled(s).range = s.range /\ Cancelled(s).tick = s.tick
      /\ Cancelled(s).renderedTick = s.renderedTick /\ Cancelled(s).preserve = s.preserve
  BY <1>1, <1>2 DEF ScrollingBufferRange
<1> QED
  BY <1>3, <1>4 DEF Good, RenderedText, AskedFor

LEMMA RefreshingIsGood ==
  ASSUME NEW s, NEW shown, Good(s, shown)
  PROVE  /\ Good(Refreshing(s), shown) /\ Refreshing(s).latest = s.latest
         /\ Refreshing(s).request = s.request
<1>1. s \in ScrollingBufferRange
  BY DEF Good
<1>2. Refreshing(s) = [s EXCEPT !.preserve = FALSE]
  BY DEF Refreshing
<1>3. Refreshing(s) \in ScrollingBufferRange
  BY <1>1, <1>2 DEF ScrollingBufferRange
<1>4. /\ Refreshing(s).request = s.request /\ Refreshing(s).latest = s.latest
      /\ Refreshing(s).range = s.range /\ Refreshing(s).tick = s.tick
      /\ Refreshing(s).renderedTick = s.renderedTick /\ ~Refreshing(s).preserve
  BY <1>1, <1>2 DEF ScrollingBufferRange
<1> QED
  BY <1>3, <1>4 DEF Good, RenderedText, AskedFor

LEMMA TakenIsGood ==
  ASSUME NEW s, NEW shown, Good(s, shown), Ready(s)
  PROVE  /\ Good(Taken(s), shown) /\ Taken(s).latest # None
         /\ Taken(s).request = None
<1>1. s \in ScrollingBufferRange
  BY DEF Good
<1>2. Taken(s) = [s EXCEPT !.latest = s.request, !.request = None]
  BY DEF Taken
<1>3. s.request \in Response /\ s.request # None
  BY <1>1 DEF Ready, ScrollingBufferRange
<1>4. Taken(s) \in ScrollingBufferRange
  BY <1>1, <1>2, <1>3 DEF ScrollingBufferRange
<1>5. /\ Taken(s).request = None /\ Taken(s).latest = s.request
      /\ Taken(s).range = s.range /\ Taken(s).tick = s.tick
      /\ Taken(s).renderedTick = s.renderedTick /\ Taken(s).preserve = s.preserve
  BY <1>1, <1>2 DEF ScrollingBufferRange
<1> QED
  BY <1>3, <1>4, <1>5 DEF Good, RenderedText, AskedFor

(* The range asked for lies within the buffer.                             *)
LEMMA RangeIsInBuffer ==
  ASSUME NEW v \in Range
  PROVE  RangeVisibleInBuffer(v) \in Range
<1> DEFINE half == (v.end - v.start + 1) \div 2
           first == Larger(v.start - half, 1)
           last == Smaller(v.end + half, Lines)
<1>1. v.start \in 1..Lines /\ v.end \in 1..Lines /\ v.start <= v.end /\ Lines \in Nat
  BY LinesAssumption DEF Range
<1>2. half \in Nat
  BY <1>1
<1> HIDE DEF half
<1>3. /\ first \in Int /\ last \in Int
      /\ 1 <= first /\ first <= v.start /\ v.end <= last /\ last <= Lines
  BY <1>1, <1>2 DEF Larger, Smaller
<1>4. RangeVisibleInBuffer(v) = [start |-> first, end |-> last]
  BY DEF RangeVisibleInBuffer, half
<1> HIDE DEF first, last
<1>5. first \in 1..Lines /\ last \in 1..Lines /\ first <= last
  BY <1>1, <1>3
<1> QED
  BY <1>4, <1>5 DEF Range

(* Request keeps what is known of the buffer, and an outstanding request is*)
(* polled.                                                                 *)
LEMMA RequestIsGood ==
  ASSUME NEW s, NEW shown, Good(s, shown), NEW v \in Views \union {None},
         NEW now \in 1..MaxTick, NEW force \in BOOLEAN
  PROVE  /\ Good(Request(s, v, now, force), shown)
         /\ ~ToBePolled(s, v, now, force) => Request(s, v, now, force).request = None
<1>1. CASE Skipped(s, v, now, force)
  <2>1. v # None
    BY <1>1 DEF Skipped, VisibleRangeOverlaps
  <2> QED
    BY <1>1, <2>1 DEF Request, ToBePolled
<1>2. CASE ~Skipped(s, v, now, force) /\ v = None
  <2>1. Request(s, v, now, force) = Cancelled(s)
    BY <1>2 DEF Request
  <2> QED
    BY <2>1, CancelledIsGood
<1>3. CASE ~Skipped(s, v, now, force) /\ v # None
  <2> DEFINE n == Sent(s, v, now, force)
  <2>1. Request(s, v, now, force) = n
    BY <1>3 DEF Request
  <2>2. RangeVisibleInBuffer(v) \in Range
    BY <1>3, ViewsAssumption, RangeIsInBuffer
  <2>3. s.renderedTick \in 0..MaxTick /\ now \in 0..MaxTick /\ now # NoTick
    BY LinesAssumption DEF Good, ScrollingBufferRange, NoTick
  <2>4. /\ n.request = Pending /\ n.tick = now /\ n.range = RangeVisibleInBuffer(v)
        /\ n.latest = None /\ n.renderedTick = s.renderedTick
        /\ n.preserve = (~force /\ s.renderedTick = now)
    BY DEF Sent
  <2>5. n \in ScrollingBufferRange
    BY <2>2, <2>3 DEF Sent, ScrollingBufferRange
  <2> HIDE DEF n
  <2>6. RenderedText(n, shown) /\ AskedFor(n)
    BY <2>2, <2>3, <2>4 DEF Good, RenderedText, AskedFor
  <2>7. Good(n, shown)
    BY <2>5, <2>6 DEF Good
  <2> QED
    BY <1>3, <2>1, <2>4, <2>7, NoneAssumption DEF ToBePolled
<1> QED
  BY <1>1, <1>2, <1>3

(* Drawing the latest answer, over what is preserved.                      *)
LEMMA DrawnIsGood ==
  ASSUME NEW s, NEW shown, Good(s, shown), s.latest # None
  PROVE  /\ Good(Drawn(s), Painted(s, shown)) /\ Drawn(s).request = s.request
<1>1. s \in ScrollingBufferRange /\ s.latest \in Response
  BY DEF Good, ScrollingBufferRange
<1>2. s.range \in Range /\ s.tick # NoTick /\ s.tick \in 1..MaxTick
  BY <1>1, LinesAssumption DEF Good, AskedFor, ScrollingBufferRange, NoTick
<1>3. Known(s) \in Range
  <2>1. CASE s.latest.failed
    BY <1>2, <2>1 DEF Known
  <2>2. CASE ~s.latest.failed
    <3> DEFINE first == Smaller(s.range.start, s.latest.start)
               last == Larger(s.range.end, s.latest.end)
    <3>1. /\ s.range.start \in 1..Lines /\ s.range.end \in 1..Lines
          /\ s.range.start <= s.range.end
          /\ s.latest.start \in 1..Lines /\ s.latest.end \in 1..Lines
      BY <1>1, <1>2 DEF Range, Response
    <3>2. first \in 1..Lines /\ last \in 1..Lines /\ first <= last
      BY <3>1, LinesAssumption DEF Smaller, Larger
    <3>3. Known(s) = [start |-> first, end |-> last]
      BY <2>2 DEF Known
    <3> HIDE DEF first, last
    <3> QED
      BY <3>2, <3>3 DEF Range
  <2> QED
    BY <2>1, <2>2
<1>4. Drawn(s) = [s EXCEPT !.range = Known(s), !.renderedTick = s.tick]
  BY DEF Drawn
<1> DEFINE d == Drawn(s)
<1>5. d \in ScrollingBufferRange
  BY <1>1, <1>2, <1>3, <1>4 DEF ScrollingBufferRange
<1>6. /\ d.request = s.request /\ d.latest = s.latest /\ d.range = Known(s)
      /\ d.tick = s.tick /\ d.renderedTick = s.tick /\ d.preserve = s.preserve
  BY <1>1, <1>4 DEF ScrollingBufferRange
<1> HIDE DEF d
<1>7. Painted(s, shown) \in SUBSET Marks /\ \A p \in Painted(s, shown) : p[1] = s.tick
  <2>1. \A p \in {s.tick} \X Covered(s.latest) : p \in Marks /\ p[1] = s.tick
    BY <1>2 DEF Marks, Covered
  <2>2. s.preserve => \A p \in shown : p \in Marks /\ p[1] = s.tick
    BY <1>2 DEF Good, RenderedText
  <2> QED
    BY <2>1, <2>2 DEF Painted
<1>8. OneText(Painted(s, shown))
  BY <1>7 DEF OneText
<1>9. RenderedText(d, Painted(s, shown)) /\ AskedFor(d)
  BY <1>2, <1>3, <1>6, <1>7 DEF RenderedText, AskedFor
<1> QED
  BY <1>5, <1>6, <1>7, <1>8, <1>9 DEF Good, d

-----------------------------------------------------------------------------
EditorOK ==
  /\ kind \in Kinds /\ clearing \in BOOLEAN
  /\ current \in Buffers \union {None} /\ previousAllowed \in Buffers \union {None}
  /\ view \in [Buffers -> Views \union {None}]
  /\ tick \in [Buffers -> 1..MaxTick]
  /\ insert \in BOOLEAN /\ (insert => current # None)
  /\ enabled \in [Buffers -> BOOLEAN]
  /\ missed \in [Buffers -> BOOLEAN]
  /\ budget \in [Disturbance -> Nat]

RangesOK ==
  /\ scrollable \in [Buffers -> ScrollingBufferRange]
  /\ drawn \in [Buffers -> SUBSET Marks]
  /\ \A b \in Buffers : Good(scrollable[b], drawn[b])

TimersOK == polled \subseteq Buffers /\ scrolling \subseteq Buffers

IInv == EditorOK /\ RangesOK /\ TimersOK /\ RequestIsWatched

LEMMA InitHolds == Init => IInv
<1> SUFFICES ASSUME Init
             PROVE  IInv
  OBVIOUS
<1>1. EditorOK
  <2>1. 1 \in 1..MaxTick
    BY LinesAssumption
  <2>2. budget \in [Disturbance -> Nat]
    BY BudgetsAssumption DEF Init
  <2>3. /\ view \in [Buffers -> Views \union {None}] /\ tick \in [Buffers -> 1..MaxTick]
        /\ missed \in [Buffers -> BOOLEAN]
    BY <2>1 DEF Init
  <2>4. enabled \in [Buffers -> BOOLEAN]
    BY DEF Init
  <2> QED
    BY <2>2, <2>3, <2>4 DEF Init, EditorOK
<1>2. RangesOK
  <2>1. {} \in SUBSET Marks /\ OneText({})
    BY DEF OneText
  <2>2. Good(NewScrollingBufferRange, {})
    BY <2>1, NewIsGood
  <2> QED
    BY <2>1, <2>2 DEF Init, RangesOK, Good
<1>3. TimersOK
  BY DEF Init, TimersOK
<1>4. RequestIsWatched
  BY DEF Init, RequestIsWatched, NewScrollingBufferRange
<1> QED
  BY <1>1, <1>2, <1>3, <1>4 DEF IInv

(* A step that changes what is known of one buffer.                        *)
LEMMA OneBufferChanges ==
  ASSUME RangesOK, NEW b \in Buffers, NEW s, NEW shown, Good(s, shown),
         scrollable' = [scrollable EXCEPT ![b] = s],
         drawn' = [drawn EXCEPT ![b] = shown]
  PROVE  RangesOK'
<1>1. s \in ScrollingBufferRange /\ shown \in SUBSET Marks
  BY DEF Good
<1>2. /\ scrollable' \in [Buffers -> ScrollingBufferRange]
      /\ drawn' \in [Buffers -> SUBSET Marks]
  BY <1>1 DEF RangesOK
<1>3. ASSUME NEW c \in Buffers
      PROVE  Good(scrollable'[c], drawn'[c])
  BY DEF RangesOK
<1> QED
  BY <1>2, <1>3 DEF RangesOK

(* A step that changes every buffer's.                                     *)
LEMMA AllBuffersChange ==
  ASSUME scrollable' = [b \in Buffers |-> scrollable'[b]],
         drawn' = [b \in Buffers |-> drawn'[b]],
         \A b \in Buffers : Good(scrollable'[b], drawn'[b])
  PROVE  RangesOK'
<1>1. \A b \in Buffers : /\ scrollable'[b] \in ScrollingBufferRange
                          /\ drawn'[b] \in SUBSET Marks
  BY DEF Good
<1>2. /\ scrollable' \in [Buffers -> ScrollingBufferRange]
      /\ drawn' \in [Buffers -> SUBSET Marks]
  BY <1>1
<1> QED
  BY <1>2 DEF RangesOK

(* Asking: the request that remains is polled; the other buffers keep what *)
(* they have.                                                              *)
Asked(b) ==
  \E v \in Views \union {None}, now \in 1..MaxTick, force \in BOOLEAN, redraw \in BOOLEAN :
    Ask(b, v, now, force, redraw)

LEMMA AskHolds ==
  ASSUME RangesOK, TimersOK, NEW b \in Buffers,
         missed \in [Buffers -> BOOLEAN], Asked(b)
  PROVE  /\ RangesOK' /\ missed' \in [Buffers -> BOOLEAN]
         /\ polled' \subseteq Buffers
         /\ scrollable'[b].request # None => b \in polled'
         /\ \A c \in Buffers \ {b} :
              scrollable'[c] = scrollable[c] /\ (c \in polled' <=> c \in polled)
<1>0. PICK v \in Views \union {None}, now \in 1..MaxTick, force \in BOOLEAN,
           redraw \in BOOLEAN : Ask(b, v, now, force, redraw)
  BY DEF Asked
<1> DEFINE asked == Request(scrollable[b], v, now, force)
           polling == ToBePolled(scrollable[b], v, now, force)
           drawnAgain == Drawn(Refreshing(asked))
           painted == Painted(Refreshing(asked), drawn[b])
           AsBefore == scrollable' = [scrollable EXCEPT ![b] = asked] /\ drawn' = drawn
           Again == /\ Refreshes(asked, now)
                    /\ scrollable' = [scrollable EXCEPT ![b] = drawnAgain]
                    /\ drawn' = [drawn EXCEPT ![b] = painted]
<1>1. Good(scrollable[b], drawn[b])
  BY DEF RangesOK
<1>2. Good(asked, drawn[b]) /\ (~polling => asked.request = None)
  BY <1>1, RequestIsGood
<1>3. /\ polled' = (IF polling THEN polled \union {b} ELSE polled \ {b})
      /\ AsBefore \/ Again
      /\ missed' = missed \/ missed' = [missed EXCEPT ![b] = v = None]
  BY <1>0 DEF Ask
<1>4. Again => Good(drawnAgain, painted) /\ drawnAgain.request = asked.request
  <2> SUFFICES ASSUME Again
               PROVE  Good(drawnAgain, painted) /\ drawnAgain.request = asked.request
    OBVIOUS
  <2>1. asked.latest # None
    BY DEF Refreshes
  <2>2. /\ Good(Refreshing(asked), drawn[b]) /\ Refreshing(asked).latest # None
        /\ Refreshing(asked).request = asked.request
    BY <1>2, <2>1, RefreshingIsGood
  <2> QED
    BY <2>2, DrawnIsGood
<1> HIDE DEF asked, polling, drawnAgain, painted
<1>5. /\ RangesOK' /\ scrollable'[b].request = asked.request
      /\ \A c \in Buffers \ {b} : scrollable'[c] = scrollable[c]
  <2>1. CASE Again
    <3>1. RangesOK'
      BY <1>4, <2>1, OneBufferChanges
    <3> QED
      BY <1>4, <2>1, <3>1 DEF RangesOK
  <2>2. CASE AsBefore
    <3>1. drawn' = [drawn EXCEPT ![b] = drawn[b]]
      BY <2>2 DEF RangesOK
    <3>2. RangesOK'
      BY <1>2, <2>2, <3>1, OneBufferChanges
    <3> QED
      BY <2>2, <3>2 DEF RangesOK
  <2> QED
    BY <1>3, <2>1, <2>2
<1>6. missed' \in [Buffers -> BOOLEAN]
  BY <1>3
<1>7. /\ polled' \subseteq Buffers
      /\ \A c \in Buffers \ {b} : c \in polled' <=> c \in polled
  BY <1>3 DEF TimersOK
<1>8. scrollable'[b].request # None => b \in polled'
  BY <1>2, <1>3, <1>5
<1> QED
  BY <1>5, <1>6, <1>7, <1>8

BroughtUpToDate(b) ==
  \E v \in Views \union {None}, now \in 1..MaxTick : Update(b, v, now, TRUE)

LEMMA UpdateHolds ==
  ASSUME RangesOK, TimersOK, NEW b \in Buffers,
         missed \in [Buffers -> BOOLEAN], BroughtUpToDate(b)
  PROVE  /\ RangesOK' /\ missed' \in [Buffers -> BOOLEAN]
         /\ polled' \subseteq Buffers
         /\ enabled[b] /\ scrollable'[b].request # None => b \in polled'
         /\ \A c \in Buffers \ {b} :
              scrollable'[c] = scrollable[c] /\ (c \in polled' <=> c \in polled)
<1>0. PICK v \in Views \union {None}, now \in 1..MaxTick : Update(b, v, now, TRUE)
  BY DEF BroughtUpToDate
<1>1. CASE enabled[b]
  <2>1. Ask(b, v, now, TRUE, FALSE)
    BY <1>0, <1>1 DEF Update
  <2>2. /\ RangesOK' /\ missed' \in [Buffers -> BOOLEAN]
        /\ polled' \subseteq Buffers
        /\ scrollable'[b].request # None => b \in polled'
        /\ \A c \in Buffers \ {b} :
             scrollable'[c] = scrollable[c] /\ (c \in polled' <=> c \in polled)
    <3>1. Asked(b)
      BY <2>1 DEF Asked
    <3> QED
      BY <3>1, AskHolds
  <2> QED
    BY <2>2
<1>2. CASE ~enabled[b]
  <2>1. polled' = polled \ {b} /\ UNCHANGED <<scrollable, drawn, missed>>
    BY <1>0, <1>2 DEF Update
  <2>2. RangesOK'
    BY <2>1 DEF RangesOK
  <2>3. polled' \subseteq Buffers
    BY <2>1 DEF TimersOK
  <2>4. \A c \in Buffers \ {b} :
          scrollable'[c] = scrollable[c] /\ (c \in polled' <=> c \in polled)
    BY <2>1
  <2> QED
    BY <1>2, <2>1, <2>2, <2>3, <2>4
<1> QED
  BY <1>1, <1>2

-----------------------------------------------------------------------------
LEMMA OnlyOneIsAsked ==
  ASSUME RequestIsWatched, NEW b \in Buffers,
         \A c \in Buffers : c # b => enabled'[c] = enabled[c],
         scrolling' = scrolling,
         enabled'[b] /\ scrollable'[b].request # None => b \in polled',
         \A c \in Buffers \ {b} :
           scrollable'[c] = scrollable[c] /\ (c \in polled' <=> c \in polled)
  PROVE  RequestIsWatched'
<1> SUFFICES ASSUME NEW c \in Buffers, enabled'[c], scrollable'[c].request # None
             PROVE  c \in polled' \union scrolling'
  BY DEF RequestIsWatched
<1>1. CASE c = b
  BY <1>1
<1>2. CASE c # b
  BY <1>2 DEF RequestIsWatched
<1> QED
  BY <1>1, <1>2

(* Steps of the user and of the editor that do not ask for anything.       *)
LEMMA NothingAsked ==
  ASSUME IInv, EditorOK', UNCHANGED <<enabled, scrollable, drawn, polled, scrolling>>
  PROVE  IInv'
<1>1. RangesOK' /\ TimersOK'
  BY DEF IInv, RangesOK, TimersOK
<1>2. RequestIsWatched'
  BY DEF IInv, RequestIsWatched
<1> QED
  BY <1>1, <1>2 DEF IInv

LEMMA SpendKeepsBudget ==
  ASSUME EditorOK, NEW what \in Disturbance, Spend(what)
  PROVE  budget' \in [Disturbance -> Nat]
<1>1. budget[what] \in Nat /\ budget[what] > 0
  BY DEF EditorOK, Spend
<1>2. budget[what] - 1 \in Nat
  BY <1>1
<1> QED
  BY <1>2 DEF EditorOK, Spend

LEMMA ScrolledHolds ==
  ASSUME IInv, NEW b \in Buffers, NEW v \in Views, OnWinScrolled(b, v)
  PROVE  IInv'
<1>1. budget' \in [Disturbance -> Nat]
  BY SpendKeepsBudget DEF OnWinScrolled, Disturbance, IInv
<1>2. /\ view' = [view EXCEPT ![b] = v]
      /\ previousAllowed' = current \/ previousAllowed' = previousAllowed
      /\ missed' = missed \/ missed' = [missed EXCEPT ![b] = TRUE]
      /\ UNCHANGED <<kind, clearing, current, tick, insert, enabled, scrollable, drawn>>
  BY DEF OnWinScrolled, options
<1>3. EditorOK'
  BY <1>1, <1>2 DEF IInv, EditorOK
<1>4. /\ TimersOK'
      /\ \A c \in Buffers : c \in polled \union scrolling => c \in polled' \union scrolling'
  BY DEF OnWinScrolled, ScheduleScrollingRequests, IInv, TimersOK
<1>5. RangesOK'
  BY <1>2 DEF IInv, RangesOK
<1>6. RequestIsWatched'
  BY <1>2, <1>4 DEF IInv, RequestIsWatched
<1> QED
  BY <1>3, <1>4, <1>5, <1>6 DEF IInv

LEMMA AfterScrollingHolds ==
  ASSUME IInv, RequestAfterScrolling
  PROVE  IInv'
<1> DEFINE Moved(b) == b \in scrolling /\ enabled[b]
           Is(b) == Request(scrollable[b], view[b], tick[b], FALSE)
           Polling(b) == ToBePolled(scrollable[b], view[b], tick[b], FALSE)
<1>1. /\ scrolling' = {} /\ \E b \in scrolling : previousAllowed' = b
      /\ scrollable' = [b \in Buffers |-> IF Moved(b) THEN Is(b) ELSE scrollable[b]]
      /\ polled' = {b \in Buffers : IF b \in scrolling THEN Moved(b) /\ Polling(b)
                                     ELSE b \in polled}
      /\ missed' = [b \in Buffers |->
           IF Moved(b) /\ ~Skipped(scrollable[b], view[b], tick[b], FALSE)
           THEN view[b] = None ELSE missed[b]]
      /\ UNCHANGED <<kind, clearing, current, view, tick, insert, enabled, drawn, budget>>
  BY DEF RequestAfterScrolling, options
<1>2. \A b \in Buffers : Good(Is(b), drawn[b]) /\ (~Polling(b) => Is(b).request = None)
  <2> TAKE b \in Buffers
  <2>1. /\ Good(scrollable[b], drawn[b])
        /\ view[b] \in Views \union {None} /\ tick[b] \in 1..MaxTick
    BY DEF IInv, RangesOK, EditorOK
  <2> QED
    BY <2>1, RequestIsGood
<1> HIDE DEF Is, Polling
<1>3. EditorOK'
  <2>1. missed' \in [Buffers -> BOOLEAN] /\ previousAllowed' \in Buffers
    BY <1>1 DEF IInv, EditorOK, TimersOK
  <2> QED
    BY <1>1, <2>1 DEF IInv, EditorOK
<1>4. RangesOK'
  <2>1. /\ scrollable' = [b \in Buffers |-> scrollable'[b]]
        /\ drawn' = [b \in Buffers |-> drawn'[b]]
    BY <1>1 DEF IInv, RangesOK
  <2>2. \A b \in Buffers : Good(scrollable'[b], drawn'[b])
    BY <1>1, <1>2 DEF IInv, RangesOK
  <2> QED
    BY <2>1, <2>2, AllBuffersChange
<1>5. TimersOK'
  BY <1>1 DEF TimersOK
<1>6. RequestIsWatched'
  <2> SUFFICES ASSUME NEW b \in Buffers, enabled'[b], scrollable'[b].request # None
               PROVE  b \in polled'
    BY DEF RequestIsWatched
  <2>1. CASE b \in scrolling
    BY <1>1, <1>2, <2>1
  <2>2. CASE b \notin scrolling
    BY <1>1, <2>2 DEF IInv, RequestIsWatched
  <2> QED
    BY <2>1, <2>2
<1> QED
  BY <1>3, <1>4, <1>5, <1>6 DEF IInv

LEMMA PollHolds ==
  ASSUME IInv, PollScrollable
  PROVE  IInv'
<1> DEFINE done == {b \in polled : Ready(scrollable[b])}
<1>1. /\ scrollable' = [b \in Buffers |-> IF b \in done THEN Updated(b) ELSE scrollable[b]]
      /\ drawn' = [b \in Buffers |-> IF b \in done THEN PaintedByUpdate(b) ELSE drawn[b]]
      /\ polled' = {b \in polled : b \in done => Stale(b)}
      /\ missed' = [b \in Buffers |-> IF b \in done /\ Stale(b)
                                      THEN view[b] = None ELSE missed[b]]
      /\ UNCHANGED <<kind, clearing, current, previousAllowed, view, tick, insert,
                     enabled, scrolling, budget>>
  BY DEF PollScrollable, options, editor
<1>2. \A b \in done : /\ Good(Updated(b), PaintedByUpdate(b))
                      /\ ~Stale(b) => Updated(b).request = None
  <2> TAKE b \in done
  <2>0. b \in Buffers /\ Ready(scrollable[b])
    BY DEF IInv, TimersOK
  <2>1. /\ Good(scrollable[b], drawn[b])
        /\ view[b] \in Views \union {None} /\ tick[b] \in 1..MaxTick
    BY <2>0 DEF IInv, RangesOK, EditorOK
  <2>2. /\ Good(Taken(scrollable[b]), drawn[b]) /\ Taken(scrollable[b]).latest # None
        /\ Taken(scrollable[b]).request = None
    BY <2>0, <2>1, TakenIsGood
  <2>3. CASE Stale(b)
    BY <2>1, <2>2, <2>3, RequestIsGood DEF Updated, PaintedByUpdate
  <2>4. CASE ~Stale(b)
    <3>1. Updated(b) = Drawn(Taken(scrollable[b]))
      BY <2>4 DEF Updated
    <3>2. PaintedByUpdate(b) = Painted(Taken(scrollable[b]), drawn[b])
      BY <2>4 DEF PaintedByUpdate
    <3> QED
      BY <2>2, <3>1, <3>2, DrawnIsGood
  <2> QED
    BY <2>3, <2>4
<1> HIDE DEF done
<1>3. EditorOK'
  <2>1. missed' \in [Buffers -> BOOLEAN]
    BY <1>1 DEF IInv, EditorOK
  <2> QED
    BY <1>1, <2>1 DEF IInv, EditorOK
<1>4. RangesOK'
  <2>1. /\ scrollable' = [b \in Buffers |-> scrollable'[b]]
        /\ drawn' = [b \in Buffers |-> drawn'[b]]
    BY <1>1
  <2>2. \A b \in Buffers : Good(scrollable'[b], drawn'[b])
    BY <1>1, <1>2 DEF IInv, RangesOK
  <2> QED
    BY <2>1, <2>2, AllBuffersChange
<1>5. TimersOK'
  BY <1>1 DEF IInv, TimersOK
<1>6. RequestIsWatched'
  <2> SUFFICES ASSUME NEW b \in Buffers, enabled'[b], scrollable'[b].request # None
               PROVE  b \in polled' \union scrolling'
    BY DEF RequestIsWatched
  <2>1. CASE b \in done
    <3>1. Stale(b)
      BY <1>1, <1>2, <2>1
    <3> QED
      BY <1>1, <2>1, <3>1 DEF done
  <2>2. CASE b \notin done
    <3>1. enabled[b] /\ scrollable[b].request # None
      BY <1>1, <2>2
    <3>2. b \in polled \union scrolling
      BY <3>1 DEF IInv, RequestIsWatched
    <3> QED
      BY <1>1, <2>2, <3>2
  <2> QED
    BY <2>1, <2>2
<1> QED
  BY <1>3, <1>4, <1>5, <1>6 DEF IInv

(* The steps that bring one buffer up to date.                             *)
LEMMA UpToDateHolds ==
  ASSUME IInv, NEW b \in Buffers, BroughtUpToDate(b),
         enabled' = enabled, scrolling' = scrolling
  PROVE  RangesOK' /\ TimersOK' /\ RequestIsWatched' /\ missed' \in [Buffers -> BOOLEAN]
<1>1. /\ RangesOK' /\ missed' \in [Buffers -> BOOLEAN]
      /\ polled' \subseteq Buffers
      /\ enabled[b] /\ scrollable'[b].request # None => b \in polled'
      /\ \A c \in Buffers \ {b} :
           scrollable'[c] = scrollable[c] /\ (c \in polled' <=> c \in polled)
  BY UpdateHolds DEF IInv, EditorOK
<1>2. TimersOK'
  BY <1>1 DEF IInv, TimersOK
<1>3. RequestIsWatched'
  BY <1>1, OnlyOneIsAsked DEF IInv
<1> QED
  BY <1>1, <1>2, <1>3

LEMMA CurrentIsABuffer ==
  ASSUME IInv, current # None
  PROVE  /\ current \in Buffers /\ view[current] \in Views \union {None}
         /\ tick[current] \in 1..MaxTick
BY DEF IInv, EditorOK

LEMMA ChangeKeepsEditor ==
  ASSUME IInv, Change
  PROVE  /\ current \in Buffers /\ tick'[current] \in 1..MaxTick
         /\ missed' \in [Buffers -> BOOLEAN] => EditorOK'
         /\ UNCHANGED <<enabled, scrolling>>
<1>1. current \in Buffers /\ tick[current] \in 1..MaxTick /\ tick[current] < MaxTick
  BY CurrentIsABuffer DEF Change
<1>2. tick[current] + 1 \in 1..MaxTick
  BY <1>1, LinesAssumption
<1>3. /\ tick' = [tick EXCEPT ![current] = tick[current] + 1]
      /\ UNCHANGED <<kind, clearing, current, previousAllowed, view, insert, enabled, scrolling>>
  BY DEF Change, options
<1>4. budget' \in [Disturbance -> Nat]
  BY SpendKeepsBudget DEF Change, Disturbance, IInv
<1>5. tick' \in [Buffers -> 1..MaxTick] /\ tick'[current] \in 1..MaxTick
  BY <1>1, <1>2, <1>3 DEF IInv, EditorOK
<1>6. missed' \in [Buffers -> BOOLEAN] => EditorOK'
  BY <1>3, <1>4, <1>5 DEF IInv, EditorOK
<1> QED
  BY <1>1, <1>3, <1>5, <1>6

LEMMA NormalChangeHolds ==
  ASSUME IInv, OnTextChangedNormalMode
  PROVE  IInv'
<1>1. Change /\ Update(current, view[current], tick'[current], TRUE)
  BY DEF OnTextChangedNormalMode
<1>2. /\ current \in Buffers /\ tick'[current] \in 1..MaxTick
      /\ missed' \in [Buffers -> BOOLEAN] => EditorOK'
      /\ UNCHANGED <<enabled, scrolling>>
  BY <1>1, ChangeKeepsEditor
<1>3. view[current] \in Views \union {None}
  BY <1>2 DEF IInv, EditorOK
<1>4. BroughtUpToDate(current)
  BY <1>1, <1>2, <1>3 DEF BroughtUpToDate
<1>5. RangesOK' /\ TimersOK' /\ RequestIsWatched' /\ missed' \in [Buffers -> BOOLEAN]
  BY <1>2, <1>4, UpToDateHolds
<1> QED
  BY <1>2, <1>5 DEF IInv

LEMMA InsertChangeHolds ==
  ASSUME IInv, OnTextChangedInsertMode
  PROVE  IInv'
<1>1. Change /\ UNCHANGED <<scrollable, drawn, polled, missed>>
  BY DEF OnTextChangedInsertMode
<1>2. EditorOK' /\ UNCHANGED <<enabled, scrolling>>
  <2>1. missed' \in [Buffers -> BOOLEAN]
    BY <1>1 DEF IInv, EditorOK
  <2> QED
    BY <1>1, <2>1, ChangeKeepsEditor
<1> QED
  BY <1>1, <1>2, NothingAsked

LEMMA ReadyToParseHolds ==
  ASSUME IInv, OnFileReadyToParse
  PROVE  IInv'
<1>1. /\ current # None /\ Update(current, view[current], tick[current], TRUE)
      /\ UNCHANGED <<kind, clearing, current, previousAllowed, view, tick, insert,
                     enabled, scrolling>>
  BY DEF OnFileReadyToParse, options, editor
<1>2. /\ current \in Buffers /\ view[current] \in Views \union {None}
      /\ tick[current] \in 1..MaxTick
  BY <1>1, CurrentIsABuffer
<1>3. BroughtUpToDate(current)
  BY <1>1, <1>2 DEF BroughtUpToDate
<1>4. RangesOK' /\ TimersOK' /\ RequestIsWatched' /\ missed' \in [Buffers -> BOOLEAN]
  BY <1>1, <1>2, <1>3, UpToDateHolds
<1>5. budget' \in [Disturbance -> Nat]
  BY SpendKeepsBudget DEF OnFileReadyToParse, Disturbance, IInv
<1>6. EditorOK'
  BY <1>1, <1>4, <1>5 DEF IInv, EditorOK
<1> QED
  BY <1>4, <1>6 DEF IInv

LEMMA InsertEnterHolds ==
  ASSUME IInv, OnInsertEnter
  PROVE  IInv'
<1>1. /\ current # None /\ insert' = TRUE
      /\ drawn' = drawn \/ drawn' = [drawn EXCEPT ![current] = {}]
      /\ UNCHANGED <<kind, clearing, current, previousAllowed, view, tick, enabled,
                     scrollable, polled, scrolling, missed>>
  BY DEF OnInsertEnter, options
<1>2. budget' \in [Disturbance -> Nat]
  BY SpendKeepsBudget DEF OnInsertEnter, Disturbance, IInv
<1>3. EditorOK'
  BY <1>1, <1>2 DEF IInv, EditorOK
<1>4. RangesOK'
  <2>1. CASE drawn' = drawn
    BY <1>1, <2>1 DEF IInv, RangesOK
  <2>2. CASE drawn' = [drawn EXCEPT ![current] = {}]
    <3>1. current \in Buffers
      BY <1>1, CurrentIsABuffer
    <3>2. Good(scrollable[current], drawn[current])
      BY <3>1 DEF IInv, RangesOK
    <3>3. Good(scrollable[current], {})
      BY <3>2, GoodWithoutMarks
    <3>4. scrollable' = [scrollable EXCEPT ![current] = scrollable[current]]
      BY <1>1 DEF IInv, RangesOK
    <3> QED
      BY <2>2, <3>1, <3>3, <3>4, OneBufferChanges DEF IInv
  <2> QED
    BY <1>1, <2>1, <2>2
<1>5. TimersOK' /\ RequestIsWatched'
  BY <1>1 DEF IInv, TimersOK, RequestIsWatched
<1> QED
  BY <1>3, <1>4, <1>5 DEF IInv

LEMMA InsertLeaveHolds ==
  ASSUME IInv, OnInsertLeave
  PROVE  IInv'
<1> DEFINE s == scrollable[current]
           again == Drawn(Refreshing(s))
           painted == Painted(Refreshing(s), {})
           Redrawn == /\ Refreshes(s, tick[current])
                      /\ scrollable' = [scrollable EXCEPT ![current] = again]
                      /\ drawn' = [drawn EXCEPT ![current] = painted]
                      /\ UNCHANGED <<polled, missed>>
<1>1. /\ insert /\ insert' = FALSE /\ previousAllowed' = current
      /\ \/ Update(current, view[current], tick[current], TRUE)
         \/ Redrawn
         \/ UNCHANGED <<scrollable, drawn, polled, missed>>
      /\ UNCHANGED <<kind, clearing, current, view, tick, enabled, scrolling, budget>>
  BY DEF OnInsertLeave, options
<1>2. current \in Buffers
  BY <1>1, CurrentIsABuffer DEF IInv, EditorOK
<1>3. view[current] \in Views \union {None} /\ tick[current] \in 1..MaxTick
  BY <1>2 DEF IInv, EditorOK
<1>4. /\ RangesOK' /\ TimersOK' /\ RequestIsWatched'
      /\ missed' \in [Buffers -> BOOLEAN]
  <2>1. CASE Update(current, view[current], tick[current], TRUE)
    <3>1. BroughtUpToDate(current)
      BY <1>3, <2>1 DEF BroughtUpToDate
    <3> QED
      BY <1>1, <1>2, <3>1, UpToDateHolds
  <2>2. CASE Redrawn
    <3>1. s.latest # None /\ Good(s, drawn[current])
      BY <1>2, <2>2 DEF Refreshes, IInv, RangesOK
    <3>2. Good(s, {})
      BY <3>1, GoodWithoutMarks
    <3>3. /\ Good(Refreshing(s), {}) /\ Refreshing(s).latest # None
          /\ Refreshing(s).request = s.request
      BY <3>1, <3>2, RefreshingIsGood
    <3>4. Good(again, painted) /\ again.request = s.request
      BY <3>3, DrawnIsGood
    <3> HIDE DEF again, painted
    <3>5. RangesOK'
      BY <1>2, <2>2, <3>4, OneBufferChanges DEF IInv
    <3>6. \A c \in Buffers : scrollable'[c].request = scrollable[c].request
      BY <1>2, <2>2, <3>4 DEF IInv, RangesOK
    <3>7. TimersOK' /\ RequestIsWatched' /\ missed' \in [Buffers -> BOOLEAN]
      BY <1>1, <2>2, <3>6 DEF IInv, TimersOK, RequestIsWatched, EditorOK
    <3> QED
      BY <3>5, <3>7
  <2>3. CASE UNCHANGED <<scrollable, drawn, polled, missed>>
    BY <1>1, <2>3 DEF IInv, RangesOK, TimersOK, RequestIsWatched, EditorOK
  <2> QED
    BY <1>1, <2>1, <2>2, <2>3
<1>5. EditorOK'
  BY <1>1, <1>2, <1>4 DEF IInv, EditorOK
<1> QED
  BY <1>4, <1>5 DEF IInv

LEMMA BufferEnterHolds ==
  ASSUME IInv, NEW b \in Buffers, NEW v \in Views, NEW hide \in BOOLEAN,
         OnBufferEnter(b, v, hide)
  PROVE  IInv'
<1>1. /\ view' = ShowsInstead(b, v, hide) /\ current' = b /\ previousAllowed' = b
      /\ \/ Update(b, view'[b], tick[b], TRUE)
         \/ /\ missed' = [missed EXCEPT ![b] = missed[b] \/ view[b] = None]
            /\ UNCHANGED <<scrollable, drawn, polled>>
      /\ UNCHANGED <<kind, clearing, tick, insert, enabled, scrolling>>
  BY DEF OnBufferEnter, options
<1>2. view' \in [Buffers -> Views \union {None}]
  BY <1>1 DEF ShowsInstead, IInv, EditorOK
<1>3. view'[b] \in Views \union {None} /\ tick[b] \in 1..MaxTick
  BY <1>2 DEF IInv, EditorOK
<1>4. /\ RangesOK' /\ TimersOK' /\ RequestIsWatched'
      /\ missed' \in [Buffers -> BOOLEAN]
  <2>1. CASE Update(b, view'[b], tick[b], TRUE)
    <3>1. PICK shows \in Views \union {None} : Update(b, shows, tick[b], TRUE)
      BY <1>3, <2>1
    <3>2. BroughtUpToDate(b)
      BY <1>3, <3>1 DEF BroughtUpToDate
    <3> QED
      BY <1>1, <3>2, UpToDateHolds
  <2>2. CASE /\ missed' = [missed EXCEPT ![b] = missed[b] \/ view[b] = None]
             /\ UNCHANGED <<scrollable, drawn, polled>>
    <3>1. missed' \in [Buffers -> BOOLEAN]
      BY <2>2 DEF IInv, EditorOK
    <3> QED
      BY <1>1, <2>2, <3>1 DEF IInv, RangesOK, TimersOK, RequestIsWatched
  <2> QED
    BY <1>1, <2>1, <2>2
<1>5. budget' \in [Disturbance -> Nat]
  BY SpendKeepsBudget DEF OnBufferEnter, Disturbance, IInv
<1>6. EditorOK'
  BY <1>1, <1>2, <1>4, <1>5, NoneAssumption DEF IInv, EditorOK
<1> QED
  BY <1>4, <1>6 DEF IInv

LEMMA EnterIgnoredHolds ==
  ASSUME IInv, NEW hide \in BOOLEAN, EnterIgnored(hide)
  PROVE  IInv'
<1>1. /\ current' = None /\ insert = FALSE
      /\ view' = view \/ view' = [view EXCEPT ![current] = None]
      /\ UNCHANGED <<kind, clearing, previousAllowed, tick, insert, enabled, scrollable,
                     drawn, polled, scrolling, missed>>
  BY DEF EnterIgnored, options, IInv, EditorOK
<1>2. budget' \in [Disturbance -> Nat]
  BY SpendKeepsBudget DEF EnterIgnored, Disturbance, IInv
<1>3. EditorOK'
  BY <1>1, <1>2 DEF IInv, EditorOK
<1> QED
  BY <1>1, <1>3, NothingAsked

LEMMA UnloadHolds ==
  ASSUME IInv, NEW b \in Buffers, OnBufferUnload(b)
  PROVE  IInv'
<1>1. /\ tick' = [tick EXCEPT ![b] = tick[b] + 1] /\ previousAllowed' = b
      /\ scrolling' = scrolling \ {b} /\ polled' = polled \ {b}
      /\ scrollable' = [scrollable EXCEPT ![b] = Cancelled(scrollable[b])]
      /\ drawn' = [drawn EXCEPT ![b] = {}]
      /\ missed' = [missed EXCEPT ![b] = TRUE]
      /\ UNCHANGED <<kind, clearing, current, view, insert, enabled>>
  BY DEF OnBufferUnload, options
<1>2. tick[b] + 1 \in 1..MaxTick
  BY LinesAssumption DEF OnBufferUnload, IInv, EditorOK
<1>3. budget' \in [Disturbance -> Nat]
  BY SpendKeepsBudget DEF OnBufferUnload, Disturbance, IInv
<1>4. EditorOK'
  BY <1>1, <1>2, <1>3 DEF IInv, EditorOK
<1>5. Good(Cancelled(scrollable[b]), {}) /\ Cancelled(scrollable[b]).request = None
  <2>1. Good(scrollable[b], drawn[b])
    BY DEF IInv, RangesOK
  <2> QED
    BY <2>1, GoodWithoutMarks, CancelledIsGood
<1>6. RangesOK'
  BY <1>1, <1>5, OneBufferChanges DEF IInv
<1>7. TimersOK'
  BY <1>1 DEF IInv, TimersOK
<1>8. RequestIsWatched'
  BY <1>1, <1>5 DEF IInv, RequestIsWatched, RangesOK
<1> QED
  BY <1>4, <1>6, <1>7, <1>8 DEF IInv

LEMMA ToggleHolds ==
  ASSUME IInv, ToggleInlayHints
  PROVE  IInv'
<1>1. /\ current # None /\ enabled' = [enabled EXCEPT ![current] = ~enabled[current]]
      /\ \/ /\ enabled[current] /\ drawn' = [drawn EXCEPT ![current] = {}]
            /\ UNCHANGED <<scrollable, polled, missed>>
         \/ Ask(current, view[current], tick[current], FALSE, TRUE)
      /\ UNCHANGED <<kind, clearing, current, previousAllowed, view, tick, insert, scrolling>>
  BY DEF ToggleInlayHints, options, editor
<1>2. /\ current \in Buffers /\ view[current] \in Views \union {None}
      /\ tick[current] \in 1..MaxTick
  BY <1>1, CurrentIsABuffer
<1>3. enabled' \in [Buffers -> BOOLEAN]
  BY <1>1 DEF IInv, EditorOK
<1>4. budget' \in [Disturbance -> Nat]
  BY SpendKeepsBudget DEF ToggleInlayHints, Disturbance, IInv
<1>5. CASE /\ enabled[current] /\ drawn' = [drawn EXCEPT ![current] = {}]
           /\ UNCHANGED <<scrollable, polled, missed>>
  <2>1. Good(scrollable[current], {})
    <3>1. Good(scrollable[current], drawn[current])
      BY <1>2 DEF IInv, RangesOK
    <3> QED
      BY <3>1, GoodWithoutMarks
  <2>2. scrollable' = [scrollable EXCEPT ![current] = scrollable[current]]
    BY <1>5 DEF IInv, RangesOK
  <2>3. RangesOK'
    BY <1>2, <1>5, <2>1, <2>2, OneBufferChanges DEF IInv
  <2>4. ~enabled'[current] /\ \A c \in Buffers : c # current => enabled'[c] = enabled[c]
    BY <1>1, <1>2, <1>5 DEF IInv, EditorOK
  <2>5. RequestIsWatched'
    BY <1>1, <1>2, <1>5, <2>4, OnlyOneIsAsked DEF IInv
  <2>6. TimersOK' /\ EditorOK'
    BY <1>1, <1>3, <1>4, <1>5 DEF IInv, TimersOK, EditorOK
  <2> QED
    BY <2>3, <2>5, <2>6 DEF IInv
<1>6. CASE Ask(current, view[current], tick[current], FALSE, TRUE)
  <2>1. Asked(current)
    BY <1>2, <1>6 DEF Asked
  <2>2. /\ RangesOK' /\ missed' \in [Buffers -> BOOLEAN]
        /\ polled' \subseteq Buffers
        /\ scrollable'[current].request # None => current \in polled'
        /\ \A c \in Buffers \ {current} :
             scrollable'[c] = scrollable[c] /\ (c \in polled' <=> c \in polled)
    BY <1>2, <2>1, AskHolds DEF IInv, EditorOK
  <2>3. \A c \in Buffers : c # current => enabled'[c] = enabled[c]
    BY <1>1, <1>2 DEF IInv, EditorOK
  <2>4. RequestIsWatched'
    BY <1>1, <1>2, <2>2, <2>3, OnlyOneIsAsked DEF IInv
  <2>5. TimersOK' /\ EditorOK'
    BY <1>1, <1>3, <1>4, <2>2 DEF IInv, TimersOK, EditorOK
  <2> QED
    BY <2>2, <2>4, <2>5 DEF IInv
<1> QED
  BY <1>1, <1>5, <1>6

LEMMA DisableHolds ==
  ASSUME IInv, DisableLanguageServer
  PROVE  IInv'
<1>1. /\ scrollable' = [b \in Buffers |-> Cancelled(scrollable[b])]
      /\ drawn' = [b \in Buffers |-> {}]
      /\ missed' = [b \in Buffers |-> TRUE]
      /\ UNCHANGED <<kind, clearing, current, previousAllowed, view, tick, insert,
                     enabled, polled, scrolling>>
  BY DEF DisableLanguageServer, options, editor
<1>2. budget' \in [Disturbance -> Nat]
  BY SpendKeepsBudget DEF DisableLanguageServer, Disturbance, IInv
<1>3. EditorOK' /\ TimersOK'
  BY <1>1, <1>2 DEF IInv, EditorOK, TimersOK
<1>4. \A b \in Buffers : Good(scrollable'[b], drawn'[b]) /\ scrollable'[b].request = None
  <2> TAKE b \in Buffers
  <2>1. Good(scrollable[b], drawn[b])
    BY DEF IInv, RangesOK
  <2>2. Good(Cancelled(scrollable[b]), {}) /\ Cancelled(scrollable[b]).request = None
    BY <2>1, GoodWithoutMarks, CancelledIsGood
  <2> QED
    BY <1>1, <2>2
<1>5. RangesOK'
  <2>1. /\ scrollable' = [b \in Buffers |-> scrollable'[b]]
        /\ drawn' = [b \in Buffers |-> drawn'[b]]
    BY <1>1
  <2> QED
    BY <1>4, <2>1, AllBuffersChange
<1>6. RequestIsWatched'
  BY <1>4 DEF RequestIsWatched
<1> QED
  BY <1>3, <1>5, <1>6 DEF IInv

LEMMA RestartHolds ==
  ASSUME IInv, RestartServer
  PROVE  IInv'
<1>1. /\ scrollable' = [b \in Buffers |-> NewScrollingBufferRange]
      /\ drawn' = [b \in Buffers |-> IF kind = "inlay_hints" THEN drawn[b] ELSE {}]
      /\ missed' = [b \in Buffers |-> TRUE]
      /\ UNCHANGED <<kind, clearing, current, previousAllowed, view, tick, insert,
                     enabled, polled, scrolling>>
  BY DEF RestartServer, options, editor
<1>2. budget' \in [Disturbance -> Nat]
  BY SpendKeepsBudget DEF RestartServer, Disturbance, IInv
<1>3. EditorOK' /\ TimersOK'
  BY <1>1, <1>2 DEF IInv, EditorOK, TimersOK
<1>4. \A b \in Buffers : Good(scrollable'[b], drawn'[b]) /\ scrollable'[b].request = None
  <2> TAKE b \in Buffers
  <2>1. drawn'[b] \in SUBSET Marks /\ OneText(drawn'[b])
    BY <1>1 DEF IInv, RangesOK, Good, OneText
  <2>2. Good(NewScrollingBufferRange, drawn'[b])
    BY <2>1, NewIsGood
  <2> QED
    BY <1>1, <2>2 DEF NewScrollingBufferRange
<1>5. RangesOK'
  <2>1. /\ scrollable' = [b \in Buffers |-> scrollable'[b]]
        /\ drawn' = [b \in Buffers |-> drawn'[b]]
    BY <1>1
  <2> QED
    BY <1>4, <2>1, AllBuffersChange
<1>6. RequestIsWatched'
  BY <1>4 DEF RequestIsWatched
<1> QED
  BY <1>3, <1>5, <1>6 DEF IInv

LEMMA AnsweredIsGood ==
  ASSUME NEW s, NEW shown, Good(s, shown), s.request # None, NEW r \in Response
  PROVE  Good([s EXCEPT !.request = r], shown)
<1> DEFINE a == [s EXCEPT !.request = r]
<1>1. s \in ScrollingBufferRange
  BY DEF Good
<1>2. a \in ScrollingBufferRange
  BY <1>1 DEF ScrollingBufferRange
<1>3. /\ a.latest = s.latest /\ a.range = s.range /\ a.tick = s.tick
      /\ a.renderedTick = s.renderedTick /\ a.preserve = s.preserve
  BY <1>1 DEF ScrollingBufferRange
<1> HIDE DEF a
<1>4. Good(a, shown)
  BY <1>2, <1>3 DEF Good, RenderedText, AskedFor
<1> QED
  BY <1>4 DEF a

LEMMA AnswerHolds ==
  ASSUME IInv, NEW b \in Buffers, Answer(b)
  PROVE  IInv'
<1> DEFINE s == scrollable[b]
<1>1. Good(s, drawn[b]) /\ s.request # None
  BY NoneAssumption DEF Answer, IInv, RangesOK
<1>2. s.range \in Range /\ 1 \in 1..Lines /\ Lines \in 1..Lines
  BY <1>1, LinesAssumption DEF Good, AskedFor, Range
<1>3. \E r \in Response : scrollable' = [scrollable EXCEPT ![b].request = r]
  <2>1. CASE \E r \in {s.range, [start |-> 1, end |-> Lines]} :
               scrollable' = [scrollable EXCEPT ![b].request =
                 [start |-> r.start, end |-> r.end, failed |-> FALSE]]
    <3>1. PICK r \in {s.range, [start |-> 1, end |-> Lines]} :
            scrollable' = [scrollable EXCEPT ![b].request =
              [start |-> r.start, end |-> r.end, failed |-> FALSE]]
      BY <2>1
    <3>2. r.start \in 1..Lines /\ r.end \in 1..Lines
      BY <1>2 DEF Range
    <3>3. [start |-> r.start, end |-> r.end, failed |-> FALSE] \in Response
      BY <3>2 DEF Response
    <3> QED
      BY <3>1, <3>3
  <2>2. CASE scrollable' = [scrollable EXCEPT ![b].request =
               [start |-> 1, end |-> 1, failed |-> TRUE]]
    <3>1. [start |-> 1, end |-> 1, failed |-> TRUE] \in Response
      BY <1>2 DEF Response
    <3> QED
      BY <2>2, <3>1
  <2> QED
    BY <2>1, <2>2 DEF Answer
<1>4. PICK r \in Response : scrollable' = [scrollable EXCEPT ![b].request = r]
  BY <1>3
<1> DEFINE a == [s EXCEPT !.request = r]
<1>5. scrollable' = [scrollable EXCEPT ![b] = a]
  BY <1>4 DEF IInv, RangesOK
<1>6. Good(a, drawn[b])
  BY <1>1, AnsweredIsGood
<1> HIDE DEF a
<1>7. /\ UNCHANGED <<kind, clearing, current, previousAllowed, view, tick, insert,
                     enabled, drawn, polled, scrolling, missed>>
  BY DEF Answer, options, editor
<1>8. budget' \in [Disturbance -> Nat]
  <2>1. budget' = budget \/ Spend("fail")
    BY DEF Answer
  <2> QED
    BY <2>1, SpendKeepsBudget DEF Disturbance, IInv, EditorOK
<1>9. EditorOK' /\ TimersOK'
  BY <1>7, <1>8 DEF IInv, EditorOK, TimersOK
<1>10. RangesOK'
  <2>1. drawn' = [drawn EXCEPT ![b] = drawn[b]]
    BY <1>7 DEF IInv, RangesOK
  <2> QED
    BY <1>5, <1>6, <2>1, OneBufferChanges DEF IInv
<1>11. RequestIsWatched'
  BY <1>1, <1>5, <1>7 DEF IInv, RequestIsWatched, RangesOK
<1> QED
  BY <1>9, <1>10, <1>11 DEF IInv

-----------------------------------------------------------------------------
LEMMA StepHolds == IInv /\ [Next]_vars => IInv'
<1> SUFFICES ASSUME IInv, [Next]_vars
             PROVE  IInv'
  OBVIOUS
<1>1. ASSUME NEW b \in Buffers, NEW v \in Views, OnWinScrolled(b, v)
      PROVE  IInv'
  BY <1>1, ScrolledHolds
<1>2. CASE RequestAfterScrolling
  BY <1>2, AfterScrollingHolds
<1>3. CASE PollScrollable
  BY <1>3, PollHolds
<1>4. CASE OnTextChangedNormalMode
  BY <1>4, NormalChangeHolds
<1>5. CASE OnTextChangedInsertMode
  BY <1>5, InsertChangeHolds
<1>6. CASE OnFileReadyToParse
  BY <1>6, ReadyToParseHolds
<1>7. CASE OnInsertEnter
  BY <1>7, InsertEnterHolds
<1>8. CASE OnInsertLeave
  BY <1>8, InsertLeaveHolds
<1>9. ASSUME NEW b \in Buffers, NEW v \in Views, NEW hide \in BOOLEAN,
             OnBufferEnter(b, v, hide)
      PROVE  IInv'
  BY <1>9, BufferEnterHolds
<1>10. ASSUME NEW hide \in BOOLEAN, EnterIgnored(hide)
       PROVE  IInv'
  BY <1>10, EnterIgnoredHolds
<1>11. ASSUME NEW b \in Buffers, OnBufferUnload(b)
       PROVE  IInv'
  BY <1>11, UnloadHolds
<1>12. CASE ToggleInlayHints
  BY <1>12, ToggleHolds
<1>13. CASE DisableLanguageServer
  BY <1>13, DisableHolds
<1>14. CASE RestartServer
  BY <1>14, RestartHolds
<1>15. ASSUME NEW b \in Buffers, Answer(b)
       PROVE  IInv'
  BY <1>15, AnswerHolds
<1>16. CASE UNCHANGED vars
  <2>1. UNCHANGED <<kind, clearing, current, previousAllowed, view, tick, insert, enabled,
                    scrollable, drawn, polled, scrolling, missed, budget>>
    BY <1>16 DEF vars, options, editor
  <2>2. EditorOK'
    BY <2>1 DEF IInv, EditorOK
  <2> QED
    BY <2>1, <2>2, NothingAsked
<1> QED
  BY <1>1, <1>2, <1>3, <1>4, <1>5, <1>6, <1>7, <1>8, <1>9, <1>10, <1>11, <1>12, <1>13,
     <1>14, <1>15, <1>16 DEF Next

LEMMA Invariance == Spec => []IInv
BY InitHolds, StepHolds, PTL DEF Spec

-----------------------------------------------------------------------------
(* Editor, ranges, pollers and marks keep their types, whatever the number *)
(* of buffers, lines and disturbances.                                     *)
THEOREM TypeCorrect == Spec => []TypeOK
<1>1. IInv => TypeOK
  BY DEF IInv, EditorOK, RangesOK, TimersOK, Marks, TypeOK
<1> QED
  BY <1>1, Invariance, PTL

(* scrolling_range.py and the renderers: what a buffer shows was computed  *)
(* from one text, however answers, edits, scrolling, redrawing, restarts   *)
(* and unloading interleave.                                               *)
THEOREM MarksAreOfOneText == Spec => []OneTextAtATime
<1>1. IInv => OneTextAtATime
  BY DEF IInv, RangesOK, Good, OneText, OneTextAtATime
<1> QED
  BY <1>1, Invariance, PTL

(* s:PollScrollable and the debounce timer: no request that is wanted is   *)
(* ever left without a timer that will look at it.                         *)
THEOREM NoRequestIsForgotten == Spec => []RequestIsWatched
<1>1. IInv => RequestIsWatched
  BY DEF IInv
<1> QED
  BY <1>1, Invariance, PTL

-----------------------------------------------------------------------------
(* Skipping.  What Request() goes by when it does nothing is the remembered*)
(* tick and range; they promise that the lines of the range are drawn once *)
(* the answer is there, because an answer covers the lines asked for, the  *)
(* range grows only to what an answer covers, no tick is ahead of the text,*)
(* and whatever takes marks away or leaves a range without an answer makes *)
(* the next request one that is sent.                                      *)
Complete(s) ==
  /\ Ready(s) /\ ~s.request.failed => Within(s.range, s.request)
  /\ s.latest # None /\ ~s.latest.failed => Within(s.range, s.latest)

Answered(s, miss) == ~miss /\ s.request = None /\ s.range # None => s.latest # None

OnScreen(s, shown, now) ==
  s.tick = now /\ s.request = None /\ s.latest # None /\ ~s.latest.failed =>
    \A l \in s.range.start .. s.range.end : <<now, l>> \in shown

Fit(s, shown, now, miss, wanted) ==
  /\ Complete(s) /\ Answered(s, miss) /\ s.tick <= now
  /\ wanted /\ ~miss => OnScreen(s, shown, now)

Wanted(b) == enabled[b] /\ ~OutOfTheWay(b)

AllFit == \A b \in Buffers : Fit(scrollable[b], drawn[b], tick[b], missed[b], Wanted(b))

(* A request that is sent, or cancelled where nothing is visible.          *)
LEMMA RequestFits ==
  ASSUME NEW s, NEW x, Good(s, x), Complete(s), NEW now \in 1..MaxTick, s.tick <= now,
         NEW v, NEW force \in BOOLEAN, ~Skipped(s, v, now, force)
  PROVE  /\ Complete(Request(s, v, now, force))
         /\ \A shown, wanted : Fit(Request(s, v, now, force), shown, now, v = None, wanted)
<1>0. s \in ScrollingBufferRange
  BY DEF Good
<1>1. CASE v = None
  <2>1. Request(s, v, now, force) = [s EXCEPT !.request = None]
    BY <1>1 DEF Request, Cancelled
  <2> DEFINE n == [s EXCEPT !.request = None]
  <2>2. n.request = None /\ n.latest = s.latest /\ n.range = s.range /\ n.tick = s.tick
    BY <1>0 DEF ScrollingBufferRange
  <2> HIDE DEF n
  <2>3. Complete(n)
    BY <2>2 DEF Complete, Ready
  <2> QED
    BY <1>1, <2>1, <2>2, <2>3 DEF Fit, Answered, n
<1>2. CASE v # None
  <2> DEFINE n == Sent(s, v, now, force)
  <2>1. Request(s, v, now, force) = n
    BY <1>2 DEF Request
  <2>2. n.request = Pending /\ n.latest = None /\ n.tick = now
    BY DEF Sent
  <2> HIDE DEF n
  <2>3. Complete(n) /\ \A miss : Answered(n, miss)
    BY <2>2, NoneAssumption DEF Complete, Ready, Answered
  <2> QED
    BY <2>1, <2>2, <2>3, NoneAssumption DEF Fit, OnScreen
<1> QED
  BY <1>1, <1>2

(* Drawing an answer shows all that is then known of the buffer.           *)
LEMMA DrawnFits ==
  ASSUME NEW s, NEW x, Good(s, x), Complete(s), s.latest # None, s.request = None,
         NEW now \in 1..MaxTick, s.tick = now
  PROVE  \A shown, miss, wanted : Fit(Drawn(s), Painted(s, shown), now, miss, wanted)
<1>0. /\ s \in ScrollingBufferRange /\ s.latest \in Response
      /\ s.range \in Range
  BY DEF Good, AskedFor, ScrollingBufferRange
<1> DEFINE d == Drawn(s)
<1>1. /\ d.request = None /\ d.latest = s.latest /\ d.range = Known(s) /\ d.tick = now
  BY <1>0 DEF Drawn, ScrollingBufferRange
<1> HIDE DEF d
<1>2. CASE s.latest.failed
  BY <1>1, <1>2 DEF Fit, Complete, Ready, Answered, OnScreen, d
<1>3. CASE ~s.latest.failed
  <2>1. /\ s.range.start \in Nat /\ s.range.end \in Nat
        /\ s.latest.start \in 1..Lines /\ s.latest.end \in 1..Lines
        /\ s.latest.start <= s.range.start /\ s.range.end <= s.latest.end
    BY <1>0, <1>3 DEF Complete, Within, Range, Response
  <2>2. Known(s) = [start |-> Smaller(s.range.start, s.latest.start),
                    end |-> Larger(s.range.end, s.latest.end)]
    BY <1>3 DEF Known
  <2>3. Known(s).start = s.latest.start /\ Known(s).end = s.latest.end
    BY <2>1, <2>2 DEF Smaller, Larger
  <2>4. Within(Known(s), s.latest)
    BY <2>1, <2>3 DEF Within
  <2>5. \A shown : \A l \in Known(s).start .. Known(s).end : <<now, l>> \in Painted(s, shown)
    <3> TAKE shown
    <3> TAKE l \in Known(s).start .. Known(s).end
    <3>1. l \in Covered(s.latest)
      BY <2>1, <2>3, LinesAssumption DEF Covered
    <3> QED
      BY <1>3, <3>1 DEF Painted
  <2> QED
    BY <1>1, <2>4, <2>5 DEF Fit, Complete, Ready, Answered, OnScreen, d
<1> QED
  BY <1>2, <1>3

LEMMA TakenComplete ==
  ASSUME NEW s, NEW x, Good(s, x), Complete(s), Ready(s)
  PROVE  Complete(Taken(s)) /\ Taken(s).tick = s.tick
<1>1. s \in ScrollingBufferRange
  BY DEF Good
<1> DEFINE n == Taken(s)
<1>2. n.request = None /\ n.latest = s.request /\ n.range = s.range /\ n.tick = s.tick
  BY <1>1 DEF Taken, ScrollingBufferRange
<1> HIDE DEF n
<1>3. Complete(n)
  BY <1>2 DEF Complete, Ready
<1> QED
  BY <1>2, <1>3 DEF n

(* Drawing the last answer once more.                                      *)
LEMMA RefreshedFits ==
  ASSUME NEW s, NEW x, Good(s, x), Complete(s), NEW now \in 1..MaxTick, Refreshes(s, now)
  PROVE  \A shown, miss, wanted :
           Fit(Drawn(Refreshing(s)), Painted(Refreshing(s), shown), now, miss, wanted)
<1>1. s \in ScrollingBufferRange
  BY DEF Good
<1> DEFINE n == Refreshing(s)
<1>2. n.request = s.request /\ n.latest = s.latest /\ n.range = s.range /\ n.tick = s.tick
  BY <1>1 DEF Refreshing, ScrollingBufferRange
<1>3. Good(n, x)
  BY RefreshingIsGood
<1> HIDE DEF n
<1>4. Complete(n)
  BY <1>2 DEF Complete, Ready
<1>5. n.latest # None /\ n.request = None /\ n.tick = now
  BY <1>2 DEF Refreshes
<1>6. \A shown, miss, wanted : Fit(Drawn(n), Painted(n, shown), now, miss, wanted)
  BY <1>3, <1>4, <1>5, DrawnFits
<1> QED
  BY <1>6 DEF n

-----------------------------------------------------------------------------
OthersKept(b) ==
  \A c \in Buffers \ {b} :
    scrollable'[c] = scrollable[c] /\ drawn'[c] = drawn[c] /\ missed'[c] = missed[c]

(* Asking for the present text, or again for what is remembered.           *)
LEMMA AskFits ==
  ASSUME IInv, AllFit, NEW b \in Buffers, NEW v \in Views \union {None},
         NEW now \in 1..MaxTick, tick[b] <= now,
         NEW force \in BOOLEAN, NEW redraw \in BOOLEAN, force \/ (redraw /\ now = tick[b]),
         Ask(b, v, now, force, redraw)
  PROVE  /\ OthersKept(b)
         /\ \A wanted : Fit(scrollable'[b], drawn'[b], now, missed'[b], wanted)
<1> DEFINE s == scrollable[b]
           asked == Request(s, v, now, force)
           polling == ToBePolled(s, v, now, force)
           again == redraw /\ ~polling /\ Refreshes(asked, now)
<1>0. /\ scrollable \in [Buffers -> ScrollingBufferRange] /\ DOMAIN drawn = Buffers
      /\ DOMAIN missed = Buffers
      /\ Good(s, drawn[b]) /\ Complete(s) /\ Answered(s, missed[b]) /\ s.tick <= tick[b]
      /\ s.tick \in Nat /\ tick[b] \in Nat
  BY DEF IInv, RangesOK, EditorOK, AllFit, Fit, ScrollingBufferRange
<1>1. /\ scrollable' = [scrollable EXCEPT
           ![b] = IF again THEN Drawn(Refreshing(asked)) ELSE asked]
      /\ drawn' = IF again
                  THEN [drawn EXCEPT ![b] = Painted(Refreshing(asked), drawn[b])]
                  ELSE drawn
      /\ missed' = IF Skipped(s, v, now, force) THEN missed
                   ELSE [missed EXCEPT ![b] = v = None]
  BY DEF Ask
<1>2. Good(asked, drawn[b])
  BY <1>0, RequestIsGood
<1>3. Skipped(s, v, now, force) => asked = s
  BY DEF Request
<1>4. ~Skipped(s, v, now, force) =>
        /\ Complete(asked)
        /\ \A shown, wanted : Fit(asked, shown, now, v = None, wanted)
  <2>1. s.tick <= now
    BY <1>0
  <2> QED
    BY <1>0, <2>1, RequestFits
<1>5. Complete(asked)
  BY <1>0, <1>3, <1>4
<1>6. polling <=> v # None /\ asked.request # None
  BY DEF ToBePolled
<1>7. Skipped(s, v, now, force) => ~force /\ s.tick = now /\ v # None
  BY DEF Skipped, VisibleRangeOverlaps
<1> HIDE DEF asked, polling, s
<1>8. CASE again
  <2>1. \A shown, miss, wanted :
          Fit(Drawn(Refreshing(asked)), Painted(Refreshing(asked), shown), now, miss, wanted)
    BY <1>2, <1>5, <1>8, RefreshedFits
  <2>2. /\ scrollable'[b] = Drawn(Refreshing(asked))
        /\ drawn'[b] = Painted(Refreshing(asked), drawn[b]) /\ OthersKept(b)
    BY <1>0, <1>1, <1>8 DEF OthersKept
  <2> QED
    BY <2>1, <2>2
<1>9. CASE ~again /\ ~Skipped(s, v, now, force)
  <2>1. /\ scrollable'[b] = asked /\ missed'[b] = (v = None) /\ OthersKept(b)
    BY <1>0, <1>1, <1>9 DEF OthersKept
  <2>2. \A shown, wanted : Fit(asked, shown, now, v = None, wanted)
    BY <1>4, <1>9
  <2> QED
    BY <2>1, <2>2
<1>10. CASE ~again /\ Skipped(s, v, now, force)
  <2>1. scrollable'[b] = s /\ missed'[b] = missed[b] /\ OthersKept(b) /\ redraw
    BY <1>0, <1>1, <1>3, <1>7, <1>10 DEF OthersKept, s
  <2>2. s.tick = now /\ v # None /\ asked = s
    BY <1>3, <1>7, <1>10
  <2>3. s.request # None \/ s.latest = None
    BY <1>6, <1>10, <2>1, <2>2 DEF Refreshes
  <2> QED
    BY <1>0, <2>1, <2>2, <2>3 DEF Fit, OnScreen
<1> QED
  BY <1>8, <1>9, <1>10

(* Update where nothing is wanted of a disabled scrollable.                *)
LEMMA UpdateFits ==
  ASSUME IInv, AllFit, NEW b \in Buffers, NEW v \in Views \union {None},
         NEW now \in 1..MaxTick, tick[b] <= now, Update(b, v, now, TRUE)
  PROVE  /\ OthersKept(b)
         /\ Fit(scrollable'[b], drawn'[b], now, missed'[b], enabled[b])
<1>1. CASE enabled[b]
  <2>1. Ask(b, v, now, TRUE, FALSE)
    BY <1>1 DEF Update
  <2>2. TRUE \in BOOLEAN /\ FALSE \in BOOLEAN
    OBVIOUS
  <2> QED
    BY <2>1, <2>2, AskFits
<1>2. CASE ~enabled[b]
  <2>1. UNCHANGED <<scrollable, drawn, missed>>
    BY <1>2 DEF Update
  <2>2. /\ Complete(scrollable[b]) /\ Answered(scrollable[b], missed[b])
        /\ scrollable[b].tick <= now
    BY DEF AllFit, Fit, IInv, EditorOK, RangesOK, ScrollingBufferRange
  <2> QED
    BY <1>2, <2>1, <2>2 DEF Fit, OthersKept
<1> QED
  BY <1>1, <1>2

(* A step that concerns one buffer.                                        *)
LEMMA OneFits ==
  ASSUME AllFit, NEW b \in Buffers, OthersKept(b),
         \A c \in Buffers \ {b} : tick'[c] = tick[c] /\ (Wanted(c)' => Wanted(c)),
         Fit(scrollable'[b], drawn'[b], tick'[b], missed'[b], Wanted(b)')
  PROVE  AllFit'
<1> SUFFICES ASSUME NEW c \in Buffers
             PROVE  Fit(scrollable'[c], drawn'[c], tick'[c], missed'[c], Wanted(c)')
  BY DEF AllFit
<1>1. CASE c = b
  BY <1>1
<1>2. CASE c # b
  BY <1>2 DEF AllFit, Fit, OthersKept
<1> QED
  BY <1>1, <1>2

(* A step that asks for nothing, draws nothing and changes no text.        *)
LEMMA StillFits ==
  ASSUME AllFit, UNCHANGED <<tick, scrollable, drawn>>,
         \A b \in Buffers : /\ missed[b] => missed'[b]
                            /\ Wanted(b)' => Wanted(b)
  PROVE  AllFit'
<1> SUFFICES ASSUME NEW b \in Buffers
             PROVE  Fit(scrollable[b], drawn[b], tick[b], missed'[b], Wanted(b)')
  BY DEF AllFit
<1> QED
  BY DEF AllFit, Fit, Answered

-----------------------------------------------------------------------------
LEMMA InitFits == Init => AllFit
<1> SUFFICES ASSUME Init, NEW b \in Buffers
             PROVE  Fit(scrollable[b], drawn[b], tick[b], missed[b], Wanted(b))
  BY DEF AllFit
<1>1. scrollable[b] = NewScrollingBufferRange /\ tick[b] = 1
  BY DEF Init
<1> QED
  BY <1>1 DEF NewScrollingBufferRange, NoTick, Fit, Complete, Ready, Answered, OnScreen

LEMMA AfterScrollingFits ==
  ASSUME IInv, AllFit, RequestAfterScrolling
  PROVE  AllFit'
<1> SUFFICES ASSUME NEW b \in Buffers
             PROVE  Fit(scrollable'[b], drawn'[b], tick'[b], missed'[b], Wanted(b)')
  BY DEF AllFit
<1> DEFINE Moved == b \in scrolling /\ enabled[b]
           s == scrollable[b]
           skipped == Skipped(s, view[b], tick[b], FALSE)
           asked == Request(s, view[b], tick[b], FALSE)
<1>1. /\ scrollable'[b] = IF Moved THEN asked ELSE s
      /\ missed'[b] = IF Moved /\ ~skipped THEN view[b] = None ELSE missed[b]
      /\ UNCHANGED <<kind, clearing, current, tick, insert, enabled, drawn>>
  BY DEF RequestAfterScrolling, options
<1>2. Wanted(b)' = Wanted(b)
  BY <1>1 DEF Wanted, OutOfTheWay
<1>3. /\ Good(s, drawn[b]) /\ tick[b] \in 1..MaxTick
      /\ Fit(s, drawn[b], tick[b], missed[b], Wanted(b))
  BY DEF IInv, RangesOK, EditorOK, AllFit
<1>4. CASE Moved /\ ~skipped
  <2>1. FALSE \in BOOLEAN /\ s.tick <= tick[b] /\ Complete(s)
    BY <1>3 DEF Fit
  <2>2. \A shown, wanted : Fit(asked, shown, tick[b], view[b] = None, wanted)
    BY <1>3, <1>4, <2>1, RequestFits
  <2> HIDE DEF asked, s, skipped
  <2> QED
    BY <1>1, <1>4, <2>2
<1>5. CASE ~(Moved /\ ~skipped)
  <2>1. scrollable'[b] = s /\ missed'[b] = missed[b]
    BY <1>1, <1>5 DEF Request
  <2> QED
    BY <1>1, <1>2, <1>3, <2>1
<1> QED
  BY <1>4, <1>5

LEMMA PollFits ==
  ASSUME IInv, AllFit, PollScrollable
  PROVE  AllFit'
<1> SUFFICES ASSUME NEW b \in Buffers
             PROVE  Fit(scrollable'[b], drawn'[b], tick'[b], missed'[b], Wanted(b)')
  BY DEF AllFit
<1> DEFINE done == b \in polled /\ Ready(scrollable[b])
           s == scrollable[b]
           n == Taken(s)
<1>1. /\ scrollable'[b] = IF done THEN Updated(b) ELSE s
      /\ drawn'[b] = IF done THEN PaintedByUpdate(b) ELSE drawn[b]
      /\ missed'[b] = IF done /\ Stale(b) THEN view[b] = None ELSE missed[b]
      /\ UNCHANGED <<kind, clearing, current, tick, insert, enabled>>
  BY DEF PollScrollable, options, editor
<1>2. Wanted(b)' = Wanted(b)
  BY <1>1 DEF Wanted, OutOfTheWay
<1>3. /\ Good(s, drawn[b]) /\ tick[b] \in 1..MaxTick
      /\ Fit(s, drawn[b], tick[b], missed[b], Wanted(b))
  BY DEF IInv, RangesOK, EditorOK, AllFit
<1>4. CASE ~done
  BY <1>1, <1>2, <1>3, <1>4
<1>5. CASE done
  <2>1. s.tick <= tick[b] /\ Complete(s)
    BY <1>3 DEF Fit
  <2>2. /\ Good(n, drawn[b]) /\ n.latest # None /\ n.request = None
        /\ Complete(n) /\ n.tick = s.tick
    BY <1>3, <1>5, <2>1, TakenIsGood, TakenComplete
  <2>3. CASE Stale(b)
    <3> DEFINE asked == Request(n, view[b], tick[b], TRUE)
    <3>1. ~Skipped(n, view[b], tick[b], TRUE) /\ TRUE \in BOOLEAN
      BY DEF Skipped
    <3>2. \A shown, wanted : Fit(asked, shown, tick[b], view[b] = None, wanted)
      BY <1>3, <2>1, <2>2, <3>1, RequestFits
    <3>3. scrollable'[b] = asked /\ missed'[b] = (view[b] = None)
      BY <1>1, <1>5, <2>3 DEF Updated
    <3> HIDE DEF asked
    <3> QED
      BY <1>1, <3>2, <3>3
  <2>4. CASE ~Stale(b)
    <3>1. n.tick = tick[b]
      BY <2>2, <2>4 DEF Stale
    <3>2. scrollable'[b] = Drawn(n) /\ drawn'[b] = Painted(n, drawn[b])
      BY <1>1, <1>5, <2>4 DEF Updated, PaintedByUpdate
    <3> HIDE DEF n
    <3>3. \A shown, miss, wanted : Fit(Drawn(n), Painted(n, shown), tick[b], miss, wanted)
      BY <1>3, <2>2, <3>1, DrawnFits
    <3> QED
      BY <1>1, <3>2, <3>3
  <2> QED
    BY <2>3, <2>4
<1> QED
  BY <1>4, <1>5

LEMMA InsertLeaveFits ==
  ASSUME IInv, AllFit, OnInsertLeave
  PROVE  AllFit'
<1> DEFINE s == scrollable[current]
<1>1. /\ insert /\ ~insert' /\ UNCHANGED <<kind, clearing, current, view, tick, enabled>>
      /\ \/ s.tick # tick[current] /\ Update(current, view[current], tick[current], TRUE)
         \/ /\ s.tick = tick[current] /\ Clears /\ Refreshes(s, tick[current])
            /\ scrollable' = [scrollable EXCEPT ![current] = Drawn(Refreshing(s))]
            /\ drawn' = [drawn EXCEPT ![current] = Painted(Refreshing(s), {})]
            /\ UNCHANGED missed
         \/ /\ s.tick = tick[current] /\ ~(Clears /\ Refreshes(s, tick[current]))
            /\ UNCHANGED <<scrollable, drawn, missed>>
  BY DEF OnInsertLeave, options
<1>2. /\ current \in Buffers /\ tick[current] \in 1..MaxTick
      /\ view[current] \in Views \union {None}
      /\ Good(s, drawn[current])
      /\ Fit(s, drawn[current], tick[current], missed[current], Wanted(current))
      /\ scrollable \in [Buffers -> ScrollingBufferRange] /\ DOMAIN drawn = Buffers
  BY <1>1, CurrentIsABuffer DEF IInv, EditorOK, RangesOK, AllFit
<1>3. \A c \in Buffers \ {current} : Wanted(c)' => Wanted(c)
  BY <1>1 DEF Wanted, OutOfTheWay
<1>4. Wanted(current)' <=> enabled[current]
  BY <1>1 DEF Wanted, OutOfTheWay
<1>5. CASE s.tick # tick[current] /\ Update(current, view[current], tick[current], TRUE)
  <2>1. /\ OthersKept(current)
        /\ Fit(scrollable'[current], drawn'[current], tick[current], missed'[current],
               enabled[current])
    <3>1. tick[current] <= tick[current]
      BY <1>2, LinesAssumption
    <3> QED
      BY <1>2, <1>5, <3>1, UpdateFits
  <2>2. Fit(scrollable'[current], drawn'[current], tick'[current], missed'[current],
            Wanted(current)')
    BY <1>1, <1>4, <2>1 DEF Fit
  <2> QED
    BY <1>1, <1>2, <1>3, <2>1, <2>2, OneFits
<1>6. CASE /\ Refreshes(s, tick[current])
           /\ scrollable' = [scrollable EXCEPT ![current] = Drawn(Refreshing(s))]
           /\ drawn' = [drawn EXCEPT ![current] = Painted(Refreshing(s), {})]
           /\ UNCHANGED missed
  <2> DEFINE n == Refreshing(s)
  <2>1. Complete(s)
    BY <1>2 DEF Fit
  <2>2. \A shown, miss, wanted : Fit(Drawn(n), Painted(n, shown), tick[current], miss, wanted)
    BY <1>2, <1>6, <2>1, RefreshedFits
  <2>3. /\ scrollable'[current] = Drawn(n) /\ drawn'[current] = Painted(n, {})
        /\ OthersKept(current)
    BY <1>2, <1>6 DEF OthersKept
  <2> HIDE DEF n
  <2>4. Fit(scrollable'[current], drawn'[current], tick'[current], missed'[current],
            Wanted(current)')
    BY <1>1, <2>2, <2>3
  <2> QED
    BY <1>1, <1>2, <1>3, <2>3, <2>4, OneFits
<1>7. CASE /\ s.tick = tick[current] /\ ~(Clears /\ Refreshes(s, tick[current]))
           /\ UNCHANGED <<scrollable, drawn, missed>>
  <2>1. OthersKept(current)
    BY <1>7 DEF OthersKept
  <2>2. CASE Wanted(current) \/ ~enabled[current]
    <3>1. Fit(s, drawn[current], tick[current], missed[current], Wanted(current)')
      BY <1>2, <1>4, <2>2 DEF Fit, Wanted
    <3> QED
      BY <1>1, <1>2, <1>3, <1>7, <2>1, <3>1, OneFits
  <2>3. CASE ~Wanted(current) /\ enabled[current]
    <3>1. Clears
      BY <2>3 DEF Wanted, OutOfTheWay, Clears
    <3>2. s.request # None \/ s.latest = None
      BY <1>7, <3>1 DEF Refreshes
    <3>3. Fit(s, drawn[current], tick[current], missed[current], Wanted(current)')
      BY <1>2, <3>2 DEF Fit, OnScreen
    <3> QED
      BY <1>1, <1>2, <1>3, <1>7, <2>1, <3>3, OneFits
  <2> QED
    BY <2>2, <2>3
<1> QED
  BY <1>1, <1>5, <1>6, <1>7

LEMMA ToggleFits ==
  ASSUME IInv, AllFit, ToggleInlayHints
  PROVE  AllFit'
<1>1. /\ current # None /\ ~insert
      /\ enabled' = [enabled EXCEPT ![current] = ~enabled[current]]
      /\ UNCHANGED <<kind, clearing, current, view, tick, insert>>
  BY DEF ToggleInlayHints, options, editor
<1>2. /\ current \in Buffers /\ tick[current] \in 1..MaxTick
      /\ view[current] \in Views \union {None}
      /\ enabled \in [Buffers -> BOOLEAN] /\ DOMAIN drawn = Buffers
      /\ Fit(scrollable[current], drawn[current], tick[current], missed[current],
             Wanted(current))
  BY <1>1, CurrentIsABuffer DEF IInv, EditorOK, RangesOK, AllFit
<1>3. \A c \in Buffers \ {current} : Wanted(c)' => Wanted(c)
  BY <1>1, <1>2 DEF Wanted, OutOfTheWay
<1>4. CASE enabled[current]
  <2>1. ~Wanted(current)'
    BY <1>1, <1>2, <1>4 DEF Wanted
  <2>2. /\ drawn' = [drawn EXCEPT ![current] = {}] /\ UNCHANGED <<scrollable, missed>>
    BY <1>4 DEF ToggleInlayHints
  <2>3. OthersKept(current)
    BY <1>2, <2>2 DEF OthersKept
  <2>4. Fit(scrollable'[current], drawn'[current], tick'[current], missed'[current],
            Wanted(current)')
    BY <1>1, <1>2, <2>1, <2>2 DEF Fit
  <2> QED
    BY <1>1, <1>2, <1>3, <2>3, <2>4, OneFits
<1>5. CASE ~enabled[current]
  <2>1. Ask(current, view[current], tick[current], FALSE, TRUE)
    BY <1>5 DEF ToggleInlayHints
  <2>2. TRUE \in BOOLEAN /\ FALSE \in BOOLEAN
    OBVIOUS
  <2>3. /\ OthersKept(current)
        /\ \A wanted : Fit(scrollable'[current], drawn'[current], tick[current],
                           missed'[current], wanted)
    <3>1. tick[current] <= tick[current]
      BY <1>2, LinesAssumption
    <3> QED
      BY <1>2, <2>1, <2>2, <3>1, AskFits
  <2> QED
    BY <1>1, <1>2, <1>3, <2>3, OneFits
<1> QED
  BY <1>4, <1>5

LEMMA BufferEnterFits ==
  ASSUME IInv, AllFit, NEW b \in Buffers, NEW v \in Views, NEW hide \in BOOLEAN,
         OnBufferEnter(b, v, hide)
  PROVE  AllFit'
<1>1. /\ ~insert /\ UNCHANGED <<kind, clearing, tick, insert, enabled>>
      /\ view' = ShowsInstead(b, v, hide)
      /\ \/ Update(b, view'[b], tick[b], TRUE)
         \/ /\ missed' = [missed EXCEPT ![b] = missed[b] \/ view[b] = None]
            /\ UNCHANGED <<scrollable, drawn, polled>>
  BY DEF OnBufferEnter, options
<1>2. \A c \in Buffers : Wanted(c)' = Wanted(c) /\ (Wanted(c) <=> enabled[c])
  BY <1>1 DEF Wanted, OutOfTheWay
<1>3. /\ view'[b] \in Views \union {None} /\ tick[b] \in 1..MaxTick
  BY <1>1 DEF ShowsInstead, IInv, EditorOK
<1>4. CASE Update(b, view'[b], tick[b], TRUE)
  <2>1. PICK shows \in Views \union {None} : Update(b, shows, tick[b], TRUE)
    BY <1>3, <1>4
  <2>2. OthersKept(b) /\ Fit(scrollable'[b], drawn'[b], tick[b], missed'[b], enabled[b])
    <3>1. tick[b] <= tick[b]
      BY <1>3, LinesAssumption
    <3> QED
      BY <1>3, <2>1, <3>1, UpdateFits
  <2>3. Fit(scrollable'[b], drawn'[b], tick'[b], missed'[b], Wanted(b)')
    BY <1>1, <1>2, <2>2 DEF Fit
  <2> QED
    BY <1>1, <1>2, <2>2, <2>3, OneFits
<1>5. CASE /\ missed' = [missed EXCEPT ![b] = missed[b] \/ view[b] = None]
           /\ UNCHANGED <<scrollable, drawn, polled>>
  <2>1. \A c \in Buffers : missed[c] => missed'[c]
    BY <1>5 DEF IInv, EditorOK
  <2> QED
    BY <1>1, <1>2, <1>5, <2>1, StillFits
<1> QED
  BY <1>1, <1>4, <1>5

LEMMA AnswerFits ==
  ASSUME IInv, AllFit, NEW b \in Buffers, Answer(b)
  PROVE  AllFit'
<1> DEFINE s == scrollable[b]
<1>1. /\ s.request = Pending /\ UNCHANGED <<kind, clearing, current, tick, insert, enabled, drawn, missed>>
      /\ \/ \E r \in {s.range, [start |-> 1, end |-> Lines]} :
              scrollable' = [scrollable EXCEPT ![b].request =
                [start |-> r.start, end |-> r.end, failed |-> FALSE]]
         \/ scrollable' = [scrollable EXCEPT ![b].request =
              [start |-> 1, end |-> 1, failed |-> TRUE]]
  BY DEF Answer, options, editor
<1>2. /\ scrollable \in [Buffers -> ScrollingBufferRange] /\ s \in ScrollingBufferRange
      /\ Good(s, drawn[b]) /\ Fit(s, drawn[b], tick[b], missed[b], Wanted(b))
  BY DEF IInv, RangesOK, AllFit
<1>3. s.range \in Range
  BY <1>1, <1>2, NoneAssumption DEF Good, AskedFor
<1>4. PICK response \in Response :
        /\ scrollable' = [scrollable EXCEPT ![b].request = response]
        /\ ~response.failed => Within(s.range, response)
  <2>1. CASE \E r \in {s.range, [start |-> 1, end |-> Lines]} :
               scrollable' = [scrollable EXCEPT ![b].request =
                 [start |-> r.start, end |-> r.end, failed |-> FALSE]]
    <3>1. PICK r \in {s.range, [start |-> 1, end |-> Lines]} :
            scrollable' = [scrollable EXCEPT ![b].request =
              [start |-> r.start, end |-> r.end, failed |-> FALSE]]
      BY <2>1
    <3> DEFINE response == [start |-> r.start, end |-> r.end, failed |-> FALSE]
    <3>2. s.range.start \in 1..Lines /\ s.range.end \in 1..Lines
      BY <1>3 DEF Range
    <3>3. r.start \in 1..Lines /\ r.end \in 1..Lines
      BY <3>2, LinesAssumption
    <3>4. r.start <= s.range.start /\ s.range.end <= r.end
      BY <3>2, LinesAssumption
    <3>5. response \in Response /\ Within(s.range, response)
      BY <3>3, <3>4 DEF Response, Within
    <3> QED
      BY <3>1, <3>5
  <2>2. CASE scrollable' = [scrollable EXCEPT ![b].request =
               [start |-> 1, end |-> 1, failed |-> TRUE]]
    <3>1. 1 \in 1..Lines
      BY <1>3, LinesAssumption DEF Range
    <3>2. [start |-> 1, end |-> 1, failed |-> TRUE] \in Response
      BY <3>1 DEF Response
    <3> QED
      BY <2>2, <3>2
  <2> QED
    BY <1>1, <2>1, <2>2
<1> DEFINE n == scrollable'[b]
<1>5. /\ n.request = response /\ n.latest = s.latest /\ n.range = s.range /\ n.tick = s.tick
      /\ OthersKept(b)
  BY <1>1, <1>2, <1>4 DEF ScrollingBufferRange, OthersKept
<1>6. response # None
  BY NoneAssumption
<1> HIDE DEF n
<1>7. Fit(n, drawn[b], tick[b], missed[b], Wanted(b)')
  BY <1>2, <1>4, <1>5, <1>6 DEF Fit, Complete, Ready, Answered, OnScreen
<1>8. \A c \in Buffers : Wanted(c)' = Wanted(c)
  BY <1>1 DEF Wanted, OutOfTheWay
<1> QED
  BY <1>1, <1>5, <1>7, <1>8, OneFits DEF n
LEMMA ChangeOfText ==
  ASSUME IInv, Change
  PROVE  /\ current \in Buffers /\ view[current] \in Views \union {None}
         /\ tick[current] \in 1..MaxTick
         /\ tick'[current] = tick[current] + 1 /\ tick'[current] \in 1..MaxTick
         /\ UNCHANGED <<kind, clearing, current, insert, enabled>>
         /\ \A c \in Buffers \ {current} : tick'[c] = tick[c]
         /\ \A c \in Buffers : Wanted(c)' = Wanted(c)
<1>1. /\ current \in Buffers /\ view[current] \in Views \union {None}
      /\ tick[current] \in 1..MaxTick /\ tick[current] < MaxTick
      /\ tick \in [Buffers -> 1..MaxTick]
  BY CurrentIsABuffer DEF Change, IInv, EditorOK
<1>2. /\ tick' = [tick EXCEPT ![current] = tick[current] + 1]
      /\ UNCHANGED <<kind, clearing, current, insert, enabled>>
  BY DEF Change, options
<1>3. tick[current] + 1 \in 1..MaxTick
  BY <1>1, LinesAssumption
<1>4. \A c \in Buffers : Wanted(c)' = Wanted(c)
  BY <1>2 DEF Wanted, OutOfTheWay
<1> QED
  BY <1>1, <1>2, <1>3, <1>4

LEMMA NormalChangeFits ==
  ASSUME IInv, AllFit, OnTextChangedNormalMode
  PROVE  AllFit'
<1>1. ~insert /\ Change /\ Update(current, view[current], tick'[current], TRUE)
  BY DEF OnTextChangedNormalMode
<1>2. /\ current \in Buffers /\ view[current] \in Views \union {None}
      /\ tick[current] \in 1..MaxTick
      /\ tick'[current] = tick[current] + 1 /\ tick'[current] \in 1..MaxTick
      /\ UNCHANGED <<kind, clearing, current, insert, enabled>>
      /\ \A c \in Buffers \ {current} : tick'[c] = tick[c]
      /\ \A c \in Buffers : Wanted(c)' = Wanted(c)
  BY <1>1, ChangeOfText
<1>3. tick[current] <= tick'[current]
  BY <1>2, LinesAssumption
<1>4. PICK now \in 1..MaxTick : now = tick'[current]
  BY <1>2
<1>5. /\ OthersKept(current)
      /\ Fit(scrollable'[current], drawn'[current], now, missed'[current], enabled[current])
  BY <1>1, <1>2, <1>3, <1>4, UpdateFits
<1>6. Wanted(current)' <=> enabled[current]
  BY <1>1, <1>2 DEF Wanted, OutOfTheWay
<1>7. Fit(scrollable'[current], drawn'[current], tick'[current], missed'[current],
          Wanted(current)')
  BY <1>4, <1>5, <1>6 DEF Fit
<1> QED
  BY <1>2, <1>5, <1>7, OneFits

LEMMA InsertChangeFits ==
  ASSUME IInv, AllFit, OnTextChangedInsertMode
  PROVE  AllFit'
<1>1. Change /\ UNCHANGED <<scrollable, drawn, polled, missed>>
  BY DEF OnTextChangedInsertMode
<1>2. /\ current \in Buffers /\ tick[current] \in 1..MaxTick
      /\ tick'[current] = tick[current] + 1
      /\ \A c \in Buffers \ {current} : tick'[c] = tick[c]
      /\ \A c \in Buffers : Wanted(c)' = Wanted(c)
  BY <1>1, ChangeOfText
<1> DEFINE s == scrollable[current]
<1>3. /\ Complete(s) /\ Answered(s, missed[current]) /\ s.tick <= tick[current]
      /\ s.tick \in 0..MaxTick
  BY <1>2 DEF AllFit, Fit, IInv, RangesOK, ScrollingBufferRange
<1>4. s.tick <= tick'[current] /\ s.tick # tick'[current]
  BY <1>2, <1>3, LinesAssumption
<1> HIDE DEF s
<1>5. \A wanted : Fit(s, drawn[current], tick'[current], missed[current], wanted)
  BY <1>3, <1>4 DEF Fit, OnScreen
<1>6. OthersKept(current)
  BY <1>1 DEF OthersKept
<1> QED
  BY <1>1, <1>2, <1>5, <1>6, OneFits DEF s

LEMMA ReadyToParseFits ==
  ASSUME IInv, AllFit, OnFileReadyToParse
  PROVE  AllFit'
<1>1. /\ current # None /\ ~insert /\ Update(current, view[current], tick[current], TRUE)
      /\ UNCHANGED <<kind, clearing, current, tick, insert, enabled>>
  BY DEF OnFileReadyToParse, options, editor
<1>2. /\ current \in Buffers /\ tick[current] \in 1..MaxTick
      /\ view[current] \in Views \union {None}
  BY <1>1, CurrentIsABuffer
<1>3. tick[current] <= tick[current]
  BY <1>2, LinesAssumption
<1>4. /\ OthersKept(current)
      /\ Fit(scrollable'[current], drawn'[current], tick[current], missed'[current],
             enabled[current])
  BY <1>1, <1>2, <1>3, UpdateFits
<1>5. /\ \A c \in Buffers : Wanted(c)' = Wanted(c)
      /\ Wanted(current)' <=> enabled[current]
  BY <1>1 DEF Wanted, OutOfTheWay
<1>6. Fit(scrollable'[current], drawn'[current], tick'[current], missed'[current],
          Wanted(current)')
  BY <1>1, <1>4, <1>5 DEF Fit
<1> QED
  BY <1>1, <1>2, <1>4, <1>5, <1>6, OneFits

LEMMA InsertEnterFits ==
  ASSUME IInv, AllFit, OnInsertEnter
  PROVE  AllFit'
<1>1. /\ current # None /\ ~insert /\ insert'
      /\ drawn' = IF Clears THEN [drawn EXCEPT ![current] = {}] ELSE drawn
      /\ UNCHANGED <<kind, clearing, current, tick, enabled, scrollable, missed>>
  BY DEF OnInsertEnter, options
<1>2. current \in Buffers
  BY <1>1, CurrentIsABuffer
<1>3. \A c \in Buffers : Wanted(c)' => Wanted(c)
  BY <1>1 DEF Wanted, OutOfTheWay
<1>4. CASE Clears
  <2>1. ~Wanted(current)'
    BY <1>1, <1>4 DEF Wanted, OutOfTheWay, Clears
  <2>2. OthersKept(current)
    BY <1>1, <1>4 DEF OthersKept, IInv, RangesOK
  <2>3. Fit(scrollable'[current], drawn'[current], tick'[current], missed'[current],
            Wanted(current)')
    BY <1>1, <1>2, <2>1 DEF AllFit, Fit
  <2> QED
    BY <1>1, <1>2, <1>3, <2>2, <2>3, OneFits
<1>5. CASE ~Clears
  BY <1>1, <1>3, <1>5, StillFits
<1> QED
  BY <1>4, <1>5

LEMMA UnloadFits ==
  ASSUME IInv, AllFit, NEW b \in Buffers, OnBufferUnload(b)
  PROVE  AllFit'
<1> DEFINE s == scrollable[b]
           n == Cancelled(s)
<1>1. /\ tick' = [tick EXCEPT ![b] = tick[b] + 1]
      /\ scrollable' = [scrollable EXCEPT ![b] = n]
      /\ drawn' = [drawn EXCEPT ![b] = {}]
      /\ missed' = [missed EXCEPT ![b] = TRUE]
      /\ UNCHANGED <<kind, clearing, current, insert, enabled>>
  BY DEF OnBufferUnload, options
<1>2. /\ tick \in [Buffers -> 1..MaxTick] /\ scrollable \in [Buffers -> ScrollingBufferRange]
      /\ DOMAIN drawn = Buffers /\ DOMAIN missed = Buffers
      /\ s \in ScrollingBufferRange /\ Complete(s) /\ s.tick <= tick[b]
  BY DEF AllFit, Fit, IInv, EditorOK, RangesOK
<1>3. /\ n.request = None /\ n.latest = s.latest /\ n.range = s.range /\ n.tick = s.tick
  BY <1>2 DEF Cancelled, ScrollingBufferRange
<1>4. /\ scrollable'[b] = n /\ missed'[b] /\ tick'[b] = tick[b] + 1
      /\ OthersKept(b) /\ \A c \in Buffers \ {b} : tick'[c] = tick[c]
  BY <1>1, <1>2 DEF OthersKept
<1>5. s.tick \in 0..MaxTick /\ tick[b] \in 1..MaxTick
  BY <1>2 DEF ScrollingBufferRange
<1> HIDE DEF n, s
<1>6. n.tick <= tick'[b]
  BY <1>2, <1>3, <1>4, <1>5, LinesAssumption
<1>7. Fit(n, drawn'[b], tick'[b], missed'[b], Wanted(b)')
  BY <1>2, <1>3, <1>4, <1>6 DEF Fit, Complete, Ready, Answered
<1>8. \A c \in Buffers : Wanted(c)' = Wanted(c)
  BY <1>1 DEF Wanted, OutOfTheWay
<1> QED
  BY <1>4, <1>7, <1>8, OneFits

LEMMA AllMissedFit ==
  ASSUME IInv, AllFit, DisableLanguageServer \/ RestartServer
  PROVE  AllFit'
<1> SUFFICES ASSUME NEW b \in Buffers
             PROVE  Fit(scrollable'[b], drawn'[b], tick'[b], missed'[b], Wanted(b)')
  BY DEF AllFit
<1> DEFINE n == scrollable'[b]
           s == scrollable[b]
<1>1. /\ missed'[b] /\ tick' = tick
      /\ n = Cancelled(s) \/ n = NewScrollingBufferRange
  BY DEF DisableLanguageServer, RestartServer, editor
<1>2. s \in ScrollingBufferRange /\ Complete(s) /\ s.tick <= tick[b] /\ tick[b] \in 1..MaxTick
  BY DEF AllFit, Fit, IInv, EditorOK, RangesOK
<1>3. n.request = None /\ n.tick <= tick[b] /\ Complete(n)
  <2>1. CASE n = Cancelled(s)
    <3>1. n.request = None /\ n.latest = s.latest /\ n.range = s.range /\ n.tick = s.tick
      BY <1>2, <2>1 DEF Cancelled, ScrollingBufferRange
    <3> HIDE DEF n, s
    <3> QED
      BY <1>2, <3>1 DEF Complete, Ready
  <2>2. CASE n = NewScrollingBufferRange
    <3> HIDE DEF n, s
    <3>1. n.request = None /\ n.latest = None /\ n.tick = 0
      BY <2>2 DEF NewScrollingBufferRange, NoTick
    <3> QED
      BY <1>2, <3>1, LinesAssumption DEF Complete, Ready
  <2> HIDE DEF n, s
  <2> QED
    BY <1>1, <2>1, <2>2
<1> HIDE DEF n, s
<1>4. Fit(n, drawn'[b], tick'[b], missed'[b], Wanted(b)')
  BY <1>1, <1>3 DEF Fit, Answered
<1> QED
  BY <1>4 DEF n

LEMMA StepFits == IInv /\ AllFit /\ [Next]_vars => AllFit'
<1> SUFFICES ASSUME IInv, AllFit, [Next]_vars
             PROVE  AllFit'
  OBVIOUS
<1>1. ASSUME NEW b \in Buffers, NEW v \in Views, OnWinScrolled(b, v)
      PROVE  AllFit'
  <2>1. /\ UNCHANGED <<kind, clearing, current, tick, insert, enabled, scrollable, drawn>>
        /\ missed' = missed \/ missed' = [missed EXCEPT ![b] = TRUE]
    BY <1>1 DEF OnWinScrolled, options
  <2>2. \A c \in Buffers : (missed[c] => missed'[c]) /\ Wanted(c)' = Wanted(c)
    BY <2>1 DEF IInv, EditorOK, Wanted, OutOfTheWay
  <2> QED
    BY <2>1, <2>2, StillFits
<1>2. ASSUME NEW hide \in BOOLEAN, EnterIgnored(hide)
      PROVE  AllFit'
  <2>1. ~insert /\ UNCHANGED <<kind, clearing, tick, insert, enabled, scrollable, drawn, missed>>
    BY <1>2 DEF EnterIgnored, options
  <2>2. \A c \in Buffers : Wanted(c)' = Wanted(c)
    BY <2>1 DEF Wanted, OutOfTheWay
  <2> QED
    BY <2>1, <2>2, StillFits
<1>3. CASE UNCHANGED vars
  <2>1. UNCHANGED <<kind, clearing, current, tick, insert, enabled, scrollable, drawn, missed>>
    BY <1>3 DEF vars, options, editor
  <2>2. \A c \in Buffers : Wanted(c)' = Wanted(c)
    BY <2>1 DEF Wanted, OutOfTheWay
  <2> QED
    BY <2>1, <2>2, StillFits
<1> QED
  BY <1>1, <1>2, <1>3, AfterScrollingFits, PollFits, NormalChangeFits, InsertChangeFits,
     ReadyToParseFits, InsertEnterFits, InsertLeaveFits, BufferEnterFits, UnloadFits,
     ToggleFits, AllMissedFit, AnswerFits DEF Next

(* ScrollingBufferRange.Request: whenever nothing is sent because what is  *)
(* remembered says that all that is visible has been asked for, and no     *)
(* answer is awaited, all that is visible is drawn from the present text.  *)
THEOREM SkippingLeavesNothingUndrawn == Spec => []SkippingIsSafe
<1>1. IInv /\ AllFit => SkippingIsSafe
  <2> SUFFICES ASSUME IInv, AllFit, NEW b \in Buffers,
                      enabled[b], ~missed[b], ~OutOfTheWay(b),
                      Skipped(scrollable[b], view[b], tick[b], FALSE),
                      scrollable[b].request = None,
                      scrollable[b].latest # None => ~scrollable[b].latest.failed
               PROVE  VisibleIsDrawn(b)
    BY DEF SkippingIsSafe
  <2> DEFINE s == scrollable[b]
  <2>1. /\ s.tick = tick[b] /\ s.range # None /\ view[b] # None /\ Within(view[b], s.range)
    BY DEF Skipped, VisibleRangeOverlaps
  <2>2. Answered(s, missed[b]) /\ OnScreen(s, drawn[b], tick[b])
    BY DEF AllFit, Fit, Wanted
  <2>3. \A l \in s.range.start .. s.range.end : <<tick[b], l>> \in drawn[b]
    BY <2>1, <2>2 DEF Answered, OnScreen
  <2>4. s.range \in Range /\ view[b] \in Range
    BY <2>1, ViewsAssumption DEF IInv, EditorOK, RangesOK, ScrollingBufferRange
  <2>5. view[b].start .. view[b].end \subseteq s.range.start .. s.range.end
    BY <2>1, <2>4, LinesAssumption DEF Within, Range
  <2> QED
    BY <2>3, <2>5 DEF VisibleIsDrawn
<1>2. Spec => []AllFit
  BY InitFits, StepFits, Invariance, PTL DEF Spec
<1> QED
  BY <1>1, <1>2, Invariance, PTL
=============================================================================
