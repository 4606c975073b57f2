--------------------------- MODULE FileParseProofs ---------------------------
(* Proofs about FileParse: types, and that a response is applied exactly   *)
(* when the tick arithmetic says that it has been handled.                 *)
EXTENDS FileParse, TLAPS

(* What the arithmetic rests on.  changedtick never decreases and the      *)
(* handled tick never passes the parse tick, so that sending (which lowers *)
(* the one and may raise the other) always leaves them different.          *)
TicksInOrder(buf, now) ==
  /\ buf.parseTick <= now
  /\ buf.handledTick <= buf.parseTick
  /\ buf.request.applied \in {0, 1}
  /\ buf.request # NoRequest =>
       (buf.handledTick = buf.parseTick <=> buf.request.applied = 1)

IInv ==
  /\ TypeOK
  /\ \A b \in Buffers : TicksInOrder(buffer[b], tick[b])

-----------------------------------------------------------------------------
(* A new Buffer is in order.                                               *)
LEMMA NewBufferInOrder ==
  ASSUME NEW now \in Nat
  PROVE  NewBuffer \in BufferType /\ TicksInOrder(NewBuffer, now)
BY DEF NewBuffer, NoRequest, BufferType, Request, TicksInOrder

(* Sending keeps a Buffer in order, at the changedtick it is sent at.      *)
LEMMA SendingInOrder ==
  ASSUME NEW buf \in BufferType, NEW old \in Nat, NEW now \in Nat, old <= now,
         TicksInOrder(buf, old)
  PROVE  /\ SendParseRequest(buf, now) \in BufferType
         /\ TicksInOrder(SendParseRequest(buf, now), now)
<1>1. CASE buf.request.outcome = "pending"
  <2> DEFINE new == SendParseRequest(buf, now)
  <2>1. new = [buf EXCEPT !.shouldResend = TRUE]
    BY <1>1 DEF SendParseRequest
  <2>2. /\ new \in BufferType
        /\ new.parseTick = buf.parseTick
        /\ new.handledTick = buf.handledTick
        /\ new.request = buf.request
    BY <2>1 DEF BufferType
  <2>3. buf.parseTick \in Nat
    BY DEF BufferType
  <2> QED
    BY <2>2, <2>3 DEF TicksInOrder
<1>2. CASE buf.request.outcome # "pending"
  <2> DEFINE new == SendParseRequest(buf, now)
  <2>1. new = [parseTick |-> now, handledTick |-> buf.handledTick - 1,
               shouldResend |-> FALSE,
               request |-> [content |-> now, outcome |-> "pending",
                            applied |-> 0, resend |-> FALSE]]
    BY <1>2 DEF SendParseRequest
  <2>2. buf.handledTick \in Int /\ buf.parseTick \in Nat
    BY DEF BufferType
  <2>3. buf.handledTick - 1 < now
    BY <2>2 DEF TicksInOrder
  <2> QED
    BY <2>1, <2>2, <2>3 DEF BufferType, Request, TicksInOrder
<1> QED
  BY <1>1, <1>2

(* Only the order of the ticks matters, so a Buffer stays in order while   *)
(* its text changes.                                                       *)
LEMMA EditingInOrder ==
  ASSUME NEW buf \in BufferType, NEW old \in Nat, NEW now \in Nat, old <= now,
         TicksInOrder(buf, old)
  PROVE  TicksInOrder(buf, now)
BY DEF TicksInOrder, BufferType

(* Applying a response counts.                                             *)
LEMMA AppliedOnce ==
  ASSUME NEW request \in Request
  PROVE  /\ Applied(request) \in Request
         /\ Applied(request).applied = request.applied + 1
<1> DEFINE asks == (request.outcome = "extraConf")
           applied == request.applied + 1
<1>1. asks \in BOOLEAN
  OBVIOUS
<1>2. Applied(request) = [request EXCEPT !.applied = applied, !.resend = asks]
  BY DEF Applied
<1>3. applied \in Nat
  BY DEF Request
<1> HIDE DEF asks, applied
<1>4. /\ Applied(request) \in Request
      /\ Applied(request).applied = applied
  BY <1>1, <1>2, <1>3 DEF Request
<1> QED
  BY <1>4 DEF applied

(* Marking a response as handled counts it as applied for the first time.  *)
LEMMA HandlingInOrder ==
  ASSUME TypeOK, NEW b \in Buffers, NEW block \in BOOLEAN,
         TicksInOrder(buffer[b], tick[b])
  PROVE  /\ HandleFileParseRequest(b, block) \in BufferType
         /\ TicksInOrder(HandleFileParseRequest(b, block), tick[b])
<1>0. buffer[b] \in BufferType /\ tick[b] \in Nat
  BY DEF TypeOK
<1>1. CASE ~Handles(b, block)
  BY <1>0, <1>1 DEF HandleFileParseRequest
<1>2. CASE Handles(b, block)
  <2>1. buffer[b].request # NoRequest /\ buffer[b].handledTick # buffer[b].parseTick
    BY <1>2 DEF Handles, ParseRequestReady, IsResponseHandled
  <2>2. buffer[b].request.applied = 0
    BY <2>1 DEF TicksInOrder
  <2> DEFINE new == MarkResponseHandled(b)
  <2>3. /\ new \in BufferType
        /\ new.parseTick = buffer[b].parseTick
        /\ new.handledTick = buffer[b].parseTick
        /\ new.request.applied = 1
    <3> DEFINE request == buffer[b].request
    <3>1. request \in Request /\ buffer[b].parseTick \in Nat
      BY <1>0 DEF BufferType
    <3>2. Applied(request) \in Request /\ Applied(request).applied = 1
      BY <2>2, <3>1, AppliedOnce
    <3> QED
      BY <1>0, <3>1, <3>2 DEF MarkResponseHandled, BufferType
  <2>4. TicksInOrder(new, tick[b])
    BY <1>0, <2>3 DEF TicksInOrder, BufferType
  <2> QED
    BY <1>2, <2>3, <2>4 DEF HandleFileParseRequest
<1> QED
  BY <1>1, <1>2

-----------------------------------------------------------------------------
LEMMA InitInvariant == Init => IInv
<1> SUFFICES ASSUME Init PROVE IInv
  OBVIOUS
<1>1. NewBuffer \in BufferType /\ TicksInOrder(NewBuffer, 1)
  BY NewBufferInOrder
<1>2. TypeOK
  BY <1>1, BuffersAssumption, BudgetAssumption DEF Init, TypeOK
<1>3. \A b \in Buffers : TicksInOrder(buffer[b], tick[b])
  BY <1>1 DEF Init
<1> QED
  BY <1>2, <1>3 DEF IInv

(* The two ways in which the editor's events treat the current buffer.     *)
LEMMA ForceParseStep ==
  ASSUME IInv, NEW b \in Buffers, NEW now \in Nat, tick[b] <= now,
         tick' = [tick EXCEPT ![b] = now], FileReadyToParse(b, now)
  PROVE  /\ buffer' \in [Buffers -> BufferType]
         /\ \A c \in Buffers : TicksInOrder(buffer'[c], tick'[c])
<1>0. /\ buffer \in [Buffers -> BufferType]
      /\ tick \in [Buffers -> Nat]
      /\ \A c \in Buffers : TicksInOrder(buffer[c], tick[c])
  BY DEF IInv, TypeOK
<1>1. /\ SendParseRequest(buffer[b], now) \in BufferType
      /\ TicksInOrder(SendParseRequest(buffer[b], now), now)
  BY <1>0, SendingInOrder
<1>2. TicksInOrder(buffer[b], now)
  BY <1>0, EditingInOrder
<1> QED
  BY <1>0, <1>1, <1>2 DEF FileReadyToParse

LEMMA UnchangedBuffersStep ==
  ASSUME IInv, NEW b \in Buffers, NEW now \in Nat, tick[b] <= now,
         tick' = [tick EXCEPT ![b] = now], UNCHANGED buffer
  PROVE  /\ buffer' \in [Buffers -> BufferType]
         /\ \A c \in Buffers : TicksInOrder(buffer'[c], tick'[c])
<1>0. /\ buffer \in [Buffers -> BufferType]
      /\ tick \in [Buffers -> Nat]
      /\ \A c \in Buffers : TicksInOrder(buffer[c], tick[c])
  BY DEF IInv, TypeOK
<1>1. TicksInOrder(buffer[b], now)
  BY <1>0, EditingInOrder
<1> QED
  BY <1>0, <1>1

LEMMA ParseIfChangedStep ==
  ASSUME IInv, NEW b \in Buffers, NEW now \in Nat, tick[b] <= now,
         tick' = [tick EXCEPT ![b] = now], ParseIfChanged(b, now)
  PROVE  /\ buffer' \in [Buffers -> BufferType]
         /\ armed' \in BOOLEAN
         /\ \A c \in Buffers : TicksInOrder(buffer'[c], tick'[c])
<1>0. armed \in BOOLEAN
  BY DEF IInv, TypeOK
<1>1. CASE NeedsReparse(b, now)
  BY <1>1, ForceParseStep DEF ParseIfChanged, ForceParse
<1>2. CASE ~NeedsReparse(b, now)
  BY <1>0, <1>2, UnchangedBuffersStep DEF ParseIfChanged
<1> QED
  BY <1>1, <1>2

-----------------------------------------------------------------------------
LEMMA NextInvariant == IInv /\ [Next]_vars => IInv'
<1> SUFFICES ASSUME IInv, [Next]_vars PROVE IInv'
  OBVIOUS
<1> USE BuffersAssumption
<1>0. /\ TypeOK
      /\ current \in Buffers
      /\ tick \in [Buffers -> Nat]
      /\ buffer \in [Buffers -> BufferType]
      /\ \A b \in Buffers : TicksInOrder(buffer[b], tick[b])
  BY DEF IInv, TypeOK
<1>a. \A b \in Buffers : tick = [tick EXCEPT ![b] = tick[b]] /\ tick[b] \in Nat
  BY <1>0
<1>b. \A what : Spend(what) => budget' \in [Disturbance -> Nat]
  <2> SUFFICES ASSUME NEW what, Spend(what) PROVE budget' \in [Disturbance -> Nat]
    OBVIOUS
  <2>1. budget \in [Disturbance -> Nat]
    BY <1>0 DEF TypeOK
  <2>2. CASE what \in Disturbance
    BY <2>1, <2>2 DEF Spend
  <2>3. CASE what \notin Disturbance
    BY <2>1, <2>3 DEF Spend
  <2> QED
    BY <2>2, <2>3
<1>c. \A b \in Buffers : AskedAbout(b) => previousAllowed' \in Buffers \cup {None}
  BY <1>0 DEF AskedAbout, TypeOK
<1>d. \A b \in Buffers : Changed(b) =>
        /\ tick[b] + 1 \in Nat
        /\ tick[b] <= tick[b] + 1
        /\ tick' = [tick EXCEPT ![b] = tick[b] + 1]
        /\ tick' \in [Buffers -> Nat]
  BY <1>0 DEF Changed
<1>1. CASE EditText
  <2>1. /\ buffer' \in [Buffers -> BufferType]
        /\ armed' \in BOOLEAN
        /\ \A b \in Buffers : TicksInOrder(buffer'[b], tick'[b])
    <3>1. CASE current \in Allowed
      BY <1>0, <1>1, <1>d, <3>1, ParseIfChangedStep DEF EditText
    <3>2. CASE current \notin Allowed
      <4>1. armed' \in BOOLEAN
        BY <1>0, <1>1, <3>2 DEF EditText, TypeOK
      <4> QED
        BY <1>0, <1>1, <1>d, <3>2, <4>1, UnchangedBuffersStep DEF EditText
    <3> QED
      BY <3>1, <3>2
  <2> QED
    BY <1>0, <1>1, <1>c, <1>d, <2>1 DEF EditText, IInv, TypeOK, server
<1>2. CASE TypeText
  <2>1. /\ buffer' \in [Buffers -> BufferType]
        /\ \A b \in Buffers : TicksInOrder(buffer'[b], tick'[b])
    BY <1>0, <1>2, <1>d, UnchangedBuffersStep DEF TypeText
  <2> QED
    BY <1>0, <1>2, <1>c, <1>d, <2>1 DEF TypeText, IInv, TypeOK, server
<1>3. CASE LeaveInsert
  <2>1. /\ buffer' \in [Buffers -> BufferType]
        /\ armed' \in BOOLEAN
        /\ \A b \in Buffers : TicksInOrder(buffer'[b], tick'[b])
    <3>1. CASE current \in Allowed
      BY <1>0, <1>3, <1>a, <3>1, ParseIfChangedStep DEF LeaveInsert
    <3>2. CASE current \notin Allowed
      BY <1>0, <1>3, <3>2 DEF LeaveInsert, TypeOK
    <3> QED
      BY <3>1, <3>2
  <2> QED
    BY <1>0, <1>3, <1>c, <2>1 DEF LeaveInsert, IInv, TypeOK, server
<1>4. ASSUME NEW b \in Buffers, EnterBuffer(b) PROVE IInv'
  <2>1. /\ buffer' \in [Buffers -> BufferType]
        /\ armed' \in BOOLEAN
        /\ previousAllowed' \in Buffers \cup {None}
        /\ \A c \in Buffers : TicksInOrder(buffer'[c], tick'[c])
    <3>1. CASE b # previousAllowed /\ b \in Allowed
      BY <1>0, <1>4, <1>a, <3>1, ForceParseStep DEF EnterBuffer, ForceParse
    <3>2. CASE ~(b # previousAllowed /\ b \in Allowed)
      BY <1>0, <1>4, <3>2 DEF EnterBuffer, TypeOK
    <3> QED
      BY <3>1, <3>2
  <2> QED
    BY <1>0, <1>4, <1>b, <2>1 DEF EnterBuffer, IInv, TypeOK, server
<1>5. CASE SetFileType
  <2>1. /\ buffer' \in [Buffers -> BufferType]
        /\ armed' \in BOOLEAN
        /\ \A b \in Buffers : TicksInOrder(buffer'[b], tick'[b])
    <3>1. CASE current \in Allowed
      BY <1>0, <1>5, <1>a, <3>1, ForceParseStep DEF SetFileType, ForceParse
    <3>2. CASE current \notin Allowed
      BY <1>0, <1>5, <3>2 DEF SetFileType, TypeOK
    <3> QED
      BY <3>1, <3>2
  <2> QED
    BY <1>0, <1>5, <1>b, <1>c, <2>1 DEF SetFileType, IInv, TypeOK, server
<1>6. ASSUME NEW b \in Buffers, RefactorOther(b) PROVE IInv'
  <2>1. /\ buffer' \in [Buffers -> BufferType]
        /\ \A c \in Buffers : TicksInOrder(buffer'[c], tick'[c])
    BY <1>0, <1>6, <1>d, UnchangedBuffersStep DEF RefactorOther
  <2> QED
    BY <1>0, <1>6, <1>d, <2>1 DEF RefactorOther, IInv, TypeOK, server
<1>7. ASSUME NEW b \in Buffers, SaveFile(b) PROVE IInv'
  <2>1. budget' \in [Disturbance -> Nat]
    BY <1>0, <1>7, <1>b DEF SaveFile, TypeOK
  <2> QED
    BY <1>0, <1>7, <1>c, <2>1 DEF SaveFile, IInv, TypeOK, server
<1>8. ASSUME NEW b \in Buffers, ReloadFile(b) PROVE IInv'
  <2>1. budget' \in [Disturbance -> Nat]
    BY <1>0, <1>8, <1>b DEF ReloadFile, TypeOK
  <2>2. /\ buffer' \in [Buffers -> BufferType]
        /\ armed' \in BOOLEAN
        /\ \A c \in Buffers : TicksInOrder(buffer'[c], tick'[c])
    BY <1>0, <1>8, <1>d, ForceParseStep DEF ReloadFile, ForceParse
  <2> QED
    BY <1>0, <1>8, <1>d, <2>1, <2>2 DEF ReloadFile, IInv, TypeOK, server
<1>9. CASE BeginForceCompile
  <2>1. /\ buffer' \in [Buffers -> BufferType]
        /\ \A b \in Buffers : TicksInOrder(buffer'[b], tick'[b])
    BY <1>0, <1>9, <1>a, ForceParseStep DEF BeginForceCompile, editor
  <2> QED
    BY <1>0, <1>9, <1>b, <2>1 DEF BeginForceCompile, IInv, TypeOK, editor, server
<1>10. CASE FinishForceCompile
  <2>1. /\ HandleFileParseRequest(current, TRUE) \in BufferType
        /\ TicksInOrder(HandleFileParseRequest(current, TRUE), tick[current])
    BY <1>0, HandlingInOrder
  <2> QED
    BY <1>0, <1>10, <2>1 DEF FinishForceCompile, IInv, TypeOK, editor, server
<1>11. CASE PollFileParseResponse
  <2> DEFINE handled == HandleFileParseRequest(current, FALSE)
  <2>1. handled \in BufferType /\ TicksInOrder(handled, tick[current])
    BY <1>0, HandlingInOrder
  <2>0. tick[current] \in Nat /\ tick[current] <= tick[current]
    BY <1>0
  <2>2. /\ SendParseRequest(handled, tick[current]) \in BufferType
        /\ TicksInOrder(SendParseRequest(handled, tick[current]), tick[current])
    <3> HIDE DEF handled
    <3> QED
      BY <2>0, <2>1, SendingInOrder
  <2>3. armed' \in BOOLEAN
    BY <1>11, <2>1 DEF PollFileParseResponse, ShouldResendParseRequest
  <2>4. PICK new \in {handled, SendParseRequest(handled, tick[current])} :
          buffer' = [buffer EXCEPT ![current] = new]
    BY <1>11 DEF PollFileParseResponse
  <2>5. new \in BufferType /\ TicksInOrder(new, tick[current])
    BY <2>1, <2>2, <2>4
  <2> HIDE DEF handled
  <2> QED
    BY <1>0, <1>11, <2>3, <2>4, <2>5
    DEF PollFileParseResponse, IInv, TypeOK, editor, server
<1>12. ASSUME NEW b \in Buffers, Answer(b) PROVE IInv'
  <2>1. budget' \in [Disturbance -> Nat]
    BY <1>0, <1>12, <1>b DEF Answer, TypeOK
  <2>2. PICK outcome \in {"answered", "extraConf"} :
          buffer' = [buffer EXCEPT ![b].request.outcome = outcome]
    BY <1>12 DEF Answer
  <2> DEFINE old == buffer[b]
             request == [old.request EXCEPT !.outcome = outcome]
             new == [old EXCEPT !.request = request]
  <2>3. old \in BufferType /\ old.request \in Request /\ TicksInOrder(old, tick[b])
    BY <1>0 DEF BufferType
  <2>4. /\ request \in Request
        /\ request.applied = old.request.applied
    BY <2>3 DEF Request
  <2>5. old.request # NoRequest
    BY <1>12 DEF Answer, Pending, NoRequest
  <2>6. /\ new \in BufferType
        /\ new.parseTick = old.parseTick
        /\ new.handledTick = old.handledTick
        /\ new.request = request
    BY <2>3, <2>4 DEF BufferType
  <2>7. TicksInOrder(new, tick[b])
    BY <2>3, <2>4, <2>5, <2>6 DEF TicksInOrder
  <2>8. buffer' = [buffer EXCEPT ![b] = new]
    BY <1>0, <2>2
  <2> HIDE DEF old, request, new
  <2> QED
    BY <1>0, <1>12, <2>1, <2>6, <2>7, <2>8 DEF Answer, IInv, TypeOK, editor, server
<1>13. CASE Crash
  BY <1>0, <1>13 DEF Crash, IInv, TypeOK, editor
<1>14. CASE ServerIsDead
  BY <1>0, <1>14 DEF ServerIsDead, IInv, TypeOK, editor
<1>15. CASE ServerIsReady
  <2> DEFINE new == SendParseRequest(buffer[current], tick[current])
  <2>1. new \in BufferType /\ TicksInOrder(new, tick[current])
    BY <1>0, SendingInOrder
  <2> HIDE DEF new
  <2>2. /\ buffer' \in [Buffers -> BufferType]
        /\ armed' \in BOOLEAN
        /\ \A b \in Buffers : TicksInOrder(buffer'[b], tick'[b])
    <3>1. CASE current \in Allowed
      BY <1>0, <1>15, <2>1, <3>1 DEF ServerIsReady, new
    <3>2. CASE current \notin Allowed
      BY <1>0, <1>15, <3>2 DEF ServerIsReady, TypeOK
    <3> QED
      BY <3>1, <3>2
  <2> QED
    BY <1>0, <1>15, <1>c, <2>2 DEF ServerIsReady, IInv, TypeOK
<1>16. CASE RestartServer
  <2>1. \A b \in Buffers : /\ NewBuffer \in BufferType
                          /\ TicksInOrder(NewBuffer, tick[b])
    BY <1>0, NewBufferInOrder
  <2> QED
    BY <1>0, <1>16, <1>b, <2>1 DEF RestartServer, IInv, TypeOK, editor
<1>17. CASE UNCHANGED vars
  BY <1>0, <1>17 DEF vars, IInv, TypeOK, editor, server
<1> QED
  BY <1>1, <1>2, <1>3, <1>4, <1>5, <1>6, <1>7, <1>8, <1>9, <1>10, <1>11, <1>12,
     <1>13, <1>14, <1>15, <1>16, <1>17 DEF Next, User

LEMMA Invariance == Spec => []IInv
BY InitInvariant, NextInvariant, PTL DEF Spec

(* Editor, buffers and timers keep their types.                            *)
THEOREM TypeCorrect == Spec => []TypeOK
<1>1. IInv => TypeOK
  BY DEF IInv
<1> QED
  BY <1>1, Invariance, PTL

(* However often the same text is sent again, each response is applied at  *)
(* most once, and it is marked as handled exactly when it has been.        *)
THEOREM ResponsesAppliedOnce == Spec => []AppliedExactlyWhenHandled
<1>1. IInv => AppliedExactlyWhenHandled
  BY DEF IInv, TicksInOrder, AppliedExactlyWhenHandled, IsResponseHandled
<1> QED
  BY <1>1, Invariance, PTL

-----------------------------------------------------------------------------
(* No text is forgotten.  s:OnBufferEnter leaves out the parse of a buffer *)
(* that was the last one to be asked about; so not only the current buffer *)
(* but also that one must be sent or noted, and as long as events concern  *)
(* the current buffer the two are the same whenever both can be edited.    *)
SentOrNoted(buf, now) == buf.parseTick = now \/ buf.shouldResend

Typing(b) == insert /\ b = current

LastAsked ==
  /\ previousAllowed \in Allowed \union {None}
  /\ budget["elsewhere"] <= 1
  /\ Undisturbed /\ current \in Allowed => previousAllowed \in {current, None}

NothingForgotten ==
  \A b \in Allowed :
    /\ Undisturbed /\ b \in {current, previousAllowed}
    /\ ready /\ alive /\ Parsed(b) /\ ~Typing(b)
    => SentOrNoted(buffer[b], tick[b])

UnparsedUntilReady == ~ready => \A b \in Buffers : ~Parsed(b)

TInv == TypeOK /\ LastAsked /\ NothingForgotten /\ UnparsedUntilReady

LEMMA SendingNotes ==
  ASSUME NEW buf \in BufferType, NEW now \in Nat
  PROVE  SentOrNoted(SendParseRequest(buf, now), now)
BY DEF SentOrNoted, SendParseRequest, BufferType

LEMMA HandlingForgetsNothing ==
  ASSUME TypeOK, NEW b \in Buffers, NEW block \in BOOLEAN
  PROVE  LET handled == HandleFileParseRequest(b, block)
         IN /\ handled \in BufferType
            /\ handled.parseTick = buffer[b].parseTick
            /\ handled.shouldResend = buffer[b].shouldResend
            /\ handled.request = NoRequest => ~Parsed(b)
<1>0. buffer[b] \in BufferType
  BY DEF TypeOK
<1>1. CASE Handles(b, block)
  <2> DEFINE request == buffer[b].request
             new == MarkResponseHandled(b)
  <2>1. request \in Request /\ buffer[b].parseTick \in Nat /\ buffer[b].shouldResend \in BOOLEAN
    BY <1>0 DEF BufferType
  <2>2. Applied(request) \in Request /\ Applied(request).applied = request.applied + 1
    BY <2>1, AppliedOnce
  <2>3. /\ new = [parseTick |-> buffer[b].parseTick, handledTick |-> buffer[b].parseTick,
                  shouldResend |-> buffer[b].shouldResend, request |-> Applied(request)]
    BY DEF MarkResponseHandled
  <2>4. new \in BufferType
    BY <2>1, <2>2, <2>3 DEF BufferType
  <2>5. Parsed(b)
    BY <1>1 DEF Handles, ParseRequestReady, Parsed
  <2>6. request.applied \in Nat
    BY <2>1 DEF Request
  <2>7. Applied(request) # NoRequest
    BY <2>2, <2>6 DEF NoRequest
  <2> QED
    BY <1>1, <2>3, <2>4, <2>7 DEF HandleFileParseRequest
<1>2. CASE ~Handles(b, block)
  BY <1>0, <1>2 DEF HandleFileParseRequest, Parsed
<1> QED
  BY <1>1, <1>2

(* What s:OnFileReadyToParse and its conditional form do to the text.      *)
LEMMA ParsingNotes ==
  ASSUME TypeOK, NEW b \in Buffers, NEW now \in Nat,
         FileReadyToParse(b, now) \/ ParseIfChanged(b, now)
  PROVE  /\ alive /\ ready => SentOrNoted(buffer'[b], now)
         /\ ~ready => buffer' = buffer
         /\ \A c \in Buffers : c # b => buffer'[c] = buffer[c]
<1>0. buffer[b] \in BufferType /\ buffer \in [Buffers -> BufferType]
  BY DEF TypeOK
<1>1. CASE FileReadyToParse(b, now)
  <2>1. CASE alive /\ ready
    <3>1. buffer' = [buffer EXCEPT ![b] = SendParseRequest(buffer[b], now)]
      BY <1>1, <2>1 DEF FileReadyToParse
    <3>2. SentOrNoted(SendParseRequest(buffer[b], now), now)
      BY <1>0, SendingNotes
    <3> QED
      BY <1>0, <2>1, <3>1, <3>2
  <2>2. CASE ~(alive /\ ready)
    BY <1>1, <2>2 DEF FileReadyToParse
  <2> QED
    BY <2>1, <2>2
<1>2. CASE ~FileReadyToParse(b, now)
  <2>1. buffer' = buffer /\ ~NeedsReparse(b, now)
    BY <1>2 DEF ParseIfChanged, ForceParse
  <2>2. SentOrNoted(buffer[b], now)
    BY <2>1 DEF NeedsReparse, SentOrNoted
  <2> QED
    BY <2>1, <2>2
<1> QED
  BY <1>1, <1>2

(* s:PollFileParseResponse and FinishForceCompile: the response is handled,*)
(* and the text possibly sent again.                                       *)
LEMMA CollectingNotes ==
  ASSUME TypeOK, NEW b \in Buffers, NEW block \in BOOLEAN, NEW new,
         \/ new = HandleFileParseRequest(b, block)
         \/ /\ new = SendParseRequest(HandleFileParseRequest(b, block), tick[b])
            /\ ready,
         buffer' = [buffer EXCEPT ![b] = new]
  PROVE  /\ SentOrNoted(buffer'[b], tick[b]) \/ /\ buffer'[b].parseTick = buffer[b].parseTick
                                                /\ buffer'[b].shouldResend = buffer[b].shouldResend
                                                /\ buffer'[b].request = NoRequest <=> ~Parsed(b)
         /\ ~ready => buffer' = buffer
         /\ \A c \in Buffers : c # b => buffer'[c] = buffer[c]
<1> DEFINE handled == HandleFileParseRequest(b, block)
<1>0. buffer \in [Buffers -> BufferType] /\ tick[b] \in Nat
  BY DEF TypeOK
<1>1. /\ handled \in BufferType /\ handled.parseTick = buffer[b].parseTick
      /\ handled.shouldResend = buffer[b].shouldResend
      /\ handled.request = NoRequest => ~Parsed(b)
  BY HandlingForgetsNothing
<1>2. ~Handles(b, block) => handled = buffer[b]
  BY DEF HandleFileParseRequest
<1>3. Handles(b, block) => ready /\ Parsed(b)
  BY DEF Handles, ParseRequestReady, Parsed
<1> HIDE DEF handled
<1>4. SentOrNoted(SendParseRequest(handled, tick[b]), tick[b])
  BY <1>0, <1>1, SendingNotes
<1>5. buffer'[b] = new /\ \A c \in Buffers : c # b => buffer'[c] = buffer[c]
  BY <1>0
<1>6. ~ready => buffer' = buffer
  <2> SUFFICES ASSUME ~ready
               PROVE  buffer' = buffer
    OBVIOUS
  <2>1. new = buffer[b]
    BY <1>2, <1>3 DEF handled
  <2> QED
    BY <1>0, <2>1
<1>7. CASE new = handled
  <2>1. handled.request = NoRequest <=> ~Parsed(b)
    BY <1>1, <1>2, <1>3 DEF Parsed
  <2> QED
    BY <1>1, <1>5, <1>6, <1>7, <2>1
<1>8. CASE new = SendParseRequest(handled, tick[b])
  BY <1>4, <1>5, <1>6, <1>8
<1> QED
  BY <1>7, <1>8 DEF handled

LEMMA InitForgetsNothing == Init => TInv
<1> SUFFICES ASSUME Init
             PROVE  TInv
  OBVIOUS
<1>1. TypeOK
  BY InitInvariant DEF IInv
<1>2. \A b \in Buffers : ~Parsed(b)
  BY DEF Init, NewBuffer, Parsed
<1>3. LastAsked
  BY ElsewhereAssumption DEF Init, LastAsked
<1>4. NothingForgotten /\ UnparsedUntilReady
  BY <1>2, BuffersAssumption DEF NothingForgotten, UnparsedUntilReady
<1> QED
  BY <1>1, <1>3, <1>4 DEF TInv

(* What a step may do to a buffer: leave alone what matters of it, or bring*)
(* what ycmd knows of it up to date.                                       *)
Kept(c) ==
  /\ tick'[c] = tick[c] /\ buffer'[c].parseTick = buffer[c].parseTick
  /\ buffer'[c].shouldResend = buffer[c].shouldResend
  /\ Parsed(c)' => Parsed(c)
  /\ c \in {current', previousAllowed'} => c \in {current, previousAllowed}
  /\ Typing(c) => Typing(c)'

BroughtUp(c) == alive /\ ready => SentOrNoted(buffer'[c], tick'[c])

LEMMA KeptOrBroughtUp ==
  ASSUME TInv, alive' = alive, ready' = ready, Undisturbed' => Undisturbed,
         Undisturbed' => \A c \in Allowed : Kept(c) \/ BroughtUp(c) \/ Typing(c)',
         ~ready => buffer' = buffer
  PROVE  NothingForgotten' /\ UnparsedUntilReady'
<1>1. NothingForgotten'
  <2> SUFFICES ASSUME NEW c \in Allowed, Undisturbed', c \in {current', previousAllowed'},
                      ready', alive', Parsed(c)', ~Typing(c)'
               PROVE  SentOrNoted(buffer'[c], tick'[c])
    BY DEF NothingForgotten, SentOrNoted
  <2>1. CASE Kept(c)
    <3>1. /\ tick'[c] = tick[c] /\ buffer'[c].parseTick = buffer[c].parseTick
          /\ buffer'[c].shouldResend = buffer[c].shouldResend
          /\ Parsed(c) /\ c \in {current, previousAllowed} /\ ~Typing(c)
      BY <2>1 DEF Kept
    <3>2. SentOrNoted(buffer[c], tick[c])
      BY <3>1 DEF TInv, NothingForgotten
    <3> QED
      BY <3>1, <3>2 DEF SentOrNoted
  <2>2. CASE BroughtUp(c)
    BY <2>2 DEF BroughtUp
  <2> QED
    BY <2>1, <2>2
<1>2. UnparsedUntilReady'
  BY DEF TInv, UnparsedUntilReady, Parsed
<1> QED
  BY <1>1, <1>2

LEMMA Spending ==
  ASSUME TInv, NEW what \in Disturbance, Spend(what)
  PROVE  /\ budget'["elsewhere"] <= 1 /\ (Undisturbed' => Undisturbed)
         /\ what = "elsewhere" => ~Undisturbed'
<1>1. /\ budget \in [Disturbance -> Nat] /\ "elsewhere" \in Disturbance
      /\ budget["elsewhere"] <= 1
  BY DEF TInv, TypeOK, LastAsked, Disturbance
<1>2. budget["elsewhere"] \in Nat /\ budget[what] \in Nat
  BY <1>1
<1>3. budget' = [budget EXCEPT ![what] = budget[what] - 1] /\ budget[what] > 0
  BY DEF Spend
<1>4. CASE what = "elsewhere"
  <2>1. budget'["elsewhere"] = budget["elsewhere"] - 1
    BY <1>1, <1>3, <1>4
  <2> QED
    BY <1>1, <1>2, <1>3, <1>4, <2>1 DEF Undisturbed
<1>5. CASE what # "elsewhere"
  <2>1. budget'["elsewhere"] = budget["elsewhere"]
    BY <1>1, <1>3, <1>5
  <2> QED
    BY <1>1, <1>5, <2>1 DEF Undisturbed
<1> QED
  BY <1>4, <1>5

(* The events of the current buffer ask about it.                          *)
LEMMA AskingHere ==
  ASSUME TInv, current' = current, AskedAbout(current) \/ previousAllowed' = previousAllowed,
         budget'["elsewhere"] <= 1, Undisturbed' => Undisturbed
  PROVE  /\ LastAsked'
         /\ \A c \in Allowed : c \in {current', previousAllowed'} =>
                                 c \in {current, previousAllowed}
BY DEF TInv, TypeOK, LastAsked, AskedAbout

(* A step in the current buffer that parses it, types in it or leaves it   *)
(* alone, and every other buffer with it.                                  *)
LEMMA StepHere ==
  ASSUME TInv, TypeOK', current' = current,
         AskedAbout(current) \/ previousAllowed' = previousAllowed,
         alive' = alive, ready' = ready,
         budget'["elsewhere"] <= 1, Undisturbed' => Undisturbed,
         ~ready => buffer' = buffer,
         \A c \in Buffers : c # current => buffer'[c] = buffer[c] /\ tick'[c] = tick[c],
         current \in Allowed => \/ BroughtUp(current)
                                \/ Typing(current)'
                                \/ /\ buffer' = buffer /\ tick' = tick /\ insert' = insert
  PROVE  TInv'
<1>1. LastAsked'
  BY AskingHere
<1>2. \A c \in Allowed : Kept(c) \/ BroughtUp(c) \/ Typing(c)'
  <2> TAKE c \in Allowed
  <2>0. c \in Buffers
    BY BuffersAssumption
  <2>1. c \in {current', previousAllowed'} => c \in {current, previousAllowed}
    BY AskingHere
  <2>2. CASE c # current
    BY <2>0, <2>1, <2>2 DEF Kept, Typing, Parsed
  <2>3. CASE c = current /\ buffer' = buffer /\ tick' = tick /\ insert' = insert
    BY <2>1, <2>3 DEF Kept, Typing, Parsed
  <2> QED
    BY <2>2, <2>3
<1>3. NothingForgotten' /\ UnparsedUntilReady'
  BY <1>2, KeptOrBroughtUp
<1> QED
  BY <1>1, <1>3 DEF TInv

(* Parsing in the current buffer, if it is one of ours.                    *)
LEMMA ParsingHere ==
  ASSUME TInv, NEW now \in Nat,
         IF current \in Allowed
         THEN FileReadyToParse(current, now) \/ ParseIfChanged(current, now)
         ELSE buffer' = buffer
  PROVE  /\ ~ready => buffer' = buffer
         /\ \A c \in Buffers : c # current => buffer'[c] = buffer[c]
         /\ current \in Allowed /\ tick'[current] = now => BroughtUp(current)
<1>1. CASE current \in Allowed
  <2>1. current \in Buffers
    BY <1>1, BuffersAssumption
  <2>2. /\ alive /\ ready => SentOrNoted(buffer'[current], now)
        /\ ~ready => buffer' = buffer
        /\ \A c \in Buffers : c # current => buffer'[c] = buffer[c]
    BY <1>1, <2>1, ParsingNotes DEF TInv
  <2> QED
    BY <2>2 DEF BroughtUp
<1>2. CASE current \notin Allowed
  BY <1>2
<1> QED
  BY <1>1, <1>2

LEMMA TextStep == TInv /\ TypeOK' /\ [Next]_vars => TInv'
<1> SUFFICES ASSUME TInv, TypeOK', [Next]_vars
             PROVE  TInv'
  OBVIOUS
<1>a. /\ current \in Buffers /\ \A b \in Buffers : tick[b] \in Nat /\ tick[b] + 1 \in Nat
      /\ tick \in [Buffers -> Nat] /\ buffer \in [Buffers -> BufferType]
  BY DEF TInv, TypeOK
<1>b. budget["elsewhere"] <= 1 /\ previousAllowed \in Allowed \union {None}
  BY DEF TInv, LastAsked
<1>c. budget' = budget => budget'["elsewhere"] <= 1 /\ (Undisturbed' => Undisturbed)
  BY <1>b DEF Undisturbed
<1>1. CASE EditText
  <2>1. /\ IF current \in Allowed
           THEN ParseIfChanged(current, tick[current] + 1)
           ELSE buffer' = buffer
        /\ tick' = [tick EXCEPT ![current] = tick[current] + 1]
        /\ AskedAbout(current) /\ UNCHANGED <<current, alive, ready, budget>>
    BY <1>1 DEF EditText, Changed, server
  <2>2. /\ ~ready => buffer' = buffer
        /\ \A c \in Buffers : c # current => buffer'[c] = buffer[c]
        /\ current \in Allowed => BroughtUp(current)
    BY <1>a, <2>1, ParsingHere
  <2>3. \A c \in Buffers : c # current => tick'[c] = tick[c]
    BY <1>a, <2>1
  <2> QED
    BY <1>c, <2>1, <2>2, <2>3, StepHere
<1>2. CASE TypeText
  <2>1. /\ tick' = [tick EXCEPT ![current] = tick[current] + 1]
        /\ AskedAbout(current) /\ insert' = TRUE
        /\ UNCHANGED <<current, buffer, alive, ready, budget>>
    BY <1>2 DEF TypeText, Changed, server
  <2>2. Typing(current)'
    BY <2>1 DEF Typing
  <2>3. \A c \in Buffers : c # current => buffer'[c] = buffer[c] /\ tick'[c] = tick[c]
    BY <1>a, <2>1
  <2> QED
    BY <1>c, <2>1, <2>2, <2>3, StepHere
<1>3. CASE LeaveInsert
  <2>1. /\ IF current \in Allowed
           THEN ParseIfChanged(current, tick[current])
           ELSE buffer' = buffer
        /\ AskedAbout(current) /\ UNCHANGED <<current, tick, alive, ready, budget>>
    BY <1>3 DEF LeaveInsert, server
  <2>2. /\ ~ready => buffer' = buffer
        /\ \A c \in Buffers : c # current => buffer'[c] = buffer[c]
        /\ current \in Allowed => BroughtUp(current)
    BY <1>a, <2>1, ParsingHere
  <2> QED
    BY <1>c, <2>1, <2>2, StepHere
<1>4. CASE SetFileType
  <2>1. /\ IF current \in Allowed
           THEN FileReadyToParse(current, tick[current])
           ELSE buffer' = buffer
        /\ AskedAbout(current) /\ Spend("visit")
        /\ UNCHANGED <<current, tick, alive, ready>>
    BY <1>4 DEF SetFileType, ForceParse, server
  <2>2. /\ ~ready => buffer' = buffer
        /\ \A c \in Buffers : c # current => buffer'[c] = buffer[c]
        /\ current \in Allowed => BroughtUp(current)
    BY <1>a, <2>1, ParsingHere
  <2>3. budget'["elsewhere"] <= 1 /\ (Undisturbed' => Undisturbed)
    BY <2>1, Spending DEF Disturbance
  <2> QED
    BY <2>1, <2>2, <2>3, StepHere
<1>5. ASSUME NEW b \in Buffers, EnterBuffer(b)
      PROVE  TInv'
  <2>1. /\ current' = b /\ ~insert /\ Spend("visit")
        /\ UNCHANGED <<insert, tick, alive, ready>>
        /\ \/ previousAllowed' = b /\ b \in Allowed /\ FileReadyToParse(b, tick[b])
           \/ (b = previousAllowed \/ b \notin Allowed) /\ UNCHANGED <<previousAllowed, buffer>>
    BY <1>5 DEF EnterBuffer, Idle, ForceParse, server
  <2>2. budget'["elsewhere"] <= 1 /\ (Undisturbed' => Undisturbed)
    BY <2>1, Spending DEF Disturbance
  <2>3. LastAsked'
    BY <1>b, <2>1, <2>2 DEF LastAsked
  <2>4. \A c \in Allowed : Kept(c) \/ BroughtUp(c)
    <3> TAKE c \in Allowed
    <3>0. c \in Buffers
      BY BuffersAssumption
    <3>1. CASE previousAllowed' = b /\ b \in Allowed /\ FileReadyToParse(b, tick[b])
      <4>1. /\ alive /\ ready => SentOrNoted(buffer'[b], tick[b])
            /\ \A x \in Buffers : x # b => buffer'[x] = buffer[x]
        BY <1>a, <3>1, ParsingNotes DEF TInv
      <4> QED
        BY <2>1, <3>0, <3>1, <4>1 DEF Kept, BroughtUp, Parsed, Typing
    <3>2. CASE (b = previousAllowed \/ b \notin Allowed) /\ UNCHANGED <<previousAllowed, buffer>>
      BY <2>1, <3>2 DEF Kept, Parsed, Typing
    <3> QED
      BY <2>1, <3>1, <3>2
  <2>5. ~ready => buffer' = buffer
    BY <1>a, <2>1, ParsingNotes DEF TInv
  <2>6. NothingForgotten' /\ UnparsedUntilReady'
    BY <2>1, <2>2, <2>4, <2>5, KeptOrBroughtUp
  <2> QED
    BY <2>3, <2>6 DEF TInv
<1>6. ASSUME NEW b \in Buffers, RefactorOther(b)
      PROVE  TInv'
  <2>1. /\ current \in Allowed /\ b # current
        /\ tick' = [tick EXCEPT ![b] = tick[b] + 1]
        /\ UNCHANGED <<current, previousAllowed, insert, buffer, alive, ready, budget>>
    BY <1>6, BuffersAssumption DEF RefactorOther, Changed, server
  <2>2. LastAsked'
    BY <1>b, <1>c, <2>1 DEF TInv, LastAsked
  <2>3. NothingForgotten'
    <3> SUFFICES ASSUME NEW c \in Allowed, Undisturbed', c \in {current, previousAllowed},
                        ready, alive, Parsed(c), ~Typing(c)
                 PROVE  SentOrNoted(buffer[c], tick'[c])
      BY <2>1 DEF NothingForgotten, SentOrNoted, Parsed, Typing
    <3>1. Undisturbed /\ previousAllowed \in {current, None} /\ c # None /\ c \in Buffers
      BY <1>c, <2>1, NoneAssumption, BuffersAssumption DEF TInv, LastAsked
    <3>2. c = current /\ tick'[c] = tick[c]
      BY <1>a, <2>1, <3>1
    <3>3. SentOrNoted(buffer[c], tick[c])
      BY <3>1 DEF TInv, NothingForgotten
    <3> QED
      BY <3>2, <3>3
  <2>4. UnparsedUntilReady'
    BY <2>1 DEF TInv, UnparsedUntilReady, Parsed
  <2> QED
    BY <2>2, <2>3, <2>4 DEF TInv
<1>7. ASSUME NEW b \in Buffers, SaveFile(b)
      PROVE  TInv'
  <2>1. /\ AskedAbout(b) /\ UNCHANGED <<current, insert, tick, buffer, alive, ready>>
        /\ IF b = current THEN budget' = budget ELSE Spend("elsewhere")
    BY <1>7 DEF SaveFile, server
  <2>2. CASE b = current
    BY <1>c, <2>1, <2>2, StepHere
  <2>3. CASE b # current
    <3>1. budget'["elsewhere"] <= 1 /\ ~Undisturbed'
      BY <2>1, <2>3, Spending DEF Disturbance
    <3>2. LastAsked'
      BY <1>b, <2>1, <3>1 DEF LastAsked, AskedAbout
    <3>3. NothingForgotten' /\ UnparsedUntilReady'
      BY <2>1, <3>1 DEF TInv, NothingForgotten, UnparsedUntilReady, Parsed
    <3> QED
      BY <3>2, <3>3 DEF TInv
  <2> QED
    BY <2>2, <2>3
<1>8. ASSUME NEW b \in Buffers, ReloadFile(b)
      PROVE  TInv'
  <2>1. /\ b \in Allowed /\ previousAllowed' = b /\ FileReadyToParse(b, tick[b] + 1)
        /\ tick' = [tick EXCEPT ![b] = tick[b] + 1]
        /\ UNCHANGED <<current, insert, alive, ready>>
        /\ IF b = current THEN budget' = budget ELSE Spend("elsewhere")
    BY <1>8 DEF ReloadFile, Changed, ForceParse, server
  <2>2. /\ alive /\ ready => SentOrNoted(buffer'[b], tick[b] + 1)
        /\ ~ready => buffer' = buffer
        /\ \A c \in Buffers : c # b => buffer'[c] = buffer[c]
    BY <1>a, <2>1, ParsingNotes DEF TInv
  <2>3. CASE b = current
    <3>1. BroughtUp(current) /\ AskedAbout(current)
      BY <1>a, <2>1, <2>2, <2>3 DEF BroughtUp, AskedAbout
    <3>2. \A c \in Buffers : c # current => tick'[c] = tick[c]
      BY <1>a, <2>1, <2>3
    <3> QED
      BY <1>c, <2>1, <2>2, <2>3, <3>1, <3>2, StepHere
  <2>4. CASE b # current
    <3>1. budget'["elsewhere"] <= 1 /\ ~Undisturbed'
      BY <2>1, <2>4, Spending DEF Disturbance
    <3>2. LastAsked'
      BY <2>1, <3>1 DEF LastAsked
    <3>3. NothingForgotten' /\ UnparsedUntilReady'
      BY <2>1, <2>2, <3>1 DEF TInv, NothingForgotten, UnparsedUntilReady, Parsed
    <3> QED
      BY <3>2, <3>3 DEF TInv
  <2> QED
    BY <2>3, <2>4
<1>9. CASE BeginForceCompile
  <2>1. /\ current \in Allowed /\ FileReadyToParse(current, tick[current])
        /\ Spend("force")
        /\ UNCHANGED <<current, previousAllowed, tick, alive, ready>>
    BY <1>9, BuffersAssumption DEF BeginForceCompile, editor, server
  <2>2. /\ ~ready => buffer' = buffer
        /\ \A c \in Buffers : c # current => buffer'[c] = buffer[c]
        /\ BroughtUp(current)
    BY <1>a, <2>1, ParsingHere
  <2>3. budget'["elsewhere"] <= 1 /\ (Undisturbed' => Undisturbed)
    BY <2>1, Spending DEF Disturbance
  <2> QED
    BY <2>1, <2>2, <2>3, StepHere
<1>10. CASE FinishForceCompile \/ PollFileParseResponse
  <2>1. /\ UNCHANGED <<current, previousAllowed, insert, tick, alive, ready, budget>>
        /\ \E block \in BOOLEAN : \E new :
             /\ \/ new = HandleFileParseRequest(current, block)
                \/ /\ new = SendParseRequest(HandleFileParseRequest(current, block),
                                             tick[current])
                   /\ ready
             /\ buffer' = [buffer EXCEPT ![current] = new]
    <3>1. CASE FinishForceCompile
      BY <3>1 DEF FinishForceCompile, editor, server
    <3>2. CASE PollFileParseResponse
      BY <3>2 DEF PollFileParseResponse, editor, server
    <3> QED
      BY <1>10, <3>1, <3>2
  <2>0. PICK block \in BOOLEAN : \E new :
          /\ \/ new = HandleFileParseRequest(current, block)
             \/ /\ new = SendParseRequest(HandleFileParseRequest(current, block),
                                          tick[current])
                /\ ready
          /\ buffer' = [buffer EXCEPT ![current] = new]
    BY <2>1
  <2>2. PICK new :
          /\ \/ new = HandleFileParseRequest(current, block)
             \/ /\ new = SendParseRequest(HandleFileParseRequest(current, block),
                                          tick[current])
                /\ ready
          /\ buffer' = [buffer EXCEPT ![current] = new]
    BY <2>0
  <2>3. /\ SentOrNoted(buffer'[current], tick[current])
           \/ /\ buffer'[current].parseTick = buffer[current].parseTick
              /\ buffer'[current].shouldResend = buffer[current].shouldResend
              /\ buffer'[current].request = NoRequest <=> ~Parsed(current)
        /\ ~ready => buffer' = buffer
        /\ \A c \in Buffers : c # current => buffer'[c] = buffer[c]
    BY <1>a, <2>2, CollectingNotes DEF TInv
  <2>4. LastAsked'
    BY <1>c, <2>1, AskingHere
  <2>5. \A c \in Allowed : Kept(c) \/ BroughtUp(c)
    BY <2>1, <2>3, BuffersAssumption DEF Kept, BroughtUp, Parsed, Typing
  <2>6. NothingForgotten' /\ UnparsedUntilReady'
    BY <1>c, <2>1, <2>3, <2>5, KeptOrBroughtUp
  <2> QED
    BY <2>4, <2>6 DEF TInv
<1>11. ASSUME NEW b \in Buffers, Answer(b)
       PROVE  TInv'
  <2>1. /\ UNCHANGED <<current, previousAllowed, insert, tick, alive, ready>>
        /\ Pending(b)
        /\ \E outcome \in {"answered", "extraConf"} :
             buffer' = [buffer EXCEPT ![b].request.outcome = outcome]
        /\ budget' = budget \/ Spend("confirm")
    BY <1>11 DEF Answer, editor, server
  <2>2. budget'["elsewhere"] <= 1 /\ (Undisturbed' => Undisturbed)
    BY <1>c, <2>1, Spending DEF Disturbance
  <2>3. LastAsked'
    BY <2>1, <2>2, AskingHere
  <2>4. PICK outcome \in {"answered", "extraConf"} :
          buffer' = [buffer EXCEPT ![b].request.outcome = outcome]
    BY <2>1
  <2>5. /\ buffer'[b].parseTick = buffer[b].parseTick
        /\ buffer'[b].shouldResend = buffer[b].shouldResend
        /\ \A c \in Buffers : c # b => buffer'[c] = buffer[c]
    BY <1>a, <2>4 DEF BufferType
  <2>6. Parsed(b)
    BY <2>1 DEF Pending, Parsed, NoRequest
  <2>7. \A c \in Allowed : Kept(c)
    BY <2>1, <2>5, <2>6, BuffersAssumption DEF Kept, Parsed, Typing
  <2>8. ready
    BY <2>6 DEF TInv, UnparsedUntilReady
  <2>9. NothingForgotten' /\ UnparsedUntilReady'
    BY <2>1, <2>2, <2>7, <2>8, KeptOrBroughtUp
  <2> QED
    BY <2>3, <2>9 DEF TInv
<1>12. CASE Crash \/ ServerIsDead
  <2>1. /\ UNCHANGED <<current, previousAllowed, insert, tick, buffer, ready, budget>>
        /\ alive' => alive
    BY <1>12 DEF Crash, ServerIsDead, editor
  <2>2. LastAsked'
    BY <1>c, <2>1, AskingHere
  <2>3. NothingForgotten' /\ UnparsedUntilReady'
    BY <1>c, <2>1 DEF TInv, NothingForgotten, UnparsedUntilReady, Parsed, Typing
  <2> QED
    BY <2>2, <2>3 DEF TInv
<1>13. CASE ServerIsReady
  <2>1. /\ alive /\ ready' = TRUE /\ AskedAbout(current)
        /\ UNCHANGED <<current, insert, tick, alive, budget>>
        /\ buffer' = IF current \in Allowed
                     THEN [buffer EXCEPT ![current] =
                             SendParseRequest(buffer[current], tick[current])]
                     ELSE buffer
    BY <1>13 DEF ServerIsReady
  <2>2. /\ LastAsked'
        /\ \A c \in Allowed : c \in {current', previousAllowed'} =>
                                c \in {current, previousAllowed}
    BY <1>c, <2>1, AskingHere
  <2>3. NothingForgotten'
    <3> SUFFICES ASSUME NEW c \in Allowed, Undisturbed', c \in {current', previousAllowed'},
                        Parsed(c)', ~Typing(c)'
                 PROVE  SentOrNoted(buffer'[c], tick'[c])
      BY DEF NothingForgotten, SentOrNoted
    <3>0. c \in Buffers
      BY BuffersAssumption
    <3>1. CASE c = current
      <4>1. SentOrNoted(SendParseRequest(buffer[c], tick[c]), tick[c])
        BY <1>a, <3>0, SendingNotes
      <4> QED
        BY <1>a, <2>1, <3>1, <4>1
    <3>2. CASE c # current
      <4>1. buffer'[c] = buffer[c] /\ tick'[c] = tick[c]
        BY <1>a, <2>1, <3>0, <3>2
      <4>2. Parsed(c) /\ ready
        BY <3>0, <4>1 DEF Parsed, TInv, UnparsedUntilReady
      <4>3. SentOrNoted(buffer[c], tick[c])
        BY <1>c, <2>1, <2>2, <3>2, <4>2 DEF TInv, NothingForgotten, Typing
      <4> QED
        BY <4>1, <4>3
    <3> QED
      BY <3>1, <3>2
  <2>4. UnparsedUntilReady'
    BY <2>1 DEF UnparsedUntilReady
  <2> QED
    BY <2>2, <2>3, <2>4 DEF TInv
<1>14. CASE RestartServer
  <2>1. /\ buffer' = [b \in Buffers |-> NewBuffer] /\ Spend("restart")
        /\ UNCHANGED <<current, previousAllowed, insert, tick>>
    BY <1>14 DEF RestartServer, editor
  <2>2. budget'["elsewhere"] <= 1 /\ (Undisturbed' => Undisturbed)
    BY <2>1, Spending DEF Disturbance
  <2>3. LastAsked'
    BY <2>1, <2>2, AskingHere
  <2>4. \A b \in Buffers : ~Parsed(b)'
    BY <2>1 DEF NewBuffer, Parsed
  <2>5. NothingForgotten' /\ UnparsedUntilReady'
    BY <2>4, BuffersAssumption DEF NothingForgotten, UnparsedUntilReady
  <2> QED
    BY <2>3, <2>5 DEF TInv
<1>15. CASE UNCHANGED vars
  <2>1. UNCHANGED <<current, previousAllowed, insert, tick, buffer, alive, ready, budget>>
    BY <1>15 DEF vars, editor, server
  <2> QED
    BY <1>c, <2>1, StepHere
<1> QED
  BY <1>1, <1>2, <1>3, <1>4, <1>5, <1>6, <1>7, <1>8, <1>9, <1>10, <1>11, <1>12, <1>13,
     <1>14, <1>15 DEF Next, User

(* s:OnBufferEnter, Buffer.SendParseRequest and their callers: in normal   *)
(* mode the text of a parsed buffer is either known to ycmd or noted to be *)
(* sent again, whatever was edited, from whichever window, while a request *)
(* was under way.                                                          *)
THEOREM NoTextIsForgotten == Spec => []TextIsSentOrNoted
<1>1. Init => TInv
  BY InitForgetsNothing
<1>2. IInv' => TypeOK'
  BY DEF IInv
<1>3. TInv => TextIsSentOrNoted
  <2> SUFFICES ASSUME TInv, Undisturbed, current \in Allowed, ~insert, ready, alive,
                      Parsed(current)
               PROVE  ~NeedsReparse(current, tick[current]) \/ buffer[current].shouldResend
    BY DEF TextIsSentOrNoted
  <2>1. SentOrNoted(buffer[current], tick[current])
    BY DEF TInv, NothingForgotten, Typing
  <2> QED
    BY <2>1 DEF SentOrNoted, NeedsReparse
<1> QED
  BY <1>1, <1>2, <1>3, TextStep, Invariance, PTL DEF Spec

-----------------------------------------------------------------------------
(* No response waits for a timer that does not run.  This needs that no    *)
(* behaviour has both a forced compilation and a question about an extra   *)
(* configuration file: HandleFileParseRequest of a forced compilation that *)
(* confirms one leaves a request to be sent again without starting the     *)
(* poller (README, section 6).                                             *)
NoConfirmationWhileForcing ==
  \A allowance \in Budgets : allowance["force"] = 0 \/ allowance["confirm"] = 0

(* Nothing is to come of the Buffer `buf' of b.                            *)
AtRest(b, buf) ==
  /\ ~ShouldResendParseRequest(buf)
  /\ b \in Native /\ buf.request # NoRequest => buf.handledTick = buf.parseTick

(* While a forced compilation blocks it is Vim that waits for the current  *)
(* buffer, so only its requests to be sent again need the poller.          *)
Watched ==
  \A b \in Allowed :
    Undisturbed /\ b \in {current, previousAllowed} /\ ~armed =>
      \/ AtRest(b, buffer[b])
      \/ forcing /\ b = current /\ ~ShouldResendParseRequest(buffer[b])

(* Only an allowed buffer is ever parsed, a Buffer without a request has   *)
(* nothing to send again, and a response is not applied before it is there.*)
Tidy(b, buf) ==
  /\ buf.request.outcome = "pending" => buf.request.applied = 0
  /\ buf.request = NoRequest => ~ShouldResendParseRequest(buf)
  /\ buf.request # NoRequest => b \in Allowed

NeverForcing == budget["force"] = 0 /\ ~forcing

NeverConfirming ==
  /\ budget["confirm"] = 0
  /\ \A b \in Buffers : buffer[b].request.outcome # "extraConf"

WInv ==
  /\ Watched
  /\ \A b \in Buffers : Tidy(b, buffer[b])
  /\ forcing => current \in Native
  /\ NeverForcing \/ NeverConfirming

LEMMA InitWatched == ASSUME NoConfirmationWhileForcing PROVE Init => WInv
<1> SUFFICES ASSUME Init
             PROVE  WInv
  OBVIOUS
<1>1. \A b \in Buffers : AtRest(b, buffer[b]) /\ Tidy(b, buffer[b])
                         /\ buffer[b].request.outcome # "extraConf"
  BY DEF Init, NewBuffer, NoRequest, AtRest, Tidy, ShouldResendParseRequest
<1>2. NeverForcing \/ NeverConfirming
  BY <1>1 DEF Init, NoConfirmationWhileForcing, NeverForcing, NeverConfirming
<1> QED
  BY <1>1, <1>2, BuffersAssumption DEF WInv, Watched, Init

(* Sending keeps a Buffer tidy and answers nothing.                        *)
LEMMA SendingTidies ==
  ASSUME NEW b \in Allowed, NEW buf \in BufferType, NEW now \in Nat, Tidy(b, buf)
  PROVE  LET sent == SendParseRequest(buf, now)
         IN /\ Tidy(b, sent)
            /\ sent.request.outcome = "extraConf" => buf.request.outcome = "extraConf"
            /\ buf.request.outcome # "pending" => ~ShouldResendParseRequest(sent)
<1> DEFINE sent == SendParseRequest(buf, now)
<1>1. CASE buf.request.outcome = "pending"
  <2>1. sent = [buf EXCEPT !.shouldResend = TRUE]
    BY <1>1 DEF SendParseRequest
  <2>2. sent.request = buf.request
    BY <2>1 DEF BufferType
  <2>3. buf.request # NoRequest
    BY <1>1 DEF NoRequest
  <2> QED
    BY <1>1, <2>2, <2>3 DEF Tidy
<1>2. CASE buf.request.outcome # "pending"
  <2>1. sent = [parseTick |-> now, handledTick |-> buf.handledTick - 1,
                shouldResend |-> FALSE,
                request |-> [content |-> now, outcome |-> "pending",
                             applied |-> 0, resend |-> FALSE]]
    BY <1>2 DEF SendParseRequest
  <2>2. sent.request # NoRequest
    BY <2>1 DEF NoRequest
  <2> QED
    BY <2>1, <2>2 DEF Tidy, ShouldResendParseRequest
<1> QED
  BY <1>1, <1>2

(* Handling a response that is there keeps a Buffer tidy, leaves nothing to*)
(* be applied, and asks to be sent again only for a confirmed file.        *)
LEMMA HandlingTidies ==
  ASSUME IInv, NEW b \in Buffers, NEW block \in BOOLEAN, Tidy(b, buffer[b]),
         ready \/ ~Parsed(b), ParseRequestReady(b, block) \/ ~Parsed(b),
         ~Pending(b) \/ ~block
  PROVE  LET handled == HandleFileParseRequest(b, block)
         IN /\ Tidy(b, handled)
            /\ handled.request.outcome = buffer[b].request.outcome
            /\ ShouldResendParseRequest(handled) =>
                 ShouldResendParseRequest(buffer[b]) \/ handled.request.outcome = "extraConf"
            /\ b \in Native /\ handled.request # NoRequest =>
                 handled.handledTick = handled.parseTick
<1> DEFINE handled == HandleFileParseRequest(b, block)
<1>0. /\ buffer[b] \in BufferType /\ buffer[b].request \in Request
      /\ TypeOK /\ TicksInOrder(buffer[b], tick[b])
  BY DEF IInv, TypeOK, BufferType
<1>1. CASE Handles(b, block)
  <2>1. handled = [parseTick |-> buffer[b].parseTick, handledTick |-> buffer[b].parseTick,
                   shouldResend |-> buffer[b].shouldResend,
                   request |-> Applied(buffer[b].request)]
    BY <1>1 DEF HandleFileParseRequest, MarkResponseHandled
  <2>2. Applied(buffer[b].request).outcome = buffer[b].request.outcome
    BY <1>0 DEF Applied, Request
  <2>3. Applied(buffer[b].request).resend = (buffer[b].request.outcome = "extraConf")
    BY <1>0 DEF Applied, Request
  <2>4. ~Pending(b) /\ Parsed(b)
    BY <1>1 DEF Handles, ParseRequestReady, Parsed
  <2>5. handled.request # NoRequest
    BY <1>0, <2>4, HandlingForgetsNothing
  <2>6. /\ handled.request.outcome = buffer[b].request.outcome
        /\ handled.handledTick = handled.parseTick
        /\ handled.shouldResend = buffer[b].shouldResend
        /\ handled.request.resend = (buffer[b].request.outcome = "extraConf")
    BY <2>1, <2>2, <2>3
  <2> HIDE DEF handled
  <2>7. Tidy(b, handled)
    BY <2>4, <2>5, <2>6 DEF Tidy, Pending, Parsed
  <2>8. ShouldResendParseRequest(handled) =>
          ShouldResendParseRequest(buffer[b]) \/ handled.request.outcome = "extraConf"
    BY <2>6 DEF ShouldResendParseRequest
  <2> QED
    BY <2>6, <2>7, <2>8 DEF handled
<1>2. CASE ~Handles(b, block)
  <2>1. handled = buffer[b]
    BY <1>2 DEF HandleFileParseRequest
  <2> QED
    BY <1>2, <2>1 DEF Handles, IsResponseHandled, Parsed
<1> QED
  BY <1>1, <1>2

(* s:OnFileReadyToParse keeps every Buffer tidy.                           *)
LEMMA ParsingTidies ==
  ASSUME TypeOK, NEW b \in Allowed, NEW now \in Nat,
         FileReadyToParse(b, now) \/ ParseIfChanged(b, now),
         \A c \in Buffers : Tidy(c, buffer[c])
  PROVE  \A c \in Buffers : /\ Tidy(c, buffer'[c])
                            /\ buffer'[c].request.outcome = "extraConf" =>
                                 buffer[c].request.outcome = "extraConf"
<1>0. buffer \in [Buffers -> BufferType] /\ b \in Buffers
  BY BuffersAssumption DEF TypeOK
<1>1. CASE buffer' = buffer
  BY <1>1
<1>2. CASE buffer' = [buffer EXCEPT ![b] = SendParseRequest(buffer[b], now)]
  <2>1. /\ Tidy(b, SendParseRequest(buffer[b], now))
        /\ SendParseRequest(buffer[b], now).request.outcome = "extraConf" =>
             buffer[b].request.outcome = "extraConf"
    BY <1>0, SendingTidies
  <2> QED
    BY <1>0, <1>2, <2>1
<1> QED
  BY <1>1, <1>2 DEF FileReadyToParse, ParseIfChanged, ForceParse

(* A bound that is used up stays so.                                       *)
LEMMA SpendingLowers ==
  ASSUME TypeOK, NEW what \in Disturbance, Spend(what), NEW other \in Disturbance,
         budget[other] = 0
  PROVE  budget'[other] = 0 /\ what # other
BY DEF TypeOK, Spend

-----------------------------------------------------------------------------
(* A step that starts the poller over, or leaves the Buffers and the poller*)
(* alone and looks at no buffer that was not watched before.               *)
LEMMA ArmedOrAlone ==
  ASSUME WInv, Undisturbed' => Undisturbed,
         \/ armed' = TRUE
         \/ /\ buffer' = buffer /\ armed' = armed
            /\ forcing' = forcing /\ (forcing => current' = current)
            /\ \A c \in Allowed : c \in {current', previousAllowed'} =>
                                    c \in {current, previousAllowed}
  PROVE  Watched'
<1>1. CASE armed' = TRUE
  BY <1>1 DEF Watched
<1>2. CASE armed' # TRUE
  BY <1>2 DEF WInv, Watched, AtRest, ShouldResendParseRequest
<1> QED
  BY <1>1, <1>2

(* The bounds and the outcomes of the requests keep the hypothesis.        *)
LEMMA StillOneOfTheTwo ==
  ASSUME WInv, TypeOK,
         \/ budget' = budget
         \/ \E what \in Disturbance :
              Spend(what) /\ (NeverForcing => ~forcing' \/ what = "force")
                          /\ (NeverConfirming => what # "confirm"),
         budget' = budget => (NeverForcing => ~forcing'),
         \A c \in Buffers : buffer'[c].request.outcome = "extraConf" =>
                              \/ buffer[c].request.outcome = "extraConf"
                              \/ ~NeverConfirming
  PROVE  NeverForcing' \/ NeverConfirming'
<1> DEFINE spent(what) == /\ Spend(what)
                          /\ NeverForcing => ~forcing' \/ what = "force"
                          /\ NeverConfirming => what # "confirm"
<1>1. CASE budget' = budget
  BY <1>1 DEF WInv, NeverForcing, NeverConfirming
<1>2. CASE budget' # budget
  <2>1. PICK what \in Disturbance : spent(what)
    BY <1>2
  <2>2. "force" \in Disturbance /\ "confirm" \in Disturbance
    BY DEF Disturbance
  <2>3. CASE NeverForcing
    <3>1. budget'["force"] = 0 /\ what # "force"
      BY <2>1, <2>2, <2>3, SpendingLowers DEF NeverForcing
    <3> QED
      BY <2>1, <2>3, <3>1 DEF NeverForcing
  <2>4. CASE NeverConfirming
    <3>1. budget'["confirm"] = 0
      BY <2>1, <2>2, <2>4, SpendingLowers DEF NeverConfirming
    <3> QED
      BY <2>4, <3>1 DEF NeverConfirming
  <2> QED
    BY <2>3, <2>4 DEF WInv
<1> QED
  BY <1>1, <1>2

-----------------------------------------------------------------------------
LEMMA WatchedStep == WInv /\ IInv /\ TInv /\ [Next]_vars => WInv'
<1> SUFFICES ASSUME WInv, IInv, TInv, [Next]_vars
             PROVE  WInv'
  OBVIOUS
<1> DEFINE Confirmable == \A c \in Buffers :
             buffer'[c].request.outcome = "extraConf" =>
               buffer[c].request.outcome = "extraConf" \/ ~NeverConfirming
           AllTidy == \A c \in Buffers : Tidy(c, buffer'[c])
<1>a. /\ TypeOK /\ current \in Buffers /\ \A b \in Buffers : tick[b] \in Nat /\ tick[b] + 1 \in Nat
      /\ buffer \in [Buffers -> BufferType]
      /\ \A b \in Buffers : Tidy(b, buffer[b])
  BY DEF TInv, TypeOK, WInv
<1>b. buffer' = buffer => AllTidy /\ Confirmable
  BY <1>a
<1>c. \A b \in Allowed, now \in Nat :
        FileReadyToParse(b, now) \/ ParseIfChanged(b, now) => AllTidy /\ Confirmable
  BY <1>a, ParsingTidies
<1>d. budget' = budget => (Undisturbed' => Undisturbed)
  BY DEF Undisturbed
<1>e. \A b : b = current /\ AskedAbout(b) /\ current' = current =>
        \A c \in Allowed : c \in {current', previousAllowed'} => c \in {current, previousAllowed}
  BY DEF AskedAbout
<1>f. forcing' = forcing /\ budget' = budget /\ Confirmable => NeverForcing' \/ NeverConfirming'
  BY <1>a, StillOneOfTheTwo DEF NeverForcing
<1>g. ASSUME NEW what \in Disturbance, Spend(what), Confirmable,
             forcing' = forcing \/ what = "force", what # "confirm"
      PROVE  NeverForcing' \/ NeverConfirming'
  <2>1. budget' # budget
    BY <1>a, <1>g DEF Spend, TypeOK
  <2> QED
    BY <1>a, <1>g, <2>1, StillOneOfTheTwo DEF NeverForcing
<1>1. CASE EditText \/ LeaveInsert
  <2>1. PICK now \in Nat : IF current \in Allowed
                           THEN ParseIfChanged(current, now)
                           ELSE buffer' = buffer /\ armed' = armed
    BY <1>1, <1>a DEF EditText, LeaveInsert
  <2>2. AskedAbout(current) /\ UNCHANGED <<current, forcing, budget>>
    BY <1>1 DEF EditText, LeaveInsert
  <2>3. AllTidy /\ Confirmable
    BY <1>b, <1>c, <2>1
  <2>4. armed' = TRUE \/ (buffer' = buffer /\ armed' = armed)
    BY <2>1 DEF ParseIfChanged, ForceParse
  <2>5. Watched'
    BY <1>d, <1>e, <2>2, <2>4, ArmedOrAlone
  <2> QED
    BY <1>f, <2>2, <2>3, <2>5 DEF WInv
<1>2. CASE TypeText
  <2>1. AskedAbout(current) /\ UNCHANGED <<current, buffer, armed, forcing, budget>>
    BY <1>2 DEF TypeText
  <2>2. Watched'
    BY <1>d, <1>e, <2>1, ArmedOrAlone
  <2> QED
    BY <1>b, <1>f, <2>1, <2>2 DEF WInv
<1>3. CASE SetFileType
  <2>1. /\ IF current \in Allowed
           THEN FileReadyToParse(current, tick[current]) /\ armed' = TRUE
           ELSE buffer' = buffer /\ armed' = armed
        /\ AskedAbout(current) /\ Spend("visit")
        /\ UNCHANGED <<current, forcing>>
    BY <1>3 DEF SetFileType, ForceParse
  <2>2. AllTidy /\ Confirmable
    BY <1>a, <1>b, <1>c, <2>1
  <2>3. Undisturbed' => Undisturbed
    BY <2>1, Spending DEF Disturbance
  <2>4. Watched'
    BY <1>e, <2>1, <2>3, ArmedOrAlone
  <2> QED
    BY <1>g, <2>1, <2>2, <2>4 DEF WInv, Disturbance
<1>4. ASSUME NEW b \in Buffers, EnterBuffer(b)
      PROVE  WInv'
  <2>1. /\ \/ b \in Allowed /\ FileReadyToParse(b, tick[b]) /\ armed' = TRUE
           \/ /\ b = previousAllowed \/ b \notin Allowed
              /\ UNCHANGED <<previousAllowed, buffer, armed>>
        /\ ~forcing /\ current' = b /\ Spend("visit") /\ UNCHANGED forcing
    BY <1>4 DEF EnterBuffer, ForceParse, Idle
  <2>2. AllTidy /\ Confirmable
    BY <1>a, <1>b, <1>c, <2>1
  <2>3. Undisturbed' => Undisturbed
    BY <2>1, Spending DEF Disturbance
  <2>4. Watched'
    BY <2>1, <2>3, ArmedOrAlone
  <2> QED
    BY <1>g, <2>1, <2>2, <2>4 DEF WInv, Disturbance
<1>5. ASSUME NEW b \in Buffers, RefactorOther(b)
      PROVE  WInv'
  <2>1. UNCHANGED <<current, previousAllowed, buffer, armed, forcing, budget>>
    BY <1>5 DEF RefactorOther
  <2>2. Watched'
    BY <1>d, <2>1, ArmedOrAlone
  <2> QED
    BY <1>b, <1>f, <2>1, <2>2 DEF WInv
<1>6. ASSUME NEW b \in Buffers, SaveFile(b) \/ ReloadFile(b)
      PROVE  WInv'
  <2>1. /\ \/ AskedAbout(b) /\ buffer' = buffer /\ armed' = armed
           \/ b \in Allowed /\ FileReadyToParse(b, tick[b] + 1) /\ armed' = TRUE
        /\ IF b = current THEN budget' = budget ELSE Spend("elsewhere")
        /\ UNCHANGED <<current, forcing>>
    BY <1>6 DEF SaveFile, ReloadFile, ForceParse
  <2>2. AllTidy /\ Confirmable
    BY <1>a, <1>b, <1>c, <2>1
  <2>3. CASE b = current
    <3>1. Watched'
      BY <1>d, <1>e, <2>1, <2>3, ArmedOrAlone
    <3> QED
      BY <1>f, <2>1, <2>2, <2>3, <3>1 DEF WInv
  <2>4. CASE b # current
    <3>1. ~Undisturbed'
      BY <2>1, <2>4, Spending DEF Disturbance
    <3>2. Watched'
      BY <3>1 DEF Watched
    <3> QED
      BY <1>g, <2>1, <2>2, <2>4, <3>2 DEF WInv, Disturbance
  <2> QED
    BY <2>3, <2>4
<1>7. CASE BeginForceCompile
  <2>1. /\ current \in Native /\ current \in Allowed
        /\ FileReadyToParse(current, tick[current])
        /\ ~forcing /\ forcing' /\ Spend("force")
        /\ UNCHANGED <<current, previousAllowed, armed>>
    BY <1>7, BuffersAssumption DEF BeginForceCompile, Idle, editor
  <2>2. AllTidy /\ Confirmable
    BY <1>a, <1>c, <2>1
  <2>3. Undisturbed' => Undisturbed
    BY <2>1, Spending DEF Disturbance
  <2>4. Watched'
    <3> SUFFICES ASSUME Undisturbed', ~armed
                 PROVE  ~ShouldResendParseRequest(buffer'[current])
      BY <2>1, <2>3, NoneAssumption, BuffersAssumption DEF TInv, LastAsked, Watched
    <3>1. AtRest(current, buffer[current])
      BY <2>1, <2>3 DEF WInv, Watched
    <3>2. ~Pending(current)
      <4> SUFFICES ASSUME Pending(current)
                   PROVE  FALSE
        OBVIOUS
      <4>1. buffer[current].request # NoRequest /\ buffer[current].request.applied = 0
        BY <1>a DEF Pending, NoRequest, Tidy
      <4>2. TicksInOrder(buffer[current], tick[current])
        BY <1>a DEF IInv
      <4> QED
        BY <2>1, <3>1, <4>1, <4>2 DEF AtRest, TicksInOrder
    <3>3. ~ShouldResendParseRequest(SendParseRequest(buffer[current], tick[current]))
      BY <1>a, <2>1, <3>2, SendingTidies DEF Pending
    <3> QED
      BY <1>a, <2>1, <3>1, <3>3 DEF FileReadyToParse, AtRest
  <2> QED
    BY <1>g, <2>1, <2>2, <2>4 DEF WInv, Disturbance
<1>8. CASE FinishForceCompile
  <2> DEFINE handled == HandleFileParseRequest(current, TRUE)
  <2>1. /\ forcing /\ current \in Native /\ current \in Allowed /\ ~Pending(current)
        /\ buffer' = [buffer EXCEPT ![current] = handled]
        /\ ~forcing' /\ UNCHANGED <<current, previousAllowed, armed, budget>>
    BY <1>8, BuffersAssumption DEF FinishForceCompile, editor, WInv
  <2>2. ready \/ ~Parsed(current)
    BY <1>a DEF TInv, UnparsedUntilReady
  <2>3. ParseRequestReady(current, TRUE) \/ ~Parsed(current)
    BY DEF ParseRequestReady, Parsed
  <2>4. /\ Tidy(current, handled)
        /\ handled.request.outcome = buffer[current].request.outcome
        /\ ShouldResendParseRequest(handled) =>
             \/ ShouldResendParseRequest(buffer[current])
             \/ handled.request.outcome = "extraConf"
        /\ handled.request # NoRequest => handled.handledTick = handled.parseTick
    BY <1>a, <2>1, <2>2, <2>3, HandlingTidies
  <2> HIDE DEF handled
  <2>5. /\ buffer'[current] = handled
        /\ \A c \in Buffers : c # current => buffer'[c] = buffer[c]
    BY <1>a, <2>1
  <2>6. AllTidy /\ Confirmable
    BY <1>a, <2>4, <2>5
  <2>7. NeverConfirming
    BY <2>1 DEF WInv, NeverForcing
  <2>8. handled.request.outcome # "extraConf"
    BY <1>a, <2>4, <2>7 DEF NeverConfirming
  <2>9. Watched'
    <3> SUFFICES ASSUME Undisturbed, ~armed
                 PROVE  AtRest(current, handled)
      BY <1>d, <2>1, <2>5, NoneAssumption, BuffersAssumption DEF TInv, LastAsked, Watched
    <3>1. ~ShouldResendParseRequest(buffer[current])
      BY <2>1 DEF WInv, Watched, AtRest
    <3> QED
      BY <2>4, <2>8, <3>1 DEF AtRest
  <2>10. NeverConfirming'
    BY <2>1, <2>6, <2>7 DEF NeverConfirming
  <2> QED
    BY <2>1, <2>6, <2>9, <2>10 DEF WInv
<1>9. CASE PollFileParseResponse
  <2> DEFINE handled == HandleFileParseRequest(current, FALSE)
             resend == ShouldResendParseRequest(handled)
             sent == SendParseRequest(handled, tick[current])
  <2>1. /\ armed /\ ~forcing /\ FileParseRequestReady /\ armed' = resend
        /\ buffer' = [buffer EXCEPT ![current] = IF resend /\ alive /\ ready THEN sent ELSE handled]
        /\ UNCHANGED <<current, previousAllowed, forcing, budget>>
    BY <1>9 DEF PollFileParseResponse, editor
  <2>2. ready \/ ~Parsed(current)
    BY <1>a DEF TInv, UnparsedUntilReady
  <2>3. ParseRequestReady(current, FALSE) \/ ~Parsed(current)
    BY <2>1, <2>2 DEF FileParseRequestReady
  <2>4. /\ Tidy(current, handled)
        /\ handled.request.outcome = buffer[current].request.outcome
        /\ current \in Native /\ handled.request # NoRequest =>
             handled.handledTick = handled.parseTick
    BY <1>a, <2>2, <2>3, HandlingTidies
  <2>5. handled \in BufferType
    BY <1>a, HandlingForgetsNothing
  <2> HIDE DEF handled
  <2>6. resend => current \in Allowed
    BY <2>4 DEF Tidy
  <2>7. resend => /\ Tidy(current, sent)
                  /\ sent.request.outcome = "extraConf" => handled.request.outcome = "extraConf"
    BY <1>a, <2>4, <2>5, <2>6, SendingTidies
  <2>8. \A c \in Buffers : c # current => buffer'[c] = buffer[c]
    BY <1>a, <2>1
  <2>9. AllTidy /\ Confirmable
    BY <1>a, <2>1, <2>4, <2>7, <2>8
  <2>10. Watched'
    <3> SUFFICES ASSUME ~resend, Undisturbed,
                        NEW c \in Allowed, c \in {current, previousAllowed}
                 PROVE  AtRest(c, buffer'[c])
      BY <1>d, <2>1 DEF Watched, AtRest, ShouldResendParseRequest
    <3>0. c \in Buffers /\ buffer'[current] = handled
      BY <1>a, <2>1, BuffersAssumption
    <3>1. CASE c = current
      BY <2>4, <3>0, <3>1 DEF AtRest
    <3>2. CASE c # current
      <4>1. current \notin Allowed
        BY <3>2, NoneAssumption, BuffersAssumption DEF TInv, LastAsked
      <4>2. ~Parsed(current) /\ ~ready
        BY <1>a, <2>1, <4>1 DEF Tidy, Parsed, FileParseRequestReady, ParseRequestReady
      <4>3. ~Parsed(c) /\ Tidy(c, buffer[c])
        BY <1>a, <3>0, <4>2 DEF TInv, UnparsedUntilReady
      <4> QED
        BY <2>8, <3>0, <3>2, <4>3 DEF AtRest, Tidy, Parsed
    <3> QED
      BY <3>1, <3>2
  <2> QED
    BY <1>f, <2>1, <2>9, <2>10 DEF WInv
<1>10. ASSUME NEW b \in Buffers, Answer(b)
       PROVE  WInv'
  <2>1. /\ Pending(b) /\ UNCHANGED <<current, previousAllowed, armed, forcing>>
        /\ \/ /\ buffer' = [buffer EXCEPT ![b].request.outcome = "answered"]
              /\ budget' = budget
           \/ /\ buffer' = [buffer EXCEPT ![b].request.outcome = "extraConf"]
              /\ Spend("confirm")
    BY <1>10 DEF Answer, editor
  <2>2. PICK outcome \in {"answered", "extraConf"} :
          /\ buffer' = [buffer EXCEPT ![b].request.outcome = outcome]
          /\ IF outcome = "answered" THEN budget' = budget ELSE Spend("confirm")
    BY <2>1
  <2>3. buffer[b].request \in Request /\ buffer[b] \in BufferType
    BY <1>a DEF BufferType
  <2> DEFINE request == [buffer[b].request EXCEPT !.outcome = outcome]
  <2>4. /\ buffer'[b].parseTick = buffer[b].parseTick
        /\ buffer'[b].handledTick = buffer[b].handledTick
        /\ buffer'[b].shouldResend = buffer[b].shouldResend
        /\ buffer'[b].request = request
        /\ \A c \in Buffers : c # b => buffer'[c] = buffer[c]
    BY <1>a, <2>2, <2>3 DEF BufferType
  <2>5. /\ request.outcome = outcome /\ request # NoRequest
        /\ request.resend = buffer[b].request.resend
        /\ request.applied = buffer[b].request.applied
    BY <2>2, <2>3 DEF Request, NoRequest
  <2> HIDE DEF request
  <2>6. buffer[b].request # NoRequest
    BY <2>1 DEF Pending, NoRequest
  <2>7. AllTidy
    BY <1>a, <2>2, <2>4, <2>5, <2>6 DEF Tidy
  <2>8. Undisturbed' => Undisturbed
    BY <1>d, <2>2, Spending DEF Disturbance
  <2>9. \A c \in Buffers :
          /\ AtRest(c, buffer[c]) => AtRest(c, buffer'[c])
          /\ ShouldResendParseRequest(buffer'[c]) <=> ShouldResendParseRequest(buffer[c])
    BY <2>4, <2>5, <2>6 DEF AtRest, ShouldResendParseRequest
  <2>10. Watched'
    BY <2>1, <2>8, <2>9, BuffersAssumption DEF WInv, Watched
  <2>11. NeverForcing' \/ NeverConfirming'
    <3>1. CASE outcome = "answered"
      <4>1. Confirmable
        BY <2>4, <2>5, <3>1
      <4> QED
        BY <1>f, <2>1, <2>2, <3>1, <4>1
    <3>2. CASE outcome = "extraConf"
      <4>1. "force" \in Disturbance /\ "confirm" \in Disturbance /\ Spend("confirm")
        BY <2>2, <3>2 DEF Disturbance
      <4>2. NeverForcing
        BY <1>a, <4>1, SpendingLowers DEF WInv, NeverConfirming
      <4> QED
        BY <1>a, <2>1, <4>1, <4>2, SpendingLowers DEF NeverForcing
    <3> QED
      BY <3>1, <3>2
  <2> QED
    BY <2>1, <2>7, <2>10, <2>11 DEF WInv
<1>11. CASE Crash \/ ServerIsDead
  <2>1. UNCHANGED <<current, previousAllowed, buffer, armed, forcing, budget>>
    BY <1>11 DEF Crash, ServerIsDead, editor
  <2>2. Watched'
    BY <1>d, <2>1, ArmedOrAlone
  <2> QED
    BY <1>b, <1>f, <2>1, <2>2 DEF WInv
<1>12. CASE ServerIsReady
  <2>1. /\ AskedAbout(current) /\ UNCHANGED <<current, forcing, budget>>
        /\ IF current \in Allowed
           THEN /\ buffer' = [buffer EXCEPT ![current] =
                                SendParseRequest(buffer[current], tick[current])]
                /\ armed' = TRUE
           ELSE buffer' = buffer /\ armed' = armed
    BY <1>12 DEF ServerIsReady
  <2>2. AllTidy /\ Confirmable
    <3>1. CASE current \in Allowed
      <4>1. /\ Tidy(current, SendParseRequest(buffer[current], tick[current]))
            /\ SendParseRequest(buffer[current], tick[current]).request.outcome = "extraConf" =>
                 buffer[current].request.outcome = "extraConf"
        BY <1>a, <3>1, SendingTidies
      <4> QED
        BY <1>a, <2>1, <3>1, <4>1
    <3> QED
      BY <1>b, <2>1, <3>1
  <2>3. Watched'
    BY <1>d, <1>e, <2>1, ArmedOrAlone
  <2> QED
    BY <1>f, <2>1, <2>2, <2>3 DEF WInv
<1>13. CASE RestartServer
  <2>1. /\ buffer' = [b \in Buffers |-> NewBuffer] /\ Spend("restart")
        /\ ~forcing /\ UNCHANGED <<current, previousAllowed, armed, forcing>>
    BY <1>13 DEF RestartServer, Idle, editor
  <2>2. \A c \in Buffers : /\ AtRest(c, buffer'[c]) /\ Tidy(c, buffer'[c])
                           /\ buffer'[c].request.outcome = "none"
    BY <2>1 DEF NewBuffer, NoRequest, AtRest, Tidy, ShouldResendParseRequest
  <2>3. Watched'
    BY <2>2, BuffersAssumption DEF Watched
  <2>4. Confirmable
    BY <2>2
  <2> QED
    BY <1>g, <2>1, <2>2, <2>3, <2>4 DEF WInv, Disturbance
<1>14. CASE UNCHANGED vars
  <2>1. UNCHANGED <<current, previousAllowed, buffer, armed, forcing, budget>>
    BY <1>14 DEF vars, editor
  <2>2. Watched'
    BY <1>d, <2>1, ArmedOrAlone
  <2> QED
    BY <1>b, <1>f, <2>1, <2>2 DEF WInv
<1> QED
  BY <1>1, <1>2, <1>3, <1>4, <1>5, <1>6, <1>7, <1>8, <1>9, <1>10, <1>11, <1>12, <1>13,
     <1>14 DEF Next, User

(* s:PollFileParseResponse and the events that start its timer: however the*)
(* user moves between buffers, the current one has no response to come or  *)
(* to be applied, and no request to be sent again, without the timer that  *)
(* will look at it.                                                        *)
THEOREM NoResponseIsUnwatched ==
  ASSUME NoConfirmationWhileForcing
  PROVE  Spec => []CurrentRequestIsWatched
<1>1. Init => WInv
  BY InitWatched
<1>2. IInv' => TypeOK'
  BY DEF IInv
<1>3. WInv => CurrentRequestIsWatched
  <2> SUFFICES ASSUME WInv, Undisturbed, current \in Allowed, ~forcing, ~armed
               PROVE  ~Outstanding(current)
    BY DEF CurrentRequestIsWatched, WInv, Watched
  <2>1. AtRest(current, buffer[current])
    BY DEF WInv, Watched
  <2> QED
    BY <2>1 DEF AtRest, Outstanding, IsResponseHandled
<1> QED
  BY <1>1, <1>2, <1>3, InitForgetsNothing, TextStep, WatchedStep, Invariance, PTL DEF Spec
=============================================================================
