------------------------------ MODULE FileParse ------------------------------
(***************************************************************************)
(* Parse requests of the open buffers: Buffer (buffer.py), the request     *)
(* itself (EventNotification), and the events of autoload/youcompleteme.vim*)
(* that send one or collect its response.  One global timer, the file      *)
(* parse poller, works on whatever buffer is current when it fires, so the *)
(* questions are about users who change buffers, edit, save, force a       *)
(* compilation or restart ycmd while a request is under way.               *)
(***************************************************************************)
EXTENDS Integers, FiniteSets

CONSTANTS
  Buffers,      \* open buffers
  Allowed,      \* those AllowedToCompleteInBuffer accepts
  Native,       \* those NativeFiletypeCompletionUsable accepts
  MaxTick,      \* bound: changedtick of a buffer
  Budgets,      \* bounds: how often each kind of disturbance may happen
  None          \* Python's None

Disturbance == {"visit", "force", "confirm", "restart", "elsewhere"}

ASSUME BuffersAssumption == Native \subseteq Allowed /\ Allowed \subseteq Buffers
ASSUME NoneAssumption == None \notin Buffers
ASSUME TickAssumption == MaxTick \in Nat
ASSUME BudgetAssumption == Budgets \subseteq [Disturbance -> Nat]

(* The one event of another buffer ends the claims of Undisturbed, below.  *)
ASSUME ElsewhereAssumption == \A allowance \in Budgets : allowance["elsewhere"] <= 1

VARIABLES
  current,          \* bufnr( '%' )
  previousAllowed,  \* s:previous_allowed_buffer_number
  insert,           \* the user is in insert mode
  tick,             \* b:changedtick of each buffer
  buffer,           \* YouCompleteMe._buffers
  armed,            \* the file parse poller's timer is running
  forcing,          \* ForceCompileAndDiagnostics is blocking Vim
  alive,            \* IsServerAlive
  ready,            \* _server_is_ready_with_cache
  readyArmed,       \* the server_ready timer is running
  budget            \* what is left of the bound chosen for this behaviour

editor == <<current, previousAllowed, insert, tick>>
server == <<alive, ready, readyArmed>>
vars == <<editor, buffer, armed, forcing, server, budget>>

-----------------------------------------------------------------------------
(* A Buffer and its parse request.  `content' is the changedtick of the    *)
(* text that was sent; `applied' counts how often the response was applied.*)

NoRequest == [content |-> 0, outcome |-> "none", applied |-> 0, resend |-> FALSE]

(* Mutant: -1 is the tick of a buffer that was never parsed.               *)
NewBufferMinusOne == [parseTick |-> -1, handledTick |-> -1, shouldResend |-> FALSE,
                      request |-> NoRequest]

NewBuffer == [parseTick |-> 0, handledTick |-> 0, shouldResend |-> FALSE,
              request |-> NoRequest]

Pending(b) == buffer[b].request.outcome = "pending"
IsResponseHandled(b) == buffer[b].handledTick = buffer[b].parseTick
NeedsReparse(b, now) == buffer[b].parseTick # now
ShouldResendParseRequest(buf) == buf.shouldResend \/ buf.request.resend

(* Buffer.FileParseRequestReady *)
ParseRequestReady(b, block) ==
  /\ buffer[b].request # NoRequest
  /\ block \/ ~Pending(b)

(* Mutant: the handled tick is left alone.                                 *)
SendKeepingHandledTick(buf, now) ==
  IF buf.request.outcome = "pending"
  THEN [buf EXCEPT !.shouldResend = TRUE]
  ELSE [buf EXCEPT !.parseTick = now, !.shouldResend = FALSE,
                   !.request = [content |-> now, outcome |-> "pending",
                                applied |-> 0, resend |-> FALSE]]

(* Mutant: a parse that meets a pending request is forgotten.              *)
SendUnlessPending(buf, now) ==
  IF buf.request.outcome = "pending"
  THEN buf
  ELSE [parseTick |-> now, handledTick |-> buf.handledTick - 1,
        shouldResend |-> FALSE,
        request |-> [content |-> now, outcome |-> "pending", applied |-> 0,
                     resend |-> FALSE]]

(* Buffer.SendParseRequest, for a Buffer `buf' at changedtick `now'. *)
SendParseRequest(buf, now) ==
  IF buf.request.outcome = "pending"
  THEN [buf EXCEPT !.shouldResend = TRUE]
  ELSE [parseTick |-> now, handledTick |-> buf.handledTick - 1,
        shouldResend |-> FALSE,
        request |-> [content |-> now, outcome |-> "pending", applied |-> 0,
                     resend |-> FALSE]]

(* YouCompleteMe.OnFileReadyToParse in buffer b. *)
FileReadyToParse(b, now) ==
  buffer' = IF alive /\ ready
            THEN [buffer EXCEPT ![b] = SendParseRequest(buffer[b], now)]
            ELSE buffer

(* Mutant: the poller is not started.                                      *)
ForceParseUnwatched(b, now) == FileReadyToParse(b, now) /\ UNCHANGED armed

(* s:OnFileReadyToParse( 1 ): send and start the poller over. *)
ForceParse(b, now) == FileReadyToParse(b, now) /\ armed' = TRUE

(* s:OnFileReadyToParse() after the changedtick became `now'. *)
ParseIfChanged(b, now) ==
  IF NeedsReparse(b, now)
  THEN ForceParse(b, now)
  ELSE UNCHANGED <<buffer, armed>>

(* HandleFileParseRequest: apply the response and mark it as handled.  A   *)
(* response that asks about an extra configuration file is confirmed with  *)
(* the user, after which the request has to be sent again.                 *)
Handles(b, block) ==
  /\ ready
  /\ ~IsResponseHandled(b)
  /\ ParseRequestReady(b, block)
  /\ b \in Native

Applied(request) ==
  [request EXCEPT !.applied = request.applied + 1,
                  !.resend = (request.outcome = "extraConf")]

(* Mutant: the response is applied and not marked as handled.              *)
LeaveResponseUnhandled(b) == [buffer[b] EXCEPT !.request = Applied(buffer[b].request)]

MarkResponseHandled(b) ==
  [parseTick |-> buffer[b].parseTick, handledTick |-> buffer[b].parseTick,
   shouldResend |-> buffer[b].shouldResend,
   request |-> Applied(buffer[b].request)]

HandleFileParseRequest(b, block) ==
  IF Handles(b, block) THEN MarkResponseHandled(b) ELSE buffer[b]

-----------------------------------------------------------------------------
(* The editor.                                                             *)

Spend(what) ==
  /\ budget[what] > 0
  /\ budget' = [budget EXCEPT ![what] = budget[what] - 1]

(* AllowedToCompleteInBuffer remembers the buffer it was asked about.      *)
AskedAbout(b) == previousAllowed' = IF b \in Allowed THEN b ELSE previousAllowed

Changed(b) ==
  /\ tick[b] < MaxTick
  /\ tick' = [tick EXCEPT ![b] = tick[b] + 1]

Idle == ~forcing /\ ~insert

(* TextChanged: s:OnTextChangedNormalMode *)
EditText ==
  /\ Idle
  /\ Changed(current)
  /\ AskedAbout(current)
  /\ IF current \in Allowed
     THEN ParseIfChanged(current, tick[current] + 1)
     ELSE UNCHANGED <<buffer, armed>>
  /\ UNCHANGED <<current, insert, forcing, server, budget>>

(* Text typed in insert mode is parsed when insert mode ends.              *)
TypeText ==
  /\ ~forcing
  /\ Changed(current)
  /\ AskedAbout(current)
  /\ insert' = TRUE
  /\ UNCHANGED <<current, buffer, armed, forcing, server, budget>>

(* InsertLeave: s:OnInsertLeave *)
LeaveInsert ==
  /\ insert
  /\ insert' = FALSE
  /\ AskedAbout(current)
  /\ IF current \in Allowed
     THEN ParseIfChanged(current, tick[current])
     ELSE UNCHANGED <<buffer, armed>>
  /\ UNCHANGED <<current, tick, forcing, server, budget>>

(* BufEnter and WinEnter: s:OnBufferEnter *)
EnterBuffer(b) ==
  /\ Idle
  /\ b # current
  /\ Spend("visit")
  /\ current' = b
  /\ IF b # previousAllowed /\ b \in Allowed
     THEN previousAllowed' = b /\ ForceParse(b, tick[b])
     ELSE UNCHANGED <<previousAllowed, buffer, armed>>
  /\ UNCHANGED <<insert, tick, forcing, server>>

(* FileType: s:OnFileTypeSet in the current buffer *)
SetFileType ==
  /\ Idle
  /\ Spend("visit")
  /\ AskedAbout(current)
  /\ IF current \in Allowed
     THEN ForceParse(current, tick[current])
     ELSE UNCHANGED <<buffer, armed>>
  /\ UNCHANGED <<current, insert, tick, forcing, server>>

(* A refactoring in this window changes the text of another buffer, for    *)
(* which no event fires.                                                   *)
RefactorOther(b) ==
  /\ Idle
  /\ current \in Native
  /\ b # current
  /\ Changed(b)
  /\ UNCHANGED <<current, previousAllowed, insert, buffer, armed, forcing,
                 server, budget>>

(* BufWritePost for buffer b, which :wall runs for buffers other than the  *)
(* current one: s:OnFileSave                                               *)
SaveFile(b) ==
  /\ Idle
  /\ IF b = current THEN UNCHANGED budget ELSE Spend("elsewhere")
  /\ AskedAbout(b)
  /\ UNCHANGED <<current, insert, tick, buffer, armed, forcing, server>>

(* BufReadPost for buffer b, which Vim makes current while it runs the     *)
(* event: s:OnFileReload                                                   *)
ReloadFile(b) ==
  /\ Idle
  /\ IF b = current THEN UNCHANGED budget ELSE Spend("elsewhere")
  /\ b \in Allowed
  /\ Changed(b)
  /\ previousAllowed' = b
  /\ ForceParse(b, tick[b] + 1)
  /\ UNCHANGED <<current, insert, forcing, server>>

(* :YcmForceCompileAndDiagnostics sends a parse request and blocks until   *)
(* the request of the buffer has been answered.                            *)
BeginForceCompile ==
  /\ Idle
  /\ current \in Native
  /\ Spend("force")
  /\ FileReadyToParse(current, tick[current])
  /\ forcing' = TRUE
  /\ UNCHANGED <<editor, armed, server>>

FinishForceCompile ==
  /\ forcing
  /\ ~Pending(current)
  /\ buffer' = [buffer EXCEPT ![current] = HandleFileParseRequest(current, TRUE)]
  /\ forcing' = FALSE
  /\ UNCHANGED <<editor, armed, server, budget>>

(* s:PollFileParseResponse on the buffer that is current now.              *)
FileParseRequestReady == ~ready \/ ParseRequestReady(current, FALSE)

PollFileParseResponse ==
  /\ armed
  /\ ~forcing
  /\ FileParseRequestReady
  /\ LET handled == HandleFileParseRequest(current, FALSE)
         resend == ShouldResendParseRequest(handled)
     IN /\ armed' = resend
        /\ buffer' = [buffer EXCEPT ![current] =
                        IF resend /\ alive /\ ready
                        THEN SendParseRequest(handled, tick[current])
                        ELSE handled]
  /\ UNCHANGED <<editor, forcing, server, budget>>

-----------------------------------------------------------------------------
(* The server.                                                             *)

(* The future of a parse request completes: with diagnostics, an error, or *)
(* a question about an extra configuration file, which is asked only until *)
(* every such file has been confirmed.                                     *)
Answer(b) ==
  /\ Pending(b)
  /\ \/ /\ buffer' = [buffer EXCEPT ![b].request.outcome = "answered"]
        /\ UNCHANGED budget
     \/ /\ alive
        /\ Spend("confirm")
        /\ buffer' = [buffer EXCEPT ![b].request.outcome = "extraConf"]
  /\ UNCHANGED <<editor, armed, forcing, server>>

Crash ==
  /\ alive
  /\ budget["restart"] > 0
  /\ alive' = FALSE
  /\ UNCHANGED <<editor, buffer, armed, forcing, ready, readyArmed, budget>>

(* s:PollServerReady stops at a dead server and ends in s:OnFileTypeSet.   *)
ServerIsDead ==
  /\ readyArmed /\ ~forcing
  /\ ~alive
  /\ readyArmed' = FALSE
  /\ UNCHANGED <<editor, buffer, armed, forcing, alive, ready, budget>>

ServerIsReady ==
  /\ readyArmed /\ ~forcing
  /\ alive
  /\ ready' = TRUE
  /\ readyArmed' = FALSE
  /\ AskedAbout(current)
  /\ IF current \in Allowed
     THEN /\ buffer' = [buffer EXCEPT ![current] =
                          SendParseRequest(buffer[current], tick[current])]
          /\ armed' = TRUE
     ELSE UNCHANGED <<buffer, armed>>
  /\ UNCHANGED <<current, insert, tick, forcing, alive, budget>>

(* :YcmRestartServer: _SetUpServer drops every Buffer with its request.    *)
RestartServer ==
  /\ Idle
  /\ Spend("restart")
  /\ buffer' = [b \in Buffers |-> NewBuffer]
  /\ alive' = TRUE
  /\ ready' = FALSE
  /\ readyArmed' = TRUE
  /\ UNCHANGED <<editor, armed, forcing>>

-----------------------------------------------------------------------------
(* Vim has started with every buffer loaded and an allowed one current.    *)
Init ==
  /\ current \in Allowed
  /\ previousAllowed = None
  /\ insert = FALSE
  /\ tick = [b \in Buffers |-> 1]
  /\ buffer = [b \in Buffers |-> NewBuffer]
  /\ armed = FALSE
  /\ forcing = FALSE
  /\ alive = TRUE
  /\ ready = FALSE
  /\ readyArmed = TRUE
  /\ budget \in Budgets

User ==
  \/ EditText \/ TypeText \/ LeaveInsert \/ SetFileType
  \/ \E b \in Buffers : EnterBuffer(b)
  \/ \E b \in Buffers : RefactorOther(b)
  \/ \E b \in Buffers : SaveFile(b)
  \/ \E b \in Buffers : ReloadFile(b)
  \/ BeginForceCompile \/ RestartServer

Next ==
  \/ User
  \/ FinishForceCompile
  \/ PollFileParseResponse
  \/ \E b \in Buffers : Answer(b)
  \/ Crash \/ ServerIsDead \/ ServerIsReady

Spec == Init /\ [][Next]_vars

(* Timers fire, every request ends within its timeout, and a ycmd that     *)
(* stays alive becomes ready.  The user need not do anything.              *)
FairSpec ==
  /\ Spec
  /\ \A b \in Buffers : WF_vars(Answer(b))
  /\ WF_vars(FinishForceCompile)
  /\ WF_vars(PollFileParseResponse)
  /\ WF_vars(ServerIsReady)

-----------------------------------------------------------------------------
(* Properties.                                                             *)

(* Type correctness of editor, buffers and timers.                         *)
Request == [content : Nat, outcome : {"none", "pending", "answered", "extraConf"},
            applied : Nat, resend : BOOLEAN]

BufferType == [parseTick : Nat, handledTick : Int, shouldResend : BOOLEAN,
               request : Request]

TypeOK ==
  /\ current \in Buffers /\ previousAllowed \in Buffers \cup {None}
  /\ insert \in BOOLEAN /\ armed \in BOOLEAN /\ forcing \in BOOLEAN
  /\ tick \in [Buffers -> Nat]
  /\ buffer \in [Buffers -> BufferType]
  /\ alive \in BOOLEAN /\ ready \in BOOLEAN /\ readyArmed \in BOOLEAN
  /\ budget \in [Disturbance -> Nat]

(* "We only apply the warning/error/prompt received once (for each event)":*)
(* the tick arithmetic tells an applied response from one that is not,     *)
(* however often the same text is sent again by visits and forced parses.  *)
AppliedExactlyWhenHandled ==
  \A b \in Buffers :
    /\ buffer[b].request.applied \in {0, 1}
    /\ buffer[b].request # NoRequest =>
         (IsResponseHandled(b) <=> buffer[b].request.applied = 1)

(* The events of other buffers have left s:previous_allowed_buffer_number  *)
(* alone so far: after a save or a reload of another buffer s:OnBufferEnter*)
(* may take the buffer it enters for the one it has left.                  *)
Undisturbed == budget.elsewhere > 0

(* While the current buffer has a response to come or to be applied, or a  *)
(* request to be sent again, the poller's timer runs: switching buffers    *)
(* never leaves a request that nobody will look at.                        *)
Outstanding(b) ==
  \/ buffer[b].request # NoRequest /\ b \in Native /\ ~IsResponseHandled(b)
  \/ ShouldResendParseRequest(buffer[b])

CurrentRequestIsWatched ==
  Undisturbed /\ current \in Allowed /\ ~forcing /\ Outstanding(current) => armed

(* In normal mode no text of a buffer that has been parsed since ycmd      *)
(* started is unknown to it without a request to send it again being noted:*)
(* the edit that meets a pending request is not forgotten, nor is one made *)
(* from another window.                                                    *)
Parsed(b) == buffer[b].request # NoRequest

TextIsSentOrNoted ==
  Undisturbed /\ current \in Allowed /\ ~insert /\ ready /\ alive /\ Parsed(current) =>
    ~NeedsReparse(current, tick[current]) \/ buffer[current].shouldResend

(* Once the user rests in normal mode in such a buffer, its text has been  *)
(* parsed, its response applied once and the poller stopped: no response is*)
(* lost and no chain of resent requests goes on for ever.                  *)
ParsedUpToDate(b) ==
  /\ ~NeedsReparse(b, tick[b])
  /\ ~Outstanding(b)
  /\ ~armed

Settles ==
  <>[](Undisturbed /\ current \in Allowed /\ ~insert /\ alive /\ Parsed(current) =>
         ParsedUpToDate(current))

(* The manual on :YcmForceCompileAndDiagnostics: it "will force YCM to     *)
(* immediately recompile your file and display any new diagnostics", so    *)
(* when it returns they are those of the text in the buffer.               *)
ForcedDiagnosticsAreCurrent ==
  [][FinishForceCompile /\ alive /\ ready =>
       buffer[current].request.content = tick[current]]_vars
=============================================================================
