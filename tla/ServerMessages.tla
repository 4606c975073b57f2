---------------------------- MODULE ServerMessages ----------------------------
(***************************************************************************)
(* The long polls that bring messages of the language servers, one for each*)
(* filetype (client/messages_request.py, YouCompleteMe.OnPeriodicTick and  *)
(* RegisterMessagePoll, s:ReceiveMessages), and the work-done progress they*)
(* carry (work_done_progress.py, s:ApplyWorkDoneProgress).  A connection of*)
(* a language server has a generation; ycmd tells when one is over, in a   *)
(* message or in the reply to a command, so what belongs to a connection   *)
(* may arrive after the word that it is gone.  ycmd and the language       *)
(* servers are external.  A poll's answer is chosen when it is read: until *)
(* then it can not be told from one that is still to come.                 *)
(***************************************************************************)
EXTENDS Integers, SequencesExt

CONSTANTS
  Nothing,        \* Python's None
  Files,          \* the buffers that are in a window
  FiletypesOf,    \* the filetypes of each, a sequence
  Filetypes,
  LanguageServers,
  MaxGeneration,  \* bound: connections of a language server to one ycmd
  MaxTroubles     \* bound: failed polls, deaths of ycmd and restarts

ASSUME FiletypesAssumption == FiletypesOf \in [Files -> Seq(Filetypes)]
ASSUME FilesAssumption == IsFiniteSet(Files)
ASSUME GenerationAssumption == MaxGeneration \in Nat /\ MaxTroubles \in Nat
ASSUME NothingAssumption == Nothing \notin Filetypes

VARIABLES
  ycmd,        \* the process: starting, ready or dead
  readyCache,  \* _server_is_ready_with_cache
  awaiting,    \* the timer of s:pollers.server_ready
  receiving,   \* the timer of s:pollers.receive_messages
  table,       \* the keys of _message_poll_requests, in their order
  polls,       \* its values: None, a new MessagesPoll or one that was sent
  progress,    \* WorkDoneProgressState._progress
  cleared,     \* WorkDoneProgressState._cleared_connection_generations
  shown,       \* s:work_done_progress
  outbox,      \* external: messages ycmd holds for a filetype
  replies,     \* external: cleanups in replies that are not handled yet
  connection,  \* external: generation and work of each language server
  gone,        \* history: connections this ycmd's messages declared over
  troubles     \* failures so far

client == <<readyCache, awaiting, receiving, table, polls>>
status == <<progress, cleared, shown, gone>>
external == <<outbox, replies, connection>>
messages == <<ycmd, client, status, external, troubles>>

-----------------------------------------------------------------------------
Keys == [server : LanguageServers, generation : 1..MaxGeneration]

(* One piece of work per connection stands for its tokens.                 *)
Notifications == [kind : {"begin", "report", "end", "cleanup"}, key : Keys]

Polled(ft) == polls[ft] # Nothing

NoGenerations == [s \in LanguageServers |-> 0]
NoConnections == [s \in LanguageServers |-> [generation |-> 0, work |-> "none"]]

-----------------------------------------------------------------------------
(* WorkDoneProgressState.Update *)
Update(state, kind, key) ==
  IF key.generation <= state.cleared[key.server] THEN state
  ELSE CASE kind = "begin"  -> [state EXCEPT !.progress = @ \union {key}]
         [] kind = "report" -> state
         [] kind = "end"    -> [state EXCEPT !.progress = @ \ {key}]

(* Mutant: the cleanup of an older connection lowers the mark. *)
ClearLatestGeneration(state, key) ==
  [progress |-> {k \in state.progress :
                   k.server # key.server \/ k.generation > key.generation},
   cleared  |-> [state.cleared EXCEPT ![key.server] = key.generation],
   gone     |-> state.gone \union {key}]

ClearForServerGeneration(state, key) ==
  LET last == IF key.generation > state.cleared[key.server]
              THEN key.generation ELSE state.cleared[key.server]
  IN [progress |-> {k \in state.progress : k.server # key.server \/ k.generation > last},
      cleared  |-> [state.cleared EXCEPT ![key.server] = last],
      gone     |-> state.gone \union {key}]

(* _HandlePollResponse, for one notification.  Diagnostics are in the      *)
(* module DiagnosticsUI.                                                   *)
HandleNotification(state, notification) ==
  IF notification.kind = "cleanup"
  THEN ClearForServerGeneration(state, notification.key)
  ELSE Update(state, notification.kind, notification.key)

ProgressState == [progress |-> progress, cleared |-> cleared, gone |-> gone]

(* s:ApplyWorkDoneProgress, with the state Python has now.  The animation  *)
(* of the status line is left out.                                         *)
ApplyWorkDoneProgress(state) ==
  /\ progress' = state.progress /\ cleared' = state.cleared /\ gone' = state.gone
  /\ shown' = state.progress

-----------------------------------------------------------------------------
(* RegisterMessagePolls *)
TableWith(keys, fts) ==
  FoldLeft(LAMBDA t, ft : IF Contains(t, ft) THEN t ELSE Append(t, ft), keys, fts)

PollsWith(values, fts) ==
  [ft \in Filetypes |-> IF Contains(fts, ft) /\ values[ft] = Nothing THEN "new" ELSE values[ft]]

FiletypesOfAll(files) == FlattenSeq([i \in DOMAIN files |-> FiletypesOf[files[i]]])

(* s:StartMessagePoll *)
StartMessagePoll == receiving' = TRUE

(* Mutant: the polls are registered, and nothing polls them. *)
RegisterOnly(files) ==
  /\ table' = TableWith(table, FiletypesOfAll(files))
  /\ polls' = PollsWith(polls, FiletypesOfAll(files))
  /\ UNCHANGED receiving

RegisterMessagePolls(files) ==
  /\ table' = TableWith(table, FiletypesOfAll(files))
  /\ polls' = PollsWith(polls, FiletypesOfAll(files))
  /\ StartMessagePoll

(* BufEnter, BufWinEnter, FileType *)
EnterFile(b) ==
  /\ RegisterMessagePolls(<<b>>)
  /\ UNCHANGED <<ycmd, readyCache, awaiting, status, external, troubles>>

(* The reply to :YcmEnableLanguageServer, s:OnLanguageServerStateChanged.  *)
LanguageServerEnabled ==
  /\ ycmd = "ready" /\ readyCache
  /\ \E files \in SetToSeqs(Files) : RegisterMessagePolls(files)
  /\ UNCHANGED <<ycmd, readyCache, awaiting, status, external, troubles>>

(* s:PollServerReady.  While ycmd starts, the timer is only set again.     *)
PollServerReady ==
  /\ awaiting /\ ycmd # "starting"
  /\ awaiting' = FALSE
  /\ IF ycmd = "dead" THEN UNCHANGED <<readyCache, receiving, table, polls>>
     ELSE /\ readyCache' = TRUE
          /\ StartMessagePoll
          /\ \E files \in SetToSeqs(Files) :
               /\ table' = TableWith(<<>>, FiletypesOfAll(files))
               /\ polls' = PollsWith([ft \in Filetypes |-> Nothing], FiletypesOfAll(files))
  /\ UNCHANGED <<ycmd, status, external, troubles>>

-----------------------------------------------------------------------------
(* s:ReceiveMessages, YouCompleteMe.OnPeriodicTick.  A tick before ycmd is *)
(* ready only sets the timer again.                                        *)
TickDead ==
  /\ receiving /\ ycmd = "dead"
  /\ receiving' = FALSE
  /\ ApplyWorkDoneProgress([progress |-> {}, cleared |-> NoGenerations, gone |-> gone])
  /\ UNCHANGED <<ycmd, readyCache, awaiting, table, polls, external, troubles>>

Sent == {ft \in Filetypes : polls[ft] = "sent"}

(* Every message of the filetypes in `answered', filetype by filetype.     *)
MessagesOf(answered) ==
  FlattenSeq([i \in DOMAIN table |-> IF table[i] \in answered THEN outbox[table[i]] ELSE <<>>])

(* Those in `answered' have an answer, those in `over' failed or are not   *)
(* supported (False), the others are not done.                             *)
TickPolls(answered, over) ==
  /\ receiving /\ ycmd # "dead" /\ readyCache
  /\ polls' = [ft \in Filetypes |->
       CASE polls[ft] = Nothing \/ ft \in over -> Nothing
         [] OTHER -> "sent"]
  /\ receiving' = (\E ft \in Filetypes : polls'[ft] # Nothing)
  /\ ApplyWorkDoneProgress(FoldLeft(HandleNotification, ProgressState, MessagesOf(answered)))
  /\ outbox' = [ft \in Filetypes |-> IF ft \in answered THEN <<>> ELSE outbox[ft]]
  /\ troubles' = troubles + (IF over = {} THEN 0 ELSE 1) /\ troubles' <= MaxTroubles
  /\ UNCHANGED <<ycmd, readyCache, awaiting, table, replies, connection>>

ReceiveMessages ==
  \E answered \in SUBSET Sent : \E over \in SUBSET (Sent \ answered) : TickPolls(answered, over)

(* The reply to a command or to :YcmDisableLanguageServer:                 *)
(* _HandleCommandResponse, _HandleLanguageServerStateResponse, and         *)
(* s:UpdateWorkDoneProgress after it.                                      *)
HandleReply ==
  \E key \in replies :
    /\ replies' = replies \ {key}
    /\ ApplyWorkDoneProgress(ClearForServerGeneration(ProgressState, key))
    /\ UNCHANGED <<ycmd, client, outbox, connection, troubles>>

(* s:RestartServer; starting the new ycmd may fail.                        *)
RestartYcmd ==
  /\ troubles < MaxTroubles /\ troubles' = troubles + 1
  /\ ycmd' \in {"starting", "dead"}
  /\ readyCache' = FALSE /\ awaiting' = TRUE /\ receiving' = FALSE
  /\ table' = <<>> /\ polls' = [ft \in Filetypes |-> Nothing]
  /\ ApplyWorkDoneProgress([progress |-> {}, cleared |-> NoGenerations, gone |-> {}])
  /\ outbox' = [ft \in Filetypes |-> <<>>] /\ replies' = {}
  /\ connection' = NoConnections

-----------------------------------------------------------------------------
(* External: ycmd and the language servers. *)
YcmdStarts ==
  /\ ycmd = "starting" /\ ycmd' = "ready"
  /\ UNCHANGED <<client, status, external, troubles>>

YcmdDies ==
  /\ ycmd # "dead" /\ ycmd' = "dead"
  /\ troubles < MaxTroubles /\ troubles' = troubles + 1
  /\ outbox' = [ft \in Filetypes |-> <<>>]
  /\ connection' = NoConnections
  /\ UNCHANGED <<client, status, replies>>

Post(kind, s) ==
  \E ft \in Filetypes :
    outbox' = [outbox EXCEPT ![ft] = Append(@,
      [kind |-> kind, key |-> [server |-> s, generation |-> connection[s].generation]])]

Connect(s) ==
  /\ connection[s].work = "none" /\ connection[s].generation < MaxGeneration
  /\ connection' = [connection EXCEPT
       ![s] = [generation |-> @.generation + 1, work |-> "connected"]]
  /\ UNCHANGED <<outbox, replies>>

Work(s) ==
  /\ \/ /\ connection[s].work = "connected" /\ Post("begin", s)
        /\ connection' = [connection EXCEPT ![s].work = "begun"]
     \/ /\ connection[s].work = "begun" /\ Post("report", s)
        /\ connection' = [connection EXCEPT ![s].work = "reported"]
     \/ /\ connection[s].work = "reported" /\ Post("end", s)
        /\ connection' = [connection EXCEPT ![s].work = "ended"]
  /\ UNCHANGED replies

Disconnect(s) ==
  /\ connection[s].work # "none"
  /\ connection' = [connection EXCEPT ![s].work = "none"]
  /\ \/ Post("cleanup", s) /\ UNCHANGED replies
     \/ /\ replies' = replies \union
             {[server |-> s, generation |-> connection[s].generation]}
        /\ UNCHANGED outbox

LanguageServer(s) ==
  /\ ycmd = "ready" /\ (Connect(s) \/ Work(s) \/ Disconnect(s))
  /\ UNCHANGED <<ycmd, client, status, troubles>>

-----------------------------------------------------------------------------
InitMessages ==
  /\ ycmd = "starting" /\ readyCache = FALSE /\ awaiting = TRUE /\ receiving = FALSE
  /\ table = <<>> /\ polls = [ft \in Filetypes |-> Nothing]
  /\ progress = {} /\ cleared = NoGenerations /\ shown = {}
  /\ outbox = [ft \in Filetypes |-> <<>>] /\ replies = {}
  /\ connection = NoConnections
  /\ gone = {} /\ troubles = 0

NextMessages ==
  \/ \E b \in Files : EnterFile(b)
  \/ LanguageServerEnabled
  \/ PollServerReady
  \/ TickDead \/ ReceiveMessages
  \/ HandleReply
  \/ RestartYcmd
  \/ YcmdStarts \/ YcmdDies
  \/ \E s \in LanguageServers : LanguageServer(s)

MessagesSpec == InitMessages /\ [][NextMessages]_messages

MessagesTypeOK ==
  /\ ycmd \in {"starting", "ready", "dead"}
  /\ {readyCache, awaiting, receiving} \subseteq BOOLEAN
  /\ Range(table) \subseteq Filetypes
  /\ polls \in [Filetypes -> {Nothing, "new", "sent"}]
  /\ progress \subseteq Keys /\ shown \subseteq Keys /\ gone \subseteq Keys
  /\ replies \subseteq Keys
  /\ cleared \in [LanguageServers -> 0..MaxGeneration]
  /\ DOMAIN outbox = Filetypes
  /\ \A ft \in Filetypes : Range(outbox[ft]) \subseteq Notifications
  /\ connection \in [LanguageServers -> [generation : 0..MaxGeneration,
       work : {"none", "connected", "begun", "reported", "ended"}]]
  /\ troubles \in 0..MaxTroubles

(* work_done_progress.py, youcompleteme.vim: once the client has been told *)
(* that a connection is over, no progress of it is shown again in that     *)
(* session, in whatever order the messages of the filetypes and the replies*)
(* to commands are read; and the status line shows what Python holds.      *)
StatusIsCurrent ==
  /\ \A key \in shown : key \notin gone
  /\ shown = progress

(* youcompleteme.py, youcompleteme.vim: as long as ycmd lives, a filetype   *)
(* with a poll has the timer running, through starts that take long, ended *)
(* polls, buffers entered at any time, and restarts after a crash in which *)
(* the timer stopped while polls were left in the table.                   *)
NoPollIsForgotten ==
  (ycmd # "dead" /\ \E ft \in Filetypes : Polled(ft)) => receiving
=============================================================================
