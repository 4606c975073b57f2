------------------------------- MODULE Commands -------------------------------
(***************************************************************************)
(* Asynchronous completer commands: the request table of YouCompleteMe     *)
(* (youcompleteme.py), the table of callbacks in autoload/youcompleteme.vim*)
(* and the command poller that joins the two by request ID.                *)
(*                                                                         *)
(* Vim script is single-threaded, but the poller's loop runs other code:   *)
(* applying a rename enters buffers, whose BufEnter handler aborts hover   *)
(* requests, and the rename prompt waits in input(), where timers fire, the*)
(* poller's own among them.  `polls' is the stack of running loops.        *)
(***************************************************************************)
EXTENDS Integers, Sequences, FiniteSets, Functions

CONSTANTS
  Kinds,        \* kinds of request the users of the instance make
  MaxRequests,  \* bound: requests made
  MaxRestarts,  \* bound: restarts of ycmd
  None          \* Python's None

AllKinds == {"extern", "raw", "hover", "state", "prepare", "rename"}

ASSUME KindsAssumption == Kinds \subseteq AllKinds
ASSUME BoundsAssumption == MaxRequests \in Nat /\ MaxRestarts \in Nat
ASSUME NoneAssumption == None \notin Nat  \* an ID is a number

VARIABLES
  made,      \* kind of every request ever made; its index names the callback
  outcome,   \* what became of it: "pending", "done", "cancelled"
  told,      \* what its callback was called with, in order
  nextId,    \* _next_command_request_id
  commands,  \* _command_requests: request by ID
  prepare,   \* _latest_prepare_rename_request_id
  pending,   \* s:pollers.command.requests: callback by ID
  armed,     \* s:pollers.command.id # -1
  polls,     \* running invocations of s:PollCommands, innermost first
  failed,    \* remove() has found no entry (E716)
  restarts

requests == <<made, outcome, told>>
tables == <<nextId, commands, prepare>>
vars == <<requests, tables, pending, armed, polls, failed, restarts>>

Callbacks == 1 .. Len(made)

(* What a callback may be called with besides its response, which is named *)
(* by the number of the request.                                           *)
NoResponse == 0      \* v:none
EmptyResponse == -1  \* ''

Idle == polls = << >>
Prompting == ~Idle /\ Head(polls).calling = "prompt"
Looping == ~Idle /\ ~Prompting

-----------------------------------------------------------------------------
(* Table operations, on the values a handler has computed so far.          *)

Without(table, ids) == Restrict(table, DOMAIN table \ ids)
With(table, id, entry) ==
  [i \in DOMAIN table \cup {id} |-> IF i = id THEN entry ELSE table[i]]

(* Mutants: the request is not removed, the preparation is reset to -1, the*)
(* request is removed without being cancelled, its callback is kept.       *)
NotFlushed(ids) == commands
PrepareMinusOneAfter(ids) == IF prepare \in ids THEN -1 ELSE prepare
CancelNoRequests(ids) == outcome
KeptInRequests(ids) == pending

(* FlushCommandRequest of every ID in `ids'.                               *)
Flushed(ids) == Without(commands, ids)
PrepareAfter(ids) == IF prepare \in ids THEN None ELSE prepare
CancelRequests(ids) ==
  LET gone == {commands[i] : i \in ids \cap DOMAIN commands}
  IN  [c \in DOMAIN outcome |->
         IF c \in gone /\ outcome[c] = "pending" THEN "cancelled" ELSE outcome[c]]

(* What remove() leaves of s:pollers.command.requests.                     *)
RemovedFromRequests(ids) == Without(pending, ids)

(* The callbacks in `cs' are called with `result'.                         *)
Tell(cs, result) ==
  [c \in DOMAIN told |-> IF c \in cs THEN Append(told[c], result) ELSE told[c]]

(* A new request of this kind is sent and registered.                      *)
Record(kind, outcomes, tellings) ==
  /\ made' = Append(made, kind)
  /\ outcome' = Append(outcomes, "pending")
  /\ told' = Append(tellings, << >>)

Register(left) ==
  /\ pending' = With(left, nextId, Len(made) + 1)
  /\ armed' = TRUE
  /\ nextId' = nextId + 1

-----------------------------------------------------------------------------
(* Requests.  A request is made when nothing else runs or, by some other   *)
(* plugin, in the callback of its raw request or in a timer that fires     *)
(* while the rename prompt waits.                                          *)

MayMake(kind) ==
  /\ kind \in Kinds
  /\ Len(made) < MaxRequests
  /\ \/ Idle
     \/ kind = "raw" /\ ~Idle /\ Head(polls).calling \in {"raw", "prompt"}

(* GetRawCommandResponseAsync, s:Hover, s:SetLanguageServerEnabled         *)
SendCommandRequestAsync(kind) ==
  /\ MayMake(kind)
  /\ kind \in {"raw", "hover", "state"}
  /\ Record(kind, outcome, told)
  /\ commands' = With(commands, nextId, Len(made) + 1)
  /\ Register(pending)
  /\ UNCHANGED <<prepare, polls, failed, restarts>>

(* GetCommandResponseAsync hands on the undefined variable `callback'      *)
(* instead of a:callback: the call fails before anything is sent.          *)
GetCommandResponseAsync ==
  /\ MayMake("extern")
  /\ made' = Append(made, "extern")
  /\ outcome' = Append(outcome, "cancelled")
  /\ told' = Append(told, << >>)
  /\ UNCHANGED <<tables, pending, armed, polls, failed, restarts>>

(* s:PrepareRename flushes the previous preparation.                       *)
SendPrepareRenameRequestAsync ==
  /\ MayMake("prepare")
  /\ LET old == IF prepare = None THEN {} ELSE {prepare}
     IN  /\ Record("prepare", CancelRequests(old), told)
         /\ commands' = With(Flushed(old), nextId, Len(made) + 1)
  /\ prepare' = nextId
  /\ Register(pending)
  /\ UNCHANGED <<polls, failed, restarts>>

-----------------------------------------------------------------------------
(* s:AbortAutohoverRequest, on CursorMoved and BufEnter: hover requests are*)
(* forgotten and their callbacks called with ''.                           *)
Hovers == {id \in DOMAIN pending : made[pending[id]] = "hover"}

AbortAutohoverRequest ==
  /\ Idle
  /\ Hovers # {}
  /\ told' = Tell({pending[id] : id \in Hovers}, EmptyResponse)
  /\ outcome' = CancelRequests(Hovers)
  /\ commands' = Flushed(Hovers)
  /\ pending' = RemovedFromRequests(Hovers)
  /\ UNCHANGED <<made, nextId, prepare, armed, polls, failed, restarts>>

-----------------------------------------------------------------------------
(* s:PollCommands.                                                         *)

BeginPoll ==
  /\ armed
  /\ Idle \/ Prompting
  /\ armed' = FALSE
  /\ polls' = << [left |-> pending, again |-> FALSE, calling |-> "nothing"] >> \o polls
  /\ UNCHANGED <<requests, tables, pending, failed, restarts>>

(* Mutant: only the last request decides whether to poll again.            *)
ContinueForgetting(id, again, calling) ==
  polls' = << [left |-> Without(Head(polls).left, {id}),
               again |-> again, calling |-> calling] >> \o Tail(polls)

Continue(id, again, calling) ==
  polls' = << [left |-> Without(Head(polls).left, {id}),
               again |-> Head(polls).again \/ again,
               calling |-> calling] >> \o Tail(polls)

(* Not ready yet.                                                          *)
SkipRequest(id) ==
  /\ Looping
  /\ id \in DOMAIN Head(polls).left \cap DOMAIN commands
  /\ outcome[commands[id]] = "pending"
  /\ Continue(id, TRUE, "nothing")
  /\ UNCHANGED <<requests, tables, pending, armed, failed, restarts>>

(* The request is done, or unknown.  While the response of a rename is     *)
(* applied, buffers may be entered, which aborts hover requests.           *)
Unknown(id) == id \notin DOMAIN commands
IsDone(id) == ~Unknown(id) /\ outcome[commands[id]] # "pending"
Result(id) == IF Unknown(id) THEN NoResponse ELSE commands[id]

Aborted(id) ==
  IF IsDone(id) /\ made[commands[id]] = "rename" THEN {{}, Hovers} ELSE {{}}

(* remove() fails and the function aborts: the rest of the loop is lost.   *)
FailToRemove(id) ==
  /\ Looping
  /\ id \in DOMAIN Head(polls).left
  /\ Unknown(id)
  /\ id \notin DOMAIN pending
  /\ failed' = TRUE
  /\ polls' = Tail(polls)
  /\ UNCHANGED <<requests, tables, pending, armed, restarts>>

FinishRequest(id) ==
  /\ Looping
  /\ id \in DOMAIN Head(polls).left
  /\ Unknown(id) \/ IsDone(id)
  /\ id \in DOMAIN pending
  /\ \E hovers \in Aborted(id) :
       LET callback == Head(polls).left[id]
           gone == {id} \cup hovers
       IN  /\ told' = [Tell({pending[h] : h \in hovers}, EmptyResponse) EXCEPT
                         ![callback] = Append(told[callback], Result(id))]
           /\ outcome' = CancelRequests(gone)
           /\ commands' = Flushed(gone)
           /\ pending' = RemovedFromRequests(gone)
           /\ prepare' = PrepareAfter({id})
           /\ \/ Continue(id, FALSE, IF made[callback] = "raw" THEN "raw" ELSE "nothing")
              \/ /\ IsDone(id)
                 /\ made[callback] = "prepare"
                 /\ Continue(id, FALSE, "prompt")
  /\ UNCHANGED <<made, nextId, armed, failed, restarts>>

(* The user answers the prompt of s:PromptForRename, or dismisses it.      *)
DismissPrompt ==
  /\ Prompting
  /\ polls' = << [Head(polls) EXCEPT !.calling = "nothing"] >> \o Tail(polls)
  /\ UNCHANGED <<requests, tables, pending, armed, failed, restarts>>

SendPreparedRenameRequestAsync ==
  /\ Prompting
  /\ Len(made) < MaxRequests
  /\ polls' = << [Head(polls) EXCEPT !.calling = "nothing"] >> \o Tail(polls)
  /\ Record("rename", outcome, told)
  /\ commands' = With(commands, nextId, Len(made) + 1)
  /\ Register(pending)
  /\ UNCHANGED <<prepare, failed, restarts>>

EndPoll ==
  /\ Looping
  /\ DOMAIN Head(polls).left = {}
  /\ armed' = (armed \/ Head(polls).again)
  /\ polls' = Tail(polls)
  /\ UNCHANGED <<requests, tables, pending, failed, restarts>>

-----------------------------------------------------------------------------
(* ycmd answers, or is restarted: RestartServer renews the request table   *)
(* and the IDs, s:RestartServer stops the poller, and the callbacks stay.  *)
Answer(c) ==
  /\ c \in Callbacks
  /\ outcome[c] = "pending"
  /\ outcome' = [outcome EXCEPT ![c] = "done"]
  /\ UNCHANGED <<made, told, tables, pending, armed, polls, failed, restarts>>

RestartServer ==
  /\ Idle
  /\ restarts < MaxRestarts
  /\ restarts' = restarts + 1
  /\ nextId' = 0
  /\ commands' = [id \in {} |-> 0]
  /\ prepare' = None
  /\ armed' = FALSE
  /\ UNCHANGED <<requests, pending, polls, failed>>

-----------------------------------------------------------------------------
Init ==
  /\ made = << >> /\ outcome = << >> /\ told = << >>
  /\ nextId = 0
  /\ commands = [id \in {} |-> 0]
  /\ prepare = None
  /\ pending = [id \in {} |-> 0]
  /\ armed = FALSE
  /\ polls = << >>
  /\ failed = FALSE
  /\ restarts = 0

Ids == 0 .. MaxRequests

Poll ==
  \/ BeginPoll
  \/ \E id \in Ids : SkipRequest(id) \/ FailToRemove(id) \/ FinishRequest(id)
  \/ EndPoll

Prompt == DismissPrompt \/ SendPreparedRenameRequestAsync

Next ==
  \/ \E kind \in Kinds : SendCommandRequestAsync(kind)
  \/ GetCommandResponseAsync \/ SendPrepareRenameRequestAsync
  \/ AbortAutohoverRequest
  \/ BeginPoll
  \/ \E id \in Ids : SkipRequest(id)
  \/ \E id \in Ids : FailToRemove(id)
  \/ \E id \in Ids : FinishRequest(id)
  \/ EndPoll
  \/ DismissPrompt \/ SendPreparedRenameRequestAsync
  \/ \E c \in 1 .. MaxRequests : Answer(c)
  \/ RestartServer

Spec == Init /\ [][Next]_vars

(* Timers fire and loops run on, every request ends within its timeout, and*)
(* the user does not leave a prompt open for ever.                         *)
FairSpec ==
  /\ Spec
  /\ WF_vars(Poll)
  /\ WF_vars(Prompt)
  /\ \A c \in 1 .. MaxRequests : WF_vars(Answer(c))

-----------------------------------------------------------------------------
(* Properties.                                                             *)

(* Type correctness of both tables and of the running loops.               *)
IsTable(table) == DOMAIN table \subseteq Ids /\ Range(table) \subseteq Callbacks

TypeOK ==
  /\ made \in Seq(AllKinds)
  /\ outcome \in Seq({"pending", "done", "cancelled"})
  /\ Len(outcome) = Len(made) /\ Len(told) = Len(made)
  /\ \A c \in Callbacks : told[c] \in Seq({NoResponse, EmptyResponse} \cup Callbacks)
  /\ nextId \in Ids
  /\ IsTable(commands) /\ IsTable(pending)
  /\ prepare \in Ids \cup {None}
  /\ armed \in BOOLEAN /\ failed \in BOOLEAN
  /\ \A i \in DOMAIN polls :
       /\ DOMAIN polls[i] = {"left", "again", "calling"}
       /\ IsTable(polls[i].left)
       /\ polls[i].again \in BOOLEAN
       /\ polls[i].calling \in {"nothing", "raw", "prompt"}
  /\ restarts \in Nat

(* A callback is called at most once, and with a response only if it is    *)
(* that of its own request, "the command response": loops that run inside  *)
(* each other never serve a request twice.  (Between restarts: the IDs of  *)
(* a new session start over while the old callbacks stay.)                 *)
CallbackGetsItsOwnResponseOnce ==
  restarts = 0 =>
  \A c \in Callbacks :
    /\ Len(told[c]) <= 1
    /\ \A i \in DOMAIN told[c] : told[c][i] \in {NoResponse, EmptyResponse, c}

(* A new preparation supersedes the one before: ycmd is never left working *)
(* on a rename that nobody will be asked about.                            *)
OnePreparationAtATime ==
  restarts = 0 =>
  \A c \in Callbacks :
    made[c] = "prepare" /\ outcome[c] = "pending" =>
      prepare # None /\ commands[prepare] = c

(* The table of ycm_state never holds a request whose callback Vim has     *)
(* forgotten: nothing would ever flush it, or cancel it at ycmd.           *)
NoRequestLeaks == DOMAIN commands \subseteq DOMAIN pending

(* Once a raw, hover, state, prepare or rename request is registered, its  *)
(* callback is eventually called: only a loop that is aborted by E716, or  *)
(* a restart, may lose it.  This is not what the manual says of            *)
(* GetCommandResponseAsync ("extern"): that registers no request and never *)
(* calls its callback, since it passes on `callback` for `a:callback`.     *)
EveryCallbackIsCalled ==
  \A c \in 1 .. MaxRequests :
    (c \in Callbacks /\ made[c] # "extern") ~>
      ((c \in Callbacks /\ told[c] # << >>) \/ failed \/ restarts > 0)

(* "Must copy the requests because this loop is likely to modify it": the  *)
(* loop copes with the entries that go away while it runs.                 *)
LoopCopesWithModification == ~failed
=============================================================================
