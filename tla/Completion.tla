------------------------------ MODULE Completion ------------------------------
(***************************************************************************)
(* Completion as you type and the resolution of selected candidates: the   *)
(* Insert mode events and the completion poller of                         *)
(* autoload/youcompleteme.vim, YouCompleteMe._latest_completion_request,   *)
(* CompletionRequest and ResolveCompletionRequest.                         *)
(*                                                                         *)
(* Completion and resolve requests share one slot in ycm_state and one     *)
(* poller in Vim, but the first timer of a resolve request is started      *)
(* without being stored in s:pollers.completion.id: it is a stray.  Vim    *)
(* runs a timer when it waits for a key, so a stray runs before the next   *)
(* key unless that key has been typed ahead.                               *)
(***************************************************************************)
EXTENDS Integers, Sequences, SequencesExt

CONSTANTS
  Items,        \* candidates in the completion menus
  Resolvable,   \* those whose details ycmd can resolve
  Typeahead,    \* keys may be typed ahead
  MaxTyped,     \* bound: places in the text
  MaxRequests,  \* bound: requests posted
  None          \* nothing selected, no timer, no popup

ASSUME ItemsAssumption == Resolvable \subseteq Items /\ None \notin Items
ASSUME TypeaheadAssumption == Typeahead \in BOOLEAN
ASSUME BoundsAssumption == MaxTyped \in Nat /\ MaxRequests \in Nat

VARIABLES
  insert,    \* Insert mode
  typed,     \* the place in the text, a new one for every change of the user's
  selected,  \* the candidate that the menu has inserted at this place, or None
  asked,     \* s:current_cursor_position
  stopped,   \* s:completion_stopped
  menu,      \* the request whose candidates the menu shows, or 0
  info,      \* what the info popup shows
  requests,  \* every request ever made; the last is _latest_completion_request
  stored,    \* the timer that s:pollers.completion.id names, or None
  strays     \* running timers that it does not name

text == <<insert, typed, selected>>
display == <<menu, info>>
timers == <<stored, strays>>
vars == <<text, asked, stopped, display, requests, timers>>

Place == [typed : Nat, selected : Items \cup {None}]
Cursor == [typed |-> typed, selected |-> selected]

Latest == Len(requests)
Is(kind) == Latest > 0 /\ requests[Latest].kind = kind

(* CompletionRequestReady *)
Ready == Latest > 0 /\ requests[Latest].outcome \in {"items", "empty"}

CompletionTimer == [function |-> "completion", item |-> None]
ResolveTimer(item) == [function |-> "resolve", item |-> item]

-----------------------------------------------------------------------------
(* Requests.                                                               *)

(* Mutant: the latest request is not cancelled.                            *)
NothingCancelled == requests

(* Mutant: the cancelled request is left without an outcome.               *)
LatestForgotten ==
  [r \in DOMAIN requests |->
     IF r = Latest THEN [requests[r] EXCEPT !.outcome = None] ELSE requests[r]]

(* BaseRequest.Cancel of the latest request.                               *)
LatestCancelled ==
  [r \in DOMAIN requests |->
     IF r = Latest /\ requests[r].outcome = "pending"
     THEN [requests[r] EXCEPT !.outcome = "cancelled"]
     ELSE requests[r]]

NewRequest(kind, at, item) ==
  [kind |-> kind, at |-> at, item |-> item, outcome |-> "pending", reads |-> 0]


(* s:RequestCompletion, s:RequestSemanticCompletion: the poller starts over.*)
RequestCompletion(at) ==
  /\ Latest < MaxRequests
  /\ requests' = Append(LatestCancelled, NewRequest("completion", at, None))
  /\ stored' = CompletionTimer
  /\ UNCHANGED strays

(* ResolveCompletionItem: the latest request must be done and the candidate*)
(* have something to resolve.                                              *)
CanResolve(item) == Ready /\ item \in Resolvable

(* Mutant: the poller is left running.                                     *)
ResolveBesidePoller(item) ==
  /\ info' = [item |-> item, resolved |-> FALSE]
  /\ IF CanResolve(item)
     THEN /\ Latest < MaxRequests
          /\ requests' = Append(requests, NewRequest("resolve", Cursor, item))
          /\ strays' = Append(strays, ResolveTimer(item))
          /\ UNCHANGED stored
     ELSE UNCHANGED <<requests, timers>>

(* s:ResolveCompletionItem: a resolve request takes the place of the latest*)
(* request when that is done; otherwise the popup shows what the candidate *)
(* came with.                                                              *)
ResolveCompletionItem(item) ==
  /\ info' = [item |-> item, resolved |-> FALSE]
  /\ IF CanResolve(item)
     THEN /\ Latest < MaxRequests
          /\ requests' = Append(requests, NewRequest("resolve", Cursor, item))
          /\ stored' = None
          /\ strays' = Append(strays, ResolveTimer(item))
     ELSE UNCHANGED <<requests, timers>>

-----------------------------------------------------------------------------
(* The user.                                                               *)

KeyIsRead == insert /\ (Typeahead \/ strays = << >>)

MenuCloses == menu' = 0 /\ info' = None

(* A character is typed, after which the menu stays or has been closed, and*)
(* TextChangedI or TextChangedP runs s:OnTextChangedInsertMode.  In a      *)
(* comment, a string or on a blank line nothing is requested.              *)
TypeText(quiet) ==
  /\ KeyIsRead
  /\ typed < MaxTyped
  /\ typed' = typed + 1
  /\ selected' = None
  /\ asked' = Cursor'
  /\ MenuCloses \/ (info' = None /\ UNCHANGED menu)
  /\ IF stopped \/ quiet
     THEN UNCHANGED <<requests, timers>>
     ELSE RequestCompletion(Cursor')
  /\ stopped' = FALSE
  /\ UNCHANGED insert

(* <C-Space>: s:RequestSemanticCompletion.  The menu is closed first.      *)
RequestSemanticCompletion ==
  /\ KeyIsRead
  /\ typed < MaxTyped
  /\ typed' = typed + 1
  /\ selected' = None
  /\ MenuCloses
  /\ asked' = Cursor'
  /\ RequestCompletion(Cursor')
  /\ UNCHANGED <<insert, stopped>>

(* <Plug>(YCMComplete): s:ManuallyRequestCompletion, which leaves           *)
(* s:current_cursor_position alone.                                        *)
ManuallyRequestCompletion ==
  /\ KeyIsRead
  /\ typed < MaxTyped
  /\ typed' = IF selected = None THEN typed ELSE typed + 1
  /\ selected' = None
  /\ MenuCloses
  /\ RequestCompletion(Cursor')
  /\ UNCHANGED <<insert, asked, stopped>>

(* A candidate is selected in the menu, or none: CompleteChanged.  The     *)
(* TextChangedP that follows is ignored, for it was not the user who typed.*)
SelectItem(item) ==
  /\ KeyIsRead
  /\ menu # 0
  /\ item # selected
  /\ selected' = item
  /\ IF item = None
     THEN info' = None /\ UNCHANGED <<requests, timers>>
     ELSE ResolveCompletionItem(item)
  /\ UNCHANGED <<insert, typed, asked, stopped, menu>>

(* <C-y>: s:StopCompletion.  A TextChangedI may follow, which only resets  *)
(* s:completion_stopped.                                                   *)
StopCompletion ==
  /\ KeyIsRead
  /\ menu # 0
  /\ typed < MaxTyped
  /\ typed' = typed + 1
  /\ selected' = None
  /\ MenuCloses
  /\ stored' = None
  /\ \/ stopped' = TRUE /\ UNCHANGED asked
     \/ stopped' = FALSE /\ asked' = Cursor'
  /\ UNCHANGED <<insert, requests, strays>>

(* The cursor is moved within Insert mode: CursorMovedI.                   *)
MoveCursor ==
  /\ KeyIsRead
  /\ typed < MaxTyped
  /\ typed' = typed + 1
  /\ selected' = None
  /\ asked' = Cursor'
  /\ MenuCloses
  /\ UNCHANGED <<insert, stopped, requests, timers>>

(* InsertLeave: s:OnInsertLeave *)
LeaveInsert ==
  /\ KeyIsRead
  /\ insert' = FALSE
  /\ selected' = None
  /\ MenuCloses
  /\ stored' = None
  /\ UNCHANGED <<typed, asked, stopped, requests, strays>>

(* InsertEnter: s:OnInsertEnter *)
EnterInsert ==
  /\ ~insert
  /\ typed < MaxTyped
  /\ insert' = TRUE
  /\ typed' = typed + 1
  /\ UNCHANGED <<selected, stopped, display, requests, timers>>
  /\ asked' = Cursor'

-----------------------------------------------------------------------------
(* Timers.  A timer that finds the request unanswered is started again, as *)
(* the one that is stored.                                                 *)

Restart(stray) ==
  /\ stored' = strays[stray]
  /\ strays' = IF stored = None
               THEN RemoveAt(strays, stray)
               ELSE Append(RemoveAt(strays, stray), stored)

(* GetCompletionResponse: the body of a response can be read only once.    *)
Read == [requests EXCEPT ![Latest].reads = @ + 1]
HasItems == requests[Latest].outcome = "items" /\ requests[Latest].reads = 0

(* s:PollCompletion on an answered request, and s:Complete.                *)
ShowCompletions ==
  /\ requests' = Read
  /\ \/ /\ Is("completion") /\ insert /\ asked = Cursor
        /\ HasItems
        /\ menu' = Latest
        /\ info' = None
        /\ selected' = None
     \/ /\ Is("completion") /\ insert /\ asked = Cursor
        /\ ~HasItems
        /\ MenuCloses
        /\ selected' = None
     \/ /\ ~(Is("completion") /\ insert /\ asked = Cursor)
        /\ UNCHANGED <<display, selected>>

(* s:PollResolve on an answered request.  A response to a completion       *)
(* request has no "completion" entry: the function fails.                  *)
ShowResolved ==
  /\ requests' = Read
  /\ UNCHANGED <<menu, selected>>
  /\ IF Is("resolve") /\ HasItems /\ info # None
     THEN info' = [item |-> requests[Latest].item, resolved |-> TRUE]
     ELSE UNCHANGED info

Show(timer) ==
  IF timer.function = "completion" THEN ShowCompletions ELSE ShowResolved

RunStored ==
  /\ stored # None
  /\ Ready
  /\ Show(stored)
  /\ stored' = None
  /\ UNCHANGED <<insert, typed, asked, stopped, strays>>

RunStray(stray) ==
  /\ IF Ready
     THEN /\ Show(strays[stray])
          /\ strays' = RemoveAt(strays, stray)
          /\ UNCHANGED stored
     ELSE /\ Restart(stray)
          /\ UNCHANGED <<display, selected, requests>>
  /\ UNCHANGED <<insert, typed, asked, stopped>>

(* ycmd answers, with candidates (or details) or with none.                *)
Answer(r) ==
  /\ r \in DOMAIN requests
  /\ requests[r].outcome = "pending"
  /\ \E outcome \in {"items", "empty"} :
       requests' = [requests EXCEPT ![r].outcome = outcome]
  /\ UNCHANGED <<text, asked, stopped, display, timers>>

-----------------------------------------------------------------------------
Init ==
  /\ insert = FALSE
  /\ typed = 0
  /\ selected = None
  /\ asked = [typed |-> 0, selected |-> None]
  /\ stopped = FALSE
  /\ menu = 0
  /\ info = None
  /\ requests = << >>
  /\ stored = None
  /\ strays = << >>

Next ==
  \/ \E quiet \in BOOLEAN : TypeText(quiet)
  \/ RequestSemanticCompletion \/ ManuallyRequestCompletion
  \/ \E item \in Items \cup {None} : SelectItem(item)
  \/ StopCompletion \/ MoveCursor \/ LeaveInsert \/ EnterInsert
  \/ RunStored
  \/ \E stray \in DOMAIN strays : RunStray(stray)
  \/ \E r \in 1 .. MaxRequests : Answer(r)

Spec == Init /\ [][Next]_vars

(* Timers fire and every request ends, within its timeout if need be.      *)
FairSpec ==
  /\ Spec
  /\ WF_vars(RunStored)
  /\ WF_vars(\E stray \in DOMAIN strays : RunStray(stray))
  /\ \A r \in 1 .. MaxRequests : WF_vars(Answer(r))

-----------------------------------------------------------------------------
(* Properties.                                                             *)

(* Type correctness of text, requests and timers.                          *)
Timer == {CompletionTimer} \cup {ResolveTimer(item) : item \in Items}

Request == [kind : {"completion", "resolve"}, at : Place,
            item : Items \cup {None},
            outcome : {"pending", "items", "empty", "cancelled"}, reads : Nat]

TypeOK ==
  /\ insert \in BOOLEAN /\ stopped \in BOOLEAN
  /\ Cursor \in Place /\ asked \in Place
  /\ requests \in Seq(Request)
  /\ menu \in 0 .. Latest
  /\ info \in [item : Items, resolved : BOOLEAN] \cup {None}
  /\ stored \in Timer \cup {None}
  /\ strays \in Seq(Timer)

(* YCM cancels "superseded completion, completion-resolution ... requests":*)
(* ycmd never works on a request that is not the latest one.               *)
PendingIsLatest ==
  \A r \in DOMAIN requests : requests[r].outcome = "pending" => r = Latest

(* "It's not valid to have simultaneous resolve and completion requests":  *)
(* every running timer polls for the kind of request that is the latest,   *)
(* so that no poller takes the response meant for the other.               *)
Running == {stored} \cup {strays[s] : s \in DOMAIN strays}

PollersMatchRequest ==
  \A timer \in Running \ {None} : Is(timer.function)


(* The manual on g:ycm_max_num_candidates_to_detail: "YCM will defer       *)
(* resolving candidates until they are selected in the completion menu":   *)
(* a candidate that stays selected has been resolved.                      *)
SelectedIsResolved ==
  \A item \in Resolvable :
    (selected = item) ~>
      \/ selected # item
      \/ \E r \in DOMAIN requests :
           requests[r].kind = "resolve" /\ requests[r].item = item
=============================================================================
