----------------------------- MODULE SignatureHelp -----------------------------
(***************************************************************************)
(* The popup with the signatures of the call that is being typed           *)
(* (client/signature_help_request.py, youcompleteme.py, and                *)
(* autoload/youcompleteme/signature_help.vim), for a buffer of one         *)
(* filetype: whether ycmd offers signatures for it, the one request with   *)
(* its poller, the updates that are put off while the completion menu      *)
(* changes, and the popup the user may hide.  A signature stands for what  *)
(* the popup shows of it; where it is put is left out, and so is <C-c>,    *)
(* at which the editor tells no one that insert mode is over.              *)
(***************************************************************************)
EXTENDS Naturals

CONSTANTS
  Signatures,   \* answers with something to show
  NoSignature,  \* {}: nothing to show
  NoRequest,    \* no request, or one that was Reset
  Unanswered    \* its future is not done

ASSUME SignaturesAssumption ==
  /\ {NoSignature, NoRequest, Unanswered} \cap Signatures = {}
  /\ NoSignature # Unanswered /\ NoRequest \notin {NoSignature, Unanswered}

VARIABLES
  typing,         \* the user is in insert mode
  available,      \* SignatureHelpAvailableRequest of the filetype
  request,        \* _latest_signature_help_request: NoRequest, or its answer
  poller,         \* s:pollers.signature_help: has an id, and its timer runs
  putOff,         \* the 0 ms timer of s:OnCompleteChanged runs
  signatureHelp,  \* s:signature_help
  popupState,     \* s:state; INACTIVE is without a popup
  presented       \* what the popup, visible or hidden, was last rendered with

popupOf == <<signatureHelp, popupState, presented>>
signatures == <<typing, available, request, poller, putOff, popupOf>>

-----------------------------------------------------------------------------
(* signature_help#Clear *)
ClearPopup == popupState' = "INACTIVE" /\ presented' = NoSignature

(* signature_help#Update.  There may be no room for the popup, for example *)
(* because of the completion menu: then it is closed.                      *)
UpdatePopup(help) ==
  \/ ClearPopup
  \/ /\ help # NoSignature
     /\ popupState' = IF popupState = "INACTIVE" THEN "ACTIVE" ELSE popupState
     /\ presented' = help

(* Mutant: the poller keeps the id of a timer that has fired. *)
NotStopped(p) == p

(* s:StopPoller *)
Stopped(p) == [id |-> FALSE, runs |-> FALSE]

(* s:PollSignatureHelp after a request was sent: with an id in the poller, *)
(* it relies on a timer.                                                   *)
Polling(p) == IF p.id THEN p ELSE [id |-> TRUE, runs |-> TRUE]

(* s:ClearSignatureHelp *)
ClearSignatureHelp ==
  /\ poller' = Stopped(poller)
  /\ signatureHelp' = NoSignature
  /\ request' = NoRequest
  /\ ClearPopup

-----------------------------------------------------------------------------
(* SignatureHelpAvailableRequestComplete asks, once; a filetype whose      *)
(* answer was PENDING is asked again when text is typed.                   *)
AskedIf(answers) == IF available \in answers THEN "asked" ELSE available

(* s:OnTextChangedInsertMode and the mapping, each after s:RequestCompletion:*)
(* s:RequestSignatureHelp.  Only NO and PENDING keep a request from being  *)
(* sent, an availability request that failed does not.                     *)
RequestSignatureHelp ==
  /\ typing
  /\ available' = AskedIf({"none", "PENDING"})
  /\ IF available \in {"YES", "failed"}
     THEN request' = Unanswered /\ poller' = Polling(Stopped(poller))
     ELSE poller' = Stopped(poller) /\ UNCHANGED request
  /\ UNCHANGED <<typing, putOff, popupOf>>

(* s:PollSignatureHelp as a timer.  Its id stays in the poller.            *)
PollSignatureHelp ==
  /\ poller.runs /\ request \notin {NoRequest, Unanswered}
  /\ poller' = [poller EXCEPT !.runs = FALSE]
  /\ signatureHelp' = request
  /\ UpdatePopup(request)
  /\ UNCHANGED <<typing, available, request, putOff>>

(* s:OnCompleteChanged: the update is put off. *)
OnCompleteChanged ==
  /\ typing /\ putOff' = TRUE
  /\ UNCHANGED <<typing, available, request, poller, popupOf>>

(* s:UpdateSignatureHelp, by that timer or in s:OnCompleteDone.            *)
UpdateSignatureHelp ==
  /\ \/ putOff /\ putOff' = FALSE
     \/ typing /\ UNCHANGED putOff
  /\ UpdatePopup(signatureHelp)
  /\ UNCHANGED <<typing, available, request, poller, signatureHelp>>

(* s:ToggleSignatureHelp, ToggleVisibility *)
ToggleVisibility ==
  /\ typing
  /\ \/ popupState = "ACTIVE" /\ popupState' = "ACTIVE_SUPPRESSED"
     \/ popupState = "ACTIVE_SUPPRESSED" /\ popupState' = "ACTIVE"
  /\ UNCHANGED <<typing, available, request, poller, putOff, signatureHelp, presented>>

EnterInsert ==
  /\ ~typing /\ typing' = TRUE
  /\ UNCHANGED <<available, request, poller, putOff, popupOf>>

LeaveInsert ==
  /\ typing /\ typing' = FALSE
  /\ ClearSignatureHelp
  /\ UNCHANGED <<available, putOff>>

(* s:StopCompletion, s:OnFileReadyToParse (a timer may call it in insert   *)
(* mode), and the reply to :YcmDisableLanguageServer.                      *)
ClearWhereItIs ==
  /\ ClearSignatureHelp
  /\ UNCHANGED <<typing, available, putOff>>

(* s:OnFileTypeSet, s:OnBufferEnter, and s:PollServerReady when ycmd is    *)
(* ready: OnBufferVisit, and a parse.                                      *)
OnBufferVisit ==
  /\ available' = AskedIf({"none"})
  /\ ClearSignatureHelp
  /\ UNCHANGED <<typing, putOff>>

(* s:RestartServer *)
RestartForgets ==
  /\ ~typing
  /\ available' = "none"
  /\ ClearSignatureHelp
  /\ UNCHANGED <<typing, putOff>>

(* External: ycmd answers, or the request fails. *)
AnswerAvailable ==
  /\ available = "asked" /\ available' \in {"YES", "NO", "PENDING", "failed"}
  /\ UNCHANGED <<typing, request, poller, putOff, popupOf>>

AnswerSignatureHelp ==
  /\ request = Unanswered /\ request' \in Signatures \union {NoSignature}
  /\ UNCHANGED <<typing, available, poller, putOff, popupOf>>

-----------------------------------------------------------------------------
InitSignatures ==
  /\ typing = FALSE /\ available = "none" /\ request = NoRequest
  /\ poller = [id |-> FALSE, runs |-> FALSE] /\ putOff = FALSE
  /\ signatureHelp = NoSignature /\ popupState = "INACTIVE" /\ presented = NoSignature

NextSignatures ==
  \/ RequestSignatureHelp \/ PollSignatureHelp
  \/ OnCompleteChanged \/ UpdateSignatureHelp \/ ToggleVisibility
  \/ EnterInsert \/ LeaveInsert \/ ClearWhereItIs
  \/ OnBufferVisit \/ RestartForgets
  \/ AnswerAvailable \/ AnswerSignatureHelp

SignaturesSpec == InitSignatures /\ [][NextSignatures]_signatures

SignaturesTypeOK ==
  /\ typing \in BOOLEAN /\ putOff \in BOOLEAN
  /\ available \in {"none", "asked", "YES", "NO", "PENDING", "failed"}
  /\ request \in Signatures \union {NoSignature, NoRequest, Unanswered}
  /\ poller \in [id : BOOLEAN, runs : BOOLEAN]
  /\ signatureHelp \in Signatures \union {NoSignature}
  /\ popupState \in {"INACTIVE", "ACTIVE", "ACTIVE_SUPPRESSED"}
  /\ presented \in Signatures \union {NoSignature}

(* README.md: the popup "is hidden when ... you leave insert mode", and    *)
(* nothing that is still on its way then, neither an answer nor an update  *)
(* that was put off, brings it back; a request that ycmd is working on, or *)
(* whose answer is not read yet, has a timer that will read it, whatever   *)
(* timer has run before; and a popup, also one that the user has hidden and*)
(* may show again, has the signatures of the last answer that was read.    *)
PopupIsInStep ==
  /\ ~typing => popupState = "INACTIVE" /\ request = NoRequest
  /\ request # NoRequest /\ request # signatureHelp => poller.runs
  /\ popupState # "INACTIVE" => presented = signatureHelp /\ presented # NoSignature
=============================================================================
