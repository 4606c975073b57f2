----------------------------- MODULE DiagnosticsUI -----------------------------
(***************************************************************************)
(* What the user sees of diagnostics: Buffer's and DiagnosticInterface's   *)
(* part in signs, highlights and the virtual text of the cursor's line     *)
(* (diagnostic_interface.py, diagnostic_filter.py), with                   *)
(* g:ycm_update_diagnostics_in_insert_mode 0 and                           *)
(* g:ycm_echo_current_diagnostic 'virtual-text'.  Diagnostics of a buffer  *)
(* come by two ways, the response to its parse request and the message poll*)
(* of its filetype, while the user inserts text, changes windows, disables *)
(* the language server or restarts ycmd.  The parse requests themselves are*)
(* those of the module FileParse, the polls those of ServerMessages.       *)
(***************************************************************************)
EXTENDS Integers, FiniteSetsExt

CONSTANTS
  Shown,        \* the buffers in the windows of the tab, of one filetype
  LastLine,     \* lines of each of them
  Reports,      \* what may be reported of one: sets of diagnostics
  Blank,        \* Python's None: no virtual text
  Upsets        \* bounds: what may happen besides: see below

(* "disable": the language server is disabled; "poll": its message poll    *)
(* ends and is registered again; "restart": :YcmRestartServer.             *)
ASSUME LinesAssumption == LastLine \in Nat \ {0}
ASSUME UpsetsAssumption == Upsets \subseteq {"disable", "poll", "restart"}

Diagnostics == [line : 1..LastLine, kind : {"ERROR", "WARNING"}, allowed : BOOLEAN]

ASSUME ReportsAssumption == Reports \subseteq SUBSET Diagnostics

VARIABLES
  window,        \* the buffer of the current window
  cursor,        \* its line
  inserting,     \* 'i' is in mode()
  diagnostics,   \* DiagnosticInterface._diagnostics of each buffer
  signs,         \* on the screen: the signs,
  matches,       \*   the highlights (text properties),
  virtual,       \*   and the virtual text of each buffer
  previousLine,  \* _previous_diag_line_number
  asyncDiags,    \* Buffer._async_diags
  parse,         \* its parse request: handled, pending or done
  polled         \* _message_poll_requests has a poll of the filetype

screenOf == <<signs, matches, virtual, previousLine>>
userOf == <<window, cursor, inserting>>
serverOf == <<asyncDiags, parse, polled>>
presentation == <<userOf, diagnostics, screenOf, serverOf>>

-----------------------------------------------------------------------------
(* _ApplyDiagnosticFilter *)
IsAllowed(report) == {d \in report : d.allowed}

OnLine(diags, line) == {d \in diags : d.line = line}
IsError(d) == d.kind = "ERROR"

(* _ConvertDiagListToDict sorts errors before warnings.                    *)
FirstOnLine(diags, line) ==
  IF OnLine(diags, line) = {} THEN Blank
  ELSE IF \E d \in OnLine(diags, line) : IsError(d) THEN [line |-> line, kind |-> "ERROR"]
  ELSE [line |-> line, kind |-> "WARNING"]

SignsOf(diags) == {FirstOnLine(diags, d.line) : d \in diags}

(* Mutant: new diagnostics are always drawn. *)
AlwaysUpdate == TRUE

ShouldUpdateDiagnosticsUINow == ~inserting

(* RefreshDiagnosticsUI: _EchoDiagnostic takes the line of the current     *)
(* window, whatever buffer it is in.                                       *)
RefreshDiagnosticsUI(b, diags) ==
  /\ signs' = [signs EXCEPT ![b] = SignsOf(diags)]
  /\ matches' = [matches EXCEPT ![b] = diags]
  /\ virtual' = [virtual EXCEPT ![b] = FirstOnLine(diags, cursor)]
  /\ previousLine' = [previousLine EXCEPT ![b] = cursor]

(* ClearDiagnosticsUI, of every buffer in bs.  The diagnostics stay.       *)
ClearDiagnosticsUI(bs) ==
  /\ signs' = [b \in Shown |-> IF b \in bs THEN {} ELSE signs[b]]
  /\ matches' = [b \in Shown |-> IF b \in bs THEN {} ELSE matches[b]]
  /\ virtual' = [b \in Shown |-> IF b \in bs THEN Blank ELSE virtual[b]]

(* Buffer.UpdateWithNewDiagnostics *)
UpdateWithNewDiagnostics(b, report, async) ==
  LET diags == IsAllowed(report)
  IN /\ asyncDiags' = [asyncDiags EXCEPT ![b] = async]
     /\ diagnostics' = [diagnostics EXCEPT ![b] = diags]
     /\ IF ShouldUpdateDiagnosticsUINow THEN RefreshDiagnosticsUI(b, diags)
        ELSE UNCHANGED screenOf

-----------------------------------------------------------------------------
(* A message of the poll: UpdateWithNewDiagnosticsForFile, for a known and *)
(* visible buffer.                                                         *)
UpdateWithNewDiagnosticsForFile(b, report) ==
  /\ polled
  /\ UpdateWithNewDiagnostics(b, report, TRUE)
  /\ UNCHANGED <<userOf, parse, polled>>

(* HandleFileParseRequest: the file parse poller, or block for             *)
(* :YcmForceCompileAndDiagnostics.                                         *)
HandleFileParseRequest(report, block) ==
  /\ parse[window] = "done" \/ (block /\ ~inserting)
  /\ parse' = [parse EXCEPT ![window] = "handled"]
  /\ IF block \/ ~polled \/ ~asyncDiags[window]
     THEN UpdateWithNewDiagnostics(window, report, FALSE)
     ELSE UNCHANGED <<diagnostics, screenOf, asyncDiags>>
  /\ UNCHANGED <<userOf, polled>>

(* External: ycmd answers. *)
ParseDone(b) ==
  /\ parse[b] = "pending" /\ parse' = [parse EXCEPT ![b] = "done"]
  /\ UNCHANGED <<userOf, diagnostics, screenOf, asyncDiags, polled>>

(* The text was changed, s:OnFileReadyToParse.  In insert mode             *)
(* s:OnTextChangedInsertMode also calls OnCursorMoved, which clears the    *)
(* virtual text.                                                           *)
TextChanged ==
  /\ parse' = [parse EXCEPT ![window] = "pending"]
  /\ virtual' = IF inserting THEN [virtual EXCEPT ![window] = Blank] ELSE virtual
  /\ UNCHANGED <<userOf, diagnostics, signs, matches, previousLine, asyncDiags, polled>>

OnInsertEnter ==
  /\ ~inserting /\ inserting' = TRUE
  /\ ClearDiagnosticsUI({window})
  /\ UNCHANGED <<window, cursor, diagnostics, previousLine, serverOf>>

(* s:OnInsertLeave: a changed text is parsed first, and its response is    *)
(* waited for unless the poll brings the diagnostics.                      *)
OnInsertLeave ==
  /\ inserting /\ inserting' = FALSE
  /\ parse' \in {parse, [parse EXCEPT ![window] = "pending"]}
  /\ IF polled \/ parse'[window] # "pending"
     THEN RefreshDiagnosticsUI(window, diagnostics[window])
     ELSE UNCHANGED screenOf
  /\ UNCHANGED <<window, cursor, diagnostics, asyncDiags, polled>>

(* s:OnCursorMovedNormalMode: the virtual text follows the line.           *)
OnCursorMoved(line) ==
  /\ ~inserting /\ cursor' = line
  /\ IF line = previousLine[window] THEN UNCHANGED <<virtual, previousLine>>
     ELSE /\ virtual' = [virtual EXCEPT ![window] = FirstOnLine(diagnostics[window], line)]
          /\ previousLine' = [previousLine EXCEPT ![window] = line]
  /\ UNCHANGED <<window, inserting, diagnostics, signs, matches, serverOf>>

(* s:OnBufferEnter: the highlights, not the signs, and a new parse.        *)
OnBufferEnter(b) ==
  /\ ~inserting /\ b # window /\ window' = b
  /\ cursor' \in 1..LastLine
  /\ matches' = [matches EXCEPT ![b] = diagnostics[b]]
  /\ parse' = [parse EXCEPT ![b] = "pending"]
  /\ UNCHANGED <<inserting, diagnostics, signs, virtual, previousLine, asyncDiags, polled>>

(* OnFileTypeSet: Buffer.UpdateFromFileTypes, and a new parse.             *)
OnFileTypeSet ==
  /\ ~inserting
  /\ asyncDiags' = [asyncDiags EXCEPT ![window] = FALSE]
  /\ parse' = [parse EXCEPT ![window] = "pending"]
  /\ UNCHANGED <<userOf, diagnostics, screenOf, polled>>

(* The reply to :YcmDisableLanguageServer,                                 *)
(* _HandleLanguageServerStateResponse.                                     *)
LanguageServerDisabled ==
  /\ "disable" \in Upsets
  /\ ClearDiagnosticsUI(Shown)
  /\ UNCHANGED <<userOf, diagnostics, previousLine, serverOf>>

(* A poll that failed is None until the filetype is registered again.      *)
PollChanges ==
  /\ "poll" \in Upsets /\ polled' = ~polled
  /\ UNCHANGED <<userOf, diagnostics, screenOf, asyncDiags, parse>>

(* RestartServer: the screen is cleared, the Buffers are new; polls are    *)
(* registered when ycmd is ready.                                          *)
RestartClears ==
  /\ "restart" \in Upsets /\ ~inserting
  /\ ClearDiagnosticsUI(Shown)
  /\ diagnostics' = [b \in Shown |-> {}] /\ previousLine' = [b \in Shown |-> -1]
  /\ asyncDiags' = [b \in Shown |-> FALSE] /\ parse' = [b \in Shown |-> "handled"]
  /\ polled' = FALSE
  /\ UNCHANGED userOf

-----------------------------------------------------------------------------
InitPresentation ==
  /\ window \in Shown /\ cursor = 1 /\ inserting = FALSE
  /\ diagnostics = [b \in Shown |-> {}]
  /\ signs = [b \in Shown |-> {}] /\ matches = [b \in Shown |-> {}]
  /\ virtual = [b \in Shown |-> Blank] /\ previousLine = [b \in Shown |-> -1]
  /\ asyncDiags = [b \in Shown |-> FALSE] /\ parse = [b \in Shown |-> "handled"]
  /\ polled = TRUE

NextPresentation ==
  \/ \E b \in Shown, report \in Reports : UpdateWithNewDiagnosticsForFile(b, report)
  \/ \E report \in Reports, block \in BOOLEAN : HandleFileParseRequest(report, block)
  \/ \E b \in Shown : ParseDone(b)
  \/ TextChanged
  \/ OnInsertEnter \/ OnInsertLeave
  \/ \E line \in 1..LastLine : OnCursorMoved(line)
  \/ \E b \in Shown : OnBufferEnter(b)
  \/ OnFileTypeSet
  \/ LanguageServerDisabled \/ PollChanges \/ RestartClears

PresentationSpec == InitPresentation /\ [][NextPresentation]_presentation

PresentationTypeOK ==
  /\ window \in Shown /\ cursor \in 1..LastLine
  /\ inserting \in BOOLEAN /\ polled \in BOOLEAN
  /\ diagnostics \in [Shown -> SUBSET Diagnostics]
  /\ signs \in [Shown -> SUBSET [line : 1..LastLine, kind : {"ERROR", "WARNING"}]]
  /\ matches \in [Shown -> SUBSET Diagnostics]
  /\ virtual \in [Shown -> {Blank} \union [line : 1..LastLine, kind : {"ERROR", "WARNING"}]]
  /\ previousLine \in [Shown -> {-1} \union 1..LastLine]
  /\ asyncDiags \in [Shown -> BOOLEAN]
  /\ parse \in [Shown -> {"handled", "pending", "done"}]

(* diagnostic_interface.py, youcompleteme.py: nothing is drawn in the      *)
(* buffer that is being typed in, whichever way diagnostics arrive for it  *)
(* and whatever the poll, the language server and the cursor do meanwhile. *)
InsertModeIsQuiet ==
  inserting => signs[window] = {} /\ matches[window] = {} /\ virtual[window] = Blank
=============================================================================
