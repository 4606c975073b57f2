------------------------- MODULE EditorSupportProofs -------------------------
(***************************************************************************)
(* Proofs about the parts of EditorSupport, one section for each: its      *)
(* inductive invariant, a lemma for each operation that says that it is    *)
(* kept, and the theorems; those about TextEdits, and the lemmas about     *)
(* numbers and sequences that several parts need, are in TextEditsProofs.  *)
(* The last section carries them over to the specification of all parts.   *)
(***************************************************************************)
EXTENDS EditorSupport, TextEditsProofs

-----------------------------------------------------------------------------
(*****************************************************************************)
(* SignatureHelp                                                             *)
(*****************************************************************************)

(* Out of insert mode there is nothing that an update could show, and no   *)
(* timer that could fetch it.                                              *)
NothingToShow == ~typing => signatureHelp = NoSignature /\ ~poller.runs

(* A request is only sent where signatures may be offered.                 *)
RequestIsOffered == request # NoRequest => available \in {"YES", "failed"}

SInv == SignaturesTypeOK /\ PopupIsInStep /\ NothingToShow /\ RequestIsOffered

-----------------------------------------------------------------------------
LEMMA SignaturesInit == InitSignatures => SInv
<1> SUFFICES ASSUME InitSignatures
             PROVE  SInv
  OBVIOUS
<1>1. SignaturesTypeOK
  BY DEF InitSignatures, SignaturesTypeOK
<1>2. PopupIsInStep
  BY SignaturesAssumption DEF InitSignatures, PopupIsInStep
<1>3. NothingToShow /\ RequestIsOffered
  BY DEF InitSignatures, NothingToShow, RequestIsOffered
<1> QED
  BY <1>1, <1>2, <1>3 DEF SInv

(* After a clear the mode does not matter.                                 *)
LEMMA SignaturesCleared ==
  ASSUME ClearSignatureHelp, typing' \in BOOLEAN, putOff' \in BOOLEAN,
         available' \in {"none", "asked", "YES", "NO", "PENDING", "failed"}
  PROVE  SInv'
<1>1. /\ poller' = [id |-> FALSE, runs |-> FALSE]
      /\ signatureHelp' = NoSignature /\ request' = NoRequest
      /\ popupState' = "INACTIVE" /\ presented' = NoSignature
  BY DEF ClearSignatureHelp, ClearPopup, Stopped
<1>2. SignaturesTypeOK'
  BY <1>1 DEF SignaturesTypeOK
<1>3. PopupIsInStep' /\ NothingToShow' /\ RequestIsOffered'
  BY <1>1, SignaturesAssumption DEF PopupIsInStep, NothingToShow, RequestIsOffered
<1> QED
  BY <1>2, <1>3 DEF SInv

(* An update shows what it was given, or nothing.                          *)
LEMMA PopupShowsIt ==
  ASSUME SignaturesTypeOK, NEW help \in Signatures \union {NoSignature},
         UpdatePopup(help)
  PROVE  /\ popupState' \in {"INACTIVE", "ACTIVE", "ACTIVE_SUPPRESSED"}
         /\ presented' \in Signatures \union {NoSignature}
         /\ popupState' # "INACTIVE" => presented' = help /\ presented' # NoSignature
BY DEF SignaturesTypeOK, UpdatePopup, ClearPopup

LEMMA SignaturesStep == SInv /\ [NextSignatures]_signatures => SInv'
<1> SUFFICES ASSUME SInv, [NextSignatures]_signatures
             PROVE  SInv'
  OBVIOUS
<1>1. CASE RequestSignatureHelp
  <2>1. CASE available \in {"YES", "failed"}
    <3>1. /\ available' = available /\ request' = Unanswered
          /\ poller' = [id |-> TRUE, runs |-> TRUE]
          /\ UNCHANGED <<typing, putOff, signatureHelp, popupState, presented>> /\ typing
      BY <1>1, <2>1 DEF RequestSignatureHelp, AskedIf, Polling, Stopped, popupOf
    <3> QED
      BY <2>1, <3>1 DEF SInv, SignaturesTypeOK, PopupIsInStep, NothingToShow, RequestIsOffered
  <2>2. CASE available \notin {"YES", "failed"}
    <3>1. request = NoRequest
      BY <2>2 DEF SInv, RequestIsOffered
    <3>2. /\ available' \in {available, "asked"} /\ request' = request
          /\ poller' = [id |-> FALSE, runs |-> FALSE]
          /\ UNCHANGED <<typing, putOff, signatureHelp, popupState, presented>> /\ typing
      BY <1>1, <2>2 DEF RequestSignatureHelp, AskedIf, Stopped, popupOf
    <3> QED
      BY <3>1, <3>2, SignaturesAssumption
         DEF SInv, SignaturesTypeOK, PopupIsInStep, NothingToShow, RequestIsOffered
  <2> QED
    BY <2>1, <2>2
<1>2. CASE PollSignatureHelp
  <2>1. /\ poller.runs /\ request \notin {NoRequest, Unanswered}
        /\ poller' = [poller EXCEPT !.runs = FALSE]
        /\ signatureHelp' = request /\ UpdatePopup(request)
        /\ UNCHANGED <<typing, available, request, putOff>>
    BY <1>2 DEF PollSignatureHelp
  <2>2. typing /\ request \in Signatures \union {NoSignature}
    BY <2>1 DEF SInv, SignaturesTypeOK, NothingToShow
  <2>3. /\ popupState' \in {"INACTIVE", "ACTIVE", "ACTIVE_SUPPRESSED"}
        /\ presented' \in Signatures \union {NoSignature}
        /\ popupState' # "INACTIVE" => presented' = request /\ presented' # NoSignature
    BY <2>1, <2>2, PopupShowsIt DEF SInv
  <2> QED
    BY <2>1, <2>2, <2>3
       DEF SInv, SignaturesTypeOK, PopupIsInStep, NothingToShow, RequestIsOffered
<1>3. CASE OnCompleteChanged
  BY <1>3 DEF OnCompleteChanged, popupOf, SInv, SignaturesTypeOK, PopupIsInStep,
              NothingToShow, RequestIsOffered
<1>4. CASE UpdateSignatureHelp
  <2>1. /\ putOff' \in BOOLEAN /\ UpdatePopup(signatureHelp)
        /\ UNCHANGED <<typing, available, request, poller, signatureHelp>>
    BY <1>4 DEF UpdateSignatureHelp, SInv, SignaturesTypeOK
  <2>2. /\ signatureHelp \in Signatures \union {NoSignature}
        /\ ~typing => signatureHelp = NoSignature
    BY DEF SInv, SignaturesTypeOK, NothingToShow
  <2>3. /\ popupState' \in {"INACTIVE", "ACTIVE", "ACTIVE_SUPPRESSED"}
        /\ presented' \in Signatures \union {NoSignature}
        /\ popupState' # "INACTIVE" => presented' = signatureHelp /\ presented' # NoSignature
    BY <2>1, <2>2, PopupShowsIt DEF SInv
  <2> QED
    BY <2>1, <2>2, <2>3
       DEF SInv, SignaturesTypeOK, PopupIsInStep, NothingToShow, RequestIsOffered
<1>5. CASE ToggleVisibility
  BY <1>5 DEF ToggleVisibility, SInv, SignaturesTypeOK, PopupIsInStep,
              NothingToShow, RequestIsOffered
<1>6. CASE EnterInsert
  BY <1>6 DEF EnterInsert, popupOf, SInv, SignaturesTypeOK, PopupIsInStep,
              NothingToShow, RequestIsOffered
<1>7. CASE LeaveInsert \/ ClearWhereItIs \/ OnBufferVisit \/ RestartForgets
  <2>1. /\ ClearSignatureHelp /\ typing' \in BOOLEAN /\ putOff' \in BOOLEAN
        /\ available' \in {available, "asked", "none"}
    BY <1>7 DEF LeaveInsert, ClearWhereItIs, OnBufferVisit, RestartForgets, AskedIf,
                SInv, SignaturesTypeOK
  <2> QED
    BY <2>1, SignaturesCleared DEF SInv, SignaturesTypeOK
<1>8. CASE AnswerAvailable
  BY <1>8 DEF AnswerAvailable, popupOf, SInv, SignaturesTypeOK, PopupIsInStep,
              NothingToShow, RequestIsOffered
<1>9. CASE AnswerSignatureHelp
  <2>1. /\ request = Unanswered /\ request' \in Signatures \union {NoSignature}
        /\ UNCHANGED <<typing, available, poller, putOff, signatureHelp, popupState, presented>>
    BY <1>9 DEF AnswerSignatureHelp, popupOf
  <2>2. /\ typing /\ poller.runs
        /\ request # NoRequest /\ request' # Unanswered /\ request' # NoRequest
    BY <2>1, SignaturesAssumption DEF SInv, SignaturesTypeOK, PopupIsInStep
  <2> QED
    BY <2>1, <2>2 DEF SInv, SignaturesTypeOK, PopupIsInStep, NothingToShow, RequestIsOffered
<1>10. CASE UNCHANGED signatures
  BY <1>10 DEF signatures, popupOf, SInv, SignaturesTypeOK, PopupIsInStep,
               NothingToShow, RequestIsOffered
<1> QED
  BY <1>1, <1>2, <1>3, <1>4, <1>5, <1>6, <1>7, <1>8, <1>9, <1>10 DEF NextSignatures

LEMMA SignaturesInvariance == SignaturesSpec => []SInv
BY SignaturesInit, SignaturesStep, PTL DEF SignaturesSpec

-----------------------------------------------------------------------------
(* Request, poller and popup keep their types.                             *)
THEOREM SignaturesTypeCorrect == SignaturesSpec => []SignaturesTypeOK
<1>1. SInv => SignaturesTypeOK
  BY DEF SInv
<1> QED
  BY <1>1, SignaturesInvariance, PTL

(* signature_help.vim, youcompleteme.vim: out of insert mode the popup is  *)
(* closed and nothing can open it, a request that is being worked on has a *)
(* timer that will read its answer, and what the popup shows, or hides, is *)
(* the last answer that was read.                                          *)
THEOREM PopupStaysInStep == SignaturesSpec => []PopupIsInStep
<1>1. SInv => PopupIsInStep
  BY DEF SInv
<1> QED
  BY <1>1, SignaturesInvariance, PTL

-----------------------------------------------------------------------------
(*****************************************************************************)
(* DiagnosticsUI                                                             *)
(*****************************************************************************)

Kinds == {"ERROR", "WARNING"}
Signs == [line : 1..LastLine, kind : Kinds]

(* What is on the screen of the buffers, with its type.                    *)
ScreenOK ==
  /\ signs \in [Shown -> SUBSET Signs]
  /\ matches \in [Shown -> SUBSET Diagnostics]
  /\ virtual \in [Shown -> {Blank} \union Signs]
  /\ previousLine \in [Shown -> {-1} \union 1..LastLine]

(* What the type invariant says besides the screen.                        *)
RestOK ==
  /\ window \in Shown /\ cursor \in 1..LastLine
  /\ inserting \in BOOLEAN /\ polled \in BOOLEAN
  /\ diagnostics \in [Shown -> SUBSET Diagnostics]
  /\ asyncDiags \in [Shown -> BOOLEAN]
  /\ parse \in [Shown -> {"handled", "pending", "done"}]

-----------------------------------------------------------------------------
DInv == ScreenOK /\ RestOK /\ InsertModeIsQuiet

LEMMA TypeInParts == PresentationTypeOK <=> ScreenOK /\ RestOK
BY DEF PresentationTypeOK, ScreenOK, RestOK, Signs, Kinds

LEMMA AllowedAreDiagnostics ==
  ASSUME NEW report \in SUBSET Diagnostics
  PROVE  IsAllowed(report) \in SUBSET Diagnostics
BY DEF IsAllowed

LEMMA FirstIsSign ==
  ASSUME NEW diags, NEW line \in 1..LastLine
  PROVE  FirstOnLine(diags, line) \in {Blank} \union Signs
BY DEF FirstOnLine, Signs, Kinds

LEMMA SignsAreSigns ==
  ASSUME NEW diags \in SUBSET Diagnostics
  PROVE  SignsOf(diags) \in SUBSET Signs
<1> SUFFICES ASSUME NEW d \in diags
             PROVE  FirstOnLine(diags, d.line) \in Signs
  BY DEF SignsOf
<1>1. d.line \in 1..LastLine /\ d \in OnLine(diags, d.line)
  BY DEF Diagnostics, OnLine
<1> QED
  BY <1>1 DEF FirstOnLine, Signs, Kinds

LEMMA ReportsAreDiagnostics ==
  ASSUME NEW report \in Reports
  PROVE  report \in SUBSET Diagnostics
BY ReportsAssumption

LEMMA PresentationInit == InitPresentation => DInv
<1> SUFFICES ASSUME InitPresentation
             PROVE  DInv
  OBVIOUS
<1>1. RestOK
  <2>1. cursor \in 1..LastLine
    BY LinesAssumption DEF InitPresentation
  <2>2. diagnostics \in [Shown -> SUBSET Diagnostics]
    <3>1. {} \in SUBSET Diagnostics
      OBVIOUS
    <3> QED
      BY <3>1 DEF InitPresentation
  <2> QED
    BY <2>1, <2>2 DEF InitPresentation, RestOK
<1>2. ScreenOK
  <2>1. {} \in SUBSET Diagnostics /\ {} \in SUBSET Signs
    OBVIOUS
  <2> QED
    BY <2>1 DEF InitPresentation, ScreenOK
<1>3. InsertModeIsQuiet
  BY DEF InitPresentation, InsertModeIsQuiet
<1> QED
  BY <1>1, <1>2, <1>3 DEF DInv

-----------------------------------------------------------------------------
LEMMA ScreenHasType == PresentationTypeOK => ScreenOK
BY DEF PresentationTypeOK, ScreenOK, Signs, Kinds

LEMMA RefreshHolds ==
  ASSUME PresentationTypeOK, NEW b \in Shown, NEW diags \in SUBSET Diagnostics,
         RefreshDiagnosticsUI(b, diags)
  PROVE  ScreenOK'
<1>1. SignsOf(diags) \in SUBSET Signs
  BY SignsAreSigns
<1>2. cursor \in 1..LastLine /\ ScreenOK
  BY ScreenHasType DEF PresentationTypeOK
<1>3. FirstOnLine(diags, cursor) \in {Blank} \union Signs
  BY <1>2, FirstIsSign
<1> HIDE DEF SignsOf, FirstOnLine
<1> QED
  BY <1>1, <1>2, <1>3 DEF RefreshDiagnosticsUI, ScreenOK

LEMMA ScreenCleared ==
  ASSUME PresentationTypeOK, NEW bs, ClearDiagnosticsUI(bs),
         previousLine' \in [Shown -> {-1} \union 1..LastLine]
  PROVE  ScreenOK'
BY ScreenHasType DEF ClearDiagnosticsUI, ScreenOK

(* While the user types, new diagnostics are only kept.                    *)
LEMMA UpdateHolds ==
  ASSUME PresentationTypeOK, NEW b \in Shown, NEW report \in Reports,
         NEW async \in BOOLEAN, UpdateWithNewDiagnostics(b, report, async)
  PROVE  /\ ScreenOK'
         /\ inserting => UNCHANGED screenOf
         /\ diagnostics' \in [Shown -> SUBSET Diagnostics]
         /\ asyncDiags' \in [Shown -> BOOLEAN]
<1> DEFINE diags == IsAllowed(report)
<1>1. diags \in SUBSET Diagnostics
  BY ReportsAreDiagnostics, AllowedAreDiagnostics
<1>2. /\ asyncDiags' = [asyncDiags EXCEPT ![b] = async]
      /\ diagnostics' = [diagnostics EXCEPT ![b] = diags]
      /\ IF ~inserting THEN RefreshDiagnosticsUI(b, diags) ELSE UNCHANGED screenOf
  BY DEF UpdateWithNewDiagnostics, ShouldUpdateDiagnosticsUINow
<1> HIDE DEF diags
<1>3. CASE inserting
  BY <1>1, <1>2, <1>3, ScreenHasType DEF PresentationTypeOK, ScreenOK, screenOf
<1>4. CASE ~inserting
  <2>1. RefreshDiagnosticsUI(b, diags)
    BY <1>2, <1>4
  <2>2. ScreenOK'
    BY <1>1, <2>1, RefreshHolds
  <2> QED
    BY <1>1, <1>2, <1>4, <2>2 DEF PresentationTypeOK
<1> QED
  BY <1>3, <1>4

-----------------------------------------------------------------------------
LEMMA PresentationStep == DInv /\ [NextPresentation]_presentation => DInv'
<1> SUFFICES ASSUME DInv, [NextPresentation]_presentation
             PROVE  DInv'
  OBVIOUS
<1>0. PresentationTypeOK /\ ScreenOK /\ RestOK /\ InsertModeIsQuiet
  BY TypeInParts DEF DInv
<1>1. ASSUME NEW b \in Shown, NEW report \in Reports,
             UpdateWithNewDiagnosticsForFile(b, report)
      PROVE  DInv'
  <2>1. /\ UpdateWithNewDiagnostics(b, report, TRUE)
        /\ UNCHANGED <<window, cursor, inserting, parse, polled>>
    BY <1>1 DEF UpdateWithNewDiagnosticsForFile, userOf
  <2>2. /\ ScreenOK' /\ (inserting => UNCHANGED screenOf)
        /\ diagnostics' \in [Shown -> SUBSET Diagnostics]
        /\ asyncDiags' \in [Shown -> BOOLEAN]
    BY <1>0, <2>1, UpdateHolds
  <2>3. RestOK'
    BY <1>0, <2>1, <2>2 DEF RestOK
  <2>4. InsertModeIsQuiet'
    BY <1>0, <2>1, <2>2 DEF InsertModeIsQuiet, screenOf
  <2> QED
    BY <2>2, <2>3, <2>4 DEF DInv
<1>2. ASSUME NEW report \in Reports, NEW block \in BOOLEAN,
             HandleFileParseRequest(report, block)
      PROVE  DInv'
  <2>1. /\ parse' = [parse EXCEPT ![window] = "handled"]
        /\ UNCHANGED <<window, cursor, inserting, polled>>
        /\ \/ UpdateWithNewDiagnostics(window, report, FALSE)
           \/ UNCHANGED <<diagnostics, screenOf, asyncDiags>>
    BY <1>2 DEF HandleFileParseRequest, userOf
  <2>2. /\ ScreenOK' /\ (inserting => UNCHANGED screenOf)
        /\ diagnostics' \in [Shown -> SUBSET Diagnostics]
        /\ asyncDiags' \in [Shown -> BOOLEAN]
    <3>1. CASE UpdateWithNewDiagnostics(window, report, FALSE)
      BY <1>0, <3>1, UpdateHolds DEF RestOK
    <3>2. CASE UNCHANGED <<diagnostics, screenOf, asyncDiags>>
      BY <1>0, <3>2 DEF RestOK, ScreenOK, screenOf
    <3> QED
      BY <2>1, <3>1, <3>2
  <2>3. RestOK'
    BY <1>0, <2>1, <2>2 DEF RestOK
  <2>4. InsertModeIsQuiet'
    BY <1>0, <2>1, <2>2 DEF InsertModeIsQuiet, screenOf
  <2> QED
    BY <2>2, <2>3, <2>4 DEF DInv
<1>3. ASSUME NEW b \in Shown, ParseDone(b)
      PROVE  DInv'
  BY <1>0, <1>3
     DEF ParseDone, userOf, screenOf, RestOK, ScreenOK, InsertModeIsQuiet, DInv
<1>4. CASE TextChanged
  <2>1. /\ parse' = [parse EXCEPT ![window] = "pending"]
        /\ virtual' = IF inserting THEN [virtual EXCEPT ![window] = Blank] ELSE virtual
        /\ UNCHANGED <<window, cursor, inserting, diagnostics, signs, matches,
                       previousLine, asyncDiags, polled>>
    BY <1>4 DEF TextChanged, userOf
  <2>2. ScreenOK'
    BY <1>0, <2>1 DEF ScreenOK
  <2>3. RestOK'
    BY <1>0, <2>1 DEF RestOK
  <2>4. InsertModeIsQuiet'
    BY <1>0, <2>1 DEF InsertModeIsQuiet, ScreenOK, RestOK
  <2> QED
    BY <2>2, <2>3, <2>4 DEF DInv
<1>5. CASE OnInsertEnter
  <2>1. /\ inserting' = TRUE /\ ClearDiagnosticsUI({window})
        /\ UNCHANGED <<window, cursor, diagnostics, previousLine, asyncDiags, parse, polled>>
    BY <1>5 DEF OnInsertEnter, serverOf
  <2>2. ScreenOK'
    BY <1>0, <2>1, ScreenCleared DEF ScreenOK
  <2>3. RestOK'
    BY <1>0, <2>1 DEF RestOK
  <2>4. InsertModeIsQuiet'
    BY <1>0, <2>1 DEF InsertModeIsQuiet, ClearDiagnosticsUI, RestOK
  <2> QED
    BY <2>2, <2>3, <2>4 DEF DInv
<1>6. CASE OnInsertLeave
  <2>1. /\ inserting' = FALSE
        /\ parse' \in {parse, [parse EXCEPT ![window] = "pending"]}
        /\ RefreshDiagnosticsUI(window, diagnostics[window]) \/ UNCHANGED screenOf
        /\ UNCHANGED <<window, cursor, diagnostics, asyncDiags, polled>>
    BY <1>6 DEF OnInsertLeave
  <2>2. ScreenOK'
    <3>1. CASE RefreshDiagnosticsUI(window, diagnostics[window])
      BY <1>0, <3>1, RefreshHolds DEF RestOK
    <3>2. CASE UNCHANGED screenOf
      BY <1>0, <3>2 DEF ScreenOK, screenOf
    <3> QED
      BY <2>1, <3>1, <3>2
  <2>3. RestOK'
    BY <1>0, <2>1 DEF RestOK
  <2>4. InsertModeIsQuiet'
    BY <2>1 DEF InsertModeIsQuiet
  <2> QED
    BY <2>2, <2>3, <2>4 DEF DInv
<1>7. ASSUME NEW line \in 1..LastLine, OnCursorMoved(line)
      PROVE  DInv'
  <2> DEFINE first == FirstOnLine(diagnostics[window], line)
  <2>1. first \in {Blank} \union Signs
    BY FirstIsSign
  <2>2. /\ ~inserting /\ cursor' = line
        /\ \/ UNCHANGED <<virtual, previousLine>>
           \/ /\ virtual' = [virtual EXCEPT ![window] = first]
              /\ previousLine' = [previousLine EXCEPT ![window] = line]
        /\ UNCHANGED <<window, inserting, diagnostics, signs, matches,
                       asyncDiags, parse, polled>>
    BY <1>7 DEF OnCursorMoved, serverOf
  <2> HIDE DEF first
  <2>3. ScreenOK'
    BY <1>0, <2>1, <2>2 DEF ScreenOK
  <2>4. RestOK'
    BY <1>0, <2>2 DEF RestOK
  <2>5. InsertModeIsQuiet'
    BY <2>2 DEF InsertModeIsQuiet
  <2> QED
    BY <2>3, <2>4, <2>5 DEF DInv
<1>8. ASSUME NEW b \in Shown, OnBufferEnter(b)
      PROVE  DInv'
  <2>1. /\ ~inserting /\ window' = b /\ cursor' \in 1..LastLine
        /\ matches' = [matches EXCEPT ![b] = diagnostics[b]]
        /\ parse' = [parse EXCEPT ![b] = "pending"]
        /\ UNCHANGED <<inserting, diagnostics, signs, virtual, previousLine,
                       asyncDiags, polled>>
    BY <1>8 DEF OnBufferEnter
  <2>2. ScreenOK' /\ RestOK'
    BY <1>0, <2>1 DEF ScreenOK, RestOK
  <2>3. InsertModeIsQuiet'
    BY <2>1 DEF InsertModeIsQuiet
  <2> QED
    BY <2>2, <2>3 DEF DInv
<1>9. CASE OnFileTypeSet
  <2>1. /\ ~inserting
        /\ asyncDiags' = [asyncDiags EXCEPT ![window] = FALSE]
        /\ parse' = [parse EXCEPT ![window] = "pending"]
        /\ UNCHANGED <<window, cursor, inserting, diagnostics, signs, matches, virtual,
                       previousLine, polled>>
    BY <1>9 DEF OnFileTypeSet, userOf, screenOf
  <2>2. ScreenOK' /\ RestOK'
    BY <1>0, <2>1 DEF ScreenOK, RestOK
  <2>3. InsertModeIsQuiet'
    BY <2>1 DEF InsertModeIsQuiet
  <2> QED
    BY <2>2, <2>3 DEF DInv
<1>10. CASE LanguageServerDisabled
  <2>1. /\ ClearDiagnosticsUI(Shown)
        /\ UNCHANGED <<window, cursor, inserting, diagnostics, previousLine,
                       asyncDiags, parse, polled>>
    BY <1>10 DEF LanguageServerDisabled, userOf, serverOf
  <2>2. ScreenOK' /\ RestOK'
    BY <1>0, <2>1, ScreenCleared DEF ScreenOK, RestOK
  <2>3. InsertModeIsQuiet'
    BY <1>0, <2>1 DEF InsertModeIsQuiet, ClearDiagnosticsUI, RestOK
  <2> QED
    BY <2>2, <2>3 DEF DInv
<1>11. CASE PollChanges
  BY <1>0, <1>11
     DEF PollChanges, userOf, screenOf, RestOK, ScreenOK, InsertModeIsQuiet, DInv
<1>12. CASE RestartClears
  <2>1. /\ ~inserting /\ ClearDiagnosticsUI(Shown)
        /\ diagnostics' = [b \in Shown |-> {}] /\ previousLine' = [b \in Shown |-> -1]
        /\ asyncDiags' = [b \in Shown |-> FALSE] /\ parse' = [b \in Shown |-> "handled"]
        /\ polled' = FALSE
        /\ UNCHANGED <<window, cursor, inserting>>
    BY <1>12 DEF RestartClears, userOf
  <2>2. ScreenOK'
    BY <1>0, <2>1, ScreenCleared
  <2>3. {} \in SUBSET Diagnostics
    OBVIOUS
  <2>4. RestOK'
    BY <1>0, <2>1, <2>3 DEF RestOK
  <2>5. InsertModeIsQuiet'
    BY <2>1 DEF InsertModeIsQuiet
  <2> QED
    BY <2>2, <2>4, <2>5 DEF DInv
<1>13. CASE UNCHANGED presentation
  BY <1>0, <1>13
     DEF presentation, userOf, screenOf, serverOf, RestOK, ScreenOK, InsertModeIsQuiet, DInv
<1> QED
  BY <1>1, <1>2, <1>3, <1>4, <1>5, <1>6, <1>7, <1>8, <1>9, <1>10, <1>11, <1>12, <1>13
     DEF NextPresentation

LEMMA PresentationInvariance == PresentationSpec => []DInv
BY PresentationInit, PresentationStep, PTL DEF PresentationSpec

-----------------------------------------------------------------------------
(* What is drawn, what is kept and what is on its way keep their types.    *)
THEOREM PresentationTypeCorrect == PresentationSpec => []PresentationTypeOK
<1>1. DInv => PresentationTypeOK
  BY TypeInParts DEF DInv
<1> QED
  BY <1>1, PresentationInvariance, PTL

(* diagnostic_interface.py: no sign, highlight or virtual text appears in  *)
(* the buffer that is being typed in, whichever way diagnostics come.      *)
THEOREM InsertModeStaysQuiet == PresentationSpec => []InsertModeIsQuiet
<1>1. DInv => InsertModeIsQuiet
  BY DEF DInv
<1> QED
  BY <1>1, PresentationInvariance, PTL

-----------------------------------------------------------------------------
(*****************************************************************************)
(* ServerMessages                                                            *)
(*****************************************************************************)

States == [progress : SUBSET Keys, cleared : [LanguageServers -> 0..MaxGeneration],
           gone : SUBSET Keys]

(* No progress is kept of a connection that is cleared ...                 *)
Alive(state) == \A k \in state.progress : k.generation > state.cleared[k.server]

(* ... and every connection that was declared over is.                     *)
Told(state) == \A k \in state.gone : k.generation <= state.cleared[k.server]

AliveStates == {state \in States : Alive(state)}
CurrentStates == {state \in AliveStates : Told(state)}

(* The tick that finds ycmd dead forgets what was cleared, and all         *)
(* progress with it; nothing of that ycmd is read afterwards.              *)
ProgressOK ==
  /\ ProgressState \in AliveStates /\ shown = progress
  /\ ycmd # "dead" \/ progress # {} => Told(ProgressState)

PollsOK ==
  /\ ycmd \in {"starting", "ready", "dead"}
  /\ readyCache \in BOOLEAN /\ awaiting \in BOOLEAN /\ receiving \in BOOLEAN
  /\ table \in Seq(Filetypes)
  /\ polls \in [Filetypes -> {Nothing, "new", "sent"}]
  /\ troubles \in 0..MaxTroubles

Connections == [generation : 0..MaxGeneration,
                work : {"none", "connected", "begun", "reported", "ended"}]

ExternalOK ==
  /\ outbox \in [Filetypes -> Seq(Notifications)]
  /\ replies \in SUBSET Keys
  /\ connection \in [LanguageServers -> Connections]
  /\ \A s \in LanguageServers : connection[s].work # "none" => connection[s].generation # 0

MInv == ProgressOK /\ PollsOK /\ ExternalOK /\ NoPollIsForgotten

-----------------------------------------------------------------------------
LEMMA KeysAreNumbered ==
  ASSUME NEW state \in States, NEW k \in Keys
  PROVE  /\ k.generation \in Nat /\ k.server \in LanguageServers
         /\ state.cleared[k.server] \in Nat
         /\ k.generation \in 0..MaxGeneration /\ state.cleared[k.server] \in 0..MaxGeneration
BY GenerationAssumption DEF States, Keys

LEMMA ClearingKeeps ==
  ASSUME NEW state \in AliveStates, NEW key \in Keys
  PROVE  LET new == ClearForServerGeneration(state, key)
         IN /\ new \in AliveStates /\ new.progress \subseteq state.progress
            /\ Told(state) => Told(new)
<1> DEFINE last == IF key.generation > state.cleared[key.server]
                   THEN key.generation ELSE state.cleared[key.server]
           left == {k \in state.progress : k.server # key.server \/ k.generation > last}
           marks == [state.cleared EXCEPT ![key.server] = last]
           new == [progress |-> left, cleared |-> marks, gone |-> state.gone \union {key}]
<1>0. ClearForServerGeneration(state, key) = new
  BY DEF ClearForServerGeneration
<1>1. state \in States /\ Alive(state)
  BY DEF AliveStates
<1>2. /\ state.progress \in SUBSET Keys /\ state.gone \in SUBSET Keys
      /\ state.cleared \in [LanguageServers -> 0..MaxGeneration]
  BY <1>1 DEF States
<1>3. /\ last \in 0..MaxGeneration /\ key.server \in LanguageServers
      /\ key.generation <= last /\ state.cleared[key.server] <= last
  BY <1>1, KeysAreNumbered
<1>4. ASSUME NEW k \in Keys
      PROVE  marks[k.server] = IF k.server = key.server THEN last ELSE state.cleared[k.server]
  BY <1>2, <1>3, <1>1, KeysAreNumbered
<1>5. marks \in [LanguageServers -> 0..MaxGeneration]
  BY <1>2, <1>3
<1> HIDE DEF last, marks
<1>6. new \in States
  BY <1>2, <1>5 DEF States
<1>7. new.progress = left /\ new.cleared = marks /\ new.gone = state.gone \union {key}
  OBVIOUS
<1> HIDE DEF new
<1>8. Alive(new)
  <2> SUFFICES ASSUME NEW k \in left
               PROVE  k.generation > marks[k.server]
    BY <1>7 DEF Alive
  <2>1. k \in Keys /\ k.generation > state.cleared[k.server]
    BY <1>1, <1>2 DEF Alive
  <2> QED
    BY <1>4, <2>1
<1>9. ASSUME Told(state)
      PROVE  Told(new)
  <2> SUFFICES ASSUME NEW k \in state.gone \union {key}
               PROVE  k.generation <= marks[k.server]
    BY <1>7 DEF Told
  <2>1. CASE k = key
    BY <1>3, <1>4, <2>1
  <2>2. CASE k \in state.gone
    <3>1. k \in Keys /\ k.generation <= state.cleared[k.server]
      BY <1>2, <1>9, <2>2 DEF Told
    <3>2. k.generation \in Nat /\ state.cleared[k.server] \in Nat /\ last \in Nat
      BY <1>1, <1>3, <3>1, KeysAreNumbered, GenerationAssumption
    <3> QED
      BY <1>3, <1>4, <3>1, <3>2
  <2> QED
    BY <2>1, <2>2
<1>10. left \subseteq state.progress
  OBVIOUS
<1> QED
  BY <1>0, <1>6, <1>7, <1>8, <1>9, <1>10 DEF AliveStates

LEMMA UpdateKeeps ==
  ASSUME NEW state \in CurrentStates, NEW key \in Keys,
         NEW kind \in {"begin", "report", "end"}
  PROVE  Update(state, kind, key) \in CurrentStates
<1>1. state \in States /\ Alive(state) /\ Told(state)
  BY DEF CurrentStates, AliveStates
<1>2. CASE key.generation <= state.cleared[key.server]
  BY <1>2 DEF Update
<1>3. CASE ~(key.generation <= state.cleared[key.server])
  <2>1. key.generation > state.cleared[key.server]
    BY <1>1, <1>3, KeysAreNumbered
  <2>2. CASE kind = "begin"
    <3> DEFINE new == [state EXCEPT !.progress = @ \union {key}]
    <3>1. Update(state, kind, key) = new
      BY <1>3, <2>2 DEF Update
    <3>2. /\ new \in States /\ new.progress = state.progress \union {key}
          /\ new.cleared = state.cleared /\ new.gone = state.gone
      BY <1>1 DEF States
    <3> HIDE DEF new
    <3>3. Alive(new) /\ Told(new)
      BY <1>1, <2>1, <3>2 DEF Alive, Told
    <3> QED
      BY <3>1, <3>2, <3>3 DEF CurrentStates, AliveStates
  <2>3. CASE kind = "report"
    BY <1>3, <2>3 DEF Update
  <2>4. CASE kind = "end"
    <3> DEFINE new == [state EXCEPT !.progress = @ \ {key}]
    <3>1. Update(state, kind, key) = new
      BY <1>3, <2>4 DEF Update
    <3>2. /\ new \in States /\ new.progress = state.progress \ {key}
          /\ new.cleared = state.cleared /\ new.gone = state.gone
      BY <1>1 DEF States
    <3> HIDE DEF new
    <3>3. Alive(new) /\ Told(new)
      BY <1>1, <3>2 DEF Alive, Told
    <3> QED
      BY <3>1, <3>2, <3>3 DEF CurrentStates, AliveStates
  <2> QED
    BY <2>2, <2>3, <2>4
<1> QED
  BY <1>2, <1>3

LEMMA HandlingKeeps ==
  ASSUME NEW state \in CurrentStates, NEW notification \in Notifications
  PROVE  HandleNotification(state, notification) \in CurrentStates
<1>1. /\ notification.key \in Keys
      /\ notification.kind \in {"begin", "report", "end", "cleanup"}
  BY DEF Notifications
<1>2. CASE notification.kind = "cleanup"
  <2>1. HandleNotification(state, notification) = ClearForServerGeneration(state, notification.key)
    BY <1>2 DEF HandleNotification
  <2> QED
    BY <1>1, <2>1, ClearingKeeps DEF CurrentStates
<1>3. CASE notification.kind # "cleanup"
  <2>1. HandleNotification(state, notification)
          = Update(state, notification.kind, notification.key)
    BY <1>3 DEF HandleNotification
  <2> QED
    BY <1>1, <1>3, <2>1, UpdateKeeps
<1> QED
  BY <1>2, <1>3

(* However many messages are read in one tick.                             *)
LEMMA HandlingAllKeeps ==
  ASSUME NEW state \in CurrentStates, NEW notifications \in Seq(Notifications)
  PROVE  FoldLeft(HandleNotification, state, notifications) \in CurrentStates
<1> DEFINE n == Len(notifications)
           F == [p \in CurrentStates \X (1..n) |-> HandleNotification(p[1], notifications[p[2]])]
           Eq(g) == g = [s \in SUBSET (1..n) |->
                           IF s = {} THEN state
                           ELSE HandleNotification(g[s \ {Max(s)}], notifications[Max(s)])]
           iter == CHOOSE g : Eq(g)
<1>0. n \in Nat /\ DOMAIN notifications = 1..n /\ \A i \in 1..n : notifications[i] \in Notifications
  OBVIOUS
<1>1. FoldLeft(HandleNotification, state, notifications) = iter[1..n]
  BY <1>0 DEF FoldLeft, MapThenFoldSet
<1>2. F \in [CurrentStates \X (1..n) -> CurrentStates]
  BY <1>0, HandlingKeeps
<1> HIDE DEF n
<1>3. PICK g \in [SUBSET (1..n) -> CurrentStates] : IsFold(g, n, state, F)
  BY <1>0, <1>2, FoldExists
<1>4. ASSUME NEW s \in SUBSET (1..n), s # {}
      PROVE  g[s] = HandleNotification(g[s \ {Max(s)}], notifications[Max(s)])
  <2>1. Max(s) \in 1..n
    BY <1>0, <1>4, MaxIsIn
  <2>2. g[s \ {Max(s)}] \in CurrentStates
    OBVIOUS
  <2>3. g[s] = F[<<g[s \ {Max(s)}], Max(s)>>]
    BY <1>3, <1>4 DEF IsFold
  <2> QED
    BY <2>1, <2>2, <2>3
<1>5. Eq(g)
  BY <1>3, <1>4 DEF IsFold
<1> HIDE DEF Eq, F
<1>6. Eq(iter)
  BY <1>5
<1> HIDE DEF iter
<1>7. iter[{}] = state
  BY <1>6 DEF Eq
<1>8. ASSUME NEW s \in SUBSET (1..n), s # {}, iter[s \ {Max(s)}] \in CurrentStates,
             Max(s) \in 1..n
      PROVE  iter[s] \in CurrentStates
  <2>1. iter[s] = HandleNotification(iter[s \ {Max(s)}], notifications[Max(s)])
    BY <1>6, <1>8 DEF Eq
  <2> QED
    BY <1>0, <1>8, <2>1, HandlingKeeps
<1>9. iter[1..n] \in CurrentStates
  BY <1>0, <1>7, <1>8, FoldStays
<1> QED
  BY <1>1, <1>9

-----------------------------------------------------------------------------
AddTo(t, ft) == IF Contains(t, ft) THEN t ELSE Append(t, ft)

LEMMA TableType ==
  ASSUME NEW keys \in Seq(Filetypes), NEW fts \in Seq(Filetypes)
  PROVE  TableWith(keys, fts) \in Seq(Filetypes)
<1> DEFINE n == Len(fts)
           T == Seq(Filetypes)
           F == [p \in T \X (1..n) |-> AddTo(p[1], fts[p[2]])]
           Eq(g) == g = [s \in SUBSET (1..n) |->
                           IF s = {} THEN keys ELSE AddTo(g[s \ {Max(s)}], fts[Max(s)])]
           iter == CHOOSE g : Eq(g)
<1>0. n \in Nat /\ DOMAIN fts = 1..n /\ \A i \in 1..n : fts[i] \in Filetypes
  OBVIOUS
<1>1. TableWith(keys, fts) = iter[1..n]
  BY <1>0 DEF TableWith, FoldLeft, MapThenFoldSet, AddTo
<1>2. \A t \in T, ft \in Filetypes : AddTo(t, ft) \in T
  BY DEF AddTo
<1> HIDE DEF n, T
<1>3. F \in [T \X (1..n) -> T]
  BY <1>0, <1>2
<1>4. PICK g \in [SUBSET (1..n) -> T] : IsFold(g, n, keys, F)
  <2>1. keys \in T
    BY DEF T
  <2> QED
    BY <1>0, <1>3, <2>1, FoldExists
<1>5. ASSUME NEW s \in SUBSET (1..n), s # {}
      PROVE  g[s] = AddTo(g[s \ {Max(s)}], fts[Max(s)])
  <2>1. Max(s) \in 1..n
    BY <1>0, <1>5, MaxIsIn
  <2>2. g[s \ {Max(s)}] \in T
    OBVIOUS
  <2>3. g[s] = F[<<g[s \ {Max(s)}], Max(s)>>]
    BY <1>4, <1>5 DEF IsFold
  <2> QED
    BY <2>1, <2>2, <2>3
<1>6. Eq(g)
  BY <1>4, <1>5 DEF IsFold
<1> HIDE DEF Eq, F
<1>7. Eq(iter)
  BY <1>6
<1> HIDE DEF iter
<1>8. iter[{}] \in T
  BY <1>7 DEF Eq, T
<1>9. ASSUME NEW s \in SUBSET (1..n), s # {}, iter[s \ {Max(s)}] \in T, Max(s) \in 1..n
      PROVE  iter[s] \in T
  <2>1. iter[s] = AddTo(iter[s \ {Max(s)}], fts[Max(s)])
    BY <1>7, <1>9 DEF Eq
  <2> QED
    BY <1>0, <1>2, <1>9, <2>1
<1>10. iter[1..n] \in T
  BY <1>0, <1>8, <1>9, FoldStays
<1> QED
  BY <1>1, <1>10 DEF T

LEMMA FiletypesType ==
  ASSUME NEW files \in Seq(Files)
  PROVE  FiletypesOfAll(files) \in Seq(Filetypes)
<1> DEFINE seqs == [i \in DOMAIN files |-> FiletypesOf[files[i]]]
<1>1. Len(files) \in Nat /\ DOMAIN files = 1..Len(files)
  OBVIOUS
<1>2. \A i \in 1..Len(files) : FiletypesOf[files[i]] \in Seq(Filetypes)
  BY FiletypesAssumption
<1>3. seqs \in [1..Len(files) -> Seq(Filetypes)]
  BY <1>1, <1>2
<1> HIDE DEF seqs
<1>4. seqs \in Seq(Seq(Filetypes))
  BY <1>1, <1>3
<1> QED
  BY <1>4, FlattenType DEF FiletypesOfAll, seqs

LEMMA AllFilesType ==
  ASSUME NEW files \in SetToSeqs(Files)
  PROVE  files \in Seq(Files)
<1>1. Cardinality(Files) \in Nat
  BY FilesAssumption, FS_CardinalityType
<1>2. files \in [1..Cardinality(Files) -> Files]
  BY DEF SetToSeqs
<1> QED
  BY <1>1, <1>2

LEMMA MessagesType ==
  ASSUME MInv, NEW answered
  PROVE  MessagesOf(answered) \in Seq(Notifications)
<1> DEFINE seqs == [i \in DOMAIN table |-> IF table[i] \in answered THEN outbox[table[i]] ELSE <<>>]
<1>1. table \in Seq(Filetypes) /\ outbox \in [Filetypes -> Seq(Notifications)]
  BY DEF MInv, PollsOK, ExternalOK
<1>2. Len(table) \in Nat /\ DOMAIN table = 1..Len(table)
  BY <1>1
<1>3. seqs \in [1..Len(table) -> Seq(Notifications)]
  BY <1>1, <1>2
<1> HIDE DEF seqs
<1>4. seqs \in Seq(Seq(Notifications))
  BY <1>2, <1>3
<1> QED
  BY <1>4, FlattenType DEF MessagesOf, seqs

-----------------------------------------------------------------------------
(* Steps.  What ycmd and the language servers do concerns neither the polls*)
(* nor the progress; what the timers do, nothing outside.                  *)
NoneCleared == [progress |-> {}, cleared |-> NoGenerations, gone |-> gone]

LEMMA NothingClearedIsOK ==
  ASSUME NEW over \in SUBSET Keys
  PROVE  [progress |-> {}, cleared |-> NoGenerations, gone |-> over] \in AliveStates
<1>1. NoGenerations \in [LanguageServers -> 0..MaxGeneration]
  BY GenerationAssumption DEF NoGenerations
<1> QED
  BY <1>1 DEF AliveStates, States, Alive

LEMMA RegisteredHolds ==
  ASSUME MInv, NEW keys \in Seq(Filetypes), NEW fts \in Seq(Filetypes),
         NEW values \in [Filetypes -> {Nothing, "new", "sent"}],
         table' = TableWith(keys, fts), polls' = PollsWith(values, fts),
         receiving' = TRUE, ycmd' \in {"starting", "ready", "dead"},
         readyCache' \in BOOLEAN, awaiting' \in BOOLEAN, troubles' = troubles
  PROVE  PollsOK' /\ NoPollIsForgotten'
<1>1. table' \in Seq(Filetypes)
  BY TableType
<1>2. polls' \in [Filetypes -> {Nothing, "new", "sent"}]
  BY DEF PollsWith
<1> QED
  BY <1>1, <1>2 DEF MInv, PollsOK, NoPollIsForgotten

LEMMA SameProgress ==
  ASSUME ProgressOK, UNCHANGED status, ycmd' = "dead" \/ ycmd # "dead"
  PROVE  ProgressOK'
BY DEF ProgressOK, status, ProgressState

LEMMA SameOutside ==
  ASSUME ExternalOK, UNCHANGED external
  PROVE  ExternalOK'
BY DEF ExternalOK, external

LEMMA FilesEnter ==
  ASSUME MInv, NEW files \in Seq(Files), RegisterMessagePolls(files),
         UNCHANGED <<ycmd, readyCache, awaiting, status, external, troubles>>
  PROVE  MInv'
<1>1. FiletypesOfAll(files) \in Seq(Filetypes)
  BY FiletypesType
<1>2. /\ table' = TableWith(table, FiletypesOfAll(files))
      /\ polls' = PollsWith(polls, FiletypesOfAll(files)) /\ receiving' = TRUE
      /\ table \in Seq(Filetypes) /\ polls \in [Filetypes -> {Nothing, "new", "sent"}]
      /\ ycmd' \in {"starting", "ready", "dead"}
      /\ readyCache' \in BOOLEAN /\ awaiting' \in BOOLEAN /\ troubles' = troubles
  BY DEF RegisterMessagePolls, StartMessagePoll, MInv, PollsOK
<1>3. PollsOK' /\ NoPollIsForgotten'
  BY <1>1, <1>2, RegisteredHolds
<1>4. ProgressOK'
  BY DEF MInv, ProgressOK, status, ProgressState
<1> QED
  BY <1>3, <1>4, SameOutside DEF MInv

LEMMA ServerReadyHolds ==
  ASSUME MInv, PollServerReady
  PROVE  MInv'
<1>1. /\ UNCHANGED <<ycmd, status, external, troubles>> /\ awaiting' = FALSE
      /\ \/ UNCHANGED <<readyCache, receiving, table, polls>>
         \/ /\ readyCache' = TRUE /\ receiving' = TRUE
            /\ \E files \in SetToSeqs(Files) :
                 /\ table' = TableWith(<<>>, FiletypesOfAll(files))
                 /\ polls' = PollsWith([ft \in Filetypes |-> Nothing], FiletypesOfAll(files))
  BY DEF PollServerReady, StartMessagePoll
<1>2. ProgressOK' /\ ExternalOK'
  BY <1>1, SameOutside DEF MInv, ProgressOK, status, ProgressState
<1>3. CASE UNCHANGED <<readyCache, receiving, table, polls>>
  <2>1. PollsOK' /\ NoPollIsForgotten'
    BY <1>1, <1>3 DEF MInv, PollsOK, NoPollIsForgotten, Polled
  <2> QED
    BY <1>2, <2>1 DEF MInv
<1>4. CASE /\ readyCache' = TRUE /\ receiving' = TRUE
           /\ \E files \in SetToSeqs(Files) :
                /\ table' = TableWith(<<>>, FiletypesOfAll(files))
                /\ polls' = PollsWith([ft \in Filetypes |-> Nothing], FiletypesOfAll(files))
  <2>1. PICK files \in SetToSeqs(Files) :
          /\ table' = TableWith(<<>>, FiletypesOfAll(files))
          /\ polls' = PollsWith([ft \in Filetypes |-> Nothing], FiletypesOfAll(files))
    BY <1>4
  <2>2. FiletypesOfAll(files) \in Seq(Filetypes)
    BY AllFilesType, FiletypesType
  <2>3. /\ ycmd' \in {"starting", "ready", "dead"}
        /\ readyCache' \in BOOLEAN /\ awaiting' \in BOOLEAN /\ troubles' = troubles
    BY <1>1, <1>4 DEF MInv, PollsOK, external
  <2>4. [ft \in Filetypes |-> Nothing] \in [Filetypes -> {Nothing, "new", "sent"}]
    OBVIOUS
  <2>5. <<>> \in Seq(Filetypes)
    OBVIOUS
  <2>6. PollsOK' /\ NoPollIsForgotten'
    BY <1>4, <2>1, <2>2, <2>3, <2>4, <2>5, RegisteredHolds
  <2> QED
    BY <1>2, <2>6 DEF MInv
<1> QED
  BY <1>1, <1>3, <1>4

LEMMA TickDeadHolds ==
  ASSUME MInv, TickDead
  PROVE  MInv'
<1>1. /\ ycmd = "dead" /\ receiving' = FALSE /\ shown' = progress'
      /\ ProgressState' = [progress |-> {}, cleared |-> NoGenerations, gone |-> gone]
      /\ progress' = {}
      /\ UNCHANGED <<ycmd, readyCache, awaiting, table, polls, external, troubles>>
  BY DEF TickDead, ApplyWorkDoneProgress, ProgressState
<1>2. gone \in SUBSET Keys
  BY DEF MInv, ProgressOK, AliveStates, States, ProgressState
<1>3. ProgressOK'
  BY <1>1, <1>2, NothingClearedIsOK DEF ProgressOK
<1>4. PollsOK' /\ NoPollIsForgotten'
  BY <1>1 DEF MInv, PollsOK, NoPollIsForgotten
<1> QED
  BY <1>1, <1>3, <1>4, SameOutside DEF MInv

LEMMA TickPollsHolds ==
  ASSUME MInv, NEW answered \in SUBSET Sent, NEW over \in SUBSET (Sent \ answered),
         TickPolls(answered, over)
  PROVE  MInv'
<1> DEFINE new == FoldLeft(HandleNotification, ProgressState, MessagesOf(answered))
<1>1. /\ ycmd # "dead"
      /\ polls' = [ft \in Filetypes |->
           CASE polls[ft] = Nothing \/ ft \in over -> Nothing [] OTHER -> "sent"]
      /\ receiving' = (\E ft \in Filetypes : polls'[ft] # Nothing)
      /\ ApplyWorkDoneProgress(new)
      /\ outbox' = [ft \in Filetypes |-> IF ft \in answered THEN <<>> ELSE outbox[ft]]
      /\ troubles' = troubles + (IF over = {} THEN 0 ELSE 1) /\ troubles' <= MaxTroubles
      /\ UNCHANGED <<ycmd, readyCache, awaiting, table, replies, connection>>
  BY DEF TickPolls
<1>2. new \in CurrentStates
  <2>1. ProgressState \in CurrentStates
    BY <1>1 DEF MInv, ProgressOK, CurrentStates
  <2>2. MessagesOf(answered) \in Seq(Notifications)
    BY MessagesType
  <2> QED
    BY <2>1, <2>2, HandlingAllKeeps
<1> HIDE DEF new
<1>3. ProgressState' = new /\ shown' = progress'
  <2>1. /\ progress' = new.progress /\ cleared' = new.cleared /\ gone' = new.gone
        /\ shown' = new.progress
    BY <1>1 DEF ApplyWorkDoneProgress
  <2>2. new = [progress |-> new.progress, cleared |-> new.cleared, gone |-> new.gone]
    BY <1>2 DEF CurrentStates, AliveStates, States
  <2> QED
    BY <2>1, <2>2 DEF ProgressState
<1>4. ProgressOK'
  BY <1>2, <1>3 DEF ProgressOK, CurrentStates
<1>5. PollsOK' /\ NoPollIsForgotten'
  <2>1. polls' \in [Filetypes -> {Nothing, "new", "sent"}]
    BY <1>1
  <2>2. troubles' \in 0..MaxTroubles
    BY <1>1, GenerationAssumption DEF MInv, PollsOK
  <2>3. receiving' \in BOOLEAN /\ (NoPollIsForgotten)'
    BY <1>1 DEF NoPollIsForgotten, Polled
  <2> QED
    BY <1>1, <2>1, <2>2, <2>3 DEF MInv, PollsOK
<1>6. ExternalOK'
  <2>1. outbox' \in [Filetypes -> Seq(Notifications)]
    BY <1>1 DEF MInv, ExternalOK
  <2> QED
    BY <1>1, <2>1 DEF MInv, ExternalOK
<1> QED
  BY <1>4, <1>5, <1>6 DEF MInv

LEMMA ReplyHolds ==
  ASSUME MInv, NEW key \in replies, replies' = replies \ {key},
         ApplyWorkDoneProgress(ClearForServerGeneration(ProgressState, key)),
         UNCHANGED <<ycmd, client, outbox, connection, troubles>>
  PROVE  MInv'
<1> DEFINE new == ClearForServerGeneration(ProgressState, key)
<1>1. key \in Keys /\ ProgressState \in AliveStates
  BY DEF MInv, ExternalOK, ProgressOK
<1>2. /\ new \in AliveStates /\ new.progress \subseteq ProgressState.progress
      /\ Told(ProgressState) => Told(new)
  BY <1>1, ClearingKeeps
<1>3. /\ progress' = new.progress /\ cleared' = new.cleared /\ gone' = new.gone
      /\ shown' = new.progress
  BY DEF ApplyWorkDoneProgress
<1> HIDE DEF new
<1>4. ProgressState' = new /\ shown' = progress' /\ progress' \subseteq progress
  <2>1. new = [progress |-> new.progress, cleared |-> new.cleared, gone |-> new.gone]
    BY <1>2 DEF AliveStates, States
  <2> QED
    BY <1>2, <1>3, <2>1 DEF ProgressState
<1>5. ProgressOK'
  BY <1>2, <1>4 DEF MInv, ProgressOK
<1>6. PollsOK' /\ NoPollIsForgotten'
  BY DEF MInv, PollsOK, NoPollIsForgotten, Polled, client
<1>7. ExternalOK'
  BY DEF MInv, ExternalOK
<1> QED
  BY <1>5, <1>6, <1>7 DEF MInv

LEMMA NoConnectionsOK ==
  /\ NoConnections \in [LanguageServers -> Connections]
  /\ \A s \in LanguageServers : NoConnections[s].work = "none"
BY GenerationAssumption DEF NoConnections, Connections

LEMMA RestartHolds ==
  ASSUME MInv, RestartYcmd
  PROVE  MInv'
<1>1. /\ troubles < MaxTroubles /\ troubles' = troubles + 1
      /\ ycmd' \in {"starting", "dead"}
      /\ readyCache' = FALSE /\ awaiting' = TRUE /\ receiving' = FALSE
      /\ table' = <<>> /\ polls' = [ft \in Filetypes |-> Nothing]
      /\ ProgressState' = [progress |-> {}, cleared |-> NoGenerations, gone |-> {}]
      /\ shown' = progress' /\ gone' = {}
      /\ outbox' = [ft \in Filetypes |-> <<>>] /\ replies' = {}
      /\ connection' = NoConnections
  BY DEF RestartYcmd, ApplyWorkDoneProgress, ProgressState
<1>2. ProgressOK'
  <2>1. Told(ProgressState)'
    BY <1>1 DEF Told
  <2> QED
    BY <1>1, <2>1, NothingClearedIsOK DEF ProgressOK
<1>3. PollsOK' /\ NoPollIsForgotten'
  <2>1. troubles' \in 0..MaxTroubles
    BY <1>1, GenerationAssumption DEF MInv, PollsOK
  <2>2. <<>> \in Seq(Filetypes)
    OBVIOUS
  <2>3. polls' \in [Filetypes -> {Nothing, "new", "sent"}] /\ \A ft \in Filetypes : ~Polled(ft)'
    BY <1>1 DEF Polled
  <2>4. NoPollIsForgotten'
    BY <2>3 DEF NoPollIsForgotten
  <2> QED
    BY <1>1, <2>1, <2>2, <2>3, <2>4 DEF PollsOK
<1>4. ExternalOK'
  BY <1>1, NoConnectionsOK DEF ExternalOK
<1> QED
  BY <1>2, <1>3, <1>4 DEF MInv

LEMMA DeathHolds ==
  ASSUME MInv, YcmdDies
  PROVE  MInv'
<1>1. /\ ycmd # "dead" /\ ycmd' = "dead"
      /\ troubles < MaxTroubles /\ troubles' = troubles + 1
      /\ outbox' = [ft \in Filetypes |-> <<>>] /\ connection' = NoConnections
      /\ UNCHANGED <<client, status, replies>>
  BY DEF YcmdDies
<1>2. troubles' \in 0..MaxTroubles
  BY <1>1, GenerationAssumption DEF MInv, PollsOK
<1>3. PollsOK' /\ NoPollIsForgotten'
  BY <1>1, <1>2 DEF MInv, PollsOK, NoPollIsForgotten, client
<1>4. ExternalOK'
  BY <1>1, NoConnectionsOK DEF MInv, ExternalOK
<1> QED
  BY <1>1, <1>3, <1>4, SameProgress DEF MInv

LEMMA LanguageServerHolds ==
  ASSUME MInv, NEW s \in LanguageServers, LanguageServer(s)
  PROVE  MInv'
<1>1. UNCHANGED <<ycmd, client, status, troubles>> /\ ycmd = "ready"
  BY DEF LanguageServer
<1>2. ProgressOK' /\ PollsOK' /\ NoPollIsForgotten'
  BY <1>1, SameProgress DEF MInv, PollsOK, NoPollIsForgotten, Polled, client
<1>3. /\ connection \in [LanguageServers -> Connections] /\ connection[s] \in Connections
      /\ connection[s].work # "none" => connection[s].generation \in 1..MaxGeneration
      /\ outbox \in [Filetypes -> Seq(Notifications)] /\ replies \in SUBSET Keys
      /\ \A t \in LanguageServers : connection[t].work # "none" => connection[t].generation # 0
  BY GenerationAssumption DEF MInv, ExternalOK, Connections
<1>4. ASSUME NEW kind \in {"begin", "report", "end", "cleanup"}, connection[s].work # "none",
             Post(kind, s)
      PROVE  outbox' \in [Filetypes -> Seq(Notifications)]
  <2> DEFINE note == [kind |-> kind,
                      key |-> [server |-> s, generation |-> connection[s].generation]]
  <2>1. note \in Notifications
    BY <1>3, <1>4 DEF Notifications, Keys
  <2>2. PICK ft \in Filetypes : outbox' = [outbox EXCEPT ![ft] = Append(outbox[ft], note)]
    BY <1>4 DEF Post
  <2> HIDE DEF note
  <2>3. Append(outbox[ft], note) \in Seq(Notifications)
    BY <1>3, <2>1
  <2> QED
    BY <1>3, <2>2, <2>3
<1>5. CASE Connect(s)
  <2> DEFINE new == [generation |-> connection[s].generation + 1, work |-> "connected"]
  <2>1. /\ connection[s].generation < MaxGeneration
        /\ connection' = [connection EXCEPT ![s] = new] /\ UNCHANGED <<outbox, replies>>
    BY <1>5 DEF Connect
  <2>2. connection[s].generation \in 0..MaxGeneration
    BY <1>3 DEF Connections
  <2>3. new \in Connections /\ new.generation # 0
    BY <2>1, <2>2, GenerationAssumption DEF Connections
  <2> HIDE DEF new
  <2>4. ExternalOK'
    BY <1>3, <2>1, <2>3 DEF ExternalOK
  <2> QED
    BY <1>2, <2>4 DEF MInv
<1>6. CASE Work(s)
  <2>1. PICK kind \in {"begin", "report", "end"}, work \in {"begun", "reported", "ended"} :
          /\ connection[s].work # "none" /\ Post(kind, s)
          /\ connection' = [connection EXCEPT ![s].work = work] /\ UNCHANGED replies
    BY <1>6 DEF Work
  <2>2. outbox' \in [Filetypes -> Seq(Notifications)]
    BY <1>4, <2>1
  <2>3. /\ connection' \in [LanguageServers -> Connections]
        /\ \A t \in LanguageServers : connection'[t].work # "none" => connection'[t].generation # 0
    BY <1>3, <2>1, GenerationAssumption DEF Connections
  <2>4. ExternalOK'
    BY <1>3, <2>1, <2>2, <2>3 DEF ExternalOK
  <2> QED
    BY <1>2, <2>4 DEF MInv
<1>7. CASE Disconnect(s)
  <2>1. /\ connection[s].work # "none"
        /\ connection' = [connection EXCEPT ![s].work = "none"]
        /\ \/ Post("cleanup", s) /\ UNCHANGED replies
           \/ /\ replies' = replies \union
                   {[server |-> s, generation |-> connection[s].generation]}
              /\ UNCHANGED outbox
    BY <1>7 DEF Disconnect
  <2>2. outbox' \in [Filetypes -> Seq(Notifications)] /\ replies' \in SUBSET Keys
    BY <1>3, <1>4, <2>1 DEF Keys
  <2>3. /\ connection' \in [LanguageServers -> Connections]
        /\ \A t \in LanguageServers : connection'[t].work # "none" => connection'[t].generation # 0
    BY <1>3, <2>1 DEF Connections
  <2>4. ExternalOK'
    BY <2>2, <2>3 DEF ExternalOK
  <2> QED
    BY <1>2, <2>4 DEF MInv
<1> QED
  BY <1>5, <1>6, <1>7 DEF LanguageServer

LEMMA MessagesInit == InitMessages => MInv
<1> SUFFICES ASSUME InitMessages
             PROVE  MInv
  OBVIOUS
<1>1. ProgressState = [progress |-> {}, cleared |-> NoGenerations, gone |-> {}]
  BY DEF InitMessages, ProgressState
<1>2. ProgressOK
  <2>1. Told(ProgressState)
    BY <1>1 DEF Told
  <2> QED
    BY <1>1, <2>1, NothingClearedIsOK DEF ProgressOK, InitMessages
<1>3. PollsOK /\ NoPollIsForgotten
  <2>1. 0 \in 0..MaxTroubles
    BY GenerationAssumption
  <2>2. <<>> \in Seq(Filetypes)
    OBVIOUS
  <2>3. polls \in [Filetypes -> {Nothing, "new", "sent"}] /\ \A ft \in Filetypes : ~Polled(ft)
    BY DEF InitMessages, Polled
  <2>4. NoPollIsForgotten
    BY <2>3 DEF NoPollIsForgotten
  <2> QED
    BY <2>1, <2>2, <2>3, <2>4 DEF InitMessages, PollsOK
<1>4. ExternalOK
  BY NoConnectionsOK DEF InitMessages, ExternalOK
<1> QED
  BY <1>2, <1>3, <1>4 DEF MInv

LEMMA MessagesStep == MInv /\ [NextMessages]_messages => MInv'
<1> SUFFICES ASSUME MInv, [NextMessages]_messages
             PROVE  MInv'
  OBVIOUS
<1>1. ASSUME NEW b \in Files, EnterFile(b)
      PROVE  MInv'
  <2>1. <<b>> \in Seq(Files)
    OBVIOUS
  <2> QED
    BY <1>1, <2>1, FilesEnter DEF EnterFile
<1>2. CASE LanguageServerEnabled
  BY <1>2, AllFilesType, FilesEnter DEF LanguageServerEnabled
<1>3. CASE YcmdStarts
  <2>1. /\ ycmd = "starting" /\ ycmd' = "ready" /\ UNCHANGED <<client, status, external, troubles>>
    BY <1>3 DEF YcmdStarts
  <2>2. PollsOK' /\ NoPollIsForgotten'
    BY <2>1 DEF MInv, PollsOK, NoPollIsForgotten, Polled, client
  <2> QED
    BY <2>1, <2>2, SameProgress, SameOutside DEF MInv
<1>4. CASE UNCHANGED messages
  <2>1. UNCHANGED <<ycmd, client, status, external, troubles>>
    BY <1>4 DEF messages
  <2>2. PollsOK' /\ NoPollIsForgotten'
    BY <2>1 DEF MInv, PollsOK, NoPollIsForgotten, Polled, client
  <2>3. ProgressOK'
    BY <2>1 DEF MInv, ProgressOK, status, ProgressState
  <2> QED
    BY <2>1, <2>2, <2>3, SameOutside DEF MInv
<1>5. CASE ReceiveMessages
  BY <1>5, TickPollsHolds DEF ReceiveMessages
<1>6. CASE HandleReply
  BY <1>6, ReplyHolds DEF HandleReply
<1> QED
  BY <1>1, <1>2, <1>3, <1>4, <1>5, <1>6, ServerReadyHolds, TickDeadHolds, RestartHolds,
     DeathHolds, LanguageServerHolds DEF NextMessages

LEMMA MessagesInvariance == MessagesSpec => []MInv
BY MessagesInit, MessagesStep, PTL DEF MessagesSpec

(* Progress, polls and what is on its way from ycmd keep their types.      *)
THEOREM MessagesTypeCorrect == MessagesSpec => []MessagesTypeOK
<1>1. MInv => MessagesTypeOK
  <2> SUFFICES ASSUME MInv
               PROVE  MessagesTypeOK
    OBVIOUS
  <2>1. /\ progress \in SUBSET Keys /\ gone \in SUBSET Keys /\ shown = progress
        /\ cleared \in [LanguageServers -> 0..MaxGeneration]
    BY DEF MInv, ProgressOK, AliveStates, States, ProgressState
  <2>2. Range(table) \subseteq Filetypes
    BY DEF MInv, PollsOK, Range
  <2>3. \A ft \in Filetypes : Range(outbox[ft]) \subseteq Notifications
    BY DEF MInv, ExternalOK, Range
  <2>4. DOMAIN outbox = Filetypes
    BY DEF MInv, ExternalOK
  <2> QED
    BY <2>1, <2>2, <2>3, <2>4 DEF MInv, PollsOK, ExternalOK, Connections, MessagesTypeOK
<1> QED
  BY <1>1, MessagesInvariance, PTL

(* work_done_progress.py, youcompleteme.vim: progress of a connection that *)
(* was declared over does not come back to the status line in that session,*)
(* whatever the order in which the messages of the filetypes are read.     *)
THEOREM EndedWorkStaysAway == MessagesSpec => []StatusIsCurrent
<1>1. MInv => StatusIsCurrent
  <2> SUFFICES ASSUME MInv, NEW key \in shown, key \in gone
               PROVE  FALSE
    BY DEF MInv, ProgressOK, StatusIsCurrent
  <2>1. /\ key \in progress /\ Told(ProgressState) /\ Alive(ProgressState)
        /\ ProgressState \in States
    BY DEF MInv, ProgressOK, AliveStates
  <2>2. key \in Keys
    BY <2>1 DEF States, ProgressState
  <2>3. key.generation > cleared[key.server] /\ key.generation <= cleared[key.server]
    BY <2>1 DEF Alive, Told, ProgressState
  <2>4. ProgressState.cleared = cleared
    BY DEF ProgressState
  <2> QED
    BY <2>1, <2>2, <2>3, <2>4, KeysAreNumbered
<1> QED
  BY <1>1, MessagesInvariance, PTL

(* youcompleteme.py, youcompleteme.vim: while ycmd lives, a filetype with a*)
(* poll has the timer running, also after a crash that left polls behind.  *)
THEOREM PollsAreReceived == MessagesSpec => []NoPollIsForgotten
<1>1. MInv => NoPollIsForgotten
  BY DEF MInv
<1> QED
  BY <1>1, MessagesInvariance, PTL

-----------------------------------------------------------------------------
(*****************************************************************************)
(* Finder                                                                    *)
(*****************************************************************************)

(* Every filetype that is waited for has a request on its way.             *)
WaitedForIsAsked ==
  \A ft \in Languages : rawResults[ft] = Waiting => Outstanding(ft) # {}

(* One that did not stray has no other request.                            *)
NoneBesides ==
  \A ft \in Languages \ strayed : ~MoreThan(ft, rawResults[ft] = Waiting)

(* What such a filetype has answered, or is going to answer unless it is   *)
(* asked again then, is for what is typed now.                             *)
AnswersAreCurrent ==
  \A ft \in Languages \ strayed :
    /\ rawResults[ft] \in {Absent, Waiting, query}
    /\ ft \notin pending => \A r \in Outstanding(ft) : r.query = query

(* Only what is waited for is pending, and all that is searched is asked.  *)
PendingIsWaitedFor ==
  /\ \A ft \in pending : rawResults[ft] = Waiting
  /\ \A ft \in Asked(allFiletypes) : rawResults[ft] # Absent

(* With the last answer the popup is brought up to date.                   *)
PopupIsUpToDate == outstanding = EmptyBag => results = Collated(rawResults)

Searching ==
  searching => /\ query # 0
               /\ WaitedForIsAsked /\ NoneBesides /\ AnswersAreCurrent
               /\ PendingIsWaitedFor /\ PopupIsUpToDate

FInv == FinderTypeOK /\ Searching

-----------------------------------------------------------------------------
WithAll(B, S) == B (+) SetToBag(S)
Without(B, r) == B (-) SetToBag({r})

LEMMA OneMoreEach ==
  ASSUME NEW B, IsABag(B), NEW S
  PROVE  /\ IsABag(WithAll(B, S)) /\ DOMAIN WithAll(B, S) = DOMAIN B \union S
         /\ \A e \in DOMAIN B \union S :
              WithAll(B, S)[e] = (IF e \in DOMAIN B THEN B[e] ELSE 0)
                                   + (IF e \in S THEN 1 ELSE 0)
BY DEF WithAll, (+), SetToBag, IsABag

LEMMA OneLess ==
  ASSUME NEW B, IsABag(B), NEW r
  PROVE  /\ IsABag(Without(B, r))
         /\ DOMAIN Without(B, r) = {e \in DOMAIN B : e # r \/ B[e] # 1}
         /\ \A e \in DOMAIN Without(B, r) : Without(B, r)[e] = B[e] - (IF e = r THEN 1 ELSE 0)
BY DEF Without, (-), SetToBag, IsABag

LEMMA EmptyHasNone == DOMAIN EmptyBag = {}
BY DEF EmptyBag, SetToBag

LEMMA AskedAreLanguages ==
  ASSUME NEW all \in BOOLEAN
  PROVE  Asked(all) \subseteq Languages /\ Asked(all) # {}
BY LanguagesAssumption DEF Asked

(* A new search, or a change of it, for the text q.                        *)
LEMMA SearchHolds ==
  ASSUME FinderTypeOK, NEW raw \in [Languages -> {Absent, Waiting} \union 1..MaxQueries],
         NEW q \in 1..MaxQueries, NEW all \in BOOLEAN,
         \A ft \in Languages : raw[ft] = Waiting => Outstanding(ft) # {},
         SearchWorkspace(raw, q, all), searching' \in BOOLEAN, query' = q, allFiletypes' = all,
         toggles' \in 0..MaxToggles, results' \in SUBSET Requests
  PROVE  FInv'
<1> DEFINE asked == Asked(all)
           more == {[filetype |-> ft, query |-> q] : ft \in {ft \in asked : raw[ft] # Waiting}}
<1>1. /\ rawResults' = [ft \in Languages |-> IF ft \in asked THEN Waiting ELSE Absent]
      /\ pending' = {ft \in asked : raw[ft] = Waiting}
      /\ strayed' = {ft \in Languages : MoreThan(ft, ft \in asked /\ raw[ft] = Waiting)}
  BY Zenon DEF SearchWorkspace, PendingOf
<1>1a. outstanding' = WithAll(outstanding, more)
  <2>1. outstanding' = outstanding (+) GoToSymbol({ft \in asked : raw[ft] # Waiting}, q)
    BY Zenon DEF SearchWorkspace
  <2>2. GoToSymbol({ft \in asked : raw[ft] # Waiting}, q) = SetToBag(more)
    BY Zenon DEF GoToSymbol
  <2> QED
    BY <2>1, <2>2, Zenon DEF WithAll
<1>2. asked \subseteq Languages /\ asked # {} /\ Waiting # Absent
  BY AskedAreLanguages, QueriesAssumption
<1>3. IsABag(outstanding) /\ BagToSet(outstanding) \subseteq Requests
  BY DEF FinderTypeOK
<1>4. /\ IsABag(outstanding') /\ DOMAIN outstanding' = DOMAIN outstanding \union more
      /\ \A e \in DOMAIN outstanding \union more :
           outstanding'[e] = (IF e \in DOMAIN outstanding THEN outstanding[e] ELSE 0)
                               + (IF e \in more THEN 1 ELSE 0)
  <2> HIDE DEF more
  <2>1. /\ IsABag(WithAll(outstanding, more))
        /\ DOMAIN WithAll(outstanding, more) = DOMAIN outstanding \union more
        /\ \A e \in DOMAIN outstanding \union more :
             WithAll(outstanding, more)[e]
               = (IF e \in DOMAIN outstanding THEN outstanding[e] ELSE 0)
                   + (IF e \in more THEN 1 ELSE 0)
    BY <1>3, OneMoreEach, Zenon
  <2> QED
    BY <1>1a, <2>1, Zenon
<1> HIDE DEF asked
<1>5. \A r \in more : r \in Requests /\ r.query = q /\ r.filetype \in asked /\ raw[r.filetype] # Waiting
  BY <1>2 DEF Requests
<1>6. ASSUME NEW ft \in asked, raw[ft] # Waiting
      PROVE  \E r \in more : r.filetype = ft
  <2>1. [filetype |-> ft, query |-> q] \in more
    BY <1>6
  <2> HIDE DEF more
  <2> QED
    BY <2>1
<1>7. \A r, s \in more : r.filetype = s.filetype => r = s
  OBVIOUS
<1> HIDE DEF more
<1>8. FinderTypeOK'
  <2>1. rawResults' \in [Languages -> {Absent, Waiting} \union 1..MaxQueries]
    BY <1>1
  <2>2. pending' \subseteq Languages /\ strayed' \subseteq Languages
    BY <1>1, <1>2
  <2>3. BagToSet(outstanding') \subseteq Requests
    BY <1>3, <1>4, <1>5 DEF BagToSet
  <2>4. query' \in 0..MaxQueries
    BY QueriesAssumption
  <2> QED
    BY <1>4, <2>1, <2>2, <2>3, <2>4 DEF FinderTypeOK
<1>9. ASSUME NEW ft \in Languages
      PROVE  Outstanding(ft)' = Outstanding(ft) \union {r \in more : r.filetype = ft}
  BY <1>4 DEF Outstanding, BagToSet
<1>10. WaitedForIsAsked'
  <2> SUFFICES ASSUME NEW ft \in Languages, rawResults'[ft] = Waiting
               PROVE  Outstanding(ft)' # {}
    BY DEF WaitedForIsAsked
  <2>1. ft \in asked
    BY <1>1, <1>2
  <2> QED
    BY <1>6, <1>9, <2>1
<1>11. ASSUME NEW ft \in Languages \ strayed'
       PROVE  /\ ~MoreThan(ft, rawResults[ft] = Waiting)'
              /\ rawResults'[ft] \in {Absent, Waiting, q}
              /\ ft \notin pending' => \A r \in Outstanding(ft)' : r.query = q
  <2>0. ~MoreThan(ft, ft \in asked /\ raw[ft] = Waiting)
    BY <1>1
  <2>1. CASE ft \in asked /\ raw[ft] = Waiting
    <3>1. Outstanding(ft)' = Outstanding(ft)
      BY <1>5, <1>9, <2>1
    <3>2. \A r, s \in Outstanding(ft) : r = s /\ ~(outstanding[r] > 1)
      BY <2>0, <2>1 DEF MoreThan
    <3>3. \A r \in Outstanding(ft) : r \in DOMAIN outstanding /\ r \notin more
      BY <1>5, <2>1 DEF Outstanding, BagToSet
    <3>4. \A r \in Outstanding(ft) : outstanding'[r] = outstanding[r] + 0
      BY <1>4, <3>3
    <3>5. \A r \in Outstanding(ft) : outstanding[r] \in Nat
      BY <1>3, <3>3 DEF IsABag
    <3>6. \A r, s \in Outstanding(ft)' : ~(r # s \/ outstanding'[r] > 1)
      BY <3>1, <3>2, <3>4, <3>5
    <3>7. rawResults'[ft] = Waiting /\ ft \in pending'
      BY <1>1, <2>1
    <3> QED
      BY <3>6, <3>7 DEF MoreThan
  <2>2. CASE ~(ft \in asked /\ raw[ft] = Waiting)
    <3>1. Outstanding(ft) = {}
      BY <2>0, <2>2 DEF MoreThan
    <3>2. Outstanding(ft)' = {r \in more : r.filetype = ft}
      BY <1>9, <3>1
    <3>3. \A r \in Outstanding(ft)' : r.query = q
      BY <1>5, <3>2
    <3>4. CASE ft \in asked
      <4>1. \A r, s \in Outstanding(ft)' : r = s
        BY <1>7, <3>2
      <4>2. \A r \in Outstanding(ft)' : r \in more /\ r \notin DOMAIN outstanding
        BY <3>1, <3>2 DEF Outstanding, BagToSet
      <4>3. \A r \in Outstanding(ft)' : outstanding'[r] = 0 + 1
        BY <1>4, <4>2
      <4>4. \A r, s \in Outstanding(ft)' : ~(r # s \/ outstanding'[r] > 1)
        BY <4>1, <4>3
      <4>5. rawResults'[ft] = Waiting
        BY <1>1, <3>4
      <4> QED
        BY <3>3, <4>4, <4>5 DEF MoreThan
    <3>5. CASE ft \notin asked
      <4>1. Outstanding(ft)' = {}
        BY <1>5, <3>2, <3>5
      <4>2. rawResults'[ft] = Absent
        BY <1>1, <3>5
      <4> QED
        BY <4>1, <4>2 DEF MoreThan
    <3> QED
      BY <3>4, <3>5
  <2> QED
    BY <2>1, <2>2
<1>12. PendingIsWaitedFor'
  <2>1. \A ft \in pending' : rawResults'[ft] = Waiting
    BY <1>1, <1>2
  <2>2. \A ft \in asked : rawResults'[ft] # Absent
    BY <1>1, <1>2
  <2> QED
    BY <2>1, <2>2 DEF PendingIsWaitedFor, asked
<1>13. PopupIsUpToDate'
  <2>1. PICK ft \in asked : TRUE
    BY <1>2
  <2>2. Outstanding(ft)' # {}
    BY <1>1, <1>2, <1>10, <2>1 DEF WaitedForIsAsked
  <2>3. outstanding' # EmptyBag
    BY <2>2, EmptyHasNone DEF Outstanding, BagToSet
  <2> QED
    BY <2>3 DEF PopupIsUpToDate
<1>14. NoneBesides' /\ AnswersAreCurrent'
  BY <1>11 DEF NoneBesides, AnswersAreCurrent
<1>15. query' # 0
  BY QueriesAssumption
<1> QED
  BY <1>8, <1>10, <1>12, <1>13, <1>14, <1>15 DEF FInv, Searching

(* An answer: that of a request that strayed replaces what is kept too.    *)
LEMMA HandleHolds ==
  ASSUME FInv, NEW r \in BagToSet(outstanding), HandleWorkspaceSymbols(r)
  PROVE  FInv'
<1> DEFINE raw == [rawResults EXCEPT ![r.filetype] = r.query]
           again == IF searching THEN {ft \in pending : raw[ft] # Waiting} ELSE {}
           more == {[filetype |-> ft, query |-> query] : ft \in again}
           less == Without(outstanding, r)
<1>1. /\ results' = IF searching THEN Collated(raw) ELSE {}
      /\ rawResults' = [ft \in Languages |-> IF ft \in again THEN Waiting ELSE raw[ft]]
      /\ pending' = pending \ again
      /\ UNCHANGED <<searching, query, allFiletypes, strayed, toggles>>
  BY Zenon DEF HandleWorkspaceSymbols
<1>2. outstanding' = WithAll(less, more)
  <2>1. outstanding' = (outstanding (-) SetToBag({r})) (+) GoToSymbol(again, query)
    BY Zenon DEF HandleWorkspaceSymbols
  <2>2. GoToSymbol(again, query) = SetToBag(more)
    BY Zenon DEF GoToSymbol
  <2> QED
    BY <2>1, <2>2, Zenon DEF WithAll, Without
<1>3. /\ FinderTypeOK /\ IsABag(outstanding) /\ BagToSet(outstanding) \subseteq Requests
      /\ r \in Requests /\ r.filetype \in Languages /\ r.query \in 1..MaxQueries
      /\ query \in 0..MaxQueries /\ pending \subseteq Languages
      /\ rawResults \in [Languages -> {Absent, Waiting} \union 1..MaxQueries]
      /\ (searching => query # 0)
  BY DEF FInv, Searching, FinderTypeOK, Requests
<1>4. /\ IsABag(less)
      /\ DOMAIN less = {e \in DOMAIN outstanding : e # r \/ outstanding[e] # 1}
      /\ \A e \in DOMAIN less : less[e] = outstanding[e] - (IF e = r THEN 1 ELSE 0)
  BY <1>3, OneLess, Zenon
<1>5. /\ IsABag(outstanding') /\ DOMAIN outstanding' = DOMAIN less \union more
      /\ \A e \in DOMAIN less \union more :
           outstanding'[e] = (IF e \in DOMAIN less THEN less[e] ELSE 0)
                               + (IF e \in more THEN 1 ELSE 0)
  <2> HIDE DEF less, more
  <2>1. /\ IsABag(WithAll(less, more)) /\ DOMAIN WithAll(less, more) = DOMAIN less \union more
        /\ \A e \in DOMAIN less \union more :
             WithAll(less, more)[e] = (IF e \in DOMAIN less THEN less[e] ELSE 0)
                                        + (IF e \in more THEN 1 ELSE 0)
    BY <1>4, OneMoreEach, Zenon
  <2> QED
    BY <1>2, <2>1, Zenon
<1>6. /\ raw \in [Languages -> {Absent, Waiting} \union 1..MaxQueries]
      /\ raw[r.filetype] = r.query /\ r.query # Waiting
      /\ \A ft \in Languages : ft # r.filetype => raw[ft] = rawResults[ft]
  BY <1>3, QueriesAssumption
<1>7. again \subseteq {r.filetype} /\ (again # {} => searching /\ r.filetype \in pending)
      /\ (searching /\ r.filetype \in pending => again = {r.filetype})
  <2>1. CASE searching
    <3>1. \A ft \in pending : rawResults[ft] = Waiting
      BY <2>1 DEF FInv, Searching, PendingIsWaitedFor
    <3> QED
      BY <1>3, <1>6, <2>1, <3>1
  <2>2. CASE ~searching
    BY <2>2
  <2> QED
    BY <2>1, <2>2
<1> HIDE DEF raw, again, less
<1>8. \A s \in more : s = [filetype |-> r.filetype, query |-> query] /\ again = {r.filetype}
  BY <1>7
<1>9. again # {} => [filetype |-> r.filetype, query |-> query] \in more
  BY <1>7
<1> HIDE DEF more
<1>10. FinderTypeOK'
  <2>1. rawResults' \in [Languages -> {Absent, Waiting} \union 1..MaxQueries]
    BY <1>1, <1>6
  <2>2. pending' \subseteq Languages
    BY <1>1, <1>3
  <2>3. \A s \in more : s \in Requests
    BY <1>3, <1>7, <1>8, QueriesAssumption DEF Requests
  <2>4. BagToSet(outstanding') \subseteq Requests
    BY <1>3, <1>4, <1>5, <2>3 DEF BagToSet
  <2>5. Collated(raw) \subseteq Requests
    BY <1>6 DEF Collated, Requests
  <2>6. results' \subseteq Requests
    BY <1>1, <2>5
  <2> QED
    BY <1>1, <1>3, <1>5, <2>1, <2>2, <2>4, <2>6 DEF FinderTypeOK
<1>11. ASSUME searching
       PROVE  /\ WaitedForIsAsked' /\ NoneBesides' /\ AnswersAreCurrent'
              /\ PendingIsWaitedFor' /\ PopupIsUpToDate'
  <2>1. /\ WaitedForIsAsked /\ NoneBesides /\ AnswersAreCurrent /\ PendingIsWaitedFor
    BY <1>11 DEF FInv, Searching
  <2>2. ASSUME NEW ft \in Languages, ft # r.filetype
        PROVE  /\ Outstanding(ft)' = Outstanding(ft)
               /\ \A s \in Outstanding(ft) : outstanding'[s] = outstanding[s]
               /\ rawResults'[ft] = rawResults[ft] /\ ft \notin again
               /\ (ft \in pending' <=> ft \in pending)
    <3>1. ft \notin again
      BY <1>7, <2>2
    <3>2. Outstanding(ft)' = Outstanding(ft)
      BY <1>4, <1>5, <1>8, <2>2 DEF Outstanding, BagToSet
    <3>3. \A s \in Outstanding(ft) :
             s \in DOMAIN outstanding /\ s # r /\ s \in DOMAIN less /\ s \notin more
      BY <1>4, <1>8, <2>2 DEF Outstanding, BagToSet
    <3>4. \A s \in Outstanding(ft) : outstanding'[s] = outstanding[s] - 0 + 0
      BY <1>4, <1>5, <3>3
    <3>5. \A s \in Outstanding(ft) : outstanding[s] \in Nat
      BY <1>3, <3>3 DEF IsABag
    <3> QED
      BY <1>1, <1>6, <2>2, <3>1, <3>2, <3>4, <3>5
  <2>3. WaitedForIsAsked'
    <3> SUFFICES ASSUME NEW ft \in Languages, rawResults'[ft] = Waiting
                 PROVE  Outstanding(ft)' # {}
      BY DEF WaitedForIsAsked
    <3>1. CASE ft # r.filetype
      BY <2>1, <2>2, <3>1 DEF WaitedForIsAsked
    <3>2. CASE ft = r.filetype
      <4>1. [filetype |-> ft, query |-> query] \in more
        BY <1>1, <1>6, <1>9, <3>2
      <4> QED
        BY <1>5, <4>1 DEF Outstanding, BagToSet
    <3> QED
      BY <3>1, <3>2
  <2>4. ASSUME NEW ft \in Languages \ strayed'
        PROVE  /\ ~MoreThan(ft, rawResults[ft] = Waiting)'
               /\ rawResults'[ft] \in {Absent, Waiting, query'}
               /\ ft \notin pending' => \A s \in Outstanding(ft)' : s.query = query'
    <3>1. /\ ft \in Languages \ strayed /\ query' = query
          /\ ~MoreThan(ft, rawResults[ft] = Waiting)
          /\ rawResults[ft] \in {Absent, Waiting, query}
          /\ ft \notin pending => \A s \in Outstanding(ft) : s.query = query
      BY <1>1, <2>1 DEF NoneBesides, AnswersAreCurrent
    <3>2. CASE ft # r.filetype
      <4>1. /\ Outstanding(ft)' = Outstanding(ft)
            /\ \A s \in Outstanding(ft) : outstanding'[s] = outstanding[s]
            /\ rawResults'[ft] = rawResults[ft]
            /\ (ft \in pending' <=> ft \in pending)
        BY <2>2, <3>2
      <4>2. ~MoreThan(ft, rawResults[ft] = Waiting)'
        BY <3>1, <4>1 DEF MoreThan
      <4> QED
        BY <3>1, <4>1, <4>2
    <3>3. CASE ft = r.filetype
      <4>1. r \in Outstanding(ft)
        BY <3>3 DEF Outstanding
      <4>2. \A s \in Outstanding(ft) : s = r /\ ~(outstanding[s] > 1)
        BY <3>1, <4>1 DEF MoreThan
      <4>3. outstanding[r] \in Nat \ {0}
        BY <1>3 DEF IsABag, BagToSet
      <4>4. outstanding[r] = 1
        BY <4>1, <4>2, <4>3
      <4>5. \A s \in Outstanding(ft)' : s \in more /\ s \notin DOMAIN less
        BY <1>4, <1>5, <4>2, <4>4 DEF Outstanding, BagToSet
      <4>6. CASE again = {}
        <5>1. Outstanding(ft)' = {}
          BY <1>8, <4>5, <4>6
        <5>2. rawResults'[ft] = r.query /\ ft \notin pending
          BY <1>1, <1>6, <1>7, <1>11, <3>3, <4>6
        <5> QED
          BY <1>6, <3>1, <4>1, <5>1, <5>2 DEF MoreThan
      <4>7. CASE again # {}
        <5>1. again = {ft}
          BY <1>7, <3>3, <4>7
        <5>2. rawResults'[ft] = Waiting
          BY <1>1, <5>1
        <5>3. \A s \in Outstanding(ft)' : outstanding'[s] = 0 + 1
          BY <1>5, <4>5
        <5>4. \A s, t \in Outstanding(ft)' : ~(s # t \/ outstanding'[s] > 1)
          BY <1>8, <4>5, <5>3
        <5>5. \A s \in Outstanding(ft)' : s.query = query
          BY <1>8, <4>5
        <5> QED
          BY <3>1, <5>2, <5>4, <5>5 DEF MoreThan
      <4> QED
        BY <4>6, <4>7
    <3> QED
      BY <3>2, <3>3
  <2>5. NoneBesides' /\ AnswersAreCurrent'
    BY <2>4 DEF NoneBesides, AnswersAreCurrent
  <2>6. PendingIsWaitedFor'
    <3>1. ASSUME NEW ft \in pending'
          PROVE  rawResults'[ft] = Waiting
      <4>1. ft \in pending /\ ft \notin again /\ ft \in Languages
        BY <1>1, <1>3, <3>1
      <4>2. ft # r.filetype
        BY <1>7, <1>11, <4>1
      <4> QED
        BY <2>1, <2>2, <4>1, <4>2 DEF PendingIsWaitedFor
    <3>2. ASSUME NEW ft \in Asked(allFiletypes)
          PROVE  rawResults'[ft] # Absent
      <4>1. ft \in Languages /\ rawResults[ft] # Absent
        BY <1>3, <2>1, <3>2, AskedAreLanguages DEF FinderTypeOK, PendingIsWaitedFor
      <4> QED
        BY <1>1, <1>3, <1>6, <4>1, QueriesAssumption
    <3> QED
      BY <1>1, <3>1, <3>2 DEF PendingIsWaitedFor, Asked
  <2>7. PopupIsUpToDate'
    <3> SUFFICES ASSUME outstanding' = EmptyBag
                 PROVE  results' = Collated(rawResults)'
      BY DEF PopupIsUpToDate
    <3>1. again = {}
      BY <1>5, <1>9, EmptyHasNone
    <3>2. rawResults' = raw
      BY <1>1, <1>6, <3>1
    <3> QED
      BY <1>1, <1>11, <3>2 DEF Collated
  <2> QED
    BY <2>3, <2>5, <2>6, <2>7
<1> QED
  BY <1>1, <1>3, <1>10, <1>11 DEF FInv, Searching

-----------------------------------------------------------------------------
LEMMA FinderInitHolds == InitFinder => FInv
<1> SUFFICES ASSUME InitFinder PROVE FInv
  OBVIOUS
<1>1. rawResults \in [Languages -> {Absent, Waiting} \union 1..MaxQueries]
  BY DEF InitFinder, Nowhere
<1>2. IsABag(outstanding) /\ BagToSet(outstanding) = {}
  BY DEF InitFinder, EmptyBag, SetToBag, IsABag, BagToSet
<1>3. FinderTypeOK
  <2>1. query \in 0..MaxQueries /\ toggles \in 0..MaxToggles
    BY QueriesAssumption DEF InitFinder
  <2>2. /\ searching \in BOOLEAN /\ allFiletypes \in BOOLEAN /\ results = {}
        /\ pending = {} /\ strayed = {}
    BY DEF InitFinder
  <2> QED
    BY <1>1, <1>2, <2>1, <2>2 DEF FinderTypeOK
<1> QED
  BY <1>3, Zenon DEF InitFinder, FInv, Searching

LEMMA FinderStepHolds == FInv /\ [NextFinder]_finder => FInv'
<1> SUFFICES ASSUME FInv, [NextFinder]_finder PROVE FInv'
  OBVIOUS
<1>0. /\ FinderTypeOK /\ searching \in BOOLEAN /\ allFiletypes \in BOOLEAN
      /\ query \in 0..MaxQueries /\ toggles \in 0..MaxToggles /\ results \subseteq Requests
      /\ rawResults \in [Languages -> {Absent, Waiting} \union 1..MaxQueries]
      /\ query < MaxQueries => query + 1 \in 1..MaxQueries
      /\ toggles < MaxToggles => toggles + 1 \in 0..MaxToggles
  BY QueriesAssumption DEF FInv, FinderTypeOK
<1>1. CASE FindSymbol
  <2>1. /\ query < MaxQueries /\ SearchWorkspace(Nowhere, query', TRUE)
        /\ query' = query + 1 /\ allFiletypes' = TRUE /\ searching' = TRUE
        /\ results' = {} /\ toggles' = toggles
    BY <1>1, Zenon DEF FindSymbol
  <2>2. /\ Nowhere \in [Languages -> {Absent, Waiting} \union 1..MaxQueries]
        /\ \A ft \in Languages : Nowhere[ft] # Waiting
    BY QueriesAssumption DEF Nowhere
  <2>3. query + 1 \in 1..MaxQueries /\ SearchWorkspace(Nowhere, query + 1, TRUE)
    BY <1>0, <2>1
  <2>4. searching' \in BOOLEAN /\ toggles' \in 0..MaxToggles /\ results' \in SUBSET Requests
    BY <1>0, <2>1
  <2> QED
    BY <1>0, <2>1, <2>2, <2>3, <2>4, SearchHolds, Zenon
<1>2. CASE OnQueryTextChanged
  <2>1. /\ searching /\ query < MaxQueries /\ SearchWorkspace(rawResults, query', allFiletypes)
        /\ query' = query + 1
        /\ searching' = searching /\ allFiletypes' = allFiletypes
        /\ results' = results /\ toggles' = toggles
    BY <1>2, Zenon DEF OnQueryTextChanged
  <2>2. \A ft \in Languages : rawResults[ft] = Waiting => Outstanding(ft) # {}
    BY <2>1, Zenon DEF FInv, Searching, WaitedForIsAsked
  <2>3. query + 1 \in 1..MaxQueries /\ SearchWorkspace(rawResults, query + 1, allFiletypes)
    BY <1>0, <2>1
  <2>4. searching' \in BOOLEAN /\ toggles' \in 0..MaxToggles /\ results' \in SUBSET Requests
    BY <1>0, <2>1
  <2> QED
    BY <1>0, <2>1, <2>2, <2>3, <2>4, SearchHolds, Zenon
<1>3. CASE ToggleFiletypes
  <2>1. /\ searching /\ toggles < MaxToggles /\ toggles' = toggles + 1
        /\ SearchWorkspace(rawResults, query, ~allFiletypes)
        /\ query' = query /\ allFiletypes' = ~allFiletypes
        /\ searching' = searching /\ results' = results
    BY <1>3, Zenon DEF ToggleFiletypes
  <2>2. /\ \A ft \in Languages : rawResults[ft] = Waiting => Outstanding(ft) # {}
        /\ query # 0
    BY <2>1, Zenon DEF FInv, Searching, WaitedForIsAsked
  <2>5. query \in 1..MaxQueries
    BY <1>0, <2>2, QueriesAssumption
  <2>3. query \in 1..MaxQueries /\ (~allFiletypes) \in BOOLEAN
    BY <2>5, Zenon
  <2>4. searching' \in BOOLEAN /\ toggles' \in 0..MaxToggles /\ results' \in SUBSET Requests
    BY <1>0, <2>1
  <2> QED
    BY <1>0, <2>1, <2>2, <2>3, <2>4, SearchHolds, Zenon
<1>4. CASE ClosePopup
  BY <1>4 DEF ClosePopup, FInv, FinderTypeOK, Searching
<1>5. ASSUME NEW r \in BagToSet(outstanding), HandleWorkspaceSymbols(r)
      PROVE  FInv'
  BY <1>5, HandleHolds
<1>6. CASE UNCHANGED finder
  <2>1. /\ FinderTypeOK' = FinderTypeOK /\ Searching' = Searching
    BY <1>6 DEF finder, FinderTypeOK, Searching, WaitedForIsAsked, NoneBesides,
       AnswersAreCurrent, PendingIsWaitedFor, PopupIsUpToDate, MoreThan, Outstanding,
       Collated, Asked
  <2> QED
    BY <2>1 DEF FInv
<1> QED
  BY <1>1, <1>2, <1>3, <1>4, <1>5, <1>6 DEF NextFinder

LEMMA FInvGivesCurrentResults == FInv => ResultsAreCurrent
<1> SUFFICES ASSUME FInv, searching, outstanding = EmptyBag
             PROVE  /\ \A r \in results : r.query = query \/ r.filetype \in strayed
                    /\ Asked(allFiletypes) \subseteq {r.filetype : r \in results}
  BY DEF ResultsAreCurrent
<1>1. /\ results = Collated(rawResults) /\ WaitedForIsAsked
      /\ AnswersAreCurrent /\ PendingIsWaitedFor /\ FinderTypeOK
  BY DEF FInv, Searching, PopupIsUpToDate
<1>2. \A ft \in Languages : rawResults[ft] # Waiting
  BY <1>1, EmptyHasNone DEF WaitedForIsAsked, Outstanding, BagToSet
<1>3. ASSUME NEW r \in results, r.filetype \notin strayed
      PROVE  r.query = query
  <2>1. r.filetype \in Languages /\ r.query = rawResults[r.filetype] /\ r.query \notin {Absent, Waiting}
    BY <1>1 DEF Collated
  <2> QED
    BY <1>1, <1>3, <2>1 DEF AnswersAreCurrent
<1>4. ASSUME NEW ft \in Asked(allFiletypes)
      PROVE  \E r \in results : r.filetype = ft
  <2>1. ft \in Languages /\ rawResults[ft] \notin {Absent, Waiting}
    BY <1>1, <1>2, AskedAreLanguages DEF FinderTypeOK, PendingIsWaitedFor
  <2>2. [filetype |-> ft, query |-> rawResults[ft]] \in results
    BY <1>1, <2>1 DEF Collated
  <2> QED
    BY <2>2
<1> QED
  BY <1>3, <1>4

(* The table of raw results, the requests and the popup keep their types.  *)
THEOREM FinderTypeCorrect == FinderSpec => []FinderTypeOK
<1>1. FInv => FinderTypeOK
  BY DEF FInv
<1> QED
  BY FinderInitHolds, FinderStepHolds, <1>1, PTL DEF FinderSpec

(* finder.vim: with the last answer the popup shows one answer of every    *)
(* filetype that is searched, for what is typed then, however answers,     *)
(* typing, toggling and searches anew interleave; but for filetypes with a *)
(* request that nothing waits for.                                         *)
THEOREM ThePopupCatchesUp == FinderSpec => []ResultsAreCurrent
BY FinderInitHolds, FinderStepHolds, FInvGivesCurrentResults, PTL DEF FinderSpec

-----------------------------------------------------------------------------
(*****************************************************************************)
(* SnapshotRenderers                                                         *)
(*****************************************************************************)

(* The sum over the layers S, and that all but one of them are empty.      *)
ShownOn(grid, S, k) == MapThenSumSet(LAMBDA l : grid[l][k], S)

LEMMA SumOfOne ==
  ASSUME NEW S, IsFiniteSet(S), NEW grid, NEW k, NEW a \in S,
         \A l \in S : grid[l][k] \in Nat /\ (l # a => grid[l][k] = 0)
  PROVE  ShownOn(grid, S, k) = grid[a][k]
<1> DEFINE One(s) == CHOOSE l \in s : TRUE
           Eq(g) == g = [s \in SUBSET S |-> IF s = {} THEN 0 ELSE grid[One(s)][k] + g[s \ {One(s)}]]
           iter == CHOOSE g : Eq(g)
           h == [s \in SUBSET S |-> IF a \in s THEN grid[a][k] ELSE 0]
<1>1. ShownOn(grid, S, k) = iter[S]
  BY Zenon DEF ShownOn, MapThenSumSet, MapThenFoldSet
<1>2. ASSUME NEW s \in SUBSET S, s # {}
      PROVE  One(s) \in s
  BY <1>2
<1>3. Eq(h)
  <2>1. ASSUME NEW s \in SUBSET S
        PROVE  h[s] = IF s = {} THEN 0 ELSE grid[One(s)][k] + h[s \ {One(s)}]
    <3>1. CASE s = {}
      BY <3>1
    <3>2. CASE s # {}
      <4> DEFINE x == One(s)
      <4>1. x \in s /\ x \in S /\ grid[x][k] \in Nat /\ grid[a][k] \in Nat
        BY <1>2, <3>2
      <4> HIDE DEF x
      <4>2. h[s \ {x}] = IF a \in s \ {x} THEN grid[a][k] ELSE 0
        OBVIOUS
      <4>3. h[s] = IF a \in s THEN grid[a][k] ELSE 0
        OBVIOUS
      <4> HIDE DEF h
      <4>4. h[s] = grid[x][k] + h[s \ {x}]
        BY <4>1, <4>2, <4>3
      <4> QED
        BY <3>2, <4>4 DEF x
    <3> QED
      BY <3>1, <3>2
  <2>2. h = [s \in SUBSET S |-> h[s]]
    OBVIOUS
  <2> HIDE DEF h, One
  <2> QED
    BY <2>1, <2>2
<1> HIDE DEF Eq, h
<1>4. Eq(iter)
  BY <1>3
<1> HIDE DEF iter
<1>5. \A s \in SUBSET S : iter[s] = IF s = {} THEN 0 ELSE grid[One(s)][k] + iter[s \ {One(s)}]
  BY <1>4, Zenon DEF Eq
<1>6. \A s \in SUBSET S : h[s] = IF s = {} THEN 0 ELSE grid[One(s)][k] + h[s \ {One(s)}]
  BY <1>3, Zenon DEF Eq
<1> HIDE DEF One
<1> DEFINE N == {c \in Nat : \A s \in SUBSET S : Cardinality(s) = c => iter[s] = h[s]}
<1>7. 0 \in N
  <2>1. ASSUME NEW s \in SUBSET S, Cardinality(s) = 0
        PROVE  s = {}
    <3>1. IsFiniteSet(s)
      BY FS_Subset
    <3> QED
      BY <2>1, <3>1, FS_EmptySet
  <2> QED
    BY <1>5, <1>6, <2>1
<1>8. ASSUME NEW c \in Nat, c \in N
      PROVE  c + 1 \in N
  <2> SUFFICES ASSUME NEW s \in SUBSET S, Cardinality(s) = c + 1
               PROVE  iter[s] = h[s]
    OBVIOUS
  <2>1. IsFiniteSet(s) /\ s # {}
    BY FS_Subset, FS_EmptySet
  <2>2. One(s) \in s
    BY <1>2, <2>1
  <2>3. Cardinality(s \ {One(s)}) = c
    <3>1. Cardinality(s \ {One(s)}) = Cardinality(s) - 1
      BY <2>1, <2>2, FS_RemoveElement, Zenon
    <3> QED
      BY <3>1
  <2>4. s \ {One(s)} \in SUBSET S
    OBVIOUS
  <2>5. iter[s \ {One(s)}] = h[s \ {One(s)}]
    BY <1>8, <2>3, <2>4
  <2> QED
    BY <1>5, <1>6, <2>1, <2>5
<1> HIDE DEF N
<1>9. Cardinality(S) \in N
  BY <1>7, <1>8, Induction, FS_CardinalityType
<1>10. iter[S] = h[S]
  BY <1>9 DEF N
<1> QED
  BY <1>1, <1>10 DEF h

(* Of c numbers, those with more than k numbers up to them are c - k.      *)
LEMMA TheLastOnes ==
  ASSUME NEW n \in Nat, NEW A \in SUBSET (1..n), NEW k \in Nat
  PROVE  LET late == {i \in A : Cardinality({j \in A : j \in 1..i}) > k}
         IN Cardinality(late) = IF Cardinality(A) > k THEN Cardinality(A) - k ELSE 0
<1> DEFINE Upto(l) == {j \in A : j \in 1..l}
           late == {i \in A : Cardinality(Upto(i)) > k}
           Late(l) == {i \in late : i \in 1..l}
           Beyond(l) == IF Cardinality(Upto(l)) > k THEN Cardinality(Upto(l)) - k ELSE 0
           N == {l \in Nat : l <= n => Cardinality(Late(l)) = Beyond(l)}
<1>1. ASSUME NEW l \in Nat
      PROVE  IsFiniteSet(Upto(l)) /\ IsFiniteSet(Late(l)) /\ Cardinality(Upto(l)) \in Nat
  <2>1. IsFiniteSet(1..l)
    BY FS_Interval
  <2>2. Upto(l) \subseteq 1..l /\ Late(l) \subseteq 1..l
    OBVIOUS
  <2> QED
    BY <2>1, <2>2, FS_Subset, FS_CardinalityType
<1>2. 0 \in N
  <2>1. Upto(0) = {} /\ Late(0) = {}
    OBVIOUS
  <2>2. Beyond(0) = 0 /\ Cardinality(Late(0)) = 0
    BY <2>1, FS_EmptySet
  <2> QED
    BY <2>2
<1>3. ASSUME NEW l \in Nat, l \in N
      PROVE  l + 1 \in N
  <2> SUFFICES ASSUME l + 1 <= n
               PROVE  Cardinality(Late(l + 1)) = Beyond(l + 1)
    OBVIOUS
  <2>0. Cardinality(Late(l)) = Beyond(l) /\ l + 1 \in 1..n
    BY <1>3
  <2>1. \A j : j \in 1..l + 1 <=> j \in 1..l \/ j = l + 1
    OBVIOUS
  <2>2. CASE l + 1 \notin A
    <3> HIDE DEF late
    <3>1. Upto(l + 1) = Upto(l)
      BY <2>1, <2>2, Zenon
    <3>2. Late(l + 1) = Late(l)
      BY <2>1, <2>2, Zenon DEF late
    <3> QED
      BY <2>0, <3>1, <3>2
  <2>3. CASE l + 1 \in A
    <3>0. ~(l + 1 \in 1..l)
      OBVIOUS
    <3>1. Upto(l + 1) = Upto(l) \union {l + 1} /\ l + 1 \notin Upto(l)
      BY <2>1, <2>3, <3>0, Zenon
    <3>2. Cardinality(Upto(l + 1)) = Cardinality(Upto(l)) + 1
      BY <1>1, <3>1, FS_AddElement
    <3>3. l + 1 \in late <=> Cardinality(Upto(l + 1)) > k
      BY <2>3
    <3>4. l + 1 \notin Late(l) /\ Late(l + 1) = IF l + 1 \in late THEN Late(l) \union {l + 1} ELSE Late(l)
      <4>1. ~(l + 1 \in 1..l)
        OBVIOUS
      <4> HIDE DEF late
      <4> QED
        BY <2>1, <4>1, Zenon
    <3>5. Cardinality(Late(l) \union {l + 1}) = Cardinality(Late(l)) + 1
      BY <1>1, <3>4, FS_AddElement
    <3> HIDE DEF Upto, Late, late
    <3> QED
      BY <1>1, <2>0, <3>2, <3>3, <3>4, <3>5
  <2> QED
    BY <2>2, <2>3
<1> HIDE DEF N
<1>4. n \in N
  BY <1>2, <1>3, Induction
<1>5. Upto(n) = A /\ Late(n) = late
  OBVIOUS
<1>6. Cardinality(Late(n)) = Beyond(n)
  BY <1>4 DEF N
<1> HIDE DEF late
<1>7. Cardinality(late) = IF Cardinality(A) > k THEN Cardinality(A) - k ELSE 0
  BY <1>5, <1>6
<1>8. late = {i \in A : Cardinality({j \in A : j \in 1..i}) > k}
  BY Zenon DEF late
<1> QED
  BY <1>7, <1>8, Zenon

-----------------------------------------------------------------------------
(* Only the active layer has marks, unless some have leaked: these may be  *)
(* anywhere that was drawn on.                                             *)
OthersAreEmpty == ~leaked => \A l \in Layers \ {active} : screen[l] = NoMarks

(* Layers that are not drawn on yet, or never.                             *)
UnusedAreEmpty ==
  /\ style = VimSemantic =>
       active < nextId /\ \A l \in Layers : l >= nextId => screen[l] = NoMarks
  /\ style # VimSemantic => active \in {0, 1}
  /\ ~Semantic => \A l \in Layers \ {0, 1} : screen[l] = NoMarks

(* What was wanted is on the active layer, and recorded.                   *)
ActiveIsWanted == ~leaked => screen[active] = wanted /\ record = Recorded(wanted)

RInv == RenderersTypeOK /\ OthersAreEmpty /\ UnusedAreEmpty /\ ActiveIsWanted

LEMMA LayersFacts ==
  /\ IsFiniteSet(Layers) /\ 0 \in Layers /\ 1 \in Layers /\ Layers \subseteq Nat
  /\ NoMarks \in MarkCounts
<1>1. 0..MaxIds = 0..MaxIds /\ IsFiniteSet(0..MaxIds)
  BY IdsAssumption, FS_Interval
<1> QED
  BY <1>1, IdsAssumption DEF Layers, NoMarks, MarkCounts

LEMMA TallyCounts ==
  ASSUME NEW batch \in Seq(Marks), NEW some \in SUBSET (DOMAIN batch)
  PROVE  /\ Tally(batch, some) \in MarkCounts
         /\ some = {} => Tally(batch, some) = NoMarks
         /\ \A k \in Marks : Tally(batch, some)[k] > 0 => \E i \in some : batch[i] = k
         /\ \A i \in some : Tally(batch, some)[batch[i]] > 0
         /\ IsFiniteSet(some)
<1>1. DOMAIN batch = 1..Len(batch) /\ Len(batch) \in Nat
  OBVIOUS
<1>2. IsFiniteSet(DOMAIN batch)
  BY <1>1, FS_Interval
<1>3. \A chosen \in SUBSET (DOMAIN batch) : IsFiniteSet(chosen) /\ Cardinality(chosen) \in Nat
  BY <1>2, FS_Subset, FS_CardinalityType
<1>4. \A k : {i \in some : batch[i] = k} \in SUBSET (DOMAIN batch)
  OBVIOUS
<1>5. \A chosen \in SUBSET (DOMAIN batch) : Cardinality(chosen) > 0 <=> chosen # {}
  <2>1. \A chosen \in SUBSET (DOMAIN batch) : Cardinality(chosen) = 0 <=> chosen = {}
    BY <1>3, FS_EmptySet
  <2> QED
    BY <1>3, <2>1
<1>6. \A k \in Marks : Tally(batch, some)[k] = Cardinality({i \in some : batch[i] = k})
  BY DEF Tally
<1>7. Tally(batch, some) \in MarkCounts
  BY <1>3, <1>4 DEF Tally, MarkCounts
<1>8. some = {} => Tally(batch, some) = NoMarks
  <2> SUFFICES ASSUME some = {}
               PROVE  [k \in Marks |-> Cardinality({i \in some : batch[i] = k})] = [k \in Marks |-> 0]
    BY Zenon DEF Tally, NoMarks
  <2>1. \A k : {i \in some : batch[i] = k} = {}
    OBVIOUS
  <2>2. Cardinality({}) = 0
    BY FS_EmptySet
  <2> QED
    BY <2>1, <2>2
<1>9. ASSUME NEW k \in Marks, Tally(batch, some)[k] > 0
      PROVE  \E i \in some : batch[i] = k
  BY <1>4, <1>5, <1>6, <1>9
<1>10. ASSUME NEW i \in some
       PROVE  Tally(batch, some)[batch[i]] > 0
  <2>1. batch[i] \in Marks
    BY <1>1
  <2>2. {j \in some : batch[j] = batch[i]} # {}
    OBVIOUS
  <2> QED
    BY <1>4, <1>5, <1>6, <2>1, <2>2
<1> QED
  BY <1>3, <1>7, <1>8, <1>9, <1>10

(* What counts as shown where only one layer has marks.                    *)
LEMMA ShownOnOneLayer ==
  ASSUME RenderersTypeOK, \A l \in Layers \ {active} : screen[l] = NoMarks
  PROVE  MarksShown = screen[active]
<1>1. active \in Layers /\ screen[active] \in [Marks -> Nat]
  BY DEF RenderersTypeOK, MarkCounts
<1>2. ASSUME NEW k \in Marks
      PROVE  ShownOn(screen, Layers, k) = screen[active][k]
  <2>1. \A l \in Layers : screen[l][k] \in Nat /\ (l # active => screen[l][k] = 0)
    BY DEF RenderersTypeOK, MarkCounts, NoMarks
  <2>2. IsFiniteSet(Layers) /\ active \in Layers
    BY <1>1, LayersFacts
  <2> QED
    BY <2>1, <2>2, SumOfOne
<1>3. MarksShown = [k \in Marks |-> ShownOn(screen, Layers, k)]
  BY Zenon DEF MarksShown, ShownOn
<1> QED
  BY <1>1, <1>2, <1>3

LEMMA SumsOfMarks ==
  ASSUME NEW u \in MarkCounts, NEW v \in MarkCounts
  PROVE  /\ WithMarks(u, v) \in MarkCounts /\ MostMarks(u, v) \in MarkCounts
         /\ Recorded(u) \in MarkCounts
         /\ WithMarks(NoMarks, v) = v /\ WithMarks(u, NoMarks) = u
<1>1. \A k \in Marks : u[k] \in Nat /\ v[k] \in Nat
  BY DEF MarkCounts
<1>2. WithMarks(u, v) \in MarkCounts
  BY <1>1 DEF WithMarks, MarkCounts
<1>3. MostMarks(u, v) \in MarkCounts
  BY <1>1 DEF MostMarks, MarkCounts
<1>4. Recorded(u) \in MarkCounts
  BY <1>1 DEF Recorded, MarkCounts
<1>5. WithMarks(NoMarks, v) = v
  BY <1>1 DEF WithMarks, MarkCounts, NoMarks
<1>6. WithMarks(u, NoMarks) = u
  BY <1>1 DEF WithMarks, MarkCounts, NoMarks
<1> QED
  BY <1>2, <1>3, <1>4, <1>5, <1>6

LEMMA RendererTypes ==
  ASSUME RInv
  PROVE  /\ style \in Styles /\ style \in {VimSemantic, NeovimSemantic, VimVirtual, NeovimVirtual}
         /\ screen \in [Layers -> MarkCounts] /\ active \in Layers /\ active \in Nat
         /\ nextId \in 1..MaxIds /\ nextId \in Nat /\ record \in MarkCounts /\ wanted \in MarkCounts
         /\ fresh \in BOOLEAN /\ leaked \in BOOLEAN /\ faults \in 0..MaxFaults
         /\ faults < MaxFaults => faults + 1 \in 0..MaxFaults
         /\ MaxIds \in Nat
  BY StylesAssumption, IdsAssumption, LayersFacts DEF RInv, RenderersTypeOK

(* The next layer is not the active one.                                   *)
LEMMA NextLayerIsAnother ==
  ASSUME RInv, IdsAfter <= MaxIds
  PROVE  /\ NextLayer \in Layers /\ NextLayer # active /\ IdsAfter \in 1..MaxIds
         /\ style # VimSemantic => NextLayer \in {0, 1} /\ active \in {0, 1} /\ IdsAfter = nextId
         /\ style = VimSemantic => NextLayer = nextId /\ IdsAfter = nextId + 1
<1>1. CASE style = VimSemantic
  <2>1. active < nextId /\ nextId \in 0..MaxIds /\ nextId + 1 \in 1..MaxIds
    BY <1>1, RendererTypes DEF IdsAfter, RInv, UnusedAreEmpty
  <2> QED
    BY <1>1, <2>1, RendererTypes DEF NextLayer, IdsAfter, Layers
<1>2. CASE style # VimSemantic
  <2>1. active \in {0, 1}
    BY <1>2 DEF RInv, UnusedAreEmpty
  <2> QED
    BY <1>2, <2>1, RendererTypes, LayersFacts DEF NextLayer, IdsAfter
<1> QED
  BY <1>1, <1>2

LEMMA SupportedTypes ==
  ASSUME NEW batch \in Batches
  PROVE  /\ batch \in Seq(Marks) /\ Supported(batch) \in SUBSET (DOMAIN batch)
         /\ Unseen(batch) \in SUBSET (DOMAIN batch) /\ Unseen(batch) \subseteq Supported(batch)
  BY BatchesAssumption DEF Supported, Unseen

LEMMA SnapshotHolds ==
  ASSUME RInv, NEW batch \in Batches, RenderSnapshot(batch)
  PROVE  RInv'
<1> DEFINE drawn == Tally(batch, Supported(batch))
           new == NextLayer
<1>1. /\ nextId' = IdsAfter /\ nextId' <= MaxIds
      /\ screen' = [screen EXCEPT ![new] = WithMarks(BaseLayer(new), drawn), ![active] = NoMarks]
      /\ active' = new /\ record' = Recorded(drawn) /\ wanted' = drawn
      /\ fresh' = FALSE /\ leaked' = (Semantic /\ leaked)
      /\ style' = style /\ faults' = faults
  BY Zenon DEF RenderSnapshot
<1>2. drawn \in MarkCounts
  BY SupportedTypes, TallyCounts
<1> HIDE DEF drawn
<1>3. /\ new \in Layers /\ new # active /\ nextId' \in 1..MaxIds
      /\ style # VimSemantic => new \in {0, 1} /\ active \in {0, 1} /\ nextId' = nextId
      /\ style = VimSemantic => new = nextId /\ nextId' = nextId + 1
  BY <1>1, NextLayerIsAnother, Zenon
<1> HIDE DEF new
<1>4. BaseLayer(new) \in MarkCounts /\ WithMarks(BaseLayer(new), drawn) \in MarkCounts
  <2>1. BaseLayer(new) \in MarkCounts
    BY <1>3, RendererTypes, LayersFacts DEF BaseLayer
  <2> QED
    BY <1>2, <2>1, SumsOfMarks
<1>5. /\ screen' \in [Layers -> MarkCounts]
      /\ screen'[new] = WithMarks(BaseLayer(new), drawn) /\ screen'[active] = NoMarks
      /\ \A l \in Layers : l # new /\ l # active => screen'[l] = screen[l]
  BY <1>1, <1>3, <1>4, RendererTypes, LayersFacts
<1>6. Recorded(drawn) \in MarkCounts
  BY <1>2, SumsOfMarks
<1>7. RenderersTypeOK'
  BY <1>1, <1>2, <1>3, <1>5, <1>6, RendererTypes DEF RenderersTypeOK
<1>8. Semantic' = Semantic
  BY <1>1 DEF Semantic
<1>9. OthersAreEmpty'
  <2> SUFFICES ASSUME ~leaked', NEW l \in Layers, l # new, l # active
               PROVE  screen[l] = NoMarks
    BY <1>1, <1>5 DEF OthersAreEmpty, Layers
  <2>1. CASE Semantic
    BY <1>1, <2>1 DEF RInv, OthersAreEmpty
  <2>2. CASE ~Semantic
    <3>1. new \in {0, 1} /\ active \in {0, 1} /\ l \notin {0, 1}
      BY <1>3, <2>2 DEF Semantic
    <3> QED
      BY <2>2, <3>1 DEF RInv, UnusedAreEmpty
  <2> QED
    BY <2>1, <2>2
<1>10. UnusedAreEmpty'
  <2>1. ASSUME style = VimSemantic
        PROVE  active' < nextId' /\ \A l \in Layers : l >= nextId' => screen'[l] = NoMarks
    <3>1. active < nextId /\ \A l \in Layers : l >= nextId => screen[l] = NoMarks
      BY <2>1 DEF RInv, UnusedAreEmpty
    <3>2. \A l \in Layers : l \in Nat
      BY LayersFacts
    <3> QED
      BY <1>1, <1>3, <1>5, <2>1, <3>1, <3>2, RendererTypes
  <2>2. ASSUME ~Semantic, NEW l \in Layers \ {0, 1}
        PROVE  screen'[l] = NoMarks
    <3>1. new \in {0, 1} /\ active \in {0, 1} /\ screen[l] = NoMarks
      BY <1>3, <2>2 DEF Semantic, RInv, UnusedAreEmpty
    <3> QED
      BY <1>5, <2>2, <3>1
  <2> QED
    BY <1>1, <1>3, <1>8, <2>1, <2>2 DEF UnusedAreEmpty, Layers
<1>11. ActiveIsWanted'
  <2> SUFFICES ASSUME ~leaked'
               PROVE  screen'[new] = drawn
    BY <1>1, <1>8 DEF ActiveIsWanted, Recorded
  <2>1. BaseLayer(new) = NoMarks
    BY <1>1, <1>3 DEF BaseLayer, RInv, OthersAreEmpty
  <2> QED
    BY <1>2, <1>5, <2>1, SumsOfMarks
<1> QED
  BY <1>7, <1>9, <1>10, <1>11 DEF RInv

LEMMA FailedSnapshotHolds ==
  ASSUME RInv, NEW batch \in Batches, FailSnapshot(batch)
  PROVE  RInv'
<1> DEFINE new == NextLayer
<1>1. /\ faults < MaxFaults /\ faults' = faults + 1
      /\ nextId' = IdsAfter /\ nextId' <= MaxIds
      /\ screen' = [screen EXCEPT ![new] = NoMarks]
      /\ style' = style /\ active' = active /\ record' = record /\ fresh' = fresh
      /\ wanted' = wanted /\ leaked' = leaked
  BY Zenon DEF FailSnapshot, FailedSnapshotErased, ErasedLayer
<1>2. /\ new \in Layers /\ new # active /\ nextId' \in 1..MaxIds
      /\ style # VimSemantic => nextId' = nextId
      /\ style = VimSemantic => new = nextId /\ nextId' = nextId + 1
  BY <1>1, NextLayerIsAnother, Zenon
<1> HIDE DEF new
<1>3. /\ screen' \in [Layers -> MarkCounts] /\ screen'[new] = NoMarks
      /\ \A l \in Layers : l # new => screen'[l] = screen[l]
  BY <1>1, <1>2, RendererTypes, LayersFacts
<1>4. RenderersTypeOK'
  BY <1>1, <1>2, <1>3, RendererTypes DEF RenderersTypeOK
<1>5. OthersAreEmpty' /\ ActiveIsWanted'
  BY <1>1, <1>2, <1>3, RendererTypes
  DEF RInv, OthersAreEmpty, ActiveIsWanted, Layers, Recorded, Semantic
<1>6. UnusedAreEmpty'
  <2>1. ASSUME style = VimSemantic
        PROVE  active' < nextId' /\ \A l \in Layers : l >= nextId' => screen'[l] = NoMarks
    <3>1. active < nextId /\ \A l \in Layers : l >= nextId => screen[l] = NoMarks
      BY <2>1 DEF RInv, UnusedAreEmpty
    <3>2. \A l \in Layers : l \in Nat
      BY LayersFacts
    <3> QED
      BY <1>1, <1>2, <1>3, <2>1, <3>1, <3>2, RendererTypes
  <2> QED
    BY <1>1, <1>2, <1>3, <2>1 DEF RInv, UnusedAreEmpty, Layers, Semantic
<1> QED
  BY <1>4, <1>5, <1>6 DEF RInv

(* What an addition does to the layers.                                    *)
LEMMA AdditionHolds ==
  ASSUME RInv, NEW added \in MarkCounts,
         screen' = [screen EXCEPT ![active] = WithMarks(screen[active], added)],
         style' = style, active' = active, nextId' = nextId, leaked => leaked'
  PROVE  /\ screen' \in [Layers -> MarkCounts] /\ OthersAreEmpty' /\ UnusedAreEmpty'
         /\ screen'[active] = WithMarks(screen[active], added)
<1>1. WithMarks(screen[active], added) \in MarkCounts
  BY RendererTypes, SumsOfMarks
<1>2. /\ screen' \in [Layers -> MarkCounts]
      /\ screen'[active] = WithMarks(screen[active], added)
      /\ \A l \in Layers : l # active => screen'[l] = screen[l]
  BY <1>1, RendererTypes
<1>3. OthersAreEmpty'
  BY <1>2 DEF RInv, OthersAreEmpty, Layers
<1>4. UnusedAreEmpty'
  <2>1. ASSUME style = VimSemantic
        PROVE  active' < nextId' /\ \A l \in Layers : l >= nextId' => screen'[l] = NoMarks
    <3>1. active < nextId /\ \A l \in Layers : l >= nextId => screen[l] = NoMarks
      BY <2>1 DEF RInv, UnusedAreEmpty
    <3> QED
      BY <1>2, <3>1, RendererTypes
  <2>2. ASSUME ~Semantic, NEW l \in Layers \ {0, 1}
        PROVE  screen'[l] = NoMarks
    <3>1. active \in {0, 1} /\ screen[l] = NoMarks
      BY <2>2 DEF RInv, UnusedAreEmpty, Semantic
    <3> QED
      BY <1>2, <2>2, <3>1
  <2>3. style # VimSemantic => active' \in {0, 1}
    BY DEF RInv, UnusedAreEmpty
  <2> QED
    BY <2>1, <2>2, <2>3 DEF UnusedAreEmpty, Layers, Semantic
<1> QED
  BY <1>2, <1>3, <1>4

(* Of a decoration that occurs more often than recorded, the difference is *)
(* drawn.                                                                  *)
LEMMA UnseenIsTheDifference ==
  ASSUME NEW batch \in Batches, record \in MarkCounts, ~Semantic, NEW k \in Marks
  PROVE  LET all == Tally(batch, Supported(batch))
         IN Tally(batch, Unseen(batch))[k] = IF all[k] > record[k] THEN all[k] - record[k] ELSE 0
<1> DEFINE n == Len(batch)
           A == {i \in DOMAIN batch : batch[i] = k}
           late == {i \in A : Cardinality({j \in A : j \in 1..i}) > record[k]}
<1>1. batch \in Seq(Marks) /\ DOMAIN batch = 1..n /\ n \in Nat /\ record[k] \in Nat
  BY SupportedTypes DEF MarkCounts
<1>2. A \in SUBSET (1..n)
  BY <1>1
<1>3. Cardinality(late) = IF Cardinality(A) > record[k] THEN Cardinality(A) - record[k] ELSE 0
  <2> HIDE DEF A, n
  <2> QED
    BY <1>1, <1>2, TheLastOnes
<1>4. Tally(batch, Supported(batch))[k] = Cardinality(A)
  <2>1. Supported(batch) = DOMAIN batch
    BY DEF Supported
  <2> QED
    BY <2>1 DEF Tally
<1>5. ASSUME NEW i \in A
      PROVE  {j \in 1..i : batch[j] = k} = {j \in A : j \in 1..i}
  BY <1>1
<1>6. ASSUME NEW i \in A
      PROVE  Tally(batch, 1..i)[batch[i]] = Cardinality({j \in A : j \in 1..i})
  <2>1. Tally(batch, 1..i)[k] = Cardinality({j \in 1..i : batch[j] = k})
    BY DEF Tally
  <2> QED
    BY <1>5, <2>1
<1>7. {i \in Unseen(batch) : batch[i] = k} = late
  <2>1. Unseen(batch) = {i \in DOMAIN batch : Tally(batch, 1..i)[batch[i]] > record[batch[i]]}
    BY Zenon DEF Unseen
  <2> HIDE DEF late
  <2>2. \A i : i \in late <=> i \in A /\ Cardinality({j \in A : j \in 1..i}) > record[k]
    BY Zenon DEF late
  <2>3. ASSUME NEW i \in A
        PROVE  i \in late <=> i \in Unseen(batch)
    BY <1>6, <2>1, <2>2
  <2>4. \A i \in late : i \in A
    BY <2>2
  <2>5. \A i \in Unseen(batch) : batch[i] = k => i \in A
    BY <2>1
  <2> QED
    BY <2>3, <2>4, <2>5
<1>8. Tally(batch, Unseen(batch))[k] = Cardinality({i \in Unseen(batch) : batch[i] = k})
  BY DEF Tally
<1> HIDE DEF A, late
<1> QED
  BY <1>3, <1>4, <1>7, <1>8

LEMMA UnseenHolds ==
  ASSUME RInv, NEW batch \in Batches, RenderUnseen(batch)
  PROVE  RInv'
<1> DEFINE added == Tally(batch, Unseen(batch))
           all == Tally(batch, Supported(batch))
<1>1. /\ screen' = [screen EXCEPT ![active] = WithMarks(screen[active], added)]
      /\ record' = [k \in Marks |-> IF added[k] > 0 THEN Recorded(all)[k] ELSE record[k]]
      /\ wanted' = IF Semantic THEN WithMarks(wanted, added) ELSE MostMarks(wanted, all)
      /\ style' = style /\ active' = active /\ nextId' = nextId
      /\ fresh' = fresh /\ leaked' = leaked /\ faults' = faults
  BY Zenon DEF RenderUnseen
<1>2. /\ added \in MarkCounts /\ all \in MarkCounts /\ Recorded(all) \in MarkCounts
  BY SupportedTypes, TallyCounts, SumsOfMarks
<1>3. ASSUME NEW k \in Marks, added[k] > 0
      PROVE  all[k] > 0
  <2>1. PICK i \in Unseen(batch) : batch[i] = k
    BY <1>3, SupportedTypes, TallyCounts
  <2> QED
    BY <2>1, SupportedTypes, TallyCounts
<1>4. ~Semantic => \A k \in Marks : added[k] = IF all[k] > record[k] THEN all[k] - record[k] ELSE 0
  BY RendererTypes, UnseenIsTheDifference
<1> HIDE DEF added, all
<1>5. /\ screen' \in [Layers -> MarkCounts] /\ OthersAreEmpty' /\ UnusedAreEmpty'
      /\ screen'[active] = WithMarks(screen[active], added)
  BY <1>1, <1>2, AdditionHolds
<1>6. \A k \in Marks :
        added[k] \in Nat /\ all[k] \in Nat /\ record[k] \in Nat /\ wanted[k] \in Nat
        /\ Recorded(all)[k] \in Nat
  BY <1>2, RendererTypes DEF MarkCounts
<1>7. record' \in MarkCounts
  BY <1>1, <1>6 DEF MarkCounts
<1>8. wanted' \in MarkCounts
  BY <1>1, <1>2, RendererTypes, SumsOfMarks
<1>9. RenderersTypeOK'
  BY <1>1, <1>5, <1>7, <1>8, RendererTypes DEF RenderersTypeOK
<1>10. ActiveIsWanted'
  <2> SUFFICES ASSUME ~leaked
               PROVE  WithMarks(screen[active], added) = wanted' /\ record' = Recorded(wanted')
    BY <1>1, <1>5 DEF ActiveIsWanted, Recorded, Semantic
  <2>1. screen[active] = wanted /\ record = Recorded(wanted)
    BY DEF RInv, ActiveIsWanted
  <2>2. CASE Semantic
    <3>1. wanted' = WithMarks(wanted, added)
      BY <1>1, <2>2
    <3>2. ASSUME NEW k \in Marks
          PROVE  record'[k] = IF wanted'[k] > 0 THEN 1 ELSE 0
      <4>1. wanted'[k] = wanted[k] + added[k]
        BY <3>1 DEF WithMarks
      <4>2. record[k] = IF wanted[k] > 0 THEN 1 ELSE 0
        BY <2>1, <2>2 DEF Recorded
      <4>3. Recorded(all)[k] = IF all[k] > 0 THEN 1 ELSE 0
        BY <2>2 DEF Recorded
      <4>4. record'[k] = IF added[k] > 0 THEN Recorded(all)[k] ELSE record[k]
        BY <1>1
      <4> QED
        BY <1>3, <1>6, <4>1, <4>2, <4>3, <4>4
    <3>3. record' = [k \in Marks |-> IF wanted'[k] > 0 THEN 1 ELSE 0]
      BY <1>7, <3>2 DEF MarkCounts
    <3> QED
      BY <2>1, <2>2, <3>1, <3>3 DEF Recorded
  <2>3. CASE ~Semantic
    <3>1. wanted' = MostMarks(wanted, all) /\ record = wanted
      BY <1>1, <2>1, <2>3 DEF Recorded
    <3>2. ASSUME NEW k \in Marks
          PROVE  /\ record'[k] = wanted'[k]
                 /\ WithMarks(wanted, added)[k] = wanted'[k]
      <4>1. wanted'[k] = IF wanted[k] < all[k] THEN all[k] ELSE wanted[k]
        BY <3>1 DEF MostMarks
      <4>2. record'[k] = IF added[k] > 0 THEN all[k] ELSE wanted[k]
        BY <1>1, <2>3, <3>1 DEF Recorded
      <4>3. added[k] = IF all[k] > wanted[k] THEN all[k] - wanted[k] ELSE 0
        BY <1>4, <2>3, <3>1
      <4>4. WithMarks(wanted, added)[k] = wanted[k] + added[k]
        BY DEF WithMarks
      <4> QED
        BY <1>6, <4>1, <4>2, <4>3, <4>4
    <3>3. record' = wanted'
      BY <1>7, <1>8, <3>2 DEF MarkCounts
    <3>4. WithMarks(wanted, added) \in MarkCounts
      BY <1>2, RendererTypes, SumsOfMarks
    <3>5. WithMarks(wanted, added) = wanted'
      BY <1>8, <3>2, <3>4 DEF MarkCounts
    <3> QED
      BY <2>1, <2>3, <3>3, <3>5 DEF Recorded
  <2> QED
    BY <2>2, <2>3
<1> QED
  BY <1>5, <1>9, <1>10 DEF RInv

LEMMA FailedUnseenHolds ==
  ASSUME RInv, NEW batch \in Batches, FailUnseen(batch)
  PROVE  RInv'
<1>1. PICK i \in Unseen(batch) :
        LET before == {j \in Unseen(batch) : j < i}
            some == Tally(batch, before)
        IN
        /\ screen' = IF style \in {NeovimSemantic, NeovimVirtual} THEN screen
                     ELSE [screen EXCEPT ![active] = WithMarks(screen[active], some)]
        /\ record' = IF style = VimSemantic THEN MostMarks(record, Recorded(some)) ELSE record
        /\ wanted' = IF style = VimSemantic THEN WithMarks(wanted, some) ELSE wanted
        /\ leaked' = (leaked \/ (style = VimVirtual /\ before # {}))
  BY Zenon DEF FailUnseen
<1> DEFINE before == {j \in Unseen(batch) : j < i}
           some == Tally(batch, before)
<1>2. /\ screen' = IF style \in {NeovimSemantic, NeovimVirtual} THEN screen
                   ELSE [screen EXCEPT ![active] = WithMarks(screen[active], some)]
      /\ record' = IF style = VimSemantic THEN MostMarks(record, Recorded(some)) ELSE record
      /\ wanted' = IF style = VimSemantic THEN WithMarks(wanted, some) ELSE wanted
      /\ leaked' = (leaked \/ (style = VimVirtual /\ before # {}))
  BY <1>1
<1>3. /\ faults < MaxFaults /\ faults' = faults + 1
      /\ style' = style /\ active' = active /\ nextId' = nextId /\ fresh' = fresh
  BY DEF FailUnseen
<1>4. before \in SUBSET (DOMAIN batch) /\ batch \in Seq(Marks)
  BY SupportedTypes
<1> HIDE DEF before
<1>5. some \in MarkCounts /\ (before = {} => some = NoMarks)
  BY <1>4, TallyCounts
<1> HIDE DEF some
<1>6. Recorded(some) \in MarkCounts
  BY <1>5, SumsOfMarks
<1>7. MostMarks(record, Recorded(some)) \in MarkCounts /\ WithMarks(wanted, some) \in MarkCounts
  BY <1>5, <1>6, RendererTypes, SumsOfMarks
<1>8. record' \in MarkCounts /\ wanted' \in MarkCounts /\ leaked' \in BOOLEAN
  BY <1>2, <1>7, RendererTypes
<1>9. /\ screen' \in [Layers -> MarkCounts] /\ OthersAreEmpty' /\ UnusedAreEmpty'
      /\ screen'[active] = IF style \in {NeovimSemantic, NeovimVirtual} THEN screen[active]
                           ELSE WithMarks(screen[active], some)
  <2>1. CASE style \in {NeovimSemantic, NeovimVirtual}
    <3>1. screen' = screen
      BY <1>2, <2>1
    <3>2. leaked => leaked'
      BY <1>2
    <3>3. OthersAreEmpty' /\ UnusedAreEmpty'
      BY <1>3, <3>1, <3>2 DEF RInv, OthersAreEmpty, UnusedAreEmpty, Layers, Semantic
    <3> QED
      BY <2>1, <3>1, <3>3, RendererTypes
  <2>2. CASE style \notin {NeovimSemantic, NeovimVirtual}
    <3>1. screen' = [screen EXCEPT ![active] = WithMarks(screen[active], some)]
      BY <1>2, <2>2
    <3>2. leaked => leaked'
      BY <1>2
    <3> QED
      BY <1>3, <1>5, <2>2, <3>1, <3>2, AdditionHolds
  <2> QED
    BY <2>1, <2>2
<1>10. RenderersTypeOK'
  BY <1>3, <1>8, <1>9, RendererTypes DEF RenderersTypeOK
<1>11. ActiveIsWanted'
  <2> SUFFICES ASSUME ~leaked'
               PROVE  screen'[active] = wanted' /\ record' = Recorded(wanted')
    BY <1>3 DEF ActiveIsWanted, Recorded, Semantic
  <2>1. screen[active] = wanted /\ record = Recorded(wanted)
    BY <1>2 DEF RInv, ActiveIsWanted
  <2>2. CASE style \in {NeovimSemantic, NeovimVirtual}
    <3>1. style # VimSemantic
      BY <2>2 DEF VimSemantic, NeovimSemantic, NeovimVirtual
    <3> QED
      BY <1>2, <1>9, <2>1, <2>2, <3>1
  <2>3. CASE style = VimSemantic
    <3>1. /\ style \notin {NeovimSemantic, NeovimVirtual} /\ Semantic
      BY <2>3 DEF VimSemantic, NeovimSemantic, NeovimVirtual, Semantic
    <3>2. /\ wanted' = WithMarks(wanted, some) /\ screen'[active] = WithMarks(wanted, some)
          /\ record' = MostMarks(record, Recorded(some))
      BY <1>2, <1>9, <2>1, <2>3, <3>1
    <3>3. ASSUME NEW k \in Marks
          PROVE  record'[k] = IF wanted'[k] > 0 THEN 1 ELSE 0
      <4>1. wanted'[k] = wanted[k] + some[k] /\ wanted[k] \in Nat /\ some[k] \in Nat
        BY <1>5, <3>2, RendererTypes DEF WithMarks, MarkCounts
      <4>2. record[k] = IF wanted[k] > 0 THEN 1 ELSE 0
        BY <2>1, <3>1 DEF Recorded
      <4>3. Recorded(some)[k] = IF some[k] > 0 THEN 1 ELSE 0
        BY <3>1 DEF Recorded
      <4>4. record'[k] = IF record[k] < Recorded(some)[k] THEN Recorded(some)[k] ELSE record[k]
        BY <3>2 DEF MostMarks
      <4> QED
        BY <4>1, <4>2, <4>3, <4>4
    <3>4. record' = [k \in Marks |-> IF wanted'[k] > 0 THEN 1 ELSE 0]
      BY <1>8, <3>3 DEF MarkCounts
    <3> QED
      BY <3>1, <3>2, <3>4 DEF Recorded
  <2>4. CASE style = VimVirtual
    <3>1. style \notin {NeovimSemantic, NeovimVirtual} /\ style # VimSemantic
      BY <2>4 DEF VimSemantic, NeovimSemantic, NeovimVirtual, VimVirtual
    <3>2. some = NoMarks
      BY <1>2, <1>5, <2>4
    <3>3. screen'[active] = wanted
      BY <1>9, <2>1, <3>1, <3>2, RendererTypes, SumsOfMarks
    <3> QED
      BY <1>2, <2>1, <3>1, <3>3
  <2> QED
    BY <2>2, <2>3, <2>4, RendererTypes
<1> QED
  BY <1>9, <1>10, <1>11 DEF RInv

-----------------------------------------------------------------------------
LEMMA VirtualTextCleared ==
  ASSUME RInv, ClearVirtualText
  PROVE  RInv'
<1>1. /\ ~Semantic /\ screen' = [l \in Layers |-> NoMarks]
      /\ record' = NoMarks /\ wanted' = NoMarks /\ leaked' = FALSE
      /\ style' = style /\ active' = active /\ nextId' = nextId
      /\ fresh' = fresh /\ faults' = faults
  BY DEF ClearVirtualText
<1>2. RenderersTypeOK'
  BY <1>1, RendererTypes, LayersFacts DEF RenderersTypeOK
<1>3. OthersAreEmpty' /\ ActiveIsWanted'
  BY <1>1, RendererTypes DEF OthersAreEmpty, ActiveIsWanted, Layers, Recorded, Semantic
<1>4. UnusedAreEmpty'
  BY <1>1, RendererTypes DEF RInv, UnusedAreEmpty, Layers, Semantic
<1> QED
  BY <1>2, <1>3, <1>4 DEF RInv

LEMMA NothingRecorded == Recorded(NoMarks) = NoMarks
BY DEF Recorded, NoMarks

LEMMA RenewHolds ==
  ASSUME RInv, RenewRenderer
  PROVE  RInv'
<1>1. /\ faults < MaxFaults /\ faults' = faults + 1
      /\ nextId' = IdsAfter /\ nextId' <= MaxIds
      /\ active' = IF style = VimSemantic THEN nextId ELSE 0
      /\ record' = NoMarks /\ wanted' = NoMarks /\ fresh' = TRUE
      /\ leaked' = (leaked \/ MarksShown # NoMarks)
      /\ style' = style /\ screen' = screen
  BY DEF RenewRenderer
<1>2. /\ nextId' \in 1..MaxIds /\ NextLayer \in Layers
      /\ style # VimSemantic => nextId' = nextId
      /\ style = VimSemantic => NextLayer = nextId /\ nextId' = nextId + 1
  BY <1>1, NextLayerIsAnother, Zenon
<1>3. active' \in Layers
  BY <1>1, <1>2, LayersFacts
<1>4. RenderersTypeOK'
  BY <1>1, <1>2, <1>3, RendererTypes, LayersFacts DEF RenderersTypeOK
<1>5. ASSUME ~leaked'
      PROVE  \A l \in Layers : screen[l] = NoMarks
  <2>1. ~leaked /\ MarksShown = NoMarks
    BY <1>1, <1>5
  <2>2. \A l \in Layers \ {active} : screen[l] = NoMarks
    BY <2>1 DEF RInv, OthersAreEmpty
  <2>3. MarksShown = screen[active]
    BY <2>2, ShownOnOneLayer DEF RInv
  <2> QED
    BY <2>1, <2>2, <2>3
<1>6. OthersAreEmpty'
  BY <1>1, <1>5 DEF OthersAreEmpty, Layers
<1>7. ActiveIsWanted'
  <2> SUFFICES ASSUME ~leaked'
               PROVE  screen'[active'] = wanted' /\ record' = Recorded(wanted)'
    BY DEF ActiveIsWanted
  <2>1. screen'[active'] = NoMarks
    BY <1>1, <1>3, <1>5
  <2>2. Recorded(wanted)' = NoMarks
    BY <1>1, NothingRecorded DEF Recorded, Semantic
  <2> QED
    BY <1>1, <2>1, <2>2
<1>8. UnusedAreEmpty'
  <2>1. ASSUME style = VimSemantic
        PROVE  active' < nextId' /\ \A l \in Layers : l >= nextId' => screen'[l] = NoMarks
    <3>1. active < nextId /\ \A l \in Layers : l >= nextId => screen[l] = NoMarks
      BY <2>1 DEF RInv, UnusedAreEmpty
    <3>2. \A l \in Layers : l \in Nat
      BY LayersFacts
    <3> QED
      BY <1>1, <1>2, <2>1, <3>1, <3>2, RendererTypes
  <2> QED
    BY <1>1, <1>2, <2>1 DEF RInv, UnusedAreEmpty, Layers, Semantic
<1> QED
  BY <1>4, <1>6, <1>7, <1>8 DEF RInv

LEMMA RenderersInitHolds == InitRenderers => RInv
<1> SUFFICES ASSUME InitRenderers PROVE RInv
  OBVIOUS
<1>1. RenderersTypeOK
  <2>1. nextId \in 1..MaxIds /\ faults \in 0..MaxFaults
    BY IdsAssumption DEF InitRenderers
  <2>2. screen \in [Layers -> MarkCounts]
    BY LayersFacts DEF InitRenderers
  <2> QED
    BY <2>1, <2>2, LayersFacts DEF InitRenderers, RenderersTypeOK
<1>2. OthersAreEmpty /\ UnusedAreEmpty
  BY DEF InitRenderers, OthersAreEmpty, UnusedAreEmpty
<1>3. ActiveIsWanted
  BY NothingRecorded, LayersFacts DEF InitRenderers, ActiveIsWanted
<1> QED
  BY <1>1, <1>2, <1>3 DEF RInv

LEMMA RenderersStepHolds == RInv /\ [NextRenderers]_renderers => RInv'
<1> SUFFICES ASSUME RInv, [NextRenderers]_renderers PROVE RInv'
  OBVIOUS
<1>1. ASSUME NEW batch \in Batches, RenderSnapshot(batch) PROVE RInv'
  BY <1>1, SnapshotHolds
<1>2. ASSUME NEW batch \in Batches, FailSnapshot(batch) PROVE RInv'
  BY <1>2, FailedSnapshotHolds
<1>3. ASSUME NEW batch \in Batches, RenderUnseen(batch) PROVE RInv'
  BY <1>3, UnseenHolds
<1>4. ASSUME NEW batch \in Batches, FailUnseen(batch) PROVE RInv'
  BY <1>4, FailedUnseenHolds
<1>5. CASE ClearVirtualText
  BY <1>5, VirtualTextCleared
<1>6. CASE RenewRenderer
  BY <1>6, RenewHolds
<1>7. CASE UNCHANGED renderers
  <2>1. /\ RenderersTypeOK' = RenderersTypeOK /\ OthersAreEmpty' = OthersAreEmpty
        /\ UnusedAreEmpty' = UnusedAreEmpty /\ ActiveIsWanted' = ActiveIsWanted
    BY <1>7 DEF renderers, RenderersTypeOK, OthersAreEmpty, UnusedAreEmpty, ActiveIsWanted,
       Recorded, Semantic, Layers
  <2> QED
    BY <2>1, Zenon DEF RInv
<1> QED
  BY <1>1, <1>2, <1>3, <1>4, <1>5, <1>6, <1>7, Zenon DEF NextRenderers

LEMMA RInvShowsTheSnapshot == RInv => ScreenIsSnapshot
<1> SUFFICES ASSUME RInv, ~leaked
             PROVE  MarksShown = wanted /\ record = Recorded(MarksShown)
  BY Zenon DEF ScreenIsSnapshot
<1>1. \A l \in Layers \ {active} : screen[l] = NoMarks
  BY DEF RInv, OthersAreEmpty
<1>2. MarksShown = screen[active]
  BY <1>1, ShownOnOneLayer DEF RInv
<1>3. screen[active] = wanted /\ record = Recorded(wanted)
  BY DEF RInv, ActiveIsWanted
<1> QED
  BY <1>2, <1>3

(* Layers, records and what should be shown keep their types.              *)
THEOREM RenderersTypeCorrect == RenderersSpec => []RenderersTypeOK
<1>1. RInv => RenderersTypeOK
  BY DEF RInv
<1> QED
  BY RenderersInitHolds, RenderersStepHolds, <1>1, PTL DEF RenderersSpec

(* semantic_highlighting_renderer.py, virtual_text.py: the screen shows    *)
(* exactly what was rendered last and added since, and the record says so, *)
(* however often drawing failed; unless an addition that failed in Vim, or *)
(* a renderer from before a restart, has left marks.                       *)
THEOREM TheScreenShowsTheSnapshot == RenderersSpec => []ScreenIsSnapshot
BY RenderersInitHolds, RenderersStepHolds, RInvShowsTheSnapshot, PTL DEF RenderersSpec

-----------------------------------------------------------------------------
(***************************************************************************)
(* HierarchyMenu                                                           *)
(***************************************************************************)

Line == [symbol : Symbols, indent : Nat, handle : Int]

HierarchyNode == [symbol : Symbols, distance : Nat, locations : 0..MaxHandlesPerIndex,
                  references : {Unresolved} \union Seq(Nat)]

(* The root of a half tree has one line, and alone no indent; a node refers*)
(* to later ones.                                                          *)
GoodHalf(half) ==
  /\ half \in Seq(HierarchyNode) /\ half # <<>>
  /\ half[1].locations = 1
  /\ \A i \in DOMAIN half : half[i].distance = 0 <=> i = 1
  /\ \A i \in DOMAIN half : half[i].references # Unresolved =>
       Range(half[i].references) \subseteq (i + 1)..Len(half)

(* The parts of LinesOf.                                                   *)
Own(half, d, i) ==
  [l \in 1..half[i].locations |->
     [symbol |-> half[i].symbol, indent |-> 2 * half[i].distance,
      handle |-> Sign(d) * MakeHandle(i - 1, l - 1)]]

ReferredTo(half, g, i) ==
  IF half[i].references = Unresolved THEN <<>>
  ELSE FlattenSeq([j \in DOMAIN half[i].references |-> g[half[i].references[j]]])

Branch(half, d, g, i) == Own(half, d, i) \o ReferredTo(half, g, i)

IsBelow(g, half, d) == g = [i \in DOMAIN half |-> Branch(half, d, g, i)]

Below(half, d) == CHOOSE g : IsBelow(g, half, d)

LEMMA LinesOfIsBelow ==
  ASSUME NEW tree, NEW d
  PROVE  LinesOf(tree, d) = Below(tree[d], d)[1]
BY DEF LinesOf, Below, IsBelow, Branch, ReferredTo, Own

(* The node that a line is of.                                             *)
Of(line) == HandleToIndex(line.handle) + 1

LEMMA Monotone ==
  ASSUME NEW M \in Nat, NEW a \in Int, NEW b \in Int, a <= b
  PROVE  a * M <= b * M
<1>1. b - a \in Nat /\ (b - a) * M = b * M - a * M
  OBVIOUS
<1>2. (b - a) * M \in Nat
  BY <1>1
<1> QED
  BY <1>1, <1>2

LEMMA Division ==
  ASSUME NEW M \in Nat, M # 0, NEW k \in Nat, NEW m \in 0..(M - 1), NEW n, n = k * M + m
  PROVE  n \in Nat /\ n \div M = k /\ (k # 0 => n # 0)
<1>1. k * M \in Nat /\ n \in Nat
  OBVIOUS
<1>2. k # 0 => n # 0
  <2>1. k # 0 => 1 * M <= k * M
    BY Monotone
  <2> QED
    BY <1>1, <2>1
<1>3. PICK q \in Int : q = n \div M /\ q * M <= n /\ n < q * M + M
  BY <1>1
<1>4. (q + 1) * M = q * M + M /\ (k + 1) * M = k * M + M
  OBVIOUS
<1>5. k < q => (k + 1) * M <= q * M
  BY Monotone
<1>6. q < k => (q + 1) * M <= k * M
  BY Monotone
<1> DEFINE kM == k * M
           qM == q * M
<1>7. kM \in Int /\ qM \in Int /\ n = kM + m
  OBVIOUS
<1> HIDE DEF kM, qM
<1>8. (k < q => kM + M <= qM) /\ (q < k => qM + M <= kM) /\ qM <= n /\ n < qM + M
  BY <1>3, <1>4, <1>5, <1>6 DEF kM, qM
<1>9. q = k
  BY <1>7, <1>8
<1> QED
  BY <1>1, <1>2, <1>3, <1>9

LEMMA HandleFacts ==
  ASSUME NEW i \in Nat, i # 0, NEW l \in 1..MaxHandlesPerIndex, NEW d \in Directions,
         NEW h, h = Sign(d) * MakeHandle(i - 1, l - 1)
  PROVE  /\ h \in Int /\ HandleToIndex(h) + 1 = i
         /\ d = "down" => h >= 0
         /\ d = "up" => h <= 0
         /\ i = 1 /\ l = 1 => h = 0
         /\ i # 1 => h # 0
<1>1. MaxHandlesPerIndex \in Nat /\ MaxHandlesPerIndex # 0
  BY HandlesAssumption
<1>2. i - 1 \in Nat /\ l - 1 \in 0..(MaxHandlesPerIndex - 1)
  BY <1>1
<1> DEFINE k == i - 1
           m == l - 1
           n == MakeHandle(k, m)
<1>3. n \in Nat /\ n \div MaxHandlesPerIndex = k /\ n >= 0 /\ (k # 0 => n # 0)
  <2>1. n = k * MaxHandlesPerIndex + m
    BY DEF MakeHandle
  <2> HIDE DEF n, k, m
  <2>2. k \in Nat /\ m \in 0..(MaxHandlesPerIndex - 1)
    BY <1>2 DEF k, m
  <2>3. n \in Nat /\ n \div MaxHandlesPerIndex = k /\ (k # 0 => n # 0)
    BY <1>1, <2>1, <2>2, Division
  <2> QED
    BY <2>3
<1>4. h = IF d = "down" THEN n ELSE -n
  <2>1. h = Sign(d) * n
    BY Zenon
  <2> HIDE DEF n
  <2> QED
    BY <1>3, <2>1 DEF Sign, Directions
<1>5. (IF h < 0 THEN -h ELSE h) = n
  <2> HIDE DEF n
  <2> QED
    BY <1>3, <1>4
<1>6. HandleToIndex(h) = k
  <2>1. HandleToIndex(h) = (IF h < 0 THEN -h ELSE h) \div MaxHandlesPerIndex
    BY DEF HandleToIndex
  <2> HIDE DEF n, k
  <2> QED
    BY <2>1, <1>5, <1>3
<1>7. i = 1 /\ l = 1 => n = 0
  BY <1>1 DEF MakeHandle
<1> HIDE DEF n
<1> QED
  BY <1>3, <1>4, <1>6, <1>7 DEF Directions

LEMMA OwnFacts ==
  ASSUME NEW half, GoodHalf(half), NEW d \in Directions, NEW i \in DOMAIN half
  PROVE  /\ Own(half, d, i) \in Seq(Line) /\ Len(Own(half, d, i)) = half[i].locations
         /\ half[i].locations \in 0..MaxHandlesPerIndex
         /\ \A l \in 1..half[i].locations :
              /\ Own(half, d, i)[l].symbol = half[i].symbol
              /\ Own(half, d, i)[l].indent = 0 <=> i = 1
              /\ Of(Own(half, d, i)[l]) = i
              /\ d = "down" => Own(half, d, i)[l].handle >= 0
              /\ d = "up" => Own(half, d, i)[l].handle <= 0
              /\ Own(half, d, i)[l].handle = 0 <=> i = 1
<1>1. half[i] \in HierarchyNode /\ i \in Nat /\ i # 0 /\ (i = 1 => half[i].locations = 1)
  BY DEF GoodHalf
<1>2. half[i].locations \in 0..MaxHandlesPerIndex /\ half[i].symbol \in Symbols /\ half[i].distance \in Nat
  BY <1>1 DEF HierarchyNode
<1>3. half[i].distance = 0 <=> i = 1
  BY DEF GoodHalf
<1>4. ASSUME NEW l \in 1..half[i].locations
      PROVE  /\ Own(half, d, i)[l].symbol = half[i].symbol
             /\ Own(half, d, i)[l].indent = 2 * half[i].distance
             /\ Own(half, d, i)[l].handle = Sign(d) * MakeHandle(i - 1, l - 1)
             /\ Own(half, d, i)[l] = [symbol |-> half[i].symbol, indent |-> 2 * half[i].distance,
                                      handle |-> Sign(d) * MakeHandle(i - 1, l - 1)]
  BY DEF Own
<1>5. ASSUME NEW l \in 1..half[i].locations
      PROVE  /\ Sign(d) * MakeHandle(i - 1, l - 1) \in Int
             /\ Of(Own(half, d, i)[l]) = i
             /\ d = "down" => Own(half, d, i)[l].handle >= 0
             /\ d = "up" => Own(half, d, i)[l].handle <= 0
             /\ Own(half, d, i)[l].handle = 0 <=> i = 1
  <2> DEFINE h == Sign(d) * MakeHandle(i - 1, l - 1)
  <2>1. l \in 1..MaxHandlesPerIndex /\ (i = 1 => l = 1)
    BY <1>1, <1>2, HandlesAssumption
  <2>2. /\ h \in Int /\ HandleToIndex(h) + 1 = i
        /\ d = "down" => h >= 0
        /\ d = "up" => h <= 0
        /\ i = 1 /\ l = 1 => h = 0
        /\ i # 1 => h # 0
    BY <1>1, <2>1, HandleFacts
  <2>3. Own(half, d, i)[l].handle = h
    BY <1>4
  <2> HIDE DEF h
  <2>4. Of(Own(half, d, i)[l]) = i
    BY <2>2, <2>3 DEF Of
  <2> QED
    BY <2>1, <2>2, <2>3, <2>4 DEF h
<1>6. \A l \in 1..half[i].locations : Own(half, d, i)[l] \in Line
  <2> SUFFICES ASSUME NEW l \in 1..half[i].locations
               PROVE  Own(half, d, i)[l] \in Line
    OBVIOUS
  <2> DEFINE indent == 2 * half[i].distance
             h == Sign(d) * MakeHandle(i - 1, l - 1)
  <2>1. indent \in Nat /\ h \in Int
    BY <1>2, <1>5
  <2>2. Own(half, d, i)[l] = [symbol |-> half[i].symbol, indent |-> indent, handle |-> h]
    BY <1>4, Zenon
  <2> HIDE DEF indent, h
  <2> QED
    BY <2>1, <2>2, <1>2 DEF Line
<1>7. Own(half, d, i) = [l \in 1..half[i].locations |-> Own(half, d, i)[l]]
  BY DEF Own
<1>8. Own(half, d, i) \in Seq(Line) /\ Len(Own(half, d, i)) = half[i].locations
  <2> DEFINE f == Own(half, d, i)
             n == half[i].locations
  <2>0. n \in Nat
    BY <1>2
  <2>1. f = [l \in 1..n |-> f[l]] /\ \A l \in 1..n : f[l] \in Line
    BY <1>6, <1>7, Zenon
  <2> HIDE DEF f, n
  <2>2. f \in Seq(Line) /\ Len(f) = n
    BY <2>0, <2>1
  <2> QED
    BY <2>2 DEF f, n
<1>9. ASSUME NEW l \in 1..half[i].locations
      PROVE  Own(half, d, i)[l].indent = 0 <=> i = 1
  <2>1. half[i].distance \in Nat => (2 * half[i].distance = 0 <=> half[i].distance = 0)
    OBVIOUS
  <2> QED
    BY <2>1, <1>2, <1>3, <1>4
<1>10. \A l \in 1..half[i].locations :
         Own(half, d, i)[l].symbol = half[i].symbol
  BY <1>4
<1> QED
  BY <1>2, <1>5, <1>8, <1>9, <1>10, Zenon

-----------------------------------------------------------------------------
(* The lines of a node and of what it refers to.                           *)
LEMMA BranchOfEqual ==
  ASSUME NEW half, GoodHalf(half), NEW d, NEW i \in DOMAIN half, NEW g1, NEW g2,
         \A j \in (i + 1)..Len(half) : g1[j] = g2[j]
  PROVE  Branch(half, d, g1, i) = Branch(half, d, g2, i)
<1>1. CASE half[i].references = Unresolved
  BY <1>1 DEF Branch, ReferredTo
<1>2. CASE half[i].references # Unresolved
  <2> DEFINE refs == half[i].references
             s1 == [j \in DOMAIN refs |-> g1[refs[j]]]
             s2 == [j \in DOMAIN refs |-> g2[refs[j]]]
  <2>1. \A j \in DOMAIN refs : refs[j] \in (i + 1)..Len(half)
    BY <1>2 DEF GoodHalf, Range
  <2>2. s1 = s2
    BY <2>1
  <2>3. Branch(half, d, g1, i) = Own(half, d, i) \o FlattenSeq(s1)
    BY <1>2, Zenon DEF Branch, ReferredTo
  <2>4. Branch(half, d, g2, i) = Own(half, d, i) \o FlattenSeq(s2)
    BY <1>2, Zenon DEF Branch, ReferredTo
  <2> HIDE DEF s1, s2
  <2> QED
    BY <2>2, <2>3, <2>4
<1> QED
  BY <1>1, <1>2

(* Since a node refers to later ones only, they are well-defined.          *)
LEMMA BelowExists ==
  ASSUME NEW half, GoodHalf(half), NEW d
  PROVE  \E g : IsBelow(g, half, d)
<1> DEFINE n == Len(half)
           P(k) == k <= n => \E g : \A i \in (n - k + 1)..n : g[i] = Branch(half, d, g, i)
           N == {k \in Nat : P(k)}
<1>0. n \in Nat /\ DOMAIN half = 1..n
  BY DEF GoodHalf
<1>1. P(0)
  <2>1. (n - 0 + 1)..n = {}
    BY <1>0
  <2> QED
    BY <2>1
<1>2. ASSUME NEW k \in Nat, P(k)
      PROVE  P(k + 1)
  <2> SUFFICES ASSUME k + 1 <= n
               PROVE  \E g : \A i \in (n - (k + 1) + 1)..n : g[i] = Branch(half, d, g, i)
    BY Zenon
  <2>1. k <= n
    BY <1>0
  <2>2. PICK f : \A i \in (n - k + 1)..n : f[i] = Branch(half, d, f, i)
    BY <1>2, <2>1, Zenon
  <2> DEFINE b == Branch(half, d, f, n - k)
             g == [i \in 1..n |-> IF i = n - k THEN b ELSE f[i]]
  <2>3. ASSUME NEW i \in (n - (k + 1) + 1)..n
        PROVE  g[i] = Branch(half, d, g, i)
    <3>1. i \in 1..n /\ i >= n - k
      BY <1>0
    <3>2. /\ \A j \in (i + 1)..n : j \in 1..n /\ j # n - k
          /\ i # n - k => i \in (n - k + 1)..n
      <4> HIDE DEF n
      <4>1. n \in Int /\ k \in Int /\ i \in Int /\ i >= n - k /\ i <= n /\ i >= 1
        BY <1>0, <3>1
      <4> QED
        BY <4>1
    <3>3. \A j \in (i + 1)..n : g[j] = f[j]
      BY <3>2
    <3>4. g[i] = IF i = n - k THEN b ELSE f[i]
      BY <3>1
    <3>5. g[i] = Branch(half, d, f, i)
      <4>1. CASE i = n - k
        BY <3>4, <4>1, Zenon
      <4>2. CASE i # n - k
        BY <2>2, <3>2, <3>4, <4>2, Zenon
      <4> QED
        BY <4>1, <4>2
    <3> HIDE DEF g
    <3>6. Branch(half, d, g, i) = Branch(half, d, f, i)
      BY <1>0, <3>1, <3>3, BranchOfEqual
    <3> QED
      BY <3>5, <3>6
  <2> HIDE DEF g
  <2> QED
    BY <2>3
<1> HIDE DEF P
<1>3. 0 \in N /\ \A k \in Nat : k \in N => k + 1 \in N
  BY <1>1, <1>2
<1> HIDE DEF N
<1>4. n \in N
  BY <1>0, <1>3, Induction
<1>5. P(n) /\ n <= n
  BY <1>0, <1>4 DEF N
<1>6. PICK f : \A i \in (n - n + 1)..n : f[i] = Branch(half, d, f, i)
  BY <1>5, Zenon DEF P
<1> DEFINE g == [i \in 1..n |-> f[i]]
<1>7. ASSUME NEW i \in 1..n
      PROVE  g[i] = Branch(half, d, g, i)
  <2>1. i \in (n - n + 1)..n /\ g[i] = f[i]
    BY <1>0
  <2>2. \A j \in (i + 1)..n : g[j] = f[j]
    <3>1. \A j \in (i + 1)..n : j \in 1..n
      BY <1>0
    <3> QED
      BY <3>1
  <2> HIDE DEF g
  <2>3. Branch(half, d, g, i) = Branch(half, d, f, i)
    BY <1>0, <2>2, BranchOfEqual
  <2> QED
    BY <1>6, <2>1, <2>3
<1>8. g = [i \in 1..n |-> g[i]]
  OBVIOUS
<1> HIDE DEF g
<1>9. g = [i \in 1..n |-> Branch(half, d, g, i)]
  BY <1>7, <1>8
<1> QED
  BY <1>0, <1>9 DEF IsBelow

LEMMA BelowIs ==
  ASSUME NEW half, GoodHalf(half), NEW d
  PROVE  \A i \in DOMAIN half : Below(half, d)[i] = Branch(half, d, Below(half, d), i)
<1> DEFINE g == Below(half, d)
<1>1. IsBelow(g, half, d)
  BY BelowExists, Zenon DEF Below
<1> HIDE DEF g
<1>2. \A i \in DOMAIN half : g[i] = Branch(half, d, g, i)
  BY <1>1 DEF IsBelow
<1> QED
  BY <1>2 DEF g

(* A line shows its node; that of the root has no indent and handle 0.     *)
Shows(half, d, x) ==
  /\ x.symbol = half[Of(x)].symbol /\ half[Of(x)].locations # 0
  /\ x.indent = 0 <=> Of(x) = 1
  /\ d = "down" => x.handle >= 0
  /\ d = "up" => x.handle <= 0
  /\ x.handle = 0 <=> Of(x) = 1

(* Lines of the node i or of later ones.                                   *)
LinesFrom(half, d, i) == {x \in Line : Of(x) \in i..Len(half) /\ Shows(half, d, x)}

LEMMA LaterLines ==
  ASSUME NEW half, NEW d, NEW i \in Nat, NEW j \in Nat, i <= j, Len(half) \in Nat
  PROVE  LinesFrom(half, d, j) \subseteq LinesFrom(half, d, i)
<1> SUFFICES ASSUME NEW x \in LinesFrom(half, d, j)
             PROVE  x \in LinesFrom(half, d, i)
  OBVIOUS
<1>1. x \in Line /\ Of(x) \in j..Len(half) /\ Shows(half, d, x)
  BY Zenon DEF LinesFrom
<1>2. Of(x) \in i..Len(half)
  BY <1>1
<1> QED
  BY <1>1, <1>2, Zenon DEF LinesFrom

LEMMA OwnType ==
  ASSUME NEW half, GoodHalf(half), NEW d \in Directions, NEW i \in DOMAIN half
  PROVE  Own(half, d, i) \in Seq(LinesFrom(half, d, i))
<1> DEFINE s == Own(half, d, i)
           n == half[i].locations
<1>1. s \in Seq(Line) /\ Len(s) = n
  BY OwnFacts
<1>2. i \in i..Len(half)
  BY DEF GoodHalf
<1>3. ASSUME NEW l \in 1..n
      PROVE  s[l] \in LinesFrom(half, d, i)
  <2>1. /\ s[l].symbol = half[i].symbol
        /\ s[l].indent = 0 <=> i = 1
        /\ Of(s[l]) = i
        /\ d = "down" => s[l].handle >= 0
        /\ d = "up" => s[l].handle <= 0
        /\ s[l].handle = 0 <=> i = 1
    BY OwnFacts, Zenon
  <2>2. s[l] \in Line
    <3> HIDE DEF s, n
    <3> QED
      BY <1>1
  <2>3. half[i].locations # 0
    BY <1>1
  <2> HIDE DEF s, n
  <2> QED
    BY <1>2, <2>1, <2>2, <2>3, Zenon DEF LinesFrom, Shows
<1> HIDE DEF s
<1>4. s \in Seq(LinesFrom(half, d, i))
  BY <1>1, <1>3
<1> QED
  BY <1>4 DEF s

LEMMA ReferredToType ==
  ASSUME NEW half, GoodHalf(half), NEW S, NEW g, NEW i \in DOMAIN half,
         \A j \in (i + 1)..Len(half) : g[j] \in Seq(S)
  PROVE  ReferredTo(half, g, i) \in Seq(S)
<1>1. CASE half[i].references = Unresolved
  BY <1>1 DEF ReferredTo
<1>2. CASE half[i].references # Unresolved
  <2> DEFINE refs == half[i].references
             seqs == [j \in DOMAIN refs |-> g[refs[j]]]
  <2>0. half[i] \in HierarchyNode
    BY DEF GoodHalf
  <2>1. refs \in Seq(Nat)
    BY <1>2, <2>0, Zenon DEF HierarchyNode
  <2>2. \A j \in DOMAIN refs : refs[j] \in (i + 1)..Len(half)
    BY <1>2 DEF GoodHalf, Range
  <2>3. \A j \in DOMAIN refs : g[refs[j]] \in Seq(S)
    BY <2>2
  <2>4. ReferredTo(half, g, i) = FlattenSeq(seqs)
    BY <1>2, Zenon DEF ReferredTo
  <2>5. seqs \in Seq(Seq(S))
    <3> HIDE DEF refs
    <3> QED
      BY <2>1, <2>3
  <2> HIDE DEF seqs
  <2> QED
    BY <2>4, <2>5, FlattenType
<1> QED
  BY <1>1, <1>2

LEMMA BelowType ==
  ASSUME NEW half, GoodHalf(half), NEW d \in Directions
  PROVE  \A i \in DOMAIN half :
           /\ Below(half, d)[i] \in Seq(LinesFrom(half, d, i))
           /\ ReferredTo(half, Below(half, d), i) \in Seq(LinesFrom(half, d, i + 1))
           /\ Below(half, d)[i] = Own(half, d, i) \o ReferredTo(half, Below(half, d), i)
<1> DEFINE g == Below(half, d)
           n == Len(half)
           S == {i \in 1..n : /\ g[i] \in Seq(LinesFrom(half, d, i))
                              /\ ReferredTo(half, g, i) \in Seq(LinesFrom(half, d, i + 1))}
<1>0. n \in Nat /\ DOMAIN half = 1..n
  BY DEF GoodHalf
<1>1. \A i \in 1..n : g[i] = Own(half, d, i) \o ReferredTo(half, g, i)
  BY <1>0, BelowIs, Zenon DEF Branch
<1>2. ASSUME NEW i \in 1..n, NEW j \in Nat, i <= j
      PROVE  LinesFrom(half, d, j) \subseteq LinesFrom(half, d, i)
  BY <1>0, <1>2, LaterLines
<1>3. ASSUME NEW i \in 1..n, \A j \in (i + 1)..n : j \in S
      PROVE  i \in S
  <2>1. ASSUME NEW j \in (i + 1)..n
        PROVE  g[j] \in Seq(LinesFrom(half, d, i + 1))
    <3>1. g[j] \in Seq(LinesFrom(half, d, j))
      BY <1>3
    <3>2. j \in Nat /\ i + 1 <= j /\ i + 1 \in 1..n
      BY <1>0
    <3>3. LinesFrom(half, d, j) \subseteq LinesFrom(half, d, i + 1)
      BY <1>2, <3>2
    <3> QED
      BY <3>1, <3>3
  <2>2. ReferredTo(half, g, i) \in Seq(LinesFrom(half, d, i + 1))
    <3> HIDE DEF g, S
    <3> QED
      BY <1>0, <2>1, ReferredToType
  <2>3. LinesFrom(half, d, i + 1) \subseteq LinesFrom(half, d, i)
    BY <1>2
  <2>4. Own(half, d, i) \in Seq(LinesFrom(half, d, i))
    BY <1>0, OwnType
  <2>5. Own(half, d, i) \o ReferredTo(half, g, i) \in Seq(LinesFrom(half, d, i))
    <3> HIDE DEF g, S
    <3>1. ReferredTo(half, g, i) \in Seq(LinesFrom(half, d, i))
      BY <2>2, <2>3
    <3> QED
      BY <3>1, <2>4
  <2> QED
    BY <1>1, <2>2, <2>5
<1>4. \A i \in 1..n : i \in S
  <2> HIDE DEF S
  <2> QED
    BY <1>0, <1>3, DownwardInduction
<1> QED
  BY <1>0, <1>1, <1>4

(* The nodes whose lines a sequence has.                                   *)
Kin(s) == {Of(s[p]) : p \in DOMAIN s}

LEMMA KinOfBoth ==
  ASSUME NEW s \in Seq(Line), NEW t \in Seq(Line)
  PROVE  Kin(s \o t) = Kin(s) \union Kin(t)
<1>1. \A p \in DOMAIN (s \o t) :
        \/ p \in DOMAIN s /\ (s \o t)[p] = s[p]
        \/ p - Len(s) \in DOMAIN t /\ (s \o t)[p] = t[p - Len(s)]
  OBVIOUS
<1>2. \A p \in DOMAIN s : p \in DOMAIN (s \o t) /\ (s \o t)[p] = s[p]
  OBVIOUS
<1>3. \A p \in DOMAIN t : p + Len(s) \in DOMAIN (s \o t) /\ (s \o t)[p + Len(s)] = t[p]
  OBVIOUS
<1> QED
  BY <1>1, <1>2, <1>3, Zenon DEF Kin

LEMMA KinInRange ==
  ASSUME NEW half, NEW d, NEW i, NEW s \in Seq(LinesFrom(half, d, i))
  PROVE  Kin(s) \subseteq i..Len(half)
<1>1. \A p \in DOMAIN s : s[p] \in LinesFrom(half, d, i)
  OBVIOUS
<1> QED
  BY <1>1, Zenon DEF Kin, LinesFrom

-----------------------------------------------------------------------------
(* What becomes of some lines s when m lines, of the nodes in later, are   *)
(* added behind those of the node x: lines t without x are what they were, *)
(* and the lines of x stay where they are.                                 *)
Grown(s, t, x, m, later) ==
  IF x \in Kin(s)
  THEN /\ Len(t) = Len(s) + m
       /\ \A p \in DOMAIN s : Of(s[p]) = x => t[p] = s[p]
       /\ Kin(t) \subseteq Kin(s) \union later
  ELSE t = s

LEMMA GrownKin ==
  ASSUME NEW s, NEW t, NEW x, NEW m, NEW later, Grown(s, t, x, m, later)
  PROVE  /\ Kin(t) \subseteq Kin(s) \union later
         /\ x \notin Kin(s) => Kin(t) = Kin(s)
BY Zenon DEF Grown

LEMMA GrownBoth ==
  ASSUME NEW s1 \in Seq(Line), NEW t1 \in Seq(Line), NEW s2 \in Seq(Line), NEW t2 \in Seq(Line),
         NEW x, NEW m \in Nat, NEW later,
         Grown(s1, t1, x, m, later), Grown(s2, t2, x, m, later),
         ~(x \in Kin(s1) /\ x \in Kin(s2))
  PROVE  Grown(s1 \o s2, t1 \o t2, x, m, later)
<1>1. Kin(s1 \o s2) = Kin(s1) \union Kin(s2) /\ Kin(t1 \o t2) = Kin(t1) \union Kin(t2)
  BY KinOfBoth
<1>2. CASE x \notin Kin(s1) /\ x \notin Kin(s2)
  BY <1>1, <1>2, Zenon DEF Grown
<1>3. CASE x \in Kin(s1)
  <2>1. t2 = s2 /\ x \notin Kin(s2)
    BY <1>3, Zenon DEF Grown
  <2>2. /\ Len(t1) = Len(s1) + m
        /\ \A p \in DOMAIN s1 : Of(s1[p]) = x => t1[p] = s1[p]
    BY <1>3, Zenon DEF Grown
  <2>3. Len(t1 \o t2) = Len(s1 \o s2) + m
    BY <2>1, <2>2
  <2>4. ASSUME NEW p \in DOMAIN (s1 \o s2), Of((s1 \o s2)[p]) = x
        PROVE  (t1 \o t2)[p] = (s1 \o s2)[p]
    <3>1. CASE p \in DOMAIN s1
      <4>1. (s1 \o s2)[p] = s1[p] /\ p \in DOMAIN t1 /\ (t1 \o t2)[p] = t1[p]
        BY <2>2, <3>1
      <4> QED
        BY <2>2, <2>4, <3>1, <4>1, Zenon
    <3>2. CASE p \notin DOMAIN s1
      <4>1. p - Len(s1) \in DOMAIN s2 /\ (s1 \o s2)[p] = s2[p - Len(s1)]
        BY <3>2
      <4>2. Of(s2[p - Len(s1)]) \in Kin(s2)
        BY <4>1, Zenon DEF Kin
      <4> QED
        BY <2>1, <2>4, <4>1, <4>2, Zenon
    <3> QED
      BY <3>1, <3>2
  <2>5. Kin(t1 \o t2) \subseteq Kin(s1 \o s2) \union later
    BY <1>1, <2>1, GrownKin, Zenon
  <2> QED
    BY <1>1, <1>3, <2>3, <2>4, <2>5, Zenon DEF Grown
<1>4. CASE x \in Kin(s2)
  <2>1. t1 = s1 /\ x \notin Kin(s1)
    BY <1>4, Zenon DEF Grown
  <2>2. /\ Len(t2) = Len(s2) + m
        /\ \A p \in DOMAIN s2 : Of(s2[p]) = x => t2[p] = s2[p]
    BY <1>4, Zenon DEF Grown
  <2>3. Len(t1 \o t2) = Len(s1 \o s2) + m
    BY <2>1, <2>2
  <2>4. ASSUME NEW p \in DOMAIN (s1 \o s2), Of((s1 \o s2)[p]) = x
        PROVE  (t1 \o t2)[p] = (s1 \o s2)[p]
    <3>1. CASE p \in DOMAIN s1
      <4>1. (s1 \o s2)[p] = s1[p] /\ (t1 \o t2)[p] = t1[p]
        BY <2>1, <3>1
      <4> QED
        BY <2>1, <4>1, Zenon
    <3>2. CASE p \notin DOMAIN s1
      <4> DEFINE q == p - Len(s1)
      <4>1. q \in DOMAIN s2 /\ (s1 \o s2)[p] = s2[q]
        BY <3>2
      <4>2. q \in DOMAIN t2 /\ (t1 \o t2)[p] = t2[q]
        BY <2>1, <2>2, <3>2
      <4> HIDE DEF q
      <4> QED
        BY <2>2, <2>4, <4>1, <4>2, Zenon
    <3> QED
      BY <3>1, <3>2
  <2>5. Kin(t1 \o t2) \subseteq Kin(s1 \o s2) \union later
    BY <1>1, <2>1, GrownKin, Zenon
  <2> QED
    BY <1>1, <1>4, <2>3, <2>4, <2>5, Zenon DEF Grown
<1> QED
  BY <1>2, <1>3, <1>4

(* So it is for the branches of a node, as long as x is in one of them.    *)
LEMMA GrownBranches ==
  ASSUME NEW ss \in Seq(Seq(Line)), NEW ts \in Seq(Seq(Line)), Len(ts) = Len(ss),
         NEW x, NEW m \in Nat, NEW later,
         \A j \in DOMAIN ss : Grown(ss[j], ts[j], x, m, later),
         \A j, k \in DOMAIN ss : j # k => ~(x \in Kin(ss[j]) /\ x \in Kin(ss[k]))
  PROVE  Grown(FlattenSeq(ss), FlattenSeq(ts), x, m, later)
<1> DEFINE n == Len(ss)
<1>0. n \in Nat /\ DOMAIN ss = 1..n /\ DOMAIN ts = 1..n
  OBVIOUS
<1>1. \A j \in 1..n : ss[j] \in Seq(Line) /\ ts[j] \in Seq(Line) /\ Grown(ss[j], ts[j], x, m, later)
  <2>1. \A j \in 1..n : ss[j] \in Seq(Line) /\ ts[j] \in Seq(Line)
    BY <1>0
  <2> QED
    BY <1>0, <2>1, Zenon
<1>2. CASE n = 0
  <2>1. ss = <<>> /\ ts = <<>> /\ FlattenSeq(ss) = ss /\ FlattenSeq(ts) = ts
    BY <1>2 DEF FlattenSeq
  <2>2. x \notin Kin(ss)
    <3>1. DOMAIN ss = {}
      BY <1>0, <1>2
    <3> QED
      BY <3>1, Zenon DEF Kin
  <2> QED
    BY <2>1, <2>2, Zenon DEF Grown
<1>3. CASE n # 0
  <2>1. PICK f : IsFlat(f, ss, n) /\ FlattenSeq(ss) = f[n]
    BY <1>3, FlattenIsFlat
  <2>2. PICK g : IsFlat(g, ts, n) /\ FlattenSeq(ts) = g[n]
    BY <1>3, FlattenIsFlat
  <2> DEFINE Ok(k) == /\ f[k] \in Seq(Line) /\ g[k] \in Seq(Line)
                      /\ Grown(f[k], g[k], x, m, later)
                      /\ x \in Kin(f[k]) => \E j \in 1..k : x \in Kin(ss[j])
             N == {k \in Nat : k = 0 \/ (k <= n => Ok(k))}
  <2>3. ASSUME NEW k \in Nat, k \in N
        PROVE  k + 1 \in N
    <3> SUFFICES ASSUME k + 1 <= n
                 PROVE  Ok(k + 1)
      OBVIOUS
    <3>1. k + 1 \in 1..n /\ k <= n
      BY <1>0
    <3>2. ss[k + 1] \in Seq(Line) /\ ts[k + 1] \in Seq(Line) /\ Grown(ss[k + 1], ts[k + 1], x, m, later)
      BY <1>1, <3>1, Zenon
    <3>3. CASE k = 0
      <4>1. f[k + 1] = ss[k + 1] /\ g[k + 1] = ts[k + 1] /\ k + 1 \in 1..k + 1
        BY <2>1, <2>2, <3>1, <3>3 DEF IsFlat
      <4> QED
        BY <3>2, <4>1, Zenon
    <3>4. CASE k # 0
      <4>1. Ok(k)
        BY <2>3, <3>1, <3>4
      <4>2. f[k + 1] = f[k] \o ss[k + 1] /\ g[k + 1] = g[k] \o ts[k + 1]
        <5>1. k + 1 # 1 /\ (k + 1) - 1 = k
          BY <3>4, NextBack, Zenon
        <5> QED
          BY <2>1, <2>2, <3>1, <5>1 DEF IsFlat
      <4>3. ~(x \in Kin(f[k]) /\ x \in Kin(ss[k + 1]))
        <5>1. \A j \in 1..k : j \in 1..n /\ j # k + 1
          BY <3>1, SMTT(40)
        <5> QED
          BY <1>0, <3>1, <4>1, <5>1
      <4>4. Grown(f[k + 1], g[k + 1], x, m, later)
        BY <3>2, <4>1, <4>2, <4>3, GrownBoth
      <4>5. Kin(f[k + 1]) = Kin(f[k]) \union Kin(ss[k + 1])
        BY <3>2, <4>1, <4>2, KinOfBoth
      <4>6. f[k + 1] \in Seq(Line) /\ g[k + 1] \in Seq(Line)
        BY <3>2, <4>1, <4>2
      <4>7. k + 1 \in 1..k + 1 /\ \A j \in 1..k : j \in 1..k + 1
        OBVIOUS
      <4> QED
        BY <4>1, <4>4, <4>5, <4>6, <4>7, Zenon
    <3> QED
      BY <3>3, <3>4
  <2> HIDE DEF Ok
  <2>4. 0 \in N
    OBVIOUS
  <2> HIDE DEF N
  <2>5. n \in N
    BY <1>0, <2>3, <2>4, Induction
  <2>6. Ok(n)
    BY <1>0, <1>3, <2>5 DEF N
  <2> QED
    BY <2>1, <2>2, <2>6 DEF Ok
<1> QED
  BY <1>2, <1>3

-----------------------------------------------------------------------------
(* UpdateHierarchy of one half.                                            *)
Extended(half, x, items) ==
  [half EXCEPT ![x].references = [i \in DOMAIN items |-> Len(half) + i]]
    \o [i \in DOMAIN items |->
          Node(items[i], half[x].distance + 1, LocationsOf[items[i]])]

(* Only the node x has changed, and what it refers to is new.              *)
IsExtension(half2, half, x, items) ==
  /\ half2 \in Seq(HierarchyNode)
  /\ Len(half2) = Len(half) + Len(items)
  /\ \A i \in 1..Len(half) : i # x => half2[i] = half[i]
  /\ half2[x] = [half[x] EXCEPT !.references = [i \in DOMAIN items |-> Len(half) + i]]
  /\ \A i \in 1..Len(items) :
       half2[Len(half) + i] = Node(items[i], half[x].distance + 1, LocationsOf[items[i]])

LEMMA ExtendedFacts ==
  ASSUME NEW half, GoodHalf(half), NEW x \in DOMAIN half, NEW items \in Seq(Symbols)
  PROVE  IsExtension(Extended(half, x, items), half, x, items)
<1> DEFINE n == Len(half)
           k == Len(items)
           refs == [i \in DOMAIN items |-> n + i]
           y == [half[x] EXCEPT !.references = refs]
           old == [half EXCEPT ![x] = y]
           new == [i \in DOMAIN items |->
                     Node(items[i], half[x].distance + 1, LocationsOf[items[i]])]
<1>0. /\ n \in Nat /\ k \in Nat /\ DOMAIN half = 1..n /\ DOMAIN items = 1..k
      /\ half \in Seq(HierarchyNode) /\ half[x] \in HierarchyNode
  BY DEF GoodHalf
<1>1. Extended(half, x, items) = old \o new
  BY DEF Extended
<1>2. refs \in Seq(Nat)
  <2>1. \A i \in 1..k : n + i \in Nat
    BY <1>0
  <2>2. refs \in [1..k -> Nat]
    BY <1>0, <2>1
  <2> HIDE DEF refs
  <2> QED
    BY <1>0, <2>2
<1>3. y \in HierarchyNode
  <2> HIDE DEF refs
  <2> QED
    BY <1>0, <1>2 DEF HierarchyNode
<1>4. old \in Seq(HierarchyNode) /\ Len(old) = n /\ old[x] = y /\ \A i \in 1..n : i # x => old[i] = half[i]
  <2> HIDE DEF y
  <2> QED
    BY <1>0, <1>3
<1>5. \A i \in 1..k : Node(items[i], half[x].distance + 1, LocationsOf[items[i]]) \in HierarchyNode
  <2> SUFFICES ASSUME NEW i \in 1..k
               PROVE  Node(items[i], half[x].distance + 1, LocationsOf[items[i]]) \in HierarchyNode
    OBVIOUS
  <2>1. items[i] \in Symbols
    BY <1>0
  <2>2. LocationsOf[items[i]] \in 0..MaxHandlesPerIndex
    BY <2>1, SymbolsAssumption
  <2>3. half[x].distance + 1 \in Nat
    BY <1>0 DEF HierarchyNode
  <2> QED
    BY <2>1, <2>2, <2>3 DEF Node, HierarchyNode
<1>6. new \in Seq(HierarchyNode) /\ Len(new) = k
  <2>1. new \in [1..k -> HierarchyNode]
    BY <1>0, <1>5
  <2> HIDE DEF new
  <2> QED
    BY <1>0, <2>1
<1>7. \A i \in 1..k :
        new[i] = Node(items[i], half[x].distance + 1, LocationsOf[items[i]])
  BY <1>0
<1> HIDE DEF old, new, n, k
<1>8. /\ old \o new \in Seq(HierarchyNode) /\ Len(old \o new) = n + k
      /\ \A i \in 1..n : (old \o new)[i] = old[i]
      /\ \A i \in 1..k : (old \o new)[n + i] = new[i]
  <2>1. old \o new \in Seq(HierarchyNode) /\ Len(old \o new) = n + k
    <3>1. /\ old \in Seq(HierarchyNode) /\ new \in Seq(HierarchyNode)
          /\ Len(old) = n /\ Len(new) = k
      BY <1>4, <1>6, Zenon
    <3>2. old \o new \in Seq(HierarchyNode) /\ Len(old \o new) = Len(old) + Len(new)
      BY <3>1
    <3> QED
      BY <3>1, <3>2, Zenon
  <2>2. ASSUME NEW i \in 1..n
        PROVE  (old \o new)[i] = old[i]
    <3>1. i \in 1..Len(old) /\ old \in Seq(HierarchyNode) /\ new \in Seq(HierarchyNode)
      BY <1>4, <1>6
    <3> QED
      BY <3>1
  <2>3. ASSUME NEW i \in 1..k
        PROVE  (old \o new)[n + i] = new[i]
    <3>1. n + i \in 1..(n + k) /\ ~(n + i <= n) /\ (n + i) - n = i
      BY <1>0
    <3> DEFINE p == n + i
    <3>2. p \in 1..(n + k) /\ ~(p <= n) /\ p - n = i
      BY <3>1
    <3> HIDE DEF p
    <3>3. (old \o new)[p] = new[p - n]
      BY <1>0, <1>4, <1>6, <3>2
    <3> QED
      BY <3>2, <3>3 DEF p
  <2> QED
    BY <2>1, <2>2, <2>3
<1> QED
  BY <1>0, <1>1, <1>4, <1>7, <1>8, Zenon DEF n, k, IsExtension

LEMMA ExtendedIsGood ==
  ASSUME NEW half, GoodHalf(half), NEW x \in DOMAIN half, NEW items \in Seq(Symbols)
  PROVE  GoodHalf(Extended(half, x, items))
<1> DEFINE half2 == Extended(half, x, items)
           refs == [i \in DOMAIN items |-> Len(half) + i]
           n == Len(half)
           k == Len(items)
<1>0. /\ n \in Nat /\ k \in Nat /\ DOMAIN half = 1..n /\ DOMAIN items = 1..k
      /\ x \in 1..n /\ 1 \in 1..n /\ half[x] \in HierarchyNode
  BY DEF GoodHalf
<1>1. /\ half2 \in Seq(HierarchyNode)
      /\ Len(half2) = n + k
      /\ \A i \in 1..n : i # x => half2[i] = half[i]
      /\ half2[x] = [half[x] EXCEPT !.references = refs]
      /\ \A i \in 1..k :
           half2[n + i] = Node(items[i], half[x].distance + 1, LocationsOf[items[i]])
  <2>1. IsExtension(half2, half, x, items)
    BY ExtendedFacts
  <2> HIDE DEF half2
  <2> QED
    BY <2>1, Zenon DEF IsExtension
<1>3. /\ half[1].locations = 1
      /\ \A i \in 1..n : half[i].distance = 0 <=> i = 1
      /\ \A i \in 1..n : half[i].references # Unresolved =>
           Range(half[i].references) \subseteq (i + 1)..n
  BY <1>0, Zenon DEF GoodHalf
<1>4. /\ half2[x].locations = half[x].locations /\ half2[x].distance = half[x].distance
      /\ half2[x].references = refs
  BY <1>1, <1>0 DEF HierarchyNode
<1>5. Range(refs) \subseteq (x + 1)..(n + k)
  <2>1. \A i \in 1..k : n + i \in (x + 1)..(n + k)
    BY <1>0
  <2> QED
    BY <1>0, <2>1 DEF Range
<1>6. half[x].distance \in Nat
  BY <1>0 DEF HierarchyNode
<1>7. ASSUME NEW i \in 1..k
      PROVE  half2[n + i].distance # 0 /\ half2[n + i].references = Unresolved
  <2> DEFINE node == Node(items[i], half[x].distance + 1, LocationsOf[items[i]])
  <2>1. half2[n + i] = node
    BY <1>1, Zenon
  <2>2. node.distance = half[x].distance + 1 /\ node.references = Unresolved
    BY DEF Node
  <2>3. half[x].distance + 1 # 0
    BY <1>6
  <2> HIDE DEF half2, n, k
  <2> QED
    BY <2>1, <2>2, <2>3, Zenon
<1> HIDE DEF half2, refs, n, k
<1>8. half2[1].locations = 1
  BY <1>1, <1>0, <1>3, <1>4
<1>9. ASSUME NEW i \in 1..(n + k)
      PROVE  /\ half2[i].distance = 0 <=> i = 1
             /\ half2[i].references # Unresolved =>
                  Range(half2[i].references) \subseteq (i + 1)..(n + k)
  <2>1. CASE i \in 1..n /\ i # x
    <3>1. half2[i] = half[i] /\ (i + 1)..n \subseteq (i + 1)..(n + k)
      BY <1>1, <1>0, <2>1
    <3> QED
      BY <1>3, <2>1, <3>1, Zenon
  <2>2. CASE i = x
    BY <1>0, <1>3, <1>4, <1>5, <2>2, Zenon
  <2>3. CASE i \notin 1..n
    <3>1. i - n \in 1..k /\ n + (i - n) = i /\ i # 1
      BY <1>0, <2>3
    <3> QED
      BY <1>7, <3>1
  <2> QED
    BY <2>1, <2>2, <2>3
<1>10. half2 # <<>> /\ DOMAIN half2 = 1..(n + k)
  <2>1. n + k # 0
    BY <1>0
  <2> QED
    BY <1>1, <2>1
<1>11. GoodHalf(half2)
  BY <1>1, <1>8, <1>9, <1>10, Zenon DEF GoodHalf
<1> QED
  BY <1>11 DEF half2

-----------------------------------------------------------------------------
(* No node is among what is below two others that one node refers to.      *)
Forked(half, d) ==
  \A i \in DOMAIN half : half[i].references # Unresolved =>
    \A j, k \in DOMAIN half[i].references : j # k =>
      Kin(Below(half, d)[half[i].references[j]])
        \intersect Kin(Below(half, d)[half[i].references[k]]) = {}

Keeps(half2, half, x, items) ==
  /\ GoodHalf(half2) /\ DOMAIN half2 = 1..(Len(half) + Len(items))
  /\ Len(half) \in Nat /\ DOMAIN half = 1..Len(half) /\ Len(items) \in Nat
  /\ \A i \in DOMAIN half : i \in DOMAIN half2
  /\ \A d : \A i \in DOMAIN half : Own(half2, d, i) = Own(half, d, i)
  /\ \A i \in DOMAIN half : half2[i].symbol = half[i].symbol
  /\ \A i \in DOMAIN half : i # x => half2[i].references = half[i].references
  /\ half2[x].references = [i \in DOMAIN items |-> Len(half) + i]
  /\ \A i \in 1..Len(items) :
       /\ half2[Len(half) + i].references = Unresolved
       /\ half2[Len(half) + i].locations = LocationsOf[items[i]]

LEMMA ExtendedKeeps ==
  ASSUME NEW half, GoodHalf(half), NEW x \in DOMAIN half, NEW items \in Seq(Symbols),
         NEW half2, half2 = Extended(half, x, items)
  PROVE  Keeps(half2, half, x, items)
<1>1. GoodHalf(half2) /\ IsExtension(half2, half, x, items)
  BY ExtendedFacts, ExtendedIsGood
<1>2. Len(half) \in Nat /\ DOMAIN half = 1..Len(half) /\ Len(items) \in Nat /\ half[x] \in HierarchyNode
  BY DEF GoodHalf
<1>3. Len(half2) = Len(half) + Len(items) /\ DOMAIN half2 = 1..Len(half2)
  BY <1>1, <1>2 DEF IsExtension
<1>4. \A i \in DOMAIN half : i \in DOMAIN half2
  BY <1>2, <1>3
<1>5. \A i \in DOMAIN half : i # x => half2[i] = half[i]
  BY <1>1, <1>2, Zenon DEF IsExtension
<1>6. /\ half2[x].symbol = half[x].symbol
      /\ half2[x].distance = half[x].distance
      /\ half2[x].locations = half[x].locations
      /\ half2[x].references = [i \in DOMAIN items |-> Len(half) + i]
  <2> DEFINE refs == [i \in DOMAIN items |-> Len(half) + i]
  <2>1. half2[x] = [half[x] EXCEPT !.references = refs]
    BY <1>1, Zenon DEF IsExtension
  <2> HIDE DEF refs
  <2>2. /\ half2[x].symbol = half[x].symbol
        /\ half2[x].distance = half[x].distance
        /\ half2[x].locations = half[x].locations
        /\ half2[x].references = refs
    BY <1>2, <2>1 DEF HierarchyNode
  <2> QED
    BY <2>2 DEF refs
<1>7. ASSUME NEW d, NEW i \in DOMAIN half
      PROVE  Own(half2, d, i) = Own(half, d, i)
  <2>1. /\ half2[i].symbol = half[i].symbol
        /\ half2[i].distance = half[i].distance
        /\ half2[i].locations = half[i].locations
    BY <1>5, <1>6, Zenon
  <2> QED
    BY <2>1, Zenon DEF Own
<1>8. ASSUME NEW i \in 1..Len(items)
      PROVE  /\ half2[Len(half) + i].references = Unresolved
             /\ half2[Len(half) + i].locations = LocationsOf[items[i]]
  <2>1. half2[Len(half) + i] = Node(items[i], half[x].distance + 1, LocationsOf[items[i]])
    BY <1>1, Zenon DEF IsExtension
  <2> QED
    BY <2>1 DEF Node
<1>9. \A i \in DOMAIN half : half2[i].symbol = half[i].symbol
  BY <1>5, <1>6, Zenon
<1>10. \A i \in DOMAIN half : i # x => half2[i].references = half[i].references
  BY <1>5, Zenon
<1> QED
  BY <1>1, <1>2, <1>3, <1>4, <1>6, <1>7, <1>8, <1>9, <1>10, Zenon DEF Keeps

LEMMA KinOfOwn ==
  ASSUME NEW half, GoodHalf(half), NEW d \in Directions, NEW i \in DOMAIN half
  PROVE  /\ Kin(Own(half, d, i)) \subseteq {i}
         /\ half[i].locations # 0 => i \in Kin(Own(half, d, i))
<1> DEFINE s == Own(half, d, i)
<1>1. /\ Len(s) = half[i].locations /\ s \in Seq(Line)
      /\ \A l \in 1..Len(s) : Of(s[l]) = i
  <2>1. /\ Len(s) = half[i].locations /\ s \in Seq(Line)
        /\ \A l \in 1..half[i].locations : Of(s[l]) = i
    BY OwnFacts, Zenon
  <2> QED
    BY <2>1, Zenon
<1> HIDE DEF s
<1>2. (Len(s) # 0 => 1 \in DOMAIN s) /\ \A l \in DOMAIN s : Of(s[l]) = i
  BY <1>1
<1>3. Kin(s) \subseteq {i} /\ (half[i].locations # 0 => i \in Kin(s))
  BY <1>1, <1>2, Zenon DEF Kin
<1> QED
  BY <1>3 DEF s

(* What is below each node when x is expanded.                             *)
LEMMA Growth ==
  ASSUME NEW half, GoodHalf(half), NEW d \in Directions, Forked(half, d),
         NEW x \in DOMAIN half, half[x].references = Unresolved, half[x].locations # 0,
         NEW items \in Seq(Symbols), NEW half2, half2 = Extended(half, x, items)
  PROVE  /\ ReferredTo(half2, Below(half2, d), x) \in Seq(Line)
         /\ \A i \in DOMAIN half :
              Grown(Below(half, d)[i], Below(half2, d)[i], x,
                    Len(ReferredTo(half2, Below(half2, d), x)),
                    (Len(half) + 1)..(Len(half) + Len(items)))
<1> DEFINE g == Below(half, d)
           g2 == Below(half2, d)
           n == Len(half)
           k == Len(items)
           added == ReferredTo(half2, g2, x)
           m == Len(added)
           later == (n + 1)..(n + k)
           S == {i \in 1..n : Grown(g[i], g2[i], x, m, later)}
<1>1. /\ GoodHalf(half2) /\ DOMAIN half2 = 1..(n + k)
      /\ n \in Nat /\ DOMAIN half = 1..n /\ k \in Nat
      /\ \A i \in DOMAIN half : i \in DOMAIN half2
      /\ \A i \in DOMAIN half : Own(half2, d, i) = Own(half, d, i)
      /\ \A i \in DOMAIN half : i # x => half2[i].references = half[i].references
      /\ half2[x].references = [i \in DOMAIN items |-> n + i]
  <2>1. Keeps(half2, half, x, items)
    BY ExtendedKeeps
  <2> QED
    BY <2>1, Zenon DEF Keeps
<1>2. \A i \in DOMAIN half :
        /\ g[i] \in Seq(LinesFrom(half, d, i))
        /\ ReferredTo(half, g, i) \in Seq(LinesFrom(half, d, i + 1))
        /\ g[i] = Own(half, d, i) \o ReferredTo(half, g, i)
  BY BelowType
<1>3. \A i \in DOMAIN half2 :
        /\ g2[i] \in Seq(LinesFrom(half2, d, i))
        /\ ReferredTo(half2, g2, i) \in Seq(LinesFrom(half2, d, i + 1))
        /\ g2[i] = Own(half2, d, i) \o ReferredTo(half2, g2, i)
  <2>1. GoodHalf(half2)
    BY <1>1, Zenon
  <2> QED
    BY <2>1, BelowType, Zenon
<1>4. \A h, i : \A s \in Seq(LinesFrom(h, d, i)) : s \in Seq(Line)
  <2>1. \A h, i : LinesFrom(h, d, i) \subseteq Line
    BY Zenon DEF LinesFrom
  <2> QED
    BY <2>1
<1>5. \A i \in DOMAIN half : Own(half, d, i) \in Seq(Line)
  BY OwnFacts
<1> HIDE DEF g, g2
<1>6. added \in Seq(Line) /\ m \in Nat
  <2>1. added \in Seq(Line)
    BY <1>1, <1>3, <1>4, Zenon
  <2> HIDE DEF added
  <2> QED
    BY <2>1
<1>7. Kin(added) \subseteq later
  <2> DEFINE refs == half2[x].references
             seqs == [j \in DOMAIN refs |-> g2[refs[j]]]
             T == LinesFrom(half2, d, n + 1)
  <2>1. refs = [i \in 1..k |-> n + i] /\ refs # Unresolved
    <3>1. \A i \in 1..k : n + i \in Nat
      BY <1>1
    <3>2. refs = [i \in 1..k |-> n + i]
      BY <1>1
    <3>3. refs \in Seq(Nat)
      <4> HIDE DEF refs
      <4> QED
        BY <1>1, <3>1, <3>2
    <3> QED
      BY <3>2, <3>3, UnresolvedAssumption
  <2>2. added = FlattenSeq(seqs)
    BY <2>1, Zenon DEF ReferredTo
  <2>3. ASSUME NEW j \in 1..k
        PROVE  g2[n + j] \in Seq(T)
    <3>1. n + j \in DOMAIN half2 /\ n + j \in Nat /\ n + 1 \in Nat /\ n + 1 <= n + j
      BY <1>1
    <3>2. LinesFrom(half2, d, n + j) \subseteq T
      <4>1. Len(half2) \in Nat
        BY <1>1 DEF GoodHalf
      <4> QED
        BY <3>1, <4>1, LaterLines
    <3>3. g2[n + j] \in Seq(LinesFrom(half2, d, n + j))
      BY <1>3, <3>1
    <3> HIDE DEF T
    <3> QED
      BY <3>2, <3>3
  <2>4. seqs = [j \in 1..k |-> g2[n + j]]
    BY <2>1
  <2>5. seqs \in Seq(Seq(T))
    <3> HIDE DEF T, seqs
    <3> QED
      BY <1>1, <2>3, <2>4
  <2>6. added \in Seq(T)
    <3> HIDE DEF T, seqs, added
    <3> QED
      BY <2>2, <2>5, FlattenType
  <2>7. Kin(added) \subseteq (n + 1)..Len(half2)
    <3> HIDE DEF added
    <3> QED
      BY <2>6, KinInRange
  <2>8. Len(half2) = n + k
    BY <1>1 DEF GoodHalf
  <2> QED
    BY <2>7, <2>8, Zenon
<1>8. ASSUME NEW i \in 1..n, half[i].references = Unresolved
      PROVE  g[i] = Own(half, d, i)
  <2>1. ReferredTo(half, g, i) = <<>>
    BY <1>8, Zenon DEF ReferredTo
  <2> DEFINE s == Own(half, d, i)
  <2>2. g[i] = s \o <<>> /\ s \in Seq(Line)
    BY <1>1, <1>2, <1>5, <2>1, Zenon
  <2> HIDE DEF s
  <2>3. g[i] = s
    BY <2>2
  <2> QED
    BY <2>3 DEF s
<1>9. x \in Kin(Own(half, d, x))
  BY KinOfOwn
<1>10. Grown(g[x], g2[x], x, m, later)
  <2> DEFINE s == Own(half, d, x)
  <2>1. g[x] = s /\ g2[x] = s \o added /\ s \in Seq(Line)
    BY <1>1, <1>3, <1>5, <1>8, Zenon
  <2> HIDE DEF s, added
  <2>2. Len(s \o added) = Len(s) + m /\ \A p \in DOMAIN s : (s \o added)[p] = s[p]
    BY <1>6, <2>1
  <2>3. Kin(s \o added) \subseteq Kin(s) \union later
    BY <1>6, <1>7, <2>1, KinOfBoth
  <2>4. x \in Kin(s)
    BY <1>9 DEF s
  <2> HIDE DEF later, m
  <2> QED
    BY <2>1, <2>2, <2>3, <2>4, Zenon DEF Grown
<1>11. ASSUME NEW i \in 1..n, i # x, \A j \in (i + 1)..n : Grown(g[j], g2[j], x, m, later)
       PROVE  Grown(g[i], g2[i], x, m, later)
  <2> DEFINE s == Own(half, d, i)
             refs == half[i].references
  <2>1. /\ g[i] = s \o ReferredTo(half, g, i) /\ g2[i] = s \o ReferredTo(half2, g2, i)
        /\ s \in Seq(Line) /\ ReferredTo(half, g, i) \in Seq(Line)
        /\ ReferredTo(half2, g2, i) \in Seq(Line)
        /\ half2[i].references = refs
    BY <1>1, <1>2, <1>3, <1>4, <1>5, <1>11, Zenon
  <2>2. x \notin Kin(s)
    BY <1>1, <1>11, KinOfOwn
  <2>3. Grown(s, s, x, m, later)
    BY <2>2, Zenon DEF Grown
  <2>4. Grown(ReferredTo(half, g, i), ReferredTo(half2, g2, i), x, m, later)
    <3>1. CASE refs = Unresolved
      <4>1. ReferredTo(half, g, i) = <<>> /\ ReferredTo(half2, g2, i) = <<>>
        BY <2>1, <3>1, Zenon DEF ReferredTo
      <4>2. x \notin Kin(<<>>)
        BY DEF Kin
      <4> QED
        BY <4>1, <4>2, Zenon DEF Grown
    <3>2. CASE refs # Unresolved
      <4> DEFINE ss == [j \in DOMAIN refs |-> g[refs[j]]]
                 ts == [j \in DOMAIN refs |-> g2[refs[j]]]
      <4>1. ReferredTo(half, g, i) = FlattenSeq(ss) /\ ReferredTo(half2, g2, i) = FlattenSeq(ts)
        BY <2>1, <3>2, Zenon DEF ReferredTo
      <4>2. half[i] \in HierarchyNode
        BY <1>1 DEF GoodHalf
      <4>3. refs \in Seq(Nat)
        BY <3>2, <4>2, Zenon DEF HierarchyNode
      <4>4. \A j \in DOMAIN refs : refs[j] \in (i + 1)..n
        BY <1>1, <3>2 DEF GoodHalf, Range
      <4>5. \A j \in (i + 1)..n : j \in DOMAIN half /\ j \in DOMAIN half2
        BY <1>1
      <4>6. \A j \in DOMAIN refs : g[refs[j]] \in Seq(Line) /\ g2[refs[j]] \in Seq(Line)
        BY <1>2, <1>3, <1>4, <4>4, <4>5, Zenon
      <4>7. \A j, l \in DOMAIN refs : j # l => Kin(g[refs[j]]) \intersect Kin(g[refs[l]]) = {}
        BY <1>1, <3>2, Zenon DEF Forked, g
      <4> HIDE DEF refs, m, later
      <4>8. ss \in Seq(Seq(Line)) /\ ts \in Seq(Seq(Line)) /\ Len(ts) = Len(ss) /\ DOMAIN ss = DOMAIN refs
        <5>1. Len(refs) \in Nat /\ DOMAIN refs = 1..Len(refs)
          BY <4>3
        <5>2. ss \in [1..Len(refs) -> Seq(Line)] /\ ts \in [1..Len(refs) -> Seq(Line)]
          BY <4>6, <5>1
        <5> HIDE DEF ss, ts
        <5> QED
          BY <5>1, <5>2, ListIsSequence, Zenon
      <4>9. \A j \in DOMAIN refs : ss[j] = g[refs[j]] /\ ts[j] = g2[refs[j]]
        OBVIOUS
      <4> HIDE DEF ss, ts
      <4>10. \A j \in DOMAIN ss : Grown(ss[j], ts[j], x, m, later)
        BY <1>11, <4>4, <4>8, <4>9, Zenon
      <4>11. \A j, l \in DOMAIN ss : j # l => ~(x \in Kin(ss[j]) /\ x \in Kin(ss[l]))
        <5> SUFFICES ASSUME NEW j \in DOMAIN ss, NEW l \in DOMAIN ss, j # l
                     PROVE  ~(x \in Kin(ss[j]) /\ x \in Kin(ss[l]))
          OBVIOUS
        <5>1. Kin(g[refs[j]]) \intersect Kin(g[refs[l]]) = {}
          BY <4>7, <4>8, Zenon
        <5>2. ss[j] = g[refs[j]] /\ ss[l] = g[refs[l]]
          BY <4>8, <4>9, Zenon
        <5> QED
          BY <5>1, <5>2
      <4>12. m \in Nat
        BY <1>6
      <4>13. Grown(FlattenSeq(ss), FlattenSeq(ts), x, m, later)
        BY <4>8, <4>10, <4>11, <4>12, GrownBranches
      <4> QED
        BY <4>1, <4>13, Zenon
    <3> QED
      BY <3>1, <3>2
  <2> HIDE DEF s, m, later
  <2>5. Grown(s \o ReferredTo(half, g, i), s \o ReferredTo(half2, g2, i), x, m, later)
    BY <1>6, <2>1, <2>2, <2>3, <2>4, GrownBoth
  <2> QED
    BY <2>1, <2>5, Zenon
<1> HIDE DEF m, later
<1>12. ASSUME NEW i \in 1..n, \A j \in (i + 1)..n : j \in S
       PROVE  i \in S
  <2>1. \A j \in (i + 1)..n : Grown(g[j], g2[j], x, m, later)
    BY <1>12, Zenon
  <2> QED
    BY <1>10, <1>11, <2>1, Zenon
<1>13. \A i \in 1..n : i \in S
  <2> HIDE DEF S
  <2> QED
    BY <1>1, <1>12, DownwardInduction
<1> QED
  BY <1>1, <1>6, <1>13, Zenon DEF g, g2, m, later, added

HaveNothingBelow(half2, half, d, items) ==
  \A j \in 1..Len(items) :
    /\ Kin(Below(half2, d)[Len(half) + j]) \subseteq {Len(half) + j}
    /\ Below(half2, d)[Len(half) + j] \in Seq(Line)
    /\ Len(Below(half2, d)[Len(half) + j]) = LocationsOf[items[j]]

LEMMA NewNodesAreOwn ==
  ASSUME NEW half, GoodHalf(half), NEW d \in Directions,
         NEW x \in DOMAIN half, NEW items \in Seq(Symbols),
         NEW half2, half2 = Extended(half, x, items)
  PROVE  HaveNothingBelow(half2, half, d, items)
<1> DEFINE g2 == Below(half2, d)
           n == Len(half)
           k == Len(items)
<1>1. /\ GoodHalf(half2) /\ DOMAIN half2 = 1..(n + k)
      /\ n \in Nat /\ k \in Nat
      /\ \A i \in 1..k : /\ half2[n + i].references = Unresolved
                         /\ half2[n + i].locations = LocationsOf[items[i]]
  <2>1. Keeps(half2, half, x, items)
    BY ExtendedKeeps
  <2> QED
    BY <2>1, Zenon DEF Keeps
<1>2. \A i \in DOMAIN half2 : g2[i] = Own(half2, d, i) \o ReferredTo(half2, g2, i)
  <2>1. GoodHalf(half2)
    BY <1>1, Zenon
  <2> QED
    BY <2>1, BelowType, Zenon
<1> HIDE DEF g2
<1>3. ASSUME NEW j \in 1..k
      PROVE  /\ Kin(g2[n + j]) \subseteq {n + j} /\ g2[n + j] \in Seq(Line)
             /\ Len(g2[n + j]) = LocationsOf[items[j]]
  <2> DEFINE s == Own(half2, d, n + j)
  <2>1. n + j \in DOMAIN half2
    BY <1>1
  <2>2. ReferredTo(half2, g2, n + j) = <<>>
    BY <1>1, Zenon DEF ReferredTo
  <2>3. s \in Seq(Line) /\ Len(s) = LocationsOf[items[j]] /\ Kin(s) \subseteq {n + j}
    <3>1. s \in Seq(Line) /\ Len(s) = half2[n + j].locations
      BY <1>1, <2>1, OwnFacts, Zenon
    <3>2. Kin(s) \subseteq {n + j}
      BY <1>1, <2>1, KinOfOwn, Zenon
    <3> QED
      BY <1>1, <3>1, <3>2, Zenon
  <2>4. g2[n + j] = s \o <<>>
    BY <1>2, <2>1, <2>2, Zenon
  <2> HIDE DEF s
  <2>5. g2[n + j] = s
    BY <2>3, <2>4
  <2> QED
    BY <2>3, <2>5, Zenon
<1> QED
  BY <1>3, Zenon DEF g2, HaveNothingBelow

LEMMA ForkedKept ==
  ASSUME NEW half, GoodHalf(half), NEW d \in Directions, Forked(half, d),
         NEW x \in DOMAIN half, half[x].references = Unresolved, half[x].locations # 0,
         NEW items \in Seq(Symbols), NEW half2, half2 = Extended(half, x, items)
  PROVE  Forked(half2, d)
<1> DEFINE g == Below(half, d)
           g2 == Below(half2, d)
           n == Len(half)
           k == Len(items)
           m == Len(ReferredTo(half2, g2, x))
           later == (n + 1)..(n + k)
<1>1. /\ GoodHalf(half2) /\ DOMAIN half2 = 1..(n + k)
      /\ n \in Nat /\ DOMAIN half = 1..n /\ k \in Nat
      /\ \A i \in DOMAIN half : i # x => half2[i].references = half[i].references
      /\ half2[x].references = [i \in DOMAIN items |-> n + i]
      /\ \A i \in 1..k : half2[n + i].references = Unresolved
  <2>1. Keeps(half2, half, x, items)
    BY ExtendedKeeps
  <2> QED
    BY <2>1, Zenon DEF Keeps
<1>2. \A i \in DOMAIN half : Kin(g[i]) \subseteq 1..n
  <2> SUFFICES ASSUME NEW i \in DOMAIN half
               PROVE  Kin(g[i]) \subseteq 1..n
    OBVIOUS
  <2>1. g[i] \in Seq(LinesFrom(half, d, i))
    BY BelowType
  <2>2. Kin(g[i]) \subseteq i..n
    BY <2>1, KinInRange
  <2>3. i..n \subseteq 1..n
    BY <1>1
  <2> QED
    BY <2>2, <2>3, Zenon
<1>3. \A i \in DOMAIN half : Grown(g[i], g2[i], x, m, later)
  BY Growth
<1>4. \A j \in 1..k : Kin(g2[n + j]) \subseteq {n + j}
  <2>1. HaveNothingBelow(half2, half, d, items)
    BY NewNodesAreOwn
  <2> QED
    BY <2>1, Zenon DEF HaveNothingBelow
<1> HIDE DEF g, m
<1> SUFFICES ASSUME NEW i \in DOMAIN half2, half2[i].references # Unresolved,
                    NEW j \in DOMAIN half2[i].references, NEW l \in DOMAIN half2[i].references,
                    j # l
             PROVE  Kin(g2[half2[i].references[j]]) \intersect Kin(g2[half2[i].references[l]]) = {}
  BY Zenon DEF Forked
<1> HIDE DEF g2
<1>5. CASE i \in 1..n /\ i # x
  <2> DEFINE refs == half[i].references
             p == refs[j]
             q == refs[l]
  <2>1. half2[i].references = refs /\ refs # Unresolved /\ j \in DOMAIN refs /\ l \in DOMAIN refs
    BY <1>1, <1>5, Zenon
  <2>2. p \in (i + 1)..n /\ q \in (i + 1)..n
    BY <1>1, <1>5, <2>1 DEF GoodHalf, Range
  <2>3. p \in DOMAIN half /\ q \in DOMAIN half
    <3> HIDE DEF p, q
    <3> QED
      BY <1>1, <1>5, <2>2
  <2>4. Kin(g[p]) \intersect Kin(g[q]) = {}
    BY <1>1, <1>5, <2>1, Zenon DEF Forked, g
  <2>5. Kin(g[p]) \subseteq 1..n /\ Kin(g[q]) \subseteq 1..n
    BY <1>2, <2>3, Zenon
  <2>6. \A y \in 1..n : y \notin later
    BY <1>1
  <2> HIDE DEF p, q, later
  <2>7. /\ Kin(g2[p]) \subseteq Kin(g[p]) \union later
        /\ x \notin Kin(g[p]) => Kin(g2[p]) = Kin(g[p])
    BY <1>3, <2>3, GrownKin, Zenon
  <2>8. /\ Kin(g2[q]) \subseteq Kin(g[q]) \union later
        /\ x \notin Kin(g[q]) => Kin(g2[q]) = Kin(g[q])
    BY <1>3, <2>3, GrownKin, Zenon
  <2>9. Kin(g2[p]) \intersect Kin(g2[q]) = {}
    <3> DEFINE A == Kin(g[p])
               B == Kin(g[q])
               A2 == Kin(g2[p])
               B2 == Kin(g2[q])
    <3>1. /\ A \intersect B = {} /\ A \subseteq 1..n /\ B \subseteq 1..n
          /\ A2 \subseteq A \union later /\ B2 \subseteq B \union later
          /\ x \notin A => A2 = A
          /\ x \notin B => B2 = B
      BY <2>4, <2>5, <2>7, <2>8, Zenon
    <3> HIDE DEF A, B, A2, B2
    <3>2. A2 = A \/ B2 = B
      BY <3>1
    <3>3. ASSUME NEW y \in A2, y \in B2
          PROVE  FALSE
      BY <2>6, <3>1, <3>2, <3>3
    <3>4. A2 \intersect B2 = {}
      BY <3>3
    <3> QED
      BY <3>4 DEF A2, B2
  <2> QED
    BY <2>1, <2>9, Zenon DEF p, q
<1>6. CASE i = x
  <2>1. DOMAIN items = 1..k
    OBVIOUS
  <2>2. /\ j \in 1..k /\ l \in 1..k
        /\ half2[i].references[j] = n + j /\ half2[i].references[l] = n + l
    BY <1>1, <1>6, <2>1
  <2>3. n + j # n + l
    BY <1>1, <2>2
  <2>4. Kin(g2[n + j]) \subseteq {n + j} /\ Kin(g2[n + l]) \subseteq {n + l}
    BY <1>4, <2>2
  <2> QED
    BY <2>2, <2>3, <2>4
<1>7. CASE i \notin 1..n
  <2>1. i - n \in 1..k /\ n + (i - n) = i
    BY <1>1, <1>7
  <2> QED
    BY <1>1, <2>1
<1> QED
  BY <1>5, <1>6, <1>7

-----------------------------------------------------------------------------
(* Offset is the number of lines that are added.                           *)
Counting(count, item) == count + LocationsOf[item]

LEMMA OffsetCounts ==
  ASSUME NEW items \in Seq(Symbols), NEW S, NEW seqs \in Seq(Seq(S)), Len(seqs) = Len(items),
         \A j \in 1..Len(items) : Len(seqs[j]) = LocationsOf[items[j]]
  PROVE  Offset(items, "up") = Len(FlattenSeq(seqs))
<1> DEFINE n == Len(items)
           F == [p \in Nat \X (1..n) |-> Counting(p[1], items[p[2]])]
           Eq(g) == g = [s \in SUBSET (1..n) |->
                           IF s = {} THEN 0 ELSE Counting(g[s \ {Max(s)}], items[Max(s)])]
           iter == CHOOSE g : Eq(g)
<1>0. n \in Nat /\ DOMAIN items = 1..n /\ \A i \in 1..n : items[i] \in Symbols
  OBVIOUS
<1>1. Offset(items, "up") = iter[1..n]
  BY <1>0 DEF Offset, FoldLeft, MapThenFoldSet, Counting
<1>2. \A t \in Nat : \A item \in Symbols : Counting(t, item) \in Nat
  BY SymbolsAssumption DEF Counting
<1> HIDE DEF n
<1>3. F \in [Nat \X (1..n) -> Nat]
  BY <1>0, <1>2
<1>4. PICK g \in [SUBSET (1..n) -> Nat] : IsFold(g, n, 0, F)
  BY <1>0, <1>3, FoldExists
<1>5. ASSUME NEW s \in SUBSET (1..n), s # {}
      PROVE  g[s] = Counting(g[s \ {Max(s)}], items[Max(s)])
  <2>1. Max(s) \in 1..n
    BY <1>0, <1>5, MaxIsIn
  <2>2. g[s \ {Max(s)}] \in Nat
    OBVIOUS
  <2>3. g[s] = F[<<g[s \ {Max(s)}], Max(s)>>]
    BY <1>4, <1>5 DEF IsFold
  <2> QED
    BY <2>1, <2>2, <2>3
<1>6. Eq(g)
  BY <1>4, <1>5 DEF IsFold
<1> HIDE DEF Eq, F
<1>7. Eq(iter)
  BY <1>6
<1> HIDE DEF iter
<1>8. iter[{}] = 0
  BY <1>7 DEF Eq
<1>9. ASSUME NEW k \in Nat, k + 1 <= n
      PROVE  iter[1..k + 1] = iter[1..k] + LocationsOf[items[k + 1]]
  <2>1. 1..k + 1 \in SUBSET (1..n) /\ 1..k + 1 # {} /\ k + 1 \in 1..k + 1
    <3>1. k + 1 \in 1..k + 1
      OBVIOUS
    <3>2. \A i \in 1..k + 1 : i \in 1..n
      BY <1>0, <1>9
    <3> QED
      BY <3>1, <3>2, Zenon
  <2>2. Max(1..k + 1) = k + 1
    BY <2>1, MaxIsLast
  <2>3. (1..k + 1) \ {k + 1} = 1..k
    OBVIOUS
  <2>4. iter[1..k + 1] = Counting(iter[(1..k + 1) \ {Max(1..k + 1)}], items[Max(1..k + 1)])
    BY <1>7, <2>1 DEF Eq
  <2> QED
    BY <2>2, <2>3, <2>4, Zenon DEF Counting
<1>10. CASE n = 0
  <2>1. 1..n = {} /\ Len(seqs) = 0
    BY <1>10 DEF n
  <2>2. FlattenSeq(seqs) = seqs
    BY <2>1 DEF FlattenSeq
  <2> QED
    BY <1>1, <1>8, <2>1, <2>2, Zenon
<1>11. CASE n # 0
  <2>1. PICK f : IsFlat(f, seqs, n) /\ FlattenSeq(seqs) = f[n]
    BY <1>11, FlattenIsFlat DEF n
  <2>2. \A j \in 1..n : seqs[j] \in Seq(S) /\ Len(seqs[j]) = LocationsOf[items[j]]
    BY DEF n
  <2> DEFINE Ok(k) == f[k] \in Seq(S) /\ Len(f[k]) = iter[1..k]
             N == {k \in Nat : k = 0 \/ (k <= n => Ok(k))}
  <2>3. ASSUME NEW k \in Nat, k \in N
        PROVE  k + 1 \in N
    <3> SUFFICES ASSUME k + 1 <= n
                 PROVE  Ok(k + 1)
      OBVIOUS
    <3>1. k + 1 \in 1..n /\ k <= n
      BY <1>0
    <3>2. seqs[k + 1] \in Seq(S) /\ Len(seqs[k + 1]) = LocationsOf[items[k + 1]]
      BY <2>2, <3>1
    <3>3. iter[1..k + 1] = iter[1..k] + LocationsOf[items[k + 1]]
      BY <1>9
    <3>4. CASE k = 0
      <4>1. f[k + 1] = seqs[k + 1]
        BY <2>1, <3>1, <3>4 DEF IsFlat
      <4>2. 1..k = {}
        BY <3>4
      <4>3. LocationsOf[items[k + 1]] \in Nat
        BY <1>0, <3>1, SymbolsAssumption
      <4>4. iter[1..k] = 0
        BY <1>8, <4>2
      <4> QED
        BY <3>2, <3>3, <4>1, <4>3, <4>4
    <3>5. CASE k # 0
      <4>1. Ok(k)
        BY <2>3, <3>1, <3>5
      <4>2. f[k + 1] = f[k] \o seqs[k + 1]
        <5>1. k + 1 # 1 /\ (k + 1) - 1 = k
          BY <3>5
        <5> QED
          BY <2>1, <3>1, <5>1 DEF IsFlat
      <4>3. Len(f[k] \o seqs[k + 1]) = Len(f[k]) + Len(seqs[k + 1]) /\ f[k] \o seqs[k + 1] \in Seq(S)
        <5> DEFINE a == f[k]
                   b == seqs[k + 1]
        <5>1. a \in Seq(S) /\ b \in Seq(S)
          BY <3>2, <4>1
        <5> HIDE DEF a, b
        <5>2. Len(a \o b) = Len(a) + Len(b) /\ a \o b \in Seq(S)
          BY <5>1
        <5> QED
          BY <5>2 DEF a, b
      <4> QED
        BY <3>2, <3>3, <4>1, <4>2, <4>3, Zenon
    <3> QED
      BY <3>4, <3>5
  <2> HIDE DEF Ok
  <2>4. 0 \in N
    OBVIOUS
  <2> HIDE DEF N
  <2>5. n \in N
    BY <1>0, <2>3, <2>4, Induction
  <2>6. Ok(n)
    BY <1>0, <1>11, <2>5 DEF N
  <2> QED
    BY <1>1, <2>1, <2>6 DEF Ok
<1> QED
  BY <1>10, <1>11

LEMMA AddedIsOffset ==
  ASSUME NEW half, GoodHalf(half), NEW d \in Directions,
         NEW x \in DOMAIN half, NEW items \in Seq(Symbols),
         NEW half2, half2 = Extended(half, x, items)
  PROVE  Len(ReferredTo(half2, Below(half2, d), x)) = Offset(items, "up")
<1> DEFINE g2 == Below(half2, d)
           n == Len(half)
           k == Len(items)
           refs == half2[x].references
           seqs == [j \in DOMAIN refs |-> g2[refs[j]]]
           lists == [j \in 1..k |-> g2[n + j]]
<1>1. /\ n \in Nat /\ k \in Nat
      /\ half2[x].references = [i \in DOMAIN items |-> n + i]
  <2>1. Keeps(half2, half, x, items)
    BY ExtendedKeeps
  <2> QED
    BY <2>1, Zenon DEF Keeps
<1>2. \A j \in 1..k : g2[n + j] \in Seq(Line) /\ Len(g2[n + j]) = LocationsOf[items[j]]
  <2>1. HaveNothingBelow(half2, half, d, items)
    BY NewNodesAreOwn
  <2> QED
    BY <2>1, Zenon DEF HaveNothingBelow
<1> HIDE DEF g2
<1>3. DOMAIN items = 1..k /\ \A j \in 1..k : n + j \in Nat
  BY <1>1
<1>4. refs = [i \in 1..k |-> n + i]
  BY <1>1, <1>3, Zenon
<1>5. refs # Unresolved
  <2>1. refs \in [1..k -> Nat]
    BY <1>3, <1>4
  <2> HIDE DEF refs
  <2>2. refs \in Seq(Nat)
    BY <1>1, <2>1, ListIsSequence, Zenon
  <2> QED
    BY <2>2, UnresolvedAssumption
<1>6. ReferredTo(half2, g2, x) = FlattenSeq(seqs)
  BY <1>5, Zenon DEF ReferredTo
<1>7. seqs = lists
  BY <1>4
<1>8. lists \in [1..k -> Seq(Line)]
  BY <1>2
<1>9. \A j \in 1..k : lists[j] = g2[n + j]
  OBVIOUS
<1> HIDE DEF seqs, lists
<1>10. lists \in Seq(Seq(Line)) /\ Len(lists) = k
  BY <1>1, <1>8, ListIsSequence, Zenon
<1>11. \A j \in 1..k : Len(lists[j]) = LocationsOf[items[j]]
  BY <1>2, <1>9, Zenon
<1>12. Offset(items, "up") = Len(FlattenSeq(lists))
  BY <1>10, <1>11, OffsetCounts
<1> QED
  BY <1>6, <1>7, <1>12, Zenon DEF g2

-----------------------------------------------------------------------------
(* The lines of a half tree, and of both as the menu has them.             *)
RootComesFirst(half, d, ls) ==
  /\ ls \in Seq(LinesFrom(half, d, 1)) /\ ls \in Seq(Line)
  /\ Len(ls) \in Nat /\ Len(ls) >= 1
  /\ Of(ls[1]) = 1
  /\ \A p \in 2..Len(ls) : Of(ls[p]) # 1
  /\ Len(half) \in Nat /\ 1 \in DOMAIN half /\ DOMAIN half = 1..Len(half)

LEMMA HalfLines ==
  ASSUME NEW half, GoodHalf(half), NEW d \in Directions,
         NEW ls, ls = Below(half, d)[1]
  PROVE  RootComesFirst(half, d, ls)
<1> DEFINE own == Own(half, d, 1)
           rest == ReferredTo(half, Below(half, d), 1)
<1>1. Len(half) \in Nat /\ 1 \in DOMAIN half /\ DOMAIN half = 1..Len(half) /\ half[1].locations = 1
  BY DEF GoodHalf
<1>2. /\ ls \in Seq(LinesFrom(half, d, 1)) /\ ls = own \o rest
      /\ rest \in Seq(LinesFrom(half, d, 2))
  <2>1. 1 + 1 = 2
    OBVIOUS
  <2> QED
    BY <1>1, <2>1, BelowType
<1>3. own \in Seq(Line) /\ Len(own) = 1 /\ Of(own[1]) = 1
  <2>1. /\ own \in Seq(Line) /\ Len(own) = half[1].locations
        /\ \A l \in 1..half[1].locations : Of(own[l]) = 1
    BY <1>1, OwnFacts, Zenon
  <2>2. 1 \in 1..1
    OBVIOUS
  <2> QED
    BY <1>1, <2>1, <2>2, Zenon
<1> HIDE DEF own, rest
<1>4. Len(ls) = 1 + Len(rest) /\ Len(rest) \in Nat /\ ls[1] = own[1]
      /\ \A p \in 2..Len(ls) : p - 1 \in 1..Len(rest) /\ ls[p] = rest[p - 1]
  <2>0. rest \in Seq(Line)
    <3>1. LinesFrom(half, d, 2) \subseteq Line
      BY Zenon DEF LinesFrom
    <3> QED
      BY <1>2, <3>1
  <2>1. ls = own \o rest /\ own \in Seq(Line) /\ Len(own) = 1
    BY <1>2, <1>3, Zenon
  <2>2. /\ Len(ls) = Len(own) + Len(rest) /\ Len(rest) \in Nat
        /\ \A p \in 1..Len(own) : ls[p] = own[p]
        /\ \A p \in (Len(own) + 1)..(Len(own) + Len(rest)) :
             p - Len(own) \in 1..Len(rest) /\ ls[p] = rest[p - Len(own)]
    <3> DEFINE both == own \o rest
    <3>1. /\ Len(both) = Len(own) + Len(rest) /\ Len(rest) \in Nat
          /\ \A p \in 1..Len(own) : both[p] = own[p]
          /\ \A p \in (Len(own) + 1)..(Len(own) + Len(rest)) :
               p - Len(own) \in 1..Len(rest) /\ both[p] = rest[p - Len(own)]
      BY <2>0, <2>1, Joining, ZenonT(60)
    <3>2. ls = both
      BY <2>1
    <3> HIDE DEF both
    <3> QED
      BY <3>1, <3>2
  <2>3. 1 \in 1..1 /\ 1 + 1 = 2
    OBVIOUS
  <2> QED
    BY <2>1, <2>2, <2>3, Zenon
<1>5. ASSUME NEW p \in 2..Len(ls)
      PROVE  Of(ls[p]) # 1
  <2>1. ls[p] \in LinesFrom(half, d, 2)
    BY <1>2, <1>4
  <2>2. Of(ls[p]) \in 2..Len(half)
    BY <2>1, Zenon DEF LinesFrom
  <2> QED
    BY <1>1, <2>2
<1>6. ls \in Seq(Line)
  <2>1. LinesFrom(half, d, 1) \subseteq Line
    BY Zenon DEF LinesFrom
  <2> QED
    BY <1>2, <2>1
<1> QED
  BY <1>1, <1>2, <1>3, <1>4, <1>5, <1>6 DEF RootComesFirst

AreJoined(u, v, ls) ==
  /\ ls \in Seq(Line)
  /\ DOMAIN ls = 1..(Len(u) + Len(v) - 1)
  /\ \A s \in 1..Len(u) : Len(u) + 1 - s \in 1..Len(u) /\ ls[s] = u[Len(u) + 1 - s]
  /\ \A s \in (Len(u) + 1)..(Len(u) + Len(v) - 1) :
       s - Len(u) + 1 \in 2..Len(v) /\ ls[s] = v[s - Len(u) + 1]

LEMMA JoinedLines ==
  ASSUME NEW u \in Seq(Line), NEW v \in Seq(Line), Len(v) >= 1,
         NEW ls, ls = Reverse(u) \o Tail(v)
  PROVE  AreJoined(u, v, ls)
<1> DEFINE r == Reverse(u)
           t == Tail(v)
<1>1. Len(u) \in Nat /\ Len(v) \in Nat
  OBVIOUS
<1>2. \A s \in 1..Len(u) : Len(u) + 1 - s \in 1..Len(u) /\ (Len(u) - s) + 1 = Len(u) + 1 - s
  BY <1>1
<1>3. r \in [1..Len(u) -> Line] /\ \A s \in 1..Len(u) : r[s] = u[Len(u) + 1 - s]
  <2>1. r = [s \in 1..Len(u) |-> u[(Len(u) - s) + 1]]
    BY Zenon DEF Reverse
  <2>2. \A s \in 1..Len(u) : u[Len(u) + 1 - s] \in Line
    BY <1>2
  <2> HIDE DEF r
  <2> QED
    BY <1>2, <2>1, <2>2
<1>4. t \in Seq(Line) /\ Len(t) = Len(v) - 1 /\ \A s \in 1..(Len(v) - 1) : t[s] = v[s + 1]
  BY <1>1
<1> HIDE DEF r, t
<1>5. r \in Seq(Line) /\ Len(r) = Len(u)
  BY <1>1, <1>3, ListIsSequence, Zenon
<1>6. ls = r \o t
  BY DEF r, t
<1>7. DOMAIN ls = 1..(Len(u) + Len(v) - 1) /\ ls \in Seq(Line)
  <2>1. ls \in Seq(Line)
    <3>1. r \in Seq(Line) /\ t \in Seq(Line)
      BY <1>4, <1>5
    <3>2. r \o t \in Seq(Line)
      BY <3>1
    <3> QED
      BY <1>6, <3>2
  <2>2. DOMAIN ls = 1..(Len(u) + Len(v) - 1)
    BY <1>1, <1>4, <1>5, <1>6
  <2> QED
    BY <2>1, <2>2
<1>8. /\ \A s \in 1..Len(u) : ls[s] = r[s]
      /\ \A s \in (Len(u) + 1)..(Len(u) + Len(t)) :
           s - Len(u) \in 1..Len(t) /\ ls[s] = t[s - Len(u)]
  <2> DEFINE both == r \o t
  <2>1. /\ \A s \in 1..Len(r) : both[s] = r[s]
        /\ \A s \in (Len(r) + 1)..(Len(r) + Len(t)) :
             s - Len(r) \in 1..Len(t) /\ both[s] = t[s - Len(r)]
    <3>1. r \in Seq(Line) /\ t \in Seq(Line)
      BY <1>4, <1>5
    <3> QED
      BY <3>1, Joining, Zenon
  <2>2. ls = both /\ Len(r) = Len(u)
    BY <1>5, <1>6
  <2> HIDE DEF both
  <2>3. \A s \in 1..Len(u) : both[s] = r[s]
    BY <2>1, <2>2
  <2>4. \A s \in (Len(u) + 1)..(Len(u) + Len(t)) :
           s - Len(u) \in 1..Len(t) /\ both[s] = t[s - Len(u)]
    BY <2>1, <2>2
  <2> QED
    BY <2>2, <2>3, <2>4
<1>9. ASSUME NEW s \in (Len(u) + 1)..(Len(u) + Len(v) - 1)
      PROVE  s - Len(u) + 1 \in 2..Len(v) /\ ls[s] = v[s - Len(u) + 1]
  <2>1. /\ s - Len(u) \in 1..(Len(v) - 1) /\ s - Len(u) + 1 \in 2..Len(v)
        /\ s \in (Len(u) + 1)..(Len(u) + Len(t))
    BY <1>1, <1>4
  <2>2. ls[s] = t[s - Len(u)]
    BY <1>8, <2>1, Zenon
  <2> QED
    BY <1>4, <2>1, <2>2
<1> QED
  BY <1>2, <1>3, <1>7, <1>8, <1>9, Zenon DEF AreJoined

-----------------------------------------------------------------------------
(* Both halves of a tree have the same root.                               *)
GoodTree(tree) ==
  /\ DOMAIN tree = Directions
  /\ \A d \in Directions : GoodHalf(tree[d]) /\ Forked(tree[d], d)
  /\ tree["up"][1].symbol = tree["down"][1].symbol

(* The lines of the menu come from the upper half, last line first, and    *)
(* then from the lower one without its root.                               *)
FromUpper(tree, s, p) ==
  p \in 1..Len(LinesOf(tree, "up")) /\ HierarchyToLines(tree)[s] = LinesOf(tree, "up")[p]

FromLower(tree, s, p) ==
  p \in 2..Len(LinesOf(tree, "down")) /\ HierarchyToLines(tree)[s] = LinesOf(tree, "down")[p]

LEMMA TreeLines ==
  ASSUME NEW tree, GoodTree(tree)
  PROVE  /\ Len(LinesOf(tree, "up")) \in Nat \ {0} /\ Len(LinesOf(tree, "down")) \in Nat \ {0}
         /\ HierarchyToLines(tree) \in Seq(Line)
         /\ DOMAIN HierarchyToLines(tree) =
              1..(Len(LinesOf(tree, "up")) + Len(LinesOf(tree, "down")) - 1)
         /\ \A s \in DOMAIN HierarchyToLines(tree) :
              IF s <= Len(LinesOf(tree, "up"))
              THEN FromUpper(tree, s, Len(LinesOf(tree, "up")) + 1 - s)
              ELSE FromLower(tree, s, s - Len(LinesOf(tree, "up")) + 1)
<1> DEFINE u == LinesOf(tree, "up")
           v == LinesOf(tree, "down")
           ls == HierarchyToLines(tree)
<1>1. /\ u \in Seq(Line) /\ Len(u) \in Nat /\ Len(u) >= 1
      /\ v \in Seq(Line) /\ Len(v) \in Nat /\ Len(v) >= 1
  <2>1. ASSUME NEW d \in Directions
        PROVE  /\ LinesOf(tree, d) \in Seq(Line)
               /\ Len(LinesOf(tree, d)) \in Nat /\ Len(LinesOf(tree, d)) >= 1
    <3> DEFINE w == LinesOf(tree, d)
    <3>1. GoodHalf(tree[d])
      BY DEF GoodTree
    <3>2. w = Below(tree[d], d)[1]
      BY LinesOfIsBelow, Zenon
    <3> HIDE DEF w
    <3>3. RootComesFirst(tree[d], d, w)
      BY <3>1, <3>2, HalfLines
    <3> QED
      BY <3>3, Zenon DEF RootComesFirst, w
  <2>2. "up" \in Directions /\ "down" \in Directions
    BY DEF Directions
  <2> QED
    BY <2>1, <2>2, Zenon
<1>2. ls = Reverse(u) \o Tail(v)
  BY Zenon DEF HierarchyToLines
<1> HIDE DEF u, v, ls
<1>3. /\ ls \in Seq(Line) /\ DOMAIN ls = 1..(Len(u) + Len(v) - 1)
      /\ \A s \in 1..Len(u) : Len(u) + 1 - s \in 1..Len(u) /\ ls[s] = u[Len(u) + 1 - s]
      /\ \A s \in (Len(u) + 1)..(Len(u) + Len(v) - 1) :
           s - Len(u) + 1 \in 2..Len(v) /\ ls[s] = v[s - Len(u) + 1]
  <2>1. AreJoined(u, v, ls)
    BY <1>1, <1>2, JoinedLines
  <2> QED
    BY <2>1, Zenon DEF AreJoined
<1>4. ASSUME NEW s \in DOMAIN ls
      PROVE  IF s <= Len(u) THEN FromUpper(tree, s, Len(u) + 1 - s)
             ELSE FromLower(tree, s, s - Len(u) + 1)
  <2>1. CASE s <= Len(u)
    <3>1. s \in 1..Len(u)
      BY <1>1, <1>3, <2>1
    <3>2. FromUpper(tree, s, Len(u) + 1 - s)
      BY <1>3, <3>1, Zenon DEF FromUpper, u, ls
    <3> QED
      BY <2>1, <3>2
  <2>2. CASE ~(s <= Len(u))
    <3>1. s \in (Len(u) + 1)..(Len(u) + Len(v) - 1)
      BY <1>1, <1>3, <2>2
    <3>2. FromLower(tree, s, s - Len(u) + 1)
      BY <1>3, <3>1, Zenon DEF FromLower, u, v, ls
    <3> QED
      BY <2>2, <3>2
  <2> QED
    BY <2>1, <2>2
<1>5. Len(u) \in Nat \ {0} /\ Len(v) \in Nat \ {0}
  BY <1>1
<1> QED
  BY <1>3, <1>4, <1>5, Zenon DEF u, v, ls

(* A line of either half shows its node.                                   *)
LEMMA LineOfHalf ==
  ASSUME NEW tree, GoodTree(tree), NEW d \in Directions,
         NEW p \in 1..Len(LinesOf(tree, d)), NEW y, y = LinesOf(tree, d)[p]
  PROVE  /\ y \in Line /\ Shows(tree[d], d, y)
         /\ Of(y) \in DOMAIN tree[d]
         /\ p = 1 => Of(y) = 1
         /\ p # 1 => Of(y) # 1
<1> DEFINE ls == LinesOf(tree, d)
<1>1. GoodHalf(tree[d])
  BY DEF GoodTree
<1>2. ls = Below(tree[d], d)[1]
  BY LinesOfIsBelow, Zenon
<1> HIDE DEF ls
<1>3. /\ ls \in Seq(LinesFrom(tree[d], d, 1)) /\ Len(ls) \in Nat /\ Of(ls[1]) = 1
      /\ \A q \in 2..Len(ls) : Of(ls[q]) # 1
      /\ DOMAIN tree[d] = 1..Len(tree[d])
  <2>1. RootComesFirst(tree[d], d, ls)
    BY <1>1, <1>2, HalfLines
  <2> QED
    BY <2>1, Zenon DEF RootComesFirst
<1>4. y \in LinesFrom(tree[d], d, 1)
  <2>1. p \in 1..Len(ls) /\ y = ls[p]
    BY DEF ls
  <2> QED
    BY <1>3, <2>1
<1>5. y \in Line /\ Shows(tree[d], d, y) /\ Of(y) \in DOMAIN tree[d]
  BY <1>3, <1>4, Zenon DEF LinesFrom
<1>6. p = 1 \/ p \in 2..Len(ls)
  BY <1>3 DEF ls
<1>7. 1 \notin 2..Len(ls)
  BY <1>3
<1> QED
  BY <1>3, <1>5, <1>6, <1>7, Zenon DEF ls

(* hierarchy_tree.py: a line's handle finds the node that it shows.        *)
LEMMA HandleFindsNode ==
  ASSUME NEW tree, GoodTree(tree), NEW s \in DOMAIN HierarchyToLines(tree),
         NEW y, y = HierarchyToLines(tree)[s]
  PROVE  /\ y \in Line
         /\ tree[IF y.handle >= 0 THEN "down" ELSE "up"][Of(y)].symbol = y.symbol
         /\ y.indent = 0 => y.symbol = tree["up"][1].symbol
         /\ y.symbol \in Symbols
<1>0. "up" \in Directions /\ "down" \in Directions
  BY DEF Directions
<1>1. tree["up"][1].symbol = tree["down"][1].symbol
  BY DEF GoodTree
<1>2. CASE s <= Len(LinesOf(tree, "up"))
  <2>1. PICK p : FromUpper(tree, s, p)
    BY <1>2, TreeLines, Zenon
  <2>2. /\ y \in Line /\ Shows(tree["up"], "up", y)
    BY <1>0, <2>1, LineOfHalf, Zenon DEF FromUpper
  <2>3. /\ y.handle \in Int /\ y.symbol \in Symbols /\ y.handle <= 0
        /\ y.symbol = tree["up"][Of(y)].symbol
        /\ y.handle = 0 => Of(y) = 1
        /\ y.indent = 0 => Of(y) = 1
    BY <2>2 DEF Shows, Line
  <2>4. y.handle >= 0 => y.handle = 0
    BY <2>3
  <2>5. y.handle >= 0 => tree["down"][Of(y)].symbol = y.symbol
    BY <1>1, <2>3, <2>4, Zenon
  <2> QED
    BY <2>2, <2>3, <2>5, Zenon
<1>3. CASE ~(s <= Len(LinesOf(tree, "up")))
  <2>1. PICK p : FromLower(tree, s, p)
    BY <1>3, TreeLines, Zenon
  <2>2. p \in 1..Len(LinesOf(tree, "down"))
    BY <2>1, TreeLines DEF FromLower
  <2>3. /\ y \in Line /\ Shows(tree["down"], "down", y)
    BY <1>0, <2>1, <2>2, LineOfHalf, Zenon DEF FromLower
  <2>4. /\ y.handle \in Int /\ y.symbol \in Symbols /\ y.handle >= 0
        /\ y.symbol = tree["down"][Of(y)].symbol
        /\ y.indent = 0 => Of(y) = 1
    BY <2>3 DEF Shows, Line
  <2> QED
    BY <1>1, <2>3, <2>4, Zenon
<1> QED
  BY <1>2, <1>3

-----------------------------------------------------------------------------
(* A tree of which the node x of one half has been expanded.               *)
IsUpdate(tree2, tree, x, items, d) ==
  /\ GoodTree(tree2)
  /\ tree2["up"][1].symbol = tree["up"][1].symbol
  /\ tree2[d] = Extended(tree[d], x, items)
  /\ \A e \in Directions : e # d => tree2[e] = tree[e]

LEMMA UpdateKeepsTree ==
  ASSUME NEW tree, GoodTree(tree), NEW d \in Directions,
         NEW x \in DOMAIN tree[d], tree[d][x].references = Unresolved,
         tree[d][x].locations # 0, NEW items \in Seq(Symbols),
         NEW tree2, tree2 = UpdateHierarchy(tree, x, items, d)
  PROVE  IsUpdate(tree2, tree, x, items, d)
<1> DEFINE half2 == Extended(tree[d], x, items)
<1>1. /\ DOMAIN tree = Directions /\ GoodHalf(tree[d]) /\ Forked(tree[d], d)
  BY DEF GoodTree
<1>2. tree2 = [tree EXCEPT ![d] = half2]
  BY Zenon DEF UpdateHierarchy, Extended
<1>3. Keeps(half2, tree[d], x, items)
  BY <1>1, ExtendedKeeps
<1>4. Forked(half2, d)
  BY <1>1, ForkedKept
<1>5. GoodHalf(half2) /\ half2[1].symbol = tree[d][1].symbol
  <2>1. 1 \in DOMAIN tree[d]
    BY <1>1 DEF GoodHalf
  <2> QED
    BY <1>3, <2>1, Zenon DEF Keeps
<1> HIDE DEF half2
<1>6. /\ DOMAIN tree2 = Directions /\ tree2[d] = half2
      /\ \A e \in Directions : e # d => tree2[e] = tree[e]
  BY <1>1, <1>2
<1>7. \A e \in Directions : /\ GoodHalf(tree2[e]) /\ Forked(tree2[e], e)
                            /\ tree2[e][1].symbol = tree[e][1].symbol
  <2> SUFFICES ASSUME NEW e \in Directions
               PROVE  /\ GoodHalf(tree2[e]) /\ Forked(tree2[e], e)
                      /\ tree2[e][1].symbol = tree[e][1].symbol
    OBVIOUS
  <2>1. CASE e = d
    BY <1>4, <1>5, <1>6, <2>1
  <2>2. CASE e # d
    BY <1>6, <2>2 DEF GoodTree
  <2> QED
    BY <2>1, <2>2
<1>8. "up" \in Directions /\ "down" \in Directions
  BY DEF Directions
<1>9. tree2["up"][1].symbol = tree["up"][1].symbol /\ tree2["down"][1].symbol = tree["down"][1].symbol
  BY <1>7, <1>8
<1>10. tree["up"][1].symbol = tree["down"][1].symbol
  BY DEF GoodTree
<1>11. GoodTree(tree2)
  BY <1>6, <1>7, <1>9, <1>10 DEF GoodTree
<1> QED
  BY <1>6, <1>9, <1>11 DEF half2, IsUpdate

(* The lines of that half: those of x stay, so many come behind them.      *)
LEMMA HalfGrows ==
  ASSUME NEW tree, GoodTree(tree), NEW d \in Directions,
         NEW x \in DOMAIN tree[d], tree[d][x].references = Unresolved,
         tree[d][x].locations # 0, NEW items \in Seq(Symbols),
         NEW tree2, IsUpdate(tree2, tree, x, items, d),
         NEW p \in 1..Len(LinesOf(tree, d)), Of(LinesOf(tree, d)[p]) = x
  PROVE  /\ Offset(items, "up") \in Nat
         /\ Len(LinesOf(tree2, d)) = Len(LinesOf(tree, d)) + Offset(items, "up")
         /\ LinesOf(tree2, d)[p] = LinesOf(tree, d)[p]
<1> DEFINE half == tree[d]
           half2 == tree2[d]
           ls == LinesOf(tree, d)
           ls2 == LinesOf(tree2, d)
           added == ReferredTo(half2, Below(half2, d), x)
           later == (Len(half) + 1)..(Len(half) + Len(items))
<1>1. GoodHalf(half) /\ Forked(half, d)
  BY DEF GoodTree
<1>2. half2 = Extended(half, x, items)
  BY DEF IsUpdate
<1>3. ls = Below(half, d)[1] /\ ls2 = Below(half2, d)[1]
  BY LinesOfIsBelow, Zenon
<1>4. added \in Seq(Line) /\ \A i \in DOMAIN half :
        Grown(Below(half, d)[i], Below(half2, d)[i], x, Len(added), later)
  BY <1>1, <1>2, Growth
<1>5. Len(added) = Offset(items, "up")
  BY <1>1, <1>2, AddedIsOffset
<1> HIDE DEF ls, ls2, added
<1>6. RootComesFirst(half, d, ls)
  BY <1>1, <1>3, HalfLines
<1>7. ls \in Seq(Line) /\ 1 \in DOMAIN half
  BY <1>6, Zenon DEF RootComesFirst
<1>8. p \in DOMAIN ls /\ Of(ls[p]) = x
  BY <1>7 DEF ls
<1>9. x \in Kin(ls)
  BY <1>8, Zenon DEF Kin
<1>10. Grown(ls, ls2, x, Len(added), later)
  BY <1>3, <1>4, <1>7
<1>11. Len(ls2) = Len(ls) + Len(added) /\ ls2[p] = ls[p]
  BY <1>8, <1>9, <1>10, Zenon DEF Grown
<1>12. Len(added) \in Nat
  BY <1>4
<1> QED
  BY <1>5, <1>11, <1>12 DEF ls, ls2

(* Where a line of a tree is.                                              *)
InUpper(tree, s) == s <= Len(LinesOf(tree, "up"))

LEMMA LineIsHere ==
  ASSUME NEW tree, GoodTree(tree), NEW s \in DOMAIN HierarchyToLines(tree),
         NEW y, y = HierarchyToLines(tree)[s]
  PROVE  /\ y \in Line
         /\ InUpper(tree, s) =>
              /\ Len(LinesOf(tree, "up")) + 1 - s \in 1..Len(LinesOf(tree, "up"))
              /\ y = LinesOf(tree, "up")[Len(LinesOf(tree, "up")) + 1 - s]
              /\ y.handle <= 0 /\ Of(y) \in DOMAIN tree["up"]
              /\ tree["up"][Of(y)].locations # 0
         /\ ~InUpper(tree, s) =>
              /\ s - Len(LinesOf(tree, "up")) + 1 \in 2..Len(LinesOf(tree, "down"))
              /\ y = LinesOf(tree, "down")[s - Len(LinesOf(tree, "up")) + 1]
              /\ y.handle > 0 /\ Of(y) \in DOMAIN tree["down"]
              /\ tree["down"][Of(y)].locations # 0
         /\ y.handle = 0 => Of(y) = 1
<1>0. "up" \in Directions /\ "down" \in Directions
  BY DEF Directions
<1>1. CASE InUpper(tree, s)
  <2> DEFINE p == Len(LinesOf(tree, "up")) + 1 - s
  <2>1. p \in 1..Len(LinesOf(tree, "up")) /\ y = LinesOf(tree, "up")[p]
    <3>1. FromUpper(tree, s, p)
      BY <1>1, TreeLines, Zenon DEF InUpper
    <3> QED
      BY <3>1 DEF FromUpper
  <2> HIDE DEF p
  <2>2. y \in Line /\ Shows(tree["up"], "up", y) /\ Of(y) \in DOMAIN tree["up"]
    BY <1>0, <2>1, LineOfHalf, SMTT(40)
  <2>3. y.handle <= 0 /\ (y.handle = 0 => Of(y) = 1) /\ tree["up"][Of(y)].locations # 0
    BY <2>2, Zenon DEF Shows
  <2> QED
    BY <1>1, <2>1, <2>2, <2>3, Zenon DEF p
<1>2. CASE ~InUpper(tree, s)
  <2> DEFINE p == s - Len(LinesOf(tree, "up")) + 1
  <2>1. p \in 2..Len(LinesOf(tree, "down")) /\ y = LinesOf(tree, "down")[p]
    <3>1. FromLower(tree, s, p)
      BY <1>2, TreeLines, Zenon DEF InUpper
    <3> QED
      BY <3>1 DEF FromLower
  <2> HIDE DEF p
  <2>2. p \in 1..Len(LinesOf(tree, "down")) /\ p # 1
    BY <2>1, TreeLines
  <2>3. /\ y \in Line /\ Shows(tree["down"], "down", y) /\ Of(y) \in DOMAIN tree["down"]
        /\ Of(y) # 1
    <3>1. y \in Line /\ Shows(tree["down"], "down", y) /\ Of(y) \in DOMAIN tree["down"]
      BY <1>0, <2>1, <2>2, LineOfHalf, Zenon
    <3>2. Of(y) # 1
      BY <1>0, <2>1, <2>2, LineOfHalf
    <3> QED
      BY <3>1, <3>2
  <2>4. /\ y.handle \in Int /\ y.handle >= 0 /\ y.handle # 0
        /\ tree["down"][Of(y)].locations # 0
    BY <2>3 DEF Shows, Line
  <2>5. y.handle > 0
    BY <2>4
  <2> QED
    BY <1>2, <2>1, <2>3, <2>4, <2>5, Zenon DEF p
<1> QED
  BY <1>1, <1>2, Zenon

(* A line of an updated tree that is where the same line was.              *)
LEMMA SameUpperLine ==
  ASSUME NEW tree, GoodTree(tree), NEW p \in 1..Len(LinesOf(tree, "up"))
  PROVE  /\ Len(LinesOf(tree, "up")) + 1 - p \in DOMAIN HierarchyToLines(tree)
         /\ HierarchyToLines(tree)[Len(LinesOf(tree, "up")) + 1 - p] = LinesOf(tree, "up")[p]
<1> DEFINE s == Len(LinesOf(tree, "up")) + 1 - p
<1>1. /\ Len(LinesOf(tree, "up")) \in Nat \ {0} /\ Len(LinesOf(tree, "down")) \in Nat \ {0}
      /\ DOMAIN HierarchyToLines(tree) =
           1..(Len(LinesOf(tree, "up")) + Len(LinesOf(tree, "down")) - 1)
  BY TreeLines, Zenon
<1>2. s \in DOMAIN HierarchyToLines(tree) /\ s <= Len(LinesOf(tree, "up"))
      /\ Len(LinesOf(tree, "up")) + 1 - s = p
  BY <1>1
<1>3. FromUpper(tree, s, Len(LinesOf(tree, "up")) + 1 - s)
  BY <1>2, TreeLines, Zenon
<1> QED
  BY <1>2, <1>3 DEF FromUpper

LEMMA SameLowerLine ==
  ASSUME NEW tree, GoodTree(tree), NEW p \in 2..Len(LinesOf(tree, "down"))
  PROVE  /\ Len(LinesOf(tree, "up")) + p - 1 \in DOMAIN HierarchyToLines(tree)
         /\ HierarchyToLines(tree)[Len(LinesOf(tree, "up")) + p - 1] = LinesOf(tree, "down")[p]
<1> DEFINE s == Len(LinesOf(tree, "up")) + p - 1
<1>1. /\ Len(LinesOf(tree, "up")) \in Nat \ {0} /\ Len(LinesOf(tree, "down")) \in Nat \ {0}
      /\ DOMAIN HierarchyToLines(tree) =
           1..(Len(LinesOf(tree, "up")) + Len(LinesOf(tree, "down")) - 1)
  BY TreeLines, Zenon
<1>2. s \in DOMAIN HierarchyToLines(tree) /\ ~(s <= Len(LinesOf(tree, "up")))
      /\ s - Len(LinesOf(tree, "up")) + 1 = p
  BY <1>1
<1>3. FromLower(tree, s, s - Len(LinesOf(tree, "up")) + 1)
  BY <1>2, TreeLines, Zenon
<1> QED
  BY <1>2, <1>3 DEF FromLower

(* youcompleteme.py, UpdateCurrentHierarchy: the offset leads from the line*)
(* of the expanded node to the same line of the lines that there are then. *)
LEMMA OffsetFindsLine ==
  ASSUME NEW tree, GoodTree(tree), NEW d \in Directions,
         NEW s \in DOMAIN HierarchyToLines(tree),
         NEW y, y = HierarchyToLines(tree)[s], ~UpdateChangesRoot(y.handle, d),
         NEW x, x = Of(y), tree[d][x].references = Unresolved, NEW items \in Seq(Symbols),
         NEW tree2, tree2 = UpdateHierarchy(tree, x, items, d)
  PROVE  /\ IsUpdate(tree2, tree, x, items, d)
         /\ s + Offset(items, d) \in DOMAIN HierarchyToLines(tree2)
         /\ HierarchyToLines(tree2)[s + Offset(items, d)] = y
<1> DEFINE u == LinesOf(tree, "up")
           v == LinesOf(tree, "down")
           u2 == LinesOf(tree2, "up")
           v2 == LinesOf(tree2, "down")
<1>1. /\ Len(u) \in Nat \ {0} /\ Len(v) \in Nat \ {0}
      /\ DOMAIN HierarchyToLines(tree) = 1..(Len(u) + Len(v) - 1)
  BY TreeLines, Zenon
<1>2. /\ y \in Line /\ y.handle \in Int
      /\ s <= Len(u) => /\ Len(u) + 1 - s \in 1..Len(u) /\ y = u[Len(u) + 1 - s]
                        /\ y.handle <= 0 /\ x \in DOMAIN tree["up"]
                        /\ tree["up"][x].locations # 0
      /\ ~(s <= Len(u)) => /\ s - Len(u) + 1 \in 2..Len(v) /\ y = v[s - Len(u) + 1]
                           /\ y.handle > 0 /\ x \in DOMAIN tree["down"]
                           /\ tree["down"][x].locations # 0
      /\ y.handle = 0 => x = 1
  <2>1. y \in Line /\ (y.handle = 0 => x = 1)
    BY LineIsHere, Zenon
  <2>2. y.handle \in Int
    BY <2>1 DEF Line
  <2>3. s <= Len(u) => /\ Len(u) + 1 - s \in 1..Len(u) /\ y = u[Len(u) + 1 - s]
                       /\ y.handle <= 0 /\ x \in DOMAIN tree["up"]
                       /\ tree["up"][x].locations # 0
    BY LineIsHere, Zenon DEF InUpper
  <2>4. ~(s <= Len(u)) => /\ s - Len(u) + 1 \in 2..Len(v) /\ y = v[s - Len(u) + 1]
                          /\ y.handle > 0 /\ x \in DOMAIN tree["down"]
                          /\ tree["down"][x].locations # 0
    BY LineIsHere, Zenon DEF InUpper
  <2> QED
    BY <2>1, <2>2, <2>3, <2>4, Zenon
<1>3. \A e \in Directions : 1 \in DOMAIN tree[e] /\ tree[e][1].locations # 0
  BY DEF GoodTree, GoodHalf
<1>4. s \in Nat
  BY <1>1
<1>5. \A e \in Directions : e # d => LinesOf(tree2, e) = LinesOf(tree, e) \/ ~IsUpdate(tree2, tree, x, items, d)
  <2> SUFFICES ASSUME NEW e \in Directions, e # d, IsUpdate(tree2, tree, x, items, d)
               PROVE  LinesOf(tree2, e) = LinesOf(tree, e)
    BY Zenon
  <2>1. tree2[e] = tree[e]
    BY Zenon DEF IsUpdate
  <2>2. LinesOf(tree2, e) = Below(tree2[e], e)[1] /\ LinesOf(tree, e) = Below(tree[e], e)[1]
    BY LinesOfIsBelow, Zenon
  <2> QED
    BY <2>1, <2>2, Zenon
<1>6. d = "up" \/ d = "down"
  BY DEF Directions
<1>7. "up" \in Directions /\ "down" \in Directions /\ "up" # "down"
  BY DEF Directions
<1> HIDE DEF u, v, u2, v2
<1>8. CASE d = "up"
  <2> DEFINE p == Len(u) + 1 - s
             m == Offset(items, "up")
  <2>1. ~(y.handle > 0)
    BY <1>8, Zenon DEF UpdateChangesRoot
  <2>2. p \in 1..Len(u) /\ y = u[p] /\ x \in DOMAIN tree[d] /\ tree[d][x].locations # 0
    BY <1>2, <1>8, <2>1
  <2>3. IsUpdate(tree2, tree, x, items, d)
    BY <2>2, UpdateKeepsTree
  <2> HIDE DEF p
  <2>4. m \in Nat /\ Len(u2) = Len(u) + m /\ u2[p] = u[p]
    <3>1. p \in 1..Len(LinesOf(tree, d)) /\ Of(LinesOf(tree, d)[p]) = x
      BY <1>8, <2>2 DEF u
    <3>2. /\ Offset(items, "up") \in Nat
          /\ Len(LinesOf(tree2, d)) = Len(LinesOf(tree, d)) + Offset(items, "up")
          /\ LinesOf(tree2, d)[p] = LinesOf(tree, d)[p]
      BY <2>2, <2>3, <3>1, HalfGrows
    <3> QED
      BY <1>8, <3>2 DEF u, u2
  <2> HIDE DEF m
  <2>5. p \in 1..Len(u2) /\ s + m = Len(u2) + 1 - p /\ s + m \in Nat /\ y = u2[p]
    BY <1>1, <1>4, <2>2, <2>4, SMTT(40) DEF p
  <2>6. GoodTree(tree2)
    BY <2>3, Zenon DEF IsUpdate
  <2>7. s + m \in DOMAIN HierarchyToLines(tree2) /\ HierarchyToLines(tree2)[s + m] = y
    <3>1. /\ Len(u2) + 1 - p \in DOMAIN HierarchyToLines(tree2)
          /\ HierarchyToLines(tree2)[Len(u2) + 1 - p] = u2[p]
      BY <2>5, <2>6, SameUpperLine, Zenon DEF u2
    <3> QED
      BY <2>5, <3>1, Zenon
  <2> QED
    BY <1>8, <2>3, <2>7 DEF m
<1>9. CASE d = "down"
  <2>1. Offset(items, d) = 0
    BY <1>7, <1>9, Zenon DEF Offset
  <2>2. ~(y.handle < 0)
    BY <1>9, Zenon DEF UpdateChangesRoot
  <2>3. x \in DOMAIN tree[d] /\ tree[d][x].locations # 0
    <3>1. CASE s <= Len(u)
      <4>1. y.handle = 0
        BY <1>2, <2>2, <3>1
      <4> QED
        BY <1>2, <1>3, <4>1, Zenon
    <3>2. CASE ~(s <= Len(u))
      BY <1>2, <1>9, <3>2, Zenon
    <3> QED
      BY <3>1, <3>2, Zenon
  <2>4. IsUpdate(tree2, tree, x, items, d)
    BY <2>3, UpdateKeepsTree
  <2>5. GoodTree(tree2) /\ u2 = u
    BY <1>5, <1>7, <1>9, <2>4, Zenon DEF IsUpdate, u, u2
  <2>6. s \in DOMAIN HierarchyToLines(tree2) /\ HierarchyToLines(tree2)[s] = y
    <3>1. CASE s <= Len(u)
      <4> DEFINE p == Len(u) + 1 - s
      <4>1. p \in 1..Len(u2) /\ y = u2[p] /\ s = Len(u2) + 1 - p
        BY <1>1, <1>2, <1>4, <2>5, <3>1
      <4> HIDE DEF p
      <4>2. /\ Len(u2) + 1 - p \in DOMAIN HierarchyToLines(tree2)
            /\ HierarchyToLines(tree2)[Len(u2) + 1 - p] = u2[p]
        BY <2>5, <4>1, SameUpperLine, Zenon DEF u2
      <4> QED
        BY <4>1, <4>2, Zenon
    <3>2. CASE ~(s <= Len(u))
      <4> DEFINE p == s - Len(u) + 1
                 m == Offset(items, "up")
      <4>1. p \in 2..Len(v) /\ y = v[p] /\ s = Len(u2) + p - 1
        BY <1>1, <1>2, <1>4, <2>5, <3>2
      <4> HIDE DEF p, m
      <4>2. m \in Nat /\ Len(v2) = Len(v) + m /\ v2[p] = v[p]
        <5>1. p \in 1..Len(LinesOf(tree, d)) /\ Of(LinesOf(tree, d)[p]) = x
          <6>1. p \in 1..Len(v) /\ Of(v[p]) = x
            BY <1>1, <4>1
          <6> QED
            BY <1>9, <6>1 DEF v
        <5>2. /\ Offset(items, "up") \in Nat
              /\ Len(LinesOf(tree2, d)) = Len(LinesOf(tree, d)) + Offset(items, "up")
              /\ LinesOf(tree2, d)[p] = LinesOf(tree, d)[p]
          BY <2>3, <2>4, <5>1, HalfGrows
        <5>3. v = LinesOf(tree, d) /\ v2 = LinesOf(tree2, d)
          BY <1>9 DEF v, v2
        <5> QED
          BY <5>2, <5>3 DEF m
      <4>3. p \in 2..Len(v2) /\ y = v2[p]
        BY <1>1, <4>1, <4>2
      <4> QED
        <5>1. /\ Len(u2) + p - 1 \in DOMAIN HierarchyToLines(tree2)
              /\ HierarchyToLines(tree2)[Len(u2) + p - 1] = v2[p]
          BY <2>5, <4>3, SameLowerLine, Zenon DEF u2, v2
        <5> QED
          BY <4>1, <4>3, <5>1
    <3> QED
      BY <3>1, <3>2, Zenon
  <2>7. s + Offset(items, d) = s
    BY <1>4, <2>1
  <2> QED
    BY <2>4, <2>6, <2>7
<1> QED
  BY <1>6, <1>8, <1>9, Zenon

-----------------------------------------------------------------------------
(* SetRootNode makes a tree; its root is on the first line without indent. *)
LEMMA RootTreeIsGood ==
  ASSUME NEW symbol \in Symbols, NEW tree, tree = RootTree(symbol)
  PROVE  /\ GoodTree(tree) /\ tree["up"][1].symbol = symbol
         /\ \A d \in Directions : 1 \in DOMAIN tree[d] /\ tree[d][1].references = Unresolved
<1> DEFINE root == Node(symbol, 0, 1)
           half == <<root>>
<1>1. /\ root \in HierarchyNode /\ root.symbol = symbol /\ root.distance = 0
      /\ root.locations = 1 /\ root.references = Unresolved
  BY HandlesAssumption DEF Node, HierarchyNode
<1> HIDE DEF root
<1>2. half \in Seq(HierarchyNode) /\ Len(half) = 1 /\ DOMAIN half = {1} /\ half[1] = root
  BY <1>1
<1>3. \A d \in Directions : tree[d] = half /\ DOMAIN tree = Directions
  BY DEF RootTree, root
<1>4. "up" \in Directions /\ "down" \in Directions
  BY DEF Directions
<1> HIDE DEF half
<1>5. GoodHalf(half)
  <2>1. half # <<>>
    BY DEF half
  <2>2. \A i \in DOMAIN half : i = 1 /\ half[i] = root
    BY <1>2
  <2>3. half \in Seq(HierarchyNode) /\ half[1] = root
    BY <1>2
  <2>4. \A i \in DOMAIN half : half[i].distance = 0 <=> i = 1
    BY <1>1, <2>2
  <2>5. \A i \in DOMAIN half : half[i].references = Unresolved
    BY <1>1, <2>2
  <2>6. half[1].locations = 1
    BY <1>1, <2>3
  <2>7. \A i \in DOMAIN half : half[i].references # Unresolved =>
          Range(half[i].references) \subseteq (i + 1)..Len(half)
    BY <2>5, Zenon
  <2> QED
    BY <2>1, <2>3, <2>4, <2>6, <2>7, Zenon DEF GoodHalf
<1>6. \A d \in Directions : Forked(half, d)
  BY <1>1, <1>2, Zenon DEF Forked
<1> QED
  BY <1>1, <1>2, <1>3, <1>4, <1>5, <1>6 DEF GoodTree

LEMMA RootLineShows ==
  ASSUME NEW tree, GoodTree(tree), NEW ls, ls = HierarchyToLines(tree)
  PROVE  RootLine(ls) \in DOMAIN ls /\ ls[RootLine(ls)].symbol = tree["up"][1].symbol
<1> DEFINE S == {i \in DOMAIN ls : ls[i].indent = 0}
           u == LinesOf(tree, "up")
<1>1. /\ Len(u) \in Nat \ {0} /\ Len(LinesOf(tree, "down")) \in Nat \ {0}
      /\ DOMAIN ls = 1..(Len(u) + Len(LinesOf(tree, "down")) - 1)
  BY TreeLines, Zenon
<1>2. "up" \in Directions
  BY DEF Directions
<1>3. 1 \in 1..Len(u) /\ Len(u) \in Nat /\ Len(u) = Len(u) + 1 - 1
  BY <1>1
<1>4. Len(u) \in DOMAIN ls /\ ls[Len(u)] = u[1]
  BY <1>3, SameUpperLine
<1>5. Shows(tree["up"], "up", u[1]) /\ Of(u[1]) = 1
  <2>1. Shows(tree["up"], "up", u[1])
    BY <1>2, <1>3, LineOfHalf
  <2>2. Of(u[1]) = 1
    BY <1>2, <1>3, LineOfHalf
  <2> QED
    BY <2>1, <2>2
<1>6. u[1].indent = 0
  BY <1>5, Zenon DEF Shows
<1> HIDE DEF u
<1>7. Len(u) \in S /\ S \in SUBSET Nat
  BY <1>1, <1>4, <1>6
<1> HIDE DEF S
<1>8. PICK n \in S : \A k \in S : n <= k
  BY <1>7, LeastNumber
<1>9. RootLine(ls) = Min(S)
  BY DEF RootLine, S
<1>10. Min(S) \in S
  BY <1>8 DEF Min
<1>11. RootLine(ls) \in DOMAIN ls /\ ls[RootLine(ls)].indent = 0
  BY <1>9, <1>10 DEF S
<1> QED
  BY <1>11, HandleFindsNode

-----------------------------------------------------------------------------
HierarchySpec == InitHierarchy /\ [][NextHierarchy]_hierarchy

HInv ==
  /\ menu \in BOOLEAN /\ emptied \in BOOLEAN
  /\ lines \in Seq(Line)
  /\ menu => select \in DOMAIN lines
  /\ IF menu /\ ~emptied THEN GoodTree(nodes) /\ lines = HierarchyToLines(nodes)
     ELSE \A d \in Directions : nodes[d] = <<>>

LEMMA AnswersAreLists == Answers \subseteq Seq(Symbols)
<1> SUFFICES ASSUME NEW items \in Answers PROVE items \in Seq(Symbols)
  OBVIOUS
<1>1. PICK n \in 0..MaxAnswer : items \in [1..n -> Symbols]
  BY DEF Answers
<1>2. n \in Nat
  BY NodesAssumption
<1> QED
  BY <1>1, <1>2

(* The selected line, while there is a tree.                               *)
LEMMA SelectedLine ==
  ASSUME HInv, menu, ~emptied
  PROVE  /\ GoodTree(nodes) /\ lines = HierarchyToLines(nodes)
         /\ select \in DOMAIN HierarchyToLines(nodes)
         /\ NodeOf(SelectedHandle).symbol = lines[select].symbol
         /\ lines[select].symbol \in Symbols
         /\ HandleToIndex(SelectedHandle) + 1 = Of(lines[select])
         /\ SelectedHandle = lines[select].handle
<1>1. GoodTree(nodes) /\ lines = HierarchyToLines(nodes) /\ select \in DOMAIN HierarchyToLines(nodes)
  BY DEF HInv
<1> DEFINE y == lines[select]
<1>2. SelectedHandle = y.handle /\ HandleToIndex(SelectedHandle) + 1 = Of(y)
  BY Zenon DEF SelectedHandle, Of
<1>3. y = HierarchyToLines(nodes)[select]
  BY <1>1
<1> HIDE DEF y
<1>4. /\ nodes[IF y.handle >= 0 THEN "down" ELSE "up"][Of(y)].symbol = y.symbol
      /\ y.symbol \in Symbols
  BY <1>1, <1>3, HandleFindsNode
<1>5. NodeOf(SelectedHandle).symbol = y.symbol
  BY <1>2, <1>4 DEF NodeOf, Of
<1> QED
  BY <1>1, <1>2, <1>4, <1>5 DEF y

(* A tree, its lines and a selection among them.                           *)
LEMMA TreeIsShown ==
  ASSUME menu', ~emptied', menu' \in BOOLEAN, emptied' \in BOOLEAN, GoodTree(nodes'),
         lines' = HierarchyToLines(nodes'), select' \in DOMAIN lines'
  PROVE  HInv'
<1>1. lines' \in Seq(Line)
  BY TreeLines
<1> QED
  BY <1>1 DEF HInv

LEMMA HierarchyInitHolds == InitHierarchy => HInv
<1> SUFFICES ASSUME InitHierarchy PROVE HInv
  OBVIOUS
<1>1. menu = FALSE /\ emptied = FALSE /\ lines = <<>> /\ \A d \in Directions : nodes[d] = <<>>
  BY DEF InitHierarchy
<1>2. lines \in Seq(Line)
  BY <1>1
<1> QED
  BY <1>1, <1>2, Zenon DEF HInv

LEMMA StartHolds ==
  ASSUME NEW symbol \in Symbols, StartRequest(symbol)
  PROVE  HInv'
<1>1. /\ menu' = TRUE /\ emptied' = FALSE /\ nodes' = RootTree(symbol)
      /\ lines' = HierarchyToLines(nodes') /\ select' = 1
  BY DEF StartRequest
<1>2. GoodTree(nodes')
  BY <1>1, RootTreeIsGood
<1>3. select' \in DOMAIN lines'
  BY <1>1, <1>2, TreeLines
<1> QED
  BY <1>1, <1>2, <1>3, TreeIsShown

LEMMA InvariantStays ==
  ASSUME HInv, UNCHANGED <<menu, nodes, lines, emptied>>, menu' => select' \in DOMAIN lines'
  PROVE  HInv'
<1>1. menu' = menu /\ nodes' = nodes /\ lines' = lines /\ emptied' = emptied
  OBVIOUS
<1>2. HierarchyToLines(nodes') = HierarchyToLines(nodes) /\ (GoodTree(nodes) => GoodTree(nodes'))
  BY <1>1
<1>3. CASE menu /\ ~emptied
  <2>1. GoodTree(nodes') /\ lines' = HierarchyToLines(nodes')
    BY <1>1, <1>2, <1>3, Zenon DEF HInv
  <2> QED
    BY <1>1, <1>3, <2>1 DEF HInv
<1>4. CASE ~(menu /\ ~emptied)
  <2>1. \A d \in Directions : nodes'[d] = <<>>
    BY <1>1, <1>4 DEF HInv
  <2> QED
    BY <1>1, <1>4, <2>1 DEF HInv
<1> QED
  BY <1>3, <1>4

LEMMA MoveHolds ==
  ASSUME HInv, MoveSelection
  PROVE  HInv' /\ UNCHANGED lines
<1>1. menu /\ UNCHANGED <<menu, nodes, lines, emptied>> /\ select' \in 1..Len(lines)
  BY DEF MoveSelection
<1>2. select' \in DOMAIN lines'
  BY <1>1 DEF HInv
<1>3. UNCHANGED <<menu, nodes, lines, emptied>> /\ (menu' => select' \in DOMAIN lines')
  BY <1>1, <1>2
<1>4. HInv'
  BY <1>3, InvariantStays
<1> QED
  BY <1>1, <1>4

(* <Tab> on a line of the same half: the selection stays on its line.      *)
LEMMA ExpandHolds ==
  ASSUME HInv, NEW d \in Directions, Expand(d)
  PROVE  HInv' /\ lines'[select'] = lines[select]
<1> DEFINE y == lines[select]
<1>1. menu /\ ~emptied /\ UNCHANGED <<menu, emptied>>
  BY DEF Expand
<1>2. PICK items \in Answers :
        /\ ~UpdateChangesRoot(y.handle, d) /\ nodes[d][Of(y)].references = Unresolved
        /\ nodes' = UpdateHierarchy(nodes, Of(y), items, d)
        /\ lines' = HierarchyToLines(nodes')
        /\ select' = select + Offset(items, d)
  BY Zenon DEF Expand, SelectedHandle, ShouldResolveItem, Of
<1>3. /\ GoodTree(nodes) /\ y = HierarchyToLines(nodes)[select]
      /\ select \in DOMAIN HierarchyToLines(nodes)
  BY <1>1, SelectedLine
<1> HIDE DEF y
<1>4. items \in Seq(Symbols)
  BY <1>2, AnswersAreLists
<1>5. /\ IsUpdate(nodes', nodes, Of(y), items, d)
      /\ select + Offset(items, d) \in DOMAIN HierarchyToLines(nodes')
      /\ HierarchyToLines(nodes')[select + Offset(items, d)] = y
  BY <1>2, <1>3, <1>4, OffsetFindsLine
<1>6. GoodTree(nodes') /\ select' \in DOMAIN lines' /\ lines'[select'] = y
  BY <1>2, <1>5, Zenon DEF IsUpdate
<1>7. HInv'
  BY <1>1, <1>2, <1>6, TreeIsShown DEF HInv
<1> QED
  BY <1>6, <1>7 DEF y

(* On a line of the other half: it becomes the root's.                     *)
LEMMA ChangeHolds ==
  ASSUME HInv, NEW d \in Directions, ChangeRoot(d)
  PROVE  HInv' /\ lines'[select'].symbol = lines[select].symbol
<1> DEFINE tree == RootTree(NodeOf(SelectedHandle).symbol)
<1>1. menu /\ ~emptied /\ UNCHANGED <<menu, emptied>>
  BY DEF ChangeRoot
<1>2. PICK items \in Answers :
        /\ nodes' = UpdateHierarchy(tree, 1, items, d)
        /\ lines' = HierarchyToLines(nodes')
        /\ select' = RootLine(lines')
  BY Zenon DEF ChangeRoot
<1>3. /\ NodeOf(SelectedHandle).symbol = lines[select].symbol
      /\ lines[select].symbol \in Symbols
  BY <1>1, SelectedLine
<1>4. tree = RootTree(lines[select].symbol)
  BY <1>3
<1> HIDE DEF tree
<1>5. GoodTree(tree) /\ tree["up"][1].symbol = lines[select].symbol
      /\ 1 \in DOMAIN tree[d] /\ tree[d][1].references = Unresolved
  BY <1>3, <1>4, RootTreeIsGood
<1>6. items \in Seq(Symbols)
  BY <1>2, AnswersAreLists
<1>7. IsUpdate(nodes', tree, 1, items, d)
  <2>1. tree[d][1].locations # 0
    BY <1>5 DEF GoodTree, GoodHalf
  <2> QED
    BY <1>2, <1>5, <1>6, <2>1, UpdateKeepsTree
<1>8. GoodTree(nodes') /\ nodes'["up"][1].symbol = lines[select].symbol
  BY <1>5, <1>7 DEF IsUpdate
<1>9. select' \in DOMAIN lines' /\ lines'[select'].symbol = lines[select].symbol
  BY <1>2, <1>8, RootLineShows
<1>10. HInv'
  BY <1>1, <1>2, <1>8, <1>9, TreeIsShown DEF HInv
<1> QED
  BY <1>9, <1>10

LEMMA EmptyHolds ==
  ASSUME HInv, nodes' = [d \in Directions |-> <<>>], menu' \in BOOLEAN, emptied' \in BOOLEAN,
         ~menu' \/ emptied', lines' = lines, menu' => menu /\ select' = select
  PROVE  HInv'
<1>1. \A d \in Directions : nodes'[d] = <<>>
  OBVIOUS
<1> QED
  BY <1>1 DEF HInv

LEMMA HierarchyStepHolds ==
  HInv /\ [NextHierarchy]_hierarchy =>
    /\ HInv'
    /\ menu /\ menu' /\ ~emptied' /\ lines' # lines => lines'[select'].symbol = lines[select].symbol
<1> SUFFICES ASSUME HInv, [NextHierarchy]_hierarchy
             PROVE  /\ HInv'
                    /\ \/ ~menu \/ ~menu' \/ emptied' \/ lines' = lines
                       \/ lines'[select'].symbol = lines[select].symbol
  BY Zenon
<1>1. ASSUME NEW symbol \in Symbols, StartRequest(symbol)
      PROVE  HInv' /\ ~menu
  BY <1>1, StartHolds DEF StartRequest
<1>2. CASE MoveSelection
  BY <1>2, MoveHolds
<1>3. ASSUME NEW d \in Directions, Expand(d)
      PROVE  HInv' /\ lines'[select'].symbol = lines[select].symbol
  BY <1>3, ExpandHolds
<1>4. ASSUME NEW d \in Directions, ChangeRoot(d)
      PROVE  HInv' /\ lines'[select'].symbol = lines[select].symbol
  BY <1>4, ChangeHolds
<1>5. ASSUME NEW d \in Directions, FailToChangeRoot(d)
      PROVE  HInv' /\ emptied'
  <2>1. /\ nodes' = [e \in Directions |-> <<>>] /\ emptied' = TRUE
        /\ menu' = menu /\ lines' = lines /\ select' = select
    BY <1>5 DEF FailToChangeRoot
  <2>2. menu' \in BOOLEAN
    BY <2>1 DEF HInv
  <2> QED
    BY <2>1, <2>2, EmptyHolds
<1>6. CASE CloseMenu
  <2>1. /\ nodes' = [e \in Directions |-> <<>>] /\ menu' = FALSE
        /\ lines' = lines /\ emptied' = emptied
    BY <1>6 DEF CloseMenu
  <2>2. emptied' \in BOOLEAN
    BY <2>1 DEF HInv
  <2>3. HInv'
    BY <2>1, <2>2, EmptyHolds
  <2> QED
    BY <2>1, <2>3
<1>7. CASE UNCHANGED hierarchy
  <2>1. /\ menu' = menu /\ emptied' = emptied /\ lines' = lines /\ select' = select
        /\ nodes' = nodes
    BY <1>7 DEF hierarchy
  <2>2. UNCHANGED <<menu, nodes, lines, emptied>> /\ (menu' => select' \in DOMAIN lines')
    BY <2>1 DEF HInv
  <2>3. HInv'
    BY <2>2, InvariantStays
  <2> QED
    BY <2>1, <2>3
<1> QED
  BY <1>1, <1>2, <1>3, <1>4, <1>5, <1>6, <1>7, Zenon DEF NextHierarchy

LEMMA HInvGivesTypes == HInv => HierarchyTypeOK
<1> SUFFICES ASSUME HInv PROVE HierarchyTypeOK
  OBVIOUS
<1>1. ASSUME NEW d \in Directions, NEW i \in DOMAIN nodes[d]
      PROVE  /\ nodes[d][i].symbol \in Symbols
             /\ nodes[d][i].references # Unresolved =>
                  Range(nodes[d][i].references) \subseteq (i + 1)..Len(nodes[d])
  <2>1. nodes[d] # <<>>
    OBVIOUS
  <2>2. GoodHalf(nodes[d])
    BY <2>1 DEF HInv, GoodTree
  <2>3. nodes[d][i] \in HierarchyNode
    BY <2>2 DEF GoodHalf
  <2> QED
    BY <2>2, <2>3, Zenon DEF GoodHalf, HierarchyNode
<1> QED
  BY <1>1, Zenon DEF HInv, HierarchyTypeOK

LEMMA HInvFindsNode ==
  HInv /\ menu /\ ~emptied => NodeOf(SelectedHandle).symbol = lines[select].symbol
BY SelectedLine, Zenon

(* A node refers to later ones, and the selection is a line of the menu.   *)
THEOREM HierarchyTypeCorrect == HierarchySpec => []HierarchyTypeOK
BY HierarchyInitHolds, HierarchyStepHolds, HInvGivesTypes, PTL DEF HierarchySpec

(* hierarchy.vim, youcompleteme.py: whatever is expanded in whichever      *)
(* direction, and when the tree is rooted anew, the selection stays on its *)
(* item; and it finds that item's node by the handle of its line.          *)
THEOREM TheSelectionFollows == HierarchySpec => SelectionFollows
BY HierarchyInitHolds, HierarchyStepHolds, HInvFindsNode, PTL
   DEF HierarchySpec, SelectionFollows

-----------------------------------------------------------------------------
(***************************************************************************)
(* EditorSupport                                                           *)
(***************************************************************************)

LEMMA PartsBegin ==
  SupportInit => /\ InitRenderers /\ InitMessages /\ InitPresentation
                 /\ InitSignatures /\ InitFinder /\ InitHierarchy /\ InitEdits
                 /\ part \in Parts
BY Zenon DEF SupportInit

(* A step of another part leaves a part alone.                             *)
LEMMA PartsStep ==
  [SupportNext]_supportVars =>
    /\ [NextRenderers]_renderers /\ [NextMessages]_messages
    /\ [NextPresentation]_presentation /\ [NextSignatures]_signatures /\ [NextFinder]_finder
    /\ [NextHierarchy]_hierarchy /\ [NextEdits]_edits /\ UNCHANGED part
<1>1. CASE SupportNext
  <2>1. /\ part = "renderers" \/ UNCHANGED renderers
        /\ part = "messages" \/ UNCHANGED messages
        /\ part = "presentation" \/ UNCHANGED presentation
        /\ part = "signatures" \/ UNCHANGED signatures
        /\ part = "finder" \/ UNCHANGED finder
        /\ part = "hierarchy" \/ UNCHANGED hierarchy
        /\ part = "edits" \/ UNCHANGED edits
        /\ UNCHANGED part
    BY <1>1, Zenon DEF SupportNext
  <2>2. /\ part = "renderers" => NextRenderers
        /\ part = "messages" => NextMessages
        /\ part = "presentation" => NextPresentation
        /\ part = "signatures" => NextSignatures
        /\ part = "finder" => NextFinder
        /\ part = "hierarchy" => NextHierarchy
        /\ part = "edits" => NextEdits
    BY <1>1 DEF SupportNext
  <2> QED
    BY <2>1, <2>2, Zenon
<1>2. CASE UNCHANGED supportVars
  <2>1. /\ UNCHANGED renderers /\ UNCHANGED messages /\ UNCHANGED presentation
        /\ UNCHANGED signatures /\ UNCHANGED finder /\ UNCHANGED hierarchy
        /\ UNCHANGED edits /\ UNCHANGED part
    BY <1>2 DEF supportVars
  <2> QED
    BY <2>1, Zenon
<1> QED
  BY <1>1, <1>2, Zenon

LEMMA PartsOfSupport ==
  SupportSpec => /\ RenderersSpec /\ MessagesSpec /\ PresentationSpec
                 /\ SignaturesSpec /\ FinderSpec /\ HierarchySpec /\ EditsSpec
                 /\ [](part \in Parts)
<1>1. part \in Parts /\ UNCHANGED part => (part \in Parts)'
  OBVIOUS
<1> QED
  BY <1>1, PartsBegin, PartsStep, PTL
     DEF SupportSpec, RenderersSpec, MessagesSpec, PresentationSpec, SignaturesSpec, FinderSpec,
         HierarchySpec, EditsSpec

(* Every part keeps to its types.                                          *)
THEOREM SupportTypeCorrect == SupportSpec => []SupportTypeOK
<1>1. /\ part \in Parts
      /\ RenderersTypeOK /\ MessagesTypeOK /\ PresentationTypeOK /\ HierarchyTypeOK
      /\ SignaturesTypeOK /\ FinderTypeOK /\ EditsTypeOK
      => SupportTypeOK
  BY Zenon DEF SupportTypeOK
<1> QED
  BY <1>1, PartsOfSupport, RenderersTypeCorrect, MessagesTypeCorrect, PresentationTypeCorrect,
     HierarchyTypeCorrect, SignaturesTypeCorrect, FinderTypeCorrect, EditsTypeCorrect, PTL
=============================================================================
