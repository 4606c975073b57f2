-------------------------------- MODULE Finder --------------------------------
(***************************************************************************)
(* The search for symbols of the workspace (autoload/youcompleteme/        *)
(* finder.vim): while the user types, every filetype is asked again for the*)
(* symbols that match.  Requests are not cancelled and not told apart by   *)
(* their callbacks; answers come in any order, also for a search that was  *)
(* closed or whose filetypes have been left out since.                     *)
(*                                                                         *)
(* A query stands for its text; what an answer holds is abstracted to the  *)
(* query it was computed for.  Not modelled: searches of the document,     *)
(* which read one answer only, moving the selection, the spinner, and      *)
(* callbacks lost when ycmd is restarted (module Commands).                *)
(***************************************************************************)
EXTENDS Integers, FiniteSets, Bags

CONSTANTS
  Languages,         \* filetypes of the loaded buffers, all allowed
  CurrentLanguages,  \* those of the buffer that is searched from
  Absent,            \* no such key in raw_results
  Waiting,           \* raw_results[ ft ] is v:null
  MaxQueries,        \* bound: texts typed in all
  MaxToggles         \* bound: <C-f> pressed, in all

ASSUME LanguagesAssumption ==
  CurrentLanguages \subseteq Languages /\ CurrentLanguages # {}
ASSUME QueriesAssumption ==
  /\ MaxQueries \in Nat /\ MaxToggles \in Nat
  /\ {Absent, Waiting} \cap Nat = {} /\ Absent # Waiting

VARIABLES
  searching,     \* the popup is open: s:find_symbol_status.id >= 0
  query,         \* the text that was typed, numbered
  allFiletypes,  \* all_filetypes
  rawResults,    \* raw_results: the query whose answer is kept
  pending,       \* filetypes to be asked again when they have answered
  outstanding,   \* requests on their way, a bag
  results,       \* on the screen: filetypes with the query of their answer
  strayed,       \* history: filetypes with a request nothing waits for
  toggles

finder == <<searching, query, allFiletypes, rawResults, pending, outstanding,
            results, strayed, toggles>>

-----------------------------------------------------------------------------
Requests == [filetype : Languages, query : 1..MaxQueries]

GoToSymbol(filetypes, q) == SetToBag({[filetype |-> ft, query |-> q] : ft \in filetypes})

Outstanding(ft) == {r \in BagToSet(outstanding) : r.filetype = ft}

(* There is more than the one request that is waited for, if it is.        *)
MoreThan(ft, waited) ==
  IF waited
  THEN \E r, s \in Outstanding(ft) : r # s \/ outstanding[r] > 1
  ELSE Outstanding(ft) # {}

Asked(all) == IF all THEN Languages ELSE CurrentLanguages

(* Mutant: a filetype that has not answered is not asked again. *)
NonePending(raw, asked) == {}

PendingOf(raw, asked) == {ft \in asked : raw[ft] = Waiting}

(* SearchWorkspace for a new query, with raw_results as `raw' before it.   *)
SearchWorkspace(raw, q, all) ==
  LET asked == Asked(all)
  IN /\ rawResults' = [ft \in Languages |-> IF ft \in asked THEN Waiting ELSE Absent]
     /\ pending' = PendingOf(raw, asked)
     /\ outstanding' = outstanding (+) GoToSymbol({ft \in asked : raw[ft] # Waiting}, q)
     /\ strayed' = {ft \in Languages : MoreThan(ft, ft \in asked /\ raw[ft] = Waiting)}

Nowhere == [ft \in Languages |-> Absent]

(* FindSymbol: a new table, also for the callbacks of the former search.   *)
FindSymbol ==
  /\ ~searching /\ query < MaxQueries
  /\ searching' = TRUE /\ query' = query + 1 /\ allFiletypes' = TRUE
  /\ results' = {}
  /\ SearchWorkspace(Nowhere, query', TRUE)
  /\ UNCHANGED toggles

(* s:OnQueryTextChanged *)
OnQueryTextChanged ==
  /\ searching /\ query < MaxQueries
  /\ query' = query + 1
  /\ SearchWorkspace(rawResults, query', allFiletypes)
  /\ UNCHANGED <<searching, allFiletypes, results, toggles>>

(* <C-f> in s:HandleKeyPress *)
ToggleFiletypes ==
  /\ searching /\ toggles < MaxToggles
  /\ toggles' = toggles + 1
  /\ allFiletypes' = ~allFiletypes
  /\ SearchWorkspace(rawResults, query, ~allFiletypes)
  /\ UNCHANGED <<searching, query, results>>

(* s:Cancel, s:PopupClosed *)
ClosePopup ==
  /\ searching /\ searching' = FALSE
  /\ UNCHANGED <<query, allFiletypes, rawResults, pending, outstanding, results,
                 strayed, toggles>>

Collated(raw) ==
  {[filetype |-> ft, query |-> raw[ft]] : ft \in {l \in Languages : raw[l] \notin {Absent, Waiting}}}

(* s:HandleWorkspaceSymbols, s:HandleSymbolSearchResults, and              *)
(* s:SearchWorkspace for the old query: the filetypes in `pending' that    *)
(* have answered are asked for what has been typed since.                  *)
HandleWorkspaceSymbols(r) ==
  LET raw == [rawResults EXCEPT ![r.filetype] = r.query]
      again == IF searching THEN {ft \in pending : raw[ft] # Waiting} ELSE {}
  IN /\ results' = IF searching THEN Collated(raw) ELSE {}
     /\ rawResults' = [ft \in Languages |-> IF ft \in again THEN Waiting ELSE raw[ft]]
     /\ pending' = pending \ again
     /\ outstanding' = (outstanding (-) SetToBag({r})) (+) GoToSymbol(again, query)
     /\ UNCHANGED <<searching, query, allFiletypes, strayed, toggles>>

-----------------------------------------------------------------------------
InitFinder ==
  /\ searching = FALSE /\ query = 0 /\ allFiletypes = TRUE
  /\ rawResults = Nowhere /\ pending = {} /\ outstanding = EmptyBag
  /\ results = {} /\ strayed = {} /\ toggles = 0

NextFinder ==
  \/ FindSymbol \/ OnQueryTextChanged \/ ToggleFiletypes \/ ClosePopup
  \/ \E r \in BagToSet(outstanding) : HandleWorkspaceSymbols(r)

FinderSpec == InitFinder /\ [][NextFinder]_finder

FinderTypeOK ==
  /\ searching \in BOOLEAN /\ allFiletypes \in BOOLEAN
  /\ query \in 0..MaxQueries /\ toggles \in 0..MaxToggles
  /\ rawResults \in [Languages -> {Absent, Waiting} \union 1..MaxQueries]
  /\ pending \subseteq Languages /\ strayed \subseteq Languages
  /\ IsABag(outstanding) /\ BagToSet(outstanding) \subseteq Requests
  /\ results \subseteq Requests

(* finder.vim: when every answer has come, the popup shows one of every    *)
(* filetype that is searched, and for what is typed now, however the       *)
(* answers and the typing interleaved.  Only a filetype with a request from*)
(* before it was left out, or from an earlier search, may be behind: the   *)
(* source says of those that "we might still get results".                 *)
ResultsAreCurrent ==
  searching /\ outstanding = EmptyBag =>
    /\ \A r \in results : r.query = query \/ r.filetype \in strayed
    /\ Asked(allFiletypes) \subseteq {r.filetype : r \in results}
=============================================================================
