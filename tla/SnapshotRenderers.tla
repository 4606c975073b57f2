-------------------------- MODULE SnapshotRenderers --------------------------
(***************************************************************************)
(* The renderers that draw a whole answer at once and can add to it:       *)
(* VimSemanticHighlightingRenderer, NeovimSemanticHighlightingRenderer     *)
(* (semantic_highlighting_renderer.py) and DoubleBufferedVirtualTextRenderer*)
(* over the two virtual text renderers (virtual_text.py).  All of them draw*)
(* the new snapshot on a layer of its own (a property id, a namespace, a   *)
(* set of property types) before they erase the old one, and keep a record *)
(* of what they have drawn.  The questions are what the screen shows when  *)
(* drawing fails half way, and whether the record stays true to it.        *)
(***************************************************************************)
EXTENDS Integers, Sequences, FiniteSetsExt

CONSTANTS
  Styles,     \* the renderers looked at
  Marks,      \* highlights or decorations
  Unknown,    \* those whose property type is not defined (E971)
  Batches,    \* answers: sequences of marks
  MaxIds,     \* bound: property ids given out
  MaxFaults   \* bound: failures of the editor and restarts

VimSemantic == "VimSemanticHighlightingRenderer"
NeovimSemantic == "NeovimSemanticHighlightingRenderer"
VimVirtual == "VimVirtualTextRenderer"
NeovimVirtual == "NeovimVirtualTextRenderer"

ASSUME StylesAssumption ==
  Styles \subseteq {VimSemantic, NeovimSemantic, VimVirtual, NeovimVirtual}
ASSUME BatchesAssumption == Batches \subseteq Seq(Marks) /\ Unknown \subseteq Marks
ASSUME IdsAssumption == MaxIds \in Nat \ {0} /\ MaxFaults \in Nat

VARIABLES
  style,     \* the renderer of this behaviour
  screen,    \* per layer, how often each mark is on the screen
  active,    \* _property_id, _active_namespace_index, _active_renderer_index
  nextId,    \* _NEXT_TEXT_PROPERTY_ID, which outlives the renderers
  record,    \* _rendered_highlights, _rendered_decoration_counts
  fresh,     \* nothing was rendered yet: ScrollingBufferRange will not preserve
  wanted,    \* history: what the screen should show
  leaked,    \* history: a former renderer's marks, or some of a failed addition
  faults     \* failures and restarts so far

renderers == <<style, screen, active, nextId, record, fresh, wanted, leaked, faults>>

-----------------------------------------------------------------------------
Semantic == style \in {VimSemantic, NeovimSemantic}
Layers == 0..MaxIds
NoMarks == [m \in Marks |-> 0]

MarksShown == [m \in Marks |-> MapThenSumSet(LAMBDA l : screen[l][m], Layers)]

(* How often each mark occurs at some of the positions of an answer.       *)
Tally(batch, some) == [m \in Marks |-> Cardinality({i \in some : batch[i] = m})]
WithMarks(f, g) == [m \in Marks |-> f[m] + g[m]]
MostMarks(f, g) == [m \in Marks |-> IF f[m] < g[m] THEN g[m] ELSE f[m]]

(* Parts of an answer are sets of its positions.  Highlights of an         *)
(* undefined type are left out and reported.                               *)
Supported(batch) == {i \in DOMAIN batch : Semantic => batch[i] \notin Unknown}

(* What is still to be drawn if the marks of `record' are preserved: the   *)
(* highlights that are not recorded; the decorations that occur more often *)
(* than recorded, the last of each.                                        *)
Unseen(batch) ==
  IF Semantic
  THEN {i \in Supported(batch) : record[batch[i]] = 0}
  ELSE {i \in DOMAIN batch : Tally(batch, 1..i)[batch[i]] > record[batch[i]]}

(* The record keeps one entry of a highlight, and counts decorations.      *)
Recorded(counts) ==
  IF Semantic THEN [m \in Marks |-> IF counts[m] > 0 THEN 1 ELSE 0] ELSE counts

(* The layer the next snapshot is drawn on. *)
NextLayer == IF style = VimSemantic THEN nextId ELSE 1 - active

IdsAfter == IF style = VimSemantic THEN nextId + 1 ELSE nextId

(* The virtual text renderer clears it first; the others take it as empty. *)
BaseLayer(layer) == IF Semantic THEN screen[layer] ELSE NoMarks

-----------------------------------------------------------------------------
(* Render( ..., preserve_existing = False ): draw, then erase the former   *)
(* snapshot.                                                               *)
RenderSnapshot(batch) ==
  LET drawn == Tally(batch, Supported(batch))
  IN /\ nextId' = IdsAfter /\ nextId' <= MaxIds
     /\ screen' = [screen EXCEPT ![NextLayer] = WithMarks(BaseLayer(NextLayer), drawn),
                                 ![active] = NoMarks]
     /\ active' = NextLayer
     /\ record' = Recorded(drawn)
     /\ wanted' = drawn
     /\ fresh' = FALSE
     /\ leaked' = (Semantic /\ leaked)
     /\ UNCHANGED <<style, faults>>

(* The editor raises after some of the batch: what was drawn is erased     *)
(* again, by the renderer or (in Neovim) within the batch.                 *)
ErasedLayer(layer) == [screen EXCEPT ![layer] = NoMarks]

(* Mutant: the renderer leaves what it has drawn.                          *)
FailedSnapshotKept(batch) ==
  \E n \in 0..Len(batch) :
    screen' = [screen EXCEPT ![NextLayer] =
                WithMarks(BaseLayer(NextLayer),
                          Tally(batch, {i \in Supported(batch) : i <= n}))]

FailedSnapshotErased(batch) == screen' = ErasedLayer(NextLayer)

FailSnapshot(batch) ==
  /\ Supported(batch) # {}
  /\ faults < MaxFaults /\ faults' = faults + 1
  /\ nextId' = IdsAfter /\ nextId' <= MaxIds
  /\ FailedSnapshotErased(batch)
  /\ UNCHANGED <<style, active, record, fresh, wanted, leaked>>

(* Render( ..., preserve_existing = True ) *)
RenderUnseen(batch) ==
  LET added == Tally(batch, Unseen(batch))
      all == Tally(batch, Supported(batch))
  IN /\ ~fresh
     /\ screen' = [screen EXCEPT ![active] = WithMarks(screen[active], added)]
     /\ record' = [m \in Marks |-> IF added[m] > 0 THEN Recorded(all)[m] ELSE record[m]]
     /\ wanted' = IF Semantic THEN WithMarks(wanted, added) ELSE MostMarks(wanted, all)
     /\ UNCHANGED <<style, active, nextId, fresh, leaked, faults>>

(* A failure while adding.  Neovim undoes the batch; Vim's highlights stay *)
(* and are recorded; Vim's virtual text stays without being recorded.      *)
FailUnseen(batch) ==
  /\ ~fresh /\ faults < MaxFaults /\ faults' = faults + 1
  /\ \E i \in Unseen(batch) :
       LET before == {j \in Unseen(batch) : j < i}
           some == Tally(batch, before)
       IN
       /\ screen' = IF style \in {NeovimSemantic, NeovimVirtual} THEN screen
                    ELSE [screen EXCEPT ![active] = WithMarks(screen[active], some)]
       /\ record' = IF style = VimSemantic THEN MostMarks(record, Recorded(some)) ELSE record
       /\ wanted' = IF style = VimSemantic THEN WithMarks(wanted, some) ELSE wanted
       /\ leaked' = (leaked \/ (style = VimVirtual /\ before # {}))
  /\ UNCHANGED <<style, active, nextId, fresh>>

(* DoubleBufferedVirtualTextRenderer.Clear: both layers. *)
ClearVirtualText ==
  /\ ~Semantic
  /\ screen' = [l \in Layers |-> NoMarks]
  /\ record' = NoMarks /\ wanted' = NoMarks /\ leaked' = FALSE
  /\ UNCHANGED <<style, active, nextId, fresh, faults>>

(* YouCompleteMe._SetUpServer makes new Buffer objects, with new renderers.*)
RenewRenderer ==
  /\ faults < MaxFaults /\ faults' = faults + 1
  /\ nextId' = IdsAfter /\ nextId' <= MaxIds
  /\ active' = IF style = VimSemantic THEN nextId ELSE 0
  /\ record' = NoMarks /\ wanted' = NoMarks
  /\ fresh' = TRUE
  /\ leaked' = (leaked \/ MarksShown # NoMarks)
  /\ UNCHANGED <<style, screen>>

-----------------------------------------------------------------------------
InitRenderers ==
  /\ style \in Styles
  /\ screen = [l \in Layers |-> NoMarks]
  /\ active = 0 /\ nextId = 1
  /\ record = NoMarks /\ wanted = NoMarks
  /\ fresh = TRUE /\ leaked = FALSE /\ faults = 0

NextRenderers ==
  \/ \E batch \in Batches :
       \/ RenderSnapshot(batch) \/ FailSnapshot(batch)
       \/ RenderUnseen(batch) \/ FailUnseen(batch)
  \/ ClearVirtualText
  \/ RenewRenderer

RenderersSpec == InitRenderers /\ [][NextRenderers]_renderers

MarkCounts == [Marks -> Nat]

RenderersTypeOK ==
  /\ style \in Styles
  /\ screen \in [Layers -> MarkCounts]
  /\ active \in Layers /\ nextId \in 1..MaxIds
  /\ record \in MarkCounts /\ wanted \in MarkCounts
  /\ fresh \in BOOLEAN /\ leaked \in BOOLEAN /\ faults \in 0..MaxFaults

(* Semantic highlights and inlay hints: the screen shows exactly the last  *)
(* snapshot that could be drawn and what was added to it since, however    *)
(* often drawing failed half way, and the record says so; except for what  *)
(* an addition that failed has left in Vim, and marks of a renderer from   *)
(* before a restart.                                                       *)
ScreenIsSnapshot ==
  ~leaked => MarksShown = wanted /\ record = Recorded(MarksShown)
=============================================================================
