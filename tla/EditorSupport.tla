----------------------------- MODULE EditorSupport -----------------------------
(***************************************************************************)
(* The parts of the plugin that share Vim's event loop and nothing else:   *)
(* none of them reads a variable of another, so that what each of them does*)
(* does not depend on how its steps lie between those of the others.  A    *)
(* behaviour is one of a single part, with the others in their initial     *)
(* state.                                                                  *)
(***************************************************************************)
EXTENDS SnapshotRenderers, ServerMessages, DiagnosticsUI, HierarchyMenu,
        SignatureHelp, Finder, TextEdits

VARIABLE part  \* the part this behaviour is about

Parts == {"renderers", "messages", "presentation", "hierarchy", "signatures",
          "finder", "edits"}

supportVars == <<part, renderers, messages, presentation, hierarchy, signatures,
                 finder, edits>>

-----------------------------------------------------------------------------
(* Where a part has several initial states, one that rests has one.        *)
SupportInit ==
  /\ part \in Parts
  /\ InitRenderers /\ InitMessages /\ InitPresentation /\ InitHierarchy
  /\ InitSignatures /\ InitFinder /\ InitEdits
  /\ part # "renderers" => style = CHOOSE s \in Styles : TRUE
  /\ part # "presentation" => window = CHOOSE b \in Shown : TRUE
  /\ part # "edits" => text = (CHOOSE t \in Texts : TRUE) /\ caret = Place(1, 1)

SupportNext ==
  /\ UNCHANGED part
  /\ part # "renderers" => UNCHANGED renderers
  /\ part # "messages" => UNCHANGED messages
  /\ part # "presentation" => UNCHANGED presentation
  /\ part # "hierarchy" => UNCHANGED hierarchy
  /\ part # "signatures" => UNCHANGED signatures
  /\ part # "finder" => UNCHANGED finder
  /\ part # "edits" => UNCHANGED edits
  /\ \/ part = "renderers" /\ NextRenderers
     \/ part = "messages" /\ NextMessages
     \/ part = "presentation" /\ NextPresentation
     \/ part = "hierarchy" /\ NextHierarchy
     \/ part = "signatures" /\ NextSignatures
     \/ part = "finder" /\ NextFinder
     \/ part = "edits" /\ NextEdits

SupportSpec == SupportInit /\ [][SupportNext]_supportVars

(* The type invariant of all the parts. *)
SupportTypeOK ==
  /\ part \in Parts
  /\ RenderersTypeOK /\ MessagesTypeOK /\ PresentationTypeOK /\ HierarchyTypeOK
  /\ SignaturesTypeOK /\ FinderTypeOK /\ EditsTypeOK
=============================================================================
