---------------------------- MODULE MCEditorSupport ----------------------------
(* Small instances of the parts of EditorSupport for TLC.                 *)
EXTENDS EditorSupport

CONSTANTS m, n, f, g, cpp, python, p, q, r, x, y, b

AllStyles == {VimSemantic, NeovimSemantic, VimVirtual, NeovimVirtual}
UpToTwoMarks ==
  {<<>>} \union {<<k>> : k \in Marks} \union {<<k, l>> : k \in Marks, l \in Marks}

OneEach == f :> <<cpp>> @@ g :> <<python>>

Problem(line, kind, allowed) == [line |-> line, kind |-> kind, allowed |-> allowed]
NoneOrThree ==
  {{}, {Problem(1, "WARNING", TRUE), Problem(1, "ERROR", TRUE), Problem(2, "ERROR", FALSE)}}

TwoTexts == {<<<<m, n>>, <<b>>>>, <<<<>>>>}
NothingOrALine ==
  {<<<<>>>>, <<<<x>>>>, <<<<x>>, <<>>>>, <<<<>>, <<y>>>>, <<<<y, b>>, <<b>>>>}

NoneToTwo == p :> 1 @@ q :> 2 @@ r :> 0
=============================================================================
