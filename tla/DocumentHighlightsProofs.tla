----------------------- MODULE DocumentHighlightsProofs -----------------------
(* Proofs about DocumentHighlights: its types and its safety properties,   *)
(* for any buffers, cursor positions and bounds.                           *)
EXTENDS DocumentHighlights, TLAPS

(* While a request is held nothing is rendered, so that rendering its      *)
(* response can mark one buffer only, the one the next Clear erases.       *)
NothingRenderedMeanwhile == request # NoRequest => rendered = None

IInv ==
  /\ TypeOK
  /\ HighlightsBelongHere
  /\ NoStrayMarks
  /\ SupersededAreCancelled
  /\ NothingRenderedMeanwhile

(* What concerns the object alone, when the editor has not moved.          *)
ObjectOK ==
  /\ posted \in Seq({"pending", "done", "cancelled"})
  /\ request \in {Unsent} \cup 0 .. Len(posted)
  /\ snapshot \in Place \cup {None}
  /\ rendered \in Place \cup {None}
  /\ marks \subseteq Buffers
  /\ NoStrayMarks
  /\ SupersededAreCancelled
  /\ NothingRenderedMeanwhile

-----------------------------------------------------------------------------
LEMMA HereIsPlace == TypeOK => Here \in Place
BY DEF TypeOK, Here, Place

(* Cancelling leaves no unanswered request.                                *)
LEMMA CancelledRequests ==
  ASSUME IInv
  PROVE  /\ Cancelled \in Seq({"pending", "done", "cancelled"})
         /\ Len(Cancelled) = Len(posted)
         /\ \A i \in DOMAIN Cancelled : Cancelled[i] # "pending"
<1>1. /\ posted \in Seq({"pending", "done", "cancelled"})
      /\ \A i \in DOMAIN posted : posted[i] = "pending" => i = request
  BY DEF IInv, TypeOK, SupersededAreCancelled
<1>2. /\ DOMAIN posted = 1 .. Len(posted)
      /\ Len(posted) \in Nat
      /\ \A i \in 1 .. Len(posted) : posted[i] \in {"pending", "done", "cancelled"}
  BY <1>1
<1>3. Cancelled \in [1 .. Len(posted) -> {"pending", "done", "cancelled"}]
  BY <1>1, <1>2 DEF Cancelled
<1>4. Cancelled \in Seq({"pending", "done", "cancelled"})
  BY <1>2, <1>3
<1>5. Len(Cancelled) = Len(posted)
  BY <1>2, <1>3, <1>4
<1>6. \A i \in DOMAIN Cancelled : Cancelled[i] # "pending"
  BY <1>1 DEF Cancelled
<1> QED
  BY <1>4, <1>5, <1>6

(* Nothing of the old place stays drawn.                                   *)
LEMMA NothingUnmarked == IInv => Unmarked = {}
BY DEF IInv, NoStrayMarks, Unmarked

LEMMA ClearStep ==
  ASSUME IInv, Clear
  PROVE  ObjectOK' /\ rendered' = None
<1>1. /\ posted' = Cancelled
      /\ request' = 0
      /\ snapshot' = None
      /\ marks' = {}
      /\ rendered' = None
  BY NothingUnmarked DEF Clear, NoRequest
<1>2. posted' \in Seq({"pending", "done", "cancelled"}) /\ Len(posted') \in Nat
  BY <1>1, CancelledRequests
<1>3. SupersededAreCancelled'
  BY <1>1, CancelledRequests DEF SupersededAreCancelled
<1> QED
  BY <1>1, <1>2, <1>3 DEF ObjectOK, NoStrayMarks, NothingRenderedMeanwhile

LEMMA RequestStep ==
  ASSUME IInv, NewRequest, posted' = Append(Cancelled, "pending"),
         request' = Len(posted) + 1
  PROVE  ObjectOK' /\ rendered' = None
<1>1. /\ Cancelled \in Seq({"pending", "done", "cancelled"})
      /\ Len(Cancelled) = Len(posted)
      /\ \A i \in DOMAIN Cancelled : Cancelled[i] # "pending"
  BY CancelledRequests
<1>2. /\ posted' \in Seq({"pending", "done", "cancelled"})
      /\ Len(posted') = Len(posted) + 1
      /\ Len(posted) \in Nat
      /\ DOMAIN posted' = 1 .. (Len(posted) + 1)
  BY <1>1
<1>3. SupersededAreCancelled'
  <2> SUFFICES ASSUME NEW i \in DOMAIN posted', posted'[i] = "pending"
               PROVE  i = Len(posted) + 1
    BY DEF SupersededAreCancelled
  <2>1. CASE i \in 1 .. Len(posted)
    BY <1>1, <1>2, <2>1
  <2> QED
    BY <1>2, <2>1
<1>4. snapshot' \in Place /\ marks' = {} /\ rendered' = None
  BY HereIsPlace, NothingUnmarked DEF NewRequest, IInv
<1>5. request' \in 0 .. Len(posted')
  BY <1>2
<1> QED
  BY <1>2, <1>3, <1>4, <1>5 DEF ObjectOK, NoStrayMarks, NothingRenderedMeanwhile

LEMMA FailingRequestStep ==
  ASSUME IInv, FailingRequest
  PROVE  ObjectOK' /\ rendered' = None
<1>1. /\ posted' = Cancelled
      /\ request' \in {NoRequest, Unsent}
      /\ snapshot' \in Place
      /\ marks' = {}
      /\ rendered' = None
  BY HereIsPlace, NothingUnmarked DEF FailingRequest, NewRequest, IInv
<1>2. posted' \in Seq({"pending", "done", "cancelled"}) /\ Len(posted') \in Nat
  BY <1>1, CancelledRequests
<1>3. SupersededAreCancelled'
  BY <1>1, CancelledRequests DEF SupersededAreCancelled
<1> QED
  BY <1>1, <1>2, <1>3
  DEF ObjectOK, NoStrayMarks, NothingRenderedMeanwhile, NoRequest, Unsent

LEMMA UpdateStep ==
  ASSUME IInv, Update, UNCHANGED editor
  PROVE  /\ ObjectOK'
         /\ rendered' \in {rendered, Here}
<1>0. ObjectOK /\ current \in Buffers /\ Here \in Place
  BY HereIsPlace DEF IInv, TypeOK, ObjectOK
<1>1. CASE ~Done
  BY <1>0, <1>1
  DEF Update, highlights, ObjectOK, NoStrayMarks, SupersededAreCancelled,
      NothingRenderedMeanwhile
<1>2. CASE Done
  <2>1. request > 0 /\ posted[request] = "done"
    BY <1>2 DEF Done
  <2>2. rendered = None /\ marks = {}
    BY <1>0, <2>1 DEF ObjectOK, NothingRenderedMeanwhile, NoStrayMarks, NoRequest
  <2>3. posted' = posted /\ request' = 0 /\ snapshot' = None
    BY <1>2 DEF Update, Forget, NoRequest
  <2>4. SupersededAreCancelled'
    BY <1>0, <2>1, <2>3 DEF ObjectOK, SupersededAreCancelled
  <2>5. \/ rendered' = None /\ marks' = {}
        \/ rendered' = Here /\ marks' = {current}
    BY <1>2, <2>2 DEF Update
  <2>6. NoStrayMarks'
    <3>1. Here.buffer = current /\ Here # None
      BY <1>0, NoneAssumption DEF Here
    <3> QED
      BY <2>5, <3>1 DEF NoStrayMarks
  <2>7. /\ posted' \in Seq({"pending", "done", "cancelled"})
        /\ Len(posted') \in Nat
    BY <1>0, <2>3 DEF ObjectOK
  <2> QED
    BY <1>0, <2>2, <2>3, <2>4, <2>5, <2>6, <2>7
    DEF ObjectOK, NothingRenderedMeanwhile, NoRequest
<1> QED
  BY <1>1, <1>2

-----------------------------------------------------------------------------
LEMMA InitInvariant == Init => IInv
<1> SUFFICES ASSUME Init PROVE IInv
  OBVIOUS
<1>1. /\ posted = << >> /\ Len(posted) = 0
      /\ posted \in Seq({"pending", "done", "cancelled"})
  BY DEF Init
<1>2. TypeOK
  <2>1. request \in {Unsent} \cup 0 .. Len(posted)
    BY <1>1 DEF Init, NoRequest
  <2>2. /\ current \in Buffers /\ cursor \in Cursors
        /\ ticks \in [Buffers -> Nat] /\ existing \subseteq Buffers
        /\ marks \subseteq Buffers
        /\ failures \in Nat /\ restarts \in Nat
    BY DEF Init
  <2>3. /\ snapshot \in Place \cup {None} /\ rendered \in Place \cup {None}
        /\ unseen \in BOOLEAN /\ usable \in BOOLEAN /\ timer \in BOOLEAN
    BY DEF Init
  <2> QED
    BY <1>1, <2>1, <2>2, <2>3 DEF TypeOK
<1>3. SupersededAreCancelled
  BY <1>1 DEF SupersededAreCancelled
<1> QED
  BY <1>2, <1>3
  DEF Init, IInv, HighlightsBelongHere, NoStrayMarks, NothingRenderedMeanwhile

LEMMA NextInvariant == IInv /\ [Next]_vars => IInv'
<1> SUFFICES ASSUME IInv, [Next]_vars PROVE IInv'
  OBVIOUS
<1> USE BoundsAssumption
<1>0. TypeOK
  BY DEF IInv
<1>1. CASE HoldCursor
  <2>0. /\ editor' = editor /\ unseen' = unseen /\ usable' = usable
        /\ restarts' = restarts /\ timer' \in BOOLEAN
    BY <1>1 DEF HoldCursor, ClearDocumentHighlights
  <2>1. failures' \in Nat
    BY <1>0, <1>1 DEF HoldCursor, TypeOK
  <2>2. ObjectOK' /\ rendered' \in {rendered, None}
    <3>1. CASE ClearDocumentHighlights
      BY <3>1, ClearStep DEF ClearDocumentHighlights
    <3>2. CASE UNCHANGED highlights
      BY <1>0, <3>2 DEF highlights, IInv, TypeOK, ObjectOK, NoStrayMarks,
                       SupersededAreCancelled, NothingRenderedMeanwhile
    <3>3. CASE Request
      BY <3>3, RequestStep DEF Request
    <3>4. CASE FailingRequest
      BY <3>4, FailingRequestStep
    <3> QED
      BY <1>1, <3>1, <3>2, <3>3, <3>4 DEF HoldCursor
  <2>3. HighlightsBelongHere'
    BY <2>0, <2>2 DEF IInv, HighlightsBelongHere, Here, editor
  <2> QED
    BY <1>0, <2>0, <2>1, <2>2, <2>3 DEF IInv, TypeOK, ObjectOK, editor
<1>2. CASE PollDocumentHighlights
  <2>0. /\ editor' = editor /\ unseen' = unseen /\ usable' = usable
        /\ restarts' = restarts /\ timer' = FALSE /\ Update
    BY <1>2 DEF PollDocumentHighlights
  <2>1. failures' \in Nat
    BY <1>0, <2>0 DEF Update, TypeOK
  <2>2. ObjectOK' /\ rendered' \in {rendered, Here}
    BY <2>0, UpdateStep
  <2>3. HighlightsBelongHere'
    BY <2>0, <2>2 DEF IInv, HighlightsBelongHere, Here, editor
  <2> QED
    BY <1>0, <2>0, <2>1, <2>2, <2>3 DEF IInv, TypeOK, ObjectOK, editor
<1>3. CASE RunAutocommand
  <2>1. ObjectOK' /\ rendered' = None
    BY <1>3, ClearStep DEF RunAutocommand, ClearDocumentHighlights
  <2> QED
    BY <1>0, <1>3, <2>1
    DEF RunAutocommand, ClearDocumentHighlights, IInv, TypeOK, ObjectOK,
        HighlightsBelongHere, editor
<1>4. ASSUME NEW b \in Buffers, EnterBuffer(b) PROVE IInv'
  <2>1. ObjectOK' /\ rendered' = None
    BY <1>4, ClearStep DEF EnterBuffer, ClearDocumentHighlights
  <2> QED
    BY <1>0, <1>4, <2>1
    DEF EnterBuffer, ClearDocumentHighlights, IInv, TypeOK, ObjectOK,
        HighlightsBelongHere
<1>5. CASE RestartServer
  <2>1. ObjectOK' /\ rendered' = None
    BY <1>5, ClearStep DEF RestartServer, ClearDocumentHighlights
  <2>2. /\ editor' = editor /\ unseen' = unseen /\ failures' = failures
        /\ usable' \in BOOLEAN /\ timer' \in BOOLEAN /\ restarts' \in Nat
    <3>1. restarts \in Nat
      BY <1>0 DEF TypeOK
    <3>2. restarts' = restarts + 1 /\ usable' = FALSE
      BY <1>5 DEF RestartServer
    <3>3. timer' = FALSE /\ UNCHANGED <<editor, unseen, failures>>
      BY <1>5 DEF RestartServer, ClearDocumentHighlights
    <3>4. restarts' \in Nat
      BY <3>1, <3>2
    <3>5. editor' = editor /\ unseen' = unseen /\ failures' = failures
      BY <3>3
    <3>6. usable' \in BOOLEAN /\ timer' \in BOOLEAN
      BY <3>2, <3>3
    <3> QED
      BY <3>4, <3>5, <3>6
  <2>3. TypeOK'
    BY <1>0, <2>1, <2>2 DEF TypeOK, ObjectOK, editor
  <2> QED
    BY <2>1, <2>3 DEF IInv, ObjectOK, HighlightsBelongHere
<1>6. CASE MoveCursor
  BY <1>0, <1>6
  DEF MoveCursor, highlights, IInv, TypeOK, HighlightsBelongHere, NoStrayMarks,
      SupersededAreCancelled, NothingRenderedMeanwhile
<1>7. CASE EditText
  BY <1>0, <1>7
  DEF EditText, highlights, IInv, TypeOK, HighlightsBelongHere, NoStrayMarks,
      SupersededAreCancelled, NothingRenderedMeanwhile
<1>8. ASSUME NEW b \in Buffers, WipeOut(b) PROVE IInv'
  BY <1>0, <1>8
  DEF WipeOut, IInv, TypeOK, HighlightsBelongHere, Here, NoStrayMarks,
      SupersededAreCancelled, NothingRenderedMeanwhile
<1>9. ASSUME NEW i \in 1 .. MaxRequests, Answer(i) PROVE IInv'
  <2>1. /\ i \in DOMAIN posted
        /\ posted' = [posted EXCEPT ![i] = "done"]
        /\ posted \in Seq({"pending", "done", "cancelled"})
    BY <1>0, <1>9 DEF Answer, TypeOK
  <2>2. /\ posted' \in Seq({"pending", "done", "cancelled"})
        /\ Len(posted') = Len(posted)
        /\ DOMAIN posted' = DOMAIN posted
    BY <2>1
  <2>3. SupersededAreCancelled'
    BY <1>9, <2>1, <2>2 DEF Answer, IInv, SupersededAreCancelled
  <2> QED
    BY <1>0, <1>9, <2>2, <2>3
    DEF Answer, editor, IInv, TypeOK, HighlightsBelongHere, Here, NoStrayMarks,
        NothingRenderedMeanwhile
<1>10. CASE ServerReady
  BY <1>0, <1>10
  DEF ServerReady, editor, highlights, IInv, TypeOK, HighlightsBelongHere, Here,
      NoStrayMarks, SupersededAreCancelled, NothingRenderedMeanwhile
<1>11. CASE UNCHANGED vars
  BY <1>0, <1>11
  DEF vars, editor, highlights, IInv, TypeOK, HighlightsBelongHere, Here,
      NoStrayMarks, SupersededAreCancelled, NothingRenderedMeanwhile
<1> QED
  BY <1>1, <1>2, <1>3, <1>4, <1>5, <1>6, <1>7, <1>8, <1>9, <1>10, <1>11 DEF Next

LEMMA Invariance == Spec => []IInv
BY InitInvariant, NextInvariant, PTL DEF Spec

(* Editor, object and timer keep their types.                              *)
THEOREM TypeCorrect == Spec => []TypeOK
<1>1. IInv => TypeOK
  BY DEF IInv
<1> QED
  BY <1>1, Invariance, PTL

(* A late response never highlights another place than the current one.    *)
THEOREM NoStaleHighlights == Spec => []HighlightsBelongHere
<1>1. IInv => HighlightsBelongHere
  BY DEF IInv
<1> QED
  BY <1>1, Invariance, PTL

(* Whatever was drawn is erased by the next Clear.                         *)
THEOREM MarksAreErasable == Spec => []NoStrayMarks
<1>1. IInv => NoStrayMarks
  BY DEF IInv
<1> QED
  BY <1>1, Invariance, PTL

(* Only the latest request is ever left unanswered and uncancelled.        *)
THEOREM OneRequestAtATime == Spec => []SupersededAreCancelled
<1>1. IInv => SupersededAreCancelled
  BY DEF IInv
<1> QED
  BY <1>1, Invariance, PTL
=============================================================================
