----------------------- MODULE RequestOperationsProofs -----------------------
(***************************************************************************)
(* Proofs about RequestOperations for any set of requests, any number of   *)
(* workers and any bounds.  The safety properties follow from an inductive *)
(* invariant that ties three things together: the operations the manager   *)
(* keeps are exactly those above the watermark, a work item that is not    *)
(* done belongs to one of them, and that operation's future is the item.   *)
(***************************************************************************)
EXTENDS RequestOperations, TLAPS

(* The manager keeps exactly the operations above the watermark.           *)
Contiguous ==
  /\ retiredOperationId \in -1 .. (nextOperationId - 1)
  /\ DOMAIN operations = (retiredOperationId + 1) .. (nextOperationId - 1)

(* The future of an operation is the work item submitted for it.           *)
FuturesMatch ==
  \A id \in DOMAIN operations :
    operations[id].future # None =>
      /\ operations[id].future \in Tickets
      /\ IsOperation(operations[id].future)
      /\ submitted[operations[id].future].id = id
      /\ submitted[operations[id].future].session = session

(* A work item that is not done belongs to an active operation, whose      *)
(* future it is or will be.                                                *)
OpenItemsActive ==
  \A t \in Tickets :
    IsOperation(t) /\ submitted[t].session = session /\ stage[t] # "done" =>
      /\ Active(submitted[t].id)
      /\ operations[submitted[t].id].future \in {t, None}
      /\ ~operations[submitted[t].id].finishedWithoutFuture

(* Between submission and attachment the last item is that of the          *)
(* operation the main thread is posting.                                   *)
AttachmentPending ==
  \A r \in Requests :
    main = r /\ owned[r] # None =>
      /\ Active(owned[r])
      /\ operations[owned[r]].future = None
      /\ ~operations[owned[r]].finishedWithoutFuture
      /\ Len(submitted) \in Tickets
      /\ IsOperation(Len(submitted))
      /\ submitted[Len(submitted)].id = owned[r]
      /\ submitted[Len(submitted)].session = session

(* What this session has submitted is within what the manager has reached. *)
SubmittedWithinReach ==
  \A t \in Tickets :
    /\ submitted[t].session \in 1 .. session
    /\ submitted[t].session = session =>
         /\ submitted[t].retired <= retiredOperationId
         /\ submitted[t].id < nextOperationId

(* The manager remembers the cancellations of its active operations.       *)
CancellationsRecorded ==
  \A t \in Tickets :
    IsCancel(t) /\ submitted[t].session = session /\ Active(submitted[t].id) =>
      operations[submitted[t].id].cancellationRequested

IInv ==
  /\ TypeOK
  /\ Contiguous
  /\ FuturesMatch
  /\ OpenItemsActive
  /\ AttachmentPending
  /\ SubmittedWithinReach
  /\ CancellationsRecorded
  /\ WatermarkNeverOvertaken
  /\ CancellationNamesLiveOperation
  /\ NothingSubmittedTwice

(* When no operation is being posted.                                      *)
NothingPending == main \in Requests => owned[main] = None

-----------------------------------------------------------------------------
(* Submitting appends one queued item and leaves the others as they are.   *)
LEMMA SubmitFacts ==
  ASSUME TypeOK, NEW kind \in Kind, NEW id \in Int, NEW w \in Int,
         Submit(kind, id, w)
  PROVE  /\ submitted' \in Seq(WorkItem)
         /\ stage' \in Seq(Stage)
         /\ target' \in Seq(Nat)
         /\ Len(submitted') = Len(submitted) + 1
         /\ Len(stage') = Len(submitted')
         /\ Len(target') = Len(submitted')
         /\ Len(submitted) \in Nat
         /\ \A t \in Tickets : /\ submitted'[t] = submitted[t]
                               /\ stage'[t] = stage[t]
                               /\ target'[t] = target[t]
         /\ submitted'[Len(submitted) + 1] =
              [kind |-> kind, id |-> id, retired |-> w, session |-> session]
         /\ stage'[Len(submitted) + 1] = "queued"
         /\ target'[Len(submitted) + 1] = 0
<1>1. [kind |-> kind, id |-> id, retired |-> w, session |-> session] \in WorkItem
  BY DEF WorkItem, TypeOK
<1>2. "queued" \in Stage
  BY DEF Stage
<1> QED
  BY <1>1, <1>2 DEF TypeOK, Submit, Tickets

(* The fields of the work items have their types.                          *)
LEMMA ItemFacts ==
  ASSUME TypeOK
  PROVE  \A t \in Tickets : /\ submitted[t].id \in Int
                             /\ submitted[t].retired \in Int
                             /\ submitted[t].session \in Nat
                             /\ submitted[t].kind \in Kind
                             /\ stage[t] \in Stage
                             /\ target[t] \in Nat
<1>1. \A t \in Tickets : /\ submitted[t] \in WorkItem
                          /\ stage[t] \in Stage
                          /\ target[t] \in Nat
  BY DEF TypeOK, Tickets
<1> QED
  BY <1>1 DEF WorkItem

(* The watermark only passes over completed operations.                    *)
LEMMA RetireFacts ==
  ASSUME IInv, NEW w, RetiresThrough(w)
  PROVE  /\ w \in Int
         /\ w >= retiredOperationId
         /\ w < nextOperationId
         /\ retiredOperationId' = w
         /\ StillActive(w) = (w + 1) .. (nextOperationId - 1)
         /\ \A id \in DOMAIN operations : ~Done(id) => id \in StillActive(w)
<1> USE DEF RetiresThrough, IInv, TypeOK, Contiguous, StillActive
<1>1. \A id \in DOMAIN operations :
        ~Done(id) => id \notin (retiredOperationId + 1) .. w
  OBVIOUS
<1> QED
  BY <1>1

(* Every operation that has yet to be posted stays above the watermark.    *)
LEMMA OpenAboveWatermark ==
  ASSUME IInv, NEW w, RetiresThrough(w)
  PROVE  \A t \in Tickets :
           IsOperation(t) /\ Unsent(t) /\ submitted[t].session = session =>
             /\ w < submitted[t].id
             /\ submitted[t].id < nextOperationId
<1> SUFFICES ASSUME NEW t \in Tickets, IsOperation(t), Unsent(t),
                    submitted[t].session = session
             PROVE  w < submitted[t].id /\ submitted[t].id < nextOperationId
  OBVIOUS
<1>1. stage[t] # "done"
  BY DEF Unsent
<1>2. /\ submitted[t].id \in DOMAIN operations
      /\ ~Done(submitted[t].id)
  <2>1. /\ submitted[t].id \in DOMAIN operations
        /\ operations[submitted[t].id].future \in {t, None}
        /\ ~operations[submitted[t].id].finishedWithoutFuture
    BY <1>1 DEF IInv, OpenItemsActive, Active
  <2> QED
    BY <1>1, <2>1 DEF Done
<1>3. w \in Int /\ submitted[t].id \in (w + 1) .. (nextOperationId - 1)
  BY <1>2, RetireFacts
<1>4. nextOperationId \in Int
  BY DEF IInv, TypeOK
<1> QED
  BY <1>3, <1>4

(* The pairwise properties survive a submission whose watermark is below   *)
(* every operation not yet posted and whose own ID is new and above the    *)
(* watermarks of its session.                                              *)
LEMMA SubmissionKeepsPairs ==
  ASSUME IInv, NEW kind \in Kind, NEW id \in Int, NEW w \in Int,
         Submit(kind, id, w), UNCHANGED session,
         \A t \in Tickets :
           IsOperation(t) /\ Unsent(t) /\ submitted[t].session = session =>
             w < submitted[t].id,
         kind # "shutdown" =>
           /\ w < id
           /\ \A u \in Tickets : submitted[u].session = session =>
                /\ submitted[u].retired < id
                /\ submitted[u].kind = kind => submitted[u].id # id
  PROVE  /\ WatermarkNeverOvertaken'
         /\ CancellationNamesLiveOperation'
         /\ NothingSubmittedTwice'
<1> DEFINE new == Len(submitted) + 1
<1>1. /\ Len(submitted) \in Nat /\ Len(submitted') = new
      /\ submitted'[new] = [kind |-> kind, id |-> id, retired |-> w,
                            session |-> session]
      /\ \A t \in Tickets : /\ submitted'[t] = submitted[t]
                            /\ stage'[t] = stage[t]
  BY SubmitFacts DEF IInv
<1>2. /\ submitted'[new].kind = kind /\ submitted'[new].id = id
      /\ submitted'[new].retired = w /\ submitted'[new].session = session
  BY <1>1
<1>3. /\ Tickets' = Tickets \cup {new} /\ new \notin Tickets
      /\ \A u \in Tickets : ~(new <= u)
  BY <1>1 DEF Tickets
<1> HIDE DEF new
<1>4. WatermarkNeverOvertaken'
  <2> SUFFICES ASSUME NEW t \in Tickets', NEW u \in Tickets',
                      submitted'[t].kind = "operation",
                      stage'[t] \in {"queued", "claimed"},
                      submitted'[u].session = submitted'[t].session
               PROVE  submitted'[u].retired < submitted'[t].id
    BY DEF WatermarkNeverOvertaken, IsOperation, Unsent
  <2>1. CASE t = new
    BY <1>1, <1>2, <1>3, <2>1
  <2>2. CASE t \in Tickets /\ u = new
    BY <1>1, <1>2, <2>2 DEF IsOperation, Unsent
  <2>3. CASE t \in Tickets /\ u \in Tickets
    BY <1>1, <2>3 DEF IInv, WatermarkNeverOvertaken, IsOperation, Unsent
  <2> QED
    BY <1>3, <2>1, <2>2, <2>3
<1>5. CancellationNamesLiveOperation'
  <2> SUFFICES ASSUME NEW t \in Tickets', NEW u \in Tickets', u <= t,
                      submitted'[t].kind = "cancel",
                      submitted'[u].session = submitted'[t].session
               PROVE  submitted'[u].retired < submitted'[t].id
    BY DEF CancellationNamesLiveOperation, IsCancel
  <2>1. CASE t = new
    BY <1>1, <1>2, <1>3, <2>1
  <2>2. CASE t \in Tickets /\ u \in Tickets
    BY <1>1, <2>2 DEF IInv, CancellationNamesLiveOperation, IsCancel
  <2> QED
    BY <1>3, <2>1, <2>2
<1>6. NothingSubmittedTwice'
  <2> SUFFICES ASSUME NEW t \in Tickets', NEW u \in Tickets', t # u,
                      submitted'[t].kind = submitted'[u].kind,
                      submitted'[t].kind # "shutdown",
                      submitted'[t].session = submitted'[u].session
               PROVE  submitted'[t].id # submitted'[u].id
    BY DEF NothingSubmittedTwice
  <2>1. CASE t = new \/ u = new
    BY <1>1, <1>2, <1>3, <2>1
  <2>2. CASE t \in Tickets /\ u \in Tickets
    BY <1>1, <2>2 DEF IInv, NothingSubmittedTwice
  <2> QED
    BY <1>3, <2>1, <2>2
<1> QED
  BY <1>4, <1>5, <1>6

LEMMA InitInv == Init => IInv
BY NoneAssumption, RestartingAssumption
   DEF Init, IInv, TypeOK, Contiguous, FuturesMatch, OpenItemsActive,
       AttachmentPending, SubmittedWithinReach, CancellationsRecorded, WatermarkNeverOvertaken,
       CancellationNamesLiveOperation, NothingSubmittedTwice, Tickets, Active,
       OperationState, WorkItem, Stage

-----------------------------------------------------------------------------
(* What a cancellation does to the manager: it forgets what it retires and *)
(* leaves futures alone.                                                   *)
Keeps(w) ==
  /\ DOMAIN operations' = StillActive(w)
  /\ \A i \in StillActive(w) :
       /\ operations'[i] \in OperationState
       /\ operations'[i].future = operations[i].future
       /\ operations'[i].finishedWithoutFuture =
            operations[i].finishedWithoutFuture
       /\ operations[i].cancellationRequested =>
            operations'[i].cancellationRequested

(* Retiring and recording a cancellation without submitting anything.      *)
LEMMA KeepsInv ==
  ASSUME IInv, NEW w, RetiresThrough(w), Keeps(w),
         operations' = [i \in DOMAIN operations' |-> operations'[i]],
         UNCHANGED <<nextOperationId, poolVars, session>>,
         owned' \in [Requests -> Nat \cup {None}],
         main' \in Requests \cup {None, Restarting}, NothingPending'
  PROVE  IInv'
<1> USE DEF poolVars
<1>1. /\ w \in Int /\ w >= retiredOperationId /\ w < nextOperationId
      /\ retiredOperationId' = w
      /\ StillActive(w) = (w + 1) .. (nextOperationId - 1)
      /\ \A id \in DOMAIN operations : ~Done(id) => id \in StillActive(w)
  BY RetireFacts
<1>2. StillActive(w) \subseteq DOMAIN operations
  BY DEF StillActive
<1>3. TypeOK'
  BY <1>1, <1>2 DEF IInv, TypeOK, Keeps
<1>4. Contiguous'
  BY <1>1 DEF IInv, TypeOK, Contiguous, Keeps
<1>5. FuturesMatch'
  BY <1>2 DEF IInv, FuturesMatch, Keeps, Tickets, IsOperation
<1>6. OpenItemsActive'
  <2> SUFFICES ASSUME NEW t \in Tickets, IsOperation(t),
                      submitted[t].session = session, stage[t] # "done"
               PROVE  /\ submitted[t].id \in DOMAIN operations'
                      /\ operations'[submitted[t].id].future \in {t, None}
                      /\ ~operations'[submitted[t].id].finishedWithoutFuture
    BY DEF OpenItemsActive, Tickets, IsOperation, Active
  <2>1. /\ submitted[t].id \in DOMAIN operations
        /\ operations[submitted[t].id].future \in {t, None}
        /\ ~operations[submitted[t].id].finishedWithoutFuture
    BY DEF IInv, OpenItemsActive, Active
  <2>2. ~Done(submitted[t].id)
    BY <2>1 DEF Done
  <2> QED
    BY <1>1, <2>1, <2>2 DEF Keeps
<1>7. SubmittedWithinReach'
  BY <1>1, ItemFacts DEF IInv, TypeOK, SubmittedWithinReach, Tickets
<1>8. CancellationsRecorded'
  BY <1>2 DEF IInv, CancellationsRecorded, Keeps, Tickets, IsCancel, Active
<1>9. /\ WatermarkNeverOvertaken'
      /\ CancellationNamesLiveOperation'
      /\ NothingSubmittedTwice'
  BY DEF IInv, WatermarkNeverOvertaken, CancellationNamesLiveOperation,
         NothingSubmittedTwice, Tickets, IsOperation, IsCancel, Unsent
<1>10. AttachmentPending'
  BY DEF AttachmentPending, NothingPending
<1> QED
  BY <1>3, <1>4, <1>5, <1>6, <1>7, <1>8, <1>9, <1>10 DEF IInv

(* Retiring and submitting a cancellation.                                 *)
LEMMA CancellationInv ==
  ASSUME IInv, NEW w, RetiresThrough(w), Keeps(w),
         operations' = [i \in DOMAIN operations' |-> operations'[i]],
         NEW id \in StillActive(w),
         ~operations[id].cancellationRequested,
         operations'[id].cancellationRequested,
         Submit("cancel", id, w),
         UNCHANGED <<nextOperationId, session>>,
         owned' \in [Requests -> Nat \cup {None}],
         main' \in Requests \cup {None, Restarting}, NothingPending'
  PROVE  IInv'
<1> DEFINE new == Len(submitted) + 1
<1>1. /\ w \in Int /\ w >= retiredOperationId /\ w < nextOperationId
      /\ retiredOperationId' = w
      /\ StillActive(w) = (w + 1) .. (nextOperationId - 1)
      /\ \A i \in DOMAIN operations : ~Done(i) => i \in StillActive(w)
  BY RetireFacts
<1>2. StillActive(w) \subseteq DOMAIN operations
  BY DEF StillActive
<1>3. /\ id \in Int /\ w < id /\ id < nextOperationId
      /\ "cancel" \in Kind
  BY <1>1 DEF Kind, IInv, TypeOK
<1>4. /\ submitted' \in Seq(WorkItem)
      /\ stage' \in Seq(Stage)
      /\ target' \in Seq(Nat)
      /\ Len(submitted') = new /\ Len(stage') = new /\ Len(target') = new
      /\ Len(submitted) \in Nat
      /\ \A t \in Tickets : /\ submitted'[t] = submitted[t]
                            /\ stage'[t] = stage[t]
      /\ submitted'[new].kind = "cancel" /\ submitted'[new].id = id
      /\ submitted'[new].retired = w /\ submitted'[new].session = session
  <2>1. TypeOK
    BY DEF IInv
  <2>2. /\ Len(submitted) \in Nat
        /\ submitted'[new] = [kind |-> "cancel", id |-> id, retired |-> w,
                              session |-> session]
    BY <1>1, <1>3, <2>1, SubmitFacts
  <2> QED
    BY <1>1, <1>3, <2>1, <2>2, SubmitFacts
<1>5. /\ Tickets' = Tickets \cup {new} /\ new \notin Tickets
      /\ \A u \in Tickets : ~(new <= u)
  BY <1>4 DEF Tickets
<1> HIDE DEF new
<1>6. TypeOK'
  BY <1>1, <1>2, <1>4 DEF IInv, TypeOK, Keeps
<1>7. Contiguous'
  BY <1>1 DEF IInv, TypeOK, Contiguous, Keeps
<1>8. FuturesMatch'
  BY <1>2, <1>4, <1>5 DEF IInv, FuturesMatch, Keeps, IsOperation
<1>9. OpenItemsActive'
  <2> SUFFICES ASSUME NEW t \in Tickets, IsOperation(t),
                      submitted[t].session = session, stage[t] # "done"
               PROVE  /\ submitted[t].id \in DOMAIN operations'
                      /\ operations'[submitted[t].id].future \in {t, None}
                      /\ ~operations'[submitted[t].id].finishedWithoutFuture
    BY <1>4, <1>5 DEF OpenItemsActive, IsOperation, Active
  <2>1. /\ submitted[t].id \in DOMAIN operations
        /\ operations[submitted[t].id].future \in {t, None}
        /\ ~operations[submitted[t].id].finishedWithoutFuture
    BY DEF IInv, OpenItemsActive, Active
  <2>2. ~Done(submitted[t].id)
    BY <2>1 DEF Done
  <2>3. submitted[t].id \in StillActive(w)
    BY <1>1, <2>1, <2>2
  <2> QED
    BY <2>1, <2>3 DEF Keeps
<1>10. SubmittedWithinReach'
  <2> SUFFICES ASSUME NEW t \in Tickets'
               PROVE  /\ submitted'[t].session \in 1 .. session
                      /\ submitted'[t].session = session =>
                           /\ submitted'[t].retired <= w
                           /\ submitted'[t].id < nextOperationId
    BY <1>1 DEF SubmittedWithinReach
  <2>1. CASE t = new
    <3>1. session \in Nat \ {0}
      BY DEF IInv, TypeOK
    <3>2. /\ submitted'[t].session = session /\ submitted'[t].retired = w
          /\ submitted'[t].id = id
      BY <1>4, <2>1
    <3> QED
      BY <1>1, <1>3, <3>1, <3>2
  <2>2. CASE t \in Tickets
    <3>1. /\ submitted[t].session \in 1 .. session
          /\ submitted[t].session = session =>
               /\ submitted[t].retired <= retiredOperationId
               /\ submitted[t].id < nextOperationId
      BY <2>2 DEF IInv, SubmittedWithinReach
    <3>2. submitted[t].retired \in Int /\ retiredOperationId \in Int
      BY <2>2, ItemFacts DEF IInv, TypeOK
    <3> QED
      BY <1>1, <1>4, <2>2, <3>1, <3>2
  <2> QED
    BY <1>5, <2>1, <2>2
<1>11. CancellationsRecorded'
  BY <1>2, <1>4, <1>5
     DEF IInv, CancellationsRecorded, Keeps, IsCancel, Active
<1>12. /\ WatermarkNeverOvertaken'
       /\ CancellationNamesLiveOperation'
       /\ NothingSubmittedTwice'
  <2>1. \A t \in Tickets :
          IsOperation(t) /\ Unsent(t) /\ submitted[t].session = session =>
            w < submitted[t].id
    BY OpenAboveWatermark
  <2>2. \A u \in Tickets : submitted[u].session = session =>
          /\ submitted[u].retired < id
          /\ submitted[u].kind = "cancel" => submitted[u].id # id
    <3> SUFFICES ASSUME NEW u \in Tickets, submitted[u].session = session
                 PROVE  /\ submitted[u].retired < id
                        /\ submitted[u].kind = "cancel" => submitted[u].id # id
      OBVIOUS
    <3>1. submitted[u].retired <= retiredOperationId
      BY DEF IInv, SubmittedWithinReach
    <3>2. submitted[u].retired \in Int /\ retiredOperationId \in Int
      BY ItemFacts DEF IInv, TypeOK
    <3>3. submitted[u].kind = "cancel" => submitted[u].id # id
      BY <1>2 DEF IInv, CancellationsRecorded, Active, IsCancel
    <3> QED
      BY <1>1, <1>3, <3>1, <3>2, <3>3
  <2> QED
    BY <1>1, <1>3, <2>1, <2>2, SubmissionKeepsPairs
<1>13. AttachmentPending'
  BY DEF AttachmentPending, NothingPending
<1> QED
  BY <1>6, <1>7, <1>8, <1>9, <1>10, <1>11, <1>12, <1>13 DEF IInv

(* BaseRequest.Cancel, on its own or as the first half of a post.          *)
LEMMA LetGoInv ==
  ASSUME IInv, NEW r \in Requests, LetGo(r), UNCHANGED session,
         main' \in {r, None}
  PROVE  IInv'
<1>0. main' \in Requests \cup {None, Restarting} /\ NothingPending'
  BY NoneAssumption DEF LetGo, IInv, TypeOK, NothingPending
<1>1. owned' \in [Requests -> Nat \cup {None}]
  BY DEF LetGo, IInv, TypeOK
<1>2. CASE owned[r] = None
  BY <1>0, <1>1, <1>2
     DEF LetGo, AttachmentPending, NothingPending, poolVars, IInv, TypeOK, Contiguous, FuturesMatch,
         OpenItemsActive, SubmittedWithinReach, CancellationsRecorded,
         WatermarkNeverOvertaken, CancellationNamesLiveOperation,
         NothingSubmittedTwice, Tickets, Active, IsOperation, IsCancel, Unsent
<1>3. CASE owned[r] # None
  <2> DEFINE id == owned[r]
  <2>1. CancelOperation(id) /\ UNCHANGED nextOperationId
    BY <1>3 DEF LetGo
  <2>2. PICK w : /\ RetiresThrough(w)
                 /\ \/ /\ id \in StillActive(w)
                       /\ ~operations[id].cancellationRequested
                       /\ operations' =
                            [i \in StillActive(w) |->
                               IF i = id
                               THEN [operations[i] EXCEPT
                                       !.cancellationRequested = TRUE]
                               ELSE operations[i]]
                       /\ \/ Submit("cancel", id, w)
                          \/ UNCHANGED poolVars
                    \/ /\ operations' = [i \in StillActive(w) |-> operations[i]]
                       /\ UNCHANGED poolVars
    BY <2>1 DEF CancelOperation
  <2>3. StillActive(w) \subseteq DOMAIN operations
    BY DEF StillActive
  <2>4. \A i \in StillActive(w) :
          /\ operations[i] \in OperationState
          /\ [operations[i] EXCEPT !.cancellationRequested = TRUE]
               \in OperationState
          /\ [operations[i] EXCEPT !.cancellationRequested = TRUE].future =
               operations[i].future
          /\ [operations[i] EXCEPT
                !.cancellationRequested = TRUE].finishedWithoutFuture =
               operations[i].finishedWithoutFuture
          /\ [operations[i] EXCEPT
                !.cancellationRequested = TRUE].cancellationRequested
    BY <2>3 DEF IInv, TypeOK, OperationState
  <2>5. /\ Keeps(w)
        /\ operations' = [i \in DOMAIN operations' |-> operations'[i]]
    BY <2>2, <2>4 DEF Keeps
  <2>6. CASE UNCHANGED poolVars
    BY <1>0, <1>1, <2>1, <2>2, <2>5, <2>6, KeepsInv
  <2>7. CASE ~UNCHANGED poolVars
    <3>1. /\ id \in StillActive(w)
          /\ ~operations[id].cancellationRequested
          /\ operations'[id].cancellationRequested
          /\ Submit("cancel", id, w)
      BY <2>2, <2>4, <2>7
    <3> QED
      BY <1>0, <1>1, <2>1, <2>2, <2>5, <3>1, CancellationInv
  <2> QED
    BY <2>6, <2>7
<1> QED
  BY <1>2, <1>3

-----------------------------------------------------------------------------
(* The rest of a post starts an operation, with or without a work item.    *)
LEMMA SubmitPostInv ==
  ASSUME IInv, NEW r \in Requests, SubmitPost(r)
  PROVE  IInv'
<1> DEFINE new == Len(submitted) + 1
           id == nextOperationId
<1>1. PICK w \in retiredOperationId .. (nextOperationId - 1) :
        /\ StartOperation(r, NewState, w)
        /\ owned' = [owned EXCEPT ![r] = id]
        /\ Submit("operation", id, w)
        /\ main' = main
  BY DEF SubmitPost
<1>2. /\ RetiresThrough(w)
      /\ operations' = [i \in StillActive(w) \cup {id} |->
                          IF i = id THEN NewState ELSE operations[i]]
      /\ nextOperationId' = id + 1
      /\ main = r /\ main' = r
      /\ session' = session
  BY <1>1 DEF StartOperation
<1>3. /\ w \in Int /\ w >= retiredOperationId /\ w < nextOperationId
      /\ retiredOperationId' = w
      /\ StillActive(w) = (w + 1) .. (nextOperationId - 1)
      /\ \A i \in DOMAIN operations : ~Done(i) => i \in StillActive(w)
  BY <1>2, RetireFacts
<1>4. /\ StillActive(w) \subseteq DOMAIN operations
      /\ id \in Nat /\ "operation" \in Kind
      /\ id \notin StillActive(w)
      /\ TypeOK
  BY <1>3 DEF StillActive, Kind, IInv, TypeOK
<1>5. /\ Len(submitted) \in Nat
      /\ submitted'[new] = [kind |-> "operation", id |-> id, retired |-> w,
                            session |-> session]
  BY <1>1, <1>3, <1>4, SubmitFacts
<1>6. /\ submitted' \in Seq(WorkItem)
      /\ stage' \in Seq(Stage)
      /\ target' \in Seq(Nat)
      /\ Len(submitted') = new /\ Len(stage') = new /\ Len(target') = new
      /\ \A t \in Tickets : /\ submitted'[t] = submitted[t]
                            /\ stage'[t] = stage[t]
      /\ submitted'[new].kind = "operation" /\ submitted'[new].id = id
      /\ submitted'[new].retired = w /\ submitted'[new].session = session
  BY <1>1, <1>3, <1>4, <1>5, SubmitFacts
<1>7. /\ Tickets' = Tickets \cup {new} /\ new \notin Tickets
      /\ new \in Nat /\ new # None
      /\ Tickets \subseteq Nat
  BY <1>5, <1>6, NoneAssumption DEF Tickets
<1>8. /\ NewState \in OperationState
      /\ NewState.future = None /\ ~NewState.finishedWithoutFuture
  BY DEF NewState, OperationState
<1> HIDE DEF new
<1>9. /\ DOMAIN operations' = (w + 1) .. id
      /\ operations'[id] = NewState
      /\ \A i \in StillActive(w) : operations'[i] = operations[i]
  BY <1>2, <1>3, <1>4
<1>10. TypeOK'
  <2>1. operations' \in [DOMAIN operations' -> OperationState]
    BY <1>2, <1>4, <1>8 DEF TypeOK
  <2>2. DOMAIN operations' \subseteq Nat
    BY <1>2, <1>4 DEF TypeOK
  <2> QED
    BY <1>1, <1>2, <1>3, <1>4, <1>6, <2>1, <2>2 DEF TypeOK
<1>11. Contiguous'
  BY <1>2, <1>3, <1>4, <1>9 DEF IInv, Contiguous, TypeOK
<1>12. FuturesMatch'
  <2> SUFFICES ASSUME NEW i \in DOMAIN operations',
                      operations'[i].future # None
               PROVE  /\ operations'[i].future \in Tickets'
                      /\ submitted'[operations'[i].future].kind = "operation"
                      /\ submitted'[operations'[i].future].id = i
                      /\ submitted'[operations'[i].future].session = session
    BY <1>2 DEF FuturesMatch, IsOperation
  <2>1. CASE i = id
    BY <1>6, <1>7, <1>8, <1>9, <2>1
  <2>2. CASE i \in StillActive(w)
    <3>1. i \in DOMAIN operations /\ operations'[i] = operations[i]
      BY <1>4, <1>9, <2>2
    <3>2. /\ operations[i].future \in Tickets
          /\ submitted[operations[i].future].kind = "operation"
          /\ submitted[operations[i].future].id = i
          /\ submitted[operations[i].future].session = session
      BY <3>1 DEF IInv, FuturesMatch, IsOperation
    <3> QED
      BY <1>6, <1>7, <3>1, <3>2
  <2> QED
    BY <1>2, <2>1, <2>2
<1>13. OpenItemsActive'
  <2> SUFFICES ASSUME NEW t \in Tickets', submitted'[t].kind = "operation",
                      submitted'[t].session = session, stage'[t] # "done"
               PROVE  /\ submitted'[t].id \in DOMAIN operations'
                      /\ operations'[submitted'[t].id].future \in {t, None}
                      /\ ~operations'[submitted'[t].id].finishedWithoutFuture
    BY <1>2 DEF OpenItemsActive, IsOperation, Active
  <2>1. CASE t = new
    BY <1>2, <1>6, <1>8, <1>9, <2>1
  <2>2. CASE t \in Tickets
    <3>1. /\ submitted[t].id \in DOMAIN operations
          /\ operations[submitted[t].id].future \in {t, None}
          /\ ~operations[submitted[t].id].finishedWithoutFuture
      BY <1>6, <2>2 DEF IInv, OpenItemsActive, Active, IsOperation
    <3>2. submitted[t].id \in StillActive(w)
      BY <1>3, <1>6, <2>2, <3>1, NoneAssumption, <1>7 DEF Done
    <3> QED
      BY <1>2, <1>6, <1>9, <2>2, <3>1, <3>2
  <2> QED
    BY <1>7, <2>1, <2>2
<1>14. SubmittedWithinReach'
  <2> SUFFICES ASSUME NEW t \in Tickets'
               PROVE  /\ submitted'[t].session \in 1 .. session
                      /\ submitted'[t].session = session =>
                           /\ submitted'[t].retired <= w
                           /\ submitted'[t].id < id + 1
    BY <1>2, <1>3 DEF SubmittedWithinReach
  <2>1. CASE t = new
    BY <1>3, <1>4, <1>6, <2>1 DEF TypeOK
  <2>2. CASE t \in Tickets
    <3>1. /\ submitted[t].session \in 1 .. session
          /\ submitted[t].session = session =>
               /\ submitted[t].retired <= retiredOperationId
               /\ submitted[t].id < nextOperationId
      BY <2>2 DEF IInv, SubmittedWithinReach
    <3>2. /\ submitted[t].retired \in Int /\ retiredOperationId \in Int
          /\ submitted[t].id \in Int /\ id \in Int
      BY <1>4, <2>2, ItemFacts DEF TypeOK
    <3>3. submitted'[t] = submitted[t]
      BY <1>6, <2>2
    <3> QED
      BY <1>3, <3>1, <3>2, <3>3
  <2> QED
    BY <1>7, <2>1, <2>2
<1>15. CancellationsRecorded'
  <2> SUFFICES ASSUME NEW t \in Tickets', submitted'[t].kind = "cancel",
                      submitted'[t].session = session,
                      submitted'[t].id \in DOMAIN operations'
               PROVE  operations'[submitted'[t].id].cancellationRequested
    BY <1>2 DEF CancellationsRecorded, IsCancel, Active
  <2>1. t \in Tickets
    BY <1>6, <1>7
  <2>2. submitted[t].id # id
    BY <1>4, <1>6, <2>1 DEF IInv, SubmittedWithinReach
  <2>3. submitted[t].id \in StillActive(w)
    BY <1>2, <1>6, <2>1, <2>2
  <2> QED
    BY <1>4, <1>6, <1>9, <2>1, <2>3
       DEF IInv, CancellationsRecorded, IsCancel, Active
<1>16. /\ WatermarkNeverOvertaken'
       /\ CancellationNamesLiveOperation'
       /\ NothingSubmittedTwice'
  <2>1. \A t \in Tickets :
          IsOperation(t) /\ Unsent(t) /\ submitted[t].session = session =>
            w < submitted[t].id
    BY <1>2, OpenAboveWatermark
  <2>2. \A u \in Tickets : submitted[u].session = session =>
          /\ submitted[u].retired < id
          /\ submitted[u].kind = "operation" => submitted[u].id # id
    <3> SUFFICES ASSUME NEW u \in Tickets, submitted[u].session = session
                 PROVE  submitted[u].retired < id /\ submitted[u].id # id
      OBVIOUS
    <3>1. /\ submitted[u].retired <= retiredOperationId
          /\ submitted[u].id < nextOperationId
      BY DEF IInv, SubmittedWithinReach
    <3>2. /\ submitted[u].retired \in Int /\ retiredOperationId \in Int
          /\ submitted[u].id \in Int
      BY <1>4, ItemFacts DEF TypeOK
    <3> QED
      BY <1>3, <1>4, <3>1, <3>2
  <2>3. /\ Submit("operation", id, w)
        /\ "operation" \in Kind /\ id \in Int /\ w \in Int
        /\ UNCHANGED session
        /\ w < id
    BY <1>1, <1>2, <1>3, <1>4
  <2> HIDE DEF id
  <2> QED
    BY <2>1, <2>2, <2>3, SubmissionKeepsPairs
<1>17. AttachmentPending'
  <2>1. /\ owned' = [owned EXCEPT ![r] = id]
        /\ owned \in [Requests -> Nat \cup {None}]
    BY <1>1, <1>4 DEF TypeOK
  <2>2. \A q \in Requests : main' = q => q = r /\ owned'[q] = id
    BY <1>2, <2>1
  <2>3. id \in DOMAIN operations' /\ new \in Tickets'
    BY <1>2, <1>7
  <2> QED
    BY <1>2, <1>6, <1>8, <1>9, <2>2, <2>3
       DEF AttachmentPending, Active, IsOperation
<1> QED
  BY <1>10, <1>11, <1>12, <1>13, <1>14, <1>15, <1>16, <1>17 DEF IInv

(* Attaching the future of the last item, which is that of the operation.  *)
LEMMA AttachFutureInv ==
  ASSUME IInv, NEW r \in Requests, AttachFuture(r)
  PROVE  IInv'
<1> DEFINE id == owned[r]
           last == Len(submitted)
<1>1. /\ main = r /\ id # None /\ main' = None
      /\ operations' = [operations EXCEPT ![id].future = last]
      /\ nextOperationId' = nextOperationId
      /\ retiredOperationId' = retiredOperationId
      /\ owned' = owned /\ session' = session
      /\ submitted' = submitted /\ stage' = stage /\ target' = target
  BY DEF AttachFuture, poolVars
<1>2. /\ id \in DOMAIN operations
      /\ last \in Tickets
      /\ IsOperation(last)
      /\ submitted[last].id = id
      /\ submitted[last].session = session
      /\ ~operations[id].finishedWithoutFuture
  BY <1>1 DEF IInv, AttachmentPending, Active
<1>3. /\ Tickets' = Tickets /\ last \in Nat /\ last # None
      /\ operations \in [DOMAIN operations -> OperationState]
  BY <1>1, <1>2, NoneAssumption DEF IInv, TypeOK, Tickets
<1> HIDE DEF id, last
<1>4. /\ DOMAIN operations' = DOMAIN operations
      /\ \A i \in DOMAIN operations :
           /\ operations'[i] \in OperationState
           /\ operations'[i].future = (IF i = id THEN last
                                       ELSE operations[i].future)
           /\ operations'[i].finishedWithoutFuture =
                operations[i].finishedWithoutFuture
           /\ operations'[i].cancellationRequested =
                operations[i].cancellationRequested
  BY <1>1, <1>2, <1>3 DEF OperationState
<1>5. TypeOK'
  <2>1. operations' \in [DOMAIN operations' -> OperationState]
    BY <1>1, <1>4
  <2> QED
    BY <1>1, <1>4, <2>1 DEF IInv, TypeOK
<1>6. Contiguous'
  BY <1>1, <1>4 DEF IInv, Contiguous
<1>7. FuturesMatch'
  BY <1>1, <1>2, <1>3, <1>4 DEF IInv, FuturesMatch, IsOperation
<1>8. OpenItemsActive'
  <2> SUFFICES ASSUME NEW t \in Tickets, IsOperation(t),
                      submitted[t].session = session, stage[t] # "done"
               PROVE  /\ submitted[t].id \in DOMAIN operations
                      /\ operations'[submitted[t].id].future \in {t, None}
                      /\ ~operations'[submitted[t].id].finishedWithoutFuture
    BY <1>1, <1>3, <1>4 DEF OpenItemsActive, IsOperation, Active
  <2>1. /\ submitted[t].id \in DOMAIN operations
        /\ operations[submitted[t].id].future \in {t, None}
        /\ ~operations[submitted[t].id].finishedWithoutFuture
    BY DEF IInv, OpenItemsActive, Active
  <2>2. submitted[t].id = id => t = last
    BY <1>2 DEF IInv, NothingSubmittedTwice, IsOperation
  <2> QED
    BY <1>4, <2>1, <2>2
<1>9. AttachmentPending'
  BY <1>1, NoneAssumption DEF AttachmentPending
<1>10. SubmittedWithinReach'
  BY <1>1, <1>3 DEF IInv, SubmittedWithinReach
<1>11. CancellationsRecorded'
  BY <1>1, <1>3, <1>4 DEF IInv, CancellationsRecorded, IsCancel, Active
<1>12. /\ WatermarkNeverOvertaken'
       /\ CancellationNamesLiveOperation'
       /\ NothingSubmittedTwice'
  BY <1>1, <1>3 DEF IInv, WatermarkNeverOvertaken, NothingSubmittedTwice,
         CancellationNamesLiveOperation, IsOperation, IsCancel, Unsent
<1> QED
  BY <1>5, <1>6, <1>7, <1>8, <1>9, <1>10, <1>11, <1>12 DEF IInv

LEMMA FailPostInv ==
  ASSUME IInv, NEW r \in Requests, FailPost(r)
  PROVE  IInv'
<1> DEFINE id == nextOperationId
<1>1. PICK w \in retiredOperationId .. (nextOperationId - 1) :
        /\ StartOperation(r, FinishedState, w)
        /\ main' = None
        /\ UNCHANGED <<owned, poolVars>>
  BY DEF FailPost
<1>2. /\ RetiresThrough(w)
      /\ operations' = [i \in StillActive(w) \cup {id} |->
                          IF i = id THEN FinishedState ELSE operations[i]]
      /\ nextOperationId' = id + 1
      /\ main' = None
      /\ session' = session
      /\ owned' = owned /\ submitted' = submitted
      /\ stage' = stage /\ target' = target
  BY <1>1 DEF StartOperation, poolVars
<1>3. /\ w \in Int /\ w >= retiredOperationId /\ w < nextOperationId
      /\ retiredOperationId' = w
      /\ StillActive(w) = (w + 1) .. (nextOperationId - 1)
      /\ \A i \in DOMAIN operations : ~Done(i) => i \in StillActive(w)
  BY <1>2, RetireFacts
<1>4. /\ StillActive(w) \subseteq DOMAIN operations
      /\ id \in Nat /\ id \notin StillActive(w)
      /\ FinishedState \in OperationState
      /\ FinishedState.future = None
  BY <1>3 DEF StillActive, IInv, TypeOK, FinishedState, OperationState
<1>5. /\ DOMAIN operations' = (w + 1) .. id
      /\ operations'[id] = FinishedState
      /\ \A i \in StillActive(w) : operations'[i] = operations[i]
  BY <1>2, <1>3, <1>4
<1>6. TypeOK'
  <2>1. operations' \in [DOMAIN operations' -> OperationState]
    BY <1>2, <1>4 DEF IInv, TypeOK
  <2> QED
    BY <1>2, <1>3, <1>4, <2>1 DEF IInv, TypeOK
<1>7. Contiguous'
  BY <1>2, <1>3, <1>4, <1>5 DEF IInv, Contiguous, TypeOK
<1>8. FuturesMatch'
  BY <1>2, <1>4, <1>5 DEF IInv, FuturesMatch, IsOperation, Tickets
<1>9. OpenItemsActive'
  <2> SUFFICES ASSUME NEW t \in Tickets, submitted[t].kind = "operation",
                      submitted[t].session = session, stage[t] # "done"
               PROVE  /\ submitted[t].id \in DOMAIN operations'
                      /\ operations'[submitted[t].id].future \in {t, None}
                      /\ ~operations'[submitted[t].id].finishedWithoutFuture
    BY <1>2 DEF OpenItemsActive, IsOperation, Active, Tickets
  <2>1. /\ submitted[t].id \in DOMAIN operations
        /\ operations[submitted[t].id].future \in {t, None}
        /\ ~operations[submitted[t].id].finishedWithoutFuture
    BY DEF IInv, OpenItemsActive, Active, IsOperation
  <2>2. submitted[t].id \in StillActive(w)
    BY <1>3, <2>1 DEF Done
  <2> QED
    BY <1>2, <1>5, <2>1, <2>2
<1>10. SubmittedWithinReach'
  <2> SUFFICES ASSUME NEW t \in Tickets
               PROVE  /\ submitted[t].session \in 1 .. session
                      /\ submitted[t].session = session =>
                           /\ submitted[t].retired <= w
                           /\ submitted[t].id < id + 1
    BY <1>2, <1>3 DEF SubmittedWithinReach, Tickets
  <2>1. /\ submitted[t].session \in 1 .. session
        /\ submitted[t].session = session =>
             /\ submitted[t].retired <= retiredOperationId
             /\ submitted[t].id < nextOperationId
    BY DEF IInv, SubmittedWithinReach
  <2>2. /\ submitted[t].retired \in Int /\ retiredOperationId \in Int
        /\ submitted[t].id \in Int /\ id \in Int
    BY <1>4, ItemFacts DEF IInv, TypeOK
  <2> QED
    BY <1>3, <2>1, <2>2
<1>11. CancellationsRecorded'
  <2> SUFFICES ASSUME NEW t \in Tickets, submitted[t].kind = "cancel",
                      submitted[t].session = session,
                      submitted[t].id \in DOMAIN operations'
               PROVE  operations'[submitted[t].id].cancellationRequested
    BY <1>2 DEF CancellationsRecorded, IsCancel, Active, Tickets
  <2>1. submitted[t].id # id
    BY <1>4 DEF IInv, SubmittedWithinReach
  <2>2. submitted[t].id \in StillActive(w)
    BY <1>2, <2>1
  <2> QED
    BY <1>4, <1>5, <2>2 DEF IInv, CancellationsRecorded, IsCancel, Active
<1>12. /\ WatermarkNeverOvertaken'
       /\ CancellationNamesLiveOperation'
       /\ NothingSubmittedTwice'
  BY <1>2 DEF IInv, WatermarkNeverOvertaken, CancellationNamesLiveOperation,
         NothingSubmittedTwice, Tickets, IsOperation, IsCancel, Unsent
<1>13. AttachmentPending'
  BY <1>2, NoneAssumption DEF AttachmentPending
<1> QED
  BY <1>6, <1>7, <1>8, <1>9, <1>10, <1>11, <1>12, <1>13 DEF IInv

-----------------------------------------------------------------------------
(* Restarting the server.                                                  *)
LEMMA BeginRestartInv ==
  ASSUME IInv, BeginRestart
  PROVE  IInv'
<1> DEFINE new == Len(submitted) + 1
<1>1. /\ Submit("shutdown", -1, -1)
      /\ main' = Restarting
      /\ nextOperationId' = nextOperationId
      /\ retiredOperationId' = retiredOperationId
      /\ operations' = operations /\ owned' = owned /\ session' = session
  BY DEF BeginRestart, managerVars
<1>2. TypeOK /\ "shutdown" \in Kind /\ -1 \in Int
  BY DEF IInv, Kind
<1>3. /\ Len(submitted) \in Nat
      /\ submitted'[new] = [kind |-> "shutdown", id |-> -1, retired |-> -1,
                            session |-> session]
  BY <1>1, <1>2, SubmitFacts
<1>4. /\ submitted' \in Seq(WorkItem)
      /\ stage' \in Seq(Stage)
      /\ target' \in Seq(Nat)
      /\ Len(submitted') = new /\ Len(stage') = new /\ Len(target') = new
      /\ \A t \in Tickets : /\ submitted'[t] = submitted[t]
                            /\ stage'[t] = stage[t]
      /\ submitted'[new].kind = "shutdown" /\ submitted'[new].id = -1
      /\ submitted'[new].retired = -1 /\ submitted'[new].session = session
  BY <1>1, <1>2, <1>3, SubmitFacts
<1>5. Tickets' = Tickets \cup {new} /\ new \notin Tickets
  BY <1>3, <1>4 DEF Tickets
<1>6. /\ retiredOperationId \in Int /\ nextOperationId \in Nat
      /\ retiredOperationId >= -1
      /\ DOMAIN operations = (retiredOperationId + 1) .. (nextOperationId - 1)
  BY DEF IInv, TypeOK, Contiguous
<1> HIDE DEF new
<1>7. TypeOK'
  BY <1>1, <1>2, <1>4 DEF TypeOK
<1>8. Contiguous'
  BY <1>1 DEF IInv, Contiguous
<1>9. FuturesMatch'
  BY <1>1, <1>4, <1>5 DEF IInv, FuturesMatch, IsOperation
<1>10. OpenItemsActive'
  BY <1>1, <1>4, <1>5 DEF IInv, OpenItemsActive, IsOperation, Active
<1>11. SubmittedWithinReach'
  <2> SUFFICES ASSUME NEW t \in Tickets'
               PROVE  /\ submitted'[t].session \in 1 .. session
                      /\ submitted'[t].session = session =>
                           /\ submitted'[t].retired <= retiredOperationId
                           /\ submitted'[t].id < nextOperationId
    BY <1>1 DEF SubmittedWithinReach
  <2>1. CASE t = new
    BY <1>2, <1>4, <1>6, <2>1 DEF TypeOK
  <2>2. CASE t \in Tickets
    BY <1>4, <2>2 DEF IInv, SubmittedWithinReach
  <2> QED
    BY <1>5, <2>1, <2>2
<1>12. CancellationsRecorded'
  BY <1>1, <1>4, <1>5 DEF IInv, CancellationsRecorded, IsCancel, Active
<1>13. /\ WatermarkNeverOvertaken'
       /\ CancellationNamesLiveOperation'
       /\ NothingSubmittedTwice'
  <2>1. \A t \in Tickets :
          IsOperation(t) /\ Unsent(t) /\ submitted[t].session = session =>
            -1 < submitted[t].id
    <3> SUFFICES ASSUME NEW t \in Tickets, IsOperation(t), Unsent(t),
                        submitted[t].session = session
                 PROVE  -1 < submitted[t].id
      OBVIOUS
    <3>1. submitted[t].id \in DOMAIN operations
      BY DEF IInv, OpenItemsActive, Active, Unsent
    <3> QED
      BY <1>6, <3>1
  <2> QED
    BY <1>1, <1>2, <2>1, SubmissionKeepsPairs
<1>14. AttachmentPending'
  BY <1>1, RestartingAssumption DEF AttachmentPending
<1> QED
  BY <1>7, <1>8, <1>9, <1>10, <1>11, <1>12, <1>13, <1>14 DEF IInv

LEMMA FinishRestartInv ==
  ASSUME IInv, FinishRestart
  PROVE  IInv'
<1>1. /\ nextOperationId' = 0 /\ retiredOperationId' = -1
      /\ DOMAIN operations' = {}
      /\ operations' \in [{} -> OperationState]
      /\ owned' \in [Requests -> Nat \cup {None}]
      /\ main' = None /\ session' = session + 1
      /\ submitted' = submitted /\ stage' = stage /\ target' = target
  BY DEF FinishRestart, poolVars
<1>2. session \in Nat \ {0}
  BY DEF IInv, TypeOK
<1>3. \A t \in Tickets : /\ submitted[t].session \in 1 .. session
                          /\ submitted[t].session # session'
  BY <1>1, <1>2 DEF IInv, SubmittedWithinReach
<1>4. TypeOK'
  BY <1>1, <1>2 DEF IInv, TypeOK
<1>5. /\ Contiguous' /\ FuturesMatch' /\ OpenItemsActive'
      /\ SubmittedWithinReach' /\ CancellationsRecorded'
      /\ AttachmentPending'
  BY <1>1, <1>2, <1>3, NoneAssumption
     DEF AttachmentPending, Contiguous, FuturesMatch, OpenItemsActive, SubmittedWithinReach,
         CancellationsRecorded, Tickets, Active
<1>6. /\ WatermarkNeverOvertaken'
      /\ CancellationNamesLiveOperation'
      /\ NothingSubmittedTwice'
  BY <1>1 DEF IInv, WatermarkNeverOvertaken, CancellationNamesLiveOperation,
         NothingSubmittedTwice, Tickets, IsOperation, IsCancel, Unsent
<1> QED
  BY <1>4, <1>5, <1>6 DEF IInv

-----------------------------------------------------------------------------
(* Workers only move an item forward.                                      *)
LEMMA WorkerInv ==
  ASSUME IInv, Worker
  PROVE  IInv'
<1>1. PICK t \in Tickets : Claim(t) \/ Send(t) \/ Refuse(t) \/ Complete(t)
  BY DEF Worker
<1>2. PICK from \in {"queued", "claimed", "sent"}, to \in Stage :
        /\ Advance(t, from, to)
        /\ to \in {"queued", "claimed"} => from \in {"queued", "claimed"}
        /\ target' \in Seq(Nat) /\ Len(target') = Len(target)
  <2>1. target \in Seq(Nat) /\ session \in Nat /\ t \in 1 .. Len(target)
    BY DEF IInv, TypeOK, Tickets
  <2>2. CASE Claim(t)
    BY <2>1, <2>2 DEF Claim, Stage
  <2>3. CASE Send(t)
    <3>1. target' \in Seq(Nat) /\ Len(target') = Len(target)
      BY <2>1, <2>3 DEF Send
    <3> QED
      BY <2>3, <3>1 DEF Send, Stage
  <2>4. CASE Refuse(t)
    BY <2>1, <2>4 DEF Refuse, Stage
  <2>5. CASE Complete(t)
    BY <2>1, <2>5 DEF Complete, Stage
  <2> QED
    BY <1>1, <2>2, <2>3, <2>4, <2>5
<1>3. /\ nextOperationId' = nextOperationId
      /\ retiredOperationId' = retiredOperationId
      /\ operations' = operations /\ owned' = owned /\ main' = main
      /\ submitted' = submitted /\ session' = session
      /\ stage' = [stage EXCEPT ![t] = to] /\ stage[t] = from
  BY <1>2 DEF Advance, managerVars
<1>4. /\ stage' \in Seq(Stage) /\ Len(stage') = Len(stage)
      /\ \A u \in Tickets : /\ stage'[u] \in {"queued", "claimed"} =>
                               stage[u] \in {"queued", "claimed"}
                            /\ stage[u] = "done" => stage'[u] = "done"
  BY <1>2, <1>3 DEF IInv, TypeOK, Tickets
<1>5. TypeOK'
  BY <1>2, <1>3, <1>4 DEF IInv, TypeOK
<1>6. Contiguous' /\ FuturesMatch' /\ SubmittedWithinReach'
      /\ CancellationsRecorded' /\ AttachmentPending'
  BY <1>3 DEF IInv, AttachmentPending, Contiguous, FuturesMatch, SubmittedWithinReach,
              CancellationsRecorded, Tickets, IsOperation, IsCancel, Active
<1>7. OpenItemsActive'
  BY <1>3, <1>4 DEF IInv, OpenItemsActive, Tickets, IsOperation, Active
<1>8. WatermarkNeverOvertaken'
  BY <1>3, <1>4
     DEF IInv, WatermarkNeverOvertaken, Tickets, IsOperation, Unsent
<1>9. CancellationNamesLiveOperation' /\ NothingSubmittedTwice'
  BY <1>3 DEF IInv, CancellationNamesLiveOperation, NothingSubmittedTwice,
              Tickets, IsCancel
<1> QED
  BY <1>5, <1>6, <1>7, <1>8, <1>9 DEF IInv

LEMMA StutterInv ==
  ASSUME IInv, UNCHANGED vars
  PROVE  IInv'
BY DEF vars, managerVars, poolVars, AttachmentPending, IInv, TypeOK, Contiguous, FuturesMatch,
       OpenItemsActive, SubmittedWithinReach, CancellationsRecorded,
       WatermarkNeverOvertaken, CancellationNamesLiveOperation,
       NothingSubmittedTwice, Tickets, Active, IsOperation, IsCancel, Unsent

LEMMA NextInv == IInv /\ [Next]_vars => IInv'
<1> SUFFICES ASSUME IInv, [Next]_vars
             PROVE  IInv'
  OBVIOUS
<1>1. ASSUME NEW r \in Requests, Cancel(r)
      PROVE  IInv'
  BY <1>1, LetGoInv DEF Cancel
<1>2. ASSUME NEW r \in Requests, BeginPost(r)
      PROVE  IInv'
  BY <1>2, LetGoInv DEF BeginPost
<1>3. ASSUME NEW r \in Requests, SubmitPost(r) \/ AttachFuture(r)
      PROVE  IInv'
  BY <1>3, SubmitPostInv, AttachFutureInv
<1>4. ASSUME NEW r \in Requests, FailPost(r)
      PROVE  IInv'
  BY <1>4, FailPostInv
<1>5. CASE BeginRestart
  BY <1>5, BeginRestartInv
<1>6. CASE FinishRestart
  BY <1>6, FinishRestartInv
<1>7. CASE Worker
  BY <1>7, WorkerInv
<1>8. CASE UNCHANGED vars
  BY <1>8, StutterInv
<1> QED
  BY <1>1, <1>2, <1>3, <1>4, <1>5, <1>6, <1>7, <1>8 DEF Next

LEMMA Invariance == Spec => []IInv
BY InitInv, NextInv, PTL DEF Spec

(* Every variable of manager, requests and pool keeps its type.            *)
THEOREM TypeCorrect == Spec => []TypeOK
<1>1. IInv => TypeOK
  BY DEF IInv
<1> QED
  BY <1>1, Invariance, PTL

(* The promise made to ycmd with the retirement watermark holds for every  *)
(* manager, whatever the workers are doing and whenever the server is      *)
(* restarted.                                                              *)
THEOREM WatermarkSafety == Spec => []WatermarkNeverOvertaken
<1>1. IInv => WatermarkNeverOvertaken
  BY DEF IInv
<1> QED
  BY <1>1, Invariance, PTL

(* Cancellations are sent at most once, and only for live operations.      *)
THEOREM CancellationSafety ==
  Spec => [](CancellationNamesLiveOperation /\ NothingSubmittedTwice)
<1>1. IInv => CancellationNamesLiveOperation /\ NothingSubmittedTwice
  BY DEF IInv
<1> QED
  BY <1>1, Invariance, PTL

-----------------------------------------------------------------------------
(* Nothing is abandoned without a cancellation: the request that is being  *)
(* posted has already let go of its previous operation when it starts one. *)

(* Submitting never makes a future undone, nor done.                       *)
LEMMA DoneStable ==
  ASSUME IInv, NEW i \in DOMAIN operations, i \in DOMAIN operations',
         operations'[i].future = operations[i].future,
         operations'[i].finishedWithoutFuture =
           operations[i].finishedWithoutFuture,
         \A t \in Tickets : stage'[t] = stage[t]
  PROVE  Done(i)' <=> Done(i)
BY DEF Done, IInv, FuturesMatch

LEMMA QueueGrows ==
  ASSUME IInv, NEW kind \in Kind, NEW id \in Int, NEW w \in Int,
         Submit(kind, id, w) \/ UNCHANGED poolVars
  PROVE  \A t \in Tickets : stage'[t] = stage[t]
BY SubmitFacts DEF IInv, poolVars

(* What letting go leaves behind.                                          *)
LEMMA LetGoFacts ==
  ASSUME IInv, NEW r \in Requests, LetGo(r), owned[r] # None
  PROVE  \E w \in Int :
           /\ RetiresThrough(w)
           /\ Submit("cancel", owned[r], w) \/ UNCHANGED poolVars
           /\ DOMAIN operations' = StillActive(w)
           /\ \A i \in StillActive(w) :
                /\ operations'[i].future = operations[i].future
                /\ operations'[i].finishedWithoutFuture =
                     operations[i].finishedWithoutFuture
                /\ operations[i].cancellationRequested =>
                     operations'[i].cancellationRequested
                /\ i = owned[r] => operations'[i].cancellationRequested
           /\ nextOperationId' = nextOperationId
<1> DEFINE id == owned[r]
<1>1. PICK w \in retiredOperationId .. (nextOperationId - 1) :
        /\ RetiresThrough(w)
        /\ Submit("cancel", id, w) \/ UNCHANGED poolVars
        /\ \/ operations' = [i \in StillActive(w) |->
                               IF i = id
                               THEN [operations[i] EXCEPT
                                       !.cancellationRequested = TRUE]
                               ELSE operations[i]]
           \/ /\ id \in StillActive(w) => operations[id].cancellationRequested
              /\ operations' = [i \in StillActive(w) |-> operations[i]]
        /\ nextOperationId' = nextOperationId
  BY DEF LetGo, CancelOperation
<1>2. w \in Int
  BY <1>1, RetireFacts
<1>3. \A i \in StillActive(w) :
        /\ [operations[i] EXCEPT !.cancellationRequested = TRUE].future =
             operations[i].future
        /\ [operations[i] EXCEPT
              !.cancellationRequested = TRUE].finishedWithoutFuture =
             operations[i].finishedWithoutFuture
        /\ [operations[i] EXCEPT
              !.cancellationRequested = TRUE].cancellationRequested
  BY DEF StillActive, IInv, TypeOK, OperationState
<1> QED
  BY <1>1, <1>2, <1>3

LEMMA LetGoAbandoned ==
  ASSUME IInv, AbandonedOperationsAreCancelled, NEW r \in Requests, LetGo(r)
  PROVE  AbandonedOperationsAreCancelled'
<1>1. owned' = [owned EXCEPT ![r] = None] /\ owned \in [Requests -> Nat \cup {None}]
  BY DEF LetGo, IInv, TypeOK
<1>2. CASE owned[r] = None
  BY <1>1, <1>2 DEF LetGo, poolVars, AbandonedOperationsAreCancelled, Done
<1>3. CASE owned[r] # None
  <2>1. PICK w \in Int :
          /\ RetiresThrough(w)
          /\ Submit("cancel", owned[r], w) \/ UNCHANGED poolVars
          /\ DOMAIN operations' = StillActive(w)
          /\ \A i \in StillActive(w) :
               /\ operations'[i].future = operations[i].future
               /\ operations'[i].finishedWithoutFuture =
                    operations[i].finishedWithoutFuture
               /\ operations[i].cancellationRequested =>
                    operations'[i].cancellationRequested
               /\ i = owned[r] => operations'[i].cancellationRequested
    BY <1>3, LetGoFacts
  <2>2. "cancel" \in Kind /\ owned[r] \in Int
    BY <1>1, <1>3 DEF Kind
  <2>3. \A t \in Tickets : stage'[t] = stage[t]
    BY <2>1, <2>2, QueueGrows
  <2> SUFFICES ASSUME NEW i \in StillActive(w)
               PROVE  \/ Done(i)'
                      \/ operations'[i].cancellationRequested
                      \/ \E q \in Requests : owned'[q] = i
    BY <2>1 DEF AbandonedOperationsAreCancelled
  <2>4. i \in DOMAIN operations
    BY DEF StillActive
  <2>5. Done(i)' <=> Done(i)
    BY <2>1, <2>3, <2>4, DoneStable
  <2> QED
    BY <1>1, <2>1, <2>4, <2>5 DEF AbandonedOperationsAreCancelled
<1> QED
  BY <1>2, <1>3

(* Starting an operation leaves the other operations alone.                *)
LEMMA StartAbandoned ==
  ASSUME IInv, AbandonedOperationsAreCancelled, NEW r \in Requests, NEW state, NEW w,
         StartOperation(r, state, w),
         \A t \in Tickets : stage'[t] = stage[t],
         \A q \in Requests : q # r => owned'[q] = owned[q],
         state.finishedWithoutFuture \/ owned'[r] = nextOperationId
  PROVE  AbandonedOperationsAreCancelled'
<1>1. /\ DOMAIN operations' = StillActive(w) \cup {nextOperationId}
      /\ operations'[nextOperationId] = state
      /\ \A i \in StillActive(w) :
           i # nextOperationId => operations'[i] = operations[i]
      /\ owned[r] = None
  BY DEF StartOperation
<1> SUFFICES ASSUME NEW i \in DOMAIN operations'
             PROVE  \/ Done(i)'
                    \/ operations'[i].cancellationRequested
                    \/ \E q \in Requests : owned'[q] = i
  BY DEF AbandonedOperationsAreCancelled
<1>2. CASE i = nextOperationId
  BY <1>1, <1>2 DEF Done
<1>3. CASE i \in StillActive(w) /\ i # nextOperationId
  <2>1. i \in DOMAIN operations /\ operations'[i] = operations[i]
    BY <1>1, <1>3 DEF StillActive
  <2>2. Done(i)' <=> Done(i)
    BY <2>1, DoneStable
  <2>3. i # None
    BY <2>1, NoneAssumption DEF IInv, TypeOK
  <2> QED
    BY <1>1, <2>1, <2>2, <2>3 DEF AbandonedOperationsAreCancelled
<1> QED
  BY <1>1, <1>2, <1>3

LEMMA NextAbandoned == IInv /\ AbandonedOperationsAreCancelled /\ [Next]_vars
                         => AbandonedOperationsAreCancelled'
<1> SUFFICES ASSUME IInv, AbandonedOperationsAreCancelled, [Next]_vars
             PROVE  AbandonedOperationsAreCancelled'
  OBVIOUS
<1>1. ASSUME NEW r \in Requests, Cancel(r) \/ BeginPost(r)
      PROVE  AbandonedOperationsAreCancelled'
  BY <1>1, LetGoAbandoned DEF Cancel, BeginPost
<1>2. ASSUME NEW r \in Requests, SubmitPost(r)
      PROVE  AbandonedOperationsAreCancelled'
  <2>1. PICK w \in retiredOperationId .. (nextOperationId - 1) :
          /\ StartOperation(r, NewState, w)
          /\ owned' = [owned EXCEPT ![r] = nextOperationId]
          /\ Submit("operation", nextOperationId, w)
    BY <1>2 DEF SubmitPost
  <2>2. "operation" \in Kind /\ nextOperationId \in Int /\ w \in Int
    BY <2>1, RetireFacts DEF Kind, IInv, TypeOK, StartOperation
  <2>3. \A t \in Tickets : stage'[t] = stage[t]
    BY <2>1, <2>2, QueueGrows
  <2>4. /\ owned'[r] = nextOperationId
        /\ \A q \in Requests : q # r => owned'[q] = owned[q]
    BY <2>1 DEF IInv, TypeOK
  <2> QED
    BY <2>1, <2>3, <2>4, StartAbandoned
<1>3. ASSUME NEW r \in Requests, AttachFuture(r)
      PROVE  AbandonedOperationsAreCancelled'
  <2>1. /\ owned' = owned /\ stage' = stage
        /\ DOMAIN operations' = DOMAIN operations
        /\ \A i \in DOMAIN operations : i # owned[r] =>
             operations'[i] = operations[i]
    BY <1>3 DEF AttachFuture, poolVars
  <2>2. \A i \in DOMAIN operations : i # owned[r] => (Done(i) => Done(i)')
    BY <2>1 DEF Done
  <2> QED
    BY <2>1, <2>2 DEF AbandonedOperationsAreCancelled
<1>4. ASSUME NEW r \in Requests, FailPost(r)
      PROVE  AbandonedOperationsAreCancelled'
  <2>1. PICK w \in retiredOperationId .. (nextOperationId - 1) :
          StartOperation(r, FinishedState, w) /\ UNCHANGED <<owned, poolVars>>
    BY <1>4 DEF FailPost
  <2>2. FinishedState.finishedWithoutFuture
    BY DEF FinishedState
  <2> QED
    BY <2>1, <2>2, StartAbandoned DEF poolVars
<1>5. CASE BeginRestart
  <2>1. "shutdown" \in Kind /\ -1 \in Int
    BY DEF Kind
  <2>2. \A t \in Tickets : stage'[t] = stage[t]
    BY <1>5, <2>1, QueueGrows DEF BeginRestart
  <2>3. operations' = operations /\ owned' = owned
    BY <1>5 DEF BeginRestart, managerVars
  <2>4. \A i \in DOMAIN operations : Done(i)' <=> Done(i)
    BY <2>2, <2>3, DoneStable
  <2> QED
    BY <2>3, <2>4 DEF AbandonedOperationsAreCancelled
<1>6. CASE FinishRestart
  BY <1>6 DEF FinishRestart, AbandonedOperationsAreCancelled
<1>7. CASE Worker
  <2>1. /\ operations' = operations /\ owned' = owned
        /\ \A t \in Tickets : stage[t] = "done" => stage'[t] = "done"
    BY <1>7 DEF Worker, Claim, Send, Refuse, Complete, Advance, managerVars,
                IInv, TypeOK, Tickets
  <2>2. \A i \in DOMAIN operations : Done(i) => Done(i)'
    BY <2>1 DEF Done, IInv, FuturesMatch
  <2> QED
    BY <2>1, <2>2 DEF AbandonedOperationsAreCancelled
<1>8. CASE UNCHANGED vars
  BY <1>8 DEF vars, managerVars, poolVars, AbandonedOperationsAreCancelled, Done
<1> QED
  BY <1>1, <1>2, <1>3, <1>4, <1>5, <1>6, <1>7, <1>8 DEF Next

(* No operation runs on unattended.                                        *)
THEOREM NothingAbandoned == Spec => []AbandonedOperationsAreCancelled
<1>1. Init => AbandonedOperationsAreCancelled
  BY DEF Init, AbandonedOperationsAreCancelled
<1> QED
  BY <1>1, NextAbandoned, Invariance, PTL DEF Spec

-----------------------------------------------------------------------------
(* The manager implements the ledger.  What the mapping needs beyond the   *)
(* invariant: an item that has not been posted has no target yet.          *)
UnsentHaveNoTarget == \A t \in Tickets : Unsent(t) => target[t] = 0

LEMMA SubmissionHasNoTarget ==
  ASSUME TypeOK, UnsentHaveNoTarget, NEW kind \in Kind, NEW id \in Int,
         NEW w \in Int, Submit(kind, id, w) \/ UNCHANGED poolVars
  PROVE  UnsentHaveNoTarget'
<1>1. CASE UNCHANGED poolVars
  BY <1>1 DEF poolVars, UnsentHaveNoTarget, Tickets, Unsent
<1>2. CASE Submit(kind, id, w)
  <2>1. /\ Len(submitted) \in Nat /\ Len(submitted') = Len(submitted) + 1
        /\ \A t \in Tickets : /\ stage'[t] = stage[t]
                              /\ target'[t] = target[t]
        /\ target'[Len(submitted) + 1] = 0
    BY <1>2, SubmitFacts
  <2>2. Tickets' = Tickets \cup {Len(submitted) + 1}
    BY <2>1 DEF Tickets
  <2> QED
    BY <2>1, <2>2 DEF UnsentHaveNoTarget, Unsent
<1> QED
  BY <1>1, <1>2

(* Every step submits at most one item or lets a worker advance.           *)
LEMMA PoolStep ==
  ASSUME IInv, [Next]_vars
  PROVE  \/ \E kind \in Kind, id \in Int, w \in Int :
              Submit(kind, id, w) \/ UNCHANGED poolVars
         \/ Worker
<1> USE DEF Kind, poolVars
<1>1. ASSUME NEW r \in Requests, LetGo(r)
      PROVE  \E kind \in Kind, id \in Int, w \in Int :
               Submit(kind, id, w) \/ UNCHANGED poolVars
  <2>1. CASE owned[r] = None
    BY <1>1, <2>1 DEF LetGo
  <2>2. CASE owned[r] # None
    <3>1. owned[r] \in Int
      BY <2>2 DEF IInv, TypeOK
    <3> QED
      BY <1>1, <2>2, <3>1, LetGoFacts
  <2> QED
    BY <2>1, <2>2
<1>2. ASSUME NEW r \in Requests, SubmitPost(r)
      PROVE  \E kind \in Kind, id \in Int, w \in Int : Submit(kind, id, w)
  BY <1>2, RetireFacts DEF SubmitPost, StartOperation, IInv, TypeOK
<1>3. ASSUME BeginRestart
      PROVE  Submit("shutdown", -1, -1)
  BY <1>3 DEF BeginRestart
<1>4. CASE \E r \in Requests : Cancel(r) \/ BeginPost(r)
  BY <1>1, <1>4 DEF Cancel, BeginPost
<1>5. CASE \E r \in Requests : SubmitPost(r)
  BY <1>2, <1>5
<1>6. CASE \E r \in Requests : FailPost(r) \/ AttachFuture(r)
  BY <1>6 DEF FailPost, AttachFuture
<1>7. CASE BeginRestart
  BY <1>3, <1>7
<1>8. CASE FinishRestart \/ UNCHANGED vars
  BY <1>8 DEF FinishRestart, vars
<1> QED
  BY <1>4, <1>5, <1>6, <1>7, <1>8 DEF Next

LEMMA TargetStep == IInv /\ UnsentHaveNoTarget /\ [Next]_vars
                      => UnsentHaveNoTarget'
<1> SUFFICES ASSUME IInv, UnsentHaveNoTarget, [Next]_vars
             PROVE  UnsentHaveNoTarget'
  OBVIOUS
<1>1. CASE \E kind \in Kind, id \in Int, w \in Int :
             Submit(kind, id, w) \/ UNCHANGED poolVars
  BY <1>1, SubmissionHasNoTarget DEF IInv
<1>2. CASE Worker
  <2>1. PICK t \in Tickets : Claim(t) \/ Send(t) \/ Refuse(t) \/ Complete(t)
    BY <1>2 DEF Worker
  <2>2. /\ Tickets' = Tickets
        /\ \A u \in Tickets \ {t} : stage'[u] = stage[u]
    BY <2>1 DEF Claim, Send, Refuse, Complete, Advance, IInv, TypeOK, Tickets
  <2>3. CASE Send(t)
    <3>1. stage'[t] = "sent" /\ \A u \in Tickets \ {t} : target'[u] = target[u]
      BY <2>3 DEF Send, Advance, IInv, TypeOK, Tickets
    <3> QED
      BY <2>2, <3>1 DEF UnsentHaveNoTarget, Unsent
  <2>4. CASE Claim(t) \/ Refuse(t) \/ Complete(t)
    <3>1. target' = target /\ (Unsent(t)' => Unsent(t))
      BY <2>4 DEF Claim, Refuse, Complete, Advance, IInv, TypeOK, Tickets, Unsent
    <3> QED
      BY <2>2, <3>1 DEF UnsentHaveNoTarget, Unsent
  <2> QED
    BY <2>1, <2>3, <2>4
<1> QED
  BY <1>1, <1>2, PoolStep

SentOperations == {submitted[t].id : t \in PostedTickets}

(* A submission sends nothing yet.                                         *)
LEMMA SubmissionSendsNothing ==
  ASSUME IInv, NEW kind \in Kind, NEW id \in Int, NEW w \in Int,
         Submit(kind, id, w) \/ UNCHANGED poolVars, session' = session
  PROVE  SentOperations' = SentOperations
<1>1. CASE UNCHANGED poolVars
  BY <1>1 DEF poolVars, SentOperations, PostedTickets, Tickets, IsOperation
<1>2. CASE Submit(kind, id, w)
  <2>1. /\ Len(submitted) \in Nat /\ Len(submitted') = Len(submitted) + 1
        /\ \A t \in Tickets : /\ submitted'[t] = submitted[t]
                              /\ target'[t] = target[t]
        /\ target'[Len(submitted) + 1] = 0
    BY <1>2, SubmitFacts DEF IInv
  <2>2. Tickets' = Tickets \cup {Len(submitted) + 1}
    BY <2>1 DEF Tickets
  <2>3. PostedTickets' = PostedTickets
    BY <2>1, <2>2 DEF PostedTickets, IsOperation
  <2> QED
    BY <2>1, <2>3 DEF SentOperations, PostedTickets
<1> QED
  BY <1>1, <1>2

(* Retiring announces a watermark over closed operations only.             *)
LEMMA RetiringAnnounces ==
  ASSUME IInv, NEW w, RetiresThrough(w)
  PROVE  /\ w \in retiredOperationId .. (nextOperationId - 1)
         /\ Ledger!Announce(w)
<1>1. \A i \in 0 .. w : i \in ClosedOperations
  BY DEF RetiresThrough, ClosedOperations, IInv, TypeOK, Contiguous, Active
<1> QED
  BY <1>1 DEF RetiresThrough, Ledger!Announce

LEMMA LetGoImplements ==
  ASSUME IInv, NEW r \in Requests, LetGo(r), session' = session
  PROVE  [Ledger!Next]_Ledger!ledgerVars
<1>1. CASE owned[r] = None
  BY <1>1 DEF LetGo, poolVars, Ledger!ledgerVars, ClosedOperations, Active,
              Done, PostedTickets, Tickets, IsOperation
<1>2. CASE owned[r] # None
  <2>1. PICK w \in Int :
          /\ RetiresThrough(w)
          /\ Submit("cancel", owned[r], w) \/ UNCHANGED poolVars
          /\ DOMAIN operations' = StillActive(w)
          /\ \A i \in StillActive(w) :
               /\ operations'[i].future = operations[i].future
               /\ operations'[i].finishedWithoutFuture =
                    operations[i].finishedWithoutFuture
          /\ nextOperationId' = nextOperationId
    BY <1>2, LetGoFacts
  <2>2. "cancel" \in Kind /\ owned[r] \in Int
    BY <1>2 DEF Kind, IInv, TypeOK
  <2>3. /\ SentOperations' = SentOperations
        /\ \A t \in Tickets : stage'[t] = stage[t]
    BY <2>1, <2>2, SubmissionSendsNothing, QueueGrows
  <2>4. \A i \in StillActive(w) : i \in DOMAIN operations
    BY DEF StillActive
  <2>5. \A i \in StillActive(w) : Done(i)' <=> Done(i)
    BY <2>1, <2>3, <2>4, DoneStable
  <2>6. \A i \in DOMAIN operations \ StillActive(w) : Done(i)
    BY <2>1, RetireFacts
  <2>7. ClosedOperations' = ClosedOperations
    BY <2>1, <2>4, <2>5, <2>6 DEF ClosedOperations, Active
  <2> QED
    BY <2>1, <2>3, <2>7, RetiringAnnounces
       DEF Ledger!Next, Ledger!Retire, SentOperations
<1> QED
  BY <1>1, <1>2

LEMMA StartImplements ==
  ASSUME IInv, NEW r, NEW state, NEW w, StartOperation(r, state, w),
         \A t \in Tickets : stage'[t] = stage[t],
         SentOperations' = SentOperations
  PROVE  Ledger!Next
<1>1. /\ RetiresThrough(w)
      /\ DOMAIN operations' = StillActive(w) \cup {nextOperationId}
      /\ \A i \in StillActive(w) :
           i # nextOperationId => operations'[i] = operations[i]
      /\ nextOperationId' = nextOperationId + 1
  BY DEF StartOperation
<1>2. nextOperationId \in Nat /\ nextOperationId \notin DOMAIN operations
  BY DEF IInv, TypeOK, Contiguous
<1>3. \A i \in StillActive(w) :
        i \in DOMAIN operations /\ i # nextOperationId
  BY <1>2 DEF StillActive
<1>4. \A i \in StillActive(w) : Done(i)' <=> Done(i)
  BY <1>1, <1>3, DoneStable
<1>5. \A i \in DOMAIN operations \ StillActive(w) : Done(i)
  BY <1>1, RetireFacts
<1>6. \A i \in 0 .. (nextOperationId - 1) :
        i \in ClosedOperations' <=> i \in ClosedOperations
  BY <1>1, <1>2, <1>3, <1>4, <1>5 DEF ClosedOperations, Active
<1>7. ClosedOperations' \in {ClosedOperations,
                            ClosedOperations \cup {nextOperationId}}
  BY <1>1, <1>2, <1>6 DEF ClosedOperations
<1> QED
  BY <1>1, <1>7, RetiringAnnounces
     DEF Ledger!Next, Ledger!Issue, SentOperations

LEMMA WorkerImplements ==
  ASSUME IInv, UnsentHaveNoTarget, Worker
  PROVE  [Ledger!Next]_Ledger!ledgerVars
<1>1. PICK t \in Tickets : Claim(t) \/ Send(t) \/ Refuse(t) \/ Complete(t)
  BY DEF Worker
<1>2. /\ operations' = operations /\ submitted' = submitted
      /\ session' = session /\ nextOperationId' = nextOperationId
      /\ retiredOperationId' = retiredOperationId
      /\ Tickets' = Tickets
  BY <1>1 DEF Claim, Send, Refuse, Complete, Advance, managerVars, Tickets
<1> DEFINE id == submitted[t].id
           ours == IsOperation(t) /\ submitted[t].session = session
<1>3. \A u \in Tickets \ {t} : stage'[u] = stage[u]
  BY <1>1 DEF Claim, Send, Refuse, Complete, Advance, IInv, TypeOK, Tickets
<1>4. \A i \in DOMAIN operations :
        operations[i].future = t => ours /\ i = id
  <2>1. t # None
    BY NoneAssumption DEF IInv, TypeOK, Tickets
  <2> QED
    BY <2>1 DEF IInv, FuturesMatch
<1>5. \A i \in DOMAIN operations :
        operations[i].future # t => (Done(i)' <=> Done(i))
  BY <1>2, <1>3 DEF Done, IInv, FuturesMatch
<1>6. stage[t] # "done" /\ ours =>
        /\ id \in DOMAIN operations /\ ~Done(id)
        /\ operations[id].future \in {t, None}
        /\ id \in 0 .. (nextOperationId - 1)
        /\ id > retiredOperationId
        /\ id \notin ClosedOperations
  <2> SUFFICES ASSUME stage[t] # "done", ours
               PROVE  /\ id \in DOMAIN operations
                      /\ operations[id].future \in {t, None} /\ ~Done(id)
                      /\ id \in 0 .. (nextOperationId - 1)
                      /\ id > retiredOperationId
                      /\ id \notin ClosedOperations
    OBVIOUS
  <2>1. /\ id \in DOMAIN operations
        /\ operations[id].future \in {t, None}
        /\ ~operations[id].finishedWithoutFuture
    BY DEF IInv, OpenItemsActive, Active
  <2>2. ~Done(id)
    BY <2>1 DEF Done
  <2>3. /\ id \in (retiredOperationId + 1) .. (nextOperationId - 1)
        /\ retiredOperationId \in Int /\ retiredOperationId >= -1
        /\ nextOperationId \in Nat
    BY <2>1 DEF IInv, TypeOK, Contiguous
  <2> QED
    BY <2>1, <2>2, <2>3 DEF ClosedOperations, Active
<1>7. CASE Claim(t)
  <2>1. /\ stage[t] # "done" /\ stage'[t] # "done" /\ target' = target
        /\ t # None
    BY <1>7, NoneAssumption DEF Claim, Advance, IInv, TypeOK, Tickets
  <2>2. \A i \in DOMAIN operations : Done(i)' <=> Done(i)
    BY <1>2, <1>3, <1>5, <2>1 DEF Done
  <2>3. ClosedOperations' = ClosedOperations
    BY <1>2, <2>2 DEF ClosedOperations, Active
  <2>4. SentOperations' = SentOperations
    BY <1>2, <2>1 DEF SentOperations, PostedTickets, IsOperation
  <2> QED
    BY <1>2, <2>3, <2>4 DEF Ledger!ledgerVars, SentOperations
<1>8. CASE Send(t)
  <2>1. /\ stage[t] = "claimed" /\ stage'[t] = "sent"
        /\ target[t] = 0 /\ target'[t] = session /\ session # 0
        /\ \A u \in Tickets \ {t} : target'[u] = target[u]
    BY <1>8 DEF Send, Advance, IInv, TypeOK, Tickets, UnsentHaveNoTarget, Unsent
  <2>2. \A i \in DOMAIN operations : Done(i)' <=> Done(i)
    BY <1>2, <1>3, <1>5, <2>1 DEF Done
  <2>3. ClosedOperations' = ClosedOperations
    BY <1>2, <2>2 DEF ClosedOperations, Active
  <2>4. CASE ours
    <3>1. PostedTickets' = PostedTickets \cup {t} /\ t \notin PostedTickets
      BY <1>2, <2>1, <2>4 DEF PostedTickets, IsOperation
    <3>2. SentOperations' = SentOperations \cup {id}
      BY <1>2, <3>1 DEF SentOperations
    <3>3. id \notin SentOperations
      BY <2>4, <3>1 DEF SentOperations, PostedTickets, IInv, IsOperation,
                        NothingSubmittedTwice
    <3>4. Ledger!Send(id)
      BY <1>2, <1>6, <2>1, <2>3, <2>4, <3>2, <3>3
         DEF Ledger!Send, Ledger!Issued, SentOperations
    <3>5. id \in Ledger!Issued
      BY <1>6, <2>1, <2>4 DEF Ledger!Issued
    <3> QED
      BY <3>4, <3>5 DEF Ledger!Next, Ledger!Send, Ledger!Issued
  <2>5. CASE ~ours
    <3>1. PostedTickets' = PostedTickets
      BY <1>2, <2>1, <2>5 DEF PostedTickets, IsOperation
    <3> QED
      BY <1>2, <2>3, <3>1 DEF Ledger!ledgerVars
  <2> QED
    BY <2>4, <2>5
<1>9. CASE Refuse(t) \/ Complete(t)
  <2>1. stage[t] # "done" /\ stage'[t] = "done" /\ target' = target
    BY <1>9 DEF Refuse, Complete, Advance, IInv, TypeOK, Tickets
  <2>2. SentOperations' = SentOperations
    BY <1>2, <2>1 DEF SentOperations, PostedTickets, IsOperation
  <2>3. CASE ours /\ operations[id].future = t
    <3>1. Done(id)'
      BY <1>2, <1>6, <2>1, <2>3, NoneAssumption DEF Done, Tickets
    <3>2. \A i \in DOMAIN operations \ {id} : Done(i)' <=> Done(i)
      BY <1>4, <1>5
    <3>3. ClosedOperations' = ClosedOperations \cup {id}
      BY <1>2, <1>6, <2>1, <2>3, <3>1, <3>2 DEF ClosedOperations, Active
    <3>4. id \in Ledger!Issued /\ Ledger!Close(id)
      BY <1>2, <1>6, <2>1, <2>2, <2>3, <3>3
         DEF Ledger!Close, Ledger!Issued, SentOperations
    <3> QED
      BY <3>4 DEF Ledger!Next
  <2>4. CASE ~(ours /\ operations[id].future = t)
    <3>1. \A i \in DOMAIN operations : Done(i)' <=> Done(i)
      BY <1>4, <1>5, <2>4
    <3>2. ClosedOperations' = ClosedOperations
      BY <1>2, <3>1 DEF ClosedOperations, Active
    <3> QED
      BY <1>2, <2>2, <3>2 DEF Ledger!ledgerVars, SentOperations
  <2> QED
    BY <2>3, <2>4
<1> QED
  BY <1>1, <1>7, <1>8, <1>9

(* The manager learns of a completion when it attaches a future that is    *)
(* done already; otherwise attaching changes nothing for ycmd.             *)
LEMMA AttachImplements ==
  ASSUME IInv, NEW r \in Requests, AttachFuture(r)
  PROVE  [Ledger!Next]_Ledger!ledgerVars
<1>0. PICK id \in DOMAIN operations : id = owned[r]
  BY DEF AttachFuture, IInv, AttachmentPending, Active
<1>1. /\ operations' = [operations EXCEPT ![id].future = Len(submitted)]
      /\ nextOperationId' = nextOperationId
      /\ retiredOperationId' = retiredOperationId
      /\ session' = session
      /\ submitted' = submitted /\ stage' = stage /\ target' = target
  BY <1>0 DEF AttachFuture, poolVars
<1>2. /\ id \in DOMAIN operations
      /\ operations[id].future = None
      /\ ~operations[id].finishedWithoutFuture
  BY <1>0 DEF AttachFuture, IInv, AttachmentPending, Active
<1>3. SentOperations' = SentOperations
  BY <1>1 DEF SentOperations, PostedTickets, Tickets, IsOperation
<1>4. /\ DOMAIN operations' = DOMAIN operations
      /\ \A i \in DOMAIN operations : i # id => operations'[i] = operations[i]
  BY <1>1
<1>5. \A i \in DOMAIN operations : i # id => (Done(i)' <=> Done(i))
  BY <1>1, <1>4 DEF Done
<1>6. /\ ~Done(id)
      /\ id \in 0 .. (nextOperationId - 1)
  BY <1>2 DEF Done, IInv, TypeOK, Contiguous
<1>7. CASE Done(id)'
  <2>1. ClosedOperations' = ClosedOperations \cup {id}
    BY <1>1, <1>4, <1>5, <1>6, <1>7 DEF ClosedOperations, Active
  <2>2. id \notin ClosedOperations
    BY <1>2, <1>6 DEF ClosedOperations, Active
  <2>3. id \in Ledger!Issued /\ Ledger!Close(id)
    BY <1>1, <1>3, <1>6, <2>1, <2>2
       DEF Ledger!Close, Ledger!Issued, SentOperations
  <2> QED
    BY <2>3 DEF Ledger!Next
<1>8. CASE ~Done(id)'
  <2>1. ClosedOperations' = ClosedOperations
    BY <1>1, <1>4, <1>5, <1>6, <1>8 DEF ClosedOperations, Active
  <2> QED
    BY <1>1, <1>3, <2>1 DEF Ledger!ledgerVars, SentOperations
<1> QED
  BY <1>7, <1>8

LEMMA NextImplements == IInv /\ UnsentHaveNoTarget /\ [Next]_vars
                          => [Ledger!Next]_Ledger!ledgerVars
<1> SUFFICES ASSUME IInv, UnsentHaveNoTarget, [Next]_vars
             PROVE  [Ledger!Next]_Ledger!ledgerVars
  OBVIOUS
<1>1. ASSUME NEW r \in Requests, Cancel(r) \/ BeginPost(r)
      PROVE  [Ledger!Next]_Ledger!ledgerVars
  BY <1>1, LetGoImplements DEF Cancel, BeginPost
<1>2. ASSUME NEW r \in Requests, SubmitPost(r)
      PROVE  Ledger!Next
  <2>1. PICK w \in retiredOperationId .. (nextOperationId - 1) :
          /\ StartOperation(r, NewState, w)
          /\ Submit("operation", nextOperationId, w)
    BY <1>2 DEF SubmitPost
  <2>2. "operation" \in Kind /\ nextOperationId \in Int /\ w \in Int
    BY <2>1, RetireFacts DEF Kind, IInv, TypeOK, StartOperation
  <2>3. session' = session
    BY <2>1 DEF StartOperation
  <2> QED
    BY <2>1, <2>2, <2>3, QueueGrows, SubmissionSendsNothing, StartImplements
<1>3. ASSUME NEW r \in Requests, FailPost(r)
      PROVE  Ledger!Next
  <2>1. PICK w \in retiredOperationId .. (nextOperationId - 1) :
          StartOperation(r, FinishedState, w) /\ UNCHANGED <<owned, poolVars>>
    BY <1>3 DEF FailPost
  <2>2. SentOperations' = SentOperations
    BY <2>1 DEF StartOperation, poolVars, SentOperations, PostedTickets,
                Tickets, IsOperation
  <2> QED
    BY <2>1, <2>2, StartImplements DEF poolVars
<1>4. CASE BeginRestart
  <2>1. /\ operations' = operations /\ nextOperationId' = nextOperationId
        /\ retiredOperationId' = retiredOperationId /\ session' = session
        /\ Submit("shutdown", -1, -1) /\ "shutdown" \in Kind /\ -1 \in Int
    BY <1>4 DEF BeginRestart, managerVars, Kind
  <2>2. /\ SentOperations' = SentOperations
        /\ \A t \in Tickets : stage'[t] = stage[t]
    BY <2>1, SubmissionSendsNothing, QueueGrows
  <2>3. \A i \in DOMAIN operations : Done(i)' <=> Done(i)
    BY <2>1, <2>2, DoneStable
  <2>4. ClosedOperations' = ClosedOperations
    BY <2>1, <2>3 DEF ClosedOperations, Active
  <2> QED
    BY <2>1, <2>2, <2>4 DEF Ledger!ledgerVars, SentOperations
<1>5. CASE FinishRestart
  <2>1. /\ nextOperationId' = 0 /\ retiredOperationId' = -1
        /\ session' = session + 1 /\ submitted' = submitted
        /\ Tickets' = Tickets
    BY <1>5 DEF FinishRestart, poolVars, Tickets
  <2>2. \A t \in Tickets : submitted[t].session # session'
    BY <2>1 DEF IInv, TypeOK, SubmittedWithinReach
  <2>3. ClosedOperations' = {} /\ SentOperations' = {}
    BY <2>1, <2>2 DEF ClosedOperations, SentOperations, PostedTickets
  <2> QED
    BY <2>1, <2>3 DEF Ledger!Next, Ledger!Renew, SentOperations
<1>6. CASE Worker
  BY <1>6, WorkerImplements
<1>7. CASE UNCHANGED vars
  BY <1>7 DEF vars, managerVars, poolVars, Ledger!ledgerVars, PostedTickets,
              ClosedOperations, Active, Done, Tickets, IsOperation
<1>8. ASSUME NEW r \in Requests, AttachFuture(r)
      PROVE  [Ledger!Next]_Ledger!ledgerVars
  BY <1>8, AttachImplements
<1> QED
  BY <1>1, <1>2, <1>3, <1>4, <1>5, <1>6, <1>7, <1>8 DEF Next

(* Seen from ycmd, the manager with its requests, the pool and the restart *)
(* of the server is the ledger: every operation is issued in order, sent   *)
(* at most once above the announced watermark, and closed.                 *)
THEOREM ManagerImplementsLedger == Spec => ImplementsLedger
<1>1. Init => Ledger!Init
  BY DEF Init, Ledger!Init, ClosedOperations, PostedTickets, Tickets
<1>2. Init => UnsentHaveNoTarget
  BY DEF Init, UnsentHaveNoTarget, Tickets
<1> QED
  BY <1>1, <1>2, TargetStep, NextImplements, Invariance, PTL
     DEF Spec, Ledger!Spec, ImplementsLedger

(* The watermark only advances over operations whose futures are done.     *)
THEOREM RetirementSafety == Spec => RetirementIsEarned
<1> DEFINE earned == session' = session =>
                       /\ retiredOperationId' >= retiredOperationId
                       /\ \A id \in (retiredOperationId + 1)
                                      .. retiredOperationId' :
                            Active(id) /\ Done(id)
<1>1. ASSUME IInv, NEW w, RetiresThrough(w)
      PROVE  earned
  BY <1>1 DEF RetiresThrough, IInv, TypeOK
<1>2. ASSUME IInv, retiredOperationId' = retiredOperationId
      PROVE  earned
  BY <1>2 DEF IInv, TypeOK
<1>3. IInv /\ [Next]_vars => [earned]_vars
  <2> SUFFICES ASSUME IInv, Next
               PROVE  earned
    OBVIOUS
  <2>1. ASSUME NEW r \in Requests, LetGo(r)
        PROVE  earned
    BY <1>1, <1>2, <2>1 DEF LetGo, CancelOperation
  <2>2. CASE \E r \in Requests : Cancel(r) \/ BeginPost(r)
    BY <2>1, <2>2 DEF Cancel, BeginPost
  <2>3. CASE \E r \in Requests : SubmitPost(r) \/ FailPost(r)
    BY <1>1, <2>3 DEF SubmitPost, FailPost, StartOperation
  <2>7. CASE \E r \in Requests : AttachFuture(r)
    BY <1>2, <2>7 DEF AttachFuture
  <2>4. CASE BeginRestart
    BY <1>2, <2>4 DEF BeginRestart, managerVars
  <2>5. CASE FinishRestart
    <3>1. session' # session
      BY <2>5 DEF FinishRestart, IInv, TypeOK
    <3> QED
      BY <3>1
  <2>6. CASE Worker
    BY <1>2, <2>6 DEF Worker, Claim, Send, Refuse, Complete, Advance, managerVars
  <2> QED
    BY <2>2, <2>3, <2>4, <2>5, <2>6, <2>7 DEF Next
<1> QED
  BY <1>3, Invariance, PTL DEF Spec, RetirementIsEarned
=============================================================================
