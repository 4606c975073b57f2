-------------------------- MODULE RequestOperations --------------------------
(***************************************************************************)
(* The lifecycle of cancellable requests: RequestOperationManager          *)
(* (client/request_operation.py), the BaseRequest objects that own an      *)
(* operation (client/base_request.py), the thread pool that posts requests *)
(* and cancellations to ycmd (unsafe_thread_pool_executor.py), and         *)
(* RestartServer, which replaces manager and server while workers of the   *)
(* old session may still be about to post.                                 *)
(*                                                                         *)
(* Everything the manager does happens on the editor's main thread; worker *)
(* threads only move a work item from the queue to the wire and complete   *)
(* its future, which they may do before the main thread has attached that  *)
(* future to its operation.                                                *)
(* A pass of _RetireCompletedOperations reads the futures one              *)
(* after the other, and a completed future stays completed, so the pass is *)
(* equivalent to one that reads them all at its last read.                 *)
(***************************************************************************)
EXTENDS Integers, Sequences, FiniteSets

CONSTANTS
  Requests,       \* BaseRequest objects that own cancellable operations
  MaxWorkers,     \* max_workers of the pool (30 in the code)
  MaxOperations,  \* bound: operations started per server session
  MaxSessions,    \* bound: server sessions (RestartServer calls plus one)
  None            \* Python's None

ASSUME WorkersAssumption == MaxWorkers \in Nat \ {0}
ASSUME BoundsAssumption == MaxOperations \in Nat /\ MaxSessions \in Nat
ASSUME NoneAssumption == None \notin Nat /\ None \notin Requests

Restarting == "restarting"
ASSUME RestartingAssumption == Restarting \notin Requests /\ Restarting # None

VARIABLES
  nextOperationId,     \* RequestOperationManager._next_operation_id
  retiredOperationId,  \* RequestOperationManager._retired_operation_id
  operations,          \* RequestOperationManager._operations
  owned,               \* BaseRequest._request_operation of each request
  main,                \* what the main thread is in the middle of
  submitted,           \* every work item ever submitted, in submission order
  stage,               \* how far each work item has got
  target,              \* the session whose server it was posted to, or 0
  session              \* server session: the current manager and ycmd

managerVars == <<nextOperationId, retiredOperationId, operations, owned>>
poolVars == <<submitted, stage, target>>
vars == <<managerVars, main, poolVars, session>>

-----------------------------------------------------------------------------
(* Work items.  The data posted for an operation or for a cancellation     *)
(* names the operation and carries the watermark, -1 when there is none.   *)

Stage == {"queued", "claimed", "sent", "done"}
Kind == {"operation", "cancel", "shutdown"}
WorkItem == [kind : Kind, id : Int, retired : Int, session : Nat]

Tickets == 1 .. Len(submitted)
IsOperation(t) == submitted[t].kind = "operation"
IsCancel(t) == submitted[t].kind = "cancel"
Unsent(t) == stage[t] \in {"queued", "claimed"}
(* Mutant: a worker that has run an item never takes another.              *)
BusyWorkersForGood == {t \in Tickets : stage[t] # "queued"}

BusyWorkers == {t \in Tickets : stage[t] \in {"claimed", "sent"}}

Submit(kind, id, watermark) ==
  /\ submitted' = Append(submitted, [kind |-> kind, id |-> id,
                                     retired |-> watermark,
                                     session |-> session])
  /\ stage' = Append(stage, "queued")
  /\ target' = Append(target, 0)

-----------------------------------------------------------------------------
(* _OperationState and the operations of the manager.                      *)

OperationState == [future : Nat \cup {None}, finishedWithoutFuture : BOOLEAN,
                   cancellationRequested : BOOLEAN]

Done(id) ==
  \/ operations[id].finishedWithoutFuture
  \/ /\ operations[id].future # None
     /\ stage[operations[id].future] = "done"

Active(id) == id \in DOMAIN operations

(* Mutant: an operation counts as completed once it is to be cancelled.    *)
RetiresCancelledThrough(w) ==
  /\ w \in retiredOperationId .. (nextOperationId - 1)
  /\ \A id \in (retiredOperationId + 1) .. w :
       Active(id) /\ (Done(id) \/ operations[id].cancellationRequested)
  /\ retiredOperationId' = w

(* _RetireCompletedOperations moves the watermark to `w': over every        *)
(* completed operation next to it, up to the first that is missing or not  *)
(* completed.                                                              *)
RetiresThrough(w) ==
  /\ w \in retiredOperationId .. (nextOperationId - 1)
  /\ \A id \in (retiredOperationId + 1) .. w : Active(id) /\ Done(id)
  /\ Active(w + 1) => ~Done(w + 1)
  /\ retiredOperationId' = w

StillActive(w) == {id \in DOMAIN operations : id > w}

(* Mutant: the operation is looked up before the others are retired.       *)
CancelWithoutRetiring(id) ==
  \E w \in retiredOperationId .. (nextOperationId - 1) :
    /\ RetiresThrough(w)
    /\ operations' = [i \in StillActive(w) |-> operations[i]]
    /\ \/ /\ id \in DOMAIN operations
          /\ ~operations[id].cancellationRequested
          /\ Submit("cancel", id, w)
       \/ UNCHANGED poolVars

(* RequestOperationManager._CancelOperation(id).  The pool may refuse the  *)
(* cancellation; SendCancellationRequest then logs it and carries on.      *)
CancelOperation(id) ==
  \E w \in retiredOperationId .. (nextOperationId - 1) :
    /\ RetiresThrough(w)
    /\ \/ /\ id \in StillActive(w)
          /\ ~operations[id].cancellationRequested
          /\ operations' = [i \in StillActive(w) |->
                              IF i = id
                              THEN [operations[i] EXCEPT
                                      !.cancellationRequested = TRUE]
                              ELSE operations[i]]
          /\ \/ Submit("cancel", id, w)
             \/ UNCHANGED poolVars
       \/ /\ id \in StillActive(w) => operations[id].cancellationRequested
          /\ operations' = [i \in StillActive(w) |-> operations[i]]
          /\ UNCHANGED poolVars

(* Mutant: the operation is forgotten and not cancelled.                   *)
ForgetOperation(r) ==
  /\ owned' = [owned EXCEPT ![r] = None]
  /\ UNCHANGED <<nextOperationId, retiredOperationId, operations, poolVars>>

(* BaseRequest.Cancel: the request lets go of its operation.               *)
LetGo(r) ==
  /\ owned' = [owned EXCEPT ![r] = None]
  /\ IF owned[r] = None
     THEN UNCHANGED <<nextOperationId, retiredOperationId, operations, poolVars>>
     ELSE CancelOperation(owned[r]) /\ UNCHANGED nextOperationId

-----------------------------------------------------------------------------
(* Main thread.                                                            *)

Cancel(r) ==
  /\ main = None
  /\ LetGo(r)
  /\ UNCHANGED <<main, session>>

(* PostCancellableDataToHandlerAsync first cancels what the request posted *)
(* before; a worker may complete a future before the rest of the call.     *)
BeginPost(r) ==
  /\ main = None
  /\ nextOperationId < MaxOperations
  /\ LetGo(r)
  /\ main' = r
  /\ UNCHANGED session

(* StartOperation with the state the submission leaves it in.              *)
StartOperation(r, state, w) ==
  /\ main = r
  /\ owned[r] = None
  /\ RetiresThrough(w)
  /\ operations' = [i \in StillActive(w) \cup {nextOperationId} |->
                      IF i = nextOperationId THEN state ELSE operations[i]]
  /\ nextOperationId' = nextOperationId + 1
  /\ UNCHANGED session

NewState == [future |-> None, finishedWithoutFuture |-> FALSE,
             cancellationRequested |-> FALSE]

(* The request owns its new operation and the pool accepts the work item;  *)
(* from here on workers may take, send and complete it.                    *)
SubmitPost(r) ==
  \E w \in retiredOperationId .. (nextOperationId - 1) :
    /\ StartOperation(r, NewState, w)
    /\ owned' = [owned EXCEPT ![r] = nextOperationId]
    /\ Submit("operation", nextOperationId, w)
    /\ UNCHANGED main

(* The main thread, which has submitted nothing since, attaches the future *)
(* that the submission has returned.                                       *)
AttachFuture(r) ==
  /\ main = r
  /\ owned[r] # None
  /\ operations' = [operations EXCEPT ![owned[r]].future = Len(submitted)]
  /\ main' = None
  /\ UNCHANGED <<nextOperationId, retiredOperationId, owned, poolVars, session>>

(* Mutant: -1 stands for no future.                                        *)
FinishedStateWithoutNone ==
  [future |-> -1, finishedWithoutFuture |-> TRUE, cancellationRequested |-> FALSE]

FinishedState == [future |-> None, finishedWithoutFuture |-> TRUE,
                  cancellationRequested |-> FALSE]

(* The submission raises before the work item is queued.                   *)
FailPost(r) ==
  \E w \in retiredOperationId .. (nextOperationId - 1) :
    /\ StartOperation(r, FinishedState, w)
    /\ main' = None
    /\ UNCHANGED <<owned, poolVars>>

(* RestartServer: the shutdown request goes through the same queue and the *)
(* main thread blocks on its future; then _SetUpServer replaces manager,   *)
(* requests, server location and secret.                                   *)
BeginRestart ==
  /\ main = None
  /\ session < MaxSessions
  /\ Submit("shutdown", -1, -1)
  /\ main' = Restarting
  /\ UNCHANGED <<managerVars, session>>

ShutdownAnswered ==
  \A t \in Tickets : submitted[t].kind = "shutdown" => stage[t] = "done"

FinishRestart ==
  /\ main = Restarting
  /\ ShutdownAnswered
  /\ nextOperationId' = 0
  /\ retiredOperationId' = -1
  /\ operations' = [i \in {} |-> FinishedState]
  /\ owned' = [r \in Requests |-> None]
  /\ session' = session + 1
  /\ main' = None
  /\ UNCHANGED poolVars

-----------------------------------------------------------------------------
(* Worker threads.                                                         *)

Advance(t, from, to) ==
  /\ stage[t] = from
  /\ stage' = [stage EXCEPT ![t] = to]
  /\ UNCHANGED <<managerVars, main, submitted, session>>

(* Mutant: off by one in the number of workers.                            *)
ClaimOneLess(t) ==
  /\ Cardinality(BusyWorkers) < MaxWorkers - 1
  /\ \A u \in 1 .. (t - 1) : stage[u] # "queued"
  /\ Advance(t, "queued", "claimed")
  /\ UNCHANGED target

(* An idle worker takes the oldest queued item.                            *)
Claim(t) ==
  /\ Cardinality(BusyWorkers) < MaxWorkers
  /\ \A u \in 1 .. (t - 1) : stage[u] # "queued"
  /\ Advance(t, "queued", "claimed")
  /\ UNCHANGED target

(* _MakeRequest builds the URI and signs the request with the server       *)
(* location and secret that are current when the worker runs, then posts.  *)
Send(t) ==
  /\ Advance(t, "claimed", "sent")
  /\ target' = [target EXCEPT ![t] = session]

(* The connection is refused.                                              *)
Refuse(t) ==
  /\ Advance(t, "claimed", "done")
  /\ UNCHANGED target

(* urlopen returns or raises: an answer, an error, or the read timeout.    *)
Complete(t) ==
  /\ Advance(t, "sent", "done")
  /\ UNCHANGED target

-----------------------------------------------------------------------------
Init ==
  /\ nextOperationId = 0
  /\ retiredOperationId = -1
  /\ operations = [i \in {} |-> FinishedState]
  /\ owned = [r \in Requests |-> None]
  /\ main = None
  /\ submitted = << >>
  /\ stage = << >>
  /\ target = << >>
  /\ session = 1

MaxTickets == 3 * MaxOperations * MaxSessions

Work(t) == t \in Tickets /\ (Claim(t) \/ Send(t) \/ Refuse(t) \/ Complete(t))

Worker == \E t \in Tickets : Claim(t) \/ Send(t) \/ Refuse(t) \/ Complete(t)

Next ==
  \/ \E r \in Requests : Cancel(r)
  \/ \E r \in Requests : BeginPost(r)
  \/ \E r \in Requests : SubmitPost(r)
  \/ \E r \in Requests : FailPost(r)
  \/ \E r \in Requests : AttachFuture(r)
  \/ BeginRestart
  \/ FinishRestart
  \/ Worker

Spec == Init /\ [][Next]_vars

(* The operating system runs the worker threads, every HTTP call ends      *)
(* within its timeout, and a call the main thread has begun is carried on. *)
Fairness ==
  /\ \A t \in 1 .. MaxTickets : WF_vars(Work(t))
  /\ WF_vars(FinishRestart)
  /\ WF_vars(\E r \in Requests : SubmitPost(r) \/ FailPost(r) \/ AttachFuture(r))

FairSpec == Spec /\ Fairness

-----------------------------------------------------------------------------
(* Properties.                                                             *)

(* Type correctness of manager, requests and pool.                         *)
TypeOK ==
  /\ nextOperationId \in Nat
  /\ retiredOperationId \in Int
  /\ DOMAIN operations \subseteq Nat
  /\ operations \in [DOMAIN operations -> OperationState]
  /\ owned \in [Requests -> Nat \cup {None}]
  /\ main \in Requests \cup {None, Restarting}
  /\ submitted \in Seq(WorkItem)
  /\ stage \in Seq(Stage)
  /\ target \in Seq(Nat)
  /\ Len(stage) = Len(submitted) /\ Len(target) = Len(submitted)
  /\ session \in Nat \ {0}

(* The promise of the retirement watermark: while an operation has yet to  *)
(* be posted, no watermark its manager ever put on a request (an operation *)
(* or a cancellation, itself still queued or not) reaches its ID.          *)
WatermarkNeverOvertaken ==
  \A t, u \in Tickets :
    /\ IsOperation(t)
    /\ Unsent(t)
    /\ submitted[u].session = submitted[t].session
    => submitted[u].retired < submitted[t].id

(* A cancellation names an operation that its own watermark, and every     *)
(* watermark submitted before it, still treats as live.                    *)
CancellationNamesLiveOperation ==
  \A t, u \in Tickets :
    /\ IsCancel(t)
    /\ u <= t
    /\ submitted[u].session = submitted[t].session
    => submitted[u].retired < submitted[t].id

(* However often requests are cancelled and superseded, ycmd is asked at   *)
(* most once to cancel an operation, and an operation is submitted once.   *)
NothingSubmittedTwice ==
  \A t, u \in Tickets :
    /\ t # u
    /\ submitted[t].kind = submitted[u].kind
    /\ submitted[t].kind # "shutdown"
    /\ submitted[t].session = submitted[u].session
    => submitted[t].id # submitted[u].id

(* No operation runs on unattended: once its request has let go of it, it  *)
(* has completed or its cancellation has been requested.                   *)
AbandonedOperationsAreCancelled ==
  \A id \in DOMAIN operations :
    \/ Done(id)
    \/ operations[id].cancellationRequested
    \/ \E r \in Requests : owned[r] = id

(* Within a session the watermark only advances, and only over operations  *)
(* whose futures are done when it does.                                    *)
RetirementIsEarned ==
  [][session' = session =>
       /\ retiredOperationId' >= retiredOperationId
       /\ \A id \in (retiredOperationId + 1) .. retiredOperationId' :
            Active(id) /\ Done(id)]_vars

(* Each operation and cancellation that reaches the queue is dealt with,   *)
(* however many requests occupy the workers.                               *)
EverySubmissionEnds ==
  \A t \in 1 .. MaxTickets :
    (t \in Tickets) ~> (t \in Tickets /\ stage[t] = "done")

(* RestartServer, which blocks the editor on a request that queues behind  *)
(* all the others, always returns.                                         *)
RestartReturns == (main = Restarting) ~> (main = None)

(* The manager, its requests and the pool implement the ledger of the      *)
(* current session: what is issued, closed, sent and announced.            *)
ClosedOperations == {id \in 0 .. (nextOperationId - 1) : Active(id) => Done(id)}

PostedTickets ==
  {t \in Tickets : IsOperation(t) /\ submitted[t].session = session
                                  /\ target[t] # 0}

Ledger == INSTANCE OperationLedger
            WITH issued <- nextOperationId, announced <- retiredOperationId,
                 closed <- ClosedOperations,
                 sent <- {submitted[t].id : t \in PostedTickets}

(* Every step of the implementation is a step of the ledger or changes     *)
(* nothing that ycmd relies on.                                            *)
ImplementsLedger == Ledger!Spec

(* What the comment on YCM_RETIRED_OPERATION_ID tells ycmd, stated for one *)
(* server: it is never sent an operation at or below a watermark that it   *)
(* has already been sent.                                                  *)
ServerNeverSentRetiredOperation ==
  [][\A t \in Tickets :
       (target[t] = 0 /\ target'[t] # 0 /\ IsOperation(t)) =>
         \A u \in Tickets :
           target[u] = target'[t] => submitted[u].retired < submitted[t].id]_vars
=============================================================================
