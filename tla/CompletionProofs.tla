--------------------------- MODULE CompletionProofs ---------------------------
(* Proofs about Completion: its types, that ycmd works on the latest       *)
(* request only and, unless keys are typed ahead, that every poller waits  *)
(* for a request of its own kind.                                          *)
EXTENDS Completion, SequenceTheorems, TLAPS

Info == [item : Items, resolved : BOOLEAN] \union {None}

TextOK ==
  /\ insert \in BOOLEAN /\ stopped \in BOOLEAN
  /\ typed \in Nat /\ selected \in Items \union {None}
  /\ asked \in Place
  /\ info \in Info

(* A resolution is asked for a candidate.                                  *)
Posted == {request \in Request : request.kind = "resolve" => request.item \in Items}

RequestsOK ==
  /\ requests \in Seq(Posted) /\ PendingIsLatest
  /\ menu \in 0 .. Latest

(* When keys are not typed ahead, a stray is alone: it was started with the*)
(* stored timer stopped, and it runs before anything else happens.         *)
TimersOK ==
  /\ stored \in Timer \union {None} /\ strays \in Seq(Timer)
  /\ ~Typeahead =>
       /\ stored # None => Is(stored.function)
       /\ strays # << >> => /\ Len(strays) = 1 /\ stored = None
                            /\ Is(strays[1].function)

IInv == TextOK /\ RequestsOK /\ TimersOK

-----------------------------------------------------------------------------
LEMMA TimersAreNot ==
  /\ CompletionTimer \in Timer /\ CompletionTimer.function = "completion"
  /\ \A item \in Items : /\ ResolveTimer(item) \in Timer
                         /\ ResolveTimer(item).function = "resolve"
BY DEF Timer, CompletionTimer, ResolveTimer

LEMMA InfoIsTyped ==
  \A item \in Items : /\ [item |-> item, resolved |-> TRUE] \in Info
                       /\ [item |-> item, resolved |-> FALSE] \in Info
BY DEF Info

LEMMA CursorIsAPlace == TextOK => Cursor \in Place
BY DEF TextOK, Cursor, Place

(* Cancelling the latest request leaves none unanswered.                   *)
LEMMA CancellingLatest ==
  ASSUME RequestsOK
  PROVE  /\ LatestCancelled \in Seq(Posted) /\ Len(LatestCancelled) = Latest
         /\ \A r \in 1 .. Latest : LatestCancelled[r].outcome # "pending"
<1> DEFINE one(r) == IF r = Latest /\ requests[r].outcome = "pending"
                     THEN [requests[r] EXCEPT !.outcome = "cancelled"]
                     ELSE requests[r]
<1>1. /\ requests \in Seq(Posted) /\ Latest \in Nat /\ DOMAIN requests = 1 .. Latest
      /\ \A r \in 1 .. Latest : requests[r] \in Posted
  BY DEF RequestsOK, Latest
<1>2. LatestCancelled = [r \in 1 .. Latest |-> one(r)]
  BY <1>1 DEF LatestCancelled
<1>3. \A r \in 1 .. Latest : one(r) \in Posted /\ one(r).outcome # "pending"
  <2> TAKE r \in 1 .. Latest
  <2>1. requests[r] \in Posted /\ (requests[r].outcome = "pending" => r = Latest)
    BY <1>1 DEF RequestsOK, PendingIsLatest
  <2>2. CASE r = Latest /\ requests[r].outcome = "pending"
    <3>1. one(r) = [requests[r] EXCEPT !.outcome = "cancelled"]
      BY <2>2
    <3> HIDE DEF one
    <3> QED
      BY <2>1, <3>1 DEF Posted, Request
  <2>3. CASE ~(r = Latest /\ requests[r].outcome = "pending")
    BY <2>1, <2>3
  <2> QED
    BY <2>2, <2>3
<1> HIDE DEF one
<1>4. LatestCancelled \in Seq(Posted) /\ Len(LatestCancelled) = Latest
  BY <1>1, <1>2, <1>3, IsASeq
<1> QED
  BY <1>2, <1>3, <1>4

(* A request that is posted when none is unanswered becomes the latest.    *)
LEMMA Posting ==
  ASSUME NEW before \in Seq(Posted), NEW new \in Posted,
         Len(before) = Latest, menu \in 0 .. Latest,
         \A r \in 1 .. Latest : before[r].outcome # "pending",
         requests' = Append(before, new), menu' = menu \/ menu' = 0
  PROVE  RequestsOK' /\ \A kind : new.kind = kind => Is(kind)'
<1>1. /\ requests' \in Seq(Posted) /\ Latest' = Latest + 1 /\ Latest \in Nat
      /\ requests'[Latest + 1] = new
      /\ \A r \in 1 .. Latest : requests'[r] = before[r]
  BY AppendProperties DEF Latest
<1>2. PendingIsLatest'
  <2> SUFFICES ASSUME NEW r \in DOMAIN requests', requests'[r].outcome = "pending"
               PROVE  r = Latest'
    BY DEF PendingIsLatest
  <2>1. r \in 1 .. Latest + 1
    BY <1>1 DEF Latest
  <2> QED
    BY <1>1, <2>1
<1>3. menu' \in 0 .. Latest'
  BY <1>1
<1>4. \A kind : new.kind = kind => Is(kind)'
  BY <1>1 DEF Is
<1> QED
  BY <1>1, <1>2, <1>3, <1>4 DEF RequestsOK

LEMMA CompletionPosted ==
  ASSUME RequestsOK, NEW at \in Place, RequestCompletion(at), menu' = menu \/ menu' = 0
  PROVE  /\ RequestsOK' /\ Is("completion")'
         /\ stored' = CompletionTimer /\ strays' = strays
<1>1. NewRequest("completion", at, None) \in Posted
  BY DEF NewRequest, Posted, Request
<1>2. NewRequest("completion", at, None).kind = "completion"
  BY DEF NewRequest
<1>3. /\ requests' = Append(LatestCancelled, NewRequest("completion", at, None))
      /\ stored' = CompletionTimer /\ strays' = strays
  BY DEF RequestCompletion
<1>4. /\ LatestCancelled \in Seq(Posted) /\ Len(LatestCancelled) = Latest
      /\ \A r \in 1 .. Latest : LatestCancelled[r].outcome # "pending"
      /\ menu \in 0 .. Latest
  BY CancellingLatest DEF RequestsOK
<1> DEFINE new == NewRequest("completion", at, None)
<1> HIDE DEF new
<1>5. new \in Posted /\ new.kind = "completion" /\ requests' = Append(LatestCancelled, new)
  BY <1>1, <1>2, <1>3 DEF new
<1>6. RequestsOK' /\ Is("completion")'
  BY <1>4, <1>5, Posting
<1> QED
  BY <1>3, <1>6

LEMMA ResolutionPosted ==
  ASSUME TextOK, RequestsOK, NEW item \in Items, CanResolve(item), menu' = menu,
         requests' = Append(requests, NewRequest("resolve", Cursor, item))
  PROVE  RequestsOK' /\ Is("resolve")'
<1> DEFINE new == NewRequest("resolve", Cursor, item)
<1>1. new \in Posted /\ new.kind = "resolve"
  BY CursorIsAPlace DEF NewRequest, Posted, Request
<1> HIDE DEF new
<1>2. /\ requests \in Seq(Posted) /\ DOMAIN requests = 1 .. Latest /\ menu \in 0 .. Latest
      /\ requests[Latest].outcome # "pending"
  BY DEF RequestsOK, Latest, CanResolve, Ready
<1>3. \A r \in 1 .. Latest : requests[r].outcome # "pending"
  BY <1>2 DEF RequestsOK, PendingIsLatest
<1>4. requests' = Append(requests, new) /\ Len(requests) = Latest
  BY DEF new, Latest
<1> QED
  BY <1>1, <1>2, <1>3, <1>4, Posting

(* Answering a request, or reading the response of the latest, leaves its  *)
(* kind alone and does not make it unanswered.                             *)
Touched ==
  \E r \in 1 .. Latest, new \in Posted :
    /\ new.kind = requests[r].kind
    /\ new.outcome = "pending" => requests[r].outcome = "pending"
    /\ requests' = [requests EXCEPT ![r] = new]

LEMMA Touching ==
  ASSUME RequestsOK, Touched,
         menu' = menu \/ menu' = 0 \/ menu' = Latest
  PROVE  RequestsOK' /\ Latest' = Latest /\ \A kind : Is(kind) => Is(kind)'
<1>0. PICK r \in 1 .. Latest, new \in Posted :
        /\ new.kind = requests[r].kind
        /\ new.outcome = "pending" => requests[r].outcome = "pending"
        /\ requests' = [requests EXCEPT ![r] = new]
  BY DEF Touched
<1>1. /\ requests \in Seq(Posted) /\ Latest = Len(requests) /\ Latest \in Nat
      /\ DOMAIN requests = 1 .. Latest
  BY DEF RequestsOK, Latest
<1>2. /\ requests' \in Seq(Posted) /\ Len(requests') = Latest
      /\ \A j \in 1 .. Latest : requests'[j] = IF j = r THEN new ELSE requests[j]
  BY <1>0, <1>1, ExceptSeq
<1>3. Latest' = Latest
  BY <1>2 DEF Latest
<1>4. PendingIsLatest'
  BY <1>0, <1>1, <1>2, <1>3 DEF RequestsOK, PendingIsLatest
<1>5. menu' \in 0 .. Latest'
  BY <1>1, <1>3 DEF RequestsOK
<1>6. \A kind : Is(kind) => Is(kind)'
  BY <1>0, <1>1, <1>2, <1>3 DEF Is
<1> QED
  BY <1>2, <1>3, <1>4, <1>5, <1>6 DEF RequestsOK

-----------------------------------------------------------------------------
LEMMA RemovingStray ==
  ASSUME strays \in Seq(Timer), NEW stray \in DOMAIN strays
  PROVE  /\ strays[stray] \in Timer
         /\ RemoveAt(strays, stray) \in Seq(Timer)
         /\ Len(strays) = 1 => stray = 1 /\ RemoveAt(strays, stray) = << >>
<1> DEFINE n == Len(strays)
           front == SubSeq(strays, 1, stray - 1)
           back == SubSeq(strays, stray + 1, n)
<1>1. n \in Nat /\ DOMAIN strays = 1 .. n /\ \A i \in 1 .. n : strays[i] \in Timer
  OBVIOUS
<1>2. stray \in 1 .. n /\ stray - 1 \in Int /\ stray + 1 \in Int
  BY <1>1
<1> HIDE DEF n
<1>3. front \in Seq(Timer) /\ (n = 1 => Len(front) = 0)
  BY <1>1, <1>2, SubSeqProperties
<1>4. back \in Seq(Timer) /\ (n = 1 => Len(back) = 0)
  BY <1>1, <1>2, SubSeqProperties
<1>5. RemoveAt(strays, stray) = front \o back
  BY DEF RemoveAt, n
<1> HIDE DEF front, back
<1>6. front \o back \in Seq(Timer) /\ (n = 1 => Len(front \o back) = 0)
  BY <1>3, <1>4, ConcatProperties
<1>7. n = 1 => stray = 1 /\ front \o back = << >>
  BY <1>2, <1>6
<1> QED
  BY <1>1, <1>2, <1>5, <1>6, <1>7 DEF n

LEMMA TimersKept ==
  ASSUME TimersOK, UNCHANGED timers,
         \A kind : Is(kind) => Is(kind)'
  PROVE  TimersOK'
BY DEF TimersOK, timers

(* The poller starts over for a completion request.                        *)
LEMMA TimerStarted ==
  ASSUME TimersOK, KeyIsRead, stored' = CompletionTimer, strays' = strays,
         Is("completion")'
  PROVE  TimersOK'
<1>1. stored' \in Timer /\ stored'.function = "completion"
  BY TimersAreNot
<1>2. ~Typeahead => strays' = << >>
  BY DEF KeyIsRead
<1> QED
  BY <1>1, <1>2 DEF TimersOK

LEMMA TimerStopped ==
  ASSUME TimersOK, stored' = None, UNCHANGED <<strays, requests>>
  PROVE  TimersOK'
BY DEF TimersOK, Is, Latest

-----------------------------------------------------------------------------
LEMMA InitHolds == Init => IInv
<1> SUFFICES ASSUME Init
             PROVE  IInv
  OBVIOUS
<1>1. TextOK
  BY DEF Init, TextOK, Place, Info
<1>2. RequestsOK
  BY DEF Init, RequestsOK, PendingIsLatest, Latest
<1>3. TimersOK
  BY DEF Init, TimersOK
<1> QED
  BY <1>1, <1>2, <1>3 DEF IInv

LEMMA NothingIsPosted ==
  ASSUME RequestsOK, requests' = requests, menu' = menu \/ menu' = 0
  PROVE  RequestsOK' /\ \A kind : Is(kind) => Is(kind)'
<1>1. Latest' = Latest /\ Latest \in Nat
  BY DEF Latest, RequestsOK
<1> QED
  BY <1>1 DEF RequestsOK, PendingIsLatest, Is

(* Keys that ask for completions, or do not.                               *)
LEMMA AskingHolds ==
  ASSUME IInv, TextOK', KeyIsRead, menu' = menu \/ menu' = 0,
         RequestCompletion(Cursor') \/ UNCHANGED <<requests, timers>>
  PROVE  IInv'
<1>1. Cursor' \in Place
  BY DEF TextOK, Cursor, Place
<1>2. RequestsOK' /\ TimersOK'
  <2>1. CASE RequestCompletion(Cursor')
    <3>1. PICK at \in Place : RequestCompletion(at)
      BY <1>1, <2>1
    <3>2. RequestsOK' /\ Is("completion")' /\ stored' = CompletionTimer /\ strays' = strays
      BY <3>1, CompletionPosted DEF IInv
    <3> QED
      BY <3>2, TimerStarted DEF IInv
  <2>2. CASE UNCHANGED <<requests, timers>>
    BY <2>2, NothingIsPosted, TimersKept DEF IInv
  <2> QED
    BY <2>1, <2>2
<1> QED
  BY <1>2 DEF IInv

(* Keys that stop the poller and post nothing.                             *)
LEMMA StoppingHolds ==
  ASSUME IInv, TextOK', menu' = 0, stored' = None, UNCHANGED <<strays, requests>>
  PROVE  IInv'
<1>1. RequestsOK'
  BY NothingIsPosted DEF IInv
<1>2. TimersOK'
  BY TimerStopped DEF IInv
<1> QED
  BY <1>1, <1>2 DEF IInv

LEMMA SelectHolds ==
  ASSUME IInv, NEW item \in Items \union {None}, SelectItem(item)
  PROVE  IInv'
<1>1. KeyIsRead /\ selected' = item /\ UNCHANGED <<insert, typed, asked, stopped, menu>>
  BY DEF SelectItem
<1>2. CASE item = None \/ ~CanResolve(item)
  <2>1. /\ UNCHANGED <<requests, timers>>
        /\ info' = None \/ (item # None /\ info' = [item |-> item, resolved |-> FALSE])
    BY <1>2 DEF SelectItem, ResolveCompletionItem
  <2>2. info' \in Info
    <3>1. None \in Info
      BY DEF Info
    <3>2. item # None => item \in Items
      OBVIOUS
    <3> QED
      BY <2>1, <3>1, <3>2, InfoIsTyped
  <2>3. TextOK'
    BY <1>1, <2>2 DEF IInv, TextOK
  <2> QED
    BY <1>1, <2>1, <2>3, AskingHolds
<1>3. CASE item # None /\ CanResolve(item)
  <2>1. /\ info' = [item |-> item, resolved |-> FALSE]
        /\ requests' = Append(requests, NewRequest("resolve", Cursor, item))
        /\ stored' = None /\ strays' = Append(strays, ResolveTimer(item))
    BY <1>3 DEF SelectItem, ResolveCompletionItem
  <2>2. TextOK'
    <3>1. item \in Items
      BY <1>3
    <3>2. info' \in Info
      BY <2>1, <3>1, InfoIsTyped
    <3> QED
      BY <1>1, <3>1, <3>2 DEF IInv, TextOK
  <2>3. item \in Items
    BY <1>3
  <2>4. RequestsOK' /\ Is("resolve")'
    BY <1>1, <1>3, <2>1, <2>3, ResolutionPosted DEF IInv
  <2>5. TimersOK'
    <3>1. ResolveTimer(item) \in Timer /\ ResolveTimer(item).function = "resolve"
      BY <2>3, TimersAreNot
    <3> DEFINE timer == ResolveTimer(item)
    <3> HIDE DEF timer
    <3>2. timer \in Timer /\ timer.function = "resolve" /\ strays' = Append(strays, timer)
      BY <2>1, <3>1 DEF timer
    <3>3. strays' \in Seq(Timer) /\ Len(strays') = Len(strays) + 1 /\ strays'[Len(strays) + 1] = timer
      BY <3>2, AppendProperties DEF IInv, TimersOK
    <3>4. ~Typeahead => Len(strays) = 0
      BY <1>1 DEF KeyIsRead
    <3> QED
      BY <2>1, <2>4, <3>2, <3>3, <3>4 DEF TimersOK
  <2> QED
    BY <2>2, <2>4, <2>5 DEF IInv
<1> QED
  BY <1>2, <1>3

(* A timer runs when the request is answered.                              *)
LEMMA ShowHolds ==
  ASSUME IInv, Ready, ShowCompletions \/ ShowResolved,
         UNCHANGED <<insert, typed, asked, stopped>>
  PROVE  TextOK' /\ RequestsOK' /\ \A kind : Is(kind) => Is(kind)'
<1> DEFINE last == requests[Latest]
           reads == last.reads + 1
           read == [last EXCEPT !.reads = reads]
<1>1. last \in Posted /\ Latest \in 1 .. Latest /\ requests \in Seq(Posted)
  BY DEF IInv, RequestsOK, Ready, Latest
<1>2. reads \in Nat
  BY <1>1 DEF Posted, Request
<1>3. Read = [requests EXCEPT ![Latest] = read]
  BY <1>1 DEF Read
<1>4. /\ requests' = Read
      /\ menu' = menu \/ menu' = 0 \/ menu' = Latest
      /\ selected' = selected \/ selected' = None
      /\ \/ info' = info \/ info' = None
         \/ last.kind = "resolve" /\ info' = [item |-> last.item, resolved |-> TRUE]
  BY DEF ShowCompletions, ShowResolved, MenuCloses, display, Is
<1>5. Touched
  <2>0. requests' = [requests EXCEPT ![Latest] = read]
    BY <1>3, <1>4
  <2> HIDE DEF last, reads
  <2>1. read \in Posted /\ read.kind = last.kind /\ read.outcome = last.outcome
    BY <1>1, <1>2 DEF Posted, Request
  <2> HIDE DEF read
  <2>2. requests' = [requests EXCEPT ![Latest] = read]
    BY <2>0
  <2> QED
    BY <1>1, <2>1, <2>2 DEF Touched, last
<1>6. RequestsOK' /\ \A kind : Is(kind) => Is(kind)'
  BY <1>4, <1>5, Touching DEF IInv
<1>7. info' \in Info
  <2>1. None \in Info /\ info \in Info
    BY DEF Info, IInv, TextOK
  <2>2. last.kind = "resolve" => last.item \in Items
    BY <1>1 DEF Posted
  <2> QED
    BY <1>4, <2>1, <2>2, InfoIsTyped
<1>8. TextOK'
  BY <1>4, <1>7 DEF IInv, TextOK
<1> QED
  BY <1>6, <1>8

LEMMA StoredHolds ==
  ASSUME IInv, RunStored
  PROVE  IInv'
<1>1. /\ Ready
      /\ ShowCompletions \/ ShowResolved
      /\ stored' = None /\ UNCHANGED <<insert, typed, asked, stopped, strays>>
  BY DEF RunStored, Show
<1>2. TextOK' /\ RequestsOK' /\ \A kind : Is(kind) => Is(kind)'
  BY <1>1, ShowHolds
<1>3. TimersOK'
  BY <1>1, <1>2 DEF IInv, TimersOK
<1> QED
  BY <1>2, <1>3 DEF IInv

LEMMA StrayHolds ==
  ASSUME IInv, NEW stray \in DOMAIN strays, RunStray(stray)
  PROVE  IInv'
<1> DEFINE others == RemoveAt(strays, stray)
<1>1. /\ strays[stray] \in Timer /\ others \in Seq(Timer)
      /\ Len(strays) = 1 => stray = 1 /\ others = << >>
  BY RemovingStray DEF IInv, TimersOK
<1>2. strays # << >>
  BY DEF IInv, TimersOK
<1>3. UNCHANGED <<insert, typed, asked, stopped>>
  BY DEF RunStray
<1>4. CASE Ready
  <2>1. /\ ShowCompletions \/ ShowResolved
        /\ strays' = others /\ stored' = stored
    BY <1>4 DEF RunStray, Show
  <2> HIDE DEF others
  <2>2. TextOK' /\ RequestsOK' /\ \A kind : Is(kind) => Is(kind)'
    BY <1>3, <1>4, <2>1, ShowHolds
  <2>3. TimersOK'
    BY <1>1, <1>2, <2>1, <2>2 DEF IInv, TimersOK
  <2> QED
    BY <2>2, <2>3 DEF IInv
<1>5. CASE ~Ready
  <2>1. /\ stored' = strays[stray]
        /\ strays' = IF stored = None THEN others ELSE Append(others, stored)
        /\ UNCHANGED <<menu, info, selected, requests>>
    BY <1>5 DEF RunStray, Restart, display
  <2> HIDE DEF others
  <2>2. TextOK' /\ RequestsOK' /\ \A kind : Is(kind) => Is(kind)'
    <3>1. RequestsOK' /\ \A kind : Is(kind) => Is(kind)'
      BY <2>1, NothingIsPosted DEF IInv
    <3> QED
      BY <1>3, <2>1, <3>1 DEF IInv, TextOK
  <2>3. strays' \in Seq(Timer)
    <3>1. CASE stored = None
      BY <1>1, <2>1, <3>1
    <3>2. CASE stored # None
      <4>1. stored \in Timer
        BY <3>2 DEF IInv, TimersOK
      <4> QED
        BY <1>1, <2>1, <3>2, <4>1, AppendProperties
    <3> QED
      BY <3>1, <3>2
  <2>4. ~Typeahead => /\ stored = None /\ stray = 1 /\ others = << >>
                      /\ Is(strays[1].function)
    BY <1>1, <1>2 DEF IInv, TimersOK
  <2>5. TimersOK'
    BY <1>1, <2>1, <2>2, <2>3, <2>4 DEF TimersOK
  <2> QED
    BY <2>2, <2>5 DEF IInv
<1> QED
  BY <1>4, <1>5

LEMMA AnswerHolds ==
  ASSUME IInv, NEW r, Answer(r)
  PROVE  IInv'
<1>1. PICK outcome \in {"items", "empty"} :
        requests' = [requests EXCEPT ![r].outcome = outcome]
  BY DEF Answer
<1>2. /\ r \in 1 .. Latest /\ requests \in Seq(Posted)
      /\ requests[r] \in Posted
  BY DEF Answer, IInv, RequestsOK, Latest
<1> DEFINE request == requests[r]
           new == [request EXCEPT !.outcome = outcome]
<1>3. requests' = [requests EXCEPT ![r] = new]
  BY <1>1, <1>2
<1>4. Touched
  <2> HIDE DEF request
  <2>1. new \in Posted /\ new.kind = request.kind /\ new.outcome # "pending"
    BY <1>2 DEF Posted, Request, request
  <2> HIDE DEF new
  <2> QED
    BY <1>2, <1>3, <2>1 DEF Touched, request
<1>5. UNCHANGED <<insert, typed, selected, asked, stopped, menu, info, timers>>
  BY DEF Answer, text, display
<1>6. RequestsOK' /\ \A kind : Is(kind) => Is(kind)'
  BY <1>4, <1>5, Touching DEF IInv
<1>7. TimersOK'
  BY <1>5, <1>6, TimersKept DEF IInv
<1>8. TextOK'
  BY <1>5 DEF IInv, TextOK
<1> QED
  BY <1>6, <1>7, <1>8 DEF IInv

LEMMA StepHolds == IInv /\ [Next]_vars => IInv'
<1> SUFFICES ASSUME IInv, [Next]_vars
             PROVE  IInv'
  OBVIOUS
<1>0. /\ insert \in BOOLEAN /\ stopped \in BOOLEAN /\ typed \in Nat /\ typed + 1 \in Nat
      /\ selected \in Items \union {None} /\ asked \in Place /\ info \in Info
      /\ None \in Info
  BY DEF IInv, TextOK, Info
<1>1. ASSUME NEW quiet \in BOOLEAN, TypeText(quiet)
      PROVE  IInv'
  <2>1. /\ KeyIsRead /\ typed' = typed + 1 /\ selected' = None /\ asked' = Cursor'
        /\ info' = None
        /\ menu' = menu \/ menu' = 0
        /\ RequestCompletion(Cursor') \/ UNCHANGED <<requests, timers>>
        /\ stopped' = FALSE /\ insert' = insert
    BY <1>1 DEF TypeText, MenuCloses
  <2>2. TextOK'
    BY <1>0, <2>1 DEF TextOK, Cursor, Place
  <2> QED
    BY <2>1, <2>2, AskingHolds
<1>2. CASE RequestSemanticCompletion
  <2>1. /\ KeyIsRead /\ typed' = typed + 1 /\ selected' = None /\ asked' = Cursor'
        /\ info' = None /\ menu' = 0
        /\ RequestCompletion(Cursor') /\ UNCHANGED <<insert, stopped>>
    BY <1>2 DEF RequestSemanticCompletion, MenuCloses
  <2>2. TextOK'
    BY <1>0, <2>1 DEF TextOK, Cursor, Place
  <2> QED
    BY <2>1, <2>2, AskingHolds
<1>3. CASE ManuallyRequestCompletion
  <2>1. /\ KeyIsRead /\ typed' \in {typed, typed + 1} /\ selected' = None
        /\ info' = None /\ menu' = 0
        /\ RequestCompletion(Cursor') /\ UNCHANGED <<insert, asked, stopped>>
    BY <1>3 DEF ManuallyRequestCompletion, MenuCloses
  <2>2. TextOK'
    BY <1>0, <2>1 DEF TextOK
  <2> QED
    BY <2>1, <2>2, AskingHolds
<1>4. ASSUME NEW item \in Items \union {None}, SelectItem(item)
      PROVE  IInv'
  BY <1>4, SelectHolds
<1>5. CASE StopCompletion
  <2>1. /\ typed' = typed + 1 /\ selected' = None /\ info' = None /\ menu' = 0
        /\ stored' = None /\ stopped' \in BOOLEAN
        /\ asked' = asked \/ asked' = Cursor'
        /\ UNCHANGED <<insert, requests, strays>>
    BY <1>5 DEF StopCompletion, MenuCloses
  <2>2. typed' \in Nat /\ selected' \in Items \union {None} /\ info' \in Info
    BY <1>0, <2>1
  <2>3. asked' \in Place
    BY <1>0, <2>1, <2>2 DEF Cursor, Place
  <2>4. TextOK'
    BY <1>0, <2>1, <2>2, <2>3 DEF TextOK
  <2> QED
    BY <2>1, <2>4, StoppingHolds
<1>6. CASE MoveCursor
  <2>1. /\ KeyIsRead /\ typed' = typed + 1 /\ selected' = None /\ asked' = Cursor'
        /\ info' = None /\ menu' = 0
        /\ UNCHANGED <<insert, stopped, requests, timers>>
    BY <1>6 DEF MoveCursor, MenuCloses
  <2>2. TextOK'
    BY <1>0, <2>1 DEF TextOK, Cursor, Place
  <2> QED
    BY <2>1, <2>2, AskingHolds
<1>7. CASE LeaveInsert
  <2>1. /\ insert' = FALSE /\ selected' = None /\ info' = None /\ menu' = 0
        /\ stored' = None /\ UNCHANGED <<typed, asked, stopped, requests, strays>>
    BY <1>7 DEF LeaveInsert, MenuCloses
  <2>2. TextOK'
    BY <1>0, <2>1 DEF TextOK
  <2> QED
    BY <2>1, <2>2, StoppingHolds
<1>8. CASE EnterInsert
  <2>1. /\ insert' = TRUE /\ typed' = typed + 1 /\ asked' = Cursor'
        /\ UNCHANGED <<selected, stopped, menu, info, requests, timers>>
    BY <1>8 DEF EnterInsert, display
  <2>2. TextOK'
    BY <1>0, <2>1 DEF TextOK, Cursor, Place
  <2>3. RequestsOK' /\ TimersOK'
    BY <2>1, NothingIsPosted, TimersKept DEF IInv
  <2> QED
    BY <2>2, <2>3 DEF IInv
<1>9. CASE RunStored
  BY <1>9, StoredHolds
<1>10. ASSUME NEW stray \in DOMAIN strays, RunStray(stray)
       PROVE  IInv'
  BY <1>10, StrayHolds
<1>11. ASSUME NEW r, Answer(r)
       PROVE  IInv'
  BY <1>11, AnswerHolds
<1>12. CASE UNCHANGED vars
  <2>1. UNCHANGED <<insert, typed, selected, asked, stopped, menu, info, requests, timers>>
    BY <1>12 DEF vars, text, display
  <2>2. RequestsOK' /\ TimersOK'
    BY <2>1, NothingIsPosted, TimersKept DEF IInv
  <2> QED
    BY <2>1, <2>2 DEF IInv, TextOK
<1> QED
  BY <1>1, <1>2, <1>3, <1>4, <1>5, <1>6, <1>7, <1>8, <1>9, <1>10, <1>11, <1>12 DEF Next

LEMMA Invariance == Spec => []IInv
BY InitHolds, StepHolds, PTL DEF Spec

-----------------------------------------------------------------------------
(* Text, requests and timers keep their types, with typeahead or without.  *)
THEOREM TypeCorrect == Spec => []TypeOK
<1>1. IInv => TypeOK
  <2> SUFFICES ASSUME IInv
               PROVE  TypeOK
    OBVIOUS
  <2>1. requests \in Seq(Request)
    <3>1. \A r \in 1 .. Len(requests) : requests[r] \in Request
      BY DEF IInv, RequestsOK, Posted
    <3> QED
      BY <3>1, SeqMonotonic DEF IInv, RequestsOK, Posted
  <2>2. Cursor \in Place
    BY CursorIsAPlace DEF IInv
  <2> QED
    BY <2>1, <2>2 DEF IInv, TextOK, RequestsOK, TimersOK, Info, TypeOK
<1> QED
  BY <1>1, Invariance, PTL

(* s:RequestCompletion, SendCompletionRequest, ResolveCompletionItem: a    *)
(* superseded request is cancelled before ycmd is asked for the next, with *)
(* typeahead or without.                                                   *)
THEOREM SupersededIsCancelled == Spec => []PendingIsLatest
<1>1. IInv => PendingIsLatest
  BY DEF IInv, RequestsOK
<1> QED
  BY <1>1, Invariance, PTL

(* s:PollCompletion and s:PollResolve share one slot for two kinds of      *)
(* request.  Where no key is read before a timer that is due has run, none *)
(* of them ever takes the response that was meant for the other, although  *)
(* the first timer of a resolution is not stored.                          *)
THEOREM PollersFit == ASSUME ~Typeahead PROVE Spec => []PollersMatchRequest
<1>1. IInv => PollersMatchRequest
  <2> SUFFICES ASSUME IInv, NEW timer \in Running \ {None}
               PROVE  Is(timer.function)
    BY DEF PollersMatchRequest
  <2>1. CASE timer = stored
    BY <2>1 DEF IInv, TimersOK
  <2>2. CASE timer # stored
    <3>1. PICK i \in DOMAIN strays : timer = strays[i]
      BY <2>2 DEF Running
    <3>2. strays \in Seq(Timer)
      BY DEF IInv, TimersOK
    <3>3. i \in 1 .. Len(strays) /\ strays # << >>
      BY <3>1, <3>2
    <3>4. Len(strays) = 1 /\ Is(strays[1].function)
      BY <3>3 DEF IInv, TimersOK
    <3>5. i = 1
      BY <3>3, <3>4
    <3> QED
      BY <3>1, <3>4, <3>5
  <2> QED
    BY <2>1, <2>2
<1> QED
  BY <1>1, Invariance, PTL
=============================================================================
