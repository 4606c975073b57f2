---------------------------- MODULE CommandsProofs ----------------------------
(* Proofs about Commands: that the table of requests never outgrows that of*)
(* callbacks, that one rename is prepared at a time, and that between      *)
(* restarts a callback is called once, with the response of its request.   *)
EXTENDS Commands, SequenceTheorems, TLAPS

Outcomes == {"pending", "done", "cancelled"}

Table == UNION {[D -> Nat] : D \in SUBSET Nat}

Loop == [left : Table, again : BOOLEAN, calling : {"nothing", "raw", "prompt"}]

RequestsOK ==
  /\ made \in Seq(AllKinds) /\ outcome \in Seq(Outcomes) /\ told \in Seq(Seq(Int))
  /\ Len(outcome) = Len(made) /\ Len(told) = Len(made)

(* A request has the ID of its callback, of the session that is running.   *)
TablesOK ==
  /\ nextId \in Nat /\ commands \in Table /\ pending \in Table /\ restarts \in Nat
  /\ \A id \in DOMAIN pending : pending[id] \in Callbacks
  /\ \A id \in DOMAIN commands :
       id < nextId /\ id \in DOMAIN pending /\ commands[id] = pending[id]

PreparationOK ==
  prepare # None => prepare \in DOMAIN commands /\ made[commands[prepare]] = "prepare"

LoopsOK == polls \in Seq(Loop)

(* Until ycmd is restarted no ID is used twice: an entry that is left, in  *)
(* the table or in the copy a loop has made of it, is that of a callback   *)
(* that was not called, and of no other entry's.                           *)
Untold ==
  \A id \in DOMAIN pending :
    /\ id < nextId /\ told[pending[id]] = << >>
    /\ \A other \in DOMAIN pending : pending[other] = pending[id] => other = id

CopyOf(left, table, next) ==
  \A id \in DOMAIN left : id < next /\ (id \in DOMAIN table => left[id] = table[id])

Copied == \A i \in 1 .. Len(polls) : CopyOf(polls[i].left, pending, nextId)

FirstSession == restarts = 0 => Untold /\ Copied

Parts == RequestsOK /\ TablesOK /\ PreparationOK /\ LoopsOK

IInv ==
  /\ Parts /\ FirstSession
  /\ CallbackGetsItsOwnResponseOnce /\ OnePreparationAtATime

-----------------------------------------------------------------------------
LEMMA TableIs ==
  /\ \A t \in Table : DOMAIN t \subseteq Nat /\ \A id \in DOMAIN t : t[id] \in Nat
  /\ \A D \in SUBSET Nat : \A t \in [D -> Nat] : t \in Table
BY DEF Table

LEMMA TableWithout ==
  ASSUME NEW t \in Table, NEW ids
  PROVE  /\ Without(t, ids) \in Table /\ DOMAIN Without(t, ids) = DOMAIN t \ ids
         /\ \A id \in DOMAIN t \ ids : Without(t, ids)[id] = t[id]
<1>1. Without(t, ids) = [id \in DOMAIN t \ ids |-> t[id]]
  BY DEF Without, Restrict
<1>2. DOMAIN t \ ids \in SUBSET Nat /\ Without(t, ids) \in [DOMAIN t \ ids -> Nat]
  BY <1>1, TableIs
<1>3. Without(t, ids) \in Table
  BY <1>2 DEF Table
<1> QED
  BY <1>1, <1>3

LEMMA TableWith ==
  ASSUME NEW t \in Table, NEW id \in Nat, NEW entry \in Nat
  PROVE  /\ With(t, id, entry) \in Table /\ DOMAIN With(t, id, entry) = DOMAIN t \union {id}
         /\ With(t, id, entry)[id] = entry
         /\ \A i \in DOMAIN t : i # id => With(t, id, entry)[i] = t[i]
<1>1. With(t, id, entry) = [i \in DOMAIN t \union {id} |-> IF i = id THEN entry ELSE t[i]]
  BY DEF With
<1>2. /\ DOMAIN t \union {id} \in SUBSET Nat
      /\ With(t, id, entry) \in [DOMAIN t \union {id} -> Nat]
  BY <1>1, TableIs
<1>3. With(t, id, entry) \in Table
  BY <1>2 DEF Table
<1> QED
  BY <1>1, <1>3

LEMMA EmptyTable == [id \in {} |-> 0] \in Table /\ DOMAIN [id \in {} |-> 0] = {}
<1>1. [id \in {} |-> 0] \in [{} -> Nat]
  OBVIOUS
<1>2. {} \in SUBSET Nat
  OBVIOUS
<1> QED
  BY <1>1, <1>2 DEF Table

(* Cancelling some requests, telling some callbacks.                       *)
LEMMA Cancelling ==
  ASSUME RequestsOK, NEW ids
  PROVE  /\ CancelRequests(ids) \in Seq(Outcomes) /\ Len(CancelRequests(ids)) = Len(made)
         /\ \A c \in Callbacks : CancelRequests(ids)[c] = "pending" =>
              /\ outcome[c] = "pending"
              /\ \A i \in ids \cap DOMAIN commands : commands[i] # c
<1> DEFINE gone == {commands[i] : i \in ids \cap DOMAIN commands}
           one(c) == IF c \in gone /\ outcome[c] = "pending" THEN "cancelled" ELSE outcome[c]
<1>1. DOMAIN outcome = 1 .. Len(made) /\ Len(made) \in Nat /\ \A c \in 1 .. Len(made) : outcome[c] \in Outcomes
  BY DEF RequestsOK
<1>2. CancelRequests(ids) = [c \in 1 .. Len(made) |-> one(c)]
  BY <1>1 DEF CancelRequests
<1>3. \A c \in 1 .. Len(made) : one(c) \in Outcomes
  BY <1>1 DEF Outcomes
<1>4. \A c \in 1 .. Len(made) : one(c) = "pending" => outcome[c] = "pending" /\ c \notin gone
  OBVIOUS
<1> HIDE DEF one
<1>5. CancelRequests(ids) \in Seq(Outcomes) /\ Len(CancelRequests(ids)) = Len(made)
  BY <1>1, <1>2, <1>3, IsASeq
<1>6. \A c \in 1 .. Len(made) : CancelRequests(ids)[c] = one(c)
  BY <1>2
<1> QED
  BY <1>4, <1>5, <1>6 DEF Callbacks

LEMMA Telling ==
  ASSUME RequestsOK, NEW cs, NEW result \in Int
  PROVE  /\ Tell(cs, result) \in Seq(Seq(Int)) /\ Len(Tell(cs, result)) = Len(made)
         /\ \A c \in Callbacks :
              Tell(cs, result)[c] = IF c \in cs THEN Append(told[c], result) ELSE told[c]
<1> DEFINE one(c) == IF c \in cs THEN Append(told[c], result) ELSE told[c]
<1>1. DOMAIN told = 1 .. Len(made) /\ Len(made) \in Nat /\ \A c \in 1 .. Len(made) : told[c] \in Seq(Int)
  BY DEF RequestsOK
<1>2. Tell(cs, result) = [c \in 1 .. Len(made) |-> one(c)]
  BY <1>1 DEF Tell
<1>3. \A c \in 1 .. Len(made) : one(c) \in Seq(Int)
  BY <1>1, AppendProperties
<1>4. Tell(cs, result) \in Seq(Seq(Int)) /\ Len(Tell(cs, result)) = Len(made)
  <2> HIDE DEF one
  <2> QED
    BY <1>1, <1>2, <1>3, IsASeq
<1> QED
  BY <1>2, <1>4 DEF Callbacks

(* What a loop's copy is after the table has lost entries, or gained one.  *)
LEMMA CopyStays ==
  ASSUME TablesOK, NEW left, CopyOf(left, pending, nextId)
  PROVE  /\ \A ids : CopyOf(left, RemovedFromRequests(ids), nextId)
         /\ \A ids : left \in Table => CopyOf(Without(left, ids), pending, nextId)
         /\ \A entry \in Nat : left \in Table => CopyOf(left, With(pending, nextId, entry), nextId + 1)
<1>1. ASSUME NEW ids PROVE CopyOf(left, RemovedFromRequests(ids), nextId)
  <2>1. /\ DOMAIN RemovedFromRequests(ids) = DOMAIN pending \ ids
        /\ \A id \in DOMAIN pending \ ids : RemovedFromRequests(ids)[id] = pending[id]
    BY TableWithout DEF TablesOK, RemovedFromRequests
  <2> QED
    BY <2>1 DEF CopyOf
<1>2. ASSUME NEW ids, left \in Table PROVE CopyOf(Without(left, ids), pending, nextId)
  <2>1. /\ DOMAIN Without(left, ids) = DOMAIN left \ ids
        /\ \A id \in DOMAIN left \ ids : Without(left, ids)[id] = left[id]
    BY <1>2, TableWithout
  <2> QED
    BY <2>1 DEF CopyOf
<1>3. ASSUME NEW entry \in Nat, left \in Table
      PROVE  CopyOf(left, With(pending, nextId, entry), nextId + 1)
  <2>1. nextId \in Nat /\ pending \in Table
    BY DEF TablesOK
  <2>2. /\ DOMAIN With(pending, nextId, entry) = DOMAIN pending \union {nextId}
        /\ \A id \in DOMAIN pending : id # nextId => With(pending, nextId, entry)[id] = pending[id]
    BY <2>1, <1>3, TableWith
  <2>3. \A id \in DOMAIN left : id \in Nat /\ id < nextId /\ (id \in DOMAIN pending => left[id] = pending[id])
    BY <1>3, TableIs DEF CopyOf
  <2> QED
    BY <2>1, <2>2, <2>3 DEF CopyOf
<1> QED
  BY <1>1, <1>2, <1>3

(* The stack of loops: one more, one less, the innermost changed.          *)
LEMMA Pushing ==
  ASSUME LoopsOK, NEW loop \in Loop, polls' = <<loop>> \o polls
  PROVE  /\ LoopsOK' /\ Len(polls') = Len(polls) + 1 /\ polls'[1] = loop
         /\ \A i \in 1 .. Len(polls) : polls'[i + 1] = polls[i]
<1>1. <<loop>> \in Seq(Loop) /\ Len(<<loop>>) = 1 /\ <<loop>>[1] = loop
  OBVIOUS
<1> QED
  BY <1>1, ConcatProperties DEF LoopsOK

LEMMA Popping ==
  ASSUME LoopsOK, ~Idle, polls' = Tail(polls)
  PROVE  /\ LoopsOK' /\ Len(polls') = Len(polls) - 1 /\ Len(polls) \in Nat
         /\ \A i \in 1 .. Len(polls') : polls'[i] = polls[i + 1]
BY HeadTailProperties DEF LoopsOK, Idle

LEMMA HeadIs ==
  ASSUME LoopsOK, ~Idle
  PROVE  /\ Head(polls) \in Loop /\ Head(polls) = polls[1] /\ 1 \in 1 .. Len(polls)
BY HeadTailProperties DEF LoopsOK, Idle

LEMMA Replacing ==
  ASSUME LoopsOK, ~Idle, NEW loop \in Loop, polls' = <<loop>> \o Tail(polls)
  PROVE  /\ LoopsOK' /\ Len(polls') = Len(polls) /\ polls'[1] = loop
         /\ \A i \in 2 .. Len(polls) : polls'[i] = polls[i]
<1>1. <<loop>> \in Seq(Loop) /\ Len(<<loop>>) = 1 /\ <<loop>>[1] = loop
  OBVIOUS
<1>2. /\ Tail(polls) \in Seq(Loop) /\ Len(Tail(polls)) = Len(polls) - 1 /\ Len(polls) \in Nat
      /\ \A i \in 1 .. Len(polls) - 1 : Tail(polls)[i] = polls[i + 1]
  BY HeadTailProperties DEF LoopsOK, Idle
<1>3. \A i \in 2 .. Len(polls) : polls'[i] = Tail(polls)[i - 1] /\ i - 1 \in 1 .. Len(polls) - 1
  BY <1>1, <1>2, ConcatProperties
<1>4. \A i \in 2 .. Len(polls) : (i - 1) + 1 = i
  OBVIOUS
<1> QED
  BY <1>1, <1>2, <1>3, <1>4, ConcatProperties DEF LoopsOK

LEMMA Continuing ==
  ASSUME LoopsOK, ~Idle, NEW id, NEW again \in BOOLEAN,
         NEW calling \in {"nothing", "raw", "prompt"}, Continue(id, again, calling)
  PROVE  /\ LoopsOK' /\ Len(polls') = Len(polls) /\ Head(polls).left \in Table
         /\ polls'[1].left = Without(Head(polls).left, {id})
         /\ \A i \in 2 .. Len(polls) : polls'[i] = polls[i]
<1> DEFINE loop == [left |-> Without(Head(polls).left, {id}),
                    again |-> Head(polls).again \/ again, calling |-> calling]
<1>1. Head(polls).left \in Table /\ Head(polls).again \in BOOLEAN
  BY HeadIs DEF Loop
<1>2. Without(Head(polls).left, {id}) \in Table
  BY <1>1, TableWithout
<1>3. (Head(polls).again \/ again) \in BOOLEAN
  OBVIOUS
<1>4. loop \in Loop
  BY <1>2, <1>3 DEF Loop
<1>5. loop.left = Without(Head(polls).left, {id})
  OBVIOUS
<1>6. polls' = <<loop>> \o Tail(polls)
  BY DEF Continue
<1> HIDE DEF loop
<1> QED
  BY <1>1, <1>4, <1>5, <1>6, Replacing

-----------------------------------------------------------------------------
(* The actions, by what they do to the tables.                             *)

LEMMA InitHolds == Init => IInv
<1> SUFFICES ASSUME Init PROVE IInv
  OBVIOUS
<1>1. made = << >> /\ outcome = << >> /\ told = << >> /\ polls = << >>
  BY DEF Init
<1>2. RequestsOK /\ LoopsOK /\ Callbacks = {}
  BY <1>1 DEF RequestsOK, LoopsOK, Callbacks
<1>3. TablesOK /\ DOMAIN pending = {}
  BY EmptyTable DEF TablesOK, Init
<1>4. PreparationOK
  BY DEF PreparationOK, Init
<1>5. FirstSession
  BY <1>1, <1>3 DEF FirstSession, Untold, Copied
<1>6. CallbackGetsItsOwnResponseOnce /\ OnePreparationAtATime
  BY <1>2 DEF CallbackGetsItsOwnResponseOnce, OnePreparationAtATime
<1> QED
  BY <1>2, <1>3, <1>4, <1>5, <1>6 DEF IInv, Parts

(* A new request is recorded and enters both tables under the next ID.     *)
LEMMA Recording ==
  ASSUME RequestsOK, NEW kind \in AllKinds, NEW outcomes \in Seq(Outcomes),
         Len(outcomes) = Len(made), Record(kind, outcomes, told)
  PROVE  /\ RequestsOK' /\ Len(made') = Len(made) + 1 /\ Len(made) \in Nat
         /\ made'[Len(made) + 1] = kind /\ told'[Len(made) + 1] = << >>
         /\ outcome'[Len(made) + 1] = "pending"
         /\ \A c \in Callbacks : made'[c] = made[c] /\ told'[c] = told[c] /\ outcome'[c] = outcomes[c]
         /\ Callbacks' = Callbacks \union {Len(made) + 1} /\ Callbacks \subseteq Nat
<1>1. "pending" \in Outcomes /\ << >> \in Seq(Int)
  BY DEF Outcomes
<1>2. made \in Seq(AllKinds) /\ told \in Seq(Seq(Int)) /\ Len(told) = Len(made) /\ Len(made) \in Nat
  BY DEF RequestsOK
<1>3. /\ made' \in Seq(AllKinds) /\ Len(made') = Len(made) + 1 /\ made'[Len(made) + 1] = kind
      /\ \A c \in 1 .. Len(made) : made'[c] = made[c]
  BY <1>2, AppendProperties DEF Record
<1>4. /\ outcome' \in Seq(Outcomes) /\ Len(outcome') = Len(made) + 1
      /\ outcome'[Len(made) + 1] = "pending"
      /\ \A c \in 1 .. Len(made) : outcome'[c] = outcomes[c]
  BY <1>1, <1>2, AppendProperties DEF Record
<1>5. /\ told' \in Seq(Seq(Int)) /\ Len(told') = Len(made) + 1
      /\ told'[Len(made) + 1] = << >>
      /\ \A c \in 1 .. Len(made) : told'[c] = told[c]
  BY <1>1, <1>2, AppendProperties DEF Record
<1>6. Callbacks' = Callbacks \union {Len(made) + 1} /\ Callbacks \subseteq Nat
  BY <1>2, <1>3 DEF Callbacks
<1> QED
  BY <1>2, <1>3, <1>4, <1>5, <1>6 DEF RequestsOK, Callbacks

LEMMA Registering ==
  ASSUME IInv, NEW kind \in AllKinds, NEW outcomes \in Seq(Outcomes),
         Len(outcomes) = Len(made), Record(kind, outcomes, told),
         NEW before \in Table, DOMAIN before \subseteq DOMAIN commands,
         \A id \in DOMAIN before : before[id] = commands[id],
         commands' = With(before, nextId, Len(made) + 1), Register(pending),
         UNCHANGED restarts
  PROVE  /\ RequestsOK' /\ TablesOK' /\ CallbackGetsItsOwnResponseOnce'
         /\ restarts = 0 => Untold'
         /\ DOMAIN commands' = DOMAIN before \union {nextId} /\ commands'[nextId] = Len(made) + 1
         /\ \A id \in DOMAIN before : commands'[id] = commands[id] /\ id # nextId
<1> DEFINE new == Len(made) + 1
<1>0. RequestsOK /\ TablesOK /\ FirstSession /\ CallbackGetsItsOwnResponseOnce
  BY DEF IInv, Parts
<1>1. /\ RequestsOK' /\ told'[new] = << >> /\ new \in Nat /\ new \notin Callbacks
      /\ \A c \in Callbacks : told'[c] = told[c]
      /\ Callbacks' = Callbacks \union {new}
  BY <1>0, Recording DEF Callbacks
<1> HIDE DEF new
<1>2. nextId \in Nat /\ pending \in Table /\ nextId' = nextId + 1 /\ pending' = With(pending, nextId, new)
  BY <1>0 DEF TablesOK, Register, new
<1>3. /\ pending' \in Table /\ DOMAIN pending' = DOMAIN pending \union {nextId}
      /\ pending'[nextId] = new
      /\ \A id \in DOMAIN pending : id # nextId => pending'[id] = pending[id]
  <2> DEFINE grown == With(pending, nextId, new)
  <2>1. /\ grown \in Table /\ DOMAIN grown = DOMAIN pending \union {nextId}
        /\ grown[nextId] = new
        /\ \A i \in DOMAIN pending : i # nextId => grown[i] = pending[i]
    BY <1>1, <1>2, TableWith
  <2>2. pending' = grown
    BY <1>2
  <2> HIDE DEF grown
  <2> QED
    BY <2>1, <2>2
<1>4. /\ commands' \in Table /\ DOMAIN commands' = DOMAIN before \union {nextId}
      /\ commands'[nextId] = new
      /\ \A id \in DOMAIN before : id # nextId => commands'[id] = before[id]
  <2> DEFINE grown == With(before, nextId, new)
  <2>1. /\ grown \in Table /\ DOMAIN grown = DOMAIN before \union {nextId}
        /\ grown[nextId] = new
        /\ \A i \in DOMAIN before : i # nextId => grown[i] = before[i]
    BY <1>1, <1>2, TableWith
  <2>2. commands' = grown
    BY DEF new
  <2> HIDE DEF grown
  <2> QED
    BY <2>1, <2>2
<1>5. /\ \A id \in DOMAIN pending : id \in Nat /\ pending[id] \in Callbacks
      /\ \A id \in DOMAIN commands : /\ id \in Nat /\ id < nextId /\ id \in DOMAIN pending
                                     /\ commands[id] = pending[id]
  BY <1>0, TableIs DEF TablesOK
<1>6. \A id \in DOMAIN before : /\ id \in DOMAIN commands /\ id < nextId /\ id # nextId
                               /\ commands'[id] = commands[id] /\ commands'[id] = pending'[id]
  BY <1>2, <1>3, <1>4, <1>5
<1>7. TablesOK'
  <2>1. restarts' \in Nat
    BY <1>0 DEF TablesOK
  <2>2. \A id \in DOMAIN pending' : pending'[id] \in Callbacks'
    BY <1>1, <1>3, <1>5
  <2>3. \A id \in DOMAIN commands' : id < nextId' /\ id \in DOMAIN pending' /\ commands'[id] = pending'[id]
    BY <1>2, <1>3, <1>4, <1>5, <1>6
  <2> QED
    BY <1>2, <1>3, <1>4, <2>1, <2>2, <2>3 DEF TablesOK
<1>8. ASSUME restarts = 0 PROVE Untold'
  <2>1. Untold
    BY <1>0, <1>8 DEF FirstSession
  <2>2. \A id \in DOMAIN pending : /\ id \in Nat /\ id < nextId /\ id # nextId
                                  /\ pending'[id] = pending[id] /\ pending[id] \in Callbacks
                                  /\ told'[pending[id]] = << >>
    BY <1>1, <1>2, <1>3, <1>5, <2>1 DEF Untold
  <2>3. \A id \in DOMAIN pending' : id < nextId' /\ told'[pending'[id]] = << >>
    BY <1>1, <1>2, <1>3, <2>2
  <2>4. \A id, other \in DOMAIN pending' : pending'[other] = pending'[id] => other = id
    BY <1>1, <1>3, <2>1, <2>2 DEF Untold
  <2> QED
    BY <2>3, <2>4 DEF Untold
<1>9. CallbackGetsItsOwnResponseOnce'
  <2> SUFFICES ASSUME restarts = 0, NEW c \in Callbacks'
               PROVE  /\ Len(told'[c]) <= 1
                      /\ \A i \in DOMAIN told'[c] : told'[c][i] \in {NoResponse, EmptyResponse, c}
    BY DEF CallbackGetsItsOwnResponseOnce
  <2>1. CASE c \in Callbacks
    BY <1>0, <1>1, <2>1 DEF CallbackGetsItsOwnResponseOnce
  <2>2. CASE c = new
    BY <1>1, <2>2
  <2> QED
    BY <1>1, <2>1, <2>2
<1> QED
  BY <1>1, <1>4, <1>6, <1>7, <1>8, <1>9 DEF new

(* Entries leave both tables; what the callbacks are told is the action's. *)
LEMMA Removing ==
  ASSUME IInv, NEW gone, outcome' = CancelRequests(gone), commands' = Flushed(gone),
         pending' = RemovedFromRequests(gone), told' \in Seq(Seq(Int)), Len(told') = Len(made),
         UNCHANGED <<made, nextId, restarts>>
  PROVE  /\ RequestsOK' /\ TablesOK' /\ Callbacks' = Callbacks
         /\ DOMAIN commands' = DOMAIN commands \ gone /\ DOMAIN pending' = DOMAIN pending \ gone
         /\ \A id \in DOMAIN commands \ gone : commands'[id] = commands[id]
         /\ \A id \in DOMAIN pending \ gone : pending'[id] = pending[id]
<1>1. RequestsOK /\ TablesOK
  BY DEF IInv, Parts
<1>2. outcome' \in Seq(Outcomes) /\ Len(outcome') = Len(made)
  BY <1>1, Cancelling
<1>3. commands \in Table /\ pending \in Table
  BY <1>1 DEF TablesOK
<1>4. /\ commands' \in Table /\ DOMAIN commands' = DOMAIN commands \ gone
      /\ \A id \in DOMAIN commands \ gone : commands'[id] = commands[id]
  BY <1>3, TableWithout DEF Flushed
<1>5. /\ pending' \in Table /\ DOMAIN pending' = DOMAIN pending \ gone
      /\ \A id \in DOMAIN pending \ gone : pending'[id] = pending[id]
  BY <1>3, TableWithout DEF RemovedFromRequests
<1>6. Callbacks' = Callbacks
  BY DEF Callbacks
<1>7. RequestsOK'
  BY <1>1, <1>2 DEF RequestsOK
<1>8. TablesOK'
  BY <1>1, <1>4, <1>5, <1>6 DEF TablesOK
<1> QED
  BY <1>4, <1>5, <1>6, <1>7, <1>8

(* A preparation whose entry stays is still the one that is cancelled next.*)
LEMMA PreparationStays ==
  ASSUME IInv, NEW gone, outcome' = CancelRequests(gone), Callbacks' = Callbacks,
         DOMAIN commands' = DOMAIN commands \ gone,
         \A id \in DOMAIN commands \ gone : commands'[id] = commands[id],
         prepare' = prepare \/ prepare' = None,
         prepare' # None => prepare \notin gone,
         prepare' = None /\ prepare # None =>
           prepare \in gone /\ outcome[commands[prepare]] # "pending",
         UNCHANGED <<made, restarts>>
  PROVE  PreparationOK' /\ OnePreparationAtATime'
<1>1. RequestsOK /\ PreparationOK /\ OnePreparationAtATime
  BY DEF IInv, Parts
<1>2. PreparationOK'
  BY <1>1 DEF PreparationOK
<1>3. OnePreparationAtATime'
  <2> SUFFICES ASSUME restarts = 0, NEW c \in Callbacks, made[c] = "prepare", outcome'[c] = "pending"
               PROVE  prepare' # None /\ commands'[prepare'] = c
    BY DEF OnePreparationAtATime
  <2>1. outcome[c] = "pending"
    BY <1>1, Cancelling
  <2>2. prepare # None /\ commands[prepare] = c
    BY <1>1, <2>1 DEF OnePreparationAtATime
  <2>3. prepare' # None
    BY <2>1, <2>2
  <2> QED
    BY <1>1, <2>2, <2>3 DEF PreparationOK
<1> QED
  BY <1>2, <1>3

-----------------------------------------------------------------------------
(* The loops while the tables change.                                      *)

LEMMA CopiedWhileRegistering ==
  ASSUME IInv, restarts = 0, Register(pending)
  PROVE  \A left \in Table :
           CopyOf(left, pending, nextId) => CopyOf(left, pending', nextId')
<1>1. /\ TablesOK /\ Len(made) + 1 \in Nat /\ nextId' = nextId + 1
      /\ pending' = With(pending, nextId, Len(made) + 1)
  BY DEF IInv, Parts, RequestsOK, Register
<1> DEFINE entry == Len(made) + 1
<1>2. entry \in Nat /\ pending' = With(pending, nextId, entry)
  BY <1>1
<1> HIDE DEF entry
<1> SUFFICES ASSUME NEW left \in Table, CopyOf(left, pending, nextId)
             PROVE  CopyOf(left, pending', nextId')
  OBVIOUS
<1>3. CopyOf(left, With(pending, nextId, entry), nextId + 1)
  BY <1>1, <1>2, CopyStays
<1> QED
  BY <1>1, <1>2, <1>3

LEMMA LoopIs ==
  ASSUME LoopsOK, NEW i \in 1 .. Len(polls)
  PROVE  polls[i] \in Loop /\ polls[i].left \in Table
<1>1. polls[i] \in Loop
  BY DEF LoopsOK
<1> QED
  BY <1>1 DEF Loop

(* The loops themselves may be unchanged, or the innermost have gone on.   *)
LEMMA CopiedUnchanged ==
  ASSUME LoopsOK, Copied, UNCHANGED polls,
         \A left \in Table : CopyOf(left, pending, nextId) => CopyOf(left, pending', nextId')
  PROVE  LoopsOK' /\ Copied'
<1>1. LoopsOK'
  BY DEF LoopsOK
<1>2. \A i \in 1 .. Len(polls) : polls[i].left \in Table
  BY LoopIs
<1> QED
  BY <1>1, <1>2 DEF Copied

LEMMA CopiedNext ==
  ASSUME LoopsOK, Copied, Len(polls') = Len(polls), ~Idle,
         CopyOf(polls'[1].left, pending', nextId'),
         \A i \in 2 .. Len(polls) : polls'[i] = polls[i],
         \A left \in Table : CopyOf(left, pending, nextId) => CopyOf(left, pending', nextId')
  PROVE  Copied'
<1> SUFFICES ASSUME NEW i \in 1 .. Len(polls) PROVE CopyOf(polls'[i].left, pending', nextId')
  BY DEF Copied
<1>1. i = 1 \/ i \in 2 .. Len(polls)
  BY DEF LoopsOK
<1>2. polls[i].left \in Table /\ CopyOf(polls[i].left, pending, nextId)
  BY LoopIs DEF Copied
<1> QED
  BY <1>1, <1>2

LEMMA CopiedContinuing ==
  ASSUME TablesOK, LoopsOK, Copied, ~Idle, NEW id, NEW again \in BOOLEAN,
         NEW calling \in {"nothing", "raw", "prompt"}, Continue(id, again, calling),
         \A left \in Table : CopyOf(left, pending, nextId) => CopyOf(left, pending', nextId')
  PROVE  Copied'
<1>1. /\ Len(polls') = Len(polls) /\ Head(polls).left \in Table
      /\ polls'[1].left = Without(Head(polls).left, {id})
      /\ \A i \in 2 .. Len(polls) : polls'[i] = polls[i]
  BY Continuing
<1>2. CopyOf(Head(polls).left, pending, nextId)
  BY HeadIs DEF Copied
<1>3. CopyOf(Without(Head(polls).left, {id}), pending, nextId)
  BY <1>1, <1>2, CopyStays
<1>4. Without(Head(polls).left, {id}) \in Table
  BY <1>1, TableWithout
<1>5. CopyOf(polls'[1].left, pending', nextId')
  BY <1>1, <1>3, <1>4
<1> QED
  BY <1>1, <1>5, CopiedNext

-----------------------------------------------------------------------------
(* Requests.                                                               *)

LEMMA KindsAre == \A kind : MayMake(kind) => kind \in AllKinds
BY KindsAssumption DEF MayMake

LEMMA SendKeeps ==
  ASSUME IInv, NEW kind, SendCommandRequestAsync(kind)
  PROVE  IInv'
<1>1. /\ RequestsOK /\ TablesOK /\ PreparationOK /\ LoopsOK /\ FirstSession
      /\ OnePreparationAtATime
  BY DEF IInv, Parts
<1>2. /\ kind \in AllKinds /\ kind # "prepare" /\ Record(kind, outcome, told)
      /\ commands' = With(commands, nextId, Len(made) + 1) /\ Register(pending)
      /\ UNCHANGED <<prepare, polls, failed, restarts>>
  BY KindsAre DEF SendCommandRequestAsync
<1>3. outcome \in Seq(Outcomes) /\ Len(outcome) = Len(made) /\ commands \in Table
  BY <1>1 DEF RequestsOK, TablesOK
<1>4. /\ RequestsOK' /\ TablesOK' /\ CallbackGetsItsOwnResponseOnce' /\ (restarts = 0 => Untold')
      /\ DOMAIN commands' = DOMAIN commands \union {nextId}
      /\ \A id \in DOMAIN commands : commands'[id] = commands[id]
  BY <1>2, <1>3, Registering
<1>5. /\ made'[Len(made) + 1] = kind
      /\ \A c \in Callbacks : made'[c] = made[c] /\ outcome'[c] = outcome[c]
      /\ Callbacks' = Callbacks \union {Len(made) + 1}
  BY <1>1, <1>2, <1>3, Recording
<1>6. \A id \in DOMAIN commands : commands[id] \in Callbacks
  BY <1>1 DEF TablesOK
<1>7. PreparationOK'
  BY <1>1, <1>2, <1>4, <1>5, <1>6 DEF PreparationOK
<1>8. OnePreparationAtATime'
  <2> SUFFICES ASSUME restarts = 0, NEW c \in Callbacks', made'[c] = "prepare", outcome'[c] = "pending"
               PROVE  prepare # None /\ commands'[prepare] = c
    BY <1>2 DEF OnePreparationAtATime
  <2>1. c \in Callbacks /\ made[c] = "prepare" /\ outcome[c] = "pending"
    BY <1>2, <1>5
  <2> QED
    BY <1>1, <1>4, <2>1 DEF OnePreparationAtATime, PreparationOK
<1>9. LoopsOK' /\ (restarts = 0 => Copied')
  <2>1. LoopsOK'
    BY <1>1, <1>2 DEF LoopsOK
  <2>2. ASSUME restarts = 0 PROVE Copied'
    BY <1>1, <1>2, <2>2, CopiedWhileRegistering, CopiedUnchanged DEF FirstSession
  <2> QED
    BY <2>1, <2>2
<1>10. FirstSession'
  BY <1>2, <1>4, <1>9 DEF FirstSession
<1> QED
  BY <1>4, <1>7, <1>8, <1>9, <1>10 DEF IInv, Parts

LEMMA PrepareKeeps ==
  ASSUME IInv, SendPrepareRenameRequestAsync
  PROVE  IInv'
<1>1. /\ RequestsOK /\ TablesOK /\ PreparationOK /\ LoopsOK /\ FirstSession
      /\ OnePreparationAtATime
  BY DEF IInv, Parts
<1> DEFINE old == IF prepare = None THEN {} ELSE {prepare}
           before == Flushed(old)
           outcomes == CancelRequests(old)
<1>2. /\ "prepare" \in AllKinds /\ Record("prepare", outcomes, told)
      /\ commands' = With(before, nextId, Len(made) + 1) /\ Register(pending)
      /\ prepare' = nextId /\ UNCHANGED <<polls, failed, restarts>>
  BY KindsAre DEF SendPrepareRenameRequestAsync
<1>3. /\ outcomes \in Seq(Outcomes) /\ Len(outcomes) = Len(made)
      /\ \A c \in Callbacks : outcomes[c] = "pending" =>
           outcome[c] = "pending" /\ \A i \in old \cap DOMAIN commands : commands[i] # c
  BY <1>1, Cancelling
<1>4. /\ before \in Table /\ DOMAIN before \subseteq DOMAIN commands
      /\ \A id \in DOMAIN before : before[id] = commands[id]
  <2> HIDE DEF old
  <2>1. /\ Flushed(old) \in Table /\ DOMAIN Flushed(old) = DOMAIN commands \ old
        /\ \A id \in DOMAIN commands \ old : Flushed(old)[id] = commands[id]
    BY <1>1, TableWithout DEF TablesOK, Flushed
  <2> QED
    BY <2>1
<1>5. prepare # None => prepare \in old
  OBVIOUS
<1> HIDE DEF old, before, outcomes
<1>6. /\ RequestsOK' /\ TablesOK' /\ CallbackGetsItsOwnResponseOnce' /\ (restarts = 0 => Untold')
      /\ DOMAIN commands' = DOMAIN before \union {nextId} /\ commands'[nextId] = Len(made) + 1
  BY <1>2, <1>3, <1>4, Registering
<1>7. /\ made'[Len(made) + 1] = "prepare"
      /\ \A c \in Callbacks : made'[c] = made[c] /\ outcome'[c] = outcomes[c]
      /\ Callbacks' = Callbacks \union {Len(made) + 1}
  BY <1>1, <1>2, <1>3, Recording
<1>8. PreparationOK'
  BY <1>2, <1>6, <1>7 DEF PreparationOK
<1>9. OnePreparationAtATime'
  <2> SUFFICES ASSUME restarts = 0, NEW c \in Callbacks', made'[c] = "prepare", outcome'[c] = "pending"
               PROVE  prepare' # None /\ commands'[prepare'] = c
    BY <1>2 DEF OnePreparationAtATime
  <2>1. c \notin Callbacks
    <3> SUFFICES ASSUME c \in Callbacks PROVE FALSE
      OBVIOUS
    <3>1. made[c] = "prepare" /\ outcomes[c] = "pending"
      BY <1>7
    <3>2. prepare # None /\ commands[prepare] = c /\ prepare \in DOMAIN commands
      BY <1>1, <1>3, <3>1 DEF OnePreparationAtATime, PreparationOK
    <3> QED
      BY <1>3, <1>5, <3>1, <3>2
  <2>2. nextId # None
    BY <1>1, NoneAssumption DEF TablesOK
  <2> QED
    BY <1>2, <1>6, <1>7, <2>1, <2>2
<1>10. LoopsOK' /\ (restarts = 0 => Copied')
  <2>1. LoopsOK'
    BY <1>1, <1>2 DEF LoopsOK
  <2>2. ASSUME restarts = 0 PROVE Copied'
    BY <1>1, <1>2, <2>2, CopiedWhileRegistering, CopiedUnchanged DEF FirstSession
  <2> QED
    BY <2>1, <2>2
<1>11. FirstSession'
  BY <1>2, <1>6, <1>10 DEF FirstSession
<1> QED
  BY <1>6, <1>8, <1>9, <1>10, <1>11 DEF IInv, Parts

(* The request of an extern caller fails before anything is sent.          *)
LEMMA ExternKeeps ==
  ASSUME IInv, GetCommandResponseAsync
  PROVE  IInv'
<1> DEFINE new == Len(made) + 1
<1>1. /\ RequestsOK /\ TablesOK /\ PreparationOK /\ LoopsOK /\ FirstSession
      /\ CallbackGetsItsOwnResponseOnce /\ OnePreparationAtATime
  BY DEF IInv, Parts
<1>2. "extern" \in AllKinds /\ "cancelled" \in Outcomes /\ << >> \in Seq(Int)
  BY DEF AllKinds, Outcomes
<1>3. /\ made \in Seq(AllKinds) /\ outcome \in Seq(Outcomes) /\ told \in Seq(Seq(Int))
      /\ Len(outcome) = Len(made) /\ Len(told) = Len(made)
  BY <1>1 DEF RequestsOK
<1>4. /\ made' \in Seq(AllKinds) /\ Len(made') = new /\ made'[new] = "extern"
      /\ \A c \in 1 .. Len(made) : made'[c] = made[c]
  BY <1>2, <1>3, AppendProperties DEF GetCommandResponseAsync
<1>5. /\ outcome' \in Seq(Outcomes) /\ Len(outcome') = new /\ outcome'[new] = "cancelled"
      /\ \A c \in 1 .. Len(made) : outcome'[c] = outcome[c]
  BY <1>2, <1>3, AppendProperties DEF GetCommandResponseAsync
<1>6. /\ told' \in Seq(Seq(Int)) /\ Len(told') = new /\ told'[new] = << >>
      /\ \A c \in 1 .. Len(made) : told'[c] = told[c]
  BY <1>2, <1>3, AppendProperties DEF GetCommandResponseAsync
<1>7. Callbacks' = Callbacks \union {new} /\ Callbacks = 1 .. Len(made)
  BY <1>3, <1>4 DEF Callbacks
<1>8. UNCHANGED <<nextId, commands, prepare, pending, armed, polls, failed, restarts>>
  BY DEF GetCommandResponseAsync, tables
<1> HIDE DEF new
<1>9. /\ \A id \in DOMAIN pending : pending[id] \in Callbacks
      /\ \A id \in DOMAIN commands : commands[id] \in Callbacks
  BY <1>1 DEF TablesOK
<1>10. RequestsOK'
  BY <1>4, <1>5, <1>6 DEF RequestsOK
<1>11. TablesOK'
  BY <1>1, <1>7, <1>8 DEF TablesOK
<1>12. PreparationOK'
  BY <1>1, <1>4, <1>7, <1>8, <1>9 DEF PreparationOK
<1>13. LoopsOK' /\ FirstSession'
  <2>1. LoopsOK'
    BY <1>1, <1>8 DEF LoopsOK
  <2>2. restarts = 0 => Untold'
    BY <1>1, <1>6, <1>7, <1>8, <1>9 DEF FirstSession, Untold
  <2>3. restarts = 0 => Copied'
    BY <1>1, <1>8 DEF FirstSession, Copied
  <2> QED
    BY <1>8, <2>1, <2>2, <2>3 DEF FirstSession
<1>14. CallbackGetsItsOwnResponseOnce'
  <2> SUFFICES ASSUME restarts = 0, NEW c \in Callbacks'
               PROVE  /\ Len(told'[c]) <= 1
                      /\ \A i \in DOMAIN told'[c] : told'[c][i] \in {NoResponse, EmptyResponse, c}
    BY <1>8 DEF CallbackGetsItsOwnResponseOnce
  <2>1. CASE c \in Callbacks
    BY <1>1, <1>6, <1>7, <2>1 DEF CallbackGetsItsOwnResponseOnce
  <2>2. CASE c = new
    BY <1>6, <2>2
  <2> QED
    BY <1>7, <2>1, <2>2
<1>15. OnePreparationAtATime'
  BY <1>1, <1>4, <1>5, <1>7, <1>8 DEF OnePreparationAtATime
<1> QED
  BY <1>10, <1>11, <1>12, <1>13, <1>14, <1>15 DEF IInv, Parts

(* s:AbortAutohoverRequest                                                 *)
LEMMA HoversAre ==
  ASSUME IInv
  PROVE  /\ Hovers \subseteq DOMAIN pending
         /\ \A id \in Hovers : made[pending[id]] = "hover"
         /\ prepare # None => prepare \notin Hovers
BY DEF IInv, Parts, TablesOK, PreparationOK, Hovers

(* A callback that was not called is called once.                          *)
LEMMA FirstTelling ==
  ASSUME NEW calls, calls = << >>, NEW result \in Int
  PROVE  Len(Append(calls, result)) = 1 /\ \A i \in DOMAIN Append(calls, result) : Append(calls, result)[i] = result
<1>1. calls \in Seq(Int) /\ Len(calls) = 0
  OBVIOUS
<1>2. /\ Append(calls, result) \in Seq(Int) /\ Len(Append(calls, result)) = 1
      /\ Append(calls, result)[1] = result
  BY <1>1, AppendProperties
<1> QED
  BY <1>2

LEMMA AbortKeeps ==
  ASSUME IInv, AbortAutohoverRequest
  PROVE  IInv'
<1> DEFINE heard == {pending[id] : id \in Hovers}
           gone == Hovers
<1>1. /\ RequestsOK /\ TablesOK /\ LoopsOK /\ FirstSession
      /\ CallbackGetsItsOwnResponseOnce
  BY DEF IInv, Parts
<1>2. /\ told' = Tell(heard, EmptyResponse) /\ outcome' = CancelRequests(gone)
      /\ commands' = Flushed(gone) /\ pending' = RemovedFromRequests(gone)
      /\ UNCHANGED <<made, nextId, prepare, armed, polls, failed, restarts>>
  BY DEF AbortAutohoverRequest
<1>3. gone \subseteq DOMAIN pending /\ (prepare # None => prepare \notin gone)
  BY HoversAre
<1>4. \A c : c \in heard <=> \E id \in gone : pending[id] = c
  OBVIOUS
<1> HIDE DEF heard, gone
<1>5. /\ told' \in Seq(Seq(Int)) /\ Len(told') = Len(made)
      /\ \A c \in Callbacks : told'[c] = IF c \in heard THEN Append(told[c], EmptyResponse) ELSE told[c]
  BY <1>1, <1>2, Telling DEF EmptyResponse
<1>6. /\ RequestsOK' /\ TablesOK' /\ Callbacks' = Callbacks
      /\ DOMAIN commands' = DOMAIN commands \ gone /\ DOMAIN pending' = DOMAIN pending \ gone
      /\ \A id \in DOMAIN commands \ gone : commands'[id] = commands[id]
      /\ \A id \in DOMAIN pending \ gone : pending'[id] = pending[id]
  BY <1>2, <1>5, Removing
<1>7. PreparationOK' /\ OnePreparationAtATime'
  BY <1>2, <1>3, <1>6, PreparationStays
<1>8. \A id \in DOMAIN pending : pending[id] \in Callbacks
  BY <1>1 DEF TablesOK
<1>9. ASSUME restarts = 0 PROVE Untold'
  <2>1. Untold
    BY <1>1, <1>9 DEF FirstSession
  <2>2. \A id \in DOMAIN pending \ gone : pending[id] \notin heard
    BY <1>3, <1>4, <2>1 DEF Untold
  <2> QED
    BY <1>2, <1>5, <1>6, <1>8, <2>1, <2>2 DEF Untold
<1>10. \A left \in Table : CopyOf(left, pending, nextId) => CopyOf(left, pending', nextId')
  BY <1>1, <1>2, CopyStays
<1>11. LoopsOK' /\ FirstSession'
  <2>1. LoopsOK'
    BY <1>1, <1>2 DEF LoopsOK
  <2>2. ASSUME restarts = 0 PROVE Copied'
    BY <1>1, <1>2, <1>10, <2>2, CopiedUnchanged DEF FirstSession
  <2> QED
    BY <1>2, <1>9, <2>1, <2>2 DEF FirstSession
<1>12. CallbackGetsItsOwnResponseOnce'
  <2> SUFFICES ASSUME restarts = 0, NEW c \in Callbacks
               PROVE  /\ Len(told'[c]) <= 1
                      /\ \A i \in DOMAIN told'[c] : told'[c][i] \in {NoResponse, EmptyResponse, c}
    BY <1>2, <1>6 DEF CallbackGetsItsOwnResponseOnce
  <2>1. CASE c \in heard
    <3>1. told[c] = << >>
      BY <1>1, <1>3, <1>4, <2>1 DEF FirstSession, Untold
    <3>2. told'[c] = Append(told[c], EmptyResponse)
      BY <1>5, <2>1
    <3>3. EmptyResponse \in Int
      BY DEF EmptyResponse
    <3> QED
      BY <3>1, <3>2, <3>3, FirstTelling
  <2>2. CASE c \notin heard
    BY <1>1, <1>5, <2>2 DEF CallbackGetsItsOwnResponseOnce
  <2> QED
    BY <2>1, <2>2
<1> QED
  BY <1>6, <1>7, <1>11, <1>12 DEF IInv, Parts

-----------------------------------------------------------------------------
(* s:PollCommands.                                                         *)

LEMMA TablesUnchanged ==
  ASSUME IInv, UNCHANGED <<requests, tables, pending, restarts>>,
         LoopsOK', restarts = 0 => Copied'
  PROVE  IInv'
<1>1. UNCHANGED <<made, outcome, told, nextId, commands, prepare, pending, restarts>>
  BY DEF requests, tables
<1>2. RequestsOK' /\ TablesOK' /\ PreparationOK'
  BY <1>1 DEF IInv, Parts, RequestsOK, TablesOK, PreparationOK, Callbacks
<1>3. restarts = 0 => Untold'
  BY <1>1 DEF IInv, FirstSession, Untold
<1>4. CallbackGetsItsOwnResponseOnce' /\ OnePreparationAtATime'
  BY <1>1 DEF IInv, CallbackGetsItsOwnResponseOnce, OnePreparationAtATime, Callbacks
<1> QED
  BY <1>1, <1>2, <1>3, <1>4 DEF IInv, Parts, FirstSession

LEMMA BeginKeeps ==
  ASSUME IInv, BeginPoll
  PROVE  IInv'
<1> DEFINE loop == [left |-> pending, again |-> FALSE, calling |-> "nothing"]
<1>1. TablesOK /\ LoopsOK /\ (restarts = 0 => Untold /\ Copied)
  BY DEF IInv, Parts, FirstSession
<1>2. loop \in Loop /\ loop.left = pending
  BY <1>1 DEF TablesOK, Loop
<1>3. polls' = <<loop>> \o polls /\ UNCHANGED <<requests, tables, pending, restarts>>
  BY DEF BeginPoll
<1>4. nextId' = nextId /\ pending' = pending
  BY <1>3 DEF tables
<1> HIDE DEF loop
<1>5. /\ LoopsOK' /\ Len(polls') = Len(polls) + 1 /\ polls'[1] = loop /\ Len(polls) \in Nat
      /\ \A i \in 1 .. Len(polls) : polls'[i + 1] = polls[i]
  BY <1>1, <1>2, <1>3, Pushing DEF LoopsOK
<1>6. ASSUME restarts = 0 PROVE Copied'
  <2> SUFFICES ASSUME NEW i \in 1 .. Len(polls) + 1 PROVE CopyOf(polls'[i].left, pending, nextId)
    BY <1>4, <1>5 DEF Copied
  <2>1. CASE i = 1
    BY <1>1, <1>2, <1>5, <1>6, <2>1 DEF Untold, CopyOf
  <2>2. CASE i # 1
    <3>1. i - 1 \in 1 .. Len(polls) /\ (i - 1) + 1 = i
      BY <1>5, <2>2
    <3>2. polls'[i] = polls[i - 1]
      BY <1>5, <3>1
    <3> QED
      BY <1>1, <1>6, <3>1, <3>2 DEF Copied
  <2> QED
    BY <2>1, <2>2
<1> QED
  BY <1>3, <1>5, <1>6, TablesUnchanged

LEMMA Unmoved ==
  ASSUME UNCHANGED <<tables, pending>>
  PROVE  \A left \in Table : CopyOf(left, pending, nextId) => CopyOf(left, pending', nextId')
BY DEF tables

LEMMA SkipKeeps ==
  ASSUME IInv, NEW id, SkipRequest(id)
  PROVE  IInv'
<1>1. TablesOK /\ LoopsOK /\ (restarts = 0 => Copied)
  BY DEF IInv, Parts, FirstSession
<1>2. /\ ~Idle /\ Continue(id, TRUE, "nothing")
      /\ UNCHANGED <<requests, tables, pending, restarts>>
  BY DEF SkipRequest, Looping
<1>3. TRUE \in BOOLEAN /\ "nothing" \in {"nothing", "raw", "prompt"}
  OBVIOUS
<1>4. LoopsOK'
  BY <1>1, <1>2, <1>3, Continuing
<1>5. restarts = 0 => Copied'
  BY <1>1, <1>2, <1>3, Unmoved, CopiedContinuing
<1> QED
  BY <1>2, <1>4, <1>5, TablesUnchanged

(* A loop ends, or is aborted.                                             *)
LEMMA PopKeeps ==
  ASSUME IInv, ~Idle, polls' = Tail(polls), UNCHANGED <<requests, tables, pending, restarts>>
  PROVE  IInv'
<1>1. LoopsOK /\ (restarts = 0 => Copied)
  BY DEF IInv, Parts, FirstSession
<1>2. /\ LoopsOK' /\ Len(polls') = Len(polls) - 1 /\ Len(polls) \in Nat
      /\ \A i \in 1 .. Len(polls') : polls'[i] = polls[i + 1]
  BY <1>1, Popping
<1>3. nextId' = nextId /\ pending' = pending
  BY DEF tables
<1>4. ASSUME restarts = 0 PROVE Copied'
  <2> SUFFICES ASSUME NEW i \in 1 .. Len(polls') PROVE CopyOf(polls'[i].left, pending, nextId)
    BY <1>3 DEF Copied
  <2>1. i + 1 \in 1 .. Len(polls) /\ polls'[i] = polls[i + 1]
    BY <1>2
  <2> QED
    BY <1>1, <1>4, <2>1 DEF Copied
<1> QED
  BY <1>2, <1>4, TablesUnchanged

(* The prompt is left: the innermost loop goes on with what it had.        *)
LEMMA PromptLeft ==
  ASSUME LoopsOK, Prompting,
         polls' = << [Head(polls) EXCEPT !.calling = "nothing"] >> \o Tail(polls)
  PROVE  /\ LoopsOK' /\ Len(polls') = Len(polls) /\ polls'[1].left = polls[1].left
         /\ \A i \in 2 .. Len(polls) : polls'[i] = polls[i]
<1> DEFINE loop == [Head(polls) EXCEPT !.calling = "nothing"]
<1>1. Head(polls) \in Loop /\ Head(polls) = polls[1] /\ ~Idle
  BY HeadIs DEF Prompting
<1>2. loop \in Loop /\ loop.left = polls[1].left
  BY <1>1 DEF Loop
<1> HIDE DEF loop
<1>3. polls' = <<loop>> \o Tail(polls)
  BY DEF loop
<1> QED
  BY <1>1, <1>2, <1>3, Replacing

LEMMA PromptLeftCopied ==
  ASSUME LoopsOK, Copied, Prompting,
         polls' = << [Head(polls) EXCEPT !.calling = "nothing"] >> \o Tail(polls),
         \A left \in Table : CopyOf(left, pending, nextId) => CopyOf(left, pending', nextId')
  PROVE  Copied'
<1>1. /\ Len(polls') = Len(polls) /\ polls'[1].left = polls[1].left
      /\ \A i \in 2 .. Len(polls) : polls'[i] = polls[i]
  BY PromptLeft
<1>2. ~Idle /\ 1 \in 1 .. Len(polls)
  BY HeadIs DEF Prompting
<1>3. CopyOf(polls'[1].left, pending', nextId')
  BY <1>1, <1>2, LoopIs DEF Copied
<1> QED
  BY <1>1, <1>2, <1>3, CopiedNext

LEMMA DismissKeeps ==
  ASSUME IInv, DismissPrompt
  PROVE  IInv'
<1>1. LoopsOK /\ (restarts = 0 => Copied)
  BY DEF IInv, Parts, FirstSession
<1>2. /\ Prompting /\ UNCHANGED <<requests, tables, pending, restarts>>
      /\ polls' = << [Head(polls) EXCEPT !.calling = "nothing"] >> \o Tail(polls)
  BY DEF DismissPrompt
<1>3. LoopsOK'
  BY <1>1, <1>2, PromptLeft
<1>4. restarts = 0 => Copied'
  BY <1>1, <1>2, PromptLeftCopied, Unmoved
<1> QED
  BY <1>2, <1>3, <1>4, TablesUnchanged

LEMMA RenameKeeps ==
  ASSUME IInv, SendPreparedRenameRequestAsync
  PROVE  IInv'
<1>1. /\ RequestsOK /\ TablesOK /\ PreparationOK /\ LoopsOK /\ FirstSession
      /\ OnePreparationAtATime
  BY DEF IInv, Parts
<1>2. /\ "rename" \in AllKinds /\ Record("rename", outcome, told)
      /\ commands' = With(commands, nextId, Len(made) + 1) /\ Register(pending)
      /\ Prompting /\ polls' = << [Head(polls) EXCEPT !.calling = "nothing"] >> \o Tail(polls)
      /\ UNCHANGED <<prepare, failed, restarts>>
  BY DEF SendPreparedRenameRequestAsync, AllKinds
<1>3. outcome \in Seq(Outcomes) /\ Len(outcome) = Len(made) /\ commands \in Table
  BY <1>1 DEF RequestsOK, TablesOK
<1>4. /\ RequestsOK' /\ TablesOK' /\ CallbackGetsItsOwnResponseOnce' /\ (restarts = 0 => Untold')
      /\ DOMAIN commands' = DOMAIN commands \union {nextId}
      /\ \A id \in DOMAIN commands : commands'[id] = commands[id]
  BY <1>2, <1>3, Registering
<1>5. /\ made'[Len(made) + 1] = "rename"
      /\ \A c \in Callbacks : made'[c] = made[c] /\ outcome'[c] = outcome[c]
      /\ Callbacks' = Callbacks \union {Len(made) + 1}
  BY <1>1, <1>2, <1>3, Recording
<1>6. \A id \in DOMAIN commands : commands[id] \in Callbacks
  BY <1>1 DEF TablesOK
<1>7. PreparationOK'
  BY <1>1, <1>2, <1>4, <1>5, <1>6 DEF PreparationOK
<1>8. OnePreparationAtATime'
  <2> SUFFICES ASSUME restarts = 0, NEW c \in Callbacks', made'[c] = "prepare", outcome'[c] = "pending"
               PROVE  prepare # None /\ commands'[prepare] = c
    BY <1>2 DEF OnePreparationAtATime
  <2>1. c \in Callbacks /\ made[c] = "prepare" /\ outcome[c] = "pending"
    BY <1>5
  <2> QED
    BY <1>1, <1>4, <2>1 DEF OnePreparationAtATime, PreparationOK
<1>9. LoopsOK'
  BY <1>1, <1>2, PromptLeft
<1>10. ASSUME restarts = 0 PROVE Copied'
  BY <1>1, <1>2, <1>10, CopiedWhileRegistering, PromptLeftCopied DEF FirstSession
<1>11. FirstSession'
  BY <1>2, <1>4, <1>10 DEF FirstSession
<1> QED
  BY <1>4, <1>7, <1>8, <1>9, <1>11 DEF IInv, Parts

(* The callback gets the response, those of the hovers nothing.            *)
AllTold(heard, callback, result) ==
  [Tell(heard, EmptyResponse) EXCEPT ![callback] = Append(told[callback], result)]

Calls(c, heard, callback, result) ==
  IF c = callback THEN Append(told[c], result)
  ELSE IF c \in heard THEN Append(told[c], EmptyResponse) ELSE told[c]

LEMMA TellingOne ==
  ASSUME RequestsOK, NEW heard, NEW callback, NEW result \in Int
  PROVE  /\ AllTold(heard, callback, result) \in Seq(Seq(Int))
         /\ Len(AllTold(heard, callback, result)) = Len(made)
         /\ \A c \in Callbacks :
              AllTold(heard, callback, result)[c] = Calls(c, heard, callback, result)
<1> DEFINE all == AllTold(heard, callback, result)
<1>1. EmptyResponse \in Int
  BY DEF EmptyResponse
<1>2. /\ Tell(heard, EmptyResponse) \in Seq(Seq(Int)) /\ Len(Tell(heard, EmptyResponse)) = Len(made)
      /\ \A c \in Callbacks : Tell(heard, EmptyResponse)[c] =
           IF c \in heard THEN Append(told[c], EmptyResponse) ELSE told[c]
  BY <1>1, Telling
<1> DEFINE before == Tell(heard, EmptyResponse)
           one(c) == IF c = callback THEN Append(told[callback], result) ELSE before[c]
<1>3. before \in Seq(Seq(Int)) /\ Len(before) = Len(made)
  BY <1>2
<1>4. all = [before EXCEPT ![callback] = Append(told[callback], result)]
  BY DEF AllTold
<1> HIDE DEF all
<1> HIDE DEF before
<1>5. /\ DOMAIN before = 1 .. Len(made) /\ Len(made) \in Nat
      /\ \A c \in 1 .. Len(made) : before[c] \in Seq(Int) /\ told[c] \in Seq(Int)
  BY <1>3 DEF RequestsOK
<1>6. before = [c \in 1 .. Len(made) |-> before[c]]
  BY <1>3, <1>5
<1>7. all = [c \in 1 .. Len(made) |-> one(c)]
  BY <1>4, <1>5, <1>6
<1>8. \A c \in 1 .. Len(made) : one(c) \in Seq(Int)
  BY <1>5, AppendProperties
<1>9. \A c \in 1 .. Len(made) : all[c] = one(c)
  BY <1>7
<1>10. all \in Seq(Seq(Int)) /\ Len(all) = Len(made)
  <2> HIDE DEF one
  <2> DEFINE after == [c \in 1 .. Len(made) |-> one(c)]
  <2>1. after \in Seq(Seq(Int)) /\ Len(after) = Len(made)
    BY <1>5, <1>8, IsASeq
  <2>2. all = after
    BY <1>7
  <2> HIDE DEF after
  <2> QED
    BY <2>1, <2>2
<1>11. \A c \in Callbacks : all[c] = Calls(c, heard, callback, result)
  BY <1>2, <1>9 DEF Callbacks, Calls, before
<1> QED
  BY <1>10, <1>11 DEF all

LEMMA FinishKeeps ==
  ASSUME IInv, NEW id, FinishRequest(id)
  PROVE  IInv'
<1>1. /\ RequestsOK /\ TablesOK /\ PreparationOK /\ LoopsOK /\ FirstSession
      /\ CallbackGetsItsOwnResponseOnce
  BY DEF IInv, Parts
<1>2. PICK hovers \in Aborted(id) :
        LET callback == Head(polls).left[id]
            gone == {id} \cup hovers
        IN  /\ told' = [Tell({pending[h] : h \in hovers}, EmptyResponse) EXCEPT
                          ![callback] = Append(told[callback], Result(id))]
            /\ outcome' = CancelRequests(gone)
            /\ commands' = Flushed(gone)
            /\ pending' = RemovedFromRequests(gone)
            /\ prepare' = PrepareAfter({id})
            /\ \/ Continue(id, FALSE, IF made[callback] = "raw" THEN "raw" ELSE "nothing")
               \/ /\ IsDone(id)
                  /\ made[callback] = "prepare"
                  /\ Continue(id, FALSE, "prompt")
  BY DEF FinishRequest
<1> DEFINE callback == Head(polls).left[id]
           gone == {id} \union hovers
           heard == {pending[h] : h \in hovers}
           result == Result(id)
<1>3. /\ ~Idle /\ id \in DOMAIN Head(polls).left /\ id \in DOMAIN pending
      /\ Unknown(id) \/ IsDone(id)
      /\ UNCHANGED <<made, nextId, armed, failed, restarts>>
  BY DEF FinishRequest, Looping
<1>4. /\ told' = [Tell(heard, EmptyResponse) EXCEPT ![callback] = Append(told[callback], result)]
      /\ outcome' = CancelRequests(gone) /\ commands' = Flushed(gone)
      /\ pending' = RemovedFromRequests(gone) /\ prepare' = PrepareAfter({id})
  BY <1>2
<1>5. \E calling \in {"nothing", "raw", "prompt"} : Continue(id, FALSE, calling)
  BY <1>2
<1>6. /\ result \in Int
      /\ restarts = 0 => result \in {NoResponse, pending[id]}
  <2>1. CASE Unknown(id)
    BY <2>1 DEF Result, NoResponse
  <2>2. CASE ~Unknown(id)
    <3>1. id \in DOMAIN commands /\ result = commands[id]
      BY <2>2 DEF Unknown, Result
    <3>2. commands \in Table
      BY <1>1 DEF TablesOK
    <3>3. commands[id] \in Int /\ commands[id] = pending[id]
      BY <1>1, <3>1, <3>2, TableIs DEF TablesOK
    <3> QED
      BY <3>1, <3>3
  <2> QED
    BY <2>1, <2>2
(* The hovers that go are not what is finished, nor the preparation.       *)
<1>7. /\ hovers \subseteq DOMAIN pending
      /\ id \notin hovers
      /\ prepare # None => prepare \notin hovers
  <2>1. CASE hovers = {}
    BY <2>1
  <2>2. CASE hovers # {}
    <3>1. hovers = Hovers /\ IsDone(id) /\ made[commands[id]] = "rename"
      BY <2>2 DEF Aborted
    <3>2. id \in DOMAIN commands /\ commands[id] = pending[id]
      BY <1>1, <3>1 DEF IsDone, Unknown, TablesOK
    <3> QED
      BY <3>1, <3>2, HoversAre
  <2> QED
    BY <2>1, <2>2
<1>8. \A c : c \in heard <=> \E h \in hovers : pending[h] = c
  OBVIOUS
<1>9. restarts = 0 => callback = pending[id]
  BY <1>1, <1>3, HeadIs DEF FirstSession, Copied, CopyOf
<1>10. \A x : x \in gone <=> x = id \/ x \in hovers
  OBVIOUS
<1> HIDE DEF callback, gone, heard, result
<1>11. /\ told' \in Seq(Seq(Int)) /\ Len(told') = Len(made)
       /\ \A c \in Callbacks : told'[c] = Calls(c, heard, callback, result)
  <2>1. told' = AllTold(heard, callback, result)
    BY <1>4 DEF AllTold
  <2>2. /\ AllTold(heard, callback, result) \in Seq(Seq(Int))
        /\ Len(AllTold(heard, callback, result)) = Len(made)
        /\ \A c \in Callbacks :
             AllTold(heard, callback, result)[c] = Calls(c, heard, callback, result)
    BY <1>1, <1>6, TellingOne
  <2> QED
    BY <2>1, <2>2
<1>12. /\ RequestsOK' /\ TablesOK' /\ Callbacks' = Callbacks
       /\ DOMAIN commands' = DOMAIN commands \ gone /\ DOMAIN pending' = DOMAIN pending \ gone
       /\ \A i \in DOMAIN commands \ gone : commands'[i] = commands[i]
       /\ \A i \in DOMAIN pending \ gone : pending'[i] = pending[i]
  BY <1>3, <1>4, <1>11, Removing
<1>13. PreparationOK' /\ OnePreparationAtATime'
  <2>1. prepare' = IF prepare = id THEN None ELSE prepare
    BY <1>4 DEF PrepareAfter
  <2>2. prepare' # None => prepare \notin gone
    BY <1>7, <1>10, <2>1
  <2>3. prepare' = None /\ prepare # None => prepare \in gone /\ outcome[commands[prepare]] # "pending"
    BY <1>1, <1>3, <1>10, <2>1 DEF PreparationOK, Unknown, IsDone
  <2> QED
    BY <1>3, <1>4, <1>12, <2>1, <2>2, <2>3, PreparationStays
<1>14. \A i \in DOMAIN pending : pending[i] \in Callbacks
  BY <1>1 DEF TablesOK
<1>15. ASSUME restarts = 0 PROVE Untold'
  <2>1. Untold
    BY <1>1, <1>15 DEF FirstSession
  <2>2. \A i \in DOMAIN pending \ gone : pending[i] \notin heard /\ pending[i] # callback
    BY <1>3, <1>7, <1>8, <1>9, <1>10, <1>15, <2>1 DEF Untold
  <2> QED
    BY <1>3, <1>11, <1>12, <1>14, <2>1, <2>2 DEF Untold, Calls
<1>16. \A left \in Table : CopyOf(left, pending, nextId) => CopyOf(left, pending', nextId')
  BY <1>1, <1>3, <1>4, CopyStays
<1>17. LoopsOK' /\ FirstSession'
  <2>1. PICK calling \in {"nothing", "raw", "prompt"} : Continue(id, FALSE, calling)
    BY <1>5
  <2>2. FALSE \in BOOLEAN
    OBVIOUS
  <2>3. LoopsOK'
    BY <1>1, <1>3, <2>1, <2>2, Continuing
  <2>4. ASSUME restarts = 0 PROVE Copied'
    BY <1>1, <1>3, <1>16, <2>1, <2>2, <2>4, CopiedContinuing DEF FirstSession
  <2> QED
    BY <1>3, <1>15, <2>3, <2>4 DEF FirstSession
<1>18. CallbackGetsItsOwnResponseOnce'
  <2> SUFFICES ASSUME restarts = 0, NEW c \in Callbacks
               PROVE  /\ Len(told'[c]) <= 1
                      /\ \A i \in DOMAIN told'[c] : told'[c][i] \in {NoResponse, EmptyResponse, c}
    BY <1>3, <1>12 DEF CallbackGetsItsOwnResponseOnce
  <2>0. Untold
    BY <1>1 DEF FirstSession
  <2>1. CASE c = callback
    <3>1. told[c] = << >> /\ result \in {NoResponse, c}
      BY <1>3, <1>6, <1>9, <2>0, <2>1 DEF Untold
    <3>2. told'[c] = Append(told[c], result)
      BY <1>11, <2>1 DEF Calls
    <3>3. Len(told'[c]) = 1 /\ \A i \in DOMAIN told'[c] : told'[c][i] = result
      BY <1>6, <3>1, <3>2, FirstTelling
    <3> QED
      BY <3>1, <3>3
  <2>2. CASE c # callback /\ c \in heard
    <3>1. told[c] = << >>
      BY <1>7, <1>8, <2>0, <2>2 DEF Untold
    <3>2. told'[c] = Append(told[c], EmptyResponse)
      BY <1>11, <2>2 DEF Calls
    <3>3. EmptyResponse \in Int
      BY DEF EmptyResponse
    <3>4. Len(told'[c]) = 1 /\ \A i \in DOMAIN told'[c] : told'[c][i] = EmptyResponse
      BY <3>1, <3>2, <3>3, FirstTelling
    <3> QED
      BY <3>4
  <2>3. CASE c # callback /\ c \notin heard
    BY <1>1, <1>11, <2>3 DEF Calls, CallbackGetsItsOwnResponseOnce
  <2> QED
    BY <2>1, <2>2, <2>3
<1> QED
  BY <1>12, <1>13, <1>17, <1>18 DEF IInv, Parts

-----------------------------------------------------------------------------
(* ycmd.                                                                   *)

LEMMA AnswerKeeps ==
  ASSUME IInv, NEW c, Answer(c)
  PROVE  IInv'
<1>1. /\ RequestsOK /\ TablesOK /\ PreparationOK /\ LoopsOK /\ FirstSession
      /\ CallbackGetsItsOwnResponseOnce /\ OnePreparationAtATime
  BY DEF IInv, Parts
<1>2. /\ c \in Callbacks /\ outcome' = [outcome EXCEPT ![c] = "done"]
      /\ UNCHANGED <<made, told, nextId, commands, prepare, pending, polls, restarts>>
  BY DEF Answer, tables
<1>3. "done" \in Outcomes /\ outcome \in Seq(Outcomes) /\ Callbacks = DOMAIN outcome
  BY <1>1 DEF Outcomes, RequestsOK, Callbacks
<1>4. /\ outcome' \in Seq(Outcomes) /\ Len(outcome') = Len(outcome)
      /\ \A d \in Callbacks : outcome'[d] = "pending" => outcome[d] = "pending"
  BY <1>2, <1>3
<1>5. RequestsOK' /\ TablesOK' /\ PreparationOK' /\ LoopsOK' /\ FirstSession'
  BY <1>1, <1>2, <1>4
  DEF RequestsOK, TablesOK, PreparationOK, LoopsOK, FirstSession, Untold, Copied, Callbacks
<1>6. CallbackGetsItsOwnResponseOnce'
  BY <1>1, <1>2 DEF CallbackGetsItsOwnResponseOnce, Callbacks
<1>7. OnePreparationAtATime'
  BY <1>1, <1>2, <1>4 DEF OnePreparationAtATime, Callbacks
<1> QED
  BY <1>5, <1>6, <1>7 DEF IInv, Parts

LEMMA RestartKeeps ==
  ASSUME IInv, RestartServer
  PROVE  IInv'
<1>1. RequestsOK /\ TablesOK /\ LoopsOK
  BY DEF IInv, Parts
<1>2. /\ restarts' = restarts + 1 /\ nextId' = 0 /\ prepare' = None
      /\ commands' = [id \in {} |-> 0]
      /\ UNCHANGED <<made, outcome, told, pending, polls>>
  BY DEF RestartServer, requests
<1>3. commands' \in Table /\ DOMAIN commands' = {}
  BY <1>2, EmptyTable
<1>4. RequestsOK' /\ TablesOK' /\ PreparationOK' /\ LoopsOK'
  BY <1>1, <1>2, <1>3 DEF RequestsOK, TablesOK, PreparationOK, LoopsOK, Callbacks
<1>5. restarts' # 0
  BY <1>1, <1>2 DEF TablesOK
<1> QED
  BY <1>4, <1>5
  DEF IInv, Parts, FirstSession, CallbackGetsItsOwnResponseOnce, OnePreparationAtATime

-----------------------------------------------------------------------------
LEMMA StepHolds == IInv /\ [Next]_vars => IInv'
<1> SUFFICES ASSUME IInv, [Next]_vars PROVE IInv'
  OBVIOUS
<1>1. ASSUME NEW kind, SendCommandRequestAsync(kind) PROVE IInv'
  BY <1>1, SendKeeps
<1>2. ASSUME GetCommandResponseAsync PROVE IInv'
  BY <1>2, ExternKeeps
<1>3. ASSUME SendPrepareRenameRequestAsync PROVE IInv'
  BY <1>3, PrepareKeeps
<1>4. ASSUME AbortAutohoverRequest PROVE IInv'
  BY <1>4, AbortKeeps
<1>5. ASSUME BeginPoll PROVE IInv'
  BY <1>5, BeginKeeps
<1>6. ASSUME NEW id, SkipRequest(id) PROVE IInv'
  BY <1>6, SkipKeeps
<1>7. ASSUME NEW id, FailToRemove(id) PROVE IInv'
  BY <1>7, PopKeeps DEF FailToRemove, Looping
<1>8. ASSUME NEW id, FinishRequest(id) PROVE IInv'
  BY <1>8, FinishKeeps
<1>9. ASSUME EndPoll PROVE IInv'
  BY <1>9, PopKeeps DEF EndPoll, Looping
<1>10. ASSUME DismissPrompt PROVE IInv'
  BY <1>10, DismissKeeps
<1>11. ASSUME SendPreparedRenameRequestAsync PROVE IInv'
  BY <1>11, RenameKeeps
<1>12. ASSUME NEW c, Answer(c) PROVE IInv'
  BY <1>12, AnswerKeeps
<1>13. ASSUME RestartServer PROVE IInv'
  BY <1>13, RestartKeeps
<1>14. ASSUME UNCHANGED vars PROVE IInv'
  <2>1. UNCHANGED <<requests, tables, pending, restarts>> /\ UNCHANGED polls
    BY <1>14 DEF vars
  <2>2. LoopsOK'
    BY <2>1 DEF IInv, Parts, LoopsOK
  <2>3. restarts = 0 => Copied'
    BY <2>1 DEF IInv, FirstSession, Copied, tables
  <2> QED
    BY <2>1, <2>2, <2>3, TablesUnchanged
<1> QED
  BY <1>1, <1>2, <1>3, <1>4, <1>5, <1>6, <1>7, <1>8, <1>9, <1>10, <1>11, <1>12, <1>13, <1>14
  DEF Next

LEMMA Invariance == Spec => []IInv
BY InitHolds, StepHolds, PTL DEF Spec

-----------------------------------------------------------------------------
(* Every entry of _command_requests has its entry in the table of callbacks*)
(* whatever is made, finished, aborted or restarted: PollCommands, the only*)
(* caller of FlushCommandRequest on them, reaches them all.                *)
THEOREM CallbacksCoverRequests == Spec => []NoRequestLeaks
<1>1. IInv => NoRequestLeaks
  BY DEF IInv, Parts, TablesOK, NoRequestLeaks
<1> QED
  BY <1>1, Invariance, PTL

(* SendCommandRequestAsync and FlushCommandRequest keep at most one        *)
(* preparation of a rename running at ycmd, and know which.                *)
THEOREM PreparationsSupersede == Spec => []OnePreparationAtATime
<1>1. IInv => OnePreparationAtATime
  BY DEF IInv
<1> QED
  BY <1>1, Invariance, PTL

(* Between restarts, s:PollCommands, s:AbortAutohoverRequest and a rename's*)
(* prompt call a callback once, whichever loop comes first.                *)
THEOREM CallbacksAreCalledOnce == Spec => []CallbackGetsItsOwnResponseOnce
<1>1. IInv => CallbackGetsItsOwnResponseOnce
  BY DEF IInv
<1> QED
  BY <1>1, Invariance, PTL

-----------------------------------------------------------------------------
(* Types and bounds.  A restart starts the IDs over and keeps what was made*)
(* (so the next ID never passes the number of requests), and what a loop or*)
(* the table of callbacks holds are callbacks that exist.                  *)
GoodTable(t) == DOMAIN t \subseteq Ids /\ \A id \in DOMAIN t : t[id] \in Callbacks

Results == {NoResponse, EmptyResponse} \union Callbacks

ToldResults == \A c \in Callbacks : \A i \in DOMAIN told[c] : told[c][i] \in Results

GoodLoops == \A i \in 1 .. Len(polls) : GoodTable(polls[i].left)

Bounded ==
  /\ nextId <= Len(made) /\ Len(made) <= MaxRequests
  /\ GoodTable(pending) /\ GoodLoops /\ ToldResults
  /\ armed \in BOOLEAN /\ failed \in BOOLEAN

Within(t, s) == DOMAIN t \subseteq DOMAIN s /\ \A id \in DOMAIN t : t[id] = s[id]

LEMMA WithoutIsWithin ==
  ASSUME NEW t \in Table, NEW ids
  PROVE  Within(Without(t, ids), t)
<1> DEFINE less == Without(t, ids)
<1>1. DOMAIN less = DOMAIN t \ ids /\ \A id \in DOMAIN t \ ids : less[id] = t[id]
  BY TableWithout
<1> HIDE DEF less
<1>2. Within(less, t)
  BY <1>1 DEF Within
<1> QED
  BY <1>2 DEF less

LEMMA InitBounded == Init => Bounded
<1> SUFFICES ASSUME Init PROVE Bounded
  OBVIOUS
<1>1. /\ Len(made) = 0 /\ Len(polls) = 0 /\ DOMAIN pending = {} /\ Callbacks = {}
      /\ nextId = 0 /\ armed = FALSE /\ failed = FALSE
  BY EmptyTable DEF Init, Callbacks
<1>2. GoodTable(pending) /\ ToldResults
  BY <1>1 DEF GoodTable, ToldResults
<1>3. GoodLoops
  BY <1>1 DEF GoodLoops
<1>4. nextId <= Len(made) /\ Len(made) <= MaxRequests
  BY <1>1, BoundsAssumption
<1>5. armed \in BOOLEAN /\ failed \in BOOLEAN
  BY <1>1
<1> QED
  BY <1>2, <1>3, <1>4, <1>5 DEF Bounded

(* The loops of the next state hold no more than some loop held before.    *)
LoopsShrink ==
  \A i \in 1 .. Len(polls') : \E j \in 1 .. Len(polls) : Within(polls'[i].left, polls[j].left)

LEMMA PoppingShrinks ==
  ASSUME LoopsOK, ~Idle, polls' = Tail(polls)
  PROVE  LoopsShrink
<1> SUFFICES ASSUME NEW i \in 1 .. Len(polls')
             PROVE  \E j \in 1 .. Len(polls) : Within(polls'[i].left, polls[j].left)
  BY DEF LoopsShrink
<1>1. i + 1 \in 1 .. Len(polls) /\ polls'[i] = polls[i + 1]
  BY Popping
<1> QED
  BY <1>1 DEF Within

LEMMA ReplacingShrinks ==
  ASSUME LoopsOK, ~Idle, Len(polls') = Len(polls), Within(polls'[1].left, polls[1].left),
         \A i \in 2 .. Len(polls) : polls'[i] = polls[i]
  PROVE  LoopsShrink
<1> SUFFICES ASSUME NEW i \in 1 .. Len(polls)
             PROVE  Within(polls'[i].left, polls[i].left)
  BY DEF LoopsShrink
<1>1. CASE i = 1
  BY <1>1
<1>2. CASE i # 1
  <2>1. i \in 2 .. Len(polls)
    BY <1>2 DEF LoopsOK
  <2> QED
    BY <2>1 DEF Within
<1> QED
  BY <1>1, <1>2

LEMMA ContinuingShrinks ==
  ASSUME LoopsOK, ~Idle, NEW id, NEW again \in BOOLEAN,
         NEW calling \in {"nothing", "raw", "prompt"}, Continue(id, again, calling)
  PROVE  LoopsShrink
<1> DEFINE left == Head(polls).left
<1>1. /\ Len(polls') = Len(polls) /\ left \in Table
      /\ polls'[1].left = Without(left, {id})
      /\ \A i \in 2 .. Len(polls) : polls'[i] = polls[i]
  BY Continuing
<1>2. left = polls[1].left
  BY HeadIs
<1> HIDE DEF left
<1>3. Within(Without(left, {id}), left)
  BY <1>1, WithoutIsWithin
<1> QED
  BY <1>1, <1>2, <1>3, ReplacingShrinks

LEMMA PromptLeftShrinks ==
  ASSUME LoopsOK, Prompting,
         polls' = << [Head(polls) EXCEPT !.calling = "nothing"] >> \o Tail(polls)
  PROVE  LoopsShrink
<1>1. /\ Len(polls') = Len(polls) /\ polls'[1].left = polls[1].left
      /\ \A i \in 2 .. Len(polls) : polls'[i] = polls[i]
  BY PromptLeft
<1>2. Within(polls'[1].left, polls[1].left)
  BY <1>1 DEF Within
<1> QED
  BY <1>1, <1>2, ReplacingShrinks DEF Prompting

(* What a callback has been told grows by one result at most.              *)
Grows(calls, now) == now = calls \/ \E result \in Results : now = Append(calls, result)

LEMMA GrowingTold ==
  ASSUME RequestsOK, ToldResults, Callbacks \subseteq Callbacks',
         \A c \in Callbacks : Grows(told[c], told'[c]),
         \A c \in Callbacks' : c \in Callbacks \/ told'[c] = << >>
  PROVE  ToldResults'
<1> SUFFICES ASSUME NEW c \in Callbacks', NEW i \in DOMAIN told'[c]
             PROVE  told'[c][i] \in {NoResponse, EmptyResponse} \union Callbacks'
  BY DEF ToldResults, Results, NoResponse, EmptyResponse
<1>1. CASE c \notin Callbacks
  <2>1. told'[c] = << >>
    BY <1>1
  <2> QED
    BY <2>1
<1>2. CASE c \in Callbacks
  <2>1. told[c] \in Seq(Int) /\ \A k \in DOMAIN told[c] : told[c][k] \in Results
    BY <1>2 DEF RequestsOK, ToldResults, Callbacks
  <2>2. CASE told'[c] = told[c]
    BY <2>1, <2>2 DEF Results
  <2>3. CASE told'[c] # told[c]
    <3>1. PICK result \in Results : told'[c] = Append(told[c], result)
      BY <1>2, <2>3 DEF Grows
    <3>2. result \in Int
      BY DEF Results, NoResponse, EmptyResponse, Callbacks
    <3>3. /\ Len(told'[c]) = Len(told[c]) + 1 /\ told'[c] \in Seq(Int)
          /\ told'[c][Len(told[c]) + 1] = result
          /\ \A k \in 1 .. Len(told[c]) : told'[c][k] = told[c][k]
      BY <2>1, <3>1, <3>2, AppendProperties
    <3>4. i \in 1 .. Len(told[c]) + 1 /\ DOMAIN told[c] = 1 .. Len(told[c]) /\ Len(told[c]) \in Nat
      BY <2>1, <3>3
    <3>5. told'[c][i] \in Results
      BY <2>1, <3>1, <3>3, <3>4
    <3> QED
      BY <3>5 DEF Results
  <2> QED
    BY <2>2, <2>3
<1> QED
  BY <1>1, <1>2

(* A step that makes nothing and whose tables only lose entries.           *)
LEMMA Shrinking ==
  ASSUME IInv, Bounded, made' = made, nextId' = nextId \/ nextId' = 0,
         Within(pending', pending), LoopsShrink,
         \A c \in Callbacks : Grows(told[c], told'[c]),
         armed' \in BOOLEAN, failed' \in BOOLEAN
  PROVE  Bounded'
<1>1. Callbacks' = Callbacks /\ RequestsOK /\ ToldResults
  BY DEF Callbacks, IInv, Parts, Bounded
<1>2. ToldResults'
  BY <1>1, GrowingTold
<1>3. GoodTable(pending)'
  BY <1>1 DEF Bounded, GoodTable, Within
<1>4. GoodLoops'
  <2> SUFFICES ASSUME NEW i \in 1 .. Len(polls')
               PROVE  DOMAIN polls'[i].left \subseteq Ids
                      /\ \A id \in DOMAIN polls'[i].left : polls'[i].left[id] \in Callbacks
    BY <1>1 DEF GoodLoops, GoodTable
  <2>1. PICK j \in 1 .. Len(polls) : Within(polls'[i].left, polls[j].left)
    BY DEF LoopsShrink
  <2>2. GoodTable(polls[j].left)
    BY DEF Bounded, GoodLoops
  <2> QED
    BY <2>1, <2>2 DEF GoodTable, Within
<1>5. nextId' <= Len(made') /\ Len(made') <= MaxRequests
  BY <1>1 DEF Bounded, RequestsOK
<1> QED
  BY <1>2, <1>3, <1>4, <1>5 DEF Bounded, GoodTable

(* A step that makes one request, and registers it or not.                 *)
LEMMA Making ==
  ASSUME IInv, Bounded, Len(made) < MaxRequests, Len(made') = Len(made) + 1,
         nextId' = nextId \/ nextId' = nextId + 1,
         pending' = pending \/ pending' = With(pending, nextId, Len(made) + 1),
         polls' = polls \/ LoopsShrink,
         \A c \in Callbacks : told'[c] = told[c], told'[Len(made) + 1] = << >>,
         armed' \in BOOLEAN, failed' \in BOOLEAN
  PROVE  Bounded'
<1> DEFINE new == Len(made) + 1
<1>1. /\ Len(made) \in Nat /\ nextId \in Nat /\ pending \in Table /\ RequestsOK /\ ToldResults
      /\ MaxRequests \in Nat
  BY BoundsAssumption DEF IInv, Parts, RequestsOK, TablesOK, Bounded
<1>2. /\ Callbacks' = Callbacks \union {new} /\ new \in Callbacks' /\ new \in Nat
  BY <1>1 DEF Callbacks
<1>3. ToldResults'
  BY <1>1, <1>2, GrowingTold DEF Grows
<1>4. nextId \in Ids
  BY <1>1 DEF Bounded, Ids
<1> HIDE DEF new
<1>5. DOMAIN pending' \subseteq Ids /\ \A id \in DOMAIN pending' : pending'[id] \in Callbacks'
  <2>1. CASE pending' = pending
    BY <1>2, <2>1 DEF Bounded, GoodTable
  <2>2. CASE pending' = With(pending, nextId, new)
    <3> DEFINE grown == With(pending, nextId, new)
    <3>1. /\ DOMAIN grown = DOMAIN pending \union {nextId} /\ grown[nextId] = new
          /\ \A id \in DOMAIN pending : id # nextId => grown[id] = pending[id]
      BY <1>1, <1>2, TableWith
    <3> HIDE DEF grown
    <3>2. pending' = grown
      BY <2>2 DEF grown
    <3> QED
      BY <1>2, <1>4, <3>1, <3>2 DEF Bounded, GoodTable
  <2> QED
    BY <2>1, <2>2 DEF new
<1>6. GoodLoops'
  <2> SUFFICES ASSUME NEW i \in 1 .. Len(polls')
               PROVE  DOMAIN polls'[i].left \subseteq Ids
                      /\ \A id \in DOMAIN polls'[i].left : polls'[i].left[id] \in Callbacks'
    BY DEF GoodLoops, GoodTable
  <2>1. PICK j \in 1 .. Len(polls) : Within(polls'[i].left, polls[j].left)
    BY DEF LoopsShrink, Within
  <2>2. GoodTable(polls[j].left)
    BY DEF Bounded, GoodLoops
  <2> QED
    BY <1>2, <2>1, <2>2 DEF GoodTable, Within
<1>7. nextId' <= Len(made') /\ Len(made') <= MaxRequests
  BY <1>1 DEF Bounded
<1> QED
  BY <1>3, <1>5, <1>6, <1>7 DEF Bounded, GoodTable

(* What FinishRequest tells the callbacks.                                 *)
LEMMA FinishTells ==
  ASSUME IInv, NEW heard, NEW callback, NEW result \in Results,
         told' = [Tell(heard, EmptyResponse) EXCEPT ![callback] = Append(told[callback], result)]
  PROVE  \A c \in Callbacks : Grows(told[c], told'[c])
<1>1. result \in Int /\ EmptyResponse \in Results
  BY DEF Results, NoResponse, EmptyResponse, Callbacks
<1>2. RequestsOK /\ told' = AllTold(heard, callback, result)
  BY DEF IInv, Parts, AllTold
<1>3. \A c \in Callbacks : told'[c] = Calls(c, heard, callback, result)
  <2>1. \A c \in Callbacks :
          AllTold(heard, callback, result)[c] = Calls(c, heard, callback, result)
    BY <1>1, <1>2, TellingOne
  <2> QED
    BY <1>2, <2>1
<1> QED
  BY <1>1, <1>3 DEF Calls, Grows

LEMMA FinishBounded ==
  ASSUME IInv, Bounded, NEW id, FinishRequest(id)
  PROVE  Bounded'
<1>1. PICK hovers \in Aborted(id) :
        LET callback == Head(polls).left[id]
            gone == {id} \cup hovers
        IN  /\ told' = [Tell({pending[h] : h \in hovers}, EmptyResponse) EXCEPT
                          ![callback] = Append(told[callback], Result(id))]
            /\ pending' = RemovedFromRequests(gone)
            /\ \/ Continue(id, FALSE, IF made[callback] = "raw" THEN "raw" ELSE "nothing")
               \/ /\ IsDone(id)
                  /\ made[callback] = "prepare"
                  /\ Continue(id, FALSE, "prompt")
  BY DEF FinishRequest
<1> DEFINE gone == {id} \union hovers
           heard == {pending[h] : h \in hovers}
           callback == Head(polls).left[id]
<1>2. /\ ~Idle /\ UNCHANGED <<made, nextId, armed, failed>>
      /\ LoopsOK /\ RequestsOK /\ TablesOK /\ pending \in Table
  BY DEF FinishRequest, Looping, IInv, Parts, TablesOK
<1>3. \E calling \in {"nothing", "raw", "prompt"} : Continue(id, FALSE, calling)
  BY <1>1
<1>4. LoopsShrink
  BY <1>2, <1>3, ContinuingShrinks
<1>5. pending' = RemovedFromRequests(gone)
  BY <1>1
<1>6. told' = [Tell(heard, EmptyResponse) EXCEPT ![callback] = Append(told[callback], Result(id))]
  BY <1>1
<1>7. Result(id) \in Results
  BY <1>2 DEF Result, Unknown, TablesOK, Results
<1> HIDE DEF gone, heard, callback
<1>8. Within(pending', pending)
  BY <1>2, <1>5, WithoutIsWithin DEF RemovedFromRequests
<1>9. \A c \in Callbacks : Grows(told[c], told'[c])
  BY <1>6, <1>7, FinishTells
<1> QED
  BY <1>2, <1>4, <1>8, <1>9, Shrinking DEF Bounded

LEMMA StepBounded == IInv /\ Bounded /\ [Next]_vars => Bounded'
<1> SUFFICES ASSUME IInv, Bounded, [Next]_vars PROVE Bounded'
  OBVIOUS
<1>a. /\ LoopsOK /\ RequestsOK /\ pending \in Table /\ restarts \in Nat
      /\ armed \in BOOLEAN /\ failed \in BOOLEAN
  BY DEF IInv, Parts, TablesOK, Bounded
<1>b. polls' = polls => LoopsShrink
  BY DEF LoopsShrink, Within
<1>c. Within(pending, pending)
  BY DEF Within
<1>d. told' = told => \A c \in Callbacks : Grows(told[c], told'[c])
  BY DEF Grows
<1>e. ASSUME NEW kind \in AllKinds, NEW outcomes \in Seq(Outcomes), Len(outcomes) = Len(made),
             Record(kind, outcomes, told)
      PROVE  /\ Len(made') = Len(made) + 1 /\ told'[Len(made) + 1] = << >>
             /\ \A c \in Callbacks : told'[c] = told[c]
  BY <1>a, <1>e, Recording
<1>1. ASSUME NEW kind, SendCommandRequestAsync(kind) PROVE Bounded'
  <2>1. /\ kind \in AllKinds /\ Len(made) < MaxRequests
        /\ Record(kind, outcome, told) /\ Register(pending) /\ UNCHANGED <<polls, failed>>
    BY <1>1, KindsAre DEF SendCommandRequestAsync, MayMake
  <2>2. outcome \in Seq(Outcomes) /\ Len(outcome) = Len(made)
    BY <1>a DEF RequestsOK
  <2> QED
    BY <1>a, <1>e, <2>1, <2>2, Making DEF Register
<1>2. ASSUME GetCommandResponseAsync PROVE Bounded'
  <2>1. /\ Len(made) < MaxRequests
        /\ made' = Append(made, "extern") /\ told' = Append(told, << >>)
        /\ UNCHANGED <<nextId, pending, armed, polls, failed>>
    BY <1>2 DEF GetCommandResponseAsync, MayMake, tables
  <2>2. "extern" \in AllKinds /\ << >> \in Seq(Int)
    BY DEF AllKinds
  <2>3. /\ Len(made') = Len(made) + 1 /\ told'[Len(made) + 1] = << >>
        /\ \A c \in Callbacks : told'[c] = told[c]
    BY <1>a, <2>1, <2>2, AppendProperties DEF RequestsOK, Callbacks
  <2> QED
    BY <1>a, <2>1, <2>3, Making
<1>3. ASSUME SendPrepareRenameRequestAsync PROVE Bounded'
  <2>1. PICK old : /\ Record("prepare", CancelRequests(old), told)
                   /\ Len(made) < MaxRequests /\ Register(pending) /\ UNCHANGED <<polls, failed>>
    BY <1>3 DEF SendPrepareRenameRequestAsync, MayMake
  <2>2. "prepare" \in AllKinds
    BY DEF AllKinds
  <2>3. CancelRequests(old) \in Seq(Outcomes) /\ Len(CancelRequests(old)) = Len(made)
    BY <1>a, Cancelling
  <2> QED
    BY <1>a, <1>e, <2>1, <2>2, <2>3, Making DEF Register
<1>4. ASSUME AbortAutohoverRequest PROVE Bounded'
  <2> DEFINE gone == Hovers
             heard == {pending[id] : id \in Hovers}
  <2>1. /\ told' = Tell(heard, EmptyResponse) /\ pending' = RemovedFromRequests(gone)
        /\ UNCHANGED <<made, nextId, armed, polls, failed>>
    BY <1>4 DEF AbortAutohoverRequest
  <2> HIDE DEF gone, heard
  <2>2. Within(pending', pending)
    BY <1>a, <2>1, WithoutIsWithin DEF RemovedFromRequests
  <2>3. EmptyResponse \in Results /\ EmptyResponse \in Int
    BY DEF Results, EmptyResponse
  <2>4. \A c \in Callbacks : Grows(told[c], told'[c])
    <3>1. \A c \in Callbacks : Tell(heard, EmptyResponse)[c] =
            IF c \in heard THEN Append(told[c], EmptyResponse) ELSE told[c]
      BY <1>a, <2>3, Telling
    <3> QED
      BY <2>1, <2>3, <3>1 DEF Grows
  <2> QED
    BY <1>a, <1>b, <2>1, <2>2, <2>4, Shrinking
<1>5. ASSUME BeginPoll PROVE Bounded'
  <2> DEFINE loop == [left |-> pending, again |-> FALSE, calling |-> "nothing"]
  <2>1. /\ polls' = <<loop>> \o polls /\ armed' = FALSE
        /\ UNCHANGED <<made, told, nextId, pending, failed>>
    BY <1>5 DEF BeginPoll, requests, tables
  <2>2. loop \in Loop /\ loop.left = pending
    BY <1>a DEF Loop
  <2> HIDE DEF loop
  <2>3. /\ Len(polls') = Len(polls) + 1 /\ polls'[1] = loop /\ Len(polls) \in Nat
        /\ \A i \in 1 .. Len(polls) : polls'[i + 1] = polls[i]
    BY <1>a, <2>1, <2>2, Pushing DEF LoopsOK
  <2>4. \A i \in 1 .. Len(polls') : GoodTable(polls'[i].left)
    <3> TAKE i \in 1 .. Len(polls')
    <3>1. CASE i = 1
      BY <2>2, <2>3, <3>1 DEF Bounded
    <3>2. CASE i # 1
      <4>1. i - 1 \in 1 .. Len(polls) /\ (i - 1) + 1 = i
        BY <2>3, <3>2
      <4>2. polls'[i] = polls[i - 1]
        BY <2>3, <4>1
      <4> QED
        BY <4>1, <4>2 DEF Bounded, GoodLoops
    <3> QED
      BY <3>1, <3>2
  <2> QED
    BY <1>a, <2>1, <2>4 DEF Bounded, GoodLoops, GoodTable, ToldResults, Results, Callbacks
<1>6. ASSUME NEW id, SkipRequest(id) PROVE Bounded'
  <2>1. /\ ~Idle /\ Continue(id, TRUE, "nothing")
        /\ UNCHANGED <<made, told, nextId, pending, armed, failed>>
    BY <1>6 DEF SkipRequest, Looping, requests, tables
  <2>2. LoopsShrink
    BY <1>a, <2>1, ContinuingShrinks
  <2> QED
    BY <1>a, <1>c, <1>d, <2>1, <2>2, Shrinking
<1>7. ASSUME NEW id, FailToRemove(id) PROVE Bounded'
  <2>1. /\ ~Idle /\ polls' = Tail(polls) /\ failed' = TRUE
        /\ UNCHANGED <<made, told, nextId, pending, armed>>
    BY <1>7 DEF FailToRemove, Looping, requests, tables
  <2> QED
    BY <1>a, <1>c, <1>d, <2>1, PoppingShrinks, Shrinking
<1>8. ASSUME NEW id, FinishRequest(id) PROVE Bounded'
  BY <1>8, FinishBounded
<1>9. ASSUME EndPoll PROVE Bounded'
  <2>1. /\ ~Idle /\ polls' = Tail(polls) /\ armed' = (armed \/ Head(polls).again)
        /\ UNCHANGED <<made, told, nextId, pending, failed>>
    BY <1>9 DEF EndPoll, Looping, requests, tables
  <2>2. Head(polls).again \in BOOLEAN
    BY <1>a, <2>1, HeadIs DEF Loop
  <2>3. armed' \in BOOLEAN
    BY <2>1, <2>2
  <2> QED
    BY <1>a, <1>c, <1>d, <2>1, <2>3, PoppingShrinks, Shrinking
<1>10. ASSUME DismissPrompt PROVE Bounded'
  <2>1. /\ Prompting /\ UNCHANGED <<made, told, nextId, pending, armed, failed>>
        /\ polls' = << [Head(polls) EXCEPT !.calling = "nothing"] >> \o Tail(polls)
    BY <1>10 DEF DismissPrompt, requests, tables
  <2> QED
    BY <1>a, <1>c, <1>d, <2>1, PromptLeftShrinks, Shrinking
<1>11. ASSUME SendPreparedRenameRequestAsync PROVE Bounded'
  <2>1. /\ Prompting /\ Len(made) < MaxRequests /\ Record("rename", outcome, told)
        /\ polls' = << [Head(polls) EXCEPT !.calling = "nothing"] >> \o Tail(polls)
        /\ Register(pending) /\ UNCHANGED failed
    BY <1>11 DEF SendPreparedRenameRequestAsync
  <2>2. "rename" \in AllKinds /\ outcome \in Seq(Outcomes) /\ Len(outcome) = Len(made)
    BY <1>a DEF RequestsOK, AllKinds
  <2>3. LoopsShrink
    BY <1>a, <2>1, PromptLeftShrinks
  <2> QED
    BY <1>a, <1>e, <2>1, <2>2, <2>3, Making DEF Register
<1>12. ASSUME NEW c, Answer(c) PROVE Bounded'
  BY <1>12 DEF Answer, tables, Bounded, GoodTable, GoodLoops, ToldResults, Results, Callbacks
<1>13. ASSUME RestartServer PROVE Bounded'
  <2>1. nextId' = 0 /\ armed' = FALSE /\ UNCHANGED <<made, told, pending, polls, failed>>
    BY <1>13 DEF RestartServer, requests
  <2> QED
    BY <1>a, <1>b, <1>c, <1>d, <2>1, Shrinking
<1>14. ASSUME UNCHANGED vars PROVE Bounded'
  BY <1>14 DEF vars, requests, tables, Bounded, GoodTable, GoodLoops, ToldResults, Results, Callbacks
<1> QED
  BY <1>1, <1>2, <1>3, <1>4, <1>5, <1>6, <1>7, <1>8, <1>9, <1>10, <1>11, <1>12, <1>13, <1>14
  DEF Next

(* The tables, the running loops and what the callbacks were told keep     *)
(* their types: every entry has an ID the poller goes through and names a  *)
(* callback that exists, in this session or from an earlier one.           *)
THEOREM TypeCorrect == Spec => []TypeOK
<1>1. IInv /\ Bounded => TypeOK
  <2> SUFFICES ASSUME IInv, Bounded PROVE TypeOK
    OBVIOUS
  <2>1. RequestsOK /\ TablesOK /\ PreparationOK /\ LoopsOK
    BY DEF IInv, Parts
  <2>2. \A t : GoodTable(t) => IsTable(t)
    BY DEF GoodTable, IsTable, Range
  <2>3. IsTable(pending)
    BY <2>2 DEF Bounded
  <2>4. GoodTable(commands)
    BY <2>1 DEF Bounded, TablesOK, GoodTable
  <2>5. nextId \in Ids
    BY <2>1, BoundsAssumption DEF Bounded, TablesOK, RequestsOK, Ids
  <2>6. prepare \in Ids \union {None}
    BY <2>1, <2>4 DEF PreparationOK, GoodTable
  <2>7. \A c \in Callbacks : told[c] \in Seq({NoResponse, EmptyResponse} \union Callbacks)
    <3> TAKE c \in Callbacks
    <3>1. told[c] \in Seq(Int) /\ \A i \in DOMAIN told[c] : told[c][i] \in Results
      BY <2>1 DEF RequestsOK, Callbacks, Bounded, ToldResults
    <3>2. told[c] = [i \in 1 .. Len(told[c]) |-> told[c][i]] /\ Len(told[c]) \in Nat
          /\ \A i \in 1 .. Len(told[c]) : told[c][i] \in Results
      BY <3>1
    <3>3. told[c] \in Seq(Results)
      BY <3>2, IsASeq
    <3> QED
      BY <3>3 DEF Results
  <2>8. \A i \in DOMAIN polls :
          /\ DOMAIN polls[i] = {"left", "again", "calling"} /\ IsTable(polls[i].left)
          /\ polls[i].again \in BOOLEAN /\ polls[i].calling \in {"nothing", "raw", "prompt"}
    <3> TAKE i \in DOMAIN polls
    <3>1. i \in 1 .. Len(polls) /\ polls[i] \in Loop
      BY <2>1 DEF LoopsOK
    <3>2. GoodTable(polls[i].left)
      BY <3>1 DEF Bounded, GoodLoops
    <3> QED
      BY <2>2, <3>1, <3>2 DEF Loop
  <2> QED
    BY <2>1, <2>2, <2>3, <2>4, <2>5, <2>6, <2>7, <2>8
    DEF TypeOK, RequestsOK, TablesOK, Bounded, Outcomes
<1> QED
  BY <1>1, InitBounded, StepBounded, Invariance, PTL DEF Spec
=============================================================================
