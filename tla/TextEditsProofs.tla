--------------------------- MODULE TextEditsProofs ---------------------------
(***************************************************************************)
(* Lemmas about natural numbers, sequences and folds, by induction over    *)
(* sets of natural numbers; lemmas about sequences of which several slices *)
(* are replaced at once; and the proofs that chunks which are applied one  *)
(* after the other are such a replacement.                                 *)
(***************************************************************************)
EXTENDS TextEdits, FiniteSetTheorems, SequenceTheorems, WellFoundedInduction, TLAPS

-----------------------------------------------------------------------------
(***************************************************************************)
(* Numbers, sequences and folds                                            *)
(***************************************************************************)

IsAssociative(a, b, c) == (a \o b) \o c = a \o (b \o c)

LEMMA Associative ==
  ASSUME NEW S, NEW a \in Seq(S), NEW b \in Seq(S), NEW c \in Seq(S)
  PROVE  IsAssociative(a, b, c)
BY ConcatAssociative DEF IsAssociative

LEMMA NextBack == \A k \in Nat : k # 0 => k + 1 # 1 /\ (k + 1) - 1 = k
OBVIOUS

LEMMA Joining ==
  ASSUME NEW T, NEW s \in Seq(T), NEW t \in Seq(T)
  PROVE  /\ s \o t \in Seq(T) /\ Len(s \o t) = Len(s) + Len(t)
         /\ Len(s) \in Nat /\ Len(t) \in Nat /\ DOMAIN (s \o t) = 1..(Len(s) + Len(t))
         /\ \A p \in 1..Len(s) : (s \o t)[p] = s[p]
         /\ \A p \in (Len(s) + 1)..(Len(s) + Len(t)) :
              p - Len(s) \in 1..Len(t) /\ (s \o t)[p] = t[p - Len(s)]
<1>1. Len(s) \in Nat /\ Len(t) \in Nat
  OBVIOUS
<1>2. ASSUME NEW p \in (Len(s) + 1)..(Len(s) + Len(t))
      PROVE  p - Len(s) \in 1..Len(t) /\ (s \o t)[p] = t[p - Len(s)]
  <2>1. p - Len(s) \in 1..Len(t) /\ ~(p <= Len(s)) /\ p \in 1..(Len(s) + Len(t))
    BY <1>1
  <2> QED
    BY <2>1
<1>3. \A p \in 1..Len(s) : (s \o t)[p] = s[p]
  OBVIOUS
<1> QED
  BY <1>1, <1>2, <1>3

LEMMA ListIsSequence ==
  ASSUME NEW T, NEW n \in Nat, NEW f \in [1..n -> T]
  PROVE  f \in Seq(T) /\ Len(f) = n /\ DOMAIN f = 1..n
OBVIOUS

LEMMA LeastNumber ==
  ASSUME NEW S \in SUBSET Nat, S # {}
  PROVE  \E n \in S : \A k \in S : n <= k
<1>1. PICK n \in S : \A k \in S : <<k, n>> \notin OpToRel(<, Nat)
  BY WFMin, NatLessThanWellFounded, Zenon
<1>2. ASSUME NEW k \in S
      PROVE  ~(k < n)
  BY <1>1, Zenon DEF OpToRel
<1>3. \A k \in S : n <= k
  BY <1>2
<1> QED
  BY <1>3

(* A set that has 0 and with each number the next one has all.             *)
LEMMA Induction ==
  ASSUME NEW S, 0 \in S, \A n \in Nat : n \in S => n + 1 \in S
  PROVE  Nat \subseteq S
<1> DEFINE R == Nat \ S
<1> SUFFICES ASSUME R # {}
             PROVE  FALSE
  OBVIOUS
<1>1. R \in SUBSET Nat
  OBVIOUS
<1> HIDE DEF R
<1>2. PICK n \in R : \A k \in R : n <= k
  BY <1>1, LeastNumber
<1>3. n \in Nat /\ n \notin S /\ n # 0
  BY DEF R
<1>4. n - 1 \in Nat /\ n - 1 \notin R
  BY <1>2, <1>3, <1>1
<1> QED
  BY <1>3, <1>4 DEF R

(* A set that has each of the first n numbers after which it has all.      *)
LEMMA DownwardInduction ==
  ASSUME NEW n \in Nat, NEW S,
         \A i \in 1..n : (\A j \in (i + 1)..n : j \in S) => i \in S
  PROVE  \A i \in 1..n : i \in S
<1> DEFINE R == {k \in Nat : k < n /\ n - k \notin S}
<1> SUFFICES ASSUME NEW i \in 1..n, i \notin S
             PROVE  FALSE
  OBVIOUS
<1>1. n - i \in R
  BY n - (n - i) = i
<1>2. R \in SUBSET Nat /\ R # {}
  BY <1>1
<1> HIDE DEF R
<1>3. PICK k \in R : \A l \in R : k <= l
  BY <1>2, LeastNumber
<1>4. k \in Nat /\ k < n /\ n - k \notin S
  BY <1>3 DEF R
<1>5. PICK j \in (n - k + 1)..n : j \notin S
  <2>1. n - k \in 1..n
    BY <1>4
  <2> QED
    BY <1>4, <2>1
<1>6. n - j \in Nat /\ n - j < n /\ n - (n - j) = j /\ n - j < k
  BY <1>4
<1>7. n - j \in R
  BY <1>5, <1>6 DEF R
<1> QED
  BY <1>3, <1>4, <1>6, <1>7

(* The largest element of a set of the first n numbers that has n.         *)
LEMMA MaxIsLast ==
  ASSUME NEW n \in Nat, NEW s \in SUBSET (1..n), n \in s
  PROVE  Max(s) = n
<1>1. \A y \in s : n >= y
  OBVIOUS
<1>2. \A x \in s : (\A y \in s : x >= y) => x = n
  OBVIOUS
<1> QED
  BY <1>1, <1>2 DEF Max

LEMMA MaxIsIn ==
  ASSUME NEW n \in Nat, NEW s \in SUBSET (1..n), s # {}
  PROVE  Max(s) \in s /\ \A y \in s : Max(s) >= y
<1> DEFINE R == {n - x : x \in s}
<1>0. \A x \in s : x \in Nat /\ n - x \in Nat
  OBVIOUS
<1>1. R \in SUBSET Nat /\ R # {}
  BY <1>0
<1> HIDE DEF R
<1>2. PICK y \in R : \A z \in R : y <= z
  BY <1>1, LeastNumber
<1>3. PICK x \in s : y = n - x
  BY DEF R
<1>4. ASSUME NEW z \in s
      PROVE  x >= z
  <2>1. n - z \in R
    BY DEF R
  <2>2. n - x <= n - z
    BY <1>2, <1>3, <2>1
  <2> QED
    BY <1>0, <2>2
<1> QED
  BY <1>4 DEF Max

(* A recursive function over the subsets of the first n numbers, from the  *)
(* largest down, exists for every step function F.                         *)
IsFold(g, n, base, F) ==
  \A s \in SUBSET (1..n) :
    g[s] = IF s = {} THEN base ELSE F[<<g[s \ {Max(s)}], Max(s)>>]

LEMMA FoldExists ==
  ASSUME NEW T, NEW base \in T, NEW n \in Nat, NEW F \in [T \X (1..n) -> T]
  PROVE  \E g \in [SUBSET (1..n) -> T] : IsFold(g, n, base, F)
<1> DEFINE P(k) == k <= n => \E g \in [SUBSET (1..k) -> T] : IsFold(g, k, base, F)
           S == {k \in Nat : P(k)}
<1>1. P(0)
  <2> DEFINE g == [s \in SUBSET (1..0) |-> base]
  <2>1. g \in [SUBSET (1..0) -> T]
    OBVIOUS
  <2>2. \A s \in SUBSET (1..0) : s = {}
    <3>1. 1..0 = {}
      OBVIOUS
    <3> QED
      BY <3>1
  <2>3. IsFold(g, 0, base, F)
    BY <2>2 DEF IsFold
  <2> HIDE DEF g
  <2> QED
    BY <2>1, <2>3
<1>2. ASSUME NEW k \in Nat, P(k)
      PROVE  P(k + 1)
  <2> SUFFICES ASSUME k + 1 <= n
               PROVE  \E h \in [SUBSET (1..k + 1) -> T] : IsFold(h, k + 1, base, F)
    BY Zenon
  <2>0. k <= n
    OBVIOUS
  <2>1. PICK g \in [SUBSET (1..k) -> T] : IsFold(g, k, base, F)
    BY <1>2, <2>0, Zenon
  <2> DEFINE h == [s \in SUBSET (1..k + 1) |->
                     IF k + 1 \in s THEN F[<<g[s \ {k + 1}], k + 1>>] ELSE g[s]]
  <2>2. ASSUME NEW s \in SUBSET (1..k + 1)
        PROVE  /\ s \ {k + 1} \in SUBSET (1..k)
               /\ k + 1 \notin s => s \in SUBSET (1..k) /\ s \ {Max(s)} \in SUBSET (1..k)
    <3>1. \A i \in 1..k + 1 : i # k + 1 => i \in 1..k
      OBVIOUS
    <3>2. s \ {k + 1} \in SUBSET (1..k)
      BY <3>1
    <3>3. k + 1 \notin s => s \in SUBSET (1..k)
      BY <3>1
    <3> QED
      BY <3>2, <3>3, Zenon
  <2>3. h \in [SUBSET (1..k + 1) -> T]
    <3> SUFFICES ASSUME NEW s \in SUBSET (1..k + 1)
                 PROVE  h[s] \in T
      OBVIOUS
    <3>1. CASE k + 1 \in s
      <4>1. g[s \ {k + 1}] \in T /\ k + 1 \in 1..n
        BY <2>2
      <4> QED
        BY <3>1, <4>1
    <3>2. CASE k + 1 \notin s
      BY <2>2, <3>2
    <3> QED
      BY <3>1, <3>2
  <2>4. ASSUME NEW s \in SUBSET (1..k + 1)
        PROVE  h[s] = IF s = {} THEN base ELSE F[<<h[s \ {Max(s)}], Max(s)>>]
    <3>1. CASE k + 1 \in s
      <4>1. Max(s) = k + 1
        BY <3>1, MaxIsLast
      <4>2. s \ {k + 1} \in SUBSET (1..k + 1) /\ k + 1 \notin s \ {k + 1}
        OBVIOUS
      <4>3. h[s \ {k + 1}] = g[s \ {k + 1}]
        BY <4>2
      <4>4. h[s] = F[<<g[s \ {k + 1}], k + 1>>]
        BY <3>1
      <4> HIDE DEF h
      <4> QED
        BY <3>1, <4>1, <4>3, <4>4
    <3>2. CASE k + 1 \notin s
      <4>1. s \in SUBSET (1..k) /\ s \ {Max(s)} \in SUBSET (1..k)
        BY <2>2, <3>2
      <4>2. g[s] = IF s = {} THEN base ELSE F[<<g[s \ {Max(s)}], Max(s)>>]
        BY <2>1, <4>1 DEF IsFold
      <4>3. s \ {Max(s)} \in SUBSET (1..k + 1) /\ k + 1 \notin s \ {Max(s)}
        BY <3>2
      <4>4. h[s] = g[s] /\ h[s \ {Max(s)}] = g[s \ {Max(s)}]
        BY <3>2, <4>3
      <4> HIDE DEF h
      <4> QED
        BY <4>2, <4>4
    <3> QED
      BY <3>1, <3>2
  <2>5. IsFold(h, k + 1, base, F)
    BY <2>4 DEF IsFold
  <2> HIDE DEF h
  <2> QED
    BY <2>3, <2>5
<1> HIDE DEF P
<1>3. 0 \in S /\ \A k \in Nat : k \in S => k + 1 \in S
  BY <1>1, <1>2
<1> HIDE DEF S
<1>4. n \in S
  BY <1>3, Induction
<1>5. P(n) /\ n <= n
  BY <1>4 DEF S
<1> QED
  BY <1>5, Zenon DEF P

(* Whatever follows that recursion stays in a set that every step keeps.   *)
LEMMA FoldStays ==
  ASSUME NEW T, NEW n \in Nat, NEW g, g[{}] \in T,
         \A s \in SUBSET (1..n) : s # {} /\ g[s \ {Max(s)}] \in T /\ Max(s) \in 1..n => g[s] \in T
  PROVE  g[1..n] \in T
<1> DEFINE S == {k \in Nat : k <= n => \A s \in SUBSET (1..k) : g[s] \in T}
<1>1. 0 \in S
  <2>1. 1..0 = {}
    OBVIOUS
  <2>2. \A s \in SUBSET (1..0) : s = {}
    BY <2>1
  <2> QED
    BY <2>2
<1>2. ASSUME NEW k \in Nat, k \in S
      PROVE  k + 1 \in S
  <2> SUFFICES ASSUME k + 1 <= n, NEW s \in SUBSET (1..k + 1)
               PROVE  g[s] \in T
    OBVIOUS
  <2>1. CASE k + 1 \in s
    <3>1. Max(s) = k + 1
      BY <2>1, MaxIsLast
    <3>2. s \ {k + 1} \in SUBSET (1..k)
      OBVIOUS
    <3>3. g[s \ {k + 1}] \in T
      BY <1>2, <3>2
    <3>4. s \in SUBSET (1..n) /\ k + 1 \in 1..n
      OBVIOUS
    <3> QED
      BY <2>1, <3>1, <3>3, <3>4
  <2>2. CASE k + 1 \notin s
    <3>1. s \in SUBSET (1..k)
      BY <2>2
    <3> QED
      BY <1>2, <3>1
  <2> QED
    BY <2>1, <2>2
<1> HIDE DEF S
<1>3. n \in S
  BY <1>1, <1>2, Induction
<1> QED
  BY <1>3 DEF S

-----------------------------------------------------------------------------
(* A sequence of sequences, flattened.                                     *)
IsFlat(f, seqs, n) ==
  \A i \in 1..n : f[i] = IF i = 1 THEN seqs[i] ELSE f[i - 1] \o seqs[i]

LEMMA FlatExists ==
  ASSUME NEW S, NEW seqs \in Seq(Seq(S))
  PROVE  \E f \in [1..Len(seqs) -> Seq(S)] : IsFlat(f, seqs, Len(seqs))
<1> DEFINE n == Len(seqs)
           P(k) == k <= n => \E f \in [1..k -> Seq(S)] : IsFlat(f, seqs, k)
           N == {k \in Nat : P(k)}
<1>0. n \in Nat /\ \A i \in 1..n : seqs[i] \in Seq(S)
  OBVIOUS
<1>1. P(0)
  <2> DEFINE f == [i \in 1..0 |-> <<>>]
  <2>1. f \in [1..0 -> Seq(S)] /\ IsFlat(f, seqs, 0)
    BY DEF IsFlat
  <2> HIDE DEF f
  <2> QED
    BY <2>1
<1>2. ASSUME NEW k \in Nat, P(k)
      PROVE  P(k + 1)
  <2> SUFFICES ASSUME k + 1 <= n
               PROVE  \E f \in [1..k + 1 -> Seq(S)] : IsFlat(f, seqs, k + 1)
    BY Zenon
  <2>0. k <= n /\ k + 1 \in 1..n
    BY <1>0
  <2>1. PICK f \in [1..k -> Seq(S)] : IsFlat(f, seqs, k)
    BY <1>2, <2>0, Zenon
  <2> DEFINE last == IF k = 0 THEN seqs[k + 1] ELSE f[k] \o seqs[k + 1]
             g == [i \in 1..k + 1 |-> IF i = k + 1 THEN last ELSE f[i]]
  <2>2. last \in Seq(S)
    <3>1. seqs[k + 1] \in Seq(S)
      BY <1>0, <2>0
    <3>2. CASE k = 0
      BY <3>1, <3>2
    <3>3. CASE k # 0
      <4>1. f[k] \in Seq(S)
        BY <3>3
      <4>2. f[k] \o seqs[k + 1] \in Seq(S)
        BY <3>1, <4>1
      <4> QED
        BY <3>3, <4>2
    <3> QED
      BY <3>2, <3>3
  <2> HIDE DEF last
  <2>3. g \in [1..k + 1 -> Seq(S)]
    <3>1. \A i \in 1..k + 1 : i # k + 1 => i \in 1..k
      OBVIOUS
    <3> QED
      BY <2>2, <3>1
  <2>4. ASSUME NEW i \in 1..k + 1
        PROVE  g[i] = IF i = 1 THEN seqs[i] ELSE g[i - 1] \o seqs[i]
    <3>1. CASE i = k + 1
      <4>1. k # 0 => k \in 1..k + 1 /\ k # k + 1 /\ g[k] = f[k]
        OBVIOUS
      <4>2. g[i] = last /\ i - 1 = k /\ (i = 1 <=> k = 0)
        BY <3>1
      <4> HIDE DEF g
      <4> QED
        BY <3>1, <4>1, <4>2 DEF last
    <3>2. CASE i # k + 1
      <4>1. i \in 1..k /\ (i # 1 => i - 1 \in 1..k)
        BY <3>2
      <4>2. f[i] = IF i = 1 THEN seqs[i] ELSE f[i - 1] \o seqs[i]
        BY <2>1, <4>1 DEF IsFlat
      <4>3. g[i] = f[i] /\ (i # 1 => g[i - 1] = f[i - 1])
        BY <3>2, <4>1
      <4> HIDE DEF g
      <4> QED
        BY <4>2, <4>3
    <3> QED
      BY <3>1, <3>2
  <2>5. IsFlat(g, seqs, k + 1)
    BY <2>4 DEF IsFlat
  <2> HIDE DEF g
  <2> QED
    BY <2>3, <2>5
<1> HIDE DEF P
<1>3. 0 \in N /\ \A k \in Nat : k \in N => k + 1 \in N
  BY <1>1, <1>2
<1> HIDE DEF N
<1>4. n \in N
  BY <1>0, <1>3, Induction
<1>5. P(n) /\ n <= n
  BY <1>0, <1>4 DEF N
<1> QED
  BY <1>5, Zenon DEF P

LEMMA FlatIsSequence ==
  ASSUME NEW S, NEW seqs \in Seq(Seq(S)), NEW f, Len(seqs) # 0, IsFlat(f, seqs, Len(seqs))
  PROVE  f[Len(seqs)] \in Seq(S)
<1> DEFINE n == Len(seqs)
           N == {k \in Nat : k <= n => k = 0 \/ f[k] \in Seq(S)}
<1>0. n \in Nat /\ n # 0 /\ \A i \in 1..n : seqs[i] \in Seq(S)
  OBVIOUS
<1>1. 0 \in N
  OBVIOUS
<1>2. ASSUME NEW k \in Nat, k \in N
      PROVE  k + 1 \in N
  <2> SUFFICES ASSUME k + 1 <= n
               PROVE  f[k + 1] \in Seq(S)
    OBVIOUS
  <2>1. k + 1 \in 1..n /\ k <= n /\ (k + 1) - 1 = k /\ (k + 1 = 1 <=> k = 0)
    BY <1>0
  <2>2. f[k + 1] = IF k = 0 THEN seqs[k + 1] ELSE f[k] \o seqs[k + 1]
    BY <2>1 DEF IsFlat
  <2>3. seqs[k + 1] \in Seq(S) /\ (k = 0 \/ f[k] \in Seq(S))
    BY <1>0, <1>2, <2>1
  <2> HIDE DEF N
  <2> QED
    BY <2>2, <2>3
<1> HIDE DEF N
<1>3. n \in N
  BY <1>0, <1>1, <1>2, Induction
<1> QED
  BY <1>0, <1>3 DEF N

LEMMA FlattenIsFlat ==
  ASSUME NEW S, NEW seqs \in Seq(Seq(S)), Len(seqs) # 0
  PROVE  \E f : IsFlat(f, seqs, Len(seqs)) /\ FlattenSeq(seqs) = f[Len(seqs)]
<1> DEFINE n == Len(seqs)
           Eq(f) == f = [i \in 1..n |-> IF i = 1 THEN seqs[i] ELSE f[i - 1] \o seqs[i]]
           flatten == CHOOSE f : Eq(f)
<1>0. n \in Nat /\ n \in 1..n
  OBVIOUS
<1>1. FlattenSeq(seqs) = flatten[n]
  BY DEF FlattenSeq
<1>2. PICK g \in [1..n -> Seq(S)] : IsFlat(g, seqs, n)
  BY FlatExists
<1> HIDE DEF n
<1>3. Eq(g)
  BY <1>2 DEF IsFlat
<1> HIDE DEF Eq
<1>4. Eq(flatten)
  BY <1>3
<1> HIDE DEF flatten
<1>5. IsFlat(flatten, seqs, n)
  BY <1>4 DEF IsFlat, Eq
<1> QED
  BY <1>1, <1>5 DEF n

LEMMA FlattenType ==
  ASSUME NEW S, NEW seqs \in Seq(Seq(S))
  PROVE  FlattenSeq(seqs) \in Seq(S)
<1>1. CASE Len(seqs) = 0
  <2>1. FlattenSeq(seqs) = seqs /\ seqs = <<>>
    BY <1>1 DEF FlattenSeq
  <2> QED
    BY <2>1
<1>2. CASE Len(seqs) # 0
  BY <1>2, FlattenIsFlat, FlatIsSequence
<1> QED
  BY <1>1, <1>2

-----------------------------------------------------------------------------
(* Flattening, element by element and in two parts.                        *)
LEMMA FlattenOne ==
  ASSUME NEW S, NEW s \in Seq(S)
  PROVE  FlattenSeq(<<s>>) = s
<1>1. <<s>> \in Seq(Seq(S)) /\ Len(<<s>>) = 1 /\ <<s>>[1] = s
  OBVIOUS
<1> DEFINE q == <<s>>
<1>2. q \in Seq(Seq(S)) /\ Len(q) = 1 /\ q[1] = s /\ Len(q) # 0
  BY <1>1
<1> HIDE DEF q
<1>3. PICK f : IsFlat(f, q, Len(q)) /\ FlattenSeq(q) = f[Len(q)]
  BY <1>2, FlattenIsFlat
<1>4. 1 \in 1..1
  OBVIOUS
<1> QED
  BY <1>2, <1>3, <1>4 DEF IsFlat, q

LEMMA FlattenNone == FlattenSeq(<<>>) = <<>>
BY DEF FlattenSeq

LEMMA FlattenAppend ==
  ASSUME NEW S, NEW seqs \in Seq(Seq(S)), NEW s \in Seq(S)
  PROVE  FlattenSeq(seqs \o <<s>>) = FlattenSeq(seqs) \o s
<1> DEFINE n == Len(seqs)
           more == seqs \o <<s>>
<1>1. /\ n \in Nat /\ more \in Seq(Seq(S)) /\ Len(more) = n + 1 /\ more[n + 1] = s
      /\ \A i \in 1..n : more[i] = seqs[i]
  <2>1. <<s>> \in Seq(Seq(S)) /\ Len(<<s>>) = 1 /\ <<s>>[1] = s /\ n \in Nat
    OBVIOUS
  <2>2. /\ more \in Seq(Seq(S)) /\ Len(more) = n + Len(<<s>>)
        /\ \A i \in 1..n + Len(<<s>>) : more[i] = IF i <= n THEN seqs[i] ELSE <<s>>[i - n]
    BY <2>1, ConcatProperties
  <2> DEFINE q == <<s>>
  <2>3. /\ Len(more) = n + Len(q) /\ Len(q) = 1 /\ q[1] = s
        /\ \A i \in 1..n + Len(q) : more[i] = IF i <= n THEN seqs[i] ELSE q[i - n]
    BY <2>1, <2>2
  <2> HIDE DEF more, q
  <2>4. Len(more) = n + 1 /\ \A i \in 1..n : more[i] = seqs[i]
    BY <2>1, <2>3
  <2>5. more[n + 1] = s
    <3>1. n + 1 \in 1..n + Len(q) /\ ~(n + 1 <= n) /\ (n + 1) - n = 1
      BY <2>1, <2>3
    <3> QED
      BY <2>3, <3>1
  <2> QED
    BY <2>1, <2>2, <2>4, <2>5
<1>2. CASE n = 0
  <2>1. seqs = <<>>
    BY <1>2
  <2>2. more = <<s>>
    BY <2>1
  <2>3. FlattenSeq(seqs) = <<>> /\ FlattenSeq(more) = s
    BY <2>1, <2>2, FlattenOne, FlattenNone
  <2>4. <<>> \o s = s
    BY ConcatEmptySeq
  <2> QED
    BY <2>3, <2>4
<1>3. CASE n # 0
  <2>1. PICK f : IsFlat(f, seqs, n) /\ FlattenSeq(seqs) = f[n]
    BY <1>3, FlattenIsFlat
  <2> HIDE DEF n, more
  <2>2. PICK g : IsFlat(g, more, n + 1) /\ FlattenSeq(more) = g[n + 1]
    <3>1. Len(more) # 0 /\ Len(more) = n + 1 /\ more \in Seq(Seq(S))
      BY <1>1
    <3>2. \E g : IsFlat(g, more, Len(more)) /\ FlattenSeq(more) = g[Len(more)]
      BY <3>1, FlattenIsFlat
    <3> QED
      BY <3>1, <3>2
  <2> DEFINE N == {k \in Nat : k # 0 /\ k <= n => f[k] = g[k]}
  <2>3. 0 \in N
    OBVIOUS
  <2>4. ASSUME NEW k \in Nat, k \in N
        PROVE  k + 1 \in N
    <3> SUFFICES ASSUME k + 1 <= n PROVE f[k + 1] = g[k + 1]
      OBVIOUS
    <3>1. k + 1 \in 1..n /\ k + 1 \in 1..n + 1 /\ (k + 1) - 1 = k /\ k <= n
      BY <1>1
    <3>2. /\ f[k + 1] = IF k + 1 = 1 THEN seqs[k + 1] ELSE f[k] \o seqs[k + 1]
          /\ g[k + 1] = IF k + 1 = 1 THEN more[k + 1] ELSE g[k] \o more[k + 1]
      BY <2>1, <2>2, <3>1 DEF IsFlat
    <3>3. more[k + 1] = seqs[k + 1] /\ (k + 1 # 1 => f[k] = g[k])
      BY <1>1, <2>4, <3>1
    <3> HIDE DEF N
    <3> QED
      BY <3>2, <3>3
  <2> HIDE DEF N
  <2>5. n \in N
    BY <1>1, <2>3, <2>4, Induction
  <2>6. f[n] = g[n]
    BY <1>1, <1>3, <2>5 DEF N
  <2>7. g[n + 1] = g[n] \o more[n + 1]
    <3>1. n + 1 \in 1..n + 1 /\ n + 1 # 1 /\ (n + 1) - 1 = n
      BY <1>1, <1>3
    <3> QED
      BY <2>2, <3>1 DEF IsFlat
  <2> QED
    BY <1>1, <2>1, <2>2, <2>6, <2>7 DEF more
<1> QED
  BY <1>2, <1>3

LEMMA FlattenConcat ==
  ASSUME NEW S, NEW a \in Seq(Seq(S)), NEW b \in Seq(Seq(S))
  PROVE  /\ FlattenSeq(a \o b) = FlattenSeq(a) \o FlattenSeq(b)
         /\ FlattenSeq(a) \in Seq(S) /\ FlattenSeq(b) \in Seq(S)
<1> DEFINE n == Len(b)
           P(k) == FlattenSeq(a \o SubSeq(b, 1, k)) = FlattenSeq(a) \o FlattenSeq(SubSeq(b, 1, k))
           N == {k \in Nat : k <= n => P(k)}
<1>1. n \in Nat /\ FlattenSeq(a) \in Seq(S)
  BY FlattenType
<1>2. 0 \in N
  <2>1. SubSeq(b, 1, 0) = <<>>
    BY SubSeqEmpty
  <2>2. a \o <<>> = a /\ FlattenSeq(a) \o <<>> = FlattenSeq(a)
    BY <1>1, ConcatEmptySeq
  <2>3. P(0)
    BY <2>1, <2>2, FlattenNone
  <2> HIDE DEF P
  <2> QED
    BY <2>3
<1>3. ASSUME NEW k \in Nat, k \in N
      PROVE  k + 1 \in N
  <2> SUFFICES ASSUME k + 1 <= n PROVE P(k + 1)
    OBVIOUS
  <2> DEFINE c == SubSeq(b, 1, k)
             d == SubSeq(b, 1, k + 1)
             s == b[k + 1]
  <2>1. k + 1 \in 1..n /\ (k + 1) - 1 = k /\ k <= n /\ 1 \in 1..n /\ k + 1 \in 1..n
    BY <1>1
  <2>2. d = c \o <<s>>
    BY <2>1, SubSeqRecursiveSecond
  <2>3. s \in Seq(S) /\ c \in Seq(Seq(S))
    <3>1. \A i \in 1..k : b[i] \in Seq(S)
      BY <2>1
    <3> QED
      BY <2>1, <3>1, SubSeqProperties
  <2>4. P(k)
    BY <1>3, <2>1
  <2>5. FlattenSeq(a \o c) = FlattenSeq(a) \o FlattenSeq(c)
    BY <2>4
  <2> HIDE DEF c, d, s, P
  <2>6. a \o c \in Seq(Seq(S)) /\ <<s>> \in Seq(Seq(S)) /\ FlattenSeq(c) \in Seq(S)
    <3>1. a \o c \in Seq(Seq(S))
      BY <2>3, ConcatProperties
    <3>2. <<s>> \in Seq(Seq(S))
      BY <2>3
    <3>3. FlattenSeq(c) \in Seq(S)
      BY <2>3, FlattenType
    <3> QED
      BY <3>1, <3>2, <3>3
  <2>7. a \o d = (a \o c) \o <<s>>
    <3>1. a \in Seq(Seq(S)) /\ c \in Seq(Seq(S)) /\ <<s>> \in Seq(Seq(S))
      BY <2>3, <2>6
    <3> DEFINE T == Seq(S)
               x == <<s>>
    <3>2. a \in Seq(T) /\ c \in Seq(T) /\ x \in Seq(T)
      BY <3>1
    <3> HIDE DEF T, x
    <3>3. (a \o c) \o x = a \o (c \o x)
      <4>1. IsAssociative(a, c, x)
        BY <3>2, Associative
      <4> QED
        BY <4>1 DEF IsAssociative
    <3> QED
      BY <2>2, <3>3 DEF x
  <2>8. FlattenSeq(a \o d) = FlattenSeq(a \o c) \o s
    BY <2>3, <2>6, <2>7, FlattenAppend
  <2>9. FlattenSeq(d) = FlattenSeq(c) \o s
    BY <2>2, <2>3, FlattenAppend
  <2>10. (FlattenSeq(a) \o FlattenSeq(c)) \o s = FlattenSeq(a) \o (FlattenSeq(c) \o s)
    <3> DEFINE x == FlattenSeq(a)
               y == FlattenSeq(c)
    <3>1. x \in Seq(S) /\ y \in Seq(S) /\ s \in Seq(S)
      BY <1>1, <2>3, <2>6
    <3> HIDE DEF x, y
    <3>2. (x \o y) \o s = x \o (y \o s)
      BY <3>1
    <3> QED
      BY <3>2 DEF x, y
  <2>11. FlattenSeq(a \o d) = FlattenSeq(a) \o FlattenSeq(d)
    BY <2>5, <2>8, <2>9, <2>10
  <2> QED
    BY <2>11 DEF P, d
<1> HIDE DEF P
<1>4. n \in N
  <2> HIDE DEF N
  <2> QED
    BY <1>1, <1>2, <1>3, Induction
<1>5. SubSeq(b, 1, n) = b
  BY SubSeqFull
<1>6. P(n)
  BY <1>1, <1>4
<1> QED
  BY <1>1, <1>5, <1>6, FlattenType DEF P

LEMMA FlattenFirst ==
  ASSUME NEW S, NEW s \in Seq(S), NEW seqs \in Seq(Seq(S))
  PROVE  FlattenSeq(<<s>> \o seqs) = s \o FlattenSeq(seqs)
<1> DEFINE q == <<s>>
<1>1. q \in Seq(Seq(S))
  OBVIOUS
<1>2. FlattenSeq(q) = s
  BY FlattenOne
<1> HIDE DEF q
<1>3. FlattenSeq(q \o seqs) = FlattenSeq(q) \o FlattenSeq(seqs)
  BY <1>1, FlattenConcat
<1> QED
  BY <1>2, <1>3 DEF q

LEMMA FlattenEmpty ==
  ASSUME NEW S, NEW seqs \in Seq(Seq(S)), \A i \in 1..Len(seqs) : seqs[i] = <<>>
  PROVE  FlattenSeq(seqs) = <<>>
<1> DEFINE n == Len(seqs)
           P(k) == FlattenSeq(SubSeq(seqs, 1, k)) = <<>>
           N == {k \in Nat : k <= n => P(k)}
<1>1. n \in Nat
  OBVIOUS
<1>2. 0 \in N
  <2>1. SubSeq(seqs, 1, 0) = <<>>
    BY SubSeqEmpty
  <2>2. P(0)
    BY <2>1, FlattenNone
  <2> HIDE DEF P
  <2> QED
    BY <2>2
<1>3. ASSUME NEW k \in Nat, k \in N
      PROVE  k + 1 \in N
  <2> SUFFICES ASSUME k + 1 <= n PROVE P(k + 1)
    OBVIOUS
  <2>1. k + 1 \in 1..n /\ (k + 1) - 1 = k /\ k <= n /\ 1 \in 1..n
    BY <1>1
  <2>2. SubSeq(seqs, 1, k + 1) = SubSeq(seqs, 1, k) \o <<seqs[k + 1]>>
    BY <2>1, SubSeqRecursiveSecond
  <2>3. SubSeq(seqs, 1, k) \in Seq(Seq(S)) /\ <<>> \in Seq(S)
    <3>1. \A i \in 1..k : seqs[i] \in Seq(S)
      BY <2>1
    <3> QED
      BY <2>1, <3>1, SubSeqProperties
  <2>4. FlattenSeq(SubSeq(seqs, 1, k)) = <<>> /\ seqs[k + 1] = <<>>
    BY <1>3, <2>1
  <2>5. FlattenSeq(SubSeq(seqs, 1, k) \o <<seqs[k + 1]>>) = FlattenSeq(SubSeq(seqs, 1, k)) \o <<>>
    BY <2>3, <2>4, FlattenAppend
  <2>6. <<>> \o <<>> = <<>>
    OBVIOUS
  <2> QED
    BY <2>2, <2>4, <2>5, <2>6
<1> HIDE DEF P
<1>4. n \in N
  <2> HIDE DEF N
  <2> QED
    BY <1>1, <1>2, <1>3, Induction
<1>5. SubSeq(seqs, 1, n) = seqs
  BY SubSeqFull
<1>6. P(n)
  BY <1>1, <1>4
<1> QED
  BY <1>5, <1>6 DEF P

-----------------------------------------------------------------------------
(***************************************************************************)
(* Several slices of a sequence replaced at once                           *)
(***************************************************************************)

(* From the place a up to but without the place b.                         *)
Slice(s, a, b) == SubSeq(s, a, b - 1)

IsSlice(r, s, a, b) ==
  /\ Len(r) = b - a
  /\ \A i \in 1..(b - a) : r[i] = s[(a + i) - 1]

LEMMA SliceProperties ==
  ASSUME NEW S, NEW s \in Seq(S), NEW a \in 1..(Len(s) + 1), NEW b \in a..(Len(s) + 1)
  PROVE  Slice(s, a, b) \in Seq(S) /\ IsSlice(Slice(s, a, b), s, a, b)
<1> DEFINE n == Len(s)
           r == SubSeq(s, a, b - 1)
<1>1. n \in Nat /\ \A i \in 1..n : s[i] \in S
  OBVIOUS
<1>2. a \in Int /\ b - 1 \in Int /\ a >= 1 /\ b - 1 <= n /\ a <= b
  BY <1>1
<1>3. \A i \in a..(b - 1) : s[i] \in S
  BY <1>1, <1>2
<1>4. /\ r \in Seq(S) /\ Len(r) = IF a <= b - 1 THEN (b - 1) - a + 1 ELSE 0
      /\ \A i \in 1..((b - 1) - a + 1) : r[i] = s[a + i - 1]
  BY <1>2, <1>3, SubSeqProperties
<1> HIDE DEF n, r
<1>5. (b - 1) - a + 1 = b - a
  BY <1>2
<1>6. Len(r) = b - a
  BY <1>2, <1>4
<1>7. ASSUME NEW i \in 1..(b - a)
      PROVE  r[i] = s[(a + i) - 1]
  <2>1. i \in 1..((b - 1) - a + 1) /\ a + i - 1 = (a + i) - 1
    BY <1>2
  <2> QED
    BY <1>4, <2>1
<1> QED
  BY <1>4, <1>6, <1>7 DEF r, Slice, IsSlice

LEMMA SliceNothing ==
  ASSUME NEW S, NEW s \in Seq(S), NEW a \in 1..(Len(s) + 1)
  PROVE  Slice(s, a, a) = <<>>
<1>1. a \in Int /\ a - 1 \in Int /\ a - 1 < a
  OBVIOUS
<1> QED
  BY <1>1, SubSeqEmpty DEF Slice

LEMMA SliceAll ==
  ASSUME NEW S, NEW s \in Seq(S)
  PROVE  Slice(s, 1, Len(s) + 1) = s
<1>1. (Len(s) + 1) - 1 = Len(s)
  OBVIOUS
<1> QED
  BY <1>1, SubSeqFull DEF Slice

LEMMA SliceOne ==
  ASSUME NEW S, NEW s \in Seq(S), NEW a \in 1..Len(s)
  PROVE  Slice(s, a, a + 1) = <<s[a]>>
<1>1. a \in 1..(Len(s) + 1) /\ a + 1 \in a..(Len(s) + 1) /\ (a + 1) - a = 1 /\ (a + 1) - 1 = a
  OBVIOUS
<1> DEFINE r == Slice(s, a, a + 1)
           q == <<s[a]>>
<1>2. r \in Seq(S) /\ Len(r) = (a + 1) - a /\ \A i \in 1..((a + 1) - a) : r[i] = s[(a + i) - 1]
  <2>1. r \in Seq(S) /\ IsSlice(r, s, a, a + 1)
    BY <1>1, SliceProperties
  <2> QED
    BY <2>1, Zenon DEF IsSlice
<1>3. q \in Seq(S) /\ Len(q) = 1 /\ q[1] = s[a]
  OBVIOUS
<1> HIDE DEF r, q
<1>4. 1 \in 1..1 /\ r[1] = s[(a + 1) - 1] /\ Len(r) = 1
  <2>1. 1 \in 1..1
    OBVIOUS
  <2>2. \A i \in 1..1 : r[i] = s[(a + i) - 1]
    BY <1>1, <1>2, Zenon
  <2> QED
    BY <1>1, <1>2, <2>1, <2>2, Zenon
<1>5. r[1] = q[1]
  BY <1>1, <1>3, <1>4
<1>6. \A i \in 1..1 : i = 1
  OBVIOUS
<1>7. r = q
  BY <1>2, <1>3, <1>4, <1>5, <1>6, SeqEqual
<1> QED
  BY <1>7 DEF r, q

LEMMA SlicesJoin ==
  ASSUME NEW S, NEW s \in Seq(S), NEW a \in 1..(Len(s) + 1), NEW b \in a..(Len(s) + 1),
         NEW c \in b..(Len(s) + 1)
  PROVE  Slice(s, a, b) \o Slice(s, b, c) = Slice(s, a, c)
<1>1. b - 1 \in (a - 1)..Len(s) /\ c - 1 \in (b - 1)..Len(s) /\ (b - 1) + 1 = b
  OBVIOUS
<1>2. SubSeq(s, a, b - 1) \o SubSeq(s, (b - 1) + 1, c - 1) = SubSeq(s, a, c - 1)
  BY <1>1, ConcatAdjacentSubSeq
<1> QED
  BY <1>1, <1>2 DEF Slice

LEMMA SliceOfFirst ==
  ASSUME NEW S, NEW s \in Seq(S), NEW t \in Seq(S), NEW a \in 1..(Len(s) + 1), NEW b \in a..(Len(s) + 1)
  PROVE  Slice(s \o t, a, b) = Slice(s, a, b)
<1> DEFINE n == Len(s)
           st == s \o t
           x == Slice(st, a, b)
           y == Slice(s, a, b)
<1>1. st \in Seq(S) /\ Len(st) = n + Len(t) /\ Len(t) \in Nat /\ n \in Nat
      /\ \A i \in 1..(n + Len(t)) : st[i] = IF i <= n THEN s[i] ELSE t[i - n]
  BY ConcatProperties
<1> HIDE DEF st
<1>2. a \in 1..(Len(st) + 1) /\ b \in a..(Len(st) + 1) /\ a \in Nat /\ b \in Nat /\ b <= n + 1 /\ 1 <= a
  BY <1>1
<1>3. x \in Seq(S) /\ Len(x) = b - a /\ \A i \in 1..(b - a) : x[i] = st[(a + i) - 1]
  <2>1. a \in 1..(Len(st) + 1) /\ b \in a..(Len(st) + 1) /\ st \in Seq(S)
    BY <1>1, <1>2
  <2>2. x \in Seq(S) /\ IsSlice(x, st, a, b)
    BY <2>1, SliceProperties
  <2> QED
    BY <2>2, Zenon DEF IsSlice
<1>4. y \in Seq(S) /\ Len(y) = b - a /\ \A i \in 1..(b - a) : y[i] = s[(a + i) - 1]
  <2>1. y \in Seq(S) /\ IsSlice(y, s, a, b)
    BY SliceProperties
  <2> QED
    BY <2>1, Zenon DEF IsSlice
<1> HIDE DEF x, y, n
<1>5. ASSUME NEW i \in 1..(b - a)
      PROVE  x[i] = y[i]
  <2>1. (a + i) - 1 \in 1..(n + Len(t)) /\ (a + i) - 1 <= n
    BY <1>1, <1>2
  <2>2. st[(a + i) - 1] = s[(a + i) - 1]
    BY <1>1, <2>1
  <2> QED
    BY <1>3, <1>4, <2>2
<1>6. x = y
  BY <1>3, <1>4, <1>5, SeqEqual
<1> QED
  BY <1>6 DEF x, y, st

(* To the end of what is appended.                                         *)
LEMMA SliceOverFirst ==
  ASSUME NEW S, NEW s \in Seq(S), NEW t \in Seq(S), NEW a \in 1..(Len(s) + 1)
  PROVE  Slice(s \o t, a, Len(s \o t) + 1) = Slice(s, a, Len(s) + 1) \o t
<1> DEFINE n == Len(s)
           m == Len(t)
           st == s \o t
           x == Slice(st, a, Len(st) + 1)
           u == Slice(s, a, n + 1)
           y == u \o t
<1>1. st \in Seq(S) /\ Len(st) = n + m /\ m \in Nat /\ n \in Nat
      /\ \A i \in 1..(n + m) : st[i] = IF i <= n THEN s[i] ELSE t[i - n]
  BY ConcatProperties
<1>2. u \in Seq(S) /\ Len(u) = (n + 1) - a /\ \A i \in 1..((n + 1) - a) : u[i] = s[(a + i) - 1]
  <2>1. n + 1 \in a..(n + 1)
    BY <1>1
  <2>2. u \in Seq(S) /\ IsSlice(u, s, a, n + 1)
    BY <2>1, SliceProperties
  <2> QED
    BY <2>2, Zenon DEF IsSlice
<1> HIDE DEF st, u
<1>3. a \in 1..(Len(st) + 1) /\ Len(st) + 1 \in a..(Len(st) + 1) /\ a \in Nat /\ a <= n + 1 /\ 1 <= a
  BY <1>1
<1>4. /\ x \in Seq(S) /\ Len(x) = (Len(st) + 1) - a
      /\ \A i \in 1..((Len(st) + 1) - a) : x[i] = st[(a + i) - 1]
  <2>1. a \in 1..(Len(st) + 1) /\ Len(st) + 1 \in a..(Len(st) + 1) /\ st \in Seq(S)
    BY <1>1, <1>3
  <2>2. x \in Seq(S) /\ IsSlice(x, st, a, Len(st) + 1)
    BY <2>1, SliceProperties
  <2> QED
    BY <2>2, Zenon DEF IsSlice
<1>5. /\ y \in Seq(S) /\ Len(y) = Len(u) + m
      /\ \A i \in 1..(Len(u) + m) : y[i] = IF i <= Len(u) THEN u[i] ELSE t[i - Len(u)]
  BY <1>2, ConcatProperties
<1> HIDE DEF x, y, n, m
<1>6. Len(x) = (n + m + 1) - a /\ Len(y) = Len(x)
  BY <1>1, <1>2, <1>3, <1>4, <1>5
<1>7. ASSUME NEW i \in 1..((n + m + 1) - a)
      PROVE  x[i] = y[i]
  <2>1. i \in 1..((Len(st) + 1) - a) /\ i \in 1..(Len(u) + m) /\ (a + i) - 1 \in 1..(n + m) /\ i \in Nat
    BY <1>1, <1>2, <1>3, <1>6
  <2>2. CASE i <= Len(u)
    <3>1. i \in 1..((n + 1) - a) /\ (a + i) - 1 <= n
      BY <1>1, <1>2, <1>3, <2>1, <2>2
    <3> QED
      BY <1>1, <1>2, <1>4, <1>5, <2>1, <2>2, <3>1
  <2>3. CASE ~(i <= Len(u))
    <3>1. ~((a + i) - 1 <= n) /\ ((a + i) - 1) - n = i - Len(u)
      BY <1>1, <1>2, <1>3, <2>1, <2>3
    <3> QED
      BY <1>1, <1>4, <1>5, <2>1, <2>3, <3>1
  <2> QED
    BY <2>2, <2>3
<1>8. x = y
  BY <1>4, <1>5, <1>6, <1>7, SeqEqual
<1> QED
  BY <1>8 DEF x, y, st, u, n

LEMMA FrontOfJoined ==
  ASSUME NEW S, NEW s \in Seq(S), NEW t \in Seq(S), t # <<>>
  PROVE  Front(s \o t) = s \o Front(t) /\ Front(t) \in Seq(S) /\ Len(Front(t)) = Len(t) - 1
<1> DEFINE n == Len(s)
           m == Len(t)
           st == s \o t
           f == Front(t)
           x == Front(st)
           y == s \o f
<1>1. st \in Seq(S) /\ Len(st) = n + m /\ m \in Nat /\ n \in Nat
      /\ \A i \in 1..(n + m) : st[i] = IF i <= n THEN s[i] ELSE t[i - n]
  BY ConcatProperties
<1>2. m >= 1
  <2>1. m # 0
    OBVIOUS
  <2> QED
    BY <1>1, <2>1
<1>3. f \in Seq(S) /\ Len(f) = m - 1 /\ \A i \in 1..(m - 1) : f[i] = t[i]
  <2>1. 1 \in 1..(m + 1) /\ m \in 1..(m + 1) /\ f = Slice(t, 1, m)
    BY <1>1, <1>2 DEF Front, Slice
  <2>2. \A i \in 1..(m - 1) : (1 + i) - 1 = i
    BY <1>1
  <2>3. f \in Seq(S) /\ Len(f) = m - 1 /\ \A i \in 1..(m - 1) : f[i] = t[(1 + i) - 1]
    <3>1. f \in Seq(S) /\ IsSlice(f, t, 1, m)
      BY <2>1, SliceProperties
    <3> QED
      BY <3>1, Zenon DEF IsSlice
  <2> QED
    BY <2>2, <2>3, Zenon
<1> HIDE DEF st, f
<1>4. x \in Seq(S) /\ Len(x) = (n + m) - 1 /\ \A i \in 1..((n + m) - 1) : x[i] = st[i]
  <2>1. 1 \in 1..(Len(st) + 1) /\ n + m \in 1..(Len(st) + 1) /\ x = Slice(st, 1, n + m)
    BY <1>1, <1>2 DEF Front, Slice
  <2>2. \A i \in 1..((n + m) - 1) : (1 + i) - 1 = i
    BY <1>1
  <2>3. x \in Seq(S) /\ Len(x) = (n + m) - 1 /\ \A i \in 1..((n + m) - 1) : x[i] = st[(1 + i) - 1]
    <3>1. x \in Seq(S) /\ IsSlice(x, st, 1, n + m)
      BY <1>1, <2>1, SliceProperties
    <3> QED
      BY <3>1, Zenon DEF IsSlice
  <2> QED
    BY <2>2, <2>3, Zenon
<1>5. /\ y \in Seq(S) /\ Len(y) = n + Len(f)
      /\ \A i \in 1..(n + Len(f)) : y[i] = IF i <= n THEN s[i] ELSE f[i - n]
  BY <1>3, ConcatProperties
<1> HIDE DEF x, y, n, m
<1>6. Len(y) = (n + m) - 1
  BY <1>1, <1>3, <1>5
<1>7. ASSUME NEW i \in 1..((n + m) - 1)
      PROVE  x[i] = y[i]
  <2>1. i \in 1..(n + m) /\ i \in 1..(n + Len(f)) /\ (~(i <= n) => i - n \in 1..(m - 1))
    BY <1>1, <1>3
  <2> QED
    BY <1>1, <1>3, <1>4, <1>5, <2>1
<1>8. x = y
  BY <1>4, <1>5, <1>6, <1>7, SeqEqual
<1> QED
  BY <1>3, <1>8 DEF x, y, st, f, m

LEMMA FrontOfLast ==
  ASSUME NEW S, NEW s \in Seq(S), NEW x \in S
  PROVE  Front(s \o <<x>>) = s
<1> DEFINE q == <<x>>
<1>1. q \in Seq(S) /\ q # <<>> /\ Len(q) = 1
  OBVIOUS
<1> HIDE DEF q
<1>2. Front(q) = <<>>
  <2>1. 1 \in Int /\ 0 \in Int /\ 0 < 1 /\ Len(q) - 1 = 0
    BY <1>1
  <2>2. SubSeq(q, 1, 0) = <<>>
    BY <2>1, SubSeqEmpty
  <2> QED
    BY <2>1, <2>2 DEF Front
<1>3. Front(s \o q) = s \o Front(q)
  BY <1>1, FrontOfJoined
<1> QED
  BY <1>2, <1>3, ConcatEmptySeq DEF q

(* A sequence of symbols, and for each of n chunks from where to where it  *)
(* takes symbols away and what it adds.  The reference for a set of them.  *)
IsReference(x, S) ==
  /\ x.flat \in Seq(S) /\ x.n \in Nat
  /\ x.starts \in [1..x.n -> 1..(Len(x.flat) + 1)]
  /\ x.ends \in [1..x.n -> 1..(Len(x.flat) + 1)]
  /\ \A i \in 1..x.n : x.starts[i] <= x.ends[i]
  /\ x.added \in [1..x.n -> Seq(S)]

InsertionsAt(x, K, o) ==
  [i \in 1..x.n |-> IF i \in K /\ x.starts[i] = o THEN x.added[i] ELSE <<>>]

Remains(x, K, o) ==
  o <= Len(x.flat) /\ \A i \in K : o \notin x.starts[i] .. x.ends[i] - 1

Piece(x, K, o) ==
  FlattenSeq(InsertionsAt(x, K, o)) \o (IF Remains(x, K, o) THEN <<x.flat[o]>> ELSE <<>>)

From(x, K, o) == FlattenSeq([j \in 1..((Len(x.flat) + 2) - o) |-> Piece(x, K, (o - 1) + j)])

LEMMA InsertionsAreLists ==
  ASSUME NEW S, NEW x, IsReference(x, S), NEW K, NEW o
  PROVE  /\ InsertionsAt(x, K, o) \in Seq(Seq(S)) /\ Len(InsertionsAt(x, K, o)) = x.n
         /\ \A i \in 1..x.n : InsertionsAt(x, K, o)[i] =
              IF i \in K /\ x.starts[i] = o THEN x.added[i] ELSE <<>>
         /\ FlattenSeq(InsertionsAt(x, K, o)) \in Seq(S)
<1> DEFINE f == InsertionsAt(x, K, o)
           n == x.n
           a == x.added
           T == Seq(S)
<1>1. n \in Nat /\ a \in [1..n -> T] /\ <<>> \in T
  BY DEF IsReference
<1> HIDE DEF n, a, T
<1>2. f = [i \in 1..n |-> IF i \in K /\ x.starts[i] = o THEN a[i] ELSE <<>>]
  BY DEF InsertionsAt, n, a
<1>3. f \in [1..n -> T] /\ \A i \in 1..n : f[i] = IF i \in K /\ x.starts[i] = o THEN a[i] ELSE <<>>
  <2>1. \A i \in 1..n : (IF i \in K /\ x.starts[i] = o THEN a[i] ELSE <<>>) \in T
    BY <1>1
  <2> HIDE DEF f
  <2> QED
    BY <1>2, <2>1
<1> HIDE DEF f
<1>4. f \in Seq(T) /\ Len(f) = n
  BY <1>1, <1>3
<1>5. FlattenSeq(f) \in Seq(S)
  BY <1>4, FlattenType DEF T
<1> QED
  BY <1>3, <1>4, <1>5 DEF f, T, n, a

LEMMA NothingInserted ==
  ASSUME NEW S, NEW x, IsReference(x, S), NEW K, NEW o, \A i \in K : x.starts[i] # o
  PROVE  FlattenSeq(InsertionsAt(x, K, o)) = <<>>
<1> DEFINE f == InsertionsAt(x, K, o)
<1>1. f \in Seq(Seq(S)) /\ Len(f) = x.n
      /\ \A i \in 1..x.n : f[i] = IF i \in K /\ x.starts[i] = o THEN x.added[i] ELSE <<>>
  BY InsertionsAreLists
<1> HIDE DEF f
<1>2. \A i \in 1..Len(f) : f[i] = <<>>
  BY <1>1
<1>3. FlattenSeq(f) = <<>>
  BY <1>1, <1>2, FlattenEmpty
<1> QED
  BY <1>3 DEF f

LEMMA SameInserted ==
  ASSUME NEW x, NEW K, NEW i, NEW o, x.starts[i] # o
  PROVE  InsertionsAt(x, K \union {i}, o) = InsertionsAt(x, K, o)
<1>1. \A j \in 1..x.n : (j \in K \union {i} /\ x.starts[j] = o) <=> (j \in K /\ x.starts[j] = o)
  OBVIOUS
<1> QED
  BY <1>1 DEF InsertionsAt

(* A list of lists, before, at and behind a place.                         *)
LEMMA FlattenAround ==
  ASSUME NEW S, NEW f \in Seq(Seq(S)), NEW i \in 1..Len(f), \A j \in 1..(i - 1) : f[j] = <<>>
  PROVE  /\ SubSeq(f, i + 1, Len(f)) \in Seq(Seq(S)) /\ f[i] \in Seq(S)
         /\ FlattenSeq(f) = f[i] \o FlattenSeq(SubSeq(f, i + 1, Len(f)))
<1> DEFINE T == Seq(S)
           n == Len(f)
           a == SubSeq(f, 1, i - 1)
           b == SubSeq(f, i + 1, n)
           q == <<f[i]>>
<1>1. f \in Seq(T) /\ n \in Nat /\ i \in Nat /\ 1 <= i /\ i <= n
  OBVIOUS
<1>2. f[i] \in T /\ q \in Seq(T)
  OBVIOUS
<1> HIDE DEF T, q
<1>3. a \in Seq(T) /\ IsSlice(a, f, 1, i) /\ a = Slice(f, 1, i)
  <2>1. 1 \in 1..(Len(f) + 1) /\ i \in 1..(Len(f) + 1)
    BY <1>1
  <2>2. a = Slice(f, 1, i)
    BY DEF Slice
  <2> QED
    BY <1>1, <2>1, <2>2, SliceProperties
<1>4. b \in Seq(T) /\ b = Slice(f, i + 1, n + 1)
  <2>1. i + 1 \in 1..(Len(f) + 1) /\ n + 1 \in (i + 1)..(Len(f) + 1) /\ (n + 1) - 1 = n
    BY <1>1
  <2>2. b = Slice(f, i + 1, n + 1)
    BY <2>1 DEF Slice
  <2> QED
    BY <1>1, <2>1, <2>2, SliceProperties
<1>5. f = (a \o q) \o b
  <2>1. SubSeq(f, 1, i) = a \o q
    <3>1. 1 \in 1..Len(f) /\ i \in 1..Len(f)
      BY <1>1
    <3> QED
      BY <1>1, <3>1, SubSeqRecursiveSecond DEF q
  <2>2. SubSeq(f, 1, i) \o b = SubSeq(f, 1, n)
    <3>1. 1 \in 1..(Len(f) + 1) /\ i \in (1 - 1)..Len(f) /\ n \in i..Len(f)
      BY <1>1
    <3> QED
      BY <1>1, <3>1, ConcatAdjacentSubSeq
  <2>3. SubSeq(f, 1, n) = f
    BY <1>1, SubSeqFull
  <2> QED
    BY <2>1, <2>2, <2>3
<1>6. FlattenSeq(a) = <<>>
  <2>1. \A j \in 1..Len(a) : a[j] = <<>>
    <3>1. Len(a) = i - 1 /\ \A j \in 1..(i - 1) : a[j] = f[(1 + j) - 1]
      BY <1>3 DEF IsSlice
    <3>2. \A j \in 1..(i - 1) : (1 + j) - 1 = j
      BY <1>1
    <3> HIDE DEF a
    <3> QED
      BY <3>1, <3>2
  <2> HIDE DEF a
  <2> QED
    BY <1>3, <2>1, FlattenEmpty DEF T
<1> HIDE DEF a, b
<1>7. FlattenSeq((a \o q) \o b) = (FlattenSeq(a) \o FlattenSeq(q)) \o FlattenSeq(b)
  <2>1. a \o q \in Seq(T)
    BY <1>2, <1>3, ConcatProperties
  <2>2. FlattenSeq(a \o q) = FlattenSeq(a) \o FlattenSeq(q)
    BY <1>2, <1>3, FlattenConcat DEF T
  <2> DEFINE aq == a \o q
  <2> HIDE DEF aq
  <2>3. FlattenSeq(aq \o b) = FlattenSeq(aq) \o FlattenSeq(b)
    BY <1>4, <2>1, FlattenConcat DEF T, aq
  <2> QED
    BY <2>2, <2>3 DEF aq
<1>8. FlattenSeq(q) = f[i]
  BY <1>2, FlattenOne DEF q, T
<1>9. <<>> \o f[i] = f[i]
  BY <1>2, ConcatEmptySeq DEF T
<1> QED
  BY <1>2, <1>4, <1>5, <1>6, <1>7, <1>8, <1>9 DEF b, T

LEMMA OneMoreInserted ==
  ASSUME NEW S, NEW x, IsReference(x, S), NEW K, NEW i \in 1..x.n, i \notin K,
         \A j \in K : x.starts[j] = x.starts[i] => i < j
  PROVE  FlattenSeq(InsertionsAt(x, K \union {i}, x.starts[i])) =
           x.added[i] \o FlattenSeq(InsertionsAt(x, K, x.starts[i]))
<1> DEFINE o == x.starts[i]
           n == x.n
           f == InsertionsAt(x, K \union {i}, o)
           g == InsertionsAt(x, K, o)
<1>1. /\ f \in Seq(Seq(S)) /\ Len(f) = n
      /\ \A j \in 1..n : f[j] = IF j \in K \union {i} /\ x.starts[j] = o THEN x.added[j] ELSE <<>>
  BY InsertionsAreLists
<1>2. /\ g \in Seq(Seq(S)) /\ Len(g) = n
      /\ \A j \in 1..n : g[j] = IF j \in K /\ x.starts[j] = o THEN x.added[j] ELSE <<>>
  BY InsertionsAreLists, SMTT(40)
<1>3. n \in Nat /\ i \in 1..n
  BY DEF IsReference
<1> HIDE DEF f, g, n
<1>4. \A j \in 1..(i - 1) : j \in 1..n /\ ~(i < j) /\ j # i
  BY <1>3
<1>5. \A j \in 1..(i - 1) : f[j] = <<>> /\ g[j] = <<>>
  BY <1>1, <1>2, <1>4
<1>6. f[i] = x.added[i] /\ g[i] = <<>>
  BY <1>1, <1>2, <1>3
<1> DEFINE a == SubSeq(f, i + 1, n)
           b == SubSeq(g, i + 1, n)
<1>7. FlattenSeq(f) = x.added[i] \o FlattenSeq(a)
  <2>1. i \in 1..Len(f)
    BY <1>1, <1>3
  <2>2. FlattenSeq(f) = f[i] \o FlattenSeq(SubSeq(f, i + 1, Len(f)))
    BY <1>1, <1>5, <2>1, FlattenAround
  <2> QED
    BY <1>1, <1>6, <2>2
<1>8. FlattenSeq(g) = FlattenSeq(b)
  <2>1. i \in 1..Len(g)
    BY <1>2, <1>3
  <2>2. /\ FlattenSeq(g) = g[i] \o FlattenSeq(SubSeq(g, i + 1, Len(g)))
        /\ SubSeq(g, i + 1, Len(g)) \in Seq(Seq(S))
    BY <1>2, <1>5, <2>1, FlattenAround
  <2>3. FlattenSeq(g) = <<>> \o FlattenSeq(b) /\ b \in Seq(Seq(S))
    BY <1>2, <1>6, <2>2
  <2> HIDE DEF b
  <2>4. FlattenSeq(b) \in Seq(S)
    BY <2>3, FlattenType
  <2> QED
    BY <2>3, <2>4, ConcatEmptySeq
<1>9. a = b
  <2> DEFINE T == Seq(S)
  <2>1. f \in Seq(T) /\ g \in Seq(T)
    BY <1>1, <1>2
  <2>2. i + 1 \in Int /\ n \in Int /\ i + 1 >= 1
    BY <1>3
  <2>3. \A j \in (i + 1)..n : j \in 1..n /\ j # i /\ f[j] \in T /\ g[j] \in T
    BY <1>1, <1>2, <1>3, SMTT(40)
  <2>4. \A j \in (i + 1)..n : f[j] = g[j]
    BY <1>1, <1>2, <2>3
  <2> HIDE DEF T
  <2>5. /\ a \in Seq(T) /\ Len(a) = IF i + 1 <= n THEN n - (i + 1) + 1 ELSE 0
        /\ \A j \in 1..(n - (i + 1) + 1) : a[j] = f[i + 1 + j - 1]
    BY <2>2, <2>3, SubSeqProperties
  <2>6. /\ b \in Seq(T) /\ Len(b) = IF i + 1 <= n THEN n - (i + 1) + 1 ELSE 0
        /\ \A j \in 1..(n - (i + 1) + 1) : b[j] = g[i + 1 + j - 1]
    BY <2>2, <2>3, SubSeqProperties
  <2> HIDE DEF a, b
  <2>7. \A j \in 1..Len(a) : j \in 1..(n - (i + 1) + 1) /\ i + 1 + j - 1 \in (i + 1)..n
    BY <1>3, <2>5
  <2>8. \A j \in 1..Len(a) : a[j] = b[j]
    BY <2>4, <2>5, <2>6, <2>7
  <2> QED
    BY <2>5, <2>6, <2>8, SeqEqual
<1> QED
  BY <1>7, <1>8, <1>9 DEF f, g

LEMMA PieceIsText ==
  ASSUME NEW S, NEW x, IsReference(x, S), NEW K, NEW o \in 1..(Len(x.flat) + 1)
  PROVE  Piece(x, K, o) \in Seq(S)
<1> DEFINE c == FlattenSeq(InsertionsAt(x, K, o))
           r == IF Remains(x, K, o) THEN <<x.flat[o]>> ELSE <<>>
<1>1. c \in Seq(S)
  BY InsertionsAreLists
<1>2. r \in Seq(S)
  <2>1. CASE Remains(x, K, o)
    <3>1. o \in 1..Len(x.flat) /\ x.flat \in Seq(S)
      BY <2>1 DEF Remains, IsReference
    <3>2. x.flat[o] \in S
      BY <3>1
    <3> QED
      BY <2>1, <3>2
  <2>2. CASE ~Remains(x, K, o)
    BY <2>2
  <2> QED
    BY <2>1, <2>2
<1> HIDE DEF c, r
<1>3. c \o r \in Seq(S)
  BY <1>1, <1>2, ConcatProperties
<1> QED
  BY <1>3 DEF c, r, Piece

LEMMA FromIsText ==
  ASSUME NEW S, NEW x, IsReference(x, S), NEW K, NEW o \in 1..(Len(x.flat) + 2)
  PROVE  From(x, K, o) \in Seq(S) /\ Len(From(x, K, o)) \in Nat
<1> DEFINE m == (Len(x.flat) + 2) - o
           p == [j \in 1..m |-> Piece(x, K, (o - 1) + j)]
           T == Seq(S)
<1>1. Len(x.flat) \in Nat
  BY DEF IsReference
<1>2. m \in Nat /\ \A j \in 1..m : (o - 1) + j \in 1..(Len(x.flat) + 1)
  BY <1>1
<1>3. \A j \in 1..m : Piece(x, K, (o - 1) + j) \in T
  BY <1>2, PieceIsText
<1> HIDE DEF T, m
<1>4. p \in [1..m -> T]
  BY <1>3
<1> HIDE DEF p
<1>5. p \in Seq(T)
  BY <1>2, <1>4
<1>6. FlattenSeq(p) \in Seq(S)
  BY <1>5, FlattenType DEF T
<1> QED
  BY <1>6 DEF From, p, m

LEMMA FromEnd ==
  ASSUME NEW S, NEW x, IsReference(x, S), NEW K
  PROVE  From(x, K, Len(x.flat) + 2) = <<>>
<1> DEFINE m == (Len(x.flat) + 2) - (Len(x.flat) + 2)
           p == [j \in 1..m |-> Piece(x, K, ((Len(x.flat) + 2) - 1) + j)]
<1>1. Len(x.flat) \in Nat
  BY DEF IsReference
<1>2. m = 0
  BY <1>1
<1>3. 1..m = {}
  BY <1>2
<1> HIDE DEF m
<1>4. p = <<>>
  BY <1>3
<1> QED
  BY <1>4, FlattenNone DEF From, p, m

LEMMA FromStep ==
  ASSUME NEW S, NEW x, IsReference(x, S), NEW K, NEW o \in 1..(Len(x.flat) + 1)
  PROVE  From(x, K, o) = Piece(x, K, o) \o From(x, K, o + 1)
<1> DEFINE L == Len(x.flat)
           m == (L + 2) - o
           k == (L + 2) - (o + 1)
           P(i) == Piece(x, K, i)
           p == [j \in 1..m |-> P((o - 1) + j)]
           q == [j \in 1..k |-> P(((o + 1) - 1) + j)]
           h == <<P(o)>>
           T == Seq(S)
<1>1. L \in Nat
  BY DEF IsReference
<1>2. \A i \in 1..(L + 1) : P(i) \in T
  BY PieceIsText
<1>3. From(x, K, o) = FlattenSeq(p) /\ From(x, K, o + 1) = FlattenSeq(q)
  BY DEF From
<1> HIDE DEF L, P, T
<1>0. o \in 1..(L + 1)
  BY DEF L
<1>4. /\ m \in Nat /\ k \in Nat /\ m = k + 1 /\ o \in Nat /\ o >= 1
      /\ \A j \in 1..m : (o - 1) + j \in 1..(L + 1)
      /\ \A j \in 1..k : ((o + 1) - 1) + j \in 1..(L + 1)
      /\ \A j \in 1..k : ((o + 1) - 1) + j = o + j
  BY <1>0, <1>1
<1> HIDE DEF m, k
<1>5. p \in [1..m -> T] /\ \A j \in 1..m : p[j] = P((o - 1) + j)
  BY <1>2, <1>4
<1>6. q \in [1..k -> T] /\ \A j \in 1..k : q[j] = P(((o + 1) - 1) + j)
  BY <1>2, <1>4
<1> HIDE DEF p, q
<1>7. p \in Seq(T) /\ Len(p) = m /\ q \in Seq(T) /\ Len(q) = k
  BY <1>4, <1>5, <1>6
<1>8. P(o) \in T
  BY <1>0, <1>2
<1>9. h \in Seq(T) /\ Len(h) = 1 /\ h[1] = P(o)
  BY <1>8
<1> HIDE DEF h
<1>10. p = h \o q
  <2>1. /\ h \o q \in Seq(T) /\ Len(h \o q) = Len(h) + Len(q)
        /\ \A j \in 1..(Len(h) + Len(q)) : (h \o q)[j] = IF j <= Len(h) THEN h[j] ELSE q[j - Len(h)]
    BY <1>7, <1>9, ConcatProperties
  <2> DEFINE r == h \o q
  <2> HIDE DEF r
  <2>2. r \in Seq(T) /\ Len(r) = m /\ \A j \in 1..m : r[j] = IF j <= 1 THEN h[j] ELSE q[j - 1]
    <3>1. Len(h) = 1 /\ Len(q) = k /\ 1 + k = m
      BY <1>4, <1>7, <1>9
    <3> QED
      BY <2>1, <3>1 DEF r
  <2>3. ASSUME NEW j \in 1..m
        PROVE  p[j] = r[j]
    <3>1. CASE j = 1
      <4>1. (o - 1) + 1 = o /\ 1 <= 1
        BY <1>4
      <4> QED
        BY <1>5, <1>9, <2>2, <3>1, <4>1
    <3>2. CASE j # 1
      <4>1. j - 1 \in 1..k /\ ~(j <= 1) /\ o + (j - 1) = (o - 1) + j
        BY <1>4, <3>2
      <4>2. q[j - 1] = P(((o + 1) - 1) + (j - 1)) /\ ((o + 1) - 1) + (j - 1) = o + (j - 1)
        BY <1>4, <1>6, <4>1
      <4> QED
        BY <1>5, <2>2, <4>1, <4>2
    <3> QED
      BY <3>1, <3>2
  <2>4. p = r
    BY <1>7, <2>2, <2>3, SeqEqual
  <2> QED
    BY <2>4 DEF r
<1>11. FlattenSeq(h \o q) = P(o) \o FlattenSeq(q)
  BY <1>7, <1>8, FlattenFirst DEF T, h
<1> QED
  BY <1>3, <1>10, <1>11 DEF P

LEMMA FromSame ==
  ASSUME NEW S, NEW x, IsReference(x, S), NEW K, NEW M, NEW o \in 1..(Len(x.flat) + 2),
         \A i \in o..(Len(x.flat) + 1) : Piece(x, K, i) = Piece(x, M, i)
  PROVE  From(x, K, o) = From(x, M, o)
<1> DEFINE m == (Len(x.flat) + 2) - o
<1>1. Len(x.flat) \in Nat
  BY DEF IsReference
<1>2. \A j \in 1..m : (o - 1) + j \in o..(Len(x.flat) + 1)
  BY <1>1
<1>3. \A j \in 1..m : Piece(x, K, (o - 1) + j) = Piece(x, M, (o - 1) + j)
  BY <1>2
<1> HIDE DEF m
<1>4. [j \in 1..m |-> Piece(x, K, (o - 1) + j)] = [j \in 1..m |-> Piece(x, M, (o - 1) + j)]
  BY <1>3
<1> QED
  BY <1>4, Zenon DEF From, m

(* Where no chunk of the set begins before b, all is as it was.            *)
LEMMA FromUntouched ==
  ASSUME NEW S, NEW x, IsReference(x, S), NEW K, NEW b \in 1..(Len(x.flat) + 1),
         \A i \in K : x.starts[i] \in Nat /\ x.starts[i] >= b
  PROVE  \A a \in 1..b : From(x, K, a) = Slice(x.flat, a, b) \o From(x, K, b)
<1> DEFINE F == x.flat
           A == {a \in 1..b : From(x, K, a) = Slice(F, a, b) \o From(x, K, b)}
<1>1. F \in Seq(S) /\ Len(F) \in Nat
  BY DEF IsReference
<1>2. b \in Nat /\ b \in 1..(Len(F) + 1)
  BY <1>1
<1>3. From(x, K, b) \in Seq(S)
  <2>1. b \in 1..(Len(x.flat) + 2)
    BY <1>1
  <2> QED
    BY <2>1, FromIsText
<1>4. ASSUME NEW a \in 1..b, \A j \in (a + 1)..b : j \in A
      PROVE  a \in A
  <2>1. CASE a = b
    <3>1. Slice(F, b, b) = <<>>
      BY <1>1, <1>2, SliceNothing
    <3>2. <<>> \o From(x, K, b) = From(x, K, b)
      BY <1>3, ConcatEmptySeq
    <3> QED
      BY <2>1, <3>1, <3>2
  <2>2. CASE a # b
    <3>1. a + 1 \in (a + 1)..b /\ a \in 1..(Len(F) + 1) /\ a \in 1..Len(F) /\ a < b /\ a + 1 \in a..(Len(F) + 1)
          /\ b \in (a + 1)..(Len(F) + 1) /\ a \in Nat
      BY <1>1, <1>2, <2>2
    <3>2. From(x, K, a + 1) = Slice(F, a + 1, b) \o From(x, K, b)
      BY <1>4, <3>1
    <3>3. From(x, K, a) = Piece(x, K, a) \o From(x, K, a + 1)
      BY <3>1, FromStep
    <3>4. Piece(x, K, a) = <<F[a]>>
      <4>1. \A i \in K : x.starts[i] # a
        BY <1>2, <3>1
      <4>2. FlattenSeq(InsertionsAt(x, K, a)) = <<>>
        BY <4>1, NothingInserted
      <4>3. Remains(x, K, a)
        <5>1. a <= Len(x.flat)
          BY <1>1, <3>1
        <5>2. \A i \in K : ~(x.starts[i] <= a)
          BY <1>2, <3>1
        <5>3. \A i \in K : a \notin x.starts[i] .. x.ends[i] - 1
          BY <5>2
        <5> QED
          BY <5>1, <5>3 DEF Remains
      <4>4. F[a] \in S
        BY <1>1, <3>1
      <4>5. <<F[a]>> \in Seq(S)
        BY <4>4
      <4>6. <<>> \o <<F[a]>> = <<F[a]>>
        BY <4>5, ConcatEmptySeq
      <4> QED
        BY <4>2, <4>3, <4>6 DEF Piece
    <3>5. <<F[a]>> = Slice(F, a, a + 1)
      BY <1>1, <3>1, SliceOne
    <3> DEFINE u == Slice(F, a, a + 1)
               v == Slice(F, a + 1, b)
               w == From(x, K, b)
    <3>6. u \in Seq(S) /\ v \in Seq(S) /\ u \o v = Slice(F, a, b)
      <4>1. a + 1 \in 1..(Len(F) + 1)
        BY <3>1
      <4>2. u \in Seq(S)
        BY <1>1, <3>1, SliceProperties
      <4>3. v \in Seq(S)
        BY <1>1, <3>1, <4>1, SliceProperties
      <4>4. u \o v = Slice(F, a, b)
        BY <1>1, <3>1, SlicesJoin
      <4> QED
        BY <4>2, <4>3, <4>4
    <3>7. From(x, K, a) = u \o (v \o w)
      BY <3>2, <3>3, <3>4, <3>5
    <3>8. w \in Seq(S)
      BY <1>3
    <3> HIDE DEF u, v, w
    <3>9. u \o (v \o w) = (u \o v) \o w
      <4>1. u \in Seq(S) /\ v \in Seq(S)
        BY <3>6
      <4> QED
        <5>1. IsAssociative(u, v, w)
          BY <3>8, <4>1, Associative
        <5> QED
          BY <5>1 DEF IsAssociative
    <3> QED
      BY <3>6, <3>7, <3>9 DEF w
  <2> QED
    BY <2>1, <2>2
<1> HIDE DEF A
<1>5. \A a \in 1..b : a \in A
  BY <1>2, <1>4, DownwardInduction
<1> QED
  BY <1>5 DEF A

(* What a chunk takes away, except for what it adds.                       *)
LEMMA FromTaken ==
  ASSUME NEW S, NEW x, IsReference(x, S), NEW K, NEW i \in K, i \in 1..x.n,
         \A j \in K : x.starts[j] \in Nat /\ (x.starts[j] > x.starts[i] => x.starts[j] >= x.ends[i])
  PROVE  \A a \in (x.starts[i] + 1)..x.ends[i] : From(x, K, a) = From(x, K, x.ends[i])
<1> DEFINE s == x.starts[i]
           e == x.ends[i]
           A == {a \in 1..e : s < a => From(x, K, a) = From(x, K, e)}
<1>1. Len(x.flat) \in Nat /\ s \in 1..(Len(x.flat) + 1) /\ e \in 1..(Len(x.flat) + 1)
  BY DEF IsReference
<1> HIDE DEF s, e
<1>2. s \in Nat /\ e \in Nat /\ s >= 1
  BY <1>1
<1>3. ASSUME NEW a \in 1..e, \A j \in (a + 1)..e : j \in A
      PROVE  a \in A
  <2> SUFFICES ASSUME s < a, a # e
               PROVE  From(x, K, a) = From(x, K, e)
    OBVIOUS
  <2>1. a + 1 \in (a + 1)..e /\ s < a + 1 /\ a \in 1..(Len(x.flat) + 1) /\ a + 1 \in 1..(Len(x.flat) + 2) /\ a \in Nat
        /\ a < e
    BY <1>1, <1>2
  <2>2. From(x, K, a + 1) = From(x, K, e)
    BY <1>3, <2>1
  <2>3. From(x, K, a) = Piece(x, K, a) \o From(x, K, a + 1)
    BY <2>1, FromStep
  <2>4. Piece(x, K, a) = <<>>
    <3>1. \A j \in K : x.starts[j] # a
      <4> SUFFICES ASSUME NEW j \in K, x.starts[j] = a PROVE FALSE
        OBVIOUS
      <4>1. a >= e
        BY DEF s, e
      <4> QED
        BY <1>2, <2>1, <4>1
    <3>2. FlattenSeq(InsertionsAt(x, K, a)) = <<>>
      BY <3>1, NothingInserted
    <3>3. ~Remains(x, K, a)
      <4>1. a \in s..(e - 1)
        BY <1>2, <2>1
      <4> QED
        BY <4>1 DEF Remains, s, e
    <3>4. <<>> \o <<>> = <<>>
      OBVIOUS
    <3> QED
      BY <3>2, <3>3, <3>4 DEF Piece
  <2>5. From(x, K, a + 1) \in Seq(S)
    BY <2>1, FromIsText
  <2>6. <<>> \o From(x, K, a + 1) = From(x, K, a + 1)
    BY <2>5, ConcatEmptySeq
  <2> QED
    BY <2>2, <2>3, <2>4, <2>6
<1> HIDE DEF A
<1>4. \A a \in 1..e : a \in A
  BY <1>2, <1>3, DownwardInduction
<1>5. \A a \in (s + 1)..e : a \in 1..e /\ s < a
  BY <1>2
<1>6. \A a \in (s + 1)..e : From(x, K, a) = From(x, K, e)
  BY <1>4, <1>5 DEF A
<1> QED
  BY <1>6 DEF s, e

(* With another chunk, that begins before all others or, of those that     *)
(* begin together with it, comes first.                                    *)
LEMMA FromOneMore ==
  ASSUME NEW S, NEW x, IsReference(x, S), NEW K, K \subseteq 1..x.n, NEW i \in 1..x.n, i \notin K,
         \A j \in K : x.starts[j] >= x.ends[i] /\ (x.starts[j] = x.starts[i] => i < j)
  PROVE  /\ From(x, K \union {i}, x.starts[i]) = x.added[i] \o From(x, K, x.ends[i])
         /\ \A o \in x.ends[i]..(Len(x.flat) + 2) : o > x.starts[i] => From(x, K \union {i}, o) = From(x, K, o)
<1> DEFINE s == x.starts[i]
           e == x.ends[i]
           d == x.added[i]
           M == K \union {i}
           L == Len(x.flat)
<1>1. L \in Nat /\ s \in 1..(L + 1) /\ e \in 1..(L + 1) /\ s <= e /\ d \in Seq(S)
      /\ \A j \in K : x.starts[j] \in Nat
  <2> DEFINE n == x.n
             T == 1..(L + 1)
             starts == x.starts
             ends == x.ends
             added == x.added
  <2>1. /\ L \in Nat /\ starts \in [1..n -> T] /\ ends \in [1..n -> T] /\ added \in [1..n -> Seq(S)]
        /\ i \in 1..n /\ K \subseteq 1..n /\ starts[i] <= ends[i]
    BY DEF IsReference
  <2>2. T \subseteq Nat
    BY <2>1
  <2> HIDE DEF n, T, starts, ends, added, L
  <2>3. starts[i] \in T /\ ends[i] \in T /\ added[i] \in Seq(S) /\ \A j \in K : starts[j] \in Nat
    BY <2>1, <2>2
  <2> QED
    BY <2>1, <2>3 DEF starts, ends, added, T
<1>2. i \in M /\ \A j \in M : j \in K \/ j = i
  OBVIOUS
<1>3. \A j \in K : x.starts[j] >= e /\ (x.starts[j] = s => i < j)
  OBVIOUS
<1>4. x.starts[i] = s /\ x.ends[i] = e
  OBVIOUS
<1> HIDE DEF s, e, d, L
<1>5. s \in Nat /\ e \in Nat /\ s >= 1
  BY <1>1
<1>6. \A o : Remains(x, M, o) <=> Remains(x, K, o) /\ o \notin s..(e - 1)
  BY <1>4 DEF Remains
<1>7. ASSUME NEW o \in e..(L + 1), o > s
      PROVE  Piece(x, M, o) = Piece(x, K, o)
  <2>1. o # s /\ o \notin s..(e - 1)
    BY <1>5, <1>7
  <2>2. InsertionsAt(x, M, o) = InsertionsAt(x, K, o)
    BY <1>4, <2>1, SameInserted
  <2>3. Remains(x, M, o) <=> Remains(x, K, o)
    BY <1>6, <2>1
  <2> QED
    BY <2>2, <2>3, Zenon DEF Piece
<1>8. ASSUME NEW o \in e..(L + 2), o > s
      PROVE  From(x, M, o) = From(x, K, o)
  <2>1. o \in 1..(Len(x.flat) + 2) /\ \A j \in o..(Len(x.flat) + 1) : j \in e..(L + 1) /\ j > s
    BY <1>1, <1>5, <1>8 DEF L
  <2>2. \A j \in o..(Len(x.flat) + 1) : Piece(x, M, j) = Piece(x, K, j)
    BY <1>7, <2>1
  <2> QED
    BY <2>1, <2>2, FromSame
<1>9. From(x, M, s) = Piece(x, M, s) \o From(x, M, s + 1)
  BY <1>1, FromStep DEF L
<1>10. FlattenSeq(InsertionsAt(x, M, s)) = d \o FlattenSeq(InsertionsAt(x, K, s))
  <2>1. \A j \in K : x.starts[j] = x.starts[i] => i < j
    BY <1>3, <1>4
  <2>2. FlattenSeq(InsertionsAt(x, K \union {i}, x.starts[i])) =
          x.added[i] \o FlattenSeq(InsertionsAt(x, K, x.starts[i]))
    BY <2>1, OneMoreInserted
  <2> QED
    BY <2>2 DEF s, d
<1> DEFINE c == FlattenSeq(InsertionsAt(x, K, s))
<1>11. c \in Seq(S)
  BY InsertionsAreLists
<1>12. e \in 1..(Len(x.flat) + 2) /\ s + 1 \in 1..(Len(x.flat) + 2) /\ s \in 1..(Len(x.flat) + 1)
  BY <1>1, <1>5 DEF L
<1>13. From(x, K, e) \in Seq(S) /\ From(x, K, s + 1) \in Seq(S) /\ From(x, M, s + 1) \in Seq(S)
  BY <1>12, FromIsText
<1>14. CASE s < e
  <2>1. c = <<>>
    <3>1. ASSUME NEW j \in K PROVE x.starts[j] # s
      <4> DEFINE f == x.starts[j]
      <4>1. f \in Nat /\ f >= e
        BY <1>1, <1>3
      <4> HIDE DEF f
      <4>2. f # s
        BY <1>5, <1>14, <4>1
      <4> QED
        BY <4>2 DEF f
    <3> QED
      BY <3>1, NothingInserted
  <2>2. Piece(x, M, s) = d
    <3>1. s \in s..(e - 1)
      BY <1>5, <1>14
    <3>2. ~Remains(x, M, s)
      BY <1>6, <3>1
    <3>3. Piece(x, M, s) = (d \o <<>>) \o <<>>
      BY <1>10, <2>1, <3>2 DEF Piece
    <3>4. d \o <<>> = d
      BY <1>1, ConcatEmptySeq
    <3> QED
      BY <3>3, <3>4
  <2>3. From(x, M, s + 1) = From(x, M, e)
    <3>1. \A j \in M : x.starts[j] \in Nat /\ (x.starts[j] > x.starts[i] => x.starts[j] >= x.ends[i])
      <4> SUFFICES ASSUME NEW j \in M
                   PROVE  x.starts[j] \in Nat /\ (x.starts[j] > s => x.starts[j] >= e)
        BY <1>4
      <4>1. CASE j \in K
        BY <1>1, <1>3, <4>1
      <4>2. CASE j = i
        BY <1>4, <1>5, <4>2
      <4> QED
        BY <1>2, <4>1, <4>2
    <3>2. i \in M /\ s + 1 \in (s + 1)..e
      BY <1>5, <1>14
    <3> HIDE DEF M
    <3>3. \A a \in (x.starts[i] + 1)..x.ends[i] : From(x, M, a) = From(x, M, x.ends[i])
      BY <3>1, <3>2, FromTaken
    <3> QED
      BY <1>4, <3>2, <3>3
  <2>4. From(x, M, e) = From(x, K, e)
    <3>1. e \in e..(L + 2) /\ e > s
      BY <1>1, <1>5, <1>14
    <3> QED
      BY <1>8, <3>1
  <2>5. From(x, M, s) = d \o From(x, K, e)
    BY <1>9, <2>2, <2>3, <2>4
  <2> QED
    BY <1>8, <2>5 DEF s, e, d, L
<1>15. CASE s = e
  <2> DEFINE r == IF Remains(x, K, s) THEN <<x.flat[s]>> ELSE <<>>
             z == From(x, K, s + 1)
  <2>1. Piece(x, K, s) = c \o r /\ Piece(x, K, s) \in Seq(S)
    BY <1>12, PieceIsText DEF Piece
  <2>2. r \in Seq(S)
    <3>1. CASE Remains(x, K, s)
      <4>1. s \in 1..L /\ x.flat \in Seq(S)
        BY <1>1, <1>5, <3>1 DEF Remains, L, IsReference
      <4>2. x.flat[s] \in S
        BY <4>1 DEF L
      <4> QED
        BY <3>1, <4>2
    <3>2. CASE ~Remains(x, K, s)
      BY <3>2
    <3> QED
      BY <3>1, <3>2
  <2>3. Piece(x, M, s) = (d \o c) \o r
    <3>1. s \notin s..(e - 1)
      BY <1>5, <1>15
    <3>2. Remains(x, M, s) <=> Remains(x, K, s)
      BY <1>6, <3>1
    <3> QED
      BY <1>10, <3>2 DEF Piece
  <2>4. From(x, M, s + 1) = z
    <3>1. s + 1 \in e..(L + 2) /\ s + 1 > s
      BY <1>1, <1>5, <1>15
    <3> QED
      BY <1>8, <3>1
  <2>5. From(x, K, s) = (c \o r) \o z
    <3>1. From(x, K, s) = Piece(x, K, s) \o From(x, K, s + 1)
      BY <1>12, FromStep
    <3> QED
      BY <2>1, <3>1
  <2>6. From(x, M, s) = ((d \o c) \o r) \o z
    BY <1>9, <2>3, <2>4
  <2>7. ((d \o c) \o r) \o z = d \o ((c \o r) \o z)
    <3>1. d \in Seq(S) /\ c \in Seq(S) /\ r \in Seq(S) /\ z \in Seq(S)
      BY <1>1, <1>11, <1>13, <2>2
    <3> HIDE DEF c, r, z
    <3>2. (d \o c) \o r = d \o (c \o r)
      <4>1. IsAssociative(d, c, r)
        BY <3>1, Associative
      <4> QED
        BY <4>1 DEF IsAssociative
    <3> DEFINE cr == c \o r
    <3>3. cr \in Seq(S)
      BY <3>1, ConcatProperties
    <3> HIDE DEF cr
    <3>4. (d \o cr) \o z = d \o (cr \o z)
      <4>1. d \in Seq(S) /\ z \in Seq(S)
        BY <3>1
      <4> QED
        <5>1. IsAssociative(d, cr, z)
          BY <3>3, <4>1, Associative
        <5> QED
          BY <5>1 DEF IsAssociative
    <3> QED
      BY <3>2, <3>4 DEF cr
  <2>8. From(x, M, s) = d \o From(x, K, e)
    BY <1>15, <2>5, <2>6, <2>7
  <2> QED
    BY <1>8, <2>8 DEF s, e, d, L
<1>16. s < e \/ s = e
  BY <1>1, <1>5
<1> QED
  BY <1>14, <1>15, <1>16, Zenon

-----------------------------------------------------------------------------
(* The reference up to a place, and how long it is.                        *)
LEMMA FromSplit ==
  ASSUME NEW S, NEW x, IsReference(x, S), NEW K, NEW h \in 0..(Len(x.flat) + 1)
  PROVE  /\ FlattenSeq([o \in 1..h |-> Piece(x, K, o)]) \in Seq(S)
         /\ From(x, K, 1) = FlattenSeq([o \in 1..h |-> Piece(x, K, o)]) \o From(x, K, h + 1)
<1> DEFINE L == Len(x.flat)
           m == (L + 2) - 1
           k == (L + 2) - (h + 1)
           P(i) == Piece(x, K, i)
           p == [j \in 1..m |-> P((1 - 1) + j)]
           q == [j \in 1..k |-> P(((h + 1) - 1) + j)]
           u == [j \in 1..h |-> P(j)]
           T == Seq(S)
<1>1. L \in Nat
  BY DEF IsReference
<1>2. \A i \in 1..(L + 1) : P(i) \in T
  BY PieceIsText
<1>3. From(x, K, 1) = FlattenSeq(p) /\ From(x, K, h + 1) = FlattenSeq(q)
      /\ FlattenSeq([o \in 1..h |-> Piece(x, K, o)]) = FlattenSeq(u)
  BY DEF From
<1>0. h \in 0..(L + 1)
  OBVIOUS
<1> HIDE DEF L, P, T
<1>4. /\ m \in Nat /\ k \in Nat /\ m = h + k /\ h \in Nat
      /\ \A j \in 1..m : (1 - 1) + j \in 1..(L + 1) /\ (1 - 1) + j = j
      /\ \A j \in 1..k : ((h + 1) - 1) + j \in 1..(L + 1) /\ ((h + 1) - 1) + j = h + j
      /\ \A j \in 1..h : j \in 1..(L + 1)
  BY <1>0, <1>1
<1> HIDE DEF m, k
<1>5. p \in [1..m -> T] /\ \A j \in 1..m : p[j] = P(j)
  BY <1>2, <1>4
<1>6. q \in [1..k -> T] /\ \A j \in 1..k : q[j] = P(h + j)
  BY <1>2, <1>4
<1>7. u \in [1..h -> T] /\ \A j \in 1..h : u[j] = P(j)
  BY <1>2, <1>4
<1> HIDE DEF p, q, u
<1>8. p \in Seq(T) /\ Len(p) = m /\ q \in Seq(T) /\ Len(q) = k /\ u \in Seq(T) /\ Len(u) = h
  BY <1>4, <1>5, <1>6, <1>7
<1>9. p = u \o q
  <2>1. /\ u \o q \in Seq(T) /\ Len(u \o q) = Len(u) + Len(q)
        /\ \A j \in 1..(Len(u) + Len(q)) : (u \o q)[j] = IF j <= Len(u) THEN u[j] ELSE q[j - Len(u)]
    BY <1>8, ConcatProperties
  <2> DEFINE r == u \o q
  <2> HIDE DEF r
  <2>2. r \in Seq(T) /\ Len(r) = m /\ \A j \in 1..m : r[j] = IF j <= h THEN u[j] ELSE q[j - h]
    BY <1>4, <1>8, <2>1 DEF r
  <2>3. ASSUME NEW j \in 1..m
        PROVE  p[j] = r[j]
    <3>1. CASE j <= h
      <4>1. j \in 1..h
        BY <1>4, <3>1
      <4> QED
        BY <1>5, <1>7, <2>2, <3>1, <4>1
    <3>2. CASE ~(j <= h)
      <4>1. j - h \in 1..k /\ h + (j - h) = j
        BY <1>4, <3>2
      <4>2. q[j - h] = P(h + (j - h))
        BY <1>6, <4>1
      <4> QED
        BY <1>5, <2>2, <3>2, <4>1, <4>2
    <3> QED
      BY <3>1, <3>2
  <2>4. p = r
    BY <1>8, <2>2, <2>3, SeqEqual
  <2> QED
    BY <2>4 DEF r
<1>10. FlattenSeq(u \o q) = FlattenSeq(u) \o FlattenSeq(q) /\ FlattenSeq(u) \in Seq(S)
  BY <1>8, FlattenConcat DEF T
<1> QED
  BY <1>3, <1>9, <1>10

LEMMA FromShrinks ==
  ASSUME NEW S, NEW x, IsReference(x, S), NEW K, NEW b \in 1..(Len(x.flat) + 2)
  PROVE  \A a \in 1..b : Len(From(x, K, a)) >= Len(From(x, K, b))
<1> DEFINE l(a) == Len(From(x, K, a))
           A == {a \in 1..b : l(a) >= l(b)}
           L == Len(x.flat)
<1>1. L \in Nat
  BY DEF IsReference
<1>2. \A a \in 1..(L + 2) : l(a) \in Nat
  BY FromIsText
<1>3. \A a \in 1..(L + 1) : l(a) = Len(Piece(x, K, a)) + l(a + 1) /\ Len(Piece(x, K, a)) \in Nat
  <2> SUFFICES ASSUME NEW a \in 1..(L + 1)
               PROVE  l(a) = Len(Piece(x, K, a)) + l(a + 1) /\ Len(Piece(x, K, a)) \in Nat
    OBVIOUS
  <2>1. From(x, K, a) = Piece(x, K, a) \o From(x, K, a + 1)
    BY FromStep
  <2>2. Piece(x, K, a) \in Seq(S)
    BY PieceIsText
  <2>3. a + 1 \in 1..(L + 2)
    BY <1>1
  <2>4. From(x, K, a + 1) \in Seq(S)
    BY <2>3, FromIsText
  <2> DEFINE p == Piece(x, K, a)
             q == From(x, K, a + 1)
  <2> HIDE DEF p, q
  <2>5. Len(p \o q) = Len(p) + Len(q) /\ Len(p) \in Nat
    BY <2>2, <2>4, Joining DEF p, q
  <2> QED
    BY <2>1, <2>5 DEF p, q
<1>4. ASSUME NEW a \in 1..b, \A j \in (a + 1)..b : j \in A
      PROVE  a \in A
  <2>0. b \in 1..(L + 2)
    OBVIOUS
  <2> HIDE DEF L, l
  <2>1. CASE a = b
    <3>1. l(a) \in Nat
      BY <1>2, <2>0, <2>1
    <3> QED
      BY <2>1, <3>1
  <2>2. CASE a # b
    <3>1. a + 1 \in (a + 1)..b /\ a \in 1..(L + 1) /\ a + 1 \in 1..(L + 2)
      BY <1>1, <2>0, <2>2
    <3>2. l(a + 1) >= l(b)
      BY <1>4, <3>1
    <3>3. l(a) = Len(Piece(x, K, a)) + l(a + 1) /\ Len(Piece(x, K, a)) \in Nat
      BY <1>3, <3>1
    <3>4. l(a + 1) \in Nat /\ l(b) \in Nat
      BY <1>2, <2>0, <3>1
    <3>5. l(a) >= l(b)
      BY <3>2, <3>3, <3>4
    <3> QED
      BY <3>5
  <2> QED
    BY <2>1, <2>2
<1> HIDE DEF A
<1>5. b \in Nat
  BY <1>1
<1>6. \A a \in 1..b : a \in A
  BY <1>4, <1>5, DownwardInduction
<1> QED
  BY <1>6 DEF A

LengthUpTo(x, K, h) == Len(From(x, K, 1)) - Len(From(x, K, h + 1))

LEMMA LengthIsThat ==
  ASSUME NEW S, NEW x, IsReference(x, S), NEW K, NEW h \in 0..(Len(x.flat) + 1)
  PROVE  Len(FlattenSeq([o \in 1..h |-> Piece(x, K, o)])) = LengthUpTo(x, K, h)
<1> DEFINE u == FlattenSeq([o \in 1..h |-> Piece(x, K, o)])
           r == From(x, K, h + 1)
<1>1. Len(x.flat) \in Nat
  BY DEF IsReference
<1>2. u \in Seq(S) /\ From(x, K, 1) = u \o r
  BY FromSplit
<1>3. r \in Seq(S)
  <2>1. h + 1 \in 1..(Len(x.flat) + 2)
    BY <1>1
  <2> QED
    BY <2>1, FromIsText
<1> HIDE DEF u, r
<1>4. Len(u \o r) = Len(u) + Len(r) /\ Len(u) \in Nat /\ Len(r) \in Nat
  BY <1>2, <1>3, Joining
<1>5. Len(u) = Len(u \o r) - Len(r)
  BY <1>4
<1> QED
  BY <1>2, <1>5 DEF u, r, LengthUpTo

LEMMA LengthOfText ==
  ASSUME NEW S, NEW x, IsReference(x, S), NEW K, NEW b \in 1..(Len(x.flat) + 1),
         \A i \in K : x.starts[i] \in Nat /\ x.starts[i] >= b
  PROVE  Len(From(x, K, 1)) = (b - 1) + Len(From(x, K, b))
<1> DEFINE u == Slice(x.flat, 1, b)
           r == From(x, K, b)
<1>1. Len(x.flat) \in Nat /\ x.flat \in Seq(S)
  BY DEF IsReference
<1>2. b \in 1..(Len(x.flat) + 2) /\ 1 \in 1..b /\ 1 \in 1..(Len(x.flat) + 1)
  BY <1>1
<1>3. From(x, K, 1) = u \o r
  BY <1>2, FromUntouched
<1>4. r \in Seq(S)
  BY <1>2, FromIsText
<1>5. u \in Seq(S) /\ IsSlice(u, x.flat, 1, b)
  BY <1>1, <1>2, SliceProperties
<1>6. Len(u) = b - 1
  BY <1>5 DEF IsSlice
<1> HIDE DEF u, r
<1>7. Len(u \o r) = Len(u) + Len(r)
  BY <1>4, <1>5, Joining
<1> QED
  BY <1>3, <1>6, <1>7 DEF r

(* What comes before all chunks is as long as it was.                      *)
LEMMA LengthBefore ==
  ASSUME NEW S, NEW x, IsReference(x, S), NEW K, NEW h \in 1..Len(x.flat),
         \A i \in K : x.starts[i] \in Nat /\ x.starts[i] > h
  PROVE  LengthUpTo(x, K, h) = h
<1>1. Len(x.flat) \in Nat
  BY DEF IsReference
<1>2. h + 1 \in 1..(Len(x.flat) + 1) /\ h + 1 \in 1..(Len(x.flat) + 2)
  BY <1>1
<1>3. \A i \in K : x.starts[i] \in Nat /\ x.starts[i] >= h + 1
  BY <1>2
<1>4. Len(From(x, K, 1)) = ((h + 1) - 1) + Len(From(x, K, h + 1))
  BY <1>2, <1>3, LengthOfText
<1>5. Len(From(x, K, h + 1)) \in Nat
  BY <1>2, FromIsText
<1> QED
  BY <1>4, <1>5 DEF LengthUpTo

(* A chunk shifts what comes behind it.                                    *)
LEMMA LengthBehind ==
  ASSUME NEW S, NEW x, IsReference(x, S), NEW K, K \subseteq 1..x.n, NEW i \in 1..x.n, i \notin K,
         \A j \in K : x.starts[j] >= x.ends[i] /\ (x.starts[j] = x.starts[i] => i < j),
         NEW h \in x.ends[i]..Len(x.flat), Remains(x, K, h)
  PROVE  /\ LengthUpTo(x, K, h) \in Nat /\ LengthUpTo(x, K, h) >= x.ends[i]
         /\ LengthUpTo(x, K \union {i}, h) =
              ((LengthUpTo(x, K, h) - x.ends[i]) + x.starts[i]) + Len(x.added[i])
<1> DEFINE s == x.starts[i]
           e == x.ends[i]
           d == x.added[i]
           M == K \union {i}
           L == Len(x.flat)
           lk(a) == Len(From(x, K, a))
           lm(a) == Len(From(x, M, a))
<1>1. L \in Nat /\ s \in 1..(L + 1) /\ e \in 1..(L + 1) /\ s <= e /\ d \in Seq(S)
      /\ \A j \in K : x.starts[j] \in Nat
  <2> DEFINE n == x.n
             T == 1..(L + 1)
             starts == x.starts
             ends == x.ends
             added == x.added
  <2>1. /\ L \in Nat /\ starts \in [1..n -> T] /\ ends \in [1..n -> T] /\ added \in [1..n -> Seq(S)]
        /\ i \in 1..n /\ K \subseteq 1..n /\ starts[i] <= ends[i]
    BY SMTT(40) DEF IsReference
  <2>2. T \subseteq Nat
    BY <2>1
  <2> HIDE DEF n, T, starts, ends, added, L
  <2>3. starts[i] \in T /\ ends[i] \in T /\ added[i] \in Seq(S) /\ \A j \in K : starts[j] \in Nat
    BY <2>1, <2>2
  <2> QED
    BY <2>1, <2>3 DEF starts, ends, added, T
<1>2. From(x, M, s) = d \o From(x, K, e) /\ \A o \in e..(L + 2) : o > s => From(x, M, o) = From(x, K, o)
  BY FromOneMore
<1>3. \A a \in 1..(L + 2) : lk(a) \in Nat /\ lm(a) \in Nat /\ From(x, K, a) \in Seq(S)
  BY FromIsText
<1>4. h \in e..L
  OBVIOUS
<1>5. \A j \in K : x.starts[j] \in Nat /\ x.starts[j] >= e
  BY <1>1
<1>6. \A j \in M : x.starts[j] \in Nat /\ x.starts[j] >= s
  <2> SUFFICES ASSUME NEW j \in M
               PROVE  x.starts[j] \in Nat /\ x.starts[j] >= s
    OBVIOUS
  <2>1. CASE j \in K
    <3>1. x.starts[j] \in Nat /\ x.starts[j] >= e
      BY <1>5, <2>1
    <3> HIDE DEF s, e
    <3> QED
      BY <1>1, <3>1
  <2>2. CASE j = i
    <3>1. x.starts[j] = s
      BY <2>2
    <3> HIDE DEF s
    <3> QED
      BY <1>1, <3>1
  <2> QED
    BY <2>1, <2>2
<1>7. lk(1) = (e - 1) + lk(e)
  <2>1. e \in 1..(Len(x.flat) + 1)
    BY <1>1
  <2> HIDE DEF e
  <2> QED
    BY <1>5, <2>1, LengthOfText
<1>8. lm(1) = (s - 1) + lm(s)
  <2>1. s \in 1..(Len(x.flat) + 1)
    BY <1>1
  <2> HIDE DEF s, M
  <2> QED
    BY <1>6, <2>1, LengthOfText
<1>9. lk(h) = Len(Piece(x, K, h)) + lk(h + 1) /\ Len(Piece(x, K, h)) \in Nat /\ Len(Piece(x, K, h)) >= 1
  <2>1. h \in 1..(Len(x.flat) + 1) /\ h \in 1..L /\ h + 1 \in 1..(L + 2)
    <3> HIDE DEF e, s, L
    <3>1. h \in 1..(L + 1) /\ h \in 1..L /\ h + 1 \in 1..(L + 2)
      BY <1>1, <1>4
    <3> QED
      BY <3>1 DEF L
  <2>2. From(x, K, h) = Piece(x, K, h) \o From(x, K, h + 1)
    BY <2>1, FromStep
  <2> DEFINE c == FlattenSeq(InsertionsAt(x, K, h))
             r == <<x.flat[h]>>
             p == Piece(x, K, h)
             q == From(x, K, h + 1)
  <2>3. p = c \o r
    BY DEF Piece
  <2>4. c \in Seq(S)
    BY InsertionsAreLists
  <2>5. r \in Seq(S) /\ Len(r) = 1
    <3>1. x.flat[h] \in S
      BY <2>1 DEF IsReference
    <3> QED
      BY <3>1
  <2>6. p \in Seq(S)
    BY <2>1, PieceIsText
  <2>7. q \in Seq(S)
    BY <1>3, <2>1
  <2> HIDE DEF c, r, p, q
  <2>8. Len(c \o r) = Len(c) + Len(r) /\ Len(c) \in Nat
    BY <2>4, <2>5, Joining
  <2>9. Len(p \o q) = Len(p) + Len(q) /\ Len(p) \in Nat
    BY <2>6, <2>7, Joining
  <2>10. Len(p) >= 1
    BY <2>3, <2>5, <2>8
  <2> QED
    BY <2>2, <2>9, <2>10 DEF p, q
<1>10. lk(e) >= lk(h)
  <2>1. h \in 1..(Len(x.flat) + 2) /\ e \in 1..h
    <3> HIDE DEF e, s, L
    <3>1. h \in 1..(L + 2) /\ e \in 1..h
      BY <1>1, <1>4
    <3> QED
      BY <3>1 DEF L
  <2> HIDE DEF e
  <2> QED
    BY <2>1, FromShrinks
<1>11. From(x, M, h + 1) = From(x, K, h + 1)
  <2> HIDE DEF e, s, L
  <2>1. h + 1 \in e..(L + 2) /\ h + 1 > s
    BY <1>1, <1>4
  <2> QED
    BY <1>2, <2>1
<1>12. lm(s) = Len(d) + lk(e) /\ Len(d) \in Nat
  <2>1. e \in 1..(L + 2)
    <3> HIDE DEF e, s, L
    <3> QED
      BY <1>1
  <2> DEFINE r == From(x, K, e)
  <2>2. r \in Seq(S)
    BY <1>3, <2>1
  <2> HIDE DEF r, d
  <2>3. Len(d \o r) = Len(d) + Len(r) /\ Len(d) \in Nat
    BY <1>1, <2>2, Joining
  <2> QED
    BY <1>2, <2>3 DEF r
<1>13. LengthUpTo(x, K, h) = lk(1) - lk(h + 1) /\ LengthUpTo(x, M, h) = lm(1) - lk(h + 1)
  BY <1>11 DEF LengthUpTo
<1> DEFINE p == Len(Piece(x, K, h))
           dd == Len(d)
           u == LengthUpTo(x, K, h)
           v == LengthUpTo(x, M, h)
<1>14. lk(h + 1) \in Nat /\ lk(e) \in Nat /\ lk(h) \in Nat
  <2>1. h + 1 \in 1..(L + 2) /\ h \in 1..(L + 2) /\ e \in 1..(L + 2)
    <3> HIDE DEF e, s, L
    <3> QED
      BY <1>1, <1>4
  <2> QED
    BY <1>3, <2>1
<1>15. u \in Nat /\ u >= e /\ v = ((u - e) + s) + dd
  <2>1. u = lk(1) - lk(h + 1) /\ v = lm(1) - lk(h + 1) /\ lk(h) = p + lk(h + 1) /\ p \in Nat /\ p >= 1
        /\ lm(s) = dd + lk(e) /\ dd \in Nat
    BY <1>9, <1>12, <1>13
  <2>2. e \in Nat /\ s \in Nat /\ e >= 1
    <3> HIDE DEF e, s, L
    <3> QED
      BY <1>1
  <2> DEFINE k1 == lk(1)
             ke == lk(e)
             kh == lk(h)
             kn == lk(h + 1)
             m1 == lm(1)
             ms == lm(s)
  <2>3. /\ k1 = (e - 1) + ke /\ m1 = (s - 1) + ms /\ ke >= kh
        /\ kn \in Nat /\ ke \in Nat /\ kh \in Nat
    BY <1>7, <1>8, <1>10, <1>14
  <2>4. u = k1 - kn /\ v = m1 - kn /\ kh = p + kn /\ p \in Nat /\ p >= 1 /\ ms = dd + ke /\ dd \in Nat
    BY <2>1
  <2> HIDE DEF u, v, p, dd, k1, ke, kh, kn, m1, ms, e, s
  <2>5. u = ((e - 1) + ke) - kn /\ v = ((s - 1) + (dd + ke)) - kn /\ ke >= p + kn
    BY <2>3, <2>4
  <2> QED
    BY <2>2, <2>3, <2>4, <2>5
<1> QED
  BY <1>15

-----------------------------------------------------------------------------
(***************************************************************************)
(* Chunks applied to a text                                                *)
(***************************************************************************)

LEMMA SameSequence ==
  ASSUME NEW T, NEW s \in Seq(T), NEW t \in Seq(T), Len(s) = Len(t),
         \A i \in 1..Len(s) : s[i] = t[i]
  PROVE  s = t
OBVIOUS

-----------------------------------------------------------------------------
(* A finite total order can be listed in its order.                        *)
IsListing(p, n, R) ==
  /\ \A i, j \in 1..n : p[i] = p[j] => i = j
  /\ \A i, j \in 1..n : i < j => <<p[i], p[j]>> \in R

LEMMA ListingExists ==
  ASSUME NEW n \in Nat, NEW R,
         \A i, j \in 1..n : i # j => <<i, j>> \in R \/ <<j, i>> \in R,
         \A i, j, k \in 1..n : <<i, j>> \in R /\ <<j, k>> \in R => <<i, k>> \in R
  PROVE  \E p \in [1..n -> 1..n] : IsListing(p, n, R)
<1> DEFINE P(k) == k <= n => \E p \in [1..k -> 1..k] : IsListing(p, k, R)
           N == {k \in Nat : P(k)}
<1>1. P(0)
  <2> DEFINE p == [i \in 1..0 |-> 0]
  <2>1. p \in [1..0 -> 1..0] /\ IsListing(p, 0, R)
    BY DEF IsListing
  <2> QED
    BY <2>1
<1>2. ASSUME NEW k \in Nat, P(k)
      PROVE  P(k + 1)
  <2> SUFFICES ASSUME k + 1 <= n
               PROVE  \E p \in [1..k + 1 -> 1..k + 1] : IsListing(p, k + 1, R)
    BY Zenon
  <2>0. k <= n
    OBVIOUS
  <2>1. PICK p \in [1..k -> 1..k] : IsListing(p, k, R)
    BY <1>2, <2>0
  <2> DEFINE A == {i \in 1..k + 1 : i = k + 1 \/ <<k + 1, p[i]>> \in R}
  <2>2. A \in SUBSET Nat /\ k + 1 \in A
    OBVIOUS
  <2>3. PICK a \in A : \A i \in A : a <= i
    BY <2>2, LeastNumber
  <2>4. a \in 1..k + 1
    OBVIOUS
  <2>5. \A i \in 1..k : /\ i < a => <<p[i], k + 1>> \in R
                        /\ i >= a => <<k + 1, p[i]>> \in R
    <3> SUFFICES ASSUME NEW i \in 1..k
                 PROVE  /\ i < a => <<p[i], k + 1>> \in R
                        /\ i >= a => <<k + 1, p[i]>> \in R
      OBVIOUS
    <3>1. p[i] \in 1..n /\ k + 1 \in 1..n /\ p[i] # k + 1
      BY <2>0
    <3>2. ASSUME i < a PROVE <<p[i], k + 1>> \in R
      <4>1. i \notin A
        BY <2>3, <2>4, <3>2
      <4>2. <<k + 1, p[i]>> \notin R
        BY <4>1
      <4> QED
        BY <3>1, <4>2
    <3>3. ASSUME i >= a PROVE <<k + 1, p[i]>> \in R
      <4>1. a # k + 1 /\ a \in 1..k
        BY <2>4, <3>3
      <4>2. <<k + 1, p[a]>> \in R
        BY <2>3, <4>1
      <4>3. CASE i = a
        BY <4>2, <4>3
      <4>4. CASE i # a
        <5>1. <<p[a], p[i]>> \in R
          BY <2>1, <3>3, <4>1, <4>4 DEF IsListing
        <5>2. p[a] \in 1..n
          BY <2>0, <4>1
        <5> QED
          BY <3>1, <4>2, <5>1, <5>2
      <4> QED
        BY <4>3, <4>4
    <3> QED
      BY <3>2, <3>3
  <2> HIDE DEF A
  <2> DEFINE q == [i \in 1..k + 1 |-> IF i < a THEN p[i] ELSE IF i = a THEN k + 1 ELSE p[i - 1]]
  <2>6. /\ \A i \in 1..k + 1 : i < a => i \in 1..k /\ q[i] = p[i] /\ p[i] \in 1..k
        /\ q[a] = k + 1
        /\ \A i \in 1..k + 1 : i > a =>
             i - 1 \in 1..k /\ i - 1 >= a /\ q[i] = p[i - 1] /\ p[i - 1] \in 1..k
    <3>1. \A i \in 1..k + 1 : q[i] = IF i < a THEN p[i] ELSE IF i = a THEN k + 1 ELSE p[i - 1]
      OBVIOUS
    <3> HIDE DEF q
    <3>2. a \in Nat /\ 1 <= a /\ a <= k + 1
      BY <2>4
    <3>3. \A i \in 1..k : p[i] \in 1..k
      OBVIOUS
    <3>4. ASSUME NEW i \in 1..k + 1, i < a
          PROVE  i \in 1..k /\ q[i] = p[i] /\ p[i] \in 1..k
      <4>1. i \in 1..k
        BY <3>2, <3>4
      <4> QED
        BY <3>1, <3>3, <3>4, <4>1
    <3>5. q[a] = k + 1
      BY <2>4, <3>1, <3>2
    <3>6. ASSUME NEW i \in 1..k + 1, i > a
          PROVE  i - 1 \in 1..k /\ i - 1 >= a /\ q[i] = p[i - 1] /\ p[i - 1] \in 1..k
      <4>1. i - 1 \in 1..k /\ i - 1 >= a /\ ~(i < a) /\ i # a
        BY <3>2, <3>6
      <4> QED
        BY <3>1, <3>3, <4>1
    <3> QED
      BY <3>4, <3>5, <3>6, Zenon
  <2>7. q \in [1..k + 1 -> 1..k + 1]
    <3>1. \A i \in 1..k + 1 : q[i] \in 1..k + 1
      BY <2>4, <2>6
    <3> QED
      BY <3>1
  <2> HIDE DEF q
  <2>8. ASSUME NEW i \in 1..k + 1, NEW j \in 1..k + 1, i < j
        PROVE  q[i] # q[j] /\ <<q[i], q[j]>> \in R
    <3>1. CASE j < a
      BY <2>1, <2>4, <2>6, <2>8, <3>1 DEF IsListing
    <3>2. CASE j = a
      <4>1. i < a /\ i \in 1..k
        BY <2>4, <2>8, <3>2
      <4>2. q[i] = p[i] /\ q[j] = k + 1 /\ p[i] \in 1..k
        BY <2>6, <3>2, <4>1
      <4>3. <<p[i], k + 1>> \in R
        BY <2>5, <4>1
      <4> QED
        BY <4>2, <4>3
    <3>3. CASE j > a /\ i < a
      <4>1. i < j - 1
        BY <2>4, <2>8, <3>3
      <4>2. i \in 1..k /\ q[i] = p[i] /\ j - 1 \in 1..k /\ q[j] = p[j - 1]
        BY <2>6, <3>3
      <4>3. p[i] # p[j - 1] /\ <<p[i], p[j - 1]>> \in R
        BY <2>1, <4>1, <4>2 DEF IsListing
      <4> QED
        BY <4>2, <4>3
    <3>4. CASE j > a /\ i = a
      <4>1. q[i] = k + 1 /\ j - 1 \in 1..k /\ j - 1 >= a /\ q[j] = p[j - 1] /\ p[j - 1] \in 1..k
        BY <2>6, <3>4
      <4>2. <<k + 1, p[j - 1]>> \in R
        BY <2>5, <4>1
      <4> QED
        BY <4>1, <4>2
    <3>5. CASE i > a
      <4>1. j > a /\ i - 1 < j - 1
        BY <2>4, <2>8, <3>5
      <4> QED
        BY <2>1, <2>4, <2>6, <3>5, <4>1 DEF IsListing
    <3> QED
      BY <2>4, <2>8, <3>1, <3>2, <3>3, <3>4, <3>5
  <2>9. IsListing(q, k + 1, R)
    <3>1. \A i, j \in 1..k + 1 : i < j => <<q[i], q[j]>> \in R
      BY <2>8
    <3>2. \A i, j \in 1..k + 1 : q[i] = q[j] => i = j
      <4> SUFFICES ASSUME NEW i \in 1..k + 1, NEW j \in 1..k + 1, q[i] = q[j], i # j
                   PROVE  FALSE
        OBVIOUS
      <4>1. i < j \/ j < i
        OBVIOUS
      <4> QED
        BY <2>8, <4>1
    <3> QED
      BY <3>1, <3>2 DEF IsListing
  <2> QED
    BY <2>7, <2>9
<1> HIDE DEF P
<1>3. \A k \in Nat : k \in N => k + 1 \in N
  BY <1>2
<1>4. 0 \in N
  BY <1>1
<1> HIDE DEF N
<1>5. n \in N
  BY <1>3, <1>4, Induction
<1> QED
  BY <1>5 DEF N, P

-----------------------------------------------------------------------------
(* Places and their order.                                                 *)
Places == [line : Nat, column : Nat]

LEMMA PlaceOrder ==
  ASSUME NEW p \in Places, NEW q \in Places
  PROVE  /\ AtOrBefore(p, p)
         /\ AtOrBefore(p, q) \/ AtOrBefore(q, p)
         /\ AtOrBefore(p, q) /\ AtOrBefore(q, p) => p = q
         /\ \A r \in Places : AtOrBefore(p, q) /\ AtOrBefore(q, r) => AtOrBefore(p, r)
BY DEF AtOrBefore, Places

LEMMA PlaceInText ==
  ASSUME NEW t \in Seq(Seq(Characters)), NEW p
  PROVE  p \in PlacesIn(t) <=>
           /\ p \in Places /\ p.line \in 1..Len(t)
           /\ p.column \in 1..(Len(t[p.line]) + 1)
<1>1. DOMAIN t = 1..Len(t) /\ Len(t) \in Nat /\ \A l \in 1..Len(t) : Len(t[l]) \in Nat
  OBVIOUS
<1>2. ASSUME p \in PlacesIn(t)
      PROVE  /\ p \in Places /\ p.line \in 1..Len(t)
             /\ p.column \in 1..(Len(t[p.line]) + 1)
  <2>1. PICK l \in 1..Len(t) : p \in {Place(l, c) : c \in 1..(Len(t[l]) + 1)}
    BY <1>1, <1>2 DEF PlacesIn
  <2>2. PICK c \in 1..(Len(t[l]) + 1) : p = [line |-> l, column |-> c]
    BY <2>1 DEF Place
  <2>3. p.line = l /\ p.column = c /\ l \in Nat /\ c \in Nat
    BY <1>1, <2>2
  <2> QED
    BY <2>2, <2>3 DEF Places
<1>3. ASSUME p \in Places, p.line \in 1..Len(t), p.column \in 1..(Len(t[p.line]) + 1)
      PROVE  p \in PlacesIn(t)
  <2>1. p = Place(p.line, p.column)
    BY <1>3 DEF Places, Place
  <2>2. p \in {Place(p.line, c) : c \in 1..(Len(t[p.line]) + 1)}
    BY <1>3, <2>1
  <2> QED
    BY <1>1, <1>3, <2>2, Zenon DEF PlacesIn
<1> QED
  BY <1>2, <1>3

LEMMA EndsOfText ==
  ASSUME NEW t \in Seq(Seq(Characters)), NEW p \in Ends(t)
  PROVE  /\ p \in Places /\ p.line \in 1..(Len(t) + 1) /\ p.column >= 1
         /\ p.line <= Len(t) => p \in PlacesIn(t)
         /\ p.line > Len(t) => p.line = Len(t) + 1 /\ p.column = 1
<1>1. p \in PlacesIn(t) \/ p = [line |-> Len(t) + 1, column |-> 1]
  BY DEF Ends, Place
<1>2. Len(t) \in Nat
  OBVIOUS
<1>3. CASE p \in PlacesIn(t)
  <2>1. p \in Places /\ p.line \in 1..Len(t) /\ p.column \in 1..(Len(t[p.line]) + 1)
    BY <1>3, PlaceInText
  <2>2. p.column >= 1
    BY <2>1 DEF Places
  <2> QED
    BY <1>2, <1>3, <2>1, <2>2
<1>4. CASE p = [line |-> Len(t) + 1, column |-> 1]
  BY <1>2, <1>4 DEF Places
<1> QED
  BY <1>1, <1>3, <1>4

-----------------------------------------------------------------------------
(* What ycmd sends.  A chunk is taken before another one if it is below it.*)
Lower(chunks, i, j) ==
  IF chunks[i].start = chunks[j].start THEN i > j
  ELSE AtOrBefore(chunks[j].start, chunks[i].start)

IsChunk(chunk, t) ==
  /\ chunk \in [start : Places, end : Places, lines : Seq(Seq(Characters))]
  /\ chunk.start \in Ends(t) /\ chunk.end \in Ends(t)
  /\ AtOrBefore(chunk.start, chunk.end)
  /\ chunk.lines # <<>>

AreChunks(chunks, n, t) ==
  /\ n \in Nat \ {0} /\ DOMAIN chunks = 1..n
  /\ \A i \in 1..n : IsChunk(chunks[i], t)
  /\ \A i, j \in 1..n :
       i # j /\ Lower(chunks, i, j) => AtOrBefore(chunks[j].end, chunks[i].start)

LEMMA ChunksAreSuch ==
  ASSUME NEW t \in Texts, NEW chunks \in ChunkLists(t)
  PROVE  \E n : AreChunks(chunks, n, t)
<1>0. t \in Seq(Seq(Characters))
  BY TextsAssumption
<1>1. PICK n \in 1..MaxChunks : chunks \in [1..n -> ChunksFor(t)]
  BY DEF ChunkLists
<1>2. Acceptable(chunks)
  BY DEF ChunkLists
<1>3. n \in Nat \ {0} /\ DOMAIN chunks = 1..n
  BY <1>1, ChunksAssumption
<1>4. ASSUME NEW i \in 1..n
      PROVE  IsChunk(chunks[i], t)
  <2>1. /\ chunks[i] \in [start : Ends(t), end : Ends(t), lines : Replacements]
        /\ AtOrBefore(chunks[i].start, chunks[i].end)
    BY <1>1 DEF ChunksFor
  <2>2. chunks[i].lines \in Seq(Seq(Characters)) /\ chunks[i].lines # <<>>
    BY <2>1, ReplacementsAssumption
  <2>3. chunks[i].start \in Places /\ chunks[i].end \in Places
    BY <1>0, <2>1, EndsOfText
  <2> QED
    BY <2>1, <2>2, <2>3 DEF IsChunk
<1>5. ASSUME NEW i \in 1..n, NEW j \in 1..n, i # j, Lower(chunks, i, j)
      PROVE  AtOrBefore(chunks[j].end, chunks[i].start)
  <2>1. /\ chunks[i].start \in Places /\ chunks[j].start \in Places
        /\ chunks[i].end \in Places /\ chunks[j].end \in Places
        /\ AtOrBefore(chunks[i].start, chunks[i].end)
    BY <1>4 DEF IsChunk
  <2>2. CASE chunks[i].start = chunks[j].start
    <3>1. j < i
      BY <1>3, <1>5, <2>2 DEF Lower
    <3>2. chunks[j].end = chunks[j].start
      BY <1>2, <1>3, <2>2, <3>1 DEF Acceptable
    <3> QED
      BY <2>1, <2>2, <3>2, PlaceOrder
  <2>3. CASE chunks[i].start # chunks[j].start
    <3>1. AtOrBefore(chunks[j].start, chunks[i].start)
      BY <1>5, <2>3 DEF Lower
    <3>2. Apart(chunks[i], chunks[j]) \/ Apart(chunks[j], chunks[i])
      <4>1. i < j \/ j < i
        BY <1>3, <1>5
      <4> QED
        BY <1>2, <1>3, <2>3, <4>1 DEF Acceptable
    <3>3. ~Apart(chunks[i], chunks[j])
      <4>1. SUFFICES ASSUME AtOrBefore(chunks[i].end, chunks[j].start) PROVE FALSE
        BY DEF Apart
      <4>2. AtOrBefore(chunks[i].start, chunks[j].start)
        BY <2>1, <4>1, PlaceOrder
      <4> QED
        BY <2>1, <2>3, <3>1, <4>2, PlaceOrder
    <3> QED
      BY <3>2, <3>3 DEF Apart
  <2> QED
    BY <2>2, <2>3
<1> QED
  BY <1>3, <1>4, <1>5 DEF AreChunks

(* Sorting lists all of them, the lowest first.                            *)
IsBottomUp(order, chunks, n) ==
  /\ order \in [1..n -> 1..n] /\ order \in Seq(1..n) /\ Len(order) = n
  /\ \A i \in 1..n : \E k \in 1..n : order[k] = i
  /\ \A k, l \in 1..n : k < l => order[k] # order[l] /\ Lower(chunks, order[k], order[l])

LEMMA BottomUpIsSuch ==
  ASSUME NEW chunks, NEW n, NEW t, AreChunks(chunks, n, t)
  PROVE  IsBottomUp(BottomUp(chunks), chunks, n)
<1> DEFINE R == {x \in (1..n) \X (1..n) : x[1] # x[2] /\ Lower(chunks, x[1], x[2])}
           Sorts(order) == \A k, l \in DOMAIN order : k < l => Lower(chunks, order[k], order[l])
<1>1. n \in Nat \ {0} /\ DOMAIN chunks = 1..n /\ \A i \in 1..n : chunks[i].start \in Places
  BY DEF AreChunks, IsChunk
<1>2. \A i, j \in 1..n : i # j => <<i, j>> \in R \/ <<j, i>> \in R
  <2> SUFFICES ASSUME NEW i \in 1..n, NEW j \in 1..n, i # j
               PROVE  Lower(chunks, i, j) \/ Lower(chunks, j, i)
    OBVIOUS
  <2>1. AtOrBefore(chunks[i].start, chunks[j].start) \/ AtOrBefore(chunks[j].start, chunks[i].start)
    BY <1>1, PlaceOrder
  <2>2. i > j \/ j > i
    BY <1>1
  <2> QED
    BY <2>1, <2>2 DEF Lower
<1>3. \A i, j, k \in 1..n : <<i, j>> \in R /\ <<j, k>> \in R => <<i, k>> \in R
  <2> SUFFICES ASSUME NEW i \in 1..n, NEW j \in 1..n, NEW k \in 1..n,
                      Lower(chunks, i, j), Lower(chunks, j, k)
               PROVE  i # j /\ j # k => i # k /\ Lower(chunks, i, k)
    OBVIOUS
  <2> DEFINE a == chunks[i].start
             b == chunks[j].start
             c == chunks[k].start
  <2>1. a \in Places /\ b \in Places /\ c \in Places
    BY <1>1
  <2>2. /\ IF a = b THEN i > j ELSE AtOrBefore(b, a)
        /\ IF b = c THEN j > k ELSE AtOrBefore(c, b)
    BY DEF Lower
  <2> HIDE DEF a, b, c
  <2>3. i \in Nat /\ j \in Nat /\ k \in Nat
    BY <1>1
  <2>4. (i # j /\ j # k) => (i # k /\ IF a = c THEN i > k ELSE AtOrBefore(c, a))
    <3>1. CASE a = b
      <4>1. i > j
        BY <2>2, <3>1
      <4>2. IF a = c THEN j > k ELSE AtOrBefore(c, a)
        BY <2>2, <3>1
      <4>3. a = c => i > k /\ i # k
        BY <2>3, <4>1, <4>2
      <4>4. a # c => i # k /\ AtOrBefore(c, a)
        BY <4>2 DEF a, c
      <4> QED
        BY <4>3, <4>4
    <3>2. CASE b = c
      <4>1. j > k
        BY <2>2, <3>2
      <4>2. IF a = c THEN i > j ELSE AtOrBefore(c, a)
        BY <2>2, <3>2
      <4>3. a = c => i > k /\ i # k
        BY <2>3, <4>1, <4>2
      <4>4. a # c => i # k /\ AtOrBefore(c, a)
        BY <4>2 DEF a, c
      <4> QED
        BY <4>3, <4>4
    <3>3. CASE a # b /\ b # c
      <4>1. AtOrBefore(b, a) /\ AtOrBefore(c, b)
        BY <2>2, <3>3
      <4>2. a # c
        BY <2>1, <3>3, <4>1, PlaceOrder
      <4>3. AtOrBefore(c, a)
        BY <2>1, <4>1, PlaceOrder
      <4> QED
        BY <4>2, <4>3 DEF a, c
    <3> QED
      BY <3>1, <3>2, <3>3
  <2> QED
    BY <2>4, Zenon DEF Lower, a, c
<1>4. PICK p \in [1..n -> 1..n] : IsListing(p, n, R)
  BY <1>1, <1>2, <1>3, ListingExists
<1>5. Cardinality(1..n) = n /\ IsFiniteSet(1..n)
  BY <1>1, FS_Interval
<1>6. p \in SetToSeqs(1..n) /\ Sorts(p)
  BY <1>4, <1>5 DEF IsListing, SetToSeqs
<1> DEFINE order == BottomUp(chunks)
<1>7. order = CHOOSE f \in SetToSeqs(DOMAIN chunks) : Sorts(f)
  BY DEF BottomUp, Sorted, Lower
<1>8. order \in SetToSeqs(1..n) /\ Sorts(order)
  BY <1>1, <1>6, <1>7
<1> HIDE DEF order
<1>9. order \in [1..n -> 1..n] /\ \A k, l \in 1..n : k # l => order[k] # order[l]
  <2>1. order \in [1..n -> 1..n] /\ \A k, l \in 1..n : order[k] = order[l] => k = l
    BY <1>5, <1>8 DEF SetToSeqs
  <2> QED
    BY <2>1
<1>10. order \in Seq(1..n) /\ Len(order) = n
  BY <1>1, <1>9, ListIsSequence
<1>11. \A i \in 1..n : \E k \in 1..n : order[k] = i
  <2>1. order \in Injection(1..n, 1..n)
    <3>1. DOMAIN order = 1..n
      BY <1>9
    <3>2. \A k, l \in 1..n : order[k] = order[l] => k = l
      BY <1>9, Zenon
    <3>3. IsInjective(order)
      BY <3>1, <3>2, Zenon DEF IsInjective
    <3> QED
      BY <1>9, <3>3, Zenon DEF Injection
  <2>2. order \in Surjection(1..n, 1..n)
    BY <1>5, <2>1, FS_Injection
  <2> QED
    BY <2>2 DEF Surjection
<1>12. \A k, l \in 1..n : k < l => order[k] # order[l] /\ Lower(chunks, order[k], order[l])
  <2> SUFFICES ASSUME NEW k \in 1..n, NEW l \in 1..n, k < l
               PROVE  order[k] # order[l] /\ Lower(chunks, order[k], order[l])
    OBVIOUS
  <2>1. k # l
    BY <1>1
  <2> QED
    BY <1>8, <1>9, <2>1
<1> QED
  BY <1>9, <1>10, <1>11, <1>12 DEF IsBottomUp, order

-----------------------------------------------------------------------------
(* The states of the buffer while the chunks are applied.                  *)
IsApplied(g, chunks, order, state, n) ==
  \A s \in SUBSET (1..n) :
    g[s] = IF s = {} THEN state ELSE ReplaceChunk(g[s \ {Max(s)}], chunks[order[Max(s)]])

LEMMA AppliedExists ==
  ASSUME NEW chunks, NEW order, NEW state, NEW n \in Nat
  PROVE  \E D : \E g \in [SUBSET (1..n) -> D] : IsApplied(g, chunks, order, state, n)
<1> DEFINE P(k) == \E D : \E g \in [SUBSET (1..k) -> D] : IsApplied(g, chunks, order, state, k)
           S == {k \in Nat : P(k)}
<1>1. P(0)
  <2> DEFINE g == [s \in SUBSET (1..0) |-> state]
  <2>1. g \in [SUBSET (1..0) -> {state}]
    OBVIOUS
  <2>2. \A s \in SUBSET (1..0) : s = {}
    <3>1. 1..0 = {}
      OBVIOUS
    <3> QED
      BY <3>1
  <2>3. IsApplied(g, chunks, order, state, 0)
    BY <2>2 DEF IsApplied
  <2> HIDE DEF g
  <2> QED
    BY <2>1, <2>3
<1>2. ASSUME NEW k \in Nat, P(k)
      PROVE  P(k + 1)
  <2>0. PICK D : \E g \in [SUBSET (1..k) -> D] : IsApplied(g, chunks, order, state, k)
    BY <1>2, Zenon
  <2>1. PICK g \in [SUBSET (1..k) -> D] : IsApplied(g, chunks, order, state, k)
    BY <2>0, Zenon
  <2> DEFINE h == [s \in SUBSET (1..k + 1) |->
                     IF k + 1 \in s THEN ReplaceChunk(g[s \ {k + 1}], chunks[order[k + 1]])
                     ELSE g[s]]
             E == {h[s] : s \in SUBSET (1..k + 1)}
  <2>2. ASSUME NEW s \in SUBSET (1..k + 1)
        PROVE  /\ s \ {k + 1} \in SUBSET (1..k)
               /\ k + 1 \notin s => s \in SUBSET (1..k) /\ s \ {Max(s)} \in SUBSET (1..k)
    <3>1. \A i \in 1..k + 1 : i # k + 1 => i \in 1..k
      OBVIOUS
    <3>2. s \ {k + 1} \in SUBSET (1..k)
      BY <3>1
    <3>3. k + 1 \notin s => s \in SUBSET (1..k)
      BY <3>1
    <3> QED
      BY <3>2, <3>3, Zenon
  <2>3. h \in [SUBSET (1..k + 1) -> E]
    BY Zenon
  <2>4. ASSUME NEW s \in SUBSET (1..k + 1)
        PROVE  h[s] = IF s = {} THEN state
                      ELSE ReplaceChunk(h[s \ {Max(s)}], chunks[order[Max(s)]])
    <3>0. s \in SUBSET (1..k + 1)
      OBVIOUS
    <3>1. CASE k + 1 \in s
      <4>1. Max(s) = k + 1
        BY <3>1, MaxIsLast
      <4>2. s \ {k + 1} \in SUBSET (1..k + 1) /\ k + 1 \notin s \ {k + 1}
        OBVIOUS
      <4>3. h[s \ {k + 1}] = g[s \ {k + 1}]
        BY <4>2, Zenon
      <4>4. h[s] = ReplaceChunk(g[s \ {k + 1}], chunks[order[k + 1]])
        BY <3>0, <3>1, Zenon
      <4> HIDE DEF h
      <4> QED
        BY <3>1, <4>1, <4>3, <4>4
    <3>2. CASE k + 1 \notin s
      <4>1. s \in SUBSET (1..k) /\ s \ {Max(s)} \in SUBSET (1..k)
        BY <2>2, <3>2
      <4>2. g[s] = IF s = {} THEN state
                   ELSE ReplaceChunk(g[s \ {Max(s)}], chunks[order[Max(s)]])
        BY <2>1, <4>1 DEF IsApplied
      <4>3. s \ {Max(s)} \in SUBSET (1..k + 1) /\ k + 1 \notin s \ {Max(s)}
        BY <3>2
      <4>4. h[s] = g[s]
        BY <3>0, <3>2, Zenon
      <4>5. h[s \ {Max(s)}] = g[s \ {Max(s)}]
        BY <4>3, Zenon
      <4> HIDE DEF h
      <4> QED
        BY <4>2, <4>4, <4>5
    <3> QED
      BY <3>1, <3>2
  <2> HIDE DEF h
  <2>5. IsApplied(h, chunks, order, state, k + 1)
    BY <2>4 DEF IsApplied
  <2> QED
    BY <2>3, <2>5, Zenon
<1> HIDE DEF P
<1>3. 0 \in S /\ \A k \in Nat : k \in S => k + 1 \in S
  BY <1>1, <1>2
<1> HIDE DEF S
<1>4. n \in S
  BY <1>3, Induction
<1> QED
  BY <1>4 DEF S, P

LEMMA EditedStepwise ==
  ASSUME NEW chunks, NEW state, NEW n \in Nat, DOMAIN BottomUp(chunks) = 1..n
  PROVE  \E st : /\ st[0] = state /\ Edited(state, chunks) = st[n]
                 /\ \A k \in 1..n : st[k] = ReplaceChunk(st[k - 1], chunks[BottomUp(chunks)[k]])
<1> DEFINE order == BottomUp(chunks)
           Eq(g) == g = [s \in SUBSET (1..n) |->
                           IF s = {} THEN state
                           ELSE ReplaceChunk(g[s \ {Max(s)}], chunks[order[Max(s)]])]
           iter == CHOOSE g : Eq(g)
           st == [k \in 0..n |-> iter[1..k]]
<1> HIDE DEF order
<1>1. Edited(state, chunks) = iter[1..n]
  BY DEF Edited, FoldLeft, MapThenFoldSet, order
<1>11. PICK D : \E g \in [SUBSET (1..n) -> D] : IsApplied(g, chunks, order, state, n)
  BY AppliedExists
<1>2. PICK g \in [SUBSET (1..n) -> D] : IsApplied(g, chunks, order, state, n)
  BY <1>11, Zenon
<1>3. Eq(g)
  BY <1>2 DEF IsApplied
<1> HIDE DEF Eq
<1>4. Eq(iter)
  BY <1>3
<1> HIDE DEF iter
<1>5. st[0] = state
  <2>1. 1..0 = {} /\ 0 \in 0..n
    OBVIOUS
  <2> QED
    BY <1>4, <2>1 DEF Eq
<1>6. st[n] = iter[1..n]
  OBVIOUS
<1>7. ASSUME NEW k \in 1..n
      PROVE  st[k] = ReplaceChunk(st[k - 1], chunks[order[k]])
  <2>1. 1..k \in SUBSET (1..n) /\ 1..k # {} /\ k \in 1..k /\ k - 1 \in 0..n /\ k \in 0..n
    OBVIOUS
  <2>2. Max(1..k) = k
    <3>1. (k - 1) + 1 = k /\ k - 1 \in Nat
      OBVIOUS
    <3> QED
      BY <2>1, <3>1, MaxIsLast
  <2>3. (1..k) \ {k} = 1..(k - 1)
    OBVIOUS
  <2>4. iter[1..k] = ReplaceChunk(iter[(1..k) \ {Max(1..k)}], chunks[order[Max(1..k)]])
    BY <1>4, <2>1 DEF Eq
  <2>5. st[k] = iter[1..k] /\ st[k - 1] = iter[1..(k - 1)]
    BY <2>1
  <2> HIDE DEF st
  <2> QED
    BY <2>2, <2>3, <2>4, <2>5
<1> HIDE DEF st
<1> QED
  BY <1>1, <1>5, <1>6, <1>7 DEF order

-----------------------------------------------------------------------------
(* One chunk.  A chunk in the buffer fits a text.                          *)
Lines == Seq(Seq(Characters))

FitsIn(c, t) ==
  /\ c \in [start : Places, end : Places, lines : Lines] /\ c.lines # <<>>
  /\ c.start \in PlacesIn(t) /\ c.end \in PlacesIn(t) /\ AtOrBefore(c.start, c.end)

(* What is taken from the end of a sequence.                               *)
LEMMA TrimmedTo ==
  ASSUME NEW T, NEW a \in Seq(T), NEW S, NEW n \in 0..Len(a),
         \A o \in n + 1 .. Len(a) : a[o] \in S, n = 0 \/ a[n] \notin S
  PROVE  Trimmed(a, S) = SubSeq(a, 1, n)
<1> DEFINE ends == {k \in 0..Len(a) : \A o \in k + 1 .. Len(a) : a[o] \in S}
           least == CHOOSE k \in ends : \A m \in ends : k <= m
<1>1. Trimmed(a, S) = SubSeq(a, 1, least)
  BY Zenon DEF Trimmed, Min
<1>2. Len(a) \in Nat
  OBVIOUS
<1>3. ASSUME NEW m \in ends
      PROVE  n <= m
  <2> SUFFICES ASSUME m < n PROVE FALSE
    BY <1>2
  <2>1. m \in 0..Len(a) /\ \A o \in m + 1 .. Len(a) : a[o] \in S
    OBVIOUS
  <2>2. n \in m + 1 .. Len(a) /\ n # 0
    BY <1>2, <2>1
  <2> QED
    BY <2>1, <2>2
<1>4. n \in ends /\ \A k \in ends : k \in Nat
  BY <1>2
<1> HIDE DEF ends
<1>5. least \in ends /\ \A m \in ends : least <= m
  BY <1>3, <1>4
<1> HIDE DEF least
<1>6. least = n
  BY <1>3, <1>4, <1>5
<1> QED
  BY <1>1, <1>6

LEMMA TrimmedAt ==
  ASSUME NEW T, NEW a \in Seq(T), NEW S
  PROVE  \E n \in 0..Len(a) : /\ Trimmed(a, S) = SubSeq(a, 1, n)
                              /\ \A o \in n + 1 .. Len(a) : a[o] \in S
                              /\ n = 0 \/ a[n] \notin S
<1> DEFINE ends == {k \in Nat : k <= Len(a) /\ \A o \in k + 1 .. Len(a) : a[o] \in S}
<1>1. Len(a) \in Nat /\ Len(a) \in ends
  OBVIOUS
<1>2. PICK n \in ends : \A k \in ends : n <= k
  BY <1>1, LeastNumber
<1>3. n \in 0..Len(a) /\ \A o \in n + 1 .. Len(a) : a[o] \in S
  BY <1>1, <1>2
<1>4. n = 0 \/ a[n] \notin S
  <2> SUFFICES ASSUME n # 0, a[n] \in S PROVE FALSE
    OBVIOUS
  <2>1. n - 1 \in Nat /\ n - 1 <= Len(a) /\ (n - 1) + 1 = n /\ ~(n <= n - 1)
    BY <1>1, <1>3
  <2>2. \A o : o \in n .. Len(a) => o = n \/ o \in n + 1 .. Len(a)
    BY <1>1, <1>3
  <2>3. \A o \in (n - 1) + 1 .. Len(a) : a[o] \in S
    BY <1>3, <2>1, <2>2
  <2>4. n - 1 \in ends
    BY <2>1, <2>3
  <2> QED
    BY <1>2, <2>1, <2>4
<1>5. Trimmed(a, S) = SubSeq(a, 1, n)
  BY <1>3, <1>4, TrimmedTo
<1> QED
  BY <1>3, <1>4, <1>5

LEMMA TrimmedOfJoined ==
  ASSUME NEW T, NEW a \in Seq(T), NEW S, NEW z \in Seq(T), \A o \in 1..Len(z) : z[o] \in S,
         a = <<>> \/ a[Len(a)] \notin S
  PROVE  Trimmed(a \o z, S) = a
<1> DEFINE b == a \o z
           n == Len(a)
<1>1. /\ b \in Seq(T) /\ Len(b) = n + Len(z) /\ n \in Nat /\ Len(z) \in Nat
      /\ \A p \in 1..n : b[p] = a[p]
      /\ \A p \in (n + 1)..(n + Len(z)) : p - n \in 1..Len(z) /\ b[p] = z[p - n]
  BY Joining
<1>2. n = 0 \/ (n \in 1..n /\ a[n] \notin S)
  BY <1>1
<1>3. SubSeq(b, 1, n) = a
  <2>1. 1 \in 1..(n + 1) /\ n + 1 \in 1..(n + 1) /\ (n + 1) - 1 = n
    BY <1>1
  <2>2. Slice(a \o z, 1, n + 1) = Slice(a, 1, n + 1)
    BY <2>1, SliceOfFirst
  <2>3. SubSeq(a, 1, Len(a)) = a
    BY SubSeqFull
  <2> QED
    BY <2>1, <2>2, <2>3 DEF Slice
<1> HIDE DEF b, n
<1>4. n \in 0..Len(b) /\ (n = 0 \/ b[n] \notin S)
  BY <1>1, <1>2
<1>5. n \in 0..Len(b) /\ \A o \in n + 1 .. Len(b) : b[o] \in S
  BY <1>1
<1>6. Trimmed(b, S) = SubSeq(b, 1, n)
  BY <1>1, <1>4, <1>5, TrimmedTo
<1> QED
  BY <1>3, <1>6 DEF b

(* rstrip() leaves the lines before the last one that is not blank, and of *)
(* that line what comes before the blanks at its end.                      *)
IsStripped(s, w, m, k) ==
  /\ m \in 1..Len(w) /\ k \in 0..Len(w[m])
  /\ s = Append(SubSeq(w, 1, m - 1), SubSeq(w[m], 1, k))
  /\ \A o \in k + 1 .. Len(w[m]) : w[m][o] \in Blanks
  /\ k = 0 \/ w[m][k] \notin Blanks
  /\ k = 0 => m = 1
  /\ \A l \in m + 1 .. Len(w) : \A o \in 1..Len(w[l]) : w[l][o] \in Blanks

LEMMA StrippedParts ==
  ASSUME NEW w \in Lines, w # <<>>
  PROVE  \E m, k : IsStripped(Stripped(w), w, m, k)
<1> DEFINE n == Len(w)
           bare == [l \in 1..n |-> Trimmed(w[l], Blanks)]
           full == {l \in 1..n : bare[l] # <<>>}
           last == Max({1} \union full)
<1>1. n \in Nat \ {0} /\ w \in Seq(Seq(Characters)) /\ DOMAIN w = 1..n
      /\ \A l \in 1..n : w[l] \in Seq(Characters) /\ Len(w[l]) \in Nat
  BY DEF Lines
<1>2. Stripped(w) = Append(SubSeq(w, 1, last - 1), bare[last])
  BY <1>1, Zenon DEF Stripped
<1>3. \A l \in 1..n : bare[l] = Trimmed(w[l], Blanks)
  OBVIOUS
<1>4. {1} \union full \in SUBSET (1..n) /\ {1} \union full # {}
  BY <1>1
<1>5. last \in {1} \union full /\ \A l \in {1} \union full : last >= l
  BY <1>1, <1>4, MaxIsIn
<1> HIDE DEF last, bare
<1>6. last \in 1..n /\ (bare[last] = <<>> => last = 1)
  BY <1>1, <1>5
<1>7. \A l \in last + 1 .. n : l \in 1..n /\ bare[l] = <<>>
  <2> SUFFICES ASSUME NEW l \in last + 1 .. n PROVE l \in 1..n /\ bare[l] = <<>>
    OBVIOUS
  <2>1. l \in 1..n /\ ~(last >= l)
    BY <1>1, <1>6
  <2> QED
    BY <1>5, <2>1
<1> HIDE DEF full
<1>8. PICK k \in 0..Len(w[last]) : /\ Trimmed(w[last], Blanks) = SubSeq(w[last], 1, k)
                                   /\ \A o \in k + 1 .. Len(w[last]) : w[last][o] \in Blanks
                                   /\ k = 0 \/ w[last][k] \notin Blanks
  BY <1>1, <1>6, TrimmedAt
<1>9. k = 0 => last = 1
  <2>1. k = 0 => SubSeq(w[last], 1, k) = <<>>
    BY SubSeqEmpty
  <2> QED
    BY <1>3, <1>6, <1>8, <2>1
<1>10. \A l \in last + 1 .. n : \A o \in 1..Len(w[l]) : w[l][o] \in Blanks
  <2> SUFFICES ASSUME NEW l \in last + 1 .. n, NEW o \in 1..Len(w[l]) PROVE w[l][o] \in Blanks
    OBVIOUS
  <2>1. l \in 1..n /\ Trimmed(w[l], Blanks) = <<>>
    BY <1>3, <1>7
  <2>2. PICK j \in 0..Len(w[l]) : /\ Trimmed(w[l], Blanks) = SubSeq(w[l], 1, j)
                                  /\ \A p \in j + 1 .. Len(w[l]) : w[l][p] \in Blanks
    BY <1>1, <2>1, TrimmedAt
  <2>3. j = 0
    <3>1. w[l] \in Seq(Characters) /\ Len(w[l]) \in Nat /\ j \in (1 - 1)..Len(w[l]) /\ 1 \in 1..(Len(w[l]) + 1)
      BY <1>1, <2>1
    <3>2. Len(SubSeq(w[l], 1, j)) = j
      BY <3>1
    <3>3. Len(SubSeq(w[l], 1, j)) = 0
      BY <2>1, <2>2
    <3> QED
      BY <3>2, <3>3
  <2> QED
    BY <2>2, <2>3
<1> DEFINE s == Stripped(w)
<1>11. s = Append(SubSeq(w, 1, last - 1), SubSeq(w[last], 1, k))
  BY <1>2, <1>3, <1>6, <1>8
<1> HIDE DEF s, n
<1>12. IsStripped(s, w, last, k)
  BY <1>6, <1>8, <1>9, <1>10, <1>11 DEF IsStripped, n
<1> QED
  BY <1>12 DEF s

LEMMA StrippedLines ==
  ASSUME NEW w \in Lines, w # <<>>
  PROVE  Stripped(w) \in Lines /\ Stripped(w) # <<>>
<1> DEFINE s == Stripped(w)
<1>1. PICK m, k : IsStripped(s, w, m, k)
  BY StrippedParts
<1> HIDE DEF s
<1>2. m \in 1..Len(w) /\ k \in 0..Len(w[m]) /\ s = Append(SubSeq(w, 1, m - 1), SubSeq(w[m], 1, k))
  BY <1>1, Zenon DEF IsStripped
<1>3. w \in Seq(Seq(Characters)) /\ w[m] \in Seq(Characters) /\ Len(w) \in Nat /\ Len(w[m]) \in Nat
  BY <1>2 DEF Lines
<1> DEFINE h == SubSeq(w, 1, m - 1)
           r == SubSeq(w[m], 1, k)
<1>4. h \in Seq(Seq(Characters))
  BY <1>2, <1>3
<1>5. r \in Seq(Characters)
  BY <1>2, <1>3
<1> HIDE DEF h, r
<1>6. Append(h, r) \in Seq(Seq(Characters)) /\ Append(h, r) # <<>>
  BY <1>4, <1>5
<1> QED
  BY <1>2, <1>6 DEF Lines, h, r, s

LEMMA EndOfText ==
  ASSUME NEW t \in Lines, t # <<>>
  PROVE  /\ Len(t) \in Nat \ {0} /\ t[Len(t)] \in Seq(Characters) /\ Len(t[Len(t)]) \in Nat
         /\ Place(Len(t), Len(t[Len(t)]) + 1) \in PlacesIn(t)
         /\ Place(Len(t), 1) \in PlacesIn(t)
         /\ Place(Len(t), Len(t[Len(t)]) + 1) \in Places /\ Place(Len(t), 1) \in Places
         /\ \A p \in PlacesIn(t) : AtOrBefore(p, Place(Len(t), Len(t[Len(t)]) + 1))
<1>0. t \in Seq(Seq(Characters))
  BY DEF Lines
<1>1. Len(t) \in Nat \ {0} /\ t[Len(t)] \in Seq(Characters) /\ Len(t[Len(t)]) \in Nat
  BY <1>0
<1> DEFINE p == Place(Len(t), Len(t[Len(t)]) + 1)
           q == Place(Len(t), 1)
<1>2. p \in Places /\ q \in Places
  BY <1>1 DEF Place, Places
<1>3. p.line = Len(t) /\ p.column = Len(t[Len(t)]) + 1 /\ q.line = Len(t) /\ q.column = 1
  BY DEF Place
<1> HIDE DEF p, q
<1>41. p.column \in 1..(Len(t[p.line]) + 1) /\ p.line \in 1..Len(t)
  BY <1>1, <1>3
<1>42. q.column \in 1..(Len(t[q.line]) + 1) /\ q.line \in 1..Len(t)
  BY <1>1, <1>3
<1>4. p \in PlacesIn(t) /\ q \in PlacesIn(t)
  BY <1>0, <1>2, <1>41, <1>42, PlaceInText
<1>5. ASSUME NEW r \in PlacesIn(t)
      PROVE  AtOrBefore(r, p)
  <2>1. r \in Places /\ r.line \in 1..Len(t) /\ r.column \in 1..(Len(t[r.line]) + 1)
    BY <1>0, PlaceInText
  <2> QED
    BY <1>1, <1>3, <2>1 DEF AtOrBefore, Places
<1> QED
  BY <1>1, <1>2, <1>4, <1>5 DEF p, q

(* The three ways in which a chunk gets into the buffer.                   *)
LEMMA WithinText ==
  ASSUME NEW t \in Lines, t # <<>>, NEW chunk, IsChunk(chunk, t)
  PROVE  /\ chunk.end.line <= Len(t) => Within(chunk, t) = chunk
         /\ chunk.end.line > Len(t) /\ chunk.start.line <= Len(t) =>
              Within(chunk, t) = [start |-> chunk.start,
                                  end |-> Place(Len(t), Len(t[Len(t)]) + 1),
                                  lines |-> Stripped(chunk.lines)]
         /\ chunk.end.line > Len(t) /\ chunk.start.line > Len(t) =>
              Within(chunk, t) = [start |-> Place(Len(t), 1),
                                  end |-> Place(Len(t), Len(t[Len(t)]) + 1),
                                  lines |-> <<t[Len(t)]>> \o Stripped(chunk.lines)]
<1> DEFINE N == Len(t)
           p == Place(N, Len(t[N]) + 1)
<1>1. /\ chunk \in [start : Places, end : Places, lines : Seq(Seq(Characters))]
      /\ N \in Nat
      /\ AtOrBefore(chunk.start, chunk.end)
  BY DEF IsChunk, Lines
<1>2. chunk.start.line \in Nat /\ chunk.end.line \in Nat /\ chunk.start.line <= chunk.end.line
  BY <1>1 DEF AtOrBefore, Places
<1>3. CASE chunk.end.line <= N
  BY <1>1, <1>2, <1>3 DEF Within
<1>4. CASE chunk.end.line > N
  <2> DEFINE ended == [chunk EXCEPT !.end = p, !.lines = Stripped(@)]
  <2>1. ~(chunk.end.line <= N)
    BY <1>1, <1>2, <1>4
  <2>2. ended = [start |-> chunk.start, end |-> p, lines |-> Stripped(chunk.lines)]
    <3> DEFINE s == Stripped(chunk.lines)
               mid == [chunk EXCEPT !.end = p]
    <3>1. chunk = [start |-> chunk.start, end |-> chunk.end, lines |-> chunk.lines]
      BY <1>1
    <3>2. ended = [mid EXCEPT !.lines = s]
      BY DEF ended, mid, s
    <3> HIDE DEF p, ended, s
    <3>3. mid = [start |-> chunk.start, end |-> p, lines |-> chunk.lines]
      BY <3>1
    <3> HIDE DEF mid
    <3>4. [mid EXCEPT !.lines = s] = [start |-> chunk.start, end |-> p, lines |-> s]
      BY <3>3
    <3> QED
      BY <3>2, <3>4 DEF s
  <2>3. Within(chunk, t) =
          IF ended.start.line <= N THEN ended
          ELSE [ended EXCEPT !.start = Place(N, 1), !.lines = <<t[N]>> \o @]
    BY <2>1 DEF Within
  <2>4. ended.start = chunk.start
    BY <2>2
  <2>5. CASE chunk.start.line <= N
    BY <1>4, <2>1, <2>2, <2>3, <2>4, <2>5, <1>2, <1>1
  <2>6. CASE chunk.start.line > N
    <3>1. ~(ended.start.line <= N)
      BY <1>1, <1>2, <2>4, <2>6
    <3>2. Within(chunk, t) = [ended EXCEPT !.start = Place(N, 1), !.lines = <<t[N]>> \o @]
      BY <2>3, <3>1
    <3>3. [ended EXCEPT !.start = Place(N, 1), !.lines = <<t[N]>> \o @]
            = [start |-> Place(N, 1), end |-> p, lines |-> <<t[N]>> \o Stripped(chunk.lines)]
      <4> DEFINE s == Stripped(chunk.lines)
                 q == Place(N, 1)
                 u == <<t[N]>> \o s
                 mid == [ended EXCEPT !.start = q]
      <4>1. ended.lines = s
        BY <2>2
      <4>2. [ended EXCEPT !.start = Place(N, 1), !.lines = <<t[N]>> \o @]
              = [mid EXCEPT !.lines = u]
        <5>1. [ended EXCEPT !.start = Place(N, 1), !.lines = <<t[N]>> \o @]
                = [mid EXCEPT !.lines = <<t[N]>> \o ended.lines]
          OBVIOUS
        <5> HIDE DEF ended, mid, s
        <5> QED
          BY <4>1, <5>1
      <4> HIDE DEF p, s, q, u, ended
      <4>3. mid = [start |-> q, end |-> p, lines |-> s]
        BY <2>2 DEF s
      <4> HIDE DEF mid
      <4>4. [mid EXCEPT !.lines = u] = [start |-> q, end |-> p, lines |-> u]
        BY <4>3
      <4> QED
        BY <4>2, <4>4 DEF q, u, s
    <3> QED
      BY <1>1, <1>2, <1>4, <2>1, <2>6, <3>2, <3>3
  <2> QED
    BY <1>1, <1>2, <2>5, <2>6
<1> QED
  BY <1>1, <1>2, <1>3, <1>4

LEMMA WithinFits ==
  ASSUME NEW t \in Lines, t # <<>>, NEW chunk, IsChunk(chunk, t)
  PROVE  FitsIn(Within(chunk, t), t)
<1> DEFINE N == Len(t)
           p == Place(N, Len(t[N]) + 1)
           q == Place(N, 1)
<1>0. t \in Seq(Seq(Characters))
  BY DEF Lines
<1>1. /\ chunk \in [start : Places, end : Places, lines : Lines] /\ chunk.lines # <<>>
      /\ chunk.start \in Ends(t) /\ chunk.end \in Ends(t) /\ AtOrBefore(chunk.start, chunk.end)
  BY DEF IsChunk, Lines
<1>2. /\ N \in Nat \ {0} /\ t[N] \in Seq(Characters) /\ p \in PlacesIn(t) /\ q \in PlacesIn(t)
      /\ p \in Places /\ q \in Places
      /\ \A r \in PlacesIn(t) : AtOrBefore(r, p)
  BY EndOfText
<1>3. chunk.start.line \in Nat /\ chunk.end.line \in Nat /\ chunk.start.line <= chunk.end.line
  BY <1>1 DEF AtOrBefore, Places
<1>4. /\ chunk.start.line <= N => chunk.start \in PlacesIn(t)
      /\ chunk.end.line <= N => chunk.end \in PlacesIn(t)
  BY <1>0, <1>1, EndsOfText
<1>5. Stripped(chunk.lines) \in Lines /\ Stripped(chunk.lines) # <<>>
  BY <1>1, StrippedLines
<1> HIDE DEF p, q
<1>6. CASE chunk.end.line <= N
  <2>1. Within(chunk, t) = chunk
    BY <1>6, WithinText
  <2>2. chunk.start \in PlacesIn(t) /\ chunk.end \in PlacesIn(t)
    BY <1>2, <1>3, <1>4, <1>6
  <2> QED
    BY <1>1, <2>1, <2>2 DEF FitsIn
<1>7. CASE chunk.end.line > N /\ chunk.start.line <= N
  <2>1. Within(chunk, t) = [start |-> chunk.start, end |-> p, lines |-> Stripped(chunk.lines)]
    BY <1>7, WithinText DEF p
  <2>2. chunk.start \in PlacesIn(t) /\ AtOrBefore(chunk.start, p)
    BY <1>2, <1>4, <1>7
  <2> QED
    BY <1>1, <1>2, <1>5, <2>1, <2>2 DEF FitsIn
<1>8. CASE chunk.end.line > N /\ chunk.start.line > N
  <2>1. Within(chunk, t) = [start |-> q, end |-> p, lines |-> <<t[N]>> \o Stripped(chunk.lines)]
    BY <1>8, WithinText DEF p, q
  <2>2. AtOrBefore(q, p)
    BY <1>2
  <2>3. <<t[N]>> \o Stripped(chunk.lines) \in Lines /\ <<t[N]>> \o Stripped(chunk.lines) # <<>>
    <3>1. <<t[N]>> \in Seq(Seq(Characters)) /\ Len(<<t[N]>>) = 1
      BY <1>2
    <3>2. /\ <<t[N]>> \o Stripped(chunk.lines) \in Seq(Seq(Characters))
          /\ Len(<<t[N]>> \o Stripped(chunk.lines)) = 1 + Len(Stripped(chunk.lines))
          /\ Len(Stripped(chunk.lines)) \in Nat
      BY <1>5, <3>1, Joining DEF Lines
    <3> QED
      BY <3>2 DEF Lines
  <2> QED
    BY <1>2, <2>1, <2>2, <2>3 DEF FitsIn
<1> QED
  BY <1>2, <1>3, <1>6, <1>7, <1>8

(* The lines that a chunk puts in place of those it touches.               *)
HeadOf(c, t) == SubSeq(t[c.start.line], 1, c.start.column - 1)

TailOf(c, t) == SubSeq(t[c.end.line], c.end.column, Len(t[c.end.line]))

LEMMA PartsOfLines ==
  ASSUME NEW t \in Lines, NEW c, FitsIn(c, t)
  PROVE  /\ c.start.line \in 1..Len(t) /\ c.end.line \in 1..Len(t) /\ c.start.line <= c.end.line
         /\ c.start.column \in 1..(Len(t[c.start.line]) + 1)
         /\ c.end.column \in 1..(Len(t[c.end.line]) + 1)
         /\ t[c.start.line] \in Seq(Characters) /\ t[c.end.line] \in Seq(Characters)
         /\ Len(t[c.start.line]) \in Nat /\ Len(t[c.end.line]) \in Nat /\ Len(t) \in Nat
         /\ HeadOf(c, t) \in Seq(Characters) /\ Len(HeadOf(c, t)) = c.start.column - 1
         /\ \A k \in 1..(c.start.column - 1) : HeadOf(c, t)[k] = t[c.start.line][k]
         /\ TailOf(c, t) \in Seq(Characters)
         /\ Len(TailOf(c, t)) = Len(t[c.end.line]) - c.end.column + 1
         /\ c.lines \in Seq(Seq(Characters)) /\ Len(c.lines) \in Nat \ {0}
<1>0. t \in Seq(Seq(Characters)) /\ Len(t) \in Nat
  BY DEF Lines
<1>1. c \in [start : Places, end : Places, lines : Seq(Seq(Characters))] /\ c.lines # <<>>
  BY DEF FitsIn, Lines
<1>2. c.start \in PlacesIn(t) /\ c.end \in PlacesIn(t) /\ AtOrBefore(c.start, c.end)
  BY DEF FitsIn
<1>3. /\ c.start \in Places /\ c.start.line \in 1..Len(t)
      /\ c.start.column \in 1..(Len(t[c.start.line]) + 1)
  BY <1>0, <1>2, PlaceInText
<1>4. /\ c.end \in Places /\ c.end.line \in 1..Len(t)
      /\ c.end.column \in 1..(Len(t[c.end.line]) + 1)
  BY <1>0, <1>2, PlaceInText
<1>5. c.start.line <= c.end.line
  BY <1>0, <1>2, <1>3, <1>4 DEF AtOrBefore
<1>6. t[c.start.line] \in Seq(Characters) /\ t[c.end.line] \in Seq(Characters)
  BY <1>0, <1>3, <1>4
<1> DEFINE a == t[c.start.line]
           b == t[c.end.line]
           i == c.start.column
           j == c.end.column
<1>7. a \in Seq(Characters) /\ b \in Seq(Characters) /\ Len(a) \in Nat /\ Len(b) \in Nat
      /\ i \in 1..(Len(a) + 1) /\ j \in 1..(Len(b) + 1)
  BY <1>3, <1>4, <1>6, SMTT(40)
<1>8. c.lines \in Seq(Seq(Characters)) /\ Len(c.lines) \in Nat \ {0}
  BY <1>1
<1> HIDE DEF a, b, i, j
<1>9. SubSeq(a, 1, i - 1) \in Seq(Characters) /\ Len(SubSeq(a, 1, i - 1)) = i - 1
  BY <1>7
<1>10. \A k \in 1..(i - 1) : SubSeq(a, 1, i - 1)[k] = a[k]
  BY <1>7
<1>11. SubSeq(b, j, Len(b)) \in Seq(Characters) /\ Len(SubSeq(b, j, Len(b))) = Len(b) - j + 1
  BY <1>7
<1> QED
  BY <1>0, <1>3, <1>4, <1>5, <1>6, <1>7, <1>8, <1>9, <1>10, <1>11, Zenon DEF HeadOf, TailOf, a, b, i, j

IsJoined(new, head, w, tail) ==
  /\ new \in Lines /\ Len(new) = Len(w)
  /\ \A i \in 1..Len(w) :
       new[i] = IF i = 1 THEN (IF i = Len(w) THEN (head \o w[i]) \o tail ELSE head \o w[i])
                ELSE IF i = Len(w) THEN w[i] \o tail ELSE w[i]

LEMMA LinesJoined ==
  ASSUME NEW t \in Lines, NEW c, FitsIn(c, t)
  PROVE  IsJoined(Joined(c, t), HeadOf(c, t), c.lines, TailOf(c, t))
<1> DEFINE w == c.lines
           n == Len(w)
           head == HeadOf(c, t)
           tail == TailOf(c, t)
           first == [w EXCEPT ![1] = head \o w[1]]
           new == [first EXCEPT ![n] = first[n] \o tail]
<1>1. head \in Seq(Characters) /\ tail \in Seq(Characters) /\ w \in Seq(Seq(Characters)) /\ n \in Nat \ {0}
  BY PartsOfLines
<1>2. Joined(c, t) = [first EXCEPT ![Len(first)] = first[Len(first)] \o tail]
  BY Zenon DEF Joined, HeadOf, TailOf
<1> HIDE DEF head, tail, w
<1>3. \A i \in 1..n : w[i] \in Seq(Characters) /\ head \o w[i] \in Seq(Characters)
  <2> SUFFICES ASSUME NEW i \in 1..n
               PROVE  w[i] \in Seq(Characters) /\ head \o w[i] \in Seq(Characters)
    OBVIOUS
  <2>1. w[i] \in Seq(Characters)
    BY <1>1
  <2> QED
    BY <1>1, <2>1, Joining
<1>4. w \in [1..n -> Seq(Characters)] /\ 1 \in 1..n /\ n \in 1..n
  BY <1>1
<1>5. first \in [1..n -> Seq(Characters)]
  BY <1>1, <1>3, <1>4
<1>6. \A i \in 1..n : first[i] = IF i = 1 THEN head \o w[i] ELSE w[i]
  BY <1>1, <1>4
<1> HIDE DEF first
<1>7. Len(first) = n
  BY <1>1, <1>5, ListIsSequence
<1>8. Joined(c, t) = new
  BY <1>2, <1>7
<1>9. first[n] \o tail \in Seq(Characters)
  <2>1. first[n] \in Seq(Characters)
    BY <1>1, <1>4, <1>5
  <2> QED
    BY <1>1, <2>1, Joining
<1>10. new \in [1..n -> Seq(Characters)] /\ \A i \in 1..n : new[i] = IF i = n THEN first[i] \o tail ELSE first[i]
  BY <1>4, <1>5, <1>9
<1> HIDE DEF new
<1>11. new \in Seq(Seq(Characters)) /\ Len(new) = n
  BY <1>1, <1>10, ListIsSequence
<1>12. ASSUME NEW i \in 1..n
       PROVE  new[i] = IF i = 1 THEN (IF i = n THEN (head \o w[i]) \o tail ELSE head \o w[i])
                       ELSE IF i = n THEN w[i] \o tail ELSE w[i]
  <2>1. first[i] = IF i = 1 THEN head \o w[i] ELSE w[i]
    BY <1>6
  <2>2. new[i] = IF i = n THEN first[i] \o tail ELSE first[i]
    BY <1>10
  <2> QED
    BY <2>1, <2>2, Zenon
<1>13. IsJoined(new, head, w, tail)
  BY <1>11, <1>12 DEF IsJoined, Lines
<1> QED
  BY <1>8, <1>13 DEF head, tail, w

(* The text with the lines lo..hi replaced.                                *)
Spliced(t, lo, hi, new) == SubSeq(t, 1, lo - 1) \o new \o SubSeq(t, hi + 1, Len(t))

LEMMA SplicedLines ==
  ASSUME NEW t \in Lines, NEW new \in Lines, NEW lo \in 1..Len(t), NEW hi \in lo..Len(t)
  PROVE  LET r == Spliced(t, lo, hi, new)
             m == Len(new)
         IN /\ r \in Lines /\ Len(r) = (lo - 1) + m + (Len(t) - hi)
            /\ \A l \in 1..(lo - 1) : r[l] = t[l]
            /\ \A i \in 1..m : r[(lo - 1) + i] = new[i]
            /\ \A l \in (hi + 1)..Len(t) : r[(l - hi) + ((lo - 1) + m)] = t[l]
<1> DEFINE a == SubSeq(t, 1, lo - 1)
           b == SubSeq(t, hi + 1, Len(t))
           ab == a \o new
           m == Len(new)
           r == ab \o b
<1>1. t \in Seq(Seq(Characters)) /\ new \in Seq(Seq(Characters)) /\ m \in Nat /\ Len(t) \in Nat
  BY DEF Lines
<1>2. lo \in Nat /\ hi \in Nat /\ 1 <= lo /\ lo <= hi /\ hi <= Len(t)
  BY <1>1
<1>3. a \in Seq(Seq(Characters)) /\ Len(a) = lo - 1 /\ \A l \in 1..(lo - 1) : a[l] = t[l]
  BY <1>1, <1>2
<1>4. /\ b \in Seq(Seq(Characters)) /\ Len(b) = Len(t) - hi
      /\ \A l \in (hi + 1)..Len(t) : l - hi \in 1..(Len(t) - hi) /\ b[l - hi] = t[l]
  <2>1. b \in Seq(Seq(Characters)) /\ Len(b) = Len(t) - hi
    BY <1>1, <1>2
  <2>2. ASSUME NEW l \in (hi + 1)..Len(t)
        PROVE  l - hi \in 1..(Len(t) - hi) /\ b[l - hi] = t[l]
    <3>1. l - hi \in 1..(Len(t) - hi)
      BY <1>1, <1>2
    <3>2. \A k \in 1..(Len(t) - hi) : b[k] = t[hi + 1 + k - 1]
      BY <1>1, <1>2
    <3>3. hi + 1 + (l - hi) - 1 = l
      BY <1>1, <1>2
    <3> QED
      BY <3>1, <3>2, <3>3
  <2> QED
    BY <2>1, <2>2
<1> HIDE DEF a, b
<1>5. /\ ab \in Seq(Seq(Characters)) /\ Len(ab) = (lo - 1) + m
      /\ \A l \in 1..(lo - 1) : ab[l] = a[l]
      /\ \A i \in (lo - 1) + 1 .. (lo - 1) + m : ab[i] = new[i - (lo - 1)]
  <2>1. /\ ab \in Seq(Seq(Characters)) /\ Len(ab) = Len(a) + m
        /\ \A l \in 1..Len(a) : ab[l] = a[l]
        /\ \A i \in (Len(a) + 1)..(Len(a) + m) : ab[i] = new[i - Len(a)]
    BY <1>1, <1>3, Joining, ZenonT(60)
  <2> HIDE DEF ab
  <2> QED
    BY <1>3, <2>1
<1> HIDE DEF ab
<1>6. /\ r \in Seq(Seq(Characters)) /\ Len(r) = (lo - 1) + m + (Len(t) - hi)
      /\ \A l \in 1..Len(ab) : r[l] = ab[l]
      /\ \A i \in (Len(ab) + 1)..(Len(ab) + Len(b)) : r[i] = b[i - Len(ab)]
  <2>1. /\ r \in Seq(Seq(Characters)) /\ Len(r) = Len(ab) + Len(b)
        /\ \A l \in 1..Len(ab) : r[l] = ab[l]
        /\ \A i \in (Len(ab) + 1)..(Len(ab) + Len(b)) : r[i] = b[i - Len(ab)]
    <3>1. ab \in Seq(Seq(Characters)) /\ b \in Seq(Seq(Characters))
      BY <1>4, <1>5
    <3> QED
      BY <3>1, Joining, Zenon
  <2> HIDE DEF r
  <2>2. Len(r) = (lo - 1) + m + (Len(t) - hi)
    BY <1>1, <1>2, <1>4, <1>5, <2>1
  <2> QED
    BY <2>1, <2>2, Zenon
<1>7. r = Spliced(t, lo, hi, new)
  BY DEF Spliced, a, b, ab
<1> HIDE DEF r
<1>8. ASSUME NEW l \in 1..(lo - 1)
      PROVE  r[l] = t[l]
  <2>1. l \in 1..Len(ab)
    BY <1>1, <1>2, <1>5
  <2> QED
    BY <1>3, <1>5, <1>6, <2>1
<1>9. ASSUME NEW i \in 1..m
      PROVE  r[(lo - 1) + i] = new[i]
  <2>1. (lo - 1) + i \in (lo - 1) + 1 .. (lo - 1) + m /\ (lo - 1) + i \in 1..Len(ab)
    BY <1>1, <1>2, <1>5
  <2>2. ((lo - 1) + i) - (lo - 1) = i
    BY <1>1, <1>2
  <2>3. r[(lo - 1) + i] = ab[(lo - 1) + i] /\ ab[(lo - 1) + i] = new[((lo - 1) + i) - (lo - 1)]
    BY <1>5, <1>6, <2>1
  <2> QED
    BY <2>2, <2>3
<1>10. ASSUME NEW l \in (hi + 1)..Len(t)
       PROVE  r[(l - hi) + ((lo - 1) + m)] = t[l]
  <2> DEFINE i == (l - hi) + ((lo - 1) + m)
  <2>1. i \in (Len(ab) + 1)..(Len(ab) + Len(b)) /\ i - Len(ab) = l - hi
    <3> DEFINE j == Len(ab)
               k == Len(b)
               n == Len(t)
    <3>1. /\ lo \in Nat /\ hi \in Nat /\ m \in Nat /\ n \in Nat /\ l \in Nat
          /\ j = (lo - 1) + m /\ k = n - hi /\ hi + 1 <= l /\ l <= n
      BY <1>1, <1>2, <1>4, <1>5
    <3> HIDE DEF j, k, n, m
    <3>2. i \in (j + 1)..(j + k) /\ i - j = l - hi
      BY <3>1
    <3> QED
      BY <3>2 DEF j, k
  <2> HIDE DEF i
  <2>2. r[i] = b[l - hi]
    BY <1>6, <2>1
  <2> QED
    BY <1>4, <2>2 DEF i
<1> QED
  BY <1>6, <1>7, <1>8, <1>9, <1>10 DEF Lines

-----------------------------------------------------------------------------
(* r is what t is up to the place e.                                       *)
Reached(r, t, e) ==
  /\ e \in PlacesIn(r) /\ e.line - 1 <= Len(t)
  /\ \A l \in 1..(e.line - 1) : r[l] = t[l]
  /\ \A k \in 1..(e.column - 1) :
       e.line <= Len(t) /\ k <= Len(t[e.line]) /\ r[e.line][k] = t[e.line][k]

LEMMA ReachedBack ==
  ASSUME NEW r \in Lines, NEW t \in Lines, NEW e, Reached(r, t, e),
         NEW p \in Ends(t), AtOrBefore(p, e)
  PROVE  p \in PlacesIn(r)
<1>0. r \in Seq(Seq(Characters)) /\ t \in Seq(Seq(Characters)) /\ Len(t) \in Nat
  BY DEF Lines
<1>1. /\ e \in Places /\ e.line \in 1..Len(r) /\ e.column \in 1..(Len(r[e.line]) + 1)
      /\ Len(r) \in Nat /\ Len(r[e.line]) \in Nat
  <2>1. e \in PlacesIn(r)
    BY DEF Reached
  <2>2. e \in Places /\ e.line \in 1..Len(r) /\ e.column \in 1..(Len(r[e.line]) + 1)
    BY <1>0, <2>1, PlaceInText
  <2> QED
    BY <1>0, <2>2
<1>2. p \in Places /\ p.line >= 1 /\ p.column >= 1 /\ (p.line <= Len(t) => p \in PlacesIn(t))
  BY <1>0, EndsOfText
<1>3. CASE p.line < e.line
  <2>1. e.line - 1 <= Len(t) /\ \A l \in 1..(e.line - 1) : r[l] = t[l]
    BY DEF Reached
  <2>2. p.line <= Len(t) /\ r[p.line] = t[p.line] /\ p.line \in 1..Len(r)
    <3>1. p.line \in Nat /\ e.line \in Nat
      BY <1>1, <1>2 DEF Places
    <3>4. e.line - 1 <= Len(t) /\ e.line <= Len(r) /\ 1 <= p.line /\ Len(r) \in Nat
      BY <1>1, <1>2, <2>1
    <3>5. Len(t) \in Nat
      BY <1>0
    <3>2. p.line <= Len(t) /\ p.line \in 1..(e.line - 1) /\ p.line \in 1..Len(r)
      <4> DEFINE i == p.line
                 j == e.line
      <4>1. i \in Nat /\ j \in Nat /\ i < j /\ j - 1 <= Len(t) /\ j <= Len(r) /\ 1 <= i
        BY <1>3, <3>1, <3>4
      <4> HIDE DEF i, j
      <4>2. i <= Len(t) /\ i \in 1..(j - 1) /\ i \in 1..Len(r)
        BY <3>4, <3>5, <4>1
      <4> QED
        BY <4>2 DEF i, j
    <3> QED
      BY <2>1, <3>2
  <2>3. p.column \in 1..(Len(t[p.line]) + 1)
    BY <1>0, <1>2, <2>2, PlaceInText
  <2> QED
    BY <1>0, <1>2, <2>2, <2>3, PlaceInText
<1>4. CASE p.line = e.line /\ p.column <= e.column
  <2>1. p.column \in 1..(Len(r[p.line]) + 1)
    BY <1>1, <1>2, <1>4 DEF Places
  <2> QED
    BY <1>0, <1>1, <1>2, <1>4, <2>1, PlaceInText
<1> QED
  BY <1>3, <1>4 DEF AtOrBefore

LEMMA ReachedFurther ==
  ASSUME NEW u \in Lines, NEW r \in Lines, NEW t \in Lines, NEW e, NEW p,
         Reached(r, t, e), Reached(u, r, p), AtOrBefore(p, e)
  PROVE  Reached(u, t, p)
<1>0. /\ u \in Seq(Seq(Characters)) /\ r \in Seq(Seq(Characters)) /\ t \in Seq(Seq(Characters))
      /\ Len(t) \in Nat /\ Len(r) \in Nat
  BY DEF Lines
<1>1. /\ e \in Places /\ p \in Places /\ p.line >= 1 /\ p.column >= 1
  <2>1. e \in PlacesIn(r) /\ p \in PlacesIn(u)
    BY DEF Reached
  <2> QED
    BY <1>0, <2>1, PlaceInText
<1>2. /\ e.line - 1 <= Len(t)
      /\ \A l \in 1..(e.line - 1) : r[l] = t[l]
      /\ \A k \in 1..(e.column - 1) :
           e.line <= Len(t) /\ k <= Len(t[e.line]) /\ r[e.line][k] = t[e.line][k]
  BY DEF Reached
<1>3. /\ p \in PlacesIn(u) /\ p.line - 1 <= Len(r)
      /\ \A l \in 1..(p.line - 1) : u[l] = r[l]
      /\ \A k \in 1..(p.column - 1) :
           p.line <= Len(r) /\ k <= Len(r[p.line]) /\ u[p.line][k] = r[p.line][k]
  BY DEF Reached
<1>4. p.line <= e.line
  BY <1>1 DEF AtOrBefore, Places
<1>5. p.line - 1 <= Len(t) /\ \A l \in 1..(p.line - 1) : u[l] = t[l]
  BY <1>0, <1>1, <1>2, <1>3, <1>4 DEF Places
<1>6. ASSUME NEW k \in 1..(p.column - 1)
      PROVE  p.line <= Len(t) /\ k <= Len(t[p.line]) /\ u[p.line][k] = t[p.line][k]
  <2>1. p.line <= Len(r) /\ k <= Len(r[p.line]) /\ u[p.line][k] = r[p.line][k]
    BY <1>3
  <2>2. CASE p.line < e.line
    <3>1. p.line \in 1..(e.line - 1) /\ p.line <= Len(t)
      BY <1>0, <1>1, <1>2, <2>2 DEF Places
    <3>2. r[p.line] = t[p.line]
      BY <1>2, <3>1
    <3> QED
      BY <2>1, <3>1, <3>2
  <2>3. CASE p.line = e.line /\ p.column <= e.column
    <3>1. k \in 1..(e.column - 1)
      BY <1>1, <2>3 DEF Places
    <3>2. e.line <= Len(t) /\ k <= Len(t[e.line]) /\ r[e.line][k] = t[e.line][k]
      BY <1>2, <3>1
    <3> QED
      BY <2>1, <2>3, <3>2
  <2> QED
    BY <2>2, <2>3 DEF AtOrBefore
<1> QED
  BY <1>3, <1>5, <1>6 DEF Reached

(* The text after one chunk, and its lines.                                *)
After(c, t) == Spliced(t, c.start.line, c.end.line, Joined(c, t))

LEMMA AfterLines ==
  ASSUME NEW t \in Lines, NEW c, FitsIn(c, t)
  PROVE  LET r == After(c, t)
             m == Len(c.lines)
             lo == c.start.line
             hi == c.end.line
         IN /\ r \in Lines /\ Len(r) = (lo - 1) + m + (Len(t) - hi) /\ m >= 1 /\ r # <<>>
            /\ \A l \in 1..(lo - 1) : r[l] = t[l]
            /\ \A i \in 1..m : r[(lo - 1) + i] = Joined(c, t)[i]
            /\ \A l \in (hi + 1)..Len(t) : r[(l - hi) + ((lo - 1) + m)] = t[l]
<1> DEFINE r == After(c, t)
           m == Len(c.lines)
           lo == c.start.line
           hi == c.end.line
           new == Joined(c, t)
<1>1. lo \in 1..Len(t) /\ hi \in 1..Len(t) /\ lo <= hi /\ m \in Nat \ {0} /\ Len(t) \in Nat
  BY PartsOfLines
<1>2. new \in Lines /\ Len(new) = m
  BY LinesJoined DEF IsJoined
<1>3. r = Spliced(t, lo, hi, new)
  BY DEF After
<1> HIDE DEF m, lo, hi, new, r
<1>4. hi \in lo..Len(t)
  BY <1>1
<1>5. /\ r \in Lines /\ Len(r) = (lo - 1) + m + (Len(t) - hi)
      /\ \A l \in 1..(lo - 1) : r[l] = t[l]
      /\ \A i \in 1..m : r[(lo - 1) + i] = new[i]
      /\ \A l \in (hi + 1)..Len(t) : r[(l - hi) + ((lo - 1) + m)] = t[l]
  <2>1. LET u == Spliced(t, lo, hi, new)
            k == Len(new)
        IN /\ u \in Lines /\ Len(u) = (lo - 1) + k + (Len(t) - hi)
           /\ \A l \in 1..(lo - 1) : u[l] = t[l]
           /\ \A i \in 1..k : u[(lo - 1) + i] = new[i]
           /\ \A l \in (hi + 1)..Len(t) : u[(l - hi) + ((lo - 1) + k)] = t[l]
    BY <1>1, <1>2, <1>4, SplicedLines
  <2> QED
    BY <1>2, <1>3, <2>1
<1>6. m >= 1 /\ Len(r) # 0
  BY <1>1, <1>5
<1>7. r # <<>>
  BY <1>6
<1> QED
  BY <1>5, <1>6, <1>7 DEF r, m, lo, hi, new

LEMMA AfterReached ==
  ASSUME NEW t \in Lines, NEW c, FitsIn(c, t)
  PROVE  Reached(After(c, t), t, c.start)
<1> DEFINE r == After(c, t)
           new == Joined(c, t)
           w == c.lines
           p == c.start
           a == t[p.line]
           head == HeadOf(c, t)
           tail == TailOf(c, t)
<1>0. p \in Places /\ t \in Seq(Seq(Characters))
  BY DEF FitsIn, Lines
<1>1. /\ p.line \in 1..Len(t) /\ p.column \in 1..(Len(a) + 1) /\ Len(t) \in Nat
      /\ a \in Seq(Characters) /\ Len(a) \in Nat
      /\ head \in Seq(Characters) /\ Len(head) = p.column - 1 /\ tail \in Seq(Characters)
      /\ \A k \in 1..(p.column - 1) : head[k] = a[k]
      /\ w \in Seq(Seq(Characters)) /\ Len(w) \in Nat \ {0}
      /\ c.end.line <= Len(t) /\ c.end.line \in Nat
  BY PartsOfLines
<1>2. /\ r \in Lines /\ Len(r) = (p.line - 1) + Len(w) + (Len(t) - c.end.line)
      /\ \A l \in 1..(p.line - 1) : r[l] = t[l]
      /\ \A i \in 1..Len(w) : r[(p.line - 1) + i] = new[i]
  BY AfterLines
<1>3. new[1] = IF 1 = Len(w) THEN (head \o w[1]) \o tail ELSE head \o w[1]
  <2>1. 1 \in 1..Len(w)
    BY <1>1
  <2> QED
    BY <2>1, LinesJoined DEF IsJoined
<1> HIDE DEF r, new, w, p, a, head, tail
<1>4. r[p.line] = new[1] /\ p.line \in 1..Len(r)
  <2>1. 1 \in 1..Len(w) /\ (p.line - 1) + 1 = p.line
    BY <1>1
  <2>2. p.line \in 1..Len(r)
    <3> DEFINE i == p.line
               j == c.end.line
    <3>1. /\ i \in 1..Len(t) /\ j <= Len(t) /\ j \in Nat /\ Len(t) \in Nat /\ Len(w) \in Nat \ {0}
          /\ Len(r) = (i - 1) + Len(w) + (Len(t) - j)
      BY <1>1, <1>2
    <3> HIDE DEF i, j
    <3>2. i \in 1..Len(r)
      BY <3>1
    <3> QED
      BY <3>2 DEF i
  <2> QED
    BY <1>2, <2>1, <2>2
<1>5. /\ head \o w[1] \in Seq(Characters) /\ Len(head \o w[1]) \in Nat
      /\ Len(head \o w[1]) >= p.column - 1
      /\ \A k \in 1..(p.column - 1) : (head \o w[1])[k] = a[k]
  <2>1. w[1] \in Seq(Characters)
    BY <1>1
  <2>2. /\ head \o w[1] \in Seq(Characters) /\ Len(head \o w[1]) = Len(head) + Len(w[1])
        /\ Len(w[1]) \in Nat /\ \A k \in 1..Len(head) : (head \o w[1])[k] = head[k]
    <3>1. head \in Seq(Characters)
      BY <1>1
    <3> QED
      BY <2>1, <3>1, Joining, SMTT(40)
  <2> DEFINE b == head \o w[1]
             i == p.column - 1
  <2>3. /\ b \in Seq(Characters) /\ Len(b) = Len(head) + Len(w[1]) /\ Len(w[1]) \in Nat
        /\ \A k \in 1..Len(head) : b[k] = head[k]
    BY <2>2
  <2>4. Len(head) = i /\ i \in Nat /\ \A k \in 1..i : head[k] = a[k]
    BY <1>1
  <2> HIDE DEF b, i
  <2>5. Len(b) \in Nat /\ Len(b) >= i
    BY <2>3, <2>4
  <2>6. \A k \in 1..i : b[k] = a[k]
    BY <2>3, <2>4
  <2> QED
    BY <2>3, <2>5, <2>6, Zenon DEF b, i
<1>6. /\ new[1] \in Seq(Characters) /\ Len(new[1]) \in Nat /\ Len(new[1]) >= p.column - 1
      /\ \A k \in 1..(p.column - 1) : new[1][k] = a[k]
  <2> DEFINE b == head \o w[1]
  <2>0. b \in Seq(Characters) /\ Len(b) \in Nat /\ Len(b) >= p.column - 1
        /\ \A k \in 1..(p.column - 1) : b[k] = a[k]
    BY <1>5
  <2> HIDE DEF b
  <2>1. /\ b \o tail \in Seq(Characters) /\ Len(b \o tail) = Len(b) + Len(tail) /\ Len(tail) \in Nat
        /\ \A k \in 1..Len(b) : (b \o tail)[k] = b[k]
    BY <1>1, <2>0, Joining
  <2>2. CASE 1 = Len(w)
    <3> DEFINE d == b \o tail
               i == p.column - 1
    <3>1. new[1] = d
      BY <1>3, <2>2 DEF b
    <3>2. /\ d \in Seq(Characters) /\ Len(d) = Len(b) + Len(tail) /\ Len(tail) \in Nat
          /\ \A k \in 1..Len(b) : d[k] = b[k]
      BY <2>1
    <3>3. i \in Nat /\ Len(b) \in Nat /\ Len(b) >= i /\ \A k \in 1..i : b[k] = a[k]
      BY <1>1, <2>0
    <3> HIDE DEF d, i
    <3>4. Len(d) \in Nat /\ Len(d) >= i /\ \A k \in 1..i : d[k] = a[k]
      BY <3>2, <3>3
    <3> QED
      BY <3>1, <3>2, <3>4 DEF i
  <2>3. CASE 1 # Len(w)
    <3>1. new[1] = b
      BY <1>3, <2>3 DEF b
    <3> QED
      BY <2>0, <3>1
  <2> QED
    BY <2>2, <2>3
<1>7. p \in PlacesIn(r)
  <2>1. p.column \in 1..(Len(r[p.line]) + 1)
    <3> DEFINE j == p.column
               length == Len(new[1])
    <3>1. j \in 1..(Len(a) + 1) /\ Len(a) \in Nat
      BY <1>1
    <3>2. length \in Nat /\ length >= j - 1
      BY <1>6
    <3> HIDE DEF j, length
    <3>3. j \in 1..(length + 1)
      BY <3>1, <3>2
    <3> QED
      BY <1>4, <3>3 DEF j, length
  <2> QED
    BY <1>0, <1>2, <1>4, <2>1, PlaceInText DEF Lines
<1>8. p.line - 1 <= Len(t) /\ \A l \in 1..(p.line - 1) : r[l] = t[l]
  BY <1>1, <1>2
<1>9. ASSUME NEW k \in 1..(p.column - 1)
      PROVE  p.line <= Len(t) /\ k <= Len(t[p.line]) /\ r[p.line][k] = t[p.line][k]
  <2>1. r[p.line][k] = a[k]
    BY <1>4, <1>6
  <2>2. k <= Len(a) /\ p.line <= Len(t)
    <3> DEFINE i == p.column
    <3>1. i \in 1..(Len(a) + 1) /\ k \in 1..(i - 1) /\ Len(a) \in Nat
      BY <1>1
    <3> HIDE DEF i
    <3>2. k <= Len(a)
      BY <3>1
    <3> QED
      BY <1>1, <3>2
  <2> QED
    BY <2>1, <2>2 DEF a
<1> QED
  BY <1>7, <1>8, <1>9 DEF Reached, r, p

LEMMA LastOfJoined ==
  ASSUME NEW t \in Lines, NEW c, FitsIn(c, t)
  PROVE  LET new == Joined(c, t)
             w == c.lines
             m == Len(w)
         IN /\ new[m] \in Seq(Characters) /\ Len(w[m]) \in Nat /\ m \in Nat \ {0}
            /\ Len(new[m]) = (IF m = 1 THEN Len(HeadOf(c, t)) ELSE 0) + Len(w[m]) + Len(TailOf(c, t))
<1> DEFINE new == Joined(c, t)
           w == c.lines
           m == Len(w)
           head == HeadOf(c, t)
           tail == TailOf(c, t)
<1>1. head \in Seq(Characters) /\ tail \in Seq(Characters) /\ w \in Seq(Seq(Characters)) /\ m \in Nat \ {0}
  BY PartsOfLines
<1>2. m \in 1..m /\ w[m] \in Seq(Characters) /\ Len(w[m]) \in Nat
  BY <1>1
<1>3. new[m] = IF m = 1 THEN (head \o w[m]) \o tail ELSE w[m] \o tail
  <2>1. new[m] = IF m = 1 THEN (IF m = Len(w) THEN (head \o w[m]) \o tail ELSE head \o w[m])
                 ELSE IF m = Len(w) THEN w[m] \o tail ELSE w[m]
    BY <1>2, LinesJoined DEF IsJoined
  <2> QED
    BY <2>1
<1> HIDE DEF new, w, m, head, tail
<1>4. head \o w[m] \in Seq(Characters) /\ Len(head \o w[m]) = Len(head) + Len(w[m]) /\ Len(head) \in Nat
  BY <1>1, <1>2, Joining
<1>5. CASE m = 1
  <2>1. /\ (head \o w[m]) \o tail \in Seq(Characters) /\ Len(tail) \in Nat
        /\ Len((head \o w[m]) \o tail) = Len(head \o w[m]) + Len(tail)
    BY <1>1, <1>4, Joining
  <2> QED
    BY <1>1, <1>2, <1>3, <1>4, <1>5, <2>1 DEF new, w, m, head, tail
<1>6. CASE m # 1
  <2>1. /\ w[m] \o tail \in Seq(Characters) /\ Len(tail) \in Nat
        /\ Len(w[m] \o tail) = Len(w[m]) + Len(tail)
    BY <1>1, <1>2, Joining
  <2>2. new[m] = w[m] \o tail
    BY <1>3, <1>6
  <2>3. Len(new[m]) = 0 + Len(w[m]) + Len(tail)
    BY <1>2, <2>1, <2>2
  <2> QED
    BY <1>1, <1>2, <1>6, <2>1, <2>2, <2>3, Zenon DEF new, w, m, head, tail
<1> QED
  BY <1>5, <1>6

(* Where the cursor goes.                                                  *)
Moved(p, c, t) ==
  LET new == Joined(c, t)
  IN IF p.line = c.end.line /\ p.column >= c.end.column
     THEN Place(c.start.line + Len(new) - 1, p.column + Len(new[Len(new)]) - Len(t[c.end.line]))
     ELSE FixedCursor(p, c.start.line, c.end.line, Len(new))

LEMMA ReplaceChunkIs ==
  ASSUME NEW state, NEW chunk, NEW c, c = Within(chunk, state.text)
  PROVE  ReplaceChunk(state, chunk) =
           [text |-> After(c, state.text),
            caret |-> Clipped(Moved(state.caret, c, state.text), After(c, state.text))]
BY Zenon DEF ReplaceChunk, After, Spliced, Moved

LEMMA CaretMoves ==
  ASSUME NEW t \in Lines, NEW c, FitsIn(c, t), NEW p \in PlacesIn(t)
  PROVE  LET lo == c.start.line
             hi == c.end.line
             m == Len(c.lines)
             new == Joined(c, t)
         IN /\ p.line = hi /\ p.column >= c.end.column =>
                 Moved(p, c, t) = Place((lo - 1) + m, (p.column + Len(new[m])) - Len(t[hi]))
            /\ p.line > hi => Moved(p, c, t) = Place((p.line - hi) + ((lo - 1) + m), p.column)
            /\ p.line < lo \/ (p.line = lo /\ p.column < c.start.column) => Moved(p, c, t) = p
            /\ \/ p.line = hi /\ p.column >= c.end.column
               \/ p.line > hi \/ p.line < lo
               \/ lo <= p.line /\ p.line <= hi /\
                    \/ Moved(p, c, t) = Place(lo, p.column)
                    \/ Moved(p, c, t) = p /\ p.line - lo < m
<1> DEFINE lo == c.start.line
           hi == c.end.line
           m == Len(c.lines)
           new == Joined(c, t)
           x == p.line
           y == p.column
           q == Place((lo - 1) + m, (y + Len(new[m])) - Len(t[hi]))
<1>1. /\ lo \in Nat /\ hi \in Nat /\ lo <= hi /\ m \in Nat \ {0}
      /\ c.start.column \in Nat /\ c.end.column \in Nat
      /\ lo = hi => c.start.column <= c.end.column
  <2>1. lo \in Nat /\ hi \in Nat /\ lo <= hi /\ m \in Nat \ {0}
    BY PartsOfLines
  <2>2. c.start \in Places /\ c.end \in Places /\ AtOrBefore(c.start, c.end)
    BY DEF FitsIn
  <2> QED
    BY <2>1, <2>2 DEF Places, AtOrBefore
<1>2. p \in Places /\ x \in Nat /\ y \in Nat /\ p = [line |-> x, column |-> y]
  <2>1. p \in Places
    BY PlaceInText DEF Lines
  <2> QED
    BY <2>1 DEF Places
<1>3. Len(new) = m
  BY LinesJoined DEF IsJoined
<1>4. /\ Len(new[m]) \in Nat
      /\ Len(t[hi]) \in Nat
  <2>1. new[m] \in Seq(Characters)
    BY LastOfJoined
  <2> QED
    BY <2>1, PartsOfLines
<1>5. Moved(p, c, t) =
        IF x = hi /\ y >= c.end.column
        THEN Place(lo + m - 1, y + Len(new[m]) - Len(t[hi]))
        ELSE FixedCursor(p, lo, hi, m)
  BY <1>3 DEF Moved
<1>6. lo + m - 1 = (lo - 1) + m /\ y + Len(new[m]) - Len(t[hi]) = (y + Len(new[m])) - Len(t[hi])
  <2> DEFINE a == Len(new[m])
             b == Len(t[hi])
  <2>1. /\ lo \in Nat /\ m \in Nat /\ y \in Nat /\ a \in Nat /\ b \in Nat
    BY <1>1, <1>2, <1>4
  <2> HIDE DEF lo, m, y, a, b
  <2>2. lo + m - 1 = (lo - 1) + m /\ y + a - b = (y + a) - b
    BY <2>1
  <2> QED
    BY <2>2 DEF a, b
<1> HIDE DEF lo, hi, m, new
<1>7. ASSUME x > hi
      PROVE  FixedCursor(p, lo, hi, m) = Place((x - hi) + ((lo - 1) + m), y)
  <2>1. FixedCursor(p, lo, hi, m) = [p EXCEPT !.line = x + m - (hi - lo + 1)]
    BY <1>7, <1>1, <1>2 DEF FixedCursor
  <2>2. x + m - (hi - lo + 1) = (x - hi) + ((lo - 1) + m)
    BY <1>1, <1>2
  <2> QED
    BY <1>2, <2>1, <2>2 DEF Place
<1>8. ASSUME ~(x > hi), lo <= x, x <= hi, m < hi - lo + 1
      PROVE  FixedCursor(p, lo, hi, m) = Place(lo, y)
  <2>1. FixedCursor(p, lo, hi, m) = [p EXCEPT !.line = lo]
    BY <1>8, <1>1, <1>2 DEF FixedCursor
  <2> QED
    BY <1>2, <2>1 DEF Place
<1>9. ASSUME ~(x > hi), x < lo \/ ~(m < hi - lo + 1)
      PROVE  FixedCursor(p, lo, hi, m) = p
  BY <1>9, <1>1, <1>2 DEF FixedCursor
<1>10. x = hi /\ y >= c.end.column => Moved(p, c, t) = q
  <2> SUFFICES ASSUME x = hi /\ y >= c.end.column PROVE Moved(p, c, t) = q
    OBVIOUS
  <2>1. Moved(p, c, t) = Place(lo + m - 1, y + Len(new[m]) - Len(t[hi]))
    BY <1>5, Zenon
  <2>2. q = Place(lo + m - 1, y + Len(new[m]) - Len(t[hi]))
    BY <1>6 DEF Place
  <2> QED
    BY <2>1, <2>2
<1>11. x > hi => Moved(p, c, t) = Place((x - hi) + ((lo - 1) + m), y)
  <2> SUFFICES ASSUME x > hi PROVE Moved(p, c, t) = Place((x - hi) + ((lo - 1) + m), y)
    OBVIOUS
  <2>1. x # hi
    BY <1>1, <1>2
  <2> QED
    BY <1>5, <1>7, <2>1
<1>12. x < lo \/ (x = lo /\ y < c.start.column) => Moved(p, c, t) = p
  <2> SUFFICES ASSUME x < lo \/ (x = lo /\ y < c.start.column) PROVE Moved(p, c, t) = p
    OBVIOUS
  <2>1. ~(x > hi) /\ ~(x = hi /\ y >= c.end.column)
    BY <1>1, <1>2
  <2>2. Moved(p, c, t) = FixedCursor(p, lo, hi, m)
    BY <1>5, <2>1
  <2>3. CASE x < lo \/ ~(m < hi - lo + 1)
    BY <1>9, <2>1, <2>2, <2>3
  <2>4. CASE ~(x < lo) /\ m < hi - lo + 1
    <3>1. x = lo /\ lo <= x /\ x <= hi
      BY <1>1, <1>2, <2>4
    <3> QED
      BY <1>2, <1>8, <2>1, <2>2, <2>4, <3>1 DEF Place
  <2> QED
    BY <2>3, <2>4
<1>13. \/ x = hi /\ y >= c.end.column
       \/ x > hi \/ x < lo
       \/ lo <= x /\ x <= hi /\
            \/ Moved(p, c, t) = Place(lo, y)
            \/ Moved(p, c, t) = p /\ x - lo < m
  <2> SUFFICES ASSUME ~(x = hi /\ y >= c.end.column), ~(x > hi), ~(x < lo)
               PROVE  lo <= x /\ x <= hi /\
                        \/ Moved(p, c, t) = Place(lo, y)
                        \/ Moved(p, c, t) = p /\ x - lo < m
    OBVIOUS
  <2>1. lo <= x /\ x <= hi
    BY <1>1, <1>2
  <2>2. Moved(p, c, t) = FixedCursor(p, lo, hi, m)
    BY <1>5
  <2>3. CASE m < hi - lo + 1
    BY <1>8, <2>1, <2>2, <2>3
  <2>4. CASE ~(m < hi - lo + 1)
    <3>1. x - lo < m
      BY <1>1, <1>2, <2>1, <2>4
    <3> QED
      BY <1>9, <2>1, <2>2, <2>4, <3>1
  <2> QED
    BY <2>3, <2>4
<1> QED
  BY <1>10, <1>11, <1>12, <1>13, Zenon DEF lo, hi, m, new

LEMMA ClippedIsIn ==
  ASSUME NEW r \in Lines, NEW p \in Places, p.line \in 1..Len(r), p.column >= 1
  PROVE  Clipped(p, r) \in PlacesIn(r) /\ (p \in PlacesIn(r) => Clipped(p, r) = p)
<1> DEFINE x == p.line
           y == p.column
           n == Len(r[x]) + 1
           q == Place(x, n)
<1>0. r \in Seq(Seq(Characters))
  BY DEF Lines
<1>1. x \in 1..Len(r) /\ x \in Nat /\ y \in Nat /\ y >= 1 /\ n \in Nat \ {0} /\ p = [line |-> x, column |-> y]
  BY <1>0 DEF Places
<1>2. Clipped(p, r) = IF y > n THEN [p EXCEPT !.column = n] ELSE p
  BY DEF Clipped
<1>3. [p EXCEPT !.column = n] = q
  BY <1>1 DEF Place
<1>4. q \in Places /\ q.line = x /\ q.column = n
  BY <1>1 DEF Place, Places
<1> HIDE DEF q
<1>5. q \in PlacesIn(r)
  <2>1. q.line \in 1..Len(r) /\ q.column \in 1..(Len(r[q.line]) + 1)
    BY <1>1, <1>4
  <2> QED
    BY <1>0, <1>4, <2>1, PlaceInText
<1>6. y <= n => p \in PlacesIn(r)
  <2>1. y <= n => p.column \in 1..(Len(r[p.line]) + 1)
    BY <1>1
  <2> QED
    BY <1>0, <2>1, PlaceInText
<1>7. p \in PlacesIn(r) => y <= n
  <2>1. p \in PlacesIn(r) => y \in 1..n
    BY <1>0, PlaceInText
  <2> HIDE DEF y, n
  <2> QED
    BY <1>1, <2>1
<1> HIDE DEF y, n
<1> QED
  BY <1>1, <1>2, <1>3, <1>5, <1>6, <1>7

LEMMA CaretStays ==
  ASSUME NEW t \in Lines, NEW c, FitsIn(c, t), NEW p \in PlacesIn(t)
  PROVE  LET r == After(c, t)
             u == Moved(p, c, t)
         IN /\ u \in Places /\ u.line \in 1..Len(r) /\ u.column >= 1
            /\ p.line < c.start.line \/ (p.line = c.start.line /\ p.column < c.start.column)
                 => Moved(p, c, t) \in PlacesIn(r)
            /\ p.line > c.end.line \/ (p.line = c.end.line /\ p.column >= c.end.column)
                 => Moved(p, c, t) \in PlacesIn(r)
<1> DEFINE r == After(c, t)
           u == Moved(p, c, t)
           lo == c.start.line
           hi == c.end.line
           m == Len(c.lines)
           new == Joined(c, t)
           x == p.line
           y == p.column
           b == c.end.column
           v == Place((lo - 1) + m, (y + Len(new[m])) - Len(t[hi]))
           N == Len(t)
<1>0. t \in Seq(Seq(Characters)) /\ N \in Nat
  BY DEF Lines
<1>1. /\ lo \in 1..N /\ hi \in 1..N /\ lo <= hi /\ m \in Nat \ {0}
      /\ b \in 1..(Len(t[hi]) + 1) /\ Len(t[hi]) \in Nat
      /\ Len(TailOf(c, t)) = Len(t[hi]) - b + 1
      /\ Len(HeadOf(c, t)) \in Nat
  <2>1. HeadOf(c, t) \in Seq(Characters)
    BY PartsOfLines
  <2> QED
    BY <2>1, PartsOfLines
<1>2. /\ p \in Places /\ x \in 1..N /\ y \in 1..(Len(t[x]) + 1) /\ p = [line |-> x, column |-> y]
      /\ Len(t[x]) \in Nat
  <2>1. p \in Places /\ x \in 1..N /\ y \in 1..(Len(t[x]) + 1)
    BY <1>0, PlaceInText
  <2> QED
    BY <1>0, <2>1 DEF Places
<1>3. /\ r \in Lines /\ Len(r) = (lo - 1) + m + (N - hi)
      /\ \A l \in 1..(lo - 1) : r[l] = t[l]
      /\ \A i \in 1..m : r[(lo - 1) + i] = new[i]
      /\ \A l \in (hi + 1)..N : r[(l - hi) + ((lo - 1) + m)] = t[l]
  BY AfterLines
<1>4. /\ new[m] \in Seq(Characters) /\ Len(new[m]) \in Nat
      /\ Len(new[m]) >= Len(t[hi]) - b + 1
  <2>1. /\ new[m] \in Seq(Characters) /\ Len(c.lines[m]) \in Nat
        /\ Len(new[m]) = (IF m = 1 THEN Len(HeadOf(c, t)) ELSE 0) + Len(c.lines[m]) + Len(TailOf(c, t))
    BY LastOfJoined
  <2> DEFINE d == Len(TailOf(c, t))
             e == Len(HeadOf(c, t))
             w == Len(c.lines[m])
             g == Len(new[m])
  <2>2. /\ g = (IF m = 1 THEN e ELSE 0) + w + d /\ w \in Nat /\ e \in Nat
        /\ d = Len(t[hi]) - b + 1 /\ d \in Nat
    BY <1>1, <2>1
  <2> HIDE DEF d, e, w, g
  <2>3. g \in Nat /\ g >= d
    BY <2>2
  <2> QED
    BY <2>1, <2>2, <2>3 DEF g
<1>5. Reached(r, t, c.start)
  BY AfterReached
<1>6. /\ x = hi /\ y >= b => u = v
      /\ x > hi => u = Place((x - hi) + ((lo - 1) + m), y)
      /\ x < lo \/ (x = lo /\ y < c.start.column) => u = p
      /\ \/ x = hi /\ y >= b
         \/ x > hi \/ x < lo
         \/ lo <= x /\ x <= hi /\
              \/ u = Place(lo, y)
              \/ u = p /\ x - lo < m
  BY CaretMoves
<1> HIDE DEF r, u, lo, hi, m, new, x, y, b, N
<1> DEFINE Good == u \in Places /\ u.line \in 1..Len(r) /\ u.column >= 1
           In == u \in PlacesIn(r)
           Goal == /\ Good
                   /\ x < lo \/ (x = lo /\ y < c.start.column) => In
                   /\ x > hi \/ (x = hi /\ y >= b) => In
<1>7. ASSUME NEW i \in 1..Len(r), NEW j \in Nat \ {0}
      PROVE  /\ Place(i, j) \in Places /\ Place(i, j).line \in 1..Len(r) /\ Place(i, j).column >= 1
             /\ j <= Len(r[i]) + 1 => Place(i, j) \in PlacesIn(r)
  <2>1. i \in Nat /\ Len(r) \in Nat /\ r \in Seq(Seq(Characters)) /\ Len(r[i]) \in Nat
    BY <1>3 DEF Lines
  <2>2. Place(i, j) \in Places /\ Place(i, j).line = i /\ Place(i, j).column = j
    BY <2>1 DEF Places, Place
  <2>3. j <= Len(r[i]) + 1 => j \in 1..(Len(r[i]) + 1)
    BY <2>1
  <2> DEFINE k == Place(i, j)
  <2>4. k \in Places /\ k.line = i /\ k.column = j
    BY <2>2
  <2> HIDE DEF k
  <2>5. j <= Len(r[i]) + 1 => k \in PlacesIn(r)
    BY <2>1, <2>3, <2>4, PlaceInText
  <2> QED
    BY <2>4, <2>5 DEF k
<1>8. ASSUME x = hi /\ y >= b
      PROVE  Goal
  <2> DEFINE i == (lo - 1) + m
             j == (y + Len(new[m])) - Len(t[hi])
  <2>1. i \in 1..Len(r)
    <3>1. /\ lo \in 1..N /\ hi \in 1..N /\ lo <= hi /\ m \in Nat \ {0} /\ N \in Nat
          /\ Len(r) = (lo - 1) + m + (N - hi)
      BY <1>0, <1>1, <1>3
    <3> QED
      BY <3>1
  <2>2. y \in 1..(Len(t[hi]) + 1)
    BY <1>2, <1>8
  <2>3. j \in Nat \ {0} /\ j <= Len(new[m]) + 1
    <3> DEFINE g == Len(new[m])
               h == Len(t[hi])
    <3>1. /\ g \in Nat /\ h \in Nat /\ b \in 1..(h + 1) /\ y \in 1..(h + 1) /\ y >= b
          /\ g >= h - b + 1
      BY <1>1, <1>4, <1>8, <2>2
    <3> HIDE DEF g, h
    <3>2. (y + g) - h \in Nat \ {0} /\ (y + g) - h <= g + 1
      BY <3>1
    <3> QED
      BY <3>2 DEF g, h
  <2>4. m \in 1..m
    BY <1>1
  <2>5. r[i] = new[m]
    BY <1>3, <2>4
  <2>6. u = Place(i, j)
    BY <1>6, <1>8
  <2> HIDE DEF i, j
  <2>7. Good /\ In
    BY <1>7, <2>1, <2>3, <2>5, <2>6
  <2> QED
    BY <2>7
<1>9. ASSUME x > hi
      PROVE  Goal
  <2> DEFINE i == (x - hi) + ((lo - 1) + m)
  <2>1. i \in 1..Len(r) /\ x \in (hi + 1)..N
    BY <1>0, <1>1, <1>2, <1>3, <1>9
  <2>2. r[i] = t[x]
    BY <1>3, <2>1
  <2>3. y \in Nat \ {0} /\ y <= Len(t[x]) + 1
    BY <1>2
  <2>6. u = Place(i, y)
    BY <1>6, <1>9
  <2> HIDE DEF i
  <2>7. Good /\ In
    BY <1>7, <2>1, <2>2, <2>3, <2>6
  <2> QED
    BY <2>7
<1>10. ASSUME x < lo
      PROVE  Goal
  <2>1. x \in 1..Len(r) /\ x \in 1..(lo - 1)
    BY <1>0, <1>1, <1>2, <1>3, <1>10
  <2>2. r[x] = t[x]
    BY <1>3, <2>1
  <2>3. y \in Nat \ {0} /\ y <= Len(t[x]) + 1
    BY <1>2
  <2>6. u = Place(x, y)
    BY <1>2, <1>6, <1>10 DEF Place
  <2>7. Good /\ In
    BY <1>7, <2>1, <2>2, <2>3, <2>6
  <2> QED
    BY <2>7
<1>11. ASSUME lo <= x /\ x <= hi /\ (u = Place(lo, y) \/ (u = p /\ x - lo < m)),
              ~(x = hi /\ y >= b)
       PROVE  Goal
  <2>1. y \in Nat \ {0} /\ x \in Nat
    BY <1>2
  <2>2. lo \in 1..Len(r)
    BY <1>0, <1>1, <1>3
  <2>3. Good
    <3>1. CASE u = Place(lo, y)
      BY <1>7, <2>1, <2>2, <3>1
    <3>2. CASE u = p /\ x - lo < m
      <4>1. x \in 1..Len(r)
        BY <1>0, <1>1, <1>2, <1>3, <1>11, <3>2
      <4>2. u = Place(x, y)
        BY <1>2, <3>2 DEF Place
      <4> QED
        BY <1>7, <2>1, <4>1, <4>2
    <3> QED
      BY <1>11, <3>1, <3>2
  <2>4. x = lo /\ y < c.start.column => u \in PlacesIn(r)
    <3> SUFFICES ASSUME x = lo, y < c.start.column PROVE u \in PlacesIn(r)
      OBVIOUS
    <3>1. u = Place(lo, y)
      <4>1. u = p
        BY <1>6
      <4> QED
        BY <1>2, <4>1 DEF Place
    <3>2. c.start \in PlacesIn(r)
      BY <1>5 DEF Reached
    <3>3. c.start.column \in 1..(Len(r[lo]) + 1)
      BY <1>3, <3>2, PlaceInText DEF Lines, lo
    <3>4. Len(r[lo]) \in Nat
      BY <1>3, <2>2 DEF Lines
    <3>5. y <= Len(r[lo]) + 1
      <4> DEFINE k == c.start.column
      <4>1. k \in 1..(Len(r[lo]) + 1) /\ y < k
        BY <3>3
      <4> HIDE DEF k
      <4> QED
        BY <2>1, <3>4, <4>1
    <3> QED
      BY <1>7, <2>1, <2>2, <3>1, <3>5
  <2>5. ~(x < lo) /\ ~(x > hi)
    BY <1>1, <1>11, <2>1
  <2> HIDE DEF Good
  <2> QED
    BY <1>11, <2>3, <2>4, <2>5, Zenon
<1>12. \/ x = hi /\ y >= b
       \/ x > hi \/ x < lo
       \/ lo <= x /\ x <= hi /\ (u = Place(lo, y) \/ (u = p /\ x - lo < m))
  BY <1>6, Zenon
<1>13. Goal
  <2> HIDE DEF Goal
  <2> QED
    BY <1>8, <1>9, <1>10, <1>11, <1>12, Zenon
<1> QED
  BY <1>13, Zenon DEF Goal, Good, In, r, u, x, y, lo, hi, b

-----------------------------------------------------------------------------
(* The first chunk, which may reach past the end, and those after it.      *)
LEMMA PastTheEnd ==
  ASSUME NEW t \in Lines, t # <<>>, NEW chunk, IsChunk(chunk, t), chunk.start.line > Len(t)
  PROVE  LET s == Stripped(chunk.lines)
             c == Within(chunk, t)
             r == After(c, t)
         IN /\ chunk.start = Place(Len(t) + 1, 1) /\ chunk.end.line > Len(t)
            /\ c = [start |-> Place(Len(t), 1), end |-> Place(Len(t), Len(t[Len(t)]) + 1),
                    lines |-> <<t[Len(t)]>> \o s]
            /\ FitsIn(c, t) /\ s \in Lines /\ s # <<>>
            /\ r = t \o s
<1> DEFINE N == Len(t)
           s == Stripped(chunk.lines)
           c == Within(chunk, t)
           r == After(c, t)
           w == <<t[N]>> \o s
           p == Place(N, 1)
           q == Place(N, Len(t[N]) + 1)
           n == Len(s)
           new == Joined(c, t)
<1>1. /\ N \in Nat \ {0} /\ t[N] \in Seq(Characters) /\ Len(t[N]) \in Nat /\ t \in Seq(Seq(Characters))
  BY EndOfText DEF Lines
<1>2. chunk.start = Place(N + 1, 1) /\ chunk.end.line > N
  <2>1. /\ chunk.start \in Ends(t) /\ chunk.end \in Ends(t) /\ AtOrBefore(chunk.start, chunk.end)
    BY DEF IsChunk
  <2>2. /\ chunk.start \in Places /\ chunk.start.line = N + 1 /\ chunk.start.column = 1
        /\ chunk.end \in Places
    BY <1>1, <2>1, EndsOfText
  <2> QED
    BY <1>1, <2>1, <2>2 DEF Places, Place, AtOrBefore
<1>3. c = [start |-> p, end |-> q, lines |-> w] /\ FitsIn(c, t)
  BY <1>2, WithinText, WithinFits
<1>4. s \in Seq(Seq(Characters)) /\ n \in Nat \ {0} /\ s # <<>>
  <2>1. chunk.lines \in Lines /\ chunk.lines # <<>>
    BY DEF IsChunk, Lines
  <2>2. s \in Seq(Seq(Characters)) /\ s # <<>>
    BY <2>1, StrippedLines DEF Lines
  <2> HIDE DEF s
  <2> QED
    BY <2>2
<1> HIDE DEF s
<1>5. /\ w \in Seq(Seq(Characters)) /\ Len(w) = n + 1 /\ w[1] = t[N]
      /\ \A i \in 2..(n + 1) : w[i] = s[i - 1]
  <2>1. <<t[N]>> \in Seq(Seq(Characters)) /\ Len(<<t[N]>>) = 1
    BY <1>1
  <2>2. /\ w \in Seq(Seq(Characters)) /\ Len(w) = 1 + n
        /\ \A i \in 1..1 : w[i] = <<t[N]>>[i]
        /\ \A i \in (1 + 1)..(1 + n) : w[i] = s[i - 1]
    BY <1>4, <2>1, Joining
  <2> HIDE DEF w
  <2> QED
    BY <1>4, <2>2
<1>6. c.start.line = N /\ c.start.column = 1 /\ c.end.line = N /\ c.end.column = Len(t[N]) + 1 /\ c.lines = w
  BY <1>3 DEF Place
<1> HIDE DEF c, w, p, q
<1>7. HeadOf(c, t) = <<>> /\ TailOf(c, t) = <<>>
  <2>1. /\ HeadOf(c, t) \in Seq(Characters) /\ Len(HeadOf(c, t)) = 1 - 1
        /\ TailOf(c, t) \in Seq(Characters) /\ Len(TailOf(c, t)) = Len(t[N]) - (Len(t[N]) + 1) + 1
    <3>1. /\ HeadOf(c, t) \in Seq(Characters) /\ Len(HeadOf(c, t)) = c.start.column - 1
          /\ TailOf(c, t) \in Seq(Characters)
          /\ Len(TailOf(c, t)) = Len(t[c.end.line]) - c.end.column + 1
      BY <1>3, PartsOfLines
    <3> QED
      BY <1>6, <3>1
  <2> DEFINE a == HeadOf(c, t)
             b == TailOf(c, t)
  <2>2. a \in Seq(Characters) /\ b \in Seq(Characters) /\ Len(a) = 0 /\ Len(b) = 0
    BY <1>1, <2>1
  <2> HIDE DEF a, b
  <2>3. a = <<>> /\ b = <<>>
    BY <2>2
  <2> QED
    BY <2>3 DEF a, b
<1>8. new = w
  <2>1. IsJoined(new, <<>>, w, <<>>)
    BY <1>3, <1>6, <1>7, LinesJoined
  <2>2. /\ new \in Seq(Seq(Characters)) /\ Len(new) = Len(w)
        /\ \A i \in 1..Len(w) :
             new[i] = IF i = 1 THEN (IF i = Len(w) THEN (<<>> \o w[i]) \o <<>> ELSE <<>> \o w[i])
                      ELSE IF i = Len(w) THEN w[i] \o <<>> ELSE w[i]
    BY <2>1 DEF IsJoined, Lines
  <2>3. ASSUME NEW i \in 1..Len(w)
        PROVE  new[i] = w[i]
    <3>1. w[i] \in Seq(Characters)
      BY <1>5
    <3>2. <<>> \o w[i] = w[i] /\ w[i] \o <<>> = w[i]
      BY <3>1
    <3> QED
      BY <2>2, <3>2
  <2> HIDE DEF new
  <2> QED
    BY <1>5, <2>2, <2>3
<1>9. /\ r \in Seq(Seq(Characters)) /\ Len(r) = N + n
      /\ \A l \in 1..(N - 1) : r[l] = t[l]
      /\ \A i \in 1..(n + 1) : r[(N - 1) + i] = w[i]
  <2>1. /\ r \in Lines /\ Len(r) = (N - 1) + (n + 1) + (N - N)
        /\ \A l \in 1..(N - 1) : r[l] = t[l]
        /\ \A i \in 1..(n + 1) : r[(N - 1) + i] = w[i]
    <3>1. LET m == Len(c.lines)
              lo == c.start.line
              hi == c.end.line
          IN /\ r \in Lines /\ Len(r) = (lo - 1) + m + (N - hi)
             /\ \A l \in 1..(lo - 1) : r[l] = t[l]
             /\ \A i \in 1..m : r[(lo - 1) + i] = new[i]
      <4>1. FitsIn(c, t)
        BY <1>3
      <4> QED
        BY <4>1, AfterLines
    <3> HIDE DEF r, new
    <3>2. c.start.line = N /\ c.end.line = N /\ Len(c.lines) = n + 1
      BY <1>5, <1>6
    <3>3. /\ r \in Lines /\ Len(r) = (N - 1) + (n + 1) + (N - N)
          /\ \A l \in 1..(N - 1) : r[l] = t[l]
          /\ \A i \in 1..(n + 1) : r[(N - 1) + i] = new[i]
      BY <3>1, <3>2
    <3> QED
      BY <1>8, <3>3, Zenon
  <2> HIDE DEF r
  <2>2. Len(r) = N + n
    BY <1>1, <1>4, <2>1
  <2> QED
    BY <2>1, <2>2, Zenon DEF Lines
<1> HIDE DEF r, new
<1>10. r = t \o s
  <2>1. /\ t \o s \in Seq(Seq(Characters)) /\ Len(t \o s) = N + n
        /\ \A l \in 1..N : (t \o s)[l] = t[l]
        /\ \A l \in (N + 1)..(N + n) : (t \o s)[l] = s[l - N]
    BY <1>1, <1>4, Joining
  <2> DEFINE ts == t \o s
  <2> HIDE DEF ts
  <2>2. ASSUME NEW l \in 1..(N + n)
        PROVE  r[l] = ts[l]
    <3>1. CASE l <= N - 1
      <4>1. l \in 1..(N - 1) /\ l \in 1..N
        BY <1>1, <1>4, <3>1
      <4> QED
        BY <1>9, <2>1, <4>1 DEF ts
    <3>2. CASE l = N
      <4>1. 1 \in 1..(n + 1) /\ (N - 1) + 1 = N /\ N \in 1..N
        BY <1>1, <1>4
      <4>2. r[N] = w[1] /\ ts[N] = t[N]
        BY <1>9, <2>1, <4>1 DEF ts
      <4> QED
        BY <1>5, <3>2, <4>2
    <3>3. CASE l > N
      <4> DEFINE i == l - N + 1
      <4>1. i \in 2..(n + 1) /\ i \in 1..(n + 1) /\ (N - 1) + i = l /\ i - 1 = l - N /\ l \in (N + 1)..(N + n)
        BY <1>1, <1>4, <3>3
      <4> HIDE DEF i
      <4>2. r[l] = w[i] /\ w[i] = s[i - 1]
        BY <1>5, <1>9, <4>1
      <4>3. ts[l] = s[l - N]
        BY <2>1, <4>1 DEF ts
      <4> QED
        BY <4>1, <4>2, <4>3
    <3> QED
      BY <1>1, <1>4, <3>1, <3>2, <3>3
  <2>3. ts \in Seq(Seq(Characters)) /\ Len(ts) = N + n
    BY <2>1 DEF ts
  <2>5. Len(r) = Len(ts) /\ \A l \in 1..Len(r) : r[l] = ts[l]
    BY <1>9, <2>2, <2>3
  <2>4. r = ts
    BY <1>9, <2>3, <2>5, SameSequence
  <2> QED
    BY <2>4 DEF ts
<1> QED
  BY <1>2, <1>3, <1>4, <1>10 DEF r, c, w, p, q, s, Lines

LEMMA FirstChunk ==
  ASSUME NEW t \in Lines, t # <<>>, NEW chunk, IsChunk(chunk, t)
  PROVE  Reached(After(Within(chunk, t), t), t, chunk.start)
<1> DEFINE c == Within(chunk, t)
           N == Len(t)
           r == After(c, t)
<1>1. N \in Nat \ {0} /\ t \in Seq(Seq(Characters))
  BY EndOfText DEF Lines
<1>2. chunk.start.line \in Nat /\ chunk.end.line \in Nat /\ chunk.start.line <= chunk.end.line
  <2>1. chunk.start \in Places /\ chunk.end \in Places /\ AtOrBefore(chunk.start, chunk.end)
    BY DEF IsChunk
  <2> QED
    BY <2>1 DEF AtOrBefore, Places
<1>3. FitsIn(c, t)
  BY WithinFits
<1>4. CASE chunk.start.line <= N
  <2>1. c.start = chunk.start
    <3>1. CASE chunk.end.line <= N
      <4>1. c = chunk
        BY <3>1, WithinText
      <4> QED
        BY <4>1
    <3>2. CASE chunk.end.line > N
      <4>1. c = [start |-> chunk.start, end |-> Place(N, Len(t[N]) + 1), lines |-> Stripped(chunk.lines)]
        BY <1>4, <3>2, WithinText
      <4> QED
        BY <4>1
    <3> QED
      BY <1>1, <1>2, <3>1, <3>2
  <2> HIDE DEF c
  <2> QED
    BY <1>3, <2>1, AfterReached DEF c
<1>5. CASE chunk.start.line > N
  <2> DEFINE s == Stripped(chunk.lines)
             p == Place(N + 1, 1)
  <2>1. chunk.start = p /\ r = t \o s /\ s \in Seq(Seq(Characters)) /\ s # <<>>
    BY <1>5, PastTheEnd DEF Lines
  <2> HIDE DEF r, s
  <2>2. Len(s) \in Nat \ {0}
    BY <2>1
  <2>3. /\ r \in Seq(Seq(Characters)) /\ Len(r) = N + Len(s)
        /\ \A l \in 1..N : r[l] = t[l]
    BY <1>1, <2>1, Joining
  <2>4. p \in Places /\ p.line = N + 1 /\ p.column = 1
    BY <1>1 DEF Place, Places
  <2> HIDE DEF p
  <2>5. p.line \in 1..Len(r) /\ p.column \in 1..(Len(r[p.line]) + 1)
    <3>1. p.line \in 1..Len(r)
      BY <1>1, <2>2, <2>3, <2>4
    <3>2. Len(r[p.line]) \in Nat
      BY <2>3, <3>1
    <3> QED
      BY <2>4, <3>1, <3>2
  <2>6. p \in PlacesIn(r)
    BY <2>3, <2>4, <2>5, PlaceInText
  <2>7. p.line - 1 = N /\ p.column - 1 = 0
    BY <1>1, <2>4
  <2>8. Reached(r, t, p)
    <3>1. p.line - 1 <= Len(t) /\ \A l \in 1..(p.line - 1) : r[l] = t[l]
      BY <1>1, <2>3, <2>7
    <3>2. 1..(p.column - 1) = {}
      BY <2>7
    <3> QED
      BY <2>6, <3>1, <3>2 DEF Reached
  <2> QED
    BY <2>1, <2>8 DEF r
<1> QED
  BY <1>1, <1>2, <1>4, <1>5

LEMMA LaterChunk ==
  ASSUME NEW t \in Lines, NEW u \in Lines, NEW e \in Places, Reached(u, t, e),
         NEW chunk, IsChunk(chunk, t), AtOrBefore(chunk.end, e)
  PROVE  /\ FitsIn(chunk, u) /\ Within(chunk, u) = chunk
         /\ Reached(After(chunk, u), t, chunk.start)
<1>1. /\ chunk \in [start : Places, end : Places, lines : Lines] /\ chunk.lines # <<>>
      /\ chunk.start \in Ends(t) /\ chunk.end \in Ends(t) /\ AtOrBefore(chunk.start, chunk.end)
  BY DEF IsChunk, Lines
<1>2. AtOrBefore(chunk.start, e)
  BY <1>1, PlaceOrder
<1>3. chunk.start \in PlacesIn(u) /\ chunk.end \in PlacesIn(u)
  BY <1>1, <1>2, ReachedBack
<1>4. FitsIn(chunk, u)
  BY <1>1, <1>3 DEF FitsIn
<1>5. Within(chunk, u) = chunk
  <2>1. chunk.start.line \in 1..Len(u) /\ chunk.end.line \in 1..Len(u) /\ Len(u) \in Nat
    BY <1>4, PartsOfLines
  <2>2. chunk.start.line <= Len(u) /\ chunk.end.line <= Len(u)
    BY <2>1
  <2> QED
    BY <2>2, Zenon DEF Within
<1>6. Reached(After(chunk, u), u, chunk.start) /\ After(chunk, u) \in Lines
  BY <1>4, AfterReached, AfterLines
<1> QED
  BY <1>2, <1>4, <1>5, <1>6, ReachedFurther

-----------------------------------------------------------------------------
(* The states while the chunks are applied: the k-th chunk changes st[k-1] *)
(* into st[k].                                                             *)
IsStep(s, t, c) ==
  /\ FitsIn(c, s.text) /\ t.text = After(c, s.text)
  /\ t.caret = Clipped(Moved(s.caret, c, s.text), t.text)

IsState(s) == s.text \in Lines /\ s.text # <<>> /\ s.caret \in PlacesIn(s.text)

LEMMA StepIsSafe ==
  ASSUME NEW s, NEW t, NEW c, IsState(s), IsStep(s, t, c)
  PROVE  IsState(t)
<1>1. s.text \in Lines /\ s.caret \in PlacesIn(s.text) /\ FitsIn(c, s.text)
  BY DEF IsState, IsStep
<1> DEFINE r == After(c, s.text)
           p == Moved(s.caret, c, s.text)
<1>2. t.text = r /\ t.caret = Clipped(p, r)
  BY DEF IsStep
<1>3. r \in Lines /\ r # <<>>
  BY <1>1, AfterLines
<1>4. p \in Places /\ p.line \in 1..Len(r) /\ p.column >= 1
  BY <1>1, CaretStays
<1> HIDE DEF r, p
<1>5. Clipped(p, r) \in PlacesIn(r)
  BY <1>3, <1>4, ClippedIsIn
<1> QED
  BY <1>2, <1>3, <1>5 DEF IsState

AreSteps(st, chunks, order, old, n) ==
  /\ \A k \in 0..n : IsState(st[k])
  /\ \A k \in 1..n : /\ Reached(st[k].text, old, chunks[order[k]].start)
                     /\ IsStep(st[k - 1], st[k], Within(chunks[order[k]], st[k - 1].text))
                     /\ k > 1 => Within(chunks[order[k]], st[k - 1].text) = chunks[order[k]]

LEMMA StepsAreSafe ==
  ASSUME NEW state, IsState(state), NEW chunks, NEW n, AreChunks(chunks, n, state.text)
  PROVE  \E st : /\ st[0] = state /\ Edited(state, chunks) = st[n]
                 /\ AreSteps(st, chunks, BottomUp(chunks), state.text, n)
<1> DEFINE order == BottomUp(chunks)
           old == state.text
<1>0. old \in Lines /\ old # <<>>
  BY DEF IsState
<1>1. /\ n \in Nat \ {0}
      /\ \A i \in 1..n : IsChunk(chunks[i], old)
      /\ \A i, j \in 1..n :
           i # j /\ Lower(chunks, i, j) => AtOrBefore(chunks[j].end, chunks[i].start)
  BY DEF AreChunks
<1>2. IsBottomUp(order, chunks, n)
  BY BottomUpIsSuch
<1>3. /\ DOMAIN order = 1..n /\ \A k \in 1..n : order[k] \in 1..n
      /\ \A k, l \in 1..n : k < l => order[k] # order[l] /\ Lower(chunks, order[k], order[l])
  BY <1>2 DEF IsBottomUp
<1>4. PICK st : /\ st[0] = state /\ Edited(state, chunks) = st[n]
                /\ \A k \in 1..n : st[k] = ReplaceChunk(st[k - 1], chunks[order[k]])
  BY <1>1, <1>3, EditedStepwise
<1> HIDE DEF order, old
<1> DEFINE chunk(k) == chunks[order[k]]
           c(k) == Within(chunk(k), st[k - 1].text)
           Ok(k) == /\ IsState(st[k])
                    /\ k > 0 => /\ Reached(st[k].text, old, chunk(k).start)
                                /\ IsStep(st[k - 1], st[k], c(k))
                                /\ k > 1 => c(k) = chunk(k)
           S == {k \in Nat : k <= n => Ok(k)}
<1>5. 0 \in S
  BY <1>4
<1>6. ASSUME NEW k \in Nat, k \in S
      PROVE  k + 1 \in S
  <2> SUFFICES ASSUME k + 1 <= n PROVE Ok(k + 1)
    OBVIOUS
  <2> DEFINE s == st[k]
             t == st[k + 1]
             d == chunk(k + 1)
             e == c(k + 1)
  <2>1. k <= n /\ k + 1 \in 1..n /\ (k + 1) - 1 = k
    BY <1>1
  <2>2. Ok(k)
    BY <1>6, <2>1
  <2>3. IsChunk(d, old)
    BY <1>1, <1>3, <2>1
  <2>4. s.text \in Lines /\ s.text # <<>> /\ IsState(s)
    BY <2>2 DEF IsState
  <2>5. t = [text |-> After(e, s.text), caret |-> Clipped(Moved(s.caret, e, s.text), After(e, s.text))]
    <3>1. t = ReplaceChunk(s, d)
      BY <1>4, <2>1
    <3>2. e = Within(d, s.text)
      BY <2>1
    <3> QED
      BY <3>1, <3>2, ReplaceChunkIs, Zenon
  <2>6. e = Within(d, s.text)
    BY <2>1
  <2>7. /\ FitsIn(e, s.text) /\ Reached(After(e, s.text), old, d.start) /\ (k + 1 > 1 => e = d)
    <3>1. CASE k = 0
      <4>1. s.text = old
        BY <1>4, <3>1 DEF old
      <4>2. FitsIn(e, s.text) /\ Reached(After(e, s.text), old, d.start)
        BY <1>0, <2>3, <2>6, <4>1, WithinFits, FirstChunk
      <4> QED
        BY <3>1, <4>2
    <3>2. CASE k # 0
      <4> DEFINE f == chunk(k).start
      <4>1. k \in 1..n /\ k < k + 1 /\ k > 0
        BY <2>1, <3>2
      <4>2. Reached(s.text, old, f)
        BY <2>2, <4>1
      <4>3. AtOrBefore(d.end, f)
        <5>1. order[k] # order[k + 1] /\ Lower(chunks, order[k], order[k + 1])
          BY <1>3, <2>1, <4>1
        <5> QED
          BY <1>1, <1>3, <2>1, <4>1, <5>1
      <4>4. f \in Places
        BY <1>1, <1>3, <4>1 DEF IsChunk
      <4> HIDE DEF f, d, e
      <4>5. FitsIn(d, s.text) /\ Within(d, s.text) = d /\ Reached(After(d, s.text), old, d.start)
        BY <1>0, <2>3, <2>4, <4>2, <4>3, <4>4, LaterChunk
      <4> QED
        BY <2>6, <4>5
    <3> QED
      BY <3>1, <3>2
  <2> HIDE DEF s, t, d, e
  <2>8. IsStep(s, t, e) /\ t.text = After(e, s.text)
    BY <2>5, <2>7 DEF IsStep
  <2>9. IsState(t)
    BY <2>4, <2>8, StepIsSafe
  <2> QED
    BY <2>1, <2>7, <2>8, <2>9 DEF s, t, d, e
<1> HIDE DEF S
<1>7. \A k \in Nat : k \in S
  BY <1>5, <1>6, Induction
<1>8. \A k \in 0..n : Ok(k)
  BY <1>1, <1>7 DEF S
<1>9. AreSteps(st, chunks, order, old, n)
  <2>1. \A k \in 0..n : IsState(st[k])
    BY <1>8
  <2>2. ASSUME NEW k \in 1..n
        PROVE  /\ Reached(st[k].text, old, chunks[order[k]].start)
               /\ IsStep(st[k - 1], st[k], Within(chunks[order[k]], st[k - 1].text))
               /\ k > 1 => Within(chunks[order[k]], st[k - 1].text) = chunks[order[k]]
    <3>1. k \in 0..n /\ k > 0
      BY <1>1
    <3> QED
      BY <1>8, <3>1
  <2> QED
    BY <2>1, <2>2, Zenon DEF AreSteps
<1> QED
  BY <1>4, <1>9 DEF order, old

-----------------------------------------------------------------------------
(* The text as one sequence.                                               *)
Symbol == Characters \union {Newline}

Ended(t) == [l \in DOMAIN t |-> Append(t[l], Newline)]

LEMMA LineEnded ==
  ASSUME NEW s \in Seq(Characters)
  PROVE  /\ Append(s, Newline) \in Seq(Symbol) /\ Append(s, Newline) = s \o <<Newline>>
         /\ s \in Seq(Symbol) /\ <<Newline>> \in Seq(Symbol)
<1>1. s \in Seq(Symbol) /\ Newline \in Symbol
  <2>1. Characters \subseteq Symbol
    BY DEF Symbol
  <2> QED
    BY <2>1, SeqMonotonic DEF Symbol
<1>2. Append(s, Newline) \in Seq(Symbol) /\ Append(s, Newline) = s \o <<Newline>>
  BY <1>1, AppendProperties, AppendIsConcat
<1>3. <<Newline>> \in Seq(Symbol)
  BY <1>1
<1> QED
  BY <1>1, <1>2, <1>3

LEMMA EndedLines ==
  ASSUME NEW t \in Lines
  PROVE  /\ Ended(t) \in Seq(Seq(Symbol)) /\ Len(Ended(t)) = Len(t) /\ Flat(t) = FlattenSeq(Ended(t))
         /\ \A l \in 1..Len(t) : Ended(t)[l] = t[l] \o <<Newline>>
<1>1. DOMAIN t = 1..Len(t) /\ Len(t) \in Nat /\ \A l \in 1..Len(t) : t[l] \in Seq(Characters)
  BY DEF Lines
<1>2. \A l \in 1..Len(t) : Append(t[l], Newline) \in Seq(Symbol) /\ Append(t[l], Newline) = t[l] \o <<Newline>>
  BY <1>1, LineEnded
<1> DEFINE e == [l \in 1..Len(t) |-> Append(t[l], Newline)]
<1>3. e \in [1..Len(t) -> Seq(Symbol)] /\ \A l \in 1..Len(t) : e[l] = Append(t[l], Newline)
  BY <1>2
<1>4. Ended(t) = e
  BY <1>1 DEF Ended
<1> HIDE DEF e
<1>5. e \in Seq(Seq(Symbol)) /\ Len(e) = Len(t)
  BY <1>1, <1>3, ListIsSequence
<1>6. Flat(t) = FlattenSeq(Ended(t))
  BY DEF Flat, Ended
<1> QED
  BY <1>2, <1>3, <1>4, <1>5, <1>6

LEMMA FlatIsText ==
  ASSUME NEW t \in Lines
  PROVE  Flat(t) \in Seq(Symbol) /\ Len(Flat(t)) \in Nat
<1>1. Flat(t) \in Seq(Symbol)
  BY EndedLines, FlattenType
<1> QED
  BY <1>1

LEMMA FlatConcat ==
  ASSUME NEW s \in Lines, NEW t \in Lines
  PROVE  s \o t \in Lines /\ Flat(s \o t) = Flat(s) \o Flat(t)
<1> DEFINE m == Len(s)
           n == Len(t)
           st == s \o t
           es == Ended(s)
           et == Ended(t)
           e == Ended(st)
<1>1. m \in Nat /\ n \in Nat /\ s \in Seq(Seq(Characters)) /\ t \in Seq(Seq(Characters))
  BY DEF Lines
<1>2. /\ st \in Lines /\ Len(st) = m + n
      /\ \A l \in 1..m : st[l] = s[l]
      /\ \A l \in (m + 1)..(m + n) : l - m \in 1..n /\ st[l] = t[l - m]
  <2>1. /\ st \in Seq(Seq(Characters)) /\ Len(st) = m + n
        /\ \A l \in 1..m : st[l] = s[l]
        /\ \A l \in (m + 1)..(m + n) : l - m \in 1..n /\ st[l] = t[l - m]
    BY <1>1, Joining
  <2> QED
    BY <2>1 DEF Lines
<1> HIDE DEF st
<1>3. /\ es \in Seq(Seq(Symbol)) /\ Len(es) = m /\ \A l \in 1..m : es[l] = s[l] \o <<Newline>>
      /\ Flat(s) = FlattenSeq(es)
  BY EndedLines
<1>4. /\ et \in Seq(Seq(Symbol)) /\ Len(et) = n /\ \A l \in 1..n : et[l] = t[l] \o <<Newline>>
      /\ Flat(t) = FlattenSeq(et)
  BY EndedLines
<1>5. /\ e \in Seq(Seq(Symbol)) /\ Len(e) = m + n /\ \A l \in 1..(m + n) : e[l] = st[l] \o <<Newline>>
      /\ Flat(st) = FlattenSeq(e)
  BY <1>2, EndedLines
<1> HIDE DEF es, et, e, m, n
<1>6. e = es \o et
  <2> DEFINE x == es \o et
             T == Seq(Symbol)
  <2>1. es \in Seq(T) /\ et \in Seq(T) /\ e \in Seq(T)
    BY <1>3, <1>4, <1>5
  <2> HIDE DEF T
  <2>5. /\ x \in Seq(T) /\ Len(x) = Len(es) + Len(et)
        /\ \A l \in 1..Len(es) : x[l] = es[l]
        /\ \A l \in (Len(es) + 1)..(Len(es) + Len(et)) : x[l] = et[l - Len(es)]
    BY <2>1, Joining
  <2> HIDE DEF x
  <2>2. /\ x \in Seq(T) /\ Len(x) = m + n
        /\ \A l \in 1..m : x[l] = es[l]
        /\ \A l \in (m + 1)..(m + n) : x[l] = et[l - m]
    BY <1>3, <1>4, <2>5
  <2>3. ASSUME NEW l \in 1..(m + n)
        PROVE  e[l] = x[l]
    <3>1. CASE l <= m
      <4>1. l \in 1..m
        BY <3>1
      <4>2. st[l] = s[l] /\ x[l] = es[l]
        BY <1>2, <2>2, <4>1
      <4>3. es[l] = s[l] \o <<Newline>>
        BY <1>3, <4>1
      <4> QED
        BY <1>5, <4>2, <4>3
    <3>2. CASE l > m
      <4>1. l \in (m + 1)..(m + n)
        BY <1>1, <3>2
      <4>2. l - m \in 1..n /\ st[l] = t[l - m] /\ x[l] = et[l - m]
        BY <1>2, <2>2, <4>1
      <4>3. et[l - m] = t[l - m] \o <<Newline>>
        BY <1>4, <4>2
      <4> QED
        BY <1>5, <4>2, <4>3
    <3> QED
      BY <1>1, <3>1, <3>2
  <2>4. e = x
    BY <1>5, <2>1, <2>2, <2>3, SeqEqual
  <2> QED
    BY <2>4 DEF x
<1>7. FlattenSeq(es \o et) = FlattenSeq(es) \o FlattenSeq(et)
  BY <1>3, <1>4, FlattenConcat
<1> QED
  BY <1>2, <1>3, <1>4, <1>5, <1>6, <1>7 DEF st

LEMMA FlatLine ==
  ASSUME NEW s \in Seq(Characters)
  PROVE  <<s>> \in Lines /\ Flat(<<s>>) = s \o <<Newline>>
<1> DEFINE t == <<s>>
<1>1. t \in Lines /\ Len(t) = 1 /\ t[1] = s
  BY DEF Lines
<1> HIDE DEF t
<1>2. /\ Ended(t) \in Seq(Seq(Symbol)) /\ Len(Ended(t)) = 1 /\ Ended(t)[1] = s \o <<Newline>>
      /\ Flat(t) = FlattenSeq(Ended(t))
  <2>1. 1 \in 1..1
    OBVIOUS
  <2> QED
    BY <1>1, <2>1, EndedLines
<1> DEFINE e == Ended(t)
           x == s \o <<Newline>>
<1>3. x \in Seq(Symbol)
  BY LineEnded
<1>4. e = <<x>>
  <2> DEFINE T == Seq(Symbol)
  <2>1. e \in Seq(T) /\ Len(e) = 1 /\ e[1] = x /\ x \in T
    BY <1>2, <1>3
  <2> HIDE DEF T, e, x
  <2>2. <<x>> \in Seq(T) /\ Len(<<x>>) = 1 /\ <<x>>[1] = x
    BY <2>1
  <2> QED
    BY <2>1, <2>2, SeqEqual
<1> HIDE DEF e, x
<1>5. FlattenSeq(<<x>>) = x
  BY <1>3, FlattenOne
<1>6. Flat(t) = x
  BY <1>2, <1>4, <1>5 DEF e
<1> QED
  BY <1>1, <1>6 DEF t, x

LEMMA FlatNone == <<>> \in Lines /\ Flat(<<>>) = <<>>
<1>1. <<>> \in Lines
  BY DEF Lines
<1> DEFINE e == Ended(<<>>)
<1>2. e \in Seq(Seq(Symbol)) /\ Len(e) = 0 /\ Flat(<<>>) = FlattenSeq(e)
  BY <1>1, EndedLines
<1> HIDE DEF e
<1>3. e = <<>>
  BY <1>2
<1> QED
  BY <1>1, <1>2, <1>3, FlattenNone

LEMMA LinesSplit ==
  ASSUME NEW t \in Lines, NEW l \in 1..Len(t)
  PROVE  /\ SubSeq(t, 1, l - 1) \in Lines /\ SubSeq(t, l + 1, Len(t)) \in Lines
         /\ SubSeq(t, 1, l) \in Lines
         /\ t[l] \in Seq(Characters) /\ <<t[l]>> \in Lines /\ Len(t[l]) \in Nat
         /\ SubSeq(t, 1, l) = SubSeq(t, 1, l - 1) \o <<t[l]>>
         /\ t = (SubSeq(t, 1, l - 1) \o <<t[l]>>) \o SubSeq(t, l + 1, Len(t))
<1> DEFINE T == Seq(Characters)
           n == Len(t)
<1>1. t \in Seq(T)
  BY DEF Lines
<1>2. t[l] \in Seq(Characters) /\ Len(t[l]) \in Nat /\ n \in Nat
  BY <1>1
<1> HIDE DEF T
<1>3. l \in Nat /\ 1 <= l /\ l <= n /\ 1 \in 1..n /\ l \in 1..n
  BY <1>2
<1>4. \A a, b \in Int : a >= 1 /\ b <= n => SubSeq(t, a, b) \in Seq(T)
  <2> SUFFICES ASSUME NEW a \in Int, NEW b \in Int, a >= 1, b <= n
               PROVE  SubSeq(t, a, b) \in Seq(T)
    OBVIOUS
  <2>1. \A i \in a..b : t[i] \in T
    BY <1>1, <1>2
  <2> QED
    BY <2>1, SubSeqProperties
<1>5. SubSeq(t, 1, l - 1) \in Seq(T) /\ SubSeq(t, l + 1, n) \in Seq(T) /\ SubSeq(t, 1, l) \in Seq(T)
  <2>1. l - 1 \in Int /\ l + 1 \in Int /\ l \in Int /\ n \in Int /\ 1 \in Int
        /\ l - 1 <= n /\ l + 1 >= 1
    BY <1>2, <1>3
  <2> QED
    BY <1>3, <1>4, <2>1
<1>6. SubSeq(t, 1, l) = SubSeq(t, 1, l - 1) \o <<t[l]>>
  BY <1>1, <1>3, SubSeqRecursiveSecond
<1>7. SubSeq(t, 1, l) \o SubSeq(t, l + 1, n) = SubSeq(t, 1, n)
  <2>1. 1 \in 1..n + 1 /\ l \in (1 - 1)..n /\ n \in l..n
    BY <1>2, <1>3
  <2> QED
    BY <1>1, <2>1, ConcatAdjacentSubSeq
<1>8. SubSeq(t, 1, n) = t
  BY <1>1, SubSeqFull
<1>9. <<t[l]>> \in Lines
  BY <1>2, FlatLine
<1> QED
  BY <1>2, <1>5, <1>6, <1>7, <1>8, <1>9 DEF Lines, T

Before(t, p) == Flat(SubSeq(t, 1, p.line - 1)) \o SubSeq(t[p.line], 1, p.column - 1)

Rest(t, p) ==
  (SubSeq(t[p.line], p.column, Len(t[p.line])) \o <<Newline>>) \o Flat(SubSeq(t, p.line + 1, Len(t)))

LEMMA SplitAt ==
  ASSUME NEW t \in Lines, NEW p \in PlacesIn(t)
  PROVE  /\ Before(t, p) \in Seq(Symbol) /\ Rest(t, p) \in Seq(Symbol)
         /\ Flat(t) = Before(t, p) \o Rest(t, p)
         /\ FlatOffset(t, p) \in Nat \ {0} /\ Len(Before(t, p)) = FlatOffset(t, p) - 1
         /\ Len(Rest(t, p)) \in Nat \ {0}
<1> DEFINE l == p.line
           k == p.column
           s == t[l]
           pre == SubSeq(t, 1, l - 1)
           post == SubSeq(t, l + 1, Len(t))
           a == SubSeq(s, 1, k - 1)
           b == SubSeq(s, k, Len(s))
           nl == <<Newline>>
           x == Flat(pre)
           z == Flat(post)
<1>1. l \in 1..Len(t) /\ k \in 1..(Len(s) + 1)
  BY PlaceInText DEF Lines
<1>2. /\ pre \in Lines /\ post \in Lines /\ s \in Seq(Characters) /\ <<s>> \in Lines /\ Len(s) \in Nat
      /\ t = (pre \o <<s>>) \o post
  BY <1>1, LinesSplit
<1>3. x \in Seq(Symbol) /\ z \in Seq(Symbol)
  BY <1>2, FlatIsText
<1>4. nl \in Seq(Symbol) /\ s \in Seq(Symbol) /\ Len(nl) = 1 /\ Flat(<<s>>) = s \o nl
  BY <1>2, LineEnded, FlatLine
<1>5. Flat(t) = (x \o (s \o nl)) \o z
  <2>1. pre \o <<s>> \in Lines /\ Flat(pre \o <<s>>) = x \o (s \o nl)
    <3> DEFINE q == <<s>>
               u == s \o nl
    <3>1. q \in Lines /\ Flat(q) = u /\ pre \in Lines
      BY <1>2, <1>4
    <3> HIDE DEF q, u, pre
    <3>2. pre \o q \in Lines /\ Flat(pre \o q) = Flat(pre) \o Flat(q)
      BY <3>1, FlatConcat
    <3> QED
      BY <3>1, <3>2 DEF q, u
  <2> DEFINE ps == pre \o <<s>>
  <2> HIDE DEF ps, post, x
  <2>2. Flat(ps \o post) = Flat(ps) \o z
    BY <1>2, <2>1, FlatConcat DEF ps
  <2> QED
    BY <1>2, <2>1, <2>2 DEF ps
<1>6. a \in Seq(Symbol) /\ b \in Seq(Symbol) /\ Len(a) = k - 1 /\ s = a \o b
  <2> HIDE DEF s, k
  <2>1. k \in Nat /\ 1 <= k /\ k <= Len(s) + 1
    BY <1>1, <1>2
  <2>2. \A i \in 1..Len(s) : s[i] \in Symbol
    BY <1>4
  <2>3. a \in Seq(Symbol) /\ Len(a) = k - 1
    <3>1. \A i \in 1..(k - 1) : s[i] \in Symbol
      BY <1>2, <2>1, <2>2
    <3> QED
      BY <2>1, <3>1, SubSeqProperties
  <2>4. b \in Seq(Symbol)
    <3>1. \A i \in k..Len(s) : s[i] \in Symbol
      BY <1>2, <2>1, <2>2
    <3> QED
      BY <1>2, <2>1, <3>1, SubSeqProperties
  <2>5. SubSeq(s, 1, k - 1) \o SubSeq(s, (k - 1) + 1, Len(s)) = SubSeq(s, 1, Len(s))
    <3>1. 1 \in 1..Len(s) + 1 /\ k - 1 \in (1 - 1)..Len(s) /\ Len(s) \in (k - 1)..Len(s)
      BY <1>2, <2>1
    <3> QED
      BY <1>4, <3>1, ConcatAdjacentSubSeq
  <2>6. SubSeq(s, 1, Len(s)) = s /\ (k - 1) + 1 = k
    BY <1>4, <2>1, SubSeqFull
  <2> QED
    BY <2>3, <2>4, <2>5, <2>6
<1>7. Before(t, p) = x \o a /\ Rest(t, p) = (b \o nl) \o z /\ FlatOffset(t, p) = Len(x) + k
  BY DEF Before, Rest, FlatOffset
<1>8. k \in Nat /\ k >= 1
  BY <1>1, <1>2
<1> HIDE DEF x, a, b, nl, z, s, k
<1>9. x \o a \in Seq(Symbol) /\ Len(x \o a) = (Len(x) + k) - 1 /\ Len(x) \in Nat
  <2>1. x \o a \in Seq(Symbol) /\ Len(x \o a) = Len(x) + Len(a) /\ Len(x) \in Nat
    BY <1>3, <1>6, Joining
  <2> QED
    BY <1>6, <1>8, <2>1
<1>10. (b \o nl) \o z \in Seq(Symbol) /\ Len((b \o nl) \o z) \in Nat \ {0}
  <2> DEFINE y == b \o nl
  <2>1. y \in Seq(Symbol) /\ Len(y) = Len(b) + Len(nl) /\ Len(b) \in Nat
    BY <1>4, <1>6, Joining
  <2> HIDE DEF y
  <2>2. y \o z \in Seq(Symbol) /\ Len(y \o z) = Len(y) + Len(z) /\ Len(z) \in Nat
    BY <1>3, <2>1, Joining
  <2>3. Len(y \o z) \in Nat \ {0}
    BY <1>4, <2>1, <2>2
  <2> QED
    BY <2>2, <2>3 DEF y
<1>11. Flat(t) = (x \o a) \o ((b \o nl) \o z)
  <2>1. Flat(t) = (x \o ((a \o b) \o nl)) \o z
    BY <1>5, <1>6
  <2>2. (x \o ((a \o b) \o nl)) \o z = (x \o a) \o ((b \o nl) \o z)
    <3>1. (a \o b) \o nl = a \o (b \o nl) /\ b \o nl \in Seq(Symbol)
      BY <1>4, <1>6
    <3> DEFINE y == b \o nl
    <3>2. y \in Seq(Symbol)
      BY <3>1
    <3> HIDE DEF y
    <3>3. x \o (a \o y) = (x \o a) \o y
      <4>1. IsAssociative(x, a, y)
        BY <1>3, <1>6, <3>2, Associative
      <4> QED
        BY <4>1 DEF IsAssociative
    <3> DEFINE xa == x \o a
    <3>5. xa \in Seq(Symbol)
      BY <1>9
    <3> HIDE DEF xa
    <3>4. (xa \o y) \o z = xa \o (y \o z)
      BY <1>3, <3>5, <3>2
    <3> QED
      BY <3>1, <3>3, <3>4 DEF y, xa
  <2> QED
    BY <2>1, <2>2
<1>12. Len(x) + k \in Nat \ {0}
  BY <1>8, <1>9
<1> QED
  BY <1>7, <1>9, <1>10, <1>11, <1>12

-----------------------------------------------------------------------------
(* The buffer is the one that the edit has made of the old one.            *)
IsEdit(e) ==
  /\ e.text \in Texts /\ e.caret \in PlacesIn(e.text) /\ e.chunks \in ChunkLists(e.text)
  /\ LET result == Edited([text |-> e.text, caret |-> e.caret], e.chunks)
     IN text = result.text /\ caret = result.caret

EditsInv ==
  /\ text # <<>> /\ caret \in PlacesIn(text)
  /\ applied = NotApplied => text \in Texts
  /\ applied # NotApplied => IsEdit(applied)

LEMMA EditIsSafe ==
  ASSUME NEW t \in Texts, NEW p \in PlacesIn(t), NEW chunks \in ChunkLists(t)
  PROVE  IsState(Edited([text |-> t, caret |-> p], chunks))
<1> DEFINE state == [text |-> t, caret |-> p]
<1>1. state.text = t /\ state.caret = p
  OBVIOUS
<1>2. IsState(state)
  BY <1>1, TextsAssumption DEF IsState, Lines
<1>3. PICK n : AreChunks(chunks, n, t)
  BY ChunksAreSuch
<1>4. n \in Nat
  BY <1>3 DEF AreChunks
<1> HIDE DEF state
<1>5. PICK st : Edited(state, chunks) = st[n] /\ AreSteps(st, chunks, BottomUp(chunks), state.text, n)
  BY <1>1, <1>2, <1>3, StepsAreSafe
<1>6. \A k \in 0..n : IsState(st[k])
  BY <1>5 DEF AreSteps
<1>7. IsState(st[n])
  BY <1>4, <1>6
<1> QED
  BY <1>5, <1>7 DEF state

LEMMA EditsBegin == InitEdits => EditsInv
<1> SUFFICES ASSUME InitEdits PROVE EditsInv
  OBVIOUS
<1>1. text \in Texts /\ caret \in PlacesIn(text) /\ applied = NotApplied
  BY DEF InitEdits
<1>2. text # <<>>
  BY <1>1, TextsAssumption
<1> QED
  BY <1>1, <1>2 DEF EditsInv

LEMMA EditsGoOn == EditsInv /\ [NextEdits]_edits => EditsInv'
<1> SUFFICES ASSUME EditsInv, [NextEdits]_edits PROVE EditsInv'
  OBVIOUS
<1>1. CASE NextEdits
  <2>1. applied = NotApplied /\ text \in Texts /\ caret \in PlacesIn(text)
    BY <1>1 DEF NextEdits, EditsInv
  <2>2. PICK chunks \in ChunkLists(text) : ReplaceChunksInBuffer(chunks)
    BY <1>1 DEF NextEdits
  <2> DEFINE result == Edited([text |-> text, caret |-> caret], chunks)
  <2>3. /\ text' = result.text /\ caret' = result.caret
        /\ applied' = [text |-> text, caret |-> caret, chunks |-> chunks]
    BY <2>2, Zenon DEF ReplaceChunksInBuffer
  <2>4. IsState(result)
    BY <2>1, EditIsSafe
  <2>5. text' # <<>> /\ caret' \in PlacesIn(text')
    BY <2>3, <2>4 DEF IsState
  <2>6. /\ applied'.text = text /\ applied'.caret = caret /\ applied'.chunks = chunks
        /\ applied' \in [text : {text}, caret : PlacesIn(text), chunks : ChunkLists(text)]
    BY <2>1, <2>3
  <2>7. applied' # NotApplied
    BY <2>1, <2>6, NotAppliedAssumption
  <2>8. IsEdit(applied)'
    BY <2>1, <2>2, <2>3, <2>6, Zenon DEF IsEdit
  <2> QED
    BY <2>5, <2>7, <2>8, Zenon DEF EditsInv
<1>2. CASE UNCHANGED edits
  <2>1. text' = text /\ caret' = caret /\ applied' = applied
    BY <1>2 DEF edits
  <2> QED
    BY <2>1, Zenon DEF EditsInv, IsEdit
<1> QED
  BY <1>1, <1>2

LEMMA EditsInvGivesTypes == EditsInv => EditsTypeOK
BY DEF EditsInv, IsEdit, EditsTypeOK

EditsSpec == InitEdits /\ [][NextEdits]_edits

THEOREM EditsTypeCorrect == EditsSpec => []EditsTypeOK
BY EditsBegin, EditsGoOn, EditsInvGivesTypes, PTL DEF EditsSpec

-----------------------------------------------------------------------------
(* One chunk, in the text as one sequence.                                 *)
LEMMA FlatAround ==
  ASSUME NEW t \in Lines, NEW l \in 1..Len(t)
  PROVE  /\ Flat(SubSeq(t, 1, l - 1)) \in Seq(Symbol) /\ Flat(SubSeq(t, l + 1, Len(t))) \in Seq(Symbol)
         /\ t[l] \in Seq(Symbol) /\ t[l] \in Seq(Characters)
         /\ t[l] \o <<Newline>> \in Seq(Symbol)
         /\ Flat(t) = (Flat(SubSeq(t, 1, l - 1)) \o (t[l] \o <<Newline>>)) \o Flat(SubSeq(t, l + 1, Len(t)))
<1> DEFINE s == t[l]
           pre == SubSeq(t, 1, l - 1)
           post == SubSeq(t, l + 1, Len(t))
           nl == <<Newline>>
           x == Flat(pre)
           z == Flat(post)
<1>2. /\ pre \in Lines /\ post \in Lines /\ s \in Seq(Characters) /\ <<s>> \in Lines /\ Len(s) \in Nat
      /\ t = (pre \o <<s>>) \o post
  BY LinesSplit
<1>3. x \in Seq(Symbol) /\ z \in Seq(Symbol)
  BY <1>2, FlatIsText
<1>4. nl \in Seq(Symbol) /\ s \in Seq(Symbol) /\ Flat(<<s>>) = s \o nl
  BY <1>2, LineEnded, FlatLine
<1>5. Flat(t) = (x \o (s \o nl)) \o z
  <2>1. pre \o <<s>> \in Lines /\ Flat(pre \o <<s>>) = x \o (s \o nl)
    <3> DEFINE q == <<s>>
               u == s \o nl
    <3>1. q \in Lines /\ Flat(q) = u /\ pre \in Lines
      BY <1>2, <1>4
    <3> HIDE DEF q, u, pre
    <3>2. pre \o q \in Lines /\ Flat(pre \o q) = Flat(pre) \o Flat(q)
      BY <3>1, FlatConcat
    <3> QED
      BY <3>1, <3>2 DEF q, u
  <2> DEFINE ps == pre \o <<s>>
  <2> HIDE DEF ps, post, x
  <2>2. Flat(ps \o post) = Flat(ps) \o z
    BY <1>2, <2>1, FlatConcat DEF ps
  <2> QED
    BY <1>2, <2>1, <2>2 DEF ps
<1>6. s \o nl \in Seq(Symbol)
  BY <1>4, ConcatProperties
<1> QED
  BY <1>2, <1>3, <1>4, <1>5, <1>6

LEMMA SameLines ==
  ASSUME NEW u \in Lines, NEW v \in Lines, NEW a \in Nat \ {0}, NEW b \in Int, b <= Len(u), b <= Len(v),
         \A l \in a..b : u[l] = v[l]
  PROVE  SubSeq(u, a, b) = SubSeq(v, a, b)
<1> DEFINE T == Seq(Characters)
           x == SubSeq(u, a, b)
           y == SubSeq(v, a, b)
<1>1. u \in Seq(T) /\ v \in Seq(T)
  BY DEF Lines
<1> HIDE DEF T
<1>2. a \in Int /\ Len(u) \in Nat /\ Len(v) \in Nat
  BY <1>1
<1>3. \A i \in a..b : i \in 1..Len(u) /\ i \in 1..Len(v)
  BY <1>2
<1>4. \A i \in a..b : u[i] \in T /\ v[i] \in T
  BY <1>1, <1>3
<1>5. /\ x \in Seq(T) /\ Len(x) = (IF a <= b THEN b - a + 1 ELSE 0)
      /\ \A i \in 1..(b - a + 1) : x[i] = u[a + i - 1]
  BY <1>2, <1>4, SubSeqProperties
<1>6. /\ y \in Seq(T) /\ Len(y) = (IF a <= b THEN b - a + 1 ELSE 0)
      /\ \A i \in 1..(b - a + 1) : y[i] = v[a + i - 1]
  BY <1>2, <1>4, SubSeqProperties
<1> HIDE DEF x, y
<1>7. \A i \in 1..Len(x) : i \in 1..(b - a + 1) /\ a + i - 1 \in a..b
  BY <1>2, <1>5
<1>8. \A i \in 1..Len(x) : x[i] = y[i]
  BY <1>5, <1>6, <1>7
<1> QED
  BY <1>5, <1>6, <1>8, SeqEqual DEF x, y

(* A line changed.                                                         *)
LEMMA LineChanged ==
  ASSUME NEW t \in Lines, NEW l \in 1..Len(t), NEW s \in Seq(Characters)
  PROVE  LET v == [t EXCEPT ![l] = s]
         IN /\ v \in Lines /\ Len(v) = Len(t) /\ v[l] = s
            /\ SubSeq(v, 1, l - 1) = SubSeq(t, 1, l - 1)
            /\ SubSeq(v, l + 1, Len(v)) = SubSeq(t, l + 1, Len(t))
<1> DEFINE T == Seq(Characters)
           n == Len(t)
           v == [t EXCEPT ![l] = s]
<1>1. t \in Seq(T) /\ s \in T
  BY DEF Lines
<1> HIDE DEF T
<1>2. n \in Nat /\ t \in [1..n -> T]
  BY <1>1
<1>3. v \in [1..n -> T] /\ v[l] = s /\ \A i \in 1..n : i # l => v[i] = t[i]
  BY <1>1, <1>2
<1> HIDE DEF v
<1>4. v \in Seq(T) /\ Len(v) = n
  BY <1>2, <1>3, ListIsSequence
<1>5. v \in Lines
  BY <1>4 DEF Lines, T
<1>6. l \in Nat /\ 1 <= l /\ l <= n
  BY <1>2
<1>7. SubSeq(v, 1, l - 1) = SubSeq(t, 1, l - 1)
  <2>1. \A i \in 1..(l - 1) : i \in 1..n /\ i # l
    BY <1>2, <1>6
  <2>2. \A i \in 1..(l - 1) : v[i] = t[i]
    BY <1>3, <2>1
  <2>3. l - 1 \in Int /\ l - 1 <= Len(v) /\ l - 1 <= Len(t) /\ 1 \in Nat \ {0}
    BY <1>2, <1>4, <1>6
  <2> QED
    BY <1>5, <2>2, <2>3, SameLines
<1>8. SubSeq(v, l + 1, n) = SubSeq(t, l + 1, n)
  <2>1. \A i \in (l + 1)..n : i \in 1..n /\ i # l
    BY <1>2, <1>6
  <2>2. \A i \in (l + 1)..n : v[i] = t[i]
    BY <1>3, <2>1
  <2>3. n \in Int /\ n <= Len(v) /\ n <= Len(t) /\ l + 1 \in Nat \ {0}
    BY <1>2, <1>4, <1>6
  <2> HIDE DEF n
  <2> QED
    BY <1>5, <2>2, <2>3, SameLines
<1> QED
  BY <1>3, <1>4, <1>5, <1>7, <1>8 DEF v

LEMMA FlatPrefix ==
  ASSUME NEW t \in Lines, t # <<>>, NEW h \in Seq(Characters)
  PROVE  LET v == [t EXCEPT ![1] = h \o t[1]]
         IN v \in Lines /\ Len(v) = Len(t) /\ Flat(v) = h \o Flat(t)
<1> DEFINE s == h \o t[1]
           v == [t EXCEPT ![1] = s]
           z == Flat(SubSeq(t, 1 + 1, Len(t)))
           nl == <<Newline>>
           a == t[1]
<1>1. 1 \in 1..Len(t)
  <2>1. Len(t) \in Nat /\ Len(t) # 0
    BY DEF Lines
  <2> QED
    BY <2>1
<1>2. a \in Seq(Characters) /\ a \in Seq(Symbol) /\ h \in Seq(Symbol) /\ nl \in Seq(Symbol)
  <2>1. a \in Seq(Characters) /\ a \in Seq(Symbol)
    BY <1>1, FlatAround
  <2> QED
    BY <2>1, LineEnded
<1>3. s \in Seq(Characters)
  <2> HIDE DEF a
  <2>1. h \o a \in Seq(Characters)
    BY <1>2, ConcatProperties
  <2> QED
    BY <2>1 DEF a
<1> HIDE DEF s
<1>4. /\ v \in Lines /\ Len(v) = Len(t) /\ v[1] = s
      /\ SubSeq(v, 1, 1 - 1) = SubSeq(t, 1, 1 - 1)
      /\ SubSeq(v, 1 + 1, Len(v)) = SubSeq(t, 1 + 1, Len(t))
  BY <1>1, <1>3, LineChanged
<1> HIDE DEF v
<1>5. Flat(t) = (Flat(SubSeq(t, 1, 1 - 1)) \o (a \o nl)) \o z /\ z \in Seq(Symbol)
  BY <1>1, FlatAround
<1>6. Flat(v) = (Flat(SubSeq(v, 1, 1 - 1)) \o (s \o nl)) \o z
  <2>1. 1 \in 1..Len(v)
    BY <1>1, <1>4
  <2>2. Flat(v) = (Flat(SubSeq(v, 1, 1 - 1)) \o (v[1] \o nl)) \o Flat(SubSeq(v, 1 + 1, Len(v)))
    BY <1>4, <2>1, FlatAround
  <2> QED
    BY <1>4, <2>2
<1>7. Flat(SubSeq(t, 1, 1 - 1)) = <<>>
  <2>1. 1 - 1 \in Int /\ 1 - 1 < 1 /\ 1 \in Int
    OBVIOUS
  <2>2. SubSeq(t, 1, 1 - 1) = <<>>
    BY <2>1, SubSeqEmpty
  <2> QED
    BY <2>2, FlatNone
<1> HIDE DEF a, nl, z
<1>8. Flat(t) = (a \o nl) \o z
  <2>1. a \o nl \in Seq(Symbol)
    BY <1>2, ConcatProperties
  <2>2. <<>> \o (a \o nl) = a \o nl
    BY <2>1, ConcatEmptySeq
  <2> QED
    BY <1>5, <1>7, <2>2
<1>9. Flat(v) = ((h \o a) \o nl) \o z
  <2>1. s = h \o a
    BY DEF s, a
  <2>2. h \o a \in Seq(Symbol)
    BY <1>2, ConcatProperties
  <2>3. s \o nl \in Seq(Symbol)
    BY <1>2, <2>1, <2>2, ConcatProperties
  <2>4. <<>> \o (s \o nl) = s \o nl
    BY <2>3, ConcatEmptySeq
  <2> QED
    BY <1>4, <1>6, <1>7, <2>1, <2>4
<1>10. ((h \o a) \o nl) \o z = h \o ((a \o nl) \o z)
  <2>1. h \in Seq(Symbol) /\ a \in Seq(Symbol) /\ nl \in Seq(Symbol)
    BY <1>2
  <2>2. (h \o a) \o nl = h \o (a \o nl)
    <3>1. IsAssociative(h, a, nl)
      BY <2>1, Associative
    <3> QED
      BY <3>1 DEF IsAssociative
  <2> DEFINE b == a \o nl
  <2>3. b \in Seq(Symbol)
    BY <2>1, ConcatProperties
  <2>4. z \in Seq(Symbol)
    BY <1>5
  <2> HIDE DEF b
  <2>5. (h \o b) \o z = h \o (b \o z)
    <3>1. IsAssociative(h, b, z)
      BY <2>1, <2>3, <2>4, Associative
    <3> QED
      BY <3>1 DEF IsAssociative
  <2> QED
    BY <2>2, <2>5 DEF b
<1>11. Flat(v) = h \o Flat(t)
  BY <1>8, <1>9, <1>10
<1> QED
  BY <1>4, <1>11 DEF v, s

(* Front leaves the newline of the last line out.                          *)
LEMMA FlatSuffix ==
  ASSUME NEW t \in Lines, t # <<>>, NEW g \in Seq(Characters)
  PROVE  LET v == [t EXCEPT ![Len(t)] = t[Len(t)] \o g]
         IN /\ v \in Lines /\ Len(v) = Len(t) /\ Flat(t) # <<>>
            /\ Front(Flat(t)) \in Seq(Symbol) /\ Flat(t) = Front(Flat(t)) \o <<Newline>>
            /\ Flat(v) = Front(Flat(t)) \o (g \o <<Newline>>)
<1> DEFINE n == Len(t)
           a == t[n]
           s == a \o g
           v == [t EXCEPT ![n] = s]
           x == Flat(SubSeq(t, 1, n - 1))
           nl == <<Newline>>
<1>1. n \in 1..Len(t) /\ n \in Nat
  <2>1. Len(t) \in Nat /\ Len(t) # 0
    BY DEF Lines
  <2> QED
    BY <2>1
<1>2. a \in Seq(Characters) /\ a \in Seq(Symbol) /\ g \in Seq(Symbol) /\ nl \in Seq(Symbol) /\ x \in Seq(Symbol)
  <2>1. a \in Seq(Characters) /\ a \in Seq(Symbol) /\ x \in Seq(Symbol)
    BY <1>1, FlatAround
  <2> QED
    BY <2>1, LineEnded
<1>3. s \in Seq(Characters)
  <2> HIDE DEF a
  <2> QED
    BY <1>2, ConcatProperties
<1> HIDE DEF s
<1>4. /\ v \in Lines /\ Len(v) = Len(t) /\ v[n] = s
      /\ SubSeq(v, 1, n - 1) = SubSeq(t, 1, n - 1)
      /\ SubSeq(v, n + 1, Len(v)) = SubSeq(t, n + 1, Len(t))
  BY <1>1, <1>3, LineChanged
<1> HIDE DEF v
<1>5. Flat(SubSeq(t, n + 1, Len(t))) = <<>>
  <2>1. n + 1 \in Int /\ n \in Int /\ n < n + 1
    BY <1>1
  <2>2. SubSeq(t, n + 1, n) = <<>>
    BY <2>1, SubSeqEmpty
  <2> QED
    BY <2>2, FlatNone
<1>6. Flat(t) = (x \o (a \o nl)) \o <<>>
  <2>1. Flat(t) = (x \o (a \o nl)) \o Flat(SubSeq(t, n + 1, Len(t)))
    BY <1>1, FlatAround
  <2> QED
    BY <1>5, <2>1
<1>7. Flat(v) = (x \o (s \o nl)) \o <<>>
  <2>1. n \in 1..Len(v)
    BY <1>1, <1>4
  <2>2. Flat(v) = (Flat(SubSeq(v, 1, n - 1)) \o (v[n] \o nl)) \o Flat(SubSeq(v, n + 1, Len(v)))
    BY <1>4, <2>1, FlatAround
  <2> QED
    BY <1>4, <1>5, <2>2
<1>8. s = a \o g
  BY DEF s
<1> HIDE DEF a, nl, x, n
<1>9. Flat(t) = (x \o a) \o nl /\ x \o a \in Seq(Symbol)
  <2>1. x \in Seq(Symbol) /\ a \in Seq(Symbol) /\ nl \in Seq(Symbol)
    BY <1>2
  <2>2. x \o (a \o nl) = (x \o a) \o nl
    <3>1. IsAssociative(x, a, nl)
      BY <2>1, Associative
    <3> QED
      BY <3>1 DEF IsAssociative
  <2>3. x \o a \in Seq(Symbol)
    BY <2>1, ConcatProperties
  <2>4. (x \o a) \o nl \in Seq(Symbol)
    BY <2>1, <2>3, ConcatProperties
  <2>5. ((x \o a) \o nl) \o <<>> = (x \o a) \o nl
    BY <2>4, ConcatEmptySeq
  <2> QED
    BY <1>6, <2>2, <2>3, <2>5
<1>10. Front(Flat(t)) = x \o a
  <2> DEFINE xa == x \o a
  <2>1. xa \in Seq(Symbol) /\ Newline \in Symbol
    BY <1>9 DEF Symbol
  <2> HIDE DEF xa
  <2>2. Front(xa \o <<Newline>>) = xa
    BY <2>1, FrontOfLast
  <2> QED
    BY <1>9, <2>2 DEF xa, nl
<1>11. Flat(v) = (x \o a) \o (g \o nl)
  <2>1. x \in Seq(Symbol) /\ a \in Seq(Symbol) /\ nl \in Seq(Symbol) /\ g \in Seq(Symbol)
    BY <1>2
  <2> DEFINE b == g \o nl
  <2>2. b \in Seq(Symbol)
    BY <2>1, ConcatProperties
  <2>3. (a \o g) \o nl = a \o b
    <3>1. IsAssociative(a, g, nl)
      BY <2>1, Associative
    <3> QED
      BY <3>1 DEF IsAssociative
  <2> HIDE DEF b
  <2>4. x \o (a \o b) = (x \o a) \o b
    <3>1. x \in Seq(Symbol) /\ a \in Seq(Symbol)
      BY <2>1
    <3> QED
      <4>1. IsAssociative(x, a, b)
        BY <2>2, <3>1, Associative
      <4> QED
        BY <4>1 DEF IsAssociative
  <2> DEFINE w == x \o (a \o b)
  <2>5. w \in Seq(Symbol)
    <3>1. a \o b \in Seq(Symbol)
      BY <2>1, <2>2, ConcatProperties
    <3> QED
      BY <2>1, <3>1, ConcatProperties
  <2>6. w \o <<>> = w
    BY <2>5, ConcatEmptySeq
  <2> QED
    BY <1>7, <1>8, <2>3, <2>4, <2>6 DEF b
<1>12. Flat(t) # <<>>
  <2> DEFINE xa == x \o a
  <2>1. xa \in Seq(Symbol) /\ nl \in Seq(Symbol) /\ Len(nl) = 1
    BY <1>2, <1>9 DEF nl
  <2> HIDE DEF xa
  <2>2. Len(xa \o nl) = Len(xa) + Len(nl) /\ Len(xa) \in Nat
    BY <2>1, Joining
  <2>3. Len(xa \o nl) # 0
    BY <2>1, <2>2
  <2>4. xa \o nl # <<>>
    BY <2>3
  <2> QED
    BY <1>9, <2>4 DEF xa
<1> QED
  BY <1>4, <1>9, <1>10, <1>11, <1>12 DEF v, s, a, n, nl

(* What a chunk adds.                                                      *)
Added(c) == Front(Flat(c.lines))

LEMMA JoinedIsFlat ==
  ASSUME NEW t \in Lines, NEW c, FitsIn(c, t)
  PROVE  /\ Joined(c, t) \in Lines /\ Added(c) \in Seq(Symbol)
         /\ Flat(c.lines) = Added(c) \o <<Newline>>
         /\ Flat(Joined(c, t)) = (HeadOf(c, t) \o Added(c)) \o (TailOf(c, t) \o <<Newline>>)
<1> DEFINE w == c.lines
           h == HeadOf(c, t)
           g == TailOf(c, t)
           first == [w EXCEPT ![1] = h \o w[1]]
           new == [first EXCEPT ![Len(first)] = first[Len(first)] \o g]
           fw == Flat(w)
           a == Front(fw)
           nl == <<Newline>>
<1>1. h \in Seq(Characters) /\ g \in Seq(Characters)
  BY PartsOfLines
<1>2. w \in Lines /\ w # <<>>
  BY DEF FitsIn
<1>3. Joined(c, t) = new
  BY Zenon DEF Joined, HeadOf, TailOf
<1> HIDE DEF w, h, g
<1>4. first \in Lines /\ Len(first) = Len(w) /\ Flat(first) = h \o fw
  BY <1>1, <1>2, FlatPrefix
<1>5. first # <<>>
  <2>1. Len(w) # 0
    BY <1>2 DEF Lines
  <2> HIDE DEF first
  <2> QED
    BY <1>4, <2>1
<1> HIDE DEF first
<1>6. /\ new \in Lines
      /\ Flat(new) = Front(Flat(first)) \o (g \o nl)
  BY <1>1, <1>4, <1>5, FlatSuffix
<1>7. fw # <<>> /\ a \in Seq(Symbol) /\ fw = a \o nl /\ fw \in Seq(Symbol)
  <2>1. /\ Flat(w) # <<>> /\ Front(Flat(w)) \in Seq(Symbol)
        /\ Flat(w) = Front(Flat(w)) \o <<Newline>>
    BY <1>1, <1>2, FlatSuffix
  <2>2. Flat(w) \in Seq(Symbol)
    BY <1>2, FlatIsText
  <2> QED
    BY <2>1, <2>2
<1>8. h \in Seq(Symbol)
  BY <1>1, LineEnded
<1> HIDE DEF new, fw, nl
<1>9. Front(h \o fw) = h \o Front(fw)
  BY <1>7, <1>8, FrontOfJoined
<1>10. Flat(new) = (h \o a) \o (g \o nl)
  BY <1>4, <1>6, <1>9
<1>11. Added(c) = a
  BY DEF Added, fw, w
<1> QED
  BY <1>3, <1>6, <1>7, <1>10, <1>11 DEF w, h, g, nl, fw

(* Before and behind the chunk nothing changes.                            *)
LEMMA AfterIsFlat ==
  ASSUME NEW t \in Lines, NEW c, FitsIn(c, t)
  PROVE  /\ Added(c) \in Seq(Symbol)
         /\ Flat(After(c, t)) = (Before(t, c.start) \o Added(c)) \o Rest(t, c.end)
<1> DEFINE lo == c.start.line
           hi == c.end.line
           pre == SubSeq(t, 1, lo - 1)
           post == SubSeq(t, hi + 1, Len(t))
           new == Joined(c, t)
           h == HeadOf(c, t)
           g == TailOf(c, t)
           a == Added(c)
           nl == <<Newline>>
           x == Flat(pre)
           z == Flat(post)
<1>1. lo \in 1..Len(t) /\ hi \in 1..Len(t) /\ h \in Seq(Characters) /\ g \in Seq(Characters)
  BY PartsOfLines
<1>2. pre \in Lines /\ x \in Seq(Symbol) /\ post \in Lines /\ z \in Seq(Symbol)
  <2>1. pre \in Lines
    BY <1>1, LinesSplit
  <2>2. post \in Lines
    BY <1>1, LinesSplit
  <2> QED
    BY <2>1, <2>2, FlatIsText
<1>3. /\ new \in Lines /\ a \in Seq(Symbol)
      /\ Flat(new) = (h \o a) \o (g \o nl)
  BY JoinedIsFlat
<1>4. h \in Seq(Symbol) /\ g \in Seq(Symbol) /\ nl \in Seq(Symbol)
  BY <1>1, LineEnded
<1>5. After(c, t) = (pre \o new) \o post
  BY DEF After, Spliced
<1>6. Before(t, c.start) = x \o h /\ Rest(t, c.end) = (g \o nl) \o z
  BY DEF Before, Rest, HeadOf, TailOf
<1> DEFINE pn == pre \o new
<1> HIDE DEF lo, hi, pre, post, new, h, g, a, nl, x, z
<1>7. pn \in Lines /\ Flat(pn) = Flat(pre) \o Flat(new)
  BY <1>2, <1>3, FlatConcat
<1> HIDE DEF pn
<1>8. Flat(pn \o post) = Flat(pn) \o Flat(post)
  BY <1>2, <1>7, FlatConcat
<1>9. Flat(After(c, t)) = (x \o ((h \o a) \o (g \o nl))) \o z
  <2>1. Flat(After(c, t)) = Flat(pn \o post)
    BY <1>5 DEF pn
  <2>2. Flat(pn) = x \o ((h \o a) \o (g \o nl))
    BY <1>3, <1>7 DEF x
  <2>3. Flat(post) = z
    BY DEF z
  <2> QED
    BY <1>8, <2>1, <2>2, <2>3
<1> DEFINE gn == g \o nl
           xh == x \o h
           b == h \o a
<1>10. gn \in Seq(Symbol) /\ xh \in Seq(Symbol) /\ b \in Seq(Symbol)
  BY <1>2, <1>3, <1>4, ConcatProperties
<1>11. x \o b = xh \o a
  <2>1. x \in Seq(Symbol) /\ h \in Seq(Symbol)
    BY <1>2, <1>4
  <2>2. a \in Seq(Symbol)
    BY <1>3
  <2> QED
    <3>1. IsAssociative(x, h, a)
      BY <2>1, <2>2, Associative
    <3> QED
      BY <3>1 DEF IsAssociative
<1> HIDE DEF gn, xh, b
<1>12. x \o (b \o gn) = (x \o b) \o gn
  <2>1. x \in Seq(Symbol)
    BY <1>2
  <2>2. b \in Seq(Symbol) /\ gn \in Seq(Symbol)
    BY <1>10
  <2> QED
    <3>1. IsAssociative(x, b, gn)
      BY <2>1, <2>2, Associative
    <3> QED
      BY <3>1 DEF IsAssociative
<1> DEFINE xha == xh \o a
<1>13. xha \in Seq(Symbol)
  BY <1>3, <1>10, ConcatProperties
<1> HIDE DEF xha
<1>14. (xha \o gn) \o z = xha \o (gn \o z)
  <2>1. z \in Seq(Symbol)
    BY <1>2
  <2>2. gn \in Seq(Symbol)
    BY <1>10
  <2> QED
    <3>1. IsAssociative(xha, gn, z)
      BY <1>13, <2>1, <2>2, Associative
    <3> QED
      BY <3>1 DEF IsAssociative
<1>15. Flat(After(c, t)) = xha \o (gn \o z)
  <2>1. Flat(After(c, t)) = (x \o (b \o gn)) \o z
    BY <1>9 DEF b, gn
  <2>2. x \o (b \o gn) = xha \o gn
    BY <1>11, <1>12 DEF xha
  <2> QED
    BY <1>14, <2>1, <2>2
<1> QED
  BY <1>3, <1>6, <1>15 DEF a, xha, xh, gn

(* The text in front of a place and the text from there on.                *)
LEMMA SplitIsSlices ==
  ASSUME NEW t \in Lines, NEW p \in PlacesIn(t)
  PROVE  /\ FlatOffset(t, p) \in 1..Len(Flat(t)) /\ Flat(t) \in Seq(Symbol)
         /\ Before(t, p) = Slice(Flat(t), 1, FlatOffset(t, p))
         /\ Rest(t, p) = Slice(Flat(t), FlatOffset(t, p), Len(Flat(t)) + 1)
<1> DEFINE b == Before(t, p)
           r == Rest(t, p)
           f == Flat(t)
           o == FlatOffset(t, p)
<1>1. b \in Seq(Symbol) /\ r \in Seq(Symbol) /\ f = b \o r
  BY SplitAt
<1>2. o \in Nat \ {0} /\ Len(b) = o - 1 /\ Len(r) \in Nat \ {0}
  BY SplitAt
<1> HIDE DEF b, r, f, o
<1>3. f \in Seq(Symbol) /\ Len(f) = Len(b) + Len(r)
  BY <1>1, Joining
<1>4. o = Len(b) + 1 /\ o \in 1..Len(f) /\ o \in 1..(Len(b) + 1) /\ 1 \in 1..(Len(b) + 1) /\ o \in 1..(Len(b) + 1)
  BY <1>2, <1>3
<1>5. Slice(b \o r, 1, o) = Slice(b, 1, o)
  BY <1>1, <1>4, SliceOfFirst
<1>6. Slice(b, 1, Len(b) + 1) = b
  BY <1>1, SliceAll
<1>7. Slice(b \o r, o, Len(b \o r) + 1) = Slice(b, o, Len(b) + 1) \o r
  BY <1>1, <1>4, SliceOverFirst
<1>8. Slice(b, o, o) = <<>>
  BY <1>1, <1>4, SliceNothing
<1>9. <<>> \o r = r
  BY <1>1, ConcatEmptySeq
<1>10. b = Slice(f, 1, o)
  BY <1>1, <1>4, <1>5, <1>6
<1>11. r = Slice(f, o, Len(f) + 1)
  BY <1>1, <1>4, <1>7, <1>8, <1>9
<1> QED
  BY <1>3, <1>4, <1>10, <1>11 DEF b, r, f, o

(* Where the lines begin.                                                  *)
LineOffset(t, l) == Len(Flat(SubSeq(t, 1, l - 1)))

LEMMA NextLine ==
  ASSUME NEW t \in Lines, NEW l \in 1..Len(t)
  PROVE  /\ LineOffset(t, l) \in Nat /\ Len(t[l]) \in Nat
         /\ LineOffset(t, l + 1) = (LineOffset(t, l) + Len(t[l])) + 1
<1> DEFINE a == SubSeq(t, 1, l - 1)
           s == t[l]
           q == <<s>>
<1>1. a \in Lines /\ s \in Seq(Characters) /\ q \in Lines /\ Len(s) \in Nat /\ SubSeq(t, 1, l) = a \o q
  BY LinesSplit
<1>2. (l + 1) - 1 = l
  OBVIOUS
<1> HIDE DEF a, s
<1>3. Flat(q) = s \o <<Newline>> /\ s \in Seq(Symbol) /\ <<Newline>> \in Seq(Symbol)
  BY <1>1, FlatLine, LineEnded
<1>4. Len(s \o <<Newline>>) = Len(s) + 1
  <2> DEFINE nl == <<Newline>>
  <2>1. Len(nl) = 1
    OBVIOUS
  <2> HIDE DEF nl
  <2>2. nl \in Seq(Symbol)
    BY <1>3 DEF nl
  <2>3. Len(s \o nl) = Len(s) + Len(nl)
    BY <1>3, <2>2, Joining
  <2> QED
    BY <2>1, <2>3 DEF nl
<1> HIDE DEF q
<1>5. Flat(a \o q) = Flat(a) \o Flat(q)
  BY <1>1, FlatConcat
<1>6. Flat(a) \in Seq(Symbol) /\ Flat(q) \in Seq(Symbol) /\ Len(Flat(a)) \in Nat
  BY <1>1, FlatIsText
<1>7. Len(Flat(a) \o Flat(q)) = Len(Flat(a)) + Len(Flat(q))
  BY <1>6, Joining
<1>8. LineOffset(t, l) = Len(Flat(a)) /\ LineOffset(t, l + 1) = Len(Flat(a \o q))
  BY <1>1, <1>2 DEF LineOffset, a
<1>9. LineOffset(t, l + 1) = (Len(Flat(a)) + Len(s)) + 1
  <2> DEFINE x == Len(Flat(a))
             y == Len(s)
  <2>1. x \in Nat /\ y \in Nat /\ LineOffset(t, l + 1) = x + (y + 1)
    BY <1>1, <1>3, <1>4, <1>5, <1>6, <1>7, <1>8
  <2> HIDE DEF x, y
  <2>2. LineOffset(t, l + 1) = (x + y) + 1
    BY <2>1
  <2> QED
    BY <2>2 DEF x, y
<1> QED
  BY <1>1, <1>6, <1>8, <1>9 DEF s

LEMMA LineOffsets ==
  ASSUME NEW t \in Lines
  PROVE  /\ LineOffset(t, Len(t) + 1) = Len(Flat(t))
         /\ \A l \in 1..(Len(t) + 1) : LineOffset(t, l) \in Nat
         /\ \A m \in 1..(Len(t) + 1) : \A l \in 1..m : LineOffset(t, l) <= LineOffset(t, m)
<1>1. t \in Seq(Seq(Characters)) /\ Len(t) \in Nat
  BY DEF Lines
<1>2. LineOffset(t, Len(t) + 1) = Len(Flat(t))
  <2>1. (Len(t) + 1) - 1 = Len(t)
    BY <1>1
  <2>2. SubSeq(t, 1, Len(t)) = t
    BY <1>1, SubSeqFull
  <2> QED
    BY <2>1, <2>2 DEF LineOffset
<1>3. \A l \in 1..Len(t) : /\ LineOffset(t, l) \in Nat /\ LineOffset(t, l + 1) \in Nat
                           /\ LineOffset(t, l + 1) >= LineOffset(t, l)
  <2> SUFFICES ASSUME NEW l \in 1..Len(t)
               PROVE  /\ LineOffset(t, l) \in Nat /\ LineOffset(t, l + 1) \in Nat
                      /\ LineOffset(t, l + 1) >= LineOffset(t, l)
    OBVIOUS
  <2> DEFINE x == LineOffset(t, l)
             y == LineOffset(t, l + 1)
             n == Len(t[l])
  <2>1. x \in Nat /\ n \in Nat /\ y = (x + n) + 1
    BY NextLine
  <2> HIDE DEF x, y, n
  <2>2. y \in Nat /\ y >= x
    BY <2>1
  <2> QED
    BY <2>1, <2>2 DEF x, y
<1>4. \A l \in 1..(Len(t) + 1) : LineOffset(t, l) \in Nat
  <2> SUFFICES ASSUME NEW l \in 1..(Len(t) + 1) PROVE LineOffset(t, l) \in Nat
    OBVIOUS
  <2>1. CASE l \in 1..Len(t)
    BY <1>3, <2>1
  <2>2. CASE l = Len(t) + 1
    BY <1>2, <2>2, FlatIsText
  <2> QED
    BY <1>1, <2>1, <2>2
<1> DEFINE S == {m \in Nat : m <= Len(t) + 1 => \A l \in 1..m : LineOffset(t, l) <= LineOffset(t, m)}
<1>5. 0 \in S
  OBVIOUS
<1>6. ASSUME NEW m \in Nat, m \in S
      PROVE  m + 1 \in S
  <2> SUFFICES ASSUME m + 1 <= Len(t) + 1, NEW l \in 1..(m + 1)
               PROVE  LineOffset(t, l) <= LineOffset(t, m + 1)
    OBVIOUS
  <2>1. CASE l = m + 1
    <3>1. l \in 1..(Len(t) + 1)
      BY <1>1, <2>1
    <3>2. LineOffset(t, l) \in Nat
      BY <1>4, <3>1
    <3> QED
      BY <2>1, <3>2
  <2>2. CASE l \in 1..m
    <3>1. m \in 1..Len(t) /\ m <= Len(t) + 1 /\ l \in 1..(Len(t) + 1)
      BY <1>1, <2>2
    <3>2. LineOffset(t, l) <= LineOffset(t, m)
      BY <1>6, <2>2, <3>1
    <3>3. LineOffset(t, m + 1) >= LineOffset(t, m) /\ LineOffset(t, m) \in Nat /\ LineOffset(t, m + 1) \in Nat
      BY <1>3, <3>1
    <3>4. LineOffset(t, l) \in Nat
      BY <1>4, <3>1
    <3> QED
      BY <3>2, <3>3, <3>4
  <2> QED
    BY <2>1, <2>2
<1> HIDE DEF S
<1>7. \A m \in Nat : m \in S
  BY <1>5, <1>6, Induction
<1>8. \A m \in 1..(Len(t) + 1) : \A l \in 1..m : LineOffset(t, l) <= LineOffset(t, m)
  <2> SUFFICES ASSUME NEW m \in 1..(Len(t) + 1)
               PROVE  \A l \in 1..m : LineOffset(t, l) <= LineOffset(t, m)
    OBVIOUS
  <2>1. m \in S /\ m <= Len(t) + 1
    BY <1>1, <1>7
  <2> QED
    BY <2>1 DEF S
<1> QED
  BY <1>2, <1>4, <1>8

(* Places that follow each other have offsets that do.                     *)
LEMMA OffsetOfEnd ==
  ASSUME NEW t \in Lines, NEW p \in Ends(t)
  PROVE  /\ FlatOffset(t, p) \in 1..(Len(Flat(t)) + 1) /\ Len(Flat(t)) \in Nat
         /\ FlatOffset(t, p) = LineOffset(t, p.line) + p.column
         /\ p.line > Len(t) => FlatOffset(t, p) = Len(Flat(t)) + 1
         /\ p.line <= Len(t) => FlatOffset(t, p) <= Len(Flat(t))
<1>1. FlatOffset(t, p) = LineOffset(t, p.line) + p.column
  BY DEF FlatOffset, LineOffset
<1>2. t \in Seq(Seq(Characters)) /\ Len(t) \in Nat
  BY DEF Lines
<1>3. /\ p \in Places /\ p.line \in 1..(Len(t) + 1)
      /\ p.line <= Len(t) => p \in PlacesIn(t)
      /\ p.line > Len(t) => p.line = Len(t) + 1 /\ p.column = 1
  BY <1>2, EndsOfText
<1>4. Len(Flat(t)) \in Nat
  BY FlatIsText
<1>5. CASE p.line > Len(t)
  <2>1. FlatOffset(t, p) = LineOffset(t, Len(t) + 1) + 1
    BY <1>1, <1>3, <1>5
  <2>2. FlatOffset(t, p) = Len(Flat(t)) + 1
    BY <2>1, LineOffsets
  <2>3. p.line \in Nat /\ ~(p.line <= Len(t))
    BY <1>2, <1>3, <1>5
  <2> QED
    BY <1>1, <1>4, <2>2, <2>3
<1>6. CASE p.line <= Len(t)
  <2>1. FlatOffset(t, p) \in 1..Len(Flat(t))
    BY <1>3, <1>6, SplitIsSlices
  <2>2. ~(p.line > Len(t))
    BY <1>2, <1>3, <1>6
  <2> HIDE DEF FlatOffset
  <2>3. FlatOffset(t, p) \in 1..(Len(Flat(t)) + 1) /\ FlatOffset(t, p) <= Len(Flat(t))
    BY <1>4, <2>1
  <2> QED
    BY <1>1, <1>4, <2>2, <2>3
<1>7. p.line > Len(t) \/ p.line <= Len(t)
  BY <1>2, <1>3
<1> QED
  BY <1>5, <1>6, <1>7

LEMMA OffsetOrder ==
  ASSUME NEW t \in Lines, NEW p \in Ends(t), NEW q \in Ends(t), AtOrBefore(p, q)
  PROVE  /\ FlatOffset(t, p) <= FlatOffset(t, q)
         /\ FlatOffset(t, p) = FlatOffset(t, q) => p = q
<1>1. t \in Seq(Seq(Characters)) /\ Len(t) \in Nat
  BY DEF Lines
<1>2. /\ p \in Places /\ p.line \in 1..(Len(t) + 1) /\ p.column >= 1
      /\ q \in Places /\ q.line \in 1..(Len(t) + 1) /\ q.column >= 1
      /\ p.line <= Len(t) => p \in PlacesIn(t)
  BY <1>1, EndsOfText
<1> DEFINE pl == p.line
           pc == p.column
           ql == q.line
           qc == q.column
           o(l) == LineOffset(t, l)
<1>3. pl \in Nat /\ pc \in Nat /\ ql \in Nat /\ qc \in Nat /\ pc >= 1 /\ qc >= 1
      /\ p = [line |-> pl, column |-> pc] /\ q = [line |-> ql, column |-> qc]
  BY <1>2 DEF Places
<1>4. pl < ql \/ (pl = ql /\ pc <= qc)
  BY DEF AtOrBefore
<1>5. FlatOffset(t, p) = o(pl) + pc /\ FlatOffset(t, q) = o(ql) + qc
  BY OffsetOfEnd
<1>6. o(pl) \in Nat /\ o(ql) \in Nat
  BY <1>2, LineOffsets
<1>7. CASE pl = ql /\ pc <= qc
  <2> HIDE DEF pl, pc, ql, qc, o
  <2>1. o(pl) = o(ql)
    BY <1>7
  <2>2. o(pl) + pc <= o(ql) + qc /\ (o(pl) + pc = o(ql) + qc => pc = qc)
    BY <1>3, <1>6, <1>7, <2>1
  <2> QED
    BY <1>3, <1>5, <1>7, <2>2
<1>8. CASE pl < ql
  <2>1. pl \in 1..Len(t) /\ pl + 1 \in 1..ql /\ ql \in 1..(Len(t) + 1)
    BY <1>1, <1>2, <1>8
  <2>2. pl <= Len(t)
    BY <1>1, <2>1
  <2>3. pc \in 1..(Len(t[pl]) + 1)
    BY <1>1, <1>2, <2>2, PlaceInText
  <2>4. Len(t[pl]) \in Nat /\ o(pl + 1) = (o(pl) + Len(t[pl])) + 1
    BY <2>1, NextLine
  <2>5. o(pl + 1) <= o(ql)
    BY <2>1, LineOffsets
  <2> DEFINE n == Len(t[pl])
             a == o(pl)
             b == o(pl + 1)
             c == o(ql)
  <2>6. n \in Nat /\ a \in Nat /\ c \in Nat /\ b = (a + n) + 1 /\ b <= c /\ pc \in 1..(n + 1)
    BY <1>6, <2>3, <2>4, <2>5
  <2> HIDE DEF n, a, b, c, pl, pc, ql, qc, o
  <2>7. a + pc < c + qc
    BY <1>3, <2>6
  <2>8. a + pc \in Nat /\ c + qc \in Nat
    BY <1>3, <2>6
  <2> QED
    BY <1>5, <2>7, <2>8 DEF a, c
<1> QED
  BY <1>4, <1>7, <1>8

(* As far as the text is the old one, so are the offsets.                  *)
LEMMA OffsetReached ==
  ASSUME NEW u \in Lines, NEW t \in Lines, NEW e, Reached(u, t, e),
         NEW p \in Ends(t), AtOrBefore(p, e)
  PROVE  p \in PlacesIn(u) /\ FlatOffset(u, p) = FlatOffset(t, p)
<1>1. p \in PlacesIn(u)
  BY ReachedBack
<1>2. e \in PlacesIn(u) /\ e.line - 1 <= Len(t) /\ \A l \in 1..(e.line - 1) : u[l] = t[l]
  BY DEF Reached
<1>3. u \in Seq(Seq(Characters)) /\ Len(u) \in Nat /\ Len(t) \in Nat
  BY DEF Lines
<1>4. e \in Places /\ e.line \in 1..Len(u) /\ p \in Places /\ p.line \in 1..Len(u)
  BY <1>1, <1>2, <1>3, PlaceInText
<1>5. p.line <= e.line
  BY <1>4 DEF AtOrBefore, Places
<1> DEFINE a == p.line
           b == e.line
<1>6. a \in Nat /\ b \in Nat /\ 1 <= a /\ a <= b /\ b <= Len(u) /\ b - 1 <= Len(t)
  BY <1>2, <1>4, <1>5 DEF Places
<1>7. \A l \in 1..(b - 1) : u[l] = t[l]
  BY <1>2
<1> HIDE DEF a, b
<1>8. a - 1 \in Int /\ a - 1 <= Len(u) /\ a - 1 <= Len(t)
  BY <1>3, <1>6
<1>9. \A l \in 1..(a - 1) : u[l] = t[l]
  BY <1>6, <1>7
<1>10. SubSeq(u, 1, a - 1) = SubSeq(t, 1, a - 1)
  <2>1. 1 \in Nat \ {0}
    OBVIOUS
  <2> QED
    BY <1>8, <1>9, <2>1, SameLines
<1> QED
  BY <1>1, <1>10 DEF FlatOffset, a

CanRegroup(h, d, y, z) == (h \o d) \o (y \o z) = (h \o (d \o y)) \o z

LEMMA Regrouped ==
  ASSUME NEW S, NEW h, NEW d, NEW y, NEW z
  PROVE  h \in Seq(S) /\ d \in Seq(S) /\ y \in Seq(S) /\ z \in Seq(S) => CanRegroup(h, d, y, z)
<1>1. ASSUME h \in Seq(S) /\ d \in Seq(S), y \in Seq(S), z \in Seq(S)
      PROVE  (h \o d) \o (y \o z) = (h \o (d \o y)) \o z
  <2> DEFINE hd == h \o d
  <2>1. hd \in Seq(S)
    BY <1>1, ConcatProperties
  <2>2. h \in Seq(S) /\ d \in Seq(S)
    BY <1>1
  <2>3. y \in Seq(S) /\ z \in Seq(S)
    BY <1>1
  <2>4. y \in Seq(S)
    BY <1>1
  <2>5. hd \o y = h \o (d \o y)
    <3>1. IsAssociative(h, d, y)
      BY <2>2, <2>4, Associative
    <3> QED
      BY <3>1 DEF IsAssociative
  <2> HIDE DEF hd
  <2>6. (hd \o y) \o z = hd \o (y \o z)
    <3>1. IsAssociative(hd, y, z)
      BY <2>1, <2>3, Associative
    <3> QED
      BY <3>1 DEF IsAssociative
  <2> QED
    BY <2>5, <2>6 DEF hd
<1> QED
  BY <1>1 DEF CanRegroup

IsPutTogether(t, h, d, r, w, z) ==
  /\ r \o w \in Seq(Symbol) /\ d \o (r \o w) \in Seq(Symbol)
  /\ t = (h \o (d \o (r \o w))) \o z

(* A chunk in front of what is done: f is the old text, w what is done,    *)
(* z what hangs over at the end.                                           *)
LEMMA StepOnText ==
  ASSUME NEW u \in Lines, NEW c, FitsIn(c, u), NEW f \in Seq(Symbol), NEW o \in 1..(Len(f) + 1),
         NEW w \in Seq(Symbol), NEW z \in Seq(Symbol), Flat(u) = (Slice(f, 1, o) \o w) \o z,
         NEW q \in 1..o, q = FlatOffset(u, c.end), NEW s \in 1..q, s = FlatOffset(u, c.start)
  PROVE  IsPutTogether(Flat(After(c, u)), Slice(f, 1, s), Added(c), Slice(f, q, o), w, z)
<1> DEFINE a == Slice(f, 1, o)
           b == Slice(f, o, Len(f) + 1)
           d == Added(c)
           F == Flat(u)
           aw == a \o w
           r == Slice(f, q, o)
           y == r \o w
           h == Slice(f, 1, s)
<1>1. Len(f) \in Nat /\ o \in Nat /\ q \in Nat /\ s \in Nat
      /\ s >= 1 /\ s <= q /\ q <= o /\ o <= Len(f) + 1
  OBVIOUS
<1>2. a \in Seq(Symbol) /\ Len(a) = o - 1
  <2>1. 1 \in 1..(Len(f) + 1) /\ o \in 1..(Len(f) + 1)
    BY <1>1
  <2>2. a \in Seq(Symbol) /\ IsSlice(a, f, 1, o)
    BY <2>1, SliceProperties
  <2> HIDE DEF a
  <2> QED
    BY <2>2 DEF IsSlice
<1>3. b \in Seq(Symbol)
  <2>1. o \in 1..(Len(f) + 1) /\ Len(f) + 1 \in o..(Len(f) + 1)
    BY <1>1
  <2> QED
    BY <2>1, SliceProperties
<1>4. r \in Seq(Symbol)
  <2>1. q \in 1..(Len(f) + 1) /\ o \in q..(Len(f) + 1)
    BY <1>1
  <2> QED
    BY <2>1, SliceProperties
<1>5. h \in Seq(Symbol)
  <2>1. 1 \in 1..(Len(f) + 1) /\ s \in 1..(Len(f) + 1)
    BY <1>1
  <2> QED
    BY <2>1, SliceProperties
<1>6. f = a \o b
  <2>1. 1 \in 1..(Len(f) + 1) /\ o \in 1..(Len(f) + 1) /\ Len(f) + 1 \in o..(Len(f) + 1)
    BY <1>1
  <2>2. a \o b = Slice(f, 1, Len(f) + 1)
    BY <2>1, SlicesJoin
  <2> QED
    BY <2>2, SliceAll
<1>7. Len(a) + 1 = o
  BY <1>1, <1>2
<1>8. c.start \in PlacesIn(u) /\ c.end \in PlacesIn(u)
  BY DEF FitsIn
<1>9. F \in Seq(Symbol) /\ Before(u, c.start) = Slice(F, 1, s) /\ Rest(u, c.end) = Slice(F, q, Len(F) + 1)
  <2>1. Before(u, c.start) = Slice(F, 1, s)
    BY <1>8, SplitIsSlices
  <2>2. Rest(u, c.end) = Slice(F, q, Len(F) + 1) /\ F \in Seq(Symbol)
    BY <1>8, SplitIsSlices
  <2> QED
    BY <2>1, <2>2
<1>10. d \in Seq(Symbol) /\ Flat(After(c, u)) = (Before(u, c.start) \o d) \o Rest(u, c.end)
  BY AfterIsFlat
<1>11. F = aw \o z
  OBVIOUS
<1> HIDE DEF a, b, d, F, r, h
<1>12. h = Slice(a, 1, s)
  <2>1. 1 \in 1..(Len(a) + 1) /\ s \in 1..(Len(a) + 1)
    BY <1>1, <1>7
  <2>2. Slice(a \o b, 1, s) = Slice(a, 1, s)
    BY <1>2, <1>3, <2>1, SliceOfFirst
  <2> QED
    BY <1>6, <2>2 DEF h
<1>13. r = Slice(a, q, Len(a) + 1)
  <2>1. q \in 1..(Len(a) + 1) /\ Len(a) + 1 \in q..(Len(a) + 1)
    BY <1>1, <1>7
  <2>2. Slice(a \o b, q, Len(a) + 1) = Slice(a, q, Len(a) + 1)
    BY <1>2, <1>3, <2>1, SliceOfFirst
  <2> QED
    BY <1>6, <1>7, <2>2 DEF r
<1>14. aw \in Seq(Symbol) /\ Len(aw) = Len(a) + Len(w) /\ Len(w) \in Nat
  BY <1>2, Joining
<1>15. Slice(F, 1, s) = h
  <2>1. 1 \in 1..(Len(a) + 1) /\ s \in 1..(Len(a) + 1)
    BY <1>1, <1>7
  <2>2. Slice(a \o w, 1, s) = Slice(a, 1, s)
    BY <1>2, <2>1, SliceOfFirst
  <2> HIDE DEF aw
  <2>3. 1 \in 1..(Len(aw) + 1) /\ s \in 1..(Len(aw) + 1)
    BY <1>1, <1>2, <1>7, <1>14
  <2>4. Slice(aw \o z, 1, s) = Slice(aw, 1, s)
    BY <1>14, <2>3, SliceOfFirst
  <2> QED
    BY <1>11, <1>12, <2>2, <2>4 DEF aw
<1>16. Slice(F, q, Len(F) + 1) = y \o z
  <2>1. q \in 1..(Len(a) + 1)
    BY <1>1, <1>7
  <2>2. Slice(a \o w, q, Len(a \o w) + 1) = Slice(a, q, Len(a) + 1) \o w
    BY <1>2, <2>1, SliceOverFirst
  <2> HIDE DEF aw
  <2>3. q \in 1..(Len(aw) + 1)
    BY <1>1, <1>2, <1>7, <1>14
  <2>4. Slice(aw \o z, q, Len(aw \o z) + 1) = Slice(aw, q, Len(aw) + 1) \o z
    BY <1>14, <2>3, SliceOverFirst
  <2> QED
    BY <1>11, <1>13, <2>2, <2>4 DEF aw
<1>17. y \in Seq(Symbol)
  BY <1>4, ConcatProperties
<1> HIDE DEF y, aw
<1>18. d \o y \in Seq(Symbol)
  BY <1>10, <1>17, ConcatProperties
<1>19. (h \o d) \o (y \o z) = (h \o (d \o y)) \o z
  <2>1. d \in Seq(Symbol) /\ h \in Seq(Symbol) /\ y \in Seq(Symbol) /\ z \in Seq(Symbol)
    BY <1>5, <1>10, <1>17
  <2>2. CanRegroup(h, d, y, z)
    BY <2>1, Regrouped, Zenon
  <2> QED
    BY <2>2, Zenon DEF CanRegroup
<1>20. Flat(After(c, u)) = (h \o (d \o y)) \o z
  BY <1>9, <1>10, <1>15, <1>16, <1>19
<1> QED
  BY <1>17, <1>18, <1>20 DEF h, d, y, r, IsPutTogether

-----------------------------------------------------------------------------
(* What a chunk inserts.                                                   *)
LEMMA AddedIsText ==
  ASSUME NEW w \in Lines, w # <<>>
  PROVE  Front(Flat(w)) \in Seq(Symbol) /\ Flat(w) = Front(Flat(w)) \o <<Newline>>
<1>1. <<>> \in Seq(Characters)
  OBVIOUS
<1> QED
  BY <1>1, FlatSuffix

Ending == Blanks \union {Newline}

LEMMA EndingIsText ==
  /\ Ending \subseteq Symbol /\ Seq(Ending) \subseteq Seq(Symbol)
  /\ <<Newline>> \in Seq(Ending) /\ Seq(Blanks) \subseteq Seq(Ending)
<1>1. Ending \subseteq Symbol /\ Blanks \subseteq Ending /\ Newline \in Ending
  BY CharactersAssumption DEF Ending, Symbol
<1> QED
  BY <1>1, SeqMonotonic

LEMMA BlankLines ==
  ASSUME NEW e \in Lines, \A l \in 1..Len(e) : e[l] \in Seq(Blanks)
  PROVE  Flat(e) \in Seq(Ending)
<1> DEFINE f == Ended(e)
           nl == <<Newline>>
           B == Ending
<1>1. f \in Seq(Seq(Symbol)) /\ Len(f) = Len(e) /\ Flat(e) = FlattenSeq(f)
      /\ \A l \in 1..Len(e) : f[l] = e[l] \o nl
  BY EndedLines
<1>2. nl \in Seq(B) /\ \A l \in 1..Len(e) : e[l] \in Seq(B)
  BY EndingIsText
<1> HIDE DEF f, nl, B
<1>3. \A l \in 1..Len(f) : f[l] \in Seq(B)
  BY <1>1, <1>2, ConcatProperties
<1>4. f \in Seq(Seq(B))
  <2>1. DOMAIN f = 1..Len(f) /\ Len(f) \in Nat /\ f = [l \in DOMAIN f |-> f[l]]
    BY <1>1
  <2>2. f \in [1..Len(f) -> Seq(B)]
    BY <1>3, <2>1
  <2> QED
    BY <2>1, <2>2, ListIsSequence
<1>5. FlattenSeq(f) \in Seq(B)
  BY <1>4, FlattenType
<1> QED
  BY <1>1, <1>5 DEF B

(* rstrip() on the lines is the same as on the text.                       *)
LEMMA StrippedAdds ==
  ASSUME NEW w \in Lines, w # <<>>
  PROVE  Trimmed(Front(Flat(w)), Ending) = Front(Flat(Stripped(w)))
<1> DEFINE s == Stripped(w)
           n == Len(w)
           nl == <<Newline>>
<1>1. PICK m, k : IsStripped(s, w, m, k)
  BY StrippedParts
<1> HIDE DEF s
<1> DEFINE head == SubSeq(w, 1, m - 1)
           rest == SubSeq(w, m + 1, n)
           line == w[m]
           r == SubSeq(line, 1, k)
           e == SubSeq(line, k + 1, Len(line))
<1>2. /\ m \in 1..n /\ k \in 0..Len(line) /\ s = Append(head, r)
      /\ \A o \in k + 1 .. Len(line) : line[o] \in Blanks
      /\ k = 0 \/ line[k] \notin Blanks
      /\ k = 0 => m = 1
      /\ \A l \in m + 1 .. n : \A o \in 1..Len(w[l]) : w[l][o] \in Blanks
  BY <1>1, Zenon DEF IsStripped
<1>3. w \in Seq(Seq(Characters)) /\ n \in Nat
  BY DEF Lines
<1>4. /\ head \in Lines /\ rest \in Lines /\ line \in Seq(Characters) /\ <<line>> \in Lines
      /\ Len(line) \in Nat /\ w = (head \o <<line>>) \o rest
  BY <1>2, LinesSplit
<1>5. /\ r \in Seq(Characters) /\ Len(r) = k /\ (k # 0 => r[k] = line[k]) /\ line = r \o e
  <2> HIDE DEF line
  <2>1. line \in Seq(Characters) /\ k \in (1 - 1)..Len(line) /\ 1 \in 1..(Len(line) + 1) /\ Len(line) \in Nat
        /\ Len(line) \in k..Len(line)
    BY <1>2, <1>4
  <2>2. r \in Seq(Characters) /\ Len(r) = k /\ (k # 0 => r[k] = line[k])
    BY <2>1
  <2>3. SubSeq(line, 1, k) \o SubSeq(line, k + 1, Len(line)) = SubSeq(line, 1, Len(line))
    BY <2>1, ConcatAdjacentSubSeq
  <2>4. SubSeq(line, 1, Len(line)) = line
    BY <2>1, SubSeqFull
  <2> QED
    BY <2>2, <2>3, <2>4
<1>6. e \in Seq(Blanks)
  <2> HIDE DEF line
  <2>1. k + 1 \in Int /\ Len(line) \in Int /\ \A o \in k + 1 .. Len(line) : line[o] \in Blanks
    BY <1>2, <1>4
  <2> DEFINE a == k + 1
             b == Len(line)
  <2>2. a \in Int /\ b \in Int /\ \A o \in a .. b : line[o] \in Blanks
    BY <2>1
  <2> HIDE DEF a, b
  <2>3. SubSeq(line, a, b) \in Seq(Blanks)
    BY <2>2, SubSeqProperties
  <2> QED
    BY <2>3 DEF a, b
<1>7. \A l \in 1..Len(rest) : rest[l] \in Seq(Blanks)
  <2> SUFFICES ASSUME NEW l \in 1..Len(rest) PROVE rest[l] \in Seq(Blanks)
    OBVIOUS
  <2>1. m + 1 \in 1..(Len(w) + 1) /\ n + 1 \in (m + 1)..(Len(w) + 1) /\ (n + 1) - 1 = n
    BY <1>2, <1>3
  <2>2. IsSlice(Slice(w, m + 1, n + 1), w, m + 1, n + 1)
    BY <1>3, <2>1, SliceProperties
  <2>3. rest = Slice(w, m + 1, n + 1)
    BY <2>1 DEF Slice
  <2>4. Len(rest) = (n + 1) - (m + 1) /\ \A j \in 1..((n + 1) - (m + 1)) : rest[j] = w[((m + 1) + j) - 1]
    BY <2>2, <2>3 DEF IsSlice
  <2> DEFINE j == ((m + 1) + l) - 1
             x == w[j]
  <2> HIDE DEF rest, n
  <2>41. m \in 1..n /\ n \in Nat /\ Len(rest) = (n + 1) - (m + 1) /\ l \in 1..Len(rest)
    BY <1>2, <1>3, <2>4
  <2>42. l \in 1..((n + 1) - (m + 1)) /\ j \in m + 1 .. n /\ j \in 1..n
    BY <2>41
  <2>5. rest[l] = x /\ j \in m + 1 .. n /\ j \in 1..n
    BY <2>4, <2>42
  <2> HIDE DEF j
  <2>6. x \in Seq(Characters) /\ \A o \in 1..Len(x) : x[o] \in Blanks
    BY <1>2, <1>3, <2>5 DEF n
  <2> HIDE DEF x
  <2>7. x \in Seq(Blanks)
    <3>1. DOMAIN x = 1..Len(x) /\ Len(x) \in Nat /\ x = [o \in DOMAIN x |-> x[o]]
      BY <2>6
    <3>2. x \in [1..Len(x) -> Blanks]
      BY <2>6, <3>1
    <3> QED
      BY <3>1, <3>2, ListIsSequence
  <2> QED
    BY <2>5, <2>7
<1> DEFINE F == Flat(head)
           G == Flat(rest)
           v == F \o r
<1>8. G \in Seq(Ending)
  BY <1>4, <1>7, BlankLines
<1>9. /\ F \in Seq(Symbol) /\ G \in Seq(Symbol) /\ r \in Seq(Symbol) /\ e \in Seq(Symbol)
      /\ e \in Seq(Ending) /\ nl \in Seq(Ending) /\ nl \in Seq(Symbol)
  <2>1. F \in Seq(Symbol) /\ G \in Seq(Symbol)
    BY <1>4, FlatIsText
  <2>2. r \in Seq(Symbol) /\ nl \in Seq(Symbol)
    BY <1>5, LineEnded
  <2> QED
    BY <1>6, <2>1, <2>2, EndingIsText
<1>10. Flat(w) = (F \o ((r \o e) \o nl)) \o G
  <2>1. head \o <<line>> \in Lines /\ Flat(head \o <<line>>) = F \o Flat(<<line>>)
    BY <1>4, FlatConcat
  <2>2. Flat((head \o <<line>>) \o rest) = Flat(head \o <<line>>) \o G
    BY <1>4, <2>1, FlatConcat
  <2>3. Flat(<<line>>) = line \o nl
    BY <1>4, FlatLine
  <2> HIDE DEF F, G, nl, head, rest, line, r, e
  <2> QED
    BY <1>4, <1>5, <2>1, <2>2, <2>3
<1>11. Flat(s) = F \o (r \o nl)
  <2>1. <<r>> \in Lines /\ Flat(<<r>>) = r \o nl
    BY <1>5, FlatLine
  <2>2. Flat(head \o <<r>>) = F \o Flat(<<r>>)
    BY <1>4, <2>1, FlatConcat
  <2>3. s = head \o <<r>>
    <3>1. head \in Seq(Seq(Characters)) /\ r \in Seq(Characters)
      BY <1>4, <1>5 DEF Lines
    <3> HIDE DEF head, r
    <3>2. Append(head, r) = head \o <<r>>
      BY <3>1
    <3> QED
      BY <1>2, <3>2
  <2> QED
    BY <2>1, <2>2, <2>3
<1>12. v = <<>> \/ v[Len(v)] \notin Ending
  <2>1. CASE k = 0
    <3>1. m = 1 /\ r = <<>> /\ head = <<>>
      <4>1. m = 1
        BY <1>2, <2>1
      <4>2. SubSeq(line, 1, 0) = <<>> /\ SubSeq(w, 1, 0) = <<>>
        BY SubSeqEmpty
      <4>3. m - 1 = 0
        BY <4>1
      <4> QED
        BY <2>1, <4>1, <4>2, <4>3
    <3>2. F = <<>>
      BY <3>1, FlatNone
    <3>3. F \o r = <<>> \o <<>> /\ <<>> \o <<>> = <<>>
      BY <3>1, <3>2
    <3> QED
      BY <3>3
  <2>2. CASE k # 0
    <3> HIDE DEF F, r, line
    <3>1. Len(F) \in Nat /\ Len(r) \in Nat /\ Len(v) = Len(F) + Len(r)
          /\ \A p \in (Len(F) + 1)..(Len(F) + Len(r)) : v[p] = r[p - Len(F)]
      BY <1>9, Joining
    <3> HIDE DEF v
    <3> DEFINE a == Len(F)
    <3>2. a \in Nat /\ k \in Nat /\ Len(v) = a + k
      BY <1>2, <1>5, <3>1
    <3>3. \A p \in (a + 1)..(a + k) : v[p] = r[p - a]
      BY <1>5, <3>1
    <3> HIDE DEF a
    <3>4. Len(v) \in (a + 1)..(a + k) /\ Len(v) - a = k
      BY <2>2, <3>2
    <3>5. v[Len(v)] = r[k]
      BY <3>3, <3>4
    <3>6. r[k] \in Characters /\ r[k] \notin Blanks
      BY <1>2, <1>5, <2>2, <3>2
    <3> QED
      BY <3>5, <3>6, CharactersAssumption DEF Ending
  <2> QED
    BY <2>1, <2>2
<1> HIDE DEF F, G, r, e, v, nl, head, rest, line
<1>13. v \in Seq(Symbol) /\ v \o e \in Seq(Symbol) /\ nl \o G \in Seq(Ending) /\ nl \o G \in Seq(Symbol)
  BY <1>8, <1>9, ConcatProperties DEF v
<1>14. Front(Flat(s)) = v
  <2>1. (F \o r) \o nl = F \o (r \o nl)
    <3>1. IsAssociative(F, r, nl)
      BY <1>9, Associative
    <3> QED
      BY <3>1 DEF IsAssociative
  <2>2. Newline \in Symbol
    BY DEF Symbol
  <2>3. Front(v \o <<Newline>>) = v
    BY <1>13, <2>2, FrontOfLast
  <2> QED
    BY <1>11, <2>1, <2>3 DEF v, nl
<1>15. Flat(w) = (v \o e) \o (nl \o G)
  <2>1. r \o e \in Seq(Symbol)
    BY <1>9, ConcatProperties
  <2>2. CanRegroup(F, r \o e, nl, G)
    BY <1>9, <2>1, Regrouped
  <2>3. (F \o r) \o e = F \o (r \o e)
    <3>1. IsAssociative(F, r, e)
      BY <1>9, Associative
    <3> QED
      BY <3>1 DEF IsAssociative
  <2> QED
    BY <1>10, <2>2, <2>3 DEF CanRegroup, v
<1> DEFINE y == Front(nl \o G)
           z == e \o y
<1>16. nl \o G # <<>>
  <2>1. Len(nl \o G) = Len(nl) + Len(G) /\ Len(G) \in Nat
    BY <1>9, Joining
  <2>2. Len(nl) = 1
    BY DEF nl
  <2> QED
    BY <2>1, <2>2
<1>17. y \in Seq(Ending)
  <2>1. <<>> \in Seq(Ending)
    OBVIOUS
  <2> QED
    BY <1>13, <1>16, <2>1, FrontOfJoined
<1>18. Front(Flat(w)) = (v \o e) \o y
  BY <1>13, <1>15, <1>16, FrontOfJoined
<1> HIDE DEF y
<1>19. z \in Seq(Ending) /\ y \in Seq(Symbol) /\ z \in Seq(Symbol)
  BY <1>9, <1>17, ConcatProperties, EndingIsText
<1>20. (v \o e) \o y = v \o (e \o y)
  <2>1. IsAssociative(v, e, y)
    BY <1>9, <1>13, <1>19, Associative
  <2> QED
    BY <2>1 DEF IsAssociative
<1> HIDE DEF z
<1>21. \A o \in 1..Len(z) : z[o] \in Ending
  BY <1>19
<1>22. Trimmed(v \o z, Ending) = v
  BY <1>12, <1>13, <1>19, <1>21, TrimmedOfJoined
<1> QED
  BY <1>14, <1>18, <1>20, <1>22 DEF z, s

(* What is inserted by the last chunk, if it reaches past the end, and by  *)
(* every other one.                                                        *)
LEMMA InsertionIs ==
  ASSUME NEW t, NEW chunks, NEW i, IsChunk(chunks[i], t)
  PROVE  /\ Insertion(t, chunks, i) \in Seq(Symbol)
         /\ Insertion(t, chunks, i) =
              IF chunks[i].end.line > Len(t) /\ IsLast(chunks, i)
              THEN Front(Flat(Stripped(chunks[i].lines))) ELSE Added(chunks[i])
<1> DEFINE w == chunks[i].lines
<1>1. w \in Lines /\ w # <<>>
  BY DEF IsChunk, Lines
<1>2. Trimmed(Front(Flat(w)), Ending) = Front(Flat(Stripped(w)))
  BY <1>1, StrippedAdds
<1>3. Front(Flat(w)) \in Seq(Symbol) /\ Front(Flat(Stripped(w))) \in Seq(Symbol)
  BY <1>1, StrippedLines, AddedIsText
<1> QED
  BY <1>2, <1>3, Zenon DEF Insertion, Added, Ending

(* The last chunk is the first one to be taken, and no other one.          *)
LEMMA LastIsTakenFirst ==
  ASSUME NEW t, NEW chunks, NEW n, AreChunks(chunks, n, t), NEW order, IsBottomUp(order, chunks, n),
         NEW k \in 1..n
  PROVE  IsLast(chunks, order[k]) <=> k = 1
<1>1. /\ n \in Nat \ {0} /\ DOMAIN chunks = 1..n /\ \A j \in 1..n : chunks[j].start \in Places
  BY DEF AreChunks, IsChunk
<1>2. /\ \A l \in 1..n : order[l] \in 1..n
      /\ \A i \in 1..n : \E l \in 1..n : order[l] = i
      /\ \A l, m \in 1..n : l < m => order[l] # order[m] /\ Lower(chunks, order[l], order[m])
  BY DEF IsBottomUp
<1>3. 1 \in 1..n
  BY <1>1
<1>4. ASSUME k = 1
      PROVE  IsLast(chunks, order[k])
  <2> DEFINE i == order[1]
  <2>1. i \in 1..n
    BY <1>2, <1>3
  <2>2. ASSUME NEW j \in 1..n
        PROVE  IF chunks[j].start = chunks[i].start THEN j <= i
               ELSE AtOrBefore(chunks[j].start, chunks[i].start)
    <3>1. CASE j = i
      BY <2>1, <3>1
    <3>2. CASE j # i
      <4>1. PICK l \in 1..n : order[l] = j
        BY <1>2
      <4>2. 1 < l
        BY <3>2, <4>1
      <4>3. Lower(chunks, i, j)
        BY <1>2, <1>3, <4>1, <4>2
      <4> HIDE DEF i
      <4> QED
        BY <2>1, <4>3 DEF Lower
    <3> QED
      BY <3>1, <3>2
  <2> QED
    BY <1>1, <1>4, <2>2 DEF IsLast
<1>5. ASSUME k # 1, IsLast(chunks, order[k])
      PROVE  FALSE
  <2> DEFINE i == order[1]
             j == order[k]
  <2>1. i \in 1..n /\ j \in 1..n /\ i # j /\ Lower(chunks, i, j)
    <3>1. 1 < k
      BY <1>5
    <3> QED
      BY <1>2, <1>3, <3>1
  <2>2. IF chunks[i].start = chunks[j].start THEN i <= j
        ELSE AtOrBefore(chunks[i].start, chunks[j].start)
    BY <1>1, <1>5, <2>1 DEF IsLast
  <2> DEFINE a == chunks[i].start
             b == chunks[j].start
  <2>3. a \in Places /\ b \in Places
    BY <1>1, <2>1
  <2>4. IF a = b THEN i > j ELSE AtOrBefore(b, a)
    BY <2>1 DEF Lower
  <2>5. i \in Int /\ j \in Int
    BY <2>1
  <2> HIDE DEF i, j
  <2>6. a # b
    BY <2>2, <2>4, <2>5
  <2>7. AtOrBefore(a, b) /\ AtOrBefore(b, a)
    BY <2>2, <2>4, <2>6
  <2> HIDE DEF a, b
  <2> QED
    BY <2>3, <2>6, <2>7, PlaceOrder
<1> QED
  BY <1>4, <1>5

-----------------------------------------------------------------------------
(* The reference for the chunks of an edit.                                *)
Referred(t, chunks, n) ==
  [flat |-> Flat(t), n |-> n,
   starts |-> [i \in 1..n |-> FlatOffset(t, chunks[i].start)],
   ends |-> [i \in 1..n |-> FlatOffset(t, chunks[i].end)],
   added |-> [i \in 1..n |-> Insertion(t, chunks, i)]]

LEMMA ReferredIs ==
  ASSUME NEW t \in Lines, NEW chunks, NEW n, AreChunks(chunks, n, t)
  PROVE  /\ IsReference(Referred(t, chunks, n), Symbol)
         /\ Referred(t, chunks, n).flat = Flat(t) /\ Referred(t, chunks, n).n = n
         /\ \A i \in 1..n : /\ Referred(t, chunks, n).starts[i] = FlatOffset(t, chunks[i].start)
                            /\ Referred(t, chunks, n).ends[i] = FlatOffset(t, chunks[i].end)
                            /\ Referred(t, chunks, n).added[i] = Insertion(t, chunks, i)
<1> DEFINE x == Referred(t, chunks, n)
           s(i) == FlatOffset(t, chunks[i].start)
           e(i) == FlatOffset(t, chunks[i].end)
           a(i) == Insertion(t, chunks, i)
           f == Flat(t)
<1>1. n \in Nat /\ \A i \in 1..n : IsChunk(chunks[i], t)
  BY DEF AreChunks
<1>2. ASSUME NEW i \in 1..n
      PROVE  /\ s(i) \in 1..(Len(f) + 1) /\ e(i) \in 1..(Len(f) + 1) /\ s(i) <= e(i)
             /\ a(i) \in Seq(Symbol)
  <2>1. /\ chunks[i].start \in Ends(t) /\ chunks[i].end \in Ends(t)
        /\ AtOrBefore(chunks[i].start, chunks[i].end)
    BY <1>1 DEF IsChunk
  <2>2. s(i) \in 1..(Len(f) + 1) /\ e(i) \in 1..(Len(f) + 1)
    BY <2>1, OffsetOfEnd
  <2>3. s(i) <= e(i)
    BY <2>1, OffsetOrder
  <2>4. a(i) \in Seq(Symbol)
    BY <1>1, InsertionIs
  <2> QED
    BY <2>2, <2>3, <2>4
<1>3. f \in Seq(Symbol)
  BY FlatIsText
<1>4. x = [flat |-> f, n |-> n, starts |-> [i \in 1..n |-> s(i)], ends |-> [i \in 1..n |-> e(i)],
           added |-> [i \in 1..n |-> a(i)]]
  BY DEF Referred
<1> HIDE DEF s, e, a, f
<1>5. /\ x.flat = f /\ x.n = n
      /\ x.starts = [i \in 1..n |-> s(i)]
      /\ x.ends = [i \in 1..n |-> e(i)]
      /\ x.added = [i \in 1..n |-> a(i)]
  BY <1>4
<1> HIDE DEF x
<1>6. \A i \in 1..n : x.starts[i] = s(i) /\ x.ends[i] = e(i) /\ x.added[i] = a(i)
  BY <1>5
<1>7. x.starts \in [1..n -> 1..(Len(f) + 1)]
  BY <1>2, <1>5
<1>8. x.ends \in [1..n -> 1..(Len(f) + 1)]
  BY <1>2, <1>5
<1>9. x.added \in [1..n -> Seq(Symbol)]
  BY <1>2, <1>5
<1>10. \A i \in 1..n : x.starts[i] <= x.ends[i]
  BY <1>2, <1>6
<1>11. IsReference(x, Symbol)
  BY <1>1, <1>3, <1>5, <1>7, <1>8, <1>9, <1>10 DEF IsReference
<1> QED
  BY <1>5, <1>6, <1>11 DEF x, s, e, a, f

(* It is what EditsAreApplied compares with.                               *)
LEMMA ReferredIsUpTo ==
  ASSUME NEW t \in Lines, NEW chunks, NEW n, AreChunks(chunks, n, t)
  PROVE  /\ \A o : Kept(t, chunks, o) <=> Remains(Referred(t, chunks, n), 1..n, o)
         /\ \A h : UpTo(t, chunks, h) = FlattenSeq([o \in 1..h |-> Piece(Referred(t, chunks, n), 1..n, o)])
<1> DEFINE x == Referred(t, chunks, n)
<1>1. DOMAIN chunks = 1..n
  BY DEF AreChunks
<1>2. /\ x.flat = Flat(t) /\ x.n = n
      /\ \A i \in 1..n : /\ x.starts[i] = FlatOffset(t, chunks[i].start)
                         /\ x.ends[i] = FlatOffset(t, chunks[i].end)
                         /\ x.added[i] = Insertion(t, chunks, i)
  BY ReferredIs
<1> HIDE DEF x
<1>3. \A o : Kept(t, chunks, o) <=> Remains(x, 1..n, o)
  BY <1>1, <1>2 DEF Kept, Remains
<1>4. ASSUME NEW o
      PROVE  Inserted(t, chunks, o) = FlattenSeq(InsertionsAt(x, 1..n, o))
  <2> DEFINE f == [i \in 1..n |-> IF FlatOffset(t, chunks[i].start) = o
                                  THEN Insertion(t, chunks, i) ELSE <<>>]
             g == [i \in 1..n |-> IF i \in 1..n /\ x.starts[i] = o THEN x.added[i] ELSE <<>>]
  <2>1. Inserted(t, chunks, o) = FlattenSeq(f)
    BY <1>1 DEF Inserted
  <2>2. InsertionsAt(x, 1..n, o) = g
    BY <1>2 DEF InsertionsAt
  <2>3. \A i \in 1..n : (IF FlatOffset(t, chunks[i].start) = o THEN Insertion(t, chunks, i) ELSE <<>>)
                      = (IF i \in 1..n /\ x.starts[i] = o THEN x.added[i] ELSE <<>>)
    BY <1>2
  <2>4. f = g
    BY <2>3
  <2> QED
    BY <2>1, <2>2, <2>4
<1>5. ASSUME NEW o
      PROVE  Inserted(t, chunks, o) \o (IF Kept(t, chunks, o) THEN <<Flat(t)[o]>> ELSE <<>>) = Piece(x, 1..n, o)
  <2>1. (IF Kept(t, chunks, o) THEN <<Flat(t)[o]>> ELSE <<>>)
          = (IF Remains(x, 1..n, o) THEN <<x.flat[o]>> ELSE <<>>)
    BY <1>2, <1>3
  <2> QED
    BY <1>4, <2>1 DEF Piece
<1>6. ASSUME NEW h
      PROVE  UpTo(t, chunks, h) = FlattenSeq([o \in 1..h |-> Piece(x, 1..n, o)])
  BY <1>5 DEF UpTo
<1> QED
  BY <1>3, <1>6 DEF x

(* Only the chunk that is taken first can reach past the end.              *)
IsPast(chunks, order, t) == chunks[order[1]].end.line > Len(t)

LEMMA ReferredAdds ==
  ASSUME NEW t \in Lines, NEW chunks, NEW n, AreChunks(chunks, n, t),
         NEW order, IsBottomUp(order, chunks, n), NEW k \in 1..n
  PROVE  Referred(t, chunks, n).added[order[k]] =
           IF k = 1 /\ IsPast(chunks, order, t)
           THEN Front(Flat(Stripped(chunks[order[k]].lines))) ELSE Added(chunks[order[k]])
<1> DEFINE i == order[k]
           a == Referred(t, chunks, n).added[i]
<1>1. i \in 1..n
  BY DEF IsBottomUp
<1>2. IsChunk(chunks[i], t)
  BY <1>1 DEF AreChunks
<1>3. a = Insertion(t, chunks, i)
  BY <1>1, ReferredIs
<1>4. IsLast(chunks, i) <=> k = 1
  BY LastIsTakenFirst
<1>5. k = 1 => (IsPast(chunks, order, t) <=> chunks[i].end.line > Len(t))
  BY DEF IsPast
<1> HIDE DEF a, i
<1>6. a = IF chunks[i].end.line > Len(t) /\ IsLast(chunks, i)
          THEN Front(Flat(Stripped(chunks[i].lines))) ELSE Added(chunks[i])
  BY <1>2, <1>3, InsertionIs
<1> QED
  BY <1>4, <1>5, <1>6, Zenon DEF a, i

(* The chunks that are done are all behind the next one.                   *)
Done(order, k) == {order[l] : l \in 1..k}

LEMMA DoneGrows ==
  ASSUME NEW n \in Nat, NEW order, NEW chunks, IsBottomUp(order, chunks, n)
  PROVE  /\ Done(order, 0) = {} /\ Done(order, n) = 1..n
         /\ \A k \in 1..n : /\ order[k] \in 1..n /\ order[k] \notin Done(order, k - 1)
                            /\ Done(order, k) = Done(order, k - 1) \union {order[k]}
                            /\ Done(order, k - 1) \subseteq 1..n
<1>1. /\ \A k \in 1..n : order[k] \in 1..n
      /\ \A i \in 1..n : \E k \in 1..n : order[k] = i
      /\ \A k, l \in 1..n : k < l => order[k] # order[l]
  BY DEF IsBottomUp
<1>2. Done(order, 0) = {}
  BY DEF Done
<1>3. Done(order, n) = 1..n
  BY <1>1 DEF Done
<1>4. ASSUME NEW k \in 1..n
      PROVE  /\ order[k] \in 1..n /\ order[k] \notin Done(order, k - 1)
             /\ Done(order, k) = Done(order, k - 1) \union {order[k]}
             /\ Done(order, k - 1) \subseteq 1..n
  <2>1. \A l : l \in 1..k <=> l \in 1..(k - 1) \/ l = k
    OBVIOUS
  <2>2. \A l \in 1..(k - 1) : l \in 1..n /\ l < k
    OBVIOUS
  <2>3. Done(order, k) = Done(order, k - 1) \union {order[k]}
    BY <2>1, Zenon DEF Done
  <2>4. Done(order, k - 1) \subseteq 1..n
    BY <1>1, <2>2, Zenon DEF Done
  <2>5. order[k] \notin Done(order, k - 1)
    BY <1>1, <2>2 DEF Done
  <2> QED
    BY <1>1, <2>3, <2>4, <2>5
<1> QED
  BY <1>2, <1>3, <1>4

LEMMA DoneAreBehind ==
  ASSUME NEW t \in Lines, NEW chunks, NEW n, AreChunks(chunks, n, t),
         NEW order, IsBottomUp(order, chunks, n), NEW k \in 1..n
  PROVE  LET x == Referred(t, chunks, n)
             i == order[k]
         IN /\ \A j \in Done(order, k - 1) : x.starts[j] >= x.ends[i] /\ (x.starts[j] = x.starts[i] => i < j)
            /\ k > 1 => x.ends[i] <= x.starts[order[k - 1]] /\ AtOrBefore(chunks[i].end, chunks[order[k - 1]].start)
<1> DEFINE x == Referred(t, chunks, n)
           i == order[k]
<1>1. /\ \A l \in 1..n : order[l] \in 1..n
      /\ \A l, m \in 1..n : l < m => order[l] # order[m] /\ Lower(chunks, order[l], order[m])
  BY DEF IsBottomUp
<1>2. /\ n \in Nat /\ \A j \in 1..n : IsChunk(chunks[j], t)
      /\ \A j, m \in 1..n : j # m /\ Lower(chunks, j, m) => AtOrBefore(chunks[m].end, chunks[j].start)
  BY DEF AreChunks
<1>3. \A j \in 1..n : /\ x.starts[j] = FlatOffset(t, chunks[j].start)
                      /\ x.ends[j] = FlatOffset(t, chunks[j].end)
  BY ReferredIs
<1>4. i \in 1..n
  BY <1>1
<1> HIDE DEF x, i
<1>5. ASSUME NEW l \in 1..(k - 1)
      PROVE  /\ AtOrBefore(chunks[i].end, chunks[order[l]].start)
             /\ x.starts[order[l]] >= x.ends[i]
             /\ x.starts[order[l]] = x.starts[i] => i < order[l]
  <2> DEFINE j == order[l]
  <2>1. l \in 1..n /\ l < k
    BY <1>2
  <2>2. j \in 1..n /\ j # i /\ Lower(chunks, j, i)
    BY <1>1, <2>1 DEF i
  <2> HIDE DEF j
  <2>3. AtOrBefore(chunks[i].end, chunks[j].start)
    BY <1>2, <1>4, <2>2
  <2>4. /\ chunks[i].start \in Ends(t) /\ chunks[i].end \in Ends(t) /\ chunks[j].start \in Ends(t)
        /\ AtOrBefore(chunks[i].start, chunks[i].end)
        /\ chunks[i].start \in Places /\ chunks[i].end \in Places /\ chunks[j].start \in Places
    BY <1>2, <1>4, <2>2 DEF IsChunk
  <2>5. FlatOffset(t, chunks[i].end) <= FlatOffset(t, chunks[j].start)
    BY <2>3, <2>4, OffsetOrder
  <2>6. AtOrBefore(chunks[i].start, chunks[j].start)
    BY <2>3, <2>4, PlaceOrder
  <2>7. FlatOffset(t, chunks[i].start) = FlatOffset(t, chunks[j].start) => chunks[i].start = chunks[j].start
    BY <2>4, <2>6, OffsetOrder
  <2>8. chunks[i].start = chunks[j].start => j > i
    BY <2>2 DEF Lower
  <2>9. FlatOffset(t, chunks[i].end) \in Nat /\ FlatOffset(t, chunks[j].start) \in Nat
    <3>1. FlatOffset(t, chunks[i].end) \in 1..(Len(Flat(t)) + 1)
      BY <2>4, OffsetOfEnd
    <3>2. FlatOffset(t, chunks[j].start) \in 1..(Len(Flat(t)) + 1)
      BY <2>4, OffsetOfEnd
    <3> HIDE DEF FlatOffset
    <3> QED
      BY <3>1, <3>2
  <2>10. x.starts[j] >= x.ends[i]
    BY <1>3, <1>4, <2>2, <2>5, <2>9
  <2>11. x.starts[j] = x.starts[i] => i < j
    BY <1>2, <1>3, <1>4, <2>2, <2>7, <2>8
  <2> QED
    BY <2>3, <2>10, <2>11 DEF j
<1>6. \A j \in Done(order, k - 1) : x.starts[j] >= x.ends[i] /\ (x.starts[j] = x.starts[i] => i < j)
  BY <1>5, Zenon DEF Done
<1>7. k > 1 => x.ends[i] <= x.starts[order[k - 1]] /\ AtOrBefore(chunks[i].end, chunks[order[k - 1]].start)
  <2> SUFFICES ASSUME k > 1
               PROVE  x.ends[i] <= x.starts[order[k - 1]] /\ AtOrBefore(chunks[i].end, chunks[order[k - 1]].start)
    OBVIOUS
  <2>1. k - 1 \in 1..(k - 1)
    BY <1>2
  <2>2. x.starts[order[k - 1]] >= x.ends[i] /\ AtOrBefore(chunks[i].end, chunks[order[k - 1]].start)
    BY <1>5, <2>1
  <2> DEFINE a == x.starts[order[k - 1]]
             b == x.ends[i]
  <2> HIDE DEF a, b
  <2>3. a >= b => b <= a
    OBVIOUS
  <2> QED
    BY <2>2, <2>3 DEF a, b
<1> QED
  BY <1>6, <1>7 DEF x, i

LEMMA LastIsFirst ==
  ASSUME NEW t \in Lines, NEW chunks, NEW n, AreChunks(chunks, n, t),
         NEW order, IsBottomUp(order, chunks, n), NEW k \in 1..n
  PROVE  \A j \in Done(order, k) :
           LET x == Referred(t, chunks, n) IN x.starts[j] \in Nat /\ x.starts[j] >= x.starts[order[k]]
<1> DEFINE x == Referred(t, chunks, n)
           i == order[k]
           K == Done(order, k - 1)
<1>1. n \in Nat
  BY DEF AreChunks
<1>2. i \in 1..n /\ Done(order, k) = K \union {i} /\ K \subseteq 1..n
  BY <1>1, DoneGrows, SMTT(40)
<1>3. \A j \in K : x.starts[j] >= x.ends[i]
  BY DoneAreBehind
<1>4. IsReference(x, Symbol) /\ x.n = n
  BY ReferredIs
<1> HIDE DEF x, i, K
<1>5. \A j \in 1..n : x.starts[j] \in Nat /\ x.ends[j] \in Nat /\ x.starts[j] <= x.ends[j]
  BY <1>4 DEF IsReference
<1>6. \A j \in K : x.starts[j] \in Nat /\ x.starts[j] >= x.starts[i]
  BY <1>2, <1>3, <1>5
<1>7. x.starts[i] \in Nat /\ x.starts[i] >= x.starts[i]
  BY <1>2, <1>5
<1>8. \A j \in K \union {i} : x.starts[j] \in Nat /\ x.starts[j] >= x.starts[i]
  BY <1>6, <1>7
<1> QED
  BY <1>2, <1>8 DEF x, i

-----------------------------------------------------------------------------
(* The buffer is the old text in front of o and then what the reference    *)
(* has from there on; y and z are what they have at the end besides.       *)
IsSoFar(x, K, o, u, w, y, z) ==
  /\ w \in Seq(Symbol)
  /\ Flat(u) = (Slice(x.flat, 1, o) \o w) \o y /\ From(x, K, o) = w \o z

LEMMA NothingSoFar ==
  ASSUME NEW x, IsReference(x, Symbol), NEW u, Flat(u) = x.flat
  PROVE  IsSoFar(x, {}, Len(x.flat) + 1, u, <<>>, <<>>, <<>>)
<1> DEFINE f == x.flat
           L == Len(f)
<1>1. f \in Seq(Symbol) /\ L \in Nat
  BY DEF IsReference
<1>2. L + 1 \in 1..(L + 1) /\ (L + 1) + 1 = L + 2 /\ ~(L + 1 <= L)
  BY <1>1
<1>3. From(x, {}, L + 1) = Piece(x, {}, L + 1) \o From(x, {}, L + 2)
  BY <1>2, FromStep
<1>4. From(x, {}, L + 2) = <<>>
  BY FromEnd
<1>5. FlattenSeq(InsertionsAt(x, {}, L + 1)) = <<>>
  BY NothingInserted
<1>6. ~Remains(x, {}, L + 1)
  BY <1>2, Zenon DEF Remains
<1>7. Slice(f, 1, L + 1) = f
  BY <1>1, SliceAll
<1>8. <<>> \o <<>> = <<>> /\ (f \o <<>>) \o <<>> = f
  <2>1. f \o <<>> = f
    BY <1>1, ConcatEmptySeq
  <2> QED
    BY <2>1
<1>9. Piece(x, {}, L + 1) = <<>>
  BY <1>5, <1>6, <1>8 DEF Piece
<1> QED
  BY <1>3, <1>4, <1>7, <1>8, <1>9 DEF IsSoFar

LEMMA ReferenceBounds ==
  ASSUME NEW S, NEW x, IsReference(x, S), NEW i \in 1..x.n
  PROVE  /\ x.flat \in Seq(S) /\ Len(x.flat) \in Nat
         /\ x.starts[i] \in 1..(Len(x.flat) + 1) /\ x.ends[i] \in 1..(Len(x.flat) + 1)
         /\ x.starts[i] <= x.ends[i] /\ x.added[i] \in Seq(S)
BY DEF IsReference

CanShift(a, r, w, z) == a \o (r \o (w \o z)) = (a \o (r \o w)) \o z

LEMMA Shifted ==
  ASSUME NEW S, NEW a, NEW r, NEW w, NEW z
  PROVE  a \in Seq(S) /\ r \in Seq(S) /\ w \in Seq(S) /\ z \in Seq(S) => CanShift(a, r, w, z)
<1>1. ASSUME a \in Seq(S), r \in Seq(S) /\ w \in Seq(S), z \in Seq(S)
      PROVE  a \o (r \o (w \o z)) = (a \o (r \o w)) \o z
  <2> DEFINE rw == r \o w
  <2>1. rw \in Seq(S)
    BY <1>1, ConcatProperties
  <2>2. r \in Seq(S) /\ w \in Seq(S)
    BY <1>1
  <2>3. z \in Seq(S)
    BY <1>1
  <2>4. a \in Seq(S)
    BY <1>1
  <2>5. rw \o z = r \o (w \o z)
    <3>1. IsAssociative(r, w, z)
      BY <2>2, <2>3, Associative
    <3> QED
      BY <3>1 DEF IsAssociative
  <2> HIDE DEF rw
  <2>6. (a \o rw) \o z = a \o (rw \o z)
    <3>1. IsAssociative(a, rw, z)
      BY <2>1, <2>3, <2>4, Associative
    <3> QED
      BY <3>1 DEF IsAssociative
  <2> QED
    BY <2>5, <2>6 DEF rw
<1> QED
  BY <1>1 DEF CanShift

LEMMA OneMoreSoFar ==
  ASSUME NEW x, IsReference(x, Symbol), NEW K, K \subseteq 1..x.n, NEW i \in 1..x.n, i \notin K,
         \A j \in K : x.starts[j] >= x.ends[i] /\ (x.starts[j] = x.starts[i] => i < j),
         NEW o \in 1..(Len(x.flat) + 1), x.ends[i] <= o, \A j \in K : x.starts[j] \in Nat /\ x.starts[j] >= o,
         NEW u \in Lines, NEW c, FitsIn(c, u), x.added[i] = Added(c),
         FlatOffset(u, c.start) = x.starts[i], FlatOffset(u, c.end) = x.ends[i],
         NEW w, NEW y \in Seq(Symbol), NEW z \in Seq(Symbol), IsSoFar(x, K, o, u, w, y, z)
  PROVE  \E v : IsSoFar(x, K \union {i}, x.starts[i], After(c, u), v, y, z)
<1> DEFINE f == x.flat
           s == x.starts[i]
           q == x.ends[i]
           a == Added(c)
           r == Slice(f, q, o)
           v == a \o (r \o w)
<1>1. f \in Seq(Symbol) /\ Len(f) \in Nat /\ q \in 1..o /\ s \in 1..q
  <2>1. f \in Seq(Symbol) /\ Len(f) \in Nat /\ s \in 1..(Len(f) + 1) /\ q \in 1..(Len(f) + 1) /\ s <= q
    BY ReferenceBounds
  <2>2. o \in 1..(Len(f) + 1) /\ q <= o
    OBVIOUS
  <2> HIDE DEF f, s, q
  <2>3. q \in 1..o /\ s \in 1..q
    BY <2>1, <2>2
  <2> QED
    BY <2>1, <2>3
<1>2. w \in Seq(Symbol) /\ Flat(u) = (Slice(f, 1, o) \o w) \o y /\ From(x, K, o) = w \o z
  BY DEF IsSoFar
<1>3. /\ r \o w \in Seq(Symbol) /\ v \in Seq(Symbol)
      /\ Flat(After(c, u)) = (Slice(f, 1, s) \o v) \o y
  <2> HIDE DEF f, s, q
  <2>1. q = FlatOffset(u, c.end) /\ s = FlatOffset(u, c.start) /\ o \in 1..(Len(f) + 1)
    BY DEF f, s, q
  <2> DEFINE m == Len(f)
             b == r \o w
  <2>2. f \in Seq(Symbol) /\ q \in 1..o /\ s \in 1..q /\ w \in Seq(Symbol)
    BY <1>1, <1>2
  <2>3. Flat(u) = (Slice(f, 1, o) \o w) \o y
    BY <1>2
  <2>4. IsPutTogether(Flat(After(c, u)), Slice(f, 1, s), Added(c), Slice(f, q, o), w, y)
    BY <2>1, <2>2, <2>3, StepOnText
  <2> QED
    BY <2>4 DEF IsPutTogether
<1>4. From(x, K \union {i}, s) = a \o From(x, K, q)
  BY FromOneMore, ZenonT(60)
<1>5. From(x, K, q) = r \o From(x, K, o)
  BY <1>1, FromUntouched
<1>6. a \in Seq(Symbol)
  BY AfterIsFlat
<1>7. r \in Seq(Symbol)
  <2> HIDE DEF f, q
  <2>1. q \in 1..(Len(f) + 1) /\ o \in q..(Len(f) + 1)
    <3>1. o \in 1..(Len(f) + 1)
      BY DEF f
    <3> QED
      BY <1>1, <3>1
  <2> QED
    BY <1>1, <2>1, SliceProperties
<1> HIDE DEF f, s, q, a, r
<1>8. CanShift(a, r, w, z)
  BY <1>2, <1>6, <1>7, Shifted
<1>9. a \o (r \o (w \o z)) = v \o z
  BY <1>8, Zenon DEF CanShift
<1> HIDE DEF v
<1>10. From(x, K \union {i}, s) = v \o z
  BY <1>2, <1>4, <1>5, <1>9
<1>11. IsSoFar(x, K \union {i}, s, After(c, u), v, y, z)
  BY <1>3, <1>10 DEF IsSoFar, f
<1> QED
  BY <1>11 DEF s

-----------------------------------------------------------------------------
(* The first chunk, if it reaches past the end of the text.                *)
LEMMA PastSoFar ==
  ASSUME NEW t \in Lines, t # <<>>, NEW x, IsReference(x, Symbol), x.flat = Flat(t),
         NEW i \in 1..x.n, NEW chunk, IsChunk(chunk, t), chunk.end.line > Len(t),
         x.starts[i] = FlatOffset(t, chunk.start), x.ends[i] = FlatOffset(t, chunk.end),
         x.added[i] = Front(Flat(Stripped(chunk.lines)))
  PROVE  \E w : IsSoFar(x, {i}, x.starts[i], After(Within(chunk, t), t), w, <<Newline>>, <<>>)
<1> DEFINE N == Len(t)
           f == Flat(t)
           L == Len(f)
           w == chunk.lines
           s == Stripped(w)
           v == Front(Flat(s))
           c == Within(chunk, t)
           nl == <<Newline>>
           h == Slice(f, 1, x.starts[i])
<1>0. N \in Nat \ {0} /\ f \in Seq(Symbol) /\ L \in Nat
  BY EndOfText, FlatIsText
<1>1. /\ chunk.start \in Ends(t) /\ chunk.end \in Ends(t) /\ w \in Lines /\ w # <<>>
  BY DEF IsChunk, Lines
<1>2. x.ends[i] = L + 1
  BY <1>1, OffsetOfEnd
<1>3. From(x, {i}, x.starts[i]) = v \o <<>>
  <2>1. From(x, {} \union {i}, x.starts[i]) = x.added[i] \o From(x, {}, x.ends[i])
    BY FromOneMore
  <2>2. From(x, {}, x.ends[i]) = <<>>
    <3>1. IsSoFar(x, {}, Len(x.flat) + 1, t, <<>>, <<>>, <<>>)
      BY NothingSoFar
    <3>2. From(x, {}, Len(x.flat) + 1) = <<>> \o <<>> /\ <<>> \o <<>> = <<>>
      BY <3>1 DEF IsSoFar
    <3> QED
      BY <1>2, <3>2
  <2>3. {} \union {i} = {i}
    OBVIOUS
  <2> QED
    BY <2>1, <2>2, <2>3
<1>5. s \in Lines /\ s # <<>>
  BY <1>1, StrippedLines
<1>6. v \in Seq(Symbol) /\ Flat(s) = v \o nl /\ nl \in Seq(Symbol)
  BY <1>5, AddedIsText, EndingIsText
<1>7. c.lines = s \/ chunk.start.line > N
  <2>1. chunk.start.line \in Nat
    BY <1>0, <1>1, EndsOfText DEF Lines, Places
  <2>2. chunk.start.line <= N =>
          c = [start |-> chunk.start, end |-> Place(N, Len(t[N]) + 1), lines |-> s]
    BY WithinText
  <2> QED
    BY <1>0, <2>1, <2>2
<1>8. Flat(After(c, t)) = (h \o v) \o nl
  <2>1. CASE chunk.start.line > N
    <3>1. After(c, t) = t \o s
      BY <2>1, PastTheEnd
    <3>2. Flat(t \o s) = f \o Flat(s)
      BY <1>5, FlatConcat
    <3>3. h = f
      <4>1. x.starts[i] = L + 1
        BY <1>1, <2>1, OffsetOfEnd
      <4> QED
        BY <1>0, <4>1, SliceAll
    <3> HIDE DEF h, v, f, nl, c, s
    <3>4. f \o (v \o nl) = (f \o v) \o nl
      <4>1. f \in Seq(Symbol)
        BY <1>0
      <4>2. v \in Seq(Symbol) /\ nl \in Seq(Symbol)
        BY <1>6
      <4> QED
        <5>1. IsAssociative(f, v, nl)
          BY <4>1, <4>2, Associative
        <5> QED
          BY <5>1 DEF IsAssociative
    <3> QED
      BY <1>6, <3>1, <3>2, <3>3, <3>4
  <2>2. CASE ~(chunk.start.line > N)
    <3> DEFINE e == Place(N, Len(t[N]) + 1)
    <3>1. chunk.start.line <= N
      <4>1. chunk.start.line \in Nat
        BY <1>0, <1>1, EndsOfText DEF Lines, Places
      <4> QED
        BY <1>0, <2>2, <4>1
    <3>2. c = [start |-> chunk.start, end |-> e, lines |-> s]
      BY <3>1, WithinText
    <3>3. FitsIn(c, t)
      BY WithinFits
    <3>4. c.start = chunk.start /\ c.end = e /\ Added(c) = v
      <4> HIDE DEF c, e, s, v
      <4>1. c.start = chunk.start /\ c.end = e /\ c.lines = s
        BY <3>2
      <4> QED
        BY <4>1 DEF Added, v
    <3>5. Flat(After(c, t)) = (Before(t, c.start) \o Added(c)) \o Rest(t, c.end)
      BY <3>3, AfterIsFlat
    <3>6. Before(t, c.start) = h
      <4>1. c.start \in PlacesIn(t)
        BY <3>3 DEF FitsIn
      <4>2. Before(t, c.start) = Slice(f, 1, FlatOffset(t, c.start))
        BY <4>1, SplitIsSlices
      <4> QED
        BY <3>4, <4>2
    <3>7. Rest(t, e) = nl
      <4>1. e.line = N /\ e.column = Len(t[N]) + 1
        BY DEF Place
      <4>2. SubSeq(t[N], Len(t[N]) + 1, Len(t[N])) = <<>>
        <5>1. Len(t[N]) \in Nat
          BY EndOfText
        <5>2. Len(t[N]) + 1 \in Int /\ Len(t[N]) \in Int /\ Len(t[N]) < Len(t[N]) + 1
          BY <5>1
        <5> QED
          BY <5>2, SubSeqEmpty
      <4>3. SubSeq(t, N + 1, N) = <<>>
        <5>1. N + 1 \in Int /\ N \in Int /\ N < N + 1
          BY <1>0
        <5> QED
          BY <5>1, SubSeqEmpty
      <4>4. Rest(t, e) = (<<>> \o nl) \o Flat(<<>>)
        BY <4>1, <4>2, <4>3 DEF Rest
      <4>5. (<<>> \o nl) \o <<>> = nl
        <5>1. <<>> \o nl = nl /\ nl \o <<>> = nl
          BY <1>6, ConcatEmptySeq
        <5> QED
          BY <5>1
      <4> QED
        BY <4>4, <4>5, FlatNone
    <3> QED
      BY <3>4, <3>5, <3>6, <3>7
  <2> QED
    BY <2>1, <2>2
<1>9. IsSoFar(x, {i}, x.starts[i], After(c, t), v, nl, <<>>)
  BY <1>3, <1>6, <1>8 DEF IsSoFar
<1> QED
  BY <1>9

-----------------------------------------------------------------------------
(* One chunk after the other.  After the first one, each of them is where  *)
(* it was in the old text.                                                 *)
LEMMA LaterStep ==
  ASSUME NEW t \in Lines, NEW chunks, NEW n, AreChunks(chunks, n, t),
         NEW order, IsBottomUp(order, chunks, n), NEW st, AreSteps(st, chunks, order, t, n),
         NEW k \in 1..n, k > 1
  PROVE  LET x == Referred(t, chunks, n)
             i == order[k]
             u == st[k - 1].text
         IN /\ u \in Lines /\ FitsIn(chunks[i], u) /\ st[k].text = After(chunks[i], u)
            /\ FlatOffset(u, chunks[i].start) = x.starts[i] /\ FlatOffset(u, chunks[i].end) = x.ends[i]
            /\ IsStep(st[k - 1], st[k], chunks[i]) /\ IsState(st[k - 1])
<1> DEFINE x == Referred(t, chunks, n)
           i == order[k]
           u == st[k - 1].text
           e == chunks[order[k - 1]].start
           c == chunks[i]
<1>1. n \in Nat /\ \A j \in 1..n : IsChunk(chunks[j], t)
  BY DEF AreChunks
<1>2. k - 1 \in 0..n /\ k - 1 \in 1..n
  BY <1>1
<1>3. /\ IsState(st[k - 1]) /\ Reached(u, t, e)
      /\ IsStep(st[k - 1], st[k], c)
  <2>1. IsState(st[k - 1]) /\ Reached(u, t, e)
    BY <1>2 DEF AreSteps
  <2>2. IsStep(st[k - 1], st[k], Within(c, u)) /\ Within(c, u) = c
    BY DEF AreSteps
  <2> HIDE DEF c, u
  <2> QED
    BY <2>1, <2>2
<1>4. i \in 1..n
  BY DEF IsBottomUp
<1>5. /\ c.start \in Ends(t) /\ c.end \in Ends(t) /\ AtOrBefore(c.start, c.end)
      /\ c.start \in Places /\ c.end \in Places
  BY <1>1, <1>4 DEF IsChunk
<1>6. AtOrBefore(c.end, e)
  BY DoneAreBehind
<1>7. e \in Places
  BY <1>1, <1>2 DEF IsBottomUp, IsChunk
<1>8. AtOrBefore(c.start, e)
  BY <1>5, <1>6, <1>7, PlaceOrder
<1>9. x.starts[i] = FlatOffset(t, c.start) /\ x.ends[i] = FlatOffset(t, c.end)
  BY <1>4, ReferredIs
<1>10. u \in Lines
  BY <1>3 DEF IsState
<1> HIDE DEF x, i, u, e, c
<1>11. FlatOffset(u, c.start) = FlatOffset(t, c.start)
  BY <1>3, <1>5, <1>8, <1>10, OffsetReached
<1>12. FlatOffset(u, c.end) = FlatOffset(t, c.end)
  BY <1>3, <1>5, <1>6, <1>10, OffsetReached
<1>13. FitsIn(c, u) /\ st[k].text = After(c, u)
  BY <1>3 DEF IsStep, u
<1> QED
  BY <1>3, <1>9, <1>10, <1>11, <1>12, <1>13 DEF x, i, u, c

(* The first chunk in the text is where it is.                             *)
LEMMA FirstStep ==
  ASSUME NEW t \in Lines, NEW chunks, NEW n, AreChunks(chunks, n, t),
         NEW order, IsBottomUp(order, chunks, n), NEW st, AreSteps(st, chunks, order, t, n), st[0].text = t
  PROVE  LET x == Referred(t, chunks, n)
             i == order[1]
             c == Within(chunks[i], t)
         IN /\ 1 \in 1..n /\ i \in 1..n /\ IsChunk(chunks[i], t) /\ Done(order, 1) = {i}
            /\ FitsIn(c, t) /\ st[1].text = After(c, t) /\ IsStep(st[0], st[1], c) /\ IsState(st[0])
            /\ x.starts[i] = FlatOffset(t, chunks[i].start) /\ x.ends[i] = FlatOffset(t, chunks[i].end)
            /\ chunks[i].end.line <= Len(t) => c = chunks[i]
<1> DEFINE x == Referred(t, chunks, n)
           i == order[1]
           c == Within(chunks[i], t)
<1>1. n \in Nat \ {0} /\ \A j \in 1..n : IsChunk(chunks[j], t)
  BY DEF AreChunks
<1>2. 1 \in 1..n /\ 0 \in 0..n /\ 1 - 1 = 0
  BY <1>1
<1>3. i \in 1..n
  BY <1>2 DEF IsBottomUp
<1>4. IsChunk(chunks[i], t)
  BY <1>1, <1>3
<1>5. Done(order, 1) = {i}
  <2>1. Done(order, 0) = {} /\ Done(order, 1) = Done(order, 1 - 1) \union {order[1]}
    BY <1>1, <1>2, DoneGrows
  <2> QED
    BY <1>2, <2>1
<1>6. IsState(st[0]) /\ IsStep(st[0], st[1], c)
  <2>1. IsState(st[0])
    BY <1>2 DEF AreSteps
  <2>2. IsStep(st[1 - 1], st[1], Within(chunks[order[1]], st[1 - 1].text))
    BY <1>2 DEF AreSteps
  <2> QED
    BY <1>2, <2>1, <2>2
<1>7. FitsIn(c, t) /\ st[1].text = After(c, t)
  <2> HIDE DEF c
  <2> QED
    BY <1>6 DEF IsStep
<1>8. x.starts[i] = FlatOffset(t, chunks[i].start) /\ x.ends[i] = FlatOffset(t, chunks[i].end)
  BY <1>3, ReferredIs
<1>9. chunks[i].end.line <= Len(t) => c = chunks[i]
  <2>1. t # <<>>
    BY <1>6 DEF IsState
  <2> QED
    BY <1>4, <2>1, WithinText
<1> QED
  BY <1>2, <1>3, <1>4, <1>5, <1>6, <1>7, <1>8, <1>9 DEF x, i, c

(* The newline that Vim has at the end of the last line.                   *)
EndOf(chunks, order, t) == IF IsPast(chunks, order, t) THEN <<Newline>> ELSE <<>>

LEMMA TextsSoFar ==
  ASSUME NEW t \in Lines, NEW chunks, NEW n, AreChunks(chunks, n, t),
         NEW order, IsBottomUp(order, chunks, n), NEW st, AreSteps(st, chunks, order, t, n), st[0].text = t
  PROVE  \A k \in 1..n : \E w :
           IsSoFar(Referred(t, chunks, n), Done(order, k), Referred(t, chunks, n).starts[order[k]],
                   st[k].text, w, EndOf(chunks, order, t), <<>>)
<1> DEFINE x == Referred(t, chunks, n)
           y == EndOf(chunks, order, t)
           Ok(k) == \E w : IsSoFar(x, Done(order, k), x.starts[order[k]], st[k].text, w, y, <<>>)
           past == IsPast(chunks, order, t)
           i == order[1]
           c == Within(chunks[i], t)
<1>1. n \in Nat \ {0}
  BY DEF AreChunks
<1>2. IsReference(x, Symbol) /\ x.flat = Flat(t) /\ x.n = n
  BY ReferredIs
<1>21. \A k \in 1..n : x.added[order[k]] =
         IF k = 1 /\ past THEN Front(Flat(Stripped(chunks[order[k]].lines))) ELSE Added(chunks[order[k]])
  BY ReferredAdds
<1>22. y \in Seq(Symbol) /\ y = IF past THEN <<Newline>> ELSE <<>>
  BY EndingIsText DEF EndOf
<1>3. /\ 1 \in 1..n /\ i \in 1..n /\ IsChunk(chunks[i], t) /\ Done(order, 1) = {i}
      /\ FitsIn(c, t) /\ st[1].text = After(c, t) /\ IsStep(st[0], st[1], c) /\ IsState(st[0])
      /\ x.starts[i] = FlatOffset(t, chunks[i].start) /\ x.ends[i] = FlatOffset(t, chunks[i].end)
      /\ chunks[i].end.line <= Len(t) => c = chunks[i]
  BY FirstStep
<1>4. t # <<>>
  BY <1>3 DEF IsState
<1>41. x.added[i] = IF past THEN Front(Flat(Stripped(chunks[i].lines))) ELSE Added(chunks[i])
  BY <1>3, <1>21
<1> HIDE DEF x, c, i, y
<1>5. Ok(1)
  <2>1. CASE past
    <3>1. chunks[i].end.line > Len(t)
      BY <2>1 DEF IsPast, i
    <3>2. x.added[i] = Front(Flat(Stripped(chunks[i].lines)))
      BY <1>41, <2>1
    <3>3. \E w : IsSoFar(x, {i}, x.starts[i], After(Within(chunks[i], t), t), w, <<Newline>>, <<>>)
      BY <1>2, <1>3, <1>4, <3>1, <3>2, PastSoFar
    <3>4. y = <<Newline>>
      BY <1>22, <2>1
    <3> QED
      BY <1>3, <3>3, <3>4 DEF i, c
  <2>2. CASE ~past
    <3>1. chunks[i].end.line <= Len(t)
      <4>1. chunks[i].end.line \in Nat /\ Len(t) \in Nat
        BY <1>3 DEF IsChunk, Places, Lines
      <4> QED
        BY <2>2, <4>1 DEF IsPast, i
    <3>2. c = chunks[i]
      BY <1>3, <3>1
    <3> DEFINE o == Len(x.flat) + 1
    <3>3. IsSoFar(x, {}, o, t, <<>>, <<>>, <<>>)
      BY <1>2, NothingSoFar
    <3>4. o \in 1..(Len(x.flat) + 1) /\ x.ends[i] <= o
      <4>1. x.ends[i] \in 1..(Len(x.flat) + 1) /\ Len(x.flat) \in Nat
        BY <1>2, <1>3, ReferenceBounds
      <4> QED
        BY <4>1
    <3> HIDE DEF o
    <3>5. \E v : IsSoFar(x, {} \union {i}, x.starts[i], After(c, t), v, <<>>, <<>>)
      <4>1. x.added[i] = Added(c) /\ FlatOffset(t, c.start) = x.starts[i] /\ FlatOffset(t, c.end) = x.ends[i]
        BY <1>3, <1>41, <2>2, <3>2
      <4>2. i \in 1..x.n /\ i \notin {} /\ {} \subseteq 1..x.n
        BY <1>2, <1>3
      <4>3. FitsIn(c, t) /\ <<>> \in Seq(Symbol)
        BY <1>3
      <4> QED
        BY <1>2, <3>3, <3>4, <4>1, <4>2, <4>3, OneMoreSoFar
    <3>6. {} \union {i} = {i}
      OBVIOUS
    <3>7. y = <<>>
      BY <1>22, <2>2
    <3> QED
      BY <1>3, <3>5, <3>6, <3>7 DEF i
  <2> QED
    BY <2>1, <2>2
<1> DEFINE S == {k \in Nat : k + 1 <= n => Ok(k + 1)}
<1>7. 0 \in S
  BY <1>5
<1>8. ASSUME NEW m \in Nat, m \in S
      PROVE  m + 1 \in S
  <2> SUFFICES ASSUME (m + 1) + 1 <= n PROVE Ok((m + 1) + 1)
    OBVIOUS
  <2> DEFINE k == (m + 1) + 1
             j == order[k]
             d == chunks[j]
             u == st[k - 1].text
             K == Done(order, k - 1)
             o == x.starts[order[k - 1]]
  <2>1. k \in 1..n /\ k > 1 /\ k - 1 = m + 1 /\ k - 1 \in 1..n /\ m + 1 <= n
    BY <1>1
  <2>2. Ok(k - 1)
    BY <1>8, <2>1
  <2> HIDE DEF k
  <2>3. PICK w : IsSoFar(x, K, o, u, w, y, <<>>)
    BY <2>2
  <2>4. j \in 1..n /\ j \notin K /\ Done(order, k) = K \union {j} /\ K \subseteq 1..n
    BY <1>1, <2>1, DoneGrows
  <2>5. /\ \A l \in K : x.starts[l] >= x.ends[j] /\ (x.starts[l] = x.starts[j] => j < l)
        /\ x.ends[j] <= o
    BY <2>1, DoneAreBehind DEF x
  <2>6. \A l \in K : x.starts[l] \in Nat /\ x.starts[l] >= o
    BY <2>1, LastIsFirst DEF x
  <2>7. /\ u \in Lines /\ FitsIn(d, u) /\ st[k].text = After(d, u)
        /\ FlatOffset(u, d.start) = x.starts[j] /\ FlatOffset(u, d.end) = x.ends[j]
    BY <2>1, LaterStep DEF x
  <2>8. x.added[j] = Added(d)
    BY <1>21, <2>1
  <2>9. o \in 1..(Len(x.flat) + 1)
    <3>1. order[k - 1] \in 1..n
      BY <2>1 DEF IsBottomUp
    <3> QED
      BY <1>2, <3>1, ReferenceBounds
  <2> HIDE DEF j, d, u, K, o
  <2>10. \E v : IsSoFar(x, K \union {j}, x.starts[j], After(d, u), v, y, <<>>)
    <3>1. y \in Seq(Symbol) /\ <<>> \in Seq(Symbol)
      BY <1>22
    <3>2. j \in 1..x.n /\ K \subseteq 1..x.n
      BY <1>2, <2>4
    <3> QED
      BY <1>2, <2>3, <2>4, <2>5, <2>6, <2>7, <2>8, <2>9, <3>1, <3>2, OneMoreSoFar
  <2>11. Ok(k)
    BY <2>4, <2>7, <2>10 DEF j
  <2> QED
    BY <2>11 DEF k
<1> HIDE DEF S
<1>9. \A m \in Nat : m \in S
  BY <1>7, <1>8, Induction
<1>10. ASSUME NEW k \in 1..n
       PROVE  Ok(k)
  <2>1. k - 1 \in Nat /\ (k - 1) + 1 = k /\ k <= n
    BY <1>1
  <2>2. k - 1 \in S
    BY <1>9, <2>1
  <2>3. (k - 1) + 1 <= n => Ok((k - 1) + 1)
    BY <2>2 DEF S
  <2> QED
    BY <2>1, <2>3
<1> QED
  BY <1>10 DEF x, y

LEMMA PastIsFirst ==
  ASSUME NEW t \in Lines, NEW chunks, NEW n, AreChunks(chunks, n, t),
         NEW order, IsBottomUp(order, chunks, n)
  PROVE  IsPast(chunks, order, t) <=> \E i \in DOMAIN chunks : chunks[i].end.line > Len(t)
<1>1. /\ n \in Nat \ {0} /\ DOMAIN chunks = 1..n /\ \A j \in 1..n : IsChunk(chunks[j], t)
      /\ \A j, m \in 1..n : j # m /\ Lower(chunks, j, m) => AtOrBefore(chunks[m].end, chunks[j].start)
  BY DEF AreChunks
<1>2. /\ \A l \in 1..n : order[l] \in 1..n
      /\ \A i \in 1..n : \E k \in 1..n : order[k] = i
      /\ \A l, m \in 1..n : l < m => order[l] # order[m] /\ Lower(chunks, order[l], order[m])
  BY DEF IsBottomUp
<1>3. 1 \in 1..n
  BY <1>1
<1> DEFINE f == order[1]
<1>4. f \in 1..n
  BY <1>2, <1>3
<1>5. ASSUME NEW i \in 1..n, chunks[i].end.line > Len(t)
      PROVE  chunks[f].end.line > Len(t)
  <2>1. PICK k \in 1..n : order[k] = i
    BY <1>2
  <2>2. CASE k = 1
    BY <1>5, <2>1, <2>2
  <2>3. CASE k # 1
    <3>1. 1 < k
      BY <1>1, <2>3
    <3>2. f # i /\ Lower(chunks, f, i)
      BY <1>2, <1>3, <2>1, <3>1
    <3> HIDE DEF f
    <3>3. AtOrBefore(chunks[i].end, chunks[f].start)
      BY <1>1, <1>4, <3>2
    <3>4. /\ AtOrBefore(chunks[f].start, chunks[f].end)
          /\ chunks[i].end \in Places /\ chunks[f].start \in Places /\ chunks[f].end \in Places
      BY <1>1, <1>4 DEF IsChunk
    <3>5. AtOrBefore(chunks[i].end, chunks[f].end)
      BY <3>3, <3>4, PlaceOrder
    <3> DEFINE a == chunks[i].end
               b == chunks[f].end
    <3>6. Len(t) \in Nat
      BY DEF Lines
    <3> DEFINE l == Len(t)
    <3>7. a \in Places /\ b \in Places /\ AtOrBefore(a, b) /\ a.line > l /\ l \in Nat
      BY <1>5, <3>4, <3>5, <3>6
    <3> HIDE DEF a, b, l
    <3>8. b.line > l
      BY <3>7 DEF AtOrBefore, Places
    <3> QED
      BY <3>8 DEF b, l
  <2> QED
    BY <2>2, <2>3
<1> QED
  BY <1>1, <1>4, <1>5 DEF IsPast

LEMMA ReferenceAsAWhole ==
  ASSUME NEW t \in Lines, NEW chunks, NEW n, AreChunks(chunks, n, t)
  PROVE  UpTo(t, chunks, Len(Flat(t)) + 1) = From(Referred(t, chunks, n), 1..n, 1)
<1> DEFINE x == Referred(t, chunks, n)
           L == Len(Flat(t))
           r == UpTo(t, chunks, L + 1)
<1>1. IsReference(x, Symbol) /\ x.flat = Flat(t)
  BY ReferredIs
<1>2. r = FlattenSeq([o \in 1..(L + 1) |-> Piece(x, 1..n, o)])
  BY ReferredIsUpTo
<1>3. L \in Nat
  BY FlatIsText
<1> HIDE DEF x, r
<1>4. L + 1 \in 0..(Len(x.flat) + 1) /\ (L + 1) + 1 = Len(x.flat) + 2
  BY <1>1, <1>3
<1> HIDE DEF L
<1>5. r \in Seq(Symbol) /\ From(x, 1..n, 1) = r \o From(x, 1..n, (L + 1) + 1)
  BY <1>1, <1>2, <1>4, FromSplit
<1>6. From(x, 1..n, Len(x.flat) + 2) = <<>>
  BY <1>1, FromEnd
<1>7. r \o <<>> = r
  BY <1>5, ConcatEmptySeq
<1> QED
  BY <1>4, <1>5, <1>6, <1>7 DEF r, x, L

LEMMA TextIsThat ==
  ASSUME NEW t \in Lines, NEW chunks, NEW n, AreChunks(chunks, n, t),
         NEW order, IsBottomUp(order, chunks, n), NEW st, AreSteps(st, chunks, order, t, n), st[0].text = t
  PROVE  LET new == UpTo(t, chunks, Len(Flat(t)) + 1)
         IN Flat(st[n].text) = IF IsPast(chunks, order, t) THEN Append(new, Newline) ELSE new
<1> DEFINE x == Referred(t, chunks, n)
           y == EndOf(chunks, order, t)
           new == UpTo(t, chunks, Len(Flat(t)) + 1)
           o == x.starts[order[n]]
           h == Slice(x.flat, 1, o)
           g == Flat(st[n].text)
<1>1. n \in Nat \ {0}
  BY DEF AreChunks
<1>2. n \in 1..n
  BY <1>1
<1>3. IsReference(x, Symbol) /\ x.flat = Flat(t) /\ x.n = n
  BY ReferredIs
<1>4. \A k \in 1..n : \E w : IsSoFar(x, Done(order, k), x.starts[order[k]], st[k].text, w, y, <<>>)
  BY TextsSoFar
<1>5. Done(order, n) = 1..n
  BY <1>1, DoneGrows
<1>6. PICK w : IsSoFar(x, 1..n, o, st[n].text, w, y, <<>>)
  BY <1>2, <1>4, <1>5
<1>7. w \in Seq(Symbol) /\ g = (h \o w) \o y /\ From(x, 1..n, o) = w \o <<>>
  BY <1>6 DEF IsSoFar
<1>8. \A j \in 1..n : x.starts[j] \in Nat /\ x.starts[j] >= o
  BY <1>2, <1>5, LastIsFirst
<1>9. o \in 1..(Len(x.flat) + 1) /\ x.flat \in Seq(Symbol) /\ Len(x.flat) \in Nat
  <2>1. order[n] \in 1..n
    BY <1>2 DEF IsBottomUp
  <2> HIDE DEF x
  <2> QED
    BY <1>3, <2>1, ReferenceBounds
<1>10. new = From(x, 1..n, 1)
  BY ReferenceAsAWhole
<1> HIDE DEF x, o, h, g, new, y
<1>11. From(x, 1..n, 1) = Slice(x.flat, 1, o) \o From(x, 1..n, o)
  <2>1. 1 \in 1..o
    BY <1>9
  <2> QED
    BY <1>3, <1>8, <1>9, <2>1, FromUntouched
<1>12. h \in Seq(Symbol)
  <2>1. 1 \in 1..(Len(x.flat) + 1) /\ o \in 1..(Len(x.flat) + 1)
    BY <1>9
  <2> QED
    BY <1>9, <2>1, SliceProperties DEF h
<1>13. h \o w \in Seq(Symbol)
  BY <1>7, <1>12, ConcatProperties
<1>14. new = h \o w
  <2>1. w \o <<>> = w
    BY <1>7, ConcatEmptySeq
  <2> QED
    BY <1>7, <1>10, <1>11, <2>1 DEF h
<1>15. g = new \o y /\ new \in Seq(Symbol)
  BY <1>7, <1>13, <1>14
<1>16. new \o <<>> = new /\ new \o <<Newline>> = Append(new, Newline)
  <2>1. Newline \in Symbol
    BY DEF Symbol
  <2> QED
    BY <1>15, <2>1
<1> QED
  BY <1>15, <1>16 DEF g, new, y, EndOf

(* Lines that move together keep their distances.                          *)
LEMMA SameBehind ==
  ASSUME NEW u \in Lines, NEW r \in Lines, NEW d \in Int, NEW a \in 1..(Len(u) + 1), a + d >= 1,
         Len(r) = Len(u) + d, \A l \in a..Len(u) : r[l + d] = u[l]
  PROVE  \A l \in a..(Len(u) + 1) :
           LineOffset(r, l + d) = (LineOffset(u, l) - LineOffset(u, a)) + LineOffset(r, a + d)
<1> DEFINE n == Len(u)
           P(l) == LineOffset(r, l + d) = (LineOffset(u, l) - LineOffset(u, a)) + LineOffset(r, a + d)
           S == {k \in Nat : a + k <= n + 1 => P(a + k)}
<1>1. n \in Nat /\ Len(r) \in Nat /\ a \in Nat /\ a >= 1
  BY DEF Lines
<1>2. LineOffset(u, a) \in Nat /\ LineOffset(r, a + d) \in Nat
  <2>1. a + d \in 1..(Len(r) + 1)
    BY <1>1
  <2> QED
    BY <2>1, LineOffsets
<1>3. 0 \in S
  <2>1. a + 0 = a
    BY <1>1
  <2>2. P(a)
    BY <1>2
  <2> QED
    BY <2>1, <2>2
<1>4. ASSUME NEW k \in Nat, k \in S
      PROVE  k + 1 \in S
  <2> SUFFICES ASSUME a + (k + 1) <= n + 1 PROVE P(a + (k + 1))
    OBVIOUS
  <2> DEFINE l == a + k
  <2>1. l \in 1..n /\ l \in a..n /\ l + d \in 1..Len(r) /\ a + (k + 1) = l + 1 /\ a + k <= n + 1
        /\ (l + 1) + d = (l + d) + 1
    BY <1>1
  <2>2. P(l)
    BY <1>4, <2>1
  <2>3. r[l + d] = u[l]
    BY <2>1
  <2> HIDE DEF l
  <2>4. LineOffset(u, l) \in Nat /\ Len(u[l]) \in Nat /\ LineOffset(u, l + 1) = (LineOffset(u, l) + Len(u[l])) + 1
    BY <2>1, NextLine
  <2>5. LineOffset(r, l + d) \in Nat
        /\ LineOffset(r, (l + d) + 1) = (LineOffset(r, l + d) + Len(r[l + d])) + 1
    BY <2>1, NextLine
  <2> DEFINE ul == LineOffset(u, l)
             un == LineOffset(u, l + 1)
             rl == LineOffset(r, l + d)
             rn == LineOffset(r, (l + d) + 1)
             ua == LineOffset(u, a)
             ra == LineOffset(r, a + d)
             b == Len(u[l])
  <2>6. /\ ul \in Nat /\ b \in Nat /\ un = (ul + b) + 1 /\ rl \in Nat /\ rn = (rl + b) + 1
        /\ rl = (ul - ua) + ra /\ ua \in Nat /\ ra \in Nat
    BY <1>2, <2>2, <2>3, <2>4, <2>5
  <2> HIDE DEF ul, un, rl, rn, ua, ra, b
  <2>7. rn = (un - ua) + ra
    BY <2>6
  <2>8. P(l + 1)
    BY <2>1, <2>7 DEF un, rn, ua, ra
  <2> QED
    BY <2>1, <2>8
<1> HIDE DEF S
<1>5. \A k \in Nat : k \in S
  BY <1>3, <1>4, Induction
<1>6. ASSUME NEW l \in a..(n + 1)
      PROVE  P(l)
  <2>1. l - a \in Nat /\ a + (l - a) = l /\ l <= n + 1
    BY <1>1
  <2> DEFINE k == l - a
  <2> HIDE DEF k
  <2>2. k \in S /\ a + k = l
    BY <1>5, <2>1 DEF k
  <2>3. a + k <= n + 1 => P(a + k)
    BY <2>2 DEF S
  <2> QED
    BY <2>1, <2>2, <2>3
<1> QED
  BY <1>6

(* Where the first line behind a chunk begins.                             *)
LEMMA BehindJoined ==
  ASSUME NEW u \in Lines, NEW c, FitsIn(c, u)
  PROVE  LET r == After(c, u)
             lo == c.start.line
             hi == c.end.line
         IN /\ Len(Added(c)) \in Nat
            /\ LineOffset(r, lo + Len(c.lines)) =
                 (LineOffset(u, lo) + (c.start.column - 1))
                   + (Len(Added(c)) + ((Len(u[hi]) - c.end.column) + 2))
<1> DEFINE r == After(c, u)
           lo == c.start.line
           hi == c.end.line
           pre == SubSeq(u, 1, lo - 1)
           post == SubSeq(u, hi + 1, Len(u))
           new == Joined(c, u)
           h == HeadOf(c, u)
           g == TailOf(c, u)
           a == Added(c)
           nl == <<Newline>>
           k == Len(c.lines)
           f == Flat(pre)
           pn == pre \o new
<1>1. /\ lo \in 1..Len(u) /\ hi \in 1..Len(u) /\ h \in Seq(Characters) /\ g \in Seq(Characters)
      /\ Len(h) = c.start.column - 1 /\ Len(g) = Len(u[hi]) - c.end.column + 1
      /\ c.start.column \in 1..(Len(u[lo]) + 1) /\ c.end.column \in 1..(Len(u[hi]) + 1)
      /\ Len(u[hi]) \in Nat /\ Len(u[lo]) \in Nat /\ Len(u) \in Nat
  BY PartsOfLines
<1>2. pre \in Lines /\ post \in Lines /\ f \in Seq(Symbol) /\ Len(f) \in Nat
  <2>1. pre \in Lines
    BY <1>1, LinesSplit
  <2>2. post \in Lines
    BY <1>1, LinesSplit
  <2> QED
    BY <2>1, <2>2, FlatIsText
<1>3. new \in Lines /\ a \in Seq(Symbol) /\ Flat(new) = (h \o a) \o (g \o nl)
  BY JoinedIsFlat
<1>4. h \in Seq(Symbol) /\ g \in Seq(Symbol) /\ nl \in Seq(Symbol) /\ Len(nl) = 1
  BY <1>1, LineEnded
<1>5. r = pn \o post
  BY DEF After, Spliced
<1>6. Len(pre) = lo - 1 /\ Len(new) = k /\ k \in Nat
  <2>1. Len(new) = k /\ k \in Nat
    <3>1. c.lines \in Seq(Seq(Characters))
      BY DEF FitsIn, Lines
    <3> QED
      BY <3>1, LinesJoined DEF IsJoined
  <2>2. Len(pre) = lo - 1
    <3>1. 1 \in 1..(Len(u) + 1) /\ lo \in 1..(Len(u) + 1)
      BY <1>1, SMTT(40)
    <3>2. IsSlice(Slice(u, 1, lo), u, 1, lo)
      BY <3>1, SliceProperties DEF Lines
    <3> QED
      BY <3>2 DEF IsSlice, Slice
  <2> QED
    BY <2>1, <2>2
<1>7. LineOffset(u, lo) = Len(f)
  BY DEF LineOffset
<1> HIDE DEF lo, hi, pre, post, new, h, g, a, nl, k, f, r
<1>8. pn \in Lines /\ Flat(pn) = f \o Flat(new) /\ Len(pn) = (lo - 1) + k
  <2>1. pn \in Lines /\ Flat(pn) = f \o Flat(new)
    BY <1>2, <1>3, FlatConcat DEF f
  <2>2. Len(pn) = Len(pre) + Len(new)
    BY <1>2, <1>3, Joining DEF Lines
  <2> QED
    BY <1>6, <2>1, <2>2
<1> HIDE DEF pn
<1>9. LineOffset(r, lo + k) = Len(Flat(pn))
  <2>1. lo \in Nat /\ (lo + k) - 1 = Len(pn) /\ lo + k = Len(pn) + 1
    BY <1>1, <1>6, <1>8
  <2>2. pn \in Seq(Seq(Characters)) /\ post \in Seq(Seq(Characters)) /\ Len(pn) \in Nat
    BY <1>2, <1>8 DEF Lines
  <2>3. 1 \in 1..(Len(pn) + 1) /\ Len(pn) + 1 \in 1..(Len(pn) + 1)
    BY <2>2
  <2>4. Slice(pn \o post, 1, Len(pn) + 1) = Slice(pn, 1, Len(pn) + 1)
    BY <2>2, <2>3, SliceOfFirst
  <2>5. Slice(pn, 1, Len(pn) + 1) = pn
    BY <2>2, SliceAll
  <2>6. SubSeq(r, 1, (lo + k) - 1) = Slice(r, 1, Len(pn) + 1)
    BY <2>1 DEF Slice
  <2> QED
    BY <1>5, <2>4, <2>5, <2>6 DEF LineOffset
<1>10. Len(Flat(pn)) = Len(f) + ((Len(h) + Len(a)) + (Len(g) + 1))
       /\ Len(a) \in Nat /\ Len(h) \in Nat /\ Len(g) \in Nat
  <2> DEFINE ha == h \o a
             gn == g \o nl
             b == Flat(new)
  <2>1. ha \in Seq(Symbol) /\ Len(ha) = Len(h) + Len(a) /\ Len(h) \in Nat /\ Len(a) \in Nat
    BY <1>3, <1>4, Joining
  <2>2. gn \in Seq(Symbol) /\ Len(gn) = Len(g) + Len(nl) /\ Len(g) \in Nat
    BY <1>4, Joining
  <2>3. b = ha \o gn
    BY <1>3
  <2> HIDE DEF ha, gn, b
  <2>4. b \in Seq(Symbol) /\ Len(b) = Len(ha) + Len(gn)
    BY <2>1, <2>2, <2>3, Joining
  <2>5. Len(f \o b) = Len(f) + Len(b)
    BY <1>2, <2>4, Joining
  <2> QED
    BY <1>4, <1>8, <2>1, <2>2, <2>4, <2>5 DEF b
<1> DEFINE sc == c.start.column
           ec == c.end.column
           n == Len(u[hi])
           x == Len(f)
           y == Len(a)
<1>11. /\ Len(Flat(pn)) = x + (((sc - 1) + y) + ((n - ec + 1) + 1))
       /\ sc \in Nat /\ ec \in Nat /\ n \in Nat /\ x \in Nat /\ y \in Nat
  <2>1. Len(h) = sc - 1 /\ Len(g) = n - ec + 1 /\ sc \in Nat /\ ec \in Nat /\ n \in Nat
    <3>1. Len(h) = sc - 1 /\ Len(g) = n - ec + 1 /\ n \in Nat
      BY <1>1
    <3>2. sc \in 1..(Len(u[lo]) + 1) /\ ec \in 1..(n + 1)
      BY <1>1
    <3>3. sc \in Nat /\ ec \in Nat
      BY <3>2
    <3> QED
      BY <3>1, <3>3
  <2>2. Len(Flat(pn)) = x + ((Len(h) + y) + (Len(g) + 1))
    BY <1>10
  <2> QED
    BY <1>2, <1>10, <2>1, <2>2
<1> HIDE DEF sc, ec, n, x, y
<1>12. Len(Flat(pn)) = (x + (sc - 1)) + (y + ((n - ec) + 2))
  BY <1>11
<1> QED
  BY <1>7, <1>9, <1>10, <1>12 DEF r, lo, hi, k, a, sc, ec, n, x, y

(* The cursor behind the chunk moves with its character.                   *)
LEMMA CaretBehind ==
  ASSUME NEW u \in Lines, NEW c, FitsIn(c, u), NEW p \in PlacesIn(u),
         FlatOffset(u, p) >= FlatOffset(u, c.end)
  PROVE  FlatOffset(After(c, u), Clipped(Moved(p, c, u), After(c, u))) =
           ((FlatOffset(u, p) - FlatOffset(u, c.end)) + FlatOffset(u, c.start)) + Len(Added(c))
<1> DEFINE r == After(c, u)
           m == Moved(p, c, u)
           lo == c.start.line
           hi == c.end.line
           sc == c.start.column
           ec == c.end.column
           pl == p.line
           pc == p.column
           k == Len(c.lines)
           new == Joined(c, u)
           A == Len(Added(c))
           lu == LineOffset(u, lo)
           hu == LineOffset(u, hi)
           n == Len(u[hi])
           next == LineOffset(r, lo + k)
<1>1. /\ lo \in 1..Len(u) /\ hi \in 1..Len(u) /\ lo <= hi /\ n \in Nat /\ Len(u) \in Nat
      /\ sc \in Nat /\ ec \in Nat
  <2>1. /\ lo \in 1..Len(u) /\ hi \in 1..Len(u) /\ lo <= hi /\ n \in Nat /\ Len(u) \in Nat
    BY PartsOfLines
  <2>2. sc \in Nat /\ ec \in Nat
    BY DEF FitsIn, Places
  <2> QED
    BY <2>1, <2>2
<1>2. p \in Places /\ pl \in 1..Len(u) /\ pc \in Nat
  <2>1. p \in Places /\ pl \in 1..Len(u)
    BY PlaceInText DEF Lines
  <2> QED
    BY <2>1 DEF Places
<1>3. /\ FlatOffset(u, c.start) = lu + sc /\ FlatOffset(u, c.end) = hu + ec
      /\ FlatOffset(u, p) = LineOffset(u, pl) + pc
      /\ FlatOffset(r, m) = LineOffset(r, m.line) + m.column
  BY DEF FlatOffset, LineOffset
<1>4. lu \in Nat /\ hu \in Nat /\ LineOffset(u, hi + 1) = (hu + n) + 1
  BY <1>1, NextLine
<1>5. A \in Nat /\ next = (lu + (sc - 1)) + (A + ((n - ec) + 2))
  BY BehindJoined
<1>6. pl > hi \/ (pl = hi /\ pc >= ec)
  <2>1. c.end \in PlacesIn(u) /\ c.end \in Places
    BY DEF FitsIn
  <2>2. p \in Ends(u) /\ c.end \in Ends(u)
    BY <2>1 DEF Ends
  <2>3. AtOrBefore(c.end, p) \/ (AtOrBefore(p, c.end) /\ p # c.end)
    BY <1>2, <2>1, PlaceOrder
  <2>4. CASE AtOrBefore(p, c.end) /\ p # c.end
    <3>1. FlatOffset(u, p) <= FlatOffset(u, c.end) /\ FlatOffset(u, p) # FlatOffset(u, c.end)
      BY <2>2, <2>4, OffsetOrder
    <3>2. LineOffset(u, pl) \in Nat
      BY <1>2, NextLine
    <3> DEFINE y == FlatOffset(u, p)
               z == FlatOffset(u, c.end)
    <3>3. y \in Nat /\ z \in Nat
      <4> DEFINE b == LineOffset(u, pl)
      <4>1. y = b + pc /\ z = hu + ec /\ b \in Nat
        BY <1>3, <3>2
      <4> HIDE DEF b, y, z, pc, hu, ec
      <4> QED
        BY <1>1, <1>2, <1>4, <4>1
    <3>4. y <= z /\ y # z /\ y >= z
      BY <3>1
    <3> HIDE DEF y, z
    <3> QED
      BY <3>3, <3>4
  <2>5. CASE AtOrBefore(c.end, p)
    <3>1. hi < pl \/ (hi = pl /\ ec <= pc)
      BY <2>5 DEF AtOrBefore
    <3>2. hi \in Nat /\ pl \in Nat
      BY <1>1, <1>2
    <3> HIDE DEF hi, pl, ec, pc
    <3>3. hi < pl => pl > hi
      BY <3>2
    <3>4. ec <= pc => pc >= ec
      BY <1>1, <1>2
    <3> QED
      BY <3>1, <3>3, <3>4
  <2> QED
    BY <2>3, <2>4, <2>5
<1>7. m \in PlacesIn(r) /\ Clipped(m, r) = m
  <2>1. m \in PlacesIn(r) /\ m \in Places /\ m.line \in 1..Len(r) /\ m.column >= 1
    BY <1>6, CaretStays
  <2>2. r \in Lines
    BY AfterLines
  <2> HIDE DEF m, r
  <2> QED
    BY <2>1, <2>2, ClippedIsIn
<1>8. /\ r \in Lines /\ Len(r) = (lo - 1) + k + (Len(u) - hi) /\ k >= 1
      /\ \A i \in 1..k : r[(lo - 1) + i] = new[i]
      /\ \A l \in (hi + 1)..Len(u) : r[(l - hi) + ((lo - 1) + k)] = u[l]
  BY AfterLines
<1>9. k \in Nat
  <2>1. c.lines \in Seq(Seq(Characters))
    BY DEF FitsIn, Lines
  <2> QED
    BY <2>1
<1> DEFINE a == LineOffset(u, pl)
<1>10. CASE pl > hi
  <2> DEFINE d == ((lo - 1) + k) - hi
  <2>1. m = Place((pl - hi) + ((lo - 1) + k), pc)
    BY <1>10, CaretMoves
  <2>2. m.line = (pl - hi) + ((lo - 1) + k) /\ m.column = pc
    <3> HIDE DEF m
    <3> QED
      BY <2>1 DEF Place
  <2> HIDE DEF m, r, lo, hi, pl, pc, k, new, n
  <2>3. /\ d \in Int /\ hi + 1 \in 1..(Len(u) + 1) /\ (hi + 1) + d >= 1 /\ (hi + 1) + d = lo + k
        /\ Len(r) = Len(u) + d /\ pl \in (hi + 1)..(Len(u) + 1) /\ pl + d = (pl - hi) + ((lo - 1) + k)
    BY <1>1, <1>2, <1>8, <1>9, <1>10
  <2>4. \A l \in (hi + 1)..Len(u) : r[l + d] = u[l]
    <3>1. \A l \in (hi + 1)..Len(u) : (l - hi) + ((lo - 1) + k) = l + d
      BY <1>1, <1>9
    <3> HIDE DEF d
    <3> QED
      BY <1>8, <3>1
  <2> HIDE DEF d
  <2>5. \A l \in (hi + 1)..(Len(u) + 1) :
          LineOffset(r, l + d) = (LineOffset(u, l) - LineOffset(u, hi + 1)) + LineOffset(r, (hi + 1) + d)
    BY <1>8, <2>3, <2>4, SameBehind
  <2>6. LineOffset(r, pl + d) = (a - LineOffset(u, hi + 1)) + next
    BY <2>3, <2>5
  <2>7. FlatOffset(r, m) = ((a - ((hu + n) + 1)) + next) + pc
    BY <1>3, <1>4, <2>2, <2>3, <2>6
  <2>8. a \in Nat
    BY <1>2, LineOffsets DEF pl
  <2> HIDE DEF a, hu, n, next, A, lu, sc, ec
  <2>9. ((a - ((hu + n) + 1)) + next) + pc = (((a + pc) - (hu + ec)) + (lu + sc)) + A
    BY <1>1, <1>2, <1>4, <1>5, <2>8
  <2> QED
    BY <1>3, <1>7, <2>7, <2>9 DEF a, A, r, m, pl, pc
<1>11. CASE pl = hi /\ pc >= ec
  <2> DEFINE l == (lo - 1) + k
             b == Len(new[k])
             rl == LineOffset(r, l)
  <2>1. m = Place(l, (pc + b) - n)
    BY <1>11, CaretMoves
  <2>2. m.line = l /\ m.column = (pc + b) - n
    <3> HIDE DEF m
    <3> QED
      BY <2>1 DEF Place
  <2>3. r[l] = new[k]
    BY <1>8, <1>9
  <2> HIDE DEF m, r, lo, hi, pl, pc, k, new, n
  <2>4. l \in 1..Len(r) /\ l + 1 = lo + k
    BY <1>1, <1>8, <1>9
  <2> HIDE DEF l
  <2>5. rl \in Nat /\ Len(r[l]) \in Nat /\ LineOffset(r, l + 1) = (rl + Len(r[l])) + 1
    BY <1>8, <2>4, NextLine
  <2>6. rl \in Nat /\ b \in Nat /\ next = (rl + b) + 1
    BY <2>3, <2>4, <2>5
  <2>7. FlatOffset(r, m) = rl + ((pc + b) - n) /\ a = hu
    BY <1>3, <1>11, <2>2
  <2> HIDE DEF a, hu, n, next, A, lu, sc, ec, rl, b
  <2>8. rl + ((pc + b) - n) = (((hu + pc) - (hu + ec)) + (lu + sc)) + A
    BY <1>1, <1>2, <1>4, <1>5, <2>6
  <2> QED
    BY <1>3, <1>7, <2>7, <2>8 DEF a, A, r, m, pl, pc
<1> QED
  BY <1>6, <1>10, <1>11

(* In front of the chunk the cursor stays.                                 *)
LEMMA CaretInFront ==
  ASSUME NEW u \in Lines, NEW c, FitsIn(c, u), NEW p \in PlacesIn(u),
         FlatOffset(u, p) < FlatOffset(u, c.start)
  PROVE  FlatOffset(After(c, u), Clipped(Moved(p, c, u), After(c, u))) = FlatOffset(u, p)
<1> DEFINE r == After(c, u)
           m == Moved(p, c, u)
           lo == c.start.line
           sc == c.start.column
           pl == p.line
           pc == p.column
<1>1. /\ lo \in 1..Len(u) /\ Len(u) \in Nat /\ sc \in Nat /\ c.start \in Places
      /\ c.start \in PlacesIn(u)
  <2>1. lo \in 1..Len(u) /\ Len(u) \in Nat
    BY PartsOfLines
  <2>2. sc \in Nat /\ c.start \in Places /\ c.start \in PlacesIn(u)
    BY DEF FitsIn, Places
  <2> QED
    BY <2>1, <2>2
<1>2. p \in Places /\ pl \in 1..Len(u) /\ pc \in Nat
  <2>1. p \in Places /\ pl \in 1..Len(u)
    BY PlaceInText DEF Lines
  <2> QED
    BY <2>1 DEF Places
<1>3. p \in Ends(u) /\ c.start \in Ends(u)
  BY <1>1 DEF Ends
<1>4. FlatOffset(u, p) \in Nat /\ FlatOffset(u, c.start) \in Nat
  <2>1. FlatOffset(u, p) \in 1..(Len(Flat(u)) + 1)
    BY <1>3, OffsetOfEnd
  <2>2. FlatOffset(u, c.start) \in 1..(Len(Flat(u)) + 1)
    BY <1>3, OffsetOfEnd
  <2> HIDE DEF FlatOffset
  <2> QED
    BY <2>1, <2>2
<1>5. pl < lo \/ (pl = lo /\ pc < sc)
  <2>1. ~AtOrBefore(c.start, p)
    <3>1. SUFFICES ASSUME AtOrBefore(c.start, p) PROVE FALSE
      OBVIOUS
    <3>2. FlatOffset(u, c.start) <= FlatOffset(u, p)
      BY <1>3, <3>1, OffsetOrder
    <3> DEFINE y == FlatOffset(u, p)
               z == FlatOffset(u, c.start)
    <3>3. y \in Nat /\ z \in Nat /\ y < z /\ z <= y
      BY <1>4, <3>2
    <3> HIDE DEF y, z
    <3> QED
      BY <3>3
  <2>2. ~(lo < pl) /\ ~(lo = pl /\ sc <= pc)
    BY <2>1 DEF AtOrBefore
  <2>3. lo \in Nat /\ pl \in Nat
    BY <1>1, <1>2
  <2> HIDE DEF lo, pl, sc, pc
  <2> QED
    BY <1>1, <1>2, <2>2, <2>3
<1>6. m = p /\ m \in PlacesIn(r) /\ Clipped(m, r) = m
  <2>1. m = p
    BY <1>5, CaretMoves
  <2>2. m \in PlacesIn(r) /\ m \in Places /\ m.line \in 1..Len(r) /\ m.column >= 1
    BY <1>5, CaretStays
  <2>3. r \in Lines
    BY AfterLines
  <2> HIDE DEF m, r
  <2>4. Clipped(m, r) = m
    BY <2>2, <2>3, ClippedIsIn
  <2> QED
    BY <2>1, <2>2, <2>4
<1>7. SubSeq(r, 1, pl - 1) = SubSeq(u, 1, pl - 1)
  <2>1. r \in Lines /\ \A l \in 1..(lo - 1) : r[l] = u[l]
    BY AfterLines
  <2>2. pl \in 1..Len(r)
    <3>1. m.line \in 1..Len(r)
      BY CaretStays
    <3> QED
      BY <1>6, <3>1
  <2>3. Len(r) \in Nat
    BY <2>1 DEF Lines
  <2> HIDE DEF r, pl, lo
  <2>4. pl - 1 \in Int /\ pl - 1 <= Len(r) /\ pl - 1 <= Len(u) /\ 1 \in Nat \ {0}
    BY <1>1, <1>2, <2>2, <2>3
  <2>5. \A l \in 1..(pl - 1) : l \in 1..(lo - 1)
    BY <1>1, <1>2, <1>5
  <2>6. \A l \in 1..(pl - 1) : r[l] = u[l]
    BY <2>1, <2>5
  <2> QED
    BY <2>1, <2>4, <2>6, SameLines
<1>8. FlatOffset(r, p) = FlatOffset(u, p)
  <2> HIDE DEF r
  <2> QED
    BY <1>7 DEF FlatOffset
<1> QED
  BY <1>6, <1>8

-----------------------------------------------------------------------------
(* The cursor stays on its character, which stands at the place h of the   *)
(* old text.                                                               *)
IsCaretStep(x, K, i, u, c, h, p) ==
  /\ IsReference(x, Symbol) /\ K \subseteq 1..x.n /\ i \in 1..x.n /\ i \notin K
  /\ \A j \in K : x.starts[j] >= x.ends[i] /\ (x.starts[j] = x.starts[i] => i < j)
  /\ u \in Lines /\ FitsIn(c, u) /\ x.added[i] = Added(c)
  /\ FlatOffset(u, c.start) = x.starts[i] /\ FlatOffset(u, c.end) = x.ends[i]
  /\ h \in 1..Len(x.flat) /\ Remains(x, K \union {i}, h)
  /\ p \in PlacesIn(u) /\ FlatOffset(u, p) = LengthUpTo(x, K, h)

LEMMA CaretStep ==
  ASSUME NEW x, NEW K, NEW i, NEW u, NEW c, NEW h, NEW p, IsCaretStep(x, K, i, u, c, h, p)
  PROVE  FlatOffset(After(c, u), Clipped(Moved(p, c, u), After(c, u))) = LengthUpTo(x, K \union {i}, h)
<1> SUFFICES ASSUME IsReference(x, Symbol), K \subseteq 1..x.n, i \in 1..x.n, i \notin K,
                    \A j \in K : x.starts[j] >= x.ends[i] /\ (x.starts[j] = x.starts[i] => i < j),
                    u \in Lines, FitsIn(c, u), x.added[i] = Added(c),
                    FlatOffset(u, c.start) = x.starts[i], FlatOffset(u, c.end) = x.ends[i],
                    h \in 1..Len(x.flat), Remains(x, K \union {i}, h),
                    p \in PlacesIn(u), FlatOffset(u, p) = LengthUpTo(x, K, h)
             PROVE  FlatOffset(After(c, u), Clipped(Moved(p, c, u), After(c, u))) = LengthUpTo(x, K \union {i}, h)
  BY Zenon DEF IsCaretStep
<1> DEFINE s == x.starts[i]
           e == x.ends[i]
           L == Len(x.flat)
<1>1. s \in Nat /\ e \in Nat /\ s <= e /\ L \in Nat
  <2>1. x.starts[i] \in 1..(L + 1) /\ x.ends[i] \in 1..(L + 1) /\ x.starts[i] <= x.ends[i] /\ L \in Nat
    BY ReferenceBounds
  <2> HIDE DEF s, e, L
  <2>2. s \in 1..(L + 1) /\ e \in 1..(L + 1) /\ s <= e /\ L \in Nat
    BY <2>1 DEF s, e
  <2> QED
    BY <2>2
<1>2. h <= L /\ \A j \in K \union {i} : h \notin x.starts[j] .. x.ends[j] - 1
  BY DEF Remains
<1>3. Remains(x, K, h)
  BY <1>2 DEF Remains
<1>4. h >= e \/ h < s
  <2>1. h \notin s .. e - 1
    BY <1>2
  <2> HIDE DEF s, e, L
  <2> QED
    BY <1>1, <2>1 DEF L
<1>5. CASE h >= e
  <2>1. h \in x.ends[i]..Len(x.flat)
    <3> HIDE DEF s, e, L
    <3>1. h \in e..L
      BY <1>1, <1>5 DEF L
    <3> QED
      BY <3>1 DEF e, L
  <2>2. /\ LengthUpTo(x, K, h) \in Nat /\ LengthUpTo(x, K, h) >= x.ends[i]
        /\ LengthUpTo(x, K \union {i}, h) = ((LengthUpTo(x, K, h) - x.ends[i]) + x.starts[i]) + Len(x.added[i])
    BY <1>3, <2>1, LengthBehind
  <2>3. FlatOffset(u, p) >= FlatOffset(u, c.end)
    BY <2>2
  <2>4. FlatOffset(After(c, u), Clipped(Moved(p, c, u), After(c, u))) =
          ((FlatOffset(u, p) - FlatOffset(u, c.end)) + FlatOffset(u, c.start)) + Len(Added(c))
    BY <2>3, CaretBehind
  <2> QED
    BY <2>2, <2>4
<1>6. CASE h < s
  <2>1. \A j \in K : x.starts[j] \in Nat /\ x.starts[j] > h
    <3> SUFFICES ASSUME NEW j \in K PROVE x.starts[j] \in Nat /\ x.starts[j] > h
      OBVIOUS
    <3> DEFINE b == x.starts[j]
    <3>1. b >= e
      OBVIOUS
    <3>2. b \in Nat
      <4>1. j \in 1..x.n
        OBVIOUS
      <4>2. b \in 1..(Len(x.flat) + 1)
        BY <4>1, ReferenceBounds
      <4> HIDE DEF b
      <4> QED
        BY <4>2
    <3>3. h \in Nat
      OBVIOUS
    <3> HIDE DEF b, e, s, L
    <3>4. b > h
      BY <1>1, <1>6, <3>1, <3>2, <3>3
    <3> QED
      BY <3>2, <3>4 DEF b
  <2>2. s > h
    <3>1. h \in Nat
      OBVIOUS
    <3> HIDE DEF s, e, L
    <3> QED
      BY <1>1, <1>6, <3>1
  <2>3. \A j \in K \union {i} : x.starts[j] \in Nat /\ x.starts[j] > h
    BY <1>1, <2>1, <2>2
  <2>4. LengthUpTo(x, K, h) = h
    BY <2>1, LengthBefore
  <2>5. LengthUpTo(x, K \union {i}, h) = h
    BY <2>3, LengthBefore
  <2>6. FlatOffset(u, p) < FlatOffset(u, c.start)
    BY <1>6, <2>4
  <2>7. FlatOffset(After(c, u), Clipped(Moved(p, c, u), After(c, u))) = FlatOffset(u, p)
    BY <2>6, CaretInFront
  <2> QED
    BY <2>4, <2>5, <2>7
<1> QED
  BY <1>4, <1>5, <1>6

LEMMA PastCaret ==
  ASSUME NEW t \in Lines, t # <<>>, NEW chunk, IsChunk(chunk, t), chunk.end.line > Len(t),
         NEW p \in PlacesIn(t), FlatOffset(t, p) < FlatOffset(t, chunk.start),
         FlatOffset(t, p) < Len(Flat(t))
  PROVE  LET c == Within(chunk, t)
             r == After(c, t)
         IN FlatOffset(r, Clipped(Moved(p, c, t), r)) = FlatOffset(t, p)
<1> DEFINE c == Within(chunk, t)
           r == After(c, t)
           N == Len(t)
           n == Len(t[N])
           pl == p.line
           pc == p.column
           e == Place(N, n + 1)
<1>1. FitsIn(c, t)
  BY WithinFits
<1>2. N \in Nat \ {0} /\ n \in Nat /\ e \in PlacesIn(t) /\ e \in Places
  BY EndOfText
<1>3. chunk.start.line \in Nat
  <2>1. chunk.start \in Places
    BY DEF IsChunk
  <2> QED
    BY <2>1 DEF Places
<1>4. CASE chunk.start.line <= N
  <2>1. c = [start |-> chunk.start, end |-> e, lines |-> Stripped(chunk.lines)]
    BY <1>4, WithinText
  <2>2. c.start = chunk.start
    <3> HIDE DEF c, e
    <3> QED
      BY <2>1
  <2>3. FlatOffset(t, p) < FlatOffset(t, c.start)
    BY <2>2
  <2> QED
    BY <1>1, <2>3, CaretInFront
<1>5. CASE chunk.start.line > N
  <2> DEFINE s == Stripped(chunk.lines)
  <2>1. /\ c = [start |-> Place(N, 1), end |-> e, lines |-> <<t[N]>> \o s]
        /\ s \in Lines /\ r = t \o s
    BY <1>5, PastTheEnd
  <2>2. c.start.line = N /\ c.end = e /\ e.line = N /\ e.column = n + 1
    <3> HIDE DEF c
    <3>1. c.start = Place(N, 1) /\ c.end = e
      BY <2>1
    <3> QED
      BY <3>1 DEF Place
  <2>3. p \in Places /\ pl \in 1..N /\ pc \in 1..(Len(t[pl]) + 1) /\ Len(t[pl]) \in Nat
    <3>1. p \in Places /\ pl \in 1..N /\ pc \in 1..(Len(t[pl]) + 1)
      BY PlaceInText DEF Lines
    <3> QED
      BY <3>1, NextLine
  <2>4. FlatOffset(t, e) = Len(Flat(t))
    <3>1. N \in 1..N
      BY <1>2
    <3>2. LineOffset(t, N + 1) = (LineOffset(t, N) + n) + 1 /\ LineOffset(t, N) \in Nat
      BY <3>1, NextLine
    <3>3. LineOffset(t, N + 1) = Len(Flat(t))
      BY LineOffsets
    <3>4. FlatOffset(t, e) = LineOffset(t, N) + (n + 1)
      BY <2>2 DEF FlatOffset, LineOffset
    <3> DEFINE b == LineOffset(t, N)
    <3>5. b + (n + 1) = (b + n) + 1
      <4>1. b \in Nat /\ n \in Nat
        BY <1>2, <3>2
      <4> HIDE DEF b, n
      <4> QED
        BY <4>1
    <3> QED
      BY <3>2, <3>3, <3>4, <3>5
  <2>5. ~(pl = N /\ pc >= n + 1)
    <3> SUFFICES ASSUME pl = N, pc >= n + 1 PROVE FALSE
      OBVIOUS
    <3>1. pc = n + 1
      <4>1. pc \in 1..(n + 1) /\ pc >= n + 1 /\ n \in Nat
        BY <1>2, <2>3
      <4> HIDE DEF pc, n
      <4> QED
        BY <4>1
    <3>2. FlatOffset(t, p) = FlatOffset(t, e)
      BY <2>2, <3>1 DEF FlatOffset
    <3>3. FlatOffset(t, e) \in Nat
      BY <2>4, FlatIsText
    <3> DEFINE b == FlatOffset(t, e)
    <3>4. b \in Nat /\ b < b
      BY <2>4, <3>2, <3>3
    <3> HIDE DEF b
    <3> QED
      BY <3>4
  <2>6. p = Place(pl, pc)
    BY <2>3 DEF Places, Place
  <2>7. Moved(p, c, t) = p
    <3>1. CASE pl < N
      <4>1. p.line < c.start.line
        BY <2>2, <3>1
      <4> QED
        BY <1>1, <4>1, CaretMoves
    <3>2. CASE pl = N
      <4>1. \/ p.line = c.end.line /\ p.column >= c.end.column
            \/ p.line > c.end.line \/ p.line < c.start.line
            \/ Moved(p, c, t) = Place(c.start.line, p.column) \/ Moved(p, c, t) = p
        BY <1>1, CaretMoves
      <4>2. ~(p.line = c.end.line /\ p.column >= c.end.column)
        BY <2>2, <2>5
      <4>3. ~(p.line > c.end.line) /\ ~(p.line < c.start.line)
        BY <1>2, <2>2, <3>2
      <4>4. Place(c.start.line, p.column) = p
        BY <2>2, <2>6, <3>2
      <4> QED
        BY <4>1, <4>2, <4>3, <4>4
    <3> QED
      BY <1>2, <2>3, <3>1, <3>2
  <2>8. /\ r \in Lines /\ Len(r) = N + Len(s) /\ Len(s) \in Nat
        /\ \A l \in 1..N : r[l] = t[l]
    <3>1. t \in Seq(Seq(Characters)) /\ s \in Seq(Seq(Characters))
      BY <2>1 DEF Lines
    <3> HIDE DEF s, r, N
    <3>2. /\ t \o s \in Seq(Seq(Characters)) /\ Len(t \o s) = Len(t) + Len(s) /\ Len(s) \in Nat
          /\ \A l \in 1..Len(t) : (t \o s)[l] = t[l]
      BY <3>1, Joining
    <3> QED
      BY <2>1, <3>2 DEF Lines, N
  <2>9. pl \in 1..Len(r) /\ r[pl] = t[pl]
    BY <1>2, <2>3, <2>8
  <2>10. p \in PlacesIn(r)
    <3>1. pc \in 1..(Len(r[pl]) + 1)
      BY <2>3, <2>9
    <3> QED
      BY <2>3, <2>8, <2>9, <3>1, PlaceInText DEF Lines
  <2>11. Clipped(p, r) = p
    <3>1. pc >= 1
      BY <2>3
    <3> QED
      BY <2>3, <2>8, <2>9, <2>10, <3>1, ClippedIsIn
  <2>12. SubSeq(r, 1, pl - 1) = SubSeq(t, 1, pl - 1)
    <3> HIDE DEF r, pl, N, s
    <3>1. pl - 1 \in Int /\ pl - 1 <= Len(r) /\ pl - 1 <= Len(t) /\ 1 \in Nat \ {0}
      BY <1>2, <2>3, <2>8 DEF N
    <3>2. \A l \in 1..(pl - 1) : r[l] = t[l]
      BY <1>2, <2>3, <2>8
    <3> QED
      BY <2>8, <3>1, <3>2, SameLines
  <2>13. FlatOffset(r, p) = FlatOffset(t, p)
    <3> HIDE DEF r
    <3> QED
      BY <2>12 DEF FlatOffset
  <2> QED
    BY <2>7, <2>11, <2>13
<1> QED
  BY <1>2, <1>3, <1>4, <1>5

LEMMA FirstCaret ==
  ASSUME NEW t \in Lines, NEW chunks, NEW n, AreChunks(chunks, n, t),
         NEW order, IsBottomUp(order, chunks, n), NEW st, AreSteps(st, chunks, order, t, n), st[0].text = t,
         NEW h \in 1..Len(Flat(t)), h = FlatOffset(t, st[0].caret),
         Remains(Referred(t, chunks, n), 1..n, h), IsPast(chunks, order, t) => h < Len(Flat(t))
  PROVE  FlatOffset(st[1].text, st[1].caret) = LengthUpTo(Referred(t, chunks, n), Done(order, 1), h)
<1> DEFINE x == Referred(t, chunks, n)
           i == order[1]
           c == Within(chunks[i], t)
           p == st[0].caret
           r == After(c, t)
<1>1. /\ 1 \in 1..n /\ i \in 1..n /\ IsChunk(chunks[i], t) /\ Done(order, 1) = {i}
      /\ FitsIn(c, t) /\ st[1].text = r /\ IsStep(st[0], st[1], c) /\ IsState(st[0])
      /\ x.starts[i] = FlatOffset(t, chunks[i].start) /\ x.ends[i] = FlatOffset(t, chunks[i].end)
      /\ chunks[i].end.line <= Len(t) => c = chunks[i]
  BY FirstStep
<1>2. IsReference(x, Symbol) /\ x.flat = Flat(t) /\ x.n = n
  BY ReferredIs
<1>21. \A k \in 1..n : x.added[order[k]] =
         IF k = 1 /\ IsPast(chunks, order, t)
         THEN Front(Flat(Stripped(chunks[order[k]].lines))) ELSE Added(chunks[order[k]])
  BY ReferredAdds
<1>22. ~IsPast(chunks, order, t) => x.added[i] = Added(chunks[i])
  BY <1>1, <1>21
<1>3. t # <<>> /\ p \in PlacesIn(t)
  BY <1>1 DEF IsState
<1>4. FlatOffset(st[1].text, st[1].caret) = FlatOffset(r, Clipped(Moved(p, c, t), r))
  <2>1. st[1].caret = Clipped(Moved(st[0].caret, c, st[0].text), st[1].text)
    BY <1>1, Zenon DEF IsStep
  <2> QED
    BY <1>1, <2>1
<1>5. h \in 1..Len(x.flat) /\ Remains(x, 1..n, h)
  BY <1>2
<1>6. LengthUpTo(x, {}, h) = h
  BY <1>2, <1>5, LengthBefore
<1>7. x.starts[i] \in 1..(Len(x.flat) + 1) /\ x.ends[i] \in 1..(Len(x.flat) + 1) /\ Len(x.flat) \in Nat
  BY <1>1, <1>2, ReferenceBounds
<1> HIDE DEF x, i, c, p, r
<1>8. CASE IsPast(chunks, order, t)
  <2>1. chunks[i].end.line > Len(t)
    BY <1>8 DEF IsPast, i
  <2>2. x.ends[i] = Len(x.flat) + 1
    <3>1. chunks[i].end \in Ends(t)
      BY <1>1 DEF IsChunk
    <3> QED
      BY <1>1, <1>2, <2>1, <3>1, OffsetOfEnd
  <2>3. h \notin x.starts[i] .. x.ends[i] - 1
    BY <1>1, <1>5 DEF Remains
  <2>4. h < x.starts[i]
    <3> DEFINE s == x.starts[i]
               e == x.ends[i]
               L == Len(x.flat)
    <3>1. s \in 1..(L + 1) /\ e = L + 1 /\ L \in Nat /\ h \in 1..L /\ h \notin s .. e - 1
      BY <1>5, <1>7, <2>2, <2>3
    <3> HIDE DEF s, e, L
    <3>2. h < s
      BY <3>1
    <3> QED
      BY <3>2 DEF s
  <2>5. FlatOffset(t, p) < FlatOffset(t, chunks[i].start) /\ FlatOffset(t, p) < Len(Flat(t))
    BY <1>1, <1>8, <2>4 DEF p
  <2>6. FlatOffset(r, Clipped(Moved(p, c, t), r)) = FlatOffset(t, p)
    BY <1>1, <1>3, <2>1, <2>5, PastCaret DEF c, r
  <2>7. \A j \in {i} : x.starts[j] \in Nat /\ x.starts[j] > h
    <3> DEFINE s == x.starts[i]
    <3>1. s \in Nat /\ h \in Nat /\ h < s
      BY <1>7, <2>4
    <3> HIDE DEF s
    <3>2. s \in Nat /\ s > h
      BY <3>1
    <3> QED
      BY <3>2 DEF s
  <2>8. LengthUpTo(x, {i}, h) = h
    BY <1>2, <1>5, <2>7, LengthBefore
  <2> QED
    BY <1>1, <1>4, <2>6, <2>8 DEF p, x, i
<1>9. CASE ~IsPast(chunks, order, t)
  <2>1. c = chunks[i]
    <3>1. chunks[i].end.line \in Nat /\ Len(t) \in Nat
      BY <1>1 DEF IsChunk, Places, Lines
    <3>2. chunks[i].end.line <= Len(t)
      BY <1>9, <3>1 DEF IsPast, i
    <3> QED
      BY <1>1, <3>2
  <2>2. /\ x.added[i] = Added(c) /\ FlatOffset(t, c.start) = x.starts[i] /\ FlatOffset(t, c.end) = x.ends[i]
        /\ FlatOffset(t, p) = LengthUpTo(x, {}, h)
    BY <1>1, <1>6, <1>9, <1>22, <2>1 DEF p
  <2>3. i \in 1..x.n /\ i \notin {} /\ {} \subseteq 1..x.n /\ {} \union {i} = {i}
    BY <1>1, <1>2
  <2>4. Remains(x, {i}, h)
    BY <1>1, <1>5 DEF Remains
  <2>5. Remains(x, {} \union {i}, h)
    BY <2>3, <2>4
  <2>6. FlatOffset(After(c, t), Clipped(Moved(p, c, t), After(c, t))) = LengthUpTo(x, {} \union {i}, h)
    <3> DEFINE K == {}
    <3>1. \A j \in K : x.starts[j] >= x.ends[i] /\ (x.starts[j] = x.starts[i] => i < j)
      OBVIOUS
    <3>2. K \subseteq 1..x.n /\ i \in 1..x.n /\ i \notin K /\ Remains(x, K \union {i}, h)
          /\ FlatOffset(t, p) = LengthUpTo(x, K, h)
      BY <2>2, <2>3, <2>5
    <3> HIDE DEF K
    <3>3. FitsIn(c, t) /\ p \in PlacesIn(t) /\ IsReference(x, Symbol)
      BY <1>1, <1>2, <1>3
    <3>4. IsCaretStep(x, K, i, t, c, h, p)
      BY <1>5, <2>2, <3>1, <3>2, <3>3, Zenon DEF IsCaretStep
    <3>5. FlatOffset(After(c, t), Clipped(Moved(p, c, t), After(c, t))) = LengthUpTo(x, K \union {i}, h)
      BY <3>4, CaretStep
    <3> QED
      BY <3>5, Zenon DEF K
  <2> QED
    BY <1>1, <1>4, <2>3, <2>6 DEF x, i, r
<1> QED
  BY <1>8, <1>9

LEMMA CaretIsThere ==
  ASSUME NEW t \in Lines, NEW chunks, NEW n, AreChunks(chunks, n, t),
         NEW order, IsBottomUp(order, chunks, n), NEW st, AreSteps(st, chunks, order, t, n), st[0].text = t,
         NEW h \in 1..Len(Flat(t)), h = FlatOffset(t, st[0].caret),
         Kept(t, chunks, h), IsPast(chunks, order, t) => h < Len(Flat(t))
  PROVE  FlatOffset(st[n].text, st[n].caret) = Len(UpTo(t, chunks, h))
<1> DEFINE x == Referred(t, chunks, n)
           Ok(k) == FlatOffset(st[k].text, st[k].caret) = LengthUpTo(x, Done(order, k), h)
           S == {k \in Nat : k + 1 <= n => Ok(k + 1)}
<1>1. n \in Nat \ {0}
  BY DEF AreChunks
<1>2. IsReference(x, Symbol) /\ x.flat = Flat(t) /\ x.n = n
  BY ReferredIs
<1>21. \A k \in 1..n : x.added[order[k]] =
         IF k = 1 /\ IsPast(chunks, order, t)
         THEN Front(Flat(Stripped(chunks[order[k]].lines))) ELSE Added(chunks[order[k]])
  BY ReferredAdds
<1>3. Remains(x, 1..n, h)
  BY ReferredIsUpTo
<1>4. Ok(1)
  BY <1>3, FirstCaret
<1> HIDE DEF x
<1>5. 0 \in S
  <2>1. 0 + 1 = 1
    OBVIOUS
  <2> HIDE DEF Ok
  <2> QED
    BY <1>4, <2>1
<1>6. ASSUME NEW m \in Nat, m \in S
      PROVE  m + 1 \in S
  <2> SUFFICES ASSUME (m + 1) + 1 <= n PROVE Ok((m + 1) + 1)
    OBVIOUS
  <2> DEFINE k == (m + 1) + 1
             j == order[k]
             d == chunks[j]
             u == st[k - 1].text
             p == st[k - 1].caret
             K == Done(order, k - 1)
  <2>1. k \in 1..n /\ k > 1 /\ k - 1 = m + 1 /\ k - 1 \in 1..n /\ m + 1 <= n
    BY <1>1
  <2>2. Ok(k - 1)
    BY <1>6, <2>1
  <2> HIDE DEF k
  <2>3. FlatOffset(u, p) = LengthUpTo(x, K, h)
    BY <2>2
  <2>4. j \in 1..n /\ j \notin K /\ Done(order, k) = K \union {j} /\ K \subseteq 1..n
    <3>1. n \in Nat
      BY <1>1
    <3>2. \A l \in 1..n : /\ order[l] \in 1..n /\ order[l] \notin Done(order, l - 1)
                          /\ Done(order, l) = Done(order, l - 1) \union {order[l]}
                          /\ Done(order, l - 1) \subseteq 1..n
      BY <3>1, DoneGrows
    <3> QED
      BY <2>1, <3>2, Zenon
  <2>5. \A l \in K : x.starts[l] >= x.ends[j] /\ (x.starts[l] = x.starts[j] => j < l)
    <3> DEFINE o == x.starts[order[k - 1]]
    <3>1. k \in 1..n /\ k > 1
      BY <2>1
    <3> HIDE DEF Ok, S
    <3>2. /\ \A l \in K : x.starts[l] >= x.ends[j] /\ (x.starts[l] = x.starts[j] => j < l)
          /\ x.ends[j] <= o
      BY <3>1, DoneAreBehind DEF x
    <3> QED
      BY <3>2
  <2>6. /\ u \in Lines /\ FitsIn(d, u) /\ st[k].text = After(d, u)
        /\ FlatOffset(u, d.start) = x.starts[j] /\ FlatOffset(u, d.end) = x.ends[j]
        /\ IsStep(st[k - 1], st[k], d) /\ IsState(st[k - 1])
    <3> DEFINE y == Referred(t, chunks, n)
    <3>1. k \in 1..n /\ k > 1
      BY <2>1
    <3> HIDE DEF y, Ok, S, K
    <3>2. /\ u \in Lines /\ FitsIn(d, u) /\ st[k].text = After(d, u)
          /\ FlatOffset(u, d.start) = y.starts[j] /\ FlatOffset(u, d.end) = y.ends[j]
          /\ IsStep(st[k - 1], st[k], d) /\ IsState(st[k - 1])
      BY <3>1, LaterStep DEF y
    <3> QED
      BY <3>2, Zenon DEF x, y
  <2>7. x.added[j] = Added(d)
    BY <1>21, <2>1
  <2>8. p \in PlacesIn(u)
    BY <2>6 DEF IsState
  <2>9. st[k].caret = Clipped(Moved(p, d, u), After(d, u))
    BY <2>6, Zenon DEF IsStep
  <2> HIDE DEF j, d, u, p, K
  <2>10. h \in 1..Len(x.flat) /\ Remains(x, K \union {j}, h) /\ j \in 1..x.n /\ K \subseteq 1..x.n
    <3>1. h \in 1..Len(x.flat) /\ j \in 1..x.n /\ K \subseteq 1..x.n
      BY <1>2, <2>4
    <3>2. K \union {j} \subseteq 1..n
      BY <2>4
    <3>3. Remains(x, K \union {j}, h)
      BY <1>3, <3>2, Zenon DEF Remains
    <3> QED
      BY <3>1, <3>3
  <2>11. FlatOffset(After(d, u), Clipped(Moved(p, d, u), After(d, u))) = LengthUpTo(x, K \union {j}, h)
    <3>1. FitsIn(d, u) /\ p \in PlacesIn(u) /\ IsReference(x, Symbol) /\ u \in Lines
      BY <1>2, <2>6, <2>8
    <3>2. FlatOffset(u, d.start) = x.starts[j] /\ FlatOffset(u, d.end) = x.ends[j] /\ j \notin K
      BY <2>4, <2>6
    <3>3. IsCaretStep(x, K, j, u, d, h, p)
      BY <2>3, <2>5, <2>7, <2>10, <3>1, <3>2, Zenon DEF IsCaretStep
    <3> QED
      BY <3>3, CaretStep
  <2>12. Ok(k)
    BY <2>4, <2>6, <2>9, <2>11
  <2> QED
    BY <2>12 DEF k
<1> HIDE DEF S
<1>7. \A m \in Nat : m \in S
  BY <1>5, <1>6, Induction
<1>8. Ok(n)
  <2>1. n - 1 \in Nat /\ (n - 1) + 1 = n /\ n <= n
    BY <1>1
  <2>2. n - 1 \in S
    BY <1>7, <2>1
  <2> HIDE DEF Ok
  <2>3. (n - 1) + 1 <= n => Ok((n - 1) + 1)
    BY <2>2 DEF S
  <2> QED
    BY <2>1, <2>3
<1>9. Done(order, n) = 1..n
  BY <1>1, DoneGrows
<1>10. UpTo(t, chunks, h) = FlattenSeq([o \in 1..h |-> Piece(x, 1..n, o)])
  BY ReferredIsUpTo DEF x
<1>11. h \in 0..(Len(x.flat) + 1)
  <2>1. h \in 1..Len(x.flat) /\ Len(x.flat) \in Nat
    BY <1>2, FlatIsText
  <2> QED
    BY <2>1
<1>12. Len(FlattenSeq([o \in 1..h |-> Piece(x, 1..n, o)])) = LengthUpTo(x, 1..n, h)
  BY <1>2, <1>11, LengthIsThat
<1> QED
  BY <1>8, <1>9, <1>10, <1>12

(* What an edit leaves is what its chunks stand for together.              *)
LEMMA EditIsApplied ==
  ASSUME NEW t \in Texts, NEW p \in PlacesIn(t), NEW chunks \in ChunkLists(t)
  PROVE  LET result == Edited([text |-> t, caret |-> p], chunks)
             new == UpTo(t, chunks, Len(Flat(t)) + 1)
             at == FlatOffset(t, p)
             past == \E i \in DOMAIN chunks : chunks[i].end.line > Len(t)
         IN /\ Flat(result.text) = IF past THEN Append(new, Newline) ELSE new
            /\ Kept(t, chunks, at) /\ (past => at < Len(Flat(t)))
                 => FlatOffset(result.text, result.caret) = Len(UpTo(t, chunks, at))
<1> DEFINE state == [text |-> t, caret |-> p]
           result == Edited(state, chunks)
           new == UpTo(t, chunks, Len(Flat(t)) + 1)
           at == FlatOffset(t, p)
           past == \E i \in DOMAIN chunks : chunks[i].end.line > Len(t)
           order == BottomUp(chunks)
<1>1. state.text = t /\ state.caret = p
  OBVIOUS
<1>2. t \in Lines /\ IsState(state)
  BY <1>1, TextsAssumption DEF IsState, Lines
<1>3. PICK n : AreChunks(chunks, n, t)
  BY ChunksAreSuch
<1> HIDE DEF state
<1>4. PICK st : st[0] = state /\ result = st[n] /\ AreSteps(st, chunks, order, t, n)
  BY <1>1, <1>2, <1>3, StepsAreSafe
<1>5. IsBottomUp(order, chunks, n)
  BY <1>3, BottomUpIsSuch
<1>6. st[0].text = t /\ st[0].caret = p
  BY <1>1, <1>4
<1>7. AreSteps(st, chunks, order, t, n)
  BY <1>4
<1>8. at \in 1..Len(Flat(t)) /\ at = FlatOffset(t, st[0].caret)
  BY <1>2, <1>6, SplitIsSlices
<1> HIDE DEF order, result
<1>9. IsPast(chunks, order, t) <=> past
  BY <1>2, <1>3, <1>5, PastIsFirst
<1>10. Flat(st[n].text) = IF IsPast(chunks, order, t) THEN Append(new, Newline) ELSE new
  BY <1>2, <1>3, <1>5, <1>6, <1>7, TextIsThat
<1> HIDE DEF at, past, new
<1>11. ASSUME Kept(t, chunks, at), past => at < Len(Flat(t))
       PROVE  FlatOffset(st[n].text, st[n].caret) = Len(UpTo(t, chunks, at))
  <2>1. IsPast(chunks, order, t) => at < Len(Flat(t))
    BY <1>9, <1>11
  <2>2. Kept(t, chunks, at)
    BY <1>11
  <2> QED
    BY <1>2, <1>3, <1>5, <1>6, <1>7, <1>8, <2>1, <2>2, CaretIsThere
<1>12. /\ Flat(result.text) = IF past THEN Append(new, Newline) ELSE new
       /\ Kept(t, chunks, at) /\ (past => at < Len(Flat(t)))
            => FlatOffset(result.text, result.caret) = Len(UpTo(t, chunks, at))
  BY <1>4, <1>9, <1>10, <1>11, Zenon
<1> QED
  BY <1>12, Zenon DEF result, state, at, past, new

LEMMA EditsInvGivesApplied == EditsInv => EditsAreApplied
<1> SUFFICES ASSUME EditsInv, applied # NotApplied PROVE EditsAreApplied
  BY DEF EditsAreApplied
<1>1. /\ applied.text \in Texts /\ applied.caret \in PlacesIn(applied.text)
      /\ applied.chunks \in ChunkLists(applied.text)
  BY DEF EditsInv, IsEdit
<1> DEFINE result == Edited([text |-> applied.text, caret |-> applied.caret], applied.chunks)
<1>2. text = result.text /\ caret = result.caret
  BY Zenon DEF EditsInv, IsEdit
<1> DEFINE new == UpTo(applied.text, applied.chunks, Len(Flat(applied.text)) + 1)
           at == FlatOffset(applied.text, applied.caret)
           past == \E i \in DOMAIN applied.chunks : applied.chunks[i].end.line > Len(applied.text)
<1> HIDE DEF result, new, at, past
<1>3. /\ Flat(result.text) = IF past THEN Append(new, Newline) ELSE new
      /\ Kept(applied.text, applied.chunks, at) /\ (past => at < Len(Flat(applied.text)))
           => FlatOffset(result.text, result.caret) = Len(UpTo(applied.text, applied.chunks, at))
  BY <1>1, EditIsApplied, Zenon DEF result, new, at, past
<1>4. /\ Flat(text) = IF past THEN Append(new, Newline) ELSE new
      /\ Kept(applied.text, applied.chunks, at) /\ (past => at < Len(Flat(applied.text)))
           => FlatOffset(text, caret) = Len(UpTo(applied.text, applied.chunks, at))
  BY <1>2, <1>3, Zenon
<1> QED
  BY <1>4, Zenon DEF EditsAreApplied, new, at, past

(* Chunks that are applied bottom-up, each at the place it had in the old  *)
(* text, give the text they stand for when all of them are applied at once *)
(* (when one reaches past the end: the last one without the blanks at its  *)
(* end, which rstrip() takes, and the text with a newline at its own), and *)
(* the cursor stays on its character if that is still there.               *)
THEOREM EditsAreSimultaneous == EditsSpec => []EditsAreApplied
BY EditsBegin, EditsGoOn, EditsInvGivesApplied, PTL DEF EditsSpec
=============================================================================
