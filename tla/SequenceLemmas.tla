--------------------------- MODULE SequenceLemmas ---------------------------
(***************************************************************************)
(* Lemmas about sequences that the proofs about Ledger, OrderSaga and      *)
(* Aggregate share.  First, what a fold computes: FoldLeft is a recursive  *)
(* function on the sets of indices, so it has to be shown that one exists, *)
(* and that its values are those of the fold step by step.  A step is a    *)
(* function here, of the value so far and the next element: an operator    *)
(* cannot be the parameter of a lemma that is cited.  Then, what occurs in *)
(* a sequence and in which order.                                          *)
(***************************************************************************)
EXTENDS Integers, Sequences, FiniteSetsExt, WellFoundedInduction, TLAPS

LEMMA Induction ==
    ASSUME NEW P \in SUBSET Nat, 0 \in P, \A n \in P : n + 1 \in P
    PROVE  P = Nat
<1> SUFFICES ASSUME P # Nat PROVE FALSE
  OBVIOUS
<1> DEFINE T == Nat \ P
<1>1. T \subseteq Nat /\ T # {}
  OBVIOUS
<1>2. \E x \in T : \A y \in T : ~ (<<y, x>> \in OpToRel(<, Nat))
  BY <1>1, WFMin, NatLessThanWellFounded
<1>3. PICK x \in T : \A y \in T : ~ (<<y, x>> \in OpToRel(<, Nat))
  BY <1>2
<1>4. x # 0 /\ x - 1 \in Nat
  OBVIOUS
<1>5. x - 1 \in T
  OBVIOUS
<1>6. <<x - 1, x>> \in OpToRel(<, Nat)
  BY <1>4 DEF OpToRel
<1> QED
  BY <1>3, <1>5, <1>6

(* The values that a fold goes through. *)
Steps(f, V, step, base, seq) ==
    /\ f \in [0..Len(seq) -> V]
    /\ f[0] = base
    /\ \A k \in 1..Len(seq) : f[k] = step[<<f[k - 1], seq[k]>>]

(* The greatest index of a set of indices is one of them. *)
LEMMA MaxOfIndices ==
    ASSUME NEW n \in Nat, NEW s \in SUBSET (1..n), s # {}
    PROVE  Max(s) \in s /\ \A i \in s : i <= Max(s)
<1> DEFINE P == {k \in Nat : \A t \in SUBSET (1..k) : t # {} => \E x \in t : \A y \in t : x >= y}
<1>1. 0 \in P
  <2>1. 1..0 = {}
    OBVIOUS
  <2> QED
    BY <2>1
<1>2. ASSUME NEW k \in P PROVE k + 1 \in P
  <2> SUFFICES ASSUME NEW t \in SUBSET (1..(k + 1)), t # {} PROVE \E x \in t : \A y \in t : x >= y
    OBVIOUS
  <2>1. CASE k + 1 \in t
    BY <2>1
  <2>2. CASE k + 1 \notin t
    <3>1. t \in SUBSET (1..k)
      BY <2>2
    <3> QED
      BY <3>1
  <2> QED
    BY <2>1, <2>2
<1> HIDE DEF P
<1>3. P = Nat
  <2>1. P \in SUBSET Nat
    BY DEF P
  <2> QED
    BY <1>1, <1>2, <2>1, Induction
<1>4. \E x \in s : \A y \in s : x >= y
  BY <1>3 DEF P
<1> QED
  BY <1>4 DEF Max

(* Over the sets of indices a fold is defined by its equation. *)
FoldOver(g, V, step, base, seq, n) ==
    /\ g \in [SUBSET (1..n) -> V]
    /\ \A s \in SUBSET (1..n) :
         g[s] = IF s = {} THEN base ELSE step[<<g[s \ {Max(s)}], seq[Max(s)]>>]

LEMMA FoldExists ==
    ASSUME NEW V, NEW E, NEW step \in [V \X E -> V], NEW base \in V, NEW seq \in Seq(E)
    PROVE  \E g : FoldOver(g, V, step, base, seq, Len(seq))
<1> DEFINE n == Len(seq)
           P == {k \in Nat : k <= n => \E g : FoldOver(g, V, step, base, seq, k)}
<1>1. 0 \in P
  <2> DEFINE g0 == [s \in SUBSET (1..0) |-> base]
  <2>1. SUBSET (1..0) = {{}}
    OBVIOUS
  <2>2. FoldOver(g0, V, step, base, seq, 0)
    BY <2>1 DEF FoldOver
  <2> QED
    BY <2>2
<1>2. ASSUME NEW k \in P PROVE k + 1 \in P
  <2> SUFFICES ASSUME k + 1 <= n PROVE \E g : FoldOver(g, V, step, base, seq, k + 1)
    OBVIOUS
  <2>1. PICK g : FoldOver(g, V, step, base, seq, k)
    OBVIOUS
  <2> DEFINE m == k + 1
             h == [s \in SUBSET (1..m) |->
                     IF m \in s THEN step[<<g[s \ {m}], seq[m]>>] ELSE g[s]]
  <2>2. m \in 1..n /\ seq[m] \in E /\ k \in Nat
    OBVIOUS
  <2>3. \A s \in SUBSET (1..m) : (m \notin s => s \in SUBSET (1..k)) /\ s \ {m} \in SUBSET (1..k)
    OBVIOUS
  <2>4. ASSUME NEW s \in SUBSET (1..m)
        PROVE  h[s] \in V /\ h[s] = IF s = {} THEN base ELSE step[<<h[s \ {Max(s)}], seq[Max(s)]>>]
    <3>1. CASE m \in s
      <4>1. Max(s) = m
        <5>1. k + 1 \in Nat /\ s \in SUBSET (1..(k + 1)) /\ s # {}
          BY <3>1, <2>2
        <5>2. Max(s) \in s /\ \A i \in s : i <= Max(s)
          BY <5>1, MaxOfIndices
        <5> HIDE DEF h
        <5>3. Max(s) \in 1..m /\ m <= Max(s)
          BY <5>2, <3>1
        <5> QED
          BY <5>3, <2>2
      <4>2. s \ {m} \in SUBSET (1..k) /\ s \ {m} \in SUBSET (1..m) /\ m \notin s \ {m}
        BY <2>3
      <4>3. h[s \ {m}] = g[s \ {m}] /\ g[s \ {m}] \in V
        BY <4>2, <2>1 DEF FoldOver
      <4>4. h[s] = step[<<g[s \ {m}], seq[m]>>]
        BY <3>1
      <4> QED
        BY <4>1, <4>3, <4>4, <3>1, <2>2
    <3>2. CASE m \notin s
      <4>1. s \in SUBSET (1..k) /\ h[s] = g[s] /\ g[s] \in V
        BY <3>2, <2>3, <2>1 DEF FoldOver
      <4>2. g[s] = IF s = {} THEN base ELSE step[<<g[s \ {Max(s)}], seq[Max(s)]>>]
        BY <4>1, <2>1 DEF FoldOver
      <4>3. s \ {Max(s)} \in SUBSET (1..m) /\ m \notin s \ {Max(s)}
        BY <3>2
      <4>4. h[s \ {Max(s)}] = g[s \ {Max(s)}]
        BY <4>3
      <4> QED
        BY <4>1, <4>2, <4>4
    <3> QED
      BY <3>1, <3>2
  <2>5. h \in [SUBSET (1..m) -> V]
    BY <2>4
  <2>6. FoldOver(h, V, step, base, seq, m)
    <3> HIDE DEF h
    <3> QED
      BY <2>4, <2>5 DEF FoldOver
  <2> QED
    BY <2>6
<1> HIDE DEF P
<1>3. P = Nat
  <2>1. P \in SUBSET Nat
    BY DEF P
  <2> QED
    BY <1>1, <1>2, <2>1, Induction
<1>4. n \in P
  BY <1>3
<1> QED
  BY <1>4 DEF P

LEMMA Segments ==
    ASSUME NEW k \in Nat
    PROVE  Max(1..(k + 1)) = k + 1 /\ (1..(k + 1)) \ {k + 1} = 1..k /\ 1..(k + 1) # {} /\ 1..0 = {}
<1>1. 1..(k + 1) # {} /\ 1..(k + 1) \in SUBSET (1..(k + 1)) /\ k + 1 \in Nat
  OBVIOUS
<1>2. Max(1..(k + 1)) \in 1..(k + 1) /\ \A i \in 1..(k + 1) : i <= Max(1..(k + 1))
  BY <1>1, MaxOfIndices
<1>3. Max(1..(k + 1)) = k + 1
  BY <1>2
<1> QED
  BY <1>3

(* The equation of a fold where it is needed. *)
FoldsOnSegments(h, V, E, step, base, seq) ==
    /\ step \in [V \X E -> V] /\ base \in V /\ seq \in Seq(E)
    /\ h[{}] = base
    /\ \A k \in Nat : k < Len(seq) /\ h[1..k] \in V =>
                         h[1..(k + 1)] = step[<<h[1..k], seq[k + 1]>>]

(* A function that meets the equation of a fold, whatever its values are   *)
(* elsewhere, goes through the values of the fold.                         *)
LEMMA FoldSteps ==
    ASSUME NEW V, NEW E, NEW step, NEW base, NEW seq, NEW h,
           FoldsOnSegments(h, V, E, step, base, seq)
    PROVE  \E f : Steps(f, V, step, base, seq) /\ f[Len(seq)] = h[1..Len(seq)]
<1> USE DEF FoldsOnSegments
<1> DEFINE n == Len(seq)
           P == {k \in Nat : k <= n => h[1..k] \in V}
<1>1. 0 \in P
  BY 1..0 = {}
<1>2. ASSUME NEW k \in P PROVE k + 1 \in P
  <2> SUFFICES ASSUME k + 1 <= n PROVE h[1..(k + 1)] \in V
    OBVIOUS
  <2>1. h[1..k] \in V /\ seq[k + 1] \in E /\ k < Len(seq)
    OBVIOUS
  <2> QED
    BY <2>1
<1> HIDE DEF P
<1>3. P = Nat
  <2>1. P \in SUBSET Nat
    BY DEF P
  <2> QED
    BY <1>1, <1>2, <2>1, Induction
<1>4. \A k \in 0..n : h[1..k] \in V
  <2> SUFFICES ASSUME NEW k \in 0..n PROVE h[1..k] \in V
    OBVIOUS
  <2>1. k \in P /\ k <= n
    BY <1>3
  <2> QED
    BY <2>1 DEF P
<1>5. ASSUME NEW k \in 1..n PROVE h[1..k] = step[<<h[1..(k - 1)], seq[k]>>]
  <2>1. k - 1 \in Nat /\ k - 1 < Len(seq) /\ (k - 1) + 1 = k /\ h[1..(k - 1)] \in V
    BY <1>4
  <2> QED
    BY <2>1
<1>6. h[1..0] = base
  BY 1..0 = {}
<1> DEFINE f == [k \in 0..n |-> h[1..k]]
<1>7. Steps(f, V, step, base, seq) /\ f[n] = h[1..n]
  BY <1>4, <1>5, <1>6 DEF Steps
<1> QED
  BY <1>7

Prolongs(t, s, E) ==
    s \in Seq(E) /\ t \in Seq(E) /\ Len(s) <= Len(t) /\ \A i \in 1..Len(s) : s[i] = t[i]

(* Two folds agree on the beginning that their sequences have in common.   *)
LEMMA StepsAgree ==
    ASSUME NEW V, NEW step, NEW base, NEW E, NEW s, NEW t, Prolongs(t, s, E),
           NEW f, Steps(f, V, step, base, s), NEW g, Steps(g, V, step, base, t)
    PROVE  \A k \in 0..Len(s) : f[k] = g[k]
<1> USE DEF Prolongs
<1> DEFINE P == {k \in Nat : k <= Len(s) => f[k] = g[k]}
<1>1. 0 \in P
  BY DEF Steps
<1>2. ASSUME NEW k \in P PROVE k + 1 \in P
  <2> SUFFICES ASSUME k + 1 <= Len(s) PROVE f[k + 1] = g[k + 1]
    OBVIOUS
  <2>1. k + 1 \in 1..Len(s) /\ k + 1 \in 1..Len(t) /\ (k + 1) - 1 = k /\ f[k] = g[k]
    OBVIOUS
  <2> QED
    BY <2>1 DEF Steps
<1> HIDE DEF P
<1>3. P = Nat
  <2>1. P \in SUBSET Nat
    BY DEF P
  <2> QED
    BY <1>1, <1>2, <2>1, Induction
<1> QED
  BY <1>3 DEF P

(* A fold of a longer sequence takes one more step. *)
StepsOn(f, g, V, E, step, base, s, e) ==
    /\ s \in Seq(E) /\ e \in E
    /\ Steps(f, V, step, base, s) /\ Steps(g, V, step, base, Append(s, e))

LEMMA StepsGrow ==
    ASSUME NEW V, NEW E, NEW step, NEW base, NEW s, NEW e, NEW f, NEW g,
           StepsOn(f, g, V, E, step, base, s, e)
    PROVE  g[Len(Append(s, e))] = step[<<f[Len(s)], e>>]
<1> USE DEF StepsOn
<1> DEFINE t == Append(s, e)
<1>1. t \in Seq(E) /\ Len(s) \in Nat /\ Len(t) = Len(s) + 1 /\ t[Len(t)] = e /\ \A i \in 1..Len(s) : s[i] = t[i]
  OBVIOUS
<1> HIDE DEF t
<1>2. Prolongs(t, s, E)
  BY <1>1 DEF Prolongs
<1>3. Steps(g, V, step, base, t)
  BY DEF t
<1>4. \A k \in 0..Len(s) : f[k] = g[k]
  BY <1>2, <1>3, StepsAgree
<1>5. g[Len(t)] = step[<<g[Len(t) - 1], t[Len(t)]>>]
  <2>1. Len(t) \in 1..Len(t)
    BY <1>1
  <2> QED
    BY <2>1, <1>3 DEF Steps
<1>6. g[Len(t) - 1] = f[Len(s)]
  BY <1>1, <1>4
<1> QED
  BY <1>1, <1>5, <1>6 DEF t

(* What holds of the empty sequence, and of a longer one if of a shorter,  *)
(* holds of all sequences.                                                 *)
LEMMA SequenceInduction ==
    ASSUME NEW S, NEW P \in SUBSET Seq(S), <<>> \in P, \A s \in P : \A e \in S : Append(s, e) \in P
    PROVE  P = Seq(S)
<1> DEFINE N == {n \in Nat : \A s \in Seq(S) : Len(s) = n => s \in P}
<1>1. 0 \in N
  <2>1. \A s \in Seq(S) : Len(s) = 0 => s = <<>>
    OBVIOUS
  <2> QED
    BY <2>1
<1>2. ASSUME NEW n \in N PROVE n + 1 \in N
  <2> SUFFICES ASSUME NEW s \in Seq(S), Len(s) = n + 1 PROVE s \in P
    OBVIOUS
  <2> DEFINE r == SubSeq(s, 1, n)
  <2>1. r \in Seq(S) /\ Len(r) = n /\ s[n + 1] \in S /\ \A i \in 1..n : r[i] = s[i]
    OBVIOUS
  <2>2. r \in P
    BY <2>1
  <2>3. s = Append(r, s[n + 1])
    <3> DEFINE t == Append(r, s[n + 1])
    <3>1. t \in Seq(S) /\ Len(t) = n + 1 /\ t[n + 1] = s[n + 1] /\ \A i \in 1..n : t[i] = r[i]
      BY <2>1
    <3> HIDE DEF t
    <3>2. \A i \in 1..(n + 1) : t[i] = s[i]
      BY <3>1, <2>1
    <3>3. DOMAIN t = 1..(n + 1) /\ DOMAIN s = 1..(n + 1)
      BY <3>1
    <3>4. t = s
      BY <3>1, <3>2, <3>3
    <3> QED
      BY <3>4 DEF t
  <2> QED
    BY <2>1, <2>2, <2>3
<1> HIDE DEF N
<1>3. N = Nat
  <2>1. N \in SUBSET Nat
    BY DEF N
  <2> QED
    BY <1>1, <1>2, <2>1, Induction
<1>4. ASSUME NEW s \in Seq(S) PROVE s \in P
  <2>1. Len(s) \in N
    BY <1>3
  <2> QED
    BY <2>1 DEF N
<1> QED
  BY <1>4

-----------------------------------------------------------------------------
(* What occurs in a sequence, and in which order.                          *)
Occurs(m, s) == \E i \in DOMAIN s : s[i] = m

(* The elements of T occur at most once. *)
Once(s, T) == \A i, j \in DOMAIN s : s[i] = s[j] /\ s[i] \in T => i = j

Before(s, x, y) == \E i, j \in DOMAIN s : i < j /\ s[i] = x /\ s[j] = y

LEMMA NothingOccurs == \A m : ~Occurs(m, <<>>)
<1>1. DOMAIN <<>> = {}
  OBVIOUS
<1> QED
  BY <1>1 DEF Occurs

LEMMA OccursInOne == ASSUME NEW x PROVE \A m : Occurs(m, <<x>>) <=> m = x
<1>1. DOMAIN <<x>> = 1..1 /\ <<x>>[1] = x
  OBVIOUS
<1> QED
  BY <1>1 DEF Occurs

LEMMA OccursInTwo == ASSUME NEW x, NEW y PROVE \A m : Occurs(m, <<x, y>>) <=> m \in {x, y}
<1>1. DOMAIN <<x, y>> = 1..2 /\ <<x, y>>[1] = x /\ <<x, y>>[2] = y
  OBVIOUS
<1> QED
  BY <1>1 DEF Occurs

LEMMA JoinedAt ==
    ASSUME NEW S, NEW s \in Seq(S), NEW t \in Seq(S)
    PROVE  /\ s \o t \in Seq(S) /\ Len(s \o t) = Len(s) + Len(t)
           /\ Len(s) \in Nat /\ Len(t) \in Nat /\ DOMAIN s = 1..Len(s) /\ DOMAIN t = 1..Len(t)
           /\ DOMAIN (s \o t) = 1..(Len(s) + Len(t))
           /\ \A i \in DOMAIN s : (s \o t)[i] = s[i]
           /\ \A i \in DOMAIN t : (s \o t)[Len(s) + i] = t[i]
           /\ \A i \in DOMAIN (s \o t) : i \notin DOMAIN s => i - Len(s) \in DOMAIN t /\ (s \o t)[i] = t[i - Len(s)]
OBVIOUS

LEMMA OccursInJoined ==
    ASSUME NEW S, NEW s \in Seq(S), NEW t \in Seq(S), NEW m
    PROVE  Occurs(m, s \o t) <=> Occurs(m, s) \/ Occurs(m, t)
<1> DEFINE u == s \o t
<1>1. /\ Len(s) \in Nat /\ Len(t) \in Nat /\ DOMAIN s = 1..Len(s) /\ DOMAIN t = 1..Len(t)
      /\ DOMAIN u = 1..(Len(s) + Len(t))
      /\ \A i \in DOMAIN s : u[i] = s[i]
      /\ \A i \in DOMAIN t : u[Len(s) + i] = t[i]
      /\ \A i \in DOMAIN u : i \notin DOMAIN s => i - Len(s) \in DOMAIN t /\ u[i] = t[i - Len(s)]
  BY JoinedAt
<1> HIDE DEF u
<1>2. \A i \in DOMAIN s : i \in DOMAIN u
  BY <1>1
<1>3. \A i \in DOMAIN t : Len(s) + i \in DOMAIN u
  BY <1>1
<1>4. Occurs(m, u) <=> Occurs(m, s) \/ Occurs(m, t)
  BY <1>1, <1>2, <1>3 DEF Occurs
<1> QED
  BY <1>4 DEF u

LEMMA HeadTailAt ==
    ASSUME NEW S, NEW s \in Seq(S), s # <<>>
    PROVE  /\ Head(s) \in S /\ Tail(s) \in Seq(S) /\ Head(s) = s[1] /\ 1 \in DOMAIN s
           /\ Len(s) \in Nat /\ DOMAIN s = 1..Len(s) /\ DOMAIN Tail(s) = 1..(Len(s) - 1)
           /\ \A i \in DOMAIN Tail(s) : Tail(s)[i] = s[i + 1] /\ i + 1 \in DOMAIN s
OBVIOUS

LEMMA OccursInTail ==
    ASSUME NEW S, NEW s \in Seq(S), s # <<>>, NEW m
    PROVE  Occurs(m, s) <=> m = Head(s) \/ Occurs(m, Tail(s))
<1> DEFINE t == Tail(s)
<1>1. /\ Head(s) = s[1] /\ 1 \in DOMAIN s
      /\ Len(s) \in Nat /\ DOMAIN s = 1..Len(s) /\ DOMAIN t = 1..(Len(s) - 1)
      /\ \A i \in DOMAIN t : t[i] = s[i + 1] /\ i + 1 \in DOMAIN s
  BY HeadTailAt
<1> HIDE DEF t
<1>2. \A i \in DOMAIN s : i # 1 => i - 1 \in DOMAIN t /\ t[i - 1] = s[i]
  BY <1>1
<1>3. Occurs(m, s) <=> m = Head(s) \/ Occurs(m, t)
  BY <1>1, <1>2 DEF Occurs
<1> QED
  BY <1>3 DEF t

LEMMA OnceInTail ==
    ASSUME NEW S, NEW s \in Seq(S), s # <<>>, NEW T, Once(s, T)
    PROVE  Once(Tail(s), T) /\ (Head(s) \in T => ~Occurs(Head(s), Tail(s)))
<1> DEFINE t == Tail(s)
<1>1. /\ Head(s) = s[1] /\ 1 \in DOMAIN s
      /\ Len(s) \in Nat /\ DOMAIN s = 1..Len(s) /\ DOMAIN t = 1..(Len(s) - 1)
      /\ \A i \in DOMAIN t : t[i] = s[i + 1] /\ i + 1 \in DOMAIN s
  BY HeadTailAt
<1> HIDE DEF t
<1>2. Once(t, T)
  BY <1>1 DEF Once
<1>3. Head(s) \in T => ~Occurs(Head(s), t)
  BY <1>1 DEF Once, Occurs
<1> QED
  BY <1>2, <1>3 DEF t

LEMMA OnceInJoined ==
    ASSUME NEW S, NEW s \in Seq(S), NEW t \in Seq(S), NEW T, Once(s, T), Once(t, T),
           \A m \in T : ~(Occurs(m, s) /\ Occurs(m, t))
    PROVE  Once(s \o t, T)
<1> DEFINE u == s \o t
<1>1. /\ Len(s) \in Nat /\ Len(t) \in Nat /\ DOMAIN s = 1..Len(s) /\ DOMAIN t = 1..Len(t)
      /\ DOMAIN u = 1..(Len(s) + Len(t))
      /\ \A i \in DOMAIN s : u[i] = s[i]
      /\ \A i \in DOMAIN t : u[Len(s) + i] = t[i]
      /\ \A i \in DOMAIN u : i \notin DOMAIN s => i - Len(s) \in DOMAIN t /\ u[i] = t[i - Len(s)]
  BY JoinedAt
<1> HIDE DEF u
<1>2. SUFFICES ASSUME NEW i \in DOMAIN u, NEW j \in DOMAIN u, u[i] = u[j], u[i] \in T PROVE i = j
  BY DEF Once, u
<1>3. CASE i \in DOMAIN s /\ j \in DOMAIN s
  BY <1>1, <1>2, <1>3 DEF Once
<1>4. CASE i \notin DOMAIN s /\ j \notin DOMAIN s
  <2>1. i - Len(s) = j - Len(s)
    BY <1>1, <1>2, <1>4 DEF Once
  <2> QED
    BY <2>1, <1>1
<1>5. CASE i \in DOMAIN s /\ j \notin DOMAIN s
  BY <1>1, <1>2, <1>5 DEF Occurs
<1>6. CASE i \notin DOMAIN s /\ j \in DOMAIN s
  BY <1>1, <1>2, <1>6 DEF Occurs
<1> QED
  BY <1>3, <1>4, <1>5, <1>6

LEMMA BeforeInTail ==
    ASSUME NEW S, NEW s \in Seq(S), s # <<>>, NEW x, NEW y, Before(s, x, y), x # Head(s)
    PROVE  Before(Tail(s), x, y)
<1> DEFINE t == Tail(s)
<1>1. /\ Head(s) = s[1] /\ 1 \in DOMAIN s
      /\ Len(s) \in Nat /\ DOMAIN s = 1..Len(s) /\ DOMAIN t = 1..(Len(s) - 1)
      /\ \A i \in DOMAIN t : t[i] = s[i + 1] /\ i + 1 \in DOMAIN s
  BY HeadTailAt
<1> HIDE DEF t
<1>2. PICK i \in DOMAIN s, j \in DOMAIN s : i < j /\ s[i] = x /\ s[j] = y
  BY DEF Before
<1>3. i - 1 \in DOMAIN t /\ j - 1 \in DOMAIN t /\ i - 1 < j - 1 /\ t[i - 1] = x /\ t[j - 1] = y
  BY <1>1, <1>2
<1>4. Before(t, x, y)
  BY <1>3 DEF Before
<1> QED
  BY <1>4 DEF t

LEMMA BeforeInJoined ==
    ASSUME NEW S, NEW s \in Seq(S), NEW t \in Seq(S), NEW x, NEW y
    PROVE  Before(s \o t, x, y) <=>
             Before(s, x, y) \/ Before(t, x, y) \/ (Occurs(x, s) /\ Occurs(y, t))
<1> DEFINE u == s \o t
<1>1. /\ Len(s) \in Nat /\ Len(t) \in Nat /\ DOMAIN s = 1..Len(s) /\ DOMAIN t = 1..Len(t)
      /\ DOMAIN u = 1..(Len(s) + Len(t))
      /\ \A i \in DOMAIN s : u[i] = s[i]
      /\ \A i \in DOMAIN t : u[Len(s) + i] = t[i]
      /\ \A i \in DOMAIN u : i \notin DOMAIN s => i - Len(s) \in DOMAIN t /\ u[i] = t[i - Len(s)]
  BY JoinedAt
<1> HIDE DEF u
<1>2. \A i \in DOMAIN s : i \in DOMAIN u
  BY <1>1
<1>3. \A i \in DOMAIN t : Len(s) + i \in DOMAIN u
  BY <1>1
<1>4. Before(s, x, y) => Before(u, x, y)
  BY <1>1, <1>2 DEF Before
<1>5. Before(t, x, y) => Before(u, x, y)
  <2> SUFFICES ASSUME NEW i \in DOMAIN t, NEW j \in DOMAIN t, i < j, t[i] = x, t[j] = y
               PROVE  Before(u, x, y)
    BY DEF Before
  <2>1. Len(s) + i < Len(s) + j
    BY <1>1
  <2> QED
    BY <2>1, <1>1, <1>3 DEF Before
<1>6. Occurs(x, s) /\ Occurs(y, t) => Before(u, x, y)
  <2> SUFFICES ASSUME NEW i \in DOMAIN s, NEW j \in DOMAIN t, s[i] = x, t[j] = y
               PROVE  Before(u, x, y)
    BY DEF Occurs
  <2>1. i < Len(s) + j
    BY <1>1
  <2> QED
    BY <2>1, <1>1, <1>2, <1>3 DEF Before
<1>7. ASSUME NEW i \in DOMAIN u, NEW j \in DOMAIN u, i < j, u[i] = x, u[j] = y
      PROVE  Before(s, x, y) \/ Before(t, x, y) \/ (Occurs(x, s) /\ Occurs(y, t))
  <2>1. CASE i \in DOMAIN s /\ j \in DOMAIN s
    BY <2>1, <1>1, <1>7 DEF Before
  <2>2. CASE i \in DOMAIN s /\ j \notin DOMAIN s
    BY <2>2, <1>1, <1>7 DEF Occurs
  <2>3. CASE i \notin DOMAIN s
    <3>1. j \notin DOMAIN s /\ i - Len(s) < j - Len(s)
      BY <2>3, <1>1, <1>7
    <3> QED
      BY <2>3, <3>1, <1>1, <1>7 DEF Before
  <2> QED
    BY <2>1, <2>2, <2>3
<1>8. Before(u, x, y) => Before(s, x, y) \/ Before(t, x, y) \/ (Occurs(x, s) /\ Occurs(y, t))
  BY <1>7 DEF Before
<1> QED
  BY <1>4, <1>5, <1>6, <1>8 DEF u
=============================================================================
