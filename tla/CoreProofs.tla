----------------------------- MODULE CoreProofs -----------------------------
(***************************************************************************)
(* Proofs about two parts of the core that stand alone.  Aggregate: the    *)
(* stream replays to what was decided, and a rollback takes back what the  *)
(* correlation has changed, whatever was applied and rolled back before.   *)
(* QueryBus: an answer and the caller that waits for it meet.              *)
(***************************************************************************)
EXTENDS Aggregate, QueryBus, SequenceLemmas, SequenceTheorems

-----------------------------------------------------------------------------
(* The folds of Aggregate step by step.  Each is a value with its type,    *)
(* for the empty sequence and for one event more.                          *)
Histories == Seq(Event)

ApplyStep == [x \in Int \X Event |-> ApplyTo(x[1], x[2])]

Keep(newest, e, c) == IF e.corr = c THEN <<e>> \o newest ELSE newest
KeepStep(c) == [x \in Histories \X Event |-> Keep(x[1], x[2], c)]

PassOver(others, e, c) == IF e.corr = c THEN others ELSE Append(others, e)
PassOverStep(c) == [x \in Histories \X Event |-> PassOver(x[1], x[2], c)]

(* The events that can be found in the history.                            *)
Findable == {e \in Event : \E i \in DOMAIN history : history[i].uuid = e.uuid}
Push(pushed, e) == pushed \o Earlier(e)
PushStep == [x \in Histories \X Findable |-> Push(x[1], x[2])]

LEMMA ApplyType ==
    ASSUME NEW x \in Int, NEW e \in Event
    PROVE  ApplyTo(x, e) \in Int /\ ApplyStep[<<x, e>>] = ApplyTo(x, e)
<1>1. ApplyTo(x, e) \in Int
  BY DEF ApplyTo, Event
<1> QED
  BY <1>1 DEF ApplyStep

LEMMA ApplyStepType == ApplyStep \in [Int \X Event -> Int]
<1>1. \A x \in Int \X Event : ApplyTo(x[1], x[2]) \in Int
  BY ApplyType
<1> QED
  BY <1>1 DEF ApplyStep

IsApplying(g, s, v) ==
    g = [S \in SUBSET DOMAIN s |-> IF S = {} THEN v ELSE ApplyTo(g[S \ {Max(S)}], s[Max(S)])]

LEMMA ApplyIsFold ==
    ASSUME NEW s, NEW v
    PROVE  ApplyAll(v, s) = (CHOOSE g : IsApplying(g, s, v))[DOMAIN s]
BY Zenon DEF ApplyAll, FoldLeft, MapThenFoldSet, IsApplying

LEMMA ApplySteps ==
    ASSUME NEW s \in Seq(Event), NEW v \in Int
    PROVE  \E f : Steps(f, Int, ApplyStep, v, s) /\ f[Len(s)] = ApplyAll(v, s)
<1>0. v \in Int
  OBVIOUS
<1>1. PICK g : FoldOver(g, Int, ApplyStep, v, s, Len(s))
  BY <1>0, ApplyStepType, FoldExists, Zenon
<1>2. DOMAIN s = 1..Len(s)
  OBVIOUS
<1>3. IsApplying(g, s, v)
  <2>1. ASSUME NEW S \in SUBSET DOMAIN s, S # {}
        PROVE  ApplyStep[<<g[S \ {Max(S)}], s[Max(S)]>>] = ApplyTo(g[S \ {Max(S)}], s[Max(S)])
    <3>1. Max(S) \in DOMAIN s
      BY <2>1, <1>2, MaxOfIndices, Len(s) \in Nat
    <3>2. s[Max(S)] \in Event
      BY <3>1
    <3>3. S \ {Max(S)} \in SUBSET (1..Len(s))
      BY <1>2
    <3>4. g[S \ {Max(S)}] \in Int
      BY <3>3, <1>1 DEF FoldOver
    <3> QED
      BY <3>2, <3>4, ApplyType
  <2> QED
    BY <1>1, <1>2, <2>1 DEF FoldOver, IsApplying
<1> DEFINE h == CHOOSE x : IsApplying(x, s, v)
<1>4. IsApplying(h, s, v)
  BY <1>3, Zenon
<1> HIDE DEF h
<1>5. h[{}] = v
  BY <1>4 DEF IsApplying
<1>6. ASSUME NEW k \in Nat, k < Len(s), h[1..k] \in Int
      PROVE  h[1..(k + 1)] = ApplyStep[<<h[1..k], s[k + 1]>>]
  <2>1. Max(1..(k + 1)) = k + 1 /\ (1..(k + 1)) \ {k + 1} = 1..k /\ 1..(k + 1) # {}
    BY Segments
  <2>2. 1..(k + 1) \in SUBSET DOMAIN s /\ s[k + 1] \in Event
    BY <1>6
  <2>3. h[1..(k + 1)] = ApplyTo(h[(1..(k + 1)) \ {Max(1..(k + 1))}], s[Max(1..(k + 1))])
    BY <1>4, <2>1, <2>2 DEF IsApplying
  <2>4. h[1..(k + 1)] = ApplyTo(h[1..k], s[k + 1])
    BY <2>1, <2>3
  <2> QED
    BY <2>4, <1>6, <2>2, ApplyType
<1>7. FoldsOnSegments(h, Int, Event, ApplyStep, v, s)
  BY <1>0, <1>5, <1>6, ApplyStepType DEF FoldsOnSegments
<1>8. h[1..Len(s)] = ApplyAll(v, s)
  BY ApplyIsFold, <1>2 DEF h
<1> QED
  BY <1>7, <1>8, FoldSteps

LEMMA ApplyGrows ==
    ASSUME NEW s \in Seq(Event), NEW v \in Int
    PROVE  /\ ApplyAll(v, s) \in Int /\ ApplyAll(v, <<>>) = v
           /\ \A e \in Event : ApplyAll(v, Append(s, e)) = ApplyTo(ApplyAll(v, s), e)
<1>1. PICK f : Steps(f, Int, ApplyStep, v, s) /\ f[Len(s)] = ApplyAll(v, s)
  BY ApplySteps
<1>2. ApplyAll(v, s) \in Int
  BY <1>1, Len(s) \in 0..Len(s) DEF Steps
<1>3. ApplyAll(v, <<>>) = v
  <2>1. <<>> \in Seq(Event) /\ Len(<<>>) = 0
    OBVIOUS
  <2>2. PICK g : Steps(g, Int, ApplyStep, v, <<>>) /\ g[Len(<<>>)] = ApplyAll(v, <<>>)
    BY <2>1, ApplySteps
  <2> QED
    BY <2>1, <2>2 DEF Steps
<1>4. ASSUME NEW e \in Event PROVE ApplyAll(v, Append(s, e)) = ApplyTo(ApplyAll(v, s), e)
  <2>1. Append(s, e) \in Seq(Event)
    OBVIOUS
  <2>2. PICK g : Steps(g, Int, ApplyStep, v, Append(s, e)) /\ g[Len(Append(s, e))] = ApplyAll(v, Append(s, e))
    BY <2>1, ApplySteps
  <2>3. g[Len(Append(s, e))] = ApplyStep[<<f[Len(s)], e>>]
    <3>1. StepsOn(f, g, Int, Event, ApplyStep, v, s, e)
      BY <1>1, <1>4, <2>2 DEF StepsOn
    <3> QED
      BY <3>1, StepsGrow
  <2>4. ApplyAll(v, Append(s, e)) = ApplyStep[<<ApplyAll(v, s), e>>]
    BY <1>1, <2>2, <2>3
  <2> QED
    BY <2>4, <1>2, ApplyType
<1> QED
  BY <1>2, <1>3, <1>4

LEMMA KeepType ==
    ASSUME NEW h \in Histories, NEW e \in Event, NEW c
    PROVE  Keep(h, e, c) \in Histories /\ KeepStep(c)[<<h, e>>] = Keep(h, e, c)
<1>1. Keep(h, e, c) \in Histories
  BY DEF Keep, Histories
<1> QED
  BY <1>1 DEF KeepStep

LEMMA KeepStepType == ASSUME NEW c PROVE KeepStep(c) \in [Histories \X Event -> Histories]
<1>1. \A x \in Histories \X Event : Keep(x[1], x[2], c) \in Histories
  BY KeepType
<1> QED
  BY <1>1 DEF KeepStep

IsKeeping(g, s, c) ==
    g = [S \in SUBSET DOMAIN s |-> IF S = {} THEN <<>> ELSE Keep(g[S \ {Max(S)}], s[Max(S)], c)]

LEMMA KeepIsFold ==
    ASSUME NEW s, NEW c
    PROVE  Correlated(s, c) = (CHOOSE g : IsKeeping(g, s, c))[DOMAIN s]
BY Zenon DEF Correlated, FoldLeft, MapThenFoldSet, IsKeeping, Keep

LEMMA KeepSteps ==
    ASSUME NEW s \in Seq(Event), NEW c
    PROVE  \E f : Steps(f, Histories, KeepStep(c), <<>>, s) /\ f[Len(s)] = Correlated(s, c)
<1>0. <<>> \in Histories
  BY DEF Histories
<1>1. PICK g : FoldOver(g, Histories, KeepStep(c), <<>>, s, Len(s))
  BY <1>0, KeepStepType, FoldExists, Zenon
<1>2. DOMAIN s = 1..Len(s)
  OBVIOUS
<1>3. IsKeeping(g, s, c)
  <2>1. ASSUME NEW S \in SUBSET DOMAIN s, S # {}
        PROVE  KeepStep(c)[<<g[S \ {Max(S)}], s[Max(S)]>>] = Keep(g[S \ {Max(S)}], s[Max(S)], c)
    <3>1. Max(S) \in DOMAIN s
      BY <2>1, <1>2, MaxOfIndices, Len(s) \in Nat
    <3>2. s[Max(S)] \in Event
      BY <3>1
    <3>3. S \ {Max(S)} \in SUBSET (1..Len(s))
      BY <1>2
    <3>4. g[S \ {Max(S)}] \in Histories
      BY <3>3, <1>1 DEF FoldOver
    <3> QED
      BY <3>2, <3>4, KeepType
  <2> QED
    BY <1>1, <1>2, <2>1 DEF FoldOver, IsKeeping
<1> DEFINE h == CHOOSE x : IsKeeping(x, s, c)
<1>4. IsKeeping(h, s, c)
  BY <1>3, Zenon
<1> HIDE DEF h
<1>5. h[{}] = <<>>
  BY <1>4 DEF IsKeeping
<1>6. ASSUME NEW k \in Nat, k < Len(s), h[1..k] \in Histories
      PROVE  h[1..(k + 1)] = KeepStep(c)[<<h[1..k], s[k + 1]>>]
  <2>1. Max(1..(k + 1)) = k + 1 /\ (1..(k + 1)) \ {k + 1} = 1..k /\ 1..(k + 1) # {}
    BY Segments
  <2>2. 1..(k + 1) \in SUBSET DOMAIN s /\ s[k + 1] \in Event
    BY <1>6
  <2>3. h[1..(k + 1)] = Keep(h[(1..(k + 1)) \ {Max(1..(k + 1))}], s[Max(1..(k + 1))], c)
    BY <1>4, <2>1, <2>2 DEF IsKeeping
  <2>4. h[1..(k + 1)] = Keep(h[1..k], s[k + 1], c)
    BY <2>1, <2>3
  <2> QED
    BY <2>4, <1>6, <2>2, KeepType
<1>7. FoldsOnSegments(h, Histories, Event, KeepStep(c), <<>>, s)
  BY <1>0, <1>5, <1>6, KeepStepType DEF FoldsOnSegments
<1>8. h[1..Len(s)] = Correlated(s, c)
  BY KeepIsFold, <1>2 DEF h
<1> QED
  BY <1>7, <1>8, FoldSteps

LEMMA KeepGrows ==
    ASSUME NEW s \in Seq(Event), NEW c
    PROVE  /\ Correlated(s, c) \in Histories /\ Correlated(<<>>, c) = <<>>
           /\ \A e \in Event : Correlated(Append(s, e), c) = Keep(Correlated(s, c), e, c)
<1>1. PICK f : Steps(f, Histories, KeepStep(c), <<>>, s) /\ f[Len(s)] = Correlated(s, c)
  BY KeepSteps
<1>2. Correlated(s, c) \in Histories
  BY <1>1, Len(s) \in 0..Len(s) DEF Steps
<1>3. Correlated(<<>>, c) = <<>>
  <2>1. <<>> \in Seq(Event) /\ Len(<<>>) = 0
    OBVIOUS
  <2>2. PICK g : Steps(g, Histories, KeepStep(c), <<>>, <<>>) /\ g[Len(<<>>)] = Correlated(<<>>, c)
    BY <2>1, KeepSteps
  <2> QED
    BY <2>1, <2>2 DEF Steps
<1>4. ASSUME NEW e \in Event PROVE Correlated(Append(s, e), c) = Keep(Correlated(s, c), e, c)
  <2>1. Append(s, e) \in Seq(Event)
    OBVIOUS
  <2>2. PICK g : Steps(g, Histories, KeepStep(c), <<>>, Append(s, e)) /\ g[Len(Append(s, e))] = Correlated(Append(s, e), c)
    BY <2>1, KeepSteps
  <2>3. g[Len(Append(s, e))] = KeepStep(c)[<<f[Len(s)], e>>]
    <3>1. StepsOn(f, g, Histories, Event, KeepStep(c), <<>>, s, e)
      BY <1>1, <1>4, <2>2 DEF StepsOn
    <3> QED
      BY <3>1, StepsGrow
  <2>4. Correlated(Append(s, e), c) = KeepStep(c)[<<Correlated(s, c), e>>]
    BY <1>1, <2>2, <2>3
  <2> QED
    BY <2>4, <1>2, KeepType
<1> QED
  BY <1>2, <1>3, <1>4

LEMMA PassOverType ==
    ASSUME NEW h \in Histories, NEW e \in Event, NEW c
    PROVE  PassOver(h, e, c) \in Histories /\ PassOverStep(c)[<<h, e>>] = PassOver(h, e, c)
<1>1. PassOver(h, e, c) \in Histories
  BY DEF PassOver, Histories
<1> QED
  BY <1>1 DEF PassOverStep

LEMMA PassOverStepType == ASSUME NEW c PROVE PassOverStep(c) \in [Histories \X Event -> Histories]
<1>1. \A x \in Histories \X Event : PassOver(x[1], x[2], c) \in Histories
  BY PassOverType
<1> QED
  BY <1>1 DEF PassOverStep

IsPassing(g, s, c) ==
    g = [S \in SUBSET DOMAIN s |-> IF S = {} THEN <<>> ELSE PassOver(g[S \ {Max(S)}], s[Max(S)], c)]

LEMMA PassOverIsFold ==
    ASSUME NEW s, NEW c
    PROVE  Others(s, c) = (CHOOSE g : IsPassing(g, s, c))[DOMAIN s]
BY Zenon DEF Others, FoldLeft, MapThenFoldSet, IsPassing, PassOver

LEMMA PassOverSteps ==
    ASSUME NEW s \in Seq(Event), NEW c
    PROVE  \E f : Steps(f, Histories, PassOverStep(c), <<>>, s) /\ f[Len(s)] = Others(s, c)
<1>0. <<>> \in Histories
  BY DEF Histories
<1>1. PICK g : FoldOver(g, Histories, PassOverStep(c), <<>>, s, Len(s))
  BY <1>0, PassOverStepType, FoldExists, Zenon
<1>2. DOMAIN s = 1..Len(s)
  OBVIOUS
<1>3. IsPassing(g, s, c)
  <2>1. ASSUME NEW S \in SUBSET DOMAIN s, S # {}
        PROVE  PassOverStep(c)[<<g[S \ {Max(S)}], s[Max(S)]>>] = PassOver(g[S \ {Max(S)}], s[Max(S)], c)
    <3>1. Max(S) \in DOMAIN s
      BY <2>1, <1>2, MaxOfIndices, Len(s) \in Nat
    <3>2. s[Max(S)] \in Event
      BY <3>1
    <3>3. S \ {Max(S)} \in SUBSET (1..Len(s))
      BY <1>2
    <3>4. g[S \ {Max(S)}] \in Histories
      BY <3>3, <1>1 DEF FoldOver
    <3> QED
      BY <3>2, <3>4, PassOverType
  <2> QED
    BY <1>1, <1>2, <2>1 DEF FoldOver, IsPassing
<1> DEFINE h == CHOOSE x : IsPassing(x, s, c)
<1>4. IsPassing(h, s, c)
  BY <1>3, Zenon
<1> HIDE DEF h
<1>5. h[{}] = <<>>
  BY <1>4 DEF IsPassing
<1>6. ASSUME NEW k \in Nat, k < Len(s), h[1..k] \in Histories
      PROVE  h[1..(k + 1)] = PassOverStep(c)[<<h[1..k], s[k + 1]>>]
  <2>1. Max(1..(k + 1)) = k + 1 /\ (1..(k + 1)) \ {k + 1} = 1..k /\ 1..(k + 1) # {}
    BY Segments
  <2>2. 1..(k + 1) \in SUBSET DOMAIN s /\ s[k + 1] \in Event
    BY <1>6
  <2>3. h[1..(k + 1)] = PassOver(h[(1..(k + 1)) \ {Max(1..(k + 1))}], s[Max(1..(k + 1))], c)
    BY <1>4, <2>1, <2>2 DEF IsPassing
  <2>4. h[1..(k + 1)] = PassOver(h[1..k], s[k + 1], c)
    BY <2>1, <2>3
  <2> QED
    BY <2>4, <1>6, <2>2, PassOverType
<1>7. FoldsOnSegments(h, Histories, Event, PassOverStep(c), <<>>, s)
  BY <1>0, <1>5, <1>6, PassOverStepType DEF FoldsOnSegments
<1>8. h[1..Len(s)] = Others(s, c)
  BY PassOverIsFold, <1>2 DEF h
<1> QED
  BY <1>7, <1>8, FoldSteps

LEMMA PassOverGrows ==
    ASSUME NEW s \in Seq(Event), NEW c
    PROVE  /\ Others(s, c) \in Histories /\ Others(<<>>, c) = <<>>
           /\ \A e \in Event : Others(Append(s, e), c) = PassOver(Others(s, c), e, c)
<1>1. PICK f : Steps(f, Histories, PassOverStep(c), <<>>, s) /\ f[Len(s)] = Others(s, c)
  BY PassOverSteps
<1>2. Others(s, c) \in Histories
  BY <1>1, Len(s) \in 0..Len(s) DEF Steps
<1>3. Others(<<>>, c) = <<>>
  <2>1. <<>> \in Seq(Event) /\ Len(<<>>) = 0
    OBVIOUS
  <2>2. PICK g : Steps(g, Histories, PassOverStep(c), <<>>, <<>>) /\ g[Len(<<>>)] = Others(<<>>, c)
    BY <2>1, PassOverSteps
  <2> QED
    BY <2>1, <2>2 DEF Steps
<1>4. ASSUME NEW e \in Event PROVE Others(Append(s, e), c) = PassOver(Others(s, c), e, c)
  <2>1. Append(s, e) \in Seq(Event)
    OBVIOUS
  <2>2. PICK g : Steps(g, Histories, PassOverStep(c), <<>>, Append(s, e)) /\ g[Len(Append(s, e))] = Others(Append(s, e), c)
    BY <2>1, PassOverSteps
  <2>3. g[Len(Append(s, e))] = PassOverStep(c)[<<f[Len(s)], e>>]
    <3>1. StepsOn(f, g, Histories, Event, PassOverStep(c), <<>>, s, e)
      BY <1>1, <1>4, <2>2 DEF StepsOn
    <3> QED
      BY <3>1, StepsGrow
  <2>4. Others(Append(s, e), c) = PassOverStep(c)[<<Others(s, c), e>>]
    BY <1>1, <2>2, <2>3
  <2> QED
    BY <2>4, <1>2, PassOverType
<1> QED
  BY <1>2, <1>3, <1>4

(* getAggregatePriorTo finds the event it is asked for, so that what comes *)
(* before it is a part of the history.                                     *)
LEMMA LeastIndex ==
    ASSUME NEW n \in Nat, NEW T \in SUBSET (1..n), T # {}
    PROVE  \E i \in T : \A j \in T : i <= j
<1>1. T \subseteq Nat
  OBVIOUS
<1>2. PICK i \in T : \A j \in T : ~(<<j, i>> \in OpToRel(<, Nat))
  BY <1>1, WFMin, NatLessThanWellFounded
<1>3. \A j \in T : ~(j < i)
  BY <1>1, <1>2 DEF OpToRel
<1> QED
  BY <1>1, <1>3

LEMMA PositionType ==
    ASSUME history \in Histories, NEW e \in Findable
    PROVE  Position(history, e) \in DOMAIN history
<1> DEFINE T == {i \in DOMAIN history : history[i].uuid = e.uuid}
<1>1. Len(history) \in Nat /\ DOMAIN history = 1..Len(history) /\ T \in SUBSET (1..Len(history)) /\ T # {}
  BY DEF Histories, Findable
<1>2. PICK i \in T : \A j \in T : i <= j
  BY <1>1, LeastIndex
<1>3. i \in DOMAIN history /\ history[i].uuid = e.uuid /\ \A j \in 1..(i - 1) : history[j].uuid # e.uuid
  <2>1. \A j \in 1..(i - 1) : j \in DOMAIN history /\ ~(i <= j)
    BY <1>1, <1>2
  <2> QED
    BY <1>2, <2>1
<1> QED
  BY <1>3 DEF Position

LEMMA EarlierType ==
    ASSUME history \in Histories, NEW e \in Findable
    PROVE  Earlier(e) \in Histories
<1>1. Position(history, e) \in 1..Len(history)
  BY PositionType DEF Histories
<1> DEFINE p == Position(history, e) - 1
<1>2. p \in 0..Len(history)
  BY <1>1 DEF Histories
<1> HIDE DEF p
<1>3. SubSeq(history, 1, p) \in Seq(Event)
  BY <1>2 DEF Histories
<1> QED
  BY <1>3 DEF Earlier, Histories, p

LEMMA PushType ==
    ASSUME history \in Histories, NEW h \in Histories, NEW e \in Findable
    PROVE  Push(h, e) \in Histories /\ PushStep[<<h, e>>] = Push(h, e)
<1>1. Push(h, e) \in Histories
  BY EarlierType DEF Push, Histories
<1> QED
  BY <1>1 DEF PushStep

LEMMA PushStepType == ASSUME history \in Histories PROVE PushStep \in [Histories \X Findable -> Histories]
<1>1. \A x \in Histories \X Findable : Push(x[1], x[2]) \in Histories
  BY PushType
<1> QED
  BY <1>1 DEF PushStep

IsPushing(g, s) ==
    g = [S \in SUBSET DOMAIN s |-> IF S = {} THEN <<>> ELSE Push(g[S \ {Max(S)}], s[Max(S)])]

LEMMA PushIsFold ==
    ASSUME NEW s, ~Additive
    PROVE  Pushed(s) = (CHOOSE g : IsPushing(g, s))[DOMAIN s]
BY Zenon DEF Pushed, FoldLeft, MapThenFoldSet, IsPushing, Push

LEMMA PushSteps ==
    ASSUME history \in Histories, NEW s \in Seq(Findable), ~Additive
    PROVE  \E f : Steps(f, Histories, PushStep, <<>>, s) /\ f[Len(s)] = Pushed(s)
<1>0. <<>> \in Histories
  BY DEF Histories
<1>1. PICK g : FoldOver(g, Histories, PushStep, <<>>, s, Len(s))
  BY <1>0, PushStepType, FoldExists, Zenon
<1>2. DOMAIN s = 1..Len(s)
  OBVIOUS
<1>3. IsPushing(g, s)
  <2>1. ASSUME NEW S \in SUBSET DOMAIN s, S # {}
        PROVE  PushStep[<<g[S \ {Max(S)}], s[Max(S)]>>] = Push(g[S \ {Max(S)}], s[Max(S)])
    <3>1. Max(S) \in DOMAIN s
      BY <2>1, <1>2, MaxOfIndices, Len(s) \in Nat
    <3>2. s[Max(S)] \in Findable
      BY <3>1
    <3>3. S \ {Max(S)} \in SUBSET (1..Len(s))
      BY <1>2
    <3>4. g[S \ {Max(S)}] \in Histories
      BY <3>3, <1>1 DEF FoldOver
    <3> QED
      BY <3>2, <3>4, PushType
  <2> QED
    BY <1>1, <1>2, <2>1 DEF FoldOver, IsPushing
<1> DEFINE h == CHOOSE x : IsPushing(x, s)
<1>4. IsPushing(h, s)
  BY <1>3, Zenon
<1> HIDE DEF h
<1>5. h[{}] = <<>>
  BY <1>4 DEF IsPushing
<1>6. ASSUME NEW k \in Nat, k < Len(s), h[1..k] \in Histories
      PROVE  h[1..(k + 1)] = PushStep[<<h[1..k], s[k + 1]>>]
  <2>1. Max(1..(k + 1)) = k + 1 /\ (1..(k + 1)) \ {k + 1} = 1..k /\ 1..(k + 1) # {}
    BY Segments
  <2>2. 1..(k + 1) \in SUBSET DOMAIN s /\ s[k + 1] \in Findable
    BY <1>6
  <2>3. h[1..(k + 1)] = Push(h[(1..(k + 1)) \ {Max(1..(k + 1))}], s[Max(1..(k + 1))])
    BY <1>4, <2>1, <2>2 DEF IsPushing
  <2>4. h[1..(k + 1)] = Push(h[1..k], s[k + 1])
    BY <2>1, <2>3
  <2> QED
    BY <2>4, <1>6, <2>2, PushType
<1>7. FoldsOnSegments(h, Histories, Findable, PushStep, <<>>, s)
  BY <1>0, <1>5, <1>6, PushStepType DEF FoldsOnSegments
<1>8. h[1..Len(s)] = Pushed(s)
  BY PushIsFold, <1>2 DEF h
<1> QED
  BY <1>7, <1>8, FoldSteps

LEMMA PushedType ==
    ASSUME history \in Histories, NEW s \in Seq(Findable)
    PROVE  Pushed(s) \in Histories
<1>1. CASE Additive
  <2>1. Pushed(s) = <<>>
    BY <1>1, Zenon DEF Pushed
  <2> QED
    BY <2>1 DEF Histories
<1>2. CASE ~Additive
  <2>1. PICK f : Steps(f, Histories, PushStep, <<>>, s) /\ f[Len(s)] = Pushed(s)
    BY <1>2, PushSteps
  <2> QED
    BY <2>1, Len(s) \in 0..Len(s) DEF Steps
<1> QED
  BY <1>1, <1>2

-----------------------------------------------------------------------------
(* What is selected for a rollback was in the history under the            *)
(* correlation.                                                            *)
LEMMA CorrelatedOccurs ==
    ASSUME NEW s \in Histories, NEW c, NEW e, Occurs(e, Correlated(s, c))
    PROVE  Occurs(e, s) /\ e.corr = c
<1> DEFINE P == {t \in Seq(Event) : \A d : Occurs(d, Correlated(t, c)) => Occurs(d, t) /\ d.corr = c}
<1>1. <<>> \in P
  <2>1. <<>> \in Seq(Event)
    OBVIOUS
  <2>2. Correlated(<<>>, c) = <<>>
    BY <2>1, KeepGrows
  <2> QED
    BY <2>1, <2>2, NothingOccurs
<1>2. ASSUME NEW t \in P, NEW x \in Event PROVE Append(t, x) \in P
  <2>1. t \in Seq(Event) /\ Append(t, x) \in Seq(Event) /\ Append(t, x) = t \o <<x>> /\ <<x>> \in Seq(Event)
    BY <1>2
  <2>2. Correlated(t, c) \in Seq(Event) /\ Correlated(Append(t, x), c) = Keep(Correlated(t, c), x, c)
    BY <1>2, <2>1, KeepGrows DEF Histories
  <2> SUFFICES ASSUME NEW d, Occurs(d, Keep(Correlated(t, c), x, c)) PROVE Occurs(d, Append(t, x)) /\ d.corr = c
    BY <2>1, <2>2
  <2>3. Occurs(d, Append(t, x)) <=> Occurs(d, t) \/ d = x
    <3>1. Occurs(d, t \o <<x>>) <=> Occurs(d, t) \/ Occurs(d, <<x>>)
      BY <2>1, OccursInJoined
    <3>2. Occurs(d, <<x>>) <=> d = x
      BY OccursInOne
    <3> QED
      BY <2>1, <3>1, <3>2
  <2>4. CASE x.corr = c
    <3>1. Occurs(d, <<x>> \o Correlated(t, c))
      BY <2>4 DEF Keep
    <3>2. d = x \/ Occurs(d, Correlated(t, c))
      BY <3>1, <2>1, <2>2, OccursInJoined, OccursInOne
    <3> QED
      BY <3>2, <2>3, <2>4, <1>2
  <2>5. CASE x.corr # c
    BY <2>3, <2>5, <1>2 DEF Keep
  <2> QED
    BY <2>4, <2>5
<1> HIDE DEF P
<1>3. P = Seq(Event)
  <2>1. P \in SUBSET Seq(Event)
    BY DEF P
  <2> QED
    BY <1>1, <1>2, <2>1, SequenceInduction
<1> QED
  BY <1>3 DEF P, Histories

LEMMA CorrelatedType ==
    ASSUME history \in Histories, NEW c
    PROVE  /\ Correlated(history, c) \in Seq(Findable) /\ Correlated(history, c) \in Seq(Event)
           /\ \A i \in DOMAIN Correlated(history, c) : Correlated(history, c)[i].corr = c
<1> DEFINE es == Correlated(history, c)
<1>1. es \in Seq(Event)
  BY KeepGrows DEF Histories
<1> HIDE DEF es
<1>2. \A i \in DOMAIN es : Occurs(es[i], es)
  BY DEF Occurs
<1>3. \A i \in DOMAIN es : Occurs(es[i], history) /\ es[i].corr = c
  BY <1>2, CorrelatedOccurs DEF es
<1>4. \A i \in DOMAIN es : es[i] \in Findable
  BY <1>1, <1>3 DEF Findable, Occurs
<1>5. es \in Seq(Findable)
  BY <1>1, <1>4
<1> QED
  BY <1>1, <1>3, <1>5 DEF es

-----------------------------------------------------------------------------
(* The number.  Histories that are joined are applied one after the other. *)
LEMMA ApplyJoined ==
    ASSUME NEW v \in Int, NEW s \in Histories, NEW t \in Histories
    PROVE  ApplyAll(v, s \o t) = ApplyAll(ApplyAll(v, s), t)
<1> DEFINE P == {u \in Seq(Event) : ApplyAll(v, s \o u) = ApplyAll(ApplyAll(v, s), u)}
<1>0. s \in Seq(Event) /\ ApplyAll(v, s) \in Int
  BY ApplyGrows DEF Histories
<1>1. <<>> \in P
  <2>1. <<>> \in Seq(Event) /\ s \o <<>> = s
    BY <1>0
  <2>2. ApplyAll(ApplyAll(v, s), <<>>) = ApplyAll(v, s)
    BY <1>0, ApplyGrows
  <2> QED
    BY <2>1, <2>2
<1>2. ASSUME NEW u \in P, NEW e \in Event PROVE Append(u, e) \in P
  <2>1. u \in Seq(Event) /\ Append(u, e) \in Seq(Event) /\ s \o u \in Seq(Event)
    BY <1>0, <1>2
  <2>2. s \o Append(u, e) = Append(s \o u, e)
    BY <1>0, <2>1, AppendProperties, ConcatAssociative
  <2>3. ApplyAll(v, Append(s \o u, e)) = ApplyTo(ApplyAll(v, s \o u), e)
    BY <1>2, <2>1, ApplyGrows
  <2>4. ApplyAll(ApplyAll(v, s), Append(u, e)) = ApplyTo(ApplyAll(ApplyAll(v, s), u), e)
    BY <1>0, <1>2, <2>1, ApplyGrows
  <2>5. ApplyAll(v, s \o u) = ApplyAll(ApplyAll(v, s), u)
    BY <1>2
  <2> QED
    BY <2>1, <2>2, <2>3, <2>4, <2>5
<1> HIDE DEF P
<1>3. P = Seq(Event)
  <2>1. P \in SUBSET Seq(Event)
    BY DEF P
  <2> QED
    BY <1>1, <1>2, <2>1, SequenceInduction
<1> QED
  BY <1>3 DEF P, Histories

LEMMA ReplayGrows ==
    ASSUME NEW s \in Seq(Event)
    PROVE  /\ Replay(s) \in Int /\ Replay(<<>>) = 0
           /\ \A e \in Event : Replay(Append(s, e)) = ApplyTo(Replay(s), e)
<1>1. 0 \in Int
  OBVIOUS
<1> QED
  BY <1>1, ApplyGrows DEF Replay

(* Where events add to the number, they can be counted in any order.       *)
Change(e) == IF e.type = "Deleted" THEN 0 ELSE e.data

LEMMA AddsChange ==
    ASSUME Additive, NEW v \in Int, NEW e \in Event
    PROVE  Change(e) \in Int /\ ApplyTo(v, e) = v + Change(e)
BY DEF ApplyTo, Change, Event

LEMMA ApplyFrom ==
    ASSUME Additive, NEW v \in Int, NEW s \in Histories
    PROVE  Replay(s) \in Int /\ ApplyAll(v, s) = v + Replay(s)
<1> DEFINE P == {u \in Seq(Event) : ApplyAll(v, u) = v + Replay(u)}
<1>0. \A u \in Seq(Event) : Replay(u) \in Int /\ ApplyAll(v, u) \in Int
  BY ApplyGrows, ReplayGrows
<1>1. <<>> \in P
  <2>1. <<>> \in Seq(Event)
    OBVIOUS
  <2>2. ApplyAll(v, <<>>) = v /\ Replay(<<>>) = 0
    BY <2>1, ApplyGrows, ReplayGrows
  <2> QED
    BY <2>1, <2>2
<1>2. ASSUME NEW u \in P, NEW e \in Event PROVE Append(u, e) \in P
  <2>1. u \in Seq(Event) /\ Append(u, e) \in Seq(Event) /\ ApplyAll(v, u) = v + Replay(u)
    BY <1>2
  <2>2. ApplyAll(v, Append(u, e)) = ApplyTo(ApplyAll(v, u), e) /\ Replay(Append(u, e)) = ApplyTo(Replay(u), e)
    BY <1>2, <2>1, ApplyGrows, ReplayGrows
  <2>3. ApplyAll(v, Append(u, e)) = ApplyAll(v, u) + Change(e) /\ Replay(Append(u, e)) = Replay(u) + Change(e)
    BY <1>0, <1>2, <2>1, <2>2, AddsChange
  <2>4. Change(e) \in Int /\ Replay(u) \in Int
    BY <1>0, <1>2, <2>1, AddsChange
  <2> QED
    BY <2>1, <2>3, <2>4
<1> HIDE DEF P
<1>3. P = Seq(Event)
  <2>1. P \in SUBSET Seq(Event)
    BY DEF P
  <2> QED
    BY <1>1, <1>2, <2>1, SequenceInduction
<1> QED
  BY <1>0, <1>3 DEF P, Histories

LEMMA ReplayJoined ==
    ASSUME Additive, NEW s \in Histories, NEW t \in Histories
    PROVE  /\ Replay(s \o t) = Replay(s) + Replay(t)
           /\ Replay(s) \in Int /\ Replay(t) \in Int
<1>1. Replay(s \o t) = ApplyAll(Replay(s), t)
  BY ApplyJoined DEF Replay
<1>2. Replay(s) \in Int /\ Replay(t) \in Int
  BY ReplayGrows DEF Histories
<1> QED
  BY <1>1, <1>2, ApplyFrom

LEMMA ReplayOne ==
    ASSUME Additive, NEW e \in Event
    PROVE  Replay(<<e>>) = Change(e) /\ Change(e) \in Int
<1>1. <<>> \in Seq(Event) /\ Append(<<>>, e) = <<e>>
  OBVIOUS
<1>2. Replay(<<e>>) = ApplyTo(0, e)
  BY <1>1, ReplayGrows
<1>3. 0 \in Int
  OBVIOUS
<1> QED
  BY <1>2, <1>3, AddsChange

LEMMA ReplayAppend ==
    ASSUME Additive, NEW s \in Histories, NEW e \in Event
    PROVE  /\ Append(s, e) \in Histories /\ Replay(s) \in Int /\ Change(e) \in Int
           /\ Replay(Append(s, e)) = Replay(s) + Change(e)
<1>1. s \in Seq(Event) /\ Append(s, e) \in Seq(Event)
  BY DEF Histories
<1>2. Replay(s) \in Int /\ Replay(Append(s, e)) = ApplyTo(Replay(s), e)
  BY <1>1, ReplayGrows
<1> QED
  BY <1>1, <1>2, AddsChange DEF Histories

(* Histories whose events change the number alike, or by the opposite,     *)
(* replay alike, or to the opposite.                                       *)
Opposite(s, t, sign) ==
    /\ s \in Histories /\ t \in Histories /\ Len(s) = Len(t)
    /\ \A i \in 1..Len(s) : Change(t[i]) = IF sign THEN Change(s[i]) ELSE -Change(s[i])

LEMMA OppositeBefore ==
    ASSUME NEW u \in Histories, NEW e \in Event, NEW t, NEW sign, Opposite(Append(u, e), t, sign)
    PROVE  \E r \in Histories, d \in Event : /\ t = Append(r, d) /\ Opposite(u, r, sign)
                                            /\ Change(d) = IF sign THEN Change(e) ELSE -Change(e)
<1>1. u \in Seq(Event) /\ t \in Seq(Event) /\ Len(t) = Len(u) + 1
  BY DEF Opposite, Histories
<1>2. PICK r \in Seq(Event), d \in Event : t = Append(r, d)
  <2>1. t # <<>>
    BY <1>1
  <2> QED
    BY <1>1, <2>1, SequenceEmptyOrAppend
<1>3. Len(r) = Len(u) /\ t[Len(u) + 1] = d /\ \A i \in 1..Len(u) : t[i] = r[i]
  BY <1>1, <1>2
<1>4. Append(u, e)[Len(u) + 1] = e /\ Len(Append(u, e)) = Len(u) + 1 /\ \A i \in 1..Len(u) : Append(u, e)[i] = u[i]
  BY <1>1
<1> DEFINE a == Append(u, e)
<1>5. Opposite(a, t, sign) /\ a[Len(u) + 1] = e /\ Len(a) = Len(u) + 1 /\ \A i \in 1..Len(u) : a[i] = u[i]
  BY <1>4
<1> HIDE DEF a
<1>6. Len(u) \in Nat /\ Len(u) + 1 \in 1..Len(a) /\ \A i \in 1..Len(u) : i \in 1..Len(a)
  BY <1>1, <1>5
<1>7. Change(d) = IF sign THEN Change(e) ELSE -Change(e)
  BY <1>3, <1>5, <1>6 DEF Opposite
<1>8. \A i \in 1..Len(u) : Change(r[i]) = IF sign THEN Change(u[i]) ELSE -Change(u[i])
  BY <1>3, <1>5, <1>6 DEF Opposite
<1>9. Opposite(u, r, sign)
  BY <1>2, <1>3, <1>8 DEF Opposite, Histories
<1> QED
  BY <1>2, <1>7, <1>9 DEF Histories

LEMMA OppositeReplay ==
    ASSUME Additive, NEW s, NEW t, NEW sign, Opposite(s, t, sign)
    PROVE  Replay(t) = IF sign THEN Replay(s) ELSE -Replay(s)
<1> DEFINE P == {u \in Seq(Event) : \A r \in Seq(Event) :
                    Opposite(u, r, sign) => Replay(r) = IF sign THEN Replay(u) ELSE -Replay(u)}
<1>1. <<>> \in P
  <2>1. <<>> \in Seq(Event)
    OBVIOUS
  <2>2. ASSUME NEW r \in Seq(Event), Opposite(<<>>, r, sign) PROVE r = <<>>
    BY <2>2 DEF Opposite
  <2>3. Replay(<<>>) = 0
    BY <2>1, ReplayGrows
  <2> QED
    BY <2>1, <2>2, <2>3
<1>2. ASSUME NEW u \in P, NEW e \in Event PROVE Append(u, e) \in P
  <2>1. u \in Histories /\ Append(u, e) \in Seq(Event)
    BY <1>2 DEF Histories
  <2>2. ASSUME NEW r \in Seq(Event), Opposite(Append(u, e), r, sign)
        PROVE  Replay(r) = IF sign THEN Replay(Append(u, e)) ELSE -Replay(Append(u, e))
    <3>1. PICK q \in Histories, d \in Event : /\ r = Append(q, d) /\ Opposite(u, q, sign)
                                             /\ Change(d) = IF sign THEN Change(e) ELSE -Change(e)
      BY <1>2, <2>1, <2>2, OppositeBefore
    <3>2. Replay(q) = IF sign THEN Replay(u) ELSE -Replay(u)
      BY <1>2, <3>1 DEF Histories
    <3>3. Replay(u) \in Int /\ Change(e) \in Int /\ Replay(Append(u, e)) = Replay(u) + Change(e)
      BY <1>2, <2>1, ReplayAppend
    <3>4. Replay(q) \in Int /\ Change(d) \in Int /\ Replay(r) = Replay(q) + Change(d)
      BY <3>1, ReplayAppend
    <3>5. CASE sign
      BY <3>1, <3>2, <3>3, <3>4, <3>5
    <3>6. CASE ~sign
      BY <3>1, <3>2, <3>3, <3>4, <3>6
    <3> QED
      BY <3>5, <3>6
  <2> QED
    BY <2>1, <2>2
<1> HIDE DEF P
<1>3. P = Seq(Event)
  <2>1. P \in SUBSET Seq(Event)
    BY DEF P
  <2> QED
    BY <1>1, <1>2, <2>1, SequenceInduction
<1>4. s \in P /\ t \in Seq(Event)
  BY <1>3 DEF Opposite, Histories
<1> QED
  BY <1>4 DEF P

(* What a history comes to is what a correlation has changed and what the  *)
(* others have.                                                            *)
LEMMA ReplayParts ==
    ASSUME Additive, NEW s \in Histories, NEW c
    PROVE  Replay(s) = Replay(Correlated(s, c)) + Replay(Others(s, c))
<1> DEFINE P == {u \in Seq(Event) : Replay(u) = Replay(Correlated(u, c)) + Replay(Others(u, c))}
<1>1. <<>> \in P
  <2>1. <<>> \in Seq(Event)
    OBVIOUS
  <2>2. Correlated(<<>>, c) = <<>> /\ Others(<<>>, c) = <<>>
    BY <2>1, KeepGrows, PassOverGrows
  <2>3. Replay(<<>>) = 0
    BY <2>1, ReplayGrows
  <2> QED
    BY <2>1, <2>2, <2>3
<1>2. ASSUME NEW u \in P, NEW e \in Event PROVE Append(u, e) \in P
  <2>1. u \in Seq(Event) /\ u \in Histories /\ Append(u, e) \in Seq(Event) /\ <<e>> \in Histories
    BY <1>2 DEF Histories
  <2> DEFINE k == Correlated(u, c)
             o == Others(u, c)
  <2>2. k \in Histories /\ Correlated(Append(u, e), c) = Keep(k, e, c)
    BY <1>2, <2>1, KeepGrows
  <2>3. o \in Histories /\ Others(Append(u, e), c) = PassOver(o, e, c)
    BY <1>2, <2>1, PassOverGrows
  <2>4. Replay(u) = Replay(k) + Replay(o)
    BY <1>2
  <2>5. Replay(Append(u, e)) = Replay(u) + Change(e) /\ Replay(u) \in Int /\ Change(e) \in Int
    BY <1>2, <2>1, ReplayAppend
  <2> HIDE DEF k, o
  <2>6. CASE e.corr = c
    <3>1. Replay(<<e>> \o k) = Change(e) + Replay(k) /\ Replay(k) \in Int
      BY <1>2, <2>1, <2>2, ReplayJoined, ReplayOne
    <3>2. Correlated(Append(u, e), c) = <<e>> \o k /\ Others(Append(u, e), c) = o
      BY <2>2, <2>3, <2>6 DEF Keep, PassOver
    <3>3. Replay(o) \in Int
      BY <2>3, ReplayGrows DEF Histories
    <3>4. Replay(Append(u, e)) = Replay(Correlated(Append(u, e), c)) + Replay(Others(Append(u, e), c))
      BY <2>4, <2>5, <3>1, <3>2, <3>3
    <3> QED
      BY <2>1, <3>4
  <2>7. CASE e.corr # c
    <3>1. Replay(Append(o, e)) = Replay(o) + Change(e) /\ Replay(o) \in Int
      BY <1>2, <2>3, ReplayAppend
    <3>2. Correlated(Append(u, e), c) = k /\ Others(Append(u, e), c) = Append(o, e)
      BY <2>2, <2>3, <2>7 DEF Keep, PassOver
    <3>3. Replay(k) \in Int
      BY <2>2, ReplayGrows DEF Histories
    <3>4. Replay(Append(u, e)) = Replay(Correlated(Append(u, e), c)) + Replay(Others(Append(u, e), c))
      BY <2>4, <2>5, <3>1, <3>2, <3>3
    <3> QED
      BY <2>1, <3>4
  <2> QED
    BY <2>6, <2>7
<1> HIDE DEF P
<1>3. P = Seq(Event)
  <2>1. P \in SUBSET Seq(Event)
    BY DEF P
  <2> QED
    BY <1>1, <1>2, <2>1, SequenceInduction
<1> QED
  BY <1>3 DEF P, Histories

-----------------------------------------------------------------------------
(* What the actions put into the history.                                  *)
LEMMA NewEventType ==
    ASSUME TypeOK, NEW type \in Types, NEW data \in Int
    PROVE  NewEvent(type, data) \in Event
BY DEF TypeOK, NewEvent, Event

LEMMA AttributedAt ==
    ASSUME NEW es \in Histories, NEW c \in Correlations
    PROVE  /\ Attributed(es, c) \in Histories /\ Len(Attributed(es, c)) = Len(es)
           /\ \A i \in 1..Len(es) :
                 /\ Attributed(es, c)[i].corr \in Correlations
                 /\ Attributed(es, c)[i].uuid = es[i].uuid
                 /\ Change(Attributed(es, c)[i]) = Change(es[i])
<1>1. es \in Seq(Event) /\ Len(es) \in Nat /\ DOMAIN es = 1..Len(es)
  BY DEF Histories
<1> DEFINE a == Attributed(es, c)
<1>2. a = [i \in 1..Len(es) |-> IF es[i].corr = NoCorrelation THEN [es[i] EXCEPT !.corr = c] ELSE es[i]]
  BY <1>1 DEF Attributed
<1>3. ASSUME NEW e \in Event
      PROVE  LET d == IF e.corr = NoCorrelation THEN [e EXCEPT !.corr = c] ELSE e
             IN  /\ d \in Event /\ d.corr \in Correlations
                 /\ d.uuid = e.uuid /\ d.type = e.type /\ d.data = e.data
  BY DEF Event
<1> HIDE DEF a
<1>4. \A i \in 1..Len(es) : /\ a[i] \in Event /\ a[i].corr \in Correlations
                            /\ a[i].uuid = es[i].uuid /\ a[i].type = es[i].type /\ a[i].data = es[i].data
  <2> SUFFICES ASSUME NEW i \in 1..Len(es)
               PROVE  /\ a[i] \in Event /\ a[i].corr \in Correlations
                      /\ a[i].uuid = es[i].uuid /\ a[i].type = es[i].type /\ a[i].data = es[i].data
    OBVIOUS
  <2>1. es[i] \in Event
    BY <1>1
  <2>2. a[i] = IF es[i].corr = NoCorrelation THEN [es[i] EXCEPT !.corr = c] ELSE es[i]
    BY <1>2
  <2> QED
    BY <2>1, <2>2, <1>3
<1>5. a \in Seq(Event) /\ Len(a) = Len(es)
  BY <1>1, <1>2, <1>4
<1>6. \A i \in 1..Len(es) : Change(a[i]) = Change(es[i])
  BY <1>4 DEF Change
<1> QED
  BY <1>4, <1>5, <1>6 DEF a, Histories

(* A commit changes no more of the history than the correlations.          *)
AfterCommit(c) == SubSeq(history, 1, committed) \o Attributed(Uncommitted, c)

LEMMA CommitAt ==
    ASSUME TypeOK, NEW c \in Correlations
    PROVE  /\ AfterCommit(c) \in Histories /\ Len(AfterCommit(c)) = Len(history)
           /\ Attributed(Uncommitted, c) \in Histories
           /\ \A i \in 1..Len(history) :
                 /\ AfterCommit(c)[i].uuid = history[i].uuid
                 /\ Change(AfterCommit(c)[i]) = Change(history[i])
           /\ \A i \in DOMAIN Attributed(Uncommitted, c) : Attributed(Uncommitted, c)[i].corr \in Correlations
<1>1. history \in Seq(Event) /\ committed \in 0..Len(history) /\ Len(history) \in Nat /\ committed \in Nat
  BY DEF TypeOK
<1> DEFINE s == SubSeq(history, 1, committed)
           u == Uncommitted
           a == Attributed(u, c)
<1>2. s \in Seq(Event) /\ Len(s) = committed /\ \A i \in 1..committed : s[i] = history[i]
  BY <1>1
<1>3. u \in Seq(Event) /\ Len(u) = Len(history) - committed /\ \A i \in 1..Len(u) : u[i] = history[committed + i]
  BY <1>1 DEF Uncommitted
<1> HIDE DEF s, u
<1>4. /\ a \in Seq(Event) /\ Len(a) = Len(u)
      /\ \A i \in 1..Len(u) : /\ a[i].corr \in Correlations /\ a[i].uuid = u[i].uuid
                              /\ Change(a[i]) = Change(u[i])
  BY <1>3, AttributedAt DEF Histories
<1> HIDE DEF a
<1>5. s \o a \in Seq(Event) /\ Len(s \o a) = Len(history)
  <2>1. s \o a \in Seq(Event) /\ Len(s \o a) = Len(s) + Len(a)
    BY <1>2, <1>4, ConcatProperties
  <2>2. Len(s) + Len(a) = Len(history)
    BY <1>1, <1>2, <1>3, <1>4
  <2> QED
    BY <2>1, <2>2
<1>6. ASSUME NEW i \in 1..Len(history)
      PROVE  (s \o a)[i].uuid = history[i].uuid /\ Change((s \o a)[i]) = Change(history[i])
  <2>1. CASE i <= committed
    <3>1. (s \o a)[i] = history[i]
      BY <1>1, <1>2, <1>4, <1>6, <2>1
    <3> QED
      BY <3>1
  <2>2. CASE ~(i <= committed)
    <3>1. i - committed \in 1..Len(u) /\ committed + (i - committed) = i
      BY <1>1, <1>3, <1>6, <2>2
    <3>2. (s \o a)[i] = a[i - committed]
      BY <1>1, <1>2, <1>3, <1>4, <1>6, <2>2
    <3>3. u[i - committed] = history[i]
      BY <1>3, <3>1
    <3> QED
      BY <1>4, <3>1, <3>2, <3>3
  <2> QED
    BY <2>1, <2>2
<1>7. DOMAIN a = 1..Len(u)
  BY <1>4
<1> QED
  BY <1>4, <1>5, <1>6, <1>7 DEF AfterCommit, Histories, s, u, a

(* What rollback(c) applies: the opposite of what was applied under c.     *)
RollbackEvents(c) ==
    LET es == Correlated(history, c) IN [i \in DOMAIN es |-> RollbackEvent(es[i], i, c)]

LEMMA RollbackEventsAt ==
    ASSUME TypeOK, NEW c \in Correlations
    PROVE  /\ RollbackEvents(c) \in Histories
           /\ Len(RollbackEvents(c)) = Len(Correlated(history, c))
           /\ \A i \in 1..Len(RollbackEvents(c)) : RollbackEvents(c)[i].uuid = created + i
           /\ Additive => Opposite(Correlated(history, c), RollbackEvents(c), FALSE)
<1> DEFINE es == Correlated(history, c)
           new == RollbackEvents(c)
<1>0. history \in Histories /\ created \in Nat /\ value \in Int
  BY DEF TypeOK, Histories
<1>1. es \in Seq(Findable) /\ es \in Seq(Event)
  BY <1>0, CorrelatedType
<1>2. Len(es) \in Nat /\ DOMAIN es = 1..Len(es)
  BY <1>1
<1>3. new = [i \in 1..Len(es) |-> RollbackEvent(es[i], i, c)]
  BY <1>2 DEF RollbackEvents
<1>4. ASSUME NEW i \in 1..Len(es)
      PROVE  /\ RollbackEvent(es[i], i, c) \in Event /\ RollbackEvent(es[i], i, c).uuid = created + i
             /\ Additive => Change(RollbackEvent(es[i], i, c)) = -Change(es[i])
  <2>1. es[i] \in Findable /\ es[i] \in Event /\ i \in Nat
    BY <1>1, <1>2
  <2>2. Earlier(es[i]) \in Seq(Event)
    BY <1>0, <2>1, EarlierType DEF Histories
  <2>3. NumberPriorTo(es[i]) \in Int
    BY <1>0, <2>2, ApplyGrows DEF NumberPriorTo
  <2> DEFINE e == es[i]
             data == IF e.type = "Deleted" THEN 0 ELSE IF Additive THEN -e.data ELSE NumberPriorTo(e)
             d == RollbackEvent(e, i, c)
  <2>4. d = [uuid |-> created + i, type |-> "Rollback", corr |-> c, data |-> data]
    BY DEF RollbackEvent
  <2>5. data \in Int
    BY <2>1, <2>3 DEF Event
  <2>6. Additive => data = -Change(e)
    BY <2>1 DEF Change, Event
  <2> HIDE DEF e, data
  <2>7. d \in Event /\ d.uuid = created + i /\ d.type = "Rollback" /\ d.data = data
    BY <1>0, <2>1, <2>4, <2>5 DEF Event, Types
  <2>8. Change(d) = data
    BY <2>7 DEF Change
  <2> QED
    BY <2>6, <2>7, <2>8 DEF e
<1> HIDE DEF es, new
<1>5. \A i \in 1..Len(es) : new[i] = RollbackEvent(es[i], i, c)
  BY <1>3
<1>6. new \in Seq(Event) /\ Len(new) = Len(es)
  BY <1>2, <1>3, <1>4
<1>7. Additive => Opposite(es, new, FALSE)
  BY <1>1, <1>4, <1>5, <1>6 DEF Opposite, Histories
<1> QED
  BY <1>4, <1>5, <1>6, <1>7 DEF es, new, Histories

-----------------------------------------------------------------------------
(* The type invariant, by one lemma per action.                            *)
LEMMA MergeType == ASSUME TypeOK, MergeContext PROVE TypeOK'
<1>1. Replay(store) \in Int
  BY ReplayGrows DEF TypeOK
<1> QED
  BY <1>1, BoundsAssumption DEF TypeOK, MergeContext

LEMMA ApplyingType ==
    ASSUME TypeOK, NEW type \in Types, NEW data \in Int, Apply(type, data)
    PROVE  TypeOK'
<1>1. NewEvent(type, data) \in Event
  BY NewEventType
<1>2. ApplyTo(value, NewEvent(type, data)) \in Int
  BY <1>1, ApplyType DEF TypeOK
<1>3. history' \in Seq(Event) /\ Len(history') = Len(history) + 1
  BY <1>1 DEF TypeOK, Apply
<1>4. created' \in 0..MaxEvents
  BY BoundsAssumption DEF TypeOK, Apply
<1> QED
  BY <1>2, <1>3, <1>4 DEF TypeOK, Apply

LEMMA CommitStep ==
    ASSUME NEW c, Commit(c)
    PROVE  /\ commits < MaxCommits /\ commits' = commits + 1 /\ history' = AfterCommit(c)
           /\ store' = store \o Attributed(Uncommitted, c)
           /\ UNCHANGED <<created, committed, value, deleted>>
BY Zenon DEF Commit, InUse, AfterCommit

LEMMA CommitType == ASSUME TypeOK, NEW c \in Correlations, Commit(c) PROVE TypeOK'
<1>1. history' \in Seq(Event) /\ Len(history') = Len(history) /\ Attributed(Uncommitted, c) \in Seq(Event)
  BY CommitStep, CommitAt DEF Histories
<1>2. store' \in Seq(Event)
  <2>1. store \in Seq(Event) /\ store' = store \o Attributed(Uncommitted, c)
    BY CommitStep DEF TypeOK
  <2> QED
    BY <1>1, <2>1, ConcatProperties
<1>3. commits' \in 0..MaxCommits
  BY CommitStep, BoundsAssumption DEF TypeOK
<1> QED
  BY <1>1, <1>2, <1>3, CommitStep DEF TypeOK

LEMMA RollbackStep ==
    ASSUME NEW c, Rollback(c)
    PROVE  /\ commits < MaxCommits
           /\ created + Len(Correlated(history, c)) <= MaxEvents
           /\ created' = created + Len(Correlated(history, c))
           /\ history' = history \o Pushed(Correlated(history, c)) \o RollbackEvents(c)
           /\ value' = ApplyAll(value, RollbackEvents(c))
           /\ UNCHANGED <<store, committed, deleted, commits>>
BY Zenon DEF Rollback, InUse, RollbackEvents

LEMMA RollbackType == ASSUME TypeOK, NEW c \in Correlations, Rollback(c) PROVE TypeOK'
<1>1. history \in Histories /\ value \in Int
  BY DEF TypeOK, Histories
<1>2. Pushed(Correlated(history, c)) \in Seq(Event)
  BY <1>1, CorrelatedType, PushedType DEF Histories
<1>3. RollbackEvents(c) \in Seq(Event) /\ Len(Correlated(history, c)) \in Nat
  <2>1. RollbackEvents(c) \in Seq(Event)
    BY RollbackEventsAt DEF Histories
  <2>2. Correlated(history, c) \in Seq(Event)
    BY <1>1, CorrelatedType
  <2>3. Len(Correlated(history, c)) \in Nat
    BY <2>2, LenProperties
  <2> QED
    BY <2>1, <2>3
<1>4. history' \in Seq(Event) /\ Len(history') >= Len(history)
  <2> DEFINE p == Pushed(Correlated(history, c))
             r == RollbackEvents(c)
  <2>1. history' = history \o p \o r
    BY RollbackStep
  <2>2. history \in Seq(Event) /\ p \in Seq(Event) /\ r \in Seq(Event)
    BY <1>1, <1>2, <1>3 DEF Histories
  <2> HIDE DEF p, r
  <2>3. history \o p \in Seq(Event) /\ Len(history \o p) = Len(history) + Len(p)
    BY <2>2, ConcatProperties
  <2>4. (history \o p) \o r \in Seq(Event) /\ Len((history \o p) \o r) = Len(history \o p) + Len(r)
    BY <2>2, <2>3, ConcatProperties
  <2>5. Len(history) \in Nat /\ Len(p) \in Nat /\ Len(r) \in Nat
    BY <2>2, LenProperties
  <2> QED
    BY <2>1, <2>3, <2>4, <2>5
<1>5. value' \in Int
  BY <1>1, <1>3, RollbackStep, ApplyGrows
<1>6. created' \in 0..MaxEvents
  BY <1>3, RollbackStep, BoundsAssumption DEF TypeOK
<1>7. committed' \in 0..Len(history')
  BY <1>4, RollbackStep DEF TypeOK
<1> QED
  BY <1>4, <1>5, <1>6, <1>7, RollbackStep DEF TypeOK

LEMMA ThrowsStep ==
    ASSUME TypeOK, NEW c \in Correlations, RollbackThrows(c)
    PROVE  /\ \E seen \in Seq(Findable) : history' = history \o Pushed(seen)
           /\ UNCHANGED <<store, created, committed, value, deleted, commits>>
<1> DEFINE es == Correlated(history, c)
           I == {i \in 1..Len(es) : es[i].type = "Rollback"}
           k == IF I # {} THEN Min(I) ELSE 0
           seen == IF k = 0 THEN es ELSE SubSeq(es, 1, k - 1)
<1>1. history' = history \o Pushed(seen) /\ UNCHANGED <<store, created, committed, value, deleted, commits>>
  BY Zenon DEF RollbackThrows, SelectInSeq
<1>2. es \in Seq(Findable)
  BY CorrelatedType DEF TypeOK, Histories
<1> HIDE DEF es
<1>3. k \in 0..Len(es)
  <2>1. CASE I # {}
    <3>1. Len(es) \in Nat /\ I \in SUBSET (1..Len(es))
      BY <1>2
    <3>2. \E i \in I : \A j \in I : i <= j
      BY <2>1, <3>1, LeastIndex
    <3>3. Min(I) \in I
      BY <3>2 DEF Min
    <3> QED
      BY <2>1, <3>1, <3>3
  <2>2. CASE I = {}
    BY <1>2, <2>2
  <2> QED
    BY <2>1, <2>2
<1> HIDE DEF k
<1>4. seen \in Seq(Findable)
  BY <1>2, <1>3
<1> QED
  BY <1>1, <1>4

LEMMA ThrowsType == ASSUME TypeOK, NEW c \in Correlations, RollbackThrows(c) PROVE TypeOK'
<1>1. PICK seen \in Seq(Findable) : history' = history \o Pushed(seen)
  BY ThrowsStep
<1>2. Pushed(seen) \in Seq(Event)
  BY PushedType DEF TypeOK, Histories
<1>3. history' \in Seq(Event) /\ Len(history') >= Len(history)
  BY <1>1, <1>2 DEF TypeOK
<1>4. committed' \in 0..Len(history')
  BY <1>3, ThrowsStep DEF TypeOK
<1> QED
  BY <1>3, <1>4, ThrowsStep DEF TypeOK

LEMMA NextIsOneOf ==
    ASSUME Next
    PROVE  \/ MergeContext
           \/ \E type \in Types, data \in Int : Apply(type, data)
           \/ \E c \in Correlations : Commit(c) \/ Rollback(c) \/ RollbackThrows(c)
BY DEF Next, Types

LEMMA TypeStays == ASSUME TypeOK, [Next]_vars PROVE TypeOK'
<1>1. CASE Next
  BY <1>1, NextIsOneOf, MergeType, ApplyingType, CommitType, RollbackType, ThrowsType
<1>2. CASE UNCHANGED vars
  BY <1>2 DEF vars, TypeOK
<1> QED
  BY <1>1, <1>2

LEMMA TypeAtFirst == Init => TypeOK
<1>1. <<>> \in Seq(Event) /\ Len(<<>>) = 0
  OBVIOUS
<1>2. 0 \in 0..MaxEvents /\ 0 \in 0..MaxCommits /\ 0 \in 0..0
  BY BoundsAssumption
<1> SUFFICES ASSUME Init PROVE TypeOK
  OBVIOUS
<1>3. store \in Seq(Event) /\ history \in Seq(Event) /\ committed \in 0..Len(history)
  BY <1>1, <1>2 DEF Init
<1>4. created \in 0..MaxEvents /\ commits \in 0..MaxCommits /\ value \in Int
  <2>1. created = 0 /\ commits = 0 /\ value = 0
    BY Zenon DEF Init
  <2> QED
    BY <1>2, <2>1
<1>5. deleted \in BOOLEAN
  BY Zenon DEF Init
<1> QED
  BY <1>3, <1>4, <1>5 DEF TypeOK

(* Every variable keeps its type, for any aggregate and however many       *)
(* commits a handler makes: in particular the events that                  *)
(* getAggregatePriorTo pushes are events, and those already committed are  *)
(* a part of the history.                                                  *)
THEOREM TypeCorrect == Spec => []TypeOK
BY TypeAtFirst, TypeStays, PTL DEF Spec

-----------------------------------------------------------------------------
(* The number of an aggregate that adds up is that of its history, also    *)
(* between an apply and its commit.  Where the data of an event replaces   *)
(* the number this is not so: what getAggregatePriorTo pushes is never     *)
(* applied to the aggregate itself.                                        *)
NumberInv == value = Replay(history)

LEMMA PushesNothing == ASSUME Additive, NEW s PROVE Pushed(s) = <<>>
BY Zenon DEF Pushed

LEMMA RollbackJoins ==
    ASSUME Additive, TypeOK, NEW c \in Correlations, Rollback(c)
    PROVE  history' = history \o RollbackEvents(c)
<1>1. Pushed(Correlated(history, c)) = <<>> /\ history \in Seq(Event)
  BY PushesNothing DEF TypeOK
<1>2. history \o <<>> = history
  BY <1>1, ConcatEmptySeq
<1>3. history' = history \o Pushed(Correlated(history, c)) \o RollbackEvents(c)
  BY RollbackStep
<1> QED
  BY <1>1, <1>2, <1>3, Zenon

LEMMA ThrowsNothing ==
    ASSUME Additive, TypeOK, NEW c \in Correlations, RollbackThrows(c)
    PROVE  UNCHANGED vars
<1>1. PICK seen \in Seq(Findable) : history' = history \o Pushed(seen)
  BY ThrowsStep
<1>2. history \in Seq(Event) /\ Pushed(seen) = <<>>
  BY PushesNothing DEF TypeOK
<1>3. history' = history
  BY <1>1, <1>2, ConcatEmptySeq
<1> QED
  BY <1>3, ThrowsStep DEF vars

LEMMA NumberStays == ASSUME Additive, TypeOK, NumberInv, [Next]_vars PROVE NumberInv'
<1>0. history \in Histories /\ value \in Int
  BY DEF TypeOK, Histories
<1>1. CASE MergeContext
  BY <1>1 DEF MergeContext, NumberInv
<1>2. ASSUME NEW type \in Types, NEW data \in Int, Apply(type, data) PROVE NumberInv'
  <2>1. NewEvent(type, data) \in Event
    BY NewEventType
  <2>2. history' = Append(history, NewEvent(type, data)) /\ value' = ApplyTo(value, NewEvent(type, data))
    BY <1>2 DEF Apply
  <2>3. Replay(Append(history, NewEvent(type, data))) = ApplyTo(Replay(history), NewEvent(type, data))
    BY <1>0, <2>1, ReplayGrows DEF Histories
  <2> QED
    BY <2>2, <2>3 DEF NumberInv
<1>3. ASSUME NEW c \in Correlations, Commit(c) PROVE NumberInv'
  <2>1. Opposite(history, AfterCommit(c), TRUE)
    BY <1>0, CommitAt DEF Opposite
  <2>2. Replay(AfterCommit(c)) = Replay(history)
    BY <2>1, OppositeReplay
  <2> QED
    BY <1>3, <2>2, CommitStep DEF NumberInv
<1>4. ASSUME NEW c \in Correlations, Rollback(c) PROVE NumberInv'
  <2>1. history' = history \o RollbackEvents(c) /\ value' = ApplyAll(value, RollbackEvents(c))
    BY <1>4, RollbackJoins, RollbackStep
  <2>2. RollbackEvents(c) \in Histories
    BY RollbackEventsAt
  <2>3. Replay(history \o RollbackEvents(c)) = ApplyAll(Replay(history), RollbackEvents(c))
    <3>1. 0 \in Int
      OBVIOUS
    <3> QED
      BY <1>0, <2>2, <3>1, ApplyJoined DEF Replay
  <2> QED
    BY <2>1, <2>3 DEF NumberInv
<1>5. CASE UNCHANGED vars
  BY <1>5 DEF vars, NumberInv
<1>6. ASSUME NEW c \in Correlations, RollbackThrows(c) PROVE NumberInv'
  <2>1. UNCHANGED vars
    BY <1>6, ThrowsNothing
  <2> QED
    BY <2>1, <1>5
<1> QED
  BY <1>1, <1>2, <1>3, <1>4, <1>5, <1>6, NextIsOneOf

LEMMA NumberAtFirst == Init => NumberInv
<1>1. <<>> \in Seq(Event)
  OBVIOUS
<1> QED
  BY <1>1, ReplayGrows DEF Init, NumberInv

LEMMA AlwaysNumber == ASSUME Additive PROVE Spec => [](TypeOK /\ NumberInv)
<1>1. TypeOK /\ NumberInv /\ [Next]_vars => (TypeOK /\ NumberInv)'
  BY TypeStays, NumberStays
<1> QED
  BY <1>1, TypeAtFirst, NumberAtFirst, PTL DEF Spec

(* A rollback leaves an aggregate that adds up with the number it would    *)
(* have, had the events of the correlation never been applied: for any     *)
(* history, in which other correlations were rolled back or committed      *)
(* between, and however often the aggregate was committed.                 *)
THEOREM RollbacksRestore ==
    ASSUME Additive
    PROVE  Spec => RollbackRestores
<1>1. ASSUME TypeOK, NumberInv, NEW c \in Correlations, Rollback(c)
      PROVE  value' = Replay(Others(history, c))
  <2> DEFINE new == RollbackEvents(c)
             es == Correlated(history, c)
  <2>1. history \in Histories /\ value \in Int /\ value = Replay(history)
    BY <1>1 DEF TypeOK, Histories, NumberInv
  <2>2. new \in Histories /\ Opposite(es, new, FALSE)
    BY <1>1, RollbackEventsAt
  <2>3. es \in Seq(Event)
    BY <2>1, CorrelatedType
  <2>4. Others(history, c) \in Seq(Event)
    BY <2>1, PassOverGrows DEF Histories
  <2>5. value' = ApplyAll(value, new)
    BY <1>1, RollbackStep
  <2> HIDE DEF new, es
  <2>6. Replay(new) = -Replay(es) /\ value' = value + Replay(new)
    BY <2>1, <2>2, <2>5, OppositeReplay, ApplyFrom
  <2>7. Replay(history) = Replay(es) + Replay(Others(history, c))
    BY <2>1, ReplayParts DEF es
  <2>8. Replay(es) \in Int /\ Replay(Others(history, c)) \in Int
    BY <2>3, <2>4, ReplayGrows
  <2> QED
    BY <2>1, <2>6, <2>7, <2>8
<1>2. TypeOK /\ NumberInv /\ [Next]_vars =>
        [\A c \in Correlations : Rollback(c) /\ (Additive \/ Latest(c)) => value' = Replay(Others(history, c))]_vars
  BY <1>1
<1> QED
  BY <1>2, AlwaysNumber, PTL DEF RollbackRestores, Spec

-----------------------------------------------------------------------------
(* The stream, of an aggregate that adds up.  No event has a number that   *)
(* was not created yet.  Until the first commit of an instance the stream  *)
(* is what its history holds up to _lastCommittedIndex, and every event    *)
(* after that is a different one from all others.                          *)
Known(h, n) == \A i \in DOMAIN h : h[i].uuid <= n
Fresh(h, k) == \A i, j \in DOMAIN h : i > k /\ h[i].uuid = h[j].uuid => i = j

StreamInv ==
    /\ Known(history, created) /\ Known(store, created)
    /\ commits = 0 => store = SubSeq(history, 1, committed) /\ Fresh(history, committed)
    /\ \A i \in DOMAIN store : store[i].corr \in Correlations

LEMMA NewOnesAreFresh ==
    ASSUME NEW h \in Seq(Event), NEW n \in Nat, Known(h, n), NEW t \in Seq(Event),
           \A i \in 1..Len(t) : t[i].uuid = n + i
    PROVE  /\ Known(h \o t, n + Len(t))
           /\ \A k \in 0..Len(h) : Fresh(h, k) => Fresh(h \o t, k)
<1> DEFINE u == h \o t
<1>1. /\ Len(h) \in Nat /\ Len(t) \in Nat /\ DOMAIN h = 1..Len(h) /\ DOMAIN t = 1..Len(t)
      /\ DOMAIN u = 1..(Len(h) + Len(t))
      /\ \A i \in DOMAIN h : u[i] = h[i]
      /\ \A i \in DOMAIN u : i \notin DOMAIN h => i - Len(h) \in DOMAIN t /\ u[i] = t[i - Len(h)]
  BY JoinedAt
<1> HIDE DEF u
<1>2. \A i \in DOMAIN h : h[i].uuid \in Nat
  <2>1. \A i \in DOMAIN h : h[i] \in Event
    OBVIOUS
  <2> QED
    BY <2>1 DEF Event
<1>3. ASSUME NEW i \in DOMAIN u
      PROVE  /\ i \in DOMAIN h => u[i].uuid = h[i].uuid /\ u[i].uuid <= n /\ u[i].uuid \in Nat
             /\ i \notin DOMAIN h => u[i].uuid = n + (i - Len(h)) /\ i - Len(h) \in 1..Len(t) /\ i \in Nat
  BY <1>1, <1>2, <1>3 DEF Known
<1>4. \A i \in DOMAIN u : u[i].uuid <= n + Len(t)
  BY <1>1, <1>3
<1>5. ASSUME NEW k \in 0..Len(h), Fresh(h, k),
             NEW i \in DOMAIN u, NEW j \in DOMAIN u, i > k, u[i].uuid = u[j].uuid
      PROVE  i = j
  <2>1. CASE i \in DOMAIN h /\ j \in DOMAIN h
    BY <1>3, <1>5, <2>1 DEF Fresh
  <2>2. CASE i \notin DOMAIN h /\ j \notin DOMAIN h
    BY <1>1, <1>3, <1>5, <2>2
  <2>3. CASE (i \in DOMAIN h) # (j \in DOMAIN h)
    BY <1>1, <1>3, <1>5, <2>3
  <2> QED
    BY <2>1, <2>2, <2>3
<1> QED
  BY <1>4, <1>5 DEF Known, Fresh, u

(* What is appended to the history leaves the stream what it was. *)
LEMMA StreamGrows ==
    ASSUME TypeOK, StreamInv,
           NEW t \in Seq(Event), \A i \in 1..Len(t) : t[i].uuid = created + i,
           history' = history \o t, created' = created + Len(t), UNCHANGED <<store, committed, commits>>
    PROVE  StreamInv'
<1>1. /\ history \in Seq(Event) /\ store \in Seq(Event) /\ committed \in 0..Len(history) /\ created \in Nat
      /\ Len(t) \in Nat
  BY DEF TypeOK
<1>2. /\ Known(history', created')
      /\ Fresh(history, committed) => Fresh(history', committed')
  BY <1>1, NewOnesAreFresh DEF StreamInv
<1>3. SubSeq(history \o t, 1, committed) = SubSeq(history, 1, committed)
  <2> DEFINE u == history \o t
             a == SubSeq(u, 1, committed)
             b == SubSeq(history, 1, committed)
  <2>1. u \in Seq(Event) /\ Len(u) = Len(history) + Len(t) /\ \A i \in 1..Len(history) : u[i] = history[i]
    BY <1>1
  <2>2. committed \in 0..Len(u) /\ \A i \in 1..committed : i \in 1..Len(history)
    BY <1>1, <2>1
  <2> HIDE DEF u
  <2>3. a \in Seq(Event) /\ Len(a) = committed /\ \A i \in 1..committed : a[i] = u[i]
    BY <2>1, <2>2
  <2>4. b \in Seq(Event) /\ Len(b) = committed /\ \A i \in 1..committed : b[i] = history[i]
    BY <1>1
  <2> HIDE DEF a, b
  <2>5. Len(a) = Len(b) /\ \A i \in 1..Len(a) : a[i] = b[i]
    BY <2>1, <2>2, <2>3, <2>4
  <2>6. a = b
    BY <2>3, <2>4, <2>5, SeqEqual, Zenon
  <2> QED
    BY <2>6 DEF a, b, u
<1>4. commits' = 0 => store' = SubSeq(history', 1, committed') /\ Fresh(history', committed')
  BY <1>2, <1>3 DEF StreamInv
<1>5. Known(store', created')
  <2>1. \A i \in DOMAIN store : store[i].uuid \in Nat /\ store[i].uuid <= created
    <3>1. \A i \in DOMAIN store : store[i] \in Event
      BY <1>1
    <3> QED
      BY <3>1 DEF Event, StreamInv, Known
  <2> QED
    BY <1>1, <2>1 DEF Known
<1>6. \A i \in DOMAIN store' : store'[i].corr \in Correlations
  BY DEF StreamInv
<1> QED
  BY <1>2, <1>4, <1>5, <1>6 DEF StreamInv

LEMMA StreamOfMerge == ASSUME TypeOK, StreamInv, MergeContext PROVE StreamInv'
<1>1. store \in Seq(Event) /\ DOMAIN store = 1..Len(store) /\ Len(store) \in Nat
  BY DEF TypeOK
<1>2. SubSeq(store, 1, Len(store)) = store
  BY <1>1, SubSeqFull
<1>3. history' = store /\ committed' = Len(store) /\ commits' = 0 /\ store' = store /\ created' = created
  BY DEF MergeContext
<1>4. Fresh(history', committed')
  BY <1>1, <1>3 DEF Fresh
<1> QED
  BY <1>2, <1>3, <1>4 DEF StreamInv

(* A commit changes no number in the history. *)
LEMMA CommitKeeps ==
    ASSUME TypeOK, NEW c \in Correlations, Commit(c)
    PROVE  /\ history' \in Seq(Event) /\ Len(history') = Len(history)
           /\ \A i \in 1..Len(history) : history'[i].uuid = history[i].uuid
<1>1. history' = AfterCommit(c)
  BY CommitStep
<1> QED
  BY <1>1, CommitAt DEF Histories

(* What a commit appends to the stream: the uncommitted events, with their *)
(* numbers.                                                                *)
LEMMA CommitAppends ==
    ASSUME TypeOK, StreamInv, NEW c \in Correlations, Commit(c)
    PROVE  \E a \in Seq(Event) :
              /\ store' = store \o a
              /\ \A i \in DOMAIN a : a[i].corr \in Correlations /\ a[i].uuid <= created
              /\ commits = 0 => store' = history'
<1> DEFINE a == Attributed(Uncommitted, c)
<1>1. history \in Seq(Event) /\ committed \in 0..Len(history) /\ store \in Seq(Event)
  BY DEF TypeOK
<1>2. store' = store \o a /\ history' = SubSeq(history, 1, committed) \o a
  BY CommitStep DEF AfterCommit
<1>3. a \in Seq(Event) /\ \A i \in DOMAIN a : a[i].corr \in Correlations
  BY CommitAt DEF Histories
<1>4. commits = 0 => store' = history'
  BY <1>2 DEF StreamInv
<1> HIDE DEF a
<1>5. /\ history' \in Seq(Event) /\ Len(history') = Len(history)
      /\ \A i \in 1..Len(history) : history'[i].uuid = history[i].uuid
  BY CommitKeeps
<1>6. \A i \in DOMAIN a : a[i].uuid <= created
  <2> DEFINE s == SubSeq(history, 1, committed)
  <2>1. s \in Seq(Event)
    BY <1>1
  <2> HIDE DEF s
  <2>2. \A i \in DOMAIN a : (s \o a)[Len(s) + i] = a[i] /\ Len(s) + i \in DOMAIN (s \o a)
    BY <1>3, <2>1
  <2>3. history' = s \o a
    BY <1>2 DEF s
  <2>4. \A i \in DOMAIN history' : i \in 1..Len(history) /\ history[i].uuid <= created
    BY <1>1, <1>5 DEF StreamInv, Known
  <2> QED
    BY <1>5, <2>2, <2>3, <2>4
<1> QED
  BY <1>2, <1>3, <1>4, <1>6

LEMMA StreamOfCommit == ASSUME TypeOK, StreamInv, NEW c \in Correlations, Commit(c) PROVE StreamInv'
<1>1. history \in Seq(Event) /\ store \in Seq(Event) /\ commits \in Nat
  BY DEF TypeOK
<1>2. PICK a \in Seq(Event) :
          store' = store \o a /\ \A i \in DOMAIN a : a[i].corr \in Correlations /\ a[i].uuid <= created
  BY CommitAppends
<1>3. /\ history' \in Seq(Event) /\ Len(history') = Len(history)
      /\ \A i \in 1..Len(history) : history'[i].uuid = history[i].uuid
  BY CommitKeeps
<1>4. commits' = commits + 1 /\ created' = created
  BY CommitStep
<1>5. Known(history', created')
  BY <1>1, <1>3, <1>4 DEF StreamInv, Known
<1>6. \A i \in DOMAIN (store \o a) : \/ i \in DOMAIN store /\ (store \o a)[i] = store[i]
                                     \/ i - Len(store) \in DOMAIN a /\ (store \o a)[i] = a[i - Len(store)]
  BY <1>1, <1>2, JoinedAt
<1>7. Known(store', created') /\ \A i \in DOMAIN store' : store'[i].corr \in Correlations
  BY <1>2, <1>4, <1>6 DEF StreamInv, Known
<1> QED
  BY <1>1, <1>4, <1>5, <1>7 DEF StreamInv

LEMMA StreamStays == ASSUME Additive, TypeOK, StreamInv, [Next]_vars PROVE StreamInv'
<1>1. ASSUME NEW type \in Types, NEW data \in Int, Apply(type, data) PROVE StreamInv'
  <2> DEFINE e == NewEvent(type, data)
  <2>1. e \in Event /\ e.uuid = created + 1 /\ history \in Seq(Event)
    BY NewEventType DEF TypeOK, NewEvent
  <2>2. history' = Append(history, e) /\ created' = created + 1 /\ UNCHANGED <<store, committed, commits>>
    BY <1>1 DEF Apply
  <2> HIDE DEF e
  <2>3. <<e>> \in Seq(Event) /\ Len(<<e>>) = 1 /\ <<e>>[1] = e /\ Append(history, e) = history \o <<e>>
    BY <2>1
  <2>4. \A i \in 1..Len(<<e>>) : <<e>>[i].uuid = created + i
    BY <2>1, <2>3
  <2>5. history' = history \o <<e>> /\ created' = created + Len(<<e>>)
    BY <2>2, <2>3
  <2> QED
    BY <2>2, <2>3, <2>4, <2>5, StreamGrows
<1>2. ASSUME NEW c \in Correlations, Rollback(c) PROVE StreamInv'
  <2>1. history' = history \o RollbackEvents(c)
    BY <1>2, RollbackJoins
  <2>2. /\ RollbackEvents(c) \in Seq(Event)
        /\ \A i \in 1..Len(RollbackEvents(c)) : RollbackEvents(c)[i].uuid = created + i
        /\ Len(RollbackEvents(c)) = Len(Correlated(history, c))
    BY RollbackEventsAt DEF Histories
  <2>3. created' = created + Len(Correlated(history, c)) /\ UNCHANGED <<store, committed, commits>>
    BY <1>2, RollbackStep
  <2> QED
    BY <2>1, <2>2, <2>3, StreamGrows
<1>3. CASE UNCHANGED vars
  BY <1>3 DEF vars, StreamInv, Known, Fresh
<1>4. ASSUME NEW c \in Correlations, RollbackThrows(c) PROVE StreamInv'
  BY <1>3, <1>4, ThrowsNothing
<1> QED
  BY <1>1, <1>2, <1>3, <1>4, StreamOfMerge, StreamOfCommit, NextIsOneOf

LEMMA StreamAtFirst == Init => StreamInv
<1> SUFFICES ASSUME Init PROVE StreamInv
  OBVIOUS
<1>1. DOMAIN <<>> = {} /\ SubSeq(<<>>, 1, 0) = <<>>
  OBVIOUS
<1> QED
  BY <1>1 DEF Init, StreamInv, Known, Fresh

LEMMA AlwaysStream == ASSUME Additive PROVE Spec => [](TypeOK /\ NumberInv /\ StreamInv)
<1>1. TypeOK /\ NumberInv /\ StreamInv /\ [Next]_vars => (TypeOK /\ NumberInv /\ StreamInv)'
  BY TypeStays, NumberStays, StreamStays
<1> QED
  BY <1>1, TypeAtFirst, NumberAtFirst, StreamAtFirst, PTL DEF Spec

(* Only a commit changes the stream. *)
LEMMA OnlyCommitStores ==
    ASSUME Additive, TypeOK, [Next]_vars
    PROVE  \/ \E c \in Correlations : Commit(c)
           \/ store' = store /\ (commits' = commits \/ commits' = 0)
<1>1. CASE UNCHANGED vars
  BY <1>1 DEF vars
<1>2. CASE MergeContext
  BY <1>2 DEF MergeContext
<1>3. CASE \E type \in Types, data \in Int : Apply(type, data)
  BY <1>3 DEF Apply
<1>4. ASSUME NEW c \in Correlations, Rollback(c) PROVE store' = store /\ commits' = commits
  BY <1>4, RollbackStep
<1>5. ASSUME NEW c \in Correlations, RollbackThrows(c) PROVE store' = store /\ commits' = commits
  BY <1>5, ThrowsNothing DEF vars
<1> QED
  BY <1>1, <1>2, <1>3, <1>4, <1>5, NextIsOneOf

(* The first commit of an instance stores, and so publishes, no event that *)
(* is in the stream already: over any number of handlers' instances,       *)
(* commits and rollbacks, for an aggregate that does not use               *)
(* getAggregatePriorTo.  Only a second commit of an instance does.         *)
THEOREM EventsAreStoredOnce == ASSUME Additive PROVE Spec => StoredOnce
<1> DEFINE NothingAgain == \A i, j \in DOMAIN store' : i > Len(store) /\ store'[i].uuid = store'[j].uuid => i = j
<1>1. ASSUME TypeOK, StreamInv, [Next]_vars, commits = 0 PROVE NothingAgain
  <2>1. store \in Seq(Event) /\ history \in Seq(Event) /\ committed \in 0..Len(history)
    BY <1>1 DEF TypeOK
  <2>2. CASE store' = store
    <3>1. \A i \in DOMAIN store : ~(i > Len(store))
      BY <2>1
    <3> QED
      BY <2>2, <3>1
  <2>3. ASSUME NEW c \in Correlations, Commit(c) PROVE NothingAgain
    <3>1. store' = history'
      BY <1>1, <2>3, CommitAppends
    <3>2. /\ history' \in Seq(Event) /\ Len(history') = Len(history)
          /\ \A i \in 1..Len(history) : history'[i].uuid = history[i].uuid
      BY <1>1, <2>3, CommitKeeps
    <3>3. DOMAIN store' = 1..Len(history) /\ DOMAIN history = 1..Len(history)
      BY <2>1, <3>1, <3>2
    <3>4. Len(store) = committed /\ Fresh(history, committed)
      BY <1>1, <2>1 DEF StreamInv
    <3> QED
      BY <3>1, <3>2, <3>3, <3>4 DEF Fresh
  <2> QED
    BY <1>1, <2>2, <2>3, OnlyCommitStores
<1>2. TypeOK /\ StreamInv /\ [Next]_vars => [commits = 0 => NothingAgain]_vars
  BY <1>1
<1> QED
  BY <1>2, AlwaysStream, PTL DEF StoredOnce, Spec

(* With the first commit of an instance the stream replays to what its     *)
(* handler decided on, and each event has a correlation under which it can *)
(* be rolled back, for an aggregate that does not use getAggregatePriorTo. *)
THEOREM CommitsAreReplayed == ASSUME Additive PROVE Spec => CommittedIsReplay
<1>1. ASSUME TypeOK, StreamInv, NumberInv', StreamInv', [Next]_vars, commits = 0, commits' = 1 PROVE Committed'
  <2>1. PICK c \in Correlations : Commit(c)
    BY <1>1, OnlyCommitStores
  <2>2. store' = history'
    BY <1>1, <2>1, CommitAppends
  <2>3. \A i \in DOMAIN store' : store'[i].corr \in Correlations
    BY <1>1 DEF StreamInv
  <2>4. Replay(store)' = value'
    BY <1>1, <2>2 DEF NumberInv
  <2> QED
    BY <2>2, <2>3, <2>4 DEF Committed
<1>2. /\ TypeOK /\ NumberInv /\ StreamInv /\ (TypeOK /\ NumberInv /\ StreamInv)' /\ [Next]_vars
      => [commits = 0 /\ commits' = 1 => Committed']_vars
  BY <1>1
<1> QED
  BY <1>2, AlwaysStream, PTL DEF CommittedIsReplay, Spec

-----------------------------------------------------------------------------
(* The query bus, for any queries and whatever their handlers execute.     *)
CallerType == caller \in [Queries -> Places]

QueryInv == CallerType /\ NoLostWakeup

LEMMA QueryAtFirst == QueryInit => QueryInv
BY DEF QueryInit, QueryInv, CallerType, Places, NoLostWakeup

LEMMA WaitKeeps == ASSUME QueryInv, NEW q \in Queries, Wait(q) \/ Timeout(q) PROVE QueryInv'
<1> USE DEF QueryInv, CallerType, NoLostWakeup
<1>1. CASE AwaitResponse(q)
  BY <1>1 DEF AwaitResponse, Places
<1>2. CASE SetAgain(q)
  BY <1>2 DEF SetAgain, Places
<1>3. CASE Return(q)
  BY <1>3 DEF Return, Places
<1>4. CASE Timeout(q)
  BY <1>4 DEF Timeout, Places
<1> QED
  BY <1>1, <1>2, <1>3, <1>4 DEF Wait

LEMMA SendKeeps == ASSUME QueryInv, NEW q, Send(q) PROVE QueryInv'
BY DEF QueryInv, CallerType, NoLostWakeup, Send, Places

(* The answer is set and the one who waits for it is woken in one block.   *)
LEMMA RespondKeeps == ASSUME QueryInv, NEW r, Respond(r) PROVE QueryInv'
BY DEF QueryInv, CallerType, NoLostWakeup, Respond, Places

(* No caller waits for an answer that is there, whether the answer comes   *)
(* before the call of waitGet or after it.                                 *)
THEOREM AnswersWakeTheirCallers == QuerySpec => []NoLostWakeup
<1>1. QueryInv /\ [QueryNext]_queryVars => QueryInv'
  <2> SUFFICES ASSUME QueryInv, [QueryNext]_queryVars PROVE QueryInv'
    OBVIOUS
  <2>1. CASE \E q \in Queries : Execute(q) \/ Wait(q) \/ Timeout(q)
    BY <2>1, SendKeeps, WaitKeeps DEF Execute
  <2>2. CASE \E r \in bus.running : Work(r)
    <3>1. PICK r \in bus.running : Ask(r) \/ Respond(r) \/ Acknowledge(r)
      BY <2>2 DEF Work
    <3>2. CASE Acknowledge(r)
      BY <3>2 DEF Acknowledge, QueryInv, CallerType, NoLostWakeup
    <3> QED
      BY <3>1, <3>2, SendKeeps, RespondKeeps DEF Ask
  <2>3. CASE UNCHANGED queryVars
    BY <2>3 DEF queryVars, QueryInv, CallerType, NoLostWakeup
  <2> QED
    BY <2>1, <2>2, <2>3 DEF QueryNext
<1>2. QueryInv => NoLostWakeup
  BY DEF QueryInv
<1> QED
  BY <1>1, <1>2, QueryAtFirst, PTL DEF QuerySpec
=============================================================================
