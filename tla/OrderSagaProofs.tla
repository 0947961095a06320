-------------------------- MODULE OrderSagaProofs --------------------------
(***************************************************************************)
(* Proofs about OrderSaga, for any orders, funds and stock: first whatever *)
(* handlers of events may fail, then what holds as long as none does.      *)
(***************************************************************************)
EXTENDS OrderSaga, SequenceLemmas, FiniteSetTheorems

-----------------------------------------------------------------------------
(* A publisher with the one worker of its bus is the sequence of messages  *)
(* it holds: the first one is handled, the others wait.                    *)
Message == Event \cup Command

Call(m) == [worker |-> "bus", msg |-> m, phase |-> "handling"]
At(status, queue, running) ==
    [status |-> status, queue |-> queue, subs |-> {"bus"}, attached |-> {"bus"}, running |-> running]

Status(c) == IF c = <<>> THEN "IDLE" ELSE "ACTIVE"
Waiting(c) == IF c = <<>> THEN <<>> ELSE Tail(c)
Calls(c) == IF c = <<>> THEN {} ELSE {Call(Head(c))}
BusOf(c) == At(Status(c), Waiting(c), Calls(c))

Held(p) == IF p.running = {} THEN <<>> ELSE <<(CHOOSE r \in p.running : TRUE).msg>> \o p.queue

LEMMA AtWithQueue ==
    ASSUME NEW status, NEW queue, NEW running, NEW x
    PROVE  [At(status, queue, running) EXCEPT !.queue = x] = At(status, x, running)
<1> DEFINE p == At(status, queue, running)
           g == [i \in {"status", "queue", "subs", "attached", "running"} |-> IF i = "queue" THEN x ELSE p[i]]
<1>1. [p EXCEPT !.queue = x] = g
  BY DEF At
<1>2. At(status, x, running) = g
  BY DEF At
<1> QED
  BY <1>1, <1>2

LEMMA FieldsOfAt ==
    ASSUME NEW status, NEW queue, NEW running
    PROVE  /\ At(status, queue, running).status = status
           /\ At(status, queue, running).queue = queue
           /\ At(status, queue, running).subs = {"bus"}
           /\ At(status, queue, running).attached = {"bus"}
           /\ At(status, queue, running).running = running
BY DEF At

LEMMA ReadyIsEmpty == ReadyBus = BusOf(<<>>)
<1> DEFINE keys == {"status", "queue", "subs", "attached", "running"}
           p == Bus!NewPublisher
           g == [i \in keys |-> IF i = "attached" THEN {"bus"} ELSE IF i = "subs" THEN {"bus"}
                                ELSE IF i = "status" THEN "IDLE" ELSE p[i]]
           h == [i \in keys |-> At("IDLE", <<>>, {})[i]]
<1>1. ReadyBus = g
  BY DEF ReadyBus, Bus!NewPublisher
<1>2. p["queue"] = <<>> /\ p["running"] = {}
  BY DEF Bus!NewPublisher
<1>3. /\ At("IDLE", <<>>, {})["status"] = "IDLE" /\ At("IDLE", <<>>, {})["queue"] = <<>>
      /\ At("IDLE", <<>>, {})["subs"] = {"bus"} /\ At("IDLE", <<>>, {})["attached"] = {"bus"}
      /\ At("IDLE", <<>>, {})["running"] = {}
  BY DEF At
<1>4. g = h
  <2> SUFFICES ASSUME NEW i \in keys PROVE g[i] = h[i]
    BY Zenon
  <2> HIDE DEF p
  <2>1. g["status"] = "IDLE" /\ g["queue"] = p["queue"] /\ g["running"] = p["running"]
    OBVIOUS
  <2>2. g["subs"] = {"bus"} /\ g["attached"] = {"bus"}
    OBVIOUS
  <2>3. h[i] = At("IDLE", <<>>, {})[i]
    OBVIOUS
  <2> HIDE DEF g, h
  <2> QED
    BY <1>2, <1>3, <2>1, <2>2, <2>3
<1>5. At("IDLE", <<>>, {}) = h
  BY DEF At
<1>6. Status(<<>>) = "IDLE" /\ Waiting(<<>>) = <<>> /\ Calls(<<>>) = {}
  BY DEF Status, Waiting, Calls
<1> QED
  BY <1>1, <1>4, <1>5, <1>6 DEF BusOf

LEMMA AdvanceAt ==
    ASSUME NEW q \in Seq(Message)
    PROVE  Bus!Advance(At("IDLE", q, {})) = BusOf(q)
<1>1. CASE q = <<>>
  <2>1. Bus!Advance(At("IDLE", q, {})) = At("IDLE", q, {})
    BY <1>1 DEF Bus!Advance, At
  <2> QED
    BY <1>1, <2>1 DEF BusOf, Status, Waiting, Calls
<1>2. CASE q # <<>>
  <2>1. Bus!Distribute(At("IDLE", q, {}), Head(q)) = {Call(Head(q))}
    BY DEF Bus!Distribute, At, Call
  <2>2. Bus!Advance(At("IDLE", q, {})) = At("ACTIVE", Tail(q), {Call(Head(q))})
    BY <1>2, <2>1 DEF Bus!Advance, At
  <2> QED
    BY <1>2, <2>2 DEF BusOf, Status, Waiting, Calls
<1> QED
  BY <1>1, <1>2

LEMMA PartsOf ==
    ASSUME NEW c \in Seq(Message)
    PROVE  /\ c = <<>> => Status(c) = "IDLE" /\ Waiting(c) = <<>> /\ Calls(c) = {}
           /\ c # <<>> => /\ Status(c) = "ACTIVE" /\ Waiting(c) = Tail(c) /\ Calls(c) = {Call(Head(c))}
                          /\ Head(c) \in Message /\ Tail(c) \in Seq(Message)
           /\ Waiting(c) \in Seq(Message)
BY DEF Status, Waiting, Calls

LEMMA BusType == ASSUME NEW c \in Seq(Message) PROVE BusOf(c) \in Bus!Publisher
<1>1. Status(c) \in Bus!ESState
  BY DEF Status, Bus!ESState
<1>2. ASSUME NEW r \in Calls(c) PROVE r \in Bus!Invocation
  <2>1. c # <<>> /\ r = Call(Head(c)) /\ Head(c) \in Message
    BY PartsOf DEF Calls
  <2> QED
    BY <2>1 DEF Call, Bus!Invocation, Message
<1>3. Waiting(c) \in Seq(Event \cup Command)
  BY PartsOf DEF Message
<1>4. {"bus"} \in SUBSET Bus!Subscribers
  BY DEF Bus!Subscribers
<1> QED
  BY <1>1, <1>2, <1>3, <1>4 DEF BusOf, At, Bus!Publisher

LEMMA EnqueueAppends ==
    ASSUME NEW c \in Seq(Message), NEW m \in Message
    PROVE  Bus!Enqueue(BusOf(c), m) = BusOf(Append(c, m)) /\ Append(c, m) \in Seq(Message)
<1> DEFINE q == Append(Waiting(c), m)
           p == At(Status(c), q, Calls(c))
<1>3. Waiting(c) \in Seq(Message) /\ q \in Seq(Message)
  BY PartsOf
<1> HIDE DEF q
<1>1. BusOf(c).queue = Waiting(c) /\ p.queue = q
  BY FieldsOfAt DEF BusOf
<1>2. [BusOf(c) EXCEPT !.queue = q] = p
  BY AtWithQueue DEF BusOf
<1> HIDE DEF p
<1>4. Bus!Enqueue(BusOf(c), m) = IF Len(q) = 1 THEN Bus!Advance(p) ELSE p
  BY <1>1, <1>2 DEF Bus!Enqueue, q
<1>5. CASE c = <<>>
  <2>1. q = <<m>> /\ Append(c, m) = <<m>> /\ Len(q) = 1
    <3>1. Append(<<>>, m) = <<m>> /\ Len(<<m>>) = 1
      OBVIOUS
    <3>2. q = Append(<<>>, m)
      BY <1>5, PartsOf DEF q
    <3> QED
      BY <1>5, <3>1, <3>2
  <2>2. p = At("IDLE", q, {})
    BY <1>5, PartsOf DEF p
  <2> QED
    BY <1>3, <1>4, <2>1, <2>2, AdvanceAt
<1>6. CASE c # <<>>
  <2>1. /\ Append(c, m) \in Seq(Message) /\ Append(c, m) # <<>>
        /\ Head(Append(c, m)) = Head(c) /\ Tail(Append(c, m)) = q
    <3>1. q = Append(Tail(c), m)
      BY <1>6, PartsOf DEF q
    <3>2. Len(c) \in Nat /\ Len(c) > 0
      BY <1>6
    <3>3. Tail(Append(c, m)) = Append(Tail(c), m)
      BY <1>6
    <3>4. Head(Append(c, m)) = Head(c) /\ Append(c, m) \in Seq(Message) /\ Append(c, m) # <<>>
      BY <1>6
    <3> QED
      BY <3>1, <3>3, <3>4
  <2>2. p = BusOf(Append(c, m))
    BY <1>6, <2>1, PartsOf DEF p, BusOf
  <2>3. Bus!Advance(p) = p
    <3>1. p.status = "ACTIVE"
      BY <1>6, PartsOf, FieldsOfAt DEF p
    <3> QED
      BY <3>1 DEF Bus!Advance
  <2> QED
    BY <1>4, <2>1, <2>2, <2>3
<1> QED
  BY <1>5, <1>6

LEMMA RunningIsHead ==
    ASSUME NEW c \in Seq(Message), NEW r \in BusOf(c).running
    PROVE  c # <<>> /\ r = Call(Head(c)) /\ r.msg = Head(c) /\ Calls(c) = {r}
<1>1. r \in Calls(c)
  BY FieldsOfAt DEF BusOf
<1>2. c # <<>> /\ Calls(c) = {Call(Head(c))}
  BY <1>1, PartsOf
<1>3. r = Call(Head(c))
  BY <1>1, <1>2
<1>4. Call(Head(c)).msg = Head(c)
  BY DEF Call
<1> QED
  BY <1>2, <1>3, <1>4

LEMMA AcknowledgeAt ==
    ASSUME NEW queue, NEW status, NEW running, NEW r, running = {r}
    PROVE  Bus!Acknowledge(At(status, queue, running), r) = Bus!Advance(At("IDLE", queue, {}))
<1>1. ASSUME NEW idle, NEW none
      PROVE  [At(status, queue, running) EXCEPT !.status = idle, !.running = none] = At(idle, queue, none)
  <2> DEFINE p == At(status, queue, running)
             g == [i \in {"status", "queue", "subs", "attached", "running"} |->
                     IF i = "running" THEN none ELSE IF i = "status" THEN idle ELSE p[i]]
  <2>1. [p EXCEPT !.status = idle, !.running = none] = g
    BY DEF At
  <2>2. At(idle, queue, none) = g
    BY DEF At
  <2> QED
    BY <2>1, <2>2
<1>2. At(status, queue, running).running \ {r} = {}
  BY FieldsOfAt
<1> QED
  <2>1. PICK none : none = {}
    OBVIOUS
  <2>2. PICK idle : idle = "IDLE"
    OBVIOUS
  <2>3. [At(status, queue, running) EXCEPT !.status = idle, !.running = none] = At(idle, queue, none)
    BY <1>1
  <2>4. At(idle, queue, none) = At("IDLE", queue, {})
    BY <2>1, <2>2
  <2>5. Bus!Acknowledge(At(status, queue, running), r) =
          Bus!Advance([At(status, queue, running) EXCEPT !.status = idle, !.running = none])
    BY <1>2, <2>1, <2>2 DEF Bus!Acknowledge
  <2> QED
    BY <2>3, <2>4, <2>5

LEMMA AcknowledgeRemoves ==
    ASSUME NEW c \in Seq(Message), NEW r \in BusOf(c).running
    PROVE  Bus!Acknowledge(BusOf(c), r) = BusOf(Tail(c)) /\ Tail(c) \in Seq(Message)
<1>1. c # <<>> /\ Calls(c) = {r} /\ Waiting(c) = Tail(c) /\ Tail(c) \in Seq(Message)
  BY RunningIsHead, PartsOf
<1>2. Bus!Acknowledge(BusOf(c), r) = Bus!Advance(At("IDLE", Tail(c), {}))
  BY <1>1, AcknowledgeAt DEF BusOf
<1> QED
  BY <1>1, <1>2, AdvanceAt

LEMMA HeldOfBus == ASSUME NEW c \in Seq(Message) PROVE Held(BusOf(c)) = c
<1>1. BusOf(c).running = Calls(c) /\ BusOf(c).queue = Waiting(c)
  BY FieldsOfAt DEF BusOf
<1>2. CASE c = <<>>
  BY <1>1, <1>2, PartsOf DEF Held
<1>3. CASE c # <<>>
  <2>1. BusOf(c).running = {Call(Head(c))} /\ BusOf(c).queue = Tail(c)
    BY <1>1, <1>3, PartsOf
  <2>2. (CHOOSE r \in {Call(Head(c))} : TRUE) = Call(Head(c))
    OBVIOUS
  <2>3. Call(Head(c)).msg = Head(c)
    BY DEF Call
  <2>4. <<Head(c)>> \o Tail(c) = c
    BY <1>3
  <2> QED
    BY <2>1, <2>2, <2>3, <2>4 DEF Held
<1> QED
  BY <1>2, <1>3

-----------------------------------------------------------------------------
(* PublishAll is a fold: one message after the other joins those held.     *)
Buses == {BusOf(c) : c \in Seq(Message)}
EnqueueStep == [p \in Buses \X Message |-> Bus!Enqueue(p[1], p[2])]

LEMMA EnqueueType ==
    ASSUME NEW p \in Buses, NEW m \in Message
    PROVE  Bus!Enqueue(p, m) \in Buses /\ EnqueueStep[<<p, m>>] = Bus!Enqueue(p, m)
<1>1. PICK c \in Seq(Message) : p = BusOf(c)
  BY DEF Buses
<1>2. Bus!Enqueue(p, m) = BusOf(Append(c, m)) /\ Append(c, m) \in Seq(Message)
  BY <1>1, EnqueueAppends
<1>3. Bus!Enqueue(p, m) \in Buses
  BY <1>2 DEF Buses
<1> QED
  BY <1>3 DEF EnqueueStep

LEMMA EnqueueStepType == EnqueueStep \in [Buses \X Message -> Buses]
<1>1. \A x \in Buses \X Message : Bus!Enqueue(x[1], x[2]) \in Buses
  BY EnqueueType
<1> QED
  BY <1>1 DEF EnqueueStep

IsPublishing(g, p, ms) ==
    g = [S \in SUBSET DOMAIN ms |-> IF S = {} THEN p ELSE Bus!Enqueue(g[S \ {Max(S)}], ms[Max(S)])]

LEMMA PublishAllIsFold ==
    ASSUME NEW p, NEW ms
    PROVE  PublishAll(p, ms) = (CHOOSE g : IsPublishing(g, p, ms))[DOMAIN ms]
BY Zenon DEF PublishAll, FoldLeft, MapThenFoldSet, IsPublishing

LEMMA PublishAllSteps ==
    ASSUME NEW p \in Buses, NEW s \in Seq(Message)
    PROVE  \E f : Steps(f, Buses, EnqueueStep, p, s) /\ f[Len(s)] = PublishAll(p, s)
<1>1. PICK g : FoldOver(g, Buses, EnqueueStep, p, s, Len(s))
  BY EnqueueStepType, FoldExists, Zenon
<1>2. DOMAIN s = 1..Len(s)
  OBVIOUS
<1>3. IsPublishing(g, p, s)
  <2>1. ASSUME NEW S \in SUBSET DOMAIN s, S # {}
        PROVE  EnqueueStep[<<g[S \ {Max(S)}], s[Max(S)]>>] = Bus!Enqueue(g[S \ {Max(S)}], s[Max(S)])
    <3>1. Max(S) \in DOMAIN s
      BY <2>1, <1>2, MaxOfIndices, Len(s) \in Nat
    <3>2. s[Max(S)] \in Message
      BY <3>1
    <3>3. S \ {Max(S)} \in SUBSET (1..Len(s))
      BY <1>2
    <3>4. g[S \ {Max(S)}] \in Buses
      BY <3>3, <1>1 DEF FoldOver
    <3> QED
      BY <3>2, <3>4, EnqueueType
  <2> QED
    BY <1>1, <1>2, <2>1 DEF FoldOver, IsPublishing
<1> DEFINE h == CHOOSE x : IsPublishing(x, p, s)
<1>4. IsPublishing(h, p, s)
  BY <1>3, Zenon
<1> HIDE DEF h
<1>5. h[{}] = p
  BY <1>4 DEF IsPublishing
<1>6. ASSUME NEW k \in Nat, k < Len(s), h[1..k] \in Buses
      PROVE  h[1..(k + 1)] = EnqueueStep[<<h[1..k], s[k + 1]>>]
  <2>1. Max(1..(k + 1)) = k + 1 /\ (1..(k + 1)) \ {k + 1} = 1..k /\ 1..(k + 1) # {}
    BY Segments
  <2>2. 1..(k + 1) \in SUBSET DOMAIN s /\ s[k + 1] \in Message
    BY <1>6
  <2>3. h[1..(k + 1)] = Bus!Enqueue(h[(1..(k + 1)) \ {Max(1..(k + 1))}], s[Max(1..(k + 1))])
    BY <1>4, <2>1, <2>2 DEF IsPublishing
  <2>4. h[1..(k + 1)] = Bus!Enqueue(h[1..k], s[k + 1])
    BY <2>1, <2>3
  <2> QED
    BY <2>4, <1>6, <2>2, EnqueueType
<1>7. FoldsOnSegments(h, Buses, Message, EnqueueStep, p, s)
  BY <1>5, <1>6, EnqueueStepType DEF FoldsOnSegments
<1>8. h[1..Len(s)] = PublishAll(p, s)
  BY PublishAllIsFold, <1>2 DEF h
<1> QED
  BY <1>7, <1>8, FoldSteps

LEMMA BeginningGrows ==
    ASSUME NEW S, NEW c \in Seq(S), NEW ms \in Seq(S), NEW k \in Nat, k < Len(ms)
    PROVE  /\ c \o SubSeq(ms, 1, k) \in Seq(S) /\ ms[k + 1] \in S
           /\ Append(c \o SubSeq(ms, 1, k), ms[k + 1]) = c \o SubSeq(ms, 1, k + 1)
OBVIOUS

LEMMA PublishAllJoins ==
    ASSUME NEW c \in Seq(Message), NEW ms \in Seq(Message)
    PROVE  PublishAll(BusOf(c), ms) = BusOf(c \o ms) /\ c \o ms \in Seq(Message)
<1>1. BusOf(c) \in Buses
  BY DEF Buses
<1>2. PICK f : Steps(f, Buses, EnqueueStep, BusOf(c), ms) /\ f[Len(ms)] = PublishAll(BusOf(c), ms)
  BY <1>1, PublishAllSteps
<1> DEFINE P == {k \in Nat : k <= Len(ms) => f[k] = BusOf(c \o SubSeq(ms, 1, k))}
<1>3. 0 \in P
  <2>1. c \o SubSeq(ms, 1, 0) = c
    OBVIOUS
  <2> QED
    BY <1>2, <2>1 DEF Steps
<1>4. ASSUME NEW k \in P PROVE k + 1 \in P
  <2> SUFFICES ASSUME k + 1 <= Len(ms) PROVE f[k + 1] = BusOf(c \o SubSeq(ms, 1, k + 1))
    OBVIOUS
  <2>1. k \in Nat /\ k < Len(ms) /\ f[k] = BusOf(c \o SubSeq(ms, 1, k))
    OBVIOUS
  <2>2. k + 1 \in 1..Len(ms) /\ (k + 1) - 1 = k
    OBVIOUS
  <2> HIDE DEF P
  <2> DEFINE b == c \o SubSeq(ms, 1, k)
  <2>3. b \in Seq(Message) /\ ms[k + 1] \in Message /\ Append(b, ms[k + 1]) = c \o SubSeq(ms, 1, k + 1)
    BY <2>1, BeginningGrows
  <2> HIDE DEF b
  <2>4. f[k + 1] = EnqueueStep[<<f[k], ms[k + 1]>>]
    BY <2>2, <1>2 DEF Steps
  <2>5. f[k] = BusOf(b) /\ BusOf(b) \in Buses
    BY <2>1, <2>3 DEF b, Buses
  <2>6. f[k + 1] = Bus!Enqueue(BusOf(b), ms[k + 1])
    BY <2>3, <2>4, <2>5, EnqueueType
  <2> QED
    BY <2>3, <2>6, EnqueueAppends
<1> HIDE DEF P
<1>5. P = Nat
  <2>1. P \in SUBSET Nat
    BY DEF P
  <2> QED
    BY <1>3, <1>4, <2>1, Induction
<1>6. f[Len(ms)] = BusOf(c \o SubSeq(ms, 1, Len(ms)))
  BY <1>5, Len(ms) \in Nat DEF P
<1>7. c \o SubSeq(ms, 1, Len(ms)) = c \o ms /\ c \o ms \in Seq(Message)
  OBVIOUS
<1> QED
  BY <1>2, <1>6, <1>7

-----------------------------------------------------------------------------
(* Correlated is a fold: an event of the correlation is kept.              *)
Histories == Seq(Event)
Keep(h, e, o) == IF e.corr = o THEN Append(h, e) ELSE h
KeepStep(o) == [p \in Histories \X Event |-> Keep(p[1], p[2], o)]

LEMMA KeepType ==
    ASSUME NEW h \in Histories, NEW e \in Event, NEW o
    PROVE  Keep(h, e, o) \in Histories /\ KeepStep(o)[<<h, e>>] = Keep(h, e, o)
<1>1. Keep(h, e, o) \in Histories
  BY DEF Keep, Histories
<1> QED
  BY <1>1 DEF KeepStep

LEMMA KeepStepType == ASSUME NEW o PROVE KeepStep(o) \in [Histories \X Event -> Histories]
<1>1. \A x \in Histories \X Event : Keep(x[1], x[2], o) \in Histories
  BY KeepType
<1> QED
  BY <1>1 DEF KeepStep

IsCorrelating(g, s, o) ==
    g = [S \in SUBSET DOMAIN s |-> IF S = {} THEN <<>> ELSE Keep(g[S \ {Max(S)}], s[Max(S)], o)]

LEMMA CorrelatedIsFold ==
    ASSUME NEW s, NEW o
    PROVE  Correlated(s, o) = (CHOOSE g : IsCorrelating(g, s, o))[DOMAIN s]
BY Zenon DEF Correlated, FoldLeft, MapThenFoldSet, IsCorrelating, Keep

LEMMA CorrelatedSteps ==
    ASSUME NEW s \in Seq(Event), NEW o
    PROVE  \E f : Steps(f, Histories, KeepStep(o), <<>>, s) /\ f[Len(s)] = Correlated(s, o)
<1>0. <<>> \in Histories
  BY DEF Histories
<1>1. PICK g : FoldOver(g, Histories, KeepStep(o), <<>>, s, Len(s))
  BY <1>0, KeepStepType, FoldExists, Zenon
<1>2. DOMAIN s = 1..Len(s)
  OBVIOUS
<1>3. IsCorrelating(g, s, o)
  <2>1. ASSUME NEW S \in SUBSET DOMAIN s, S # {}
        PROVE  KeepStep(o)[<<g[S \ {Max(S)}], s[Max(S)]>>] = Keep(g[S \ {Max(S)}], s[Max(S)], o)
    <3>1. Max(S) \in DOMAIN s
      BY <2>1, <1>2, MaxOfIndices, Len(s) \in Nat
    <3>2. s[Max(S)] \in Event
      BY <3>1
    <3>3. S \ {Max(S)} \in SUBSET (1..Len(s))
      BY <1>2
    <3>4. g[S \ {Max(S)}] \in Histories
      BY <3>3, <1>1 DEF FoldOver
    <3> QED
      BY <3>2, <3>4, KeepType
  <2> QED
    BY <1>1, <1>2, <2>1 DEF FoldOver, IsCorrelating
<1> DEFINE h == CHOOSE x : IsCorrelating(x, s, o)
<1>4. IsCorrelating(h, s, o)
  BY <1>3, Zenon
<1> HIDE DEF h
<1>5. h[{}] = <<>>
  BY <1>4 DEF IsCorrelating
<1>6. ASSUME NEW k \in Nat, k < Len(s), h[1..k] \in Histories
      PROVE  h[1..(k + 1)] = KeepStep(o)[<<h[1..k], s[k + 1]>>]
  <2>1. Max(1..(k + 1)) = k + 1 /\ (1..(k + 1)) \ {k + 1} = 1..k /\ 1..(k + 1) # {}
    BY Segments
  <2>2. 1..(k + 1) \in SUBSET DOMAIN s /\ s[k + 1] \in Event
    BY <1>6
  <2>3. h[1..(k + 1)] = Keep(h[(1..(k + 1)) \ {Max(1..(k + 1))}], s[Max(1..(k + 1))], o)
    BY <1>4, <2>1, <2>2 DEF IsCorrelating
  <2>4. h[1..(k + 1)] = Keep(h[1..k], s[k + 1], o)
    BY <2>1, <2>3
  <2> QED
    BY <2>4, <1>6, <2>2, KeepType
<1>7. FoldsOnSegments(h, Histories, Event, KeepStep(o), <<>>, s)
  BY <1>0, <1>5, <1>6, KeepStepType DEF FoldsOnSegments
<1>8. h[1..Len(s)] = Correlated(s, o)
  BY CorrelatedIsFold, <1>2 DEF h
<1> QED
  BY <1>7, <1>8, FoldSteps

(* What a correlation keeps of the first k events. *)
Kept(h, s, o, k) ==
    /\ h \in Seq(Event)
    /\ \A e : Occurs(e, h) <=> e.corr = o /\ \E i \in 1..k : s[i] = e
    /\ Once(s, {e \in Event : e.corr = o}) => Once(h, {e \in Event : e.corr = o})

LEMMA KeptNext ==
    ASSUME NEW s \in Seq(Event), NEW o, NEW k \in Nat, k < Len(s), NEW h, Kept(h, s, o, k)
    PROVE  Kept(Keep(h, s[k + 1], o), s, o, k + 1)
<1> DEFINE x == s[k + 1]
           T == {e \in Event : e.corr = o}
<1>1. x \in Event /\ h \in Seq(Event) /\ k + 1 \in DOMAIN s /\ DOMAIN s = 1..Len(s)
  BY DEF Kept
<1>2. \A e : (\E i \in 1..(k + 1) : s[i] = e) <=> e = x \/ \E i \in 1..k : s[i] = e
  OBVIOUS
<1>3. CASE x.corr # o
  <2>1. Keep(h, x, o) = h
    BY <1>3 DEF Keep
  <2> HIDE DEF x
  <2>2. \A e : Occurs(e, h) <=> e.corr = o /\ \E i \in 1..(k + 1) : s[i] = e
    BY <1>2, <1>3 DEF Kept
  <2> QED
    BY <2>1, <2>2 DEF Kept, x
<1>4. CASE x.corr = o
  <2>1. Keep(h, x, o) = h \o <<x>> /\ <<x>> \in Seq(Event) /\ h \o <<x>> \in Seq(Event)
    BY <1>1, <1>4 DEF Keep
  <2>5. \A e : Occurs(e, <<x>>) <=> e = x
    BY OccursInOne
  <2>2. \A e : Occurs(e, h \o <<x>>) <=> Occurs(e, h) \/ e = x
    BY <1>1, <2>1, <2>5, OccursInJoined
  <2>3. \A e : Occurs(e, h \o <<x>>) <=> e.corr = o /\ \E i \in 1..(k + 1) : s[i] = e
    <3> HIDE DEF x
    <3> QED
      BY <1>2, <1>4, <2>2 DEF Kept
  <2>4. ASSUME Once(s, T) PROVE Once(h \o <<x>>, T)
    <3>1. ~Occurs(x, h)
      <4> SUFFICES ASSUME Occurs(x, h) PROVE FALSE
        OBVIOUS
      <4>1. PICK i \in 1..k : s[i] = x
        BY DEF Kept
      <4>2. i \in DOMAIN s /\ s[i] = s[k + 1] /\ s[i] \in T /\ i # k + 1
        BY <4>1, <1>1, <1>4
      <4> QED
        BY <2>4, <4>2, <1>1 DEF Once
    <3>2. Once(h, T)
      BY <2>4 DEF Kept
    <3>3. Once(<<x>>, T)
      BY DEF Once
    <3>4. \A m \in T : ~(Occurs(m, h) /\ Occurs(m, <<x>>))
      BY <3>1, <2>5
    <3> HIDE DEF T, x
    <3> QED
      BY <1>1, <2>1, <3>2, <3>3, <3>4, OnceInJoined
  <2> QED
    BY <2>1, <2>3, <2>4 DEF Kept
<1> QED
  BY <1>3, <1>4

LEMMA CorrelatedKeeps == ASSUME NEW s \in Seq(Event), NEW o PROVE Kept(Correlated(s, o), s, o, Len(s))
<1>1. PICK f : Steps(f, Histories, KeepStep(o), <<>>, s) /\ f[Len(s)] = Correlated(s, o)
  BY CorrelatedSteps
<1> DEFINE P == {k \in Nat : k <= Len(s) => Kept(f[k], s, o, k)}
<1>2. 0 \in P
  <2>1. f[0] = <<>> /\ 1..0 = {} /\ <<>> \in Seq(Event) /\ DOMAIN <<>> = {}
    BY <1>1 DEF Steps
  <2>2. Kept(<<>>, s, o, 0)
    BY <2>1, NothingOccurs DEF Kept, Once
  <2> QED
    BY <2>1, <2>2
<1>3. ASSUME NEW k \in P PROVE k + 1 \in P
  <2> SUFFICES ASSUME k + 1 <= Len(s) PROVE Kept(f[k + 1], s, o, k + 1)
    OBVIOUS
  <2>1. k \in Nat /\ k < Len(s) /\ Kept(f[k], s, o, k) /\ s[k + 1] \in Event
    OBVIOUS
  <2>2. k + 1 \in 1..Len(s) /\ (k + 1) - 1 = k
    OBVIOUS
  <2> HIDE DEF P
  <2>3. f[k] \in Histories
    BY <2>1 DEF Kept, Histories
  <2>4. f[k + 1] = KeepStep(o)[<<f[k], s[k + 1]>>]
    BY <2>2, <1>1 DEF Steps
  <2>5. f[k + 1] = Keep(f[k], s[k + 1], o)
    BY <2>1, <2>3, <2>4, KeepType
  <2> QED
    BY <2>1, <2>5, KeptNext
<1> HIDE DEF P
<1>4. P = Nat
  <2>1. P \in SUBSET Nat
    BY DEF P
  <2> QED
    BY <1>2, <1>3, <2>1, Induction
<1> QED
  BY <1>1, <1>4, Len(s) \in Nat DEF P

(* A compensation holds the counterpart of each event, once if the events  *)
(* are in the history once.                                                *)
LEMMA ReverseAt ==
    ASSUME NEW s \in Seq(Event)
    PROVE  /\ Reverse(s) \in Seq(Event) /\ DOMAIN Reverse(s) = DOMAIN s /\ DOMAIN s = 1..Len(s)
           /\ \A i \in DOMAIN s : Len(s) - i + 1 \in DOMAIN s /\ Reverse(s)[i] = s[Len(s) - i + 1]
<1>1. Reverse(s) = [i \in 1..Len(s) |-> s[(Len(s) - i) + 1]]
  BY DEF Reverse
<1>2. \A i \in 1..Len(s) : s[(Len(s) - i) + 1] \in Event
  OBVIOUS
<1>3. Reverse(s) \in [1..Len(s) -> Event] /\ Len(s) \in Nat
  BY <1>1, <1>2
<1> QED
  BY <1>1, <1>3

Kinds == DOMAIN RollbackOf
Counterpart(e) == [type |-> RollbackOf[e.type], corr |-> e.corr]

LEMMA RollbackKinds ==
    /\ Kinds = {"OrderCreated", "FundsWithdrawn"}
    /\ RollbackOf["OrderCreated"] = "RollbackOrderCreated"
    /\ RollbackOf["FundsWithdrawn"] = "RollbackFundsWithdrawn"
BY DEF Kinds, RollbackOf

LEMMA CounterpartType ==
    ASSUME NEW e \in Event, HasRollback(e.type)
    PROVE  Counterpart(e) \in Event /\ Counterpart(e).corr = e.corr
           /\ \A f \in Event : HasRollback(f.type) /\ Counterpart(f) = Counterpart(e) => f = e
<1>1. e.type \in {"OrderCreated", "FundsWithdrawn"}
  BY RollbackKinds DEF HasRollback, Kinds
<1>2. RollbackOf[e.type] \in EventTypes
  BY <1>1, RollbackKinds DEF EventTypes
<1>3. Counterpart(e) \in Event /\ Counterpart(e).corr = e.corr
  BY <1>2 DEF Counterpart, Event
<1>4. ASSUME NEW f \in Event, HasRollback(f.type), Counterpart(f) = Counterpart(e) PROVE f = e
  <2>1. f.type \in {"OrderCreated", "FundsWithdrawn"}
    BY <1>4, RollbackKinds DEF HasRollback, Kinds
  <2>2. RollbackOf[f.type] = RollbackOf[e.type] /\ f.corr = e.corr
    BY <1>4 DEF Counterpart
  <2>3. f.type = e.type
    BY <1>1, <2>1, <2>2, RollbackKinds
  <2> QED
    BY <2>2, <2>3 DEF Event
<1> QED
  BY <1>3, <1>4

LEMMA CompensationAt ==
    ASSUME NEW s \in Seq(Event), NEW o, CanRollback(s, o)
    PROVE  /\ Compensation(s, o) \in Seq(Event)
           /\ \A x : Occurs(x, Compensation(s, o)) <=>
                       \E e \in Event : Occurs(e, s) /\ e.corr = o /\ HasRollback(e.type) /\ x = Counterpart(e)
           /\ Once(s, {e \in Event : e.corr = o}) => Once(Compensation(s, o), Event)
<1> DEFINE T == {e \in Event : e.corr = o}
           h == Correlated(s, o)
           r == Reverse(h)
           c == Compensation(s, o)
<1>1. Kept(h, s, o, Len(s)) /\ h \in Seq(Event)
  BY CorrelatedKeeps DEF Kept
<1>2. ASSUME NEW i \in DOMAIN h PROVE h[i] \in T /\ HasRollback(h[i].type) /\ Occurs(h[i], s)
  <2>1. Occurs(h[i], h)
    BY DEF Occurs
  <2> HIDE DEF h
  <2>2. h[i].corr = o /\ \E j \in 1..Len(s) : s[j] = h[i]
    BY <1>1, <2>1 DEF Kept
  <2> QED
    BY <1>1, <2>2 DEF CanRollback, Occurs
<1>3. ASSUME NEW e, Occurs(e, s), e.corr = o PROVE \E i \in DOMAIN h : h[i] = e
  <2> HIDE DEF h
  <2>1. \E j \in 1..Len(s) : s[j] = e
    BY <1>3 DEF Occurs
  <2> QED
    BY <1>1, <1>3, <2>1 DEF Kept, Occurs
<1> HIDE DEF h
<1>4. /\ r \in Seq(Event) /\ DOMAIN r = DOMAIN h /\ DOMAIN h = 1..Len(h) /\ Len(h) \in Nat
      /\ \A i \in DOMAIN h : Len(h) - i + 1 \in DOMAIN h /\ r[i] = h[Len(h) - i + 1]
  BY <1>1, ReverseAt
<1> HIDE DEF r
<1>5. c = [i \in DOMAIN h |-> Counterpart(r[i])]
  <2>1. c = [i \in DOMAIN h |-> [type |-> RollbackOf[r[i].type], corr |-> o]]
    BY <1>4 DEF Compensation, r, h
  <2>2. \A i \in DOMAIN h : r[i].corr = o
    BY <1>2, <1>4
  <2> QED
    BY <2>1, <2>2 DEF Counterpart
<1> HIDE DEF c
<1>6. ASSUME NEW i \in DOMAIN h PROVE c[i] \in Event /\ r[i] \in T /\ HasRollback(r[i].type) /\ Occurs(r[i], s)
  <2>1. r[i] \in T /\ HasRollback(r[i].type) /\ Occurs(r[i], s)
    BY <1>2, <1>4
  <2> QED
    BY <1>5, <2>1, CounterpartType
<1>7. c \in Seq(Event) /\ DOMAIN c = DOMAIN h
  <2>1. c \in [1..Len(h) -> Event]
    BY <1>4, <1>5, <1>6
  <2> QED
    BY <2>1, <1>4
<1>8. ASSUME NEW x, Occurs(x, c)
      PROVE  \E e \in Event : Occurs(e, s) /\ e.corr = o /\ HasRollback(e.type) /\ x = Counterpart(e)
  <2>1. PICK i \in DOMAIN h : c[i] = x
    BY <1>7, <1>8 DEF Occurs
  <2> QED
    BY <1>5, <1>6, <2>1
<1>9. ASSUME NEW e \in Event, Occurs(e, s), e.corr = o PROVE Occurs(Counterpart(e), c)
  <2>1. PICK i \in DOMAIN h : h[i] = e
    BY <1>3, <1>9
  <2>2. Len(h) - i + 1 \in DOMAIN h /\ Len(h) - (Len(h) - i + 1) + 1 = i
    BY <1>4
  <2>3. r[Len(h) - i + 1] = e
    BY <1>4, <2>1, <2>2
  <2>4. c[Len(h) - i + 1] = Counterpart(e)
    BY <1>5, <2>2, <2>3
  <2> QED
    BY <1>7, <2>2, <2>4 DEF Occurs
<1>10. ASSUME Once(s, T) PROVE Once(c, Event)
  <2>1. Once(h, T)
    BY <1>1, <1>10 DEF Kept
  <2> SUFFICES ASSUME NEW i \in DOMAIN h, NEW j \in DOMAIN h, c[i] = c[j] PROVE i = j
    BY <1>7 DEF Once
  <2>2. Counterpart(r[i]) = Counterpart(r[j])
    BY <1>5
  <2>3. r[i] = r[j]
    BY <1>6, <2>2, CounterpartType
  <2> DEFINE a == Len(h) - i + 1
             b == Len(h) - j + 1
  <2>4. a \in DOMAIN h /\ b \in DOMAIN h /\ h[a] = h[b] /\ h[a] \in T
    BY <1>2, <1>4, <2>3
  <2>5. a = b
    BY <2>1, <2>4 DEF Once
  <2> QED
    BY <1>4, <2>5
<1>11. ASSUME NEW x, \E e \in Event : Occurs(e, s) /\ e.corr = o /\ HasRollback(e.type) /\ x = Counterpart(e)
       PROVE  Occurs(x, c)
  BY <1>9, <1>11
<1> HIDE DEF T
<1>12. \A x : Occurs(x, c) <=>
                \E e \in Event : Occurs(e, s) /\ e.corr = o /\ HasRollback(e.type) /\ x = Counterpart(e)
  BY <1>8, <1>11
<1> QED
  BY <1>7, <1>10, <1>12 DEF c, T

-----------------------------------------------------------------------------
(* The invariant, in parts.                                                *)
HeldCommands == Held(commands)
HeldEvents == Held(events)

TypeInv ==
    /\ mayReject \in Failures
    /\ account \in Seq(Event) /\ inventory \in Seq(Event)
    /\ orderTable \subseteq Orders /\ balanceTable \in Int /\ rollbacks \subseteq Orders
    /\ placing \in [Orders -> Work]
    /\ commandWork \in [Command -> Work] /\ eventWork \in [Event -> Work]

BusInv ==
    /\ HeldCommands \in Seq(Command) /\ commands = BusOf(HeldCommands)
    /\ HeldEvents \in Seq(Event) /\ events = BusOf(HeldEvents)

(* Only the first message held is worked on. *)
InHand(m, held) == held # <<>> /\ m = Head(held)

HeadInv ==
    /\ \A c \in Command : commandWork[c] # Started => InHand(c, HeldCommands)
    /\ \A e \in Event : eventWork[e] # Started => InHand(e, HeldEvents)

(* What the streams hold.  The events of an order are there once, and not  *)
(* before the order is placed.                                             *)
OfOrders == {e \in Event : e.corr \in Orders}
AccountEvent(e) ==
    \/ e = [type |-> "FundsWithdrawalFailed", corr |-> NoCorrelation]
    \/ e \in OfOrders /\ e.type \in {"OrderCreated", "FundsWithdrawn",
                                     "RollbackOrderCreated", "RollbackFundsWithdrawn"}
InventoryEvent(e) == e \in OfOrders /\ e.type = "InventoryRemoved"

AccountInv ==
    /\ \A e : Occurs(e, account) => AccountEvent(e)
    /\ Once(account, OfOrders)
    /\ \A e \in OfOrders : Occurs(e, account) => placing[e.corr].phase = "published"

InventoryInv ==
    /\ \A e : Occurs(e, inventory) => InventoryEvent(e)
    /\ Len(inventory) <= Stock

SourceInv == \A e : Occurs(e, HeldEvents) => Occurs(e, account) \/ Occurs(e, inventory)

(* The way back of every command of the saga is kept. *)
SagaCommand(c) ==
    /\ c \in Command /\ c.order \in rollbacks
    /\ \/ c.type = "RemoveInventory" /\ c.corr = c.order
       \/ c.type = "RollbackAccount" /\ c.corr \in {c.order, NoCorrelation}

WayInv ==
    /\ \A o \in rollbacks : placing[o].phase = "published"
    /\ \A o \in Orders : placing[o].todo = <<>>
    /\ \A c : Occurs(c, HeldCommands) => SagaCommand(c)
    /\ \A d \in Command : \A c : Occurs(c, commandWork[d].todo) => SagaCommand(c)
    /\ \A e \in Event : \A c : Occurs(c, eventWork[e].todo) => SagaCommand(c)

(* What was merged is not stale where it matters. *)
ViewInv ==
    /\ \A c \in Command : commandWork[c].phase = "merged" /\ c.type = "RemoveInventory" =>
           commandWork[c].view = Len(inventory)
    /\ \A c \in Command : commandWork[c].phase = "merged" /\ c.type = "RollbackAccount" =>
           /\ commandWork[c].view <= Len(account)
           /\ \A i \in DOMAIN account : account[i].corr = c.order => i <= commandWork[c].view

Inv == /\ TypeInv /\ BusInv /\ HeadInv /\ AccountInv /\ InventoryInv
       /\ SourceInv /\ WayInv /\ ViewInv

-----------------------------------------------------------------------------
(* Every step is one of these.                                             *)
OrderStep(o) == PlaceOrder(o) \/ CreateOrder(o) \/ OrderRollback(o) \/ InvalidWithdrawalAmount(o)

CommandDone(c) ==
    /\ commandWork[c].phase = "published"
    /\ HeldCommands' = Tail(HeldCommands) /\ commands' = BusOf(Tail(HeldCommands))
    /\ commandWork' = [commandWork EXCEPT ![c] = Started]
    /\ UNCHANGED <<mayReject, account, inventory, orderTable, balanceTable, rollbacks, events,
                   placing, eventWork>>

CommandStep(c) ==
    \/ MergeForCommand(c) \/ RemoveInventory(c) \/ RollbackAccount(c)
    \/ CommandRollback(c) \/ CommandPublishes(c) \/ CommandDone(c)

EventDone(e) ==
    /\ eventWork[e].phase = "published"
    /\ HeldEvents' = Tail(HeldEvents) /\ events' = BusOf(Tail(HeldEvents))
    /\ eventWork' = [eventWork EXCEPT ![e] = Started]
    /\ UNCHANGED <<mayReject, account, inventory, orderTable, balanceTable, rollbacks, commands,
                   placing, commandWork>>

EventStep(e) ==
    \/ MergeForEvent(e) \/ HandlersResolve(e) \/ HandlerRejects(e)
    \/ ProcessEvent(e) \/ EventRollback(e) \/ EventPublishes(e) \/ EventDone(e)

LEMMA HeldAreMessages ==
    ASSUME BusInv
    PROVE  HeldCommands \in Seq(Message) /\ HeldEvents \in Seq(Message)
<1>1. \A c \in Seq(Command) : c \in Seq(Message)
  BY DEF Message
<1>2. \A c \in Seq(Event) : c \in Seq(Message)
  BY DEF Message
<1> QED
  BY <1>1, <1>2 DEF BusInv

LEMMA CommandInHand ==
    ASSUME BusInv, NEW r \in commands.running
    PROVE  /\ InHand(r.msg, HeldCommands) /\ r.msg \in Command
           /\ AcknowledgeCommand(r) => CommandDone(r.msg)
<1> DEFINE c == HeldCommands
<1>1. c \in Seq(Message) /\ c \in Seq(Command) /\ commands = BusOf(c)
  BY HeldAreMessages DEF BusInv
<1> HIDE DEF c
<1>2. c # <<>> /\ r.msg = Head(c)
  BY <1>1, RunningIsHead
<1>3. r.msg \in Command
  BY <1>1, <1>2
<1>4. Bus!Acknowledge(commands, r) = BusOf(Tail(c)) /\ Tail(c) \in Seq(Message)
  BY <1>1, AcknowledgeRemoves
<1>5. Held(BusOf(Tail(c))) = Tail(c)
  BY <1>4, HeldOfBus
<1>6. ASSUME AcknowledgeCommand(r) PROVE CommandDone(r.msg)
  <2>1. commands' = BusOf(Tail(c))
    BY <1>4, <1>6 DEF AcknowledgeCommand
  <2>2. HeldCommands' = Tail(c)
    BY <1>5, <2>1 DEF HeldCommands
  <2> QED
    BY <1>6, <2>1, <2>2 DEF AcknowledgeCommand, CommandDone, c
<1> QED
  BY <1>2, <1>3, <1>6 DEF InHand, c

LEMMA EventInHand ==
    ASSUME BusInv, NEW r \in events.running
    PROVE  /\ InHand(r.msg, HeldEvents) /\ r.msg \in Event
           /\ AcknowledgeEvent(r) => EventDone(r.msg)
<1> DEFINE c == HeldEvents
<1>1. c \in Seq(Message) /\ c \in Seq(Event) /\ events = BusOf(c)
  BY HeldAreMessages DEF BusInv
<1> HIDE DEF c
<1>2. c # <<>> /\ r.msg = Head(c)
  BY <1>1, RunningIsHead
<1>3. r.msg \in Event
  BY <1>1, <1>2
<1>4. Bus!Acknowledge(events, r) = BusOf(Tail(c)) /\ Tail(c) \in Seq(Message)
  BY <1>1, AcknowledgeRemoves
<1>5. Held(BusOf(Tail(c))) = Tail(c)
  BY <1>4, HeldOfBus
<1>6. ASSUME AcknowledgeEvent(r) PROVE EventDone(r.msg)
  <2>1. events' = BusOf(Tail(c))
    BY <1>4, <1>6 DEF AcknowledgeEvent
  <2>2. HeldEvents' = Tail(c)
    BY <1>5, <2>1 DEF HeldEvents
  <2> QED
    BY <1>6, <2>1, <2>2 DEF AcknowledgeEvent, EventDone, c
<1> QED
  BY <1>2, <1>3, <1>6 DEF InHand, c

LEMMA Cases ==
    ASSUME BusInv, [Next]_vars
    PROVE  \/ UNCHANGED vars
           \/ \E o \in Orders : OrderStep(o)
           \/ \E c \in Command : InHand(c, HeldCommands) /\ CommandStep(c)
           \/ \E e \in Event : InHand(e, HeldEvents) /\ EventStep(e)
<1>1. CASE \E o \in Orders : PlaceOrder(o) \/ HandleOrder(o)
  BY <1>1 DEF OrderStep, HandleOrder
<1>2. CASE RunCommand
  <2>1. PICK r \in commands.running : HandleCommand(r)
    BY <1>2 DEF RunCommand
  <2>2. InHand(r.msg, HeldCommands) /\ r.msg \in Command /\ (AcknowledgeCommand(r) => CommandDone(r.msg))
    BY CommandInHand
  <2> QED
    BY <2>1, <2>2 DEF HandleCommand, CommandStep
<1>3. CASE RunEvent
  <2>1. PICK r \in events.running : HandleEvent(r)
    BY <1>3 DEF RunEvent
  <2>2. InHand(r.msg, HeldEvents) /\ r.msg \in Event /\ (AcknowledgeEvent(r) => EventDone(r.msg))
    BY EventInHand
  <2> QED
    BY <2>1, <2>2 DEF HandleEvent, EventStep
<1> QED
  BY <1>1, <1>2, <1>3 DEF Next, RunOrder

LEMMA EventsJoin ==
    ASSUME BusInv
    PROVE  \A ms \in Seq(Event) :
             /\ HeldEvents \o ms \in Seq(Event)
             /\ events' = PublishAll(events, ms) =>
                  HeldEvents' = HeldEvents \o ms /\ events' = BusOf(HeldEvents \o ms)
<1> SUFFICES ASSUME NEW ms \in Seq(Event)
             PROVE  /\ HeldEvents \o ms \in Seq(Event)
                    /\ events' = PublishAll(events, ms) =>
                         HeldEvents' = HeldEvents \o ms /\ events' = BusOf(HeldEvents \o ms)
  OBVIOUS
<1>1. HeldEvents \in Seq(Message) /\ HeldEvents \in Seq(Event) /\ events = BusOf(HeldEvents)
  BY HeldAreMessages DEF BusInv
<1>2. ms \in Seq(Message)
  BY DEF Message
<1>3. PublishAll(events, ms) = BusOf(HeldEvents \o ms) /\ HeldEvents \o ms \in Seq(Message)
  BY <1>1, <1>2, PublishAllJoins
<1>4. Held(BusOf(HeldEvents \o ms)) = HeldEvents \o ms
  BY <1>3, HeldOfBus
<1>5. HeldEvents \o ms \in Seq(Event)
  BY <1>1
<1>6. ASSUME events' = PublishAll(events, ms)
      PROVE  HeldEvents' = HeldEvents \o ms /\ events' = BusOf(HeldEvents \o ms)
  <2>1. events' = BusOf(HeldEvents \o ms)
    BY <1>3, <1>6
  <2>2. HeldEvents' = Held(events')
    BY DEF HeldEvents
  <2> QED
    BY <1>4, <2>1, <2>2
<1> QED
  BY <1>5, <1>6

LEMMA CommandsJoin ==
    ASSUME BusInv
    PROVE  \A ms \in Seq(Command) :
             /\ HeldCommands \o ms \in Seq(Command)
             /\ commands' = PublishAll(commands, ms) =>
                  HeldCommands' = HeldCommands \o ms /\ commands' = BusOf(HeldCommands \o ms)
<1> SUFFICES ASSUME NEW ms \in Seq(Command)
             PROVE  /\ HeldCommands \o ms \in Seq(Command)
                    /\ commands' = PublishAll(commands, ms) =>
                         HeldCommands' = HeldCommands \o ms /\ commands' = BusOf(HeldCommands \o ms)
  OBVIOUS
<1>1. HeldCommands \in Seq(Message) /\ HeldCommands \in Seq(Command) /\ commands = BusOf(HeldCommands)
  BY HeldAreMessages DEF BusInv
<1>2. ms \in Seq(Message)
  BY DEF Message
<1>3. PublishAll(commands, ms) = BusOf(HeldCommands \o ms) /\ HeldCommands \o ms \in Seq(Message)
  BY <1>1, <1>2, PublishAllJoins
<1>4. Held(BusOf(HeldCommands \o ms)) = HeldCommands \o ms
  BY <1>3, HeldOfBus
<1>5. HeldCommands \o ms \in Seq(Command)
  BY <1>1
<1>6. ASSUME commands' = PublishAll(commands, ms)
      PROVE  HeldCommands' = HeldCommands \o ms /\ commands' = BusOf(HeldCommands \o ms)
  <2>1. commands' = BusOf(HeldCommands \o ms)
    BY <1>3, <1>6
  <2>2. HeldCommands' = Held(commands')
    BY DEF HeldCommands
  <2> QED
    BY <1>4, <2>1, <2>2
<1> QED
  BY <1>5, <1>6

LEMMA HeldStays ==
    /\ commands' = commands => HeldCommands' = HeldCommands
    /\ events' = events => HeldEvents' = HeldEvents
BY DEF HeldCommands, HeldEvents

-----------------------------------------------------------------------------
(* Pieces of work, and what the handlers publish.                          *)
LEMMA WorkSteps ==
    ASSUME NEW w \in Work
    PROVE  /\ \A s \in Seq(Event) : /\ Merge(w, s) \in Work /\ Merge(w, s).phase = "merged"
                                    /\ Merge(w, s).view = Len(s) /\ Merge(w, s).todo = w.todo
           /\ \A p \in Phases : /\ Reach(w, p) \in Work /\ Reach(w, p).phase = p
                                /\ Reach(w, p).view = w.view /\ Reach(w, p).todo = w.todo
           /\ \A t \in Seq(Command) : /\ Decide(w, t) \in Work /\ Decide(w, t).phase = "decided"
                                      /\ Decide(w, t).view = w.view /\ Decide(w, t).todo = t
<1>1. ASSUME NEW s \in Seq(Event)
      PROVE  /\ Merge(w, s) \in Work /\ Merge(w, s).phase = "merged"
             /\ Merge(w, s).view = Len(s) /\ Merge(w, s).todo = w.todo
  <2>1. Len(s) \in Nat /\ "merged" \in Phases
    BY DEF Phases
  <2> QED
    BY <2>1 DEF Work, Merge
<1>2. ASSUME NEW p \in Phases
      PROVE  /\ Reach(w, p) \in Work /\ Reach(w, p).phase = p
             /\ Reach(w, p).view = w.view /\ Reach(w, p).todo = w.todo
  BY DEF Work, Reach
<1>3. ASSUME NEW t \in Seq(Command)
      PROVE  /\ Decide(w, t) \in Work /\ Decide(w, t).phase = "decided"
             /\ Decide(w, t).view = w.view /\ Decide(w, t).todo = t
  <2>1. "decided" \in Phases
    BY DEF Phases
  <2> QED
    BY <2>1 DEF Work, Decide
<1> QED
  BY <1>1, <1>2, <1>3

LEMMA StartedType ==
    Started \in Work /\ Started.phase = "started" /\ Started.view = 0 /\ Started.todo = <<>>
BY DEF Started, Work, Phases

LEMMA RollbackSagasType ==
    ASSUME NEW corr \in Correlations, NEW d \in Correlations, rollbacks \subseteq Orders
    PROVE  /\ RollbackSagas(corr) \in Seq(Command)
           /\ Correlate(RollbackSagas(corr), d) \in Seq(Command)
           /\ corr \notin rollbacks => RollbackSagas(corr) = <<>>
           /\ \A c : Occurs(c, RollbackSagas(corr)) => SagaCommand(c)
           /\ \A c : Occurs(c, Correlate(RollbackSagas(corr), corr)) => SagaCommand(c)
<1>1. CASE corr \notin rollbacks
  <2>1. RollbackSagas(corr) = <<>>
    BY <1>1 DEF RollbackSagas
  <2>2. Correlate(<<>>, d) = <<>> /\ Correlate(<<>>, corr) = <<>>
    BY DEF Correlate
  <2>3. <<>> \in Seq(Command) /\ \A c : ~Occurs(c, <<>>)
    BY NothingOccurs
  <2> QED
    BY <1>1, <2>1, <2>2, <2>3
<1>2. CASE corr \in rollbacks
  <2> DEFINE x == RollbackCommand("RollbackAccount", corr)
             y(e) == [x EXCEPT !.corr = e]
  <2>1. SagaSteps.OrderCreated = "RollbackAccount"
    BY DEF SagaSteps
  <2>2. RollbackSagas(corr) = <<x>>
    BY <1>2, <2>1 DEF RollbackSagas
  <2>3. x \in Command /\ x.type = "RollbackAccount" /\ x.order = corr /\ x.corr = NoCorrelation
    BY <1>2 DEF Command, Correlations, RollbackCommand
  <2>4. \A e \in Correlations : /\ y(e) \in Command /\ y(e).type = "RollbackAccount"
                                /\ y(e).order = corr /\ y(e).corr = e
    BY <2>3 DEF Command, Correlations
  <2>5. \A e \in Correlations : Correlate(<<x>>, e) = <<y(e)>>
    BY DEF Correlate
  <2> HIDE DEF x, y
  <2>6. \A c : Occurs(c, <<x>>) => SagaCommand(c)
    BY <1>2, <2>3, OccursInOne DEF SagaCommand
  <2>7. SagaCommand(y(corr))
    BY <1>2, <2>4 DEF SagaCommand
  <2>8. \A c : Occurs(c, <<y(corr)>>) => SagaCommand(c)
    BY <2>7, OccursInOne
  <2>9. <<x>> \in Seq(Command) /\ <<y(d)>> \in Seq(Command)
    BY <2>3, <2>4
  <2> QED
    BY <1>2, <2>2, <2>5, <2>6, <2>8, <2>9
<1> QED
  BY <1>1, <1>2

-----------------------------------------------------------------------------
(* How the streams and what the event bus holds grow.                      *)
AccountGrows(ms) ==
    /\ account' = account \o ms /\ inventory' = inventory
    /\ HeldEvents' = HeldEvents \o ms /\ events' = BusOf(HeldEvents \o ms)

InventoryGrows(ms) ==
    /\ inventory' = inventory \o ms /\ account' = account
    /\ HeldEvents' = HeldEvents \o ms /\ events' = BusOf(HeldEvents \o ms)

StreamsStay == UNCHANGED <<account, inventory, events>> /\ HeldEvents' = HeldEvents

LEMMA Commits ==
    ASSUME BusInv
    PROVE  \A ms \in Seq(Event) : /\ CommitToAccount(ms) => AccountGrows(ms)
                                  /\ CommitToInventory(ms) => InventoryGrows(ms)
BY EventsJoin DEF CommitToAccount, CommitToInventory, AccountGrows, InventoryGrows

OrderEvents(o) == <<[type |-> "OrderCreated", corr |-> o], [type |-> "FundsWithdrawn", corr |-> o]>>
Refusal == <<[type |-> "FundsWithdrawalFailed", corr |-> NoCorrelation]>>

LEMMA OrderEventsType ==
    ASSUME NEW o \in Orders
    PROVE  /\ OrderEvents(o) \in Seq(Event) /\ Once(OrderEvents(o), OfOrders)
           /\ \A m : Occurs(m, OrderEvents(o)) => m \in OfOrders /\ AccountEvent(m) /\ m.corr = o
<1> DEFINE x == [type |-> "OrderCreated", corr |-> o]
           y == [type |-> "FundsWithdrawn", corr |-> o]
<1>1. /\ x \in Event /\ y \in Event /\ x.corr = o /\ y.corr = o
      /\ x.type = "OrderCreated" /\ y.type = "FundsWithdrawn"
  BY DEF Event, EventTypes, Correlations
<1>2. OrderEvents(o) = <<x, y>>
  BY DEF OrderEvents
<1> HIDE DEF x, y
<1>3. x # y
  BY <1>1
<1>4. Once(<<x, y>>, OfOrders)
  <2>1. DOMAIN <<x, y>> = 1..2 /\ <<x, y>>[1] = x /\ <<x, y>>[2] = y
    OBVIOUS
  <2> QED
    BY <1>3, <2>1 DEF Once
<1>5. x \in OfOrders /\ y \in OfOrders /\ AccountEvent(x) /\ AccountEvent(y)
  BY <1>1 DEF OfOrders, AccountEvent
<1>6. \A m : Occurs(m, <<x, y>>) => m \in {x, y}
  BY OccursInTwo
<1>7. <<x, y>> \in Seq(Event)
  BY <1>1
<1> QED
  BY <1>1, <1>2, <1>4, <1>5, <1>6, <1>7

LEMMA RefusalType ==
    /\ Refusal \in Seq(Event) /\ Once(Refusal, OfOrders)
    /\ \A m : Occurs(m, Refusal) => m \notin OfOrders /\ AccountEvent(m) /\ m.corr = NoCorrelation
<1> DEFINE x == [type |-> "FundsWithdrawalFailed", corr |-> NoCorrelation]
<1>1. x \in Event /\ x \notin OfOrders /\ AccountEvent(x) /\ x.corr = NoCorrelation
  BY CorrelationAssumption DEF Event, EventTypes, Correlations, OfOrders, AccountEvent
<1>2. Refusal = <<x>>
  BY DEF Refusal
<1> HIDE DEF x
<1>3. \A m : Occurs(m, <<x>>) => m = x
  BY OccursInOne
<1>4. Once(<<x>>, OfOrders)
  BY DEF Once
<1> QED
  BY <1>1, <1>2, <1>3, <1>4

LEMMA CreateOrderCommits ==
    ASSUME BusInv, NEW o \in Orders, CreateOrder(o)
    PROVE  \/ StreamsStay /\ placing' = [placing EXCEPT ![o] = Reach(@, "rejected")]
           \/ /\ AccountGrows(OrderEvents(o))
              /\ placing' = [placing EXCEPT ![o] = Reach(@, "published")]
<1>1. OrderEvents(o) \in Seq(Event)
  BY OrderEventsType
<1>2. CommitToAccount(OrderEvents(o)) => AccountGrows(OrderEvents(o))
  BY <1>1, Commits
<1>3. events' = events => HeldEvents' = HeldEvents
  BY HeldStays
<1> QED
  BY <1>2, <1>3 DEF CreateOrder, StreamsStay, OrderEvents

LEMMA RefusalCommits ==
    ASSUME BusInv, WayInv, NEW o \in Orders, InvalidWithdrawalAmount(o)
    PROVE  /\ AccountGrows(Refusal)
           /\ commands' = commands /\ HeldCommands' = HeldCommands
<1>1. AccountGrows(Refusal)
  <2>1. CommitToAccount(Refusal)
    BY DEF InvalidWithdrawalAmount, Refusal
  <2> QED
    BY <2>1, RefusalType, Commits
<1>2. commands' = PublishAll(commands, <<>>)
  BY DEF InvalidWithdrawalAmount, WayInv
<1>3. HeldCommands' = HeldCommands \o <<>> /\ commands' = BusOf(HeldCommands \o <<>>)
  <2>1. <<>> \in Seq(Command)
    OBVIOUS
  <2> QED
    BY <1>2, <2>1, CommandsJoin
<1>4. HeldCommands \o <<>> = HeldCommands
  BY DEF BusInv
<1> QED
  BY <1>1, <1>3, <1>4 DEF BusInv

(* The part of a stream that was merged.                                   *)
LEMMA ViewAt ==
    ASSUME NEW s \in Seq(Event), NEW w, w.view \in Nat, w.view <= Len(s)
    PROVE  /\ View(s, w) \in Seq(Event) /\ DOMAIN View(s, w) = 1..w.view
           /\ \A i \in 1..w.view : i \in DOMAIN s /\ View(s, w)[i] = s[i]
BY DEF View

LEMMA RollbackCommits ==
    ASSUME Inv, NEW c \in Command, InHand(c, HeldCommands), RollbackAccount(c)
    PROVE  \/ /\ StreamsStay
              /\ commandWork' = [commandWork EXCEPT ![c] = Reach(@, "rejected")]
           \/ /\ commandWork' = [commandWork EXCEPT ![c] = Reach(@, "published")]
              /\ \E ms \in Seq(Event) :
                   /\ AccountGrows(ms) /\ Once(ms, OfOrders)
                   /\ \A e \in Event : Occurs(e, account) /\ e.corr = c.order => HasRollback(e.type)
                   /\ \A m : Occurs(m, ms) <=>
                        \E e \in Event : /\ Occurs(e, account) /\ e.corr = c.order
                                         /\ HasRollback(e.type) /\ m = Counterpart(e)
                   /\ \A m : Occurs(m, ms) => /\ m \in OfOrders /\ m.corr = c.order /\ AccountEvent(m)
                                              /\ ~Occurs(m, account)
<1> DEFINE w == commandWork[c]
           s == View(account, w)
           o == c.order
           ms == Compensation(s, o)
<1>1. /\ w \in Work /\ w.view \in Nat /\ account \in Seq(Event)
      /\ w.phase = "merged" /\ c.type = "RollbackAccount"
      /\ w.view <= Len(account) /\ \A i \in DOMAIN account : account[i].corr = o => i <= w.view
  BY DEF RollbackAccount, Inv, TypeInv, ViewInv, Work
<1>2. /\ s \in Seq(Event) /\ DOMAIN s = 1..w.view
      /\ \A i \in 1..w.view : i \in DOMAIN account /\ s[i] = account[i]
  BY <1>1, ViewAt
<1>3. o \in Orders
  BY DEF Command
<1>4. CASE ~CanRollback(s, o)
  <2>1. events' = events => HeldEvents' = HeldEvents
    BY HeldStays
  <2> QED
    BY <1>4, <2>1 DEF RollbackAccount, StreamsStay
<1>5. CASE CanRollback(s, o)
  <2> HIDE DEF w, o
  <2>1. \A e : Occurs(e, s) /\ e.corr = o <=> Occurs(e, account) /\ e.corr = o
    <3> HIDE DEF s
    <3>1. \A i \in DOMAIN account : account[i].corr = o => i \in 1..w.view
      BY <1>1
    <3> QED
      BY <1>2, <3>1 DEF Occurs
  <2>2. Once(s, {e \in Event : e.corr = o})
    <3>1. \A e \in Event : e.corr = o => e \in OfOrders
      BY <1>3 DEF OfOrders
    <3>2. Once(account, OfOrders)
      BY DEF Inv, AccountInv
    <3> HIDE DEF s
    <3> QED
      BY <1>2, <3>1, <3>2 DEF Once
  <2> HIDE DEF s
  <2>3. /\ ms \in Seq(Event) /\ Once(ms, Event)
        /\ \A x : Occurs(x, ms) <=>
                     \E e \in Event : Occurs(e, s) /\ e.corr = o /\ HasRollback(e.type) /\ x = Counterpart(e)
    BY <1>2, <1>5, <2>2, CompensationAt
  <2>4. AccountGrows(ms) /\ commandWork' = [commandWork EXCEPT ![c] = Reach(@, "published")]
    <3>1. CommitToAccount(ms) /\ commandWork' = [commandWork EXCEPT ![c] = Reach(@, "published")]
      BY <1>5 DEF RollbackAccount, w, o, s
    <3> QED
      BY <3>1, <2>3, Commits DEF Inv
  <2> HIDE DEF ms
  <2>5. \A e \in Event : Occurs(e, account) /\ e.corr = o => HasRollback(e.type)
    <3> SUFFICES ASSUME NEW e \in Event, Occurs(e, account), e.corr = o PROVE HasRollback(e.type)
      OBVIOUS
    <3>1. Occurs(e, s)
      BY <2>1
    <3> QED
      BY <3>1, <1>5 DEF Occurs, CanRollback
  <2>6. \A m : Occurs(m, ms) <=>
               \E e \in Event : /\ Occurs(e, account) /\ e.corr = o
                                /\ HasRollback(e.type) /\ m = Counterpart(e)
    BY <2>1, <2>3
  <2>7. ASSUME NEW m, Occurs(m, ms)
        PROVE  m \in OfOrders /\ m.corr = o /\ AccountEvent(m) /\ ~Occurs(m, account)
    <3>1. PICK e \in Event : /\ Occurs(e, account) /\ e.corr = o
                             /\ HasRollback(e.type) /\ m = Counterpart(e)
      BY <2>6, <2>7
    <3>2. m \in Event /\ m.corr = o
      BY <3>1, CounterpartType
    <3>3. m.type \in {"RollbackOrderCreated", "RollbackFundsWithdrawn"}
      BY <3>1, RollbackKinds DEF HasRollback, Kinds, Counterpart
    <3>4. ~HasRollback(m.type)
      BY <3>3, RollbackKinds DEF HasRollback, Kinds
    <3> QED
      BY <1>3, <2>5, <3>2, <3>3, <3>4 DEF OfOrders, AccountEvent
  <2>8. Once(ms, OfOrders)
    BY <2>3 DEF Once, OfOrders
  <2> QED
    BY <2>3, <2>4, <2>5, <2>6, <2>7, <2>8 DEF o
<1> QED
  BY <1>4, <1>5

LEMMA CountType ==
    ASSUME NEW s, NEW n \in Nat, DOMAIN s = 1..n, NEW type
    PROVE  /\ Count(s, type) \in Nat
           /\ (\A i \in 1..n : s[i].type = type) => Count(s, type) = n
<1>1. IsFiniteSet(1..n) /\ Cardinality(1..n) = n
  <2>1. 1 \in Int /\ n \in Int
    OBVIOUS
  <2>2. IsFiniteSet(1..n) /\ Cardinality(1..n) = IF 1 > n THEN 0 ELSE n - 1 + 1
    BY <2>1, FS_Interval
  <2> QED
    BY <2>2
<1> DEFINE t == {i \in DOMAIN s : s[i].type = type}
<1>2. IsFiniteSet(t)
  <2>1. t \subseteq 1..n
    OBVIOUS
  <2> QED
    BY <1>1, <2>1, FS_Subset
<1>3. Cardinality(t) \in Nat
  BY <1>2, FS_CardinalityType
<1>4. (\A i \in 1..n : s[i].type = type) => t = 1..n
  OBVIOUS
<1> QED
  BY <1>1, <1>3, <1>4 DEF Count

LEMMA BalanceType == ASSUME NEW s, NEW n \in Nat, DOMAIN s = 1..n PROVE Balance(s) \in Int
BY CountType, FundsAssumption DEF Balance

LEMMA WholeView == ASSUME NEW s \in Seq(Event), NEW w, w.view = Len(s) PROVE View(s, w) = s
BY DEF View

LEMMA QuantityOfStock ==
    ASSUME InventoryInv, TypeInv
    PROVE  Quantity(inventory) = Stock - Len(inventory) /\ Len(inventory) \in Nat
<1>1. Len(inventory) \in Nat /\ DOMAIN inventory = 1..Len(inventory)
  BY DEF TypeInv
<1>2. \A i \in 1..Len(inventory) : inventory[i].type = "InventoryRemoved"
  <2> SUFFICES ASSUME NEW i \in 1..Len(inventory) PROVE inventory[i].type = "InventoryRemoved"
    OBVIOUS
  <2>1. Occurs(inventory[i], inventory)
    BY <1>1 DEF Occurs
  <2> QED
    BY <2>1 DEF InventoryInv, InventoryEvent
<1>3. Count(inventory, "InventoryRemoved") = Len(inventory)
  BY <1>1, <1>2, CountType
<1> QED
  BY <1>1, <1>3 DEF Quantity

Removed(o) == <<[type |-> "InventoryRemoved", corr |-> o]>>

LEMMA RemovedType ==
    ASSUME NEW o \in Orders
    PROVE  /\ Removed(o) \in Seq(Event) /\ Len(Removed(o)) = 1
           /\ \A m : Occurs(m, Removed(o)) <=> m = [type |-> "InventoryRemoved", corr |-> o]
           /\ InventoryEvent([type |-> "InventoryRemoved", corr |-> o])
<1> DEFINE x == [type |-> "InventoryRemoved", corr |-> o]
<1>1. x \in Event /\ InventoryEvent(x)
  BY DEF Event, EventTypes, Correlations, InventoryEvent, OfOrders
<1>2. Removed(o) = <<x>>
  BY DEF Removed
<1> HIDE DEF x
<1>3. \A m : Occurs(m, <<x>>) <=> m = x
  BY OccursInOne
<1>4. <<x>> \in Seq(Event) /\ Len(<<x>>) = 1
  BY <1>1
<1> QED
  BY <1>1, <1>2, <1>3, <1>4 DEF x

LEMMA HandledIsOfSaga ==
    ASSUME Inv, NEW c \in Command, InHand(c, HeldCommands)
    PROVE  SagaCommand(c) /\ c.order \in Orders /\ placing[c.order].phase = "published"
<1>1. Occurs(c, HeldCommands)
  <2>1. 1 \in DOMAIN HeldCommands /\ HeldCommands[1] = c
    BY HeadTailAt DEF InHand, Inv, BusInv
  <2> QED
    BY <2>1 DEF Occurs
<1>2. SagaCommand(c) /\ c.order \in rollbacks
  BY <1>1 DEF Inv, WayInv, SagaCommand
<1> QED
  BY <1>2 DEF Inv, WayInv, TypeInv

LEMMA HandledIsOfStreams ==
    ASSUME Inv, NEW e \in Event, InHand(e, HeldEvents)
    PROVE  /\ Occurs(e, HeldEvents)
           /\ Occurs(e, account) \/ Occurs(e, inventory)
           /\ e.type = "OrderCreated" => /\ Occurs(e, account) /\ e.corr \in Orders
                                         /\ placing[e.corr].phase = "published"
<1>1. Occurs(e, HeldEvents)
  <2>1. 1 \in DOMAIN HeldEvents /\ HeldEvents[1] = e
    BY HeadTailAt DEF InHand, Inv, BusInv
  <2> QED
    BY <2>1 DEF Occurs
<1>2. Occurs(e, account) \/ Occurs(e, inventory)
  BY <1>1 DEF Inv, SourceInv
<1>3. ASSUME e.type = "OrderCreated"
      PROVE  Occurs(e, account) /\ e.corr \in Orders /\ placing[e.corr].phase = "published"
  <2>1. Occurs(e, account)
    BY <1>2, <1>3 DEF Inv, InventoryInv, InventoryEvent
  <2>2. AccountEvent(e) /\ e.type # "FundsWithdrawalFailed"
    BY <1>3, <2>1 DEF Inv, AccountInv
  <2>3. e \in OfOrders
    BY <2>2 DEF AccountEvent
  <2> QED
    BY <2>1, <2>3 DEF Inv, AccountInv, OfOrders
<1> QED
  BY <1>1, <1>2, <1>3

LEMMA RemovalCommits ==
    ASSUME Inv, NEW c \in Command, InHand(c, HeldCommands), RemoveInventory(c)
    PROVE  /\ c.corr \in Orders
           /\ \/ /\ StreamsStay /\ Len(inventory) = Stock
                 /\ commandWork' = [commandWork EXCEPT ![c] = Reach(@, "rejected")]
              \/ /\ InventoryGrows(Removed(c.corr)) /\ Len(inventory) < Stock
                 /\ commandWork' = [commandWork EXCEPT ![c] = Reach(@, "published")]
<1>1. c.corr \in Orders
  BY HandledIsOfSaga DEF SagaCommand, RemoveInventory
<1>2. View(inventory, commandWork[c]) = inventory
  BY WholeView DEF Inv, TypeInv, ViewInv, RemoveInventory
<1>3. Quantity(inventory) = Stock - Len(inventory) /\ Len(inventory) \in Nat /\ Len(inventory) <= Stock
  BY QuantityOfStock DEF Inv, InventoryInv
<1>4. CASE Quantity(inventory) - 1 < 0
  <2>1. /\ StreamsStay
        /\ commandWork' = [commandWork EXCEPT ![c] = Reach(@, "rejected")]
    BY <1>2, <1>4, HeldStays DEF RemoveInventory, StreamsStay
  <2> QED
    BY <1>1, <1>3, <1>4, <2>1, FundsAssumption
<1>5. CASE ~(Quantity(inventory) - 1 < 0)
  <2>1. /\ CommitToInventory(Removed(c.corr))
        /\ commandWork' = [commandWork EXCEPT ![c] = Reach(@, "published")]
    BY <1>2, <1>5 DEF RemoveInventory, Removed
  <2>2. InventoryGrows(Removed(c.corr))
    BY <1>1, <2>1, RemovedType, Commits DEF Inv
  <2> QED
    BY <1>1, <1>3, <1>5, <2>1, <2>2, FundsAssumption
<1> QED
  BY <1>4, <1>5

-----------------------------------------------------------------------------
(* What every step does to one part of the state.                          *)
LEMMA PlacingStays ==
    ASSUME Inv, [Next]_vars
    PROVE  \A o \in Orders : placing[o].phase = "published" => placing'[o].phase = "published"
<1> SUFFICES ASSUME NEW o \in Orders, placing[o].phase = "published"
             PROVE  placing'[o].phase = "published"
  OBVIOUS
<1>1. CASE placing' = placing
  BY <1>1
<1>2. ASSUME NEW p \in Orders, OrderStep(p) PROVE placing'[o].phase = "published"
  <2>1. placing[p].phase # "published"
    BY <1>2 DEF OrderStep, PlaceOrder, CreateOrder, OrderRollback, InvalidWithdrawalAmount
  <2>2. \E w : placing' = [placing EXCEPT ![p] = w]
    BY <1>2 DEF OrderStep, PlaceOrder, CreateOrder, OrderRollback, InvalidWithdrawalAmount
  <2> QED
    BY <2>1, <2>2 DEF Inv, TypeInv
<1>3. ASSUME NEW c \in Command, CommandStep(c) PROVE placing' = placing
  BY <1>3 DEF CommandStep, MergeForCommand, RemoveInventory, RollbackAccount, CommandRollback,
              CommandPublishes, CommandDone
<1>4. ASSUME NEW e \in Event, EventStep(e) PROVE placing' = placing
  BY <1>4 DEF EventStep, MergeForEvent, HandlersResolve, HandlerRejects, ProcessEvent, EventRollback,
              EventPublishes, EventDone
<1>5. UNCHANGED vars => placing' = placing
  BY DEF vars
<1> QED
  BY <1>1, <1>2, <1>3, <1>4, <1>5, Cases DEF Inv

AccountStep(ms) ==
    /\ AccountGrows(ms) /\ Once(ms, OfOrders)
    /\ \A m : Occurs(m, ms) => /\ AccountEvent(m)
                               /\ m \in OfOrders => /\ ~Occurs(m, account)
                                                    /\ placing'[m.corr].phase = "published"
    /\ \/ /\ commandWork' = commandWork
          /\ \A m \in OfOrders : Occurs(m, ms) => placing[m.corr].phase # "published"
       \/ \A c \in Command : commandWork'[c].phase # "merged"

InventoryStep ==
    /\ \E o \in Orders : InventoryGrows(Removed(o))
    /\ Len(inventory) < Stock
    /\ \A c \in Command : commandWork'[c].phase # "merged"

EventGone ==
    /\ UNCHANGED <<account, inventory>> /\ HeldEvents # <<>>
    /\ HeldEvents' = Tail(HeldEvents) /\ events' = BusOf(Tail(HeldEvents))

LEMMA OneAtATime ==
    ASSUME Inv, NEW c \in Command, InHand(c, HeldCommands), NEW w \in Work,
           commandWork' = [commandWork EXCEPT ![c] = w], w.phase # "merged"
    PROVE  \A d \in Command : commandWork'[d].phase # "merged"
<1> SUFFICES ASSUME NEW d \in Command, d # c PROVE commandWork'[d].phase # "merged"
  BY DEF Inv, TypeInv
<1>1. commandWork[d] = Started
  BY DEF Inv, HeadInv, InHand
<1> QED
  BY <1>1, StartedType DEF Inv, TypeInv

LEMMA StreamSteps ==
    ASSUME Inv, [Next]_vars
    PROVE  StreamsStay \/ EventGone \/ InventoryStep \/ \E ms \in Seq(Event) : AccountStep(ms)
<1>1. ASSUME NEW o \in Orders, OrderStep(o)
      PROVE  StreamsStay \/ \E ms \in Seq(Event) : AccountStep(ms)
  <2>1. CASE PlaceOrder(o) \/ OrderRollback(o)
    BY <2>1, HeldStays DEF PlaceOrder, OrderRollback, StreamsStay
  <2>2. CASE CreateOrder(o)
    <3>1. CASE StreamsStay
      BY <3>1
    <3>2. CASE /\ AccountGrows(OrderEvents(o))
               /\ placing' = [placing EXCEPT ![o] = Reach(@, "published")]
      <4>1. placing'[o].phase = "published"
        BY <3>2, WorkSteps DEF Inv, TypeInv, Phases
      <4>2. placing[o].phase # "published" /\ commandWork' = commandWork
        BY <2>2 DEF CreateOrder
      <4>3. \A m : Occurs(m, OrderEvents(o)) => m \in OfOrders /\ AccountEvent(m) /\ m.corr = o
        BY OrderEventsType
      <4>4. \A m \in OfOrders : m.corr = o => ~Occurs(m, account)
        BY <4>2 DEF Inv, AccountInv
      <4>5. OrderEvents(o) \in Seq(Event) /\ Once(OrderEvents(o), OfOrders)
        BY OrderEventsType
      <4>6. AccountStep(OrderEvents(o))
        BY <3>2, <4>1, <4>2, <4>3, <4>4, <4>5 DEF AccountStep
      <4> QED
        BY <4>5, <4>6
    <3> QED
      BY <2>2, <3>1, <3>2, CreateOrderCommits DEF Inv
  <2>3. CASE InvalidWithdrawalAmount(o)
    <3>1. AccountGrows(Refusal) /\ commandWork' = commandWork
      BY <2>3, RefusalCommits DEF Inv, InvalidWithdrawalAmount
    <3>2. AccountStep(Refusal) /\ Refusal \in Seq(Event)
      BY <3>1, RefusalType DEF AccountStep
    <3> QED
      BY <3>2
  <2> QED
    BY <1>1, <2>1, <2>2, <2>3 DEF OrderStep
<1>2. ASSUME NEW c \in Command, InHand(c, HeldCommands), CommandStep(c)
      PROVE  StreamsStay \/ InventoryStep \/ \E ms \in Seq(Event) : AccountStep(ms)
  <2> DEFINE reached == Reach(commandWork[c], "published")
  <2>1. reached \in Work /\ reached.phase # "merged"
    BY WorkSteps DEF Inv, TypeInv, Phases
  <2>2. commandWork' = [commandWork EXCEPT ![c] = reached] =>
          \A d \in Command : commandWork'[d].phase # "merged"
    <3> HIDE DEF reached
    <3> QED
      BY <1>2, <2>1, OneAtATime
  <2> HIDE DEF reached
  <2>3. CASE RemoveInventory(c)
    BY <1>2, <2>2, <2>3, RemovalCommits DEF InventoryStep, reached
  <2>4. CASE RollbackAccount(c)
    <3>1. CASE StreamsStay
      BY <3>1
    <3>2. CASE ~StreamsStay
      <4>1. PICK ms \in Seq(Event) :
              /\ commandWork' = [commandWork EXCEPT ![c] = reached]
              /\ AccountGrows(ms) /\ Once(ms, OfOrders)
              /\ \A m : Occurs(m, ms) => /\ m \in OfOrders /\ m.corr = c.order /\ AccountEvent(m)
                                         /\ ~Occurs(m, account)
        BY <1>2, <2>4, <3>2, RollbackCommits DEF reached
      <4>2. placing'[c.order].phase = "published"
        BY <1>2, HandledIsOfSaga, PlacingStays
      <4>3. AccountStep(ms)
        BY <2>2, <4>1, <4>2 DEF AccountStep
      <4> QED
        BY <4>3
    <3> QED
      BY <3>1, <3>2
  <2>5. CASE MergeForCommand(c) \/ CommandRollback(c) \/ CommandPublishes(c) \/ CommandDone(c)
    BY <2>5, HeldStays DEF MergeForCommand, CommandRollback, CommandPublishes, CommandDone, StreamsStay
  <2> QED
    BY <1>2, <2>3, <2>4, <2>5 DEF CommandStep
<1>3. ASSUME NEW e \in Event, InHand(e, HeldEvents), EventStep(e) PROVE StreamsStay \/ EventGone
  BY <1>3, HeldStays DEF EventStep, MergeForEvent, HandlersResolve, HandlerRejects, ProcessEvent,
                         EventRollback, EventPublishes, EventDone, StreamsStay, EventGone, InHand
<1>4. UNCHANGED vars => StreamsStay
  BY HeldStays DEF vars, StreamsStay
<1> QED
  BY <1>1, <1>2, <1>3, <1>4, Cases DEF Inv

LEMMA RollbacksGrow == ASSUME Inv, [Next]_vars PROVE rollbacks \subseteq rollbacks'
<1>1. ASSUME NEW o \in Orders, OrderStep(o) PROVE rollbacks' = rollbacks
  BY <1>1 DEF OrderStep, PlaceOrder, CreateOrder, OrderRollback, InvalidWithdrawalAmount
<1>2. ASSUME NEW c \in Command, CommandStep(c) PROVE rollbacks' = rollbacks
  BY <1>2 DEF CommandStep, MergeForCommand, RemoveInventory, RollbackAccount, CommandRollback,
              CommandPublishes, CommandDone
<1>3. ASSUME NEW e \in Event, EventStep(e) PROVE rollbacks \subseteq rollbacks'
  BY <1>3 DEF EventStep, MergeForEvent, HandlersResolve, HandlerRejects, ProcessEvent,
              StoreRollbackCommand, EventRollback, EventPublishes, EventDone
<1>4. UNCHANGED vars => rollbacks' = rollbacks
  BY DEF vars
<1> QED
  BY <1>1, <1>2, <1>3, <1>4, Cases DEF Inv

LEMMA CommandSteps ==
    ASSUME Inv, [Next]_vars
    PROVE  \/ commands' = commands /\ HeldCommands' = HeldCommands
           \/ /\ HeldCommands # <<>>
              /\ HeldCommands' = Tail(HeldCommands) /\ commands' = BusOf(Tail(HeldCommands))
           \/ \E ms \in Seq(Command) :
                /\ HeldCommands' = HeldCommands \o ms /\ commands' = BusOf(HeldCommands \o ms)
                /\ \A c : Occurs(c, ms) => SagaCommand(c)
<1> DEFINE Stays == commands' = commands /\ HeldCommands' = HeldCommands
           Gone == /\ HeldCommands # <<>>
                   /\ HeldCommands' = Tail(HeldCommands) /\ commands' = BusOf(Tail(HeldCommands))
           Joins(ms) == /\ HeldCommands' = HeldCommands \o ms /\ commands' = BusOf(HeldCommands \o ms)
                        /\ \A c : Occurs(c, ms) => SagaCommand(c)
<1>1. ASSUME NEW o \in Orders, OrderStep(o) PROVE Stays
  <2>1. CASE InvalidWithdrawalAmount(o)
    BY <2>1, RefusalCommits DEF Inv
  <2>2. CASE PlaceOrder(o) \/ CreateOrder(o) \/ OrderRollback(o)
    BY <2>2, HeldStays DEF PlaceOrder, CreateOrder, OrderRollback
  <2> QED
    BY <1>1, <2>1, <2>2 DEF OrderStep
<1>2. ASSUME NEW c \in Command, InHand(c, HeldCommands), CommandStep(c)
      PROVE  Stays \/ Gone \/ \E ms \in Seq(Command) : Joins(ms)
  <2>1. CASE CommandPublishes(c)
    <3>1. commandWork[c].todo \in Seq(Command) /\ \A d : Occurs(d, commandWork[c].todo) => SagaCommand(d)
      BY DEF Inv, TypeInv, WayInv, Work
    <3>2. commands' = PublishAll(commands, commandWork[c].todo)
      BY <2>1 DEF CommandPublishes
    <3>3. Joins(commandWork[c].todo)
      BY <3>1, <3>2, CommandsJoin DEF Inv
    <3> QED
      BY <3>1, <3>3
  <2>2. CASE MergeForCommand(c) \/ RemoveInventory(c) \/ RollbackAccount(c) \/ CommandRollback(c)
    BY <2>2, HeldStays DEF MergeForCommand, RemoveInventory, RollbackAccount, CommandRollback
  <2>3. CASE CommandDone(c)
    BY <1>2, <2>3 DEF CommandDone, InHand
  <2> QED
    BY <1>2, <2>1, <2>2, <2>3 DEF CommandStep
<1>3. ASSUME NEW e \in Event, InHand(e, HeldEvents), EventStep(e)
      PROVE  Stays \/ \E ms \in Seq(Command) : Joins(ms)
  <2>1. CASE EventPublishes(e)
    <3>1. eventWork[e].todo \in Seq(Command) /\ \A d : Occurs(d, eventWork[e].todo) => SagaCommand(d)
      BY DEF Inv, TypeInv, WayInv, Work
    <3>2. commands' = PublishAll(commands, eventWork[e].todo)
      BY <2>1 DEF EventPublishes
    <3>3. Joins(eventWork[e].todo)
      BY <3>1, <3>2, CommandsJoin DEF Inv
    <3> QED
      BY <3>1, <3>3
  <2>2. CASE ~EventPublishes(e)
    BY <1>3, <2>2, HeldStays DEF EventStep, MergeForEvent, HandlersResolve, HandlerRejects, ProcessEvent,
                                 EventRollback, EventDone
  <2> QED
    BY <2>1, <2>2
<1>4. UNCHANGED vars => Stays
  BY HeldStays DEF vars
<1> QED
  BY <1>1, <1>2, <1>3, <1>4, Cases DEF Inv

-----------------------------------------------------------------------------
(* Each part of the invariant is kept.                                     *)
LEMMA InHandGrows ==
    ASSUME NEW S, NEW s \in Seq(S), NEW ms \in Seq(S), NEW m, InHand(m, s)
    PROVE  InHand(m, s \o ms)
<1>1. Len(s) \in Nat /\ Len(s) > 0 /\ Len(ms) \in Nat
  BY DEF InHand
<1>2. Len(s \o ms) = Len(s) + Len(ms) /\ (s \o ms)[1] = s[1]
  BY <1>1
<1> QED
  BY <1>1, <1>2 DEF InHand

CommandsGrow == HeldCommands' = HeldCommands \/ \E ms \in Seq(Command) : HeldCommands' = HeldCommands \o ms
EventsGrow == HeldEvents' = HeldEvents \/ \E ms \in Seq(Event) : HeldEvents' = HeldEvents \o ms

LEMMA CommandHeadStays ==
    ASSUME Inv, CommandsGrow,
           commandWork' = commandWork
             \/ \E c \in Command : InHand(c, HeldCommands) /\ \E w : commandWork' = [commandWork EXCEPT ![c] = w]
    PROVE  \A c \in Command : commandWork'[c] # Started => InHand(c, HeldCommands')
<1> SUFFICES ASSUME NEW c \in Command, commandWork'[c] # Started PROVE InHand(c, HeldCommands')
  OBVIOUS
<1>1. InHand(c, HeldCommands)
  BY DEF Inv, TypeInv, HeadInv
<1>2. HeldCommands \in Seq(Command)
  BY DEF Inv, BusInv
<1>3. \A ms \in Seq(Command) : InHand(c, HeldCommands \o ms)
  BY <1>1, <1>2, InHandGrows
<1> QED
  BY <1>1, <1>3 DEF CommandsGrow

LEMMA EventHeadStays ==
    ASSUME Inv, EventsGrow,
           eventWork' = eventWork
             \/ \E e \in Event : InHand(e, HeldEvents) /\ \E w : eventWork' = [eventWork EXCEPT ![e] = w]
    PROVE  \A e \in Event : eventWork'[e] # Started => InHand(e, HeldEvents')
<1> SUFFICES ASSUME NEW e \in Event, eventWork'[e] # Started PROVE InHand(e, HeldEvents')
  OBVIOUS
<1>1. InHand(e, HeldEvents)
  BY DEF Inv, TypeInv, HeadInv
<1>2. HeldEvents \in Seq(Event)
  BY DEF Inv, BusInv
<1>3. \A ms \in Seq(Event) : InHand(e, HeldEvents \o ms)
  BY <1>1, <1>2, InHandGrows
<1> QED
  BY <1>1, <1>3 DEF EventsGrow

LEMMA EventsGrowUnlessDone ==
    ASSUME Inv, [Next]_vars
    PROVE  EventsGrow \/ \E e \in Event : InHand(e, HeldEvents) /\ EventDone(e)
<1>2. ASSUME NEW o \in Orders, OrderStep(o) PROVE EventsGrow
  <2>1. CASE CreateOrder(o)
    BY <2>1, CreateOrderCommits, OrderEventsType DEF EventsGrow, StreamsStay, AccountGrows, Inv
  <2>2. CASE InvalidWithdrawalAmount(o)
    BY <2>2, RefusalCommits, RefusalType DEF EventsGrow, AccountGrows, Inv
  <2>3. CASE PlaceOrder(o) \/ OrderRollback(o)
    BY <2>3, HeldStays DEF PlaceOrder, OrderRollback, EventsGrow
  <2> QED
    BY <1>2, <2>1, <2>2, <2>3 DEF OrderStep
<1>3. ASSUME NEW c \in Command, InHand(c, HeldCommands), CommandStep(c) PROVE EventsGrow
  <2>1. CASE RemoveInventory(c)
    BY <1>3, <2>1, RemovalCommits, RemovedType DEF EventsGrow, StreamsStay, InventoryGrows
  <2>2. CASE RollbackAccount(c)
    BY <1>3, <2>2, RollbackCommits DEF EventsGrow, StreamsStay, AccountGrows
  <2>3. CASE MergeForCommand(c) \/ CommandRollback(c) \/ CommandPublishes(c) \/ CommandDone(c)
    BY <2>3, HeldStays DEF MergeForCommand, CommandRollback, CommandPublishes, CommandDone, EventsGrow
  <2> QED
    BY <1>3, <2>1, <2>2, <2>3 DEF CommandStep
<1>4. ASSUME NEW e \in Event, InHand(e, HeldEvents), EventStep(e), ~EventDone(e) PROVE EventsGrow
  BY <1>4, HeldStays DEF EventStep, MergeForEvent, HandlersResolve, HandlerRejects, ProcessEvent,
                         EventRollback, EventPublishes, EventsGrow
<1>5. UNCHANGED vars => EventsGrow
  BY HeldStays DEF vars, EventsGrow
<1> QED
  BY <1>2, <1>3, <1>4, <1>5, Cases DEF Inv

LEMMA CommandsGrowUnlessDone ==
    ASSUME Inv, [Next]_vars
    PROVE  CommandsGrow \/ \E c \in Command : InHand(c, HeldCommands) /\ CommandDone(c)
<1>1. ASSUME NEW o \in Orders, OrderStep(o) PROVE CommandsGrow
  <2>1. CASE InvalidWithdrawalAmount(o)
    BY <2>1, RefusalCommits DEF CommandsGrow, Inv
  <2>2. CASE PlaceOrder(o) \/ CreateOrder(o) \/ OrderRollback(o)
    BY <2>2, HeldStays DEF PlaceOrder, CreateOrder, OrderRollback, CommandsGrow
  <2> QED
    BY <1>1, <2>1, <2>2 DEF OrderStep
<1>2. ASSUME NEW c \in Command, InHand(c, HeldCommands), CommandStep(c), ~CommandDone(c) PROVE CommandsGrow
  <2>1. CASE CommandPublishes(c)
    <3>1. commandWork[c].todo \in Seq(Command) /\ commands' = PublishAll(commands, commandWork[c].todo)
      BY <2>1 DEF CommandPublishes, Inv, TypeInv, Work
    <3> QED
      BY <3>1, CommandsJoin DEF CommandsGrow, Inv
  <2>2. CASE ~CommandPublishes(c)
    BY <1>2, <2>2, HeldStays DEF CommandStep, MergeForCommand, RemoveInventory, RollbackAccount,
                                 CommandRollback, CommandsGrow
  <2> QED
    BY <2>1, <2>2
<1>3. ASSUME NEW e \in Event, InHand(e, HeldEvents), EventStep(e) PROVE CommandsGrow
  <2>1. CASE EventPublishes(e)
    <3>1. eventWork[e].todo \in Seq(Command) /\ commands' = PublishAll(commands, eventWork[e].todo)
      BY <2>1 DEF EventPublishes, Inv, TypeInv, Work
    <3> QED
      BY <3>1, CommandsJoin DEF CommandsGrow, Inv
  <2>2. CASE ~EventPublishes(e)
    BY <1>3, <2>2, HeldStays DEF EventStep, MergeForEvent, HandlersResolve, HandlerRejects, ProcessEvent,
                                 EventRollback, EventDone, CommandsGrow
  <2> QED
    BY <2>1, <2>2
<1>4. UNCHANGED vars => CommandsGrow
  BY HeldStays DEF vars, CommandsGrow
<1> QED
  BY <1>1, <1>2, <1>3, <1>4, Cases DEF Inv

LEMMA CommandWorkSteps ==
    ASSUME Inv, [Next]_vars
    PROVE  commandWork' = commandWork
             \/ \E c \in Command : InHand(c, HeldCommands) /\ \E w : commandWork' = [commandWork EXCEPT ![c] = w]
<1>1. ASSUME NEW o \in Orders, OrderStep(o) PROVE commandWork' = commandWork
  BY <1>1 DEF OrderStep, PlaceOrder, CreateOrder, OrderRollback, InvalidWithdrawalAmount
<1>2. ASSUME NEW c \in Command, CommandStep(c) PROVE \E w : commandWork' = [commandWork EXCEPT ![c] = w]
  BY <1>2 DEF CommandStep, MergeForCommand, RemoveInventory, RollbackAccount, CommandRollback,
              CommandPublishes, CommandDone
<1>3. ASSUME NEW e \in Event, EventStep(e) PROVE commandWork' = commandWork
  BY <1>3 DEF EventStep, MergeForEvent, HandlersResolve, HandlerRejects, ProcessEvent, EventRollback,
              EventPublishes, EventDone
<1>4. UNCHANGED vars => commandWork' = commandWork
  BY DEF vars
<1> QED
  BY <1>1, <1>2, <1>3, <1>4, Cases DEF Inv

LEMMA EventWorkSteps ==
    ASSUME Inv, [Next]_vars
    PROVE  eventWork' = eventWork
             \/ \E e \in Event : InHand(e, HeldEvents) /\ \E w : eventWork' = [eventWork EXCEPT ![e] = w]
<1>1. ASSUME NEW o \in Orders, OrderStep(o) PROVE eventWork' = eventWork
  BY <1>1 DEF OrderStep, PlaceOrder, CreateOrder, OrderRollback, InvalidWithdrawalAmount
<1>2. ASSUME NEW c \in Command, CommandStep(c) PROVE eventWork' = eventWork
  BY <1>2 DEF CommandStep, MergeForCommand, RemoveInventory, RollbackAccount, CommandRollback,
              CommandPublishes, CommandDone
<1>3. ASSUME NEW e \in Event, EventStep(e) PROVE \E w : eventWork' = [eventWork EXCEPT ![e] = w]
  BY <1>3 DEF EventStep, MergeForEvent, HandlersResolve, HandlerRejects, ProcessEvent, EventRollback,
              EventPublishes, EventDone
<1>4. UNCHANGED vars => eventWork' = eventWork
  BY DEF vars
<1> QED
  BY <1>1, <1>2, <1>3, <1>4, Cases DEF Inv

LEMMA HeadStays == ASSUME Inv, [Next]_vars PROVE HeadInv'
<1>1. \A c \in Command : commandWork'[c] # Started => InHand(c, HeldCommands')
  <2>1. CASE CommandsGrow
    BY <2>1, CommandHeadStays, CommandWorkSteps
  <2>2. CASE \E c \in Command : InHand(c, HeldCommands) /\ CommandDone(c)
    <3>1. \A c \in Command : commandWork'[c] = Started
      BY <2>2 DEF CommandDone, InHand, Inv, TypeInv, HeadInv
    <3> QED
      BY <3>1
  <2> QED
    BY <2>1, <2>2, CommandsGrowUnlessDone
<1>2. \A e \in Event : eventWork'[e] # Started => InHand(e, HeldEvents')
  <2>1. CASE EventsGrow
    BY <2>1, EventHeadStays, EventWorkSteps
  <2>2. CASE \E e \in Event : InHand(e, HeldEvents) /\ EventDone(e)
    <3>1. \A e \in Event : eventWork'[e] = Started
      BY <2>2 DEF EventDone, InHand, Inv, TypeInv, HeadInv
    <3> QED
      BY <3>1
  <2> QED
    BY <2>1, <2>2, EventsGrowUnlessDone
<1> QED
  BY <1>1, <1>2 DEF HeadInv, InHand

LEMMA BusStays == ASSUME Inv, [Next]_vars PROVE BusInv'
<1>1. HeldCommands' \in Seq(Command) /\ commands' = BusOf(HeldCommands')
  <2>1. HeldCommands \in Seq(Command) /\ commands = BusOf(HeldCommands)
    BY DEF Inv, BusInv
  <2>2. \A ms \in Seq(Command) : HeldCommands \o ms \in Seq(Command)
    BY <2>1
  <2>3. HeldCommands # <<>> => Tail(HeldCommands) \in Seq(Command)
    BY <2>1
  <2> QED
    BY <2>1, <2>2, <2>3, CommandSteps
<1>2. HeldEvents' \in Seq(Event) /\ events' = BusOf(HeldEvents')
  <2>1. HeldEvents \in Seq(Event) /\ events = BusOf(HeldEvents)
    BY DEF Inv, BusInv
  <2>2. \A o \in Orders : Removed(o) \in Seq(Event)
    BY RemovedType
  <2>3. \A ms \in Seq(Event) : HeldEvents \o ms \in Seq(Event)
    BY <2>1
  <2>4. HeldEvents # <<>> => Tail(HeldEvents) \in Seq(Event)
    BY <2>1
  <2> QED
    BY <2>1, <2>2, <2>3, <2>4, StreamSteps
       DEF StreamsStay, EventGone, InventoryStep, InventoryGrows, AccountStep, AccountGrows
<1> QED
  BY <1>1, <1>2 DEF BusInv

LEMMA AccountStays == ASSUME Inv, [Next]_vars PROVE AccountInv'
<1>1. account \in Seq(Event)
  BY DEF Inv, TypeInv
<1>2. CASE account' = account
  BY <1>2, PlacingStays DEF Inv, AccountInv, OfOrders
<1>3. CASE \E ms \in Seq(Event) : AccountStep(ms)
  <2>1. PICK ms \in Seq(Event) : AccountStep(ms)
    BY <1>3
  <2>2. account' = account \o ms
    BY <2>1 DEF AccountStep, AccountGrows
  <2>3. \A m : Occurs(m, account') <=> Occurs(m, account) \/ Occurs(m, ms)
    BY <1>1, <2>2, OccursInJoined
  <2>4. Once(account', OfOrders)
    BY <1>1, <2>1, <2>2, OnceInJoined DEF AccountStep, Inv, AccountInv
  <2>5. \A m : Occurs(m, account') => AccountEvent(m)
    BY <2>1, <2>3 DEF AccountStep, Inv, AccountInv
  <2>6. \A m \in OfOrders : Occurs(m, account') => placing'[m.corr].phase = "published"
    BY <2>1, <2>3, PlacingStays DEF AccountStep, Inv, AccountInv, OfOrders
  <2> QED
    BY <2>4, <2>5, <2>6 DEF AccountInv
<1> QED
  BY <1>2, <1>3, StreamSteps DEF StreamsStay, EventGone, InventoryStep, InventoryGrows

LEMMA InventoryStays == ASSUME Inv, [Next]_vars PROVE InventoryInv'
<1>1. inventory \in Seq(Event) /\ Len(inventory) \in Nat
  BY DEF Inv, TypeInv
<1>2. CASE inventory' = inventory
  BY <1>2 DEF Inv, InventoryInv
<1>3. CASE InventoryStep
  <2>1. PICK o \in Orders : inventory' = inventory \o Removed(o)
    BY <1>3 DEF InventoryStep, InventoryGrows
  <2>2. /\ Removed(o) \in Seq(Event) /\ Len(Removed(o)) = 1
        /\ \A m : Occurs(m, Removed(o)) => InventoryEvent(m)
    BY RemovedType
  <2>3. \A m : Occurs(m, inventory') <=> Occurs(m, inventory) \/ Occurs(m, Removed(o))
    BY <1>1, <2>1, <2>2, OccursInJoined
  <2>4. Len(inventory') = Len(inventory) + 1
    <3>1. \A t \in Seq(Event) : Len(inventory \o t) = Len(inventory) + Len(t)
      BY <1>1
    <3> QED
      BY <2>1, <2>2, <3>1
  <2> QED
    BY <1>1, <1>3, <2>2, <2>3, <2>4, FundsAssumption DEF InventoryStep, Inv, InventoryInv
<1> QED
  BY <1>2, <1>3, StreamSteps DEF StreamsStay, EventGone, AccountStep, AccountGrows

LEMMA SourceStays == ASSUME Inv, [Next]_vars PROVE SourceInv'
<1>1. account \in Seq(Event) /\ inventory \in Seq(Event) /\ HeldEvents \in Seq(Event) /\ SourceInv
  BY DEF Inv, TypeInv, BusInv
<1>2. CASE StreamsStay
  BY <1>1, <1>2 DEF StreamsStay, SourceInv
<1>3. CASE EventGone
  BY <1>1, <1>3, OccursInTail DEF EventGone, SourceInv
<1>4. CASE InventoryStep
  <2>1. PICK o \in Orders : InventoryGrows(Removed(o))
    BY <1>4 DEF InventoryStep
  <2>2. Removed(o) \in Seq(Event)
    BY RemovedType
  <2>3. /\ \A m : Occurs(m, inventory') <=> Occurs(m, inventory) \/ Occurs(m, Removed(o))
        /\ \A m : Occurs(m, HeldEvents') <=> Occurs(m, HeldEvents) \/ Occurs(m, Removed(o))
    BY <1>1, <2>1, <2>2, OccursInJoined DEF InventoryGrows
  <2> QED
    BY <1>1, <2>1, <2>3 DEF SourceInv, InventoryGrows
<1>5. CASE \E ms \in Seq(Event) : AccountStep(ms)
  <2>1. PICK ms \in Seq(Event) : AccountGrows(ms)
    BY <1>5 DEF AccountStep
  <2>3. /\ \A m : Occurs(m, account') <=> Occurs(m, account) \/ Occurs(m, ms)
        /\ \A m : Occurs(m, HeldEvents') <=> Occurs(m, HeldEvents) \/ Occurs(m, ms)
    BY <1>1, <2>1, OccursInJoined DEF AccountGrows
  <2> QED
    BY <1>1, <2>1, <2>3 DEF SourceInv, AccountGrows
<1> QED
  BY <1>2, <1>3, <1>4, <1>5, StreamSteps

LEMMA PostOrderCreatedType ==
    ASSUME NEW e \in Event
    PROVE  /\ PostOrderCreated(e) = <<>> <=> e.type # "OrderCreated"
           /\ e.type = "OrderCreated" =>
                PostOrderCreated(e) = <<[type |-> "RemoveInventory", order |-> e.corr, corr |-> e.corr]>>
           /\ (e.type = "OrderCreated" => e.corr \in Orders) => PostOrderCreated(e) \in Seq(Command)
<1>1. DOMAIN SagaSteps = {"OrderCreated"}
  BY DEF SagaSteps
<1> DEFINE x == [type |-> "RemoveInventory", order |-> e.corr, corr |-> e.corr]
<1>2. e.type = "OrderCreated" => PostOrderCreated(e) = <<x>>
  BY <1>1 DEF PostOrderCreated
<1>3. e.type # "OrderCreated" => PostOrderCreated(e) = <<>>
  BY <1>1 DEF PostOrderCreated
<1>4. e.corr \in Orders => x \in Command
  BY DEF Command, Correlations
<1> HIDE DEF x
<1>5. <<x>> # <<>> /\ <<>> \in Seq(Command) /\ (x \in Command => <<x>> \in Seq(Command))
  OBVIOUS
<1> QED
  BY <1>2, <1>3, <1>4, <1>5 DEF x

LEMMA NewRollbacks ==
    ASSUME Inv, [Next]_vars, NEW o \in rollbacks', o \notin rollbacks
    PROVE  o \in Orders /\ placing[o].phase = "published"
<1>1. ~UNCHANGED vars
  BY DEF vars
<1>2. ASSUME NEW p \in Orders, OrderStep(p) PROVE FALSE
  BY <1>2 DEF OrderStep, PlaceOrder, CreateOrder, OrderRollback, InvalidWithdrawalAmount
<1>3. ASSUME NEW c \in Command, CommandStep(c) PROVE FALSE
  BY <1>3 DEF CommandStep, MergeForCommand, RemoveInventory, RollbackAccount, CommandRollback,
              CommandPublishes, CommandDone
<1>4. PICK e \in Event : InHand(e, HeldEvents) /\ EventStep(e)
  BY <1>1, <1>2, <1>3, Cases DEF Inv
<1>5. ProcessEvent(e)
  BY <1>4 DEF EventStep, MergeForEvent, HandlersResolve, HandlerRejects, EventRollback, EventPublishes,
              EventDone
<1>6. e.type = "OrderCreated" /\ o = e.corr
  BY <1>5, PostOrderCreatedType DEF ProcessEvent, StoreRollbackCommand
<1> QED
  BY <1>4, <1>6, HandledIsOfStreams

LEMMA SagaCommandStays ==
    ASSUME Inv, [Next]_vars
    PROVE  \A c : SagaCommand(c) => SagaCommand(c)'
BY RollbacksGrow DEF SagaCommand

LEMMA PlacingType ==
    ASSUME Inv, [Next]_vars
    PROVE  placing' \in [Orders -> Work] /\ \A o \in Orders : placing'[o].todo = <<>>
<1>1. placing \in [Orders -> Work] /\ (\A o \in Orders : placing[o].todo = <<>>) /\ account \in Seq(Event)
  BY DEF Inv, TypeInv, WayInv
<1>2. CASE placing' = placing
  BY <1>1, <1>2
<1>3. ASSUME NEW o \in Orders, OrderStep(o)
      PROVE  \E w \in Work : w.todo = <<>> /\ placing' = [placing EXCEPT ![o] = w]
  <2>1. placing[o] \in Work /\ placing[o].todo = <<>> /\ {"published", "rejected"} \subseteq Phases
    BY <1>1 DEF Phases
  <2>2. CASE PlaceOrder(o)
    BY <1>1, <2>1, <2>2, WorkSteps DEF PlaceOrder
  <2>3. CASE CreateOrder(o) \/ InvalidWithdrawalAmount(o)
    BY <2>1, <2>3, WorkSteps DEF CreateOrder, InvalidWithdrawalAmount
  <2>4. CASE OrderRollback(o)
    <3>1. o \notin rollbacks
      BY <2>4 DEF OrderRollback, Inv, WayInv
    <3>2. RollbackSagas(o) = <<>>
      BY <3>1 DEF RollbackSagas
    <3>3. <<>> \in Seq(Command)
      OBVIOUS
    <3> QED
      BY <2>1, <2>4, <3>2, <3>3, WorkSteps DEF OrderRollback
  <2> QED
    BY <1>3, <2>2, <2>3, <2>4 DEF OrderStep
<1>4. ASSUME NEW c \in Command, CommandStep(c) PROVE placing' = placing
  BY <1>4 DEF CommandStep, MergeForCommand, RemoveInventory, RollbackAccount, CommandRollback,
              CommandPublishes, CommandDone
<1>5. ASSUME NEW e \in Event, EventStep(e) PROVE placing' = placing
  BY <1>5 DEF EventStep, MergeForEvent, HandlersResolve, HandlerRejects, ProcessEvent, EventRollback,
              EventPublishes, EventDone
<1>6. UNCHANGED vars => placing' = placing
  BY DEF vars
<1>7. CASE \E o \in Orders : OrderStep(o)
  BY <1>1, <1>3, <1>7
<1> QED
  BY <1>2, <1>4, <1>5, <1>6, <1>7, Cases DEF Inv

LEMMA CommandWorkType ==
    ASSUME Inv, [Next]_vars
    PROVE  /\ commandWork' \in [Command -> Work]
           /\ \A d \in Command : \A c : Occurs(c, commandWork'[d].todo) => SagaCommand(c)'
<1>1. /\ commandWork \in [Command -> Work]
      /\ \A d \in Command : \A c : Occurs(c, commandWork[d].todo) => SagaCommand(c)'
  BY SagaCommandStays DEF Inv, TypeInv, WayInv
<1>2. CASE commandWork' = commandWork
  BY <1>1, <1>2
<1>3. ASSUME NEW c \in Command, InHand(c, HeldCommands), CommandStep(c)
      PROVE  \E w \in Work : /\ commandWork' = [commandWork EXCEPT ![c] = w]
                             /\ \A d : Occurs(d, w.todo) => SagaCommand(d)'
  <2>1. /\ commandWork[c] \in Work /\ {"published", "rejected"} \subseteq Phases
        /\ \A d : Occurs(d, commandWork[c].todo) => SagaCommand(d)'
    BY <1>1 DEF Phases
  <2>2. CASE MergeForCommand(c)
    <3> DEFINE s == IF c.type = "RemoveInventory" THEN inventory ELSE account
               w == Merge(commandWork[c], s)
    <3>1. s \in Seq(Event)
      BY DEF Inv, TypeInv
    <3>2. w \in Work /\ w.todo = commandWork[c].todo
      BY <2>1, <3>1, WorkSteps
    <3>3. commandWork' = [commandWork EXCEPT ![c] = w]
      BY <2>2 DEF MergeForCommand
    <3> HIDE DEF w
    <3> QED
      BY <2>1, <3>2, <3>3
  <2>3. CASE RemoveInventory(c) \/ RollbackAccount(c) \/ CommandPublishes(c)
    BY <2>1, <2>3, WorkSteps DEF RemoveInventory, RollbackAccount, CommandPublishes
  <2>4. CASE CommandRollback(c)
    <3>1. c.corr \in Correlations
      BY DEF Command
    <3>2. RollbackSagas(c.corr) \in Seq(Command) /\ \A d : Occurs(d, RollbackSagas(c.corr)) => SagaCommand(d)'
      BY <3>1, RollbackSagasType, SagaCommandStays DEF Inv, TypeInv
    <3> DEFINE w == Decide(commandWork[c], RollbackSagas(c.corr))
    <3>3. w \in Work /\ w.todo = RollbackSagas(c.corr)
      BY <2>1, <3>2, WorkSteps
    <3>4. commandWork' = [commandWork EXCEPT ![c] = w]
      BY <2>4 DEF CommandRollback
    <3> HIDE DEF w
    <3> QED
      BY <3>2, <3>3, <3>4
  <2>5. CASE CommandDone(c)
    BY <2>5, StartedType, NothingOccurs DEF CommandDone
  <2> QED
    BY <1>3, <2>2, <2>3, <2>4, <2>5 DEF CommandStep
<1>4. ASSUME NEW o \in Orders, OrderStep(o) PROVE commandWork' = commandWork
  BY <1>4 DEF OrderStep, PlaceOrder, CreateOrder, OrderRollback, InvalidWithdrawalAmount
<1>5. ASSUME NEW e \in Event, EventStep(e) PROVE commandWork' = commandWork
  BY <1>5 DEF EventStep, MergeForEvent, HandlersResolve, HandlerRejects, ProcessEvent, EventRollback,
              EventPublishes, EventDone
<1>6. UNCHANGED vars => commandWork' = commandWork
  BY DEF vars
<1>7. CASE \E c \in Command : InHand(c, HeldCommands) /\ CommandStep(c)
  <2>1. PICK c \in Command, w \in Work : /\ commandWork' = [commandWork EXCEPT ![c] = w]
                                         /\ \A d : Occurs(d, w.todo) => SagaCommand(d)'
    BY <1>3, <1>7
  <2> QED
    BY <1>1, <2>1
<1> QED
  BY <1>2, <1>4, <1>5, <1>6, <1>7, Cases DEF Inv

LEMMA EventWorkType ==
    ASSUME Inv, [Next]_vars
    PROVE  /\ eventWork' \in [Event -> Work]
           /\ \A e \in Event : \A c : Occurs(c, eventWork'[e].todo) => SagaCommand(c)'
<1>1. /\ eventWork \in [Event -> Work]
      /\ \A d \in Event : \A c : Occurs(c, eventWork[d].todo) => SagaCommand(c)'
  BY SagaCommandStays DEF Inv, TypeInv, WayInv
<1>2. CASE eventWork' = eventWork
  BY <1>1, <1>2
<1>3. ASSUME NEW e \in Event, InHand(e, HeldEvents), EventStep(e)
      PROVE  \E w \in Work : /\ eventWork' = [eventWork EXCEPT ![e] = w]
                             /\ \A d : Occurs(d, w.todo) => SagaCommand(d)'
  <2>1. /\ eventWork[e] \in Work /\ {"published", "rejected", "handled"} \subseteq Phases
        /\ \A d : Occurs(d, eventWork[e].todo) => SagaCommand(d)'
    BY <1>1 DEF Phases
  <2>2. CASE MergeForEvent(e)
    <3> DEFINE s == IF e.type = "InventoryRemoved" THEN inventory ELSE account
               w == Merge(eventWork[e], s)
    <3>1. s \in Seq(Event)
      BY DEF Inv, TypeInv
    <3>2. w \in Work /\ w.todo = eventWork[e].todo
      BY <2>1, <3>1, WorkSteps
    <3>3. eventWork' = [eventWork EXCEPT ![e] = w]
      BY <2>2 DEF MergeForEvent
    <3> HIDE DEF w
    <3> QED
      BY <2>1, <3>2, <3>3
  <2>3. CASE HandlersResolve(e) \/ HandlerRejects(e) \/ EventPublishes(e)
    BY <2>1, <2>3, WorkSteps DEF HandlersResolve, HandlerRejects, EventPublishes
  <2>4. CASE EventRollback(e)
    <3>1. e.corr \in Correlations
      BY DEF Event
    <3>2. /\ Correlate(RollbackSagas(e.corr), e.corr) \in Seq(Command)
          /\ \A d : Occurs(d, Correlate(RollbackSagas(e.corr), e.corr)) => SagaCommand(d)'
      BY <3>1, RollbackSagasType, SagaCommandStays DEF Inv, TypeInv
    <3> DEFINE w == Decide(eventWork[e], Correlate(RollbackSagas(e.corr), e.corr))
    <3>3. w \in Work /\ w.todo = Correlate(RollbackSagas(e.corr), e.corr)
      BY <2>1, <3>2, WorkSteps
    <3>4. eventWork' = [eventWork EXCEPT ![e] = w]
      BY <2>4 DEF EventRollback
    <3> HIDE DEF w
    <3> QED
      BY <3>2, <3>3, <3>4
  <2>5. CASE ProcessEvent(e)
    <3> DEFINE x == [type |-> "RemoveInventory", order |-> e.corr, corr |-> e.corr]
    <3>1. PostOrderCreated(e) \in Seq(Command) /\ (e.type = "OrderCreated" => e.corr \in Orders)
      BY <1>3, HandledIsOfStreams, PostOrderCreatedType
    <3>2. ASSUME NEW d, Occurs(d, PostOrderCreated(e)) PROVE SagaCommand(d)'
      <4>1. e.type = "OrderCreated"
        BY <3>2, PostOrderCreatedType, NothingOccurs
      <4>2. PostOrderCreated(e) = <<x>>
        BY <4>1, PostOrderCreatedType
      <4>3. x \in Command /\ x.type = "RemoveInventory" /\ x.order = e.corr /\ x.corr = e.corr
        BY <3>1, <4>1 DEF Command, Correlations
      <4> HIDE DEF x
      <4>4. d = x
        BY <3>2, <4>2, OccursInOne
      <4>5. e.corr \in rollbacks'
        BY <2>5, <4>1, PostOrderCreatedType DEF ProcessEvent, StoreRollbackCommand
      <4> QED
        BY <4>3, <4>4, <4>5 DEF SagaCommand
    <3> DEFINE w == Decide(eventWork[e], PostOrderCreated(e))
    <3>3. w \in Work /\ w.todo = PostOrderCreated(e)
      BY <2>1, <3>1, WorkSteps
    <3>4. eventWork' = [eventWork EXCEPT ![e] = w]
      BY <2>5 DEF ProcessEvent
    <3> HIDE DEF w
    <3> QED
      BY <3>2, <3>3, <3>4
  <2>6. CASE EventDone(e)
    BY <2>6, StartedType, NothingOccurs DEF EventDone
  <2> QED
    BY <1>3, <2>2, <2>3, <2>4, <2>5, <2>6 DEF EventStep
<1>4. ASSUME NEW o \in Orders, OrderStep(o) PROVE eventWork' = eventWork
  BY <1>4 DEF OrderStep, PlaceOrder, CreateOrder, OrderRollback, InvalidWithdrawalAmount
<1>5. ASSUME NEW c \in Command, CommandStep(c) PROVE eventWork' = eventWork
  BY <1>5 DEF CommandStep, MergeForCommand, RemoveInventory, RollbackAccount, CommandRollback,
              CommandPublishes, CommandDone
<1>6. UNCHANGED vars => eventWork' = eventWork
  BY DEF vars
<1>7. CASE \E e \in Event : InHand(e, HeldEvents) /\ EventStep(e)
  <2>1. PICK e \in Event, w \in Work : /\ eventWork' = [eventWork EXCEPT ![e] = w]
                                       /\ \A d : Occurs(d, w.todo) => SagaCommand(d)'
    BY <1>3, <1>7
  <2> QED
    BY <1>1, <2>1
<1> QED
  BY <1>2, <1>4, <1>5, <1>6, <1>7, Cases DEF Inv

LEMMA WayStays == ASSUME Inv, [Next]_vars PROVE WayInv'
<1>1. \A o \in rollbacks' : placing'[o].phase = "published"
  BY NewRollbacks, PlacingStays DEF Inv, TypeInv, WayInv
<1>2. \A c : Occurs(c, HeldCommands') => SagaCommand(c)'
  <2>1. HeldCommands \in Seq(Command) /\ \A c : Occurs(c, HeldCommands) => SagaCommand(c)'
    BY SagaCommandStays DEF Inv, BusInv, WayInv
  <2>2. HeldCommands # <<>> => \A c : Occurs(c, Tail(HeldCommands)) => SagaCommand(c)'
    BY <2>1, OccursInTail
  <2>3. \A ms \in Seq(Command) : (\A c : Occurs(c, ms) => SagaCommand(c)) =>
            \A c : Occurs(c, HeldCommands \o ms) => SagaCommand(c)'
    BY <2>1, OccursInJoined, SagaCommandStays
  <2> QED
    BY <2>1, <2>2, <2>3, CommandSteps
<1> QED
  BY <1>1, <1>2, PlacingType, CommandWorkType, EventWorkType DEF WayInv

LEMMA TypeStays == ASSUME Inv, [Next]_vars PROVE TypeInv'
<1>1. account' \in Seq(Event) /\ inventory' \in Seq(Event)
  <2>1. account \in Seq(Event) /\ inventory \in Seq(Event)
    BY DEF Inv, TypeInv
  <2>2. \A o \in Orders : Removed(o) \in Seq(Event)
    BY RemovedType
  <2>3. \A ms \in Seq(Event) : account \o ms \in Seq(Event) /\ inventory \o ms \in Seq(Event)
    BY <2>1
  <2> QED
    BY <2>1, <2>2, <2>3, StreamSteps
       DEF StreamsStay, EventGone, InventoryStep, InventoryGrows, AccountStep, AccountGrows
<1>2. rollbacks' \subseteq Orders
  BY NewRollbacks DEF Inv, TypeInv
<1>3. mayReject' \in Failures /\ orderTable' \subseteq Orders /\ balanceTable' \in Int
  <2>1. mayReject \in Failures /\ orderTable \subseteq Orders /\ balanceTable \in Int
    BY DEF Inv, TypeInv
  <2>2. ASSUME NEW o \in Orders, OrderStep(o) PROVE UNCHANGED <<mayReject, orderTable, balanceTable>>
    BY <2>2 DEF OrderStep, PlaceOrder, CreateOrder, OrderRollback, InvalidWithdrawalAmount
  <2>3. ASSUME NEW c \in Command, CommandStep(c) PROVE UNCHANGED <<mayReject, orderTable, balanceTable>>
    BY <2>3 DEF CommandStep, MergeForCommand, RemoveInventory, RollbackAccount, CommandRollback,
                CommandPublishes, CommandDone
  <2>4. ASSUME NEW e \in Event, EventStep(e), ~HandlersResolve(e)
        PROVE  UNCHANGED <<mayReject, orderTable, balanceTable>>
    BY <2>4 DEF EventStep, MergeForEvent, HandlerRejects, ProcessEvent, EventRollback, EventPublishes,
                EventDone
  <2>5. ASSUME NEW e \in Event, HandlersResolve(e)
        PROVE  mayReject' = mayReject /\ orderTable' \subseteq Orders /\ balanceTable' \in Int
    <3>1. eventWork[e].view \in Nat /\ account \in Seq(Event)
      BY DEF Inv, TypeInv, Work
    <3>2. DOMAIN View(account, eventWork[e]) = 1..eventWork[e].view
      BY <3>1 DEF View
    <3>3. Balance(View(account, eventWork[e])) \in Int
      BY <3>1, <3>2, BalanceType
    <3>4. SavesOrder(e) => e.corr \in Orders
      BY DEF SavesOrder, LiveOrders
    <3> QED
      BY <2>1, <2>5, <3>3, <3>4 DEF HandlersResolve
  <2>6. UNCHANGED vars => UNCHANGED <<mayReject, orderTable, balanceTable>>
    BY DEF vars
  <2> QED
    BY <2>1, <2>2, <2>3, <2>4, <2>5, <2>6, Cases DEF Inv
<1> QED
  BY <1>1, <1>2, <1>3, PlacingType, CommandWorkType, EventWorkType DEF TypeInv

LEMMA ViewStays == ASSUME Inv, [Next]_vars PROVE ViewInv'
<1>1. /\ commandWork \in [Command -> Work] /\ account \in Seq(Event) /\ inventory \in Seq(Event)
      /\ ViewInv /\ Len(account) \in Nat
  BY DEF Inv, TypeInv
<1>2. CASE \A c \in Command : commandWork'[c].phase # "merged"
  BY <1>2 DEF ViewInv
<1>3. CASE commandWork' = commandWork /\ UNCHANGED <<account, inventory>>
  BY <1>1, <1>3 DEF ViewInv
<1>4. CASE \E ms \in Seq(Event) : /\ AccountStep(ms) /\ commandWork' = commandWork
                                  /\ \A m \in OfOrders : Occurs(m, ms) => placing[m.corr].phase # "published"
  <2>1. PICK ms \in Seq(Event) :
           /\ AccountStep(ms) /\ commandWork' = commandWork
           /\ \A m \in OfOrders : Occurs(m, ms) => placing[m.corr].phase # "published"
    BY <1>4
  <2>2. account' = account \o ms /\ inventory' = inventory
    BY <2>1 DEF AccountStep, AccountGrows
  <2>3. /\ Len(account \o ms) = Len(account) + Len(ms) /\ Len(account) \in Nat /\ Len(ms) \in Nat
        /\ DOMAIN account = 1..Len(account) /\ DOMAIN (account \o ms) = 1..(Len(account) + Len(ms))
        /\ \A i \in DOMAIN account : (account \o ms)[i] = account[i]
        /\ \A i \in DOMAIN (account \o ms) :
              i \notin DOMAIN account => /\ i - Len(account) \in DOMAIN ms
                                         /\ (account \o ms)[i] = ms[i - Len(account)]
    BY <1>1, JoinedAt
  <2>4. ASSUME NEW c \in Command, commandWork[c].phase = "merged", c.type = "RollbackAccount"
        PROVE  /\ commandWork[c].view <= Len(account')
               /\ \A i \in DOMAIN account' : account'[i].corr = c.order => i <= commandWork[c].view
    <3>1. /\ commandWork[c].view \in Nat /\ commandWork[c].view <= Len(account)
          /\ \A i \in DOMAIN account : account[i].corr = c.order => i <= commandWork[c].view
      BY <1>1, <2>4 DEF ViewInv, Work
    <3>2. placing[c.order].phase = "published" /\ c.order \in Orders
      <4>1. InHand(c, HeldCommands)
        BY <2>4, StartedType DEF Inv, HeadInv
      <4> QED
        BY <4>1, HandledIsOfSaga
    <3>3. ASSUME NEW i \in DOMAIN account', account'[i].corr = c.order PROVE i \in DOMAIN account
      <4>1. SUFFICES ASSUME i \notin DOMAIN account PROVE FALSE
        OBVIOUS
      <4>2. account'[i] = ms[i - Len(account)] /\ i - Len(account) \in DOMAIN ms
        BY <2>2, <2>3, <4>1
      <4>3. Occurs(account'[i], ms) /\ account'[i] \in Event
        BY <4>2 DEF Occurs
      <4>4. account'[i] \in OfOrders
        BY <3>2, <3>3, <4>3 DEF OfOrders
      <4> QED
        BY <2>1, <3>2, <3>3, <4>3, <4>4
    <3>4. \A i \in DOMAIN account' : account'[i].corr = c.order => i <= commandWork[c].view
      BY <2>2, <2>3, <3>1, <3>3
    <3>5. commandWork[c].view <= Len(account')
      <4>1. Len(account') = Len(account) + Len(ms)
        BY <2>2, <2>3
      <4> QED
        BY <2>3, <3>1, <4>1
    <3> QED
      BY <3>4, <3>5
  <2> QED
    BY <1>1, <2>1, <2>2, <2>4 DEF ViewInv
<1>5. CASE \E c \in Command : InHand(c, HeldCommands) /\ MergeForCommand(c)
  <2>1. PICK c \in Command : InHand(c, HeldCommands) /\ MergeForCommand(c)
    BY <1>5
  <2>2. UNCHANGED <<account, inventory>>
    BY <2>1 DEF MergeForCommand
  <2>3. \A d \in Command : d # c => commandWork'[d].phase # "merged"
    BY <1>1, <2>1, StartedType DEF Inv, HeadInv, InHand, MergeForCommand
  <2>4. c.type = "RemoveInventory" => commandWork'[c].view = Len(inventory)
    BY <1>1, <2>1, WorkSteps DEF MergeForCommand
  <2>5. c.type = "RollbackAccount" => commandWork'[c].view = Len(account)
    BY <1>1, <2>1, WorkSteps DEF MergeForCommand
  <2>6. \A i \in DOMAIN account : i <= Len(account)
    BY <1>1
  <2> QED
    BY <1>1, <2>2, <2>3, <2>4, <2>5, <2>6 DEF ViewInv
<1>6. ASSUME NEW c \in Command, InHand(c, HeldCommands), CommandStep(c), ~MergeForCommand(c)
      PROVE  \A d \in Command : commandWork'[d].phase # "merged"
  <2>1. \E w \in Work : w.phase # "merged" /\ commandWork' = [commandWork EXCEPT ![c] = w]
    <3>1. commandWork[c] \in Work /\ {"published", "rejected"} \subseteq Phases
      BY <1>1 DEF Phases
    <3>2. CASE RemoveInventory(c) \/ RollbackAccount(c) \/ CommandPublishes(c)
      BY <3>1, <3>2, WorkSteps DEF RemoveInventory, RollbackAccount, CommandPublishes
    <3>3. CASE CommandRollback(c)
      <4>1. RollbackSagas(c.corr) \in Seq(Command)
        BY RollbackSagasType DEF Command, Inv, TypeInv
      <4> QED
        BY <3>1, <3>3, <4>1, WorkSteps DEF CommandRollback
    <3>4. CASE CommandDone(c)
      BY <3>4, StartedType DEF CommandDone
    <3> QED
      BY <1>6, <3>2, <3>3, <3>4 DEF CommandStep
  <2> QED
    BY <1>6, <2>1, OneAtATime
<1>7. ASSUME NEW o \in Orders, OrderStep(o) PROVE commandWork' = commandWork
  BY <1>7 DEF OrderStep, PlaceOrder, CreateOrder, OrderRollback, InvalidWithdrawalAmount
<1>8. ASSUME NEW e \in Event, EventStep(e) PROVE commandWork' = commandWork
  BY <1>8 DEF EventStep, MergeForEvent, HandlersResolve, HandlerRejects, ProcessEvent, EventRollback,
              EventPublishes, EventDone
<1>9. UNCHANGED vars => commandWork' = commandWork
  BY DEF vars
<1>10. CASE commandWork' = commandWork
  BY <1>2, <1>3, <1>4, <1>10, StreamSteps DEF StreamsStay, EventGone, InventoryStep, AccountStep
<1> QED
  BY <1>2, <1>5, <1>6, <1>7, <1>8, <1>9, <1>10, Cases DEF Inv

LEMMA InitInv == ASSUME Init PROVE Inv
<1>1. /\ commands = BusOf(<<>>) /\ events = BusOf(<<>>) /\ HeldCommands = <<>> /\ HeldEvents = <<>>
  <2>1. <<>> \in Seq(Message)
    OBVIOUS
  <2>2. Held(BusOf(<<>>)) = <<>>
    BY <2>1, HeldOfBus
  <2> QED
    BY <2>2, ReadyIsEmpty DEF Init, HeldCommands, HeldEvents
<1>2. account = <<>> /\ inventory = <<>> /\ rollbacks = {}
  BY DEF Init
<1>3. /\ \A o \in Orders : placing[o] \in Work /\ placing[o].todo = <<>>
      /\ placing \in [Orders -> Work]
  <2>1. Reach(Started, "new") \in Work /\ Reach(Started, "new").todo = <<>>
    BY StartedType, WorkSteps DEF Phases
  <2> HIDE DEF Reach
  <2> QED
    BY <2>1 DEF Init
<1>4. /\ commandWork \in [Command -> Work] /\ \A c \in Command : commandWork[c] = Started
      /\ eventWork \in [Event -> Work] /\ \A e \in Event : eventWork[e] = Started
  BY StartedType DEF Init
<1>5. <<>> \in Seq(Event) /\ <<>> \in Seq(Command) /\ Len(<<>>) = 0 /\ DOMAIN <<>> = {}
  OBVIOUS
<1>6. TypeInv
  BY <1>2, <1>3, <1>4, <1>5, FundsAssumption DEF Init, TypeInv
<1>7. BusInv /\ HeadInv
  BY <1>1, <1>4, <1>5 DEF BusInv, HeadInv
<1>8. AccountInv /\ InventoryInv /\ SourceInv
  BY <1>1, <1>2, <1>5, NothingOccurs, FundsAssumption DEF AccountInv, InventoryInv, SourceInv, Once
<1>9. WayInv
  BY <1>1, <1>2, <1>3, <1>4, StartedType, NothingOccurs DEF WayInv
<1>10. ViewInv
  BY <1>4, StartedType DEF ViewInv
<1> QED
  BY <1>6, <1>7, <1>8, <1>9, <1>10 DEF Inv

LEMMA InvStays == ASSUME Inv, [Next]_vars PROVE Inv'
<1>1. TypeInv' /\ BusInv' /\ HeadInv' /\ WayInv' /\ ViewInv'
  BY TypeStays, BusStays, HeadStays, WayStays, ViewStays
<1>2. AccountInv' /\ InventoryInv' /\ SourceInv'
  BY AccountStays, InventoryStays, SourceStays
<1> QED
  BY <1>1, <1>2 DEF Inv

LEMMA AlwaysInv == Spec => []Inv
<1>1. Init => Inv
  BY InitInv
<1>2. Inv /\ [Next]_vars => Inv'
  BY InvStays
<1> QED
  BY <1>1, <1>2, PTL DEF Spec

(* Every variable keeps its type: in particular each bus is a publisher    *)
(* whose worker has at most one message in hand, whichever handlers fail.  *)
THEOREM TypeCorrect == Spec => []TypeOK
<1>1. Inv => TypeOK
  <2> SUFFICES ASSUME Inv PROVE TypeOK
    OBVIOUS
  <2>1. commands \in Bus!Publisher /\ events \in Bus!Publisher
    BY HeldAreMessages, BusType DEF Inv, BusInv
  <2> QED
    BY <2>1 DEF Inv, TypeInv, TypeOK
<1> QED
  BY <1>1, AlwaysInv, PTL

(* No more units are taken than the inventory had, for any number of       *)
(* orders in progress: what RemoveInventoryHandler merged is never stale,  *)
(* since the command bus has one command in hand.                          *)
THEOREM StockIsNeverOversold == Spec => []NeverOversold
<1>1. Inv => NeverOversold
  BY QuantityOfStock, FundsAssumption DEF Inv, InventoryInv, NeverOversold
<1> QED
  BY <1>1, AlwaysInv, PTL

(* While the command that may fail is on its way, in a saga's answer, in   *)
(* the queue or in hand, its rollback command is in the cache.             *)
THEOREM RollbacksAreKept == Spec => []WayBackIsKept
<1>1. Inv => WayBackIsKept
  <2> SUFFICES ASSUME Inv, NEW o \in Pending("RemoveInventory") PROVE o \in rollbacks
    BY DEF WayBackIsKept
  <2>1. HeldCommands \in Seq(Command) /\ HeldCommands \in Seq(Message) /\ commands = BusOf(HeldCommands)
    BY HeldAreMessages DEF Inv, BusInv
  <2>2. \A c : Occurs(c, HeldCommands) => c.order \in rollbacks
    BY DEF Inv, WayInv, SagaCommand
  <2>3. ASSUME NEW i \in DOMAIN commands.queue PROVE commands.queue[i].order \in rollbacks
    <3>1. commands.queue = Waiting(HeldCommands)
      BY <2>1, FieldsOfAt DEF BusOf
    <3>2. HeldCommands # <<>> /\ commands.queue = Tail(HeldCommands)
      BY <2>1, <3>1, PartsOf
    <3>3. Occurs(commands.queue[i], HeldCommands)
      BY <2>1, <3>2, OccursInTail DEF Occurs
    <3> QED
      BY <2>2, <3>3
  <2>4. ASSUME NEW r \in commands.running PROVE r.msg.order \in rollbacks
    <3>1. HeldCommands # <<>> /\ r.msg = Head(HeldCommands)
      BY <2>1, RunningIsHead
    <3>2. Occurs(r.msg, HeldCommands)
      BY <2>1, <3>1, OccursInTail
    <3> QED
      BY <2>2, <3>2
  <2>5. ASSUME NEW e \in Event, NEW i \in DOMAIN eventWork[e].todo
        PROVE  eventWork[e].todo[i].order \in rollbacks
    <3>1. Occurs(eventWork[e].todo[i], eventWork[e].todo)
      BY DEF Occurs
    <3> QED
      BY <3>1 DEF Inv, WayInv, SagaCommand
  <2> QED
    BY <2>3, <2>4, <2>5 DEF Pending
<1> QED
  BY <1>1, AlwaysInv, PTL

(* However often handlers fail and rollback commands are repeated, an      *)
(* order is compensated at most once: an account whose events of the order *)
(* include a compensation cannot be rolled back again.                     *)
THEOREM OrdersAreCompensatedOnce == Spec => []CompensatedOnce
<1>1. Inv => CompensatedOnce
  <2> SUFFICES ASSUME Inv, NEW o \in Orders, NEW type \in {"RollbackFundsWithdrawn", "RollbackOrderCreated"}
               PROVE  Cardinality({i \in DOMAIN account : account[i] = [type |-> type, corr |-> o]}) <= 1
    BY DEF CompensatedOnce
  <2> DEFINE x == [type |-> type, corr |-> o]
             S == {i \in DOMAIN account : account[i] = x}
  <2>1. x \in OfOrders
    BY DEF OfOrders, Event, EventTypes, Correlations
  <2> HIDE DEF x
  <2>2. \A i, j \in S : i = j
    BY <2>1 DEF Inv, AccountInv, Once
  <2>3. S = {} \/ \E i : S = {i}
    BY <2>2
  <2>4. Cardinality({}) = 0 /\ \A i : Cardinality({i}) = 1
    BY FS_EmptySet, FS_Singleton
  <2>5. Cardinality(S) = 0 \/ Cardinality(S) = 1
    <3> HIDE DEF S
    <3> QED
      BY <2>3, <2>4
  <2> QED
    BY <2>5 DEF x
<1> QED
  BY <1>1, AlwaysInv, PTL

-----------------------------------------------------------------------------
(* From here on no handler of an event may fail.  How far a message has    *)
(* come on its bus: "none" before it is published and after it is done.    *)
EventPhase(e) == IF Occurs(e, HeldEvents) THEN eventWork[e].phase ELSE "none"
CommandPhase(c) == IF Occurs(c, HeldCommands) THEN commandWork[c].phase ELSE "none"

OrderCreated(o) == [type |-> "OrderCreated", corr |-> o]
FundsWithdrawn(o) == [type |-> "FundsWithdrawn", corr |-> o]
InventoryRemoved(o) == [type |-> "InventoryRemoved", corr |-> o]
RollbackOrderCreated(o) == [type |-> "RollbackOrderCreated", corr |-> o]
RollbackFundsWithdrawn(o) == [type |-> "RollbackFundsWithdrawn", corr |-> o]
Removal(o) == [type |-> "RemoveInventory", order |-> o, corr |-> o]
Cancellation(o) == [type |-> "RollbackAccount", order |-> o, corr |-> NoCorrelation]

(* The way of an order, as sets of orders.                                 *)
Over == {"none", "published"}
Fresh == {o \in Orders : placing[o].phase \in {"new", "merged"}}
Created == {o \in Orders : Occurs(OrderCreated(o), account)}
Ordered == {o \in Orders : EventPhase(OrderCreated(o)) \notin Over}
Removing == {o \in Orders : CommandPhase(Removal(o)) \notin Over}
Cancelling == {o \in Orders : CommandPhase(Cancellation(o)) \notin Over}
Fulfilled == {o \in Orders : Occurs(InventoryRemoved(o), inventory)}
Cancelled == {o \in Orders : Occurs(RollbackFundsWithdrawn(o), account)}

(* An order that was accepted is at one of five stages.                    *)
StageInv ==
    /\ Created = Ordered \cup Removing \cup Cancelling \cup Fulfilled \cup Cancelled
    /\ Ordered \cap (Removing \cup Cancelling \cup Fulfilled \cup Cancelled) = {}
    /\ Removing \cap (Cancelling \cup Fulfilled \cup Cancelled) = {}
    /\ Cancelling \cap (Fulfilled \cup Cancelled) = {}
    /\ Fulfilled \cap Cancelled = {}

(* Each unit that was taken is an order's, and an order is cancelled only  *)
(* when none is left.                                                      *)
UnitInv ==
    /\ IsFiniteSet(Fulfilled) /\ Cardinality(Fulfilled) = Len(inventory)
    /\ Cancelling \cup Cancelled # {} => Len(inventory) = Stock
    /\ \A o \in Orders : CommandPhase(Removal(o)) \in {"rejected", "decided"} => Len(inventory) = Stock

(* A message is held once.  The commands of an order come one after the    *)
(* other.                                                                  *)
OnceInv ==
    /\ Once(HeldEvents, OfOrders) /\ Once(HeldCommands, Command)
    /\ \A c \in Command : Occurs(c, HeldCommands) => \E o \in Orders : c \in {Removal(o), Cancellation(o)}
    /\ \A o \in Orders : CommandPhase(Removal(o)) # "none" => o \in Created \ Ordered
    /\ \A o \in Orders : CommandPhase(Cancellation(o)) # "none" => o \in Cancelling \cup Cancelled

(* The events of an order come in pairs.                                   *)
PairInv ==
    /\ \A o \in Orders : Occurs(FundsWithdrawn(o), account) <=> o \in Created
    /\ \A o \in Orders : Occurs(RollbackOrderCreated(o), account) <=> o \in Cancelled

(* No handler of an event rejects, nor the rollback of an account, and     *)
(* what is about to be published is the next command of the order.         *)
TodoInv ==
    /\ \A e \in Event : eventWork[e].phase # "rejected"
    /\ \A e \in Event : eventWork[e].phase = "decided" => eventWork[e].todo = PostOrderCreated(e)
    /\ \A o \in Orders : commandWork[Cancellation(o)].phase \notin {"rejected", "decided"}
    /\ \A o \in Orders : commandWork[Removal(o)].phase = "decided" =>
                            commandWork[Removal(o)].todo = <<Cancellation(o)>>

(* The projections are behind by the events that are not handled yet.      *)
Unhandled(e) == EventPhase(e) \in {"started", "merged"}

(* A row is in the table from its order's handler until its rollback's.    *)
InTable(o) ==
    /\ o \in Created /\ ~Unhandled(OrderCreated(o))
    /\ o \in Cancelled => Unhandled(RollbackOrderCreated(o))

TableInv == \A o \in Orders : o \in orderTable <=> InTable(o)

(* The balance that is shown is that of a part of the account; what came   *)
(* after is not handled yet.                                               *)
Shows(v) ==
    /\ balanceTable = Balance(SubSeq(account, 1, v))
    /\ \A i \in (v + 1)..Len(account) : account[i].type = "FundsWithdrawn" => Unhandled(account[i])

BalanceInv == Cancelled # {} \/ \E v \in 0..Len(account) : Shows(v)

(* What came after the account was merged for an event waits behind it.    *)
FreshView(w, s) ==
    /\ w.view <= Len(s)
    /\ \A i \in DOMAIN s : w.view < i /\ s[i] \in OfOrders => EventPhase(s[i]) = "started"

FreshViewInv ==
    \A e \in Event : eventWork[e].phase = "merged" /\ e.type # "InventoryRemoved" =>
        FreshView(eventWork[e], account)

Orderly == /\ StageInv /\ UnitInv /\ OnceInv /\ PairInv
           /\ TodoInv /\ TableInv /\ BalanceInv /\ FreshViewInv

OInv == mayReject = {} => Orderly

-----------------------------------------------------------------------------
(* What the steps of a bus do to the phases of its messages.               *)
LEMMA HeadOccurs ==
    ASSUME NEW S, NEW s \in Seq(S), NEW m, InHand(m, s)
    PROVE  Occurs(m, s) /\ \A d : Occurs(d, s) <=> d = m \/ Occurs(d, Tail(s))
<1>1. s # <<>> /\ m = Head(s)
  BY DEF InHand
<1>2. \A d : Occurs(d, s) <=> d = Head(s) \/ Occurs(d, Tail(s))
  BY <1>1, OccursInTail
<1> QED
  BY <1>1, <1>2

LEMMA EventWorked ==
    ASSUME Inv, NEW e \in Event, InHand(e, HeldEvents), NEW w,
           eventWork' = [eventWork EXCEPT ![e] = w], HeldEvents' = HeldEvents
    PROVE  /\ eventWork'[e] = w /\ EventPhase(e) = eventWork[e].phase /\ EventPhase(e)' = w.phase
           /\ \A d \in Event \ {e} : eventWork'[d] = eventWork[d] /\ EventPhase(d)' = EventPhase(d)
<1>1. Occurs(e, HeldEvents)
  BY HeadOccurs DEF Inv, BusInv
<1>2. eventWork'[e] = w /\ \A d \in Event \ {e} : eventWork'[d] = eventWork[d]
  BY DEF Inv, TypeInv
<1> QED
  BY <1>1, <1>2 DEF EventPhase

LEMMA EventGoes ==
    ASSUME Inv, Once(HeldEvents, OfOrders), NEW e \in Event, InHand(e, HeldEvents), EventDone(e)
    PROVE  /\ EventPhase(e) = "published" /\ (e \in OfOrders => EventPhase(e)' = "none")
           /\ \A d \in Event \ {e} : EventPhase(d)' = EventPhase(d)
<1>1. Occurs(e, HeldEvents) /\ \A d : Occurs(d, HeldEvents) <=> d = e \/ Occurs(d, Tail(HeldEvents))
  BY HeadOccurs DEF Inv, BusInv
<1>2. e \in OfOrders => ~Occurs(e, Tail(HeldEvents))
  BY OnceInTail DEF Inv, BusInv, InHand
<1>3. \A d \in Event \ {e} : eventWork'[d] = eventWork[d]
  BY DEF Inv, TypeInv, EventDone
<1> QED
  BY <1>1, <1>2, <1>3 DEF EventPhase, EventDone

LEMMA EventsAdded ==
    ASSUME Inv, NEW ms \in Seq(Event), HeldEvents' = HeldEvents \o ms, eventWork' = eventWork
    PROVE  \A d \in Event : EventPhase(d)' = IF ~Occurs(d, HeldEvents) /\ Occurs(d, ms)
                                             THEN "started" ELSE EventPhase(d)
<1> SUFFICES ASSUME NEW d \in Event
             PROVE  EventPhase(d)' = IF ~Occurs(d, HeldEvents) /\ Occurs(d, ms)
                                     THEN "started" ELSE EventPhase(d)
  OBVIOUS
<1>1. Occurs(d, HeldEvents \o ms) <=> Occurs(d, HeldEvents) \/ Occurs(d, ms)
  BY OccursInJoined DEF Inv, BusInv
<1>2. ~Occurs(d, HeldEvents) => eventWork[d] = Started
  BY HeadOccurs DEF Inv, BusInv, HeadInv
<1> QED
  BY <1>1, <1>2, StartedType DEF EventPhase

LEMMA EventsRest ==
    ASSUME HeldEvents' = HeldEvents, eventWork' = eventWork
    PROVE  \A d \in Event : EventPhase(d)' = EventPhase(d)
BY DEF EventPhase

LEMMA CommandWorked ==
    ASSUME Inv, NEW c \in Command, InHand(c, HeldCommands), NEW w,
           commandWork' = [commandWork EXCEPT ![c] = w], HeldCommands' = HeldCommands
    PROVE  /\ commandWork'[c] = w /\ CommandPhase(c) = commandWork[c].phase /\ CommandPhase(c)' = w.phase
           /\ \A d \in Command \ {c} : commandWork'[d] = commandWork[d] /\ CommandPhase(d)' = CommandPhase(d)
<1>1. Occurs(c, HeldCommands)
  BY HeadOccurs DEF Inv, BusInv
<1>2. commandWork'[c] = w /\ \A d \in Command \ {c} : commandWork'[d] = commandWork[d]
  BY DEF Inv, TypeInv
<1> QED
  BY <1>1, <1>2 DEF CommandPhase

LEMMA CommandGoes ==
    ASSUME Inv, Once(HeldCommands, Command), NEW c \in Command, InHand(c, HeldCommands), CommandDone(c)
    PROVE  /\ CommandPhase(c) = "published" /\ CommandPhase(c)' = "none"
           /\ \A d \in Command \ {c} : CommandPhase(d)' = CommandPhase(d)
<1>1. Occurs(c, HeldCommands) /\ \A d : Occurs(d, HeldCommands) <=> d = c \/ Occurs(d, Tail(HeldCommands))
  BY HeadOccurs DEF Inv, BusInv
<1>2. ~Occurs(c, Tail(HeldCommands))
  BY OnceInTail DEF Inv, BusInv, InHand
<1>3. \A d \in Command \ {c} : commandWork'[d] = commandWork[d]
  BY DEF Inv, TypeInv, CommandDone
<1> QED
  BY <1>1, <1>2, <1>3 DEF CommandPhase, CommandDone

LEMMA CommandsAdded ==
    ASSUME Inv, NEW ms \in Seq(Command), HeldCommands' = HeldCommands \o ms, NEW C \in SUBSET Command,
           \A d \in Command \ C : commandWork'[d] = commandWork[d]
    PROVE  \A d \in Command \ C : CommandPhase(d)' = IF ~Occurs(d, HeldCommands) /\ Occurs(d, ms)
                                                     THEN "started" ELSE CommandPhase(d)
<1> SUFFICES ASSUME NEW d \in Command \ C
             PROVE  CommandPhase(d)' = IF ~Occurs(d, HeldCommands) /\ Occurs(d, ms)
                                       THEN "started" ELSE CommandPhase(d)
  OBVIOUS
<1>1. Occurs(d, HeldCommands \o ms) <=> Occurs(d, HeldCommands) \/ Occurs(d, ms)
  BY OccursInJoined DEF Inv, BusInv
<1>2. ~Occurs(d, HeldCommands) => commandWork[d] = Started
  BY HeadOccurs DEF Inv, BusInv, HeadInv
<1> QED
  BY <1>1, <1>2, StartedType DEF CommandPhase

LEMMA CommandsRest ==
    ASSUME HeldCommands' = HeldCommands, commandWork' = commandWork
    PROVE  \A d \in Command : CommandPhase(d)' = CommandPhase(d)
BY DEF CommandPhase

-----------------------------------------------------------------------------
(* The events and the commands of an order.                                *)
LEMMA EventsOfOrder ==
    ASSUME NEW o \in Orders
    PROVE  /\ OrderCreated(o) \in OfOrders /\ OrderCreated(o).type = "OrderCreated"
           /\ OrderCreated(o).corr = o
           /\ FundsWithdrawn(o) \in OfOrders /\ FundsWithdrawn(o).type = "FundsWithdrawn"
           /\ FundsWithdrawn(o).corr = o
           /\ InventoryRemoved(o) \in OfOrders /\ InventoryRemoved(o).type = "InventoryRemoved"
           /\ InventoryRemoved(o).corr = o
           /\ RollbackOrderCreated(o) \in OfOrders
           /\ RollbackOrderCreated(o).type = "RollbackOrderCreated"
           /\ RollbackOrderCreated(o).corr = o
           /\ RollbackFundsWithdrawn(o) \in OfOrders
           /\ RollbackFundsWithdrawn(o).type = "RollbackFundsWithdrawn"
           /\ RollbackFundsWithdrawn(o).corr = o
BY DEF OfOrders, Event, EventTypes, Correlations, OrderCreated, FundsWithdrawn, InventoryRemoved,
       RollbackOrderCreated, RollbackFundsWithdrawn

LEMMA CommandsOfOrder ==
    ASSUME NEW o \in Orders
    PROVE  /\ Removal(o) \in Command /\ Removal(o).type = "RemoveInventory" /\ Removal(o).order = o
           /\ Removal(o).corr = o
           /\ Cancellation(o) \in Command /\ Cancellation(o).type = "RollbackAccount"
           /\ Cancellation(o).order = o /\ Cancellation(o).corr = NoCorrelation
BY DEF Command, Correlations, Removal, Cancellation

LEMMA OrderOfEvent ==
    ASSUME NEW e \in OfOrders
    PROVE  /\ e \in Event /\ e.corr \in Orders
           /\ e.type = "OrderCreated" => e = OrderCreated(e.corr)
           /\ e.type = "FundsWithdrawn" => e = FundsWithdrawn(e.corr)
           /\ e.type = "InventoryRemoved" => e = InventoryRemoved(e.corr)
           /\ e.type = "RollbackOrderCreated" => e = RollbackOrderCreated(e.corr)
           /\ e.type = "RollbackFundsWithdrawn" => e = RollbackFundsWithdrawn(e.corr)
BY DEF OfOrders, Event, EventTypes, Correlations, OrderCreated, FundsWithdrawn, InventoryRemoved,
       RollbackOrderCreated, RollbackFundsWithdrawn

(* Where each of them is found.                                            *)
LEMMA FoundInStreams ==
    ASSUME Inv
    PROVE  /\ \A e \in OfOrders : Occurs(e, HeldEvents) => Occurs(e, account) \/ Occurs(e, inventory)
           /\ \A e \in OfOrders : Occurs(e, account) => e.type # "InventoryRemoved"
           /\ \A e \in OfOrders : Occurs(e, inventory) => e.type = "InventoryRemoved"
           /\ \A e \in OfOrders : ~Occurs(e, account) /\ ~Occurs(e, inventory) => EventPhase(e) = "none"
           /\ \A o \in Fresh : \A e \in OfOrders : e.corr = o => ~Occurs(e, account)
BY DEF Inv, SourceInv, AccountInv, InventoryInv, AccountEvent, InventoryEvent, EventPhase, Fresh

-----------------------------------------------------------------------------
(* What a step does to an order.                                           *)
EventMoves(e, from, to) == EventPhase(e) = from /\ EventPhase(e)' = to
CommandMoves(c, from, to) == CommandPhase(c) = from /\ CommandPhase(c)' = to
Others(E, C) ==
    /\ \A d \in OfOrders \ E : EventPhase(d)' = EventPhase(d)
    /\ \A c \in Command \ C : CommandPhase(c)' = CommandPhase(c)
AccountGains(T) == \A d \in OfOrders : Occurs(d, account') <=> Occurs(d, account) \/ d \in T

Waits ==
    /\ AccountGains({}) /\ UNCHANGED <<inventory, orderTable>>
    /\ Others({}, {}) /\ Fresh' = Fresh

Refused(o) ==
    /\ o \in Fresh /\ Fresh' = Fresh \ {o}
    /\ AccountGains({}) /\ UNCHANGED <<inventory, orderTable>> /\ Others({}, {})

Accepted(o) ==
    /\ o \in Fresh /\ Fresh' = Fresh \ {o}
    /\ AccountGains({OrderCreated(o), FundsWithdrawn(o)}) /\ UNCHANGED <<inventory, orderTable>>
    /\ EventMoves(OrderCreated(o), "none", "started") /\ EventMoves(FundsWithdrawn(o), "none", "started")
    /\ Others({OrderCreated(o), FundsWithdrawn(o)}, {})

EventAdvances(e) ==
    /\ \/ EventMoves(e, "started", "merged") \/ EventMoves(e, "handled", "decided")
       \/ EventMoves(e, "published", "none")
       \/ e.type # "OrderCreated" /\ EventMoves(e, "decided", "published")
    /\ AccountGains({}) /\ UNCHANGED <<inventory, orderTable>>
    /\ Others({e}, {}) /\ Fresh' = Fresh

EventHandled(e) ==
    /\ HandlersResolve(e) /\ EventMoves(e, "merged", "handled")
    /\ orderTable' = IF e.type = "OrderCreated" THEN orderTable \cup {e.corr}
                     ELSE IF e.type = "RollbackOrderCreated" THEN orderTable \ {e.corr} ELSE orderTable
    /\ AccountGains({}) /\ inventory' = inventory
    /\ Others({e}, {}) /\ Fresh' = Fresh

RemovalSent(o) ==
    /\ EventMoves(OrderCreated(o), "decided", "published") /\ CommandMoves(Removal(o), "none", "started")
    /\ HeldCommands' = HeldCommands \o <<Removal(o)>>
    /\ AccountGains({}) /\ UNCHANGED <<inventory, orderTable>>
    /\ Others({OrderCreated(o)}, {Removal(o)}) /\ Fresh' = Fresh

CommandAdvances(c) ==
    /\ \/ CommandMoves(c, "started", "merged") \/ CommandMoves(c, "published", "none")
       \/ CommandMoves(c, "rejected", "decided") /\ c.type = "RemoveInventory"
    /\ AccountGains({}) /\ UNCHANGED <<inventory, orderTable>>
    /\ Others({}, {c}) /\ Fresh' = Fresh

RemovalDone(o) ==
    /\ CommandMoves(Removal(o), "merged", "published")
    /\ EventPhase(InventoryRemoved(o))' = "started"
    /\ Len(inventory) < Stock /\ inventory' = inventory \o Removed(o)
    /\ AccountGains({}) /\ orderTable' = orderTable
    /\ Others({InventoryRemoved(o)}, {Removal(o)}) /\ Fresh' = Fresh

RemovalFails(o) ==
    /\ CommandMoves(Removal(o), "merged", "rejected") /\ Len(inventory) = Stock
    /\ AccountGains({}) /\ UNCHANGED <<inventory, orderTable>>
    /\ Others({}, {Removal(o)}) /\ Fresh' = Fresh

CancellationSent(o) ==
    /\ CommandMoves(Removal(o), "decided", "published") /\ CommandMoves(Cancellation(o), "none", "started")
    /\ HeldCommands' = HeldCommands \o <<Cancellation(o)>>
    /\ AccountGains({}) /\ UNCHANGED <<inventory, orderTable>>
    /\ Others({}, {Removal(o), Cancellation(o)}) /\ Fresh' = Fresh

CancellationDone(o) ==
    /\ CommandMoves(Cancellation(o), "merged", "published")
    /\ EventPhase(RollbackOrderCreated(o))' = "started"
    /\ EventPhase(RollbackFundsWithdrawn(o))' = "started"
    /\ AccountGains({RollbackOrderCreated(o), RollbackFundsWithdrawn(o)})
    /\ UNCHANGED <<inventory, orderTable>>
    /\ Others({RollbackOrderCreated(o), RollbackFundsWithdrawn(o)}, {Cancellation(o)}) /\ Fresh' = Fresh

OrderMoves(o) ==
    \/ Refused(o) \/ Accepted(o) \/ RemovalSent(o) \/ RemovalDone(o) \/ RemovalFails(o)
    \/ CancellationSent(o) \/ CancellationDone(o)

Moves ==
    \/ Waits
    \/ \E o \in Orders : OrderMoves(o)
    \/ \E e \in OfOrders : EventAdvances(e) \/ EventHandled(e)
    \/ \E c \in Command : CommandAdvances(c)

Normal == mayReject = {} /\ Inv /\ Orderly

LEMMA PlacingEffect ==
    ASSUME Normal, NEW o \in Orders, OrderStep(o)
    PROVE  Waits \/ Refused(o) \/ Accepted(o)
<1> USE DEF Normal, Inv
<1>1. placing[o] \in Work
  BY DEF TypeInv
<1>2. \A p \in Phases : Reach(placing[o], p).phase = p
  BY <1>1, WorkSteps
<1>3. CASE PlaceOrder(o)
  <2>1. Merge(placing[o], account).phase = "merged"
    BY <1>1, WorkSteps DEF TypeInv
  <2>2. Fresh' = Fresh
    BY <1>3, <2>1 DEF Fresh, PlaceOrder, TypeInv
  <2>3. HeldCommands' = HeldCommands /\ HeldEvents' = HeldEvents
    BY <1>3, HeldStays DEF PlaceOrder
  <2> QED
    BY <1>3, <2>2, <2>3, EventsRest, CommandsRest DEF Waits, PlaceOrder, AccountGains, Others, OfOrders
<1>4. CASE CreateOrder(o)
  <2>1. HeldCommands' = HeldCommands /\ commandWork' = commandWork /\ eventWork' = eventWork
          /\ orderTable' = orderTable /\ placing[o].phase = "merged"
    BY <1>4, HeldStays DEF CreateOrder
  <2>2. CASE StreamsStay /\ placing' = [placing EXCEPT ![o] = Reach(@, "rejected")]
    <3>1. o \in Fresh /\ Fresh' = Fresh \ {o}
      BY <1>2, <2>1, <2>2 DEF Fresh, TypeInv, Phases
    <3> QED
      BY <2>1, <2>2, <3>1, EventsRest, CommandsRest DEF Refused, StreamsStay, AccountGains, Others, OfOrders
  <2>3. CASE AccountGrows(OrderEvents(o)) /\ placing' = [placing EXCEPT ![o] = Reach(@, "published")]
    <3>1. o \in Fresh /\ Fresh' = Fresh \ {o}
      BY <1>2, <2>1, <2>3 DEF Fresh, TypeInv, Phases
    <3>2. OrderEvents(o) \in Seq(Event)
      BY OrderEventsType
    <3>3. \A m : Occurs(m, OrderEvents(o)) <=> m \in {OrderCreated(o), FundsWithdrawn(o)}
      BY OccursInTwo DEF OrderEvents, OrderCreated, FundsWithdrawn
    <3>4. \A d \in OfOrders : Occurs(d, account') <=> Occurs(d, account) \/ d \in {OrderCreated(o), FundsWithdrawn(o)}
      BY <2>3, <3>2, <3>3, OccursInJoined DEF AccountGrows, TypeInv
    <3>5. \A d \in Event : EventPhase(d)' = IF ~Occurs(d, HeldEvents) /\ Occurs(d, OrderEvents(o))
                                            THEN "started" ELSE EventPhase(d)
      BY <2>1, <2>3, <3>2, EventsAdded DEF AccountGrows
    <3>6. ~Occurs(OrderCreated(o), account) /\ ~Occurs(FundsWithdrawn(o), account)
            /\ ~Occurs(OrderCreated(o), inventory) /\ ~Occurs(FundsWithdrawn(o), inventory)
      BY <3>1, FoundInStreams, EventsOfOrder
    <3>7. ~Occurs(OrderCreated(o), HeldEvents) /\ ~Occurs(FundsWithdrawn(o), HeldEvents)
            /\ EventPhase(OrderCreated(o)) = "none" /\ EventPhase(FundsWithdrawn(o)) = "none"
      BY <3>6, FoundInStreams, EventsOfOrder
    <3>8. /\ EventMoves(OrderCreated(o), "none", "started") /\ EventMoves(FundsWithdrawn(o), "none", "started")
          /\ Others({OrderCreated(o), FundsWithdrawn(o)}, {})
      <4>1. \A c \in Command : CommandPhase(c)' = CommandPhase(c)
        BY <2>1, CommandsRest
      <4> QED
        BY <3>3, <3>5, <3>7, <4>1, EventsOfOrder DEF EventMoves, Others, OfOrders
    <3> QED
      BY <2>1, <2>3, <3>1, <3>4, <3>8 DEF Accepted, AccountGains, AccountGrows
  <2> QED
    BY <1>4, <2>2, <2>3, CreateOrderCommits
<1>5. CASE OrderRollback(o)
  <2>1. Fresh' = Fresh
    <3>1. RollbackSagas(o) \in Seq(Command)
      BY RollbackSagasType DEF TypeInv, Correlations
    <3>2. Decide(placing[o], RollbackSagas(o)).phase = "decided"
      BY <1>1, <3>1, WorkSteps
    <3> QED
      BY <1>5, <3>2 DEF Fresh, OrderRollback, TypeInv
  <2>2. HeldCommands' = HeldCommands /\ HeldEvents' = HeldEvents
    BY <1>5, HeldStays DEF OrderRollback
  <2> QED
    BY <1>5, <2>1, <2>2, EventsRest, CommandsRest DEF Waits, OrderRollback, AccountGains, Others, OfOrders
<1>6. CASE InvalidWithdrawalAmount(o)
  <2>1. Fresh' = Fresh
    BY <1>2, <1>6 DEF Fresh, InvalidWithdrawalAmount, TypeInv, Phases
  <2>2. AccountGrows(Refusal) /\ HeldCommands' = HeldCommands
    BY <1>6, RefusalCommits
  <2>3. commandWork' = commandWork /\ eventWork' = eventWork /\ orderTable' = orderTable
    BY <1>6 DEF InvalidWithdrawalAmount
  <2>4. Refusal \in Seq(Event) /\ \A d \in OfOrders : ~Occurs(d, Refusal)
    BY RefusalType
  <2>5. \A d \in OfOrders : Occurs(d, account') <=> Occurs(d, account)
    BY <2>2, <2>4, OccursInJoined DEF AccountGrows, TypeInv
  <2>6. \A d \in OfOrders : EventPhase(d)' = EventPhase(d)
    BY <2>2, <2>3, <2>4, EventsAdded DEF AccountGrows, OfOrders
  <2> QED
    BY <2>1, <2>2, <2>3, <2>5, <2>6, CommandsRest DEF Waits, AccountGains, Others, AccountGrows
<1> QED
  BY <1>3, <1>4, <1>5, <1>6 DEF OrderStep

(* A message that is held has come as far as the work on it.               *)
LEMMA PhaseKnown ==
    ASSUME Inv
    PROVE  /\ \A c \in Command : CommandPhase(c) = "none" <=> ~Occurs(c, HeldCommands)
           /\ \A e \in Event : EventPhase(e) = "none" <=> ~Occurs(e, HeldEvents)
BY DEF CommandPhase, EventPhase, Inv, TypeInv, Work, Phases

(* The command in hand is one of the two of an order, and it is not over   *)
(* before it was carried out.                                              *)
LEMMA CommandOfOrder ==
    ASSUME Normal, NEW c \in Command, InHand(c, HeldCommands)
    PROVE  /\ CommandPhase(c) = commandWork[c].phase
           /\ \E o \in Orders : c = Removal(o) \/ c = Cancellation(o)
           /\ c.type = "RemoveInventory" => c.order \in Orders /\ c = Removal(c.order)
           /\ c.type = "RollbackAccount" => c.order \in Orders /\ c = Cancellation(c.order)
<1>1. Occurs(c, HeldCommands)
  BY HeadOccurs DEF Normal, Inv, BusInv
<1>2. PICK o \in Orders : c \in {Removal(o), Cancellation(o)}
  BY <1>1 DEF Normal, Orderly, OnceInv
<1> QED
  BY <1>1, <1>2, CommandsOfOrder DEF CommandPhase

LEMMA RemovalEffect ==
    ASSUME Normal, NEW c \in Command, InHand(c, HeldCommands), RemoveInventory(c)
    PROVE  \E o \in Orders : RemovalDone(o) \/ RemovalFails(o)
<1> USE DEF Normal, Inv
<1>1. PICK o \in Orders : c = Removal(o)
  BY CommandOfOrder DEF RemoveInventory
<1>2. c.corr = o
  BY <1>1, CommandsOfOrder
<1>3. UNCHANGED <<orderTable, commands, placing, eventWork>> /\ commandWork[c].phase = "merged"
  BY DEF RemoveInventory
<1>4. HeldCommands' = HeldCommands /\ Fresh' = Fresh
  BY <1>3, HeldStays DEF Fresh
<1>5. commandWork[c] \in Work
  BY DEF TypeInv
<1>6. CASE StreamsStay /\ Len(inventory) = Stock /\ commandWork' = [commandWork EXCEPT ![c] = Reach(@, "rejected")]
  <2>1. Reach(commandWork[c], "rejected").phase = "rejected"
    BY <1>5, WorkSteps DEF Phases
  <2>2. CommandMoves(c, "merged", "rejected") /\ \A d \in Command \ {c} : CommandPhase(d)' = CommandPhase(d)
    BY <1>3, <1>4, <1>6, <2>1, CommandWorked DEF CommandMoves
  <2>3. \A d \in Event : EventPhase(d)' = EventPhase(d)
    BY <1>3, <1>6, EventsRest DEF StreamsStay
  <2>4. RemovalFails(o)
    BY <1>1, <1>3, <1>4, <1>6, <2>2, <2>3 DEF RemovalFails, StreamsStay, AccountGains, Others, OfOrders
  <2> QED
    BY <2>4
<1>7. CASE /\ InventoryGrows(Removed(c.corr)) /\ Len(inventory) < Stock
           /\ commandWork' = [commandWork EXCEPT ![c] = Reach(@, "published")]
  <2>1. Reach(commandWork[c], "published").phase = "published"
    BY <1>5, WorkSteps DEF Phases
  <2>2. CommandMoves(c, "merged", "published") /\ \A d \in Command \ {c} : CommandPhase(d)' = CommandPhase(d)
    BY <1>3, <1>4, <1>7, <2>1, CommandWorked DEF CommandMoves
  <2>3. o \in Removing
    BY <1>1, <2>2 DEF Removing, CommandMoves, Over
  <2>4. ~Occurs(InventoryRemoved(o), inventory)
    BY <2>3 DEF Orderly, StageInv, Fulfilled
  <2>5. ~Occurs(InventoryRemoved(o), HeldEvents)
    BY <2>4, FoundInStreams, EventsOfOrder
  <2>6. Removed(o) \in Seq(Event) /\ \A m : Occurs(m, Removed(o)) <=> m = InventoryRemoved(o)
    BY RemovedType DEF InventoryRemoved
  <2>7. \A d \in Event : EventPhase(d)' = IF ~Occurs(d, HeldEvents) /\ Occurs(d, Removed(o))
                                          THEN "started" ELSE EventPhase(d)
    BY <1>2, <1>3, <1>7, <2>6, EventsAdded DEF InventoryGrows
  <2>8. EventPhase(InventoryRemoved(o))' = "started" /\ Others({InventoryRemoved(o)}, {Removal(o)})
    BY <1>1, <2>2, <2>5, <2>6, <2>7, EventsOfOrder DEF Others, OfOrders
  <2>9. RemovalDone(o)
    BY <1>1, <1>2, <1>3, <1>4, <1>7, <2>2, <2>8 DEF RemovalDone, InventoryGrows, AccountGains
  <2> QED
    BY <2>9
<1> QED
  BY <1>6, <1>7, RemovalCommits

(* Both events of the order are there and not compensated yet: the         *)
(* rollback of the account does not throw.                                 *)
LEMMA CancellationEffect ==
    ASSUME Normal, NEW c \in Command, InHand(c, HeldCommands), RollbackAccount(c)
    PROVE  \E o \in Orders : CancellationDone(o)
<1> USE DEF Normal, Inv
<1>1. PICK o \in Orders : c = Cancellation(o)
  BY CommandOfOrder DEF RollbackAccount
<1>2. c.order = o
  BY <1>1, CommandsOfOrder
<1>3. UNCHANGED <<orderTable, commands, placing, eventWork>> /\ commandWork[c].phase = "merged"
  BY DEF RollbackAccount
<1>4. HeldCommands' = HeldCommands /\ Fresh' = Fresh
  BY <1>3, HeldStays DEF Fresh
<1>5. commandWork[c] \in Work
  BY DEF TypeInv
<1>6. o \in Cancelling
  BY <1>1, <1>3, CommandOfOrder DEF Cancelling, Over
<1>7. o \in Created /\ o \notin Cancelled
  BY <1>6 DEF Orderly, StageInv
<1>8. /\ Occurs(OrderCreated(o), account) /\ Occurs(FundsWithdrawn(o), account)
      /\ ~Occurs(RollbackOrderCreated(o), account) /\ ~Occurs(RollbackFundsWithdrawn(o), account)
  BY <1>7 DEF Orderly, PairInv, Created, Cancelled
<1>9. \A e \in OfOrders : Occurs(e, account) /\ e.corr = o => e \in {OrderCreated(o), FundsWithdrawn(o)}
  <2> SUFFICES ASSUME NEW e \in OfOrders, Occurs(e, account), e.corr = o
               PROVE  e = OrderCreated(o) \/ e = FundsWithdrawn(o)
    OBVIOUS
  <2>1. e.type \in {"OrderCreated", "FundsWithdrawn", "RollbackOrderCreated", "RollbackFundsWithdrawn"}
    BY CorrelationAssumption DEF AccountInv, AccountEvent
  <2> QED
    BY <1>8, <2>1, OrderOfEvent
<1>10. \A e : Occurs(e, account) /\ e.corr = o => e \in {OrderCreated(o), FundsWithdrawn(o)}
  BY <1>9, CorrelationAssumption DEF AccountInv, AccountEvent
<1>11. CanRollback(View(account, commandWork[c]), o)
  <2>1. commandWork[c].view \in Nat /\ commandWork[c].view <= Len(account)
    BY <1>1, <1>3, <1>5, CommandsOfOrder DEF ViewInv, Work
  <2>2. /\ DOMAIN View(account, commandWork[c]) = 1..commandWork[c].view
        /\ \A i \in 1..commandWork[c].view : i \in DOMAIN account /\ View(account, commandWork[c])[i] = account[i]
    BY <2>1, ViewAt DEF TypeInv
  <2>3. \A i \in DOMAIN account : account[i].corr = o => HasRollback(account[i].type)
    BY <1>10, EventsOfOrder, RollbackKinds DEF Occurs, HasRollback, Kinds
  <2> QED
    BY <2>2, <2>3 DEF CanRollback
<1>12. commandWork' = [commandWork EXCEPT ![c] = Reach(@, "published")]
  BY <1>2, <1>11 DEF RollbackAccount
<1>13. Reach(commandWork[c], "published").phase = "published" /\ Reach(commandWork[c], "rejected").phase = "rejected"
  BY <1>5, WorkSteps DEF Phases
<1>14. commandWork' # [commandWork EXCEPT ![c] = Reach(@, "rejected")]
  BY <1>12, <1>13 DEF TypeInv
<1>15. PICK ms \in Seq(Event) :
         /\ AccountGrows(ms)
         /\ \A m : Occurs(m, ms) <=> \E e \in Event : /\ Occurs(e, account) /\ e.corr = c.order
                                                      /\ HasRollback(e.type) /\ m = Counterpart(e)
  BY <1>14, RollbackCommits
<1>16. /\ Counterpart(OrderCreated(o)) = RollbackOrderCreated(o)
       /\ Counterpart(FundsWithdrawn(o)) = RollbackFundsWithdrawn(o)
  BY EventsOfOrder, RollbackKinds DEF Counterpart, RollbackOrderCreated, RollbackFundsWithdrawn
<1>17. \A m : Occurs(m, ms) <=> m \in {RollbackOrderCreated(o), RollbackFundsWithdrawn(o)}
  <2>1. HasRollback(OrderCreated(o).type) /\ HasRollback(FundsWithdrawn(o).type)
    BY EventsOfOrder, RollbackKinds DEF HasRollback, Kinds
  <2>2. OrderCreated(o) \in Event /\ FundsWithdrawn(o) \in Event /\ OrderCreated(o).corr = o /\ FundsWithdrawn(o).corr = o
    BY EventsOfOrder DEF OfOrders
  <2> QED
    BY <1>2, <1>8, <1>10, <1>15, <1>16, <2>1, <2>2
<1>18. CommandMoves(c, "merged", "published") /\ \A d \in Command \ {c} : CommandPhase(d)' = CommandPhase(d)
  BY <1>3, <1>4, <1>12, <1>13, CommandWorked DEF CommandMoves
<1>19. AccountGains({RollbackOrderCreated(o), RollbackFundsWithdrawn(o)})
  BY <1>15, <1>17, OccursInJoined DEF AccountGrows, TypeInv, AccountGains
<1>20. ~Occurs(RollbackOrderCreated(o), HeldEvents) /\ ~Occurs(RollbackFundsWithdrawn(o), HeldEvents)
  BY <1>8, FoundInStreams, EventsOfOrder
<1>21. \A d \in Event : EventPhase(d)' = IF ~Occurs(d, HeldEvents) /\ Occurs(d, ms)
                                         THEN "started" ELSE EventPhase(d)
  BY <1>3, <1>15, EventsAdded DEF AccountGrows
<1>22. /\ EventPhase(RollbackOrderCreated(o))' = "started" /\ EventPhase(RollbackFundsWithdrawn(o))' = "started"
       /\ Others({RollbackOrderCreated(o), RollbackFundsWithdrawn(o)}, {Cancellation(o)})
  BY <1>1, <1>17, <1>18, <1>20, <1>21, EventsOfOrder DEF Others, OfOrders
<1>23. CancellationDone(o)
  BY <1>1, <1>3, <1>4, <1>15, <1>18, <1>19, <1>22 DEF CancellationDone, AccountGrows
<1> QED
  BY <1>23

LEMMA CancellationSentEffect ==
    ASSUME Normal, NEW c \in Command, InHand(c, HeldCommands), CommandPublishes(c)
    PROVE  \E o \in Orders : CancellationSent(o)
<1> USE DEF Normal, Inv
<1>1. commandWork[c].phase = "decided"
  BY DEF CommandPublishes
<1>2. PICK o \in Orders : c = Removal(o)
  BY <1>1, CommandOfOrder DEF Orderly, TodoInv
<1>3. commandWork[c].todo = <<Cancellation(o)>>
  BY <1>1, <1>2 DEF Orderly, TodoInv
<1>4. <<Cancellation(o)>> \in Seq(Command) /\ \A m : Occurs(m, <<Cancellation(o)>>) <=> m = Cancellation(o)
  BY CommandsOfOrder, OccursInOne
<1>5. HeldCommands' = HeldCommands \o <<Cancellation(o)>>
  BY <1>3, <1>4, CommandsJoin DEF CommandPublishes
<1>6. Reach(commandWork[c], "published").phase = "published"
  BY WorkSteps DEF Phases, TypeInv
<1>7. commandWork'[c].phase = "published" /\ \A d \in Command \ {c} : commandWork'[d] = commandWork[d]
  BY <1>6 DEF CommandPublishes, TypeInv
<1>8. CommandPhase(c) = "decided" /\ CommandPhase(c)' = "published"
  <2>1. Occurs(c, HeldCommands)
    BY HeadOccurs DEF BusInv
  <2>2. Occurs(c, HeldCommands')
    BY <1>4, <1>5, <2>1, OccursInJoined DEF BusInv
  <2> QED
    BY <1>1, <1>7, <2>1, <2>2 DEF CommandPhase
<1>9. o \notin Cancelling \cup Cancelled
  BY <1>2, <1>8 DEF Orderly, StageInv, Removing, Over
<1>10. ~Occurs(Cancellation(o), HeldCommands) /\ CommandPhase(Cancellation(o)) = "none"
  BY <1>9, PhaseKnown, CommandsOfOrder DEF Orderly, OnceInv
<1>11. \A d \in Command \ {c} : CommandPhase(d)' = IF ~Occurs(d, HeldCommands) /\ Occurs(d, <<Cancellation(o)>>)
                                                   THEN "started" ELSE CommandPhase(d)
  <2> DEFINE C == {c}
  <2>1. C \in SUBSET Command /\ \A d \in Command \ C : commandWork'[d] = commandWork[d]
    BY <1>7
  <2> HIDE DEF C
  <2>2. \A d \in Command \ C : CommandPhase(d)' = IF ~Occurs(d, HeldCommands) /\ Occurs(d, <<Cancellation(o)>>)
                                                  THEN "started" ELSE CommandPhase(d)
    BY <1>4, <1>5, <2>1, CommandsAdded
  <2> QED
    BY <2>2 DEF C
<1>12. Cancellation(o) # c
  BY <1>2, CommandsOfOrder
<1>13. \A d \in Event : EventPhase(d)' = EventPhase(d)
  BY EventsRest, HeldStays DEF CommandPublishes
<1>14. CancellationSent(o)
  BY <1>2, <1>4, <1>5, <1>8, <1>10, <1>11, <1>12, <1>13, CommandsOfOrder
     DEF CancellationSent, CommandMoves, Others, CommandPublishes, AccountGains, Fresh, OfOrders
<1> QED
  BY <1>14

LEMMA CommandEffect ==
    ASSUME Normal, NEW c \in Command, InHand(c, HeldCommands), CommandStep(c)
    PROVE  CommandAdvances(c) \/ \E o \in Orders : OrderMoves(o)
<1> USE DEF Normal, Inv
<1>1. CASE RemoveInventory(c)
  BY <1>1, RemovalEffect DEF OrderMoves
<1>2. CASE RollbackAccount(c)
  BY <1>2, CancellationEffect DEF OrderMoves
<1>3. CASE CommandPublishes(c)
  BY <1>3, CancellationSentEffect DEF OrderMoves
<1>4. CASE MergeForCommand(c)
  <2>1. PICK s \in Seq(Event) : commandWork' = [commandWork EXCEPT ![c] = Merge(@, s)]
    BY <1>4 DEF MergeForCommand, TypeInv
  <2>2. Merge(commandWork[c], s).phase = "merged"
    BY WorkSteps DEF TypeInv
  <2>3. HeldCommands' = HeldCommands /\ HeldEvents' = HeldEvents
    BY <1>4, HeldStays DEF MergeForCommand
  <2>4. CommandMoves(c, "started", "merged") /\ \A d \in Command \ {c} : CommandPhase(d)' = CommandPhase(d)
    BY <1>4, <2>1, <2>2, <2>3, CommandWorked DEF CommandMoves, MergeForCommand
  <2>5. \A d \in Event : EventPhase(d)' = EventPhase(d)
    BY <1>4, <2>3, EventsRest DEF MergeForCommand
  <2> QED
    BY <1>4, <2>4, <2>5 DEF CommandAdvances, MergeForCommand, AccountGains, Others, Fresh, OfOrders
<1>5. CASE CommandRollback(c)
  <2>1. RollbackSagas(c.corr) \in Seq(Command)
    BY RollbackSagasType DEF TypeInv, Command
  <2>2. Decide(commandWork[c], RollbackSagas(c.corr)).phase = "decided"
    BY <2>1, WorkSteps DEF TypeInv
  <2>3. HeldCommands' = HeldCommands /\ HeldEvents' = HeldEvents
    BY <1>5, HeldStays DEF CommandRollback
  <2>4. CommandMoves(c, "rejected", "decided") /\ \A d \in Command \ {c} : CommandPhase(d)' = CommandPhase(d)
    BY <1>5, <2>2, <2>3, CommandWorked DEF CommandMoves, CommandRollback
  <2>5. \A d \in Event : EventPhase(d)' = EventPhase(d)
    BY <1>5, <2>3, EventsRest DEF CommandRollback
  <2>6. c.type = "RemoveInventory"
    BY <1>5, CommandOfOrder, CommandsOfOrder DEF CommandRollback, Orderly, TodoInv
  <2> QED
    BY <1>5, <2>4, <2>5, <2>6 DEF CommandAdvances, CommandRollback, AccountGains, Others, Fresh, OfOrders
<1>6. CASE CommandDone(c)
  <2>1. CommandMoves(c, "published", "none") /\ \A d \in Command \ {c} : CommandPhase(d)' = CommandPhase(d)
    BY <1>6, CommandGoes DEF Orderly, OnceInv, CommandMoves
  <2>2. \A d \in Event : EventPhase(d)' = EventPhase(d)
    BY <1>6, HeldStays, EventsRest DEF CommandDone
  <2> QED
    BY <1>6, <2>1, <2>2 DEF CommandAdvances, CommandDone, AccountGains, Others, Fresh, OfOrders
<1> QED
  BY <1>1, <1>2, <1>3, <1>4, <1>5, <1>6 DEF CommandStep

(* What was merged for the event of an order shows the order as it is.     *)
LEMMA OrderIsFound ==
    ASSUME Normal, NEW e \in Event, InHand(e, HeldEvents), eventWork[e].phase = "merged"
    PROVE  /\ e.type = "OrderCreated" => SavesOrder(e)
           /\ e.type = "RollbackOrderCreated" => RemovesOrder(e)
<1> USE DEF Normal, Inv
<1>1. EventPhase(e) = "merged" /\ (Occurs(e, account) \/ Occurs(e, inventory))
  BY HandledIsOfStreams DEF EventPhase
<1>2. e.type \in {"OrderCreated", "RollbackOrderCreated"} => Occurs(e, account) /\ e \in OfOrders
  <2>1. Occurs(e, inventory) => e.type = "InventoryRemoved"
    BY DEF InventoryInv, InventoryEvent
  <2>2. Occurs(e, account) => e.type = "FundsWithdrawalFailed" \/ e \in OfOrders
    BY DEF AccountInv, AccountEvent
  <2> QED
    BY <1>1, <2>1, <2>2
<1>3. ASSUME e.type = "OrderCreated" PROVE SavesOrder(e)
  <2>1. PICK o \in Orders : e = OrderCreated(o) /\ e.corr = o
    BY <1>2, <1>3, OrderOfEvent
  <2>2. o \in Ordered /\ o \notin Cancelled
    BY <1>1, <2>1 DEF Ordered, Over, Orderly, StageInv
  <2>3. ~Occurs(RollbackOrderCreated(o), account)
    BY <2>2 DEF Orderly, PairInv
  <2>4. /\ eventWork[e].view <= Len(account) /\ eventWork[e].view \in Nat
        /\ \A i \in DOMAIN account :
             eventWork[e].view < i /\ account[i] \in OfOrders => EventPhase(account[i]) = "started"
    <3>1. e.type # "InventoryRemoved"
      BY <1>3
    <3> QED
      BY <3>1 DEF Orderly, FreshViewInv, FreshView, TypeInv, Work
  <2>5. /\ DOMAIN View(account, eventWork[e]) = 1..eventWork[e].view
        /\ \A i \in 1..eventWork[e].view : i \in DOMAIN account /\ View(account, eventWork[e])[i] = account[i]
    BY <2>4, ViewAt DEF TypeInv
  <2>6. PICK i \in DOMAIN account : account[i] = e
    BY <1>2, <1>3 DEF Occurs
  <2>7. i \in 1..eventWork[e].view
    <3>1. ~(eventWork[e].view < i)
      BY <1>1, <1>2, <1>3, <2>4, <2>6
    <3>2. i \in 1..Len(account) /\ Len(account) \in Nat
      BY <2>6 DEF TypeInv
    <3> QED
      BY <2>4, <3>1, <3>2
  <2>8. Has(View(account, eventWork[e]), "OrderCreated", o)
    BY <2>1, <2>5, <2>6, <2>7 DEF Has, OrderCreated
  <2>9. ~Has(View(account, eventWork[e]), "RollbackOrderCreated", o)
    BY <2>3, <2>5 DEF Has, Occurs, RollbackOrderCreated
  <2> QED
    BY <1>3, <2>1, <2>8, <2>9 DEF SavesOrder, LiveOrders
<1>4. ASSUME e.type = "RollbackOrderCreated" PROVE RemovesOrder(e)
  <2>1. PICK o \in Orders : e = RollbackOrderCreated(o) /\ e.corr = o
    BY <1>2, <1>4, OrderOfEvent
  <2>2. o \in Cancelled
    BY <1>2, <1>4, <2>1 DEF Orderly, PairInv
  <2>3. o \in Created /\ o \notin Ordered
    BY <2>2 DEF Orderly, StageInv
  <2>4. ~Unhandled(OrderCreated(o)) /\ Unhandled(RollbackOrderCreated(o))
    BY <1>1, <2>1, <2>3 DEF Unhandled, Ordered, Over
  <2> QED
    BY <1>4, <2>1, <2>2, <2>3, <2>4 DEF Orderly, TableInv, InTable, RemovesOrder
<1> QED
  BY <1>3, <1>4

LEMMA NoEventIsRejected ==
    ASSUME Normal, NEW e \in Event, InHand(e, HeldEvents), HandlerRejects(e) \/ EventRollback(e)
    PROVE  FALSE
<1>1. CASE HandlerRejects(e)
  <2>1. ~FindsOrder(e) /\ eventWork[e].phase = "merged"
    BY <1>1 DEF Normal, HandlerRejects
  <2> QED
    BY <2>1, OrderIsFound DEF FindsOrder
<1>2. CASE EventRollback(e)
  BY <1>2 DEF EventRollback, Normal, Orderly, TodoInv
<1> QED
  BY <1>1, <1>2

LEMMA RemovalSentEffect ==
    ASSUME Normal, NEW e \in Event, InHand(e, HeldEvents), EventPublishes(e), e.type = "OrderCreated"
    PROVE  \E o \in Orders : RemovalSent(o)
<1> USE DEF Normal, Inv
<1>1. eventWork[e].phase = "decided" /\ eventWork[e].todo = PostOrderCreated(e)
  BY DEF EventPublishes, Orderly, TodoInv
<1>2. e \in OfOrders
  BY HandledIsOfStreams DEF OfOrders
<1>3. PICK o \in Orders : e = OrderCreated(o) /\ e.corr = o
  BY <1>2, OrderOfEvent
<1>4. eventWork[e].todo = <<Removal(o)>>
  BY <1>1, <1>3, PostOrderCreatedType DEF Removal
<1>5. <<Removal(o)>> \in Seq(Command) /\ \A m : Occurs(m, <<Removal(o)>>) <=> m = Removal(o)
  BY CommandsOfOrder, OccursInOne
<1>6. HeldCommands' = HeldCommands \o <<Removal(o)>>
  BY <1>4, <1>5, CommandsJoin DEF EventPublishes
<1>7. Reach(eventWork[e], "published").phase = "published"
  BY WorkSteps DEF Phases, TypeInv
<1>8. EventMoves(e, "decided", "published") /\ \A d \in Event \ {e} : EventPhase(d)' = EventPhase(d)
  BY <1>1, <1>7, EventWorked, HeldStays DEF EventMoves, EventPublishes
<1>9. CommandPhase(Removal(o)) = "none" /\ ~Occurs(Removal(o), HeldCommands)
  <2>1. o \in Ordered
    BY <1>3, <1>8 DEF Ordered, EventMoves, Over
  <2> QED
    BY <2>1, PhaseKnown, CommandsOfOrder DEF Orderly, OnceInv
<1>10. \A d \in Command : CommandPhase(d)' = IF ~Occurs(d, HeldCommands) /\ Occurs(d, <<Removal(o)>>)
                                             THEN "started" ELSE CommandPhase(d)
  <2>1. PICK C \in SUBSET Command : C = {}
    OBVIOUS
  <2>2. \A d \in Command \ C : commandWork'[d] = commandWork[d]
    BY DEF EventPublishes
  <2>3. \A d \in Command \ C : CommandPhase(d)' = IF ~Occurs(d, HeldCommands) /\ Occurs(d, <<Removal(o)>>)
                                                  THEN "started" ELSE CommandPhase(d)
    BY <1>5, <1>6, <2>2, CommandsAdded
  <2> QED
    BY <2>1, <2>3
<1>11. RemovalSent(o)
  BY <1>3, <1>5, <1>6, <1>8, <1>9, <1>10, CommandsOfOrder
     DEF RemovalSent, CommandMoves, Others, EventPublishes, AccountGains, Fresh, OfOrders
<1> QED
  BY <1>11

(* Other events have no command to publish. *)
LEMMA NothingToPublish ==
    ASSUME Normal, NEW e \in Event, EventPublishes(e), e.type # "OrderCreated"
    PROVE  HeldCommands' = HeldCommands
<1>1. eventWork[e].todo = <<>>
  BY PostOrderCreatedType DEF EventPublishes, Normal, Orderly, TodoInv
<1>2. <<>> \in Seq(Command) /\ HeldCommands \o <<>> = HeldCommands
  BY DEF Normal, Inv, BusInv
<1>3. commands' = PublishAll(commands, <<>>)
  BY <1>1 DEF EventPublishes
<1>4. HeldCommands' = HeldCommands \o <<>>
  BY <1>2, <1>3, CommandsJoin DEF Normal, Inv
<1> QED
  BY <1>2, <1>4

(* An event that moves on without anything else is one of an order, or     *)
(* what it does is of no account.                                          *)
LEMMA EventMovesOn ==
    ASSUME NEW e \in Event, NEW from, NEW to, EventMoves(e, from, to) \/ e \notin OfOrders,
           \/ <<from, to>> \in {<<"started", "merged">>, <<"handled", "decided">>, <<"published", "none">>}
           \/ e.type # "OrderCreated" /\ <<from, to>> = <<"decided", "published">>,
           \A d \in Event \ {e} : EventPhase(d)' = EventPhase(d),
           \A c \in Command : CommandPhase(c)' = CommandPhase(c),
           UNCHANGED <<account, inventory, orderTable, placing>>
    PROVE  Waits \/ (e \in OfOrders /\ EventAdvances(e))
<1>1. CASE e \in OfOrders
  BY <1>1 DEF EventAdvances, AccountGains, Others, Fresh, OfOrders
<1>2. CASE e \notin OfOrders
  BY <1>2 DEF Waits, AccountGains, Others, Fresh, OfOrders
<1> QED
  BY <1>1, <1>2

LEMMA EventEffect ==
    ASSUME Normal, NEW e \in Event, InHand(e, HeldEvents), EventStep(e)
    PROVE  \/ Waits \/ \E o \in Orders : OrderMoves(o)
           \/ e \in OfOrders /\ (EventAdvances(e) \/ EventHandled(e))
<1> USE DEF Normal, Inv
<1>1. eventWork[e] \in Work
  BY DEF TypeInv
<1>2. CASE MergeForEvent(e)
  <2>1. PICK s \in Seq(Event) : eventWork' = [eventWork EXCEPT ![e] = Merge(@, s)]
    BY <1>2 DEF MergeForEvent, TypeInv
  <2>2. Merge(eventWork[e], s).phase = "merged"
    BY <1>1, WorkSteps
  <2>3. HeldCommands' = HeldCommands /\ HeldEvents' = HeldEvents
    BY <1>2, HeldStays DEF MergeForEvent
  <2>4. EventMoves(e, "started", "merged") /\ \A d \in Event \ {e} : EventPhase(d)' = EventPhase(d)
    BY <1>2, <2>1, <2>2, <2>3, EventWorked DEF EventMoves, MergeForEvent
  <2>5. \A c \in Command : CommandPhase(c)' = CommandPhase(c)
    BY <1>2, <2>3, CommandsRest DEF MergeForEvent
  <2> QED
    BY <1>2, <2>4, <2>5, EventMovesOn DEF MergeForEvent
<1>3. CASE HandlersResolve(e)
  <2>1. Reach(eventWork[e], "handled").phase = "handled"
    BY <1>1, WorkSteps DEF Phases
  <2>2. HeldCommands' = HeldCommands /\ HeldEvents' = HeldEvents
    BY <1>3, HeldStays DEF HandlersResolve
  <2>3. EventMoves(e, "merged", "handled") /\ \A d \in Event \ {e} : EventPhase(d)' = EventPhase(d)
    BY <1>3, <2>1, <2>2, EventWorked DEF EventMoves, HandlersResolve
  <2>4. \A c \in Command : CommandPhase(c)' = CommandPhase(c)
    BY <1>3, <2>2, CommandsRest DEF HandlersResolve
  <2>5. orderTable' = IF e.type = "OrderCreated" THEN orderTable \cup {e.corr}
                      ELSE IF e.type = "RollbackOrderCreated" THEN orderTable \ {e.corr} ELSE orderTable
    BY <1>3, OrderIsFound DEF HandlersResolve, SavesOrder, RemovesOrder
  <2>6. CASE e \in OfOrders
    BY <1>3, <2>3, <2>4, <2>5, <2>6 DEF EventHandled, HandlersResolve, AccountGains, Others, Fresh, OfOrders
  <2>7. CASE e \notin OfOrders
    <3>1. e.type = "FundsWithdrawalFailed"
      BY <2>7, HandledIsOfStreams DEF AccountInv, AccountEvent, InventoryInv, InventoryEvent
    <3> QED
      BY <1>3, <2>3, <2>4, <2>5, <2>7, <3>1 DEF Waits, HandlersResolve, AccountGains, Others, Fresh, OfOrders
  <2> QED
    BY <2>6, <2>7
<1>4. CASE HandlerRejects(e) \/ EventRollback(e)
  BY <1>4, NoEventIsRejected
<1>5. CASE ProcessEvent(e)
  <2>1. PostOrderCreated(e) \in Seq(Command)
    BY PostOrderCreatedType, HandledIsOfStreams
  <2>2. Decide(eventWork[e], PostOrderCreated(e)).phase = "decided"
    BY <1>1, <2>1, WorkSteps
  <2>3. HeldCommands' = HeldCommands /\ HeldEvents' = HeldEvents
    BY <1>5, HeldStays DEF ProcessEvent
  <2>4. EventMoves(e, "handled", "decided") /\ \A d \in Event \ {e} : EventPhase(d)' = EventPhase(d)
    BY <1>5, <2>2, <2>3, EventWorked DEF EventMoves, ProcessEvent
  <2>5. \A c \in Command : CommandPhase(c)' = CommandPhase(c)
    BY <1>5, <2>3, CommandsRest DEF ProcessEvent
  <2> QED
    BY <1>5, <2>4, <2>5, EventMovesOn DEF ProcessEvent
<1>6. CASE EventPublishes(e) /\ e.type = "OrderCreated"
  BY <1>6, RemovalSentEffect DEF OrderMoves
<1>7. CASE EventPublishes(e) /\ e.type # "OrderCreated"
  <2>2. HeldCommands' = HeldCommands
    BY <1>7, NothingToPublish
  <2>3. Reach(eventWork[e], "published").phase = "published"
    BY <1>1, WorkSteps DEF Phases
  <2>4. EventMoves(e, "decided", "published") /\ \A d \in Event \ {e} : EventPhase(d)' = EventPhase(d)
    BY <1>7, <2>3, EventWorked, HeldStays DEF EventMoves, EventPublishes
  <2>5. \A c \in Command : CommandPhase(c)' = CommandPhase(c)
    BY <1>7, <2>2, CommandsRest DEF EventPublishes
  <2> QED
    BY <1>7, <2>4, <2>5, EventMovesOn DEF EventPublishes
<1>8. CASE EventDone(e)
  <2>1. /\ EventMoves(e, "published", "none") \/ e \notin OfOrders
        /\ \A d \in Event \ {e} : EventPhase(d)' = EventPhase(d)
    BY <1>8, EventGoes DEF EventMoves, Orderly, OnceInv
  <2>2. \A c \in Command : CommandPhase(c)' = CommandPhase(c)
    BY <1>8, HeldStays, CommandsRest DEF EventDone
  <2> QED
    BY <1>8, <2>1, <2>2, EventMovesOn DEF EventDone
<1> QED
  BY <1>2, <1>3, <1>4, <1>5, <1>6, <1>7, <1>8 DEF EventStep

(* In a normal run every step is a move of an order or of a message.       *)
LEMMA Effects == ASSUME Normal, [Next]_vars PROVE Moves
<1>1. CASE UNCHANGED vars
  BY <1>1, HeldStays, EventsRest, CommandsRest DEF vars, Moves, Waits, AccountGains, Others, Fresh, OfOrders
<1>2. ASSUME NEW o \in Orders, OrderStep(o) PROVE Moves
  BY <1>2, PlacingEffect DEF Moves, OrderMoves
<1>3. ASSUME NEW c \in Command, InHand(c, HeldCommands), CommandStep(c) PROVE Moves
  BY <1>3, CommandEffect DEF Moves
<1>4. ASSUME NEW e \in Event, InHand(e, HeldEvents), EventStep(e) PROVE Moves
  BY <1>4, EventEffect DEF Moves
<1> QED
  BY <1>1, <1>2, <1>3, <1>4, Cases DEF Normal, Inv

-----------------------------------------------------------------------------
(* The stages of the orders, before and after a step.                      *)
Placed(o) ==
    /\ o \in Fresh /\ Created' = Created \cup {o} /\ Ordered' = Ordered \cup {o}
    /\ Removing' = Removing /\ Cancelling' = Cancelling
    /\ Fulfilled' = Fulfilled /\ Cancelled' = Cancelled /\ inventory' = inventory

Processed(o) ==
    /\ o \in Ordered /\ Ordered' = Ordered \ {o} /\ Removing' = Removing \cup {o}
    /\ Created' = Created /\ Cancelling' = Cancelling
    /\ Fulfilled' = Fulfilled /\ Cancelled' = Cancelled /\ inventory' = inventory

Taken(o) ==
    /\ o \in Removing /\ Removing' = Removing \ {o} /\ Fulfilled' = Fulfilled \cup {o}
    /\ Created' = Created /\ Ordered' = Ordered /\ Cancelling' = Cancelling /\ Cancelled' = Cancelled
    /\ Len(inventory) < Stock /\ inventory' = inventory \o Removed(o)

GivenUp(o) ==
    /\ o \in Removing /\ Removing' = Removing \ {o} /\ Cancelling' = Cancelling \cup {o}
    /\ Created' = Created /\ Ordered' = Ordered
    /\ Fulfilled' = Fulfilled /\ Cancelled' = Cancelled /\ inventory' = inventory
    /\ Len(inventory) = Stock

Undone(o) ==
    /\ o \in Cancelling /\ Cancelling' = Cancelling \ {o} /\ Cancelled' = Cancelled \cup {o}
    /\ Created' = Created /\ Ordered' = Ordered /\ Removing' = Removing
    /\ Fulfilled' = Fulfilled /\ inventory' = inventory

StagesStay ==
    /\ Created' = Created /\ Ordered' = Ordered /\ Removing' = Removing /\ Cancelling' = Cancelling
    /\ Fulfilled' = Fulfilled /\ Cancelled' = Cancelled /\ inventory' = inventory

(* Which sets the parts of a move leave alone.                             *)
LEMMA NothingGained ==
    ASSUME AccountGains({}), inventory' = inventory
    PROVE  Created' = Created /\ Cancelled' = Cancelled /\ Fulfilled' = Fulfilled
BY EventsOfOrder DEF AccountGains, Created, Cancelled, Fulfilled

LEMMA EventStages ==
    ASSUME NEW e \in OfOrders, EventAdvances(e) \/ EventHandled(e)
    PROVE  StagesStay
<1>1. Created' = Created /\ Cancelled' = Cancelled /\ Fulfilled' = Fulfilled /\ inventory' = inventory
  BY NothingGained DEF EventAdvances, EventHandled
<1>2. Removing' = Removing /\ Cancelling' = Cancelling
  BY CommandsOfOrder DEF EventAdvances, EventHandled, Others, Removing, Cancelling
<1>3. Ordered' = Ordered
  BY EventsOfOrder DEF EventAdvances, EventHandled, EventMoves, Others, Ordered, Over
<1> QED
  BY <1>1, <1>2, <1>3 DEF StagesStay

LEMMA CommandStages ==
    ASSUME NEW c \in Command, CommandAdvances(c)
    PROVE  StagesStay
<1>1. Created' = Created /\ Cancelled' = Cancelled /\ Fulfilled' = Fulfilled /\ inventory' = inventory
  BY NothingGained DEF CommandAdvances
<1>2. Removing' = Removing /\ Cancelling' = Cancelling
  BY CommandsOfOrder DEF CommandAdvances, CommandMoves, Others, Removing, Cancelling, Over
<1>3. Ordered' = Ordered
  BY EventsOfOrder DEF CommandAdvances, Others, Ordered
<1> QED
  BY <1>1, <1>2, <1>3 DEF StagesStay

LEMMA OrderStages ==
    ASSUME Normal, NEW o \in Orders, OrderMoves(o)
    PROVE  StagesStay \/ Placed(o) \/ Processed(o) \/ Taken(o) \/ GivenUp(o) \/ Undone(o)
<1> USE EventsOfOrder, CommandsOfOrder
<1>1. CASE Refused(o)
  BY <1>1, NothingGained DEF Refused, Others, Ordered, Removing, Cancelling, StagesStay
<1>2. CASE Accepted(o)
  <2>1. Created' = Created \cup {o} /\ Cancelled' = Cancelled /\ Fulfilled' = Fulfilled /\ inventory' = inventory
    BY <1>2 DEF Accepted, AccountGains, Created, Cancelled, Fulfilled
  <2>2. Ordered' = Ordered \cup {o}
    BY <1>2 DEF Accepted, EventMoves, Others, Ordered, Over
  <2>3. Removing' = Removing /\ Cancelling' = Cancelling
    BY <1>2 DEF Accepted, Others, Removing, Cancelling
  <2> QED
    BY <1>2, <2>1, <2>2, <2>3 DEF Placed, Accepted
<1>3. CASE RemovalSent(o)
  <2>1. Created' = Created /\ Cancelled' = Cancelled /\ Fulfilled' = Fulfilled /\ inventory' = inventory
    BY <1>3, NothingGained DEF RemovalSent
  <2>2. o \in Ordered /\ Ordered' = Ordered \ {o}
    BY <1>3 DEF RemovalSent, EventMoves, Others, Ordered, Over
  <2>3. Removing' = Removing \cup {o} /\ Cancelling' = Cancelling
    BY <1>3 DEF RemovalSent, CommandMoves, Others, Removing, Cancelling, Over
  <2> QED
    BY <2>1, <2>2, <2>3 DEF Processed
<1>4. CASE RemovalDone(o)
  <2>1. Created' = Created /\ Cancelled' = Cancelled
    BY <1>4 DEF RemovalDone, AccountGains, Created, Cancelled
  <2>2. Ordered' = Ordered
    BY <1>4 DEF RemovalDone, Others, Ordered
  <2>3. o \in Removing /\ Removing' = Removing \ {o} /\ Cancelling' = Cancelling
    BY <1>4 DEF RemovalDone, CommandMoves, Others, Removing, Cancelling, Over
  <2>4. inventory' = inventory \o Removed(o) /\ inventory \in Seq(Event)
    BY <1>4 DEF RemovalDone, Normal, Inv, TypeInv
  <2>5. \A m : Occurs(m, inventory') <=> Occurs(m, inventory) \/ m = InventoryRemoved(o)
    BY <2>4, RemovedType, OccursInJoined DEF InventoryRemoved
  <2>6. \A p \in Orders : InventoryRemoved(p) = InventoryRemoved(o) => p = o
    OBVIOUS
  <2>7. Fulfilled' = Fulfilled \cup {o}
    BY <2>5, <2>6 DEF Fulfilled
  <2> QED
    BY <1>4, <2>1, <2>2, <2>3, <2>7 DEF Taken, RemovalDone
<1>5. CASE RemovalFails(o)
  <2>1. Removing' = Removing /\ Cancelling' = Cancelling /\ Ordered' = Ordered
    BY <1>5 DEF RemovalFails, CommandMoves, Others, Removing, Cancelling, Ordered, Over
  <2> QED
    BY <1>5, <2>1, NothingGained DEF RemovalFails, StagesStay
<1>6. CASE CancellationSent(o)
  <2>1. o \in Removing /\ Removing' = Removing \ {o} /\ Cancelling' = Cancelling \cup {o} /\ Ordered' = Ordered
    BY <1>6 DEF CancellationSent, CommandMoves, Others, Removing, Cancelling, Ordered, Over
  <2>2. Len(inventory) = Stock
    BY <1>6 DEF CancellationSent, CommandMoves, Normal, Orderly, UnitInv
  <2> QED
    BY <1>6, <2>1, <2>2, NothingGained DEF CancellationSent, GivenUp
<1>7. CASE CancellationDone(o)
  <2>1. Created' = Created /\ Cancelled' = Cancelled \cup {o} /\ Fulfilled' = Fulfilled /\ inventory' = inventory
    BY <1>7 DEF CancellationDone, AccountGains, Created, Cancelled, Fulfilled
  <2>2. Ordered' = Ordered
    BY <1>7 DEF CancellationDone, Others, Ordered
  <2>3. o \in Cancelling /\ Cancelling' = Cancelling \ {o} /\ Removing' = Removing
    BY <1>7 DEF CancellationDone, CommandMoves, Others, Removing, Cancelling, Over
  <2> QED
    BY <2>1, <2>2, <2>3 DEF Undone
<1> QED
  BY <1>1, <1>2, <1>3, <1>4, <1>5, <1>6, <1>7 DEF OrderMoves

(* In a normal run every step moves one order to its next stage or none.   *)
LEMMA Stages ==
    ASSUME Normal, [Next]_vars
    PROVE  StagesStay \/ \E o \in Orders : Placed(o) \/ Processed(o) \/ Taken(o) \/ GivenUp(o) \/ Undone(o)
<1>1. CASE Waits
  <2>1. Created' = Created /\ Cancelled' = Cancelled /\ Fulfilled' = Fulfilled
    BY <1>1, NothingGained DEF Waits
  <2> QED
    BY <1>1, <2>1, EventsOfOrder, CommandsOfOrder DEF Waits, Others, Ordered, Removing, Cancelling, StagesStay
<1>2. ASSUME NEW o \in Orders, OrderMoves(o)
      PROVE  StagesStay \/ Placed(o) \/ Processed(o) \/ Taken(o) \/ GivenUp(o) \/ Undone(o)
  BY <1>2, OrderStages
<1>3. ASSUME NEW e \in OfOrders, EventAdvances(e) \/ EventHandled(e) PROVE StagesStay
  BY <1>3, EventStages
<1>4. ASSUME NEW c \in Command, CommandAdvances(c) PROVE StagesStay
  BY <1>4, CommandStages
<1> QED
  BY <1>1, <1>2, <1>3, <1>4, Effects DEF Moves

LEMMA FreshAreNotCreated == ASSUME Inv PROVE Fresh \cap Created = {}
BY FoundInStreams, EventsOfOrder DEF Created, Fresh

LEMMA StageStays == ASSUME Normal, [Next]_vars PROVE StageInv'
<1> USE DEF StageInv
<1>1. StageInv /\ Fresh \cap Created = {}
  BY FreshAreNotCreated DEF Normal, Orderly
<1>2. CASE StagesStay
  BY <1>1, <1>2 DEF StagesStay
<1>3. ASSUME NEW o \in Orders, Placed(o) PROVE StageInv'
  BY <1>1, <1>3 DEF Placed
<1>4. ASSUME NEW o \in Orders, Processed(o) PROVE StageInv'
  BY <1>1, <1>4 DEF Processed
<1>5. ASSUME NEW o \in Orders, Taken(o) PROVE StageInv'
  BY <1>1, <1>5 DEF Taken
<1>6. ASSUME NEW o \in Orders, GivenUp(o) PROVE StageInv'
  BY <1>1, <1>6 DEF GivenUp
<1>7. ASSUME NEW o \in Orders, Undone(o) PROVE StageInv'
  BY <1>1, <1>7 DEF Undone
<1> QED
  BY <1>2, <1>3, <1>4, <1>5, <1>6, <1>7, Stages

LEMMA RemovedAt ==
    ASSUME NEW o \in Orders, inventory \in Seq(Event), inventory' = inventory \o Removed(o)
    PROVE  Len(inventory') = Len(inventory) + 1 /\ Len(inventory) \in Nat
<1>1. Removed(o) \in Seq(Event) /\ Len(Removed(o)) = 1
  BY RemovedType
<1>2. \A s, t \in Seq(Event) : Len(s \o t) = Len(s) + Len(t) /\ Len(s) \in Nat
  OBVIOUS
<1> QED
  BY <1>1, <1>2

LEMMA UnitStays == ASSUME Normal, [Next]_vars PROVE UnitInv'
<1>1. /\ IsFiniteSet(Fulfilled) /\ Cardinality(Fulfilled) = Len(inventory)
      /\ Cancelling \cup Cancelled # {} => Len(inventory) = Stock
      /\ \A o \in Orders : CommandPhase(Removal(o)) \in {"rejected", "decided"} => Len(inventory) = Stock
      /\ inventory \in Seq(Event)
  BY DEF Normal, Orderly, UnitInv, Inv, TypeInv
<1>2. \/ Fulfilled' = Fulfilled /\ inventory' = inventory
      \/ \E o \in Orders : o \in Removing /\ Taken(o)
  BY Stages DEF StagesStay, Placed, Processed, GivenUp, Undone, Taken
<1>3. ASSUME NEW o \in Orders, Taken(o) PROVE o \notin Fulfilled
  BY <1>3 DEF Taken, Normal, Orderly, StageInv
<1>4. IsFiniteSet(Fulfilled') /\ Cardinality(Fulfilled') = Len(inventory')
  <2>1. ASSUME NEW o \in Orders, Taken(o)
        PROVE  IsFiniteSet(Fulfilled') /\ Cardinality(Fulfilled') = Len(inventory')
    <3>1. Fulfilled' = Fulfilled \cup {o} /\ Len(inventory') = Len(inventory) + 1
      BY <1>1, <2>1, RemovedAt DEF Taken
    <3>2. IsFiniteSet(Fulfilled \cup {o}) /\ Cardinality(Fulfilled \cup {o}) = Cardinality(Fulfilled) + 1
      BY <1>1, <1>3, <2>1, FS_AddElement
    <3> QED
      BY <1>1, <3>1, <3>2
  <2> QED
    BY <1>1, <1>2, <2>1
<1>5. (Cancelling \cup Cancelled)' # {} => Len(inventory') = Stock
  <2>1. CASE StagesStay
    BY <1>1, <2>1 DEF StagesStay
  <2>2. ASSUME NEW o \in Orders, Placed(o) \/ Processed(o) \/ GivenUp(o)
        PROVE  (Cancelling \cup Cancelled)' # {} => Len(inventory') = Stock
    BY <1>1, <2>2 DEF Placed, Processed, GivenUp
  <2>3. ASSUME NEW o \in Orders, Undone(o)
        PROVE  (Cancelling \cup Cancelled)' # {} => Len(inventory') = Stock
    BY <1>1, <2>3 DEF Undone
  <2>4. ASSUME NEW o \in Orders, Taken(o)
        PROVE  (Cancelling \cup Cancelled)' # {} => Len(inventory') = Stock
    <3>1. Len(inventory) # Stock
      BY <1>1, <2>4, FundsAssumption DEF Taken
    <3> QED
      BY <1>1, <2>4, <3>1 DEF Taken
  <2> QED
    BY <2>1, <2>2, <2>3, <2>4, Stages
<1>6. ASSUME NEW o \in Orders, CommandPhase(Removal(o))' \in {"rejected", "decided"}
      PROVE  Len(inventory') = Stock
  <2> DEFINE R == CommandPhase(Removal(o)) \in {"rejected", "decided"}
  <2>1. \/ R \/ Len(inventory) = Stock
    <3>1. CASE Waits
      BY <1>6, <3>1, CommandsOfOrder DEF Waits, Others
    <3>2. ASSUME NEW p \in Orders, Refused(p) \/ Accepted(p) \/ RemovalFails(p) \/ CancellationDone(p)
          PROVE  R \/ Len(inventory) = Stock
      BY <1>6, <3>2, CommandsOfOrder DEF Refused, Accepted, RemovalFails, CancellationDone, Others
    <3>3. ASSUME NEW p \in Orders, RemovalSent(p) \/ RemovalDone(p) \/ CancellationSent(p)
          PROVE  R \/ Len(inventory) = Stock
      BY <1>6, <3>3, CommandsOfOrder DEF RemovalSent, RemovalDone, CancellationSent, CommandMoves, Others
    <3>4. ASSUME NEW e \in OfOrders, EventAdvances(e) \/ EventHandled(e) PROVE R
      BY <1>6, <3>4, CommandsOfOrder DEF EventAdvances, EventHandled, Others
    <3>5. ASSUME NEW c \in Command, CommandAdvances(c) PROVE R
      BY <1>6, <3>5, CommandsOfOrder DEF CommandAdvances, CommandMoves, Others
    <3> QED
      BY <3>1, <3>2, <3>3, <3>4, <3>5, Effects DEF Moves, OrderMoves
  <2>2. Len(inventory) = Stock
    BY <1>1, <2>1
  <2>3. ASSUME NEW p \in Orders PROVE ~Taken(p)
    BY <2>2, FundsAssumption DEF Taken
  <2> QED
    BY <1>2, <2>2, <2>3
<1> QED
  BY <1>4, <1>5, <1>6 DEF UnitInv

-----------------------------------------------------------------------------
(* A command is published when the order comes to it, and not before.      *)
LEMMA CommandsPublished ==
    ASSUME Normal, [Next]_vars
    PROVE  \A c \in Command : CommandPhase(c) = "none" /\ CommandPhase(c)' # "none" =>
             \E o \in Orders : (RemovalSent(o) /\ c = Removal(o)) \/ (CancellationSent(o) /\ c = Cancellation(o))
<1> SUFFICES ASSUME NEW c \in Command, CommandPhase(c) = "none", CommandPhase(c)' # "none"
             PROVE  \E o \in Orders : \/ RemovalSent(o) /\ c = Removal(o)
                                      \/ CancellationSent(o) /\ c = Cancellation(o)
  OBVIOUS
<1>1. ~Waits
  BY DEF Waits, Others
<1>2. ASSUME NEW p \in Orders, Refused(p) \/ Accepted(p) \/ RemovalFails(p) \/ CancellationDone(p) \/ RemovalDone(p)
      PROVE  FALSE
  BY <1>2, CommandsOfOrder DEF Refused, Accepted, RemovalFails, RemovalDone, CancellationDone, CommandMoves, Others
<1>3. ASSUME NEW p \in Orders, RemovalSent(p) PROVE c = Removal(p)
  BY <1>3, CommandsOfOrder DEF RemovalSent, Others
<1>4. ASSUME NEW p \in Orders, CancellationSent(p) PROVE c = Cancellation(p)
  BY <1>4, CommandsOfOrder DEF CancellationSent, CommandMoves, Others
<1>5. ASSUME NEW e \in OfOrders, EventAdvances(e) \/ EventHandled(e) PROVE FALSE
  BY <1>5 DEF EventAdvances, EventHandled, Others
<1>6. ASSUME NEW d \in Command, CommandAdvances(d) PROVE FALSE
  BY <1>6 DEF CommandAdvances, CommandMoves, Others
<1> QED
  BY <1>1, <1>2, <1>3, <1>4, <1>5, <1>6, Effects DEF Moves, OrderMoves

(* What the command bus holds after a step. *)
LEMMA CommandsHeld ==
    ASSUME Normal, [Next]_vars
    PROVE  \/ HeldCommands' = HeldCommands
           \/ HeldCommands # <<>> /\ HeldCommands' = Tail(HeldCommands)
           \/ \E o \in Orders : \E c \in {Removal(o), Cancellation(o)} :
                HeldCommands' = HeldCommands \o <<c>> /\ ~Occurs(c, HeldCommands)
<1> USE DEF Normal, Inv
<1> DEFINE Goal == \/ HeldCommands' = HeldCommands
                   \/ HeldCommands # <<>> /\ HeldCommands' = Tail(HeldCommands)
                   \/ \E o \in Orders : \E c \in {Removal(o), Cancellation(o)} :
                        HeldCommands' = HeldCommands \o <<c>> /\ ~Occurs(c, HeldCommands)
<1>1. CASE UNCHANGED vars
  BY <1>1, HeldStays DEF vars
<1>2. ASSUME NEW o \in Orders, RemovalSent(o) PROVE Goal
  BY <1>2, PhaseKnown, CommandsOfOrder DEF RemovalSent, CommandMoves
<1>3. ASSUME NEW o \in Orders, CancellationSent(o) PROVE Goal
  BY <1>3, PhaseKnown, CommandsOfOrder DEF CancellationSent, CommandMoves
<1>4. ASSUME NEW o \in Orders, OrderStep(o) PROVE Goal
  <2>1. CASE InvalidWithdrawalAmount(o)
    BY <2>1, RefusalCommits
  <2>2. CASE PlaceOrder(o) \/ CreateOrder(o) \/ OrderRollback(o)
    BY <2>2, HeldStays DEF PlaceOrder, CreateOrder, OrderRollback
  <2> QED
    BY <1>4, <2>1, <2>2 DEF OrderStep
<1>5. ASSUME NEW c \in Command, InHand(c, HeldCommands), CommandStep(c) PROVE Goal
  <2>1. CASE CommandPublishes(c)
    BY <1>3, <1>5, <2>1, CancellationSentEffect
  <2>2. CASE CommandDone(c)
    BY <1>5, <2>2 DEF CommandDone, InHand
  <2>3. CASE MergeForCommand(c) \/ RemoveInventory(c) \/ RollbackAccount(c) \/ CommandRollback(c)
    BY <2>3, HeldStays DEF MergeForCommand, RemoveInventory, RollbackAccount, CommandRollback
  <2> QED
    BY <1>5, <2>1, <2>2, <2>3 DEF CommandStep
<1>6. ASSUME NEW e \in Event, InHand(e, HeldEvents), EventStep(e) PROVE Goal
  <2>1. CASE EventPublishes(e) /\ e.type = "OrderCreated"
    BY <1>2, <1>6, <2>1, RemovalSentEffect
  <2>2. CASE EventPublishes(e) /\ e.type # "OrderCreated"
    BY <1>6, <2>2, NothingToPublish
  <2>3. CASE EventDone(e) \/ MergeForEvent(e) \/ HandlersResolve(e) \/ HandlerRejects(e)
    BY <2>3, HeldStays DEF EventDone, MergeForEvent, HandlersResolve, HandlerRejects
  <2>4. CASE ProcessEvent(e) \/ EventRollback(e)
    BY <2>4, HeldStays DEF ProcessEvent, EventRollback
  <2> QED
    BY <1>6, <2>1, <2>2, <2>3, <2>4 DEF EventStep
<1> QED
  BY <1>1, <1>4, <1>5, <1>6, Cases DEF Normal, Inv

LEMMA CommandsOnce ==
    ASSUME Normal, [Next]_vars
    PROVE  /\ Once(HeldCommands', Command)
           /\ \A c \in Command : Occurs(c, HeldCommands') => \E o \in Orders : c \in {Removal(o), Cancellation(o)}
<1>1. /\ Once(HeldCommands, Command) /\ HeldCommands \in Seq(Command)
      /\ \A c \in Command : Occurs(c, HeldCommands) => \E o \in Orders : c \in {Removal(o), Cancellation(o)}
  BY DEF Normal, Orderly, OnceInv, Inv, BusInv
<1>2. CASE HeldCommands' = HeldCommands
  BY <1>1, <1>2
<1>3. CASE HeldCommands # <<>> /\ HeldCommands' = Tail(HeldCommands)
  BY <1>1, <1>3, OnceInTail, OccursInTail
<1>4. ASSUME NEW o \in Orders, NEW c \in {Removal(o), Cancellation(o)},
             HeldCommands' = HeldCommands \o <<c>>, ~Occurs(c, HeldCommands)
      PROVE  /\ Once(HeldCommands', Command)
             /\ \A d \in Command : Occurs(d, HeldCommands') => \E p \in Orders : d \in {Removal(p), Cancellation(p)}
  <2> DEFINE ms == <<c>>
  <2>1. c \in Command
    BY CommandsOfOrder
  <2>2. ms \in Seq(Command) /\ Once(ms, Command) /\ \A m : Occurs(m, ms) <=> m = c
    BY <2>1, OccursInOne DEF Once
  <2> HIDE DEF ms
  <2>3. Once(HeldCommands \o ms, Command)
    BY <1>1, <1>4, <2>2, OnceInJoined
  <2>4. \A d : Occurs(d, HeldCommands \o ms) <=> Occurs(d, HeldCommands) \/ d = c
    BY <1>1, <2>2, OccursInJoined
  <2>5. HeldCommands' = HeldCommands \o ms
    BY <1>4 DEF ms
  <2> QED
    BY <1>1, <2>3, <2>4, <2>5
<1> QED
  BY <1>2, <1>3, <1>4, CommandsHeld

LEMMA EventsOnce == ASSUME Normal, [Next]_vars PROVE Once(HeldEvents', OfOrders)
<1> USE DEF Normal, Inv
<1>1. Once(HeldEvents, OfOrders) /\ HeldEvents \in Seq(Event)
  BY DEF Orderly, OnceInv, BusInv
<1>2. CASE StreamsStay
  BY <1>1, <1>2 DEF StreamsStay
<1>3. CASE EventGone
  BY <1>1, <1>3, OnceInTail DEF EventGone
<1>4. ASSUME NEW ms \in Seq(Event), AccountStep(ms) PROVE Once(HeldEvents', OfOrders)
  <2>1. \A m \in OfOrders : ~(Occurs(m, HeldEvents) /\ Occurs(m, ms))
    BY <1>4, FoundInStreams DEF AccountStep, AccountEvent
  <2> QED
    BY <1>1, <1>4, <2>1, OnceInJoined DEF AccountStep, AccountGrows
<1>5. CASE InventoryStep
  <2>1. PICK o \in Orders : InventoryGrows(Removed(o))
    BY <1>5 DEF InventoryStep
  <2>2. inventory \in Seq(Event) /\ inventory' = inventory \o Removed(o)
    BY <2>1 DEF InventoryGrows, TypeInv
  <2>3. Removed(o) \in Seq(Event) /\ Len(Removed(o)) = 1 /\ \A m : Occurs(m, Removed(o)) <=> m = InventoryRemoved(o)
    BY RemovedType DEF InventoryRemoved
  <2>4. \A m : Occurs(m, inventory') <=> Occurs(m, inventory) \/ m = InventoryRemoved(o)
    BY <2>2, <2>3, OccursInJoined
  <2>5. ~Occurs(InventoryRemoved(o), inventory)
    <3>1. inventory' # inventory
      BY <2>2, RemovedAt
    <3>2. PICK p \in Orders : Taken(p)
      BY <3>1, Stages DEF StagesStay, Placed, Processed, GivenUp, Undone
    <3>3. p \in Fulfilled' /\ p \notin Fulfilled
      BY <3>2 DEF Taken, Orderly, StageInv
    <3>4. Occurs(InventoryRemoved(p), inventory') /\ ~Occurs(InventoryRemoved(p), inventory)
      BY <3>3 DEF Fulfilled
    <3>5. InventoryRemoved(p) = InventoryRemoved(o)
      BY <2>4, <3>4
    <3> QED
      BY <3>4, <3>5
  <2>6. \A m \in OfOrders : ~(Occurs(m, HeldEvents) /\ Occurs(m, Removed(o)))
    <3>1. InventoryRemoved(o) \in OfOrders /\ InventoryRemoved(o).type = "InventoryRemoved"
      BY EventsOfOrder
    <3> QED
      BY <2>3, <2>5, <3>1, FoundInStreams
  <2>7. Once(Removed(o), OfOrders)
    <3>1. DOMAIN Removed(o) = {1}
      BY <2>3
    <3> QED
      BY <3>1 DEF Once
  <2> QED
    BY <1>1, <2>1, <2>3, <2>6, <2>7, OnceInJoined DEF InventoryGrows
<1> QED
  BY <1>2, <1>3, <1>4, <1>5, StreamSteps

LEMMA OnceStays == ASSUME Normal, [Next]_vars PROVE OnceInv'
<1> USE DEF Normal, Orderly
<1>1. Once(HeldEvents', OfOrders)
  BY EventsOnce
<1>2. /\ Once(HeldCommands', Command)
      /\ \A c \in Command : Occurs(c, HeldCommands') => \E o \in Orders : c \in {Removal(o), Cancellation(o)}
  BY CommandsOnce
<1>3. /\ StageInv /\ Fresh \cap Created = {}
      /\ \A o \in Orders : CommandPhase(Removal(o)) # "none" => o \in Created \ Ordered
      /\ \A o \in Orders : CommandPhase(Cancellation(o)) # "none" => o \in Cancelling \cup Cancelled
  BY FreshAreNotCreated DEF OnceInv
<1>4. /\ Created \ Ordered \subseteq Created' \ Ordered'
      /\ Cancelling \cup Cancelled \subseteq Cancelling' \cup Cancelled'
  <2>1. CASE StagesStay
    BY <2>1 DEF StagesStay
  <2>2. ASSUME NEW o \in Orders, Placed(o)
        PROVE  /\ Created \ Ordered \subseteq Created' \ Ordered'
               /\ Cancelling \cup Cancelled \subseteq Cancelling' \cup Cancelled'
    BY <1>3, <2>2 DEF Placed
  <2>3. ASSUME NEW o \in Orders, Processed(o) \/ Taken(o) \/ GivenUp(o) \/ Undone(o)
        PROVE  /\ Created \ Ordered \subseteq Created' \ Ordered'
               /\ Cancelling \cup Cancelled \subseteq Cancelling' \cup Cancelled'
    BY <2>3 DEF Processed, Taken, GivenUp, Undone
  <2> QED
    BY <2>1, <2>2, <2>3, Stages
<1>5. ASSUME NEW o \in Orders, CommandPhase(Removal(o))' # "none" PROVE o \in Created' \ Ordered'
  <2>1. CASE CommandPhase(Removal(o)) # "none"
    BY <1>3, <1>4, <2>1
  <2>2. CASE CommandPhase(Removal(o)) = "none"
    <3>1. RemovalSent(o)
      <4>1. PICK p \in Orders : \/ RemovalSent(p) /\ Removal(o) = Removal(p)
                                \/ CancellationSent(p) /\ Removal(o) = Cancellation(p)
        BY <1>5, <2>2, CommandsOfOrder, CommandsPublished
      <4> QED
        BY <4>1, CommandsOfOrder
    <3>2. o \in Created /\ o \notin Ordered'
      BY <1>3, <3>1 DEF RemovalSent, EventMoves, Ordered, Over, StageInv
    <3>3. Created' = Created
      BY <3>1, NothingGained DEF RemovalSent
    <3> QED
      BY <3>2, <3>3
  <2> QED
    BY <2>1, <2>2
<1>6. ASSUME NEW o \in Orders, CommandPhase(Cancellation(o))' # "none" PROVE o \in Cancelling' \cup Cancelled'
  <2>1. CASE CommandPhase(Cancellation(o)) # "none"
    BY <1>3, <1>4, <2>1
  <2>2. CASE CommandPhase(Cancellation(o)) = "none"
    <3>1. CancellationSent(o)
      <4>1. PICK p \in Orders : \/ RemovalSent(p) /\ Cancellation(o) = Removal(p)
                                \/ CancellationSent(p) /\ Cancellation(o) = Cancellation(p)
        BY <1>6, <2>2, CommandsOfOrder, CommandsPublished
      <4> QED
        BY <4>1, CommandsOfOrder
    <3> QED
      BY <3>1 DEF CancellationSent, CommandMoves, Cancelling, Over
  <2> QED
    BY <2>1, <2>2
<1> QED
  BY <1>1, <1>2, <1>5, <1>6 DEF OnceInv

LEMMA PairStays == ASSUME Normal, [Next]_vars PROVE PairInv'
<1> USE EventsOfOrder DEF PairInv, Created, Cancelled, AccountGains
<1>1. PairInv
  BY DEF Normal, Orderly
<1>2. CASE Waits
  BY <1>1, <1>2 DEF Waits
<1>3. ASSUME NEW p \in Orders, Accepted(p) PROVE PairInv'
  <2>1. \A d \in OfOrders : Occurs(d, account') <=> Occurs(d, account) \/ d = OrderCreated(p) \/ d = FundsWithdrawn(p)
    BY <1>3 DEF Accepted
  <2>2. \A o \in Orders : (OrderCreated(o) = OrderCreated(p) <=> o = p) /\ (FundsWithdrawn(o) = FundsWithdrawn(p) <=> o = p)
    OBVIOUS
  <2>3. \A o \in Orders : Occurs(FundsWithdrawn(o), account') <=> Occurs(OrderCreated(o), account')
    BY <1>1, <2>1, <2>2
  <2>4. \A o \in Orders : Occurs(RollbackOrderCreated(o), account') <=> Occurs(RollbackFundsWithdrawn(o), account')
    BY <1>1, <2>1
  <2> QED
    BY <2>3, <2>4
<1>4. ASSUME NEW p \in Orders, CancellationDone(p) PROVE PairInv'
  <2>1. \A d \in OfOrders : Occurs(d, account') <=>
          Occurs(d, account) \/ d = RollbackOrderCreated(p) \/ d = RollbackFundsWithdrawn(p)
    BY <1>4 DEF CancellationDone
  <2>2. \A o \in Orders : /\ RollbackOrderCreated(o) = RollbackOrderCreated(p) <=> o = p
                          /\ RollbackFundsWithdrawn(o) = RollbackFundsWithdrawn(p) <=> o = p
    OBVIOUS
  <2>3. \A o \in Orders : Occurs(FundsWithdrawn(o), account') <=> Occurs(OrderCreated(o), account')
    BY <1>1, <2>1
  <2>4. \A o \in Orders : Occurs(RollbackOrderCreated(o), account') <=> Occurs(RollbackFundsWithdrawn(o), account')
    BY <1>1, <2>1, <2>2
  <2> QED
    BY <2>3, <2>4
<1>5. ASSUME NEW p \in Orders,
             Refused(p) \/ RemovalSent(p) \/ RemovalDone(p) \/ RemovalFails(p) \/ CancellationSent(p)
      PROVE  PairInv'
  BY <1>1, <1>5 DEF Refused, RemovalSent, RemovalDone, RemovalFails, CancellationSent
<1>6. ASSUME NEW e \in OfOrders, EventAdvances(e) \/ EventHandled(e) PROVE PairInv'
  BY <1>1, <1>6 DEF EventAdvances, EventHandled
<1>7. ASSUME NEW c \in Command, CommandAdvances(c) PROVE PairInv'
  BY <1>1, <1>7 DEF CommandAdvances
<1> QED
  BY <1>2, <1>3, <1>4, <1>5, <1>6, <1>7, Effects DEF Moves, OrderMoves

(* What an event publishes is what the saga made of it. *)
LEMMA EventTodoStays ==
    ASSUME Normal, [Next]_vars
    PROVE  \A e \in Event : /\ eventWork'[e].phase # "rejected"
                            /\ eventWork'[e].phase = "decided" => eventWork'[e].todo = PostOrderCreated(e)
<1> USE DEF Normal, Inv
<1> DEFINE Good(w, e) == w.phase # "rejected" /\ (w.phase = "decided" => w.todo = PostOrderCreated(e))
<1>1. \A e \in Event : Good(eventWork[e], e)
  BY DEF Orderly, TodoInv
<1>2. ASSUME eventWork' = eventWork PROVE \A e \in Event : Good(eventWork'[e], e)
  BY <1>1, <1>2
<1>3. ASSUME NEW o \in Orders, OrderStep(o) PROVE eventWork' = eventWork
  BY <1>3 DEF OrderStep, PlaceOrder, CreateOrder, OrderRollback, InvalidWithdrawalAmount
<1>4. ASSUME NEW c \in Command, CommandStep(c) PROVE eventWork' = eventWork
  BY <1>4 DEF CommandStep, MergeForCommand, RemoveInventory, RollbackAccount, CommandRollback,
              CommandPublishes, CommandDone
<1>5. ASSUME NEW e \in Event, InHand(e, HeldEvents), EventStep(e)
      PROVE  \A d \in Event : Good(eventWork'[d], d)
  <2>1. eventWork[e] \in Work /\ eventWork \in [Event -> Work]
    BY DEF TypeInv
  <2>2. ASSUME NEW w, eventWork' = [eventWork EXCEPT ![e] = w], Good(w, e)
        PROVE  \A d \in Event : Good(eventWork'[d], d)
    BY <1>1, <2>1, <2>2
  <2> HIDE DEF Good
  <2>3. CASE MergeForEvent(e)
    <3>1. PICK s \in Seq(Event) : eventWork' = [eventWork EXCEPT ![e] = Merge(@, s)]
      BY <2>3 DEF MergeForEvent, TypeInv
    <3>2. Merge(eventWork[e], s).phase = "merged"
      BY <2>1, WorkSteps
    <3> QED
      BY <2>2, <3>1, <3>2 DEF Good
  <2>4. CASE HandlersResolve(e)
    <3>1. Reach(eventWork[e], "handled").phase = "handled"
      BY <2>1, WorkSteps DEF Phases
    <3> QED
      BY <2>2, <2>4, <3>1 DEF Good, HandlersResolve
  <2>5. CASE HandlerRejects(e) \/ EventRollback(e)
    BY <1>5, <2>5, NoEventIsRejected
  <2>6. CASE ProcessEvent(e)
    <3>1. PostOrderCreated(e) \in Seq(Command)
      BY <1>5, PostOrderCreatedType, HandledIsOfStreams
    <3>2. Decide(eventWork[e], PostOrderCreated(e)).todo = PostOrderCreated(e)
            /\ Decide(eventWork[e], PostOrderCreated(e)).phase = "decided"
      BY <2>1, <3>1, WorkSteps
    <3> QED
      BY <2>2, <2>6, <3>2 DEF Good, ProcessEvent
  <2>7. CASE EventPublishes(e)
    <3>1. Reach(eventWork[e], "published").phase = "published"
      BY <2>1, WorkSteps DEF Phases
    <3> QED
      BY <2>2, <2>7, <3>1 DEF Good, EventPublishes
  <2>8. CASE EventDone(e)
    BY <2>2, <2>8, StartedType DEF Good, EventDone
  <2> QED
    BY <1>5, <2>3, <2>4, <2>5, <2>6, <2>7, <2>8 DEF EventStep
<1> QED
  BY <1>2, <1>3, <1>4, <1>5, Cases DEF vars

(* A removal that failed has its way back to publish. *)
LEMMA RemovalTodoStays ==
    ASSUME Normal, [Next]_vars, NEW o \in Orders, commandWork'[Removal(o)].phase = "decided"
    PROVE  commandWork'[Removal(o)].todo = <<Cancellation(o)>>
<1> USE DEF Normal, Inv
<1> DEFINE c == Removal(o)
<1>1. c \in Command /\ c.corr = o /\ c.order = o /\ commandWork \in [Command -> Work] /\ commandWork[c] \in Work
  BY CommandsOfOrder DEF TypeInv
<1>2. commandWork[c].phase = "decided" => commandWork[c].todo = <<Cancellation(o)>>
  BY DEF Orderly, TodoInv
<1>3. CASE CommandRollback(c)
  <2>1. o \in rollbacks
    <3>1. commandWork[c].phase = "rejected"
      BY <1>3 DEF CommandRollback
    <3>2. Occurs(c, HeldCommands)
      BY <1>1, <3>1, StartedType, HeadOccurs DEF HeadInv, BusInv
    <3> QED
      BY <1>1, <3>2 DEF WayInv, SagaCommand
  <2>2. RollbackSagas(o) = <<Cancellation(o)>>
    BY <2>1 DEF RollbackSagas, RollbackCommand, SagaSteps, Cancellation
  <2>3. RollbackSagas(o) \in Seq(Command)
    BY <2>2, CommandsOfOrder
  <2>4. commandWork' = [commandWork EXCEPT ![c] = Decide(commandWork[c], RollbackSagas(o))]
    BY <1>1, <1>3 DEF CommandRollback
  <2>5. Decide(commandWork[c], RollbackSagas(o)).todo = RollbackSagas(o)
    BY <1>1, <2>3, WorkSteps
  <2> QED
    BY <1>1, <2>2, <2>4, <2>5
<1>4. CASE commandWork'[c] = commandWork[c]
  BY <1>2, <1>4
<1>5. ASSUME NEW p \in Orders, OrderStep(p) PROVE commandWork' = commandWork
  BY <1>5 DEF OrderStep, PlaceOrder, CreateOrder, OrderRollback, InvalidWithdrawalAmount
<1>6. ASSUME NEW e \in Event, EventStep(e) PROVE commandWork' = commandWork
  BY <1>6 DEF EventStep, MergeForEvent, HandlersResolve, HandlerRejects, ProcessEvent, EventRollback,
              EventPublishes, EventDone
<1>7. ASSUME NEW d \in Command, InHand(d, HeldCommands), CommandStep(d)
      PROVE  commandWork'[c] = commandWork[c] \/ CommandRollback(c)
  <2>1. CASE d # c
    BY <1>1, <1>7, <2>1 DEF CommandStep, MergeForCommand, RemoveInventory, RollbackAccount, CommandRollback,
                            CommandPublishes, CommandDone
  <2>2. CASE d = c
    <3> DEFINE w == commandWork[c]
    <3>1. /\ \A s \in Seq(Event) : Merge(w, s).phase = "merged"
          /\ Reach(w, "rejected").phase = "rejected" /\ Reach(w, "published").phase = "published"
      BY <1>1, WorkSteps DEF Phases
    <3> HIDE DEF w
    <3>2. \A s \in Seq(Event) : commandWork' # [commandWork EXCEPT ![c] = Merge(w, s)]
      BY <1>1, <3>1
    <3>3. /\ commandWork' # [commandWork EXCEPT ![c] = Reach(w, "rejected")]
          /\ commandWork' # [commandWork EXCEPT ![c] = Reach(w, "published")]
          /\ commandWork' # [commandWork EXCEPT ![c] = Started]
      BY <1>1, <3>1, StartedType
    <3>4. ~MergeForCommand(c)
      BY <1>1, <3>2 DEF MergeForCommand, TypeInv, w
    <3>5. ~RemoveInventory(c) /\ ~RollbackAccount(c) /\ ~CommandPublishes(c) /\ ~CommandDone(c)
      BY <1>1, <3>3 DEF RemoveInventory, RollbackAccount, CommandPublishes, CommandDone, w
    <3> HIDE DEF c
    <3> QED
      BY <1>7, <2>2, <3>4, <3>5 DEF CommandStep
  <2> QED
    BY <2>1, <2>2
<1> HIDE DEF c
<1>8. commandWork'[c] = commandWork[c] \/ CommandRollback(c)
  BY <1>5, <1>6, <1>7, Cases DEF vars
<1> QED
  BY <1>3, <1>4, <1>8 DEF c

LEMMA CancellationsSucceed ==
    ASSUME Normal, [Next]_vars, NEW o \in Orders
    PROVE  CommandPhase(Cancellation(o))' \notin {"rejected", "decided"}
<1> DEFINE c == Cancellation(o)
           Good == CommandPhase(c)' \notin {"rejected", "decided"}
<1>1. c \in Command /\ c.type # "RemoveInventory" /\ \A p \in Orders : c # Removal(p)
  BY CommandsOfOrder
<1>2. CommandPhase(c) \notin {"rejected", "decided"}
  BY <1>1, StartedType DEF Normal, Orderly, TodoInv, CommandPhase
<1> HIDE DEF c
<1>3. ASSUME Waits PROVE Good
  BY <1>1, <1>2, <1>3 DEF Waits, Others
<1>4. ASSUME NEW p \in Orders, Refused(p) \/ Accepted(p) \/ RemovalSent(p) \/ RemovalDone(p) \/ RemovalFails(p)
      PROVE  Good
  BY <1>1, <1>2, <1>4 DEF Refused, Accepted, RemovalSent, RemovalDone, RemovalFails, Others
<1>5. ASSUME NEW p \in Orders, CancellationSent(p) \/ CancellationDone(p) PROVE Good
  BY <1>1, <1>2, <1>5 DEF CancellationSent, CancellationDone, CommandMoves, Others
<1>6. ASSUME NEW e \in OfOrders, EventAdvances(e) \/ EventHandled(e) PROVE Good
  BY <1>1, <1>2, <1>6 DEF EventAdvances, EventHandled, Others
<1>7. ASSUME NEW d \in Command, CommandAdvances(d) PROVE Good
  BY <1>1, <1>2, <1>7 DEF CommandAdvances, CommandMoves, Others
<1> HIDE DEF Good
<1>8. Good
  BY <1>3, <1>4, <1>5, <1>6, <1>7, Effects DEF Moves, OrderMoves
<1> QED
  BY <1>8 DEF Good, c

LEMMA TodoStays == ASSUME Normal, [Next]_vars PROVE TodoInv'
<1>1. Inv'
  BY InvStays DEF Normal
<1>2. ASSUME NEW o \in Orders PROVE commandWork'[Cancellation(o)].phase \notin {"rejected", "decided"}
  <2> DEFINE c == Cancellation(o)
  <2>1. c \in Command
    BY CommandsOfOrder
  <2>2. CommandPhase(c)' \notin {"rejected", "decided"}
    BY CancellationsSucceed
  <2> HIDE DEF c
  <2>3. commandWork'[c] # Started => Occurs(c, HeldCommands')
    BY <1>1, <2>1, HeadOccurs DEF Inv, HeadInv, BusInv
  <2>4. commandWork'[c].phase \notin {"rejected", "decided"}
    BY <2>2, <2>3, StartedType DEF CommandPhase
  <2> QED
    BY <2>4 DEF c
<1> QED
  BY <1>2, EventTodoStays, RemovalTodoStays DEF TodoInv

-----------------------------------------------------------------------------
(* The projections.                                                        *)
UnhandledStays(d) == Unhandled(d)' <=> Unhandled(d)

LEMMA OthersUnhandled ==
    ASSUME NEW E, NEW C, Others(E, C)
    PROVE  \A d \in OfOrders \ E : UnhandledStays(d)
BY DEF Others, Unhandled, UnhandledStays

LEMMA TableKept ==
    ASSUME TableInv, orderTable' = orderTable, Created' = Created, Cancelled' = Cancelled,
           \A o \in Orders : UnhandledStays(OrderCreated(o)) /\ UnhandledStays(RollbackOrderCreated(o))
    PROVE  TableInv'
BY DEF TableInv, InTable, UnhandledStays

LEMMA EventAdvancesTable ==
    ASSUME TableInv, NEW e \in OfOrders, EventAdvances(e)
    PROVE  TableInv'
<1>1. UnhandledStays(e) /\ \A d \in OfOrders : UnhandledStays(d)
  <2>1. UnhandledStays(e)
    BY DEF EventAdvances, EventMoves, Unhandled, UnhandledStays
  <2>2. PICK E : E = {e}
    OBVIOUS
  <2>3. PICK C : C = {}
    OBVIOUS
  <2>4. \A d \in OfOrders \ E : UnhandledStays(d)
    BY <2>2, <2>3, OthersUnhandled DEF EventAdvances
  <2> QED
    BY <2>1, <2>2, <2>4
<1>2. Created' = Created /\ Cancelled' = Cancelled /\ orderTable' = orderTable
  BY NothingGained DEF EventAdvances
<1> QED
  BY <1>1, <1>2, TableKept, EventsOfOrder

LEMMA EventHandledTable ==
    ASSUME Normal, NEW e \in OfOrders, EventHandled(e)
    PROVE  TableInv'
<1>1. TableInv /\ StageInv /\ PairInv
  BY DEF Normal, Orderly
<1>2. Unhandled(e) /\ ~Unhandled(e)'
  BY DEF EventHandled, EventMoves, Unhandled
<1>3. \A d \in OfOrders : d # e => UnhandledStays(d)
  BY DEF EventHandled, Others, Unhandled, UnhandledStays
<1>4. Created' = Created /\ Cancelled' = Cancelled
  BY NothingGained DEF EventHandled
<1>5. e.corr \in Orders
  BY OrderOfEvent
<1>6. CASE e.type = "OrderCreated"
  <2> DEFINE p == e.corr
  <2>1. e = OrderCreated(p) /\ p \in Orders /\ orderTable' = orderTable \cup {p}
    BY <1>5, <1>6, OrderOfEvent DEF EventHandled
  <2> HIDE DEF p
  <2>2. p \in Created /\ p \notin Cancelled
    BY <1>1, <1>2, <2>1 DEF StageInv, Ordered, Unhandled, Over
  <2>3. ASSUME NEW o \in Orders, o # p PROVE o \in orderTable' <=> InTable(o)'
    <3>1. OrderCreated(o) # e /\ RollbackOrderCreated(o) # e
      BY <1>6, <2>1, <2>3, EventsOfOrder
    <3>2. o \in orderTable' <=> o \in orderTable
      BY <2>1, <2>3
    <3> QED
      BY <1>1, <1>3, <1>4, <3>1, <3>2, EventsOfOrder DEF TableInv, InTable, UnhandledStays
  <2>4. p \in orderTable' /\ InTable(p)'
    BY <1>2, <1>4, <2>1, <2>2 DEF InTable
  <2> QED
    BY <2>3, <2>4 DEF TableInv, InTable
<1>7. CASE e.type = "RollbackOrderCreated"
  <2> DEFINE p == e.corr
  <2>1. e = RollbackOrderCreated(p) /\ p \in Orders /\ orderTable' = orderTable \ {p}
    BY <1>5, <1>7, OrderOfEvent DEF EventHandled
  <2> HIDE DEF p
  <2>2. p \in Cancelled
    <3>1. Occurs(e, account)
      BY <1>2, <1>7, FoundInStreams DEF Unhandled, Normal
    <3> QED
      BY <1>1, <2>1, <3>1 DEF PairInv
  <2>3. ASSUME NEW o \in Orders, o # p PROVE o \in orderTable' <=> InTable(o)'
    <3>1. OrderCreated(o) # e /\ RollbackOrderCreated(o) # e
      BY <1>7, <2>1, <2>3, EventsOfOrder
    <3>2. o \in orderTable' <=> o \in orderTable
      BY <2>1, <2>3
    <3> QED
      BY <1>1, <1>3, <1>4, <3>1, <3>2, EventsOfOrder DEF TableInv, InTable, UnhandledStays
  <2>4. p \notin orderTable' /\ ~InTable(p)'
    BY <1>2, <1>4, <2>1, <2>2 DEF InTable
  <2> QED
    BY <2>3, <2>4 DEF TableInv, InTable
<1>8. CASE e.type \notin {"OrderCreated", "RollbackOrderCreated"}
  <2>1. orderTable' = orderTable
    BY <1>8 DEF EventHandled
  <2>2. \A o \in Orders : OrderCreated(o) # e /\ RollbackOrderCreated(o) # e
    BY <1>8, EventsOfOrder
  <2> QED
    BY <1>1, <1>3, <1>4, <2>1, <2>2, TableKept, EventsOfOrder
<1> QED
  BY <1>6, <1>7, <1>8

LEMMA AcceptedTable ==
    ASSUME Normal, NEW p \in Orders, Accepted(p)
    PROVE  TableInv'
<1>1. TableInv /\ StageInv /\ p \notin Created
  BY FreshAreNotCreated DEF Normal, Orderly, Accepted
<1>2. orderTable' = orderTable /\ Cancelled' = Cancelled /\ Created' = Created \cup {p}
  BY EventsOfOrder DEF Accepted, AccountGains, Created, Cancelled
<1>3. \A d \in OfOrders : d # OrderCreated(p) /\ d # FundsWithdrawn(p) => UnhandledStays(d)
  BY DEF Accepted, Others, Unhandled, UnhandledStays
<1>4. Unhandled(OrderCreated(p))'
  BY DEF Accepted, EventMoves, Unhandled
<1>5. ASSUME NEW o \in Orders, o # p PROVE o \in orderTable' <=> InTable(o)'
  <2>1. UnhandledStays(OrderCreated(o)) /\ UnhandledStays(RollbackOrderCreated(o))
    BY <1>3, <1>5, EventsOfOrder
  <2> QED
    BY <1>1, <1>2, <1>5, <2>1 DEF TableInv, InTable, UnhandledStays
<1>6. p \notin orderTable' /\ ~InTable(p)'
  BY <1>1, <1>2, <1>4 DEF TableInv, InTable
<1> QED
  BY <1>5, <1>6 DEF TableInv, InTable

LEMMA CancellationDoneTable ==
    ASSUME Normal, NEW p \in Orders, CancellationDone(p)
    PROVE  TableInv'
<1>1. TableInv /\ StageInv /\ p \notin Cancelled
  BY DEF Normal, Orderly, StageInv, CancellationDone, CommandMoves, Cancelling, Over
<1>2. orderTable' = orderTable /\ Cancelled' = Cancelled \cup {p} /\ Created' = Created
  BY EventsOfOrder DEF CancellationDone, AccountGains, Created, Cancelled
<1>3. \A d \in OfOrders : d # RollbackOrderCreated(p) /\ d # RollbackFundsWithdrawn(p) => UnhandledStays(d)
  BY DEF CancellationDone, Others, Unhandled, UnhandledStays
<1>4. Unhandled(RollbackOrderCreated(p))'
  BY DEF CancellationDone, Unhandled
<1>5. \A o \in Orders : UnhandledStays(OrderCreated(o))
  BY <1>3, EventsOfOrder
<1>6. ASSUME NEW o \in Orders, o # p PROVE UnhandledStays(RollbackOrderCreated(o))
  BY <1>3, <1>6, EventsOfOrder
<1>7. \A o \in Orders : o \in orderTable' <=> InTable(o)'
  BY <1>1, <1>2, <1>4, <1>5, <1>6 DEF TableInv, InTable, UnhandledStays
<1> QED
  BY <1>7 DEF TableInv, InTable

LEMMA TableStays == ASSUME Normal, [Next]_vars PROVE TableInv'
<1>1. TableInv
  BY DEF Normal, Orderly
<1>2. ASSUME AccountGains({}), inventory' = inventory, orderTable' = orderTable,
             \A o \in Orders : /\ EventPhase(OrderCreated(o))' = EventPhase(OrderCreated(o))
                               /\ EventPhase(RollbackOrderCreated(o))' = EventPhase(RollbackOrderCreated(o))
      PROVE  TableInv'
  BY <1>1, <1>2, NothingGained, TableKept DEF Unhandled, UnhandledStays
<1>3. CASE Waits
  BY <1>2, <1>3, EventsOfOrder DEF Waits, Others
<1>4. ASSUME NEW p \in Orders, Refused(p) \/ RemovalFails(p) \/ CancellationSent(p) PROVE TableInv'
  BY <1>2, <1>4, EventsOfOrder DEF Refused, RemovalFails, CancellationSent, Others
<1>5. ASSUME NEW p \in Orders, RemovalSent(p) PROVE TableInv'
  <2>1. Created' = Created /\ Cancelled' = Cancelled /\ orderTable' = orderTable
    BY <1>5, NothingGained DEF RemovalSent
  <2>2. \A d \in OfOrders : UnhandledStays(d)
    BY <1>5 DEF RemovalSent, EventMoves, Others, Unhandled, UnhandledStays
  <2> QED
    BY <1>1, <2>1, <2>2, TableKept, EventsOfOrder
<1>6. ASSUME NEW p \in Orders, RemovalDone(p) PROVE TableInv'
  <2>1. Created' = Created /\ Cancelled' = Cancelled /\ orderTable' = orderTable
    BY <1>6, EventsOfOrder DEF RemovalDone, AccountGains, Created, Cancelled
  <2>2. \A d \in OfOrders : d # InventoryRemoved(p) => UnhandledStays(d)
    BY <1>6 DEF RemovalDone, Others, Unhandled, UnhandledStays
  <2> QED
    BY <1>1, <2>1, <2>2, TableKept, EventsOfOrder
<1>7. ASSUME NEW p \in Orders, Accepted(p) \/ CancellationDone(p) PROVE TableInv'
  BY <1>7, AcceptedTable, CancellationDoneTable
<1>8. ASSUME NEW e \in OfOrders, EventAdvances(e) \/ EventHandled(e) PROVE TableInv'
  BY <1>1, <1>8, EventAdvancesTable, EventHandledTable
<1>9. ASSUME NEW c \in Command, CommandAdvances(c) PROVE TableInv'
  BY <1>2, <1>9, EventsOfOrder DEF CommandAdvances, Others
<1> QED
  BY <1>3, <1>4, <1>5, <1>6, <1>7, <1>8, <1>9, Effects DEF Moves, OrderMoves

-----------------------------------------------------------------------------
(* An event that is new in the account is started.                         *)
LEMMA NewAreStarted ==
    ASSUME Normal, [Next]_vars
    PROVE  \A d \in OfOrders : Occurs(d, account') /\ ~Occurs(d, account) => EventPhase(d)' = "started"
<1> SUFFICES ASSUME NEW d \in OfOrders, Occurs(d, account'), ~Occurs(d, account)
             PROVE  EventPhase(d)' = "started"
  OBVIOUS
<1>1. ~Waits
  BY DEF Waits, AccountGains
<1>2. ASSUME NEW p \in Orders, Accepted(p) PROVE EventPhase(d)' = "started"
  BY <1>2 DEF Accepted, AccountGains, EventMoves
<1>3. ASSUME NEW p \in Orders, CancellationDone(p) PROVE EventPhase(d)' = "started"
  BY <1>3 DEF CancellationDone, AccountGains
<1>4. ASSUME NEW p \in Orders,
             Refused(p) \/ RemovalSent(p) \/ RemovalDone(p) \/ RemovalFails(p) \/ CancellationSent(p)
      PROVE  FALSE
  BY <1>4 DEF Refused, RemovalSent, RemovalDone, RemovalFails, CancellationSent, AccountGains
<1>5. ASSUME NEW e \in OfOrders, EventAdvances(e) \/ EventHandled(e) PROVE FALSE
  BY <1>5 DEF EventAdvances, EventHandled, AccountGains
<1>6. ASSUME NEW c \in Command, CommandAdvances(c) PROVE FALSE
  BY <1>6 DEF CommandAdvances, AccountGains
<1> QED
  BY <1>1, <1>2, <1>3, <1>4, <1>5, <1>6, Effects DEF Moves, OrderMoves

LEMMA AccountPrefix ==
    ASSUME Inv, [Next]_vars
    PROVE  /\ Len(account) \in Nat /\ Len(account') \in Nat /\ Len(account) <= Len(account')
           /\ DOMAIN account = 1..Len(account) /\ DOMAIN account' = 1..Len(account')
           /\ \A i \in 1..Len(account) : account'[i] = account[i]
           /\ \A v \in 0..Len(account) : SubSeq(account', 1, v) = SubSeq(account, 1, v)
           /\ \A i \in DOMAIN account' : i \notin DOMAIN account /\ account'[i] \in OfOrders =>
                ~Occurs(account'[i], account)
<1>1. account \in Seq(Event)
  BY DEF Inv, TypeInv
<1>2. ASSUME account' = account
      PROVE  /\ Len(account) \in Nat /\ Len(account') \in Nat /\ Len(account) <= Len(account')
             /\ DOMAIN account = 1..Len(account) /\ DOMAIN account' = 1..Len(account')
             /\ \A i \in 1..Len(account) : account'[i] = account[i]
             /\ \A v \in 0..Len(account) : SubSeq(account', 1, v) = SubSeq(account, 1, v)
             /\ \A i \in DOMAIN account' : i \notin DOMAIN account /\ account'[i] \in OfOrders =>
                  ~Occurs(account'[i], account)
  BY <1>1, <1>2
<1>3. ASSUME NEW ms \in Seq(Event), AccountStep(ms)
      PROVE  /\ Len(account) \in Nat /\ Len(account') \in Nat /\ Len(account) <= Len(account')
             /\ DOMAIN account = 1..Len(account) /\ DOMAIN account' = 1..Len(account')
             /\ \A i \in 1..Len(account) : account'[i] = account[i]
             /\ \A v \in 0..Len(account) : SubSeq(account', 1, v) = SubSeq(account, 1, v)
             /\ \A i \in DOMAIN account' : i \notin DOMAIN account /\ account'[i] \in OfOrders =>
                  ~Occurs(account'[i], account)
  <2>1. account' = account \o ms
    BY <1>3 DEF AccountStep, AccountGrows
  <2>2. \A m : Occurs(m, ms) /\ m \in OfOrders => ~Occurs(m, account)
    BY <1>3 DEF AccountStep
  <2>3. /\ Len(account) \in Nat /\ Len(ms) \in Nat /\ DOMAIN account = 1..Len(account)
        /\ Len(account') = Len(account) + Len(ms) /\ DOMAIN account' = 1..(Len(account) + Len(ms))
        /\ \A i \in DOMAIN account : account'[i] = account[i]
        /\ \A i \in DOMAIN account' : i \notin DOMAIN account => i - Len(account) \in DOMAIN ms
                                                                 /\ account'[i] = ms[i - Len(account)]
    BY <1>1, <2>1, JoinedAt
  <2>4. \A v \in 0..Len(account) : SubSeq(account \o ms, 1, v) = SubSeq(account, 1, v)
    BY <1>1
  <2>5. \A i \in DOMAIN account' : i \notin DOMAIN account => Occurs(account'[i], ms)
    BY <2>3 DEF Occurs
  <2> QED
    BY <2>1, <2>2, <2>3, <2>4, <2>5
<1> QED
  BY <1>2, <1>3, StreamSteps DEF StreamsStay, EventGone, InventoryStep, InventoryGrows

(* What waits behind the event that merged the account goes on waiting.    *)
LEMMA ViewGrowsOld ==
    ASSUME Normal, [Next]_vars, NEW e \in Event, InHand(e, HeldEvents), eventWork[e].phase = "merged",
           eventWork'[e] = eventWork[e], FreshView(eventWork[e], account)
    PROVE  FreshView(eventWork[e], account)'
<1> USE DEF Normal
<1>1. /\ Len(account) \in Nat /\ Len(account') \in Nat /\ Len(account) <= Len(account')
      /\ DOMAIN account = 1..Len(account) /\ DOMAIN account' = 1..Len(account')
      /\ \A i \in 1..Len(account) : account'[i] = account[i]
      /\ \A i \in DOMAIN account' : i \notin DOMAIN account /\ account'[i] \in OfOrders =>
           ~Occurs(account'[i], account)
  BY AccountPrefix
<1>2. eventWork[e].view \in Nat /\ eventWork[e].view <= Len(account)
  BY DEF Inv, TypeInv, Work, FreshView
<1>3. ASSUME NEW d \in OfOrders, EventPhase(d) = "started" PROVE EventPhase(d)' = "started"
  <2>1. d # e
    BY <1>3, HeadOccurs DEF EventPhase, Inv, BusInv
  <2>2. eventWork[d] = Started /\ eventWork'[d] = Started
    <3>1. eventWork[d] = Started
      BY <2>1 DEF Inv, HeadInv, InHand, OfOrders
    <3>2. ASSUME NEW c \in Event, InHand(c, HeldEvents), NEW w, eventWork' = [eventWork EXCEPT ![c] = w]
          PROVE  eventWork'[d] = eventWork[d]
      BY <2>1, <3>2 DEF Inv, TypeInv, InHand, OfOrders
    <3> QED
      BY <3>1, <3>2, EventWorkSteps
  <2>3. Occurs(d, HeldEvents)
    BY <1>3, PhaseKnown DEF OfOrders
  <2>4. Occurs(d, HeldEvents')
    <3>1. EventsGrow
      <4>1. ASSUME NEW c \in Event, InHand(c, HeldEvents) /\ EventDone(c) PROVE FALSE
        <5>1. c = e
          BY <4>1 DEF InHand
        <5> QED
          BY <4>1, <5>1 DEF EventDone
      <4> QED
        BY <4>1, EventsGrowUnlessDone
    <3>2. HeldEvents \in Seq(Event)
      BY DEF Inv, BusInv
    <3>3. ASSUME NEW ms \in Seq(Event) PROVE Occurs(d, HeldEvents \o ms)
      BY <2>3, <3>2, OccursInJoined
    <3> QED
      BY <2>3, <3>1, <3>3 DEF EventsGrow
  <2> QED
    BY <2>2, <2>4, StartedType DEF EventPhase
<1>4. ASSUME NEW i \in DOMAIN account', eventWork[e].view < i, NEW d \in OfOrders, d = account'[i]
      PROVE  EventPhase(d)' = "started"
  <2>1. CASE i \in DOMAIN account
    <3>1. d = account[i]
      BY <1>1, <1>4, <2>1
    <3>2. EventPhase(d) = "started"
      BY <1>4, <2>1, <3>1 DEF FreshView
    <3> QED
      BY <1>3, <1>4, <3>2
  <2>2. CASE i \notin DOMAIN account
    <3>1. ~Occurs(d, account) /\ Occurs(d, account')
      BY <1>1, <1>4, <2>2 DEF Occurs
    <3> QED
      BY <1>4, <3>1, NewAreStarted
  <2> QED
    BY <2>1, <2>2
<1>5. eventWork'[e].view <= Len(account')
  BY <1>1, <1>2
<1> QED
  BY <1>4, <1>5 DEF FreshView, EventPhase

LEMMA MergesView ==
    ASSUME Normal, [Next]_vars, NEW e \in Event, eventWork'[e].phase = "merged", eventWork'[e] # eventWork[e]
    PROVE  MergeForEvent(e)
<1> USE DEF Normal, Inv
<1>1. eventWork \in [Event -> Work] /\ eventWork[e] \in Work
  BY DEF TypeInv
<1>2. ASSUME NEW o \in Orders, OrderStep(o) PROVE FALSE
  BY <1>2 DEF OrderStep, PlaceOrder, CreateOrder, OrderRollback, InvalidWithdrawalAmount
<1>3. ASSUME NEW c \in Command, CommandStep(c) PROVE FALSE
  BY <1>3 DEF CommandStep, MergeForCommand, RemoveInventory, RollbackAccount, CommandRollback,
              CommandPublishes, CommandDone
<1>4. ASSUME NEW d \in Event, InHand(d, HeldEvents), EventStep(d) PROVE MergeForEvent(e)
  <2>1. d = e
    BY <1>1, <1>4 DEF EventStep, MergeForEvent, HandlersResolve, HandlerRejects, ProcessEvent, EventRollback,
                      EventPublishes, EventDone
  <2>2. ~HandlerRejects(e) /\ ~EventRollback(e)
    BY <1>4, <2>1, NoEventIsRejected
  <2> DEFINE w == eventWork[e]
  <2>3. /\ Reach(w, "handled").phase = "handled" /\ Reach(w, "published").phase = "published"
        /\ \A t \in Seq(Command) : Decide(w, t).phase = "decided"
    BY <1>1, WorkSteps DEF Phases
  <2>4. PostOrderCreated(e) \in Seq(Command)
    BY <1>4, <2>1, PostOrderCreatedType, HandledIsOfStreams
  <2> HIDE DEF w
  <2>5. /\ eventWork' # [eventWork EXCEPT ![e] = Reach(w, "handled")]
        /\ eventWork' # [eventWork EXCEPT ![e] = Reach(w, "published")]
        /\ eventWork' # [eventWork EXCEPT ![e] = Decide(w, PostOrderCreated(e))]
        /\ eventWork' # [eventWork EXCEPT ![e] = Started]
    BY <1>1, <2>3, <2>4, StartedType
  <2>6. ~HandlersResolve(e) /\ ~ProcessEvent(e) /\ ~EventPublishes(e) /\ ~EventDone(e)
    BY <1>1, <2>5 DEF HandlersResolve, ProcessEvent, EventPublishes, EventDone, w
  <2> QED
    BY <1>4, <2>1, <2>2, <2>6 DEF EventStep
<1> QED
  BY <1>2, <1>3, <1>4, Cases DEF vars

LEMMA FreshViewStays == ASSUME Normal, [Next]_vars PROVE FreshViewInv'
<1> USE DEF Normal
<1>1. ASSUME NEW e \in Event, eventWork'[e].phase = "merged", e.type # "InventoryRemoved"
      PROVE  FreshView(eventWork[e], account)'
  <2>1. CASE eventWork'[e] = eventWork[e]
    <3>1. InHand(e, HeldEvents)
      BY <1>1, <2>1, StartedType DEF Inv, HeadInv
    <3>2. FreshView(eventWork[e], account)
      BY <1>1, <2>1 DEF Orderly, FreshViewInv
    <3> QED
      BY <1>1, <2>1, <3>1, <3>2, ViewGrowsOld
  <2>2. CASE eventWork'[e] # eventWork[e]
    <3>1. MergeForEvent(e)
      BY <1>1, <2>2, MergesView
    <3>2. eventWork' = [eventWork EXCEPT ![e] = Merge(eventWork[e], account)] /\ account' = account
      BY <1>1, <3>1 DEF MergeForEvent
    <3>3. eventWork'[e].view = Len(account')
      BY <3>2, WorkSteps DEF Inv, TypeInv
    <3>4. account' \in Seq(Event)
      BY <3>2 DEF Inv, TypeInv
    <3>5. \A i \in DOMAIN account' : ~(Len(account') < i)
      BY <3>4
    <3>6. Len(account') <= Len(account')
      BY <3>4
    <3> QED
      BY <3>3, <3>5, <3>6 DEF FreshView
  <2> QED
    BY <2>1, <2>2
<1> QED
  BY <1>1 DEF FreshViewInv

LEMMA WithdrawalsAreOfOrders ==
    ASSUME Inv, NEW d, Occurs(d, account), d.type = "FundsWithdrawn"
    PROVE  d \in OfOrders
BY DEF Inv, AccountInv, AccountEvent

LEMMA UnhandledUntilHandled ==
    ASSUME Normal, [Next]_vars, NEW d \in OfOrders, Unhandled(d), ~EventHandled(d)
    PROVE  Unhandled(d)'
<1>1. EventPhase(d) \in {"started", "merged"}
  BY DEF Unhandled
<1> DEFINE Good == EventPhase(d)' \in {"started", "merged"}
<1>2. ASSUME Waits PROVE Good
  BY <1>1, <1>2 DEF Waits, Others
<1>3. ASSUME NEW p \in Orders, Refused(p) \/ Accepted(p) \/ RemovalSent(p) \/ RemovalDone(p) PROVE Good
  BY <1>1, <1>3 DEF Refused, Accepted, RemovalSent, RemovalDone, EventMoves, Others
<1>4. ASSUME NEW p \in Orders, RemovalFails(p) \/ CancellationSent(p) \/ CancellationDone(p) PROVE Good
  BY <1>1, <1>4 DEF RemovalFails, CancellationSent, CancellationDone, Others
<1>5. ASSUME NEW e \in OfOrders, EventAdvances(e) PROVE Good
  BY <1>1, <1>5 DEF EventAdvances, EventMoves, Others
<1>6. ASSUME NEW e \in OfOrders, EventHandled(e) PROVE Good
  BY <1>1, <1>6 DEF EventHandled, Others
<1>7. ASSUME NEW c \in Command, CommandAdvances(c) PROVE Good
  BY <1>1, <1>7 DEF CommandAdvances, Others
<1> HIDE DEF Good
<1>8. Good
  BY <1>2, <1>3, <1>4, <1>5, <1>6, <1>7, Effects DEF Moves, OrderMoves
<1> QED
  BY <1>8 DEF Good, Unhandled

LEMMA BalanceSteps ==
    ASSUME BusInv, [Next]_vars
    PROVE  balanceTable' = balanceTable \/ \E e \in Event : HandlersResolve(e) /\ SavesBalance(e)
<1>1. ASSUME NEW o \in Orders, OrderStep(o) PROVE balanceTable' = balanceTable
  BY <1>1 DEF OrderStep, PlaceOrder, CreateOrder, OrderRollback, InvalidWithdrawalAmount
<1>2. ASSUME NEW c \in Command, CommandStep(c) PROVE balanceTable' = balanceTable
  BY <1>2 DEF CommandStep, MergeForCommand, RemoveInventory, RollbackAccount, CommandRollback,
              CommandPublishes, CommandDone
<1>3. ASSUME NEW e \in Event, EventStep(e)
      PROVE  balanceTable' = balanceTable \/ (HandlersResolve(e) /\ SavesBalance(e))
  <2>1. CASE HandlersResolve(e)
    <3>1. balanceTable' = IF SavesBalance(e) THEN Balance(View(account, eventWork[e])) ELSE balanceTable
      BY <2>1 DEF HandlersResolve
    <3> QED
      BY <2>1, <3>1
  <2>2. CASE ~HandlersResolve(e)
    BY <1>3, <2>2 DEF EventStep, MergeForEvent, HandlerRejects, ProcessEvent, EventRollback,
                      EventPublishes, EventDone
  <2> QED
    BY <2>1, <2>2
<1> QED
  BY <1>1, <1>2, <1>3, Cases DEF vars

LEMMA BalanceStays == ASSUME Normal, [Next]_vars PROVE BalanceInv'
<1> USE DEF Normal
<1>1. /\ Len(account) \in Nat /\ Len(account') \in Nat /\ Len(account) <= Len(account')
      /\ DOMAIN account = 1..Len(account) /\ DOMAIN account' = 1..Len(account')
      /\ \A i \in 1..Len(account) : account'[i] = account[i]
      /\ \A v \in 0..Len(account) : SubSeq(account', 1, v) = SubSeq(account, 1, v)
      /\ \A i \in DOMAIN account' : i \notin DOMAIN account /\ account'[i] \in OfOrders =>
           ~Occurs(account'[i], account)
  BY AccountPrefix
<1>2. CASE Cancelled # {}
  <2>1. Cancelled' # {}
    BY <1>2, Stages DEF StagesStay, Placed, Processed, Taken, GivenUp, Undone
  <2> QED
    BY <2>1 DEF BalanceInv
<1>3. Inv'
  BY InvStays
<1>4. CASE Cancelled = {} /\ \E e \in Event : HandlersResolve(e) /\ SavesBalance(e)
  <2>1. PICK e \in Event : HandlersResolve(e) /\ SavesBalance(e)
    BY <1>4
  <2> DEFINE v == eventWork[e].view
  <2>2. e.type = "FundsWithdrawn" /\ eventWork[e].phase = "merged" /\ UNCHANGED <<account, events>>
          /\ eventWork' = [eventWork EXCEPT ![e] = Reach(@, "handled")]
    BY <2>1 DEF HandlersResolve, SavesBalance
  <2>3. balanceTable' = Balance(SubSeq(account, 1, v))
    BY <2>1 DEF HandlersResolve, View
  <2>4. FreshView(eventWork[e], account) /\ InHand(e, HeldEvents) /\ v \in Nat
    BY <2>2, StartedType DEF Orderly, FreshViewInv, Inv, HeadInv, TypeInv, Work
  <2>5. EventPhase(e) = "merged"
    BY <2>2, <2>4, HandledIsOfStreams DEF EventPhase
  <2>6. HeldEvents' = HeldEvents
    BY <2>2, HeldStays
  <2>7. \A d \in Event : d # e => EventPhase(d)' = EventPhase(d)
    BY <2>2, <2>6 DEF EventPhase, Inv, TypeInv
  <2>8. ASSUME NEW i \in (v + 1)..Len(account'), NEW d, d = account'[i], d.type = "FundsWithdrawn"
        PROVE  Unhandled(d)'
    <3>1. i \in DOMAIN account /\ d = account[i] /\ v < i
      BY <1>1, <2>2, <2>4, <2>8
    <3>2. d \in OfOrders
      BY <2>8, <3>1, WithdrawalsAreOfOrders DEF Occurs
    <3>3. EventPhase(d) = "started"
      BY <2>4, <3>1, <3>2 DEF FreshView
    <3>4. EventPhase(d)' = "started"
      BY <2>5, <2>7, <3>2, <3>3 DEF OfOrders
    <3> QED
      BY <3>4 DEF Unhandled
  <2>9. v \in 0..Len(account')
    BY <1>1, <2>2, <2>4 DEF FreshView
  <2>10. balanceTable' = Balance(SubSeq(account', 1, v))
    BY <2>2, <2>3
  <2> HIDE DEF v
  <2> QED
    BY <2>8, <2>9, <2>10 DEF BalanceInv, Shows, Unhandled, EventPhase
<1>5. CASE Cancelled = {} /\ ~\E e \in Event : HandlersResolve(e) /\ SavesBalance(e)
  <2>1. PICK v \in 0..Len(account) : Shows(v)
    BY <1>5 DEF Orderly, BalanceInv, Shows
  <2>2. balanceTable' = Balance(SubSeq(account', 1, v))
    <3>1. balanceTable' = balanceTable
      BY <1>5, BalanceSteps DEF Inv
    <3> QED
      BY <1>1, <2>1, <3>1 DEF Shows
  <2>3. ASSUME NEW i \in (v + 1)..Len(account'), NEW d, d = account'[i], d.type = "FundsWithdrawn"
        PROVE  Unhandled(d)'
    <3>1. i \in DOMAIN account' /\ Occurs(d, account')
      BY <1>1, <2>1, <2>3 DEF Occurs
    <3>2. d \in OfOrders
      BY <1>3, <2>3, <3>1 DEF Inv, AccountInv, AccountEvent
    <3>3. CASE i \in DOMAIN account
      <4>1. Unhandled(d)
        BY <1>1, <2>1, <2>3, <3>3 DEF Shows
      <4>2. ~EventHandled(d)
        BY <1>5, <2>3, <3>2 DEF EventHandled, SavesBalance, OfOrders
      <4> QED
        BY <3>2, <4>1, <4>2, UnhandledUntilHandled
    <3>4. CASE i \notin DOMAIN account
      <4>1. ~Occurs(d, account)
        BY <1>1, <2>3, <3>1, <3>2, <3>4
      <4>2. EventPhase(d)' = "started"
        BY <3>1, <3>2, <4>1, NewAreStarted
      <4> QED
        BY <4>2 DEF Unhandled
    <3> QED
      BY <3>3, <3>4
  <2>4. v \in 0..Len(account')
    BY <1>1, <2>1
  <2> QED
    BY <2>2, <2>3, <2>4 DEF BalanceInv, Shows, Unhandled, EventPhase
<1> QED
  BY <1>2, <1>4, <1>5

-----------------------------------------------------------------------------
LEMMA InitOrderly == ASSUME Init PROVE Orderly
<1>1. Inv
  BY InitInv
<1>2. HeldCommands = <<>> /\ HeldEvents = <<>>
  <2>1. <<>> \in Seq(Message)
    OBVIOUS
  <2>2. Held(BusOf(<<>>)) = <<>>
    BY <2>1, HeldOfBus
  <2> QED
    BY <2>2, ReadyIsEmpty DEF Init, HeldCommands, HeldEvents
<1>3. /\ \A m : ~Occurs(m, HeldCommands) /\ ~Occurs(m, HeldEvents)
      /\ \A m : ~Occurs(m, account) /\ ~Occurs(m, inventory)
  BY <1>2, NothingOccurs DEF Init
<1>4. \A e \in Event : EventPhase(e) = "none" /\ eventWork[e].phase = "started"
  BY <1>3, StartedType DEF EventPhase, Init
<1>5. \A c \in Command : CommandPhase(c) = "none" /\ commandWork[c].phase = "started"
  BY <1>3, StartedType DEF CommandPhase, Init
<1>6. Created = {} /\ Ordered = {} /\ Removing = {} /\ Cancelling = {} /\ Fulfilled = {} /\ Cancelled = {}
  BY <1>3, <1>4, <1>5, EventsOfOrder, CommandsOfOrder
     DEF Created, Ordered, Removing, Cancelling, Fulfilled, Cancelled, Over, OfOrders
<1>7. account = <<>> /\ inventory = <<>> /\ Len(account) = 0 /\ Len(inventory) = 0
  BY DEF Init
<1>8. StageInv
  BY <1>6 DEF StageInv
<1>9. UnitInv
  <2>1. IsFiniteSet(Fulfilled) /\ Cardinality(Fulfilled) = 0
    BY <1>6, FS_EmptySet
  <2> QED
    BY <1>5, <1>6, <1>7, <2>1, CommandsOfOrder DEF UnitInv
<1>10. OnceInv
  <2>1. Once(HeldEvents, OfOrders) /\ Once(HeldCommands, Command)
    BY <1>2 DEF Once
  <2> QED
    BY <1>3, <1>5, <2>1, CommandsOfOrder DEF OnceInv
<1>11. PairInv
  BY <1>3, <1>6 DEF PairInv
<1>12. TodoInv
  BY <1>4, <1>5, CommandsOfOrder DEF TodoInv
<1>13. TableInv
  BY <1>6 DEF TableInv, InTable, Init
<1>14. BalanceInv
  <2>1. account = SubSeq(account, 1, 0) /\ 0 \in 0..Len(account) /\ (0 + 1)..Len(account) = {}
    BY <1>7
  <2>2. Balance(account) = Funds
    <3>1. \A t : Count(account, t) = 0
      <4>1. \A t : {i \in DOMAIN account : account[i].type = t} = {}
        BY <1>7
      <4> QED
        BY <4>1, FS_EmptySet DEF Count
    <3> QED
      BY <3>1, FundsAssumption DEF Balance
  <2>3. balanceTable = Balance(SubSeq(account, 1, 0))
    <3>1. balanceTable = Funds
      BY DEF Init
    <3> QED
      BY <2>1, <2>2, <3>1
  <2> QED
    BY <2>1, <2>3 DEF BalanceInv, Shows
<1>15. FreshViewInv
  BY <1>4 DEF FreshViewInv
<1> QED
  BY <1>8, <1>9, <1>10, <1>11, <1>12, <1>13, <1>14, <1>15 DEF Orderly

LEMMA OrderlyStays == ASSUME Normal, [Next]_vars PROVE Orderly'
<1>1. StageInv' /\ UnitInv' /\ OnceInv' /\ PairInv'
  BY StageStays, UnitStays, OnceStays, PairStays
<1>2. TodoInv' /\ TableInv' /\ BalanceInv' /\ FreshViewInv'
  BY TodoStays, TableStays, BalanceStays, FreshViewStays
<1> QED
  BY <1>1, <1>2 DEF Orderly

LEMMA ModeStays == ASSUME BusInv, [Next]_vars PROVE mayReject' = mayReject
<1>1. ASSUME NEW o \in Orders, OrderStep(o) PROVE mayReject' = mayReject
  BY <1>1 DEF OrderStep, PlaceOrder, CreateOrder, OrderRollback, InvalidWithdrawalAmount,
              CommitToAccount
<1>2. ASSUME NEW c \in Command, CommandStep(c) PROVE mayReject' = mayReject
  BY <1>2 DEF CommandStep, MergeForCommand, RemoveInventory, RollbackAccount, CommandRollback,
              CommandPublishes, CommandDone
<1>3. ASSUME NEW e \in Event, EventStep(e) PROVE mayReject' = mayReject
  BY <1>3 DEF EventStep, MergeForEvent, HandlersResolve, HandlerRejects, ProcessEvent, EventRollback,
              EventPublishes, EventDone
<1> QED
  BY <1>1, <1>2, <1>3, Cases DEF vars

LEMMA AlwaysOrderly == Spec => []OInv
<1>1. Init => Inv /\ OInv
  BY InitInv, InitOrderly DEF OInv
<1>2. (Inv /\ OInv) /\ [Next]_vars => (Inv /\ OInv)'
  <2> SUFFICES ASSUME Inv, OInv, [Next]_vars PROVE Inv' /\ OInv'
    OBVIOUS
  <2>1. Inv' /\ mayReject' = mayReject
    BY InvStays, ModeStays DEF Inv
  <2>2. CASE mayReject = {}
    <3>1. Orderly'
      BY <2>2, OrderlyStays DEF OInv, Normal
    <3> QED
      BY <2>1, <3>1 DEF OInv
  <2>3. CASE mayReject # {}
    BY <2>1, <2>3 DEF OInv
  <2> QED
    BY <2>2, <2>3
<1> QED
  BY <1>1, <1>2, PTL DEF Spec

LEMMA AtRest ==
    ASSUME Normal, Quiescent
    PROVE  /\ \A e \in Event : EventPhase(e) = "none"
           /\ Ordered = {} /\ Removing = {} /\ Cancelling = {}
<1>1. commands.running = {} /\ events.running = {}
  BY DEF Quiescent
<1>2. HeldCommands = <<>> /\ HeldEvents = <<>>
  BY <1>1 DEF HeldCommands, HeldEvents, Held
<1>3. \A e \in Event : EventPhase(e) = "none"
  BY <1>2, NothingOccurs DEF EventPhase
<1>4. \A c \in Command : CommandPhase(c) = "none"
  BY <1>2, NothingOccurs DEF CommandPhase
<1> QED
  BY <1>3, <1>4, EventsOfOrder, CommandsOfOrder DEF Ordered, Removing, Cancelling, Over, OfOrders

LEMMA WhatStreamsHave ==
    ASSUME NEW o \in Orders
    PROVE  /\ Has(account, "OrderCreated", o) <=> Occurs(OrderCreated(o), account)
           /\ Has(account, "FundsWithdrawn", o) <=> Occurs(FundsWithdrawn(o), account)
           /\ Has(inventory, "InventoryRemoved", o) <=> Occurs(InventoryRemoved(o), inventory)
           /\ Has(account, "RollbackOrderCreated", o) <=> Occurs(RollbackOrderCreated(o), account)
           /\ Has(account, "RollbackFundsWithdrawn", o) <=> Occurs(RollbackFundsWithdrawn(o), account)
BY DEF Has, Occurs, OrderCreated, FundsWithdrawn, InventoryRemoved, RollbackOrderCreated,
       RollbackFundsWithdrawn

(* Nothing of the account is missing in what the projection shows.         *)
LEMMA ShownAtRest ==
    ASSUME Normal, Quiescent, Cancelled = {}
    PROVE  balanceTable = Balance(account)
<1> USE DEF Normal
<1>1. PICK v \in 0..Len(account) : Shows(v)
  BY DEF Orderly, BalanceInv
<1>2. account \in Seq(Event) /\ DOMAIN account = 1..Len(account) /\ Len(account) \in Nat
  BY DEF Inv, TypeInv
<1> DEFINE s == SubSeq(account, 1, v)
<1>3. DOMAIN s = 1..v /\ \A i \in 1..v : s[i] = account[i]
  BY <1>1, <1>2
<1> HIDE DEF s
<1>4. \A i \in DOMAIN account : account[i] \in Event /\ Occurs(account[i], account)
  BY <1>2 DEF Occurs
<1>5. ASSUME NEW i \in DOMAIN account, account[i].type = "FundsWithdrawn" PROVE i \in 1..v
  <2>1. EventPhase(account[i]) = "none"
    BY <1>4, <1>5, AtRest
  <2> QED
    BY <1>1, <1>2, <1>5, <2>1 DEF Shows, Unhandled
<1>6. ASSUME NEW i \in DOMAIN account PROVE account[i].type # "RollbackFundsWithdrawn"
  <2>1. SUFFICES ASSUME account[i].type = "RollbackFundsWithdrawn" PROVE FALSE
    OBVIOUS
  <2>2. account[i] \in OfOrders
    BY <1>4, <2>1 DEF Inv, AccountInv, AccountEvent
  <2> QED
    BY <1>4, <2>1, <2>2, OrderOfEvent DEF Cancelled
<1>7. {i \in DOMAIN s : s[i].type = "FundsWithdrawn"} = {i \in DOMAIN account : account[i].type = "FundsWithdrawn"}
  BY <1>1, <1>2, <1>3, <1>5
<1>8. {i \in DOMAIN s : s[i].type = "RollbackFundsWithdrawn"} =
        {i \in DOMAIN account : account[i].type = "RollbackFundsWithdrawn"}
  BY <1>1, <1>2, <1>3, <1>6
<1>9. Balance(s) = Balance(account)
  BY <1>7, <1>8 DEF Balance, Count
<1> QED
  BY <1>1, <1>9 DEF Shows, s

(* As long as no handler fails, the saga keeps its promise for any number  *)
(* of orders, funds and stock: when nothing is left to do, every order     *)
(* that withdrew funds has its unit or was compensated, never both, and    *)
(* the projections agree with the streams.                                 *)
THEOREM OrdersAreAllOrNothing == Spec => []AllOrNothing
<1>1. Inv /\ OInv => AllOrNothing
  <2> SUFFICES ASSUME Inv, OInv, mayReject = {}, Quiescent
               PROVE  /\ \A o \in Orders : ~HalfDone(o)
                      /\ orderTable = LiveOrders(account)
                      /\ \/ balanceTable = Balance(account)
                         \/ \E o \in Orders : Has(account, "RollbackFundsWithdrawn", o)
    BY DEF AllOrNothing
  <2>1. Normal
    BY DEF OInv, Normal
  <2>2. Created = Fulfilled \cup Cancelled /\ Fulfilled \cap Cancelled = {}
    BY <2>1, AtRest DEF Normal, Orderly, StageInv
  <2>3. ASSUME NEW o \in Orders PROVE ~HalfDone(o)
    <3>1. /\ Has(account, "FundsWithdrawn", o) <=> o \in Created
          /\ Has(inventory, "InventoryRemoved", o) <=> o \in Fulfilled
          /\ Has(account, "RollbackFundsWithdrawn", o) <=> o \in Cancelled
      BY <2>1, WhatStreamsHave DEF Normal, Orderly, PairInv, Fulfilled, Cancelled
    <3> QED
      BY <2>2, <3>1 DEF HalfDone
  <2>4. orderTable = LiveOrders(account)
    <3>1. ASSUME NEW o \in Orders PROVE o \in orderTable <=> o \in LiveOrders(account)
      <4>1. /\ Has(account, "OrderCreated", o) <=> o \in Created
            /\ Has(account, "RollbackOrderCreated", o) <=> o \in Cancelled
        BY <2>1, WhatStreamsHave DEF Normal, Orderly, PairInv, Created
      <4>2. ~Unhandled(OrderCreated(o)) /\ ~Unhandled(RollbackOrderCreated(o))
        BY <2>1, AtRest, EventsOfOrder DEF Unhandled, OfOrders
      <4>3. o \in orderTable <=> o \in Created /\ o \notin Cancelled
        BY <2>1, <4>2 DEF Normal, Orderly, TableInv, InTable
      <4> QED
        BY <4>1, <4>3 DEF LiveOrders
    <3>2. orderTable \subseteq Orders /\ LiveOrders(account) \subseteq Orders
      BY DEF Inv, TypeInv, LiveOrders
    <3> QED
      BY <3>1, <3>2
  <2>5. \/ balanceTable = Balance(account)
        \/ \E o \in Orders : Has(account, "RollbackFundsWithdrawn", o)
    <3>1. CASE Cancelled = {}
      BY <2>1, <3>1, ShownAtRest
    <3>2. CASE Cancelled # {}
      BY <3>2, WhatStreamsHave DEF Cancelled
    <3> QED
      BY <3>1, <3>2
  <2> QED
    BY <2>3, <2>4, <2>5
<1> QED
  BY <1>1, AlwaysInv, AlwaysOrderly, PTL

-----------------------------------------------------------------------------
(* The refinement: the outcome of an order, from its stage.                *)
StageOf(o) ==
    IF o \in Cancelled THEN "cancelled"
    ELSE IF o \in Fulfilled THEN "fulfilled"
    ELSE IF o \in Created THEN "open"
    ELSE IF o \in Fresh THEN "new" ELSE "refused"

outcomes == [o \in Orders |-> IF mayReject = {} THEN Outcome(o) ELSE "new"]

LEMMA OutcomeIs == ASSUME Normal PROVE outcomes = [o \in Orders |-> StageOf(o)]
<1>1. ASSUME NEW o \in Orders PROVE Outcome(o) = StageOf(o)
  <2>1. /\ Has(account, "OrderCreated", o) <=> o \in Created
        /\ Has(inventory, "InventoryRemoved", o) <=> o \in Fulfilled
        /\ Has(account, "RollbackFundsWithdrawn", o) <=> o \in Cancelled
        /\ placing[o].phase \in {"new", "merged"} <=> o \in Fresh
    BY WhatStreamsHave DEF Created, Fulfilled, Cancelled, Fresh
  <2>2. Fulfilled \cap Cancelled = {} /\ Fulfilled \cup Cancelled \subseteq Created
    BY DEF Normal, Orderly, StageInv
  <2>3. Outcome(o) = CASE o \in Cancelled -> "cancelled"
                       [] o \in Fulfilled -> "fulfilled"
                       [] o \in Created /\ ~(o \in Cancelled) /\ ~(o \in Fulfilled) -> "open"
                       [] ~(o \in Created) /\ o \in Fresh -> "new"
                       [] OTHER -> "refused"
    BY <2>1 DEF Outcome
  <2> QED
    BY <2>2, <2>3 DEF StageOf
<1>2. mayReject = {}
  BY DEF Normal
<1> QED
  BY <1>1, <1>2 DEF outcomes

(* Moves that leave the orders alone that are not placed.                  *)
LEMMA FreshSteps ==
    ASSUME Normal, [Next]_vars
    PROVE  Fresh' = Fresh \/ \E o \in Orders : Refused(o) \/ Accepted(o)
<1>1. ASSUME NEW p \in Orders, OrderMoves(p) PROVE Fresh' = Fresh \/ Refused(p) \/ Accepted(p)
  BY <1>1 DEF OrderMoves, RemovalSent, RemovalDone, RemovalFails, CancellationSent, CancellationDone
<1>2. ASSUME NEW e \in OfOrders, EventAdvances(e) \/ EventHandled(e) PROVE Fresh' = Fresh
  BY <1>2 DEF EventAdvances, EventHandled
<1>3. ASSUME NEW c \in Command, CommandAdvances(c) PROVE Fresh' = Fresh
  BY <1>3 DEF CommandAdvances
<1> QED
  BY <1>1, <1>2, <1>3, Effects DEF Moves, Waits

TransactionMoves ==
    \/ StagesStay /\ Fresh' = Fresh
    \/ \E o \in Orders : o \in Fresh /\ StagesStay /\ Fresh' = Fresh \ {o}
    \/ \E o \in Orders : Placed(o) /\ Fresh' = Fresh \ {o}
    \/ \E o \in Orders : (Processed(o) \/ Taken(o) \/ GivenUp(o) \/ Undone(o)) /\ Fresh' = Fresh

LEMMA TransactionSteps ==
    ASSUME Normal, [Next]_vars
    PROVE  TransactionMoves
<1>1. StageInv /\ Fresh \cap Created = {} /\ Fresh' \cap Created' = {}
  <2>1. Inv /\ Inv' /\ StageInv
    BY InvStays DEF Normal, Orderly
  <2>2. Fresh' \cap Created' = {}
    BY <2>1, EventsOfOrder DEF Inv, AccountInv, Fresh, Created
  <2> QED
    BY <2>1, <2>2, FreshAreNotCreated
<1>2. ASSUME NEW o \in Orders, Refused(o) PROVE TransactionMoves
  <2>1. o \in Fresh /\ Fresh' = Fresh \ {o} /\ Created' = Created
    BY <1>2, NothingGained DEF Refused
  <2>2. ~Placed(o) /\ ~Processed(o) /\ ~Taken(o) /\ ~GivenUp(o) /\ ~Undone(o)
    BY <1>1, <2>1 DEF Placed, Processed, Taken, GivenUp, Undone, StageInv
  <2>3. StagesStay
    BY <1>2, <2>2, OrderStages DEF OrderMoves
  <2> QED
    BY <2>1, <2>3 DEF TransactionMoves
<1>3. ASSUME NEW o \in Orders, Accepted(o) PROVE TransactionMoves
  <2>1. o \in Fresh /\ Fresh' = Fresh \ {o} /\ o \in Created'
    BY <1>3, EventsOfOrder DEF Accepted, AccountGains, Created
  <2>2. Created' # Created
    BY <1>1, <2>1
  <2>3. Placed(o)
    BY <1>3, <2>2, OrderStages DEF OrderMoves, StagesStay, Processed, Taken, GivenUp, Undone
  <2> QED
    BY <2>1, <2>3 DEF TransactionMoves
<1>4. CASE Fresh' = Fresh
  <2>1. ASSUME NEW o \in Orders, Placed(o) PROVE FALSE
    BY <1>1, <1>4, <2>1 DEF Placed
  <2> QED
    BY <1>4, <2>1, Stages DEF TransactionMoves
<1> QED
  BY <1>2, <1>3, <1>4, FreshSteps

OutcomesInv == mayReject = {} => outcomes = [o \in Orders |-> StageOf(o)]

LEMMA SameCardinality == ASSUME NEW S PROVE Transaction!Cardinality(S) = Cardinality(S)
BY Zenon DEF Transaction!Cardinality, Cardinality

LEMMA StepImplements ==
    ASSUME Normal, [Next]_vars, OutcomesInv, OutcomesInv'
    PROVE  [Transaction!Next]_outcomes
<1>1. /\ StageInv /\ Fresh \cap Created = {}
      /\ Cardinality(Fulfilled) = Len(inventory)
      /\ Cancelling \cup Cancelled # {} => Len(inventory) = Stock
  BY FreshAreNotCreated DEF Normal, Orderly, UnitInv
<1>2. outcomes = [o \in Orders |-> StageOf(o)]
  BY DEF OutcomesInv, Normal
<1>3. outcomes' = [o \in Orders |-> StageOf(o)']
  BY ModeStays DEF OutcomesInv, Normal, Inv
<1>4. {o \in Orders : outcomes[o] = "fulfilled"} = Fulfilled
  <2>1. \A o \in Orders : StageOf(o) = "fulfilled" <=> o \in Fulfilled
    BY <1>1 DEF StageOf, StageInv
  <2> QED
    BY <1>2, <2>1 DEF Fulfilled
<1>5. Transaction!Fulfilled = Fulfilled
  BY <1>4 DEF Transaction!Fulfilled, outcomes
<1>6. CASE StagesStay /\ Fresh' = Fresh
  <2>1. \A o \in Orders : StageOf(o)' = StageOf(o)
    BY <1>6 DEF StagesStay, StageOf
  <2> QED
    BY <1>2, <1>3, <2>1
<1>7. ASSUME NEW o \in Orders, o \in Fresh, StagesStay, Fresh' = Fresh \ {o}
      PROVE  Transaction!Refuse(o)
  <2>1. StageOf(o) = "new" /\ StageOf(o)' = "refused"
    BY <1>1, <1>7 DEF StageOf, StageInv, StagesStay
  <2>2. \A p \in Orders : p # o => StageOf(p)' = StageOf(p)
    BY <1>7 DEF StageOf, StagesStay
  <2>3. outcomes[o] = "new" /\ outcomes' = [outcomes EXCEPT ![o] = "refused"]
    BY <1>2, <1>3, <2>1, <2>2
  <2> QED
    BY <2>3 DEF Transaction!Refuse, outcomes
<1>8. ASSUME NEW o \in Orders, Placed(o), Fresh' = Fresh \ {o}
      PROVE  Transaction!Accept(o)
  <2>1. StageOf(o) = "new" /\ StageOf(o)' = "open"
    BY <1>1, <1>8 DEF StageOf, StageInv, Placed
  <2>2. \A p \in Orders : p # o => StageOf(p)' = StageOf(p)
    BY <1>8 DEF StageOf, Placed
  <2>3. outcomes[o] = "new" /\ outcomes' = [outcomes EXCEPT ![o] = "open"]
    BY <1>2, <1>3, <2>1, <2>2
  <2> QED
    BY <2>3 DEF Transaction!Accept, outcomes
<1>9. ASSUME NEW o \in Orders, Processed(o) \/ GivenUp(o), Fresh' = Fresh
      PROVE  outcomes' = outcomes
  <2>1. \A p \in Orders : StageOf(p)' = StageOf(p)
    BY <1>9 DEF StageOf, Processed, GivenUp
  <2> QED
    BY <1>2, <1>3, <2>1
<1>10. ASSUME NEW o \in Orders, Taken(o), Fresh' = Fresh
      PROVE  Transaction!Fulfil(o)
  <2>1. StageOf(o) = "open" /\ StageOf(o)' = "fulfilled"
    BY <1>1, <1>10 DEF StageOf, StageInv, Taken
  <2>2. \A p \in Orders : p # o => StageOf(p)' = StageOf(p)
    BY <1>10 DEF StageOf, Taken
  <2>3. outcomes[o] = "open" /\ outcomes' = [outcomes EXCEPT ![o] = "fulfilled"]
    BY <1>2, <1>3, <2>1, <2>2
  <2>4. Cardinality(Transaction!Fulfilled) < Stock
    BY <1>1, <1>5, <1>10 DEF Taken
  <2> QED
    BY <2>3, <2>4, SameCardinality DEF Transaction!Fulfil, outcomes
<1>11. ASSUME NEW o \in Orders, Undone(o), Fresh' = Fresh
       PROVE  Transaction!Cancel(o)
  <2>1. StageOf(o) = "open" /\ StageOf(o)' = "cancelled"
    BY <1>1, <1>11 DEF StageOf, StageInv, Undone
  <2>2. \A p \in Orders : p # o => StageOf(p)' = StageOf(p)
    BY <1>11 DEF StageOf, Undone
  <2>3. outcomes[o] = "open" /\ outcomes' = [outcomes EXCEPT ![o] = "cancelled"]
    BY <1>2, <1>3, <2>1, <2>2
  <2>4. Cardinality(Transaction!Fulfilled) = Stock
    BY <1>1, <1>5, <1>11 DEF Undone
  <2> QED
    BY <2>3, <2>4, SameCardinality DEF Transaction!Cancel, outcomes
<1> QED
  BY <1>6, <1>7, <1>8, <1>9, <1>10, <1>11, TransactionSteps DEF TransactionMoves, Transaction!Next

(* As long as no handler fails, the saga carries out the transaction that  *)
(* OrderTransaction states: an order that was accepted stays open until it *)
(* has its unit or is cancelled, and it is cancelled only when nothing is  *)
(* left.                                                                   *)
THEOREM SagaIsATransaction == Spec => ImplementsTransaction
<1>1. Init => Transaction!Init
  <2> SUFFICES ASSUME Init PROVE outcomes = [o \in Orders |-> "new"]
    BY DEF Transaction!Init, outcomes
  <2>1. CASE mayReject # {}
    BY <2>1 DEF outcomes
  <2>2. CASE mayReject = {}
    <3>1. Normal
      BY <2>2, InitInv, InitOrderly DEF Normal
    <3>2. account = <<>> /\ inventory = <<>>
      BY DEF Init
    <3>3. Created = {} /\ Fulfilled = {} /\ Cancelled = {}
      BY <3>2, NothingOccurs DEF Created, Fulfilled, Cancelled
    <3>4. \A o \in Orders : placing[o].phase = "new"
      BY StartedType, WorkSteps DEF Init, Phases
    <3>5. \A o \in Orders : StageOf(o) = "new"
      BY <3>3, <3>4 DEF StageOf, Fresh
    <3> QED
      BY <3>1, <3>5, OutcomeIs
  <2> QED
    BY <2>1, <2>2
<1>2. Inv /\ OInv => OutcomesInv
  BY OutcomeIs DEF OInv, OutcomesInv, Normal
<1>3. Inv /\ OInv /\ OutcomesInv /\ OutcomesInv' /\ [Next]_vars => [Transaction!Next]_outcomes
  <2> SUFFICES ASSUME Inv, OInv, OutcomesInv, OutcomesInv', [Next]_vars PROVE [Transaction!Next]_outcomes
    OBVIOUS
  <2>1. CASE mayReject = {}
    BY <2>1, StepImplements DEF OInv, Normal
  <2>2. CASE mayReject # {}
    <3>1. mayReject' = mayReject
      BY ModeStays DEF Inv
    <3>2. outcomes' = outcomes
      BY <2>2, <3>1 DEF outcomes
    <3> QED
      BY <3>2
  <2> QED
    BY <2>1, <2>2
<1> QED
  BY <1>1, <1>2, <1>3, AlwaysInv, AlwaysOrderly, PTL DEF Spec, ImplementsTransaction, Transaction!Spec, outcomes
=============================================================================
