----------------------- MODULE MemoryPublisherProofs -----------------------
(***************************************************************************)
(* Proofs about MemoryPublisher for any number of messages and listeners.  *)
(***************************************************************************)
EXTENDS MemoryPublisher, SequenceTheorems, TLAPS

(* Until the bootstrap is over nothing was handed over, and the queue that *)
(* Bootstrap replaces is empty.                                            *)
BootInv ==
    /\ hook = "created" => pub.status = "NOT_READY" /\ published = <<>>
    /\ hook = "bootstrapping" => pub.status = "PREPARING"
    /\ hook = "bootstrapping" /\ wired => published = <<>>
    /\ hook \in {"created", "bootstrapping"} => delivered = <<>> /\ pub.running = {}

(* What is in progress is the last message handed over, not acknowledged. *)
InFlightInv ==
    /\ Len(delivered) <= Len(acked) + 1
    /\ \A r \in pub.running : Len(delivered) = Len(acked) + 1 /\ delivered[Len(delivered)] = r.msg

IInv == TypeOK /\ BootInv /\ InFlightInv /\ OneAtATime /\ InOrder

-----------------------------------------------------------------------------
(* The synchronous blocks keep a publisher a publisher. *)
LEMMA DistributeType ==
    ASSUME NEW p \in Publisher, NEW m \in Messages
    PROVE  Distribute(p, m) \subseteq Invocation
BY DEF Distribute, Invocation

LEMMA AdvanceType ==
    ASSUME NEW p \in Publisher
    PROVE  Advance(p) \in Publisher
<1>1. CASE p.subs = {} \/ p.status # "IDLE" \/ p.queue = <<>>
  BY <1>1 DEF Advance
<1>2. CASE p.subs # {} /\ p.status = "IDLE" /\ p.queue # <<>>
  <2>1. p.queue \in Seq(Messages)
    BY DEF Publisher
  <2>2. Head(p.queue) \in Messages /\ Tail(p.queue) \in Seq(Messages)
    BY <1>2, <2>1, HeadTailProperties
  <2>3. p.running \cup Distribute(p, Head(p.queue)) \subseteq Invocation
    BY <2>2, DistributeType DEF Publisher
  <2>4. Advance(p) = [p EXCEPT !.status = "ACTIVE", !.queue = Tail(@),
                               !.running = @ \cup Distribute(p, Head(p.queue))]
    BY <1>2 DEF Advance
  <2>. QED  BY <2>2, <2>3, <2>4 DEF Publisher, ESState
<1>. QED  BY <1>1, <1>2

LEMMA EnqueueType ==
    ASSUME NEW p \in Publisher, NEW m \in Messages
    PROVE  Enqueue(p, m) \in Publisher
<1>1. Append(p.queue, m) \in Seq(Messages)
  BY AppendProperties DEF Publisher
<1>2. [p EXCEPT !.queue = Append(@, m)] \in Publisher
  BY <1>1 DEF Publisher
<1>. QED  BY <1>2, AdvanceType DEF Enqueue

LEMMA AcknowledgeType ==
    ASSUME NEW p \in Publisher, NEW r
    PROVE  Acknowledge(p, r) \in Publisher
<1>1. [p EXCEPT !.status = "IDLE", !.running = @ \ {r}] \in Publisher
  BY DEF Publisher, ESState
<1>. QED  BY <1>1, AdvanceType DEF Acknowledge

(* The type invariant. *)
THEOREM TypeCorrect == Spec => []TypeOK
<1>1. Init => TypeOK
  BY DEF Init, TypeOK, NewPublisher, Publisher, ESState, Hooks
<1>2. TypeOK /\ [Next]_vars => TypeOK'
  <2> SUFFICES ASSUME TypeOK, [Next]_vars
               PROVE  TypeOK'
    OBVIOUS
  <2>. USE DEF TypeOK
  <2>1. CASE Bootstrap
    <3>1. <<>> \in Seq(Messages)
      BY EmptySeq
    <3>. QED  BY <2>1, <3>1 DEF Bootstrap, Publisher, ESState, Hooks
  <2>2. CASE BootstrapDone
    BY <2>2 DEF BootstrapDone, Publisher, ESState, Hooks
  <2>3. ASSUME NEW m \in Messages, Publish(m)
        PROVE  TypeOK'
    <3>1. pub' \in Publisher
      BY <2>3, EnqueueType DEF Publish
    <3>2. delivered' \in Seq(Messages)
      BY <2>3 DEF Publish, RecordDelivery, Publisher
    <3>. QED  BY <2>3, <3>1, <3>2 DEF Publish
  <2>4. ASSUME NEW s \in Subscribers, Subscribe(s) \/ Unsubscribe(s)
        PROVE  TypeOK'
    BY <2>4 DEF Subscribe, Unsubscribe, Attach, Detach, Publisher, Subscribers
  <2>5. ASSUME NEW r \in pub.running, Respond(r)
        PROVE  TypeOK'
    BY <2>5 DEF Respond, Publisher, Invocation
  <2>6. ASSUME NEW r \in pub.running, AcknowledgeEvent(r)
        PROVE  TypeOK'
    <3>1. r.msg \in Messages
      BY DEF Publisher, Invocation
    <3>2. pub' \in Publisher
      BY <2>6, AcknowledgeType DEF AcknowledgeEvent
    <3>3. delivered' \in Seq(Messages)
      BY <2>6, <3>2 DEF AcknowledgeEvent, RecordDelivery, Publisher
    <3>. QED  BY <2>6, <3>1, <3>2, <3>3 DEF AcknowledgeEvent
  <2>7. ASSUME NEW r \in pub.running, HandlerRejects(r)
        PROVE  TypeOK'
    BY <2>7 DEF HandlerRejects, Publisher
  <2>8. CASE Shutdown
    BY <2>8 DEF Shutdown, Clear, Publisher, ESState, Hooks
  <2>9. CASE ShutdownDone
    BY <2>9 DEF ShutdownDone, Clear, Publisher, ESState, Hooks
  <2>10. CASE UNCHANGED vars
    BY <2>10 DEF vars
  <2>. QED
    BY <2>1, <2>2, <2>3, <2>4, <2>5, <2>6, <2>7, <2>8, <2>9, <2>10 DEF Next
<1>. QED  BY <1>1, <1>2, PTL DEF Spec

-----------------------------------------------------------------------------
(* Advance either changes nothing or takes the head of the queue; then the *)
(* one worker there can be is the only new invocation.                     *)
LEMMA AdvanceEffect ==
    ASSUME NEW p \in Publisher
    PROVE  \/ /\ p.subs = {} \/ p.status # "IDLE" \/ p.queue = <<>>
              /\ Advance(p) = p
           \/ /\ p.status = "IDLE" /\ p.queue # <<>>
              /\ Advance(p).status = "ACTIVE"
              /\ Advance(p).queue = Tail(p.queue)
              /\ \A r \in Advance(p).running : r \in p.running \/ r.msg = Head(p.queue)
              /\ p.running = {} => \A r1, r2 \in Advance(p).running : r1 = r2
<1>1. CASE p.subs = {} \/ p.status # "IDLE" \/ p.queue = <<>>
  BY <1>1 DEF Advance
<1>2. CASE p.subs # {} /\ p.status = "IDLE" /\ p.queue # <<>>
  <2>1. Advance(p) = [p EXCEPT !.status = "ACTIVE", !.queue = Tail(@),
                               !.running = @ \cup Distribute(p, Head(p.queue))]
    BY <1>2 DEF Advance
  <2>2. \A r \in Distribute(p, Head(p.queue)) : r.msg = Head(p.queue)
    BY DEF Distribute
  <2>3. \A r1, r2 \in Distribute(p, Head(p.queue)) : r1 = r2
    BY OneWorkerAssumption DEF Distribute
  <2>. QED  BY <1>2, <2>1, <2>2, <2>3 DEF Publisher
<1>. QED  BY <1>1, <1>2

LEMMA TailIndex ==
    ASSUME NEW S, NEW s \in Seq(S), s # <<>>
    PROVE  /\ Tail(s) \in Seq(S) /\ Head(s) = s[1] /\ Head(s) \in S
           /\ Len(s) \in Nat \ {0} /\ Len(Tail(s)) = Len(s) - 1
           /\ \A i \in 1..Len(Tail(s)) : Tail(s)[i] = s[i + 1]
BY HeadTailProperties, EmptySeq, LenProperties

LEMMA AppendIndex ==
    ASSUME NEW S, NEW s \in Seq(S), NEW e \in S
    PROVE  /\ Append(s, e) \in Seq(S) /\ Append(s, e) # <<>>
           /\ Len(s) \in Nat /\ Len(Append(s, e)) = Len(s) + 1
           /\ Append(s, e)[Len(s) + 1] = e
           /\ \A i \in 1..Len(s) : Append(s, e)[i] = s[i]
BY AppendProperties, LenProperties

(* The part of InOrder that a hand-over disturbs. *)
Pipeline(pubd, dlvd, queue) ==
    /\ Len(pubd) = Len(dlvd) + Len(queue)
    /\ \A i \in 1..Len(dlvd) : dlvd[i] = pubd[i]
    /\ \A i \in 1..Len(queue) : queue[i] = pubd[Len(dlvd) + i]

LEMMA HandOver ==
    ASSUME NEW pubd \in Seq(Messages), NEW dlvd \in Seq(Messages),
           NEW queue \in Seq(Messages), queue # <<>>, Pipeline(pubd, dlvd, queue)
    PROVE  Pipeline(pubd, Append(dlvd, Head(queue)), Tail(queue))
<1>. DEFINE d == Append(dlvd, Head(queue))
            q == Tail(queue)
<1>1. /\ Head(queue) = queue[1] /\ Head(queue) \in Messages
      /\ Len(queue) \in Nat \ {0} /\ Len(q) = Len(queue) - 1
      /\ \A i \in 1..Len(q) : q[i] = queue[i + 1]
  BY TailIndex
<1>2. /\ Len(dlvd) \in Nat /\ Len(d) = Len(dlvd) + 1
      /\ d[Len(dlvd) + 1] = Head(queue)
      /\ \A i \in 1..Len(dlvd) : d[i] = dlvd[i]
  BY <1>1, AppendIndex
<1>3. /\ Len(pubd) = Len(dlvd) + Len(queue)
      /\ \A i \in 1..Len(dlvd) : dlvd[i] = pubd[i]
      /\ \A i \in 1..Len(queue) : queue[i] = pubd[Len(dlvd) + i]
  BY DEF Pipeline
<1>. HIDE DEF d, q
<1>4. Len(pubd) = Len(d) + Len(q)
  BY <1>1, <1>2, <1>3
<1>5. pubd[Len(dlvd) + 1] = Head(queue)
  <2>1. 1 \in 1..Len(queue)
    BY <1>1
  <2>. QED  BY <1>1, <1>3, <2>1
<1>6. ASSUME NEW i \in 1..Len(d)
      PROVE  d[i] = pubd[i]
  <2>1. CASE i \in 1..Len(dlvd)
    BY <1>2, <1>3, <2>1
  <2>2. CASE i = Len(dlvd) + 1
    BY <1>2, <1>5, <2>2
  <2>. QED  BY <1>2, <2>1, <2>2
<1>7. ASSUME NEW i \in 1..Len(q)
      PROVE  q[i] = pubd[Len(d) + i]
  <2>1. q[i] = queue[i + 1] /\ i + 1 \in 1..Len(queue)
    BY <1>1
  <2>2. queue[i + 1] = pubd[Len(dlvd) + (i + 1)]
    BY <1>3, <2>1
  <2>3. Len(dlvd) + (i + 1) = Len(d) + i
    BY <1>1, <1>2
  <2>. QED  BY <2>1, <2>2, <2>3
<1>. QED  BY <1>4, <1>6, <1>7 DEF Pipeline, d, q

-----------------------------------------------------------------------------
(* A step of publish(), and a step of acknowledgeEvent(), keep the         *)
(* invariant: both may hand the next message over.                         *)
LEMMA PublishPreserves ==
    ASSUME IInv, NEW m \in Messages, Publish(m), TypeOK'
    PROVE  IInv'
<1>. /\ BootInv /\ InFlightInv /\ OneAtATime /\ InOrder
     /\ pub \in Publisher /\ published \in Seq(Messages) /\ published' \in Seq(Messages)
     /\ delivered \in Seq(Messages) /\ delivered' \in Seq(Messages)
     /\ acked \in Seq(Messages) /\ acked' \in Seq(Messages)
  BY DEF IInv, TypeOK
<1>. DEFINE queue == Append(pub.queue, m)
            q == [pub EXCEPT !.queue = queue]
<1>1. /\ pub.queue \in Seq(Messages) /\ queue \in Seq(Messages) /\ queue # <<>>
      /\ Len(pub.queue) \in Nat /\ Len(queue) = Len(pub.queue) + 1
      /\ queue[Len(pub.queue) + 1] = m
      /\ \A i \in 1..Len(pub.queue) : queue[i] = pub.queue[i]
  <2>1. pub.queue \in Seq(Messages)
    BY DEF Publisher
  <2>2. /\ Append(pub.queue, m) \in Seq(Messages) /\ Append(pub.queue, m) # <<>>
        /\ Len(pub.queue) \in Nat /\ Len(Append(pub.queue, m)) = Len(pub.queue) + 1
        /\ Append(pub.queue, m)[Len(pub.queue) + 1] = m
        /\ \A i \in 1..Len(pub.queue) : Append(pub.queue, m)[i] = pub.queue[i]
    BY <2>1, AppendIndex
  <2>. QED  BY <2>1, <2>2
<1>2. /\ q \in Publisher /\ q.queue = queue /\ q.status = pub.status
      /\ q.running = pub.running /\ q.subs = pub.subs
  BY <1>1 DEF Publisher
<1>3. /\ published' = Append(published, m)
      /\ Len(published) \in Nat /\ Len(published') = Len(published) + 1
      /\ published'[Len(published) + 1] = m
      /\ \A i \in 1..Len(published) : published'[i] = published[i]
  BY AppendIndex DEF Publish
<1>4. Len(delivered) \in Nat /\ Len(acked) \in Nat /\ acked' = acked /\ hook' = hook
  BY LenProperties DEF Publish
<1>5. Pipeline(published', delivered, queue)
  <2>1. Len(published') = Len(delivered) + Len(queue)
    BY <1>1, <1>3, <1>4 DEF InOrder
  <2>2. ASSUME NEW i \in 1..Len(delivered)
        PROVE  delivered[i] = published'[i]
    BY <1>1, <1>3, <1>4 DEF InOrder
  <2>3. ASSUME NEW i \in 1..Len(queue)
        PROVE  queue[i] = published'[Len(delivered) + i]
    <3>1. Len(published) = Len(delivered) + Len(pub.queue)
      BY DEF InOrder
    <3>2. CASE i = Len(pub.queue) + 1
      BY <1>1, <1>3, <1>4, <3>1, <3>2
    <3>3. CASE i \in 1..Len(pub.queue)
      <4>1. queue[i] = published[Len(delivered) + i]
        BY <1>1, <3>3 DEF InOrder
      <4>. QED  BY <1>1, <1>3, <1>4, <3>1, <3>3, <4>1
    <3>. QED  BY <1>1, <3>2, <3>3
  <2>. QED  BY <2>1, <2>2, <2>3 DEF Pipeline
<1>6. pub' = q \/ (pub' = Advance(q) /\ Len(queue) = 1)
  BY <1>2 DEF Publish, Enqueue
<1>. HIDE DEF q, queue
<1>7. CASE pub' = q
  <2>1. delivered' = delivered
    BY <1>1, <1>2, <1>7 DEF Publish, RecordDelivery, queue
  <2>2. BootInv'
    BY <1>2, <1>4, <1>7, <2>1 DEF BootInv, Publish, MayPublish
  <2>3. InFlightInv' /\ OneAtATime'
    BY <1>2, <1>4, <1>7, <2>1 DEF InFlightInv, OneAtATime
  <2>4. InOrder'
    BY <1>2, <1>4, <1>5, <1>7, <2>1 DEF InOrder, Pipeline
  <2>. QED  BY <2>2, <2>3, <2>4 DEF IInv
<1>8. CASE pub' # q
  <2>1. /\ q.status = "IDLE" /\ pub'.status = "ACTIVE" /\ pub'.queue = Tail(queue)
        /\ \A r \in pub'.running : r \in q.running \/ r.msg = Head(queue)
        /\ q.running = {} => \A r1, r2 \in pub'.running : r1 = r2
    BY <1>2, <1>6, <1>8, AdvanceEffect
  <2>2. pub.running = {} /\ Len(acked) = Len(delivered)
    BY <1>2, <2>1 DEF OneAtATime
  <2>3. Head(queue) \in Messages /\ Len(Tail(queue)) = Len(queue) - 1 /\ Len(queue) \in Nat
    BY <1>1, TailIndex
  <2>4. delivered' = Append(delivered, Head(queue))
    BY <2>1, <2>3 DEF Publish, RecordDelivery, queue
  <2>5. /\ Len(delivered') = Len(delivered) + 1
        /\ delivered'[Len(delivered) + 1] = Head(queue)
        /\ \A i \in 1..Len(delivered) : delivered'[i] = delivered[i]
    BY <2>3, <2>4, AppendIndex
  <2>6. hook \notin {"created", "bootstrapping"}
    BY <1>2, <2>1 DEF BootInv
  <2>7. BootInv'
    BY <1>4, <2>6 DEF BootInv
  <2>8. InFlightInv' /\ OneAtATime'
    BY <1>2, <1>4, <2>1, <2>2, <2>5 DEF InFlightInv, OneAtATime
  <2>9. InOrder'
    <3>1. Pipeline(published', delivered', pub'.queue)
      BY <1>1, <1>5, <2>1, <2>4, HandOver
    <3>2. Len(acked') <= Len(delivered') /\ \A i \in 1..Len(acked') : acked'[i] = delivered'[i]
      BY <1>4, <2>2, <2>5 DEF InOrder
    <3>. QED  BY <3>1, <3>2 DEF InOrder, Pipeline
  <2>. QED  BY <2>7, <2>8, <2>9 DEF IInv
<1>. QED  BY <1>7, <1>8 DEF IInv

LEMMA AcknowledgePreserves ==
    ASSUME IInv, NEW r \in pub.running, AcknowledgeEvent(r), TypeOK'
    PROVE  IInv'
<1>. /\ BootInv /\ InFlightInv /\ OneAtATime /\ InOrder
     /\ pub \in Publisher /\ published \in Seq(Messages) /\ published' \in Seq(Messages)
     /\ delivered \in Seq(Messages) /\ delivered' \in Seq(Messages)
     /\ acked \in Seq(Messages) /\ acked' \in Seq(Messages)
  BY DEF IInv, TypeOK
<1>. DEFINE q == [pub EXCEPT !.status = "IDLE", !.running = @ \ {r}]
<1>1. /\ q \in Publisher /\ q.queue = pub.queue /\ q.status = "IDLE"
      /\ q.running = pub.running \ {r}
      /\ pub.queue \in Seq(Messages) /\ r.msg \in Messages
  BY DEF Publisher, ESState, Invocation
<1>2. q.running = {}
  BY <1>1 DEF OneAtATime
<1>3. /\ Len(delivered) = Len(acked) + 1 /\ delivered[Len(delivered)] = r.msg
      /\ Len(delivered) \in Nat /\ Len(acked) \in Nat /\ Len(pub.queue) \in Nat
  BY <1>1, LenProperties DEF InFlightInv
<1>4. /\ acked' = Append(acked, r.msg)
      /\ Len(acked') = Len(acked) + 1 /\ acked'[Len(acked) + 1] = r.msg
      /\ \A i \in 1..Len(acked) : acked'[i] = acked[i]
  BY <1>1, AppendIndex DEF AcknowledgeEvent
<1>5. /\ Len(acked') = Len(delivered)
      /\ \A i \in 1..Len(acked') : acked'[i] = delivered[i]
  BY <1>3, <1>4 DEF InOrder
<1>6. hook' = hook /\ published' = published /\ hook \notin {"created", "bootstrapping"}
  BY DEF AcknowledgeEvent, BootInv
<1>7. BootInv'
  BY <1>6 DEF BootInv
<1>8. pub' = Advance(q)
  BY DEF AcknowledgeEvent, Acknowledge
<1>. HIDE DEF q
<1>9. CASE pub' = q
  <2>1. delivered' = delivered
    BY <1>1, <1>3, <1>9 DEF AcknowledgeEvent, RecordDelivery
  <2>2. InFlightInv' /\ OneAtATime'
    BY <1>2, <1>3, <1>5, <1>9, <2>1 DEF InFlightInv, OneAtATime
  <2>3. pub'.queue = pub.queue
    BY <1>1, <1>9
  <2>4. InOrder'
    <3>1. /\ Len(published') = Len(delivered') + Len(pub'.queue)
          /\ \A i \in 1..Len(delivered') : delivered'[i] = published'[i]
          /\ \A i \in 1..Len(pub'.queue) : pub'.queue[i] = published'[Len(delivered') + i]
      BY <1>6, <2>1, <2>3 DEF InOrder
    <3>2. Len(acked') <= Len(delivered') /\ \A i \in 1..Len(acked') : acked'[i] = delivered'[i]
      BY <1>3, <1>5, <2>1
    <3>. QED  BY <3>1, <3>2 DEF InOrder
  <2>. QED  BY <1>7, <2>2, <2>4 DEF IInv
<1>10. CASE pub' # q
  <2>1. /\ pub.queue # <<>> /\ pub'.status = "ACTIVE" /\ pub'.queue = Tail(pub.queue)
        /\ \A p \in pub'.running : p.msg = Head(pub.queue)
        /\ \A r1, r2 \in pub'.running : r1 = r2
    BY <1>1, <1>2, <1>8, <1>10, AdvanceEffect
  <2>2. /\ Head(pub.queue) \in Messages
        /\ Len(Tail(pub.queue)) = Len(pub.queue) - 1
    BY <1>1, <2>1, TailIndex
  <2>3. delivered' = Append(delivered, Head(pub.queue))
    BY <1>3, <2>1, <2>2 DEF AcknowledgeEvent, RecordDelivery
  <2>4. /\ Len(delivered') = Len(delivered) + 1
        /\ delivered'[Len(delivered) + 1] = Head(pub.queue)
        /\ \A i \in 1..Len(delivered) : delivered'[i] = delivered[i]
    BY <2>2, <2>3, AppendIndex
  <2>5. InFlightInv' /\ OneAtATime'
    BY <1>3, <1>5, <2>1, <2>4 DEF InFlightInv, OneAtATime
  <2>6. InOrder'
    <3>1. Pipeline(published, delivered, pub.queue)
      BY DEF InOrder, Pipeline
    <3>2. Pipeline(published', delivered', pub'.queue)
      BY <1>1, <1>6, <2>1, <2>3, <3>1, HandOver
    <3>3. Len(acked') <= Len(delivered') /\ \A i \in 1..Len(acked') : acked'[i] = delivered'[i]
      BY <1>3, <1>5, <2>4
    <3>. QED  BY <3>2, <3>3 DEF InOrder, Pipeline
  <2>. QED  BY <1>7, <2>5, <2>6 DEF IInv
<1>. QED  BY <1>9, <1>10 DEF IInv

-----------------------------------------------------------------------------
(* The invariant is inductive. *)
LEMMA Invariance == Spec => []IInv
<1>1. Init => IInv
  <2> SUFFICES ASSUME Init
               PROVE  IInv
    OBVIOUS
  <2>1. TypeOK
    BY DEF Init, TypeOK, NewPublisher, Publisher, ESState, Hooks
  <2>2. Len(<<>>) = 0
    OBVIOUS
  <2>. QED
    BY <2>1, <2>2 DEF Init, NewPublisher, IInv, BootInv, InFlightInv, OneAtATime, InOrder
<1>2. IInv /\ TypeOK' /\ [Next]_vars => IInv'
  <2> SUFFICES ASSUME IInv, TypeOK', [Next]_vars
               PROVE  IInv'
    OBVIOUS
  <2>1. ASSUME NEW m \in Messages, Publish(m)
        PROVE  IInv'
    BY <2>1, PublishPreserves
  <2>2. ASSUME NEW r \in pub.running, AcknowledgeEvent(r)
        PROVE  IInv'
    BY <2>2, AcknowledgePreserves
  <2>3. CASE UNCHANGED <<published, delivered, acked>> /\ pub'.queue = pub.queue /\ BootInv'
                /\ (\A p \in pub'.running : \E q \in pub.running : q.worker = p.worker /\ q.msg = p.msg)
                /\ (\A r1, r2 \in pub'.running : r1 = r2)
                /\ (pub'.status = "IDLE" => pub'.running = {} /\ Len(acked) = Len(delivered))
    <3>1. InFlightInv' /\ OneAtATime'
      BY <2>3 DEF IInv, InFlightInv, OneAtATime
    <3>2. InOrder'
      BY <2>3 DEF IInv, InOrder
    <3>. QED  BY <2>3, <3>1, <3>2 DEF IInv
  <2>. USE DEF IInv, TypeOK, Publisher, BootInv, OneAtATime
  <2>4. CASE Bootstrap
    <3>1. published = <<>> /\ Len(pub.queue) = 0 /\ pub.queue \in Seq(Messages)
      BY <2>4, LenProperties DEF Bootstrap, InOrder
    <3>2. pub.queue = <<>>
      BY <3>1, EmptySeq
    <3>. QED  BY <2>3, <2>4, <3>1, <3>2 DEF Bootstrap
  <2>5. CASE BootstrapDone
    <3>1. Len(acked) = Len(delivered)
      BY <2>5, LenProperties DEF BootstrapDone, InOrder
    <3>. QED  BY <2>3, <2>5, <3>1 DEF BootstrapDone
  <2>6. ASSUME NEW s \in Subscribers, Subscribe(s) \/ Unsubscribe(s)
        PROVE  IInv'
    <3>1. /\ pub'.status = pub.status /\ pub'.queue = pub.queue /\ pub'.running = pub.running
          /\ UNCHANGED <<wired, hook, published, delivered, acked>>
      BY <2>6 DEF Subscribe, Unsubscribe, Attach, Detach
    <3>2. BootInv'
      BY <3>1
    <3>. QED  BY <2>3, <3>1, <3>2
  <2>7. ASSUME NEW r \in pub.running, Respond(r)
        PROVE  IInv'
    <3>1. pub'.running = {[r EXCEPT !.phase = "responded"]} /\ pub.running = {r}
      BY <2>7 DEF Respond
    <3>2. r \in Invocation /\ pub.status # "IDLE" /\ hook \notin {"created", "bootstrapping"}
      BY <3>1
    <3>. QED  BY <2>3, <2>7, <3>1, <3>2 DEF Respond, Invocation
  <2>8. ASSUME NEW r \in pub.running, HandlerRejects(r)
        PROVE  IInv'
    BY <2>3, <2>8 DEF HandlerRejects
  <2>9. CASE Shutdown
    BY <2>3, <2>9 DEF Shutdown, Clear
  <2>10. CASE ShutdownDone
    BY <2>3, <2>10 DEF ShutdownDone, Clear
  <2>11. CASE UNCHANGED vars
    BY <2>3, <2>11 DEF vars
  <2>. QED
    BY <2>1, <2>2, <2>4, <2>5, <2>6, <2>7, <2>8, <2>9, <2>10, <2>11 DEF Next
<1>. QED  BY <1>1, <1>2, TypeCorrect, PTL DEF Spec

(* A publisher with one worker never starts a handler before the one in    *)
(* progress has ended, whatever else the application does with it.         *)
THEOREM StatusIsALock == Spec => []OneAtATime
BY Invariance, PTL DEF IInv

(* Messages are handed over and acknowledged in the order of publication,  *)
(* none lost, repeated or overtaken.                                       *)
THEOREM FirstInFirstOut == Spec => []InOrder
BY Invariance, PTL DEF IInv

-----------------------------------------------------------------------------
(* In the application the worker is subscribed from before the bootstrap   *)
(* to the shutdown, so whoever leaves the publisher IDLE has emptied the   *)
(* queue first, and whoever finds it IDLE and empty hands over at once.    *)
WiredInv ==
    /\ hook \in {"created", "bootstrapping"} => pub.queue = <<>>
    /\ hook \in {"bootstrapping", "up"} => pub.subs \cap Workers # {}
    /\ hook \in {"closing", "closed"} => pub.subs \cap Workers = {}
    /\ hook = "up" /\ pub.status = "IDLE" => pub.queue = <<>>
StallInv == wired => WiredInv

LEMMA AdvanceEmpties ==
    ASSUME NEW p \in Publisher, p.subs # {}
    PROVE  Advance(p).subs = p.subs /\ (Advance(p).status = "IDLE" => Advance(p).queue = <<>>)
<1>1. CASE p.status # "IDLE" \/ p.queue = <<>>
  BY <1>1 DEF Advance
<1>2. CASE p.status = "IDLE" /\ p.queue # <<>>
  <2>1. Advance(p) = [p EXCEPT !.status = "ACTIVE", !.queue = Tail(@),
                               !.running = @ \cup Distribute(p, Head(p.queue))]
    BY <1>2 DEF Advance
  <2>. QED  BY <2>1 DEF Publisher
<1>. QED  BY <1>1, <1>2

LEMMA StallStays == IInv /\ StallInv /\ [Next]_vars => StallInv'
<1> SUFFICES ASSUME IInv, StallInv, [Next]_vars
             PROVE  StallInv'
  OBVIOUS
<1>9. UNCHANGED wired
  BY Zenon DEF Next, vars, Bootstrap, BootstrapDone, Publish, Subscribe, Unsubscribe, Respond,
     AcknowledgeEvent, HandlerRejects, Shutdown, ShutdownDone
<1>10. SUFFICES ASSUME wired
               PROVE  WiredInv'
  BY <1>9, Zenon DEF StallInv
<1>11. WiredInv
  BY <1>10, Zenon DEF StallInv
<1>. pub \in Publisher /\ hook \in Hooks /\ pub.queue \in Seq(Messages)
  BY DEF IInv, TypeOK, Publisher
<1>1. CASE Bootstrap
  BY <1>10, <1>11, <1>1 DEF Bootstrap, MayBootstrap, WiredInv, Publisher
<1>2. CASE BootstrapDone
  BY <1>10, <1>11, <1>2 DEF BootstrapDone, WiredInv, Publisher
<1>3. ASSUME NEW m \in Messages, Publish(m)
      PROVE  WiredInv'
  <2> DEFINE q == [pub EXCEPT !.queue = Append(@, m)]
  <2>1. q \in Publisher /\ q.subs = pub.subs /\ q.status = pub.status /\ q.queue = Append(pub.queue, m)
    BY AppendProperties DEF Publisher
  <2>2. pub' = IF Len(q.queue) = 1 THEN Advance(q) ELSE q
    BY <1>10, <1>11, <1>3 DEF Publish, Enqueue
  <2>3. UNCHANGED hook /\ hook \notin {"created", "bootstrapping"}
    BY <1>10, <1>11, <1>3 DEF Publish, MayPublish
  <2>4. pub.queue = <<>> => Len(q.queue) = 1
    BY <1>10, <1>11, <2>1
  <2>5. Advance(q).subs = q.subs
    BY <1>10, <1>11, <2>1 DEF Advance, Publisher
  <2>6. pub'.subs = pub.subs
    BY <1>10, <1>11, <2>1, <2>2, <2>5
  <2>7. hook = "up" /\ pub'.status = "IDLE" => pub'.queue = <<>>
    BY <1>10, <1>11, <2>1, <2>2, <2>4, AdvanceEmpties DEF WiredInv
  <2>. QED  BY <1>10, <1>11, <2>3, <2>6, <2>7 DEF WiredInv
<1>4. ASSUME NEW s \in Subscribers, Subscribe(s) \/ Unsubscribe(s)
      PROVE  WiredInv'
  <2>1. pub'.queue = pub.queue /\ pub'.status = pub.status /\ UNCHANGED hook
    BY <1>10, <1>11, <1>4 DEF Subscribe, Unsubscribe, Attach, Detach, Publisher
  <2>2. hook # "created" => s \notin Workers
    BY <1>10, <1>11, <1>4 DEF Subscribe, Unsubscribe, MaySubscribe
  <2>3. hook # "created" => pub'.subs \cap Workers = pub.subs \cap Workers
    BY <1>10, <1>11, <1>4, <2>2 DEF Subscribe, Unsubscribe, Attach, Detach, Publisher
  <2>. QED  BY <1>10, <1>11, <2>1, <2>3 DEF WiredInv
<1>5. ASSUME NEW r \in pub.running, Respond(r) \/ HandlerRejects(r)
      PROVE  WiredInv'
  <2>1. pub'.queue = pub.queue /\ pub'.status = pub.status /\ pub'.subs = pub.subs /\ UNCHANGED hook
    BY <1>10, <1>11, <1>5 DEF Respond, HandlerRejects, Publisher
  <2>. QED  BY <1>10, <1>11, <2>1 DEF WiredInv
<1>6. ASSUME NEW r \in pub.running, AcknowledgeEvent(r)
      PROVE  WiredInv'
  <2> DEFINE q == [pub EXCEPT !.status = "IDLE", !.running = @ \ {r}]
  <2>1. q \in Publisher /\ q.subs = pub.subs
    BY DEF Publisher, ESState
  <2>2. pub' = Advance(q) /\ UNCHANGED hook
    BY <1>10, <1>11, <1>6 DEF AcknowledgeEvent, Acknowledge
  <2>3. hook \notin {"created", "bootstrapping"}
    BY DEF IInv, BootInv
  <2>4. pub'.subs = pub.subs
    BY <1>10, <1>11, <2>1, <2>2 DEF Advance, Publisher
  <2>5. hook = "up" /\ pub'.status = "IDLE" => pub'.queue = <<>>
    BY <1>10, <1>11, <2>1, <2>2, AdvanceEmpties DEF WiredInv
  <2>. QED  BY <1>10, <1>11, <2>2, <2>3, <2>4, <2>5 DEF WiredInv
<1>7. CASE Shutdown \/ ShutdownDone
  BY <1>10, <1>11, <1>7 DEF Shutdown, ShutdownDone, Clear, WiredInv, Publisher
<1>8. CASE UNCHANGED vars
  BY <1>10, <1>11, <1>8 DEF vars, WiredInv
<1>. QED
  BY <1>10, <1>11, <1>1, <1>2, <1>3, <1>4, <1>5, <1>6, <1>7, <1>8 DEF Next

(* As the application wires it, no message is left waiting on an idle bus. *)
THEOREM NeverStalls == Spec => []NoStall
<1>1. Init => StallInv
  BY DEF Init, StallInv, WiredInv, NewPublisher
<1>2. IInv /\ StallInv => NoStall
  BY DEF IInv, TypeOK, Hooks, StallInv, WiredInv, NoStall
<1>. QED
  BY <1>1, <1>2, StallStays, Invariance, PTL DEF Spec

-----------------------------------------------------------------------------
(* What a step does to the numbers the serial bus counts. *)
LEMMA StepRefines == IInv /\ IInv' /\ [Next]_vars => [Serial!Next]_(Serial!vars)
<1> SUFFICES ASSUME IInv, IInv', [Next]_vars
             PROVE  [Serial!Next]_(Serial!vars)
  OBVIOUS
<1>. /\ Len(acked) \in Nat /\ Len(acked') \in Nat /\ Len(delivered) \in Nat /\ Len(delivered') \in Nat
     /\ Len(published) \in Nat /\ Len(published') \in Nat
     /\ Len(pub.queue) \in Nat /\ Len(pub'.queue) \in Nat
  BY LenProperties DEF IInv, TypeOK, Publisher
<1>1. Len(delivered') <= Len(acked') + 1 /\ Len(delivered') <= Len(published') /\ Len(acked) <= Len(delivered)
  BY DEF IInv, InFlightInv, InOrder
<1>2. CASE UNCHANGED <<published, delivered, acked>>
  BY <1>2 DEF Serial!vars
<1>3. ASSUME NEW m \in Messages, Publish(m)
      PROVE  Serial!Next
  <2>1. delivered' = delivered \/ \E e \in Messages : delivered' = Append(delivered, e)
    <3>1. pub.queue \in Seq(Messages)
      BY DEF IInv, TypeOK, Publisher
    <3>2. Head(Append(pub.queue, m)) \in Messages
      BY <3>1, AppendIndex, TailIndex
    <3>. QED  BY <1>3, <3>2 DEF Publish, RecordDelivery
  <2>2. Len(delivered') \in {Len(delivered), Len(delivered) + 1}
    BY <2>1, AppendIndex DEF IInv, TypeOK
  <2>. QED  BY <1>1, <1>3, <2>2 DEF Publish, Serial!Next
<1>4. ASSUME NEW r \in pub.running, AcknowledgeEvent(r)
      PROVE  Serial!Next
  <2>1. r.msg \in Messages /\ pub.queue \in Seq(Messages)
    BY DEF IInv, TypeOK, Publisher, Invocation
  <2>2. Len(acked') = Len(acked) + 1
    BY <1>4, <2>1, AppendIndex DEF AcknowledgeEvent, IInv, TypeOK
  <2>3. Len(delivered) = Len(acked) + 1
    BY DEF IInv, InFlightInv
  <2>4. Len(delivered') \in {Len(delivered), Len(delivered) + 1}
    <3>1. CASE delivered' = delivered
      BY <3>1
    <3>2. CASE delivered' # delivered
      <4>1. Len(pub'.queue) < Len(pub.queue) /\ delivered' = Append(delivered, Head(pub.queue))
        BY <1>4, <3>2 DEF AcknowledgeEvent, RecordDelivery
      <4>2. pub.queue # <<>>
        BY <4>1
      <4>3. Head(pub.queue) \in Messages
        BY <2>1, <4>2, TailIndex
      <4>. QED  BY <4>1, <4>3, AppendIndex DEF IInv, TypeOK
    <3>. QED  BY <3>1, <3>2
  <2>. QED  BY <1>1, <1>4, <2>2, <2>3, <2>4 DEF AcknowledgeEvent, Serial!Next
<1>. QED
  BY <1>2, <1>3, <1>4
     DEF Next, vars, Bootstrap, BootstrapDone, Subscribe, Unsubscribe, Respond, HandlerRejects,
         Shutdown, ShutdownDone

(* The publisher implements the serial bus. *)
THEOREM Refinement == Spec => ImplementsSerialBus
<1>1. Init => Serial!Init
  BY DEF Init, Serial!Init
<1>2. IInv /\ IInv' /\ [Next]_vars => [Serial!Next]_(Serial!vars)
  BY StepRefines
<1>. QED
  BY <1>1, <1>2, Invariance, PTL DEF Spec, ImplementsSerialBus, Serial!Spec
=============================================================================
