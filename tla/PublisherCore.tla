--------------------------- MODULE PublisherCore ---------------------------
(***************************************************************************)
(* The state of one in-memory publisher as a value, and the synchronous    *)
(* blocks of code that change it (moirae/core/lib: base.publisher.ts,      *)
(* memory.publisher.ts, distributor.class.ts).  Node runs each of these    *)
(* blocks without interruption, so each is one function from a publisher   *)
(* to a publisher.  The modules with variables compose them into actions.  *)
(***************************************************************************)
EXTENDS Naturals, Sequences

CONSTANTS Messages,  (* events, commands or queries, already serialised     *)
          Workers,   (* handlers passed to subscribe(): they acknowledge    *)
          Listeners  (* handlers passed to listen(): they never acknowledge *)

ASSUME SubscribersAssumption == Workers \cap Listeners = {}

Subscribers == Workers \cup Listeners

ESState == {"NOT_READY", "PREPARING", "IDLE", "ACTIVE", "SHUTTING_DOWN"}

(* One call of a worker's handler: it runs, then its response is handed    *)
(* over, then the message is acknowledged.                                 *)
Invocation == [worker : Workers, msg : Messages, phase : {"handling", "responded"}]

(* subs is Distributor._subscriptions, attached the handlers registered    *)
(* with the EventEmitter, running the handler promises not yet settled.    *)
Publisher == [status   : ESState,
              queue    : Seq(Messages),
              subs     : SUBSET Subscribers,
              attached : SUBSET Subscribers,
              running  : SUBSET Invocation]

NewPublisher ==
    [status |-> "NOT_READY", queue |-> <<>>, subs |-> {}, attached |-> {}, running |-> {}]

-----------------------------------------------------------------------------
(* Mutated forms of Advance: each is the operator with a plausible mistake, *)
(* and shows that a property can fail.  The first has no test of the item. *)
AdvanceWithoutItemTest(p) ==
    IF p.subs = {} \/ p.status # "IDLE"
    THEN p
    ELSE LET m == IF p.queue = <<>> THEN "undefined" ELSE Head(p.queue)
         IN  [p EXCEPT !.status = "ACTIVE",
                       !.queue = IF @ = <<>> THEN @ ELSE Tail(@),
                       !.running = @ \cup {[worker |-> w, msg |-> m, phase |-> "handling"] :
                                             w \in p.attached \cap Workers}]

AdvanceWithoutActive(p) ==
    IF p.subs = {} \/ p.status # "IDLE" \/ p.queue = <<>>
    THEN p
    ELSE [p EXCEPT !.queue = Tail(@),
                   !.running = @ \cup {[worker |-> w, msg |-> Head(p.queue), phase |-> "handling"] :
                                         w \in p.attached \cap Workers}]

AdvanceAnyStatus(p) ==
    IF p.subs = {} \/ p.queue = <<>>
    THEN p
    ELSE [p EXCEPT !.status = "ACTIVE",
                   !.queue = Tail(@),
                   !.running = @ \cup {[worker |-> w, msg |-> Head(p.queue), phase |-> "handling"] :
                                         w \in p.attached \cap Workers}]

-----------------------------------------------------------------------------
(* Distributor.publish: the EventEmitter calls every attached handler.     *)
(* Only a worker's handler is a promise that later acknowledges.           *)
Distribute(p, m) == {[worker |-> w, msg |-> m, phase |-> "handling"] : w \in p.attached \cap Workers}

(* MemoryPublisher.advanceBus: hand the oldest message over, if the bus is *)
(* idle and the distributor counts a subscription.                         *)
Advance(p) ==
    IF p.subs = {} \/ p.status # "IDLE" \/ p.queue = <<>>
    THEN p
    ELSE [p EXCEPT !.status = "ACTIVE",
                   !.queue = Tail(@),
                   !.running = @ \cup Distribute(p, Head(p.queue))]

(* Mutated forms of Enqueue. *)
EnqueueAlwaysLast(p, m) == [p EXCEPT !.queue = Append(@, m)]
EnqueueFirst(p, m) ==
    LET q == [p EXCEPT !.queue = <<m>> \o @]
    IN  IF Len(q.queue) = 1 THEN Advance(q) ELSE q

(* MemoryPublisher.handlePublish: only a message that finds the queue      *)
(* empty tries to advance the bus.                                         *)
Enqueue(p, m) ==
    LET q == [p EXCEPT !.queue = Append(@, m)]
    IN  IF Len(q.queue) = 1 THEN Advance(q) ELSE q

(* Mutated form of Acknowledge. *)
AcknowledgeWithoutAdvance(p, r) == [p EXCEPT !.status = "IDLE", !.running = @ \ {r}]

(* BasePublisher.acknowledgeEvent: IDLE, whatever the status was, and the  *)
(* next message at once.                                                   *)
Acknowledge(p, r) == Advance([p EXCEPT !.status = "IDLE", !.running = @ \ {r}])

(* Distributor.subscribe *)
Attach(p, s) == [p EXCEPT !.subs = @ \cup {s}, !.attached = @ \cup {s}]

(* Distributor.unsubscribe: a key that clear() has forgotten changes       *)
(* nothing, its handler stays attached.                                    *)
Detach(p, s) ==
    IF s \in p.subs
    THEN [p EXCEPT !.subs = @ \ {s}, !.attached = @ \ {s}]
    ELSE p

(* Distributor.clear forgets the keys and detaches nothing. *)
Clear(p) == [p EXCEPT !.subs = {}]
=============================================================================
