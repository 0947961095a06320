-------------------------- MODULE RabbitPublisher --------------------------
(***************************************************************************)
(* RabbitMQPublisher in the role of commands or events: the nodes that     *)
(* serve one domain consume one durable work queue, with a prefetch of 1   *)
(* (moirae/rabbitmq/lib/publishers/rabbitmq.publisher.ts over              *)
(* core/lib/classes/base.publisher.ts).                                    *)
(*                                                                         *)
(* External, as the code uses them: the broker, which hands a queued       *)
(* message to some consumer, takes back what a closed channel had not      *)
(* acknowledged, and closes a channel that acknowledges a delivery already *)
(* settled; and amqplib, which sends what was published when the socket    *)
(* takes it, and gives the "close" event of a lost connection an error.    *)
(* With an error the connection provider computes crashed = FALSE and does *)
(* not connect again (rabbitmq.connection.ts:63-88).                       *)
(***************************************************************************)
EXTENDS Naturals

CONSTANTS Nodes,
          Consumers,        (* the nodes whose DomainStore has the domain      *)
          Messages,
          Rejecting,        (* messages whose handler's promise may reject     *)
          MaxInterruptions, (* shutdowns, crashes and lost connections in all  *)
          MaxRuns           (* runs of one message on one node at a time       *)

ASSUME ConsumersAssumption == Consumers \subseteq Nodes
ASSUME RejectingAssumption == Rejecting \subseteq Messages
ASSUME BoundsAssumption == MaxInterruptions \in Nat /\ MaxRuns \in Nat

VARIABLES node,      (* the publisher of every node                        *)
          queue,     (* what waits in the work queue                       *)
          bound,     (* whether the work queue is bound to the exchange    *)
          published, (* the messages handlePublish took                    *)
          unrouted,  (* those the exchange had no queue for                *)
          cut,       (* those that left with the channel before being sent *)
          returned,  (* those the broker took back from a consumer         *)
          handled,   (* those whose handler came to its end                *)
          interruptions

vars == <<node, queue, bound, published, unrouted, cut, returned, handled, interruptions>>

Hooks == {"created", "bootstrapping", "up", "closing", "closed"}

(* unacked is what the broker has handed over and waits for, active the    *)
(* keys of _activeInbound, running the handler promises of each message,   *)
(* outgoing what amqplib has buffered.  refused tells a channel on which a *)
(* delivery was rejected.                                                  *)
Publisher == [hook : Hooks,
              status : {"NOT_READY", "PREPARING", "IDLE", "SHUTTING_DOWN"},
              channel : {"none", "open", "closed"},
              consuming : BOOLEAN,
              refused : BOOLEAN,
              outgoing : SUBSET Messages,
              unacked : SUBSET Messages,
              active : SUBSET Messages,
              running : [Messages -> 0..MaxRuns]]

NewPublisher ==
    [hook |-> "created", status |-> "NOT_READY", channel |-> "none", consuming |-> FALSE,
     refused |-> FALSE, outgoing |-> {}, unacked |-> {}, active |-> {},
     running |-> [m \in Messages |-> 0]]

(* Every variable keeps its type. *)
TypeOK ==
    /\ node \in [Nodes -> Publisher]
    /\ bound \in BOOLEAN
    /\ queue \subseteq Messages /\ published \subseteq Messages
    /\ unrouted \subseteq Messages /\ cut \subseteq Messages
    /\ returned \subseteq Messages /\ handled \subseteq Messages
    /\ interruptions \in 0..MaxInterruptions

Init ==
    /\ node = [n \in Nodes |-> NewPublisher]
    /\ queue = {} /\ bound = FALSE
    /\ published = {} /\ unrouted = {} /\ cut = {} /\ returned = {} /\ handled = {}
    /\ interruptions = 0

-----------------------------------------------------------------------------
(* The channel of a publisher closes: the broker takes back what was not   *)
(* acknowledged, and what was not sent is gone.                            *)
WithoutChannel(p) ==
    [p EXCEPT !.channel = "closed", !.consuming = FALSE, !.unacked = {}, !.outgoing = {}]

LoseChannel(p) ==
    /\ queue' = queue \cup p.unacked
    /\ returned' = returned \cup p.unacked
    /\ cut' = cut \cup p.outgoing

KeepChannel == UNCHANGED <<queue, returned, cut>>

Interrupt ==
    /\ interruptions < MaxInterruptions
    /\ interruptions' = interruptions + 1

-----------------------------------------------------------------------------
(* onApplicationBootstrap, from await to await. *)
Bootstrap(n) ==
    /\ node[n].hook = "created"
    /\ node' = [node EXCEPT ![n].hook = "bootstrapping", ![n].status = "PREPARING"]
    /\ UNCHANGED <<queue, bound, published, unrouted, cut, returned, handled, interruptions>>

OpenChannel(n) ==
    /\ node[n].hook = "bootstrapping" /\ node[n].channel = "none"
    /\ node' = [node EXCEPT ![n].channel = "open"]
    /\ UNCHANGED <<queue, bound, published, unrouted, cut, returned, handled, interruptions>>

Consume(n) ==
    /\ node[n].hook = "bootstrapping" /\ node[n].channel = "open"
    /\ n \in Consumers /\ ~node[n].consuming
    /\ node' = [node EXCEPT ![n].consuming = TRUE]
    /\ bound' = TRUE
    /\ UNCHANGED <<queue, published, unrouted, cut, returned, handled, interruptions>>

(* When the broker has closed the channel in the meantime, the promise of  *)
(* consume() is settled all the same.                                      *)
BootstrapDone(n) ==
    /\ node[n].hook = "bootstrapping" /\ node[n].channel # "none"
    /\ n \in Consumers => node[n].consuming \/ node[n].channel = "closed"
    /\ node' = [node EXCEPT ![n].hook = "up", ![n].status = "IDLE"]
    /\ UNCHANGED <<queue, bound, published, unrouted, cut, returned, handled, interruptions>>

-----------------------------------------------------------------------------
(* handlePublish: without a channel, or with a closed one, it throws. *)
Publish(n, m) ==
    /\ node[n].channel = "open" /\ m \notin published
    /\ node' = [node EXCEPT ![n].outgoing = @ \cup {m}]
    /\ published' = published \cup {m}
    /\ UNCHANGED <<queue, bound, unrouted, cut, returned, handled, interruptions>>

(* The exchange routes a message that arrives to the queue bound to it. *)
Route(n, m) ==
    /\ node[n].channel = "open" /\ m \in node[n].outgoing
    /\ node' = [node EXCEPT ![n].outgoing = @ \ {m}]
    /\ IF bound THEN queue' = queue \cup {m} /\ UNCHANGED unrouted
                ELSE unrouted' = unrouted \cup {m} /\ UNCHANGED queue
    /\ UNCHANGED <<bound, published, cut, returned, handled, interruptions>>

-----------------------------------------------------------------------------
(* The prefetch of 1: the broker sends a consumer nothing more as long as  *)
(* it waits for an acknowledgement.  MaxRuns bounds the model, not a node. *)
CanReceiveMore(p, m) == p.consuming /\ p.running[m] < MaxRuns    (* mutated form *)
CanReceive(p, m) == p.consuming /\ p.unacked = {} /\ p.running[m] < MaxRuns

Accepts(p) == p.status = "IDLE"

(* Mutated forms of Receive: the publisher becomes ACTIVE, as the one in   *)
(* memory does; it consumes without acknowledgement.                       *)
ReceiveActive(p, m) ==
    [p EXCEPT !.status = "ACTIVE", !.active = @ \cup {m}, !.running[m] = @ + 1,
              !.unacked = IF Accepts(p) THEN @ \cup {m} ELSE @,
              !.refused = @ \/ ~Accepts(p)]
ReceiveNoAck(p, m) == [p EXCEPT !.active = @ \cup {m}, !.running[m] = @ + 1]

(* The consumer's callback.  A delivery that comes before the publisher is *)
(* IDLE, or after it has begun to shut down, is rejected, but the callback *)
(* goes on: the message becomes active and its handler runs all the same.  *)
(* (The bus has subscribed by then: listenerCount is not 0.)               *)
Receive(p, m) ==
    [p EXCEPT !.active = @ \cup {m}, !.running[m] = @ + 1,
              !.unacked = IF Accepts(p) THEN @ \cup {m} ELSE @,
              !.refused = @ \/ ~Accepts(p)]

(* Mutated form of Deliver: reject(msg, false). *)
DeliverWithoutRequeue(n, m) ==
    /\ m \in queue /\ CanReceive(node[n], m)
    /\ node' = [node EXCEPT ![n] = Receive(@, m)]
    /\ queue' = queue \ {m}
    /\ UNCHANGED <<bound, published, unrouted, cut, returned, handled, interruptions>>

(* The broker hands a message to a consumer; a rejected one goes back. *)
Deliver(n, m) ==
    /\ m \in queue /\ CanReceive(node[n], m)
    /\ node' = [node EXCEPT ![n] = Receive(@, m)]
    /\ IF Accepts(node[n]) THEN queue' = queue \ {m} /\ UNCHANGED returned
                           ELSE returned' = returned \cup {m} /\ UNCHANGED queue
    /\ UNCHANGED <<bound, published, unrouted, cut, handled, interruptions>>

(* acknowledgeEvent: IDLE, whatever the status was. *)
Ended(p, m) == [p EXCEPT !.running[m] = @ - 1, !.status = "IDLE"]

(* Mutated form of HandlerEnds: the message is forgotten, not acknowledged. *)
HandlerEndsForgetting(n, m) ==
    /\ node[n].running[m] > 0
    /\ handled' = handled \cup {m}
    /\ node' = [node EXCEPT ![n] = [Ended(@, m) EXCEPT !.active = @ \ {m}]]
    /\ UNCHANGED <<queue, bound, published, unrouted, cut, returned, interruptions>>

(* The handler resolves: acknowledgeEvent, and handleAcknowledge.          *)
HandlerEnds(n, m) ==
    /\ node[n].running[m] > 0
    /\ handled' = handled \cup {m}
    /\ LET p == Ended(node[n], m)
       IN  \/ (* nothing is known of the delivery any more *)
              /\ m \notin p.active
              /\ node' = [node EXCEPT ![n] = p] /\ KeepChannel
           \/ (* ack() throws on a closed channel *)
              /\ m \in p.active /\ p.channel = "closed"
              /\ node' = [node EXCEPT ![n] = p] /\ KeepChannel
           \/ (* the broker was waiting for it *)
              /\ m \in p.active /\ m \in p.unacked
              /\ node' = [node EXCEPT ![n] = [p EXCEPT !.active = @ \ {m}, !.unacked = {}]]
              /\ KeepChannel
           \/ (* the delivery was rejected: the broker closes the channel *)
              /\ m \in p.active /\ p.channel = "open" /\ m \notin p.unacked
              /\ node' = [node EXCEPT ![n] = WithoutChannel([p EXCEPT !.active = @ \ {m}])]
              /\ LoseChannel(p)
    /\ UNCHANGED <<bound, published, unrouted, interruptions>>

(* The handler rejects: no acknowledgement, and the status stays. *)
HandlerRejects(n, m) ==
    /\ node[n].running[m] > 0 /\ m \in Rejecting
    /\ node' = [node EXCEPT ![n].running[m] = @ - 1]
    /\ UNCHANGED <<queue, bound, published, unrouted, cut, returned, handled, interruptions>>

-----------------------------------------------------------------------------
(* The connection of a node that is up is lost.  It is not opened again,   *)
(* and nothing tells the publisher, whose status stays.  (While a hook     *)
(* awaits the broker, a loss rejects the hook and ends the process: Crash.) *)
ConnectionCloses(n) ==
    /\ node[n].hook = "up" /\ node[n].channel = "open"
    /\ Interrupt
    /\ node' = [node EXCEPT ![n] = WithoutChannel(node[n])]
    /\ LoseChannel(node[n])
    /\ UNCHANGED <<bound, published, unrouted, handled>>

(* The process crashes.  It may be started again. *)
Crash(n) ==
    /\ node[n].hook # "created"
    /\ Interrupt
    /\ node' = [node EXCEPT ![n] = NewPublisher]
    /\ LoseChannel(node[n])
    /\ UNCHANGED <<bound, published, unrouted, handled>>

(* beforeApplicationShutdown, from await to await: the consumer is         *)
(* cancelled, the channel closed after what was to be sent, and the        *)
(* process ends, whether a handler runs or not.                            *)
Shutdown(n) ==
    /\ node[n].hook = "up" /\ node[n].channel = "open"
    /\ Interrupt
    /\ node' = [node EXCEPT ![n].hook = "closing", ![n].status = "SHUTTING_DOWN"]
    /\ UNCHANGED <<queue, bound, published, unrouted, cut, returned, handled>>

Cancel(n) ==
    /\ node[n].hook = "closing" /\ node[n].consuming
    /\ node' = [node EXCEPT ![n].consuming = FALSE]
    /\ UNCHANGED <<queue, bound, published, unrouted, cut, returned, handled, interruptions>>

ShutdownDone(n) ==
    /\ node[n].hook = "closing" /\ ~node[n].consuming /\ node[n].outgoing = {}
    /\ node' = [node EXCEPT ![n] = [WithoutChannel(node[n])
                                      EXCEPT !.hook = "closed", !.status = "NOT_READY"]]
    /\ LoseChannel(node[n])
    /\ UNCHANGED <<bound, published, unrouted, handled, interruptions>>

Exit(n) ==
    /\ node[n].hook = "closed"
    /\ node' = [node EXCEPT ![n] = NewPublisher]
    /\ UNCHANGED <<queue, bound, published, unrouted, cut, returned, handled, interruptions>>

Next ==
    \E n \in Nodes :
        \/ Bootstrap(n) \/ OpenChannel(n) \/ Consume(n) \/ BootstrapDone(n)
        \/ ConnectionCloses(n) \/ Crash(n)
        \/ Shutdown(n) \/ Cancel(n) \/ ShutdownDone(n) \/ Exit(n)
        \/ \E m \in Messages : \/ Publish(n, m) \/ Route(n, m) \/ Deliver(n, m)
                               \/ HandlerEnds(n, m) \/ HandlerRejects(n, m)

Spec == Init /\ [][Next]_vars

(* A bootstrap that has begun goes on, the broker hands over what waits,   *)
(* a handler that does not reject ends.                                    *)
Fairness ==
    \A n \in Nodes :
        /\ WF_vars(OpenChannel(n)) /\ WF_vars(Consume(n)) /\ WF_vars(BootstrapDone(n))
        /\ \A m \in Messages : /\ WF_vars(Route(n, m)) /\ WF_vars(Deliver(n, m))
                               /\ WF_vars(HandlerEnds(n, m))

FairSpec == Spec /\ Fairness

-----------------------------------------------------------------------------
Held == UNION {node[n].unacked : n \in Nodes}
Runs(m) == {n \in Nodes : node[n].running[m] > 0}

(* At least once: a message that came to the queue waits there, is with    *)
(* one consumer who has not acknowledged it, or was handled to its end,    *)
(* whatever crashes, closes or is rejected meanwhile.                      *)
NothingLost ==
    /\ published = handled \cup queue \cup Held \cup unrouted \cup cut
                     \cup UNION {node[n].outgoing : n \in Nodes}
    /\ (unrouted \cup cut) \cap (queue \cup Held \cup handled) = {}
    /\ \A n1, n2 \in Nodes : n1 # n2 => node[n1].unacked \cap node[n2].unacked = {}
    /\ queue \cap Held = {}

(* Twice only after a return: a message the broker never took back is run  *)
(* once and on one node, and a node runs one such message at a time: the   *)
(* prefetch of 1 is the only lock of a publisher that is never ACTIVE.     *)
OnceUnlessReturned ==
    /\ \A m \in Messages \ returned :
         /\ \A n1, n2 \in Runs(m) : n1 = n2
         /\ \A n \in Runs(m) : node[n].running[m] = 1 /\ m \notin handled \cup queue
    /\ \A n \in Nodes : \A m1, m2 \in Messages \ returned :
         n \in Runs(m1) \cap Runs(m2) => m1 = m2

(* The broker closes the channel of a node only if that node has rejected  *)
(* a delivery: on any other, every handler that ends acknowledges what the *)
(* broker waits for.                                                       *)
ActiveIsUnacked ==
    \A n \in Nodes : node[n].channel = "open" /\ ~node[n].refused
                       => {m \in node[n].active : node[n].running[m] > 0} \subseteq node[n].unacked

(* A message whose handler rejected stays with its consumer, and blocks it. *)
Blocks(n, m) == m \in Rejecting /\ m \in node[n].unacked /\ node[n].running[m] = 0

(* If some consumer is up, keeps its channel and is not blocked, every     *)
(* message that came to the queue is handled in the end, or its handler    *)
(* rejects and it blocks another consumer, for as long as that one runs.   *)
Works(n) ==
    /\ node[n].hook = "up" /\ node[n].consuming
    /\ \A m \in Messages : ~Blocks(n, m)

EveryMessageHandled ==
    (<>[](\E n \in Consumers : Works(n)))
        => \A m \in Messages : m \in queue ~> m \in handled \/ \E n \in Consumers : Blocks(n, m)
=============================================================================
