-------------------------- MODULE MemoryPublisher --------------------------
(***************************************************************************)
(* MemoryPublisher with the BasePublisher and the Distributor under it:    *)
(* bootstrap, publish, subscribe, listen, unsubscribe, the asynchronous    *)
(* completion of a handler, and shutdown.                                  *)
(*                                                                         *)
(* An action is a piece of code between two awaits.  A message is accepted *)
(* when handlePublish returns; the histories published, delivered and      *)
(* acked record the order of acceptance, hand-over and acknowledgement.    *)
(***************************************************************************)
EXTENDS PublisherCore

CONSTANTS Respondable, (* messages with $responseKey and without $disableResponse *)
          Rejecting    (* messages whose handler's promise may reject             *)

ASSUME RespondableAssumption == Respondable \subseteq Messages
ASSUME RejectingAssumption == Rejecting \subseteq Messages

(* publisher.interface.ts, subscribe: "Should only be called ONCE". *)
ASSUME OneWorkerAssumption == \A v, w \in Workers : v = w

VARIABLES wired,      (* called in the order Nest's hooks give; never       *)
                      (* changes                                            *)
          pub,        (* the publisher                                      *)
          hook,       (* how far Nest's lifecycle hooks have come           *)
          responses,  (* keys of _responseMap: the answers handed over      *)
          published, delivered, acked

vars == <<wired, pub, hook, responses, published, delivered, acked>>

Hooks == {"created", "bootstrapping", "up", "closing", "closed"}

(* Every variable keeps its type. *)
TypeOK ==
    /\ wired \in BOOLEAN
    /\ pub \in Publisher
    /\ hook \in Hooks
    /\ responses \subseteq Respondable
    /\ published \in Seq(Messages)
    /\ delivered \in Seq(Messages)
    /\ acked \in Seq(Messages)

Init ==
    /\ wired \in BOOLEAN
    /\ pub = NewPublisher
    /\ hook = "created"
    /\ responses = {}
    /\ published = <<>>
    /\ delivered = <<>>
    /\ acked = <<>>

-----------------------------------------------------------------------------
(* If wired the environment is the application as Nest starts it: the      *)
(* bus subscribes before its (transient) publisher is bootstrapped, keeps  *)
(* its subscription, and nobody publishes while the bootstrap awaits.      *)
MaySubscribe(s) == wired /\ s \in Workers => hook = "created"
MayBootstrap == wired => pub.subs \cap Workers # {}
MayPublish == wired => hook # "bootstrapping"

(* The head of the queue, if the step took it, is delivered. *)
RecordDelivery(before) ==
    delivered' = IF Len(pub'.queue) < Len(before) THEN Append(delivered, Head(before)) ELSE delivered

(* onApplicationBootstrap up to its await: PREPARING and a new queue. *)
Bootstrap ==
    /\ hook = "created" /\ MayBootstrap
    /\ hook' = "bootstrapping"
    /\ pub' = [pub EXCEPT !.status = "PREPARING", !.queue = <<>>]
    /\ UNCHANGED <<wired, responses, published, delivered, acked>>

BootstrapDone ==
    /\ hook = "bootstrapping"
    /\ hook' = "up"
    /\ pub' = [pub EXCEPT !.status = "IDLE"]
    /\ UNCHANGED <<wired, responses, published, delivered, acked>>

(* publish(m).  Before the bootstrap there is no queue and it rejects. *)
Publish(m) ==
    /\ hook # "created" /\ MayPublish
    /\ \A i \in 1..Len(published) : published[i] # m
    /\ pub' = Enqueue(pub, m)
    /\ published' = Append(published, m)
    /\ RecordDelivery(Append(pub.queue, m))
    /\ UNCHANGED <<wired, hook, responses, acked>>

(* subscribe(handler) or listen(handler) *)
Subscribe(s) ==
    /\ s \notin pub.attached /\ MaySubscribe(s)
    /\ pub' = Attach(pub, s)
    /\ UNCHANGED <<wired, hook, responses, published, delivered, acked>>

Unsubscribe(s) ==
    /\ s \in pub.attached /\ MaySubscribe(s)
    /\ pub' = Detach(pub, s)
    /\ UNCHANGED <<wired, hook, responses, published, delivered, acked>>

(* The handler of a message that expects an answer resolves: handleResponse *)
(* puts the answer in the response map, and is awaited.                     *)
Respond(r) ==
    /\ r.phase = "handling" /\ r.msg \in Respondable
    /\ pub' = [pub EXCEPT !.running = (@ \ {r}) \cup {[r EXCEPT !.phase = "responded"]}]
    /\ responses' = responses \cup {r.msg}
    /\ UNCHANGED <<wired, hook, published, delivered, acked>>

(* acknowledgeEvent: after handleResponse, or as soon as the handler of a  *)
(* message that expects no answer resolves.                                *)
AcknowledgeEvent(r) ==
    /\ r.phase = "responded" \/ r.msg \notin Respondable
    /\ pub' = Acknowledge(pub, r)
    /\ acked' = Append(acked, r.msg)
    /\ RecordDelivery(pub.queue)
    /\ UNCHANGED <<wired, hook, responses, published>>

(* The handler rejects: the promise of the subscription rejects with it,   *)
(* before acknowledgeEvent, and nothing else happens.                      *)
HandlerRejects(r) ==
    /\ r.phase = "handling" /\ r.msg \in Rejecting
    /\ pub' = [pub EXCEPT !.running = @ \ {r}]
    /\ UNCHANGED <<wired, hook, responses, published, delivered, acked>>

(* beforeApplicationShutdown up to its await, and after it.  A handler     *)
(* that is running is not waited for.                                      *)
Shutdown ==
    /\ hook = "up"
    /\ hook' = "closing"
    /\ pub' = Clear([pub EXCEPT !.status = "SHUTTING_DOWN"])
    /\ UNCHANGED <<wired, responses, published, delivered, acked>>

ShutdownDone ==
    /\ hook = "closing"
    /\ hook' = "closed"
    /\ pub' = [Clear(pub) EXCEPT !.status = "NOT_READY"]
    /\ UNCHANGED <<wired, responses, published, delivered, acked>>

Next ==
    \/ Bootstrap
    \/ BootstrapDone
    \/ \E m \in Messages : Publish(m)
    \/ \E s \in Subscribers : Subscribe(s) \/ Unsubscribe(s)
    \/ \E r \in pub.running : Respond(r) \/ AcknowledgeEvent(r) \/ HandlerRejects(r)
    \/ Shutdown
    \/ ShutdownDone

Spec == Init /\ [][Next]_vars

(* Node resumes a promise that is settled: a bootstrap that awaits goes on, *)
(* and a handler that does not reject comes to its acknowledgement.         *)
Progress(m) == \E r \in pub.running : r.msg = m /\ (Respond(r) \/ AcknowledgeEvent(r))

Fairness == WF_vars(BootstrapDone) /\ \A m \in Messages : WF_vars(Progress(m))

FairSpec == Spec /\ Fairness

-----------------------------------------------------------------------------
(* What the bus that owns the publisher relies on. *)

(* With one worker, as IPublisher.subscribe asks, no handler is ever       *)
(* started before the handler of the message before it has come to its     *)
(* end, and a publisher that calls itself IDLE has nothing in progress:    *)
(* the status, written by four different pieces of code, is a lock.        *)
OneAtATime ==
    /\ \A r1, r2 \in pub.running : r1 = r2
    /\ pub.status = "IDLE" => pub.running = {} /\ Len(acked) = Len(delivered)

(* Acknowledged, handed over and waiting messages are the published ones   *)
(* in the order of publication: nothing is lost, repeated or overtaken,    *)
(* whichever of publish() and acknowledgeEvent() advanced the bus.         *)
InOrder ==
    /\ Len(published) = Len(delivered) + Len(pub.queue)
    /\ \A i \in 1..Len(delivered) : delivered[i] = published[i]
    /\ \A i \in 1..Len(pub.queue) : pub.queue[i] = published[Len(delivered) + i]
    /\ Len(acked) <= Len(delivered)
    /\ \A i \in 1..Len(acked) : acked[i] = delivered[i]

(* handlePublish only advances the bus from an empty queue, so a message   *)
(* left waiting on an idle bus would stop it for good.  In the order of    *)
(* calls the application makes this does not happen.                       *)
NoStall ==
    wired /\ pub.status = "IDLE" /\ pub.subs \cap Workers # {} => pub.queue = <<>>

(* The publisher implements the serial bus. *)
Serial == INSTANCE SerialBus
            WITH accepted <- published, started <- Len(delivered), finished <- Len(acked)

ImplementsSerialBus == Serial!Spec

(* In that order of calls every message accepted is acknowledged in the    *)
(* end, unless the application shuts down or a handler rejects: a          *)
(* rejection, and nothing else, leaves the publisher ACTIVE with no        *)
(* handler running.  Every message handed over is acknowledged even then,  *)
(* but for the last one.                                                   *)
Acked(m) == \E i \in 1..Len(acked) : acked[i] = m
Rejected(m) ==
    /\ pub.status = "ACTIVE" /\ pub.running = {}
    /\ m \in Rejecting /\ delivered[Len(delivered)] = m
EveryMessageAcknowledged ==
    \A m \in Messages :
        /\ (wired /\ \E i \in 1..Len(published) : published[i] = m)
             ~> (Acked(m) \/ hook \in {"closing", "closed"} \/ \E r \in Messages : Rejected(r))
        /\ (wired /\ \E i \in 1..Len(delivered) : delivered[i] = m)
             ~> (Acked(m) \/ hook \in {"closing", "closed"} \/ Rejected(m))
=============================================================================
