------------------------------ MODULE QueryBus ------------------------------
(***************************************************************************)
(* QueryBus.execute of queries whose domain is not local: the query goes   *)
(* through a MemoryPublisher to the one worker of the bus, and the answer  *)
(* comes back through the publisher's response map, an AsyncMap in which   *)
(* the caller waits for its key.  A handler may itself execute a query on  *)
(* the same bus.  An action is a piece of code between two awaits.         *)
(***************************************************************************)
EXTENDS FiniteSets, Sequences

CONSTANTS Queries,  (* each is its own $responseKey                          *)
          NoQuery,
          Asks      (* the query that the handler of a query executes        *)

ASSUME NoQueryAssumption == NoQuery \notin Queries
ASSUME AsksAssumption == Asks \in [Queries -> Queries \cup {NoQuery}]

Bus == INSTANCE PublisherCore
         WITH Messages <- Queries, Workers <- {"bus"}, Listeners <- {}

VARIABLES bus,        (* the publisher                                       *)
          responses,  (* the keys of _responseMap                            *)
          caller      (* where each execute() awaits                         *)

queryVars == <<bus, responses, caller>>

(* "sent": publish() has taken the query; "waiting": waitGet subscribed to *)
(* the key; "woken": the subscription got the answer; "stored": waitGet    *)
(* has it.                                                                 *)
Places == {"new", "sent", "waiting", "woken", "stored", "answered", "timedout"}

Settled(q) == caller[q] \in {"answered", "timedout"}
Nested == {Asks[q] : q \in Queries}

QueryInit ==
    /\ bus = [Bus!NewPublisher EXCEPT !.status = "IDLE", !.subs = {"bus"}, !.attached = {"bus"}]
    /\ responses = {}
    /\ caller = [q \in Queries |-> "new"]

-----------------------------------------------------------------------------
(* execute() up to the end of publish() *)
Send(q) ==
    /\ caller[q] = "new"
    /\ bus' = Bus!Enqueue(bus, q)
    /\ caller' = [caller EXCEPT ![q] = "sent"]
    /\ UNCHANGED responses

Execute(q) == q \notin Nested /\ Send(q)

(* Mutated form: waitGet does not look for the key. *)
AwaitWithoutLooking(q) ==
    /\ caller[q] = "sent"
    /\ caller' = [caller EXCEPT ![q] = "waiting"]
    /\ UNCHANGED <<bus, responses>>

(* awaitResponse: waitGet looks for the key, subscribes and sets the timer *)
(* without an await between.                                               *)
AwaitResponse(q) ==
    /\ caller[q] = "sent"
    /\ caller' = [caller EXCEPT ![q] = IF q \in responses THEN "stored" ELSE "waiting"]
    /\ UNCHANGED <<bus, responses>>

(* The subscription resolved the promise: waitGet sets the key once more.  *)
SetAgain(q) ==
    /\ caller[q] = "woken"
    /\ caller' = [caller EXCEPT ![q] = "stored"]
    /\ responses' = responses \cup {q}
    /\ UNCHANGED bus

(* awaitResponse deletes the key and returns. *)
Return(q) ==
    /\ caller[q] = "stored"
    /\ caller' = [caller EXCEPT ![q] = "answered"]
    /\ responses' = responses \ {q}
    /\ UNCHANGED bus

(* Mutated form: the time counts from the hand-over to the worker. *)
TimeoutOnceStarted(q) ==
    /\ caller[q] = "waiting"
    /\ \E r \in bus.running : r.msg = q
    /\ caller' = [caller EXCEPT ![q] = "timedout"]
    /\ UNCHANGED <<bus, responses>>

(* After 5 seconds the subscription is dropped and execute() rejects. *)
Timeout(q) ==
    /\ caller[q] = "waiting"
    /\ caller' = [caller EXCEPT ![q] = "timedout"]
    /\ UNCHANGED <<bus, responses>>

-----------------------------------------------------------------------------
(* BaseBus.executeLocal, called by the publisher: the handler executes its *)
(* own query first, if it has one ...                                      *)
Ask(r) == r.phase = "handling" /\ Asks[r.msg] # NoQuery /\ Send(Asks[r.msg])

(* ... and then its result, or what it threw, goes to the response map.    *)
(* Setting the key wakes the caller that waits for it.                     *)
Respond(r) ==
    /\ r.phase = "handling" /\ (Asks[r.msg] # NoQuery => Settled(Asks[r.msg]))
    /\ bus' = [bus EXCEPT !.running = (@ \ {r}) \cup {[r EXCEPT !.phase = "responded"]}]
    /\ responses' = responses \cup {r.msg}
    /\ caller' = [caller EXCEPT ![r.msg] = IF @ = "waiting" THEN "woken" ELSE @]

Acknowledge(r) ==
    /\ r.phase = "responded"
    /\ bus' = Bus!Acknowledge(bus, r)
    /\ UNCHANGED <<responses, caller>>

Wait(q) == AwaitResponse(q) \/ SetAgain(q) \/ Return(q)
Work(r) == Ask(r) \/ Respond(r) \/ Acknowledge(r)

QueryNext ==
    \/ \E q \in Queries : Execute(q) \/ Wait(q) \/ Timeout(q)
    \/ \E r \in bus.running : Work(r)

QuerySpec == QueryInit /\ [][QueryNext]_queryVars

(* Promises that are settled are resumed, handlers come to an end, timers  *)
(* expire.                                                                 *)
Fairness ==
    /\ WF_queryVars(\E r \in bus.running : Work(r))
    /\ \A q \in Queries : WF_queryVars(Wait(q)) /\ WF_queryVars(Timeout(q))

FairSpec == QuerySpec /\ Fairness

-----------------------------------------------------------------------------
(* Every variable keeps its type. *)
QueryTypeOK ==
    /\ bus \in Bus!Publisher
    /\ responses \subseteq Queries
    /\ caller \in [Queries -> Places]

(* No caller waits for an answer that is there: an answer that overtakes   *)
(* the call of awaitResponse is not lost.                                  *)
NoLostWakeup == \A q \in Queries : caller[q] = "waiting" => q \notin responses

(* Every execute() settles, whatever the handlers execute themselves.      *)
EveryQueryReturns == \A q \in Queries : (caller[q] = "sent") ~> Settled(q)
=============================================================================
