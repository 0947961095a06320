---------------------------- MODULE RabbitQuery ----------------------------
(***************************************************************************)
(* QueryBus.execute over RabbitMQ, from the process that asks to the one   *)
(* whose handler answers and back: routing by domain, a work queue per     *)
(* domain with one unacknowledged message per consumer, a response         *)
(* exchange with an exclusive queue per process, and the map of answers.   *)
(*                                                                         *)
(* The processes that serve domains are those of the node plugin: its      *)
(* init() starts the consumers first and subscribes the busses last, so    *)
(* that what comes in between is rejected and nothing else is done to it.  *)
(* (A Nest process subscribes first: RabbitPublisher.  Here it only asks,  *)
(* and serves no domain.)  A process may die at any time, or lose its      *)
(* connection, which it never opens again: the broker requeues what it     *)
(* held, and its response queue is deleted.                                *)
(***************************************************************************)
EXTENDS Naturals, FiniteSets, SequencesExt

CONSTANTS Nodes, Domains,
          Serves,      (* DomainStore of each process                        *)
          Queries,
          Asker,       (* the process that executes each query ...           *)
          DomainOf,    (* ... and its $executionDomain                       *)
          Fails,       (* queries whose handler throws                       *)
          Unhandled,   (* queries whose handler nobody has injected          *)
          Strict,      (* queries executed with throwError                   *)
          Registered,  (* ... whose error the asker's ConstructorStorage has *)
          MaxInterruptions

ASSUME RoutingAssumption ==
    Serves \in [Nodes -> SUBSET Domains] /\ Asker \in [Queries -> Nodes]
      /\ DomainOf \in [Queries -> Domains]
ASSUME OutcomeAssumption ==
    Fails \cap Unhandled = {} /\ Fails \cup Unhandled \cup Strict \cup Registered \subseteq Queries
ASSUME BoundsAssumption == MaxInterruptions \in Nat

VARIABLES up,             (* processes that run                              *)
          connected,      (* ... with their channels                         *)
          listening,      (* ... and have come to the end of init()          *)
          bound,          (* domains whose work queue is bound to the topic  *)
                          (* exchange; that outlives the processes           *)
          call,           (* where each execute() is                         *)
          workQueue,      (* ready messages of each domain                   *)
          jobs,           (* what the consumers of each process are at       *)
          responseQueue,  (* answers on the way to each process              *)
          responseMap,    (* keys in each process's _responseMap             *)
          answers,        (* how often each query has been answered          *)
          acked,          (* queries the broker is done with                 *)
          redelivered,    (* queries the broker has taken back               *)
          interruptions

processes == <<up, connected, listening, bound>>
vars == <<processes, call, workQueue, jobs, responseQueue, responseMap, answers, acked,
          redelivered, interruptions>>

-----------------------------------------------------------------------------
Outcomes == {"value", "error", "thrown", "timedOut"}
Calls == {"new", "waiting", "lost"} \cup Outcomes

Job == [query : Queries, phase : {"handling", "answered", "stuck"}]
JobsOf(n, d) == {j \in jobs[n] : DomainOf[j.query] = d}

IsLocal(q) == DomainOf[q] \in Serves[Asker[q]]

(* MoiraePlugin.injectQueryHandler has put one into the Container. *)
HasHandler(q) == q \notin Unhandled

RoutingKey(q) == Asker[q]

(* ConstructorStorage of the asker has the class of the answer. *)
IsRegistered(q) == q \in Registered

(* A mutant: an answer of a class that is not registered gets lost. *)
ParseResponseUnknown(q) == IF IsRegistered(q) THEN "value" ELSE "undefined"

(* An answer is an Error again, after its way through ResponseWrapper, if  *)
(* its class is registered where it is parsed.                             *)
ParseResponse(q) ==
    IF q \notin Fails THEN "value"
    ELSE IF q \in Strict /\ IsRegistered(q) THEN "thrown" ELSE "error"

(* What is executed in the process never throws what the handler threw,    *)
(* throwError or not; only a missing handler rejects.                      *)
LocalResult(q) ==
    IF ~HasHandler(q) THEN "thrown" ELSE IF q \in Fails THEN "error" ELSE "value"

Init ==
    /\ up = {} /\ connected = {} /\ listening = {} /\ bound = {}
    /\ call = [q \in Queries |-> "new"]
    /\ workQueue = [d \in Domains |-> <<>>]
    /\ jobs = [n \in Nodes |-> {}]
    /\ responseQueue = [n \in Nodes |-> <<>>]
    /\ responseMap = [n \in Nodes |-> {}]
    /\ answers = [q \in Queries |-> 0]
    /\ acked = {} /\ redelivered = {}
    /\ interruptions = 0

-----------------------------------------------------------------------------
(* MoiraePlugin.init: the publishers, with their consumers ... *)
Bootstrap(n) ==
    /\ n \notin up
    /\ up' = up \cup {n} /\ connected' = connected \cup {n}
    /\ listening' = IF Serves[n] = {} THEN listening \cup {n} ELSE listening
    /\ bound' = bound \cup Serves[n]
    /\ UNCHANGED <<call, workQueue, jobs, responseQueue, responseMap, answers, acked,
                   redelivered, interruptions>>

(* ... then the bus.  A delivery before that finds no listener and is      *)
(* rejected: it stays in the queue.                                        *)
Subscribe(n) ==
    /\ n \in connected \ listening
    /\ listening' = listening \cup {n}
    /\ UNCHANGED <<up, connected, bound, call, workQueue, jobs, responseQueue, responseMap,
                   answers, acked, redelivered, interruptions>>

(* QueryBus.execute.  What a local handler does is one step, as nothing    *)
(* here depends on it.  A query of another domain is published, which      *)
(* throws on a closed channel, and is dropped by the exchange if nobody    *)
(* has ever served the domain.  From there to the wait nothing else runs.  *)
Start(q, where) == call[q] = "new" /\ Asker[q] \in up /\ call' = [call EXCEPT ![q] = where]

Execute(q) ==
    /\ \/ IsLocal(q) /\ Start(q, LocalResult(q)) /\ UNCHANGED workQueue
       \/ ~IsLocal(q) /\ Asker[q] \notin connected /\ Start(q, "thrown") /\ UNCHANGED workQueue
       \/ /\ ~IsLocal(q) /\ Asker[q] \in connected /\ Start(q, "waiting")
          /\ workQueue' = IF DomainOf[q] \in bound
                          THEN [workQueue EXCEPT ![DomainOf[q]] = Append(@, q)]
                          ELSE workQueue
    /\ UNCHANGED <<processes, jobs, responseQueue, responseMap, answers, acked, redelivered,
                   interruptions>>

-----------------------------------------------------------------------------
(* A mutant: the prefetch is of the channel and not of the consumer. *)
MayReceiveAlone(n, d) == n \in listening /\ d \in Serves[n] /\ jobs[n] = {}

(* prefetch(1) is one unacknowledged message per consumer, and a process   *)
(* has a consumer per domain.                                              *)
MayReceive(n, d) == n \in listening /\ d \in Serves[n] /\ JobsOf(n, d) = {}

(* Without a handler the worker's promise rejects, and nothing             *)
(* acknowledges the message as long as the process lives.                  *)
ReceiveWork(n, d) ==
    /\ MayReceive(n, d) /\ workQueue[d] # <<>>
    /\ LET q == Head(workQueue[d])
       IN  jobs' = [jobs EXCEPT ![n] = @ \cup
                      {[query |-> q, phase |-> IF HasHandler(q) THEN "handling" ELSE "stuck"]}]
    /\ workQueue' = [workQueue EXCEPT ![d] = Tail(@)]
    /\ UNCHANGED <<processes, call, responseQueue, responseMap, answers, acked, redelivered,
                   interruptions>>

(* The handler is done, or has thrown: its result is published to the      *)
(* response queue of the asker, if that is still there.                    *)
Respond(n, j) ==
    LET asker == RoutingKey(j.query)
    IN  /\ j \in jobs[n] /\ j.phase = "handling"
        /\ jobs' = [jobs EXCEPT ![n] = (@ \ {j}) \cup {[j EXCEPT !.phase = "answered"]}]
        /\ answers' = [answers EXCEPT ![j.query] = @ + 1]
        /\ responseQueue' = IF asker \in connected
                            THEN [responseQueue EXCEPT ![asker] = Append(@, j.query)]
                            ELSE responseQueue
        /\ UNCHANGED <<processes, call, workQueue, responseMap, acked, redelivered, interruptions>>

Acknowledge(n, j) ==
    /\ j \in jobs[n] /\ j.phase = "answered"
    /\ acked' = acked \cup {j.query}
    /\ jobs' = [jobs EXCEPT ![n] = @ \ {j}]
    /\ UNCHANGED <<processes, call, workQueue, responseQueue, responseMap, answers,
                   redelivered, interruptions>>

-----------------------------------------------------------------------------
(* A mutant: who is woken leaves the key in the map. *)
AwaitResponseOnly(n, q) == responseMap' = [responseMap EXCEPT ![n] = @ \cup {q}]

(* The key is set, and whoever waits for it is woken before the next       *)
(* answer: waitGet sets it again and awaitResponse deletes it.             *)
AwaitResponse(n, q) ==
    IF call[q] = "waiting" THEN UNCHANGED responseMap
    ELSE responseMap' = [responseMap EXCEPT ![n] = @ \cup {q}]

ReceiveResponse(n) ==
    /\ responseQueue[n] # <<>>
    /\ LET q == Head(responseQueue[n])
       IN  /\ AwaitResponse(n, q)
           /\ call' = IF call[q] = "waiting" THEN [call EXCEPT ![q] = ParseResponse(q)] ELSE call
    /\ responseQueue' = [responseQueue EXCEPT ![n] = Tail(@)]
    /\ UNCHANGED <<processes, workQueue, jobs, answers, acked, redelivered, interruptions>>

(* waitGet gives up after five seconds, whatever is on its way. *)
Timeout(q) ==
    /\ call[q] = "waiting"
    /\ call' = [call EXCEPT ![q] = "timedOut"]
    /\ UNCHANGED <<processes, workQueue, jobs, responseQueue, responseMap, answers, acked,
                   redelivered, interruptions>>

-----------------------------------------------------------------------------
Held(S) == {j.query : j \in S}

(* A mutant: the broker keeps nothing of what it has delivered. *)
RequeueNothing(n) == workQueue
Requeue(n) == [d \in Domains |-> SetToSeq(Held(JobsOf(n, d))) \o workQueue[d]]

LoseChannels(n) ==
    /\ interruptions < MaxInterruptions
    /\ interruptions' = interruptions + 1
    /\ connected' = connected \ {n} /\ listening' = listening \ {n}
    /\ workQueue' = Requeue(n)
    /\ redelivered' = redelivered \cup Held(jobs[n])
    /\ jobs' = [jobs EXCEPT ![n] = {}]
    /\ responseQueue' = [responseQueue EXCEPT ![n] = <<>>]
    /\ UNCHANGED <<bound, answers, acked>>

(* The connection of a process that has come up is lost.  The provider     *)
(* takes the error for an orderly end and does not connect again: handlers *)
(* in progress answer to a closed channel, and who waits waits in vain.    *)
ConnectionCloses(n) ==
    /\ n \in listening /\ LoseChannels(n)
    /\ UNCHANGED <<up, call, responseMap>>

Crash(n) ==
    /\ n \in up /\ LoseChannels(n)
    /\ up' = up \ {n}
    /\ responseMap' = [responseMap EXCEPT ![n] = {}]
    /\ call' = [q \in Queries |-> IF Asker[q] = n /\ call[q] = "waiting" THEN "lost" ELSE call[q]]

-----------------------------------------------------------------------------
Work(n, d) ==
    ReceiveWork(n, d) \/ \E j \in JobsOf(n, d) : Respond(n, j) \/ Acknowledge(n, j)

Next ==
    \/ \E q \in Queries : Execute(q) \/ Timeout(q)
    \/ \E n \in Nodes : Bootstrap(n) \/ Subscribe(n) \/ ReceiveResponse(n) \/ ConnectionCloses(n) \/ Crash(n)
    \/ \E n \in Nodes, d \in Domains : Work(n, d)

Spec == Init /\ [][Next]_vars

(* init() comes to its end, the broker delivers what it has, and handlers  *)
(* end.  A process that is down need not come back, and nothing is assumed *)
(* of who asks.                                                            *)
Fairness == \A n \in Nodes : WF_vars(Subscribe(n)) /\ \A d \in Domains : WF_vars(Work(n, d))

FairSpec == Spec /\ Fairness

-----------------------------------------------------------------------------
(* Every variable keeps its type. *)
TypeOK ==
    /\ listening \subseteq connected /\ connected \subseteq up /\ up \subseteq Nodes
    /\ bound \subseteq Domains
    /\ call \in [Queries -> Calls]
    /\ workQueue \in [Domains -> Seq(Queries)]
    /\ jobs \in [Nodes -> SUBSET Job]
    /\ responseQueue \in [Nodes -> Seq(Queries)]
    /\ responseMap \in [Nodes -> SUBSET Queries]
    /\ answers \in [Queries -> Nat]
    /\ acked \cup redelivered \subseteq Queries
    /\ interruptions \in 0..MaxInterruptions

(* A query that reached the work queue of its domain is there or with one  *)
(* of its consumers, in one copy, until an answer was acknowledged.        *)
Places(q) ==
    Cardinality({i \in DOMAIN workQueue[DomainOf[q]] : workQueue[DomainOf[q]][i] = q})
      + Cardinality({n \in Nodes : q \in Held(jobs[n])})
OnePlace ==
    \A q \in Queries :
        /\ Places(q) <= 1
        /\ q \in acked => Places(q) = 0 /\ answers[q] > 0
        /\ (answers[q] > 0 \/ q \in redelivered) /\ q \notin acked => Places(q) = 1

(* The map of answers does not grow with the queries: what stays in it was *)
(* late, asked for by a process that has died since, or the second answer  *)
(* to a query that the broker had delivered again.                         *)
OnlyLateAnswersStay ==
    \A n \in Nodes : \A q \in responseMap[n] :
        /\ Asker[q] = n /\ ~IsLocal(q)
        /\ call[q] \in {"timedOut", "lost"} \/ (q \in redelivered /\ answers[q] > 1)

(* A query with a handler that is in a work queue is acknowledged if one   *)
(* of the consumers of the domain stays connected and is not stuck,        *)
(* whatever the other consumers of the same process are stuck with.        *)
Works(n, d) == n \in connected /\ d \in Serves[n] /\ \A j \in JobsOf(n, d) : j.phase # "stuck"
DomainsAreServed ==
    \A q \in Queries \ Unhandled :
        Places(q) = 1 ~> (q \in acked \/ \A n \in Nodes : ~Works(n, DomainOf[q]))
=============================================================================
