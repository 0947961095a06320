------------------------------- MODULE Ledger -------------------------------
(***************************************************************************)
(* An account of the demo from the client's request to the event that the  *)
(* client sees, with TypeORMStore: the gateway, the command bus, the       *)
(* handlers of the account, the store, the event bus, the projection, the  *)
(* pub-sub engine and the web socket.                                      *)
(*                                                                         *)
(* In the monolith the gateway is the process of the account.  In the      *)
(* cluster it is not, and every set of processes with the same domains has *)
(* its own queue of events.  The publishers are taken for what             *)
(* MemoryPublisherProofs and RabbitPublisherProofs show of them where no   *)
(* process is started on a queue with messages: a process is handed one    *)
(* message at a time, and what a dead one held goes to another.            *)
(*                                                                         *)
(* An action is a piece of code between two awaits.  The database may      *)
(* reject any read and any save, of a handler's aggregate, of an event or  *)
(* of the projection's row; a save that is rejected has saved nothing.     *)
(* Every deposit and withdrawal is of 1.  An event is its place in the     *)
(* store.  What a handler has read is forgotten when it is not used again. *)
(***************************************************************************)
EXTENDS Integers, FiniteSets, SequencesExt

CONSTANTS Creation,      (* the request for the account: its stream's id     *)
          Deposits, Withdrawals,
          Gateway, Nodes,
          Deployments,   (* sets of processes with the account's handlers    *)
          Start,         (* the balance asked for a new account              *)
          MaxPosts, MaxPostsShared, MaxCrashes, MaxFailures

Requests == {Creation} \cup Deposits \cup Withdrawals

ASSUME RequestsAssumption ==
    /\ Creation \notin Deposits \cup Withdrawals /\ Deposits \cap Withdrawals = {}
    /\ IsFiniteSet(Requests)
ASSUME NodesAssumption ==
    /\ IsFiniteSet(Nodes) /\ Gateway \in Nodes /\ Deployments \subseteq SUBSET Nodes
    /\ \A d \in Deployments : d # {} /\ (Gateway \in d => d = {Gateway})
ASSUME BoundsAssumption ==
    {Start, MaxPosts, MaxPostsShared, MaxCrashes, MaxFailures} \subseteq Nat

VARIABLES accountants,   (* the processes of the account: a deployment       *)
          publisherType, (* the type of all publishers, and with it of the   *)
                         (* pub-sub engine                                   *)
          dead,          (* processes that have crashed                      *)
          store,         (* the event store                                  *)
          row,           (* how much of the stream the projection was saved  *)
                         (* from; 0 if there is no row                       *)
          work,          (* where each request's command is                  *)
          commandQueue,  (* the command publishers' queue of the domain      *)
          eventQueue,    (* the event publishers' queue of each group        *)
          eventWork,     (* the event that each process handles              *)
          rejected,      (* events whose handler has rejected                *)
          handled,       (* events that listenLocal's handlers have got      *)
          feed,          (* on the way from the pub-sub engine               *)
          subscribed,    (* the web socket has the client's subscription     *)
          seen,          (* the events that have come to the client          *)
          patient,       (* requests the client posted after it had seen the *)
                         (* account created                                  *)
          crashes

setup == <<accountants, publisherType>>
vars == <<setup, dead, store, row, work, commandQueue, eventQueue, eventWork, rejected, handled,
          feed, subscribed, seen, patient, crashes>>

-----------------------------------------------------------------------------
Local == Gateway \in accountants
Shared == Cardinality(accountants) > 1
InMemory == publisherType = "memory"

(* A cluster refuses to start with in-memory publishers.                   *)
PublisherTypes == IF Local THEN {"memory", "rabbitmq"} ELSE {"rabbitmq"}

(* A queue per set of domains: one for the processes of the account, and   *)
(* in the cluster one for the gateway, which has no handlers.              *)
Groups == {"account", "gateway"}

Kinds == {"AccountCreated", "FundsDeposited", "FundsWithdrawn", "FundsWithdrawalFailed"}
Event == [kind : Kinds, req : Requests]

CommandPhases ==
    {"new", "queued", "started", "merged", "stored", "published", "done", "failed", "stuck", "lost"}
CommandWork == [phase : CommandPhases, node : Nodes, view : Nat, event : Nat]
Idle == [phase |-> "idle", event |-> 0, view |-> 0]
EventPhases == {"idle", "taken", "merged", "handled", "published"}
EventWork == [phase : EventPhases, event : Nat, view : Nat]

InProgress(r) == work[r].phase \in {"started", "merged", "stored", "published", "stuck"}

(* The @Apply methods of AccountAggregate: the creation sets the balance;  *)
(* before it the balance is undefined and arithmetic on it gives NaN, the  *)
(* empty set here.                                                         *)
Change == [FundsDeposited |-> 1, FundsWithdrawn |-> -1, FundsWithdrawalFailed |-> 0]
Apply(balance, e) ==
    IF e.kind = "AccountCreated" THEN {Start} ELSE {b + Change[e.kind] : b \in balance}

Balance(stream) == FoldLeft(Apply, {}, stream)
View(n) == SubSeq(store, 1, n)
Exists(n) == \E i \in 1..n : store[i].kind = "AccountCreated"

(* The events with a handler that saves the projection. *)
Projects(i) == store[i].kind # "FundsWithdrawalFailed"

Init ==
    /\ accountants \in Deployments /\ publisherType \in PublisherTypes
    /\ dead = {}
    /\ store = <<>> /\ row = 0
    /\ work = [r \in Requests |-> [phase |-> "new", node |-> Gateway, view |-> 0, event |-> 0]]
    /\ commandQueue = <<>>
    /\ eventQueue = [g \in Groups |-> <<>>]
    /\ eventWork = [n \in Nodes |-> Idle]
    /\ rejected = {} /\ handled = {} /\ feed = {}
    /\ subscribed = FALSE /\ seen = {} /\ patient = {}
    /\ crashes = 0

(* The bound on what the database rejects.  An event before the creation   *)
(* may be rejected for want of a name, and is not counted.                 *)
DatabaseMayFail ==
    Cardinality({r \in Requests : work[r].phase \in {"failed", "stuck"}})
      + Cardinality({i \in rejected : Exists(i)}) < MaxFailures

-----------------------------------------------------------------------------
(* The client.  The answer to a post is a CommandResponse with the ids     *)
(* that CommandBus.execute has set, sent before anything is handled.       *)
HasResponse(r) == work[r].phase # "new"
SeesCreation == \E i \in seen : store[i].kind = "AccountCreated"

(* CommandBus.execute: a command of a local domain is started and not      *)
(* awaited, another is published.                                          *)
Execute(r) ==
    IF Local
    THEN work' = [work EXCEPT ![r].phase = "started"] /\ UNCHANGED commandQueue
    ELSE /\ work' = [work EXCEPT ![r].phase = "queued"]
         /\ commandQueue' = Append(commandQueue, r)

(* AccountController *)
Post(r) ==
    /\ ~HasResponse(r)
    /\ r = Creation \/ HasResponse(Creation)
    /\ Cardinality({q \in Requests : HasResponse(q)})
         < (IF Shared THEN MaxPostsShared ELSE MaxPosts)
    /\ Execute(r)
    /\ patient' = IF SeesCreation THEN patient \cup {r} ELSE patient
    /\ UNCHANGED <<setup, dead, store, row, eventQueue, eventWork, rejected, handled, feed,
                   subscribed, seen, crashes>>

(* With the answer the client knows the id, and subscribes to its events.  *)
Subscribe ==
    /\ ~subscribed /\ HasResponse(Creation)
    /\ subscribed' = TRUE
    /\ UNCHANGED <<setup, dead, store, row, work, commandQueue, eventQueue, eventWork, rejected,
                   handled, feed, seen, patient, crashes>>

-----------------------------------------------------------------------------
(* CommandBus.executeLocal with the command's handler. *)
TakeCommand(n) ==
    /\ ~Local /\ n \in accountants \ dead /\ commandQueue # <<>>
    /\ \A r \in Requests : InProgress(r) => work[r].node # n
    /\ work' = [work EXCEPT ![Head(commandQueue)].phase = "started", ![Head(commandQueue)].node = n]
    /\ commandQueue' = Tail(commandQueue)
    /\ UNCHANGED <<setup, dead, store, row, eventQueue, eventWork, rejected, handled, feed,
                   subscribed, seen, patient, crashes>>

MergeForCommand(r) ==
    /\ work[r].phase = "started"
    /\ work' = [work EXCEPT ![r].phase = "merged", ![r].view = Len(store)]
    /\ UNCHANGED <<setup, dead, store, row, commandQueue, eventQueue, eventWork, rejected,
                   handled, feed, subscribed, seen, patient, crashes>>

(* A mutant: the funds may go one below zero. *)
OverdrawsLate(r) ==
    r \in Withdrawals /\ \E b \in Balance(View(work[r].view)) : b < 0

(* WithdrawFundsHandler applies the event and looks at the balance, which  *)
(* is not less than 0 if it is NaN.                                        *)
Overdraws(r) ==
    r \in Withdrawals /\ \E b \in Balance(View(work[r].view)) : b - 1 < 0

(* A mutant: the events are counted from 0. *)
SaveFromZero(r, kind) ==
    /\ store' = Append(store, [kind |-> kind, req |-> r])
    /\ work' = [work EXCEPT ![r].phase = "stored", ![r].event = Len(store)]
    /\ UNCHANGED <<setup, dead, row, commandQueue, eventQueue, eventWork, rejected, handled,
                   feed, subscribed, seen, patient, crashes>>

(* AggregateRoot.commit, up to TypeORMStore's save of the event *)
Save(r, kind) ==
    /\ store' = Append(store, [kind |-> kind, req |-> r])
    /\ work' = [work EXCEPT ![r].phase = "stored", ![r].view = 0, ![r].event = Len(store) + 1]
    /\ UNCHANGED <<setup, dead, row, commandQueue, eventQueue, eventWork, rejected, handled,
                   feed, subscribed, seen, patient, crashes>>

(* A mutant: the creation is carried out again when it is done. *)
CreateAccountAgain ==
    work[Creation].phase \in {"merged", "done"} /\ Save(Creation, "AccountCreated")

CreateAccount == work[Creation].phase = "merged" /\ Save(Creation, "AccountCreated")
DepositFunds(r) == r \in Deposits /\ work[r].phase = "merged" /\ Save(r, "FundsDeposited")
WithdrawFunds(r) ==
    r \in Withdrawals /\ work[r].phase = "merged" /\ ~Overdraws(r) /\ Save(r, "FundsWithdrawn")

(* A mutant: no filter has been registered for the exception. *)
InvalidWithdrawalUnfiltered(r) ==
    /\ work[r].phase = "merged" /\ Overdraws(r)
    /\ work' = [work EXCEPT ![r].phase = IF Local THEN "done" ELSE "published", ![r].event = 0]
    /\ UNCHANGED <<setup, dead, store, row, commandQueue, eventQueue, eventWork, rejected,
                   handled, feed, subscribed, seen, patient, crashes>>

(* The handler threw: rollbackSagas finds no commands, and the filter of   *)
(* the exception publishes the failure, which goes through the store.      *)
InvalidWithdrawal(r) ==
    work[r].phase = "merged" /\ Overdraws(r) /\ Save(r, "FundsWithdrawalFailed")

(* The database rejects what the handler reads or saves.  The bus looks    *)
(* for rollback commands, finds none, and the command is over.  In the     *)
(* cluster it is not if that was the filter's event: nothing catches what  *)
(* the filter throws, and the command is never acknowledged.               *)
CommandRejects(r) ==
    /\ work[r].phase \in {"started", "merged"} /\ DatabaseMayFail
    /\ work' = [work EXCEPT ![r].phase =
         IF ~Local /\ work[r].phase = "merged" /\ Overdraws(r) THEN "stuck" ELSE "failed"]
    /\ UNCHANGED <<setup, dead, store, row, commandQueue, eventQueue, eventWork, rejected,
                   handled, feed, subscribed, seen, patient, crashes>>

(* The save is done: TypeORMStore publishes the event. *)
PublishEvent(r) ==
    /\ work[r].phase = "stored"
    /\ eventQueue' = [g \in Groups |-> IF Local /\ g = "gateway" THEN <<>>
                                       ELSE Append(eventQueue[g], work[r].event)]
    /\ work' = [work EXCEPT ![r].phase = IF Local THEN "done" ELSE "published", ![r].event = 0]
    /\ UNCHANGED <<setup, dead, store, row, commandQueue, eventWork, rejected, handled, feed,
                   subscribed, seen, patient, crashes>>

EndCommand(r) ==
    /\ work[r].phase = "published"
    /\ work' = [work EXCEPT ![r].phase = "done"]
    /\ UNCHANGED <<setup, dead, store, row, commandQueue, eventQueue, eventWork, rejected,
                   handled, feed, subscribed, seen, patient, crashes>>

-----------------------------------------------------------------------------
(* EventBus.executeLocal in process n.  A failed withdrawal has no handler. *)
TakeEvent(n) ==
    LET q == eventQueue["account"]
    IN  /\ n \in accountants \ dead /\ eventWork[n].phase = "idle" /\ q # <<>>
        /\ eventWork' = [eventWork EXCEPT ![n] =
             [phase |-> IF Projects(Head(q)) THEN "taken" ELSE "handled",
              event |-> Head(q), view |-> 0]]
        /\ eventQueue' = [eventQueue EXCEPT !["account"] = Tail(q)]
        /\ UNCHANGED <<setup, dead, store, row, work, commandQueue, rejected, handled, feed,
                       subscribed, seen, patient, crashes>>

(* The event's handler merges the aggregate ... *)
MergeForEvent(n) ==
    /\ eventWork[n].phase = "taken"
    /\ eventWork' = [eventWork EXCEPT ![n].phase = "merged", ![n].view = Len(store)]
    /\ UNCHANGED <<setup, dead, store, row, work, commandQueue, eventQueue, rejected, handled,
                   feed, subscribed, seen, patient, crashes>>

(* A mutant: the account as of the event is saved. *)
ProjectAsOfEvent(n) ==
    /\ eventWork[n].phase = "merged" /\ Exists(eventWork[n].view)
    /\ row' = eventWork[n].event
    /\ eventWork' = [eventWork EXCEPT ![n].phase = "handled", ![n].view = 0]
    /\ UNCHANGED <<setup, dead, store, work, commandQueue, eventQueue, rejected, handled, feed,
                   subscribed, seen, patient, crashes>>

(* ... and AccountService saves what it projects to.  Without its creation *)
(* an account has no name, which the row needs, and the save rejects.      *)
Project(n) ==
    /\ eventWork[n].phase = "merged" /\ Exists(eventWork[n].view)
    /\ row' = eventWork[n].view
    /\ eventWork' = [eventWork EXCEPT ![n].phase = "handled", ![n].view = 0]
    /\ UNCHANGED <<setup, dead, store, work, commandQueue, eventQueue, rejected, handled, feed,
                   subscribed, seen, patient, crashes>>

(* Or the database rejects one of the two, and with it the handler:        *)
(* rollbackSagas finds no commands, and the event goes on.                 *)
HandlerRejects(n) ==
    /\ eventWork[n].phase \in {"taken", "merged"}
    /\ DatabaseMayFail \/ (eventWork[n].phase = "merged" /\ ~Exists(eventWork[n].view))
    /\ rejected' = rejected \cup {eventWork[n].event}
    /\ eventWork' = [eventWork EXCEPT ![n].phase = "handled", ![n].view = 0]
    /\ UNCHANGED <<setup, dead, store, row, work, commandQueue, eventQueue, handled, feed,
                   subscribed, seen, patient, crashes>>

(* Rejected or not, the event goes to the local listeners and to the       *)
(* pub-sub engine, in-memory at once to the gateway's subject.             *)
Receive(i) == IF subscribed THEN {i} ELSE {}

(* A mutant: the handlers are not awaited. *)
IsHandledSoon(n) == eventWork[n].phase \in {"merged", "handled"}
IsHandled(n) == eventWork[n].phase = "handled"

Distribute(n) ==
    LET i == eventWork[n].event
    IN  /\ IsHandled(n)
        /\ handled' = handled \cup {i}
        /\ IF InMemory
           THEN seen' = seen \cup Receive(i) /\ UNCHANGED feed
           ELSE feed' = feed \cup {i} /\ UNCHANGED seen
        /\ eventWork' = [eventWork EXCEPT ![n] = IF InMemory THEN Idle
                                                 ELSE [@ EXCEPT !.phase = "published"]]
        /\ UNCHANGED <<setup, dead, store, row, work, commandQueue, eventQueue, rejected,
                       subscribed, patient, crashes>>

(* In the cluster the gateway's event bus does the same, with no handlers; *)
(* that the event comes back to it some time later adds nothing.           *)
Forward ==
    /\ eventQueue["gateway"] # <<>>
    /\ seen' = seen \cup Receive(Head(eventQueue["gateway"]))
    /\ eventQueue' = [eventQueue EXCEPT !["gateway"] = Tail(@)]
    /\ UNCHANGED <<setup, dead, store, row, work, commandQueue, eventWork, rejected, handled,
                   feed, subscribed, patient, crashes>>

EndEvent(n) ==
    /\ eventWork[n].phase = "published"
    /\ eventWork' = [eventWork EXCEPT ![n] = Idle]
    /\ UNCHANGED <<setup, dead, store, row, work, commandQueue, eventQueue, rejected, handled,
                   feed, subscribed, seen, patient, crashes>>

(* RabbitPubSubEngine hands an event to the gateway's subject, which keeps *)
(* nothing for who subscribes later.                                       *)
Deliver ==
    /\ \E i \in feed : feed' = feed \ {i} /\ seen' = seen \cup Receive(i)
    /\ UNCHANGED <<setup, dead, store, row, work, commandQueue, eventQueue, eventWork, rejected,
                   handled, subscribed, patient, crashes>>

-----------------------------------------------------------------------------
(* With in-memory publishers a process that dies and is started again has  *)
(* lost what was in its memory.                                            *)
Abandoned(phase, held) ==
    [r \in Requests |->
       IF r \in held THEN [work[r] EXCEPT !.phase = phase, !.view = 0, !.event = 0] ELSE work[r]]

CrashMonolith ==
    /\ InMemory /\ crashes < MaxCrashes
    /\ work' = Abandoned("lost", {r \in Requests : InProgress(r)})
    /\ eventQueue' = [g \in Groups |-> <<>>]
    /\ eventWork' = [n \in Nodes |-> Idle]
    /\ subscribed' = FALSE
    /\ crashes' = crashes + 1
    /\ UNCHANGED <<setup, dead, store, row, commandQueue, rejected, handled, feed, seen,
                   patient>>

(* What was not acknowledged goes back to the head of its queue. *)
Requeue(messages, queue) == messages \o queue

(* In the cluster another process of the account gets what it held.        *)
CrashAccountant(n) ==
    LET held == {r \in Requests : InProgress(r) /\ work[r].node = n}
    IN  /\ n \in accountants \ dead /\ accountants \ dead # {n} /\ crashes < MaxCrashes
        /\ dead' = dead \cup {n}
        /\ work' = Abandoned("queued", held)
        /\ commandQueue' = Requeue(SetToSeq(held), commandQueue)
        /\ eventQueue' = IF eventWork[n].phase = "idle" THEN eventQueue
                         ELSE [eventQueue EXCEPT !["account"] = Requeue(<<eventWork[n].event>>, @)]
        /\ eventWork' = [eventWork EXCEPT ![n] = Idle]
        /\ crashes' = crashes + 1
        /\ UNCHANGED <<setup, store, row, rejected, handled, feed, subscribed, seen, patient>>

-----------------------------------------------------------------------------
HandleCommand(r) ==
    \/ MergeForCommand(r) \/ DepositFunds(r) \/ WithdrawFunds(r) \/ InvalidWithdrawal(r)
    \/ (r = Creation /\ CreateAccount) \/ CommandRejects(r) \/ PublishEvent(r) \/ EndCommand(r)

HandleEvent(n) ==
    \/ TakeEvent(n) \/ MergeForEvent(n) \/ Project(n) \/ HandlerRejects(n)
    \/ Distribute(n) \/ EndEvent(n)

Next ==
    \/ \E r \in Requests : Post(r) \/ HandleCommand(r)
    \/ \E n \in Nodes : TakeCommand(n) \/ HandleEvent(n) \/ CrashAccountant(n)
    \/ Subscribe \/ Forward \/ Deliver \/ CrashMonolith

Spec == Init /\ [][Next]_vars

-----------------------------------------------------------------------------
(* Every variable keeps its type. *)
TypeOK ==
    /\ accountants \in Deployments /\ publisherType \in PublisherTypes /\ dead \subseteq accountants
    /\ store \in Seq(Event) /\ row \in 0..Len(store)
    /\ work \in [Requests -> CommandWork]
    /\ commandQueue \in Seq(Requests)
    /\ eventQueue \in [Groups -> Seq(1..Len(store))]
    /\ eventWork \in [Nodes -> EventWork]
    /\ rejected \cup handled \cup feed \cup seen \subseteq DOMAIN store
    /\ patient \subseteq Requests
    /\ subscribed \in BOOLEAN /\ crashes \in 0..MaxCrashes

(* With one process the row is never overwritten by an older state of the  *)
(* account, though a handler saves what it read some awaits ago.           *)
ProjectionNeverGoesBack == [][~Shared => row' >= row]_row

(* EventBus.listenLocal and listen are for "events post-processing".  What *)
(* is not in the projection then is an event whose handler rejected.  With *)
(* one process an event that has come to local listeners is in the         *)
(* projection, and in the monolith so is one that the client has seen.     *)
(* In the cluster it need not be: the gateway's event bus has no handler   *)
(* to wait for, and the client may be faster than the account's process.   *)
FindAccountById == row
Shows(i) == Projects(i) => FindAccountById >= i \/ i \in rejected
ListenIsPostProcessing == \A i \in seen : Shows(i)
SeenIsProjected ==
    ~Shared => (\A i \in handled : Shows(i)) /\ (Local => ListenIsPostProcessing)

(* At rest the projection shows the account as the stream has it, but for  *)
(* events whose handler rejected and, if a process with in-memory          *)
(* publishers has died, events that its event bus had not handled: those   *)
(* that it had saved and not published, and those that waited in its       *)
(* queue.  Nothing publishes either again.                                 *)
AtRest ==
    /\ \A r \in Requests : work[r].phase \in {"new", "done", "failed", "lost"}
    /\ commandQueue = <<>> /\ \A g \in Groups : eventQueue[g] = <<>>
    /\ \A n \in Nodes : eventWork[n].phase = "idle"
CaughtUp ==
    AtRest /\ ~Shared =>
      \A i \in DOMAIN store : Shows(i) \/ (InMemory /\ crashes > 0 /\ i \notin handled)

(* The creation sets the balance, so a deposit that is stored before it is *)
(* forgotten.  That happens to clients that do not wait for the event, and *)
(* when the broker has a crashed process's creation handled again.         *)
WaitingKeepsMoney ==
    \A i, j \in DOMAIN store :
        i < j /\ store[i].kind = "FundsDeposited" /\ store[j].kind = "AccountCreated" =>
          store[i].req \notin patient \/ dead # {}

(* A command that is done has left an event, and more than one only if the *)
(* broker had it handled again: then the money moves twice.  One that has  *)
(* failed, or has not come to its save, has left none but those of dead    *)
(* processes.                                                              *)
CarriedOutOnce ==
    \A r \in Requests :
        LET records == Cardinality({i \in DOMAIN store : store[i].req = r})
            saved == work[r].phase \in {"stored", "published", "done", "lost"}
        IN  /\ work[r].phase = "done" => records > 0
            /\ records <= Cardinality(dead) + IF saved THEN 1 ELSE 0

(* The handler's check of the balance is sound where commands come through *)
(* the publisher to one process.                                           *)
SerialNeverOverdrawn == ~Local /\ ~Shared => \A b \in Balance(store) : b >= 0

(* Nothing is left to do and a request that the client posted after it had *)
(* seen the account is without its event at the client: then the command   *)
(* has failed, of which the client hears nothing, or the process with the  *)
(* client's subscription died.                                             *)
PatientIsServed ==
    AtRest /\ feed = {} =>
      \A r \in patient : \/ \E i \in seen : store[i].req = r
                         \/ work[r].phase = "failed"
                         \/ InMemory /\ crashes > 0
=============================================================================
