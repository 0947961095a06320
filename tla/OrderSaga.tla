----------------------------- MODULE OrderSaga -----------------------------
(***************************************************************************)
(* The demo application on one node with in-memory publishers, store and   *)
(* cache: an order withdraws funds from an account, a saga then takes the  *)
(* stock from an inventory, and compensates the account if that fails.     *)
(*                                                                         *)
(* Composed are the CommandBus and the EventBus, each the one worker of a  *)
(* publisher (PublisherCore), the SagaManager with ProcessOrderSaga and    *)
(* the cache, the event store with one account and one inventory, and the  *)
(* handlers.  An action is a piece of code between two awaits.             *)
(*                                                                         *)
(* Every order is for one unit at price 1.  The streams hold what follows  *)
(* the creation of the account with Funds and of the inventory with Stock. *)
(***************************************************************************)
EXTENDS Integers, FiniteSets, SequencesExt

CONSTANTS Orders,         (* each is the $correlationId of its command        *)
          Funds, Stock,
          NoCorrelation,  (* $correlationId is undefined                      *)
          Failures,       (* sets of event types whose handler the database   *)
                          (* may fail                                         *)
          FailingOrders   (* a bound: orders placed when handlers may fail    *)

EventTypes == {"OrderCreated", "FundsWithdrawn", "FundsWithdrawalFailed", "InventoryRemoved",
               "RollbackFundsWithdrawn", "RollbackOrderCreated"}

ASSUME FundsAssumption == Funds \in Nat /\ Stock \in Nat
ASSUME CorrelationAssumption == NoCorrelation \notin Orders
(* The events with a handler among the providers of the demo's modules.    *)
(* RollbackFundsWithdrawnHandler is a class that no module provides.       *)
OrderModule == {"OrderCreated", "RollbackOrderCreated"}
AccountModule == OrderModule \cup {"FundsWithdrawn"}
InventoryModule == {"InventoryRemoved"}
Handled == AccountModule \cup InventoryModule

ASSUME FailuresAssumption == Failures \subseteq SUBSET Handled /\ FailingOrders \subseteq Orders

Correlations == Orders \cup {NoCorrelation}
Event == [type : EventTypes, corr : Correlations]
Command == [type : {"RemoveInventory", "RollbackAccount"}, order : Orders, corr : Correlations]

Bus == INSTANCE PublisherCore
         WITH Messages <- Event \cup Command, Workers <- {"bus"}, Listeners <- {}

VARIABLES mayReject,          (* the set of Failures of this behaviour         *)
          account, inventory, (* the two streams of the event store            *)
          orderTable,         (* ids in the projection of orders               *)
          balanceTable,       (* the balance in the projection of the account  *)
          rollbacks,          (* correlations under which the cache has the    *)
                              (* rollback command of the account               *)
          commands, events,   (* the publishers of the two buses               *)
          placing,            (* the executeLocal of each CreateOrder command  *)
          commandWork,        (* the executeLocal of a command handed over     *)
          eventWork           (* the executeLocal of an event handed over      *)

vars == <<mayReject, account, inventory, orderTable, balanceTable, rollbacks, commands, events,
          placing, commandWork, eventWork>>

-----------------------------------------------------------------------------
(* An executeLocal in progress: where it awaits, how much of the stream    *)
(* its aggregate was built from, and the commands it is about to publish.  *)
Phases == {"new", "started", "merged", "handled", "rejected", "decided", "published"}
Work == [phase : Phases, view : Nat, todo : Seq(Command)]

Started == [phase |-> "started", view |-> 0, todo |-> <<>>]
Merge(w, stream) == [w EXCEPT !.phase = "merged", !.view = Len(stream)]
Decide(w, cs) == [w EXCEPT !.phase = "decided", !.todo = cs]
Reach(w, phase) == [w EXCEPT !.phase = phase]
View(stream, w) == SubSeq(stream, 1, w.view)

Has(stream, type, o) == \E i \in DOMAIN stream : stream[i] = [type |-> type, corr |-> o]
Count(stream, type) == Cardinality({i \in DOMAIN stream : stream[i].type = type})

(* The @Apply methods of AccountAggregate and InventoryAggregate, over a   *)
(* whole history.                                                          *)
Balance(stream) ==
    Funds - Count(stream, "FundsWithdrawn") + Count(stream, "RollbackFundsWithdrawn")
Quantity(stream) == Stock - Count(stream, "InventoryRemoved")
LiveOrders(stream) ==
    {o \in Orders : Has(stream, "OrderCreated", o) /\ ~Has(stream, "RollbackOrderCreated", o)}

(* The @Rollback methods of AccountAggregate.  The events they return have *)
(* no such method, nor has any event of an inventory.                      *)
RollbackOf == [OrderCreated |-> "RollbackOrderCreated", FundsWithdrawn |-> "RollbackFundsWithdrawn"]
HasRollback(type) == type \in DOMAIN RollbackOf

Correlated(stream, o) ==
    FoldLeft(LAMBDA es, e : IF e.corr = o THEN Append(es, e) ELSE es, <<>>, stream)

(* AggregateRoot.rollback throws before anything is applied if one of the  *)
(* correlated events has no @Rollback method ...                           *)
CanRollback(stream, o) ==
    \A i \in DOMAIN stream : stream[i].corr = o => HasRollback(stream[i].type)

(* ... and else applies a compensating event for each, the last one first. *)
Compensation(stream, o) ==
    LET es == Reverse(Correlated(stream, o))
    IN  [i \in DOMAIN es |-> [type |-> RollbackOf[es[i].type], corr |-> o]]

(* AggregateRoot.commit and MemoryStore.appendToStream: each event goes to *)
(* the stream and to the publisher before the next one.                    *)
PublishAll(p, ms) == FoldLeft(LAMBDA q, m : Bus!Enqueue(q, m), p, ms)

CommitToAccount(es) ==
    /\ account' = account \o es
    /\ events' = PublishAll(events, es)
    /\ UNCHANGED inventory

CommitToInventory(es) ==
    /\ inventory' = inventory \o es
    /\ events' = PublishAll(events, es)
    /\ UNCHANGED account

(* The one step of ProcessOrderSaga, and its rollback command. *)
SagaSteps == [OrderCreated |-> "RollbackAccount"]

(* Mutated form: the two halves of the key are swapped. *)
RollbackSagasSwapped(corr) ==
    IF corr \in rollbacks
    THEN <<[type |-> corr, order |-> corr, corr |-> NoCorrelation]>>
    ELSE <<>>

(* A new rollback command has the correlation it is to roll back as data,  *)
(* and no $correlationId yet.                                              *)
RollbackCommand(type, corr) == [type |-> type, order |-> corr, corr |-> NoCorrelation]

(* SagaManager.rollbackSagas: the rollback commands kept for a correlation.*)
RollbackSagas(corr) ==
    IF corr \in rollbacks THEN <<RollbackCommand(SagaSteps.OrderCreated, corr)>> ELSE <<>>

(* EventBus.executeLocal passes its $correlationId on to the commands.     *)
Correlate(cs, corr) == [i \in DOMAIN cs |-> [cs[i] EXCEPT !.corr = corr]]

-----------------------------------------------------------------------------
ReadyBus == [Bus!NewPublisher EXCEPT !.status = "IDLE", !.subs = {"bus"}, !.attached = {"bus"}]

Init ==
    /\ mayReject \in Failures
    /\ account = <<>> /\ inventory = <<>>
    /\ orderTable = {} /\ balanceTable = Funds
    /\ rollbacks = {}
    /\ commands = ReadyBus /\ events = ReadyBus
    /\ placing = [o \in Orders |-> Reach(Started, "new")]
    /\ commandWork = [c \in Command |-> Started]
    /\ eventWork = [e \in Event |-> Started]

-----------------------------------------------------------------------------
(* CommandBus.execute of a CreateOrder command.  Its domain is local, so   *)
(* the handler runs at once, beside whatever the worker of the bus does.   *)
PlaceOrder(o) ==
    /\ placing[o].phase = "new" /\ (mayReject = {} \/ o \in FailingOrders)
    /\ placing' = [placing EXCEPT ![o] = Merge(@, account)]
    /\ UNCHANGED <<mayReject, account, inventory, orderTable, balanceTable, rollbacks, commands, events,
                   commandWork, eventWork>>

(* CreateOrderHandler after mergeContext.  OrderCreated is applied before  *)
(* the balance is looked at, FundsWithdrawn after.                         *)
CreateOrder(o) ==
    /\ placing[o].phase = "merged"
    /\ IF Balance(View(account, placing[o])) - 1 < 0
       THEN /\ placing' = [placing EXCEPT ![o] = Reach(@, "rejected")]
            /\ UNCHANGED <<mayReject, account, inventory, events>>
       ELSE /\ CommitToAccount(<<[type |-> "OrderCreated", corr |-> o],
                                 [type |-> "FundsWithdrawn", corr |-> o]>>)
            /\ placing' = [placing EXCEPT ![o] = Reach(@, "published")]
    /\ UNCHANGED <<mayReject, orderTable, balanceTable, rollbacks, commands, commandWork, eventWork>>

(* The error path of CommandBus.executeLocal: first the rollback commands, *)
(* then the filter of the exception, which publishes one more event.       *)
OrderRollback(o) ==
    /\ placing[o].phase = "rejected"
    /\ placing' = [placing EXCEPT ![o] = Decide(@, RollbackSagas(o))]
    /\ UNCHANGED <<mayReject, account, inventory, orderTable, balanceTable, rollbacks, commands, events,
                   commandWork, eventWork>>

InvalidWithdrawalAmount(o) ==
    /\ placing[o].phase = "decided"
    /\ commands' = PublishAll(commands, placing[o].todo)
    /\ CommitToAccount(<<[type |-> "FundsWithdrawalFailed", corr |-> NoCorrelation]>>)
    /\ placing' = [placing EXCEPT ![o] = Reach(@, "published")]
    /\ UNCHANGED <<mayReject, orderTable, balanceTable, rollbacks, commandWork, eventWork>>

-----------------------------------------------------------------------------
(* CommandBus.executeLocal of a command c that the publisher handed over.  *)
MergeForCommand(c) ==
    /\ commandWork[c].phase = "started"
    /\ commandWork' = [commandWork EXCEPT ![c] =
                         Merge(@, IF c.type = "RemoveInventory" THEN inventory ELSE account)]
    /\ UNCHANGED <<mayReject, account, inventory, orderTable, balanceTable, rollbacks, commands, events,
                   placing, eventWork>>

(* Mutated form: the quantity is looked at before the event is applied. *)
RemoveInventoryUnchecked(c) ==
    /\ commandWork[c].phase = "merged" /\ c.type = "RemoveInventory"
    /\ IF Quantity(View(inventory, commandWork[c])) < 0
       THEN /\ commandWork' = [commandWork EXCEPT ![c] = Reach(@, "rejected")]
            /\ UNCHANGED <<mayReject, account, inventory, events>>
       ELSE /\ CommitToInventory(<<[type |-> "InventoryRemoved", corr |-> c.corr]>>)
            /\ commandWork' = [commandWork EXCEPT ![c] = Reach(@, "published")]
    /\ UNCHANGED <<mayReject, orderTable, balanceTable, rollbacks, commands, placing, eventWork>>

(* Mutated form: the last unit is never given away. *)
RemoveInventoryKeepsLast(c) ==
    /\ commandWork[c].phase = "merged" /\ c.type = "RemoveInventory"
    /\ IF Quantity(View(inventory, commandWork[c])) - 1 <= 0
       THEN /\ commandWork' = [commandWork EXCEPT ![c] = Reach(@, "rejected")]
            /\ UNCHANGED <<mayReject, account, inventory, events>>
       ELSE /\ CommitToInventory(<<[type |-> "InventoryRemoved", corr |-> c.corr]>>)
            /\ commandWork' = [commandWork EXCEPT ![c] = Reach(@, "published")]
    /\ UNCHANGED <<mayReject, orderTable, balanceTable, rollbacks, commands, placing, eventWork>>

(* RemoveInventoryHandler after mergeContext *)
RemoveInventory(c) ==
    /\ commandWork[c].phase = "merged" /\ c.type = "RemoveInventory"
    /\ IF Quantity(View(inventory, commandWork[c])) - 1 < 0
       THEN /\ commandWork' = [commandWork EXCEPT ![c] = Reach(@, "rejected")]
            /\ UNCHANGED <<mayReject, account, inventory, events>>
       ELSE /\ CommitToInventory(<<[type |-> "InventoryRemoved", corr |-> c.corr]>>)
            /\ commandWork' = [commandWork EXCEPT ![c] = Reach(@, "published")]
    /\ UNCHANGED <<mayReject, orderTable, balanceTable, rollbacks, commands, placing, eventWork>>

(* Mutated form: an event that cannot be rolled back is passed over. *)
RollbackAccountAgain(c) ==
    LET history == SelectSeq(View(account, commandWork[c]), LAMBDA e : HasRollback(e.type))
    IN  /\ commandWork[c].phase = "merged" /\ c.type = "RollbackAccount"
        /\ CommitToAccount(Compensation(history, c.order))
        /\ commandWork' = [commandWork EXCEPT ![c] = Reach(@, "published")]
        /\ UNCHANGED <<mayReject, orderTable, balanceTable, rollbacks, commands, placing, eventWork>>

(* RollbackAccountHandler after mergeContext *)
RollbackAccount(c) ==
    LET history == View(account, commandWork[c])
    IN  /\ commandWork[c].phase = "merged" /\ c.type = "RollbackAccount"
        /\ IF CanRollback(history, c.order)
           THEN /\ CommitToAccount(Compensation(history, c.order))
                /\ commandWork' = [commandWork EXCEPT ![c] = Reach(@, "published")]
           ELSE /\ commandWork' = [commandWork EXCEPT ![c] = Reach(@, "rejected")]
                /\ UNCHANGED <<mayReject, account, inventory, events>>
        /\ UNCHANGED <<mayReject, orderTable, balanceTable, rollbacks, commands, placing, eventWork>>

(* Mutated forms: the error is dropped; the rollback commands get the      *)
(* correlation of the command that failed, as those of EventBus do.        *)
CommandForgets(c) ==
    /\ commandWork[c].phase = "rejected"
    /\ commandWork' = [commandWork EXCEPT ![c] = Decide(@, <<>>)]
    /\ UNCHANGED <<mayReject, account, inventory, orderTable, balanceTable, rollbacks, commands, events,
                   placing, eventWork>>

CommandRollbackCorrelated(c) ==
    /\ commandWork[c].phase = "rejected"
    /\ commandWork' = [commandWork EXCEPT ![c] = Decide(@, Correlate(RollbackSagas(c.corr), c.corr))]
    /\ UNCHANGED <<mayReject, account, inventory, orderTable, balanceTable, rollbacks, commands, events,
                   placing, eventWork>>

(* The error path: no filter is registered for these exceptions. *)
CommandRollback(c) ==
    /\ commandWork[c].phase = "rejected"
    /\ commandWork' = [commandWork EXCEPT ![c] = Decide(@, RollbackSagas(c.corr))]
    /\ UNCHANGED <<mayReject, account, inventory, orderTable, balanceTable, rollbacks, commands, events,
                   placing, eventWork>>

CommandPublishes(c) ==
    /\ commandWork[c].phase = "decided"
    /\ commands' = PublishAll(commands, commandWork[c].todo)
    /\ commandWork' = [commandWork EXCEPT ![c] = Reach(@, "published")]
    /\ UNCHANGED <<mayReject, account, inventory, orderTable, balanceTable, rollbacks, events,
                   placing, eventWork>>

AcknowledgeCommand(r) ==
    /\ commandWork[r.msg].phase = "published"
    /\ commands' = Bus!Acknowledge(commands, r)
    /\ commandWork' = [commandWork EXCEPT ![r.msg] = Started]
    /\ UNCHANGED <<mayReject, account, inventory, orderTable, balanceTable, rollbacks, events,
                   placing, eventWork>>

-----------------------------------------------------------------------------
(* EventBus.executeLocal of an event e that the publisher handed over: its *)
(* handlers merge the aggregate, then save a projection.                   *)
MergeForEvent(e) ==
    /\ eventWork[e].phase = "started"
    /\ eventWork' = [eventWork EXCEPT ![e] =
                       Merge(@, IF e.type = "InventoryRemoved" THEN inventory ELSE account)]
    /\ UNCHANGED <<mayReject, account, inventory, orderTable, balanceTable, rollbacks, commands, events,
                   placing, commandWork>>

(* OrderCreatedHandler finds nothing to save if the order was rolled back, *)
(* RollbackOrderCreatedHandler nothing to remove if it was never saved:    *)
(* the repository rejects both.                                            *)
SavesOrder(e) == e.type = "OrderCreated" /\ e.corr \in LiveOrders(View(account, eventWork[e]))
RemovesOrder(e) == e.type = "RollbackOrderCreated" /\ e.corr \in orderTable
SavesBalance(e) == e.type = "FundsWithdrawn"
FindsOrder(e) == e.type \in {"OrderCreated", "RollbackOrderCreated"} => SavesOrder(e) \/ RemovesOrder(e)

HandlersResolve(e) ==
    /\ eventWork[e].phase = "merged" /\ FindsOrder(e)
    /\ orderTable' = IF SavesOrder(e) THEN orderTable \cup {e.corr}
                     ELSE IF RemovesOrder(e) THEN orderTable \ {e.corr} ELSE orderTable
    /\ balanceTable' = IF SavesBalance(e) THEN Balance(View(account, eventWork[e])) ELSE balanceTable
    /\ eventWork' = [eventWork EXCEPT ![e] = Reach(@, "handled")]
    /\ UNCHANGED <<mayReject, account, inventory, rollbacks, commands, events, placing, commandWork>>

HandlerRejects(e) ==
    /\ eventWork[e].phase = "merged" /\ (FindsOrder(e) => e.type \in mayReject)
    /\ eventWork' = [eventWork EXCEPT ![e] = Reach(@, "rejected")]
    /\ UNCHANGED <<mayReject, account, inventory, orderTable, balanceTable, rollbacks, commands, events,
                   placing, commandWork>>

(* ProcessOrderSaga.postOrderCreated *)
PostOrderCreated(e) ==
    IF e.type \in DOMAIN SagaSteps
    THEN <<[type |-> "RemoveInventory", order |-> e.corr, corr |-> e.corr]>>
    ELSE <<>>

(* Mutated form: the command is returned, but its rollback is not kept. *)
StoreNoRollback(e) == UNCHANGED rollbacks

(* Saga._storeRollbackCommand *)
StoreRollbackCommand(e) ==
    rollbacks' = IF PostOrderCreated(e) = <<>> THEN rollbacks ELSE rollbacks \cup {e.corr}

(* SagaManager.applyEventToSagas and Saga.process: the rollback command is *)
(* in the cache before the commands of the step are returned.              *)
ProcessEvent(e) ==
    /\ eventWork[e].phase = "handled"
    /\ StoreRollbackCommand(e)
    /\ eventWork' = [eventWork EXCEPT ![e] = Decide(@, PostOrderCreated(e))]
    /\ UNCHANGED <<mayReject, account, inventory, orderTable, balanceTable, commands, events,
                   placing, commandWork>>

EventRollback(e) ==
    /\ eventWork[e].phase = "rejected"
    /\ eventWork' = [eventWork EXCEPT ![e] = Decide(@, Correlate(RollbackSagas(e.corr), e.corr))]
    /\ UNCHANGED <<mayReject, account, inventory, orderTable, balanceTable, rollbacks, commands, events,
                   placing, commandWork>>

EventPublishes(e) ==
    /\ eventWork[e].phase = "decided"
    /\ commands' = PublishAll(commands, eventWork[e].todo)
    /\ eventWork' = [eventWork EXCEPT ![e] = Reach(@, "published")]
    /\ UNCHANGED <<mayReject, account, inventory, orderTable, balanceTable, rollbacks, events,
                   placing, commandWork>>

AcknowledgeEvent(r) ==
    /\ eventWork[r.msg].phase = "published"
    /\ events' = Bus!Acknowledge(events, r)
    /\ eventWork' = [eventWork EXCEPT ![r.msg] = Started]
    /\ UNCHANGED <<mayReject, account, inventory, orderTable, balanceTable, rollbacks, commands,
                   placing, commandWork>>

-----------------------------------------------------------------------------
HandleOrder(o) == CreateOrder(o) \/ OrderRollback(o) \/ InvalidWithdrawalAmount(o)

HandleCommand(r) ==
    \/ MergeForCommand(r.msg) \/ RemoveInventory(r.msg) \/ RollbackAccount(r.msg)
    \/ CommandRollback(r.msg) \/ CommandPublishes(r.msg) \/ AcknowledgeCommand(r)

HandleEvent(r) ==
    \/ MergeForEvent(r.msg) \/ HandlersResolve(r.msg) \/ HandlerRejects(r.msg)
    \/ ProcessEvent(r.msg) \/ EventRollback(r.msg) \/ EventPublishes(r.msg) \/ AcknowledgeEvent(r)

RunOrder == \E o \in Orders : HandleOrder(o)
RunCommand == \E r \in commands.running : HandleCommand(r)
RunEvent == \E r \in events.running : HandleEvent(r)

Next == RunOrder \/ RunCommand \/ RunEvent \/ \E o \in Orders : PlaceOrder(o)

Spec == Init /\ [][Next]_vars

(* Node resumes a promise that is settled, and the database answers: every *)
(* executeLocal that has begun goes on.                                    *)
FairSpec ==
    Spec /\ (\A o \in Orders : WF_vars(HandleOrder(o))) /\ WF_vars(RunCommand) /\ WF_vars(RunEvent)

-----------------------------------------------------------------------------
(* Every variable keeps its type. *)
TypeOK ==
    /\ mayReject \in Failures
    /\ account \in Seq(Event) /\ inventory \in Seq(Event)
    /\ orderTable \subseteq Orders /\ balanceTable \in Int
    /\ rollbacks \subseteq Orders
    /\ commands \in Bus!Publisher /\ events \in Bus!Publisher
    /\ placing \in [Orders -> Work]
    /\ commandWork \in [Command -> Work] /\ eventWork \in [Event -> Work]

(* No more is taken from an inventory than there was: the handler's check  *)
(* of the quantity it merged is sound because the command bus is the one   *)
(* worker of a publisher that hands over one command at a time.            *)
NeverOversold == Quantity(inventory) >= 0

(* Saga.process keeps the rollback command before it returns the command   *)
(* that may fail: while RemoveInventory of an order is on its way, the way *)
(* back is in the cache.                                                   *)
Pending(type) ==
    {o \in Orders : \/ \E i \in DOMAIN commands.queue : commands.queue[i].type = type /\ commands.queue[i].order = o
                    \/ \E r \in commands.running : r.msg.type = type /\ r.msg.order = o
                    \/ \E e \in Event : \E i \in DOMAIN eventWork[e].todo :
                          eventWork[e].todo[i].type = type /\ eventWork[e].todo[i].order = o}
WayBackIsKept == Pending("RemoveInventory") \subseteq rollbacks

(* However often the handlers of compensating events fail, and rollback    *)
(* commands are repeated for that, an order is compensated at most once.   *)
CompensatedOnce ==
    \A o \in Orders : \A type \in {"RollbackFundsWithdrawn", "RollbackOrderCreated"} :
        Cardinality({i \in DOMAIN account : account[i] = [type |-> type, corr |-> o]}) <= 1

(* When no handler fails and nothing is left to do, every order that       *)
(* withdrew funds has either got its unit or been compensated, and the     *)
(* projections show the streams: that of the account as long as no order   *)
(* has been compensated.                                                   *)
Quiescent ==
    /\ \A o \in Orders : placing[o].phase \in {"new", "published"}
    /\ \A p \in {commands, events} : p.running = {} /\ p.queue = <<>>

HalfDone(o) ==
    Has(account, "FundsWithdrawn", o)
      /\ (Has(inventory, "InventoryRemoved", o) <=> Has(account, "RollbackFundsWithdrawn", o))

AllOrNothing ==
    mayReject = {} /\ Quiescent =>
                 /\ \A o \in Orders : ~HalfDone(o)
                 /\ orderTable = LiveOrders(account)
                 /\ \/ balanceTable = Balance(account)
                    \/ \E o \in Orders : Has(account, "RollbackFundsWithdrawn", o)

(* The order's transaction, which the saga spreads over two streams: it is *)
(* kept as long as no handler of an event fails.                           *)
Outcome(o) ==
    CASE Has(account, "RollbackFundsWithdrawn", o) -> "cancelled"
      [] Has(inventory, "InventoryRemoved", o) -> "fulfilled"
      [] Has(account, "OrderCreated", o) /\ ~Has(account, "RollbackFundsWithdrawn", o)
                                         /\ ~Has(inventory, "InventoryRemoved", o) -> "open"
      [] ~Has(account, "OrderCreated", o) /\ placing[o].phase \in {"new", "merged"} -> "new"
      [] OTHER -> "refused"

Transaction == INSTANCE OrderTransaction
                 WITH outcome <- [o \in Orders |-> IF mayReject = {} THEN Outcome(o) ELSE "new"]

ImplementsTransaction == Transaction!Spec

(* The commands that failures cause come to an end: a rollback of what was *)
(* already rolled back throws, and its second failure has no correlation.  *)
BusesComeToRest == []<>Quiescent

(* account.spec.ts: "will fail if account would go to a negative balance". *)
NeverOverdrawn == Balance(account) >= 0

(* rollback-funds-deposited.handler.spec.ts has the account saved when     *)
(* withdrawn funds come back: at rest the projection shows the balance.    *)
BalanceIsShown == mayReject = {} /\ Quiescent => balanceTable = Balance(account)
=============================================================================
