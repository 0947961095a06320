---------------------------- MODULE LedgerProofs ----------------------------
(***************************************************************************)
(* Proofs about Ledger, for any requests, processes, deployments and       *)
(* number of crashes.  The balance is a fold over the stream, of which     *)
(* nothing is needed but for the last theorem: Overdraws is not expanded.  *)
(***************************************************************************)
EXTENDS Ledger, SequenceLemmas, FiniteSetTheorems

-----------------------------------------------------------------------------
(* Types.  A command knows its event from its save to its publication, and *)
(* a process the event that it handles.                                    *)
EventsAreStored ==
    /\ \A r \in Requests : work[r].phase = "stored" => work[r].event \in 1..Len(store)
    /\ \A n \in Nodes : eventWork[n].phase # "idle" => eventWork[n].event \in 1..Len(store)
    /\ \A n \in Nodes : eventWork[n].view <= Len(store)

(* TypeOK is proved in two parts, as no action changes the first but for   *)
(* the subscription.                                                       *)
SetupOK ==
    accountants \in Deployments /\ publisherType \in PublisherTypes /\ subscribed \in BOOLEAN
DataOK ==
    /\ dead \subseteq accountants
    /\ store \in Seq(Event) /\ row \in 0..Len(store)
    /\ work \in [Requests -> CommandWork]
    /\ commandQueue \in Seq(Requests)
    /\ eventQueue \in [Groups -> Seq(1..Len(store))]
    /\ eventWork \in [Nodes -> EventWork]
    /\ rejected \cup handled \cup feed \cup seen \subseteq DOMAIN store
    /\ patient \subseteq Requests
    /\ crashes \in 0..MaxCrashes

TypeInv == DataOK /\ EventsAreStored

(* What a process held is put into a sequence to be queued again. *)
LEMMA HeldIsASequence ==
    ASSUME NEW S \in SUBSET Requests
    PROVE  /\ SetToSeq(S) \in Seq(Requests)
           /\ \A k \in DOMAIN SetToSeq(S) :
                /\ SetToSeq(S)[k] \in S
                /\ \A l \in DOMAIN SetToSeq(S) : SetToSeq(S)[k] = SetToSeq(S)[l] => k = l
<1>1. IsFiniteSet(S)
  BY RequestsAssumption, FS_Subset
<1>2. Cardinality(S) \in Nat /\ ExistsBijection(1..Cardinality(S), S)
  BY <1>1, FS_CardinalityType
<1>3. \E f \in [1..Cardinality(S) -> S] : IsInjective(f)
  BY <1>2 DEF ExistsBijection, Bijection, Injection
<1>4. SetToSeq(S) \in [1..Cardinality(S) -> S] /\ IsInjective(SetToSeq(S))
  BY <1>3 DEF SetToSeq
<1> QED
  BY <1>2, <1>4 DEF IsInjective

LEMMA CommandFields ==
    ASSUME NEW w \in CommandWork, NEW phase \in CommandPhases, NEW n \in Nodes
    PROVE  /\ [w EXCEPT !.phase = phase] \in CommandWork
           /\ [w EXCEPT !.phase = phase, !.node = n] \in CommandWork
           /\ [w EXCEPT !.phase = phase, !.event = 0] \in CommandWork
           /\ [w EXCEPT !.phase = phase, !.view = 0, !.event = 0] \in CommandWork
BY DEF CommandWork

LEMMA HeadAndTail ==
    ASSUME NEW S, NEW q \in Seq(S), q # <<>>
    PROVE  Head(q) \in S /\ Tail(q) \in Seq(S)
OBVIOUS

LEMMA Appended == ASSUME NEW S, NEW q \in Seq(S), NEW e \in S PROVE Append(q, e) \in Seq(S)
OBVIOUS

LEMMA Joined == ASSUME NEW S, NEW p \in Seq(S), NEW q \in Seq(S) PROVE p \o q \in Seq(S)
OBVIOUS

LEMMA JoinedElements ==
    ASSUME NEW S, NEW p \in Seq(S), NEW q \in Seq(S), NEW k \in DOMAIN (p \o q)
    PROVE  /\ k \in Nat /\ Len(p) \in Nat
           /\ \/ k \in DOMAIN p /\ (p \o q)[k] = p[k]
              \/ k - Len(p) \in DOMAIN q /\ (p \o q)[k] = q[k - Len(p)]
OBVIOUS

LEMMA InitialTypes == Init => TypeInv
<1> SUFFICES ASSUME Init PROVE TypeInv
  OBVIOUS
<1>1. Creation \in Requests /\ Gateway \in Nodes /\ MaxCrashes \in Nat
  BY NodesAssumption, BoundsAssumption DEF Requests
<1>2. store = <<>> /\ store \in Seq(Event) /\ Len(store) = 0
  BY DEF Init
<1>3. work \in [Requests -> CommandWork] /\ \A r \in Requests : work[r].phase = "new"
  BY <1>1 DEF Init, CommandWork, CommandPhases
<1>4. eventQueue \in [Groups -> Seq(1..Len(store))] /\ commandQueue \in Seq(Requests)
  BY DEF Init
<1>5. /\ eventWork \in [Nodes -> EventWork]
      /\ \A n \in Nodes : eventWork[n].phase = "idle" /\ eventWork[n].view = 0
  BY DEF Init, EventWork, EventPhases, Idle
<1>6. DataOK
  BY <1>1, <1>2, <1>3, <1>4, <1>5 DEF Init, DataOK
<1> QED
  BY <1>2, <1>3, <1>5, <1>6 DEF TypeInv, EventsAreStored

(* What an action leaves of the store keeps the types of what points into  *)
(* it: the store only grows.                                               *)
LEMMA StoreGrows ==
    ASSUME TypeInv, NEW r \in Requests, NEW kind \in Kinds, Save(r, kind)
    PROVE  /\ store' \in Seq(Event) /\ Len(store') = Len(store) + 1
           /\ 1..Len(store) \subseteq 1..Len(store')
           /\ store'[Len(store')] = [kind |-> kind, req |-> r]
           /\ \A i \in 1..Len(store) : store'[i] = store[i]
<1>1. store \in Seq(Event) /\ [kind |-> kind, req |-> r] \in Event
  BY DEF TypeInv, DataOK, Event
<1> QED
  BY <1>1 DEF Save

LEMMA SaveTypes ==
    ASSUME TypeInv, NEW r \in Requests, NEW kind \in Kinds, Save(r, kind)
    PROVE  TypeInv'
<1>1. /\ store' \in Seq(Event) /\ Len(store') = Len(store) + 1
      /\ 1..Len(store) \subseteq 1..Len(store')
  BY StoreGrows
<1>2. Len(store) \in Nat
  BY DEF TypeInv, DataOK
<1>3. work' \in [Requests -> CommandWork]
  <2>1. work \in [Requests -> CommandWork] /\ Len(store) + 1 \in Nat
    BY <1>2 DEF TypeInv, DataOK
  <2> QED
    BY <2>1 DEF Save, CommandWork, CommandPhases
<1>4. eventQueue' \in [Groups -> Seq(1..Len(store'))]
  <2>1. ASSUME NEW q \in Seq(1..Len(store)) PROVE q \in Seq(1..Len(store'))
    BY <1>1
  <2> QED
    BY <2>1 DEF Save, TypeInv, DataOK
<1>5. /\ row' \in 0..Len(store')
      /\ rejected' \cup handled' \cup feed' \cup seen' \subseteq DOMAIN store'
  BY <1>1, <1>2 DEF Save, TypeInv, DataOK
<1>6. DataOK'
  BY <1>1, <1>3, <1>4, <1>5 DEF Save, TypeInv, DataOK, setup
<1>7. EventsAreStored'
  BY <1>1, <1>2 DEF Save, TypeInv, DataOK, EventsAreStored, CommandWork, EventWork
<1> QED
  BY <1>6, <1>7 DEF TypeInv

LEMMA ClientTypes ==
    ASSUME TypeInv, Subscribe \/ \E r \in Requests : Post(r) PROVE TypeInv'
<1>1. CASE Subscribe
  BY <1>1 DEF Subscribe, TypeInv, DataOK, EventsAreStored, setup
<1>2. ASSUME NEW r \in Requests, Post(r) PROVE TypeInv'
  <2>1. work' \in [Requests -> CommandWork] /\ commandQueue' \in Seq(Requests)
    <3>1. work \in [Requests -> CommandWork] /\ commandQueue \in Seq(Requests)
      BY DEF TypeInv, DataOK
    <3>2. \E phase \in CommandPhases : work' = [work EXCEPT ![r].phase = phase]
      BY <1>2 DEF Post, Execute, CommandPhases
    <3>3. commandQueue' = commandQueue \/ commandQueue' = Append(commandQueue, r)
      BY <1>2 DEF Post, Execute
    <3>4. work' \in [Requests -> CommandWork]
      BY <3>1, <3>2 DEF CommandWork
    <3> QED
      BY <3>1, <3>3, <3>4, Appended
  <2>2. \A q \in Requests : work'[q].phase = "stored" => work'[q] = work[q]
    BY <1>2 DEF Post, Execute, TypeInv, DataOK, CommandWork
  <2> QED
    BY <1>2, <2>1, <2>2 DEF Post, TypeInv, DataOK, EventsAreStored, setup
<1> QED
  BY <1>1, <1>2

LEMMA CommandTypes ==
    ASSUME TypeInv, NEW r \in Requests, NEW n \in Nodes, TakeCommand(n) \/ HandleCommand(r)
    PROVE  TypeInv'
<1> USE DEF TypeInv
<1>1. CASE TakeCommand(n)
  <2>1. Head(commandQueue) \in Requests /\ Tail(commandQueue) \in Seq(Requests)
    BY <1>1 DEF TakeCommand, DataOK
  <2>2. work' = [work EXCEPT ![Head(commandQueue)] =
                   [work[Head(commandQueue)] EXCEPT !.phase = "started", !.node = n]]
    BY <1>1, <2>1 DEF TakeCommand, DataOK
  <2>3. work' \in [Requests -> CommandWork]
    BY <2>1, <2>2, CommandFields DEF DataOK, CommandPhases
  <2>4. \A q \in Requests : work'[q].phase = "stored" => work'[q] = work[q]
    BY <2>1, <2>2 DEF DataOK, CommandWork
  <2> QED
    BY <1>1, <2>1, <2>3, <2>4 DEF TakeCommand, DataOK, EventsAreStored, setup
<1>2. CASE MergeForCommand(r)
  <2>1. Len(store) \in Nat /\ work \in [Requests -> CommandWork]
    BY DEF DataOK
  <2>2. work' \in [Requests -> CommandWork]
    BY <1>2, <2>1 DEF MergeForCommand, CommandWork, CommandPhases
  <2>3. \A q \in Requests : work'[q].phase = "stored" => work'[q] = work[q]
    BY <1>2, <2>1 DEF MergeForCommand, CommandWork
  <2> QED
    BY <1>2, <2>2, <2>3 DEF MergeForCommand, DataOK, EventsAreStored, setup
<1>3. CASE \E kind \in Kinds : Save(r, kind)
  BY <1>3, SaveTypes
<1>4. CASE PublishEvent(r)
  <2>1. work[r].event \in 1..Len(store)
    BY <1>4 DEF PublishEvent, EventsAreStored
  <2>2. eventQueue' \in [Groups -> Seq(1..Len(store))]
    <3>1. \A g \in Groups : eventQueue[g] \in Seq(1..Len(store)) /\ <<>> \in Seq(1..Len(store))
      BY DEF DataOK
    <3>2. \A g \in Groups : Append(eventQueue[g], work[r].event) \in Seq(1..Len(store))
      BY <2>1, <3>1, Appended, Zenon
    <3> QED
      BY <1>4, <3>1, <3>2, Zenon DEF PublishEvent
  <2>3. work' \in [Requests -> CommandWork]
    <3>1. PICK phase : phase = IF Local THEN "done" ELSE "published"
      OBVIOUS
    <3>2. work' = [work EXCEPT ![r] = [work[r] EXCEPT !.phase = phase, !.event = 0]]
      BY <1>4, <3>1 DEF PublishEvent, DataOK
    <3>3. phase \in CommandPhases
      BY <3>1 DEF CommandPhases
    <3> QED
      BY <3>2, <3>3, CommandFields DEF DataOK
  <2>4. \A q \in Requests : work'[q].phase = "stored" => work'[q] = work[q]
    BY <1>4 DEF PublishEvent, DataOK, CommandWork
  <2> QED
    BY <1>4, <2>2, <2>3, <2>4 DEF PublishEvent, DataOK, EventsAreStored, setup
<1>5. CASE EndCommand(r)
  BY <1>5 DEF EndCommand, DataOK, EventsAreStored, CommandWork, CommandPhases, setup
<1>6. CASE CommandRejects(r)
  <2>1. PICK phase \in {"stuck", "failed"} :
          work' = [work EXCEPT ![r] = [work[r] EXCEPT !.phase = phase]]
    BY <1>6 DEF CommandRejects, DataOK
  <2>2. work' \in [Requests -> CommandWork]
    BY <2>1, CommandFields DEF DataOK, CommandPhases
  <2>3. \A q \in Requests : work'[q].phase = "stored" => work'[q] = work[q]
    BY <2>1 DEF DataOK, CommandWork
  <2> QED
    BY <1>6, <2>2, <2>3 DEF CommandRejects, DataOK, EventsAreStored, setup
<1> QED
  BY <1>1, <1>2, <1>3, <1>4, <1>5, <1>6 DEF HandleCommand, DepositFunds, WithdrawFunds, InvalidWithdrawal,
     CreateAccount, Kinds

LEMMA EventTypes ==
    ASSUME TypeInv, NEW n \in Nodes, HandleEvent(n) \/ Forward \/ Deliver
    PROVE  TypeInv'
<1> USE DEF TypeInv
<1>1. CASE TakeEvent(n)
  <2>1. eventQueue["account"] \in Seq(1..Len(store)) /\ eventQueue["account"] # <<>>
    BY <1>1 DEF TakeEvent, DataOK, Groups
  <2>2. Head(eventQueue["account"]) \in 1..Len(store) /\ Tail(eventQueue["account"]) \in Seq(1..Len(store))
    BY <2>1, HeadAndTail
  <2>3. eventWork' \in [Nodes -> EventWork]
    BY <1>1, <2>2 DEF TakeEvent, DataOK, EventWork, EventPhases
  <2>4. eventQueue' \in [Groups -> Seq(1..Len(store))]
    BY <1>1, <2>2 DEF TakeEvent, DataOK, Groups
  <2> QED
    BY <1>1, <2>2, <2>3, <2>4 DEF TakeEvent, DataOK, EventsAreStored, setup
<1>2. CASE MergeForEvent(n)
  <2>1. Len(store) \in Nat /\ eventWork \in [Nodes -> EventWork]
    BY DEF DataOK
  <2>2. eventWork' \in [Nodes -> EventWork]
    BY <1>2, <2>1 DEF MergeForEvent, EventWork, EventPhases
  <2>3. /\ \A m \in Nodes : m # n => eventWork'[m] = eventWork[m]
        /\ eventWork'[n].event = eventWork[n].event /\ eventWork'[n].view = Len(store)
    BY <1>2, <2>1 DEF MergeForEvent, EventWork
  <2>4. EventsAreStored'
    BY <1>2, <2>1, <2>3 DEF MergeForEvent, EventsAreStored
  <2> QED
    BY <1>2, <2>2, <2>4 DEF MergeForEvent, DataOK, setup
<1>3. CASE Project(n)
  <2>1. row' \in 0..Len(store)
    BY <1>3 DEF Project, DataOK, EventsAreStored, EventWork
  <2>2. eventWork' \in [Nodes -> EventWork]
    BY <1>3 DEF Project, DataOK, EventWork, EventPhases
  <2> QED
    BY <1>3, <2>1, <2>2 DEF Project, DataOK, EventsAreStored, setup
<1>4. CASE Distribute(n)
  <2>1. eventWork[n].event \in 1..Len(store)
    BY <1>4 DEF Distribute, IsHandled, EventsAreStored
  <2>2. rejected' \cup handled' \cup feed' \cup seen' \subseteq DOMAIN store
    BY <1>4, <2>1 DEF Distribute, Receive, DataOK
  <2>3. eventWork' \in [Nodes -> EventWork]
    BY <1>4 DEF Distribute, Idle, DataOK, EventWork, EventPhases
  <2>4. \A m \in Nodes : eventWork'[m] = Idle \/ (eventWork'[m].event = eventWork[m].event
                          /\ eventWork'[m].view = eventWork[m].view /\ eventWork[m].phase # "idle")
                          \/ eventWork'[m] = eventWork[m]
    BY <1>4 DEF Distribute, IsHandled, DataOK, EventWork
  <2>5. EventsAreStored'
    <3>1. Len(store) \in Nat
      BY DEF DataOK
    <3>2. Idle.phase = "idle" /\ Idle.view = 0
      BY DEF Idle
    <3>3. UNCHANGED <<store, work>>
      BY <1>4, Zenon DEF Distribute
    <3> QED
      BY <2>4, <3>1, <3>2, <3>3 DEF EventsAreStored
  <2> QED
    BY <1>4, <2>2, <2>3, <2>5 DEF Distribute, DataOK, setup
<1>5. CASE EndEvent(n)
  BY <1>5 DEF EndEvent, Idle, DataOK, EventsAreStored, EventWork, EventPhases, setup
<1>6. CASE Forward
  <2>1. eventQueue["gateway"] \in Seq(1..Len(store)) /\ eventQueue["gateway"] # <<>>
    BY <1>6 DEF Forward, DataOK, Groups
  <2>2. Head(eventQueue["gateway"]) \in 1..Len(store) /\ Tail(eventQueue["gateway"]) \in Seq(1..Len(store))
    BY <2>1, HeadAndTail
  <2> QED
    BY <1>6, <2>2 DEF Forward, Receive, DataOK, EventsAreStored, setup, Groups
<1>7. CASE Deliver
  BY <1>7 DEF Deliver, Receive, DataOK, EventsAreStored, setup
<1>8. CASE HandlerRejects(n)
  <2>1. eventWork[n].event \in 1..Len(store)
    BY <1>8 DEF HandlerRejects, EventsAreStored
  <2>2. rejected' \cup handled' \cup feed' \cup seen' \subseteq DOMAIN store
    BY <1>8, <2>1 DEF HandlerRejects, DataOK
  <2>3. eventWork' \in [Nodes -> EventWork]
    BY <1>8 DEF HandlerRejects, DataOK, EventWork, EventPhases
  <2> QED
    BY <1>8, <2>2, <2>3 DEF HandlerRejects, DataOK, EventsAreStored, setup
<1> QED
  BY <1>1, <1>2, <1>3, <1>4, <1>5, <1>6, <1>7, <1>8 DEF HandleEvent

LEMMA CrashTypes ==
    ASSUME TypeInv, CrashMonolith \/ \E n \in Nodes : CrashAccountant(n) PROVE TypeInv'
<1> USE DEF TypeInv
<1>1. CASE CrashMonolith
  <2>1. work' \in [Requests -> CommandWork]
    BY <1>1 DEF CrashMonolith, Abandoned, DataOK, CommandWork, CommandPhases
  <2>2. \A q \in Requests : work'[q].phase = "stored" => work'[q] = work[q]
    BY <1>1 DEF CrashMonolith, Abandoned, DataOK, CommandWork
  <2>3. /\ eventQueue' \in [Groups -> Seq(1..Len(store))] /\ eventWork' \in [Nodes -> EventWork]
        /\ crashes' \in 0..MaxCrashes
    BY <1>1, BoundsAssumption DEF CrashMonolith, Idle, DataOK, EventWork, EventPhases
  <2>4. Len(store) \in Nat /\ \A n \in Nodes : eventWork'[n].phase = "idle" /\ eventWork'[n].view = 0
    BY <1>1 DEF CrashMonolith, Idle, DataOK
  <2>5. EventsAreStored'
    BY <1>1, <2>2, <2>4 DEF CrashMonolith, EventsAreStored
  <2> QED
    BY <1>1, <2>1, <2>3, <2>5 DEF CrashMonolith, DataOK, setup
<1>2. ASSUME NEW n \in Nodes, CrashAccountant(n) PROVE TypeInv'
  <2> DEFINE held == {r \in Requests : InProgress(r) /\ work[r].node = n}
  <2>8. work' = Abandoned("queued", held) /\ work \in [Requests -> CommandWork]
    BY <1>2 DEF CrashAccountant, DataOK
  <2>1. work' \in [Requests -> CommandWork]
    BY <2>8, CommandFields DEF Abandoned, CommandPhases
  <2>2. \A q \in Requests : work'[q].phase = "stored" => work'[q] = work[q]
    BY <2>8 DEF Abandoned, CommandWork
  <2>3. commandQueue' \in Seq(Requests)
    <3>1. SetToSeq(held) \in Seq(Requests)
      BY HeldIsASequence
    <3> QED
      BY <1>2, <3>1 DEF CrashAccountant, Requeue, DataOK
  <2>4. eventQueue' \in [Groups -> Seq(1..Len(store))]
    <3>1. CASE eventWork[n].phase = "idle"
      BY <1>2, <3>1 DEF CrashAccountant, DataOK
    <3>2. CASE eventWork[n].phase # "idle"
      <4>1. eventWork[n].event \in 1..Len(store) /\ eventQueue["account"] \in Seq(1..Len(store))
        BY <3>2 DEF EventsAreStored, DataOK, Groups
      <4>2. <<eventWork[n].event>> \o eventQueue["account"] \in Seq(1..Len(store))
        BY <4>1
      <4>3. eventQueue' = [eventQueue EXCEPT !["account"] = <<eventWork[n].event>> \o eventQueue["account"]]
        BY <1>2, <3>2 DEF CrashAccountant, Requeue
      <4> QED
        BY <4>2, <4>3 DEF DataOK
    <3> QED
      BY <3>1, <3>2
  <2>5. eventWork' \in [Nodes -> EventWork] /\ crashes' \in 0..MaxCrashes /\ dead' \subseteq accountants
    BY <1>2, BoundsAssumption DEF CrashAccountant, Idle, DataOK, EventWork, EventPhases
  <2>6. /\ Len(store) \in Nat /\ eventWork'[n].phase = "idle" /\ eventWork'[n].view = 0
        /\ \A m \in Nodes : m # n => eventWork'[m] = eventWork[m]
    BY <1>2 DEF CrashAccountant, Idle, DataOK
  <2>7. EventsAreStored'
    BY <1>2, <2>2, <2>6 DEF CrashAccountant, EventsAreStored
  <2> QED
    BY <1>2, <2>1, <2>3, <2>4, <2>5, <2>7 DEF CrashAccountant, DataOK, setup
<1> QED
  BY <1>1, <1>2

LEMMA TypesStay == TypeInv /\ [Next]_vars => TypeInv'
<1> SUFFICES ASSUME TypeInv, [Next]_vars PROVE TypeInv'
  OBVIOUS
<1>1. CASE UNCHANGED vars
  BY <1>1 DEF vars, setup, TypeInv, DataOK, EventsAreStored
<1>2. CASE Next
  <2>1. Gateway \in Nodes /\ Creation \in Requests
    BY NodesAssumption DEF Requests
  <2> QED
    BY <1>2, <2>1, ClientTypes, CommandTypes, EventTypes, CrashTypes DEF Next
<1> QED
  BY <1>1, <1>2

LEMMA SetupStays == SetupOK /\ [Next]_vars => SetupOK' /\ UNCHANGED setup
<1> SUFFICES ASSUME SetupOK, [Next]_vars PROVE SetupOK' /\ UNCHANGED setup
  OBVIOUS
<1>1. UNCHANGED setup
  BY Zenon DEF Next, vars, Post, HandleCommand, MergeForCommand, Save, DepositFunds, WithdrawFunds,
     InvalidWithdrawal, CommandRejects, CreateAccount, PublishEvent, EndCommand, TakeCommand,
     HandleEvent, TakeEvent, MergeForEvent, Project, HandlerRejects, Distribute, EndEvent,
     CrashAccountant, Subscribe, Forward, Deliver, CrashMonolith
<1>2. subscribed' = subscribed \/ subscribed' = TRUE \/ subscribed' = FALSE
  BY Zenon DEF Next, vars, Post, HandleCommand, MergeForCommand, Save, DepositFunds, WithdrawFunds,
     InvalidWithdrawal, CommandRejects, CreateAccount, PublishEvent, EndCommand, TakeCommand,
     HandleEvent, TakeEvent, MergeForEvent, Project, HandlerRejects, Distribute, EndEvent,
     CrashAccountant, Subscribe, Forward, Deliver, CrashMonolith
<1> QED
  BY <1>1, <1>2, Zenon DEF SetupOK, setup, PublisherTypes, Local

(* Every variable keeps its type. *)
THEOREM TypeCorrect == Spec => []TypeOK
<1>1. Init => SetupOK /\ TypeInv
  <2>1. Init => SetupOK
    BY Zenon DEF Init, SetupOK
  <2> QED
    BY <2>1, InitialTypes
<1>2. SetupOK /\ TypeInv => TypeOK
  BY Zenon DEF SetupOK, TypeInv, DataOK, TypeOK
<1> QED
  BY <1>1, <1>2, TypesStay, SetupStays, PTL DEF Spec

-----------------------------------------------------------------------------
(* The projection, with one process.  Between the reading of the account   *)
(* and the saving of its row nobody else writes the row; what has been     *)
(* handled shows in it, or its handler rejected; and in the monolith what  *)
(* the client has seen was handled.                                        *)
WorkInv ==
    /\ \A n \in Nodes : eventWork[n].phase # "idle" => n \in accountants
    /\ \A n \in Nodes : eventWork[n].phase = "merged"
         => eventWork[n].view >= eventWork[n].event /\ eventWork[n].view >= row
    /\ \A n \in Nodes : eventWork[n].phase \in {"handled", "published"} => Shows(eventWork[n].event)

HandledInv ==
    /\ \A i \in handled : Shows(i)
    /\ feed \subseteq handled

GatewayHas(i) ==
    i \in seen \/ \E k \in DOMAIN eventQueue["gateway"] : eventQueue["gateway"][k] = i

GatewayInv == Local => \A i \in 1..Len(store) : GatewayHas(i) => i \in handled

ProjectionInv == WorkInv /\ HandledInv /\ GatewayInv

LEMMA OneProcess ==
    ASSUME SetupOK, ~Shared, NEW m \in accountants, NEW n \in accountants PROVE m = n
<1>1. IsFiniteSet(accountants)
  BY NodesAssumption, FS_Subset DEF SetupOK
<1>2. Cardinality(accountants) \in Nat /\ ~(Cardinality(accountants) > 1)
  BY <1>1, FS_CardinalityType DEF Shared
<1>3. Cardinality(accountants) = 0 \/ Cardinality(accountants) = 1
  BY <1>2
<1> QED
  BY <1>1, <1>3, FS_EmptySet, FS_Singleton

LEMMA ShowsStays ==
    ASSUME TypeInv, \A j \in 1..Len(store) : store'[j] = store[j],
           row' \in Nat, row' >= row, rejected \subseteq rejected',
           NEW i \in 1..Len(store), Shows(i)
    PROVE  Shows(i)'
<1>1. Len(store) \in Nat /\ row \in Nat
  BY DEF TypeInv, DataOK
<1>2. Projects(i)' <=> Projects(i)
  BY DEF Projects
<1> QED
  BY <1>1, <1>2 DEF Shows, FindAccountById

(* Who only touches commands, or the client's subscription, keeps all. *)
LEMMA NothingOfEvents ==
    ASSUME SetupOK, TypeInv, ProjectionInv,
           UNCHANGED <<setup, row, rejected, eventWork, handled, feed, seen, eventQueue>>,
           Len(store') \in Nat, Len(store) <= Len(store'),
           \A j \in 1..Len(store) : store'[j] = store[j],
           TypeInv'
    PROVE  ProjectionInv'
<1>1. Len(store) \in Nat /\ row \in Nat /\ row' \in Nat /\ row' >= row
  BY DEF TypeInv, DataOK
<1>2. \A i \in 1..Len(store) : Shows(i) => Shows(i)'
  BY <1>1, ShowsStays
<1>3. WorkInv'
  BY <1>1, <1>2 DEF ProjectionInv, WorkInv, setup, TypeInv, EventsAreStored
<1>4. HandledInv'
  BY <1>1, <1>2 DEF ProjectionInv, HandledInv, TypeInv, DataOK
<1>5. GatewayInv'
  <2>1. \A i \in 1..Len(store') : GatewayHas(i)' => i \in 1..Len(store)
    BY DEF GatewayHas, TypeInv, DataOK, Groups
  <2> QED
    BY <2>1 DEF ProjectionInv, GatewayInv, GatewayHas, Local, setup
<1> QED
  BY <1>3, <1>4, <1>5 DEF ProjectionInv

LEMMA PublishKeeps ==
    ASSUME SetupOK, TypeInv, TypeInv', ProjectionInv, NEW r \in Requests, PublishEvent(r)
    PROVE  ProjectionInv'
<1>1. UNCHANGED <<setup, store, row, rejected, eventWork, handled, feed, seen>>
  BY DEF PublishEvent
<1>2. WorkInv' /\ HandledInv'
  BY <1>1 DEF ProjectionInv, WorkInv, HandledInv, setup, Shows, Projects, FindAccountById
<1>3. GatewayInv'
  <2>1. ASSUME Local, NEW i, GatewayHas(i)' PROVE i \in seen
    BY <1>1, <2>1 DEF PublishEvent, GatewayHas, Groups, TypeInv, DataOK
  <2> QED
    BY <1>1, <2>1 DEF ProjectionInv, GatewayInv, GatewayHas, Local, setup
<1> QED
  BY <1>2, <1>3 DEF ProjectionInv

LEMMA TakeEventKeeps ==
    ASSUME SetupOK, TypeInv, ProjectionInv, NEW n \in Nodes, TakeEvent(n)
    PROVE  ProjectionInv'
<1> DEFINE q == eventQueue["account"]
<1>1. UNCHANGED <<setup, store, row, rejected, handled, feed, seen>>
  BY DEF TakeEvent
<1>2. q \in Seq(1..Len(store)) /\ q # <<>>
  BY DEF TakeEvent, TypeInv, DataOK, Groups
<1>3. Head(q) \in 1..Len(store)
  BY <1>2, HeadAndTail
<1>4. /\ eventWork'[n].event = Head(q)
      /\ eventWork'[n].phase = IF Projects(Head(q)) THEN "taken" ELSE "handled"
      /\ \A m \in Nodes : m # n => eventWork'[m] = eventWork[m]
      /\ n \in accountants
  BY DEF TakeEvent, TypeInv, DataOK
<1>5. eventQueue'["gateway"] = eventQueue["gateway"]
  BY DEF TakeEvent, TypeInv, DataOK, Groups
<1>6. \A i : Shows(i)' <=> Shows(i)
  BY <1>1 DEF Shows, Projects, FindAccountById
<1>7. WorkInv'
  BY <1>1, <1>4, <1>6 DEF ProjectionInv, WorkInv, setup, Shows
<1>8. HandledInv'
  BY <1>1, <1>6 DEF ProjectionInv, HandledInv
<1>9. GatewayInv'
  BY <1>1, <1>5 DEF ProjectionInv, GatewayInv, GatewayHas, Local, setup
<1> QED
  BY <1>7, <1>8, <1>9 DEF ProjectionInv

LEMMA MergeKeeps ==
    ASSUME SetupOK, TypeInv, ProjectionInv, NEW n \in Nodes, MergeForEvent(n)
    PROVE  ProjectionInv'
<1>1. UNCHANGED <<setup, store, row, rejected, handled, feed, seen, eventQueue>>
  BY DEF MergeForEvent
<1>2. /\ eventWork[n].phase = "taken" /\ eventWork'[n].phase = "merged"
      /\ eventWork'[n].event = eventWork[n].event /\ eventWork'[n].view = Len(store)
      /\ \A m \in Nodes : m # n => eventWork'[m] = eventWork[m]
  BY DEF MergeForEvent, TypeInv, DataOK, EventWork
<1>3. eventWork[n].event \in 1..Len(store) /\ row \in 0..Len(store)
  BY <1>2 DEF TypeInv, DataOK, EventsAreStored
<1>4. \A i : Shows(i)' <=> Shows(i)
  BY <1>1 DEF Shows, Projects, FindAccountById
<1>5. WorkInv'
  BY <1>1, <1>2, <1>3, <1>4 DEF ProjectionInv, WorkInv, setup
<1>6. HandledInv' /\ GatewayInv'
  BY <1>1, <1>4 DEF ProjectionInv, HandledInv, GatewayInv, GatewayHas, Local, setup
<1> QED
  BY <1>5, <1>6 DEF ProjectionInv

(* The row that Project writes is not older than the one that is there.    *)
LEMMA RowGrows ==
    ASSUME TypeInv, WorkInv, NEW n \in Nodes, Project(n), NEW i, i = eventWork[n].event
    PROVE  row' \in Nat /\ row' >= row /\ Shows(i)'
<1>1. /\ eventWork[n].view \in Nat /\ row \in Nat /\ eventWork[n].event \in Nat
      /\ eventWork[n].view >= eventWork[n].event /\ eventWork[n].view >= row
  BY DEF Project, TypeInv, DataOK, EventWork, WorkInv
<1>2. row' = eventWork[n].view
  BY DEF Project
<1> QED
  BY <1>1, <1>2 DEF Shows, FindAccountById

LEMMA RowStays ==
    ASSUME TypeInv, ProjectionInv, [Next]_vars PROVE row' \in Nat /\ row' >= row
<1>1. row \in Nat
  BY DEF TypeInv, DataOK
<1>2. UNCHANGED row \/ \E n \in Nodes : Project(n)
  BY Zenon DEF Next, vars, Post, Subscribe, TakeCommand, HandleCommand, MergeForCommand, Save,
     CreateAccount, DepositFunds, WithdrawFunds, InvalidWithdrawal, CommandRejects, PublishEvent,
     EndCommand, HandleEvent, TakeEvent, MergeForEvent, HandlerRejects, Distribute, EndEvent,
     CrashAccountant, Forward, Deliver, CrashMonolith
<1> QED
  BY <1>1, <1>2, RowGrows DEF ProjectionInv

LEMMA ProjectKeeps ==
    ASSUME SetupOK, ~Shared, TypeInv, ProjectionInv, NEW n \in Nodes, Project(n)
    PROVE  ProjectionInv'
<1>1. UNCHANGED <<setup, store, rejected, handled, feed, seen, eventQueue>>
  BY DEF Project
<1>2. /\ eventWork[n].phase = "merged" /\ eventWork'[n].phase = "handled"
      /\ eventWork'[n].event = eventWork[n].event
      /\ \A m \in Nodes : m # n => eventWork'[m] = eventWork[m]
  BY DEF Project, TypeInv, DataOK, EventWork
<1>3. \A m \in Nodes : m # n => eventWork[m].phase = "idle"
  BY <1>2, OneProcess DEF ProjectionInv, WorkInv
<1>4. row' \in Nat /\ row' >= row /\ Len(store) \in Nat
  BY RowGrows DEF ProjectionInv, TypeInv, DataOK
<1>5. \A i \in 1..Len(store) : Shows(i) => Shows(i)'
  BY <1>1, <1>4, ShowsStays
<1>6. \A i : i = eventWork[n].event => Shows(i)'
  BY RowGrows DEF ProjectionInv
<1>7. WorkInv'
  BY <1>1, <1>2, <1>3, <1>6 DEF ProjectionInv, WorkInv, setup
<1>8. HandledInv'
  <2>1. handled \subseteq 1..Len(store)
    BY DEF TypeInv, DataOK
  <2> QED
    BY <1>1, <1>5, <2>1 DEF ProjectionInv, HandledInv
<1>9. GatewayInv'
  BY <1>1 DEF ProjectionInv, GatewayInv, GatewayHas, Local, setup
<1> QED
  BY <1>7, <1>8, <1>9 DEF ProjectionInv

LEMMA RejectKeeps ==
    ASSUME SetupOK, TypeInv, ProjectionInv, NEW n \in Nodes, HandlerRejects(n)
    PROVE  ProjectionInv'
<1>1. UNCHANGED <<setup, store, row, handled, feed, seen, eventQueue>>
  BY DEF HandlerRejects
<1>2. /\ eventWork[n].phase \in {"taken", "merged"} /\ eventWork'[n].phase = "handled"
      /\ eventWork'[n].event = eventWork[n].event
      /\ rejected' = rejected \cup {eventWork[n].event}
      /\ \A m \in Nodes : m # n => eventWork'[m] = eventWork[m]
  BY DEF HandlerRejects, TypeInv, DataOK, EventWork
<1>3. \A i : Shows(i) \/ i = eventWork[n].event => Shows(i)'
  BY <1>1, <1>2 DEF Shows, Projects, FindAccountById
<1>4. WorkInv'
  BY <1>1, <1>2, <1>3 DEF ProjectionInv, WorkInv, setup
<1>5. HandledInv' /\ GatewayInv'
  BY <1>1, <1>3 DEF ProjectionInv, HandledInv, GatewayInv, GatewayHas, Local, setup
<1> QED
  BY <1>4, <1>5 DEF ProjectionInv

LEMMA DistributeKeeps ==
    ASSUME SetupOK, TypeInv, ProjectionInv, NEW n \in Nodes, Distribute(n)
    PROVE  ProjectionInv'
<1> DEFINE e == eventWork[n].event
<1>1. UNCHANGED <<setup, store, row, rejected, eventQueue>>
  BY DEF Distribute
<1>2. handled' = handled \cup {e} /\ Shows(e)
  BY DEF Distribute, IsHandled, ProjectionInv, WorkInv
<1>3. /\ \/ eventWork'[n].phase = "idle"
         \/ (eventWork'[n].phase = "published" /\ eventWork'[n].event = e)
      /\ \A m \in Nodes : m # n => eventWork'[m] = eventWork[m]
      /\ n \in accountants
  BY DEF Distribute, IsHandled, Idle, TypeInv, DataOK, EventWork, ProjectionInv, WorkInv
<1>4. \A i : Shows(i)' <=> Shows(i)
  BY <1>1 DEF Shows, Projects, FindAccountById
<1>5. seen' \subseteq seen \cup {e} /\ feed' \subseteq feed \cup {e}
  BY DEF Distribute, Receive
<1>6. WorkInv'
  BY <1>1, <1>2, <1>3, <1>4 DEF ProjectionInv, WorkInv, setup
<1>7. HandledInv'
  BY <1>2, <1>4, <1>5 DEF ProjectionInv, HandledInv
<1>8. GatewayInv'
  BY <1>1, <1>2, <1>5 DEF ProjectionInv, GatewayInv, GatewayHas, Local, setup
<1> QED
  BY <1>6, <1>7, <1>8 DEF ProjectionInv

LEMMA EndEventKeeps ==
    ASSUME SetupOK, TypeInv, ProjectionInv, NEW n \in Nodes, EndEvent(n)
    PROVE  ProjectionInv'
<1>1. UNCHANGED <<setup, store, row, rejected, handled, feed, seen, eventQueue>>
  BY DEF EndEvent
<1>2. eventWork'[n].phase = "idle" /\ \A m \in Nodes : m # n => eventWork'[m] = eventWork[m]
  BY DEF EndEvent, Idle, TypeInv, DataOK
<1>3. \A i : Shows(i)' <=> Shows(i)
  BY <1>1 DEF Shows, Projects, FindAccountById
<1>4. WorkInv'
  BY <1>1, <1>2, <1>3 DEF ProjectionInv, WorkInv, setup
<1>5. HandledInv' /\ GatewayInv'
  BY <1>1, <1>3 DEF ProjectionInv, HandledInv, GatewayInv, GatewayHas, Local, setup
<1> QED
  BY <1>4, <1>5 DEF ProjectionInv

LEMMA GatewayKeeps ==
    ASSUME TypeInv, ProjectionInv, Forward \/ Deliver PROVE ProjectionInv'
<1>1. UNCHANGED <<setup, store, row, rejected, handled, eventWork>> /\ feed' \subseteq feed
  BY DEF Forward, Deliver
<1>2. \A i : GatewayHas(i)' => GatewayHas(i) \/ i \in handled
  <2>1. CASE Forward
    <3> DEFINE q == eventQueue["gateway"]
    <3>1. q \in Seq(1..Len(store)) /\ q # <<>> /\ eventQueue'["gateway"] = Tail(q)
      BY <2>1 DEF Forward, TypeInv, DataOK, Groups
    <3>2. seen' \subseteq seen \cup {Head(q)}
      BY <2>1 DEF Forward, Receive
    <3>3. q[1] = Head(q) /\ 1 \in DOMAIN q
      BY <3>1
    <3>4. \A k \in DOMAIN Tail(q) : k + 1 \in DOMAIN q /\ Tail(q)[k] = q[k + 1]
      BY <3>1
    <3> QED
      BY <3>1, <3>2, <3>3, <3>4 DEF GatewayHas
  <2>2. CASE Deliver
    BY <2>2 DEF Deliver, Receive, GatewayHas, ProjectionInv, HandledInv
  <2> QED
    BY <2>1, <2>2
<1>3. WorkInv' /\ HandledInv'
  BY <1>1 DEF ProjectionInv, WorkInv, HandledInv, setup, Shows, Projects, FindAccountById
<1>4. GatewayInv'
  BY <1>1, <1>2 DEF ProjectionInv, GatewayInv, Local, setup
<1> QED
  BY <1>3, <1>4 DEF ProjectionInv

LEMMA CrashKeeps ==
    ASSUME SetupOK, ~Shared, TypeInv, ProjectionInv,
           CrashMonolith \/ \E n \in Nodes : CrashAccountant(n)
    PROVE  ProjectionInv'
<1>1. ASSUME NEW n \in Nodes, CrashAccountant(n) PROVE FALSE
  BY <1>1, OneProcess DEF CrashAccountant
<1>2. CASE CrashMonolith
  <2>1. /\ UNCHANGED <<setup, store, row, rejected, handled, feed, seen>>
        /\ eventQueue'["gateway"] = <<>>
    BY <1>2 DEF CrashMonolith, Groups
  <2>2. \A n \in Nodes : eventWork'[n].phase = "idle"
    BY <1>2 DEF CrashMonolith, Idle
  <2>3. WorkInv'
    BY <2>2 DEF WorkInv
  <2>4. HandledInv'
    BY <2>1 DEF ProjectionInv, HandledInv, Shows, Projects, FindAccountById
  <2>5. GatewayInv'
    BY <2>1 DEF ProjectionInv, GatewayInv, GatewayHas, Local, setup
  <2> QED
    BY <2>3, <2>4, <2>5 DEF ProjectionInv
<1> QED
  BY <1>1, <1>2

LEMMA StoreSteps ==
    ASSUME [Next]_vars PROVE UNCHANGED store \/ \E r \in Requests, kind \in Kinds : Save(r, kind)
<1>1. Creation \in Requests /\ \A k \in {"AccountCreated", "FundsDeposited", "FundsWithdrawn",
                                        "FundsWithdrawalFailed"} : k \in Kinds
  BY DEF Requests, Kinds
<1> QED
  BY <1>1, Zenon DEF Next, vars, Post, HandleCommand, MergeForCommand, DepositFunds, WithdrawFunds,
     InvalidWithdrawal, CommandRejects, CreateAccount, PublishEvent, EndCommand, TakeCommand,
     HandleEvent, TakeEvent, MergeForEvent, Project, HandlerRejects, Distribute, EndEvent,
     CrashAccountant, Subscribe, Forward, Deliver, CrashMonolith

LEMMA StoreStays ==
    ASSUME TypeInv, [Next]_vars
    PROVE  /\ Len(store') \in Nat /\ Len(store) <= Len(store')
           /\ \A j \in 1..Len(store) : store'[j] = store[j]
<1>1. Len(store) \in Nat
  BY DEF TypeInv, DataOK
<1>2. CASE UNCHANGED store
  BY <1>1, <1>2
<1>3. CASE \E r \in Requests, kind \in Kinds : Save(r, kind)
  <2>1. PICK r \in Requests, kind \in Kinds : Save(r, kind)
    BY <1>3
  <2>2. Len(store') = Len(store) + 1 /\ \A j \in 1..Len(store) : store'[j] = store[j]
    BY <2>1, StoreGrows
  <2> QED
    BY <1>1, <2>2
<1> QED
  BY <1>2, <1>3, StoreSteps

LEMMA ProjectionStays ==
    ASSUME SetupOK, ~Shared, TypeInv, ProjectionInv, [Next]_vars PROVE ProjectionInv'
<1>1. TypeInv'
  BY TypesStay
<1>2. CASE UNCHANGED <<setup, row, rejected, eventWork, handled, feed, seen, eventQueue>>
  BY <1>1, <1>2, StoreStays, NothingOfEvents
<1>3. ASSUME NEW r \in Requests, PublishEvent(r) PROVE ProjectionInv'
  BY <1>1, <1>3, PublishKeeps
<1>4. ASSUME NEW n \in Nodes, HandleEvent(n) PROVE ProjectionInv'
  BY <1>4, TakeEventKeeps, MergeKeeps, ProjectKeeps, RejectKeeps, DistributeKeeps, EndEventKeeps
     DEF HandleEvent
<1>5. CASE Forward \/ Deliver
  BY <1>5, GatewayKeeps
<1>6. CASE CrashMonolith \/ \E n \in Nodes : CrashAccountant(n)
  BY <1>6, CrashKeeps
<1>7. \/ UNCHANGED <<setup, row, rejected, eventWork, handled, feed, seen, eventQueue>>
      \/ \E r \in Requests : PublishEvent(r)
      \/ \E n \in Nodes : HandleEvent(n)
      \/ Forward \/ Deliver \/ CrashMonolith \/ \E n \in Nodes : CrashAccountant(n)
  BY Zenon DEF Next, vars, Post, Subscribe, TakeCommand, HandleCommand, MergeForCommand, Save,
     CreateAccount, DepositFunds, WithdrawFunds, InvalidWithdrawal, CommandRejects, EndCommand
<1> QED
  BY <1>2, <1>3, <1>4, <1>5, <1>6, <1>7

IInv == SetupOK /\ TypeInv /\ (~Shared => ProjectionInv)

LEMMA InitialProjection == Init => IInv
<1> SUFFICES ASSUME Init PROVE IInv
  OBVIOUS
<1>1. SetupOK
  BY Zenon DEF Init, SetupOK
<1>2. store = <<>> /\ handled = {} /\ feed = {} /\ seen = {} /\ Len(store) = 0
  BY DEF Init
<1>3. \A n \in Nodes : eventWork[n].phase = "idle"
  BY DEF Init, Idle
<1>4. ProjectionInv
  BY <1>2, <1>3 DEF ProjectionInv, WorkInv, HandledInv, GatewayInv
<1> QED
  BY <1>1, <1>4, InitialTypes DEF IInv

LEMMA IInvStays == IInv /\ [Next]_vars => IInv' /\ (Shared' <=> Shared)
<1> SUFFICES ASSUME IInv, [Next]_vars PROVE IInv' /\ (Shared' <=> Shared)
  OBVIOUS
<1>1. SetupOK' /\ TypeInv' /\ accountants' = accountants
  BY SetupStays, TypesStay DEF IInv, setup
<1>2. Shared' <=> Shared
  BY <1>1 DEF Shared
<1>3. ~Shared => ProjectionInv'
  BY ProjectionStays DEF IInv
<1> QED
  BY <1>1, <1>2, <1>3 DEF IInv

(* With one process, an event that local listeners have got is in the      *)
(* projection unless its handler rejected, and in the monolith so is one   *)
(* that the client has seen.                                               *)
THEOREM ListenersSeeTheProjection == Spec => []SeenIsProjected
<1>1. IInv => SeenIsProjected
  <2> SUFFICES ASSUME IInv, ~Shared
               PROVE  /\ \A i \in handled : Shows(i)
                      /\ Local => \A i \in seen : Shows(i)
    BY DEF SeenIsProjected, ListenIsPostProcessing
  <2>1. seen \subseteq 1..Len(store)
    BY DEF IInv, TypeInv, DataOK
  <2> QED
    BY <2>1 DEF IInv, ProjectionInv, HandledInv, GatewayInv, GatewayHas
<1> QED
  BY <1>1, InitialProjection, IInvStays, PTL DEF Spec

(* With one process the projection is never overwritten by an older one.   *)
THEOREM RowsAreInOrder == Spec => ProjectionNeverGoesBack
<1>1. IInv /\ [Next]_vars => [~Shared => row' >= row]_row
  BY RowStays DEF IInv
<1> QED
  BY <1>1, InitialProjection, IInvStays, PTL DEF Spec, ProjectionNeverGoesBack

-----------------------------------------------------------------------------
(* Clients that wait.  A request is queued once; without a crash in the    *)
(* cluster it is carried out once, and the account is created once.        *)
IsCreation(i) == store[i].kind = "AccountCreated"

QueueInv ==
    \A k \in DOMAIN commandQueue :
        /\ work[commandQueue[k]].phase = "queued"
        /\ \A l \in DOMAIN commandQueue : commandQueue[k] = commandQueue[l] => k = l

CreationInv ==
    /\ \A i, j \in DOMAIN store : IsCreation(i) /\ IsCreation(j) => i = j
    /\ work[Creation].phase \in {"new", "queued", "started", "merged"}
         => \A i \in DOMAIN store : ~IsCreation(i)

PatientInv ==
    /\ \A i \in DOMAIN store : HasResponse(store[i].req)
    /\ patient # {} => \E i \in DOMAIN store : IsCreation(i)
    /\ \A j \in DOMAIN store : store[j].req \in patient
         => \E i \in DOMAIN store : i < j /\ IsCreation(i)

WaitingInv == CreationInv /\ PatientInv

LEMMA RecordedRequests ==
    ASSUME TypeInv
    PROVE  /\ Len(store) \in Nat /\ DOMAIN store = 1..Len(store)
           /\ \A i \in DOMAIN store : store[i].req \in Requests
<1>1. store \in Seq(Event)
  BY DEF TypeInv, DataOK
<1>2. \A i \in DOMAIN store : store[i] \in Event
  BY <1>1
<1> QED
  BY <1>1, <1>2 DEF Event

(* The other commands' work, and which phase the command of a step was in. *)
LEMMA CommandMoves ==
    ASSUME TypeInv, NEW r \in Requests, HandleCommand(r)
    PROVE  /\ UNCHANGED <<commandQueue, patient, dead, setup>>
           /\ work[r].phase \in {"started", "merged", "stored", "published"}
           /\ work'[r].phase \in {"merged", "stored", "published", "done", "failed", "stuck"}
           /\ \A q \in Requests : q # r => work'[q].phase = work[q].phase
           /\ work'[r].phase = "merged" => work[r].phase = "started" /\ UNCHANGED store
<1>1. work \in [Requests -> CommandWork]
  BY DEF TypeInv, DataOK
<1>2. CASE MergeForCommand(r)
  BY <1>1, <1>2 DEF MergeForCommand, CommandWork, setup
<1>3. CASE \E kind \in Kinds : work[r].phase = "merged" /\ Save(r, kind)
  BY <1>1, <1>3 DEF Save, CommandWork, setup
<1>4. CASE PublishEvent(r)
  BY <1>1, <1>4 DEF PublishEvent, CommandWork, setup
<1>5. CASE EndCommand(r)
  BY <1>1, <1>5 DEF EndCommand, CommandWork, setup
<1>6. CASE CommandRejects(r)
  BY <1>1, <1>6 DEF CommandRejects, CommandWork, setup
<1> QED
  BY <1>2, <1>3, <1>4, <1>5, <1>6 DEF HandleCommand, DepositFunds, WithdrawFunds, InvalidWithdrawal,
     CreateAccount, Kinds

LEMMA QueueKeptByCommand ==
    ASSUME TypeInv, QueueInv, NEW r \in Requests, HandleCommand(r) PROVE QueueInv'
<1>1. /\ UNCHANGED commandQueue /\ work[r].phase # "queued"
      /\ \A q \in Requests : q # r => work'[q].phase = work[q].phase
  BY CommandMoves
<1>2. \A k \in DOMAIN commandQueue : commandQueue[k] \in Requests /\ commandQueue[k] # r
  BY <1>1 DEF QueueInv, TypeInv, DataOK
<1> QED
  BY <1>1, <1>2 DEF QueueInv

LEMMA QueueKeptByTake ==
    ASSUME TypeInv, QueueInv, NEW n \in Nodes, TakeCommand(n) PROVE QueueInv'
<1> DEFINE r == Head(commandQueue)
<1>1. commandQueue \in Seq(Requests) /\ commandQueue # <<>> /\ work \in [Requests -> CommandWork]
  BY DEF TakeCommand, TypeInv, DataOK
<1>2. commandQueue' = Tail(commandQueue)
  BY DEF TakeCommand
<1>3. r \in Requests /\ r = commandQueue[1] /\ 1 \in DOMAIN commandQueue
  BY <1>1
<1>4. \A q \in Requests : q # r => work'[q].phase = work[q].phase
  BY <1>1, <1>3 DEF TakeCommand, CommandWork
<1>5. \A k \in DOMAIN Tail(commandQueue) :
        k + 1 \in DOMAIN commandQueue /\ k + 1 # 1 /\ Tail(commandQueue)[k] = commandQueue[k + 1]
  BY <1>1
<1>6. \A k \in DOMAIN Tail(commandQueue) : k \in Nat
  BY <1>1
<1>7. \A k \in DOMAIN commandQueue : commandQueue[k] \in Requests
  BY <1>1
<1>8. \A k, l \in DOMAIN commandQueue : commandQueue[k] = commandQueue[l] => k = l
  BY DEF QueueInv
<1>9. \A k \in DOMAIN commandQueue : work[commandQueue[k]].phase = "queued"
  BY DEF QueueInv
<1>10. \A k \in DOMAIN Tail(commandQueue) : work'[Tail(commandQueue)[k]].phase = "queued"
  BY <1>3, <1>4, <1>5, <1>7, <1>8, <1>9
<1>11. \A k, l \in DOMAIN Tail(commandQueue) : Tail(commandQueue)[k] = Tail(commandQueue)[l] => k = l
  BY <1>5, <1>6, <1>8
<1> QED
  BY <1>2, <1>10, <1>11 DEF QueueInv

LEMMA QueueKeptByPost ==
    ASSUME TypeInv, QueueInv, NEW r \in Requests, Post(r) PROVE QueueInv'
<1>1. commandQueue \in Seq(Requests) /\ work \in [Requests -> CommandWork]
  BY DEF TypeInv, DataOK
<1>2. work[r].phase = "new"
  BY DEF Post, HasResponse
<1>3. /\ \/ work'[r].phase = "started" /\ commandQueue' = commandQueue
         \/ work'[r].phase = "queued" /\ commandQueue' = Append(commandQueue, r)
      /\ \A q \in Requests : q # r => work'[q].phase = work[q].phase
  BY <1>1 DEF Post, Execute, CommandWork
<1>4. \A k \in DOMAIN commandQueue : commandQueue[k] \in Requests /\ commandQueue[k] # r
  BY <1>1, <1>2 DEF QueueInv
<1>5. CASE commandQueue' = commandQueue
  BY <1>3, <1>4, <1>5 DEF QueueInv
<1>6. CASE work'[r].phase = "queued" /\ commandQueue' = Append(commandQueue, r)
  <2>1. \A k \in DOMAIN commandQueue' :
          \/ k \in DOMAIN commandQueue /\ commandQueue'[k] = commandQueue[k]
          \/ k = Len(commandQueue) + 1 /\ commandQueue'[k] = r
    BY <1>1, <1>6
  <2> QED
    BY <1>3, <1>4, <1>6, <2>1 DEF QueueInv
<1> QED
  BY <1>3, <1>5, <1>6

LEMMA QueueKeptByCrash ==
    ASSUME TypeInv, QueueInv, NEW n \in Nodes, CrashAccountant(n) PROVE QueueInv'
<1>1. PICK held \in SUBSET Requests :
        /\ \A r \in held : InProgress(r)
        /\ work' = Abandoned("queued", held)
        /\ commandQueue' = SetToSeq(held) \o commandQueue
  BY DEF CrashAccountant, Requeue
<1> DEFINE s == SetToSeq(held)
<1>2. /\ s \in Seq(Requests) /\ commandQueue \in Seq(Requests)
      /\ \A k \in DOMAIN s : s[k] \in held /\ \A l \in DOMAIN s : s[k] = s[l] => k = l
      /\ \A k \in DOMAIN commandQueue : commandQueue[k] \in Requests
  BY HeldIsASequence DEF TypeInv, DataOK
<1>3. /\ \A r \in held : work'[r].phase = "queued"
      /\ \A r \in Requests : r \notin held => work'[r].phase = work[r].phase
  BY <1>1 DEF Abandoned, TypeInv, DataOK, CommandWork
<1>4. /\ \A k \in DOMAIN commandQueue : work[commandQueue[k]].phase = "queued"
      /\ \A k, l \in DOMAIN commandQueue : commandQueue[k] = commandQueue[l] => k = l
  BY DEF QueueInv
<1>5. \A k \in DOMAIN commandQueue : commandQueue[k] \notin held
  BY <1>1, <1>4 DEF InProgress
<1>6. \A k \in DOMAIN commandQueue' :
        /\ k \in Nat /\ Len(s) \in Nat
        /\ \/ k \in DOMAIN s /\ commandQueue'[k] = s[k]
           \/ k - Len(s) \in DOMAIN commandQueue /\ commandQueue'[k] = commandQueue[k - Len(s)]
  BY <1>1, <1>2, JoinedElements
<1>7. \A k \in DOMAIN commandQueue' : work'[commandQueue'[k]].phase = "queued"
  BY <1>2, <1>3, <1>4, <1>5, <1>6
<1>8. ASSUME NEW k \in DOMAIN commandQueue', NEW l \in DOMAIN commandQueue',
             commandQueue'[k] = commandQueue'[l]
      PROVE  k = l
  <2>1. CASE k \in DOMAIN s /\ commandQueue'[k] = s[k]
    <3>1. l \in DOMAIN s /\ commandQueue'[l] = s[l]
      BY <1>2, <1>5, <1>6, <1>8, <2>1
    <3> QED
      BY <1>2, <1>8, <2>1, <3>1
  <2>2. CASE k - Len(s) \in DOMAIN commandQueue /\ commandQueue'[k] = commandQueue[k - Len(s)]
    <3>1. l - Len(s) \in DOMAIN commandQueue /\ commandQueue'[l] = commandQueue[l - Len(s)]
      BY <1>2, <1>5, <1>6, <1>8, <2>2
    <3>2. k - Len(s) = l - Len(s)
      BY <1>4, <1>8, <2>2, <3>1
    <3> QED
      BY <1>6, <3>2
  <2> QED
    BY <1>6, <2>1, <2>2
<1> QED
  BY <1>7, <1>8 DEF QueueInv

LEMMA QueueStays == ASSUME TypeInv, QueueInv, [Next]_vars PROVE QueueInv'
<1>1. CASE UNCHANGED <<work, commandQueue>>
  BY <1>1 DEF QueueInv
<1>2. CASE CrashMonolith
  <2>1. /\ UNCHANGED commandQueue
        /\ \A q \in Requests : InProgress(q) \/ work'[q].phase = work[q].phase
    BY <1>2 DEF CrashMonolith, Abandoned, TypeInv, DataOK, CommandWork
  <2>2. \A k \in DOMAIN commandQueue : commandQueue[k] \in Requests
    BY DEF TypeInv, DataOK
  <2> QED
    BY <2>1, <2>2 DEF QueueInv, InProgress
<1>3. \/ UNCHANGED <<work, commandQueue>>
      \/ CrashMonolith
      \/ \E r \in Requests : Post(r) \/ HandleCommand(r)
      \/ \E n \in Nodes : TakeCommand(n) \/ CrashAccountant(n)
  BY Zenon DEF Next, vars, Subscribe, HandleEvent, TakeEvent, MergeForEvent, Project,
     HandlerRejects, Distribute, EndEvent, Forward, Deliver
<1> QED
  BY <1>1, <1>2, <1>3, QueueKeptByPost, QueueKeptByCommand, QueueKeptByTake, QueueKeptByCrash

LEMMA CommandKeeps ==
    ASSUME TypeInv, WaitingInv, NEW r \in Requests, HandleCommand(r) PROVE WaitingInv'
<1>1. /\ UNCHANGED <<commandQueue, patient>>
      /\ work[r].phase \in {"started", "merged", "stored", "published"}
      /\ work'[r].phase \in {"merged", "stored", "published", "done", "failed", "stuck"}
      /\ \A q \in Requests : q # r => work'[q].phase = work[q].phase
      /\ work'[r].phase = "merged" => work[r].phase = "started" /\ UNCHANGED store
  BY CommandMoves
<1>2. commandQueue \in Seq(Requests) /\ Len(store) \in Nat /\ DOMAIN store = 1..Len(store)
      /\ \A i \in DOMAIN store : store[i].req \in Requests
  BY RecordedRequests DEF TypeInv, DataOK
<1>4. \A q \in Requests : HasResponse(q) => HasResponse(q)'
  BY <1>1 DEF HasResponse
<1>5. Creation \in Requests
  BY DEF Requests
<1>6. CASE UNCHANGED store
  <2>1. CreationInv'
    BY <1>1, <1>5, <1>6 DEF WaitingInv, CreationInv, IsCreation
  <2>2. PatientInv'
    BY <1>1, <1>2, <1>4, <1>6 DEF WaitingInv, PatientInv, IsCreation
  <2> QED
    BY <2>1, <2>2 DEF WaitingInv
<1>7. ASSUME NEW kind \in Kinds, Save(r, kind), work[r].phase = "merged",
             kind = "AccountCreated" => r = Creation, NEW last, last = Len(store) + 1
      PROVE  WaitingInv'
  <2>1. /\ Len(store') = last /\ store' \in Seq(Event)
        /\ store'[last] = [kind |-> kind, req |-> r]
        /\ \A i \in 1..Len(store) : store'[i] = store[i]
    BY <1>7, StoreGrows
  <2>2. /\ DOMAIN store' = 1..last
        /\ \A i \in 1..last : i \in 1..Len(store) \/ i = last
        /\ \A i \in 1..Len(store) : i \in 1..last /\ i < last
        /\ last \in 1..last
        /\ store'[last].kind = kind /\ store'[last].req = r
    BY <1>2, <1>7, <2>1
  <2>9. /\ IsCreation(last)' <=> kind = "AccountCreated"
        /\ \A i \in 1..Len(store) : IsCreation(i)' <=> IsCreation(i)
    BY <2>1, <2>2 DEF IsCreation
  <2>3. work'[r].phase = "stored"
    BY <1>7 DEF Save, TypeInv, DataOK, CommandWork
  <2>4. CreationInv'
    <3>1. kind = "AccountCreated" => \A i \in 1..Len(store) : ~IsCreation(i)
      BY <1>2, <1>7 DEF WaitingInv, CreationInv
    <3>2. work'[Creation].phase \in {"new", "queued", "started", "merged"}
            => r # Creation /\ \A i \in 1..Len(store) : ~IsCreation(i)
      BY <1>1, <1>2, <1>5, <2>3 DEF WaitingInv, CreationInv
    <3>3. \A i, j \in 1..Len(store) : IsCreation(i) /\ IsCreation(j) => i = j
      BY <1>2 DEF WaitingInv, CreationInv
    <3>4. \A i, j \in 1..last : IsCreation(i)' /\ IsCreation(j)' => i = j
      BY <2>2, <2>9, <3>1, <3>3
    <3>5. work'[Creation].phase \in {"new", "queued", "started", "merged"}
            => \A i \in 1..last : ~IsCreation(i)'
      BY <1>7, <2>2, <2>9, <3>2
    <3> QED
      BY <2>2, <3>4, <3>5 DEF CreationInv
  <2>5. PatientInv'
    <3>1. \A i \in 1..last : HasResponse(store[i].req)'
      <4>1. \A i \in 1..Len(store) : store[i].req \in Requests /\ work[store[i].req].phase # "new"
        BY <1>2 DEF WaitingInv, PatientInv, HasResponse
      <4>2. \A i \in 1..Len(store) : work'[store'[i].req].phase # "new"
        BY <1>1, <2>1, <4>1
      <4>3. work'[store'[last].req].phase # "new"
        BY <2>2, <2>3
      <4> QED
        BY <2>2, <4>2, <4>3 DEF HasResponse
    <3>2. patient # {} => \E i \in 1..Len(store) : IsCreation(i)
      BY <1>2 DEF WaitingInv, PatientInv
    <3>3. \A j \in 1..Len(store) : store[j].req \in patient
            => \E i \in 1..Len(store) : i < j /\ IsCreation(i)
      BY <1>2 DEF WaitingInv, PatientInv
    <3>4. \A j \in 1..last : store'[j].req \in patient
            => \E i \in 1..last : i < j /\ IsCreation(i)'
      BY <2>1, <2>2, <2>9, <3>2, <3>3
    <3>5. patient # {} => \E i \in 1..last : IsCreation(i)'
      BY <2>2, <2>9, <3>2
    <3> QED
      BY <1>1, <2>2, <3>1, <3>4, <3>5 DEF PatientInv
  <2> QED
    BY <2>4, <2>5 DEF WaitingInv
<1>8. \/ UNCHANGED store
      \/ \E kind \in Kinds : /\ Save(r, kind) /\ work[r].phase = "merged"
                             /\ kind = "AccountCreated" => r = Creation
  <2>1. "AccountCreated" \in Kinds /\ "FundsDeposited" \in Kinds /\ "FundsWithdrawn" \in Kinds
        /\ "FundsWithdrawalFailed" \in Kinds
    BY DEF Kinds
  <2>2. CASE MergeForCommand(r) \/ CommandRejects(r) \/ PublishEvent(r) \/ EndCommand(r)
    BY <2>2 DEF MergeForCommand, CommandRejects, PublishEvent, EndCommand
  <2>3. CASE r = Creation /\ CreateAccount
    BY <2>1, <2>3 DEF CreateAccount
  <2>4. CASE DepositFunds(r) \/ WithdrawFunds(r) \/ InvalidWithdrawal(r)
    BY <2>1, <2>4 DEF DepositFunds, WithdrawFunds, InvalidWithdrawal
  <2> QED
    BY <2>2, <2>3, <2>4 DEF HandleCommand
<1> QED
  BY <1>6, <1>7, <1>8

LEMMA TakeCommandKeeps ==
    ASSUME TypeInv, QueueInv, WaitingInv, NEW n \in Nodes, TakeCommand(n) PROVE WaitingInv'
<1> DEFINE r == Head(commandQueue)
<1>1. commandQueue \in Seq(Requests) /\ commandQueue # <<>> /\ work \in [Requests -> CommandWork]
  BY DEF TakeCommand, TypeInv, DataOK
<1>2. UNCHANGED <<store, patient>> /\ commandQueue' = Tail(commandQueue)
  BY DEF TakeCommand
<1>3. r \in Requests /\ r = commandQueue[1] /\ 1 \in DOMAIN commandQueue
  BY <1>1
<1>4. work'[r].phase = "started" /\ \A q \in Requests : q # r => work'[q].phase = work[q].phase
  BY <1>1, <1>3 DEF TakeCommand, CommandWork
<1>5. work[r].phase = "queued"
  BY <1>3 DEF QueueInv
<1>6. CreationInv'
  <2>1. Creation \in Requests
    BY DEF Requests
  <2> QED
    BY <1>2, <1>4, <1>5, <2>1 DEF WaitingInv, CreationInv, IsCreation
<1>7. PatientInv'
  <2>1. \A i \in DOMAIN store : store[i].req \in Requests
    BY RecordedRequests
  <2> QED
    BY <1>2, <1>4, <2>1 DEF WaitingInv, PatientInv, IsCreation, HasResponse
<1> QED
  BY <1>6, <1>7 DEF WaitingInv

LEMMA PostKeeps ==
    ASSUME TypeInv, WaitingInv, NEW r \in Requests, Post(r) PROVE WaitingInv'
<1>1. commandQueue \in Seq(Requests) /\ work \in [Requests -> CommandWork]
  BY DEF TypeInv, DataOK
<1>2. UNCHANGED <<store, seen>> /\ work[r].phase = "new"
  BY DEF Post, HasResponse
<1>3. /\ \/ work'[r].phase = "started" /\ commandQueue' = commandQueue
         \/ work'[r].phase = "queued" /\ commandQueue' = Append(commandQueue, r)
      /\ \A q \in Requests : q # r => work'[q].phase = work[q].phase
  BY <1>1 DEF Post, Execute, CommandWork
<1>4. CreationInv'
  <2>1. Creation \in Requests
    BY DEF Requests
  <2> QED
    BY <1>2, <1>3, <2>1 DEF WaitingInv, CreationInv, IsCreation
<1>5. PatientInv'
  <2>1. \A i \in DOMAIN store : store[i].req \in Requests /\ store[i].req # r
    BY <1>2, RecordedRequests DEF WaitingInv, PatientInv, HasResponse
  <2>2. patient' = patient \/ (patient' = patient \cup {r} /\ SeesCreation)
    BY DEF Post
  <2>3. SeesCreation => \E i \in DOMAIN store : IsCreation(i)
    BY DEF SeesCreation, IsCreation, TypeInv, DataOK
  <2>4. \A i \in DOMAIN store : HasResponse(store[i].req)'
    BY <1>2, <1>3, <2>1 DEF WaitingInv, PatientInv, HasResponse
  <2> QED
    BY <1>2, <2>1, <2>2, <2>3, <2>4 DEF WaitingInv, PatientInv, IsCreation, HasResponse
<1> QED
  BY <1>4, <1>5 DEF WaitingInv

LEMMA LostKeeps ==
    ASSUME TypeInv, WaitingInv, CrashMonolith PROVE WaitingInv'
<1>1. UNCHANGED <<store, commandQueue, patient>>
  BY DEF CrashMonolith
<1>2. \A q \in Requests : work'[q].phase = work[q].phase \/ (InProgress(q) /\ work'[q].phase = "lost")
  BY DEF CrashMonolith, Abandoned, TypeInv, DataOK, CommandWork
<1>3. Creation \in Requests /\ \A k \in DOMAIN commandQueue : commandQueue[k] \in Requests
  BY DEF Requests, TypeInv, DataOK
<1>4. \A i \in DOMAIN store : store[i].req \in Requests
  BY RecordedRequests
<1>5. CreationInv'
  BY <1>1, <1>2, <1>3 DEF WaitingInv, CreationInv, IsCreation
<1>6. PatientInv'
  BY <1>1, <1>2, <1>4 DEF WaitingInv, PatientInv, IsCreation, HasResponse
<1> QED
  BY <1>5, <1>6 DEF WaitingInv

WInv == TypeInv /\ QueueInv /\ (dead = {} => WaitingInv)

LEMMA InitialWaiting == Init => WInv
<1> SUFFICES ASSUME Init PROVE WInv
  OBVIOUS
<1>1. store = <<>> /\ commandQueue = <<>> /\ patient = {}
  BY DEF Init
<1> QED
  BY <1>1, InitialTypes DEF WInv, WaitingInv, QueueInv, CreationInv, PatientInv

LEMMA WInvStays == WInv /\ [Next]_vars => WInv'
<1> SUFFICES ASSUME WInv, [Next]_vars PROVE WInv'
  OBVIOUS
<1>1. TypeInv'
  BY TypesStay DEF WInv
<1>2. SUFFICES ASSUME dead' = {} PROVE WaitingInv'
  BY <1>1, QueueStays DEF WInv
<1>3. ASSUME NEW n \in Nodes, CrashAccountant(n) PROVE FALSE
  BY <1>2, <1>3 DEF CrashAccountant
<1>4. CASE UNCHANGED <<store, work, commandQueue, patient, dead>>
  BY <1>2, <1>4 DEF WInv, WaitingInv, CreationInv, PatientInv, IsCreation, HasResponse
<1>5. ASSUME NEW r \in Requests, Post(r) PROVE WaitingInv'
  BY <1>2, <1>5, PostKeeps DEF WInv, Post
<1>6. ASSUME NEW r \in Requests, HandleCommand(r) PROVE WaitingInv'
  BY <1>2, <1>6, CommandMoves, CommandKeeps DEF WInv
<1>7. ASSUME NEW n \in Nodes, TakeCommand(n) PROVE WaitingInv'
  BY <1>2, <1>7, TakeCommandKeeps DEF WInv, TakeCommand
<1>8. CASE CrashMonolith
  BY <1>2, <1>8, LostKeeps DEF WInv, CrashMonolith
<1>9. \/ UNCHANGED <<store, work, commandQueue, patient, dead>>
      \/ CrashMonolith
      \/ \E r \in Requests : Post(r) \/ HandleCommand(r)
      \/ \E n \in Nodes : TakeCommand(n) \/ CrashAccountant(n)
  BY Zenon DEF Next, vars, Subscribe, HandleEvent, TakeEvent, MergeForEvent, Project,
     HandlerRejects, Distribute, EndEvent, Forward, Deliver
<1> QED
  BY <1>3, <1>4, <1>5, <1>6, <1>7, <1>8, <1>9

(* No deposit of a client that waited for the account is forgotten by a    *)
(* creation that comes after it, as long as no process of the cluster dies.*)
THEOREM WaitingClientsKeepTheirMoney == Spec => []WaitingKeepsMoney
<1>1. WInv => WaitingKeepsMoney
  <2> SUFFICES ASSUME WInv, NEW i \in DOMAIN store, NEW j \in DOMAIN store, i < j,
                      IsCreation(j), store[i].req \in patient, dead = {}
               PROVE  FALSE
    BY DEF WaitingKeepsMoney, IsCreation
  <2>1. PICK k \in DOMAIN store : k < i /\ IsCreation(k)
    BY DEF WInv, WaitingInv, PatientInv
  <2>2. k = j
    BY <2>1 DEF WInv, WaitingInv, CreationInv
  <2>3. i \in Nat /\ j \in Nat
    BY DEF WInv, TypeInv, DataOK
  <2> QED
    BY <2>1, <2>2, <2>3
<1> QED
  BY <1>1, InitialWaiting, WInvStays, PTL DEF Spec

-----------------------------------------------------------------------------
(* At rest.  Without a crash an event shows in the projection or is still  *)
(* on its way to it: its command has saved it and not published it, it is  *)
(* queued, or a process has taken it.                                      *)
Stored(i) == \E r \in Requests : work[r].phase = "stored" /\ work[r].event = i
OnItsWay(i) ==
    \/ \E k \in DOMAIN eventQueue["account"] : eventQueue["account"][k] = i
    \/ \E n \in accountants : eventWork[n].phase # "idle" /\ eventWork[n].event = i
RestInv == \A i \in 1..Len(store) : Shows(i) \/ Stored(i) \/ OnItsWay(i)

LEMMA RejectedStays == ASSUME [Next]_vars PROVE rejected \subseteq rejected'
<1>1. UNCHANGED rejected \/ \E n \in Nodes : HandlerRejects(n)
  BY Zenon DEF Next, vars, Post, Subscribe, TakeCommand, HandleCommand, MergeForCommand, Save,
     CreateAccount, DepositFunds, WithdrawFunds, InvalidWithdrawal, CommandRejects, PublishEvent,
     EndCommand, HandleEvent, TakeEvent, MergeForEvent, Project, Distribute, EndEvent,
     CrashAccountant, Forward, Deliver, CrashMonolith
<1> QED
  BY <1>1 DEF HandlerRejects

LEMMA PublishedIsOnItsWay ==
    ASSUME TypeInv, NEW r \in Requests, PublishEvent(r), NEW i, OnItsWay(i) \/ i = work[r].event
    PROVE  OnItsWay(i)'
<1> DEFINE q == eventQueue["account"]
<1>1. UNCHANGED <<accountants, eventWork>>
  BY DEF PublishEvent, setup
<1>2. q \in Seq(1..Len(store)) /\ eventQueue["account"]' = Append(q, work[r].event)
  BY DEF PublishEvent, TypeInv, DataOK, Groups
<1>3. /\ DOMAIN Append(q, work[r].event) = 1..Len(q) + 1 /\ DOMAIN q = 1..Len(q) /\ Len(q) \in Nat
      /\ \A k \in 1..Len(q) : Append(q, work[r].event)[k] = q[k]
      /\ Append(q, work[r].event)[Len(q) + 1] = work[r].event
  BY <1>2
<1> HIDE DEF q
<1>4. CASE i = work[r].event \/ \E k \in DOMAIN q : q[k] = i
  <2>1. \E k \in 1..Len(q) + 1 : Append(q, work[r].event)[k] = i
    BY <1>3, <1>4
  <2> QED
    BY <1>2, <1>3, <2>1 DEF OnItsWay
<1>5. CASE \E n \in accountants : eventWork[n].phase # "idle" /\ eventWork[n].event = i
  BY <1>1, <1>5 DEF OnItsWay
<1> QED
  BY <1>4, <1>5 DEF OnItsWay, q

LEMMA TakenIsOnItsWay ==
    ASSUME SetupOK, TypeInv, NEW n \in Nodes, TakeEvent(n), NEW i, OnItsWay(i)
    PROVE  OnItsWay(i)'
<1> DEFINE q == eventQueue["account"]
<1>1. /\ accountants' = accountants /\ n \in accountants /\ eventWork[n].phase = "idle"
      /\ eventWork'[n].event = Head(q) /\ eventWork'[n].phase # "idle"
      /\ \A m \in Nodes : m # n => eventWork'[m] = eventWork[m]
  BY DEF TakeEvent, TypeInv, DataOK, setup
<1>2. q \in Seq(1..Len(store)) /\ q # <<>> /\ eventQueue'["account"] = Tail(q)
  BY DEF TakeEvent, TypeInv, DataOK, Groups
<1>3. CASE \E k \in DOMAIN q : q[k] = i
  <2>1. PICK k \in 1..Len(q) : q[k] = i
    BY <1>2, <1>3
  <2>2. CASE k = 1
    BY <1>1, <1>2, <2>1, <2>2 DEF OnItsWay
  <2>3. CASE k # 1
    <3>1. k - 1 \in DOMAIN Tail(q) /\ Tail(q)[k - 1] = i
      BY <1>2, <2>1, <2>3
    <3> QED
      BY <1>2, <3>1 DEF OnItsWay
  <2> QED
    BY <2>2, <2>3
<1>4. CASE \E m \in accountants : eventWork[m].phase # "idle" /\ eventWork[m].event = i
  <2>1. PICK m \in accountants : eventWork[m].phase # "idle" /\ eventWork[m].event = i
    BY <1>4
  <2>2. m \in Nodes /\ m # n
    BY <1>1, <2>1, NodesAssumption DEF SetupOK
  <2> QED
    BY <1>1, <2>1, <2>2 DEF OnItsWay
<1> QED
  BY <1>3, <1>4 DEF OnItsWay

LEMMA StoredOrPublished ==
    ASSUME TypeInv, QueueInv, [Next]_vars, crashes' = 0,
           NEW i, Stored(i)
    PROVE  Stored(i)' \/ OnItsWay(i)'
<1>1. PICK r \in Requests : work[r].phase = "stored" /\ work[r].event = i
  BY DEF Stored
<1>2. work \in [Requests -> CommandWork] /\ crashes \in Nat
  BY DEF TypeInv, DataOK
<1>3. CASE PublishEvent(r)
  BY <1>1, <1>3, PublishedIsOnItsWay
<1>4. CASE work'[r].phase = work[r].phase /\ work'[r].event = work[r].event
  BY <1>1, <1>4 DEF Stored
<1>5. ASSUME NEW q \in Requests, HandleCommand(q), q # r PROVE work'[r] = work[r]
  BY <1>2, <1>5 DEF HandleCommand, MergeForCommand, Save, CreateAccount, DepositFunds,
     WithdrawFunds, InvalidWithdrawal, CommandRejects, PublishEvent, EndCommand
<1>6. ASSUME HandleCommand(r) PROVE PublishEvent(r)
  BY <1>1, <1>6 DEF HandleCommand, MergeForCommand, CreateAccount, DepositFunds, WithdrawFunds,
     InvalidWithdrawal, CommandRejects, EndCommand
<1>7. ASSUME NEW q \in Requests, Post(q)
      PROVE  work'[r].phase = work[r].phase /\ work'[r].event = work[r].event
  <2>1. q # r
    BY <1>1, <1>7 DEF Post, HasResponse
  <2> QED
    BY <1>2, <1>7, <2>1 DEF Post, Execute
<1>8. ASSUME NEW n \in Nodes, TakeCommand(n) PROVE work'[r] = work[r]
  <2>1. Head(commandQueue) = commandQueue[1] /\ 1 \in DOMAIN commandQueue /\ Head(commandQueue) \in Requests
    BY <1>8 DEF TakeCommand, TypeInv, DataOK
  <2>2. Head(commandQueue) # r
    BY <1>1, <2>1 DEF QueueInv
  <2> QED
    BY <1>2, <1>8, <2>1, <2>2 DEF TakeCommand
<1>9. CASE UNCHANGED work
  BY <1>4, <1>9
<1>10. ~CrashMonolith /\ \A n \in Nodes : ~CrashAccountant(n)
  BY <1>2 DEF CrashMonolith, CrashAccountant
<1>11. \/ UNCHANGED work
       \/ \E q \in Requests : Post(q) \/ HandleCommand(q)
       \/ \E n \in Nodes : TakeCommand(n)
  BY <1>10, Zenon DEF Next, vars, Subscribe, HandleEvent, TakeEvent, MergeForEvent, Project,
     HandlerRejects, Distribute, EndEvent, Forward, Deliver
<1> QED
  BY <1>3, <1>4, <1>5, <1>6, <1>7, <1>8, <1>9, <1>11

LEMMA OnItsWayOrShown ==
    ASSUME SetupOK, ~Shared, TypeInv, ProjectionInv, [Next]_vars, crashes' = 0,
           NEW i \in 1..Len(store), OnItsWay(i)
    PROVE  Shows(i)' \/ OnItsWay(i)'
<1>1. crashes \in Nat /\ eventWork \in [Nodes -> EventWork] /\ accountants \subseteq Nodes
  BY NodesAssumption DEF TypeInv, DataOK, SetupOK
<1>2. ~CrashMonolith /\ \A n \in Nodes : ~CrashAccountant(n)
  BY <1>1 DEF CrashMonolith, CrashAccountant
<1>3. Shows(i) => Shows(i)'
  BY RowStays, StoreStays, RejectedStays, ShowsStays
<1>4. CASE UNCHANGED <<setup, eventWork>> /\ eventQueue'["account"] = eventQueue["account"]
  BY <1>4 DEF OnItsWay, setup
<1>5. ASSUME NEW r \in Requests, PublishEvent(r) PROVE OnItsWay(i)'
  BY <1>5, PublishedIsOnItsWay
<1>6. ASSUME NEW n \in Nodes, TakeEvent(n) PROVE OnItsWay(i)'
  BY <1>6, TakenIsOnItsWay
<1>7. ASSUME NEW n \in Nodes, MergeForEvent(n) \/ Project(n) \/ HandlerRejects(n) \/ Distribute(n)
             \/ EndEvent(n)
      PROVE  Shows(i)' \/ OnItsWay(i)'
  <2>1. UNCHANGED <<setup, eventQueue>> /\ \A m \in Nodes : m # n => eventWork'[m] = eventWork[m]
    BY <1>1, <1>7 DEF MergeForEvent, Project, HandlerRejects, Distribute, EndEvent
  <2>2. CASE eventWork[n].event = i /\ eventWork[n].phase # "idle"
    <3>1. CASE MergeForEvent(n) \/ Project(n) \/ HandlerRejects(n)
      <4>1. eventWork'[n].event = i /\ eventWork'[n].phase # "idle"
        BY <1>1, <2>2, <3>1 DEF MergeForEvent, Project, HandlerRejects, EventWork
      <4>2. n \in accountants
        BY <2>2 DEF ProjectionInv, WorkInv
      <4> QED
        BY <2>1, <4>1, <4>2 DEF OnItsWay, setup
    <3>2. CASE Distribute(n) \/ EndEvent(n)
      <4>1. Shows(i)
        BY <2>2, <3>2 DEF Distribute, IsHandled, EndEvent, ProjectionInv, WorkInv
      <4> QED
        BY <1>3, <4>1
    <3> QED
      BY <1>7, <3>1, <3>2
  <2>3. CASE ~(eventWork[n].event = i /\ eventWork[n].phase # "idle")
    BY <1>1, <2>1, <2>3 DEF OnItsWay, setup
  <2> QED
    BY <2>2, <2>3
<1>8. CASE Forward
  BY <1>4, <1>8 DEF Forward, TypeInv, DataOK, Groups
<1>9. \/ UNCHANGED <<setup, eventWork, eventQueue>>
      \/ \E r \in Requests : PublishEvent(r)
      \/ \E n \in Nodes : HandleEvent(n)
      \/ Forward
  BY <1>2, Zenon DEF Next, vars, Post, Subscribe, TakeCommand, HandleCommand, MergeForCommand, Save,
     CreateAccount, DepositFunds, WithdrawFunds, InvalidWithdrawal, CommandRejects, EndCommand,
     Deliver
<1> QED
  BY <1>4, <1>5, <1>6, <1>7, <1>8, <1>9 DEF HandleEvent

LEMMA NewIsStored ==
    ASSUME TypeInv, [Next]_vars, NEW i \in 1..Len(store')
    PROVE  i \in 1..Len(store) \/ Stored(i)'
<1>1. CASE UNCHANGED store
  BY <1>1
<1>2. ASSUME NEW r \in Requests, NEW kind \in Kinds, Save(r, kind) PROVE i \in 1..Len(store) \/ Stored(i)'
  <2>1. Len(store') = Len(store) + 1 /\ Len(store) \in Nat
    <3>1. Len(store) \in Nat
      BY DEF TypeInv, DataOK
    <3> QED
      BY <1>2, <3>1, StoreGrows
  <2>2. work'[r].phase = "stored" /\ work'[r].event = Len(store) + 1
    BY <1>2 DEF Save, TypeInv, DataOK, CommandWork
  <2> QED
    BY <2>1, <2>2 DEF Stored
<1> QED
  BY <1>1, <1>2, StoreSteps

CInv ==
    /\ IInv /\ WInv
    /\ crashes = 0 => dead = {}
    /\ ~Shared /\ ~InMemory => crashes = 0
    /\ ~Shared /\ crashes = 0 => RestInv

LEMMA InitialRest == Init => CInv
<1> SUFFICES ASSUME Init PROVE CInv
  OBVIOUS
<1>1. Len(store) = 0 /\ dead = {} /\ crashes = 0
  BY DEF Init
<1> QED
  BY <1>1, InitialProjection, InitialWaiting DEF CInv, RestInv

LEMMA CInvStays == CInv /\ [Next]_vars => CInv'
<1> SUFFICES ASSUME CInv, [Next]_vars PROVE CInv'
  OBVIOUS
<1>1. IInv' /\ WInv' /\ (Shared' <=> Shared)
  BY IInvStays, WInvStays DEF CInv
<1>2. crashes' = 0 => crashes = 0 /\ dead' = dead
  <2>1. crashes \in Nat
    BY DEF CInv, WInv, TypeInv, DataOK
  <2>2. UNCHANGED <<crashes, dead>> \/ crashes' = crashes + 1
    BY Zenon DEF Next, vars, Post, Subscribe, TakeCommand, HandleCommand, MergeForCommand, Save,
       CreateAccount, DepositFunds, WithdrawFunds, InvalidWithdrawal, CommandRejects, PublishEvent,
       EndCommand, HandleEvent, TakeEvent, MergeForEvent, Project, HandlerRejects, Distribute,
       EndEvent, Forward, Deliver, CrashMonolith, CrashAccountant
  <2> QED
    BY <2>1, <2>2
<1>3. ASSUME ~Shared, crashes' = 0 PROVE RestInv'
  <2>1. SetupOK /\ TypeInv /\ ProjectionInv /\ QueueInv /\ RestInv
    BY <1>2, <1>3 DEF CInv, IInv, WInv
  <2>2. ASSUME NEW i \in 1..Len(store) PROVE (Shows(i) \/ Stored(i) \/ OnItsWay(i))'
    <3>1. Shows(i) => Shows(i)'
      BY <2>1, RowStays, StoreStays, RejectedStays, ShowsStays
    <3>2. Stored(i) => Stored(i)' \/ OnItsWay(i)'
      BY <1>3, <2>1, StoredOrPublished
    <3>3. OnItsWay(i) => Shows(i)' \/ OnItsWay(i)'
      BY <1>3, <2>1, OnItsWayOrShown
    <3> QED
      BY <2>1, <3>1, <3>2, <3>3 DEF RestInv
  <2>3. \A i \in 1..Len(store') : i \in 1..Len(store) \/ Stored(i)'
    BY <2>1, NewIsStored
  <2> QED
    BY <2>2, <2>3 DEF RestInv
<1>4. ASSUME ~Shared, ~InMemory' PROVE crashes' = 0
  <2>1. SetupOK /\ (InMemory' <=> InMemory) /\ crashes = 0
    BY <1>4, SetupStays DEF CInv, IInv, InMemory, setup
  <2>2. ~CrashMonolith
    BY <1>4, <2>1 DEF CrashMonolith
  <2>3. ASSUME NEW n \in Nodes, CrashAccountant(n) PROVE FALSE
    BY <1>4, <2>1, <2>3, OneProcess DEF CrashAccountant
  <2>4. UNCHANGED crashes
    BY <2>2, <2>3, Zenon DEF Next, vars, Post, Subscribe, TakeCommand, HandleCommand,
       MergeForCommand, Save, CreateAccount, DepositFunds, WithdrawFunds, InvalidWithdrawal,
       CommandRejects, PublishEvent, EndCommand, HandleEvent, TakeEvent, MergeForEvent, Project,
       HandlerRejects, Distribute, EndEvent, Forward, Deliver
  <2> QED
    BY <2>1, <2>4
<1> QED
  BY <1>1, <1>2, <1>3, <1>4 DEF CInv

(* At rest the projection is up to date, but for events whose handler      *)
(* rejected and, after a crash with in-memory publishers, events that      *)
(* nobody had handled.                                                     *)
THEOREM ProjectionCatchesUp == Spec => []CaughtUp
<1>1. CInv => CaughtUp
  <2> SUFFICES ASSUME CInv, AtRest, ~Shared, NEW i \in DOMAIN store
               PROVE  Shows(i) \/ (InMemory /\ crashes > 0 /\ i \notin handled)
    BY DEF CaughtUp
  <2>1. TypeInv /\ SetupOK /\ crashes \in Nat /\ i \in 1..Len(store)
    BY DEF CInv, IInv, TypeInv, DataOK
  <2>2. CASE crashes = 0
    <3>1. RestInv /\ accountants \subseteq Nodes
      BY <2>1, <2>2, NodesAssumption DEF CInv, SetupOK
    <3>2. ~Stored(i)
      BY DEF AtRest, Stored
    <3>3. ~OnItsWay(i)
      BY <3>1 DEF AtRest, OnItsWay, Groups
    <3> QED
      BY <2>1, <3>1, <3>2, <3>3 DEF RestInv
  <2>3. CASE crashes > 0
    BY <2>1, <2>3 DEF CInv, IInv, ProjectionInv, HandledInv
  <2> QED
    BY <2>1, <2>2, <2>3
<1> QED
  BY <1>1, InitialRest, CInvStays, PTL DEF Spec

-----------------------------------------------------------------------------
(* How often a request is carried out: each death of a process may cost    *)
(* one more event, and what is over has one more than what is still to do. *)
Records(r) == {i \in DOMAIN store : store[i].req = r}
Unrecorded == {"new", "queued", "started", "merged", "failed", "stuck"}
Allowance(r) == IF work[r].phase \in Unrecorded THEN 0 ELSE 1

OnceInv ==
    \A r \in Requests :
        /\ work[r].phase \in {"stored", "published", "done"} => Records(r) # {}
        /\ Cardinality(Records(r)) <= Cardinality(dead) + Allowance(r)

LEMMA FiniteRecords ==
    ASSUME TypeInv, NEW r PROVE IsFiniteSet(Records(r)) /\ Cardinality(Records(r)) \in Nat
<1>1. DOMAIN store = 1..Len(store) /\ Len(store) \in Nat
  BY RecordedRequests
<1>2. IsFiniteSet(DOMAIN store)
  BY <1>1, FS_Interval
<1>3. Records(r) \subseteq DOMAIN store
  BY DEF Records
<1> QED
  BY <1>2, <1>3, FS_Subset, FS_CardinalityType

LEMMA FiniteDead ==
    ASSUME SetupOK, TypeInv PROVE IsFiniteSet(dead) /\ Cardinality(dead) \in Nat
<1>1. dead \subseteq Nodes
  BY NodesAssumption DEF SetupOK, TypeInv, DataOK
<1> QED
  BY <1>1, NodesAssumption, FS_Subset, FS_CardinalityType

(* Nothing is recorded and nobody dies: the allowances may only grow. *)
LEMMA OnceKept ==
    ASSUME SetupOK, TypeInv, OnceInv, UNCHANGED <<store, dead>>,
           \A r \in Requests :
             /\ Allowance(r) <= Allowance(r)'
             /\ work'[r].phase \in {"stored", "published", "done"}
                  => work[r].phase \in {"stored", "published", "done"}
    PROVE  OnceInv'
<1> SUFFICES ASSUME NEW r \in Requests
             PROVE  /\ work'[r].phase \in {"stored", "published", "done"} => Records(r)' # {}
                    /\ Cardinality(Records(r)') <= Cardinality(dead') + Allowance(r)'
  BY DEF OnceInv
<1>1. Records(r)' = Records(r) /\ dead' = dead
  BY DEF Records
<1>2. Cardinality(Records(r)) \in Nat /\ Cardinality(dead) \in Nat
  BY FiniteRecords, FiniteDead
<1>3. Cardinality(Records(r)) <= Cardinality(dead) + Allowance(r)
  BY DEF OnceInv
<1>4. Allowance(r) \in {0, 1} /\ Allowance(r)' \in {0, 1} /\ Allowance(r) <= Allowance(r)'
  BY DEF Allowance
<1>5. Cardinality(Records(r)') <= Cardinality(dead') + Allowance(r)'
  BY <1>1, <1>2, <1>3, <1>4
<1> QED
  BY <1>1, <1>5 DEF OnceInv

LEMMA OnceKeptBySave ==
    ASSUME SetupOK, TypeInv, OnceInv, NEW r \in Requests, NEW kind \in Kinds,
           work[r].phase = "merged", Save(r, kind)
    PROVE  OnceInv'
<1>1. PICK last \in Nat : last = Len(store) + 1
  BY RecordedRequests
<1>2. /\ DOMAIN store = 1..Len(store) /\ DOMAIN store' = 1..last /\ last \notin DOMAIN store
      /\ store'[last].req = r /\ \A i \in DOMAIN store : store'[i] = store[i]
      /\ 1..last = DOMAIN store \cup {last}
  <2>1. Len(store) \in Nat /\ DOMAIN store = 1..Len(store)
    BY RecordedRequests
  <2>2. /\ store' \in Seq(Event) /\ Len(store') = last
        /\ store'[last] = [kind |-> kind, req |-> r]
        /\ \A i \in 1..Len(store) : store'[i] = store[i]
    BY <1>1, StoreGrows
  <2> QED
    BY <1>1, <2>1, <2>2
<1>3. /\ work'[r].phase = "stored" /\ dead' = dead
      /\ \A q \in Requests : q # r => work'[q] = work[q]
  BY DEF Save, TypeInv, DataOK, CommandWork
<1>4. Records(r)' = Records(r) \cup {last} /\ last \notin Records(r)
  BY <1>2 DEF Records
<1>5. \A q \in Requests : q # r => Records(q)' = Records(q)
  BY <1>2 DEF Records
<1>6. Cardinality(Records(r)') = Cardinality(Records(r)) + 1
  BY <1>4, FiniteRecords, FS_AddElement
<1>7. Cardinality(Records(r)) \in Nat /\ Cardinality(dead) \in Nat
  BY FiniteRecords, FiniteDead
<1>8. Cardinality(Records(r)) <= Cardinality(dead) + 0
  BY DEF OnceInv, Allowance, Unrecorded
<1>9. Allowance(r)' = 1
  BY <1>3 DEF Allowance, Unrecorded
<1>10. Cardinality(Records(r)') <= Cardinality(dead') + Allowance(r)'
  BY <1>3, <1>6, <1>7, <1>8, <1>9
<1>11. \A q \in Requests : q # r => Allowance(q)' = Allowance(q)
  BY <1>3 DEF Allowance
<1>12. \A q \in Requests : q # r =>
         /\ work'[q].phase \in {"stored", "published", "done"} => Records(q)' # {}
         /\ Cardinality(Records(q)') <= Cardinality(dead') + Allowance(q)'
  BY <1>3, <1>5, <1>11 DEF OnceInv
<1> QED
  BY <1>4, <1>10, <1>12 DEF OnceInv

LEMMA OnceKeptByDeath ==
    ASSUME SetupOK, TypeInv, OnceInv, NEW n \in Nodes, CrashAccountant(n) PROVE OnceInv'
<1>1. PICK held \in SUBSET Requests : work' = Abandoned("queued", held)
  BY DEF CrashAccountant
<1>2. \A r \in Requests : IF r \in held THEN work'[r].phase = "queued" ELSE work'[r] = work[r]
  BY <1>1 DEF Abandoned, TypeInv, DataOK, CommandWork
<1>3. UNCHANGED store /\ dead' = dead \cup {n} /\ n \notin dead
  BY DEF CrashAccountant
<1>4. Cardinality(dead') = Cardinality(dead) + 1 /\ Cardinality(dead) \in Nat
  BY <1>3, FiniteDead, FS_AddElement
<1>5. ASSUME NEW r \in Requests
      PROVE  /\ work'[r].phase \in {"stored", "published", "done"} => Records(r)' # {}
             /\ Cardinality(Records(r)') <= Cardinality(dead') + Allowance(r)'
  <2>1. Records(r)' = Records(r)
    BY <1>3 DEF Records
  <2>2. Cardinality(Records(r)) \in Nat /\ Cardinality(Records(r)) <= Cardinality(dead) + Allowance(r)
    BY FiniteRecords DEF OnceInv
  <2>3. Allowance(r) \in {0, 1} /\ Allowance(r)' \in {0, 1}
    BY DEF Allowance
  <2>4. Cardinality(Records(r)') <= Cardinality(dead') + Allowance(r)'
    BY <1>4, <2>1, <2>2, <2>3
  <2>5. work'[r].phase \in {"stored", "published", "done"} => work'[r] = work[r]
    BY <1>2
  <2> QED
    BY <2>1, <2>4, <2>5 DEF OnceInv
<1> QED
  BY <1>5 DEF OnceInv

LEMMA OnceStays ==
    ASSUME SetupOK, TypeInv, QueueInv, OnceInv, [Next]_vars PROVE OnceInv'
<1>1. work \in [Requests -> CommandWork]
  BY DEF TypeInv, DataOK
<1>2. CASE UNCHANGED <<work, store, dead>>
  <2>1. \A r \in Requests : Allowance(r)' = Allowance(r) /\ Allowance(r) \in {0, 1}
    BY <1>2 DEF Allowance
  <2> QED
    BY <1>2, <2>1, OnceKept
<1>3. ASSUME NEW r \in Requests, NEW phase \in CommandPhases, UNCHANGED <<store, dead>>,
             work'[r].phase = phase, \A q \in Requests : q # r => work'[q].phase = work[q].phase,
             \/ phase \in Unrecorded /\ work[r].phase \in Unrecorded
             \/ phase \in {"published", "done"} /\ work[r].phase \in {"stored", "published"}
      PROVE  OnceInv'
  <2>1. \A q \in Requests : Allowance(q) \in {0, 1} /\ Allowance(q)' = Allowance(q)
    BY <1>3 DEF Allowance, Unrecorded
  <2>2. \A q \in Requests : work'[q].phase \in {"stored", "published", "done"}
                              => work[q].phase \in {"stored", "published", "done"}
    BY <1>3 DEF Unrecorded
  <2> QED
    BY <1>3, <2>1, <2>2, OnceKept
<1>4. ASSUME NEW r \in Requests, Post(r) PROVE OnceInv'
  <2>1. PICK phase \in {"started", "queued"} : work' = [work EXCEPT ![r].phase = phase]
    BY <1>4 DEF Post, Execute
  <2>2. work[r].phase = "new" /\ UNCHANGED <<store, dead>>
    BY <1>4 DEF Post, HasResponse
  <2>3. work'[r].phase = phase /\ \A q \in Requests : q # r => work'[q].phase = work[q].phase
    BY <1>1, <2>1 DEF CommandWork
  <2> QED
    BY <1>3, <2>2, <2>3 DEF Unrecorded, CommandPhases
<1>5. ASSUME NEW n \in Nodes, TakeCommand(n) PROVE OnceInv'
  <2>1. Head(commandQueue) = commandQueue[1] /\ 1 \in DOMAIN commandQueue /\ Head(commandQueue) \in Requests
    BY <1>5 DEF TakeCommand, TypeInv, DataOK
  <2>2. PICK r \in Requests : r = Head(commandQueue)
    BY <2>1
  <2>3. work[r].phase = "queued"
    BY <2>1, <2>2 DEF QueueInv
  <2>4. /\ UNCHANGED <<store, dead>> /\ work'[r].phase = "started"
        /\ \A q \in Requests : q # r => work'[q].phase = work[q].phase
    BY <1>1, <1>5, <2>2 DEF TakeCommand, CommandWork
  <2> QED
    BY <1>3, <2>3, <2>4 DEF Unrecorded, CommandPhases
<1>6. ASSUME NEW r \in Requests, HandleCommand(r) PROVE OnceInv'
  <2>1. CASE MergeForCommand(r)
    <3>1. /\ UNCHANGED <<store, dead>> /\ work'[r].phase = "merged" /\ work[r].phase = "started"
          /\ \A q \in Requests : q # r => work'[q].phase = work[q].phase
      BY <1>1, <2>1 DEF MergeForCommand, CommandWork
    <3> QED
      BY <1>3, <3>1 DEF Unrecorded, CommandPhases
  <2>2. CASE \E kind \in Kinds : work[r].phase = "merged" /\ Save(r, kind)
    BY <2>2, OnceKeptBySave
  <2>3. CASE PublishEvent(r) \/ EndCommand(r)
    <3>1. /\ UNCHANGED <<store, dead>> /\ work'[r].phase \in {"published", "done"}
          /\ work[r].phase \in {"stored", "published"}
          /\ \A q \in Requests : q # r => work'[q].phase = work[q].phase
      BY <1>1, <2>3 DEF PublishEvent, EndCommand, CommandWork
    <3> QED
      BY <1>3, <3>1 DEF CommandPhases
  <2>4. CASE CommandRejects(r)
    <3>1. /\ UNCHANGED <<store, dead>> /\ work'[r].phase \in {"failed", "stuck"}
          /\ work[r].phase \in {"started", "merged"}
          /\ \A q \in Requests : q # r => work'[q].phase = work[q].phase
      BY <1>1, <2>4 DEF CommandRejects, CommandWork
    <3> QED
      BY <1>3, <3>1 DEF Unrecorded, CommandPhases
  <2> QED
    BY <1>6, <2>1, <2>2, <2>3, <2>4 DEF HandleCommand, DepositFunds, WithdrawFunds, InvalidWithdrawal,
       CreateAccount, Kinds
<1>7. CASE CrashMonolith
  <2>1. /\ UNCHANGED <<store, dead>>
        /\ \A q \in Requests : work'[q].phase = "lost" \/ work'[q].phase = work[q].phase
    BY <1>1, <1>7 DEF CrashMonolith, Abandoned, CommandWork
  <2>2. \A q \in Requests : Allowance(q) \in {0, 1} /\ Allowance(q)' \in {0, 1}
    BY DEF Allowance
  <2>3. \A q \in Requests : Allowance(q)' = 1 \/ Allowance(q)' = Allowance(q)
    BY <2>1 DEF Allowance, Unrecorded
  <2>4. \A q \in Requests : Allowance(q) <= Allowance(q)'
    BY <2>2, <2>3
  <2> QED
    BY <2>1, <2>4, OnceKept
<1>8. \/ UNCHANGED <<work, store, dead>>
      \/ CrashMonolith
      \/ \E r \in Requests : Post(r) \/ HandleCommand(r)
      \/ \E n \in Nodes : TakeCommand(n) \/ CrashAccountant(n)
  BY Zenon DEF Next, vars, Subscribe, HandleEvent, TakeEvent, MergeForEvent, Project,
     HandlerRejects, Distribute, EndEvent, Forward, Deliver
<1> QED
  BY <1>2, <1>4, <1>5, <1>6, <1>7, <1>8, OnceKeptByDeath

(* What is done has left an event.  A request leaves no more events than   *)
(* one for each process of the account that has died, and another only if  *)
(* its handler came to save it: one that failed has left none of its own.  *)
THEOREM RequestsAreCarriedOutOnce == Spec => []CarriedOutOnce
<1> DEFINE Inv == SetupOK /\ TypeInv /\ QueueInv /\ OnceInv
<1>1. Init => Inv
  <2> SUFFICES ASSUME Init PROVE Inv
    OBVIOUS
  <2>1. SetupOK /\ TypeInv /\ QueueInv
    BY InitialProjection, InitialWaiting DEF IInv, WInv
  <2>2. DOMAIN store = {} /\ dead = {}
    BY DEF Init
  <2>3. \A r \in Requests : work[r].phase = "new" /\ Records(r) = {}
    BY <2>2 DEF Init, Records
  <2>4. Cardinality({}) = 0
    BY FS_EmptySet
  <2>5. \A r \in Requests : Allowance(r) = 0 /\ Cardinality(Records(r)) = 0
    BY <2>3, <2>4 DEF Allowance, Unrecorded
  <2>6. Cardinality(dead) = 0
    BY <2>2, <2>4
  <2>7. \A r \in Requests : work[r].phase \notin {"stored", "published", "done"}
    BY <2>3
  <2>8. OnceInv
    BY <2>5, <2>6, <2>7 DEF OnceInv
  <2> QED
    BY <2>1, <2>8
<1>2. Inv /\ [Next]_vars => Inv'
  BY SetupStays, TypesStay, QueueStays, OnceStays
<1>3. Inv => CarriedOutOnce
  <2> SUFFICES ASSUME Inv, NEW r \in Requests
               PROVE  /\ work[r].phase = "done" => Cardinality(Records(r)) > 0
                      /\ Cardinality(Records(r)) <= Cardinality(dead) + Allowance(r)
                      /\ Allowance(r) = IF work[r].phase \in {"stored", "published", "done", "lost"}
                                        THEN 1 ELSE 0
    BY DEF CarriedOutOnce, Records
  <2>1. IsFiniteSet(Records(r)) /\ Cardinality(Records(r)) \in Nat /\ Cardinality(dead) \in Nat
    BY FiniteRecords, FiniteDead
  <2>2. Cardinality(Records(r)) <= Cardinality(dead) + Allowance(r)
    BY DEF OnceInv
  <2>3. work[r].phase \in CommandPhases
    BY DEF TypeInv, DataOK, CommandWork
  <2>5. Allowance(r) = IF work[r].phase \in {"stored", "published", "done", "lost"} THEN 1 ELSE 0
    BY <2>3 DEF Allowance, Unrecorded, CommandPhases
  <2>6. work[r].phase = "done" => Cardinality(Records(r)) # 0
    BY <2>1, FS_EmptySet DEF OnceInv
  <2> QED
    BY <2>1, <2>2, <2>5, <2>6
<1> QED
  BY <1>1, <1>2, <1>3, PTL DEF Spec
-----------------------------------------------------------------------------
(* What a client that waited asked for comes to it: with its subscription  *)
(* an event is on its way from its publication to the client.              *)
IsIn(q, i) == \E k \in DOMAIN q : q[k] = i
Queued(g, i) == IsIn(eventQueue[g], i)
Undistributed(n) == eventWork[n].phase \in {"taken", "merged", "handled"}
Coming(i) ==
    \/ i \in seen \cup feed
    \/ Local /\ (Queued("account", i) \/ \E n \in Nodes : Undistributed(n) /\ eventWork[n].event = i)
    \/ ~Local /\ Queued("gateway", i)

Undisturbed == ~(InMemory /\ crashes > 0)

ServedInv ==
    /\ seen \cup patient # {} => subscribed
    /\ \A r \in Requests : work[r].phase = "stored" => store[work[r].event].req = r
    /\ \A r \in patient : work[r].phase \notin {"new", "lost"}
    /\ \A r \in patient : work[r].phase \in {"published", "done"}
         => \E i \in 1..Len(store) : store[i].req = r /\ Coming(i)

LEMMA AppendedQueue ==
    ASSUME NEW S, NEW q \in Seq(S), NEW e, NEW i, i = e \/ IsIn(q, i) PROVE IsIn(Append(q, e), i)
<1>1. /\ DOMAIN Append(q, e) = 1..Len(q) + 1 /\ DOMAIN q = 1..Len(q) /\ Len(q) \in Nat
      /\ \A k \in 1..Len(q) : Append(q, e)[k] = q[k]
      /\ Append(q, e)[Len(q) + 1] = e
  OBVIOUS
<1>2. Len(q) + 1 \in 1..Len(q) + 1 /\ \A k \in 1..Len(q) : k \in 1..Len(q) + 1
  BY <1>1
<1> QED
  BY <1>1, <1>2 DEF IsIn

LEMMA ShortenedQueue ==
    ASSUME NEW S, NEW q \in Seq(S), q # <<>>, NEW i, IsIn(q, i) PROVE i = Head(q) \/ IsIn(Tail(q), i)
<1>1. PICK k \in 1..Len(q) : q[k] = i
  BY DEF IsIn
<1>2. CASE k = 1
  BY <1>1, <1>2
<1>3. CASE k # 1
  <2>1. k - 1 \in DOMAIN Tail(q) /\ Tail(q)[k - 1] = i
    BY <1>1, <1>3
  <2> QED
    BY <2>1 DEF IsIn
<1> QED
  BY <1>2, <1>3

LEMMA PublishedIsComing ==
    ASSUME TypeInv, NEW r \in Requests, PublishEvent(r), NEW i, Coming(i) \/ i = work[r].event
    PROVE  Coming(i)'
<1>1. UNCHANGED <<accountants, eventWork, seen, feed>> /\ (Local' <=> Local)
  BY DEF PublishEvent, setup, Local
<1>2. eventQueue["account"] \in Seq(1..Len(store)) /\ eventQueue["gateway"] \in Seq(1..Len(store))
  BY DEF TypeInv, DataOK, Groups
<1>3. /\ eventQueue'["account"] = Append(eventQueue["account"], work[r].event)
      /\ ~Local => eventQueue'["gateway"] = Append(eventQueue["gateway"], work[r].event)
  BY DEF PublishEvent, Groups
<1>4. /\ Queued("account", i) \/ i = work[r].event => Queued("account", i)'
      /\ ~Local /\ (Queued("gateway", i) \/ i = work[r].event) => Queued("gateway", i)'
  BY <1>2, <1>3, AppendedQueue DEF Queued
<1> QED
  BY <1>1, <1>4 DEF Coming, Undistributed

LEMMA ComingIsKept ==
    ASSUME SetupOK, TypeInv, subscribed, [Next]_vars, ~(InMemory /\ crashes' > 0), NEW i, Coming(i)
    PROVE  Coming(i)'
<1>1. /\ eventQueue["account"] \in Seq(1..Len(store)) /\ eventQueue["gateway"] \in Seq(1..Len(store))
      /\ eventWork \in [Nodes -> EventWork] /\ crashes \in Nat
  BY DEF TypeInv, DataOK, Groups
<1>2. accountants' = accountants /\ (Local' <=> Local) /\ accountants \subseteq Nodes
  BY SetupStays, NodesAssumption DEF setup, Local, SetupOK
<1>3. CASE UNCHANGED <<eventQueue, eventWork, seen, feed>>
  BY <1>2, <1>3 DEF Coming, Queued, Undistributed
<1>4. ASSUME NEW r \in Requests, PublishEvent(r) PROVE Coming(i)'
  BY <1>4, PublishedIsComing
<1>5. ASSUME NEW n \in Nodes, TakeEvent(n) PROVE Coming(i)'
  <2>1. /\ UNCHANGED <<seen, feed>> /\ eventQueue["account"] # <<>> /\ ~Undistributed(n)
        /\ eventQueue'["account"] = Tail(eventQueue["account"])
        /\ eventQueue'["gateway"] = eventQueue["gateway"]
        /\ Undistributed(n)' /\ eventWork'[n].event = Head(eventQueue["account"])
        /\ \A m \in Nodes : m # n => eventWork'[m] = eventWork[m]
    BY <1>1, <1>5 DEF TakeEvent, Undistributed, TypeInv, DataOK, Groups
  <2>2. Queued("account", i) => i = Head(eventQueue["account"]) \/ Queued("account", i)'
    BY <1>1, <2>1, ShortenedQueue DEF Queued
  <2>3. Queued("gateway", i) => Queued("gateway", i)'
    BY <2>1 DEF Queued
  <2>4. \A m \in Nodes : Undistributed(m) => Undistributed(m)' /\ eventWork'[m].event = eventWork[m].event
    BY <2>1 DEF Undistributed
  <2> QED
    BY <1>2, <2>1, <2>2, <2>3, <2>4 DEF Coming
<1>6. ASSUME NEW n \in Nodes, MergeForEvent(n) \/ Project(n) \/ HandlerRejects(n) \/ EndEvent(n)
      PROVE  Coming(i)'
  <2>1. UNCHANGED <<seen, feed, eventQueue>>
    BY <1>6 DEF MergeForEvent, Project, HandlerRejects, EndEvent
  <2>2. \A m \in Nodes : Undistributed(m) => Undistributed(m)' /\ eventWork'[m].event = eventWork[m].event
    <3>1. \A m \in Nodes : m # n => eventWork'[m] = eventWork[m]
      BY <1>1, <1>6 DEF MergeForEvent, Project, HandlerRejects, EndEvent
    <3>2. CASE MergeForEvent(n) \/ Project(n) \/ HandlerRejects(n)
      <4>1. Undistributed(n)' /\ eventWork'[n].event = eventWork[n].event
        BY <1>1, <3>2 DEF MergeForEvent, Project, HandlerRejects, Undistributed, EventWork
      <4> QED
        BY <3>1, <4>1 DEF Undistributed
    <3>3. CASE EndEvent(n)
      BY <3>1, <3>3 DEF EndEvent, Undistributed
    <3> QED
      BY <1>6, <3>2, <3>3
  <2> QED
    BY <1>2, <2>1, <2>2 DEF Coming, Queued
<1>7. ASSUME NEW n \in Nodes, Distribute(n) PROVE Coming(i)'
  <2>1. UNCHANGED eventQueue /\ seen' \cup feed' = seen \cup feed \cup {eventWork[n].event}
    BY <1>7 DEF Distribute, Receive
  <2>2. \A m \in Nodes : m # n => eventWork'[m] = eventWork[m]
    BY <1>1, <1>7 DEF Distribute
  <2> QED
    BY <1>2, <2>1, <2>2 DEF Coming, Queued, Undistributed
<1>8. CASE Forward
  <2>1. /\ UNCHANGED <<feed, eventWork>> /\ eventQueue["gateway"] # <<>>
        /\ seen' = seen \cup {Head(eventQueue["gateway"])}
        /\ eventQueue'["gateway"] = Tail(eventQueue["gateway"])
        /\ eventQueue'["account"] = eventQueue["account"]
    BY <1>8 DEF Forward, Receive, TypeInv, DataOK, Groups
  <2>2. Queued("gateway", i) => i = Head(eventQueue["gateway"]) \/ Queued("gateway", i)'
    BY <1>1, <2>1, ShortenedQueue DEF Queued
  <2>3. Queued("account", i) => Queued("account", i)'
    BY <2>1 DEF Queued
  <2> QED
    BY <1>2, <2>1, <2>2, <2>3 DEF Coming, Undistributed
<1>9. CASE Deliver
  <2>1. UNCHANGED <<eventQueue, eventWork>> /\ seen' \cup feed' = seen \cup feed
    BY <1>9 DEF Deliver, Receive
  <2> QED
    BY <1>2, <2>1 DEF Coming, Queued, Undistributed
<1>10. ~CrashMonolith
  BY <1>1 DEF CrashMonolith
<1>11. ASSUME NEW n \in Nodes, CrashAccountant(n) PROVE Coming(i)'
  <2>1. ~Local
    <3>1. ASSUME Local PROVE FALSE
      <4>1. accountants = {Gateway}
        BY <3>1, NodesAssumption DEF Local, SetupOK
      <4> QED
        BY <1>11, <4>1 DEF CrashAccountant
    <3> QED
      BY <3>1
  <2>2. UNCHANGED <<seen, feed>> /\ eventQueue'["gateway"] = eventQueue["gateway"]
    BY <1>11 DEF CrashAccountant, TypeInv, DataOK, Groups
  <2> QED
    BY <1>2, <2>1, <2>2 DEF Coming, Queued
<1>12. \/ UNCHANGED <<eventQueue, eventWork, seen, feed>>
       \/ \E r \in Requests : PublishEvent(r)
       \/ \E n \in Nodes : HandleEvent(n) \/ CrashAccountant(n)
       \/ Forward \/ Deliver \/ CrashMonolith
  BY Zenon DEF Next, vars, Post, Subscribe, TakeCommand, HandleCommand, MergeForCommand, Save,
     CreateAccount, DepositFunds, WithdrawFunds, InvalidWithdrawal, CommandRejects, EndCommand
<1> QED
  BY <1>3, <1>4, <1>5, <1>6, <1>7, <1>8, <1>9, <1>10, <1>11, <1>12 DEF HandleEvent

(* Who has seen something has subscribed, and who waited has seen something.*)
LEMMA SubscriptionStays ==
    ASSUME SetupOK, TypeInv, ServedInv, [Next]_vars, ~(InMemory /\ crashes' > 0)
    PROVE  seen' \cup patient' # {} => subscribed'
<1>1. ~CrashMonolith
  BY DEF CrashMonolith, TypeInv, DataOK
<1>2. seen \cup patient # {} => subscribed
  BY DEF ServedInv
<1>3. CASE UNCHANGED <<seen, patient, subscribed>> \/ Subscribe
  BY <1>2, <1>3 DEF Subscribe
<1>4. ASSUME NEW r \in Requests, Post(r) PROVE seen' \cup patient' # {} => subscribed'
  BY <1>2, <1>4 DEF Post, SeesCreation
<1>5. CASE Forward \/ Deliver \/ \E n \in Nodes : Distribute(n)
  <2>1. UNCHANGED <<patient, subscribed>> /\ (seen' = seen \/ \E i : seen' = seen \cup Receive(i))
    BY <1>5 DEF Forward, Deliver, Distribute
  <2> QED
    BY <1>2, <2>1 DEF Receive
<1>6. \/ UNCHANGED <<seen, patient, subscribed>> \/ Subscribe \/ Forward \/ Deliver \/ CrashMonolith
      \/ \E r \in Requests : Post(r)
      \/ \E n \in Nodes : Distribute(n)
  BY Zenon DEF Next, vars, TakeCommand, HandleCommand, MergeForCommand, Save, CreateAccount,
     DepositFunds, WithdrawFunds, InvalidWithdrawal, CommandRejects, EndCommand, PublishEvent,
     HandleEvent, TakeEvent, MergeForEvent, Project, HandlerRejects, EndEvent, CrashAccountant
<1> QED
  BY <1>1, <1>3, <1>4, <1>5, <1>6

(* How far a step takes the commands. *)
LEMMA PhaseSteps ==
    ASSUME SetupOK, TypeInv, QueueInv, [Next]_vars, ~(InMemory /\ crashes' > 0), NEW r \in Requests
    PROVE  \/ work'[r].phase \in {"queued", "started", "merged", "failed", "stuck"}
           \/ /\ work'[r].phase = work[r].phase /\ work'[r].event = work[r].event
              /\ r \in patient' => r \in patient
           \/ /\ work'[r].phase = "stored" /\ work'[r].event = Len(store')
              /\ store'[Len(store')].req = r
           \/ work[r].phase = "published" /\ work'[r].phase = "done" /\ patient' = patient
           \/ PublishEvent(r) /\ work[r].phase = "stored" /\ patient' = patient
<1>1. work \in [Requests -> CommandWork]
  BY DEF TypeInv, DataOK
<1>2. ~CrashMonolith
  BY DEF CrashMonolith, TypeInv, DataOK
<1>3. CASE UNCHANGED <<work, patient>>
  BY <1>3
<1>4. ASSUME NEW q \in Requests, Post(q)
      PROVE  \/ work'[r].phase \in {"queued", "started"}
             \/ work'[r] = work[r] /\ (r \in patient' => r \in patient)
  BY <1>1, <1>4 DEF Post, Execute, CommandWork
<1>5. ASSUME NEW n \in Nodes, TakeCommand(n)
      PROVE  work'[r].phase = "started" \/ (work'[r] = work[r] /\ patient' = patient)
  BY <1>1, <1>5 DEF TakeCommand, CommandWork
<1>6. ASSUME NEW n \in Nodes, CrashAccountant(n)
      PROVE  work'[r].phase = "queued" \/ (work'[r] = work[r] /\ patient' = patient)
  BY <1>1, <1>6 DEF CrashAccountant, Abandoned, CommandWork
<1>7. ASSUME NEW q \in Requests, HandleCommand(q), q # r PROVE work'[r] = work[r] /\ patient' = patient
  BY <1>1, <1>7 DEF HandleCommand, MergeForCommand, Save, CreateAccount, DepositFunds,
     WithdrawFunds, InvalidWithdrawal, CommandRejects, PublishEvent, EndCommand
<1>8. CASE MergeForCommand(r)
  BY <1>1, <1>8 DEF MergeForCommand, CommandWork
<1>9. ASSUME NEW kind \in Kinds, Save(r, kind)
      PROVE  work'[r].phase = "stored" /\ work'[r].event = Len(store') /\ store'[Len(store')].req = r
  <2>1. Len(store') = Len(store) + 1 /\ store'[Len(store')] = [kind |-> kind, req |-> r]
    BY <1>9, StoreGrows
  <2> QED
    BY <1>1, <1>9, <2>1 DEF Save, CommandWork
<1>10. CASE PublishEvent(r)
  BY <1>10 DEF PublishEvent
<1>11. CASE EndCommand(r)
  BY <1>1, <1>11 DEF EndCommand, CommandWork
<1>12. CASE CommandRejects(r)
  BY <1>1, <1>12 DEF CommandRejects, CommandWork
<1>13. CASE HandleCommand(r)
  BY <1>8, <1>9, <1>10, <1>11, <1>12, <1>13 DEF HandleCommand, DepositFunds, WithdrawFunds,
     InvalidWithdrawal, CreateAccount, Kinds
<1>14. \/ UNCHANGED <<work, patient>> \/ CrashMonolith
       \/ \E q \in Requests : Post(q) \/ HandleCommand(q)
       \/ \E n \in Nodes : TakeCommand(n) \/ CrashAccountant(n)
  BY Zenon DEF Next, vars, Subscribe, HandleEvent, TakeEvent, MergeForEvent, Project,
     HandlerRejects, Distribute, EndEvent, Forward, Deliver
<1> QED
  BY <1>2, <1>3, <1>4, <1>5, <1>6, <1>7, <1>13, <1>14

LEMMA ServedStays ==
    ASSUME SetupOK, TypeInv, QueueInv, ServedInv, [Next]_vars, ~(InMemory /\ crashes' > 0)
    PROVE  ServedInv'
<1>1. /\ Len(store) \in Nat /\ Len(store') \in Nat /\ Len(store) <= Len(store')
      /\ \A i \in 1..Len(store) : i \in 1..Len(store') /\ store'[i] = store[i]
  <2>1. Len(store) \in Nat
    BY DEF TypeInv, DataOK
  <2> QED
    BY <2>1, StoreStays
<1>2. patient' \subseteq Requests /\ patient \subseteq Requests
  BY TypesStay DEF TypeInv, DataOK
<1>3. seen' \cup patient' # {} => subscribed'
  BY SubscriptionStays
<1>4. ASSUME NEW r \in Requests, work'[r].phase = "stored" PROVE store'[work'[r].event].req = r
  <2>1. CASE work'[r].event = Len(store') /\ store'[Len(store')].req = r
    BY <2>1
  <2>2. CASE work'[r].phase = work[r].phase /\ work'[r].event = work[r].event
    BY <1>1, <1>4, <2>2 DEF ServedInv, TypeInv, EventsAreStored
  <2>3. ~PublishEvent(r)
    BY <1>4 DEF PublishEvent, TypeInv, DataOK, CommandWork
  <2> QED
    BY <1>4, <2>1, <2>2, <2>3, PhaseSteps
<1>5. \A r \in patient' : work'[r].phase \notin {"new", "lost"}
  <2>1. \A r \in Requests : PublishEvent(r) => work'[r].phase \in {"published", "done"}
    BY DEF PublishEvent, TypeInv, DataOK, CommandWork
  <2> QED
    BY <1>2, <2>1, PhaseSteps DEF ServedInv
<1>6. ASSUME NEW r \in patient', work'[r].phase \in {"published", "done"}
      PROVE  \E i \in 1..Len(store') : store'[i].req = r /\ Coming(i)'
  <2>1. r \in Requests
    BY <1>2
  <2>2. CASE PublishEvent(r) /\ work[r].phase = "stored"
    <3>1. work[r].event \in 1..Len(store) /\ store[work[r].event].req = r
      BY <2>1, <2>2 DEF ServedInv, TypeInv, EventsAreStored
    <3>2. \A i : i = work[r].event => Coming(i)'
      BY <2>1, <2>2, PublishedIsComing
    <3> QED
      BY <1>1, <3>1, <3>2
  <2>3. CASE r \in patient /\ work[r].phase \in {"published", "done"}
    <3>1. PICK i \in 1..Len(store) : store[i].req = r /\ Coming(i)
      BY <2>3 DEF ServedInv
    <3>2. subscribed
      BY <2>3 DEF ServedInv
    <3>3. Coming(i)'
      BY <3>1, <3>2, ComingIsKept
    <3> QED
      BY <1>1, <3>1, <3>3
  <2> QED
    BY <1>6, <2>1, <2>2, <2>3, PhaseSteps
<1> QED
  BY <1>2, <1>3, <1>4, <1>5, <1>6 DEF ServedInv

(* When nothing is left to do, a client that waited has seen what became   *)
(* of its requests, but for those whose command failed, unless the process *)
(* with its subscription died.                                             *)
THEOREM PatientClientsAreServed == Spec => []PatientIsServed
<1> DEFINE Inv == SetupOK /\ TypeInv /\ QueueInv /\ (Undisturbed => ServedInv)
<1>1. Init => Inv
  <2> SUFFICES ASSUME Init PROVE Inv
    OBVIOUS
  <2>1. SetupOK /\ TypeInv /\ QueueInv
    BY InitialProjection, InitialWaiting DEF IInv, WInv
  <2>2. ServedInv
    BY DEF Init, ServedInv
  <2> QED
    BY <2>1, <2>2
<1>2. Inv /\ [Next]_vars => Inv'
  <2> SUFFICES ASSUME Inv, [Next]_vars PROVE Inv'
    OBVIOUS
  <2>1. SetupOK' /\ TypeInv' /\ QueueInv' /\ (InMemory' <=> InMemory)
    BY SetupStays, TypesStay, QueueStays DEF InMemory, setup
  <2>2. crashes \in Nat /\ (crashes' = crashes \/ crashes' = crashes + 1)
    <3>1. crashes \in Nat
      BY DEF TypeInv, DataOK
    <3> QED
      BY <3>1, Zenon DEF Next, vars, Post, Subscribe, TakeCommand, HandleCommand, MergeForCommand,
         Save, CreateAccount, DepositFunds, WithdrawFunds, InvalidWithdrawal, CommandRejects,
         PublishEvent, EndCommand, HandleEvent, TakeEvent, MergeForEvent, Project, HandlerRejects,
         Distribute, EndEvent, Forward, Deliver, CrashMonolith, CrashAccountant
  <2>3. Undisturbed' => Undisturbed /\ ~(InMemory /\ crashes' > 0)
    BY <2>1, <2>2 DEF Undisturbed
  <2> QED
    BY <2>1, <2>3, ServedStays
<1>3. Inv => PatientIsServed
  <2> SUFFICES ASSUME Inv, AtRest, feed = {}, NEW r \in patient, Undisturbed
               PROVE  (\E i \in seen : store[i].req = r) \/ work[r].phase = "failed"
    BY DEF PatientIsServed, Undisturbed
  <2>1. r \in Requests
    BY DEF TypeInv, DataOK
  <2>2. SUFFICES ASSUME work[r].phase = "done" PROVE \E i \in seen : store[i].req = r
    BY <2>1 DEF AtRest, ServedInv
  <2>3. PICK i \in 1..Len(store) : store[i].req = r /\ Coming(i)
    BY <2>2 DEF ServedInv
  <2>4. \A n \in Nodes : ~Undistributed(n)
    BY DEF AtRest, Undistributed
  <2>5. ~Queued("account", i) /\ ~Queued("gateway", i)
    BY DEF AtRest, Queued, IsIn, Groups
  <2> QED
    BY <2>3, <2>4, <2>5 DEF Coming
<1> QED
  BY <1>1, <1>2, <1>3, PTL DEF Spec

-----------------------------------------------------------------------------
(* The balance, a fold over the stream: an event that is appended is       *)
(* applied to the balance so far.                                          *)
Balances == SUBSET Int
ApplyStep == [p \in Balances \X Event |-> Apply(p[1], p[2])]

LEMMA ApplyType ==
    ASSUME NEW b \in Balances, NEW e \in Event
    PROVE  Apply(b, e) \in Balances /\ ApplyStep[<<b, e>>] = Apply(b, e)
<1>1. Apply(b, e) \in Balances
  BY BoundsAssumption DEF Event, Kinds, Apply, Change, Balances
<1> QED
  BY <1>1 DEF ApplyStep

LEMMA ApplyStepType == ApplyStep \in [Balances \X Event -> Balances]
<1>1. \A p \in Balances \X Event : Apply(p[1], p[2]) \in Balances
  BY ApplyType
<1> QED
  BY <1>1 DEF ApplyStep

IsBalance(g, s) ==
    g = [S \in SUBSET DOMAIN s |-> IF S = {} THEN {} ELSE Apply(g[S \ {Max(S)}], s[Max(S)])]

LEMMA BalanceIsFold == ASSUME NEW s PROVE Balance(s) = (CHOOSE g : IsBalance(g, s))[DOMAIN s]
BY Zenon DEF Balance, FoldLeft, MapThenFoldSet, IsBalance

(* The recursive function that Balance chooses exists. *)
LEMMA BalanceSteps ==
    ASSUME NEW s \in Seq(Event)
    PROVE  \E f : Steps(f, Balances, ApplyStep, {}, s) /\ f[Len(s)] = Balance(s)
<1>0. {} \in Balances
  BY DEF Balances
<1>1. PICK g : FoldOver(g, Balances, ApplyStep, {}, s, Len(s))
  BY ApplyStepType, FoldExists, <1>0, Zenon
<1>2. DOMAIN s = 1..Len(s)
  OBVIOUS
<1>3. IsBalance(g, s)
  <2>1. ASSUME NEW S \in SUBSET DOMAIN s, S # {}
        PROVE  ApplyStep[<<g[S \ {Max(S)}], s[Max(S)]>>] = Apply(g[S \ {Max(S)}], s[Max(S)])
    <3>1. Max(S) \in DOMAIN s
      BY <2>1, <1>2, MaxOfIndices, Len(s) \in Nat
    <3>2. s[Max(S)] \in Event
      BY <3>1
    <3>3. S \ {Max(S)} \in SUBSET (1..Len(s))
      BY <1>2
    <3>4. g[S \ {Max(S)}] \in Balances
      BY <3>3, <1>1 DEF FoldOver
    <3> QED
      BY <3>2, <3>4, ApplyType
  <2> QED
    BY <1>1, <1>2, <2>1 DEF FoldOver, IsBalance
<1> DEFINE h == CHOOSE x : IsBalance(x, s)
<1>4. IsBalance(h, s)
  BY <1>3, Zenon
<1> HIDE DEF h
<1>5. h[{}] = {}
  BY <1>4 DEF IsBalance
<1>6. ASSUME NEW k \in Nat, k < Len(s), h[1..k] \in Balances
      PROVE  h[1..(k + 1)] = ApplyStep[<<h[1..k], s[k + 1]>>]
  <2>1. Max(1..(k + 1)) = k + 1 /\ (1..(k + 1)) \ {k + 1} = 1..k /\ 1..(k + 1) # {}
    BY Segments
  <2>2. 1..(k + 1) \in SUBSET DOMAIN s /\ s[k + 1] \in Event
    BY <1>6
  <2>3. h[1..(k + 1)] = Apply(h[(1..(k + 1)) \ {Max(1..(k + 1))}], s[Max(1..(k + 1))])
    BY <1>4, <2>1, <2>2 DEF IsBalance
  <2> QED
    <3>1. h[1..(k + 1)] = Apply(h[1..k], s[k + 1])
      BY <2>1, <2>3
    <3> QED
      BY <3>1, <1>6, <2>2, ApplyType
<1>7. {} \in Balances
  BY DEF Balances
<1>8. FoldsOnSegments(h, Balances, Event, ApplyStep, {}, s)
  BY <1>5, <1>6, <1>7, ApplyStepType DEF FoldsOnSegments
<1>9. h[1..Len(s)] = Balance(s)
  BY BalanceIsFold, <1>2 DEF h
<1> QED
  BY <1>8, <1>9, FoldSteps

LEMMA BalanceOfNothing == Balance(<<>>) = {}
<1>1. PICK f : Steps(f, Balances, ApplyStep, {}, <<>>) /\ f[Len(<<>>)] = Balance(<<>>)
  BY BalanceSteps, <<>> \in Seq(Event)
<1> QED
  BY <1>1, Len(<<>>) = 0 DEF Steps

LEMMA BalanceAppended ==
    ASSUME NEW s \in Seq(Event), NEW e \in Event
    PROVE  Balance(Append(s, e)) = Apply(Balance(s), e) /\ Balance(s) \in Balances
<1> DEFINE t == Append(s, e)
<1>1. t \in Seq(Event) /\ Len(t) = Len(s) + 1 /\ t[Len(s) + 1] = e /\ Len(s) \in Nat
      /\ \A i \in 1..Len(s) : s[i] = t[i]
  OBVIOUS
<1>2. PICK f : Steps(f, Balances, ApplyStep, {}, s) /\ f[Len(s)] = Balance(s)
  BY BalanceSteps
<1>3. PICK g : Steps(g, Balances, ApplyStep, {}, t) /\ g[Len(t)] = Balance(t)
  BY BalanceSteps, <1>1
<1> HIDE DEF t
<1>4. g[Len(s)] = f[Len(s)]
  <2>1. Prolongs(t, s, Event)
    BY <1>1 DEF Prolongs
  <2>2. \A k \in 0..Len(s) : f[k] = g[k]
    BY <2>1, <1>2, <1>3, StepsAgree
  <2> QED
    BY <2>2, <1>1
<1>5. g[Len(t)] = ApplyStep[<<g[Len(s)], e>>]
  <2>1. Len(t) \in 1..Len(t) /\ Len(t) - 1 = Len(s)
    BY <1>1
  <2> QED
    BY <2>1, <1>1, <1>3 DEF Steps
<1>6. f[Len(s)] \in Balances
  BY <1>1, <1>2 DEF Steps
<1> QED
  BY <1>2, <1>3, <1>4, <1>5, <1>6, ApplyType DEF t
-----------------------------------------------------------------------------
(* Where commands come to one process through the publisher, one is in     *)
(* progress at a time, so what its handler has merged is the whole stream. *)
Serial == ~Local /\ ~Shared

SerialInv ==
    /\ \A r \in Requests : InProgress(r) => work[r].node \in accountants
    /\ \A q, r \in Requests : InProgress(q) /\ InProgress(r) => q = r
    /\ \A r \in Requests : work[r].phase = "merged" => work[r].view = Len(store)
    /\ \A b \in Balance(store) : b >= 0

LEMMA SerialSave ==
    ASSUME TypeInv, SerialInv, NEW r \in Requests, work[r].phase = "merged", NEW kind \in Kinds,
           Save(r, kind), kind = "FundsWithdrawn" => r \in Withdrawals /\ ~Overdraws(r)
    PROVE  SerialInv'
<1>1. work \in [Requests -> CommandWork] /\ store \in Seq(Event) /\ Len(store) \in Nat
  BY DEF TypeInv, DataOK
<1>2. InProgress(r) /\ \A q \in Requests : q # r => ~InProgress(q)
  BY DEF InProgress, SerialInv
<1>3. /\ work'[r].phase = "stored" /\ work'[r].node = work[r].node
      /\ \A q \in Requests : q # r => work'[q] = work[q]
      /\ accountants' = accountants
  BY <1>1 DEF Save, CommandWork, setup
<1>4. \A q \in Requests : q # r => work[q].phase # "merged"
  BY <1>2 DEF InProgress
<1>5. \A b \in Balance(store') : b >= 0
  <2> DEFINE e == [kind |-> kind, req |-> r]
  <2>1. e \in Event /\ e.kind = kind /\ store' = Append(store, e)
    BY DEF Event, Save
  <2> HIDE DEF e
  <2>2. Balance(store') = Apply(Balance(store), e) /\ Balance(store) \in SUBSET Int
    BY <1>1, <2>1, BalanceAppended DEF Balances
  <2>3. Start \in Nat
    BY BoundsAssumption
  <2>4. CASE kind = "FundsWithdrawn"
    <3>1. View(work[r].view) = store
      BY <1>1 DEF SerialInv, View
    <3>2. \A b \in Balance(store) : b - 1 >= 0
      BY <2>2, <2>4, <3>1 DEF Overdraws
    <3> QED
      BY <2>1, <2>2, <2>4, <3>2 DEF Apply, Change
  <2>5. CASE kind # "FundsWithdrawn"
    <3>1. kind = "AccountCreated" \/ Change[kind] \in {0, 1}
      BY <2>5 DEF Kinds, Change
    <3> QED
      BY <2>1, <2>2, <2>3, <3>1 DEF Apply, SerialInv
  <2> QED
    BY <2>4, <2>5
<1> QED
  BY <1>1, <1>2, <1>3, <1>4, <1>5 DEF SerialInv, InProgress

LEMMA SerialStays ==
    ASSUME SetupOK, Serial, TypeInv, SerialInv, [Next]_vars PROVE SerialInv'
<1>1. work \in [Requests -> CommandWork] /\ store \in Seq(Event)
  BY DEF TypeInv, DataOK
<1>2. UNCHANGED setup /\ ~Local /\ ~InMemory /\ accountants' = accountants
  BY SetupStays DEF Serial, SetupOK, PublisherTypes, InMemory, setup
<1>3. CASE UNCHANGED <<work, store>>
  BY <1>2, <1>3 DEF SerialInv, InProgress
<1>4. ASSUME NEW r \in Requests, Post(r) PROVE SerialInv'
  <2>1. work' = [work EXCEPT ![r].phase = "queued"] /\ UNCHANGED store
    BY <1>2, <1>4 DEF Post, Execute
  <2> QED
    BY <1>1, <1>2, <2>1 DEF SerialInv, InProgress, CommandWork
<1>5. ASSUME NEW n \in Nodes, TakeCommand(n) PROVE SerialInv'
  <2>1. Head(commandQueue) \in Requests /\ n \in accountants
    BY <1>5 DEF TakeCommand, TypeInv, DataOK
  <2>2. PICK r \in Requests : r = Head(commandQueue)
    BY <2>1
  <2>3. \A q \in Requests : ~InProgress(q)
    BY <1>5, <2>1, OneProcess DEF TakeCommand, SerialInv, Serial
  <2>4. /\ UNCHANGED store
        /\ work'[r].phase = "started" /\ work'[r].node = n
        /\ \A q \in Requests : q # r => work'[q] = work[q]
    BY <1>1, <1>5, <2>2 DEF TakeCommand, CommandWork
  <2> QED
    BY <1>2, <2>1, <2>3, <2>4 DEF SerialInv, InProgress
<1>6. ASSUME NEW r \in Requests, HandleCommand(r) PROVE SerialInv'
  <2>1. CASE MergeForCommand(r)
    <3>1. /\ UNCHANGED store /\ work[r].phase = "started"
          /\ work'[r].phase = "merged" /\ work'[r].node = work[r].node /\ work'[r].view = Len(store)
          /\ \A q \in Requests : q # r => work'[q] = work[q]
      BY <1>1, <2>1 DEF MergeForCommand, CommandWork
    <3> QED
      BY <1>2, <3>1 DEF SerialInv, InProgress
  <2>2. CASE PublishEvent(r) \/ EndCommand(r)
    <3>1. /\ UNCHANGED store /\ work[r].phase \in {"stored", "published"}
          /\ work'[r].phase \in {"published", "done"} /\ work'[r].node = work[r].node
          /\ \A q \in Requests : q # r => work'[q] = work[q]
      BY <1>1, <2>2 DEF PublishEvent, EndCommand, CommandWork
    <3> QED
      BY <1>2, <3>1 DEF SerialInv, InProgress
  <2>3. CASE \E kind \in Kinds : /\ work[r].phase = "merged" /\ Save(r, kind)
                                 /\ kind = "FundsWithdrawn" => r \in Withdrawals /\ ~Overdraws(r)
    BY <2>3, SerialSave
  <2>4. CASE CommandRejects(r)
    <3>1. /\ UNCHANGED store /\ work[r].phase \in {"started", "merged"}
          /\ work'[r].phase \in {"failed", "stuck"} /\ work'[r].node = work[r].node
          /\ \A q \in Requests : q # r => work'[q] = work[q]
      BY <1>1, <2>4 DEF CommandRejects, CommandWork
    <3> QED
      BY <1>2, <3>1 DEF SerialInv, InProgress
  <2> QED
    BY <1>6, <2>1, <2>2, <2>3, <2>4 DEF HandleCommand, DepositFunds, WithdrawFunds,
       InvalidWithdrawal, CreateAccount, Kinds
<1>7. ~CrashMonolith
  BY <1>2 DEF CrashMonolith
<1>8. ASSUME NEW n \in Nodes, CrashAccountant(n) PROVE FALSE
  <2>1. n \in accountants \ dead /\ accountants \ dead # {n}
    BY <1>8 DEF CrashAccountant
  <2> QED
    BY <2>1, OneProcess DEF Serial
<1>9. \/ UNCHANGED <<work, store>>
      \/ CrashMonolith
      \/ \E r \in Requests : Post(r) \/ HandleCommand(r)
      \/ \E n \in Nodes : TakeCommand(n) \/ CrashAccountant(n)
  BY Zenon DEF Next, vars, Subscribe, HandleEvent, TakeEvent, MergeForEvent, Project,
     HandlerRejects, Distribute, EndEvent, Forward, Deliver
<1> QED
  BY <1>3, <1>4, <1>5, <1>6, <1>7, <1>8, <1>9

(* The check of WithdrawFundsHandler is sound where commands come to one   *)
(* process through the publisher: the balance of the stream, as the @Apply *)
(* methods compute it, is never negative.                                  *)
THEOREM OneProcessNeverOverdraws == Spec => []SerialNeverOverdrawn
<1> DEFINE Inv == SetupOK /\ TypeInv /\ (Serial => SerialInv)
<1>1. Init => Inv
  <2> SUFFICES ASSUME Init PROVE Inv
    OBVIOUS
  <2>1. SetupOK /\ TypeInv
    BY InitialProjection DEF IInv
  <2>2. Balance(store) = {}
    BY BalanceOfNothing DEF Init
  <2>3. SerialInv
    BY <2>2 DEF Init, SerialInv, InProgress
  <2> QED
    BY <2>1, <2>3
<1>2. Inv /\ [Next]_vars => Inv'
  <2> SUFFICES ASSUME Inv, [Next]_vars PROVE Inv'
    OBVIOUS
  <2>1. SetupOK' /\ TypeInv' /\ (Serial' <=> Serial)
    BY SetupStays, TypesStay DEF Serial, Local, Shared, setup
  <2> QED
    BY <2>1, SerialStays
<1>3. Inv => SerialNeverOverdrawn
  BY DEF SerialInv, SerialNeverOverdrawn, Serial
<1> QED
  BY <1>1, <1>2, <1>3, PTL DEF Spec
=============================================================================
