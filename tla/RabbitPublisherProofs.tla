----------------------- MODULE RabbitPublisherProofs -----------------------
(***************************************************************************)
(* Proofs about RabbitPublisher, for any nodes, consumers and messages:    *)
(* what reached the queue is not lost, runs twice only after it was        *)
(* returned, and is acknowledged on the channel it came from as long as    *)
(* that channel has rejected nothing.                                      *)
(***************************************************************************)
EXTENDS RabbitPublisher, TLAPS

(* What a publisher knows of the messages it runs.  Only a rejected or     *)
(* returned message runs without the broker waiting for it.                *)
RunsAreAwaited(p) ==
    \A m \in Messages : p.running[m] > 0 /\ m \notin returned
                          => m \in p.unacked /\ m \in p.active /\ p.running[m] = 1

ChannelInv(p) ==
    /\ p.consuming \/ p.unacked # {} \/ p.outgoing # {} => p.channel = "open"
    /\ p.hook = "closed" => p.channel = "closed"
    /\ p.channel = "none" => p.active = {}
    /\ \A m1, m2 \in p.unacked : m1 = m2
    /\ p.channel = "open" /\ ~p.refused
         => \A m \in p.active : p.running[m] > 0 => m \in p.unacked

(* A message is in one place, and was published if it is in any. *)
Lost == unrouted \cup cut

PlaceInv(n) ==
    /\ \A m \in node[n].unacked : m \notin queue \cup Lost
    /\ \A m \in node[n].outgoing : m \notin queue \cup Lost \cup handled
    /\ \A m \in Messages : node[n].running[m] > 0
         => m \in published /\ m \notin Lost /\ \A k \in Nodes : m \notin node[k].outgoing
    /\ \A m \in node[n].unacked : \A k \in Nodes :
         m \notin node[k].outgoing /\ (m \in node[k].unacked => k = n)
    /\ \A m \in node[n].outgoing : \A k \in Nodes : m \in node[k].outgoing => k = n
    /\ node[n].unacked \cup node[n].outgoing \subseteq published
    /\ \A m \in node[n].unacked : m \notin returned => m \notin handled

GlobalInv ==
    /\ queue \cup Lost \cup handled \subseteq published
    /\ Lost \cap (queue \cup handled) = {}
    /\ \A m \in queue : m \notin returned => m \notin handled
    /\ \A m \in published :
         \/ m \in handled \cup queue \cup Lost
         \/ \E n \in Nodes : m \in node[n].unacked \/ m \in node[n].outgoing

IInv ==
    /\ TypeOK
    /\ GlobalInv
    /\ \A n \in Nodes : RunsAreAwaited(node[n]) /\ ChannelInv(node[n]) /\ PlaceInv(n)

LEMMA Initially == Init => IInv
<1> SUFFICES ASSUME Init PROVE IInv
  OBVIOUS
<1>1. \A n \in Nodes : node[n] = NewPublisher
  BY DEF Init
<1>2. NewPublisher \in Publisher
  BY BoundsAssumption DEF NewPublisher, Publisher, Hooks
<1>3. /\ NewPublisher.unacked = {} /\ NewPublisher.outgoing = {} /\ NewPublisher.active = {}
      /\ NewPublisher.hook = "created" /\ NewPublisher.channel = "none"
  BY Zenon DEF NewPublisher
<1>4. ~NewPublisher.consuming
  BY Zenon DEF NewPublisher
<1>5. \A m \in Messages : NewPublisher.running[m] = 0
  BY Zenon DEF NewPublisher
<1>6. TypeOK
  <2>1. node \in [Nodes -> Publisher]
    BY <1>1, <1>2 DEF Init
  <2>2. bound \in BOOLEAN
    BY Zenon DEF Init
  <2>3. interruptions \in 0..MaxInterruptions
    BY BoundsAssumption DEF Init
  <2> QED
    BY <2>1, <2>2, <2>3 DEF Init, TypeOK
<1>7. /\ queue = {} /\ published = {} /\ unrouted = {} /\ cut = {} /\ returned = {} /\ handled = {}
  BY Zenon DEF Init
<1>8. \A n \in Nodes : /\ node[n].unacked = {} /\ node[n].outgoing = {} /\ node[n].active = {}
                       /\ \A m \in Messages : node[n].running[m] = 0
  BY <1>1, <1>3, <1>5
<1>9. \A n \in Nodes : RunsAreAwaited(node[n])
  BY <1>8 DEF RunsAreAwaited
<1>10. \A n \in Nodes : PlaceInv(n)
  <2> SUFFICES ASSUME NEW n \in Nodes PROVE PlaceInv(n)
    OBVIOUS
  <2>1. \A m \in Messages : ~(node[n].running[m] > 0)
    BY <1>8
  <2> QED
    BY <1>8, <2>1, Zenon DEF PlaceInv
<1>11. ChannelInv(NewPublisher)
  BY <1>2, <1>3, <1>4 DEF ChannelInv, Publisher
<1>12. GlobalInv
  BY <1>7 DEF GlobalInv, Lost
<1> QED
  BY <1>1, <1>6, <1>12, <1>9, <1>10, <1>11 DEF IInv

LEMMA BootstrapStep ==
    ASSUME IInv, NEW n \in Nodes, Bootstrap(n) PROVE IInv'
<1>1. node[n] \in Publisher /\ node \in [Nodes -> Publisher]
  BY DEF IInv, TypeOK
<1>2. \A k \in Nodes : k # n => node'[k] = node[k]
  BY <1>1 DEF Bootstrap
<1>3. TypeOK'
  BY <1>1, BoundsAssumption DEF Bootstrap, IInv, TypeOK, Publisher, Hooks
<1>4. GlobalInv'
  <2>1. \A k \in Nodes : node'[k].unacked = node[k].unacked /\ node'[k].outgoing = node[k].outgoing
    BY <1>1 DEF Bootstrap, Publisher
  <2> QED
    BY <2>1 DEF Bootstrap, IInv, GlobalInv, Lost
<1>5. \A k \in Nodes : RunsAreAwaited(node[k])'
  BY <1>1, <1>2 DEF Bootstrap, IInv, RunsAreAwaited, ChannelInv, PlaceInv, GlobalInv, Publisher
<1>6. \A k \in Nodes : ChannelInv(node[k])'
  BY <1>1, <1>2 DEF Bootstrap, IInv, ChannelInv, RunsAreAwaited, Publisher
<1>7. \A k \in Nodes : PlaceInv(k)'
  BY <1>1, <1>2 DEF Bootstrap, IInv, PlaceInv, GlobalInv, RunsAreAwaited, ChannelInv, Lost, TypeOK, Publisher
<1> QED
  BY <1>3, <1>4, <1>5, <1>6, <1>7 DEF IInv

LEMMA OpenChannelStep ==
    ASSUME IInv, NEW n \in Nodes, OpenChannel(n) PROVE IInv'
<1>1. node[n] \in Publisher /\ node \in [Nodes -> Publisher]
  BY DEF IInv, TypeOK
<1>2. \A k \in Nodes : k # n => node'[k] = node[k]
  BY <1>1 DEF OpenChannel
<1>3. TypeOK'
  BY <1>1, BoundsAssumption DEF OpenChannel, IInv, TypeOK, Publisher, Hooks
<1>4. GlobalInv'
  BY <1>1, <1>2 DEF OpenChannel, IInv, GlobalInv, PlaceInv, ChannelInv, Lost, TypeOK, Publisher
<1>5. \A k \in Nodes : RunsAreAwaited(node[k])'
  BY <1>1, <1>2 DEF OpenChannel, IInv, RunsAreAwaited, ChannelInv, PlaceInv, GlobalInv, Publisher
<1>6. \A k \in Nodes : ChannelInv(node[k])'
  BY <1>1, <1>2 DEF OpenChannel, IInv, ChannelInv, RunsAreAwaited, Publisher
<1>7. \A k \in Nodes : PlaceInv(k)'
  BY <1>1, <1>2 DEF OpenChannel, IInv, PlaceInv, GlobalInv, RunsAreAwaited, ChannelInv, Lost, TypeOK, Publisher
<1> QED
  BY <1>3, <1>4, <1>5, <1>6, <1>7 DEF IInv

LEMMA ConsumeStep ==
    ASSUME IInv, NEW n \in Nodes, Consume(n) PROVE IInv'
<1>1. node[n] \in Publisher /\ node \in [Nodes -> Publisher]
  BY DEF IInv, TypeOK
<1>2. \A k \in Nodes : k # n => node'[k] = node[k]
  BY <1>1 DEF Consume
<1>3. TypeOK'
  BY <1>1, BoundsAssumption DEF Consume, IInv, TypeOK, Publisher, Hooks
<1>4. GlobalInv'
  BY <1>1, <1>2 DEF Consume, IInv, GlobalInv, PlaceInv, ChannelInv, Lost, TypeOK, Publisher
<1>5. \A k \in Nodes : RunsAreAwaited(node[k])'
  BY <1>1, <1>2 DEF Consume, IInv, RunsAreAwaited, ChannelInv, PlaceInv, GlobalInv, Publisher
<1>6. \A k \in Nodes : ChannelInv(node[k])'
  BY <1>1, <1>2 DEF Consume, IInv, ChannelInv, RunsAreAwaited, Publisher
<1>7. \A k \in Nodes : PlaceInv(k)'
  BY <1>1, <1>2 DEF Consume, IInv, PlaceInv, GlobalInv, RunsAreAwaited, ChannelInv, Lost, TypeOK, Publisher
<1> QED
  BY <1>3, <1>4, <1>5, <1>6, <1>7 DEF IInv

LEMMA BootstrapDoneStep ==
    ASSUME IInv, NEW n \in Nodes, BootstrapDone(n) PROVE IInv'
<1>1. node[n] \in Publisher /\ node \in [Nodes -> Publisher]
  BY DEF IInv, TypeOK
<1>2. \A k \in Nodes : k # n => node'[k] = node[k]
  BY <1>1 DEF BootstrapDone
<1>3. TypeOK'
  BY <1>1, BoundsAssumption DEF BootstrapDone, IInv, TypeOK, Publisher, Hooks
<1>4. GlobalInv'
  BY <1>1, <1>2 DEF BootstrapDone, IInv, GlobalInv, PlaceInv, ChannelInv, Lost, TypeOK, Publisher
<1>5. \A k \in Nodes : RunsAreAwaited(node[k])'
  BY <1>1, <1>2 DEF BootstrapDone, IInv, RunsAreAwaited, ChannelInv, PlaceInv, GlobalInv, Publisher
<1>6. \A k \in Nodes : ChannelInv(node[k])'
  BY <1>1, <1>2 DEF BootstrapDone, IInv, ChannelInv, RunsAreAwaited, Publisher
<1>7. \A k \in Nodes : PlaceInv(k)'
  BY <1>1, <1>2 DEF BootstrapDone, IInv, PlaceInv, GlobalInv, RunsAreAwaited, ChannelInv, Lost, TypeOK, Publisher
<1> QED
  BY <1>3, <1>4, <1>5, <1>6, <1>7 DEF IInv

LEMMA ConnectionClosesStep ==
    ASSUME IInv, NEW n \in Nodes, ConnectionCloses(n) PROVE IInv'
<1>1. node[n] \in Publisher /\ node \in [Nodes -> Publisher]
  BY DEF IInv, TypeOK
<1>2. \A k \in Nodes : k # n => node'[k] = node[k]
  BY <1>1 DEF ConnectionCloses, Interrupt, LoseChannel, WithoutChannel
<1>3. TypeOK'
  <2>1. node'[n] \in Publisher
    BY <1>1, BoundsAssumption DEF ConnectionCloses, Interrupt, LoseChannel, WithoutChannel, IInv, Publisher, Hooks
  <2>2. node' \in [Nodes -> Publisher]
    BY <1>1, <1>2, <2>1 DEF ConnectionCloses, Interrupt, LoseChannel, WithoutChannel
  <2> QED
    BY <1>1, <2>2, BoundsAssumption DEF ConnectionCloses, Interrupt, LoseChannel, WithoutChannel, IInv, TypeOK, Publisher
<1>4. GlobalInv'
  BY <1>1, <1>2 DEF ConnectionCloses, Interrupt, LoseChannel, WithoutChannel, IInv, GlobalInv, PlaceInv, ChannelInv, Lost, TypeOK, Publisher
<1>5. \A k \in Nodes : RunsAreAwaited(node[k])'
  BY <1>1, <1>2 DEF ConnectionCloses, Interrupt, LoseChannel, WithoutChannel, IInv, RunsAreAwaited, ChannelInv, PlaceInv, GlobalInv, Publisher
<1>6. \A k \in Nodes : ChannelInv(node[k])'
  BY <1>1, <1>2 DEF ConnectionCloses, Interrupt, LoseChannel, WithoutChannel, IInv, ChannelInv, RunsAreAwaited, Publisher
<1>7. \A k \in Nodes : PlaceInv(k)'
  BY <1>1, <1>2 DEF ConnectionCloses, Interrupt, LoseChannel, WithoutChannel, IInv, PlaceInv, GlobalInv, RunsAreAwaited, ChannelInv, Lost, TypeOK, Publisher
<1> QED
  BY <1>3, <1>4, <1>5, <1>6, <1>7 DEF IInv

LEMMA CrashStep ==
    ASSUME IInv, NEW n \in Nodes, Crash(n) PROVE IInv'
<1>1. node[n] \in Publisher /\ node \in [Nodes -> Publisher]
  BY DEF IInv, TypeOK
<1>2. \A k \in Nodes : k # n => node'[k] = node[k]
  BY <1>1 DEF Crash, Interrupt, LoseChannel, NewPublisher
<1>3. TypeOK'
  BY <1>1, BoundsAssumption DEF Crash, Interrupt, LoseChannel, NewPublisher, IInv, TypeOK, Publisher, Hooks
<1>4. GlobalInv'
  BY <1>1, <1>2 DEF Crash, Interrupt, LoseChannel, NewPublisher, IInv, GlobalInv, PlaceInv, ChannelInv, Lost, TypeOK, Publisher
<1>5. \A k \in Nodes : RunsAreAwaited(node[k])'
  BY <1>1, <1>2 DEF Crash, Interrupt, LoseChannel, NewPublisher, IInv, RunsAreAwaited, ChannelInv, PlaceInv, GlobalInv, Publisher
<1>6. \A k \in Nodes : ChannelInv(node[k])'
  BY <1>1, <1>2 DEF Crash, Interrupt, LoseChannel, NewPublisher, IInv, ChannelInv, RunsAreAwaited, Publisher
<1>7. \A k \in Nodes : PlaceInv(k)'
  BY <1>1, <1>2 DEF Crash, Interrupt, LoseChannel, NewPublisher, IInv, PlaceInv, GlobalInv, RunsAreAwaited, ChannelInv, Lost, TypeOK, Publisher
<1> QED
  BY <1>3, <1>4, <1>5, <1>6, <1>7 DEF IInv

LEMMA ShutdownStep ==
    ASSUME IInv, NEW n \in Nodes, Shutdown(n) PROVE IInv'
<1>1. node[n] \in Publisher /\ node \in [Nodes -> Publisher]
  BY DEF IInv, TypeOK
<1>2. \A k \in Nodes : k # n => node'[k] = node[k]
  BY <1>1 DEF Shutdown, Interrupt
<1>3. TypeOK'
  <2>1. node'[n] \in Publisher
    BY <1>1, BoundsAssumption DEF Shutdown, Interrupt, IInv, Publisher, Hooks
  <2>2. node' \in [Nodes -> Publisher]
    BY <1>1, <1>2, <2>1 DEF Shutdown, Interrupt
  <2> QED
    BY <1>1, <2>2, BoundsAssumption DEF Shutdown, Interrupt, IInv, TypeOK, Publisher
<1>4. GlobalInv'
  BY <1>1, <1>2 DEF Shutdown, Interrupt, IInv, GlobalInv, PlaceInv, ChannelInv, Lost, TypeOK, Publisher
<1>5. \A k \in Nodes : RunsAreAwaited(node[k])'
  BY <1>1, <1>2 DEF Shutdown, Interrupt, IInv, RunsAreAwaited, ChannelInv, PlaceInv, GlobalInv, Publisher
<1>6. \A k \in Nodes : ChannelInv(node[k])'
  BY <1>1, <1>2 DEF Shutdown, Interrupt, IInv, ChannelInv, RunsAreAwaited, Publisher
<1>7. \A k \in Nodes : PlaceInv(k)'
  BY <1>1, <1>2 DEF Shutdown, Interrupt, IInv, PlaceInv, GlobalInv, RunsAreAwaited, ChannelInv, Lost, TypeOK, Publisher
<1> QED
  BY <1>3, <1>4, <1>5, <1>6, <1>7 DEF IInv

LEMMA CancelStep ==
    ASSUME IInv, NEW n \in Nodes, Cancel(n) PROVE IInv'
<1>1. node[n] \in Publisher /\ node \in [Nodes -> Publisher]
  BY DEF IInv, TypeOK
<1>2. \A k \in Nodes : k # n => node'[k] = node[k]
  BY <1>1 DEF Cancel
<1>3. TypeOK'
  BY <1>1, BoundsAssumption DEF Cancel, IInv, TypeOK, Publisher, Hooks
<1>4. GlobalInv'
  BY <1>1, <1>2 DEF Cancel, IInv, GlobalInv, PlaceInv, ChannelInv, Lost, TypeOK, Publisher
<1>5. \A k \in Nodes : RunsAreAwaited(node[k])'
  BY <1>1, <1>2 DEF Cancel, IInv, RunsAreAwaited, ChannelInv, PlaceInv, GlobalInv, Publisher
<1>6. \A k \in Nodes : ChannelInv(node[k])'
  BY <1>1, <1>2 DEF Cancel, IInv, ChannelInv, RunsAreAwaited, Publisher
<1>7. \A k \in Nodes : PlaceInv(k)'
  BY <1>1, <1>2 DEF Cancel, IInv, PlaceInv, GlobalInv, RunsAreAwaited, ChannelInv, Lost, TypeOK, Publisher
<1> QED
  BY <1>3, <1>4, <1>5, <1>6, <1>7 DEF IInv

LEMMA ShutdownDoneStep ==
    ASSUME IInv, NEW n \in Nodes, ShutdownDone(n) PROVE IInv'
<1>1. node[n] \in Publisher /\ node \in [Nodes -> Publisher]
  BY DEF IInv, TypeOK
<1>2. \A k \in Nodes : k # n => node'[k] = node[k]
  BY <1>1 DEF ShutdownDone, LoseChannel, WithoutChannel
<1>3. TypeOK'
  <2>1. node'[n] \in Publisher
    BY <1>1, BoundsAssumption DEF ShutdownDone, LoseChannel, WithoutChannel, IInv, Publisher, Hooks
  <2>2. node' \in [Nodes -> Publisher]
    BY <1>1, <1>2, <2>1 DEF ShutdownDone, LoseChannel, WithoutChannel
  <2> QED
    BY <1>1, <2>2, BoundsAssumption DEF ShutdownDone, LoseChannel, WithoutChannel, IInv, TypeOK, Publisher
<1>4. GlobalInv'
  BY <1>1, <1>2 DEF ShutdownDone, LoseChannel, WithoutChannel, IInv, GlobalInv, PlaceInv, ChannelInv, Lost, TypeOK, Publisher
<1>5. \A k \in Nodes : RunsAreAwaited(node[k])'
  BY <1>1, <1>2 DEF ShutdownDone, LoseChannel, WithoutChannel, IInv, RunsAreAwaited, ChannelInv, PlaceInv, GlobalInv, Publisher
<1>6. \A k \in Nodes : ChannelInv(node[k])'
  BY <1>1, <1>2 DEF ShutdownDone, LoseChannel, WithoutChannel, IInv, ChannelInv, RunsAreAwaited, Publisher
<1>7. \A k \in Nodes : PlaceInv(k)'
  BY <1>1, <1>2 DEF ShutdownDone, LoseChannel, WithoutChannel, IInv, PlaceInv, GlobalInv, RunsAreAwaited, ChannelInv, Lost, TypeOK, Publisher
<1> QED
  BY <1>3, <1>4, <1>5, <1>6, <1>7 DEF IInv

LEMMA ExitStep ==
    ASSUME IInv, NEW n \in Nodes, Exit(n) PROVE IInv'
<1>1. node[n] \in Publisher /\ node \in [Nodes -> Publisher]
  BY DEF IInv, TypeOK
<1>2. \A k \in Nodes : k # n => node'[k] = node[k]
  BY <1>1 DEF Exit, NewPublisher
<1>3. TypeOK'
  <2>1. node'[n] \in Publisher
    BY <1>1, BoundsAssumption DEF Exit, NewPublisher, IInv, Publisher, Hooks
  <2>2. node' \in [Nodes -> Publisher]
    BY <1>1, <1>2, <2>1 DEF Exit, NewPublisher
  <2> QED
    BY <1>1, <2>2, BoundsAssumption DEF Exit, NewPublisher, IInv, TypeOK, Publisher
<1>4. GlobalInv'
  BY <1>1, <1>2 DEF Exit, NewPublisher, IInv, GlobalInv, PlaceInv, ChannelInv, Lost, TypeOK, Publisher
<1>5. \A k \in Nodes : RunsAreAwaited(node[k])'
  BY <1>1, <1>2 DEF Exit, NewPublisher, IInv, RunsAreAwaited, ChannelInv, PlaceInv, GlobalInv, Publisher
<1>6. \A k \in Nodes : ChannelInv(node[k])'
  BY <1>1, <1>2 DEF Exit, NewPublisher, IInv, ChannelInv, RunsAreAwaited, Publisher
<1>7. \A k \in Nodes : PlaceInv(k)'
  BY <1>1, <1>2 DEF Exit, NewPublisher, IInv, PlaceInv, GlobalInv, RunsAreAwaited, ChannelInv, Lost, TypeOK, Publisher
<1> QED
  BY <1>3, <1>4, <1>5, <1>6, <1>7 DEF IInv

LEMMA PublishStep ==
    ASSUME IInv, NEW n \in Nodes, NEW m \in Messages, Publish(n, m) PROVE IInv'
<1>1. node[n] \in Publisher /\ node \in [Nodes -> Publisher]
  BY DEF IInv, TypeOK
<1>2. \A k \in Nodes : k # n => node'[k] = node[k]
  BY <1>1 DEF Publish
<1>3. TypeOK'
  BY <1>1, BoundsAssumption DEF Publish, IInv, TypeOK, Publisher, Hooks
<1>4. GlobalInv'
  BY <1>1, <1>2 DEF Publish, IInv, GlobalInv, PlaceInv, ChannelInv, Lost, TypeOK, Publisher
<1>5. \A k \in Nodes : RunsAreAwaited(node[k])'
  BY <1>1, <1>2 DEF Publish, IInv, RunsAreAwaited, ChannelInv, PlaceInv, GlobalInv, Publisher
<1>6. \A k \in Nodes : ChannelInv(node[k])'
  BY <1>1, <1>2 DEF Publish, IInv, ChannelInv, RunsAreAwaited, Publisher
<1>7. \A k \in Nodes : PlaceInv(k)'
  BY <1>1, <1>2 DEF Publish, IInv, PlaceInv, GlobalInv, RunsAreAwaited, ChannelInv, Lost, TypeOK, Publisher
<1> QED
  BY <1>3, <1>4, <1>5, <1>6, <1>7 DEF IInv

LEMMA RouteStep ==
    ASSUME IInv, NEW n \in Nodes, NEW m \in Messages, Route(n, m) PROVE IInv'
<1>1. node[n] \in Publisher /\ node \in [Nodes -> Publisher]
  BY DEF IInv, TypeOK
<1>2. \A k \in Nodes : k # n => node'[k] = node[k]
  BY <1>1 DEF Route
<1>3. TypeOK'
  BY <1>1, BoundsAssumption DEF Route, IInv, TypeOK, Publisher, Hooks
<1>4. GlobalInv'
  BY <1>1, <1>2 DEF Route, IInv, GlobalInv, PlaceInv, ChannelInv, Lost, TypeOK, Publisher
<1>5. \A k \in Nodes : RunsAreAwaited(node[k])'
  BY <1>1, <1>2 DEF Route, IInv, RunsAreAwaited, ChannelInv, PlaceInv, GlobalInv, Publisher
<1>6. \A k \in Nodes : ChannelInv(node[k])'
  BY <1>1, <1>2 DEF Route, IInv, ChannelInv, RunsAreAwaited, Publisher
<1>7. \A k \in Nodes : PlaceInv(k)'
  BY <1>1, <1>2 DEF Route, IInv, PlaceInv, GlobalInv, RunsAreAwaited, ChannelInv, Lost, TypeOK, Publisher
<1> QED
  BY <1>3, <1>4, <1>5, <1>6, <1>7 DEF IInv

LEMMA DeliverStep ==
    ASSUME IInv, NEW n \in Nodes, NEW m \in Messages, Deliver(n, m) PROVE IInv'
<1>1. node[n] \in Publisher /\ node \in [Nodes -> Publisher]
  BY DEF IInv, TypeOK
<1>2. \A k \in Nodes : k # n => node'[k] = node[k]
  BY <1>1 DEF Deliver, CanReceive, Accepts, Receive
<1>3. TypeOK'
  <2>1. node'[n] \in Publisher
    <3> DEFINE r == [node[n].running EXCEPT ![m] = @ + 1]
    <3>1. r \in [Messages -> 0..MaxRuns]
      BY <1>1, BoundsAssumption DEF Deliver, CanReceive, Publisher
    <3>2. node'[n] = [node[n] EXCEPT !.active = @ \cup {m}, !.running = r,
                                     !.unacked = IF Accepts(node[n]) THEN @ \cup {m} ELSE @,
                                     !.refused = @ \/ ~Accepts(node[n])]
      BY <1>1 DEF Deliver, Receive, Publisher
    <3>3. Accepts(node[n]) \in BOOLEAN
      BY DEF Accepts
    <3> DEFINE u == IF Accepts(node[n]) THEN node[n].unacked \cup {m} ELSE node[n].unacked
               f == node[n].refused \/ ~Accepts(node[n])
    <3>4. u \in SUBSET Messages /\ f \in BOOLEAN
      BY <1>1, <3>3 DEF Publisher
    <3>5. node'[n] = [node[n] EXCEPT !.active = @ \cup {m}, !.running = r, !.unacked = u, !.refused = f]
      BY <3>2
    <3> HIDE DEF r, u, f
    <3>6. node[n].active \cup {m} \in SUBSET Messages
      BY <1>1 DEF Publisher
    <3> QED
      BY <1>1, <3>1, <3>4, <3>5, <3>6 DEF Publisher
  <2>2. node' \in [Nodes -> Publisher]
    BY <1>1, <1>2, <2>1 DEF Deliver, CanReceive, Accepts, Receive
  <2> QED
    BY <1>1, <2>2, BoundsAssumption DEF Deliver, CanReceive, Accepts, Receive, IInv, TypeOK, Publisher
<1>4. GlobalInv'
  BY <1>1, <1>2 DEF Deliver, CanReceive, Accepts, Receive, IInv, GlobalInv, PlaceInv, ChannelInv, Lost, TypeOK, Publisher
<1>5. \A k \in Nodes : RunsAreAwaited(node[k])'
  BY <1>1, <1>2 DEF Deliver, CanReceive, Accepts, Receive, IInv, RunsAreAwaited, ChannelInv, PlaceInv, GlobalInv, Publisher
<1>6. \A k \in Nodes : ChannelInv(node[k])'
  BY <1>1, <1>2 DEF Deliver, CanReceive, Accepts, Receive, IInv, ChannelInv, RunsAreAwaited, Publisher
<1>7. \A k \in Nodes : PlaceInv(k)'
  BY <1>1, <1>2 DEF Deliver, CanReceive, Accepts, Receive, IInv, PlaceInv, GlobalInv, RunsAreAwaited, ChannelInv, Lost, TypeOK, Publisher
<1> QED
  BY <1>3, <1>4, <1>5, <1>6, <1>7 DEF IInv

(* The four ways in which a handler's end meets the channel. *)
LEMMA HandlerEndsStep ==
    ASSUME IInv, NEW n \in Nodes, NEW m \in Messages, HandlerEnds(n, m) PROVE IInv'
<1> DEFINE p == Ended(node[n], m)
<1>1. node[n] \in Publisher /\ node \in [Nodes -> Publisher]
  BY DEF IInv, TypeOK
<1>2. /\ p \in Publisher
      /\ p.channel = node[n].channel /\ p.unacked = node[n].unacked /\ p.active = node[n].active
      /\ p.outgoing = node[n].outgoing /\ p.consuming = node[n].consuming
      /\ p.refused = node[n].refused /\ p.hook = node[n].hook
      /\ \A x \in Messages : p.running[x] > 0 => node[n].running[x] > 0
      /\ \A x \in Messages : node[n].running[x] = 1 => p.running[x] <= 1
      /\ p.running[m] = node[n].running[m] - 1
  <2> DEFINE r == [node[n].running EXCEPT ![m] = @ - 1]
  <2>1. /\ r \in [Messages -> 0..MaxRuns] /\ r[m] = node[n].running[m] - 1
        /\ \A x \in Messages : r[x] <= node[n].running[x] /\ node[n].running[x] \in Nat
    BY <1>1, BoundsAssumption DEF HandlerEnds, Publisher
  <2>2. p = [node[n] EXCEPT !.running = r, !.status = "IDLE"]
    BY <1>1 DEF Ended, Publisher
  <2> HIDE DEF r
  <2>3. /\ p \in Publisher /\ p.running = r
        /\ p.channel = node[n].channel /\ p.unacked = node[n].unacked /\ p.active = node[n].active
        /\ p.outgoing = node[n].outgoing /\ p.consuming = node[n].consuming
        /\ p.refused = node[n].refused /\ p.hook = node[n].hook
    BY <1>1, <2>1, <2>2 DEF Publisher
  <2> HIDE DEF p
  <2> QED
    BY <1>1, <2>1, <2>3
<1>3. m \in published /\ m \notin Lost
  BY <1>1 DEF IInv, PlaceInv, HandlerEnds
<1>4. \A k \in Nodes : m \notin node[k].outgoing
  BY <1>1 DEF IInv, PlaceInv, HandlerEnds
<1> USE DEF Publisher
<1> HIDE DEF p
<1>5. CASE node' = [node EXCEPT ![n] = p] /\ KeepChannel /\ (m \notin p.active \/ p.channel = "closed")
  <2>1. \A k \in Nodes : node'[k] = IF k = n THEN p ELSE node[k]
    BY <1>1, <1>5
  <2>2. TypeOK'
    BY <1>1, <1>2, <1>5, <2>1 DEF HandlerEnds, KeepChannel, IInv, TypeOK
  <2>3. m \in returned
    BY <1>1, <1>2, <1>5 DEF HandlerEnds, IInv, RunsAreAwaited, ChannelInv
  <2>4. GlobalInv'
    BY <1>1, <1>2, <1>3, <1>5, <2>1, <2>3 DEF HandlerEnds, KeepChannel, IInv, GlobalInv, Lost
  <2>5. \A k \in Nodes : RunsAreAwaited(node[k])'
    BY <1>1, <1>2, <1>5, <2>1, <2>3 DEF HandlerEnds, KeepChannel, IInv, RunsAreAwaited
  <2>6. \A k \in Nodes : ChannelInv(node[k])'
    BY <1>1, <1>2, <1>5, <2>1 DEF HandlerEnds, KeepChannel, IInv, ChannelInv
  <2>7. \A k \in Nodes : PlaceInv(k)'
    BY <1>1, <1>2, <1>3, <1>4, <1>5, <2>1, <2>3 DEF HandlerEnds, KeepChannel, IInv, PlaceInv, Lost
  <2> QED
    BY <2>2, <2>4, <2>5, <2>6, <2>7 DEF IInv
<1>6. CASE /\ m \in p.active /\ m \in p.unacked
           /\ node' = [node EXCEPT ![n] = [p EXCEPT !.active = @ \ {m}, !.unacked = {}]]
           /\ KeepChannel
  <2> DEFINE q == [p EXCEPT !.active = @ \ {m}, !.unacked = {}]
  <2>1. \A k \in Nodes : node'[k] = IF k = n THEN q ELSE node[k]
    BY <1>1, <1>6
  <2>2. /\ q \in Publisher /\ q.active = p.active \ {m} /\ q.unacked = {}
        /\ q.outgoing = p.outgoing /\ q.running = p.running /\ q.channel = p.channel
        /\ q.consuming = p.consuming /\ q.refused = p.refused /\ q.hook = p.hook
    BY <1>2
  <2> HIDE DEF q
  <2>3. node[n].unacked = {m}
    BY <1>1, <1>2, <1>6 DEF IInv, ChannelInv
  <2>4. TypeOK'
    BY <1>1, <1>6, <2>1, <2>2 DEF HandlerEnds, KeepChannel, IInv, TypeOK
  <2>5. GlobalInv'
    BY <1>1, <1>2, <1>3, <1>6, <2>1, <2>2, <2>3 DEF HandlerEnds, KeepChannel, IInv, GlobalInv, PlaceInv, Lost
  <2>6. \A k \in Nodes : RunsAreAwaited(node[k])'
    BY <1>1, <1>2, <1>6, <2>1, <2>2, <2>3 DEF HandlerEnds, KeepChannel, IInv, RunsAreAwaited
  <2>7. \A k \in Nodes : ChannelInv(node[k])'
    BY <1>1, <1>2, <1>6, <2>1, <2>2, <2>3 DEF HandlerEnds, KeepChannel, IInv, ChannelInv
  <2>8. \A k \in Nodes : PlaceInv(k)'
    BY <1>1, <1>2, <1>3, <1>4, <1>6, <2>1, <2>2, <2>3 DEF HandlerEnds, KeepChannel, IInv, PlaceInv, Lost
  <2> QED
    BY <2>4, <2>5, <2>6, <2>7, <2>8 DEF IInv
<1>7. CASE /\ m \in p.active /\ p.channel = "open" /\ m \notin p.unacked
           /\ node' = [node EXCEPT ![n] = WithoutChannel([p EXCEPT !.active = @ \ {m}])]
           /\ LoseChannel(p)
  <2> DEFINE q == WithoutChannel([p EXCEPT !.active = @ \ {m}])
  <2>1. \A k \in Nodes : node'[k] = IF k = n THEN q ELSE node[k]
    BY <1>1, <1>7
  <2>2. /\ q \in Publisher /\ q.active = p.active \ {m} /\ q.unacked = {} /\ q.outgoing = {}
        /\ q.running = p.running /\ q.channel = "closed" /\ ~q.consuming /\ q.hook = p.hook
    BY <1>2 DEF WithoutChannel
  <2> HIDE DEF q
  <2>3. m \in returned
    BY <1>1, <1>2, <1>7 DEF HandlerEnds, IInv, RunsAreAwaited
  <2>4. TypeOK'
    BY <1>1, <1>2, <1>7, <2>1, <2>2 DEF HandlerEnds, LoseChannel, IInv, TypeOK
  <2>5. GlobalInv'
    BY <1>1, <1>2, <1>3, <1>7, <2>1, <2>2, <2>3 DEF HandlerEnds, LoseChannel, IInv, GlobalInv, PlaceInv, Lost, TypeOK
  <2>6. \A k \in Nodes : RunsAreAwaited(node[k])'
    BY <1>1, <1>2, <1>7, <2>1, <2>2, <2>3 DEF HandlerEnds, LoseChannel, IInv, RunsAreAwaited
  <2>7. \A k \in Nodes : ChannelInv(node[k])'
    BY <1>1, <2>1, <2>2 DEF IInv, ChannelInv
  <2>8. /\ queue' = queue \cup node[n].unacked /\ returned' = returned \cup node[n].unacked
        /\ cut' = cut \cup node[n].outgoing /\ UNCHANGED <<published, unrouted>>
        /\ handled' = handled \cup {m}
    BY <1>2, <1>7 DEF HandlerEnds, LoseChannel
  <2>9. \A k \in Nodes : PlaceInv(k)'
    <3> SUFFICES ASSUME NEW k \in Nodes PROVE PlaceInv(k)'
      OBVIOUS
    <3>1. CASE k = n
      BY <1>1, <1>2, <1>3, <1>4, <2>1, <2>2, <2>3, <2>8, <3>1 DEF IInv, PlaceInv, Lost
    <3>2. CASE k # n
      <4>1. node'[k] = node[k]
        BY <2>1, <3>2
      <4>2. \A x \in node'[k].unacked : x \notin queue' \cup Lost'
        BY <4>1, <2>8, <3>2 DEF IInv, PlaceInv, Lost
      <4>3. \A x \in node'[k].outgoing : x \notin queue' \cup Lost' \cup handled'
        BY <4>1, <1>4, <2>8, <3>2 DEF IInv, PlaceInv, Lost
      <4>4. \A x \in Messages : node'[k].running[x] > 0
              => x \in published' /\ x \notin Lost' /\ \A j \in Nodes : x \notin node'[j].outgoing
        BY <4>1, <2>1, <2>2, <2>8 DEF IInv, PlaceInv, Lost
      <4>5. /\ \A x \in node'[k].unacked : \A j \in Nodes :
                 x \notin node'[j].outgoing /\ (x \in node'[j].unacked => j = k)
            /\ \A x \in node'[k].outgoing : \A j \in Nodes : x \in node'[j].outgoing => j = k
        BY <4>1, <2>1, <2>2 DEF IInv, PlaceInv
      <4>6. \A x \in node'[k].unacked : x \notin returned' => x \notin handled'
        BY <4>1, <2>3, <2>8 DEF IInv, PlaceInv
      <4>7. node'[k].unacked \cup node'[k].outgoing \subseteq published'
        BY <4>1, <2>8 DEF IInv, PlaceInv
      <4> QED
        BY <4>2, <4>3, <4>4, <4>5, <4>6, <4>7, Zenon DEF PlaceInv
    <3> QED
      BY <3>1, <3>2
  <2> QED
    BY <2>4, <2>5, <2>6, <2>7, <2>9 DEF IInv
<1> QED
  BY <1>5, <1>6, <1>7 DEF HandlerEnds, p

LEMMA HandlerRejectsStep ==
    ASSUME IInv, NEW n \in Nodes, NEW m \in Messages, HandlerRejects(n, m) PROVE IInv'
<1>1. node[n] \in Publisher /\ node \in [Nodes -> Publisher]
  BY DEF IInv, TypeOK
<1>2. \A k \in Nodes : k # n => node'[k] = node[k]
  BY <1>1 DEF HandlerRejects
<1>3. TypeOK'
  <2>1. node'[n] \in Publisher
    BY <1>1, BoundsAssumption DEF HandlerRejects, IInv, Publisher, Hooks
  <2>2. node' \in [Nodes -> Publisher]
    BY <1>1, <1>2, <2>1 DEF HandlerRejects
  <2> QED
    BY <1>1, <2>2, BoundsAssumption DEF HandlerRejects, IInv, TypeOK, Publisher
<1>4. GlobalInv'
  BY <1>1, <1>2 DEF HandlerRejects, IInv, GlobalInv, PlaceInv, ChannelInv, Lost, TypeOK, Publisher
<1>5. \A k \in Nodes : RunsAreAwaited(node[k])'
  BY <1>1, <1>2 DEF HandlerRejects, IInv, RunsAreAwaited, ChannelInv, PlaceInv, GlobalInv, Publisher
<1>6. \A k \in Nodes : ChannelInv(node[k])'
  BY <1>1, <1>2 DEF HandlerRejects, IInv, ChannelInv, RunsAreAwaited, Publisher
<1>7. \A k \in Nodes : PlaceInv(k)'
  BY <1>1, <1>2 DEF HandlerRejects, IInv, PlaceInv, GlobalInv, RunsAreAwaited, ChannelInv, Lost, TypeOK, Publisher
<1> QED
  BY <1>3, <1>4, <1>5, <1>6, <1>7 DEF IInv

LEMMA Inductive == IInv /\ [Next]_vars => IInv'
<1> SUFFICES ASSUME IInv, [Next]_vars PROVE IInv'
  OBVIOUS
<1>1. CASE UNCHANGED vars
  BY <1>1 DEF vars, IInv, TypeOK, GlobalInv, RunsAreAwaited, ChannelInv, PlaceInv, Lost
<1>2. CASE Next
  BY <1>2, BootstrapStep, OpenChannelStep, ConsumeStep, BootstrapDoneStep, ConnectionClosesStep,
     CrashStep, ShutdownStep, CancelStep, ShutdownDoneStep, ExitStep, PublishStep, RouteStep,
     DeliverStep, HandlerEndsStep, HandlerRejectsStep DEF Next
<1> QED
  BY <1>1, <1>2

LEMMA Invariant == Spec => []IInv
  BY Initially, Inductive, PTL DEF Spec

(* Every variable of every publisher keeps its type, whatever crashes. *)
THEOREM TypeCorrect == Spec => []TypeOK
<1>1. IInv => TypeOK
  BY DEF IInv
<1> QED
  BY <1>1, Invariant, PTL

(* At least once: a message that came to the queue waits there, is held by *)
(* one consumer, or was handled to its end.                                *)
THEOREM AtLeastOnce == Spec => []NothingLost
<1>1. ASSUME IInv PROVE NothingLost
  <2>1. published = handled \cup queue \cup Held \cup unrouted \cup cut
                      \cup UNION {node[n].outgoing : n \in Nodes}
    BY <1>1 DEF IInv, GlobalInv, PlaceInv, Lost, Held
  <2>2. (unrouted \cup cut) \cap (queue \cup Held \cup handled) = {} /\ queue \cap Held = {}
    BY <1>1 DEF IInv, GlobalInv, PlaceInv, Lost, Held
  <2>3. \A n1, n2 \in Nodes : n1 # n2 => node[n1].unacked \cap node[n2].unacked = {}
    BY <1>1 DEF IInv, PlaceInv
  <2> QED
    BY <2>1, <2>2, <2>3 DEF NothingLost
<1> QED
  BY <1>1, Invariant, PTL

(* Twice only after a return: a message the broker never took back runs    *)
(* once and on one node, and a node runs one such message at a time.       *)
THEOREM AtMostOnceUnlessReturned == Spec => []OnceUnlessReturned
<1>1. ASSUME IInv PROVE OnceUnlessReturned
  <2>1. \A m \in Messages \ returned : \A n \in Runs(m) :
           m \in node[n].unacked /\ node[n].running[m] = 1
    BY <1>1 DEF IInv, RunsAreAwaited, Runs
  <2>2. \A m \in Messages \ returned : \A n \in Runs(m) : m \notin handled \cup queue
    BY <1>1, <2>1 DEF IInv, PlaceInv, Runs
  <2>3. \A m \in Messages \ returned : \A n1, n2 \in Runs(m) : n1 = n2
    BY <1>1, <2>1 DEF IInv, PlaceInv, Runs
  <2>4. \A n \in Nodes : \A m1, m2 \in Messages \ returned :
           n \in Runs(m1) \cap Runs(m2) => m1 = m2
    BY <1>1, <2>1 DEF IInv, ChannelInv, Runs
  <2> QED
    BY <2>1, <2>2, <2>3, <2>4 DEF OnceUnlessReturned
<1> QED
  BY <1>1, Invariant, PTL

(* On a channel that has rejected no delivery every handler that ends      *)
(* acknowledges what the broker waits for, so the broker does not close it. *)
THEOREM AcknowledgesWhatIsAwaited == Spec => []ActiveIsUnacked
<1>1. IInv => ActiveIsUnacked
  BY DEF IInv, ChannelInv, ActiveIsUnacked
<1> QED
  BY <1>1, Invariant, PTL
=============================================================================
