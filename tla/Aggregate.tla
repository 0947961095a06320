----------------------------- MODULE Aggregate -----------------------------
(***************************************************************************)
(* AggregateRoot as a command handler uses it: built from a stream by      *)
(* AggregateFactory.mergeContext, changed by apply() and rollback(),       *)
(* committed to a MemoryStore.  One instance is in use at a time.          *)
(*                                                                         *)
(* The aggregate's own code is abstracted to one number.  With Additive it *)
(* is AccountAggregate: an event adds to the number, its @Rollback method  *)
(* returns the opposite.  Without, it is TestAggregate: an event sets the  *)
(* number, its @Rollback method asks getAggregatePriorTo for the number    *)
(* before.  The @Apply method of a "Deleted" event marks the instance as   *)
(* deleted; it has a @Rollback method, a "Rollback" event has none.        *)
(***************************************************************************)
EXTENDS Integers, SequencesExt

CONSTANTS Correlations, NoCorrelation,
          Additive,
          MaxCommits,   (* calls of commit() a handler makes on an instance   *)
          MaxEvents     (* bound on the events that are created               *)

ASSUME NoCorrelationAssumption == NoCorrelation \notin Correlations
ASSUME AdditiveAssumption == Additive \in BOOLEAN
ASSUME BoundsAssumption == MaxEvents \in Nat /\ MaxCommits \in Nat \ {0}

VARIABLES store,      (* the stream                                           *)
          created,    (* number of events created: the last $uuid             *)
          history,    (* _eventHistory                                        *)
          committed,  (* _lastCommittedIndex + 1                              *)
          value, deleted,
          commits     (* calls of commit() on this instance                   *)

vars == <<store, created, history, committed, value, deleted, commits>>

Types == {"Changed", "Deleted", "Rollback"}
Event == [uuid : Nat, type : Types, data : Int, corr : Correlations \cup {NoCorrelation}]

-----------------------------------------------------------------------------
(* The @Apply methods, for one event and for a history. *)
ApplyTo(v, e) ==
    IF e.type = "Deleted" THEN v ELSE IF Additive THEN v + e.data ELSE e.data

ApplyAll(v, es) == FoldLeft(ApplyTo, v, es)

Replay(es) == ApplyAll(0, es)

Position(es, e) == CHOOSE i \in DOMAIN es : es[i].uuid = e.uuid /\ \A j \in 1..(i - 1) : es[j].uuid # e.uuid

(* getAggregatePriorTo(e): what its result has applied. *)
Earlier(e) == SubSeq(history, 1, Position(history, e) - 1)

(* The result is a new object with this aggregate as its prototype, so the *)
(* earlier events are applied to the present number, not to a new one ...  *)
NumberPriorTo(e) == ApplyAll(value, Earlier(e))

(* ... and pushed on the one _eventHistory that both objects have.         *)
Pushed(es) == IF Additive THEN <<>> ELSE FoldLeft(LAMBDA pushed, e : pushed \o Earlier(e), <<>>, es)

(* What the @Rollback method returns for the i-th correlated event. *)
RollbackEvent(e, i, c) ==
    [uuid |-> created + i, type |-> "Rollback", corr |-> c,
     data |-> IF e.type = "Deleted" THEN 0 ELSE IF Additive THEN -e.data ELSE NumberPriorTo(e)]

(* The events rollback(c) looks at: those of c, newest first. *)
Correlated(es, c) == FoldLeft(LAMBDA newest, e : IF e.corr = c THEN <<e>> \o newest ELSE newest, <<>>, es)

-----------------------------------------------------------------------------
(* mergeContext on the empty stream *)
Init ==
    /\ store = <<>> /\ created = 0
    /\ history = <<>> /\ committed = 0
    /\ value = 0 /\ deleted = FALSE
    /\ commits = 0

(* Mutated forms: apply() does not note that an event was committed, or    *)
(* notes one too many.                                                     *)
MergeContextForgets ==
    /\ history' = store /\ committed' = 0
    /\ value' = Replay(store) /\ deleted' = \E i \in DOMAIN store : store[i].type = "Deleted"
    /\ commits' = 0
    /\ UNCHANGED <<store, created>>

MergeContextTooFar ==
    /\ history' = store /\ committed' = Len(store) + 1
    /\ value' = Replay(store) /\ deleted' = \E i \in DOMAIN store : store[i].type = "Deleted"
    /\ commits' = 0
    /\ UNCHANGED <<store, created>>

(* mergeContext: a new instance, to which the stream is applied. *)
MergeContext ==
    /\ history' = store /\ committed' = Len(store)
    /\ value' = Replay(store) /\ deleted' = \E i \in DOMAIN store : store[i].type = "Deleted"
    /\ commits' = 0
    /\ UNCHANGED <<store, created>>

(* A handler is done with the instance after its commits. *)
InUse == commits < MaxCommits

NewEvent(type, data) == [uuid |-> created + 1, type |-> type, data |-> data, corr |-> NoCorrelation]

Apply(type, data) ==
    /\ InUse /\ created < MaxEvents
    /\ ~deleted
    /\ created' = created + 1
    /\ history' = Append(history, NewEvent(type, data))
    /\ value' = ApplyTo(value, NewEvent(type, data))
    /\ deleted' = (type = "Deleted")
    /\ UNCHANGED <<store, committed, commits>>

(* commit(command): the events are the same objects in the history and in  *)
(* the store.  committed stays what it was.                                *)
Attributed(es, c) == [i \in DOMAIN es |-> IF es[i].corr = NoCorrelation THEN [es[i] EXCEPT !.corr = c] ELSE es[i]]

(* uncommittedEventHistory *)
Uncommitted == SubSeq(history, committed + 1, Len(history))

(* Mutated form: only the newest of the uncommitted events is stored. *)
CommitNewest(c) ==
    LET uncommitted == Attributed(Uncommitted, c)
    IN  /\ InUse /\ uncommitted # <<>>
        /\ store' = Append(store, Last(uncommitted))
        /\ history' = SubSeq(history, 1, committed) \o uncommitted
        /\ commits' = commits + 1
        /\ UNCHANGED <<created, committed, value, deleted>>

Commit(c) ==
    LET uncommitted == Attributed(Uncommitted, c)
    IN  /\ InUse /\ uncommitted # <<>>
        /\ store' = store \o uncommitted
        /\ history' = SubSeq(history, 1, committed) \o uncommitted
        /\ commits' = commits + 1
        /\ UNCHANGED <<created, committed, value, deleted>>

(* Mutated form: an event that cannot be rolled back is passed over. *)
RollbackAgain(c) ==
    LET es == SelectSeq(Correlated(history, c), LAMBDA e : e.type # "Rollback")
        new == [i \in DOMAIN es |-> RollbackEvent(es[i], i, c)]
    IN  /\ InUse /\ created + Len(es) <= MaxEvents
        /\ es # <<>> /\ ~deleted
        /\ created' = created + Len(es)
        /\ history' = history \o Pushed(es) \o new
        /\ value' = ApplyAll(value, new)
        /\ UNCHANGED <<store, committed, deleted, commits>>

(* rollback(c): all rollback events are created, then they are applied. *)
Rollback(c) ==
    LET es == Correlated(history, c)
        new == [i \in DOMAIN es |-> RollbackEvent(es[i], i, c)]
    IN  /\ InUse /\ created + Len(es) <= MaxEvents
        /\ es # <<>> /\ \A i \in DOMAIN es : es[i].type # "Rollback"
        /\ ~deleted
        /\ created' = created + Len(es)
        /\ history' = history \o Pushed(es) \o new
        /\ value' = ApplyAll(value, new)
        /\ UNCHANGED <<store, committed, deleted, commits>>

(* It throws at the first event without a @Rollback method, or if there is *)
(* none at the first apply() to a deleted aggregate.  What was pushed      *)
(* until then stays.                                                       *)
RollbackThrows(c) ==
    LET es == Correlated(history, c)
        k == SelectInSeq(es, LAMBDA e : e.type = "Rollback")
        seen == IF k = 0 THEN es ELSE SubSeq(es, 1, k - 1)
    IN  /\ InUse /\ Len(history) < 2 * MaxEvents
        /\ es # <<>> /\ (k > 0 \/ deleted)
        /\ history' = history \o Pushed(seen)
        /\ UNCHANGED <<store, created, committed, value, deleted, commits>>

Next ==
    \/ MergeContext
    \/ \E data \in {1, 2} : Apply("Changed", data)
    \/ Apply("Deleted", 0)
    \/ \E c \in Correlations : Commit(c) \/ Rollback(c) \/ RollbackThrows(c)

Spec == Init /\ [][Next]_vars

-----------------------------------------------------------------------------
(* Every variable keeps its type. *)
TypeOK ==
    /\ store \in Seq(Event) /\ history \in Seq(Event)
    /\ created \in 0..MaxEvents /\ committed \in 0..Len(history)
    /\ value \in Int /\ deleted \in BOOLEAN
    /\ commits \in 0..MaxCommits

(* "Commit all uncommitted events": the first commit of an instance stores *)
(* no event that is in the stream already, over any number of instances    *)
(* and rollbacks and whatever was committed before.  So a second commit of *)
(* one instance is the only step that can store an event, and publish it,  *)
(* twice; it does, because _lastCommittedIndex stays behind.               *)
StoredOnce ==
    [][commits = 0 =>
         \A i, j \in DOMAIN store' : i > Len(store) /\ store'[i].uuid = store'[j].uuid => i = j]_vars

(* What a handler has decided on is what the next one will be given: with  *)
(* the first commit of an instance the stream replays to its state, with   *)
(* the correlations a rollback will look for.                              *)
Committed == store = history /\ Replay(store) = value /\ \A i \in DOMAIN store : store[i].corr \in Correlations
CommittedIsReplay == [][commits = 0 /\ commits' = 1 => Committed']_vars

(* A rollback leaves the number the aggregate would have, had the events   *)
(* of the correlation never been applied.  Where events replace the number *)
(* this can only be asked of the latest ones.                              *)
Others(es, c) == FoldLeft(LAMBDA others, e : IF e.corr = c THEN others ELSE Append(others, e), <<>>, es)
Latest(c) == \E k \in 0..Len(history) : Others(history, c) = SubSeq(history, 1, k)
RollbackRestores ==
    [][\A c \in Correlations : Rollback(c) /\ (Additive \/ Latest(c)) => value' = Replay(Others(history, c))]_vars
=============================================================================
