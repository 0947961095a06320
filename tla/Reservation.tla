---------------------------- MODULE Reservation ----------------------------
(***************************************************************************)
(* How the demo keeps the names of inventories unique: CreateInventory-    *)
(* Handler reserves the name in a set of the cache, asks the projection    *)
(* whether it exists, and commits; InventoryCreatedHandler saves the       *)
(* projection and only then releases the name.                             *)
(*                                                                         *)
(* addToSet and removeFromSet are atomic, as in MemoryCache and RedisCache *)
(* (before its expiration); those of RedisCache are a statement on the set *)
(* and one that renews its expiration, each of which may fail.  The        *)
(* handlers of several events may be in progress at once, as they are      *)
(* behind the RabbitMQ publisher.                                          *)
(***************************************************************************)
EXTENDS FiniteSets

CONSTANTS Creations,       (* CreateInventory commands, each with its stream *)
          Names, NameOf,   (* the name each asks for                         *)
          DatabaseFails,   (* TRUE: a query or a save may reject             *)
          CacheFails,      (* TRUE: so may a statement of RedisCache         *)
          Restarts,        (* TRUE: the node may crash and start again       *)
          CacheSurvives    (* TRUE: the cache is kept outside of the node    *)

ASSUME NameOfAssumption == NameOf \in [Creations -> Names]
ASSUME FlagsAssumption == {DatabaseFails, CacheFails, Restarts, CacheSurvives} \subseteq BOOLEAN

VARIABLES phase,     (* how far each creation has come                       *)
          reserved,  (* the set InventoryAggregate__name of the cache        *)
          projected  (* creations with a row in the projection               *)

vars == <<phase, reserved, projected>>

(* "free" and "exists" are the answers of nameExists, "created" creations  *)
(* have their event in the store, "saved" ones their row as well.  What    *)
(* goes no further is "leaked" with a reservation and no event,            *)
(* "unprojected" with an event and no row, "unreleased" with both, and     *)
(* "lost" with none of them.                                               *)
Checking == {"reserved", "free", "exists"}
Phases == Checking \cup
          {"new", "merged", "created", "saved", "released", "refused", "lost", "leaked", "unprojected", "unreleased"}

(* Creations with InventoryCreated in the event store. *)
Stored == {c \in Creations : phase[c] \in {"created", "saved", "released", "unprojected", "unreleased"}}

NameExists(n) == \E c \in projected : NameOf[c] = n

Init ==
    /\ phase = [c \in Creations |-> "new"]
    /\ reserved = {}
    /\ projected = {}

AddToSet(n) == reserved' = reserved \cup {n}
RemoveFromSet(n) == reserved' = reserved \ {n}

Move(c, from, to) == phase[c] = from /\ phase' = [phase EXCEPT ![c] = to]

-----------------------------------------------------------------------------
(* CreateInventoryHandler.execute up to each of its awaits.  A creation    *)
(* that is refused throws, and the filter reports it as an event.          *)
MergeContext(c) == Move(c, "new", "merged") /\ UNCHANGED <<reserved, projected>>

(* Mutated form: the stream is reserved instead of the name. *)
ReserveStream(c) ==
    /\ Move(c, "merged", "reserved")
    /\ AddToSet(c)
    /\ UNCHANGED projected

Reserve(c) ==
    /\ IF NameOf[c] \in reserved THEN Move(c, "merged", "refused") ELSE Move(c, "merged", "reserved")
    /\ AddToSet(NameOf[c])
    /\ UNCHANGED projected

(* A statement failed: the handler rejects with another error than that of *)
(* a name that is taken, which nothing reports.  If it was the expiration, *)
(* the name is in the set already.                                         *)
ReserveFails(c) ==
    /\ CacheFails
    /\ \/ Move(c, "merged", "lost") /\ UNCHANGED reserved
       \/ NameOf[c] \notin reserved /\ Move(c, "merged", "leaked") /\ AddToSet(NameOf[c])
    /\ UNCHANGED projected

CheckName(c) ==
    /\ IF NameExists(NameOf[c]) THEN Move(c, "reserved", "exists") ELSE Move(c, "reserved", "free")
    /\ UNCHANGED <<reserved, projected>>

CheckFails(c) ==
    /\ DatabaseFails
    /\ Move(c, "reserved", "leaked")
    /\ UNCHANGED <<reserved, projected>>

(* Mutated form: the reservation is kept. *)
RefuseAndKeep(c) == Move(c, "exists", "refused") /\ UNCHANGED <<reserved, projected>>

Refuse(c) ==
    /\ Move(c, "exists", "refused")
    /\ RemoveFromSet(NameOf[c])
    /\ UNCHANGED projected

RefuseFails(c) ==
    /\ CacheFails
    /\ \/ Move(c, "exists", "leaked") /\ UNCHANGED reserved
       \/ Move(c, "exists", "lost") /\ RemoveFromSet(NameOf[c])
    /\ UNCHANGED projected

(* Mutated form: the reservation is given back as soon as the event is     *)
(* committed.                                                              *)
CommitAndRelease(c) ==
    /\ Move(c, "free", "created")
    /\ RemoveFromSet(NameOf[c])
    /\ UNCHANGED projected

Commit(c) == Move(c, "free", "created") /\ UNCHANGED <<reserved, projected>>

-----------------------------------------------------------------------------
(* InventoryCreatedHandler.execute: save, then release. *)
Save(c) ==
    /\ Move(c, "created", "saved")
    /\ projected' = projected \cup {c}
    /\ UNCHANGED reserved

SaveFails(c) ==
    /\ DatabaseFails
    /\ Move(c, "created", "unprojected")
    /\ UNCHANGED <<reserved, projected>>

Release(c) ==
    /\ Move(c, "saved", "released")
    /\ RemoveFromSet(NameOf[c])
    /\ UNCHANGED projected

(* If only the expiration fails, the name is free: that is Release. *)
ReleaseFails(c) ==
    /\ CacheFails
    /\ Move(c, "saved", "unreleased")
    /\ UNCHANGED <<reserved, projected>>

-----------------------------------------------------------------------------
(* A restart loses the handlers in progress and the queue of an in-memory  *)
(* publisher.  The event store and the projection are kept, the cache if   *)
(* it is not in memory.                                                    *)
AfterRestart(p) ==
    IF p = "merged" THEN "lost"
    ELSE IF p \in Checking THEN (IF CacheSurvives THEN "leaked" ELSE "lost")
    ELSE IF p = "created" THEN "unprojected"
    ELSE IF p = "saved" THEN "unreleased"
    ELSE p

Restart ==
    /\ Restarts
    /\ phase' = [c \in Creations |-> AfterRestart(phase[c])]
    /\ reserved' = IF CacheSurvives THEN reserved ELSE {}
    /\ UNCHANGED projected

Create(c) ==
    \/ MergeContext(c) \/ Reserve(c) \/ ReserveFails(c) \/ CheckName(c) \/ CheckFails(c)
    \/ Refuse(c) \/ RefuseFails(c) \/ Commit(c)
    \/ Save(c) \/ SaveFails(c) \/ Release(c) \/ ReleaseFails(c)

Next == Restart \/ \E c \in Creations : Create(c)

Spec == Init /\ [][Next]_vars

(* A handler in progress goes on: its promises settle. *)
FairSpec == Spec /\ \A c \in Creations : WF_vars(Create(c))

-----------------------------------------------------------------------------
(* Every variable keeps its type. *)
TypeOK ==
    /\ phase \in [Creations -> Phases]
    /\ reserved \subseteq Names
    /\ projected \subseteq Creations

(* No two inventories are ever created with the same name, though the      *)
(* projection that is asked lags behind the events and a name is released  *)
(* while other creations are between their checks.                         *)
UniqueNames == \A c, d \in Stored : NameOf[c] = NameOf[d] => c = d

(* Nothing else keeps a name reserved than the one creation that holds it: *)
(* no creation releases what another has reserved.                         *)
Holders == {c \in Creations : phase[c] \in Checking \cup
                              {"created", "saved", "leaked", "unprojected", "unreleased"}}
OneHolderPerName ==
    /\ reserved = {NameOf[c] : c \in Holders}
    /\ \A c, d \in Holders : NameOf[c] = NameOf[d] => c = d

(* A creation is only refused while another one with its name is stored or *)
(* still on its way: of several that compete, one always gets the name.    *)
RefusedForAnother ==
    \A c \in Creations : phase[c] = "refused" =>
        \E d \in Creations \ {c} : NameOf[d] = NameOf[c] /\ d \in Stored \cup Holders

(* Every name that is asked for is used in the end, unless all who asked   *)
(* were lost to a restart or a failure: it is given to a creation and free *)
(* to be asked for again, or what holds it is a creation that was cut off. *)
CutOff == {"leaked", "unprojected", "unreleased"}
NamesAreGiven ==
    \A c \in Creations : <>[](\/ phase[c] = "lost"
                              \/ \E d \in Creations : NameOf[d] = NameOf[c] /\ phase[d] \in CutOff
                              \/ /\ NameOf[c] \notin reserved
                                 /\ \E d \in Stored : NameOf[d] = NameOf[c])
=============================================================================
