---------------------------- MODULE TypeORMCache ----------------------------
(***************************************************************************)
(* A set of TypeORMCache used to reserve one value, by the commands and    *)
(* events of several nodes at once.  addToSet and removeFromSet are a      *)
(* query and a statement on the database each, with an await between: what *)
(* the query has seen may be gone.  A save is a transaction that either    *)
(* succeeds or rejects.                                                    *)
(*                                                                         *)
(* From the database the constraints of the entities are taken: one row    *)
(* with a setKey and value, one root with a key.  What another             *)
(* specification defines as well begins with Cache here, so that a module  *)
(* may extend the two.                                                     *)
(***************************************************************************)
EXTENDS Naturals

CONSTANTS Users,    (* who adds the value and removes it again               *)
          MaxRows   (* bound on the rows that are inserted                   *)

ASSUME MaxRowsAssumption == MaxRows \in Nat

VARIABLES root,     (* TRUE: the SetRoot row is there                        *)
          row,      (* id of the SetValue row, 0 if there is none            *)
          ids,      (* number of rows inserted: the last id                  *)
          pc,       (* where each user awaits                                *)
          found,    (* the row that a removal has found                      *)
          holds     (* users whose addToSet answered true                    *)

cacheVars == <<root, row, ids, pc, found, holds>>

CacheInit ==
    /\ root = FALSE /\ row = 0 /\ ids = 0
    /\ pc = [u \in Users |-> "idle"]
    /\ found = [u \in Users |-> 0]
    /\ holds = {}

Goto(u, from, to) == pc[u] = from /\ pc' = [pc EXCEPT ![u] = to]

-----------------------------------------------------------------------------
(* handleAddToSet: findOne answers false, or count decides how to save. *)
AddFindOne(u) ==
    /\ u \notin holds
    /\ Goto(u, "idle", IF row # 0 THEN "idle" ELSE "absent")
    /\ UNCHANGED <<root, row, ids, found, holds>>

AddCount(u) ==
    /\ Goto(u, "absent", IF root THEN "rooted" ELSE "rootless")
    /\ UNCHANGED <<root, row, ids, found, holds>>

InsertRow(u) ==
    /\ ids < MaxRows
    /\ ids' = ids + 1 /\ row' = ids'
    /\ holds' = holds \cup {u}

(* The promise of addToSet rejects. *)
Reject == UNCHANGED <<row, ids, holds>>

(* Mutated form: SetValue is not unique. *)
SaveDuplicate(u) ==
    /\ Goto(u, "rooted", "idle")
    /\ InsertRow(u)
    /\ UNCHANGED <<root, found>>

(* setValueRepository.save: a second row violates the unique constraint. *)
SaveValue(u) ==
    /\ Goto(u, "rooted", "idle")
    /\ IF row # 0 THEN Reject ELSE InsertRow(u)
    /\ UNCHANGED <<root, found>>

(* setRootRepository.save with the value as the only one: the root is      *)
(* inserted, or updated if it was inserted meanwhile, and the value then   *)
(* inserted; together.                                                     *)
SaveRoot(u) ==
    /\ Goto(u, "rootless", "idle")
    /\ IF row # 0 THEN Reject /\ UNCHANGED root ELSE InsertRow(u) /\ root' = TRUE
    /\ UNCHANGED found

(* handleRemoveFromSet: findOne answers false, or the entity is removed,   *)
(* which answers true also if it was removed meanwhile.                    *)
RemoveFindOne(u) ==
    /\ u \in holds
    /\ Goto(u, "idle", IF row = 0 THEN "idle" ELSE "removing")
    /\ found' = [found EXCEPT ![u] = row]
    /\ holds' = holds \ {u}
    /\ UNCHANGED <<root, row, ids>>

RemoveEntity(u) ==
    /\ Goto(u, "removing", "idle")
    /\ row' = IF row = found[u] THEN 0 ELSE row
    /\ found' = [found EXCEPT ![u] = 0]
    /\ UNCHANGED <<root, ids, holds>>

Add(u) == AddFindOne(u) \/ AddCount(u) \/ SaveValue(u) \/ SaveRoot(u)
Remove(u) == RemoveFindOne(u) \/ RemoveEntity(u)

CacheNext == \E u \in Users : Add(u) \/ Remove(u)

CacheSpec == CacheInit /\ [][CacheNext]_cacheVars

-----------------------------------------------------------------------------
Removing == {u \in Users : pc[u] = "removing"}

(* Every variable keeps its type, and an entity that is being removed is   *)
(* one that findOne has found.                                             *)
CacheTypeOK ==
    /\ root \in BOOLEAN /\ ids \in Nat /\ row \in 0..ids
    /\ pc \in [Users -> {"idle", "absent", "rooted", "rootless", "removing"}]
    /\ found \in [Users -> 0..ids] /\ \A u \in Removing : found[u] # 0
    /\ holds \subseteq Users

(* A value that is removed by who has added it is reserved for one user at *)
(* a time and stays in the set until that user's removal: though several   *)
(* may find it absent, one save succeeds.                                  *)
OneHolder ==
    /\ \A u, v \in holds \cup Removing : u = v
    /\ holds \cup Removing # {} => row # 0
=============================================================================
