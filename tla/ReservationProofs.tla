------------------------- MODULE ReservationProofs -------------------------
(***************************************************************************)
(* Names stay unique for any number of creations, and any of them may      *)
(* fail, as long as a cache that is lost is not lost alone; and, at the    *)
(* end, what Reservation takes for granted of the cache, for the one that  *)
(* is no single statement on a database: a value of TypeORMCache is        *)
(* reserved for one user at a time.                                        *)
(***************************************************************************)
EXTENDS Reservation, TypeORMCache, TLAPS

(* Rows and phases agree, and no two rows have the same name. *)
RowInv ==
    /\ projected = {c \in Creations : phase[c] \in {"saved", "released", "unreleased"}}
    /\ \A c, d \in projected : NameOf[c] = NameOf[d] => c = d

(* The answer of nameExists is not stale when it is used: no row with the  *)
(* name can appear while the creation that asked holds the reservation.    *)
AnswerInv ==
    \A c \in Creations :
        /\ phase[c] \in {"free", "created", "unprojected"} => ~NameExists(NameOf[c])
        /\ phase[c] = "exists" => NameExists(NameOf[c])

IInv == TypeOK /\ OneHolderPerName /\ RowInv /\ AnswerInv /\ RefusedForAnother

-----------------------------------------------------------------------------
LEMMA InitInv == Init => IInv
BY DEF Init, IInv, TypeOK, OneHolderPerName, RowInv, AnswerInv, RefusedForAnother, NameExists,
       Holders, Phases, Checking

(* A creation that moves changes no other phase. *)
LEMMA MoveEffect ==
    ASSUME TypeOK, NEW c \in Creations, NEW from, NEW to \in Phases, Move(c, from, to)
    PROVE  /\ phase[c] = from /\ phase'[c] = to
           /\ phase' \in [Creations -> Phases]
           /\ \A d \in Creations \ {c} : phase'[d] = phase[d]
BY DEF TypeOK, Move

(* A step that keeps the cache and the rows, and lets a creation go on     *)
(* among the holders or apart from them.                                   *)
LEMMA QuietMove ==
    ASSUME IInv, NEW c \in Creations, NEW from \in Phases, NEW to \in Phases,
           Move(c, from, to), UNCHANGED <<reserved, projected>>,
           <<from, to>> \in {<<"new", "merged">>, <<"reserved", "free">>, <<"reserved", "exists">>,
                             <<"reserved", "leaked">>, <<"free", "created">>, <<"created", "unprojected">>,
                             <<"merged", "lost">>, <<"exists", "leaked">>, <<"saved", "unreleased">>},
           to = "free" => ~NameExists(NameOf[c]),
           to = "exists" => NameExists(NameOf[c])
    PROVE  IInv'
<1>. /\ TypeOK /\ OneHolderPerName /\ RowInv /\ AnswerInv /\ RefusedForAnother
  BY DEF IInv
<1>1. /\ phase[c] = from /\ phase'[c] = to
      /\ phase' \in [Creations -> Phases]
      /\ \A d \in Creations \ {c} : phase'[d] = phase[d]
  BY MoveEffect
<1>2. TypeOK'
  BY <1>1 DEF TypeOK
<1>3. Holders' = Holders
  BY <1>1 DEF Holders, Checking
<1>4. \A n : NameExists(n)' <=> NameExists(n)
  BY DEF NameExists
<1>5. OneHolderPerName'
  BY <1>3 DEF OneHolderPerName
<1>6. RowInv'
  BY <1>1 DEF RowInv
<1>7. AnswerInv'
  BY <1>1, <1>4 DEF AnswerInv
<1>8. Stored \subseteq Stored'
  BY <1>1 DEF Stored
<1>9. RefusedForAnother'
  BY <1>1, <1>3, <1>8 DEF RefusedForAnother
<1>. QED  BY <1>2, <1>5, <1>6, <1>7, <1>9 DEF IInv

(* A name that is taken already: its holder is another creation. *)
LEMMA ReserveTaken ==
    ASSUME IInv, NEW c \in Creations, NameOf[c] \in reserved,
           Move(c, "merged", "refused"), UNCHANGED <<reserved, projected>>
    PROVE  IInv'
<1>. /\ TypeOK /\ OneHolderPerName /\ RowInv /\ AnswerInv /\ RefusedForAnother
  BY DEF IInv
<1>1. /\ phase[c] = "merged" /\ phase'[c] = "refused"
      /\ phase' \in [Creations -> Phases]
      /\ \A d \in Creations \ {c} : phase'[d] = phase[d]
  BY MoveEffect DEF Phases
<1>2. /\ Holders' = Holders /\ Stored' = Stored
      /\ \A n : NameExists(n)' <=> NameExists(n)
  BY <1>1 DEF Holders, Stored, Checking, NameExists
<1>3. PICK d \in Holders : NameOf[d] = NameOf[c]
  BY DEF OneHolderPerName
<1>4. d \in Creations \ {c}
  BY <1>1, <1>3 DEF Holders, Checking
<1>5. RefusedForAnother'
  BY <1>1, <1>2, <1>3, <1>4 DEF RefusedForAnother
<1>6. TypeOK' /\ OneHolderPerName' /\ RowInv'
  BY <1>1, <1>2 DEF TypeOK, OneHolderPerName, RowInv
<1>7. AnswerInv'
  BY <1>1, <1>2 DEF AnswerInv
<1>. QED  BY <1>5, <1>6, <1>7 DEF IInv

(* A free name that is taken, whether the handler goes on or fails. *)
LEMMA TakeName ==
    ASSUME IInv, NEW c \in Creations, NEW to \in {"reserved", "leaked"}, NameOf[c] \notin reserved,
           Move(c, "merged", to), AddToSet(NameOf[c]), UNCHANGED projected
    PROVE  IInv'
<1>. /\ TypeOK /\ OneHolderPerName /\ RowInv /\ AnswerInv /\ RefusedForAnother
  BY DEF IInv
<1>. USE NameOfAssumption
<1>1. /\ phase[c] = "merged" /\ phase'[c] = to
      /\ phase' \in [Creations -> Phases]
      /\ \A d \in Creations \ {c} : phase'[d] = phase[d]
      /\ reserved' = reserved \cup {NameOf[c]}
  BY MoveEffect DEF Phases, Checking, AddToSet
<1>2. /\ Holders' = Holders \cup {c} /\ Stored' = Stored
      /\ \A n : NameExists(n)' <=> NameExists(n)
  BY <1>1 DEF Holders, Stored, Checking, NameExists
<1>3. \A d \in Holders : NameOf[d] # NameOf[c]
  BY DEF OneHolderPerName
<1>4. OneHolderPerName'
  BY <1>1, <1>2, <1>3 DEF OneHolderPerName
<1>5. TypeOK' /\ RowInv'
  BY <1>1 DEF TypeOK, RowInv
<1>6. AnswerInv'
  BY <1>1, <1>2 DEF AnswerInv
<1>7. RefusedForAnother'
  BY <1>1, <1>2 DEF RefusedForAnother
<1>. QED  BY <1>4, <1>5, <1>6, <1>7 DEF IInv

(* A name that exists is given back, whether the handler reports that or   *)
(* fails.                                                                  *)
LEMMA GiveBack ==
    ASSUME IInv, NEW c \in Creations, NEW to \in {"refused", "lost"},
           Move(c, "exists", to), RemoveFromSet(NameOf[c]), UNCHANGED projected
    PROVE  IInv'
<1>. /\ TypeOK /\ OneHolderPerName /\ RowInv /\ AnswerInv /\ RefusedForAnother
  BY DEF IInv
<1>1. /\ phase[c] = "exists" /\ phase'[c] = to
      /\ phase' \in [Creations -> Phases]
      /\ \A d \in Creations \ {c} : phase'[d] = phase[d]
      /\ reserved' = reserved \ {NameOf[c]} /\ projected' = projected
  BY MoveEffect DEF RemoveFromSet, Phases
<1>2. /\ Holders' = Holders \ {c} /\ Stored' = Stored /\ c \in Holders
      /\ \A n : NameExists(n)' <=> NameExists(n)
  BY <1>1 DEF Holders, Stored, Checking, NameExists
<1>3. PICK d \in projected : NameOf[d] = NameOf[c]
  BY <1>1 DEF AnswerInv, NameExists
<1>4. d \in Stored /\ d # c /\ \A e \in Stored : phase'[e] # "refused"
  BY <1>1, <1>2, <1>3 DEF RowInv, Stored
<1>5. RefusedForAnother'
  <2> SUFFICES ASSUME NEW e \in Creations, phase'[e] = "refused"
               PROVE  \E f \in Creations \ {e} : NameOf[f] = NameOf[e] /\ f \in Stored' \cup Holders'
    BY DEF RefusedForAnother
  <2>1. CASE NameOf[e] = NameOf[c]
    BY <1>2, <1>3, <1>4, <2>1 DEF RowInv
  <2>2. CASE NameOf[e] # NameOf[c]
    BY <1>1, <1>2, <2>2 DEF RefusedForAnother
  <2>. QED  BY <2>1, <2>2
<1>6. OneHolderPerName'
  BY <1>1, <1>2 DEF OneHolderPerName, Holders
<1>7. TypeOK' /\ RowInv'
  BY <1>1 DEF TypeOK, RowInv
<1>8. AnswerInv'
  BY <1>1, <1>2 DEF AnswerInv
<1>. QED  BY <1>5, <1>6, <1>7, <1>8 DEF IInv

LEMMA ReservePreserves ==
    ASSUME IInv, NEW c \in Creations, Reserve(c)
    PROVE  IInv'
<1>1. CASE NameOf[c] \in reserved
  <2>1. Move(c, "merged", "refused") /\ UNCHANGED <<reserved, projected>>
    BY <1>1 DEF Reserve, AddToSet
  <2>. QED  BY <1>1, <2>1, ReserveTaken
<1>2. CASE NameOf[c] \notin reserved
  BY <1>2, TakeName DEF Reserve
<1>. QED  BY <1>1, <1>2

LEMMA ReserveFailsPreserves ==
    ASSUME IInv, NEW c \in Creations, ReserveFails(c)
    PROVE  IInv'
<1>1. CASE Move(c, "merged", "lost") /\ UNCHANGED reserved
  BY <1>1, QuietMove DEF ReserveFails, Phases
<1>2. CASE NameOf[c] \notin reserved /\ Move(c, "merged", "leaked") /\ AddToSet(NameOf[c])
  BY <1>2, TakeName DEF ReserveFails
<1>. QED  BY <1>1, <1>2 DEF ReserveFails

LEMMA RefuseFailsPreserves ==
    ASSUME IInv, NEW c \in Creations, RefuseFails(c)
    PROVE  IInv'
<1>1. CASE Move(c, "exists", "leaked") /\ UNCHANGED reserved
  BY <1>1, QuietMove DEF RefuseFails, Phases, Checking
<1>2. CASE Move(c, "exists", "lost") /\ RemoveFromSet(NameOf[c])
  BY <1>2, GiveBack DEF RefuseFails
<1>. QED  BY <1>1, <1>2 DEF RefuseFails

LEMMA ReleasePreserves ==
    ASSUME IInv, NEW c \in Creations, Release(c)
    PROVE  IInv'
<1>. /\ TypeOK /\ OneHolderPerName /\ RowInv /\ AnswerInv /\ RefusedForAnother
  BY DEF IInv
<1>1. /\ phase[c] = "saved" /\ phase'[c] = "released"
      /\ phase' \in [Creations -> Phases]
      /\ \A d \in Creations \ {c} : phase'[d] = phase[d]
      /\ reserved' = reserved \ {NameOf[c]} /\ projected' = projected
  BY MoveEffect DEF Release, RemoveFromSet, Phases
<1>2. /\ Holders' = Holders \ {c} /\ Stored' = Stored /\ c \in Holders /\ c \in Stored
      /\ \A n : NameExists(n)' <=> NameExists(n)
  BY <1>1 DEF Holders, Stored, Checking, NameExists
<1>3. OneHolderPerName'
  BY <1>1, <1>2 DEF OneHolderPerName, Holders
<1>4. TypeOK' /\ RowInv'
  BY <1>1 DEF TypeOK, RowInv
<1>5. AnswerInv'
  BY <1>1, <1>2 DEF AnswerInv
<1>6. RefusedForAnother'
  BY <1>1, <1>2 DEF RefusedForAnother
<1>. QED  BY <1>3, <1>4, <1>5, <1>6 DEF IInv

LEMMA SavePreserves ==
    ASSUME IInv, NEW c \in Creations, Save(c)
    PROVE  IInv'
<1>. /\ TypeOK /\ OneHolderPerName /\ RowInv /\ AnswerInv /\ RefusedForAnother
  BY DEF IInv
<1>1. /\ phase[c] = "created" /\ phase'[c] = "saved"
      /\ phase' \in [Creations -> Phases]
      /\ \A d \in Creations \ {c} : phase'[d] = phase[d]
      /\ reserved' = reserved /\ projected' = projected \cup {c}
  BY MoveEffect DEF Save, Phases
<1>2. Holders' = Holders /\ Stored' = Stored /\ c \in Holders
  BY <1>1 DEF Holders, Stored, Checking
<1>3. \A n : NameExists(n)' <=> NameExists(n) \/ n = NameOf[c]
  BY <1>1 DEF NameExists
<1>4. \A d \in projected : NameOf[d] # NameOf[c]
  BY <1>1 DEF AnswerInv, NameExists
<1>5. RowInv'
  BY <1>1, <1>4 DEF RowInv
<1>6. AnswerInv'
  <2> SUFFICES ASSUME NEW d \in Creations
               PROVE  /\ phase'[d] \in {"free", "created", "unprojected"} => ~NameExists(NameOf[d])'
                      /\ phase'[d] = "exists" => NameExists(NameOf[d])'
    BY DEF AnswerInv
  <2>1. CASE d = c
    BY <1>1, <2>1
  <2>2. CASE d # c
    <3>1. phase'[d] \in {"free", "created", "unprojected"} => d \in Holders
      BY <1>1, <2>2 DEF Holders, Checking
    <3>2. phase'[d] \in {"free", "created", "unprojected"} => NameOf[d] # NameOf[c]
      BY <1>2, <2>2, <3>1 DEF OneHolderPerName
    <3>. QED  BY <1>1, <1>3, <2>2, <3>2 DEF AnswerInv
  <2>. QED  BY <2>1, <2>2
<1>7. TypeOK' /\ OneHolderPerName'
  BY <1>1, <1>2 DEF TypeOK, OneHolderPerName
<1>8. RefusedForAnother'
  BY <1>1, <1>2 DEF RefusedForAnother
<1>. QED  BY <1>5, <1>6, <1>7, <1>8 DEF IInv

LEMMA RestartPreserves ==
    ASSUME IInv, CacheSurvives, Restart
    PROVE  IInv'
<1>. /\ TypeOK /\ OneHolderPerName /\ RowInv /\ AnswerInv /\ RefusedForAnother
  BY DEF IInv
<1>1. /\ phase' = [c \in Creations |-> AfterRestart(phase[c])]
      /\ reserved' = reserved /\ projected' = projected
  BY DEF Restart
<1>2. \A p \in Phases : AfterRestart(p) \in Phases
  BY DEF AfterRestart, Phases
<1>3. TypeOK'
  BY <1>1, <1>2 DEF TypeOK
<1>4. \A c \in Creations : phase'[c] = AfterRestart(phase[c]) /\ phase[c] \in Phases
  BY <1>1 DEF TypeOK
<1>5. /\ Holders' = Holders /\ Stored' = Stored
      /\ \A n : NameExists(n)' <=> NameExists(n)
  BY <1>1, <1>4 DEF Holders, Stored, Checking, AfterRestart, NameExists
<1>6. RowInv'
  BY <1>1, <1>4 DEF RowInv, AfterRestart, Checking
<1>7. AnswerInv'
  BY <1>4, <1>5 DEF AnswerInv, AfterRestart, Checking
<1>8. RefusedForAnother'
  BY <1>4, <1>5 DEF RefusedForAnother, AfterRestart, Checking
<1>9. OneHolderPerName'
  BY <1>1, <1>5 DEF OneHolderPerName
<1>. QED  BY <1>3, <1>6, <1>7, <1>8, <1>9 DEF IInv

-----------------------------------------------------------------------------
LEMMA StepPreserves ==
    ASSUME Restarts => CacheSurvives, IInv, [Next]_vars
    PROVE  IInv'
<1>1. CASE Restart
  BY <1>1, RestartPreserves DEF Restart
<1>2. ASSUME NEW c \in Creations, Create(c)
      PROVE  IInv'
  <2>1. CASE MergeContext(c)
    BY <2>1, QuietMove DEF MergeContext, Phases
  <2>2. CASE Reserve(c)
    BY <2>2, ReservePreserves
  <2>3. CASE CheckName(c)
    BY <2>3, QuietMove DEF CheckName, Phases, Checking
  <2>4. CASE CheckFails(c)
    BY <2>4, QuietMove DEF CheckFails, Phases, Checking
  <2>5. CASE Refuse(c)
    BY <2>5, GiveBack DEF Refuse
  <2>6. CASE Commit(c)
    BY <2>6, QuietMove DEF Commit, Phases, Checking
  <2>7. CASE Save(c)
    BY <2>7, SavePreserves
  <2>8. CASE SaveFails(c)
    BY <2>8, QuietMove DEF SaveFails, Phases
  <2>9. CASE Release(c)
    BY <2>9, ReleasePreserves
  <2>10. CASE ReserveFails(c)
    BY <2>10, ReserveFailsPreserves
  <2>11. CASE RefuseFails(c)
    BY <2>11, RefuseFailsPreserves
  <2>12. CASE ReleaseFails(c)
    BY <2>12, QuietMove DEF ReleaseFails, Phases
  <2>. QED
    BY <1>2, <2>1, <2>2, <2>3, <2>4, <2>5, <2>6, <2>7, <2>8, <2>9, <2>10, <2>11, <2>12 DEF Create
<1>3. CASE UNCHANGED vars
  BY <1>3 DEF vars, IInv, TypeOK, OneHolderPerName, RowInv, AnswerInv, RefusedForAnother,
              NameExists, Holders, Stored
<1>. QED  BY <1>1, <1>2, <1>3 DEF Next

(* The three facts the properties follow from. *)
LEMMA InvImplies == IInv => TypeOK /\ OneHolderPerName /\ RefusedForAnother /\ UniqueNames
<1> SUFFICES ASSUME IInv
             PROVE  UniqueNames
  BY DEF IInv
<1> SUFFICES ASSUME NEW c \in Stored, NEW d \in Stored, NameOf[c] = NameOf[d]
             PROVE  c = d
  BY DEF UniqueNames
<1>1. \A e \in Stored : e \in Creations /\ (e \in projected \/ phase[e] \in {"created", "unprojected"})
  BY DEF IInv, RowInv, Stored
<1>2. CASE c \in projected /\ d \in projected
  BY <1>2 DEF IInv, RowInv
<1>3. CASE c \in projected /\ phase[d] \in {"created", "unprojected"}
  BY <1>1, <1>3 DEF IInv, AnswerInv, NameExists
<1>4. CASE d \in projected /\ phase[c] \in {"created", "unprojected"}
  BY <1>1, <1>4 DEF IInv, AnswerInv, NameExists
<1>5. CASE phase[c] \in {"created", "unprojected"} /\ phase[d] \in {"created", "unprojected"}
  <2>1. c \in Holders /\ d \in Holders
    BY <1>1, <1>5 DEF Holders
  <2>. QED  BY <2>1 DEF IInv, OneHolderPerName
<1>. QED  BY <1>1, <1>2, <1>3, <1>4, <1>5

(* With a cache that is kept over a restart, no two inventories have the   *)
(* same name, a reservation is only released by the creation that made it, *)
(* and a creation is only refused for another one with its name.           *)
THEOREM NamesAreUnique ==
    ASSUME Restarts => CacheSurvives
    PROVE  Spec => [](TypeOK /\ UniqueNames /\ OneHolderPerName /\ RefusedForAnother)
<1>1. IInv /\ [Next]_vars => IInv'
  BY StepPreserves
<1>. QED  BY <1>1, InitInv, InvImplies, PTL DEF Spec

(* Every variable keeps its type, whatever fails or is lost.               *)
THEOREM TypeCorrect == Spec => []TypeOK
<1>. USE NameOfAssumption
<1>1. Init => TypeOK
  BY DEF Init, TypeOK, Phases
<1>2. TypeOK /\ [Next]_vars => TypeOK'
  <2> SUFFICES ASSUME TypeOK, [Next]_vars
               PROVE  TypeOK'
    OBVIOUS
  <2>1. ASSUME NEW c \in Creations, Create(c)
        PROVE  TypeOK'
    BY <2>1 DEF TypeOK, Create, MergeContext, Reserve, ReserveFails, CheckName, CheckFails, Refuse,
       RefuseFails, Commit, Save, SaveFails, Release, ReleaseFails, Move, AddToSet, RemoveFromSet,
       Phases, Checking
  <2>2. CASE Restart
    BY <2>2 DEF Restart, AfterRestart, TypeOK, Phases, Checking
  <2>3. CASE UNCHANGED vars
    BY <2>3 DEF vars, TypeOK
  <2>. QED  BY <2>1, <2>2, <2>3 DEF Next
<1>. QED  BY <1>1, <1>2, PTL DEF Spec

-----------------------------------------------------------------------------
(* TypeORMCache, for any number of users and rows.  The invariant has to   *)
(* say which row a removal has found: it is the one that is there, so the  *)
(* removal ends the reservation it began.                                  *)
Owners == holds \cup Removing

CacheInv ==
    /\ CacheTypeOK
    /\ \A u, v \in Owners : u = v
    /\ Owners # {} => row # 0
    /\ row # 0 => Owners # {}
    /\ \A u \in Removing : u \notin holds /\ found[u] = row

LEMMA InitCache == CacheInit => CacheInv
<1> SUFFICES ASSUME CacheInit PROVE CacheInv
  OBVIOUS
<1>. USE DEF CacheInit
<1>1. Removing = {} /\ Owners = {}
  BY DEF Removing, Owners
<1>2. CacheTypeOK
  <2>1. row \in 0..ids /\ found \in [Users -> 0..ids]
    OBVIOUS
  <2>2. root \in BOOLEAN /\ ids \in Nat
    OBVIOUS
  <2>3. pc \in [Users -> {"idle", "absent", "rooted", "rootless", "removing"}]
    OBVIOUS
  <2>. QED  BY <1>1, <2>1, <2>2, <2>3 DEF CacheTypeOK
<1>. QED  BY <1>1, <1>2 DEF CacheInv

(* A step that adds the value finds no row, hence no owner. *)
LEMMA AddKeeps == ASSUME NEW u \in Users, CacheInv, Add(u) PROVE CacheInv'
<1>. USE DEF CacheInv, CacheTypeOK, Owners, Removing, Goto
<1>1. CASE AddFindOne(u)
  BY <1>1 DEF AddFindOne
<1>2. CASE AddCount(u)
  BY <1>2 DEF AddCount
<1>3. CASE SaveValue(u) /\ row # 0
  BY <1>3 DEF SaveValue, Reject
<1>4. CASE SaveValue(u) /\ row = 0
  <2>1. InsertRow(u) /\ Goto(u, "rooted", "idle") /\ UNCHANGED <<root, found>>
    BY <1>4 DEF SaveValue
  <2>2. ids' = ids + 1 /\ row' = ids + 1 /\ row' # 0 /\ holds' = holds \cup {u}
    BY <2>1 DEF InsertRow
  <2>3. Removing' = Removing /\ u \notin Removing
    BY <2>1
  <2>4. CacheTypeOK'
    BY <2>1, <2>2, <2>3 DEF InsertRow
  <2>5. Owners = {}
    BY <1>4
  <2>. QED  BY <2>1, <2>2, <2>3, <2>4, <2>5
<1>5. CASE SaveRoot(u) /\ row # 0
  BY <1>5 DEF SaveRoot, Reject
<1>6. CASE SaveRoot(u) /\ row = 0
  <2>1. InsertRow(u) /\ root' = TRUE /\ Goto(u, "rootless", "idle") /\ UNCHANGED found
    BY <1>6 DEF SaveRoot
  <2>2. ids' = ids + 1 /\ row' = ids + 1 /\ row' # 0 /\ holds' = holds \cup {u}
    BY <2>1 DEF InsertRow
  <2>3. Removing' = Removing /\ u \notin Removing
    BY <2>1
  <2>4. CacheTypeOK'
    BY <2>1, <2>2, <2>3 DEF InsertRow
  <2>5. Owners = {}
    BY <1>6
  <2>. QED  BY <2>1, <2>2, <2>3, <2>4, <2>5
<1>. QED  BY <1>1, <1>2, <1>3, <1>4, <1>5, <1>6 DEF Add

(* Only an owner removes, and the row it removes is its own. *)
LEMMA RemoveKeeps == ASSUME NEW u \in Users, CacheInv, Remove(u) PROVE CacheInv'
<1>. USE DEF CacheInv, CacheTypeOK, Owners, Removing, Goto
<1>1. CASE RemoveFindOne(u) /\ row = 0
  BY <1>1 DEF RemoveFindOne
<1>2. CASE RemoveFindOne(u) /\ row # 0
  <2>1. Removing' = Removing \cup {u} /\ u \notin Removing /\ holds' = holds \ {u}
    BY <1>2 DEF RemoveFindOne
  <2>2. CacheTypeOK'
    BY <1>2, <2>1 DEF RemoveFindOne
  <2>3. u \in holds /\ Owners = {u} /\ Owners' = {u}
    BY <1>2, <2>1 DEF RemoveFindOne
  <2>. QED  BY <1>2, <2>1, <2>2, <2>3 DEF RemoveFindOne
<1>3. CASE RemoveEntity(u)
  <2>1. Removing' = Removing \ {u} /\ u \in Removing /\ holds' = holds
    BY <1>3 DEF RemoveEntity
  <2>2. CacheTypeOK'
    BY <1>3, <2>1 DEF RemoveEntity
  <2>3. Owners' = {} /\ row' = 0
    BY <1>3, <2>1 DEF RemoveEntity
  <2>. QED  BY <2>2, <2>3
<1>. QED  BY <1>1, <1>2, <1>3 DEF Remove

(* A value that is removed by who has added it is reserved for one user at *)
(* a time, though addToSet is not atomic.                                  *)
THEOREM OneReservation == CacheSpec => [](CacheTypeOK /\ OneHolder)
<1>1. CacheInv /\ [CacheNext]_cacheVars => CacheInv'
  <2>1. ASSUME CacheInv, UNCHANGED cacheVars PROVE CacheInv'
    BY <2>1 DEF CacheInv, CacheTypeOK, Owners, Removing, cacheVars
  <2>. QED  BY <2>1, AddKeeps, RemoveKeeps DEF CacheNext
<1>2. CacheInv => CacheTypeOK /\ OneHolder
  BY DEF CacheInv, OneHolder, Owners
<1>. QED  BY <1>1, <1>2, InitCache, PTL DEF CacheSpec
=============================================================================
