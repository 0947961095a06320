-------------------------- MODULE OrderTransaction --------------------------
(***************************************************************************)
(* What the saga promises about orders: an order that was accepted stays   *)
(* open until the stock is taken for it or it is cancelled, never both,    *)
(* and it is cancelled only when nothing is left.                          *)
(***************************************************************************)
EXTENDS Naturals, FiniteSets

CONSTANTS Orders, Stock

VARIABLE outcome

Outcomes == {"new", "refused", "open", "fulfilled", "cancelled"}

Fulfilled == {o \in Orders : outcome[o] = "fulfilled"}

Init == outcome = [o \in Orders |-> "new"]

Accept(o) == outcome[o] = "new" /\ outcome' = [outcome EXCEPT ![o] = "open"]

Refuse(o) == outcome[o] = "new" /\ outcome' = [outcome EXCEPT ![o] = "refused"]

Fulfil(o) ==
    /\ outcome[o] = "open" /\ Cardinality(Fulfilled) < Stock
    /\ outcome' = [outcome EXCEPT ![o] = "fulfilled"]

Cancel(o) ==
    /\ outcome[o] = "open" /\ Cardinality(Fulfilled) = Stock
    /\ outcome' = [outcome EXCEPT ![o] = "cancelled"]

Next == \E o \in Orders : Accept(o) \/ Refuse(o) \/ Fulfil(o) \/ Cancel(o)

Spec == Init /\ [][Next]_outcome
=============================================================================
