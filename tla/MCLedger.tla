------------------------------ MODULE MCLedger ------------------------------
(* Ledger for TLC: two equal withdrawals and two equal processes.          *)
EXTENDS Ledger

CONSTANTS first, second, node, spare

Alike == {p @@ q : p \in Permutations({first, second}), q \in Permutations({node, spare})}
=============================================================================
