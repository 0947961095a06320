--------------------------- MODULE MCReservation ---------------------------
(* Three creations ask for one name and one for another. *)
EXTENDS Reservation

CONSTANTS a, b, c, d, n, m

MCCreations == {a, b, c, d}
MCNames == {n, m}
MCNameOf == [x \in MCCreations |-> IF x = d THEN m ELSE n]
=============================================================================
