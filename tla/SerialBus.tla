----------------------------- MODULE SerialBus -----------------------------
(***************************************************************************)
(* What a bus that is alone to subscribe to a publisher relies on: the     *)
(* messages accepted are handed over in the order of acceptance, none is   *)
(* skipped or repeated, and a message is handed over only when the one     *)
(* before it has been acknowledged.  How the publisher keeps them in       *)
(* between is left open.                                                   *)
(***************************************************************************)
EXTENDS Naturals, Sequences

CONSTANT Messages

VARIABLES accepted,  (* the messages publish() took, in order   *)
          started,   (* how many of them were handed over       *)
          finished   (* how many of them were acknowledged      *)

vars == <<accepted, started, finished>>

Init == accepted = <<>> /\ started = 0 /\ finished = 0

(* A step accepts at most one message, acknowledges at most one and hands  *)
(* over at most one; an acknowledgement or an acceptance may hand over the *)
(* next message in the same step.                                          *)
Next ==
    /\ \/ accepted' = accepted
       \/ \E m \in Messages : accepted' = Append(accepted, m)
    /\ finished' \in {finished, finished + 1}
    /\ started' \in {started, started + 1}
    /\ finished' <= started
    /\ started' <= finished' + 1
    /\ started' <= Len(accepted')

Spec == Init /\ [][Next]_vars
=============================================================================
