------------------------------ MODULE MCToggles ------------------------------
(***************************************************************************)
(* Three requests of one agent for one message, one for another message,   *)
(* and one for a message that does not exist.                              *)
(***************************************************************************)
EXTENDS Toggles

CONSTANTS r1, r2, r3, other, lost, k1, k2, k3

MCRequests == {r1, r2, r3, other, lost}
MCTarget ==
    [r \in MCRequests |-> IF r = other THEN k2 ELSE IF r = lost THEN k3 ELSE k1]
=============================================================================
