------------------------------ MODULE MCTreasury ------------------------------
(***************************************************************************)
(* A small instance of Treasury for TLC.                                   *)
(***************************************************************************)
EXTENDS Treasury

CONSTANTS u1, u2, l1, l2

MCLost == [l \in Losses |-> IF l = l1 THEN 1 ELSE 2]
MCParams == {[start |-> 3, floor |-> 1, knee |-> 2], [start |-> 2, floor |-> 2, knee |-> 1]}
=============================================================================
