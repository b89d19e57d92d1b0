------------------------------- MODULE MCLanes -------------------------------
(***************************************************************************)
(* Small instances of Lanes for TLC: one market token with lanes on two    *)
(* vaults, each created with a seed of its own.                            *)
(***************************************************************************)
EXTENDS Lanes

CONSTANTS t1, s1, s2, v1, v2

SeedOf == [v \in Vaults |-> IF v = v1 THEN s1 ELSE s2]

Yes(r) == [side |-> "Yes", rate |-> r]
No(r) == [side |-> "No", rate |-> r]

YesSeeds == [v \in Vaults |-> {[side |-> "Yes", rate |-> 1, deposit |-> IF v = v1 THEN 1 ELSE 3]}]
BothSides == [v \in Vaults |-> IF v = v1 THEN {Yes(1), No(1)} ELSE {Yes(1)}]
=============================================================================
