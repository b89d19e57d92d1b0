------------------------------- MODULE MCVault -------------------------------
(***************************************************************************)
(* Small instances of Vault for TLC.                                       *)
(***************************************************************************)
EXTENDS Vault

CONSTANTS a1, a2

TwoRates == [a \in Accounts |-> IF a = a1 THEN {1} ELSE {2}]

OneSide == [s \in Sides |-> IF s = "Yes" THEN Accounts ELSE {}]
Opposed == [s \in Sides |-> IF s = "Yes" THEN {a1, a2} ELSE {a2}]
=============================================================================
