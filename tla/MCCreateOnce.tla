----------------------------- MODULE MCCreateOnce -----------------------------
(***************************************************************************)
(* Small instances of CreateOnce for TLC: intents with a resolution window *)
(* of their own, and an intent whose window is left blank, so that every   *)
(* request gives it the window, and the key, of its own second.            *)
(***************************************************************************)
EXTENDS CreateOnce

CONSTANTS c1, c2, i1, i2, k1, k2

Explicit == [i \in Intents |-> IF i = i1 THEN {k1} ELSE {k2}]
Blank == [i \in Intents |-> {k1, k2}]
=============================================================================
