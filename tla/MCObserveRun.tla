---------------------------- MODULE MCObserveRun ----------------------------
(* Small instances of ObserveRun for TLC: two observations, with one sink   *)
(* kind between them or one each.                                           *)
EXTENDS ObserveRun, TLC

CONSTANTS A, B

OneSink == [o \in {A, B} |-> "live"]
TwoSinks == [o \in {A, B} |-> IF o = A THEN "live" ELSE "file"]
Observations == Permutations({A, B})

AloneSink == [o \in {A} |-> "live"]
=============================================================================
