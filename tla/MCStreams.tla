------------------------------ MODULE MCStreams ------------------------------
(***************************************************************************)
(* Small instances of Streams for TLC.                                     *)
(***************************************************************************)
EXTENDS Streams

CONSTANTS r1, s1

Steady(rate) == [to |-> r1, id |-> 0, rate |-> rate, start |-> 0, duration |-> 0]
Planned(rate, start, duration) == [to |-> r1, id |-> 0, rate |-> rate, start |-> start, duration |-> duration]

MCDeltas == {-2, 4}
MCConfigs == [s \in Senders |-> 3]
MCLists == [s \in Senders |-> {{Steady(1), Planned(3, 4, 2)}, {Steady(3), Planned(3, 4, 2)}}]
=============================================================================
