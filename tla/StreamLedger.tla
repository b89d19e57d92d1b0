----------------------------- MODULE StreamLedger -----------------------------
(***************************************************************************)
(* What the streaming library promises (the contract of Streams.sol, see   *)
(* the list of properties above _streamedAmt): money moves second by       *)
(* second.  In every second a sender whose funds cover all of its streams  *)
(* pays each of them the units that fall due in that second, and a sender  *)
(* whose funds do not is stopped until it configures its streams again.    *)
(* What was paid is owed to the receiver until it is banked, exactly once. *)
(*                                                                         *)
(* Nothing here knows of cycles of deltas, histories or end times computed *)
(* ahead: Streams.tla implements this specification with them.             *)
(***************************************************************************)
EXTENDS Integers, Functions

CONSTANTS Senders, Receivers, CycleSecs, Multiplier

VARIABLES
    now,
    streams,     \* the streams of each sender: to, rate, from, until and
                 \* what tells one from another
    funds,       \* what each sender has not streamed yet
    stopped,     \* the senders that pay nothing until they configure again
    owed,        \* streamed to each receiver and not banked
    collectable

vars == <<now, streams, funds, stopped, owed, collectable>>

\* The units a stream pays in second t: fractions wait within their cycle.
PerSecond(rate, t) ==
    LET n == t % CycleSecs
    IN  ((n + 1) * rate) \div Multiplier - (n * rate) \div Multiplier

Flows(c, t) == c.from <= t /\ t < c.until

Due(list, t) == SumFunction([c \in list |-> IF Flows(c, t) THEN PerSecond(c.rate, t) ELSE 0])

To(r, list) == {c \in list : c.to = r}

\* From second t on, nothing flows in c.
Over(c, t) == c.until <= t \/ c.until <= c.from

Exhausted(list, left, t) ==
    \/ left = 0
    \/ \A c \in list : Over(c, t)
    \/ Due(list, t) > left

Init ==
    /\ now > 0
    /\ streams = [s \in Senders |-> {}]
    /\ funds = [s \in Senders |-> 0]
    /\ stopped = Senders
    /\ owed = [r \in Receivers |-> 0]
    /\ collectable = [r \in Receivers |-> 0]

Second ==
    /\ now' = now + 1
    /\ UNCHANGED <<streams, collectable>>
    /\ funds' = [s \in Senders |->
                   IF s \in stopped THEN funds[s] ELSE funds[s] - Due(streams[s], now)]
    /\ owed' = [r \in Receivers |-> owed[r] +
                  SumFunction([s \in Senders \ stopped |-> Due(To(r, streams[s]), now)])]
    /\ stopped' = stopped \cup {s \in Senders : Exhausted(streams[s], funds'[s], now')}

\* A sender pays in or takes out, and replaces its streams.
Configure(s) ==
    /\ UNCHANGED <<now, collectable>>
    /\ funds'[s] >= 0
    /\ \A o \in Senders \ {s} : funds'[o] = funds[o] /\ streams'[o] = streams[o]
    /\ stopped' = IF Exhausted(streams'[s], funds'[s], now) THEN stopped \cup {s} ELSE stopped \ {s}
    /\ UNCHANGED owed

\* Some of what is owed becomes collectable.
Bank(r) ==
    /\ UNCHANGED <<now, streams>>
    /\ collectable'[r] >= collectable[r]
    /\ \A o \in Receivers \ {r} : collectable'[o] = collectable[o]
    /\ owed' = [owed EXCEPT ![r] = @ - (collectable'[r] - collectable[r])]
    /\ owed'[r] >= 0
    /\ UNCHANGED <<funds, stopped>>

Collect(r) ==
    /\ collectable' = [collectable EXCEPT ![r] = 0]
    /\ UNCHANGED <<now, streams, funds, stopped, owed>>

Next ==
    \/ Second
    \/ \E s \in Senders : Configure(s)
    \/ \E r \in Receivers : Bank(r) \/ Collect(r)

Spec == Init /\ [][Next]_vars
=============================================================================
