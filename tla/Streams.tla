------------------------------- MODULE Streams -------------------------------
(***************************************************************************)
(* Drips streaming of one token (Streams.sol, DripsStreaming.sol).         *)
(*                                                                         *)
(* A sender's configuration is a list of streams, an end computed ahead    *)
(* (maxEnd) and the balance at its last update.  A receiver learns of      *)
(* streams through deltas: amtDeltas[c] says by how much the amount of     *)
(* cycle c and of the cycle after it differ from the cycle before.  A      *)
(* receiver takes finished cycles with receiveStreams and the running one, *)
(* sender by sender, with squeezeStreams.                                  *)
(*                                                                         *)
(* The drivers move the tokens in the same transaction; a call that        *)
(* reverts is a disabled action.                                           *)
(***************************************************************************)
EXTENDS Integers, Sequences, FiniteSets, FiniteSetsExt, Functions

CONSTANTS
    Senders,
    Receivers,
    Lists,        \* bound: the lists of receivers each sender chooses from
    BalanceDeltas,\* bound: what one call adds to or takes from a balance
    MaxFunds,     \* bound: the balance of a sender
    MaxConfigs,   \* bound: the configurations of each sender
    MaxTime,      \* bound: the last second of a behaviour
    LastConfig,   \* bound: the last second at which streams are configured
    CycleSecs,    \* _CYCLE_SECS
    Multiplier,   \* _AMT_PER_SEC_MULTIPLIER
    Forever       \* type(uint32).max

\* A list is sorted and deduplicated in the code; here it is a set.  An id
\* tells apart streams that are the same in everything else.
IsList(list) ==
    /\ IsFiniteSet(list)
    /\ \A c \in list : /\ c \in [to : Receivers, id : Nat, rate : Nat,
                                start : 0..Forever, duration : 0..Forever]
                       /\ c.rate >= (Multiplier + CycleSecs - 1) \div CycleSecs

ASSUME StreamsAssumption ==
    /\ IsFiniteSet(Senders) /\ IsFiniteSet(Receivers)
    /\ CycleSecs \in Nat \ {0, 1}
    /\ Multiplier \in Nat \ {0}
    /\ {MaxFunds, LastConfig, Forever} \subseteq Nat
    /\ MaxConfigs \in [Senders -> Nat]
    /\ MaxTime \in 1..Forever
    /\ BalanceDeltas \subseteq Int
    /\ \A s \in Senders : \A list \in Lists[s] : IsList(list)

VARIABLES
    now,        \* block.timestamp
    sender,     \* the StreamsState of each sender
    receiver,   \* the StreamsState of each receiver
    balances,   \* the Balance of the token: streams, collectable
    collectableAmts

vars == <<now, sender, receiver, balances, collectableAmts>>

Lesser(x, y) == IF x < y THEN x ELSE y
Larger(x, y) == IF x < y THEN y ELSE x

CycleOf(t) == t \div CycleSecs + 1
CycleStart == now - (now % CycleSecs)
Cycles == 1..CycleOf(Forever)

NewSender == [recv |-> {}, updateTime |-> 0, maxEnd |-> 0, balance |-> 0,
              currCycleConfigs |-> 0, history |-> << >>]

NoDelta == [thisCycle |-> 0, nextCycle |-> 0]
NoDeltas == [c \in Cycles |-> NoDelta]

NewReceiver == [nextReceivableCycle |-> 0,
                amtDeltas |-> NoDeltas,
                nextSqueezed |-> [s \in Senders |-> [i \in 0..MaxConfigs[s] - 1 |-> 0]]]

Init ==
    /\ now = 1
    /\ sender = [s \in Senders |-> NewSender]
    /\ receiver = [r \in Receivers |-> NewReceiver]
    /\ balances = [streams |-> 0, collectable |-> 0]
    /\ collectableAmts = [r \in Receivers |-> 0]

-----------------------------------------------------------------------------
(* Amounts and time ranges.                                                *)

StreamedAmt(rate, start, end) ==
    LET amtPerCycle == (CycleSecs * rate) \div Multiplier
        within(t) == ((t % CycleSecs) * rate) \div Multiplier
    IN  (end \div CycleSecs - start \div CycleSecs) * amtPerCycle + within(end) - within(start)

StreamRange(c, updateTime, maxEnd, startCap, endCap) ==
    LET start == IF c.start = 0 THEN updateTime ELSE c.start
        end == IF c.duration = 0 \/ start + c.duration > maxEnd THEN maxEnd
                                                               ELSE start + c.duration
        from == Larger(start, startCap)
    IN  [from |-> from, to |-> Larger(from, Lesser(end, endCap))]

InFuture(c, updateTime, maxEnd) == StreamRange(c, updateTime, maxEnd, now, Forever)

RangeAmt(c, range) == StreamedAmt(c.rate, range.from, range.to)

BalanceAt(s, t) ==
    s.balance - SumFunction(
        [c \in s.recv |-> RangeAmt(c, StreamRange(c, s.updateTime, s.maxEnd, s.updateTime, t))])

IsBalanceEnough(balance, list, end) ==
    LET spent(c) == LET range == InFuture(c, now, Forever)
                    IN  IF end <= range.from THEN 0
                        ELSE StreamedAmt(c.rate, range.from, Lesser(range.to, end))
    IN  SumFunction([c \in list |-> spent(c)]) <= balance

\* Mutant: the search ends on the first second that is not covered.
MaxEndNotEnough(balance, list) ==
    IF balance = 0 \/ \A c \in list : InFuture(c, now, Forever).from = InFuture(c, now, Forever).to
    THEN now
    ELSE Lesser(Forever, 1 + Max({e \in now..Forever : IsBalanceEnough(balance, list, e)}))

\* The hints of the search have no effect on its result.
MaxEnd(balance, list) ==
    IF balance = 0 \/ \A c \in list : InFuture(c, now, Forever).from = InFuture(c, now, Forever).to
    THEN now
    ELSE Max({e \in now..Forever : IsBalanceEnough(balance, list, e)})

-----------------------------------------------------------------------------
(* The deltas of a receiver.                                               *)

\* Solidity's signed division rounds toward zero.
Quotient(x) == IF x >= 0 THEN x \div Multiplier ELSE -((-x) \div Multiplier)

\* What _addDelta adds to the deltas.
Delta(t, rate) ==
    LET fullCycle == Quotient(CycleSecs * rate)
        nextCycle == Quotient((t % CycleSecs) * rate)
    IN  [k \in Cycles |-> IF k = CycleOf(t)
                          THEN [thisCycle |-> fullCycle - nextCycle, nextCycle |-> nextCycle]
                          ELSE NoDelta]

Plus(d, e) == [k \in Cycles |-> [thisCycle |-> d[k].thisCycle + e[k].thisCycle,
                                 nextCycle |-> d[k].nextCycle + e[k].nextCycle]]

\* What _addDeltaRange adds.
DeltaRange(start, end, rate) ==
    IF start = end THEN NoDeltas ELSE Plus(Delta(start, rate), Delta(end, -rate))

SumDeltas(f) == [k \in Cycles |-> [thisCycle |-> SumFunction([x \in DOMAIN f |-> f[x][k].thisCycle]),
                                   nextCycle |-> SumFunction([x \in DOMAIN f |-> f[x][k].nextCycle])]]

\* Streams that differ in id and time only
SameStream(c, d) == c.to = d.to /\ c.rate = d.rate

\* The pairs that the walk along both sorted lists may form: each stream is in
\* one pair at most.  Which pairs it forms, and which it passes by, depends on
\* how ids and times sort the lists, and is left open.
Pairings(before, after) ==
    {pairs \in SUBSET {x \in before \X after : SameStream(x[1], x[2])} :
        \A x, y \in pairs : x[1] = y[1] \/ x[2] = y[2] => x = y}

\* What a change of the sender's streams from `old` to `list` does to p, the
\* state of receiver r: streams in a pair are shifted, the others are removed
\* or created.
Updated(p, r, old, list, pairs, newMaxEnd) ==
    LET removed == {c \in old.recv : c.to = r /\ \A x \in pairs : x[1] # c}
        created == {c \in list : c.to = r /\ \A x \in pairs : x[2] # c}
        shifted == {x \in pairs : x[1].to = r}
        was(c) == InFuture(c, old.updateTime, old.maxEnd)
        willBe(c) == InFuture(c, now, newMaxEnd)
        remove == [c \in removed |-> DeltaRange(was(c).from, was(c).to, -c.rate)]
        create == [c \in created |-> DeltaRange(willBe(c).from, willBe(c).to, c.rate)]
        shift == [x \in shifted |->
                    Plus(DeltaRange(was(x[1]).from, willBe(x[2]).from, -x[1].rate),
                         DeltaRange(was(x[1]).to, willBe(x[2]).to, x[1].rate))]
        earlier == {CycleOf(willBe(c).from) : c \in created}
                   \cup {CycleOf(willBe(x[2]).from) : x \in
                           {y \in shifted : CycleOf(was(y[1]).from) > CycleOf(willBe(y[2]).from)}}
    IN  [p EXCEPT
          !.amtDeltas = Plus(@, Plus(SumDeltas(remove), Plus(SumDeltas(create), SumDeltas(shift)))),
          !.nextReceivableCycle = IF earlier = {} THEN @
                                  ELSE IF @ = 0 THEN Min(earlier) ELSE Lesser(@, Min(earlier))]

-----------------------------------------------------------------------------
(* A driver configures a sender's streams.                                 *)

\* Mutant: the counter restarts from the new configuration alone.
ConfigsRestarted(s) ==
    IF s.history # << >> /\ CycleOf(s.updateTime) # CycleOf(now) THEN 1 ELSE s.currCycleConfigs + 1

\* The configuration in force when the cycle began counts as its first.
Configs(s) ==
    IF s.history # << >> /\ CycleOf(s.updateTime) # CycleOf(now) THEN 2 ELSE s.currCycleConfigs + 1

\* The balance can be taken out, but not overdrawn.
RealDelta(s, balanceDelta) == Larger(balanceDelta, -BalanceAt(s, now))

setStreams(s, balanceDelta, list) ==
    LET old == sender[s]
        real == RealDelta(old, balanceDelta)
        newBalance == BalanceAt(old, now) + real
        newMaxEnd == MaxEnd(newBalance, list)
    IN  /\ now <= LastConfig
        /\ Len(old.history) < MaxConfigs[s]
        /\ newBalance <= MaxFunds
        /\ \E pairs \in Pairings(old.recv, list) :
             receiver' = [r \in Receivers |-> Updated(receiver[r], r, old, list, pairs, newMaxEnd)]
        /\ sender' = [sender EXCEPT ![s] =
             [recv |-> list, updateTime |-> now, maxEnd |-> newMaxEnd, balance |-> newBalance,
              currCycleConfigs |-> Configs(old),
              history |-> Append(old.history, [recv |-> list, updateTime |-> now, maxEnd |-> newMaxEnd])]]
        /\ balances' = [balances EXCEPT !.streams = @ + real]
        /\ UNCHANGED <<now, collectableAmts>>

-----------------------------------------------------------------------------
(* Receivers take what was streamed.                                       *)

\* _bankReceived
Banked(r, amt) ==
    /\ balances' = [streams |-> balances.streams - amt, collectable |-> balances.collectable + amt]
    /\ collectableAmts' = [collectableAmts EXCEPT ![r] = @ + amt]

\* The amount of cycle c, the deltas before cycle `from` being zeroed.
AmtPerCycle(p, from, c) ==
    SumFunction([k \in from..c |-> p.amtDeltas[k].thisCycle])
    + SumFunction([k \in from..c - 1 |-> p.amtDeltas[k].nextCycle])

\* _receivableStreamsCyclesRange, limited to maxCycles
Receivable(p, maxCycles) ==
    LET from == p.nextReceivableCycle
    IN  [from |-> from,
         to |-> IF from = 0 \/ CycleOf(now) < from THEN from ELSE Lesser(CycleOf(now), from + maxCycles)]

ReceivedAmt(p, range) ==
    SumFunction([c \in range.from..range.to - 1 |-> AmtPerCycle(p, range.from, c)])

\* Mutant: the amount of the last received cycle is not carried over.
ReceivedNotCarried(p, range) ==
    [p EXCEPT !.nextReceivableCycle = range.to,
              !.amtDeltas = [c \in Cycles |-> IF c \in range.from..range.to - 1
                                              THEN NoDelta ELSE @[c]]]

\* The delta of the next cycle becomes an absolute amount.
Received(p, range) ==
    LET final == SumFunction([k \in range.from..range.to - 1 |->
                                p.amtDeltas[k].thisCycle + p.amtDeltas[k].nextCycle])
    IN  [p EXCEPT !.nextReceivableCycle = range.to,
                  !.amtDeltas = [c \in Cycles |->
                      IF c \in range.from..range.to - 1 THEN NoDelta
                      ELSE IF c = range.to THEN [thisCycle |-> @[c].thisCycle + final,
                                                 nextCycle |-> @[c].nextCycle]
                      ELSE @[c]]]

receiveStreams(r, maxCycles) ==
    LET range == Receivable(receiver[r], maxCycles)
    IN  /\ range.from # range.to
        /\ receiver' = [receiver EXCEPT ![r] = Received(@, range)]
        /\ Banked(r, ReceivedAmt(receiver[r], range))
        /\ UNCHANGED <<now, sender>>

\* The sender's configurations seen in the running cycle.
SeenThisCycle(s) == IF s.updateTime >= CycleStart THEN s.currCycleConfigs ELSE 1

Entry(s, i) == s.history[Len(s.history) - i + 1]

\* The part of the running cycle that entry i, counted from the newest, was
\* in force and was not squeezed yet.
SqueezeCaps(r, s, i) ==
    LET squeezed == receiver[r].nextSqueezed[s][SeenThisCycle(sender[s]) - i]
    IN  [from |-> Larger(Larger(squeezed, CycleStart), Entry(sender[s], i).updateTime),
         to |-> IF i = 1 THEN now ELSE Entry(sender[s], i - 1).updateTime]

\* `shown`: the entries whose receivers the caller discloses, the newest 1.
Squeezed(r, s, shown) ==
    {i \in shown : /\ i <= SeenThisCycle(sender[s])
                   /\ Entry(sender[s], i).recv # {}
                   /\ SqueezeCaps(r, s, i).from < SqueezeCaps(r, s, i).to}

\* Mutant: entries are squeezed to the current second, in force or not.
SqueezedAmtToNow(r, s, i) ==
    LET e == Entry(sender[s], i)
    IN  SumFunction([c \in {d \in e.recv : d.to = r} |->
          RangeAmt(c, StreamRange(c, e.updateTime, e.maxEnd, SqueezeCaps(r, s, i).from, now))])

SqueezedAmt(r, s, i) ==
    LET e == Entry(sender[s], i)
        caps == SqueezeCaps(r, s, i)
    IN  SumFunction([c \in {d \in e.recv : d.to = r} |->
          RangeAmt(c, StreamRange(c, e.updateTime, e.maxEnd, caps.from, caps.to))])

SqueezeAmt(r, s, shown) == SumFunction([i \in Squeezed(r, s, shown) |-> SqueezedAmt(r, s, i)])

\* The running cycle loses the amount; what was squeezed is marked until now.
Drained(p, s, amt, indices) ==
    [p EXCEPT !.amtDeltas = Plus(@, DeltaRange(CycleStart, CycleStart + 1, -(amt * Multiplier))),
              !.nextSqueezed[s] = [i \in DOMAIN @ |-> IF i \in indices THEN now ELSE @[i]]]

squeezeStreams(r, s, shown) ==
    LET amt == SqueezeAmt(r, s, shown)
        indices == {SeenThisCycle(sender[s]) - i : i \in Squeezed(r, s, shown)}
    IN  /\ indices # {}
        /\ receiver' = [receiver EXCEPT ![r] = Drained(@, s, amt, indices)]
        /\ Banked(r, amt)
        /\ UNCHANGED <<now, sender>>

collect(r) ==
    /\ collectableAmts[r] > 0
    /\ collectableAmts' = [collectableAmts EXCEPT ![r] = 0]
    /\ balances' = [balances EXCEPT !.collectable = @ - collectableAmts[r]]
    /\ UNCHANGED <<now, sender, receiver>>

Tick ==
    /\ now < MaxTime
    /\ now' = now + 1
    /\ UNCHANGED <<sender, receiver, balances, collectableAmts>>

Next ==
    \/ \E s \in Senders : \E balanceDelta \in BalanceDeltas, list \in Lists[s] :
         setStreams(s, balanceDelta, list)
    \/ \E r \in Receivers :
         \/ \E maxCycles \in 1..CycleOf(MaxTime) : receiveStreams(r, maxCycles)
         \/ \E s \in Senders : \E shown \in SUBSET (1..Len(sender[s].history)) :
              squeezeStreams(r, s, shown)
         \/ collect(r)
    \/ Tick

Spec == Init /\ [][Next]_vars
-----------------------------------------------------------------------------
(* Properties.                                                             *)

\* What r would get by receiving every finished cycle and squeezing the
\* running one from every sender.
Obtainable(r) ==
    ReceivedAmt(receiver[r], Receivable(receiver[r], CycleOf(Forever)))
    + SumFunction([s \in Senders |-> SqueezeAmt(r, s, 1..Len(sender[s].history))])

\* The shape of the storage.
TypeOK ==
    /\ now \in 1..MaxTime
    /\ \A s \in Senders :
         /\ DOMAIN sender[s] = DOMAIN NewSender
         /\ sender[s].recv \in Lists[s] \cup {{}}
         /\ \A f \in {"updateTime", "maxEnd", "balance", "currCycleConfigs"} : sender[s][f] \in Nat
         /\ sender[s].currCycleConfigs <= Len(sender[s].history)
    /\ \A r \in Receivers :
         /\ receiver[r].nextReceivableCycle \in Cycles \cup {0}
         /\ receiver[r].amtDeltas \in [Cycles -> [thisCycle : Int, nextCycle : Int]]
         /\ \A s \in Senders : receiver[r].nextSqueezed[s] \in [0..MaxConfigs[s] - 1 -> Nat]
    /\ balances \in [streams : Nat, collectable : Nat]
    /\ collectableAmts \in [Receivers -> Nat]

\* Whatever is squeezed, received late or reconfigured, no cycle ever comes
\* out negative (the code casts it to unsigned), nothing is left in a cycle
\* that was received, and after the last stream nothing flows (the comments
\* on amtDeltas and in _addDelta).
CyclesNeverOwe == \A r \in Receivers :
    LET p == receiver[r]
    IN  /\ \A c \in Cycles : c < p.nextReceivableCycle =>
             p.amtDeltas[c] = NoDelta
        /\ \A c \in Cycles : AmtPerCycle(p, 1, c) >= 0
        /\ SumFunction([c \in Cycles |-> p.amtDeltas[c].thisCycle + p.amtDeltas[c].nextCycle]) = 0

\* The tokens the library reports as its own back exactly what senders have
\* not streamed, what receivers can still obtain and what they have banked.
TokensCovered ==
    /\ balances.streams = SumFunction([s \in Senders |-> BalanceAt(sender[s], now)])
                          + SumFunction([r \in Receivers |-> Obtainable(r)])
    /\ balances.collectable = SumFunction(collectableAmts)

\* Stream c of a configuration made at updateTime, with the seconds it is
\* meant to flow; no second lies behind Forever.  It bears c, as two streams
\* may promise the same.
Promise(c, updateTime) ==
    LET start == IF c.start = 0 THEN updateTime ELSE c.start
    IN  [stream |-> c, to |-> c.to, rate |-> c.rate, from |-> start,
         until |-> IF c.duration = 0 THEN Forever ELSE Lesser(start + c.duration, Forever)]

Promised(s) == {Promise(c, s.updateTime) : c \in s.recv}

Ledger == INSTANCE StreamLedger WITH
    streams <- [s \in Senders |-> Promised(sender[s])],
    funds <- [s \in Senders |-> BalanceAt(sender[s], now)],
    stopped <- {s \in Senders : \/ BalanceAt(sender[s], now) = 0
                                \/ now >= sender[s].maxEnd
                                \/ \A c \in Promised(sender[s]) : c.until <= now \/ c.until <= c.from},
    owed <- [r \in Receivers |-> Obtainable(r)],
    collectable <- collectableAmts

\* The library keeps the promise of StreamLedger: ends computed ahead, deltas
\* split over two cycles, histories and squeezes are second-by-second
\* payments, and every unit paid is banked once.
PaysBySecond == Ledger!Spec
=============================================================================
