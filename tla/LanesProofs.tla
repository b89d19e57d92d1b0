------------------------------ MODULE LanesProofs ------------------------------
(***************************************************************************)
(* Theorems about Lanes.tla, for any accounts, vaults, rates, deposits and *)
(* bounds: the drivers and Drips agree about every stream, and as long as  *)
(* no lane that ran dry is revived behind its vault's back, so do the      *)
(* boards of the vaults, which book exactly what Drips delivers.           *)
(***************************************************************************)
EXTENDS Lanes, BoardProofs

-----------------------------------------------------------------------------
(* Lanes and their rates.                                                  *)

LaneMaps == [Vaults -> Lane]

LEMMA LanesConstants ==
  /\ IsFiniteSet(Vaults)
  /\ MaxTime \in Nat \ {0} /\ MaxSteps \in Nat \ {0} /\ MaxBalance \in Nat /\ MaxCalls \in Nat
  /\ \A v \in Vaults : SeedAccount[v] \in Accounts
BY LanesAssumption

StreamOf(l, v) == [vault |-> v, side |-> l[v].side, rate |-> l[v].rate]

LEMMA HeldIs ==
  ASSUME NEW l \in LaneMaps
  PROVE  /\ IsFiniteSet(Held(l))
         /\ \A c \in Held(l) : /\ c.rate \in Nat \ {0} /\ c.vault \in Vaults
                               /\ c.side = l[c.vault].side /\ c.rate = l[c.vault].rate
         /\ \A v \in Vaults : l[v].rate > 0 => StreamOf(l, v) \in Held(l)
<1> DEFINE S == {u \in Vaults : l[u].rate > 0}
           f(v) == StreamOf(l, v)
<1>1. Held(l) = {f(v) : v \in S}
  BY DEF Held, StreamOf
<1>2. IsFiniteSet(S)
  <2>1. S \subseteq Vaults
    OBVIOUS
  <2> QED BY <2>1, LanesConstants, FS_Subset
<1>3. \A v \in Vaults : l[v].rate \in Nat
  BY DEF LaneMaps, Lane
<1>4. IsFiniteSet({StreamOf(l, v) : v \in S})
  <2> DEFINE g == [v \in S |-> StreamOf(l, v)]
             T == {StreamOf(l, v) : v \in S}
  <2>1. g \in Surjection(S, T)
    BY DEF Surjection
  <2> QED BY <1>2, <2>1, FS_Surjection
<1> QED BY <1>1, <1>3, <1>4 DEF StreamOf

LEMMA TotalRateIs ==
  ASSUME NEW l \in LaneMaps
  PROVE  /\ TotalRate(Held(l)) \in Nat
         /\ Held(l) # {} => TotalRate(Held(l)) > 0
<1> DEFINE f == [c \in Held(l) |-> c.rate]
<1>1. TotalRate(Held(l)) = SumFunctionOnSet(f, Held(l))
  BY DEF TotalRate, SumFunction
<1>2. \A c \in Held(l) : f[c] \in Nat /\ f[c] > 0
  BY HeldIs
<1> HIDE DEF f
<1>3. /\ SumFunctionOnSet(f, Held(l)) \in Nat
      /\ \A c \in Held(l) : f[c] <= SumFunctionOnSet(f, Held(l))
  BY <1>2, HeldIs, SumNat
<1>4. ASSUME NEW c \in Held(l)
      PROVE  SumFunctionOnSet(f, Held(l)) > 0
  BY <1>2, <1>3
<1> QED BY <1>1, <1>3, <1>4

\* What an account streams to a side of a vault.
RateTo(l, v, s) == IF l[v].rate > 0 /\ l[v].side = s THEN l[v].rate ELSE 0

LEMMA RateToIs ==
  ASSUME NEW l \in LaneMaps, NEW v \in Vaults, NEW s \in Sides
  PROVE  /\ TotalRate({c \in Held(l) : c.vault = v /\ c.side = s}) = RateTo(l, v, s)
         /\ RateTo(l, v, s) \in Nat
<1> DEFINE S == {c \in Held(l) : c.vault = v /\ c.side = s}
           x == StreamOf(l, v)
           f == [c \in S |-> c.rate]
<1>1. TotalRate(S) = SumFunctionOnSet(f, S)
  BY DEF TotalRate, SumFunction
<1>2. \A c \in S : c = x /\ l[v].rate > 0 /\ l[v].side = s
  BY DEF Held, StreamOf
<1>3. l[v].rate \in Nat /\ x.rate = l[v].rate /\ x.vault = v /\ x.side = l[v].side
  BY DEF LaneMaps, Lane, StreamOf
<1>4. CASE l[v].rate > 0 /\ l[v].side = s
  <2>1. x \in S
    BY <1>3, <1>4, HeldIs
  <2>2. S = {x} /\ f[x] = x.rate
    BY <1>2, <2>1
  <2> HIDE DEF S, x, f
  <2>3. \A c \in S : f[c] = l[v].rate
    BY <1>3, <2>2
  <2>4. IsFiniteSet(S) /\ Cardinality(S) = 1
    BY <2>2, FS_Singleton
  <2>5. SumFunctionOnSet(f, S) = l[v].rate * 1
    BY <1>3, <2>3, <2>4, SumConstant
  <2> QED BY <1>1, <1>3, <1>4, <2>5 DEF RateTo, S
<1>5. CASE ~(l[v].rate > 0 /\ l[v].side = s)
  <2>1. S = {}
    BY <1>2, <1>5
  <2> HIDE DEF S, f
  <2>2. SumFunctionOnSet(f, {}) = 0
    BY SumEmpty
  <2> QED BY <1>1, <1>5, <2>1, <2>2 DEF RateTo, S
<1> QED BY <1>4, <1>5

-----------------------------------------------------------------------------
(* The account in Drips.                                                   *)

Funds == [balance : 0..MaxBalance, updateTime : Nat, maxEnd : Nat,
          streams : SUBSET [vault : Vaults, side : Sides, rate : Nat]]

\* An account holds what its streams still take until they end.
Solvent(d, t) ==
    /\ d.balance \in 0..MaxBalance /\ d.updateTime \in 0..t
    /\ d.maxEnd \in Nat /\ d.updateTime <= d.maxEnd
    /\ TotalRate(d.streams) \in Nat
    /\ TotalRate(d.streams) * (d.maxEnd - d.updateTime) <= d.balance

LEMMA RemainingIs ==
  ASSUME NEW d, now \in Nat, Solvent(d, now)
  PROVE  Remaining(d) \in 0..d.balance
<1> DEFINE r == TotalRate(d.streams)
           m == Least(now, d.maxEnd)
<1>1. /\ d.balance \in Nat /\ d.updateTime \in Nat /\ d.maxEnd \in Nat /\ r \in Nat /\ m \in Nat
      /\ d.updateTime <= m /\ m <= d.maxEnd
  BY DEF Solvent, Least
<1>2. r * (d.maxEnd - d.updateTime) <= d.balance /\ Remaining(d) = d.balance - r * (m - d.updateTime)
  BY DEF Solvent, Remaining
<1> HIDE DEF r, m
<1>3. m - d.updateTime \in Nat /\ d.maxEnd - d.updateTime \in Nat
      /\ m - d.updateTime <= d.maxEnd - d.updateTime
  BY <1>1
<1>4. /\ r * (m - d.updateTime) \in Nat /\ r * (d.maxEnd - d.updateTime) \in Nat
      /\ r * (m - d.updateTime) <= r * (d.maxEnd - d.updateTime)
  BY <1>1, <1>3, NatTimes, TimesOrdered
<1> DEFINE x == r * (m - d.updateTime)
           y == r * (d.maxEnd - d.updateTime)
<1>5. x \in Nat /\ y \in Nat /\ x <= y /\ y <= d.balance /\ Remaining(d) = d.balance - x
  BY <1>2, <1>4
<1> HIDE DEF x, y
<1> QED BY <1>1, <1>5

LEMMA ConfiguredIs ==
  ASSUME now \in Nat, NEW a, NEW balance \in 0..MaxBalance, NEW l \in LaneMaps,
         NEW d, d = Configured(a, balance, l)
  PROVE  /\ Solvent(d, now) /\ d.streams = Held(l) /\ d \in Funds
         /\ now <= d.maxEnd /\ d.maxEnd \in Nat
<1> DEFINE r == TotalRate(Held(l))
<1>0. d.maxEnd \in Nat => d \in Funds
  <2>1. Held(l) \in SUBSET [vault : Vaults, side : Sides, rate : Nat]
    BY DEF Held, LaneMaps, Lane
  <2> QED BY <2>1 DEF Configured, Funds
<1>1. /\ d.balance = balance /\ d.updateTime = now /\ d.streams = Held(l)
      /\ d.maxEnd = IF balance = 0 \/ Held(l) = {} THEN now ELSE now + balance \div r
  BY DEF Configured
<1>2. balance \in Nat /\ r \in Nat /\ (Held(l) # {} => r > 0)
  BY TotalRateIs, LanesConstants
<1> HIDE DEF r
<1>3. CASE balance = 0 \/ Held(l) = {}
  <2>1. d.maxEnd = now /\ d.maxEnd - d.updateTime = 0
    BY <1>1, <1>3
  <2>2. r * 0 = 0
    BY <1>2
  <2>3. r * (d.maxEnd - d.updateTime) <= d.balance
    BY <1>1, <1>2, <2>1, <2>2
  <2>4. TotalRate(d.streams) = r
    BY <1>1 DEF r
  <2> QED BY <1>0, <1>1, <1>2, <2>1, <2>3, <2>4 DEF Solvent
<1>4. CASE ~(balance = 0 \/ Held(l) = {})
  <2>1. r \in Nat \ {0}
    BY <1>2, <1>4
  <2>2. balance \div r \in Nat /\ r * (balance \div r) <= balance
    BY <1>2, <2>1, DivIs, DivNat
  <2> DEFINE q == balance \div r
  <2>3. d.maxEnd = now + q /\ q \in Nat /\ r * q <= balance
    BY <1>1, <1>4, <2>2
  <2> HIDE DEF q
  <2>4. d.maxEnd - d.updateTime = q
    BY <1>1, <2>3
  <2> QED BY <1>0, <1>1, <1>2, <2>3, <2>4 DEF Solvent, r
<1> QED BY <1>3, <1>4

-----------------------------------------------------------------------------
(* The inductive invariant.                                                *)

Storage ==
    /\ now \in 1..MaxTime
    /\ status \in [Vaults -> {"None", "Open", "Resolved"}]
    /\ resolvedAt \in [Vaults -> Nat]
    /\ \A v \in Vaults : resolvedAt[v] <= now /\ (status[v] = "Resolved" => resolvedAt[v] > 0)
    /\ lanes \in [Accounts -> LaneMaps]
    /\ drips \in [Accounts -> Funds]
    /\ streamed \in [Vaults -> [Sides -> Nat]]
    /\ calls \in 0..MaxCalls

\* Drips holds the driver's lanes and the money for them.
Agreed == \A a \in Accounts : Solvent(drips[a], now) /\ ListInForce(a)

Sound(b, cap) == Good(b) /\ Within(b, cap) /\ b.last <= now

BoardsOK ==
    /\ board \in [Vaults -> [Sides -> BoardRecords]]
    /\ \A v \in Vaults, s \in Sides : Sound(board[v][s], Cap(v))

\* Nothing streams to a vault before it is created, nor from a seed to another
\* vault than its own.
Apart ==
    /\ \A v \in Vaults : status[v] = "None" =>
         /\ \A s \in Sides : board[v][s].queue = << >>
         /\ \A a \in Accounts : lanes[a][v].rate = 0
    /\ \A u, v \in Vaults : u # v => lanes[SeedAccount[v]][u].rate = 0

Core == Storage /\ Agreed /\ BoardsOK /\ Apart

\* A position accrues for the account's lane on this side, at its rate and
\* until Drips' end, and a lane's position accrues or ran dry; it accrues if
\* Drips streams.
Tracks(b, s, a, lane, end) ==
    LET p == b.pos[a]
    IN  /\ p.rate > 0 => lane = [side |-> s, rate |-> p.rate] /\ p.maxEnd = end
        /\ lane.rate > 0 /\ lane.side = s =>
             /\ p.rate > 0 \/ p.depleted
             /\ now < end => p.rate > 0

Tracked == \A v \in Vaults, s \in Sides, a \in Accounts :
    status[v] = "Open" => Tracks(board[v][s], s, a, lanes[a][v], drips[a].maxEnd)

LossesOf(b, cap) == [a \in Accounts |-> Loss(b, a, cap)]

Delivered == \A v \in Vaults, s \in Sides :
    SumFunctionOnSet(LossesOf(board[v][s], Cap(v)), Accounts) = streamed[v][s]

LEMMA CapIs ==
  ASSUME Storage, NEW v \in Vaults
  PROVE  /\ Cap(v) \in Nat \ {0} /\ Cap(v) <= now
         /\ status[v] # "Resolved" => Cap(v) = now
         /\ status[v] = "Resolved" => Cap(v) = resolvedAt[v]
BY DEF Storage, Cap, Least

LEMMA NowIs ==
  ASSUME Storage
  PROVE  now \in Nat \ {0} /\ now <= MaxTime
BY LanesConstants DEF Storage

-----------------------------------------------------------------------------
(* What a hook does to one board.                                          *)

\* The position goes on, or has run dry by the cap.
Runs(b, c, a, cap) ==
    \/ c.pos[a].rate = b.pos[a].rate /\ c.pos[a].depleted = b.pos[a].depleted
    \/ c.pos[a].rate = 0 /\ c.pos[a].depleted /\ b.pos[a].maxEnd <= cap

Stays(b, c, a, cap) == Runs(b, c, a, cap) /\ c.pos[a].maxEnd = b.pos[a].maxEnd

LEMMA StaysOn ==
  ASSUME NEW b, NEW c, NEW d, NEW a, NEW cap, Stays(b, c, a, cap), Stays(c, d, a, cap)
  PROVE  Stays(b, d, a, cap)
BY DEF Stays, Runs

LEMMA StaysItself ==
  ASSUME NEW b, NEW a, NEW cap
  PROVE  Stays(b, b, a, cap)
BY DEF Stays, Runs

LEMMA AdvanceStays ==
  ASSUME Storage, NEW v \in Vaults, NEW n \in Nat, NEW b, Sound(b, Cap(v)),
         NEW c, c = Advance(b, now, Cap(v), n)
  PROVE  /\ Follows(b, c, Cap(v)) /\ 0 < c.last /\ b.last <= c.last /\ c.last <= now
         /\ \A a \in Accounts : Stays(b, c, a, Cap(v))
         /\ b.last # 0 => c.last = b.last \/ c.last <= Cap(v)
<1>1. now \in Nat \ {0} /\ Cap(v) \in Nat /\ Cap(v) <= now
  BY CapIs, NowIs
<1>2. Good(b) /\ Within(b, Cap(v)) /\ b.last <= now
  BY DEF Sound
<1>3. Follows(b, c, Cap(v)) /\ 0 < c.last
  BY <1>1, <1>2, FollowsAdvance
<1>4. Advanced(b, c, now, Cap(v), n)
  BY <1>1, <1>2, AdvanceIs
<1>5. /\ b.last <= c.last
      /\ \A a \in Accounts : KeptOf(b, c, Cap(v), a)
      /\ \/ b.last = 0 /\ c.last = now
         \/ b.last # 0 /\ (c.last = b.last \/ c.last <= Cap(v))
      /\ Good(c)
  BY <1>4 DEF Advanced
<1>6. \A a \in Accounts : Stays(b, c, a, Cap(v))
  BY <1>5 DEF KeptOf, Stays, Runs
<1>7. b.last \in Nat /\ c.last \in Nat
  BY <1>2, <1>5, BoardIs DEF Good
<1> QED BY <1>1, <1>2, <1>3, <1>5, <1>6, <1>7

\* A board the hooks can catch up with their budget.
Ripe(b, v) == Sound(b, Cap(v)) /\ CaughtUp(Advance(b, now, Cap(v), MaxSteps), Cap(v))

Caught(b, c, v) == Follows(b, c, Cap(v)) /\ c.last = Cap(v)

LEMMA CaughtIsRipe ==
  ASSUME Storage, NEW v \in Vaults, NEW b, NEW c, Caught(b, c, v)
  PROVE  Ripe(c, v)
<1>1. Sound(c, Cap(v)) /\ c.last = Cap(v) /\ Cap(v) \in Nat \ {0}
  BY CapIs DEF Caught, Follows, Sound
<1> DEFINE d == Advance(c, now, Cap(v), MaxSteps)
<1>2. Follows(c, d, Cap(v)) /\ c.last <= d.last /\ (d.last = c.last \/ d.last <= Cap(v))
  <2>1. MaxSteps \in Nat
    BY LanesConstants
  <2> QED BY <1>1, <2>1, AdvanceStays
<1>3. d.last \in Nat
  BY <1>2, BoardIs DEF Follows, Good
<1>4. d.last = Cap(v)
  BY <1>1, <1>2, <1>3
<1> QED BY <1>1, <1>4 DEF Ripe, CaughtUp

LEMMA CaughtOn ==
  ASSUME NEW v, NEW b, NEW c, NEW d, Caught(b, c, v), Caught(c, d, v)
  PROVE  Caught(b, d, v)
BY FollowsOn DEF Caught

LEMMA HookedIs ==
  ASSUME Storage, NEW v \in Vaults, NEW a \in Accounts, NEW b, Ripe(b, v),
         NEW c, c = Hooked(b, v, a)
  PROVE  /\ Caught(b, c, v) /\ c.pos[a].gPaid = c.g
         /\ \A o \in Accounts : Stays(b, c, o, Cap(v))
<1> DEFINE m == Advance(b, now, Cap(v), MaxSteps)
<1>1. /\ Follows(b, m, Cap(v)) /\ 0 < m.last
      /\ \A o \in Accounts : Stays(b, m, o, Cap(v))
  <2>1. MaxSteps \in Nat
    BY LanesConstants
  <2> QED BY <2>1, AdvanceStays DEF Ripe
<1>2. m.last = Cap(v)
  BY <1>1 DEF Ripe, CaughtUp
<1>3. c = Settled(m, a)
  BY DEF Hooked
<1> HIDE DEF m
<1>4. Good(m) /\ Within(m, Cap(v)) /\ Cap(v) \in Nat
  BY <1>1, CapIs DEF Follows
<1>5. Follows(m, c, Cap(v)) /\ c.last = m.last
  BY <1>3, <1>4, FollowsSettled
<1>6. /\ \A o \in Accounts : /\ c.pos[o].rate = m.pos[o].rate
                             /\ c.pos[o].maxEnd = m.pos[o].maxEnd
                             /\ c.pos[o].depleted = m.pos[o].depleted
      /\ c.pos[a].gPaid = c.g
  BY <1>3, <1>4, HookedSettled
<1>7. Caught(b, c, v)
  BY <1>1, <1>2, <1>5, FollowsOn DEF Caught
<1>8. \A o \in Accounts : Stays(b, c, o, Cap(v))
  BY <1>1, <1>6 DEF Stays, Runs
<1> QED BY <1>6, <1>7, <1>8

\* A hook of the caught board is a hook of the board.
LEMMA CaughtByHook ==
  ASSUME Storage, NEW v \in Vaults, NEW b, NEW h, Caught(b, h, v), NEW c, HookKeeps(h, c)
  PROVE  Caught(b, c, v)
<1>1. h.last = Cap(v) /\ Cap(v) \in Nat
  BY CapIs DEF Caught
<1>2. Follows(h, c, Cap(v)) /\ c.last = Cap(v)
  BY <1>1, FollowsHook
<1> QED BY <1>2, FollowsOn DEF Caught

LEMMA StoppedIs ==
  ASSUME Storage, NEW v \in Vaults, NEW a \in Accounts, NEW b, Ripe(b, v),
         NEW c, c = Stopped(b, v, a)
  PROVE  /\ Caught(b, c, v) /\ c.pos[a].rate = 0
         /\ \A o \in Accounts \ {a} : Stays(b, c, o, Cap(v))
<1> DEFINE h == Hooked(b, v, a)
<1>1. /\ Caught(b, h, v) /\ h.pos[a].gPaid = h.g
      /\ \A o \in Accounts : Stays(b, h, o, Cap(v))
  BY HookedIs
<1>2. c = IF Active(h, a) THEN Closed(h, a, Least(h.pos[a].maxEnd, Cap(v)), FALSE) ELSE h
  BY DEF Stopped
<1> HIDE DEF h
<1>3. Good(h) /\ Placed(h, a) /\ h.last = Cap(v) /\ h.pos[a].rate \in Nat /\ h.pos[a].maxEnd \in Nat
  BY <1>1, PositionIs DEF Caught, Follows, Good
<1>4. CASE Active(h, a)
  <2>1. h.pos[a].rate > 0 /\ h.last <= h.pos[a].maxEnd
    BY <1>3, <1>4 DEF Active, Placed
  <2>2. Least(h.pos[a].maxEnd, Cap(v)) = h.last
    BY <1>3, <2>1, CapIs DEF Least
  <2>3. PICK dry \in BOOLEAN : dry = FALSE /\ c = Closed(h, a, h.last, dry)
    BY <1>2, <1>4, <2>2
  <2>4. /\ HookKeeps(h, c) /\ c.pos[a].rate = 0
        /\ \A o \in Accounts \ {a} : c.pos[o] = h.pos[o]
    BY <1>1, <1>3, <2>1, <2>3, HookedClosed
  <2>5. Caught(b, c, v)
    BY <1>1, <2>4, CaughtByHook
  <2>6. \A o \in Accounts \ {a} : Stays(b, c, o, Cap(v))
    BY <1>1, <2>4 DEF Stays, Runs
  <2> QED BY <2>4, <2>5, <2>6
<1>5. CASE ~Active(h, a)
  <2>1. h.pos[a].rate = 0
    BY <1>3, <1>5 DEF Active, Placed
  <2> QED BY <1>1, <1>2, <1>5, <2>1
<1> QED BY <1>4, <1>5

LEMMA OpenedIs ==
  ASSUME Storage, NEW v \in Vaults, Cap(v) = now, NEW a \in Accounts, NEW b, Ripe(b, v),
         Hooked(b, v, a).pos[a].rate = 0, NEW rate \in Nat \ {0},
         NEW maxEnd \in Nat, now <= maxEnd,
         NEW c, c = Opened(Hooked(b, v, a), a, rate, maxEnd, now)
  PROVE  /\ Caught(b, c, v)
         /\ c.pos[a].rate = rate /\ c.pos[a].maxEnd = maxEnd /\ ~c.pos[a].depleted
         /\ \A o \in Accounts \ {a} : Stays(b, c, o, Cap(v))
<1> DEFINE h == Hooked(b, v, a)
<1>1. /\ Caught(b, h, v) /\ h.pos[a].rate = 0 /\ c = Opened(h, a, rate, maxEnd, now)
      /\ \A o \in Accounts : Stays(b, h, o, Cap(v))
  BY HookedIs
<1> HIDE DEF h
<1>2. Good(h) /\ h.last = now /\ h.last # 0
  BY <1>1, NowIs DEF Caught, Follows
<1>3. /\ HookKeeps(h, c)
      /\ c.pos[a].rate = rate /\ c.pos[a].maxEnd = maxEnd /\ ~c.pos[a].depleted
      /\ \A o \in Accounts \ {a} : c.pos[o] = h.pos[o]
  BY <1>1, <1>2, HookedOpened
<1>4. Caught(b, c, v)
  BY <1>1, <1>3, CaughtByHook
<1>5. \A o \in Accounts \ {a} : Stays(b, c, o, Cap(v))
  BY <1>1, <1>3 DEF Stays, Runs
<1> QED BY <1>3, <1>4, <1>5

LEMMA PegIs ==
  ASSUME Storage, NEW v \in Vaults, NEW a \in Accounts, NEW b, Ripe(b, v),
         NEW maxEnd \in Nat, now <= maxEnd,
         NEW c, c = Repegged(Hooked(b, v, a), a, maxEnd)
  PROVE  /\ Caught(b, c, v)
         /\ Runs(b, c, a, Cap(v)) /\ (c.pos[a].rate > 0 => c.pos[a].maxEnd = maxEnd)
         /\ c.pos[a].maxEnd \in {maxEnd, b.pos[a].maxEnd}
         /\ \A o \in Accounts \ {a} : Stays(b, c, o, Cap(v))
<1> DEFINE h == Hooked(b, v, a)
<1>1. /\ Caught(b, h, v) /\ c = Repegged(h, a, maxEnd)
      /\ \A o \in Accounts : Stays(b, h, o, Cap(v))
  BY HookedIs
<1> HIDE DEF h
<1>2. Good(h) /\ h.last = Cap(v) /\ h.last <= maxEnd
  BY <1>1, NowIs, CapIs DEF Caught, Follows
<1>3. /\ HookKeeps(h, c)
      /\ \A o \in Accounts : c.pos[o].rate = h.pos[o].rate
      /\ \A o \in Accounts \ {a} : c.pos[o] = h.pos[o]
      /\ c.pos[a].maxEnd \in {maxEnd, h.pos[a].maxEnd}
      /\ c.pos[a].depleted = h.pos[a].depleted
      /\ Active(h, a) => c.pos[a].maxEnd = maxEnd
  BY <1>1, <1>2, HookedRepegged
<1>4. Caught(b, c, v)
  BY <1>1, <1>3, CaughtByHook
<1>5. \A o \in Accounts \ {a} : Stays(b, c, o, Cap(v))
  BY <1>1, <1>3 DEF Stays, Runs
<1>6. Runs(b, c, a, Cap(v)) /\ h.pos[a].maxEnd = b.pos[a].maxEnd
  BY <1>1, <1>3 DEF Stays, Runs
<1>7. h.pos[a].rate > 0 => Active(h, a)
  BY <1>2 DEF Good, Placed, Active
<1> QED BY <1>3, <1>4, <1>5, <1>6, <1>7

-----------------------------------------------------------------------------
(* The hooks of one call on one board.                                     *)

OneHook(b, v, s, a, stops, opens, pegs, l, maxEnd) ==
    LET still == IF <<v, s>> \in stops THEN Stopped(b, v, a) ELSE b
        begun == IF <<v, s>> \in opens
                 THEN Opened(Hooked(still, v, a), a, l[v].rate, maxEnd, now) ELSE still
    IN  IF <<v, s>> \in pegs THEN Repegged(Hooked(begun, v, a), a, maxEnd) ELSE begun

LEMMA HooksAre ==
  ASSUME NEW a, NEW stops, NEW opens, NEW pegs, NEW l, NEW maxEnd
  PROVE  Hooks(a, stops, opens, pegs, l, maxEnd)
           = [v \in Vaults |-> [s \in Sides |->
                OneHook(board[v][s], v, s, a, stops, opens, pegs, l, maxEnd)]]
BY DEF Hooks, OneHook

\* What a call leaves of a's position on the board of <<v, s>>.
Outcome(b, c, x, a, stops, opens, pegs, rate, maxEnd, cap) ==
    LET p == c.pos[a]
    IN  /\ x \in opens => /\ p.maxEnd = maxEnd
                          /\ \/ p.rate = rate /\ ~p.depleted
                             \/ p.rate = 0 /\ p.depleted /\ maxEnd <= cap
        /\ x \in stops \ opens => p.rate = 0
        /\ x \in pegs \ (opens \cup stops) => /\ Runs(b, c, a, cap)
                                              /\ p.rate > 0 => p.maxEnd = maxEnd
        /\ x \notin opens \cup stops \cup pegs => c = b

LEMMA HookIs ==
  ASSUME Storage, NEW v \in Vaults, NEW s \in Sides, NEW a \in Accounts,
         NEW stops, NEW opens, NEW pegs, NEW l, NEW maxEnd \in Nat, now <= maxEnd,
         NEW b, Sound(b, Cap(v)),
         <<v, s>> \in stops \cup opens \cup pegs => Ripe(b, v),
         <<v, s>> \in opens => /\ status[v] # "Resolved" /\ l[v].rate \in Nat \ {0}
                               /\ <<v, s>> \notin stops => Hooked(b, v, a).pos[a].rate = 0,
         NEW c, c = OneHook(b, v, s, a, stops, opens, pegs, l, maxEnd)
  PROVE  /\ Follows(b, c, Cap(v)) /\ c.last <= now
         /\ \A o \in Accounts \ {a} : Stays(b, c, o, Cap(v))
         /\ Outcome(b, c, <<v, s>>, a, stops, opens, pegs, l[v].rate, maxEnd, Cap(v))
<1> DEFINE x == <<v, s>>
           d == IF x \in stops THEN Stopped(b, v, a) ELSE b
           e == IF x \in opens THEN Opened(Hooked(d, v, a), a, l[v].rate, maxEnd, now) ELSE d
<1>0. c = IF x \in pegs THEN Repegged(Hooked(e, v, a), a, maxEnd) ELSE e
  BY DEF OneHook
<1>1. x \notin stops => d = b
  OBVIOUS
<1>2. x \in stops => /\ Caught(b, d, v) /\ d.pos[a].rate = 0 /\ Ripe(d, v)
                     /\ \A o \in Accounts \ {a} : Stays(b, d, o, Cap(v))
  <2>1. x \in stops => d = Stopped(b, v, a) /\ Ripe(b, v)
    OBVIOUS
  <2> HIDE DEF d, x
  <2> QED BY <2>1, StoppedIs, CaughtIsRipe
<1>3. x \notin opens => e = d
  OBVIOUS
<1>4. ASSUME x \in opens
      PROVE  /\ Caught(d, e, v) /\ Ripe(e, v)
             /\ e.pos[a].rate = l[v].rate /\ e.pos[a].maxEnd = maxEnd /\ ~e.pos[a].depleted
             /\ \A o \in Accounts \ {a} : Stays(d, e, o, Cap(v))
  <2>1. e = Opened(Hooked(d, v, a), a, l[v].rate, maxEnd, now) /\ Cap(v) = now
    BY <1>4, CapIs
  <2>2. Ripe(d, v)
    BY <1>1, <1>2, <1>4
  <2>3. Hooked(d, v, a).pos[a].rate = 0
    <3>1. CASE x \in stops
      <4>1. \A o \in Accounts : Stays(d, Hooked(d, v, a), o, Cap(v))
        BY <2>2, HookedIs
      <4> HIDE DEF d
      <4> QED BY <1>2, <3>1, <4>1 DEF Stays, Runs
    <3>2. CASE x \notin stops
      BY <1>1, <1>4, <3>2
    <3> QED BY <3>1, <3>2
  <2>4. l[v].rate \in Nat \ {0}
    BY <1>4
  <2> HIDE DEF d, e
  <2>5. /\ Caught(d, e, v)
        /\ e.pos[a].rate = l[v].rate /\ e.pos[a].maxEnd = maxEnd /\ ~e.pos[a].depleted
        /\ \A o \in Accounts \ {a} : Stays(d, e, o, Cap(v))
    BY <2>1, <2>2, <2>3, <2>4, OpenedIs
  <2> QED BY <2>5, CaughtIsRipe
<1>5. x \in pegs /\ x \notin opens \cup stops => e = b /\ Ripe(e, v)
  BY <1>1, <1>3
<1>6. ASSUME x \in pegs
      PROVE  /\ Caught(e, c, v)
             /\ Runs(e, c, a, Cap(v)) /\ (c.pos[a].rate > 0 => c.pos[a].maxEnd = maxEnd)
             /\ c.pos[a].maxEnd \in {maxEnd, e.pos[a].maxEnd}
             /\ \A o \in Accounts \ {a} : Stays(e, c, o, Cap(v))
  <2>1. Ripe(e, v)
    BY <1>2, <1>3, <1>4, <1>5, <1>6
  <2>2. c = Repegged(Hooked(e, v, a), a, maxEnd)
    BY <1>0, <1>6
  <2> HIDE DEF e
  <2> QED BY <2>1, <2>2, PegIs
<1>7. x \notin pegs => c = e
  BY <1>0
<1> HIDE DEF d, e, x
<1>8. Follows(b, b, Cap(v)) /\ b.last <= now /\ Cap(v) <= now
  BY FollowsItself, CapIs DEF Sound
<1>9. /\ Follows(b, d, Cap(v)) /\ d.last <= now
      /\ \A o \in Accounts \ {a} : Stays(b, d, o, Cap(v))
  BY <1>1, <1>2, <1>8, StaysItself DEF Caught
<1>10. /\ Follows(b, e, Cap(v)) /\ e.last <= now
       /\ \A o \in Accounts \ {a} : Stays(b, e, o, Cap(v))
  <2>1. CASE x \in opens
    <3>1. Follows(b, e, Cap(v)) /\ e.last <= now
      BY <1>4, <1>8, <1>9, <2>1, FollowsOn DEF Caught
    <3>2. \A o \in Accounts \ {a} : Stays(b, e, o, Cap(v))
      BY <1>4, <1>9, <2>1, StaysOn
    <3> QED BY <3>1, <3>2
  <2> QED BY <1>3, <1>9, <2>1
<1>11. /\ Follows(b, c, Cap(v)) /\ c.last <= now
       /\ \A o \in Accounts \ {a} : Stays(b, c, o, Cap(v))
  <2>1. CASE x \in pegs
    <3>1. Follows(b, c, Cap(v)) /\ c.last <= now
      BY <1>6, <1>8, <1>10, <2>1, FollowsOn DEF Caught
    <3>2. \A o \in Accounts \ {a} : Stays(b, c, o, Cap(v))
      BY <1>6, <1>10, <2>1, StaysOn
    <3> QED BY <3>1, <3>2
  <2> QED BY <1>7, <1>10, <2>1
<1>12. Outcome(b, c, x, a, stops, opens, pegs, l[v].rate, maxEnd, Cap(v))
  <2>1. ASSUME x \in opens
        PROVE  /\ c.pos[a].maxEnd = maxEnd
               /\ \/ c.pos[a].rate = l[v].rate /\ ~c.pos[a].depleted
                  \/ c.pos[a].rate = 0 /\ c.pos[a].depleted /\ maxEnd <= Cap(v)
    <3>1. CASE x \in pegs
      BY <1>4, <1>6, <2>1, <3>1 DEF Runs
    <3>2. CASE x \notin pegs
      BY <1>4, <1>7, <2>1, <3>2
    <3> QED BY <3>1, <3>2
  <2>2. ASSUME x \in stops \ opens
        PROVE  c.pos[a].rate = 0
    <3>1. e = d /\ d.pos[a].rate = 0
      BY <1>2, <1>3, <2>2
    <3>2. CASE x \in pegs
      BY <1>6, <3>1, <3>2 DEF Runs
    <3>3. CASE x \notin pegs
      BY <1>7, <3>1, <3>3
    <3> QED BY <3>2, <3>3
  <2>3. ASSUME x \in pegs \ (opens \cup stops)
        PROVE  Runs(b, c, a, Cap(v)) /\ (c.pos[a].rate > 0 => c.pos[a].maxEnd = maxEnd)
    BY <1>5, <1>6, <2>3
  <2>4. x \notin opens \cup stops \cup pegs => c = b
    BY <1>1, <1>3, <1>7
  <2> QED BY <2>1, <2>2, <2>3, <2>4 DEF Outcome
<1> QED BY <1>11, <1>12 DEF x

-----------------------------------------------------------------------------
(* One call of an account.                                                 *)

LEMMA KeysAre ==
  ASSUME NEW l \in LaneMaps
  PROVE  /\ \A v \in Vaults, s \in Sides : <<v, s>> \in Keys(l) <=> l[v].rate > 0 /\ l[v].side = s
         /\ \A x \in Keys(l) : x \in Vaults \X Sides /\ x[2] = l[x[1]].side /\ l[x[1]].rate > 0
         /\ \A x \in Keys(l) : x = <<x[1], x[2]>>
<1>1. \A c \in Held(l) : /\ c.rate \in Nat \ {0} /\ c.vault \in Vaults
                         /\ c.side = l[c.vault].side /\ c.rate = l[c.vault].rate
  BY HeldIs
<1>2. \A v \in Vaults : l[v].rate > 0 => /\ StreamOf(l, v) \in Held(l)
                                         /\ StreamOf(l, v).vault = v
                                         /\ StreamOf(l, v).side = l[v].side
  BY HeldIs DEF StreamOf
<1>3. \A v \in Vaults : l[v].side \in Sides /\ l[v].rate \in Nat
  BY DEF LaneMaps, Lane
<1>4. ASSUME NEW x \in Keys(l)
      PROVE  /\ x \in Vaults \X Sides /\ x[2] = l[x[1]].side /\ l[x[1]].rate > 0
             /\ x = <<x[1], x[2]>>
  <2>1. PICK c \in Held(l) : x = <<c.vault, c.side>>
    BY DEF Keys
  <2>2. c.vault \in Vaults /\ c.side = l[c.vault].side /\ l[c.vault].rate \in Nat \ {0}
    BY <1>1
  <2> QED BY <1>3, <2>1, <2>2
<1>5. ASSUME NEW v \in Vaults, l[v].rate > 0
      PROVE  <<v, l[v].side>> \in Keys(l)
  BY <1>2, <1>5 DEF Keys
<1> QED BY <1>4, <1>5

\* Account a gets the lanes l and the balance; its boards are told.
Call(a, l, balance, stops, opens, pegs) ==
    LET d == Configured(a, balance, l)
    IN  /\ now' = now /\ resolvedAt' = resolvedAt /\ streamed' = streamed
        /\ status' \in [Vaults -> {"None", "Open", "Resolved"}]
        /\ \A v \in Vaults : /\ status'[v] = "Resolved" <=> status[v] = "Resolved"
                             /\ status'[v] = "None" => status[v] = "None" /\ l[v].rate = 0
        /\ calls' \in 0..MaxCalls
        /\ lanes' = [lanes EXCEPT ![a] = l]
        /\ drips' = [drips EXCEPT ![a] = d]
        /\ board' = Hooks(a, stops, opens, pegs, l, d.maxEnd)
        /\ \A v \in Vaults, s \in Sides :
             /\ <<v, s>> \in stops \cup opens \cup pegs =>
                  Ripe(board[v][s], v) /\ status'[v] # "None"
             /\ <<v, s>> \in opens =>
                  /\ status[v] # "Resolved" /\ l[v].rate \in Nat \ {0}
                  /\ <<v, s>> \notin stops => Hooked(board[v][s], v, a).pos[a].rate = 0
        /\ \A u, v \in Vaults : u # v /\ a = SeedAccount[v] => l[u].rate = 0

LEMMA CallIs ==
  ASSUME Core, NEW a \in Accounts, NEW l \in LaneMaps, NEW balance \in 0..MaxBalance,
         NEW stops, NEW opens, NEW pegs, Call(a, l, balance, stops, opens, pegs),
         NEW d, d = Configured(a, balance, l)
  PROVE  /\ Core' /\ d.maxEnd \in Nat /\ now <= d.maxEnd
         /\ \A v \in Vaults : Cap(v)' = Cap(v)
         /\ \A v \in Vaults, s \in Sides :
              LET b == board[v][s]
                  c == board'[v][s]
              IN  /\ Follows(b, c, Cap(v))
                  /\ \A o \in Accounts \ {a} : Stays(b, c, o, Cap(v))
                  /\ Outcome(b, c, <<v, s>>, a, stops, opens, pegs, l[v].rate, d.maxEnd, Cap(v))
<1>1. /\ now' = now /\ resolvedAt' = resolvedAt /\ streamed' = streamed
      /\ status' \in [Vaults -> {"None", "Open", "Resolved"}]
      /\ \A v \in Vaults : /\ status'[v] = "Resolved" <=> status[v] = "Resolved"
                           /\ status'[v] = "None" => status[v] = "None" /\ l[v].rate = 0
      /\ calls' \in 0..MaxCalls
      /\ lanes' = [lanes EXCEPT ![a] = l]
      /\ drips' = [drips EXCEPT ![a] = d]
      /\ board' = Hooks(a, stops, opens, pegs, l, d.maxEnd)
      /\ \A u, v \in Vaults : u # v /\ a = SeedAccount[v] => l[u].rate = 0
  BY DEF Call
<1>2. \A v \in Vaults, s \in Sides :
        /\ <<v, s>> \in stops \cup opens \cup pegs =>
             Ripe(board[v][s], v) /\ status'[v] # "None"
        /\ <<v, s>> \in opens =>
             /\ status[v] # "Resolved" /\ l[v].rate \in Nat \ {0}
             /\ <<v, s>> \notin stops => Hooked(board[v][s], v, a).pos[a].rate = 0
  BY DEF Call
<1>3. Storage /\ Agreed /\ BoardsOK /\ Apart /\ now \in Nat
  BY NowIs DEF Core
<1>4. Solvent(d, now) /\ d.streams = Held(l) /\ d \in Funds /\ now <= d.maxEnd /\ d.maxEnd \in Nat
  BY <1>3, ConfiguredIs
<1>5. \A v \in Vaults : Cap(v)' = Cap(v)
  BY <1>1 DEF Cap
<1>6. ASSUME NEW v \in Vaults, NEW s \in Sides
      PROVE  /\ Follows(board[v][s], board'[v][s], Cap(v)) /\ board'[v][s].last <= now
             /\ \A o \in Accounts \ {a} : Stays(board[v][s], board'[v][s], o, Cap(v))
             /\ Outcome(board[v][s], board'[v][s], <<v, s>>, a, stops, opens, pegs,
                        l[v].rate, d.maxEnd, Cap(v))
  <2>1. board'[v][s] = OneHook(board[v][s], v, s, a, stops, opens, pegs, l, d.maxEnd)
    BY <1>1, HooksAre
  <2>2. Sound(board[v][s], Cap(v))
    BY <1>3 DEF BoardsOK
  <2>3. <<v, s>> \in stops \cup opens \cup pegs => Ripe(board[v][s], v)
    BY <1>2
  <2>4. <<v, s>> \in opens => /\ status[v] # "Resolved" /\ l[v].rate \in Nat \ {0}
                              /\ <<v, s>> \notin stops => Hooked(board[v][s], v, a).pos[a].rate = 0
    BY <1>2
  <2> QED BY <1>3, <1>4, <2>1, <2>2, <2>3, <2>4, HookIs
<1>7. Storage'
  <2>1. lanes' \in [Accounts -> LaneMaps] /\ drips' \in [Accounts -> Funds]
    BY <1>1, <1>3, <1>4 DEF Storage
  <2> QED BY <1>1, <1>3, <2>1 DEF Storage
<1>8. Agreed'
  <2> SUFFICES ASSUME NEW o \in Accounts
               PROVE  Solvent(drips'[o], now') /\ drips'[o].streams = Held(lanes'[o])
    BY DEF Agreed, ListInForce
  <2>1. drips \in [Accounts -> Funds] /\ lanes \in [Accounts -> LaneMaps]
    BY <1>3 DEF Storage
  <2>2. CASE o = a
    BY <1>1, <1>4, <2>1, <2>2
  <2>3. CASE o # a
    <3>1. Solvent(drips[o], now) /\ drips[o].streams = Held(lanes[o])
      BY <1>3 DEF Agreed, ListInForce
    <3>2. drips'[o] = drips[o] /\ lanes'[o] = lanes[o]
      BY <1>1, <2>1, <2>3
    <3> QED BY <1>1, <3>1, <3>2
  <2> QED BY <2>2, <2>3
<1>9. BoardsOK'
  <2>1. ASSUME NEW v \in Vaults, NEW s \in Sides
        PROVE  Sound(board'[v][s], Cap(v)') /\ board'[v][s] \in BoardRecords
    <3>1. Good(board'[v][s]) /\ Within(board'[v][s], Cap(v)) /\ board'[v][s].last <= now
      BY <1>6 DEF Follows
    <3> QED BY <1>1, <1>5, <3>1 DEF Sound, Good
  <2>2. board' = [v \in Vaults |-> [s \in Sides |->
                    OneHook(board[v][s], v, s, a, stops, opens, pegs, l, d.maxEnd)]]
    BY <1>1, HooksAre
  <2>3. board' \in [Vaults -> [Sides -> BoardRecords]]
    <3>1. \A v \in Vaults, s \in Sides :
            OneHook(board[v][s], v, s, a, stops, opens, pegs, l, d.maxEnd) \in BoardRecords
      BY <2>1, <2>2
    <3> QED BY <2>2, <3>1
  <2>4. \A v \in Vaults, s \in Sides : Sound(board[v][s], Cap(v))'
    BY <1>1, <2>1 DEF Sound
  <2> QED BY <2>3, <2>4 DEF BoardsOK
<1>10. Apart'
  <2>1. ASSUME NEW v \in Vaults, status'[v] = "None"
        PROVE  /\ \A s \in Sides : board'[v][s].queue = << >>
               /\ \A o \in Accounts : lanes'[o][v].rate = 0
    <3>1. status[v] = "None" /\ l[v].rate = 0
      BY <1>1, <2>1
    <3>2. /\ \A s \in Sides : board[v][s].queue = << >>
          /\ \A o \in Accounts : lanes[o][v].rate = 0
      BY <1>3, <3>1 DEF Apart
    <3>3. ASSUME NEW s \in Sides
          PROVE  board'[v][s].queue = << >>
      <4>1. <<v, s>> \notin opens \cup stops \cup pegs
        BY <1>2, <2>1
      <4>2. board'[v][s] = board[v][s]
        BY <1>6, <4>1 DEF Outcome
      <4> QED BY <3>2, <4>2
    <3>4. ASSUME NEW o \in Accounts
          PROVE  lanes'[o][v].rate = 0
      BY <1>1, <1>3, <3>1, <3>2 DEF Storage
    <3> QED BY <3>3, <3>4
  <2>2. ASSUME NEW u \in Vaults, NEW v \in Vaults, u # v
        PROVE  lanes'[SeedAccount[v]][u].rate = 0
    <3>1. lanes[SeedAccount[v]][u].rate = 0 /\ SeedAccount[v] \in Accounts
      BY <1>3, <2>2, LanesConstants DEF Apart
    <3> QED BY <1>1, <1>3, <2>2, <3>1 DEF Storage
  <2> QED BY <2>1, <2>2 DEF Apart
<1>11. Core'
  BY <1>7, <1>8, <1>9, <1>10 DEF Core
<1> QED BY <1>4, <1>5, <1>6, <1>11

\* Nothing accrues for a vault that has not been created.
LEMMA NothingYet ==
  ASSUME Core, NEW v \in Vaults, status[v] = "None", NEW s \in Sides, NEW a \in Accounts
  PROVE  board[v][s].queue = << >> /\ board[v][s].pos[a].rate = 0 /\ lanes[a][v].rate = 0
<1>1. board[v][s].queue = << >> /\ lanes[a][v].rate = 0
  BY DEF Core, Apart
<1>2. Good(board[v][s]) /\ board[v][s].pos[a].rate \in Nat
  BY PositionIs DEF Core, BoardsOK, Sound, Good
<1>3. DOMAIN << >> = {}
  OBVIOUS
<1> QED BY <1>1, <1>2, <1>3 DEF Good, Placed, Queued

LEMMA TrackedYet ==
  ASSUME Core, Tracked, NEW v \in Vaults, status[v] # "Resolved", NEW s \in Sides, NEW a \in Accounts
  PROVE  Tracks(board[v][s], s, a, lanes[a][v], drips[a].maxEnd)
<1>1. CASE status[v] = "Open"
  BY <1>1 DEF Tracked
<1>2. CASE status[v] = "None"
  <2>1. board[v][s].pos[a].rate = 0 /\ lanes[a][v].rate = 0
    BY <1>2, NothingYet
  <2> QED BY <2>1 DEF Tracks
<1> QED BY <1>1, <1>2 DEF Core, Storage

\* A call tells the boards enough: each lane it keeps is pegged, unless it ran
\* dry and is opened anew; each lane it drops is stopped.
Tells(a, l, end, stops, opens, pegs) ==
    /\ opens \subseteq Keys(l)
    /\ \A v \in Vaults, s \in Sides :
         /\ <<v, s>> \in Keys(l) \ opens =>
              /\ l[v] = lanes[a][v]
              /\ <<v, s>> \in pegs \ stops
              /\ now < end => ~RanDry(a, v)
         /\ <<v, s>> \in Keys(lanes[a]) \ Keys(l) => <<v, s>> \in stops

LEMMA CallTracks ==
  ASSUME Core, Tracked, NEW a \in Accounts, NEW l \in LaneMaps, NEW balance \in 0..MaxBalance,
         NEW stops, NEW opens, NEW pegs, Call(a, l, balance, stops, opens, pegs),
         NEW d, d = Configured(a, balance, l), Tells(a, l, d.maxEnd, stops, opens, pegs)
  PROVE  Tracked'
<1> SUFFICES ASSUME NEW v \in Vaults, NEW s \in Sides, NEW o \in Accounts, status'[v] = "Open"
             PROVE  Tracks(board[v][s], s, o, lanes[o][v], drips[o].maxEnd)'
  BY DEF Tracked
<1> DEFINE b == board[v][s]
           c == board'[v][s]
           x == <<v, s>>
<1>1. /\ now' = now /\ status[v] # "Resolved"
      /\ lanes' = [lanes EXCEPT ![a] = l] /\ drips' = [drips EXCEPT ![a] = d]
  BY DEF Call
<1>2. Storage /\ Cap(v) = now
  BY <1>1, CapIs DEF Core
<1>3. /\ d.maxEnd \in Nat /\ now \in Nat
      /\ \A i \in Accounts \ {a} : Stays(b, c, i, Cap(v))
      /\ Outcome(b, c, x, a, stops, opens, pegs, l[v].rate, d.maxEnd, Cap(v))
  BY <1>2, CallIs, NowIs
<1>4. Tracks(b, s, o, lanes[o][v], drips[o].maxEnd)
  BY <1>1, TrackedYet
<1>5. b.pos[o].rate \in Nat /\ b.pos[o].maxEnd \in Nat /\ Good(b)
  BY PositionIs DEF Core, BoardsOK, Sound, Good
<1>6. drips[o].maxEnd \in Nat /\ lanes[o] \in LaneMaps /\ lanes[a] \in LaneMaps
  BY <1>2 DEF Storage, Funds
<1>7. ASSUME NEW lane, NEW end,
             /\ c.pos[o].rate > 0 => lane = [side |-> s, rate |-> c.pos[o].rate] /\ c.pos[o].maxEnd = end
             /\ lane.rate > 0 /\ lane.side = s => /\ c.pos[o].rate > 0 \/ c.pos[o].depleted
                                                  /\ now < end => c.pos[o].rate > 0,
             lane = lanes'[o][v], end = drips'[o].maxEnd
      PROVE  Tracks(board[v][s], s, o, lanes[o][v], drips[o].maxEnd)'
  BY <1>1, <1>7 DEF Tracks
<1>8. CASE o # a
  <2>1. lanes'[o][v] = lanes[o][v] /\ drips'[o].maxEnd = drips[o].maxEnd
    BY <1>1, <1>2, <1>8 DEF Storage
  <2>2. Stays(b, c, o, now)
    BY <1>2, <1>3, <1>8
  <2> HIDE DEF b, c
  <2>3. c.pos[o].rate > 0 => /\ lanes[o][v] = [side |-> s, rate |-> c.pos[o].rate]
                             /\ c.pos[o].maxEnd = drips[o].maxEnd
    BY <1>4, <2>2 DEF Stays, Runs, Tracks
  <2>4. lanes[o][v].rate > 0 /\ lanes[o][v].side = s =>
          /\ c.pos[o].rate > 0 \/ c.pos[o].depleted
          /\ now < drips[o].maxEnd => c.pos[o].rate > 0
    BY <1>3, <1>4, <1>5, <1>6, <2>2 DEF Stays, Runs, Tracks
  <2> QED BY <1>7, <2>1, <2>3, <2>4 DEF b, c
<1>9. CASE o = a
  <2>1. lanes'[o][v] = l[v] /\ drips'[o].maxEnd = d.maxEnd
    BY <1>1, <1>2, <1>9 DEF Storage
  <2>2. l[v] = [side |-> l[v].side, rate |-> l[v].rate] /\ l[v].rate \in Nat /\ l[v].side \in Sides
    BY DEF LaneMaps, Lane
  <2>3. /\ x \in Keys(l) <=> l[v].rate > 0 /\ l[v].side = s
        /\ x \in Keys(lanes[a]) <=> lanes[a][v].rate > 0 /\ lanes[a][v].side = s
    BY <1>6, KeysAre
  <2>4. /\ x \in opens => x \in Keys(l)
        /\ x \in Keys(l) \ opens => /\ l[v] = lanes[a][v]
                                    /\ x \in pegs \ stops
                                    /\ now < d.maxEnd => ~RanDry(a, v)
        /\ x \in Keys(lanes[a]) \ Keys(l) => x \in stops
    BY DEF Tells
  <2>5. x \in Keys(l) /\ x \notin opens /\ now < d.maxEnd =>
          ~b.pos[a].depleted /\ (b.pos[a].rate > 0 => now < b.pos[a].maxEnd)
    <3> SUFFICES ASSUME x \in Keys(l), x \notin opens, now < d.maxEnd
                 PROVE  ~b.pos[a].depleted /\ (b.pos[a].rate > 0 => now < b.pos[a].maxEnd)
      OBVIOUS
    <3>1. lanes[a][v].side = s /\ ~RanDry(a, v)
      BY <2>3, <2>4
    <3>2. ~b.pos[a].depleted
          /\ ~(b.pos[a].rate > 0 /\ b.pos[a].maxEnd # 0 /\ b.pos[a].maxEnd <= now)
      BY <3>1 DEF RanDry
    <3>3. b.pos[a].rate > 0 => b.pos[a].maxEnd # 0
      <4>1. b.last \in Nat /\ b.pos[a].fundStart \in Nat
        BY <1>5, BoardIs, PositionIs DEF Good
      <4> QED BY <1>5, <1>9, <4>1 DEF Good, Placed
    <3> QED BY <1>3, <1>5, <1>9, <3>2, <3>3
  <2> HIDE DEF b, c, x
  <2>6. /\ c.pos[a].rate > 0 => /\ l[v] = [side |-> s, rate |-> c.pos[a].rate]
                                /\ c.pos[a].maxEnd = d.maxEnd
        /\ l[v].rate > 0 /\ l[v].side = s => /\ c.pos[a].rate > 0 \/ c.pos[a].depleted
                                             /\ now < d.maxEnd => c.pos[a].rate > 0
    <3>1. CASE x \in opens
      <4>1. /\ c.pos[a].maxEnd = d.maxEnd
            /\ \/ c.pos[a].rate = l[v].rate
               \/ c.pos[a].rate = 0 /\ c.pos[a].depleted /\ d.maxEnd <= now
        BY <1>2, <1>3, <3>1 DEF Outcome
      <4>2. l[v].rate > 0 /\ l[v].side = s
        BY <2>3, <2>4, <3>1
      <4> QED BY <1>3, <2>2, <4>1, <4>2
    <3>2. CASE x \in stops \ opens
      <4>1. c.pos[a].rate = 0
        BY <1>3, <3>2 DEF Outcome
      <4>2. x \notin Keys(l)
        BY <2>4, <3>2
      <4> QED BY <2>2, <2>3, <4>1, <4>2
    <3>3. CASE x \in pegs \ (opens \cup stops)
      <4>1. Runs(b, c, a, now) /\ (c.pos[a].rate > 0 => c.pos[a].maxEnd = d.maxEnd)
        BY <1>2, <1>3, <3>3 DEF Outcome
      <4>2. c.pos[a].rate > 0 => c.pos[a].rate = b.pos[a].rate
        BY <4>1 DEF Runs
      <4>3. b.pos[a].rate > 0 => lanes[a][v] = [side |-> s, rate |-> b.pos[a].rate]
        BY <1>4, <1>9 DEF Tracks
      <4>4. ASSUME c.pos[a].rate > 0
            PROVE  l[v] = [side |-> s, rate |-> c.pos[a].rate]
        <5>1. lanes[a][v] = [side |-> s, rate |-> c.pos[a].rate]
          BY <4>2, <4>3, <4>4
        <5>2. x \in Keys(lanes[a])
          BY <2>3, <4>4, <5>1
        <5>3. l[v] = lanes[a][v]
          BY <2>4, <3>3, <5>2
        <5> QED BY <5>1, <5>3
      <4>5. ASSUME l[v].rate > 0, l[v].side = s
            PROVE  /\ c.pos[a].rate > 0 \/ c.pos[a].depleted
                   /\ now < d.maxEnd => c.pos[a].rate > 0
        <5>1. x \in Keys(l) /\ x \notin opens /\ l[v] = lanes[a][v]
          BY <2>3, <2>4, <3>3, <4>5
        <5>2. b.pos[a].rate > 0 \/ b.pos[a].depleted
          BY <1>4, <1>9, <4>5, <5>1 DEF Tracks
        <5>3. now < d.maxEnd => b.pos[a].rate > 0 /\ now < b.pos[a].maxEnd
          BY <2>5, <5>1, <5>2
        <5> QED BY <1>3, <1>5, <1>9, <4>1, <5>2, <5>3 DEF Runs
      <4> QED BY <4>1, <4>4, <4>5
    <3>4. CASE x \notin opens \cup stops \cup pegs
      <4>1. c = b
        BY <1>3, <3>4 DEF Outcome
      <4>2. x \notin Keys(l) /\ x \notin Keys(lanes[a])
        BY <2>4, <3>4
      <4>3. ~(b.pos[a].rate > 0)
        <5> SUFFICES ASSUME b.pos[a].rate > 0
                     PROVE  FALSE
          OBVIOUS
        <5>1. lanes[a][v] = [side |-> s, rate |-> b.pos[a].rate]
          BY <1>4, <1>9 DEF Tracks
        <5> QED BY <2>3, <4>2, <5>1
      <4> QED BY <2>3, <4>1, <4>2, <4>3
    <3> QED BY <3>1, <3>2, <3>3, <3>4
  <2> QED BY <1>7, <1>9, <2>1, <2>6 DEF b, c
<1> QED BY <1>8, <1>9

\* If nobody's loss basis moves and nothing is delivered, the sums agree still.
LEMMA DeliveredOn ==
  ASSUME Delivered, streamed' = streamed,
         \A v \in Vaults : Cap(v)' = Cap(v),
         \A v \in Vaults, s \in Sides : Follows(board[v][s], board'[v][s], Cap(v))
  PROVE  Delivered'
<1> SUFFICES ASSUME NEW v \in Vaults, NEW s \in Sides
             PROVE  SumFunctionOnSet(LossesOf(board'[v][s], Cap(v)'), Accounts) = streamed'[v][s]
  BY DEF Delivered
<1>1. \A a \in Accounts : Loss(board'[v][s], a, Cap(v)) = Loss(board[v][s], a, Cap(v))
  BY DEF Follows
<1>2. LossesOf(board'[v][s], Cap(v)) = LossesOf(board[v][s], Cap(v))
  BY <1>1 DEF LossesOf
<1>3. SumFunctionOnSet(LossesOf(board[v][s], Cap(v)), Accounts) = streamed[v][s]
  BY DEF Delivered
<1> QED BY <1>2, <1>3

-----------------------------------------------------------------------------
(* The calls of the drivers.                                               *)

\* What every step does for the invariant.
Keeps ==
    /\ Core'
    /\ ~DryFunding /\ Tracked => Tracked'
    /\ Tracked /\ Delivered => Delivered'

LEMMA CallKeeps ==
  ASSUME Core, NEW a \in Accounts, NEW l \in LaneMaps, NEW balance \in 0..MaxBalance,
         NEW stops, NEW opens, NEW pegs, Call(a, l, balance, stops, opens, pegs),
         ~DryFunding => Tells(a, l, Configured(a, balance, l).maxEnd, stops, opens, pegs)
  PROVE  Keeps
<1> DEFINE d == Configured(a, balance, l)
<1>1. /\ Core' /\ \A v \in Vaults : Cap(v)' = Cap(v)
      /\ \A v \in Vaults, s \in Sides : Follows(board[v][s], board'[v][s], Cap(v))
  BY CallIs
<1>2. ~DryFunding /\ Tracked => Tracked'
  <2>1. d = Configured(a, balance, l)
    OBVIOUS
  <2>2. ~DryFunding => Tells(a, l, d.maxEnd, stops, opens, pegs)
    OBVIOUS
  <2> HIDE DEF d
  <2> QED BY <2>1, <2>2, CallTracks
<1>3. Delivered => Delivered'
  BY <1>1, DeliveredOn DEF Call
<1> QED BY <1>1, <1>2, <1>3 DEF Keeps

LEMMA HooksRipen ==
  ASSUME Core, NEW a \in Accounts, NEW stops, NEW opens, NEW pegs,
         HooksSucceed(a, stops, opens, pegs), NEW v \in Vaults, NEW s \in Sides
  PROVE  /\ <<v, s>> \in stops \cup opens \cup pegs => Ripe(board[v][s], v)
         /\ <<v, s>> \in opens =>
              /\ status[v] = "Open"
              /\ <<v, s>> \notin stops => Hooked(board[v][s], v, a).pos[a].rate = 0
<1>1. Sound(board[v][s], Cap(v))
  BY DEF Core, BoardsOK
<1> DEFINE x == <<v, s>>
<1>2. x[1] = v /\ x[2] = s
  OBVIOUS
<1> HIDE DEF x
<1>3. x \in stops \cup opens \cup pegs =>
        CaughtUp(Advance(board[v][s], now, Cap(v), MaxSteps), Cap(v))
  BY <1>2 DEF HooksSucceed
<1>4. x \in opens => status[v] = "Open"
                     /\ (x \notin stops => Hooked(board[v][s], v, a).pos[a].rate = 0)
  BY <1>2 DEF HooksSucceed
<1> QED BY <1>1, <1>3, <1>4 DEF Ripe, x

\* The lanes of an account are at vaults that were created.
LEMMA LanesOf ==
  ASSUME Core, NEW a \in Accounts
  PROVE  /\ lanes[a] \in LaneMaps
         /\ \A v \in Vaults : status[v] = "None" => lanes[a][v].rate = 0
BY DEF Core, Storage, Apart

LEMMA MoneyLeft ==
  ASSUME Core, NEW a \in Accounts
  PROVE  Remaining(drips[a]) \in 0..MaxBalance
<1>1. Solvent(drips[a], now) /\ now \in Nat
  BY NowIs DEF Core, Agreed
<1>2. drips[a].balance \in 0..MaxBalance
  BY <1>1 DEF Solvent
<1>3. Remaining(drips[a]) \in 0..drips[a].balance
  BY <1>1, RemainingIs
<1>4. MaxBalance \in Nat
  BY LanesConstants
<1> QED BY <1>2, <1>3, <1>4

LEMMA FundKeeps ==
  ASSUME Core, NEW t \in Tokens, NEW v \in Vaults, NEW side \in Sides, NEW rate \in Nat \ {0},
         NEW deposit \in Nat, fund(t, v, side, rate, deposit)
  PROVE  Keeps
<1> DEFINE l == [lanes[t] EXCEPT ![v] = [side |-> side, rate |-> rate]]
           balance == Remaining(drips[t]) + deposit
           d == Configured(t, balance, l)
           x == <<v, side>>
           opens == {x}
           pegs == Keys(l) \ {x}
<1>1. /\ status[v] # "None" /\ lanes[t][v].rate = 0
      /\ d.balance <= MaxBalance
      /\ DryFunding \/ ~Revives(t, v, d.maxEnd)
      /\ HooksSucceed(t, {}, opens, Keys(l))
      /\ lanes' = [lanes EXCEPT ![t] = l]
      /\ drips' = [drips EXCEPT ![t] = d]
      /\ board' = Hooks(t, {}, opens, pegs, l, d.maxEnd)
      /\ Called
      /\ UNCHANGED <<now, status, resolvedAt, streamed>>
  BY DEF fund
<1>2. /\ t \in Accounts /\ \A w \in Vaults : t # SeedAccount[w]
  BY DEF Tokens, Seeds
<1>3. lanes[t] \in LaneMaps /\ \A u \in Vaults : status[u] = "None" => lanes[t][u].rate = 0
  BY <1>2, LanesOf
<1>4. /\ l \in LaneMaps
      /\ l[v] = [side |-> side, rate |-> rate]
      /\ \A u \in Vaults : u # v => l[u] = lanes[t][u]
  BY <1>3 DEF LaneMaps, Lane
<1>5. balance \in 0..MaxBalance
  <2>1. Remaining(drips[t]) \in 0..MaxBalance /\ MaxBalance \in Nat
    BY <1>2, MoneyLeft, LanesConstants
  <2>2. d.balance = balance
    BY DEF Configured
  <2> QED BY <1>1, <2>1, <2>2
<1> HIDE DEF l, balance
<1>6. /\ \A u \in Vaults, s \in Sides : <<u, s>> \in Keys(l) <=> l[u].rate > 0 /\ l[u].side = s
      /\ \A u \in Vaults, s \in Sides :
           <<u, s>> \in Keys(lanes[t]) <=> lanes[t][u].rate > 0 /\ lanes[t][u].side = s
  BY <1>3, <1>4, KeysAre
<1>7. x \in Keys(l)
  BY <1>4, <1>6
<1>8. Call(t, l, balance, {}, opens, pegs)
  <2>1. ASSUME NEW u \in Vaults, NEW s \in Sides
        PROVE  /\ <<u, s>> \in {} \cup opens \cup pegs =>
                    Ripe(board[u][s], u) /\ status[u] # "None"
               /\ <<u, s>> \in opens =>
                    /\ status[u] # "Resolved" /\ l[u].rate \in Nat \ {0}
                    /\ <<u, s>> \notin {} => Hooked(board[u][s], u, t).pos[t].rate = 0
    <3>1. /\ <<u, s>> \in {} \cup opens \cup Keys(l) => Ripe(board[u][s], u)
          /\ <<u, s>> \in opens => status[u] = "Open"
                                   /\ Hooked(board[u][s], u, t).pos[t].rate = 0
      BY <1>1, <1>2, HooksRipen
    <3>2. <<u, s>> \in Keys(l) => status[u] # "None"
      BY <1>1, <1>3, <1>4, <1>6
    <3>3. <<u, s>> \in opens => u = v
      OBVIOUS
    <3> QED BY <1>4, <1>7, <3>1, <3>2, <3>3
  <2>2. \A u \in Vaults : status[u] = "None" => l[u].rate = 0
    BY <1>1, <1>3, <1>4
  <2>3. status \in [Vaults -> {"None", "Open", "Resolved"}] /\ calls' \in 0..MaxCalls
    BY <1>1, LanesConstants DEF Core, Storage, Called
  <2> HIDE DEF opens, pegs
  <2> QED BY <1>1, <1>2, <2>1, <2>2, <2>3 DEF Call
<1>9. ASSUME ~DryFunding
      PROVE  Tells(t, l, d.maxEnd, {}, opens, pegs)
  <2>1. ASSUME NEW u \in Vaults, NEW s \in Sides, <<u, s>> \in Keys(l) \ opens
        PROVE  /\ l[u] = lanes[t][u]
               /\ <<u, s>> \in pegs
               /\ now < d.maxEnd => ~RanDry(t, u)
    <3>1. u # v
      BY <1>4, <1>6, <2>1
    <3>2. StreamOf(lanes[t], u) \in Held(lanes[t]) /\ StreamOf(lanes[t], u).vault = u
      BY <1>3, <1>4, <1>6, <2>1, <3>1, HeldIs DEF StreamOf
    <3>3. d.maxEnd > now => ~RanDry(t, u)
      BY <1>1, <1>9, <3>1, <3>2 DEF Revives
    <3>4. d.maxEnd \in Nat /\ now \in Nat
      BY <1>4, <1>5, NowIs, ConfiguredIs DEF Core
    <3> QED BY <1>4, <2>1, <3>1, <3>3, <3>4
  <2>2. ASSUME NEW u \in Vaults, NEW s \in Sides, <<u, s>> \in Keys(lanes[t]) \ Keys(l)
        PROVE  FALSE
    BY <1>1, <1>4, <1>6, <2>2
  <2> QED BY <1>7, <2>1, <2>2 DEF Tells
<1> HIDE DEF opens, pegs
<1> QED BY <1>2, <1>4, <1>5, <1>8, <1>9, CallKeeps

LEMMA StopKeeps ==
  ASSUME Core, NEW t \in Tokens, NEW v \in Vaults, stop(t, v)
  PROVE  Keeps
<1> DEFINE l == [lanes[t] EXCEPT ![v] = NoLane]
           balance == Remaining(drips[t])
           d == Configured(t, balance, l)
           stops == {<<v, lanes[t][v].side>>}
           pegs == Keys(l)
<1>1. /\ lanes[t][v].rate > 0
      /\ DryFunding \/ ~Revives(t, v, d.maxEnd)
      /\ HooksSucceed(t, stops, {}, pegs)
      /\ lanes' = [lanes EXCEPT ![t] = l]
      /\ drips' = [drips EXCEPT ![t] = d]
      /\ board' = Hooks(t, stops, {}, pegs, l, d.maxEnd)
      /\ Called
      /\ UNCHANGED <<now, status, resolvedAt, streamed>>
  BY DEF stop
<1>2. /\ t \in Accounts /\ \A w \in Vaults : t # SeedAccount[w]
  BY DEF Tokens, Seeds
<1>3. lanes[t] \in LaneMaps /\ \A u \in Vaults : status[u] = "None" => lanes[t][u].rate = 0
  BY <1>2, LanesOf
<1>4. /\ l \in LaneMaps
      /\ l[v].rate = 0
      /\ \A u \in Vaults : u # v => l[u] = lanes[t][u]
  BY <1>3 DEF LaneMaps, Lane, NoLane, Sides
<1>5. balance \in 0..MaxBalance
  BY <1>2, MoneyLeft
<1> HIDE DEF l, balance
<1>6. /\ \A u \in Vaults, s \in Sides : <<u, s>> \in Keys(l) <=> l[u].rate > 0 /\ l[u].side = s
      /\ \A u \in Vaults, s \in Sides :
           <<u, s>> \in Keys(lanes[t]) <=> lanes[t][u].rate > 0 /\ lanes[t][u].side = s
  BY <1>3, <1>4, KeysAre
<1>7. Call(t, l, balance, stops, {}, pegs)
  <2>1. ASSUME NEW u \in Vaults, NEW s \in Sides, <<u, s>> \in stops \cup {} \cup pegs
        PROVE  Ripe(board[u][s], u) /\ status[u] # "None"
    <3>1. Ripe(board[u][s], u)
      BY <1>1, <1>2, <2>1, HooksRipen
    <3>2. <<u, s>> \in Keys(l) => status[u] # "None"
      BY <1>3, <1>4, <1>6
    <3>3. <<u, s>> \in stops => status[u] # "None"
      BY <1>1, <1>3
    <3> QED BY <2>1, <3>1, <3>2, <3>3
  <2>2. \A u \in Vaults : status[u] = "None" => l[u].rate = 0
    BY <1>3, <1>4
  <2>3. status \in [Vaults -> {"None", "Open", "Resolved"}] /\ calls' \in 0..MaxCalls
    BY <1>1, LanesConstants DEF Core, Storage, Called
  <2> HIDE DEF stops, pegs
  <2> QED BY <1>1, <1>2, <2>1, <2>2, <2>3 DEF Call
<1>8. ASSUME ~DryFunding
      PROVE  Tells(t, l, d.maxEnd, stops, {}, pegs)
  <2>1. ASSUME NEW u \in Vaults, NEW s \in Sides, <<u, s>> \in Keys(l) \ {}
        PROVE  /\ l[u] = lanes[t][u]
               /\ <<u, s>> \in pegs \ stops
               /\ now < d.maxEnd => ~RanDry(t, u)
    <3>1. u # v
      BY <1>4, <1>6, <2>1
    <3>2. StreamOf(lanes[t], u) \in Held(lanes[t]) /\ StreamOf(lanes[t], u).vault = u
      BY <1>3, <1>4, <1>6, <2>1, <3>1, HeldIs DEF StreamOf
    <3>3. d.maxEnd > now => ~RanDry(t, u)
      BY <1>1, <1>8, <3>1, <3>2 DEF Revives
    <3>4. d.maxEnd \in Nat /\ now \in Nat
      BY <1>4, <1>5, NowIs, ConfiguredIs DEF Core
    <3> QED BY <1>4, <2>1, <3>1, <3>3, <3>4
  <2>2. ASSUME NEW u \in Vaults, NEW s \in Sides, <<u, s>> \in Keys(lanes[t]) \ Keys(l)
        PROVE  <<u, s>> \in stops
    <3>1. u = v
      BY <1>4, <1>6, <2>2
    <3> QED BY <1>6, <2>2, <3>1
  <2> QED BY <2>1, <2>2 DEF Tells
<1> HIDE DEF stops, pegs
<1> QED BY <1>2, <1>4, <1>5, <1>7, <1>8, CallKeeps

LEMMA SetLanesKeeps ==
  ASSUME Core, NEW t \in Tokens, NEW l \in LaneMaps, NEW deposit \in Nat, setLanes(t, l, deposit)
  PROVE  Keeps
<1> DEFINE balance == Remaining(drips[t]) + deposit
           d == Configured(t, balance, l)
           stops == Keys(lanes[t]) \ {x \in Keys(lanes[t]) : l[x[1]] = lanes[t][x[1]]}
           opens == ToOpen(t, l)
           pegs == Keys(l)
<1>1. /\ \A x \in Keys(l) : status[x[1]] # "None"
      /\ d.balance <= MaxBalance
      /\ HooksSucceed(t, stops, opens, pegs)
      /\ lanes' = [lanes EXCEPT ![t] = l]
      /\ drips' = [drips EXCEPT ![t] = d]
      /\ board' = Hooks(t, stops, opens, pegs, l, d.maxEnd)
      /\ Called
      /\ UNCHANGED <<now, status, resolvedAt, streamed>>
  BY DEF setLanes
<1>2. /\ t \in Accounts /\ \A w \in Vaults : t # SeedAccount[w]
  BY DEF Tokens, Seeds
<1>3. lanes[t] \in LaneMaps /\ \A u \in Vaults : status[u] = "None" => lanes[t][u].rate = 0
  BY <1>2, LanesOf
<1>4. balance \in 0..MaxBalance
  <2>1. Remaining(drips[t]) \in 0..MaxBalance /\ MaxBalance \in Nat
    BY <1>2, MoneyLeft, LanesConstants
  <2>2. d.balance = balance
    BY DEF Configured
  <2> QED BY <1>1, <2>1, <2>2
<1>5. \A u \in Vaults, s \in Sides :
        /\ <<u, s>> \in pegs <=> l[u].rate > 0 /\ l[u].side = s
        /\ <<u, s>> \in Keys(lanes[t]) <=> lanes[t][u].rate > 0 /\ lanes[t][u].side = s
        /\ <<u, s>> \in opens <=> <<u, s>> \in pegs /\ (l[u] # lanes[t][u] \/ RanDry(t, u))
        /\ <<u, s>> \in stops <=> <<u, s>> \in Keys(lanes[t]) /\ l[u] # lanes[t][u]
  <2> TAKE u \in Vaults, s \in Sides
  <2> DEFINE x == <<u, s>>
  <2>1. x[1] = u
    OBVIOUS
  <2>2. /\ x \in Keys(l) <=> l[u].rate > 0 /\ l[u].side = s
        /\ x \in Keys(lanes[t]) <=> lanes[t][u].rate > 0 /\ lanes[t][u].side = s
    BY <1>3, KeysAre
  <2> HIDE DEF x
  <2>3. /\ x \in ToOpen(t, l) <=> x \in Keys(l) /\ (l[u] # lanes[t][u] \/ RanDry(t, u))
        /\ x \in stops <=> x \in Keys(lanes[t]) /\ l[u] # lanes[t][u]
    BY <2>1 DEF ToOpen
  <2> QED BY <2>2, <2>3 DEF x
<1>6. opens \subseteq pegs
  BY DEF ToOpen
<1>7. \A u \in Vaults : l[u].rate \in Nat /\ l[u].side \in Sides
  BY DEF LaneMaps, Lane
<1> HIDE DEF balance, stops, opens
<1>8. \A u \in Vaults : status[u] = "None" => l[u].rate = 0
  <2> SUFFICES ASSUME NEW u \in Vaults, status[u] = "None", l[u].rate # 0
               PROVE  FALSE
    OBVIOUS
  <2> DEFINE x == <<u, l[u].side>>
  <2>1. x \in Keys(l) /\ x[1] = u
    BY <1>5, <1>7
  <2> HIDE DEF x
  <2> QED BY <1>1, <2>1
<1>9. Call(t, l, balance, stops, opens, pegs)
  <2>1. ASSUME NEW u \in Vaults, NEW s \in Sides
        PROVE  /\ <<u, s>> \in stops \cup opens \cup pegs =>
                    Ripe(board[u][s], u) /\ status[u] # "None"
               /\ <<u, s>> \in opens =>
                    /\ status[u] # "Resolved" /\ l[u].rate \in Nat \ {0}
                    /\ <<u, s>> \notin stops => Hooked(board[u][s], u, t).pos[t].rate = 0
    <3>1. /\ <<u, s>> \in stops \cup opens \cup pegs => Ripe(board[u][s], u)
          /\ <<u, s>> \in opens =>
               /\ status[u] = "Open"
               /\ <<u, s>> \notin stops => Hooked(board[u][s], u, t).pos[t].rate = 0
      BY <1>1, <1>2, HooksRipen
    <3>2. <<u, s>> \in stops \cup opens \cup pegs => status[u] # "None"
      BY <1>3, <1>5, <1>8
    <3> QED BY <1>5, <1>7, <3>1, <3>2
  <2>2. status \in [Vaults -> {"None", "Open", "Resolved"}] /\ calls' \in 0..MaxCalls
    BY <1>1, LanesConstants DEF Core, Storage, Called
  <2> HIDE DEF pegs
  <2> QED BY <1>1, <1>2, <1>8, <2>1, <2>2 DEF Call
<1>10. Tells(t, l, d.maxEnd, stops, opens, pegs)
  <2>1. ASSUME NEW u \in Vaults, NEW s \in Sides
        PROVE  /\ <<u, s>> \in pegs \ opens =>
                    /\ l[u] = lanes[t][u]
                    /\ <<u, s>> \in pegs \ stops
                    /\ ~RanDry(t, u)
               /\ <<u, s>> \in Keys(lanes[t]) \ pegs => <<u, s>> \in stops
    BY <1>5
  <2> QED BY <1>6, <2>1 DEF Tells
<1> HIDE DEF pegs
<1> QED BY <1>2, <1>4, <1>9, <1>10, CallKeeps

LEMMA EmptiedKeeps ==
  ASSUME Core, NEW a \in Accounts, Emptied(a)
  PROVE  Keeps
<1> DEFINE none == [v \in Vaults |-> NoLane]
           d == Configured(a, 0, none)
           stops == Keys(lanes[a])
<1>1. /\ HooksSucceed(a, stops, {}, {})
      /\ lanes' = [lanes EXCEPT ![a] = none]
      /\ drips' = [drips EXCEPT ![a] = d]
      /\ board' = Hooks(a, stops, {}, {}, none, now)
      /\ Called
      /\ UNCHANGED <<now, status, resolvedAt, streamed>>
  BY DEF Emptied
<1>2. d.maxEnd = now
  BY DEF Configured
<1>3. lanes[a] \in LaneMaps /\ \A u \in Vaults : status[u] = "None" => lanes[a][u].rate = 0
  BY LanesOf
<1>4. none \in LaneMaps /\ \A u \in Vaults : none[u].rate = 0
  BY DEF LaneMaps, Lane, NoLane, Sides
<1>5. 0 \in 0..MaxBalance
  BY LanesConstants
<1> HIDE DEF none
<1>6. /\ \A u \in Vaults, s \in Sides : <<u, s>> \notin Keys(none)
      /\ \A u \in Vaults, s \in Sides :
           <<u, s>> \in Keys(lanes[a]) <=> lanes[a][u].rate > 0 /\ lanes[a][u].side = s
  BY <1>3, <1>4, KeysAre
<1>7. Call(a, none, 0, stops, {}, {})
  <2>1. ASSUME NEW u \in Vaults, NEW s \in Sides, <<u, s>> \in stops \cup {} \cup {}
        PROVE  Ripe(board[u][s], u) /\ status[u] # "None"
    <3>1. Ripe(board[u][s], u)
      BY <1>1, <2>1, HooksRipen
    <3> QED BY <1>3, <1>6, <2>1, <3>1
  <2>2. status \in [Vaults -> {"None", "Open", "Resolved"}] /\ calls' \in 0..MaxCalls
    BY <1>1, LanesConstants DEF Core, Storage, Called
  <2> HIDE DEF stops
  <2> QED BY <1>1, <1>2, <1>4, <2>1, <2>2 DEF Call
<1>8. Tells(a, none, d.maxEnd, stops, {}, {})
  BY <1>6 DEF Tells
<1> HIDE DEF stops
<1> QED BY <1>4, <1>5, <1>7, <1>8, CallKeeps

-----------------------------------------------------------------------------
(* A vault is created.                                                     *)

\* With nothing queued one catch-up reaches the present.
LEMMA IdleIsRipe ==
  ASSUME Storage, NEW v \in Vaults, Cap(v) = now, NEW b, Sound(b, now), b.queue = << >>
  PROVE  Ripe(b, v)
<1> DEFINE c == Advance(b, now, now, MaxSteps)
<1>1. MaxSteps \in Nat /\ now \in Nat \ {0}
  BY NowIs, LanesConstants
<1>2. CaughtUp(c, now)
  <2>1. CASE b.last = 0
    <3>1. c = [b EXCEPT !.last = now] /\ b \in BoardRecords
      BY <2>1 DEF Advance, Sound, Good
    <3>2. c.last = now
      BY <3>1 DEF BoardRecords
    <3> QED BY <3>2 DEF CaughtUp
  <2>2. CASE b.last # 0
    <3>1. ~DueAt(b, now)
      BY DEF DueAt
    <3>2. Turns(b, now, MaxSteps) = {b}
      BY <1>1, <3>1, TurnsRest
    <3>3. c = Finish(b, now)
      BY <2>2, <3>2, AdvanceFinishes
    <3>4. b.last \in Nat /\ b.last <= now /\ b \in BoardRecords
      BY BoardIs DEF Sound, Good
    <3>5. CASE b.last < now
      <4>1. c = Moved(b, now)
        BY <1>1, <3>1, <3>3, <3>4, <3>5 DEF Finish
      <4> HIDE DEF c
      <4>2. c.last = now
        BY <1>1, <3>4, <4>1, MovedIs
      <4> QED BY <4>2 DEF CaughtUp
    <3>6. CASE b.last = now
      <4>1. c = b
        BY <1>1, <3>3, <3>6 DEF Finish
      <4> QED BY <3>6, <4>1 DEF CaughtUp
    <3> QED BY <1>1, <3>4, <3>5, <3>6
  <2> QED BY <2>1, <2>2
<1> QED BY <1>2 DEF Ripe

LEMMA CreateVaultKeeps ==
  ASSUME Core, NEW v \in Vaults, NEW side \in Sides, NEW rate \in Nat \ {0},
         NEW deposit \in 1..MaxBalance, createVault(v, side, rate, deposit)
  PROVE  Keeps
<1> DEFINE a == SeedAccount[v]
           l == [lanes[a] EXCEPT ![v] = [side |-> side, rate |-> rate]]
           d == Configured(a, deposit, l)
           x == <<v, side>>
           opens == {x}
<1>1. /\ status[v] = "None"
      /\ status' = [status EXCEPT ![v] = "Open"]
      /\ lanes' = [lanes EXCEPT ![a] = l]
      /\ drips' = [drips EXCEPT ![a] = d]
      /\ board' = Hooks(a, {}, opens, {}, l, d.maxEnd)
      /\ UNCHANGED <<now, resolvedAt, streamed, calls>>
  BY DEF createVault
<1>2. a \in Accounts /\ \A w \in Vaults : a = SeedAccount[w] => w = v
  BY LanesAssumption
<1>3. lanes[a] \in LaneMaps /\ \A u \in Vaults : lanes[a][u].rate = 0
  <2>1. \A u \in Vaults : u # v => lanes[a][u].rate = 0
    BY DEF Core, Apart
  <2>2. lanes[a][v].rate = 0
    BY <1>1, <1>2, LanesOf
  <2> QED BY <1>2, <2>1, <2>2, LanesOf
<1>4. /\ l \in LaneMaps
      /\ l[v] = [side |-> side, rate |-> rate]
      /\ \A u \in Vaults : u # v => l[u].rate = 0
  BY <1>3 DEF LaneMaps, Lane
<1>5. deposit \in 0..MaxBalance
  BY LanesConstants
<1> HIDE DEF a, l
<1>6. /\ \A u \in Vaults, s \in Sides : <<u, s>> \in Keys(l) <=> u = v /\ s = side
      /\ \A u \in Vaults, s \in Sides : <<u, s>> \notin Keys(lanes[a])
  <2>1. /\ \A u \in Vaults, s \in Sides : <<u, s>> \in Keys(l) <=> l[u].rate > 0 /\ l[u].side = s
        /\ \A u \in Vaults, s \in Sides :
             <<u, s>> \in Keys(lanes[a]) <=> lanes[a][u].rate > 0 /\ lanes[a][u].side = s
    BY <1>3, <1>4, KeysAre
  <2>2. \A u \in Vaults : u # v => ~(l[u].rate > 0)
    BY <1>4
  <2>3. l[v].rate > 0 /\ l[v].side = side
    BY <1>4
  <2>4. \A u \in Vaults : ~(lanes[a][u].rate > 0)
    BY <1>3
  <2> QED BY <2>1, <2>2, <2>3, <2>4
<1>7. Ripe(board[v][side], v) /\ Hooked(board[v][side], v, a).pos[a].rate = 0
  <2>1. Storage /\ Sound(board[v][side], Cap(v)) /\ Cap(v) = now
    BY <1>1, CapIs DEF Core, BoardsOK
  <2>2. board[v][side].queue = << >> /\ board[v][side].pos[a].rate = 0
    BY <1>1, <1>2, NothingYet
  <2>3. Ripe(board[v][side], v)
    BY <2>1, <2>2, IdleIsRipe
  <2>4. Stays(board[v][side], Hooked(board[v][side], v, a), a, Cap(v))
    BY <1>2, <2>1, <2>3, HookedIs
  <2> QED BY <2>2, <2>3, <2>4 DEF Stays, Runs
<1>8. Call(a, l, deposit, {}, opens, {})
  <2>1. ASSUME NEW u \in Vaults, NEW s \in Sides
        PROVE  /\ <<u, s>> \in {} \cup opens \cup {} =>
                    Ripe(board[u][s], u) /\ status'[u] # "None"
               /\ <<u, s>> \in opens =>
                    /\ status[u] # "Resolved" /\ l[u].rate \in Nat \ {0}
                    /\ <<u, s>> \notin {} => Hooked(board[u][s], u, a).pos[a].rate = 0
    <3> SUFFICES ASSUME <<u, s>> \in opens
                 PROVE  /\ Ripe(board[u][s], u) /\ status'[u] # "None"
                        /\ status[u] # "Resolved" /\ l[u].rate \in Nat \ {0}
                        /\ Hooked(board[u][s], u, a).pos[a].rate = 0
      OBVIOUS
    <3>1. u = v /\ s = side
      OBVIOUS
    <3>2. status'[v] # "None"
      BY <1>1 DEF Core, Storage
    <3> QED BY <1>1, <1>4, <1>7, <3>1, <3>2
  <2>2. /\ status' \in [Vaults -> {"None", "Open", "Resolved"}]
        /\ \A u \in Vaults : /\ status'[u] = "Resolved" <=> status[u] = "Resolved"
                             /\ status'[u] = "None" => status[u] = "None" /\ l[u].rate = 0
    BY <1>1, <1>4 DEF Core, Storage
  <2>3. calls' \in 0..MaxCalls
    BY <1>1 DEF Core, Storage
  <2>4. \A u, w \in Vaults : u # w /\ a = SeedAccount[w] => l[u].rate = 0
    BY <1>2, <1>4
  <2> HIDE DEF opens
  <2> QED BY <1>1, <2>1, <2>2, <2>3, <2>4 DEF Call
<1>9. Tells(a, l, d.maxEnd, {}, opens, {})
  BY <1>6 DEF Tells
<1> HIDE DEF opens
<1> QED BY <1>2, <1>4, <1>5, <1>8, <1>9, CallKeeps

-----------------------------------------------------------------------------
(* The vaults, and time.                                                   *)

LEMMA AdvanceKeepsIdle ==
  ASSUME NEW t \in Nat \ {0}, NEW cap \in Nat, NEW n \in Nat, NEW b, Good(b), b.queue = << >>,
         NEW c, c = Advance(b, t, cap, n)
  PROVE  c.queue = << >>
<1>1. PICK m \in 0..Len(b.queue) : c.queue = SubSeq(b.queue, m + 1, Len(b.queue))
  <2>1. Advanced(b, c, t, cap, n)
    BY AdvanceIs
  <2> QED BY <2>1 DEF Advanced
<1>2. Len(b.queue) = 0
  OBVIOUS
<1>3. m = 0 /\ m + 1 \in Int /\ 0 \in Int /\ 0 < m + 1
  BY <1>2
<1>4. SubSeq(b.queue, m + 1, 0) = << >>
  BY <1>3, SubSeqEmpty
<1> QED BY <1>1, <1>2, <1>4

LEMMA AdvanceKeeps ==
  ASSUME Core, NEW v \in Vaults, NEW s \in Sides, NEW n \in Nat, advance(v, s, n)
  PROVE  Keeps
<1> DEFINE b == board[v][s]
           c == Advance(b, now, Cap(v), n)
<1>1. /\ board' = [board EXCEPT ![v][s] = c]
      /\ UNCHANGED <<now, status, resolvedAt, lanes, drips, streamed, calls>>
  BY DEF advance
<1>2. /\ Storage /\ Agreed /\ BoardsOK /\ Apart /\ n \in Nat
      /\ Cap(v) \in Nat \ {0} /\ now \in Nat \ {0} /\ Sound(b, Cap(v))
      /\ board \in [Vaults -> [Sides -> BoardRecords]]
  BY CapIs, NowIs, LanesConstants DEF Core, BoardsOK
<1>3. c = Advance(b, now, Cap(v), n)
  OBVIOUS
<1> HIDE DEF b, c
<1>4. /\ Follows(b, c, Cap(v)) /\ c.last <= now
      /\ \A a \in Accounts : Stays(b, c, a, Cap(v))
  BY <1>2, <1>3, AdvanceStays
<1>5. \A u \in Vaults, i \in Sides :
        board'[u][i] = IF u = v /\ i = s THEN c ELSE board[u][i]
  BY <1>1, <1>2
<1>6. \A u \in Vaults : Cap(u)' = Cap(u)
  BY <1>1 DEF Cap
<1>7. ASSUME NEW u \in Vaults, NEW i \in Sides
      PROVE  /\ Follows(board[u][i], board'[u][i], Cap(u)) /\ board'[u][i].last <= now
             /\ \A a \in Accounts : Stays(board[u][i], board'[u][i], a, Cap(u))
  <2>1. CASE u = v /\ i = s
    BY <1>4, <1>5, <2>1 DEF b
  <2>2. CASE ~(u = v /\ i = s)
    <3>1. board'[u][i] = board[u][i]
      BY <1>5, <2>2
    <3>2. Follows(board[u][i], board[u][i], Cap(u)) /\ board[u][i].last <= now
      BY <1>2, FollowsItself DEF BoardsOK, Sound
    <3> QED BY <3>1, <3>2, StaysItself
  <2> QED BY <2>1, <2>2
<1>8. Core'
  <2>1. Storage' /\ Agreed'
    BY <1>1, <1>2 DEF Storage, Agreed, ListInForce
  <2>2. BoardsOK'
    <3>1. board' \in [Vaults -> [Sides -> BoardRecords]]
      BY <1>1, <1>2, <1>4 DEF Follows, Good
    <3>2. \A u \in Vaults, i \in Sides : Sound(board[u][i], Cap(u))'
      BY <1>1, <1>6, <1>7 DEF Follows, Sound
    <3> QED BY <3>1, <3>2 DEF BoardsOK
  <2>3. Apart'
    <3>1. b.queue = << >> => c.queue = << >>
      BY <1>2, <1>3, AdvanceKeepsIdle DEF Sound
    <3>2. \A u \in Vaults : status[u] = "None" => \A i \in Sides : board'[u][i].queue = << >>
      BY <1>2, <1>5, <3>1 DEF Apart, b
    <3> QED BY <1>1, <1>2, <3>2 DEF Apart
  <2> QED BY <2>1, <2>2, <2>3 DEF Core
<1>9. Tracked => Tracked'
  <2> SUFFICES ASSUME Tracked, NEW u \in Vaults, NEW i \in Sides, NEW a \in Accounts,
                      status[u] = "Open"
               PROVE  Tracks(board[u][i], i, a, lanes[a][u], drips[a].maxEnd)'
    BY <1>1 DEF Tracked
  <2> DEFINE e == board[u][i]
             f == board'[u][i]
  <2>1. Tracks(e, i, a, lanes[a][u], drips[a].maxEnd)
    BY DEF Tracked
  <2>2. Stays(e, f, a, now)
    BY <1>2, <1>7, CapIs
  <2>3. e.pos[a].rate \in Nat /\ e.pos[a].maxEnd \in Nat /\ drips[a].maxEnd \in Nat
    BY <1>2, PositionIs DEF BoardsOK, Storage, Funds
  <2> HIDE DEF e, f
  <2>4. Tracks(f, i, a, lanes[a][u], drips[a].maxEnd)
    BY <1>2, <2>1, <2>2, <2>3 DEF Tracks, Stays, Runs
  <2> QED BY <1>1, <2>4 DEF f, Tracks
<1>10. Delivered => Delivered'
  BY <1>1, <1>6, <1>7, DeliveredOn
<1> QED BY <1>8, <1>9, <1>10 DEF Keeps

LEMMA ResolveKeeps ==
  ASSUME Core, NEW v \in Vaults, resolve(v)
  PROVE  Keeps
<1>1. /\ status[v] = "Open"
      /\ status' = [status EXCEPT ![v] = "Resolved"]
      /\ resolvedAt' = [resolvedAt EXCEPT ![v] = now]
      /\ UNCHANGED <<now, board, lanes, drips, streamed, calls>>
  BY DEF resolve
<1>2. Storage /\ Agreed /\ BoardsOK /\ Apart /\ now \in Nat \ {0}
  BY NowIs DEF Core
<1>3. ASSUME NEW u \in Vaults
      PROVE  Cap(u)' = Cap(u)
  <2>1. CASE u = v
    <3>1. Cap(u) = now /\ status'[u] = "Resolved" /\ resolvedAt'[u] = now /\ now' = now
      BY <1>1, <1>2, <2>1, CapIs DEF Storage
    <3>2. Cap(u)' = Least(now, now)
      BY <3>1 DEF Cap
    <3> QED BY <1>2, <3>1, <3>2 DEF Least
  <2>2. CASE u # v
    BY <1>1, <1>2, <2>2 DEF Cap, Storage
  <2> QED BY <2>1, <2>2
<1>4. Core'
  <2>1. Storage'
    BY <1>1, <1>2 DEF Storage
  <2>2. Agreed'
    BY <1>1, <1>2 DEF Agreed, ListInForce
  <2>3. BoardsOK'
    BY <1>1, <1>2, <1>3 DEF BoardsOK, Sound
  <2>4. Apart'
    BY <1>1, <1>2 DEF Apart, Storage
  <2> QED BY <2>1, <2>2, <2>3, <2>4 DEF Core
<1>5. Tracked => Tracked'
  <2>1. \A u \in Vaults : status'[u] = "Open" => status[u] = "Open"
    BY <1>1, <1>2 DEF Storage
  <2> QED BY <1>1, <2>1 DEF Tracked, Tracks
<1>6. Delivered => Delivered'
  BY <1>1, <1>3 DEF Delivered
<1> QED BY <1>4, <1>5, <1>6 DEF Keeps

\* The accrual cap of a vault moves with time until it is resolved.
LEMMA CapTicks ==
  ASSUME Storage, now' = now + 1, status' = status, resolvedAt' = resolvedAt, NEW v \in Vaults
  PROVE  Cap(v)' = IF status[v] = "Resolved" THEN Cap(v) ELSE Cap(v) + 1
<1>1. now \in Nat
  BY NowIs
<1>2. CASE status[v] = "Resolved"
  <2>1. Cap(v)' = Least(now + 1, resolvedAt[v])
    BY <1>2 DEF Cap
  <2>2. resolvedAt[v] \in Nat /\ resolvedAt[v] <= now
    BY DEF Storage
  <2>3. Least(now + 1, resolvedAt[v]) = resolvedAt[v]
    BY <1>1, <2>2 DEF Least
  <2> QED BY <1>2, <2>1, <2>3, CapIs
<1>3. CASE status[v] # "Resolved"
  BY <1>3 DEF Cap
<1> QED BY <1>2, <1>3

\* What Drips delivers to a side of a vault in a second.
Delivery(v, s) == [a \in Accounts |->
    IF now < drips[a].maxEnd THEN RateTo(lanes[a], v, s) ELSE 0]

LEMMA TickDelivers ==
  ASSUME Core, Tick, NEW v \in Vaults, NEW s \in Sides
  PROVE  /\ \A a \in Accounts : Delivery(v, s)[a] \in Nat
         /\ SumFunctionOnSet(Delivery(v, s), Accounts) \in Nat
         /\ streamed'[v][s] = streamed[v][s] +
              IF status[v] # "Open" THEN 0 ELSE SumFunctionOnSet(Delivery(v, s), Accounts)
<1> DEFINE f == [a \in Accounts |->
                   IF now < drips[a].maxEnd
                   THEN TotalRate({c \in drips[a].streams : c.vault = v /\ c.side = s}) ELSE 0]
<1>1. streamed'[v][s] = streamed[v][s] + IF status[v] # "Open" THEN 0 ELSE SumFunction(f)
  BY DEF Tick
<1>2. ASSUME NEW a \in Accounts
      PROVE  /\ TotalRate({c \in drips[a].streams : c.vault = v /\ c.side = s}) = RateTo(lanes[a], v, s)
             /\ RateTo(lanes[a], v, s) \in Nat
  <2>1. drips[a].streams = Held(lanes[a]) /\ lanes[a] \in LaneMaps
    BY LanesOf DEF Core, Agreed, ListInForce
  <2> QED BY <2>1, RateToIs
<1>3. f = Delivery(v, s)
  BY <1>2 DEF Delivery
<1>4. SumFunction(f) = SumFunctionOnSet(f, Accounts)
  BY SumOverAccounts
<1> HIDE DEF f
<1>5. \A a \in Accounts : Delivery(v, s)[a] \in Nat
  BY <1>2 DEF Delivery
<1>6. SumFunctionOnSet(Delivery(v, s), Accounts) \in Nat
  BY <1>5, BoardAssumption, SumNat
<1> QED BY <1>1, <1>3, <1>4, <1>5, <1>6

LEMMA LossIsInt ==
  ASSUME NEW cap \in Nat, NEW b, Good(b), NEW a \in Accounts
  PROVE  Loss(b, a, cap) \in Int
<1>1. /\ b.pos[a].rate \in Nat /\ b.pos[a].maxEnd \in Nat /\ b.pos[a].fundStart \in Nat
      /\ b.pos[a].lost \in Nat
  BY PositionIs DEF Good
<1>2. Least(b.pos[a].maxEnd, cap) \in Nat
  BY <1>1 DEF Least
<1> DEFINE end == Least(b.pos[a].maxEnd, cap)
           put == b.pos[a].rate * (end - b.pos[a].fundStart)
<1>3. put \in Int
  BY <1>1, <1>2
<1>4. Loss(b, a, cap) \in {b.pos[a].lost + 0, b.pos[a].lost + put}
  BY DEF Loss, Streamed
<1> HIDE DEF put
<1> QED BY <1>1, <1>3, <1>4

\* A side's positions gain in a second what Drips delivers to it.
LEMMA TickGains ==
  ASSUME Core, Tracked, NEW v \in Vaults, status[v] = "Open", NEW s \in Sides, NEW a \in Accounts
  PROVE  Loss(board[v][s], a, now + 1) = Loss(board[v][s], a, now) + Delivery(v, s)[a]
<1> DEFINE b == board[v][s]
           p == b.pos[a]
           gain == IF p.rate > 0 /\ now < p.maxEnd THEN p.rate ELSE 0
<1>1. Good(b) /\ Within(b, now) /\ now \in Nat
  BY NowIs, CapIs DEF Core, BoardsOK, Sound
<1>2. Loss(b, a, now + 1) = Loss(b, a, now) + gain
  BY <1>1, LossTicks
<1>3. Tracks(b, s, a, lanes[a][v], drips[a].maxEnd)
  BY DEF Tracked
<1>4. p.rate \in Nat /\ lanes[a][v].rate \in Nat
  BY <1>1, PositionIs DEF Core, Storage, LaneMaps, Lane, Good
<1>5. gain = IF now < drips[a].maxEnd THEN RateTo(lanes[a], v, s) ELSE 0
  BY <1>3, <1>4 DEF Tracks, RateTo
<1>6. Delivery(v, s)[a] = gain
  BY <1>5 DEF Delivery
<1> QED BY <1>2, <1>6

LEMMA TickKeeps ==
  ASSUME Core, Tick
  PROVE  Keeps
<1>1. /\ now < MaxTime /\ now' = now + 1
      /\ UNCHANGED <<status, resolvedAt, board, lanes, drips, calls>>
  BY DEF Tick
<1>2. Storage /\ Agreed /\ BoardsOK /\ Apart /\ now \in Nat \ {0} /\ MaxTime \in Nat
  BY NowIs, LanesConstants DEF Core
<1>3. \A v \in Vaults : Cap(v)' = IF status[v] = "Resolved" THEN Cap(v) ELSE Cap(v) + 1
  BY <1>1, <1>2, CapTicks
<1>4. \A v \in Vaults : Cap(v) \in Nat /\ (status[v] # "Resolved" => Cap(v) = now)
  BY <1>2, CapIs
<1>5. Core'
  <2>1. Storage'
    <3>1. streamed' \in [Vaults -> [Sides -> Nat]]
      <4>1. \A v \in Vaults, s \in Sides : streamed'[v][s] \in Nat
        BY <1>2, TickDelivers DEF Storage
      <4>2. streamed' = [v \in Vaults |-> [s \in Sides |-> streamed'[v][s]]]
        BY DEF Tick
      <4> QED BY <4>1, <4>2
    <3>2. now' \in 1..MaxTime
      BY <1>1, <1>2
    <3>3. \A v \in Vaults : resolvedAt[v] <= now'
      BY <1>1, <1>2 DEF Storage
    <3> QED BY <1>1, <1>2, <3>1, <3>2, <3>3 DEF Storage
  <2>2. Agreed'
    <3>1. \A a \in Accounts : Solvent(drips[a], now + 1)
      BY <1>2 DEF Agreed, Solvent
    <3> QED BY <1>1, <1>2, <3>1 DEF Agreed, ListInForce
  <2>3. BoardsOK'
    <3>1. ASSUME NEW v \in Vaults, NEW s \in Sides
          PROVE  Sound(board[v][s], Cap(v))'
      <4>1. Good(board[v][s]) /\ Within(board[v][s], Cap(v)) /\ board[v][s].last <= now
        BY <1>2 DEF BoardsOK, Sound
      <4>2. board[v][s].last \in Nat
        BY <4>1, BoardIs DEF Good
      <4>3. Within(board[v][s], Cap(v)')
        BY <1>3, <1>4, <4>1, <4>2 DEF Within
      <4> QED BY <1>1, <1>2, <4>1, <4>2, <4>3 DEF Sound
    <3> QED BY <1>1, <1>2, <3>1 DEF BoardsOK
  <2>4. Apart'
    BY <1>1, <1>2 DEF Apart
  <2> QED BY <2>1, <2>2, <2>3, <2>4 DEF Core
<1>6. Tracked => Tracked'
  <2> SUFFICES ASSUME Tracked, NEW v \in Vaults, NEW s \in Sides, NEW a \in Accounts,
                      status[v] = "Open"
               PROVE  Tracks(board[v][s], s, a, lanes[a][v], drips[a].maxEnd)'
    BY <1>1 DEF Tracked
  <2>1. Tracks(board[v][s], s, a, lanes[a][v], drips[a].maxEnd)
    BY DEF Tracked
  <2>2. drips[a].maxEnd \in Nat
    BY <1>2 DEF Storage, Funds
  <2> QED BY <1>1, <1>2, <2>1, <2>2 DEF Tracks
<1>7. Tracked /\ Delivered => Delivered'
  <2> SUFFICES ASSUME Tracked, Delivered, NEW v \in Vaults, NEW s \in Sides
               PROVE  SumFunctionOnSet(LossesOf(board[v][s], Cap(v)'), Accounts) = streamed'[v][s]
    BY <1>1 DEF Delivered
  <2> DEFINE b == board[v][s]
             before == LossesOf(b, Cap(v))
             after == LossesOf(b, Cap(v)')
  <2>1. SumFunctionOnSet(before, Accounts) = streamed[v][s] /\ streamed[v][s] \in Nat
    BY <1>2 DEF Delivered, Storage
  <2>2. CASE status[v] = "Open"
    <3>1. Cap(v) = now /\ Cap(v)' = now + 1
      BY <1>3, <1>4, <2>2
    <3>2. \A a \in Accounts : Loss(b, a, now) \in Int
      BY <1>2, LossIsInt DEF BoardsOK, Sound
    <3>3. \A a \in Accounts : /\ before[a] \in Int /\ Delivery(v, s)[a] \in Int
                              /\ after[a] = before[a] + Delivery(v, s)[a]
      <4>1. \A a \in Accounts : Delivery(v, s)[a] \in Nat
        BY TickDelivers
      <4>2. \A a \in Accounts : Loss(b, a, now + 1) = Loss(b, a, now) + Delivery(v, s)[a]
        BY <2>2, TickGains
      <4> QED BY <3>1, <3>2, <4>1, <4>2 DEF LossesOf
    <3> HIDE DEF before, after
    <3>4. SumFunctionOnSet(after, Accounts)
            = SumFunctionOnSet(before, Accounts) + SumFunctionOnSet(Delivery(v, s), Accounts)
      BY <3>3, BoardAssumption, SumAdds
    <3>5. streamed'[v][s] = streamed[v][s] + SumFunctionOnSet(Delivery(v, s), Accounts)
      BY <2>2, TickDelivers
    <3> QED BY <2>1, <3>4, <3>5 DEF after, b
  <2>3. CASE status[v] # "Open"
    <3>1. streamed'[v][s] = streamed[v][s]
      BY <2>1, <2>3, TickDelivers
    <3>2. \A a \in Accounts : Loss(b, a, Cap(v)') = Loss(b, a, Cap(v))
      <4>1. CASE status[v] = "Resolved"
        BY <1>3, <4>1
      <4>2. CASE status[v] = "None"
        <5>1. \A a \in Accounts : ~(b.pos[a].rate > 0)
          BY <4>2, NothingYet
        <5> QED BY <5>1 DEF Loss
      <4> QED BY <1>2, <2>3, <4>1, <4>2 DEF Storage
    <3>3. after = before
      BY <3>2 DEF LossesOf
    <3> QED BY <2>1, <3>1, <3>3
  <2> QED BY <2>2, <2>3
<1> QED BY <1>5, <1>6, <1>7 DEF Keeps

-----------------------------------------------------------------------------
(* The theorems.                                                           *)

LEMMA InitKeeps ==
  ASSUME Init
  PROVE  Core /\ Tracked /\ Delivered
<1>1. /\ now = 1
      /\ status = [v \in Vaults |-> "None"]
      /\ resolvedAt = [v \in Vaults |-> 0]
      /\ board = [v \in Vaults |-> [s \in Sides |-> NewBoard]]
      /\ lanes = [a \in Accounts |-> [v \in Vaults |-> NoLane]]
      /\ drips = [a \in Accounts |-> [balance |-> 0, updateTime |-> 0, maxEnd |-> 0, streams |-> {}]]
      /\ streamed = [v \in Vaults |-> [s \in Sides |-> 0]]
      /\ calls = 0
  BY DEF Init
<1>2. /\ Good(NewBoard) /\ NewBoard.queue = << >> /\ NewBoard.last = 0
      /\ \A a \in Accounts : NewBoard.pos[a].rate = 0 /\ NewBoard.pos[a].lost = 0
  BY NewBoardGood DEF NewBoard, NoPosition
<1>3. [v \in Vaults |-> NoLane] \in LaneMaps
  BY DEF LaneMaps, Lane, NoLane, Sides
<1>4. Storage
  <2>1. lanes \in [Accounts -> LaneMaps]
    BY <1>1, <1>3
  <2>2. drips \in [Accounts -> Funds]
    <3>1. 0 \in 0..MaxBalance
      BY LanesConstants
    <3> QED BY <1>1, <3>1 DEF Funds
  <2>3. now \in 1..MaxTime /\ calls \in 0..MaxCalls
    BY <1>1, LanesConstants
  <2> QED BY <1>1, <2>1, <2>2, <2>3 DEF Storage
<1>5. Agreed
  <2>1. Held([v \in Vaults |-> NoLane]) = {}
    BY DEF Held, NoLane
  <2>2. TotalRate({}) \in Nat
    <3>1. TotalRate(Held([v \in Vaults |-> NoLane])) \in Nat
      BY <1>3, TotalRateIs
    <3> QED BY <2>1, <3>1
  <2> SUFFICES ASSUME NEW a \in Accounts
               PROVE  Solvent(drips[a], now) /\ drips[a].streams = Held(lanes[a])
    BY DEF Agreed, ListInForce
  <2>3. /\ drips[a].balance = 0 /\ drips[a].updateTime = 0 /\ drips[a].maxEnd = 0
        /\ drips[a].streams = {} /\ lanes[a] = [v \in Vaults |-> NoLane]
    BY <1>1
  <2>4. TotalRate(drips[a].streams) * (drips[a].maxEnd - drips[a].updateTime) = 0
    <3> DEFINE r == TotalRate({})
    <3>1. r \in Nat
      BY <2>2
    <3> HIDE DEF r
    <3>2. r * (0 - 0) = 0
      BY <3>1
    <3> QED BY <2>3, <3>2 DEF r
  <2>5. 0 \in 0..MaxBalance /\ 0 \in 0..now
    BY <1>1, LanesConstants
  <2> QED BY <2>1, <2>2, <2>3, <2>4, <2>5 DEF Solvent
<1>6. BoardsOK
  <2>1. board \in [Vaults -> [Sides -> BoardRecords]]
    BY <1>1, <1>2 DEF Good
  <2>2. \A v \in Vaults, s \in Sides : board[v][s] = NewBoard
    BY <1>1
  <2>3. \A v \in Vaults : Sound(NewBoard, Cap(v))
    BY <1>1, <1>2 DEF Sound, Within
  <2> QED BY <2>1, <2>2, <2>3 DEF BoardsOK
<1>7. Apart
  <2>1. \A a \in Accounts, v \in Vaults : lanes[a][v].rate = 0
    BY <1>1 DEF NoLane
  <2> QED BY <1>1, <1>2, <2>1, LanesConstants DEF Apart
<1>8. Tracked
  BY <1>1 DEF Tracked
<1>9. Delivered
  <2> SUFFICES ASSUME NEW v \in Vaults, NEW s \in Sides
               PROVE  SumFunctionOnSet(LossesOf(NewBoard, Cap(v)), Accounts) = 0
    BY <1>1 DEF Delivered
  <2>1. \A a \in Accounts : LossesOf(NewBoard, Cap(v))[a] = 0
    BY <1>2 DEF LossesOf, Loss
  <2>2. IsFiniteSet(Accounts) /\ Cardinality(Accounts) \in Int
    BY BoardAssumption, FS_CardinalityType
  <2>3. SumFunctionOnSet(LossesOf(NewBoard, Cap(v)), Accounts) = 0 * Cardinality(Accounts)
    BY <2>1, <2>2, SumConstant
  <2>4. 0 * Cardinality(Accounts) = 0
    BY <2>2
  <2> QED BY <2>3, <2>4
<1> QED BY <1>4, <1>5, <1>6, <1>7, <1>8, <1>9 DEF Core

LEMMA NextKeeps ==
  ASSUME Core, Next
  PROVE  Keeps
<1>1. /\ \A v \in Vaults : /\ Wanted[v] \subseteq [side : Sides, rate : Nat \ {0}]
                           /\ Offers[v] \subseteq
                                [side : Sides, rate : Nat \ {0}, deposit : 1..MaxBalance]
      /\ Watched \subseteq Vaults /\ Deposits \subseteq Nat \ {0}
      /\ \A v \in Vaults : SeedAccount[v] \in Accounts
  BY LanesAssumption, LanesConstants
<1>2. ASSUME NEW t \in Tokens, NEW v \in Vaults, NEW c \in Wanted[v], NEW deposit \in Deposits,
             fund(t, v, c.side, c.rate, deposit)
      PROVE  Keeps
  <2>1. c.side \in Sides /\ c.rate \in Nat \ {0} /\ deposit \in Nat
    BY <1>1
  <2> QED BY <1>2, <2>1, FundKeeps
<1>3. ASSUME NEW t \in Tokens, NEW v \in Vaults, stop(t, v)
      PROVE  Keeps
  BY <1>3, StopKeeps
<1>4. ASSUME NEW t \in Tokens, NEW l \in LaneSets, NEW deposit \in Deposits \cup {0},
             setLanes(t, l, deposit)
      PROVE  Keeps
  <2>1. l \in LaneMaps
    <3>1. l \in [Vaults -> UNION {Wanted[v] \cup {NoLane} : v \in Vaults}]
          /\ \A v \in Vaults : l[v] \in Wanted[v] \cup {NoLane}
      BY DEF LaneSets
    <3>2. \A v \in Vaults : l[v] \in Lane
      BY <1>1, <3>1 DEF Lane, NoLane, Sides
    <3> QED BY <3>1, <3>2 DEF LaneMaps
  <2>2. deposit \in Nat
    BY <1>1
  <2> QED BY <1>4, <2>1, <2>2, SetLanesKeeps
<1>5. ASSUME NEW t \in Tokens, stopAll(t)
      PROVE  Keeps
  <2>1. t \in Accounts /\ Emptied(t)
    BY <1>5 DEF Tokens, stopAll
  <2> QED BY <2>1, EmptiedKeeps
<1>6. ASSUME NEW v \in Vaults, NEW c \in Offers[v], createVault(v, c.side, c.rate, c.deposit)
      PROVE  Keeps
  <2>1. c.side \in Sides /\ c.rate \in Nat \ {0} /\ c.deposit \in 1..MaxBalance
    BY <1>1
  <2> QED BY <1>6, <2>1, CreateVaultKeeps
<1>7. ASSUME NEW v \in Vaults, stopSeed(v)
      PROVE  Keeps
  <2>1. SeedAccount[v] \in Accounts /\ Emptied(SeedAccount[v])
    BY <1>1, <1>7 DEF stopSeed
  <2> QED BY <2>1, EmptiedKeeps
<1>8. ASSUME NEW v \in Watched, resolve(v)
      PROVE  Keeps
  BY <1>1, <1>8, ResolveKeeps
<1>9. ASSUME NEW v \in Watched, NEW s \in Sides, NEW n \in 1..MaxSteps, advance(v, s, n)
      PROVE  Keeps
  BY <1>1, <1>9, LanesConstants, AdvanceKeeps
<1>10. CASE Tick
  BY <1>10, TickKeeps
<1> QED BY <1>2, <1>3, <1>4, <1>5, <1>6, <1>7, <1>8, <1>9, <1>10 DEF Next

LEMMA StutterKeeps ==
  ASSUME Core, UNCHANGED vars
  PROVE  Keeps
<1>1. Core'
  BY DEF Core, Storage, Agreed, ListInForce, BoardsOK, Sound, Cap, Apart, vars
<1>2. Tracked => Tracked'
  BY DEF Tracked, Tracks, vars
<1>3. Delivered => Delivered'
  BY DEF Delivered, Cap, vars
<1> QED BY <1>1, <1>2, <1>3 DEF Keeps

LEMMA CoreInductive == Spec => []Core
<1>1. Init => Core
  BY InitKeeps
<1>2. Core /\ [Next]_vars => Core'
  BY NextKeeps, StutterKeeps DEF Keeps
<1> QED BY <1>1, <1>2, PTL DEF Spec

\* Type correctness, with what the drivers rest on (MarketDriver.sol and
\* VaultDriver.sol pass setStreams the list they kept): for any sequence of
\* calls, Drips holds exactly the driver's lanes, and never spends more than
\* the account's balance.
THEOREM TypeCorrect == Spec => []TypeOK
<1>1. Core => TypeOK
  <2> SUFFICES ASSUME Core
               PROVE  TypeOK
    OBVIOUS
  <2>1. Storage /\ Agreed /\ now \in Nat /\ now <= MaxTime /\ MaxTime \in Nat
    BY NowIs, LanesConstants DEF Core
  <2>2. ASSUME NEW a \in Accounts
        PROVE  /\ drips[a].balance \in 0..MaxBalance
               /\ drips[a].updateTime \in 0..now
               /\ drips[a].maxEnd \in Nat
               /\ ListInForce(a)
    BY <2>1 DEF Agreed, Solvent
  <2>3. resolvedAt \in [Vaults -> 0..MaxTime]
    <3>1. \A v \in Vaults : resolvedAt[v] \in 0..MaxTime
      BY <2>1 DEF Storage
    <3> QED BY <2>1, <3>1 DEF Storage
  <2> QED BY <2>1, <2>2, <2>3 DEF TypeOK, Storage, LaneMaps
<1> QED BY <1>1, CoreInductive, PTL

\* Unless a call revives a lane that ran dry (Revives, the guard of fund and
\* stop), every position of an open vault keeps to its stream in Drips.
LEMMA TrackedInductive ==
  ASSUME ~DryFunding
  PROVE  Spec => [](Core /\ Tracked /\ Delivered)
<1>1. Init => Core /\ Tracked /\ Delivered
  BY InitKeeps
<1>2. Core /\ Tracked /\ Delivered /\ [Next]_vars => (Core /\ Tracked /\ Delivered)'
  BY NextKeeps, StutterKeeps DEF Keeps
<1> QED BY <1>1, <1>2, PTL DEF Spec

\* I1 over all lanes (Vault.sol, the comment on collect: pool == delivered):
\* however many lanes of however many tokens share their balances, no board's
\* pool, with what its positions will still book, is off what Drips delivered.
THEOREM PoolIsDrips ==
  ASSUME ~DryFunding
  PROVE  Spec => []PoolIsStreamed
<1>1. Core /\ Tracked /\ Delivered => PoolIsStreamed
  <2> SUFFICES ASSUME Core, Delivered, NEW v \in Vaults, NEW s \in Sides, NEW b, b = board[v][s]
               PROVE  b.pool + SumFunction([a \in Accounts |->
                        IF Active(b, a)
                        THEN b.pos[a].rate * (Least(b.pos[a].maxEnd, Cap(v)) - b.last) ELSE 0])
                      = streamed[v][s]
    BY DEF PoolIsStreamed
  <2> DEFINE unbooked == [a \in Accounts |->
               IF Active(b, a)
               THEN b.pos[a].rate * (Least(b.pos[a].maxEnd, Cap(v)) - b.last) ELSE 0]
             losses == LossesOf(b, Cap(v))
  <2>1. Good(b) /\ Within(b, Cap(v)) /\ Cap(v) \in Nat
    BY CapIs DEF Core, BoardsOK, Sound
  <2>2. b \in BoardRecords /\ IsFiniteSet(Accounts)
    BY <2>1, BoardAssumption DEF Good
  <2>3. ASSUME NEW a \in Accounts
        PROVE  /\ BookedOf(b)[a] \in Int /\ unbooked[a] \in Int
               /\ losses[a] = BookedOf(b)[a] + unbooked[a]
    <3>1. BookedOf(b)[a] = Booked(b, a) /\ Booked(b, a) \in Int
      BY <2>2, TermsAreInts
    <3>2. losses[a] = Loss(b, a, Cap(v))
      BY DEF LossesOf
    <3> QED BY <2>1, <3>1, <3>2, LossSplits
  <2>4. DOMAIN unbooked = Accounts
    OBVIOUS
  <2>5. SumFunctionOnSet(losses, Accounts) = streamed[v][s]
    BY DEF Delivered
  <2> HIDE DEF unbooked, losses
  <2>6. SumFunctionOnSet(losses, Accounts)
          = SumFunctionOnSet(BookedOf(b), Accounts) + SumFunctionOnSet(unbooked, Accounts)
    BY <2>2, <2>3, SumAdds
  <2>7. b.pool = SumFunctionOnSet(BookedOf(b), Accounts)
    BY <2>1 DEF Good, Tallied
  <2>8. b.pool + SumFunction(unbooked) = streamed[v][s]
    BY <2>4, <2>5, <2>6, <2>7, SumOverAccounts
  <2> QED BY <2>8 DEF unbooked
<1> QED BY <1>1, TrackedInductive, PTL

\* The boards follow Drips: in an open vault a position accrues exactly when
\* its stream flows, at the lane's rate and until Drips' end.
THEOREM BoardsFollow ==
  ASSUME ~DryFunding
  PROVE  Spec => []BoardsFollowDrips
<1>1. Core /\ Tracked /\ Delivered => BoardsFollowDrips
  <2> SUFFICES ASSUME Core, Tracked, NEW v \in Vaults, NEW s \in Sides, NEW a \in Accounts,
                      status[v] = "Open", NEW b, b = board[v][s], NEW p, p = b.pos[a]
               PROVE  IF Active(b, a) /\ p.maxEnd > now
                      THEN /\ [vault |-> v, side |-> s, rate |-> p.rate] \in drips[a].streams
                           /\ p.maxEnd = drips[a].maxEnd
                      ELSE ~ (lanes[a][v].side = s /\ Flows(a, v))
    BY DEF BoardsFollowDrips
  <2>1. Tracks(b, s, a, lanes[a][v], drips[a].maxEnd)
    BY DEF Tracked
  <2>2. lanes[a] \in LaneMaps /\ drips[a].streams = Held(lanes[a])
    BY LanesOf DEF Core, Agreed, ListInForce
  <2>3. p.rate > 0 => Active(b, a)
    BY DEF Core, BoardsOK, Sound, Good, Placed, Active
  <2>4. CASE Active(b, a) /\ p.maxEnd > now
    <3>1. p.rate > 0
      BY <2>4 DEF Active
    <3>2. lanes[a][v] = [side |-> s, rate |-> p.rate] /\ p.maxEnd = drips[a].maxEnd
      BY <2>1, <3>1 DEF Tracks
    <3>3. StreamOf(lanes[a], v) \in Held(lanes[a])
      BY <2>2, <3>1, <3>2, HeldIs
    <3>4. StreamOf(lanes[a], v) = [vault |-> v, side |-> s, rate |-> p.rate]
      BY <3>2 DEF StreamOf
    <3> QED BY <2>2, <2>4, <3>2, <3>3, <3>4
  <2>5. CASE ~(Active(b, a) /\ p.maxEnd > now)
    <3> SUFFICES ASSUME lanes[a][v].side = s, Flows(a, v)
                 PROVE  FALSE
      BY <2>5
    <3>1. PICK c \in Held(lanes[a]) : c.vault = v /\ now < drips[a].maxEnd
      BY <2>2 DEF Flows
    <3>2. lanes[a][v].rate > 0
      BY <2>2, <3>1, HeldIs
    <3>3. p.rate > 0
      BY <2>1, <3>1, <3>2 DEF Tracks
    <3>4. p.maxEnd = drips[a].maxEnd
      BY <2>1, <3>3 DEF Tracks
    <3>5. p.maxEnd > now
      BY <3>1, <3>4
    <3> QED BY <2>3, <2>5, <3>3, <3>5
  <2> QED BY <2>4, <2>5
<1> QED BY <1>1, TrackedInductive, PTL
=============================================================================
