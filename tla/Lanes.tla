-------------------------------- MODULE Lanes --------------------------------
(***************************************************************************)
(* The funding drivers (MarketDriver.sol, VaultDriver.sol) over several    *)
(* vaults and Drips.  A market token holds at most one lane per vault; all *)
(* its lanes are streams of one Drips account with one balance, so that    *)
(* they all run dry in the same second, which every call that touches the  *)
(* balance moves and tells the boards of the vaults.                       *)
(*                                                                         *)
(* The boards are those of Board.tla; the account of Drips is modelled by  *)
(* what Streams.tla makes of whole rates: a balance, one end and the       *)
(* streams.  A transaction is one action; one that reverts is disabled.    *)
(***************************************************************************)
EXTENDS Board, Functions

CONSTANTS
    Vaults,
    SeedAccount,  \* the Drips account of the creator of each vault
    Watched,      \* bound: the vaults that somebody advances and resolves
    Offers,       \* bound: the seeds each vault may be created with
    Wanted,      \* bound: the lanes a token may open on each vault
    Deposits,     \* bound: what one call adds to a token's balance
    MaxBalance,   \* bound: the balance of an account
    MaxQueue,     \* bound: boundaries queued on a side
    MaxTime,      \* bound: the last second of a behaviour
    LastCreate,   \* bound: the last second at which a vault is created
    LastFund,     \* bound: the last second of a deposit
    MaxCalls,     \* bound: calls of the drivers after a vault's creation
    MaxSteps,     \* MAX_STEPS
    DryFunding    \* may fund and stop revive a sibling lane that ran dry?

Sides == {"Yes", "No"}
Seeds == {SeedAccount[v] : v \in Vaults}
Tokens == Accounts \ Seeds

Lane == [side : Sides, rate : Nat]
NoLane == [side |-> "Yes", rate |-> 0]

ASSUME LanesAssumption ==
    /\ IsFiniteSet(Vaults)
    /\ SeedAccount \in [Vaults -> Accounts]
    /\ \A u, v \in Vaults : SeedAccount[u] = SeedAccount[v] => u = v
    /\ \A v \in Vaults : /\ Wanted[v] \subseteq [side : Sides, rate : Nat \ {0}]
                         /\ Offers[v] \subseteq
                              [side : Sides, rate : Nat \ {0}, deposit : 1..MaxBalance]
    /\ Watched \subseteq Vaults
    /\ Deposits \subseteq Nat \ {0}
    /\ {MaxBalance, MaxQueue, LastCreate, LastFund, MaxCalls} \subseteq Nat
    /\ {MaxTime, MaxSteps} \subseteq Nat \ {0}
    /\ DryFunding \in BOOLEAN

VARIABLES
    now,
    status,     \* of each vault: "None", "Open" or "Resolved"
    resolvedAt,
    board,      \* of each vault and side
    lanes,      \* of each token and vault; of a seed, its own vault only
    drips,      \* the Drips account of each token and seed
    streamed,   \* USDC delivered to each vault and side before its resolution
    calls       \* calls of the drivers so far, but for createVault

vars == <<now, status, resolvedAt, board, lanes, drips, streamed, calls>>

Held(l) == {[vault |-> v, side |-> l[v].side, rate |-> l[v].rate] : v \in {u \in Vaults : l[u].rate > 0}}

Init ==
    /\ now = 1
    /\ status = [v \in Vaults |-> "None"]
    /\ resolvedAt = [v \in Vaults |-> 0]
    /\ board = [v \in Vaults |-> [s \in Sides |-> NewBoard]]
    /\ lanes = [a \in Accounts |-> [v \in Vaults |-> NoLane]]
    /\ drips = [a \in Accounts |-> [balance |-> 0, updateTime |-> 0, maxEnd |-> 0, streams |-> {}]]
    /\ streamed = [v \in Vaults |-> [s \in Sides |-> 0]]
    /\ calls = 0

-----------------------------------------------------------------------------
(* The account in Drips.                                                   *)

TotalRate(streams) == SumFunction([c \in streams |-> c.rate])

\* Mutant: the streams are charged beyond the second they ran dry.
RemainingPastEnd(d) == d.balance - TotalRate(d.streams) * (now - d.updateTime)

Remaining(d) == d.balance - TotalRate(d.streams) * (Least(now, d.maxEnd) - d.updateTime)

\* setStreams reverts unless the driver repeats the list in force.
Configured(a, balance, l) ==
    [balance |-> balance,
     updateTime |-> now,
     maxEnd |-> IF balance = 0 \/ Held(l) = {} THEN now ELSE now + balance \div TotalRate(Held(l)),
     streams |-> Held(l)]

ListInForce(a) == drips[a].streams = Held(lanes[a])

Flows(a, v) == \E c \in drips[a].streams : c.vault = v /\ now < drips[a].maxEnd

-----------------------------------------------------------------------------
(* The hooks on one board, each catching it up first.                      *)

Cap(v) == IF status[v] = "Resolved" THEN Least(now, resolvedAt[v]) ELSE now

Hooked(b, v, a) == Settled(Advance(b, now, Cap(v), MaxSteps), a)

Stopped(b, v, a) ==
    LET c == Hooked(b, v, a)
    IN  IF Active(c, a) THEN Closed(c, a, Least(c.pos[a].maxEnd, Cap(v)), FALSE) ELSE c

\* The boards after a call of account a: `stops` are stopped, then `opens`
\* are funded at the rates of l, then `pegs` follow the new end.
Hooks(a, stops, opens, pegs, l, maxEnd) ==
    [v \in Vaults |-> [s \in Sides |->
        LET stop == IF <<v, s>> \in stops THEN Stopped(board[v][s], v, a) ELSE board[v][s]
            open == IF <<v, s>> \in opens
                    THEN Opened(Hooked(stop, v, a), a, l[v].rate, maxEnd, now) ELSE stop
        IN  IF <<v, s>> \in pegs THEN Repegged(Hooked(open, v, a), a, maxEnd) ELSE open]]

\* What makes a hook revert: a board too far behind, a vault that is not
\* open, a position that still streams.
HooksSucceed(a, stops, opens, pegs) ==
    /\ \A x \in stops \cup opens \cup pegs :
         LET b == board[x[1]][x[2]]
         IN  /\ CaughtUp(Advance(b, now, Cap(x[1]), MaxSteps), Cap(x[1]))
             /\ x \in opens \cup pegs => Len(b.queue) < MaxQueue
    /\ \A x \in opens :
         /\ status[x[1]] = "Open"
         /\ x \notin stops => Hooked(board[x[1]][x[2]], x[1], a).pos[a].rate = 0

Keys(l) == {<<c.vault, c.side>> : c \in Held(l)}

\* The vault closed the lane or will at its next catch-up: no money is left.
RanDry(a, v) ==
    LET p == board[v][lanes[a][v].side].pos[a]
    IN  p.depleted \/ (p.rate > 0 /\ p.maxEnd # 0 /\ p.maxEnd <= now)

\* Sibling lanes a call would set streaming again behind the vault's back.
Revives(a, v, maxEnd) ==
    maxEnd > now /\ \E c \in Held(lanes[a]) : c.vault # v /\ RanDry(a, c.vault)

Called == calls < MaxCalls /\ calls' = calls + 1

-----------------------------------------------------------------------------
(* MarketDriver.                                                           *)

fund(t, v, side, rate, deposit) ==
    LET l == [lanes[t] EXCEPT ![v] = [side |-> side, rate |-> rate]]
        d == Configured(t, Remaining(drips[t]) + deposit, l)
    IN  /\ now <= LastFund
        /\ status[v] # "None"
        /\ lanes[t][v].rate = 0
        /\ ListInForce(t)
        /\ d.balance <= MaxBalance
        /\ DryFunding \/ ~Revives(t, v, d.maxEnd)
        /\ HooksSucceed(t, {}, {<<v, side>>}, Keys(l))
        /\ lanes' = [lanes EXCEPT ![t] = l]
        /\ drips' = [drips EXCEPT ![t] = d]
        /\ board' = Hooks(t, {}, {<<v, side>>}, Keys(l) \ {<<v, side>>}, l, d.maxEnd)
        /\ Called
        /\ UNCHANGED <<now, status, resolvedAt, streamed>>

\* Mutant: the lanes that remain keep the end they had.
stopKeepsEnds(t, v) ==
    LET l == [lanes[t] EXCEPT ![v] = NoLane]
        d == Configured(t, Remaining(drips[t]), l)
    IN  /\ lanes[t][v].rate > 0
        /\ ListInForce(t)
        /\ DryFunding \/ ~Revives(t, v, d.maxEnd)
        /\ HooksSucceed(t, {<<v, lanes[t][v].side>>}, {}, Keys(l))
        /\ lanes' = [lanes EXCEPT ![t] = l]
        /\ drips' = [drips EXCEPT ![t] = d]
        /\ board' = Hooks(t, {<<v, lanes[t][v].side>>}, {}, {}, l, d.maxEnd)
        /\ Called
        /\ UNCHANGED <<now, status, resolvedAt, streamed>>

stop(t, v) ==
    LET l == [lanes[t] EXCEPT ![v] = NoLane]
        d == Configured(t, Remaining(drips[t]), l)
    IN  /\ lanes[t][v].rate > 0
        /\ ListInForce(t)
        /\ DryFunding \/ ~Revives(t, v, d.maxEnd)
        /\ HooksSucceed(t, {<<v, lanes[t][v].side>>}, {}, Keys(l))
        /\ lanes' = [lanes EXCEPT ![t] = l]
        /\ drips' = [drips EXCEPT ![t] = d]
        /\ board' = Hooks(t, {<<v, lanes[t][v].side>>}, {}, Keys(l), l, d.maxEnd)
        /\ Called
        /\ UNCHANGED <<now, status, resolvedAt, streamed>>

\* Mutant: a lane the vault has not closed yet is not opened anew.
ToOpenIfDepleted(t, l) ==
    {x \in Keys(l) : \/ l[x[1]] # lanes[t][x[1]]
                     \/ board[x[1]][x[2]].pos[t].depleted}

\* New and changed lanes, and lanes that ran dry, closed by the vault or not.
ToOpen(t, l) == {x \in Keys(l) : l[x[1]] # lanes[t][x[1]] \/ RanDry(t, x[1])}

setLanes(t, l, deposit) ==
    LET d == Configured(t, Remaining(drips[t]) + deposit, l)
        stops == Keys(lanes[t]) \ {x \in Keys(lanes[t]) : l[x[1]] = lanes[t][x[1]]}
        opens == ToOpen(t, l)
    IN  /\ now <= LastFund
        /\ \A x \in Keys(l) : status[x[1]] # "None"
        /\ ListInForce(t)
        /\ d.balance <= MaxBalance
        /\ HooksSucceed(t, stops, opens, Keys(l))
        /\ lanes' = [lanes EXCEPT ![t] = l]
        /\ drips' = [drips EXCEPT ![t] = d]
        /\ board' = Hooks(t, stops, opens, Keys(l), l, d.maxEnd)
        /\ Called
        /\ UNCHANGED <<now, status, resolvedAt, streamed>>

\* Stops everything an account holds and pays its balance out.
Emptied(a) ==
    LET none == [v \in Vaults |-> NoLane]
    IN  /\ ListInForce(a)
        /\ HooksSucceed(a, Keys(lanes[a]), {}, {})
        /\ lanes' = [lanes EXCEPT ![a] = none]
        /\ drips' = [drips EXCEPT ![a] = Configured(a, 0, none)]
        /\ board' = Hooks(a, Keys(lanes[a]), {}, {}, none, now)
        /\ Called
        /\ UNCHANGED <<now, status, resolvedAt, streamed>>

stopAll(t) == drips[t].updateTime > 0 /\ Emptied(t)

-----------------------------------------------------------------------------
(* VaultDriver: a vault is created with a seed its creator may stop.       *)

createVault(v, side, rate, deposit) ==
    LET a == SeedAccount[v]
        l == [lanes[a] EXCEPT ![v] = [side |-> side, rate |-> rate]]
        d == Configured(a, deposit, l)
    IN  /\ now <= LastCreate
        /\ status[v] = "None"
        /\ status' = [status EXCEPT ![v] = "Open"]
        /\ lanes' = [lanes EXCEPT ![a] = l]
        /\ drips' = [drips EXCEPT ![a] = d]
        /\ board' = Hooks(a, {}, {<<v, side>>}, {}, l, d.maxEnd)
        /\ UNCHANGED <<now, resolvedAt, streamed, calls>>

stopSeed(v) == lanes[SeedAccount[v]][v].rate > 0 /\ Emptied(SeedAccount[v])

-----------------------------------------------------------------------------
(* The vaults, and time.                                                   *)

\* By anybody.  Bound: n; a larger budget does what repeated calls do.
advance(v, s, n) ==
    /\ board' = [board EXCEPT ![v][s] = Advance(@, now, Cap(v), n)]
    /\ UNCHANGED <<now, status, resolvedAt, lanes, drips, streamed, calls>>

resolve(v) ==
    /\ status[v] = "Open"
    /\ status' = [status EXCEPT ![v] = "Resolved"]
    /\ resolvedAt' = [resolvedAt EXCEPT ![v] = now]
    /\ UNCHANGED <<now, board, lanes, drips, streamed, calls>>

Tick ==
    /\ now < MaxTime
    /\ now' = now + 1
    /\ streamed' = [v \in Vaults |-> [s \in Sides |-> streamed[v][s] +
         IF status[v] # "Open" THEN 0
         ELSE SumFunction([a \in Accounts |->
                IF now < drips[a].maxEnd
                THEN TotalRate({c \in drips[a].streams : c.vault = v /\ c.side = s}) ELSE 0])]]
    /\ UNCHANGED <<status, resolvedAt, board, lanes, drips, calls>>

LaneSets == {l \in [Vaults -> UNION {Wanted[v] \cup {NoLane} : v \in Vaults}] :
               \A v \in Vaults : l[v] \in Wanted[v] \cup {NoLane}}

Next ==
    \/ \E t \in Tokens :
         \/ \E v \in Vaults : \E c \in Wanted[v], deposit \in Deposits :
              fund(t, v, c.side, c.rate, deposit)
         \/ \E v \in Vaults : stop(t, v)
         \/ \E l \in LaneSets, deposit \in Deposits \cup {0} : setLanes(t, l, deposit)
         \/ stopAll(t)
    \/ \E v \in Vaults :
         \/ \E c \in Offers[v] : createVault(v, c.side, c.rate, c.deposit)
         \/ stopSeed(v)
    \/ \E v \in Watched :
         \/ resolve(v)
         \/ \E s \in Sides, n \in 1..MaxSteps : advance(v, s, n)
    \/ Tick

Spec == Init /\ [][Next]_vars
-----------------------------------------------------------------------------
(* Properties.                                                             *)

\* The shape of the drivers' storage; Drips always holds the driver's lanes,
\* without which every later call of the account would revert.
TypeOK ==
    /\ now \in 1..MaxTime
    /\ status \in [Vaults -> {"None", "Open", "Resolved"}]
    /\ resolvedAt \in [Vaults -> 0..MaxTime]
    /\ lanes \in [Accounts -> [Vaults -> Lane]]
    /\ \A a \in Accounts :
         /\ drips[a].balance \in 0..MaxBalance
         /\ drips[a].updateTime \in 0..now
         /\ drips[a].maxEnd \in Nat
         /\ ListInForce(a)
    /\ streamed \in [Vaults -> [Sides -> Nat]]
    /\ calls \in 0..MaxCalls

\* I1 over all lanes (Vault.sol, the comment on collect: pool == delivered):
\* whatever sibling lanes do to the shared balance, the pool of each side,
\* with what its active positions add up to the accrual cap, is exactly what
\* Drips delivered to it before resolution.
PoolIsStreamed == \A v \in Vaults, s \in Sides :
    LET b == board[v][s]
        unbooked == [a \in Accounts |->
                       IF Active(b, a)
                       THEN b.pos[a].rate * (Least(b.pos[a].maxEnd, Cap(v)) - b.last) ELSE 0]
    IN  b.pool + SumFunction(unbooked) = streamed[v][s]

\* The boards follow Drips: in an open vault a position accrues now exactly
\* when its stream flows now, at the lane's rate and until Drips' own end.
BoardsFollowDrips == \A v \in Vaults, s \in Sides, a \in Accounts :
    LET p == board[v][s].pos[a]
    IN  status[v] = "Open" =>
          (IF Active(board[v][s], a) /\ p.maxEnd > now
           THEN /\ [vault |-> v, side |-> s, rate |-> p.rate] \in drips[a].streams
                /\ p.maxEnd = drips[a].maxEnd
           ELSE ~ (lanes[a][v].side = s /\ Flows(a, v)))

=============================================================================
