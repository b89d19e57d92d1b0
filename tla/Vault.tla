-------------------------------- MODULE Vault --------------------------------
(***************************************************************************)
(* One prediction vault (Vault.sol): two boards, the outcome, the pot and  *)
(* what winners and over-streamers are paid.  Every action is one external *)
(* call, atomic as an EVM transaction is; a call that reverts changes      *)
(* nothing and is a disabled action.                                       *)
(*                                                                         *)
(* The callers are the funding drivers: they pass the rate of the stream   *)
(* they opened in Drips and the second at which it runs dry (maxEnd).      *)
(* What the streams really deliver is kept beside the contract's state, in *)
(* `streamed` and `overstreamed`, counted second by second in Tick.        *)
(***************************************************************************)
EXTENDS Board, Functions

CONSTANTS
    Rates,          \* bound: the rates each account chooses from
    Horizon,        \* bound: how far ahead a stream is funded
    MaxTime,        \* bound: the last second of a behaviour
    LastFund,       \* bound: the last second at which a stream is opened
    LastResolve,    \* bound: the last second at which a vault is resolved
    MaxQueue,       \* bound: boundaries queued on a side
    Funders,        \* bound: which accounts fund which side
    MaxSteps,       \* MAX_STEPS
    CycleSecs,      \* CYCLE_SECS of DripsStreaming
    HasTreasury,    \* treasury # address(0)
    SkimPercent,    \* treasury.skimBps() / 100
    DryRepeg        \* do siblings top up a lane that ran dry after resolution?

Sides == {"Yes", "No"}
Other(s) == CHOOSE o \in Sides : o # s

ASSUME VaultAssumption ==
    /\ Rates \in [Accounts -> SUBSET (Nat \ {0})]
    /\ Horizon \in Nat
    /\ MaxTime \in Nat
    /\ LastFund \in Nat
    /\ LastResolve \in Nat
    /\ MaxQueue \in Nat
    /\ Funders \in [Sides -> SUBSET Accounts]
    /\ MaxSteps \in Nat \ {0}
    /\ CycleSecs \in Nat \ {0, 1}
    /\ HasTreasury \in BOOLEAN
    /\ SkimPercent \in 0..100
    /\ DryRepeg \in BOOLEAN

VARIABLES
    now,            \* block.timestamp; 0 is never a timestamp
    outcome,        \* "Pending" while the status is Open
    resolvedAt,
    board,          \* _boards, _positions, _boundaries of each side
    collected, pot, skimOwed,
    claimed,        \* the <<side, account>> that were paid their winnings
    overageOwed, overagePaid,
    \* what happened outside the contract
    streamed,       \* USDC each stream delivered before resolution
    overstreamed,   \* USDC each stream delivered after it
    earned,         \* shares each account had earned when this second began
    won,            \* winnings paid to each account
    overage,        \* overage paid to each account
    skimmed         \* sent to the treasury

settlement == <<collected, pot, skimOwed, claimed, overagePaid, won, overage, skimmed>>
truth == <<streamed, overstreamed, earned>>
vars == <<now, outcome, resolvedAt, board, overageOwed, settlement, truth>>

Resolved == outcome # "Pending"

\* Mutant: boards accrue on after resolution.
CapIgnoresResolution == now

\* Accrual stops at resolution.
Cap == IF Resolved THEN Least(now, resolvedAt) ELSE now

PerPosition(S) == [Sides -> [Accounts -> S]]
Nought == [s \in Sides |-> [a \in Accounts |-> 0]]

Init ==
    /\ now = 1
    /\ outcome = "Pending"
    /\ resolvedAt = 0
    /\ board = [s \in Sides |-> NewBoard]
    /\ collected = FALSE
    /\ pot = 0
    /\ skimOwed = 0
    /\ claimed = {}
    /\ overageOwed = Nought
    /\ overagePaid = Nought
    /\ streamed = Nought
    /\ overstreamed = Nought
    /\ earned = Nought
    /\ won = Nought
    /\ overage = Nought
    /\ skimmed = 0

-----------------------------------------------------------------------------
(* The funding hooks.  _advanceToNow followed by _settle; the hook reverts *)
(* when MaxSteps turns leave the board behind.                             *)

AdvanceToNow(s) == Advance(board[s], now, Cap, MaxSteps)

\* Mutant: a hook does not require that it caught the board up.
CurrentNotRequired(s) == s \in Sides

Current(s) == CaughtUp(AdvanceToNow(s), Cap)

onFund(s, a, rate, maxEnd) ==
    /\ ~Resolved
    /\ now <= LastFund
    /\ Current(s)
    /\ Len(board[s].queue) < MaxQueue
    /\ \E b \in {Settled(AdvanceToNow(s), a)} :
         /\ b.pos[a].rate = 0
         /\ board' = [board EXCEPT ![s] = Opened(b, a, rate, maxEnd, now)]
    /\ UNCHANGED <<now, outcome, resolvedAt, overageOwed, settlement, truth>>

\* The drivers stop a lane they opened before: fundStart is set.
onStop(s, a) ==
    /\ board[s].pos[a].fundStart > 0
    /\ Current(s)
    /\ \E b \in {Settled(AdvanceToNow(s), a)} :
       LET p == b.pos[a]
           end == Least(p.maxEnd, now)
           lossEnd == IF Resolved THEN Least(end, resolvedAt) ELSE end
       IN  IF Active(b, a)
           THEN /\ board' = [board EXCEPT ![s] = Closed(b, a, lossEnd, FALSE)]
                /\ overageOwed' =
                     IF Resolved /\ end > resolvedAt
                     THEN [overageOwed EXCEPT ![s][a] = @ + p.rate * (end - resolvedAt)]
                     ELSE overageOwed
           ELSE /\ board' = [board EXCEPT ![s] = b]
                /\ UNCHANGED overageOwed
    /\ UNCHANGED <<now, outcome, resolvedAt, settlement, truth>>

\* A stream that ran dry after resolution is still active on its frozen board.
RanDry(s, a) == Active(board[s], a) /\ board[s].pos[a].maxEnd <= now

refreshMaxEnds(a, lanes, maxEnd) ==
    /\ \A s \in lanes : board[s].pos[a].fundStart > 0 /\ Current(s) /\ Len(board[s].queue) < MaxQueue
    /\ DryRepeg \/ ~Resolved \/ \A s \in lanes : ~RanDry(s, a)
    /\ board' = [s \in Sides |->
                   IF s \in lanes
                   THEN Repegged(Settled(AdvanceToNow(s), a), a, maxEnd)
                   ELSE board[s]]
    /\ UNCHANGED <<now, outcome, resolvedAt, overageOwed, settlement, truth>>

-----------------------------------------------------------------------------
(* The permissionless pokes.                                               *)

advance(s, n) ==
    /\ board' = [board EXCEPT ![s] = Advance(@, now, Cap, n)]
    /\ UNCHANGED <<now, outcome, resolvedAt, overageOwed, settlement, truth>>

\* Unlike the hooks it settles a board that may still be behind.
settle(s, a) ==
    /\ board' = [board EXCEPT ![s] = Settled(AdvanceToNow(s), a)]
    /\ UNCHANGED <<now, outcome, resolvedAt, overageOwed, settlement, truth>>

-----------------------------------------------------------------------------
(* Resolution and payment.                                                 *)

resolve(side) ==
    /\ ~Resolved
    /\ now <= LastResolve
    /\ outcome' = side
    /\ resolvedAt' = now
    /\ UNCHANGED <<now, board, overageOwed, settlement, truth>>

\* Mutant: collect and withdraw catch up by at most MaxSteps boundaries.
BoundedCatchUp == [s \in Sides |-> AdvanceToNow(s)]

CaughtUpBoards == [s \in Sides |-> AdvanceAll(board[s], now, Cap)]

Skim(losePool) == IF HasTreasury THEN (losePool * SkimPercent) \div 100 ELSE 0

\* With nobody to share it the whole pot goes to the treasury.
FinalSkim(boards) ==
    LET win == boards[outcome]
        lose == boards[Other(outcome)]
    IN  IF win.shares = 0 /\ HasTreasury THEN win.pool + lose.pool ELSE Skim(lose.pool)

\* `cash`: does the Vault's balance, after both harvests, cover the skim?
collect(cash) ==
    /\ Resolved
    /\ \E boards \in {CaughtUpBoards} :
       LET owed == IF collected THEN skimOwed ELSE FinalSkim(boards)
       IN  /\ board' = boards
           /\ pot' = IF collected THEN pot ELSE boards["Yes"].pool + boards["No"].pool - owed
           /\ skimOwed' = IF cash THEN 0 ELSE owed
           /\ skimmed' = IF cash THEN skimmed + owed ELSE skimmed
    /\ collected' = TRUE
    /\ UNCHANGED <<now, outcome, resolvedAt, claimed, overageOwed, overagePaid,
                   won, overage, truth>>

\* Mutant: the gate is computed from the current second.
ReadyAtMoves == ((now + CycleSecs) \div CycleSecs) * CycleSecs

ReadyAt == ((resolvedAt + CycleSecs - 1) \div CycleSecs) * CycleSecs

\* Mutant: a claim is not remembered.
PayoutAgain(b, a) ==
    IF b.shares = 0 THEN 0 ELSE (pot * Settled(b, a).pos[a].accrued) \div b.shares

\* _payWinnings pays the winning side only, and once.
Payout(b, a) ==
    IF b.shares = 0 \/ <<outcome, a>> \in claimed THEN 0
    ELSE (pot * Settled(b, a).pos[a].accrued) \div b.shares

\* Mutant: over-streaming is measured to now, past the run-dry second.
OveragePastDry(s, p, a) ==
    IF p.rate = 0 THEN overageOwed[s][a]
    ELSE IF now > resolvedAt THEN p.rate * (now - resolvedAt) ELSE 0

\* What a stream that is still open, or was stopped, delivered since resolution.
OverageEntitlement(s, p, a) ==
    LET end == Least(p.maxEnd, now)
    IN  IF p.rate = 0 THEN overageOwed[s][a]
        ELSE IF end > resolvedAt THEN p.rate * (end - resolvedAt) ELSE 0

withdraw(a) ==
    /\ Resolved
    /\ collected
    /\ now >= ReadyAt
    /\ \E boards \in {CaughtUpBoards} :
       LET payout == Payout(boards[outcome], a)
           owed == [s \in Sides |-> OverageEntitlement(s, boards[s].pos[a], a)]
           due == {s \in Sides : owed[s] > overagePaid[s][a]}
           At(f, g) == [s \in Sides |-> IF s \in due THEN [f[s] EXCEPT ![a] = g[s]] ELSE f[s]]
       IN  /\ board' = [boards EXCEPT ![outcome] =
                          IF <<outcome, a>> \in claimed THEN @ ELSE Settled(@, a)]
           /\ claimed' = IF payout > 0 THEN claimed \cup {<<outcome, a>>} ELSE claimed
           /\ won' = [won EXCEPT ![outcome][a] = @ + payout]
           /\ overagePaid' = At(overagePaid, owed)
           /\ overage' = At(overage, [s \in Sides |->
                                        overage[s][a] + owed[s] - overagePaid[s][a]])
           /\ overageOwed' = At(overageOwed, [s \in Sides |->
                                IF boards[s].pos[a].rate = 0 THEN 0 ELSE overageOwed[s][a]])
    /\ UNCHANGED <<now, outcome, resolvedAt, collected, pot, skimOwed, skimmed, truth>>

-----------------------------------------------------------------------------
(* A second passes: every stream that has not run dry delivers its rate.   *)

Flows(s, a) == board[s].pos[a].rate > 0 /\ now < board[s].pos[a].maxEnd

Delivered(account) == [s \in Sides |-> [a \in Accounts |->
    account[s][a] + IF Flows(s, a) THEN board[s].pos[a].rate ELSE 0]]

\* What each account would be credited by a full catch-up and a settle at t.
Credits(t, cap) == [s \in Sides |-> [a \in Accounts |->
    Settled(AdvanceAll(board[s], t, cap), a).pos[a].accrued]]

Tick ==
    /\ now < MaxTime
    /\ now' = now + 1
    /\ IF Resolved THEN /\ overstreamed' = Delivered(overstreamed)
                        /\ UNCHANGED streamed
                   ELSE /\ streamed' = Delivered(streamed)
                        /\ UNCHANGED overstreamed
    /\ earned' = Credits(now + 1, IF Resolved THEN Cap ELSE now + 1)
    /\ UNCHANGED <<outcome, resolvedAt, board, overageOwed, settlement>>

FundedSides == {s \in Sides : Funders[s] # {}}

Next ==
    \/ \E s \in Sides : \E a \in Funders[s] :
         \/ \E rate \in Rates[a], maxEnd \in now..now + Horizon : onFund(s, a, rate, maxEnd)
         \/ onStop(s, a)
         \/ settle(s, a)
    \/ \E a \in Accounts, lanes \in (SUBSET Sides) \ {{}}, maxEnd \in now..now + Horizon :
         refreshMaxEnds(a, lanes, maxEnd)
    \/ \E s \in FundedSides, n \in 1..MaxSteps : advance(s, n)
    \/ \E side \in Sides : resolve(side)
    \/ \E cash \in BOOLEAN : collect(cash)
    \/ \E a \in Accounts : withdraw(a)
    \/ Tick

Spec == Init /\ [][Next]_vars
-----------------------------------------------------------------------------
(* Properties.                                                             *)

\* The shape of the contract's storage, a clock that starts at one, and no board
\* with boundaries to come ahead of the second accrual stops at (nowTs of _advance).
TypeOK ==
    /\ now \in Nat \ {0}
    /\ outcome \in Sides \cup {"Pending"}
    /\ resolvedAt \in Nat
    /\ \A s \in Sides :
         /\ DOMAIN board[s] = DOMAIN NewBoard
         /\ \A f \in {"pool", "sideRate", "g", "last", "shares"} : board[s][f] \in Nat
         /\ board[s].pos \in [Accounts -> Positions]
         /\ board[s].queue \in Seq(Boundaries)
         /\ board[s].queue # << >> => board[s].last <= Cap
    /\ collected \in BOOLEAN
    /\ pot \in Nat /\ skimOwed \in Nat /\ skimmed \in Nat
    /\ claimed \subseteq Sides \X Accounts
    /\ {overageOwed, overagePaid, streamed, overstreamed, earned, won, overage} \subseteq PerPosition(Nat)

\* The board never moves past a rate drop it has not applied (Vault.sol, the
\* comment on moreDue in _advance and on _advanceToNow): sideRate is the sum of
\* the rates still streaming, none of them past its run-dry second at
\* lastAdvance, and the boundary that will close each is still queued, in an
\* ordered queue.
NeverPastDrop == \A s \in Sides :
    LET b == board[s]
    IN  /\ b.sideRate = SumFunction([a \in Accounts |-> b.pos[a].rate])
        /\ \A i, j \in DOMAIN b.queue : i <= j => b.queue[i].maxEnd <= b.queue[j].maxEnd
        /\ \A a \in Accounts : Active(b, a) =>
             /\ b.pos[a].fundStart <= b.last
             /\ b.last <= b.pos[a].maxEnd
             /\ \E i \in DOMAIN b.queue : b.queue[i] = [maxEnd |-> b.pos[a].maxEnd, account |-> a]

\* I1, pool == delivered (Vault.sol, the comment on collect): the pool plus
\* what the active streams add between lastAdvance and the accrual cap is
\* what the streams delivered before resolution, however late and in however
\* many bounded pokes the board is caught up.
PoolIsDelivered == \A s \in Sides :
    LET b == board[s]
        unbooked == [a \in Accounts |->
          IF Active(b, a) THEN b.pos[a].rate * (Least(b.pos[a].maxEnd, Cap) - b.last) ELSE 0]
    IN  b.pool + SumFunction(unbooked) = SumFunction(streamed[s])

\* The loss basis LVST is minted against (_lossUsdc) is, for each account and
\* through any number of stops, re-fundings and run-dry ends, what its own
\* streams delivered.
LossUsdc(s, a) ==
    LET p == board[s].pos[a]
    IN  p.lost + IF p.rate > 0 THEN Streamed(p, Least(p.maxEnd, Cap)) ELSE 0

LossIsDelivered == \A s \in Sides, a \in Accounts : LossUsdc(s, a) = streamed[s][a]

\* The payout denominator is exactly the shares held: settled ones and the
\* unsettled tail of every position (Board.sideShares).
SharesConserved == \A s \in Sides :
    LET b == board[s]
    IN  b.shares = SumFunction([a \in Accounts |->
                     b.pos[a].accrued + b.pos[a].rate * (b.g - b.pos[a].gPaid)])

\* Once collected, the pot and the skim together are exactly what both sides
\* delivered up to resolution, whatever the order of collects and stops.
PotIsDelivered ==
    collected =>
        pot + skimOwed + skimmed = SumFunction(streamed["Yes"]) + SumFunction(streamed["No"])

\* What winners were paid and can still claim never exceeds the pot, and only
\* rounding dust, less than one unit for each winner, stays behind.
Claimable(a) == IF collected THEN Payout(CaughtUpBoards[outcome], a) ELSE 0

WinnersShareThePot ==
    collected =>
        LET total == SumFunction([a \in Accounts |-> won[outcome][a] + Claimable(a)])
        IN  /\ total <= pot
            /\ pot > 0 => pot - total < Cardinality(Accounts)

\* USDC a stream paid in after resolution is refunded once: the overage paid
\* to an account is never more than its stream delivered after resolution
\* (Vault.sol, the comment in onStop).
OverageIsStreamed == \A s \in Sides, a \in Accounts : overage[s][a] <= overstreamed[s][a]

\* Two boundaries of one account in the same second are still to come.
Twins(b) == \E i, j \in DOMAIN b.queue : i # j /\ b.queue[i] = b.queue[j]

\* pendingShares, which walks the queue without closing anything, is what a
\* settle would credit now (Vault.sol, the comment on pendingShares: same math
\* as settle, view-parity), on a board that may be behind or over, as long as
\* no account has two boundaries of the same second in the queue.
PreviewAgrees == \A s \in Sides, a \in Accounts :
    ~Twins(board[s]) => PendingShares(board[s], a, Cap) = earned[s][a]

\* Shares accrue with time only: no call, by anybody and in any order within
\* a second, changes the shares any account had earned when it began, be they
\* settled, pending on a board that is behind, or banked by a stop.
OnlyTimeEarns == Credits(now, Cap) = earned

\* From the first collect on the settlement's inputs are final: pot, pools,
\* denominators and everybody's shares never move again, while funders go on
\* stopping, re-pegging and over-streaming.
SettlementIsFinal ==
    [][collected =>
         /\ pot' = pot
         /\ earned' = earned
         /\ \A s \in Sides : board'[s].pool = board[s].pool /\ board'[s].shares = board[s].shares]_vars

\* While more boundaries are overdue than one hook may process, none is queued:
\* within a second the queue only loses its head (Vault.sol, the comment on
\* _advanceToNow: no new boundary can be queued while behind).
Backlog(s) == Cardinality({i \in DOMAIN board[s].queue : board[s].queue[i].maxEnd < Cap})

BacklogShrinks ==
    [][\A s \in Sides : now' = now /\ Backlog(s) > MaxSteps =>
         \E k \in 1..Len(board[s].queue) + 1 :
            board'[s].queue = SubSeq(board[s].queue, k, Len(board[s].queue))]_vars

-----------------------------------------------------------------------------
(* Fairness: time passes, anyone may collect, and a winner withdraws.      *)

Fairness ==
    /\ WF_vars(Tick)
    /\ WF_vars(~collected /\ collect(FALSE))
    /\ \A a \in Accounts : WF_vars(withdraw(a))

FairSpec == Spec /\ Fairness

\* A resolved vault ends up paid: no interleaving of late stops, re-pegs and
\* pokes strands a winner's share behind the readiness gate or a backlog.
WinnersArePaid ==
    Resolved ~> collected /\ \A a \in Accounts : Claimable(a) = 0
=============================================================================
