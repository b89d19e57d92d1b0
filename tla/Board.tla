-------------------------------- MODULE Board --------------------------------
(***************************************************************************)
(* One side of a vault: the curve, the share index and the queue of        *)
(* depletion boundaries (Vault.sol and BondingBoard.sol).  Every operator  *)
(* is a function from a board to a board, as the internal functions of the *)
(* contract are; Vault.tla makes actions of them.                          *)
(*                                                                         *)
(* A board is a record                                                     *)
(*   pool, sideRate, g, last, shares  the struct Board (last = lastAdvance,*)
(*                                    0 while the side was never touched)  *)
(*   pos                              the struct Position of each account  *)
(*   queue                            _boundaries from _boundaryHead on:   *)
(*                                    head++ is Tail, the processed prefix *)
(*                                    is never read again                  *)
(***************************************************************************)
EXTENDS Integers, Sequences, FiniteSets

CONSTANTS
    Accounts,   \* the token ids that fund this side
    BasePrice,  \* BASE_PRICE
    CurveK,     \* CURVE_K
    Scale       \* SHARE_SCALE * WAD: what a share is counted in

ASSUME BoardAssumption ==
    /\ IsFiniteSet(Accounts)
    /\ BasePrice \in Nat \ {0}
    /\ CurveK \in Nat \ {0}
    /\ Scale \in Nat \ {0}

Boundaries == [maxEnd : Nat, account : Accounts]

Positions == [rate : Nat, gPaid : Nat, accrued : Nat, maxEnd : Nat,
              depleted : BOOLEAN, fundStart : Nat, lost : Nat]

NoPosition == [rate |-> 0, gPaid |-> 0, accrued |-> 0, maxEnd |-> 0,
               depleted |-> FALSE, fundStart |-> 0, lost |-> 0]

NewBoard == [pool |-> 0, sideRate |-> 0, g |-> 0, last |-> 0, shares |-> 0,
             pos |-> [a \in Accounts |-> NoPosition], queue |-> << >>]

Least(x, y) == IF x < y THEN x ELSE y

-----------------------------------------------------------------------------
(* The curve.                                                              *)

Price(pool) == BasePrice + (BasePrice * pool) \div CurveK

\* ln(p1/p0) is abstracted to its first Pade approximant 2(p1-p0)/(p1+p0):
\* zero exactly when the prices agree, increasing in p1, rounded down.
IndexGain(pool, newPool, rate) ==
    LET p0 == Price(pool)
        p1 == Price(newPool)
    IN  (2 * Scale * (p1 - p0)) \div ((p1 + p0) * rate)

\* sideRate flows into the pool from t0 to t1.
Segment(b, t0, t1) ==
    IF t1 <= t0 \/ b.sideRate = 0 THEN b
    ELSE LET newPool == b.pool + b.sideRate * (t1 - t0)
             dG == IndexGain(b.pool, newPool, b.sideRate)
         IN  [b EXCEPT !.pool = newPool,
                       !.g = @ + dG,
                       !.shares = @ + b.sideRate * dG]

\* The board at t, if no rate drops before.
Moved(b, t) == [Segment(b, b.last, t) EXCEPT !.last = t]

-----------------------------------------------------------------------------
(* Positions.                                                              *)

Active(b, a) == b.pos[a].rate > 0 /\ ~b.pos[a].depleted

\* Mutant: gPaid is not moved, so the next settle credits the same tail again.
SettledTwice(b, a) ==
    [b EXCEPT !.pos[a].accrued = @ + b.pos[a].rate * (b.g - b.pos[a].gPaid)]

Settled(b, a) ==
    [b EXCEPT !.pos[a].accrued = @ + b.pos[a].rate * (b.g - b.pos[a].gPaid),
              !.pos[a].gPaid = b.g]

\* What a stream that ended at `end` put into the side.
Streamed(p, end) == IF end > p.fundStart THEN p.rate * (end - p.fundStart) ELSE 0

\* Mutants: the position keeps its rate; only stops leave the side's rate.
ClosedKeepsRate(b, a, end, dry) ==
    [b EXCEPT !.pos[a].lost = @ + Streamed(b.pos[a], end),
              !.pos[a].depleted = @ \/ dry,
              !.sideRate = @ - b.pos[a].rate]

ClosedKeepsSideRate(b, a, end, dry) ==
    [b EXCEPT !.pos[a].lost = @ + Streamed(b.pos[a], end),
              !.pos[a].rate = 0,
              !.pos[a].depleted = @ \/ dry,
              !.sideRate = IF dry THEN @ ELSE @ - b.pos[a].rate]

\* The position leaves the rate and banks its loss basis up to `end`.
Closed(b, a, end, dry) ==
    [b EXCEPT !.pos[a].lost = @ + Streamed(b.pos[a], end),
              !.pos[a].rate = 0,
              !.pos[a].depleted = @ \/ dry,
              !.sideRate = @ - b.pos[a].rate]

-----------------------------------------------------------------------------
(* Catching up.  In the loop b.last plays the local variable t.            *)

\* Mutant: a boundary left behind by a re-peg closes the stream too.
ValidIfActive(b, e) == Active(b, e.account)

\* Valid depletion: the account is still active with exactly this maxEnd.
Valid(b, e) == Active(b, e.account) /\ b.pos[e.account].maxEnd = e.maxEnd

DueAt(b, cap) == b.queue # << >> /\ Head(b.queue).maxEnd <= cap

\* Mutant: the rate drops before the last shares are settled.
DepletedUnsettled(b, e) == Closed(Moved(b, e.maxEnd), e.account, e.maxEnd, TRUE)

Depleted(b, e) ==
    Closed(Settled(Moved(b, e.maxEnd), e.account), e.account, e.maxEnd, TRUE)

\* One turn of the loop; a board with nothing due stays as it is.
Turn(b, cap) ==
    IF ~DueAt(b, cap) THEN b
    ELSE LET e == Head(b.queue)
         IN  [IF Valid(b, e) THEN Depleted(b, e) ELSE b EXCEPT !.queue = Tail(@)]

\* The one board n turns lead to, as a singleton set: TLC binds its member to
\* a value once instead of re-evaluating the whole run at every mention.
Turns(b, cap, n) ==
    LET run[k \in 0..n] == IF k = 0 THEN {b} ELSE {Turn(c, cap) : c \in run[k-1]}
    IN  run[n]

\* Mutant: a budget-limited run finishes to the cap with boundaries still due.
FinishPastDue(b, cap) ==
    IF b.last >= cap THEN b ELSE Moved(b, cap)

Finish(b, cap) == IF DueAt(b, cap) \/ b.last >= cap THEN b ELSE Moved(b, cap)

Advance(b, now, cap, n) ==
    IF b.last = 0 THEN [b EXCEPT !.last = now]
    ELSE CHOOSE done \in {Finish(c, cap) : c \in Turns(b, cap, n)} : TRUE

\* maxSteps = type(uint256).max
AdvanceAll(b, now, cap) == Advance(b, now, cap, Len(b.queue))

CaughtUp(b, cap) == b.last = 0 \/ b.last = cap

\* Sorted insert behind every boundary that is not later.
Scheduled(b, maxEnd, a) ==
    LET before == {i \in DOMAIN b.queue : b.queue[i].maxEnd <= maxEnd}
        at == CHOOSE i \in 0..Len(b.queue) :
                 /\ i = 0 \/ i \in before
                 /\ \A j \in before : j <= i
    IN  [b EXCEPT !.queue = [i \in 1..Len(b.queue) + 1 |->
            IF i <= at THEN b.queue[i]
            ELSE IF i = at + 1 THEN [maxEnd |-> maxEnd, account |-> a]
            ELSE b.queue[i - 1]]]

-----------------------------------------------------------------------------
(* What the hooks do to a board that was caught up and settled.            *)

\* Mutant: a re-funded lane keeps the start of its previous stream.
OpenedKeepsStart(b, a, rate, maxEnd, now) ==
    Scheduled([b EXCEPT !.pos[a] = [@ EXCEPT !.rate = rate,
                                             !.gPaid = b.g,
                                             !.maxEnd = maxEnd,
                                             !.depleted = FALSE,
                                             !.fundStart = IF @ = 0 THEN now ELSE @],
                        !.sideRate = @ + rate], maxEnd, a)

Opened(b, a, rate, maxEnd, now) ==
    Scheduled([b EXCEPT !.pos[a] = [@ EXCEPT !.rate = rate,
                                             !.gPaid = b.g,
                                             !.maxEnd = maxEnd,
                                             !.depleted = FALSE,
                                             !.fundStart = now],
                        !.sideRate = @ + rate], maxEnd, a)

\* An active lane follows the end its account's streams have now.
Repegged(b, a, maxEnd) ==
    IF Active(b, a) /\ b.pos[a].maxEnd # maxEnd
    THEN Scheduled([b EXCEPT !.pos[a].maxEnd = maxEnd], maxEnd, a)
    ELSE b

-----------------------------------------------------------------------------
(* The preview of the view functions: the same walk, but nothing is banked *)
(* and no position leaves the board.  Checked arithmetic: once the local   *)
(* rate would go below zero the call reverts.                              *)

Reverts == -1

Grown(w, t1) ==
    IF w.rate <= 0 \/ t1 <= w.t THEN w
    ELSE LET newPool == w.pool + w.rate * (t1 - w.t)
         IN  [w EXCEPT !.pool = newPool,
                       !.g = @ + IndexGain(w.pool, newPool, w.rate)]

\* Mutant: the preview does not walk the queue.
PreviewUnwalked(b, at) == IF b.last = 0 THEN b.g ELSE Grown([pool |-> b.pool,
    rate |-> b.sideRate, g |-> b.g, t |-> b.last], at).g

PreviewIndex(b, at) ==
    LET n == Len(b.queue)
        walk[k \in 0..n] ==
            IF k = 0 THEN [pool |-> b.pool, rate |-> b.sideRate, g |-> b.g, t |-> b.last]
            ELSE LET w == walk[k-1]
                     e == b.queue[k]
                 IN  IF e.maxEnd > at \/ ~Valid(b, e) THEN w
                     ELSE [Grown(w, e.maxEnd) EXCEPT !.rate = @ - b.pos[e.account].rate,
                                                     !.t = e.maxEnd]
    IN  CASE b.last = 0 -> b.g
          [] b.last # 0 /\ walk[n].rate < 0 -> Reverts
          [] OTHER -> Grown(walk[n], at).g

PendingShares(b, a, cap) ==
    LET p == b.pos[a]
        at == IF ~p.depleted /\ p.maxEnd # 0 THEN Least(p.maxEnd, cap) ELSE cap
        g == PreviewIndex(b, at)
    IN  IF g = Reverts THEN Reverts ELSE p.accrued + p.rate * (g - p.gPaid)
=============================================================================
