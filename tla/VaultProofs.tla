----------------------------- MODULE VaultProofs -----------------------------
(***************************************************************************)
(* The safety of a prediction vault for any accounts, curve, rates, bounds *)
(* and budget of steps: what the boards keep through every call, and what  *)
(* follows for the money; then what the pot of a resolved vault is, who    *)
(* shares it and what is refunded.                                         *)
(***************************************************************************)
EXTENDS Vault, BoardProofs

-----------------------------------------------------------------------------
(* The inductive invariant of the accounting.                              *)

ClockOK ==
    /\ now \in Nat \ {0}
    /\ outcome \in Sides \cup {"Pending"}
    /\ resolvedAt \in Nat
    /\ resolvedAt <= now

LedgerOK ==
    /\ collected \in BOOLEAN
    /\ pot \in Nat /\ skimOwed \in Nat /\ skimmed \in Nat
    /\ claimed \subseteq Sides \X Accounts
    /\ overageOwed \in PerPosition(Nat) /\ overagePaid \in PerPosition(Nat)
    /\ streamed \in PerPosition(Nat) /\ overstreamed \in PerPosition(Nat)
    /\ earned \in PerPosition(Nat) /\ won \in PerPosition(Nat) /\ overage \in PerPosition(Nat)

BoardsOK ==
    /\ board \in [Sides -> BoardRecords]
    /\ \A s \in Sides : Good(board[s]) /\ Within(board[s], Cap)

LossExact == \A s \in Sides, a \in Accounts : Loss(board[s], a, Cap) = streamed[s][a]

Core == ClockOK /\ LedgerOK /\ BoardsOK /\ LossExact

-----------------------------------------------------------------------------
(* Time and the accrual cap.                                               *)

LEMMA CapIs ==
  ASSUME ClockOK
  PROVE  /\ Cap \in Nat /\ Cap <= now
         /\ Resolved => Cap = resolvedAt
         /\ ~Resolved => Cap = now
BY DEF ClockOK, Cap, Least

LEMMA BoardOf ==
  ASSUME BoardsOK, NEW s \in Sides
  PROVE  Good(board[s]) /\ Within(board[s], Cap) /\ board[s] \in BoardRecords
BY DEF BoardsOK

\* A hook that did not revert found the board at the cap.
LEMMA HookAtCap ==
  ASSUME ClockOK, BoardsOK, NEW s \in Sides, Current(s), NEW a \in Accounts,
         NEW b, b = Settled(AdvanceToNow(s), a)
  PROVE  /\ Follows(board[s], b, Cap) /\ Good(b) /\ b.last = Cap /\ 0 < b.last
         /\ b.pos[a].gPaid = b.g
<1> DEFINE c == AdvanceToNow(s)
<1>1. Cap \in Nat /\ now \in Nat \ {0} /\ MaxSteps \in Nat
  BY CapIs, VaultAssumption DEF ClockOK
<1>2. Good(board[s]) /\ Within(board[s], Cap)
  BY BoardOf
<1>3. c = Advance(board[s], now, Cap, MaxSteps) /\ CaughtUp(c, Cap)
  BY DEF AdvanceToNow, Current
<1> HIDE DEF c
<1>4. Follows(board[s], c, Cap) /\ 0 < c.last
  BY <1>1, <1>2, <1>3, FollowsAdvance
<1>5. c.last = Cap
  BY <1>3, <1>4 DEF CaughtUp
<1>6. Good(c) /\ Within(c, Cap)
  BY <1>4 DEF Follows
<1>7. b = Settled(c, a)
  BY DEF c
<1>8. Follows(c, b, Cap) /\ b.last = c.last
  BY <1>1, <1>6, <1>7, FollowsSettled
<1>9. b.pos[a].gPaid = b.g
  BY <1>6, <1>7, HookedSettled
<1>10. Follows(board[s], b, Cap)
  BY <1>4, <1>8, FollowsOn
<1> QED BY <1>4, <1>5, <1>8, <1>9, <1>10 DEF Follows

-----------------------------------------------------------------------------
(* Every call follows, and changes only what it says.                      *)

\* The boards after a call.
BoardsFollow ==
    /\ board' \in [Sides -> BoardRecords]
    /\ \A s \in Sides : Follows(board[s], board'[s], Cap)

LEMMA OneFollows ==
  ASSUME BoardsOK, NEW s \in Sides, NEW c, Follows(board[s], c, Cap),
         board' = [board EXCEPT ![s] = c]
  PROVE  BoardsFollow /\ board'[s] = c
<1>1. c \in BoardRecords
  BY DEF Follows, Good
<1>2. /\ board' \in [Sides -> BoardRecords] /\ board'[s] = c
      /\ \A o \in Sides \ {s} : board'[o] = board[o]
  BY <1>1 DEF BoardsOK
<1>3. ASSUME NEW o \in Sides
      PROVE  Follows(board[o], board'[o], Cap)
  <2>1. CASE o = s
    BY <1>2, <2>1
  <2>2. CASE o # s
    <3>1. board'[o] = board[o]
      BY <1>2, <2>2
    <3> QED BY <3>1, BoardOf, FollowsItself
  <2> QED BY <2>1, <2>2
<1> QED BY <1>2, <1>3 DEF BoardsFollow

LEMMA onFundFollows ==
  ASSUME Core, NEW s \in Sides, NEW a \in Accounts, NEW rate \in Nat \ {0},
         NEW maxEnd \in Nat, now <= maxEnd, onFund(s, a, rate, maxEnd)
  PROVE  BoardsFollow
<1>1. ClockOK /\ BoardsOK /\ ~Resolved /\ Current(s)
  BY DEF Core, onFund
<1>2. PICK b \in {Settled(AdvanceToNow(s), a)} :
        /\ b.pos[a].rate = 0
        /\ board' = [board EXCEPT ![s] = Opened(b, a, rate, maxEnd, now)]
  BY DEF onFund
<1>3. b = Settled(AdvanceToNow(s), a)
  BY <1>2
<1>4. /\ Follows(board[s], b, Cap) /\ Good(b) /\ b.last = Cap /\ 0 < b.last
  BY <1>1, <1>3, HookAtCap
<1>5. Cap = now /\ Cap \in Nat
  BY <1>1, CapIs
<1> DEFINE c == Opened(b, a, rate, maxEnd, now)
<1>6. c = Opened(b, a, rate, maxEnd, b.last) /\ b.last # 0 /\ b.last <= maxEnd
  BY <1>4, <1>5
<1>7. board' = [board EXCEPT ![s] = c]
  BY <1>2
<1> HIDE DEF c
<1>8. HookKeeps(b, c)
  BY <1>2, <1>4, <1>6, HookedOpened
<1>9. Follows(b, c, Cap)
  BY <1>4, <1>5, <1>8, FollowsHook
<1>10. Follows(board[s], c, Cap)
  BY <1>4, <1>9, FollowsOn
<1> QED BY <1>1, <1>7, <1>10, OneFollows

\* The seconds that a stop counts, on a board at the cap.
LEMMA StopEnds ==
  ASSUME ClockOK, NEW maxEnd \in Nat, Cap <= maxEnd
  PROVE  Cap = IF Resolved THEN Least(Least(maxEnd, now), resolvedAt) ELSE Least(maxEnd, now)
BY DEF ClockOK, Cap, Least

\* What a stop leaves on the board.
LEMMA onStopIs ==
  ASSUME Core, NEW s \in Sides, NEW a \in Accounts, onStop(s, a)
  PROVE  \E b, c :
           /\ b = Settled(AdvanceToNow(s), a) /\ Good(b) /\ b.last = Cap
           /\ Follows(board[s], c, Cap) /\ board' = [board EXCEPT ![s] = c]
           /\ HookKeeps(b, c)
           /\ \A o \in Accounts \ {a} : c.pos[o] = b.pos[o]
           /\ \/ /\ b.pos[a].rate > 0 /\ c.pos[a].rate = 0
                 /\ overageOwed' =
                      IF Resolved /\ Least(b.pos[a].maxEnd, now) > resolvedAt
                      THEN [overageOwed EXCEPT ![s][a] =
                              @ + b.pos[a].rate * (Least(b.pos[a].maxEnd, now) - resolvedAt)]
                      ELSE overageOwed
              \/ c = b /\ overageOwed' = overageOwed
<1>1. ClockOK /\ BoardsOK /\ Current(s)
  BY DEF Core, onStop
<1> DEFINE End(b) == Least(b.pos[a].maxEnd, now)
           LossEnd(b) == IF Resolved THEN Least(End(b), resolvedAt) ELSE End(b)
<1>2. PICK b \in {Settled(AdvanceToNow(s), a)} :
        IF Active(b, a)
        THEN /\ board' = [board EXCEPT ![s] = Closed(b, a, LossEnd(b), FALSE)]
             /\ overageOwed' =
                  IF Resolved /\ End(b) > resolvedAt
                  THEN [overageOwed EXCEPT ![s][a] = @ + b.pos[a].rate * (End(b) - resolvedAt)]
                  ELSE overageOwed
        ELSE /\ board' = [board EXCEPT ![s] = b]
             /\ UNCHANGED overageOwed
  BY DEF onStop
<1>3. b = Settled(AdvanceToNow(s), a)
  BY <1>2
<1>4. /\ Follows(board[s], b, Cap) /\ Good(b) /\ b.last = Cap
      /\ b.pos[a].gPaid = b.g
  BY <1>1, <1>3, HookAtCap
<1>5. Cap \in Nat
  BY <1>1, CapIs
<1>6. CASE ~Active(b, a)
  BY <1>2, <1>3, <1>4, <1>6 DEF HookKeeps
<1>7. CASE Active(b, a)
  <2>1. b \in BoardRecords /\ Placed(b, a)
    BY <1>4 DEF Good
  <2>2. b.pos[a].rate > 0 /\ b.pos[a].maxEnd \in Nat /\ Cap <= b.pos[a].maxEnd
    BY <1>4, <1>7, <2>1, PositionIs DEF Placed, Active
  <2>3. LossEnd(b) = b.last
    BY <1>1, <1>4, <2>2, StopEnds
  <2>4. PICK dry \in BOOLEAN : dry = FALSE
    OBVIOUS
  <2> DEFINE c == Closed(b, a, b.last, dry)
  <2>5. board' = [board EXCEPT ![s] = c]
    BY <1>2, <1>7, <2>3, <2>4
  <2> HIDE DEF c
  <2>6. /\ HookKeeps(b, c) /\ c.pos[a].rate = 0
        /\ \A o \in Accounts \ {a} : c.pos[o] = b.pos[o]
    BY <1>4, <2>2, HookedClosed DEF c
  <2>7. Follows(board[s], c, Cap)
    <3>1. Follows(b, c, Cap)
      BY <1>4, <1>5, <2>6, FollowsHook
    <3> QED BY <1>4, <3>1, FollowsOn
  <2>8. overageOwed' =
          IF Resolved /\ End(b) > resolvedAt
          THEN [overageOwed EXCEPT ![s][a] = @ + b.pos[a].rate * (End(b) - resolvedAt)]
          ELSE overageOwed
    BY <1>2, <1>7
  <2> QED BY <1>3, <1>4, <2>2, <2>5, <2>6, <2>7, <2>8
<1> QED BY <1>6, <1>7

LEMMA onStopFollows ==
  ASSUME Core, NEW s \in Sides, NEW a \in Accounts, onStop(s, a)
  PROVE  BoardsFollow
<1>1. PICK c : Follows(board[s], c, Cap) /\ board' = [board EXCEPT ![s] = c]
  BY onStopIs
<1> QED BY <1>1, OneFollows DEF Core

LEMMA refreshFollows ==
  ASSUME Core, NEW a \in Accounts, NEW lanes \in SUBSET Sides, NEW maxEnd \in Nat, now <= maxEnd,
         refreshMaxEnds(a, lanes, maxEnd)
  PROVE  BoardsFollow
<1>1. ClockOK /\ BoardsOK
  BY DEF Core
<1> DEFINE base(s) == Settled(AdvanceToNow(s), a)
           c(s) == Repegged(base(s), a, maxEnd)
<1>2. board' = [s \in Sides |-> IF s \in lanes THEN c(s) ELSE board[s]]
  BY DEF refreshMaxEnds
<1>3. ASSUME NEW s \in lanes
      PROVE  Follows(board[s], c(s), Cap)
  <2>1. s \in Sides /\ Current(s)
    BY DEF refreshMaxEnds
  <2>2. base(s) = Settled(AdvanceToNow(s), a) /\ c(s) = Repegged(base(s), a, maxEnd)
    OBVIOUS
  <2> HIDE DEF base, c
  <2>3. Follows(board[s], base(s), Cap) /\ Good(base(s)) /\ base(s).last = Cap
    BY <1>1, <2>1, <2>2, HookAtCap
  <2>4. Cap \in Nat /\ Cap <= now /\ now \in Nat
    BY <1>1, CapIs DEF ClockOK
  <2>5. base(s).last <= maxEnd
    BY <2>3, <2>4
  <2>6. HookKeeps(base(s), c(s))
    BY <2>2, <2>3, <2>5, HookedRepegged
  <2>7. Follows(base(s), c(s), Cap)
    BY <2>3, <2>4, <2>6, FollowsHook
  <2> QED BY <2>3, <2>7, FollowsOn
<1> HIDE DEF c
<1>4. ASSUME NEW s \in Sides
      PROVE  Follows(board[s], board'[s], Cap)
  <2>1. CASE s \in lanes
    BY <1>2, <1>3, <2>1
  <2>2. CASE s \notin lanes
    <3>1. board'[s] = board[s]
      BY <1>2, <2>2
    <3> QED BY <1>1, <3>1, BoardOf, FollowsItself
  <2> QED BY <2>1, <2>2
<1>5. \A s \in Sides : board'[s] \in BoardRecords
  BY <1>4 DEF Follows, Good
<1>6. board' \in [Sides -> BoardRecords]
  BY <1>2, <1>5
<1> QED BY <1>4, <1>6 DEF BoardsFollow

LEMMA advanceFollows ==
  ASSUME Core, NEW s \in Sides, NEW n \in Nat, advance(s, n)
  PROVE  BoardsFollow
<1>1. ClockOK /\ BoardsOK
  BY DEF Core
<1>2. board' = [board EXCEPT ![s] = Advance(board[s], now, Cap, n)]
  BY DEF advance
<1>3. Cap \in Nat /\ now \in Nat \ {0} /\ Good(board[s]) /\ Within(board[s], Cap)
  BY <1>1, CapIs, BoardOf DEF ClockOK
<1>4. Follows(board[s], Advance(board[s], now, Cap, n), Cap)
  BY <1>3, FollowsAdvance
<1> QED BY <1>1, <1>2, <1>4, OneFollows

LEMMA settleFollows ==
  ASSUME Core, NEW s \in Sides, NEW a \in Accounts, settle(s, a)
  PROVE  BoardsFollow
<1> DEFINE b == AdvanceToNow(s)
           c == Settled(b, a)
<1>1. ClockOK /\ BoardsOK
  BY DEF Core
<1>2. board' = [board EXCEPT ![s] = c]
  BY DEF settle
<1>3. Cap \in Nat /\ now \in Nat \ {0} /\ Good(board[s]) /\ Within(board[s], Cap)
  BY <1>1, CapIs, BoardOf DEF ClockOK
<1>4. b = Advance(board[s], now, Cap, MaxSteps) /\ MaxSteps \in Nat
  BY VaultAssumption DEF AdvanceToNow
<1>5. c = Settled(b, a)
  OBVIOUS
<1> HIDE DEF b, c
<1>6. Follows(board[s], b, Cap)
  BY <1>3, <1>4, FollowsAdvance
<1>7. Follows(b, c, Cap)
  BY <1>3, <1>5, <1>6, FollowsSettled DEF Follows
<1>8. Follows(board[s], c, Cap)
  BY <1>6, <1>7, FollowsOn
<1> QED BY <1>1, <1>2, <1>8, OneFollows

\* What collect and withdraw see: nothing is due any more.
LEMMA CaughtUpIs ==
  ASSUME Core, NEW s \in Sides, NEW c, c = CaughtUpBoards[s]
  PROVE  /\ Follows(board[s], c, Cap) /\ Good(c) /\ 0 < c.last /\ Cap <= c.last
         /\ \A a \in Accounts : c.pos[a].rate > 0 => c.last = Cap
         /\ \A a \in Accounts : KeptOf(board[s], c, Cap, a)
<1>1. ClockOK /\ BoardsOK
  BY DEF Core
<1>2. Cap \in Nat /\ now \in Nat \ {0} /\ Cap <= now /\ Good(board[s]) /\ Within(board[s], Cap)
  BY <1>1, CapIs, BoardOf DEF ClockOK
<1>3. PICK n \in Nat : n = Len(board[s].queue)
  BY <1>2, QueueIs DEF Good
<1>4. c = Advance(board[s], now, Cap, n)
  BY <1>3 DEF CaughtUpBoards, AdvanceAll
<1>5. Advanced(board[s], c, now, Cap, n) /\ Cap <= c.last
  BY <1>2, <1>3, <1>4, AdvanceIs
<1>6. Follows(board[s], c, Cap) /\ 0 < c.last
  BY <1>2, <1>4, FollowsAdvance
<1>7. Good(c) /\ Within(c, Cap) /\ c \in BoardRecords
  BY <1>6 DEF Follows, Good
<1>8. ASSUME NEW a \in Accounts, c.pos[a].rate > 0
      PROVE  c.last = Cap
  <2>1. Queued(c, a)
    BY <1>7, <1>8 DEF Good, Placed
  <2>2. DOMAIN << >> = {}
    OBVIOUS
  <2>3. c.queue # << >>
    BY <2>1, <2>2 DEF Queued
  <2>4. c.last \in Nat
    BY <1>7, BoardIs
  <2> QED BY <1>2, <1>5, <1>7, <2>3, <2>4 DEF Within
<1>9. \A a \in Accounts : KeptOf(board[s], c, Cap, a)
  BY <1>5 DEF Advanced
<1> QED BY <1>5, <1>6, <1>7, <1>8, <1>9

LEMMA collectFollows ==
  ASSUME Core, NEW cash \in BOOLEAN, collect(cash)
  PROVE  BoardsFollow /\ board' = CaughtUpBoards
<1>1. board' = CaughtUpBoards
  BY DEF collect
<1>2. \A s \in Sides : Follows(board[s], CaughtUpBoards[s], Cap)
  BY CaughtUpIs
<1>3. \A s \in Sides : CaughtUpBoards[s] \in BoardRecords
  BY <1>2 DEF Follows, Good
<1>4. CaughtUpBoards \in [Sides -> BoardRecords]
  <2>1. CaughtUpBoards = [s \in Sides |-> CaughtUpBoards[s]]
    BY DEF CaughtUpBoards
  <2> QED BY <1>3, <2>1
<1> QED BY <1>1, <1>2, <1>4 DEF BoardsFollow

LEMMA withdrawFollows ==
  ASSUME Core, NEW a \in Accounts, withdraw(a)
  PROVE  BoardsFollow
<1>1. /\ outcome \in Sides /\ ClockOK /\ BoardsOK
  BY DEF Core, ClockOK, withdraw, Resolved
<1>2. board' = [CaughtUpBoards EXCEPT ![outcome] =
                  IF <<outcome, a>> \in claimed THEN @ ELSE Settled(@, a)]
  BY DEF withdraw
<1>3. \A s \in Sides : Follows(board[s], CaughtUpBoards[s], Cap)
  BY CaughtUpIs
<1>4. CaughtUpBoards = [s \in Sides |-> CaughtUpBoards[s]]
  BY DEF CaughtUpBoards
<1> DEFINE boards == CaughtUpBoards
           c == Settled(boards[outcome], a)
<1>5. c = Settled(boards[outcome], a) /\ Cap \in Nat
  BY <1>1, CapIs
<1> HIDE DEF c
<1>6. Follows(board[outcome], c, Cap)
  <2>1. Follows(boards[outcome], c, Cap)
    BY <1>1, <1>3, <1>5, FollowsSettled DEF Follows
  <2> QED BY <1>1, <1>3, <2>1, FollowsOn
<1>7. ASSUME NEW s \in Sides
      PROVE  Follows(board[s], board'[s], Cap)
  <2>1. board'[s] = boards[s] \/ (s = outcome /\ board'[s] = c)
    BY <1>1, <1>2, <1>4, <1>5
  <2> QED BY <1>3, <1>6, <2>1
<1>8. \A s \in Sides : board'[s] \in BoardRecords
  BY <1>7 DEF Follows, Good
<1>9. board' = [s \in Sides |-> board'[s]]
  BY <1>1, <1>2, <1>4
<1>10. board' \in [Sides -> BoardRecords]
  BY <1>8, <1>9
<1> QED BY <1>7, <1>10 DEF BoardsFollow

LEMMA StillFollows ==
  ASSUME Core, board' = board
  PROVE  BoardsFollow
<1>1. ClockOK /\ BoardsOK /\ board \in [Sides -> BoardRecords]
  BY DEF Core, BoardsOK
<1>2. \A s \in Sides : Follows(board[s], board[s], Cap)
  BY <1>1, BoardOf, FollowsItself
<1> QED BY <1>1, <1>2 DEF BoardsFollow

-----------------------------------------------------------------------------
(* What each action leaves of the ledger.                                  *)

LEMMA PerPositionPut ==
  ASSUME NEW f \in PerPosition(Nat), NEW s \in Sides, NEW a \in Accounts, NEW x \in Nat
  PROVE  /\ f[s][a] \in Nat
         /\ [f EXCEPT ![s][a] = x] \in PerPosition(Nat)
         /\ [f EXCEPT ![s][a] = x][s][a] = x
         /\ \A t \in Sides, o \in Accounts :
              t # s \/ o # a => [f EXCEPT ![s][a] = x][t][o] = f[t][o]
<1>1. f \in [Sides -> [Accounts -> Nat]]
  BY DEF PerPosition
<1>2. f[s] \in [Accounts -> Nat]
  BY <1>1
<1> DEFINE g == [f[s] EXCEPT ![a] = x]
<1>3. g \in [Accounts -> Nat] /\ g[a] = x /\ \A o \in Accounts : o # a => g[o] = f[s][o]
  BY <1>2
<1>4. [f EXCEPT ![s][a] = x] = [f EXCEPT ![s] = g]
  BY <1>1
<1> HIDE DEF g
<1>5. /\ [f EXCEPT ![s] = g] \in [Sides -> [Accounts -> Nat]]
      /\ [f EXCEPT ![s] = g][s] = g
      /\ \A t \in Sides : t # s => [f EXCEPT ![s] = g][t] = f[t]
  BY <1>1, <1>3
<1>6. \A t \in Sides, o \in Accounts :
        t # s \/ o # a => [f EXCEPT ![s] = g][t][o] = f[t][o]
  <2> SUFFICES ASSUME NEW t \in Sides, NEW o \in Accounts, t # s \/ o # a
               PROVE  [f EXCEPT ![s] = g][t][o] = f[t][o]
    OBVIOUS
  <2>1. CASE t # s
    BY <1>5, <2>1
  <2>2. CASE t = s
    BY <1>3, <1>5, <2>2
  <2> QED BY <2>1, <2>2
<1> QED BY <1>2, <1>3, <1>4, <1>5, <1>6 DEF PerPosition

\* The vault and the treasury share what the pools hold, all of it.
LEMMA SkimIs ==
  ASSUME NEW boards, \A s \in Sides : boards[s].pool \in Nat, outcome \in Sides
  PROVE  /\ FinalSkim(boards) \in Nat
         /\ FinalSkim(boards) <= boards["Yes"].pool + boards["No"].pool
         /\ boards[outcome].pool + boards[Other(outcome)].pool
              = boards["Yes"].pool + boards["No"].pool
<1>1. "Yes" \in Sides /\ "No" \in Sides
  BY DEF Sides
<1>2. /\ outcome = "Yes" => Other(outcome) = "No"
      /\ outcome = "No" => Other(outcome) = "Yes"
  BY DEF Other, Sides
<1>3. outcome = "Yes" \/ outcome = "No"
  BY DEF Sides
<1>4. Other(outcome) \in Sides
  BY <1>1, <1>2, <1>3
<1>5. boards[outcome].pool + boards[Other(outcome)].pool
        = boards["Yes"].pool + boards["No"].pool
  <2>1. boards["Yes"].pool \in Nat /\ boards["No"].pool \in Nat
    BY <1>1
  <2>2. CASE outcome = "Yes"
    BY <1>2, <2>2
  <2>3. CASE outcome = "No"
    BY <1>2, <2>1, <2>3
  <2> QED BY <1>3, <2>2, <2>3
<1> DEFINE win == boards[outcome].pool
           lose == boards[Other(outcome)].pool
<1>6. win \in Nat /\ lose \in Nat
  BY <1>4
<1> HIDE DEF win, lose
<1>7. Skim(lose) \in Nat /\ Skim(lose) <= lose
  <2>1. SkimPercent \in Nat /\ SkimPercent <= 100
    BY VaultAssumption
  <2>2. lose * SkimPercent \in Nat /\ lose * SkimPercent <= lose * 100
    BY <1>6, <2>1, NatTimes, TimesOrdered
  <2> DEFINE x == lose * SkimPercent
  <2> HIDE DEF x
  <2>3. x \in Nat /\ x <= 100 * lose
    BY <1>6, <2>2 DEF x
  <2>4. x \div 100 \in Nat /\ 100 * (x \div 100) <= x
    BY <2>3, DivNat, DivIs
  <2>5. x \div 100 <= lose
    BY <1>6, <2>3, <2>4
  <2> QED BY <1>6, <2>4, <2>5 DEF Skim, x
<1>8. FinalSkim(boards) = win + lose \/ FinalSkim(boards) = Skim(lose)
  BY DEF FinalSkim, win, lose
<1>9. win + lose = boards["Yes"].pool + boards["No"].pool
  BY <1>5 DEF win, lose
<1>10. FinalSkim(boards) \in Nat /\ FinalSkim(boards) <= win + lose
  BY <1>6, <1>7, <1>8
<1> QED BY <1>5, <1>9, <1>10

LEMMA SettledAccrued ==
  ASSUME NEW b, Good(b), NEW a \in Accounts
  PROVE  Settled(b, a).pos[a].accrued = Holding(b, a) /\ Holding(b, a) \in Nat
BY HookedSettled, GoodTerms

\* A share of the pot.
LEMMA PayoutIs ==
  ASSUME NEW b, Good(b), NEW a \in Accounts, pot \in Nat
  PROVE  /\ Payout(b, a) \in Nat
         /\ b.shares = 0 \/ <<outcome, a>> \in claimed => Payout(b, a) = 0
         /\ ~(b.shares = 0 \/ <<outcome, a>> \in claimed) =>
               Payout(b, a) = (pot * Holding(b, a)) \div b.shares
<1>1. Settled(b, a).pos[a].accrued = Holding(b, a) /\ Holding(b, a) \in Nat
  BY SettledAccrued
<1>2. b.shares \in Nat
  BY BoardIs DEF Good
<1>3. pot * Holding(b, a) \in Nat
  BY <1>1, NatTimes
<1>4. b.shares # 0 => (pot * Holding(b, a)) \div b.shares \in Nat
  BY <1>2, <1>3, DivNat
<1> QED BY <1>1, <1>4 DEF Payout

LEMMA ClockKept ==
  ASSUME ClockOK, UNCHANGED <<now, outcome, resolvedAt>>
  PROVE  ClockOK' /\ Cap' = Cap
BY DEF ClockOK, Cap, Resolved

LEMMA LedgerKept ==
  ASSUME LedgerOK, UNCHANGED settlement, UNCHANGED truth, overageOwed' \in PerPosition(Nat)
  PROVE  LedgerOK'
BY DEF LedgerOK, settlement, truth

LEMMA CoreCarries ==
  ASSUME Core, BoardsFollow, Cap' = Cap, ClockOK', LedgerOK', streamed' = streamed
  PROVE  Core'
<1>1. BoardsOK'
  BY DEF BoardsFollow, Follows, BoardsOK
<1>2. LossExact'
  BY DEF Core, LossExact, BoardsFollow, Follows
<1> QED BY <1>1, <1>2 DEF Core

\* A call that touches a board and nothing else.
LEMMA CallKeepsCore ==
  ASSUME Core, BoardsFollow, UNCHANGED <<now, outcome, resolvedAt, overageOwed, settlement, truth>>
  PROVE  Core'
<1>1. ClockOK' /\ Cap' = Cap
  BY ClockKept DEF Core
<1>2. LedgerOK'
  BY LedgerKept DEF Core, LedgerOK
<1>3. streamed' = streamed
  BY DEF truth
<1> QED BY <1>1, <1>2, <1>3, CoreCarries

LEMMA EntitlementIs ==
  ASSUME Core, NEW s \in Sides, NEW a \in Accounts, NEW p \in Positions
  PROVE  OverageEntitlement(s, p, a) \in Nat
<1>1. /\ now \in Nat /\ resolvedAt \in Nat /\ overageOwed[s][a] \in Nat
  BY DEF Core, ClockOK, LedgerOK, PerPosition
<1>2. p.rate \in Nat /\ p.maxEnd \in Nat
  BY DEF Positions
<1> DEFINE end == Least(p.maxEnd, now)
<1>3. end \in Nat
  BY <1>1, <1>2 DEF Least
<1> HIDE DEF end
<1>4. end > resolvedAt => p.rate * (end - resolvedAt) \in Nat
  <2> SUFFICES ASSUME end > resolvedAt
               PROVE  p.rate * (end - resolvedAt) \in Nat
    OBVIOUS
  <2>1. end - resolvedAt \in Nat
    BY <1>1, <1>3
  <2> QED BY <1>2, <2>1, NatTimes
<1> QED BY <1>1, <1>4 DEF OverageEntitlement, end

\* Every side in `due` takes a new value for account a.
PutDue(f, a, due, g) ==
    [s \in Sides |-> IF s \in due THEN [f[s] EXCEPT ![a] = g[s]] ELSE f[s]]

Counts(g, due) == \A s \in due : g[s] \in Nat

LEMMA PutWhereDue ==
  ASSUME NEW f \in PerPosition(Nat), NEW a \in Accounts, NEW due, NEW g,
         Counts(g, due), NEW h, h = PutDue(f, a, due, g)
  PROVE  /\ h \in PerPosition(Nat)
         /\ \A s \in Sides : h[s][a] = IF s \in due THEN g[s] ELSE f[s][a]
         /\ \A s \in Sides, o \in Accounts \ {a} : h[s][o] = f[s][o]
<1> USE DEF PutDue, Counts
<1>1. \A s \in Sides : f[s] \in [Accounts -> Nat]
  BY DEF PerPosition
<1>2. ASSUME NEW s \in Sides
      PROVE  /\ h[s] \in [Accounts -> Nat]
             /\ h[s][a] = IF s \in due THEN g[s] ELSE f[s][a]
             /\ \A o \in Accounts \ {a} : h[s][o] = f[s][o]
  <2>1. CASE s \in due
    <3>1. h[s] = [f[s] EXCEPT ![a] = g[s]]
      BY <2>1
    <3> QED BY <1>1, <2>1, <3>1
  <2>2. CASE s \notin due
    <3>1. h[s] = f[s]
      BY <2>2
    <3> QED BY <1>1, <2>2, <3>1
  <2> QED BY <2>1, <2>2
<1>3. h \in PerPosition(Nat)
  BY <1>2 DEF PerPosition
<1> QED BY <1>2, <1>3

\* What a withdrawal pays, side by side.
Owed(s, a) == OverageEntitlement(s, CaughtUpBoards[s].pos[a], a)
Winnings(a) == Payout(CaughtUpBoards[outcome], a)

PaysOverage(s, a) ==
    IF Owed(s, a) > overagePaid[s][a]
    THEN /\ overagePaid'[s][a] = Owed(s, a)
         /\ overage'[s][a] = overage[s][a] + Owed(s, a) - overagePaid[s][a]
         /\ overageOwed'[s][a] =
              IF CaughtUpBoards[s].pos[a].rate = 0 THEN 0 ELSE overageOwed[s][a]
    ELSE /\ overagePaid'[s][a] = overagePaid[s][a]
         /\ overage'[s][a] = overage[s][a]
         /\ overageOwed'[s][a] = overageOwed[s][a]

LEMMA withdrawIs ==
  ASSUME Core, NEW a \in Accounts, withdraw(a)
  PROVE  /\ outcome \in Sides
         /\ \A s \in Sides : Owed(s, a) \in Nat /\ PaysOverage(s, a)
         /\ overagePaid' \in PerPosition(Nat) /\ overage' \in PerPosition(Nat)
         /\ overageOwed' \in PerPosition(Nat)
         /\ \A s \in Sides, o \in Accounts \ {a} : /\ overagePaid'[s][o] = overagePaid[s][o]
                                                   /\ overage'[s][o] = overage[s][o]
                                                   /\ overageOwed'[s][o] = overageOwed[s][o]
         /\ Winnings(a) \in Nat
         /\ won' = [won EXCEPT ![outcome][a] = @ + Winnings(a)]
         /\ claimed' = IF Winnings(a) > 0 THEN claimed \cup {<<outcome, a>>} ELSE claimed
<1> DEFINE boards == CaughtUpBoards
           owed == [s \in Sides |-> OverageEntitlement(s, boards[s].pos[a], a)]
           due == {s \in Sides : owed[s] > overagePaid[s][a]}
           more == [s \in Sides |-> overage[s][a] + owed[s] - overagePaid[s][a]]
           left == [s \in Sides |-> IF boards[s].pos[a].rate = 0 THEN 0 ELSE overageOwed[s][a]]
           pay == Payout(boards[outcome], a)
<1>1. /\ overagePaid' = PutDue(overagePaid, a, due, owed)
      /\ overage' = PutDue(overage, a, due, more)
      /\ overageOwed' = PutDue(overageOwed, a, due, left)
      /\ won' = [won EXCEPT ![outcome][a] = @ + pay]
      /\ claimed' = IF pay > 0 THEN claimed \cup {<<outcome, a>>} ELSE claimed
      /\ Resolved
  BY DEF withdraw, PutDue
<1>2. /\ overagePaid \in PerPosition(Nat) /\ overage \in PerPosition(Nat)
      /\ overageOwed \in PerPosition(Nat) /\ pot \in Nat /\ outcome \in Sides
  BY <1>1 DEF Core, LedgerOK, ClockOK, Resolved
<1>3. \A s \in Sides : /\ overagePaid[s][a] \in Nat /\ overage[s][a] \in Nat
                       /\ overageOwed[s][a] \in Nat
  BY <1>2 DEF PerPosition
<1>4. \A s \in Sides : Good(boards[s]) /\ boards[s].pos[a] \in Positions
  <2>1. \A s \in Sides : Good(boards[s])
    BY CaughtUpIs
  <2> QED BY <2>1, PositionIs DEF Good
<1>5. pay \in Nat
  BY <1>2, <1>4, PayoutIs
<1>6. \A s \in Sides : /\ owed[s] = OverageEntitlement(s, boards[s].pos[a], a)
                       /\ owed[s] \in Nat
  <2>1. \A s \in Sides : OverageEntitlement(s, boards[s].pos[a], a) \in Nat
    BY <1>4, EntitlementIs
  <2> QED BY <2>1
<1>7. \A s \in Sides : more[s] = overage[s][a] + owed[s] - overagePaid[s][a]
                       /\ left[s] = IF boards[s].pos[a].rate = 0 THEN 0 ELSE overageOwed[s][a]
  OBVIOUS
<1>8. due \in SUBSET Sides /\ \A s \in Sides : s \in due <=> owed[s] > overagePaid[s][a]
  OBVIOUS
<1> HIDE DEF owed, due, more, left, pay, boards
<1>9. Counts(owed, due) /\ Counts(more, due) /\ Counts(left, due)
  BY <1>3, <1>6, <1>7, <1>8 DEF Counts
<1>10. /\ overagePaid' \in PerPosition(Nat)
       /\ \A s \in Sides : overagePaid'[s][a] = IF s \in due THEN owed[s] ELSE overagePaid[s][a]
       /\ \A s \in Sides, o \in Accounts \ {a} : overagePaid'[s][o] = overagePaid[s][o]
  <2>1. overagePaid' = PutDue(overagePaid, a, due, owed) /\ overagePaid \in PerPosition(Nat) /\ Counts(owed, due)
    BY <1>1, <1>2, <1>9
  <2> QED BY <2>1, PutWhereDue
<1>11. /\ overage' \in PerPosition(Nat)
       /\ \A s \in Sides : overage'[s][a] = IF s \in due THEN more[s] ELSE overage[s][a]
       /\ \A s \in Sides, o \in Accounts \ {a} : overage'[s][o] = overage[s][o]
  <2>1. overage' = PutDue(overage, a, due, more) /\ overage \in PerPosition(Nat) /\ Counts(more, due)
    BY <1>1, <1>2, <1>9
  <2> QED BY <2>1, PutWhereDue
<1>12. /\ overageOwed' \in PerPosition(Nat)
       /\ \A s \in Sides : overageOwed'[s][a] = IF s \in due THEN left[s] ELSE overageOwed[s][a]
       /\ \A s \in Sides, o \in Accounts \ {a} : overageOwed'[s][o] = overageOwed[s][o]
  <2>1. overageOwed' = PutDue(overageOwed, a, due, left) /\ overageOwed \in PerPosition(Nat) /\ Counts(left, due)
    BY <1>1, <1>2, <1>9
  <2> QED BY <2>1, PutWhereDue
<1>13. \A s \in due : /\ owed[s] > overagePaid[s][a]
                      /\ overagePaid'[s][a] = owed[s]
                      /\ overage'[s][a] = overage[s][a] + owed[s] - overagePaid[s][a]
                      /\ overageOwed'[s][a] =
                           IF boards[s].pos[a].rate = 0 THEN 0 ELSE overageOwed[s][a]
  BY <1>7, <1>8, <1>10, <1>11, <1>12
<1>14. \A s \in Sides \ due : /\ overagePaid'[s][a] = overagePaid[s][a]
                              /\ overage'[s][a] = overage[s][a]
                              /\ overageOwed'[s][a] = overageOwed[s][a]
  BY <1>10, <1>11, <1>12
<1>15. \A s \in Sides, o \in Accounts \ {a} : /\ overagePaid'[s][o] = overagePaid[s][o]
                                              /\ overage'[s][o] = overage[s][o]
                                              /\ overageOwed'[s][o] = overageOwed[s][o]
  BY <1>10, <1>11, <1>12
<1>16. ASSUME NEW s \in Sides
       PROVE  Owed(s, a) \in Nat /\ PaysOverage(s, a)
  <2>1. Owed(s, a) = owed[s] /\ owed[s] \in Nat
    BY <1>6 DEF Owed, boards
  <2>2. CASE s \in due
    BY <1>13, <2>1, <2>2 DEF PaysOverage, boards
  <2>3. CASE s \notin due
    BY <1>8, <1>14, <2>1, <2>3 DEF PaysOverage
  <2> QED BY <2>2, <2>3, <2>1
<1>17. pay = Winnings(a)
  BY DEF pay, Winnings, boards
<1> QED BY <1>1, <1>2, <1>5, <1>10, <1>11, <1>12, <1>15, <1>16, <1>17

-----------------------------------------------------------------------------
(* The accounting through every action.                                    *)

LEMMA onStopKeepsCore ==
  ASSUME Core, NEW s \in Sides, NEW a \in Accounts, onStop(s, a)
  PROVE  Core'
<1>1. /\ BoardsFollow /\ ClockOK' /\ Cap' = Cap
  BY onStopFollows, ClockKept DEF Core, onStop
<1>2. overageOwed' \in PerPosition(Nat)
  <2>1. PICK b, c :
          /\ Good(b)
          /\ \/ /\ b.pos[a].rate > 0 /\ c.pos[a].rate = 0
                /\ overageOwed' =
                     IF Resolved /\ Least(b.pos[a].maxEnd, now) > resolvedAt
                     THEN [overageOwed EXCEPT ![s][a] =
                             @ + b.pos[a].rate * (Least(b.pos[a].maxEnd, now) - resolvedAt)]
                     ELSE overageOwed
             \/ c = b /\ overageOwed' = overageOwed
    BY onStopIs, SMTT(60)
  <2> DEFINE end == Least(b.pos[a].maxEnd, now)
             x == b.pos[a].rate * (end - resolvedAt)
  <2>2. overageOwed \in PerPosition(Nat) /\ now \in Nat /\ resolvedAt \in Nat
    BY DEF Core, LedgerOK, ClockOK
  <2>3. b.pos[a].rate \in Nat /\ b.pos[a].maxEnd \in Nat
    BY <2>1, PositionIs DEF Good
  <2>4. CASE overageOwed' = overageOwed
    BY <2>2, <2>4
  <2>5. CASE end > resolvedAt /\ overageOwed' = [overageOwed EXCEPT ![s][a] = @ + x]
    <3>1. end \in Nat
      BY <2>2, <2>3 DEF Least
    <3> HIDE DEF end
    <3>2. end - resolvedAt \in Nat
      BY <2>2, <2>5, <3>1
    <3>3. x \in Nat
      BY <2>3, <3>2, NatTimes
    <3> HIDE DEF x
    <3>4. overageOwed[s][a] \in Nat
      BY <2>2, PerPositionPut
    <3>5. overageOwed[s][a] + x \in Nat
      BY <3>3, <3>4
    <3>6. overageOwed' = [overageOwed EXCEPT ![s][a] = overageOwed[s][a] + x]
      BY <2>2, <2>5 DEF PerPosition
    <3> QED BY <2>2, <3>5, <3>6, PerPositionPut
  <2> QED BY <2>1, <2>4, <2>5
<1>3. LedgerOK' /\ streamed' = streamed
  BY <1>2, LedgerKept DEF onStop, Core, truth
<1> QED BY <1>1, <1>3, CoreCarries

\* What the first collect fixes, and what a later one leaves.
LEMMA collectIs ==
  ASSUME Core, NEW cash \in BOOLEAN, collect(cash)
  PROVE  /\ outcome \in Sides /\ pot' \in Nat /\ skimOwed' \in Nat /\ skimmed' \in Nat
         /\ collected => pot' = pot
         /\ ~collected => /\ FinalSkim(CaughtUpBoards) \in Nat
                          /\ pot' = CaughtUpBoards["Yes"].pool + CaughtUpBoards["No"].pool
                                      - FinalSkim(CaughtUpBoards)
                          /\ skimOwed' + skimmed' = FinalSkim(CaughtUpBoards) + skimmed
         /\ collected => skimOwed' + skimmed' = skimOwed + skimmed
<1> DEFINE boards == CaughtUpBoards
           fresh == FinalSkim(boards)
           owed == IF collected THEN skimOwed ELSE fresh
<1>1. /\ pot' = IF collected THEN pot ELSE boards["Yes"].pool + boards["No"].pool - owed
      /\ skimOwed' = IF cash THEN 0 ELSE owed
      /\ skimmed' = IF cash THEN skimmed + owed ELSE skimmed
      /\ Resolved
  BY DEF collect
<1>2. outcome \in Sides /\ collected \in BOOLEAN /\ pot \in Nat /\ skimOwed \in Nat /\ skimmed \in Nat
  BY <1>1 DEF Core, LedgerOK, ClockOK, Resolved
<1>3. \A s \in Sides : boards[s].pool \in Nat
  <2>1. \A s \in Sides : Good(boards[s])
    BY CaughtUpIs
  <2> QED BY <2>1, BoardIs DEF Good
<1>4. fresh \in Nat /\ fresh <= boards["Yes"].pool + boards["No"].pool
  BY <1>2, <1>3, SkimIs
<1>5. boards["Yes"].pool \in Nat /\ boards["No"].pool \in Nat
  BY <1>3 DEF Sides
<1> HIDE DEF boards, fresh
<1>6. owed \in Nat /\ (~collected => owed = fresh) /\ (collected => owed = skimOwed)
  BY <1>2, <1>4
<1> HIDE DEF owed
<1>7. skimOwed' \in Nat /\ skimmed' \in Nat /\ skimOwed' + skimmed' = owed + skimmed
  BY <1>1, <1>2, <1>6
<1>8. pot' \in Nat
  BY <1>1, <1>2, <1>4, <1>5, <1>6
<1>9. ~collected => pot' = boards["Yes"].pool + boards["No"].pool - fresh
  BY <1>1, <1>6
<1>10. collected => pot' = pot
  BY <1>1
<1> QED BY <1>2, <1>4, <1>6, <1>7, <1>8, <1>9, <1>10 DEF boards, fresh

LEMMA collectKeepsCore ==
  ASSUME Core, NEW cash \in BOOLEAN, collect(cash)
  PROVE  Core'
<1>1. BoardsFollow /\ ClockOK' /\ Cap' = Cap
  BY collectFollows, ClockKept DEF Core, collect
<1>2. LedgerOK'
  BY collectIs DEF Core, LedgerOK, collect, truth
<1> QED BY <1>1, <1>2, CoreCarries DEF collect, truth

LEMMA withdrawKeepsCore ==
  ASSUME Core, NEW a \in Accounts, withdraw(a)
  PROVE  Core'
<1>1. BoardsFollow /\ ClockOK' /\ Cap' = Cap
  BY withdrawFollows, ClockKept DEF Core, withdraw
<1>2. won \in PerPosition(Nat) /\ outcome \in Sides /\ Winnings(a) \in Nat
  BY withdrawIs DEF Core, LedgerOK
<1>3. won[outcome][a] + Winnings(a) \in Nat
  <2>1. won[outcome][a] \in Nat
    BY <1>2 DEF PerPosition
  <2> QED BY <1>2, <2>1
<1>4. won' = [won EXCEPT ![outcome][a] = won[outcome][a] + Winnings(a)]
  BY <1>2, withdrawIs DEF PerPosition
<1>5. won' \in PerPosition(Nat)
  BY <1>2, <1>3, <1>4, PerPositionPut
<1>6. claimed' \subseteq Sides \X Accounts
  BY withdrawIs DEF Core, LedgerOK
<1>7. LedgerOK'
  BY <1>5, <1>6, withdrawIs DEF Core, LedgerOK, withdraw, truth
<1> QED BY <1>1, <1>7, CoreCarries DEF withdraw, truth

LEMMA resolveKeepsCore ==
  ASSUME Core, NEW side \in Sides, resolve(side)
  PROVE  Core'
<1>1. ClockOK' /\ Cap' = Cap
  BY DEF Core, ClockOK, Cap, Resolved, Least, resolve
<1>2. BoardsFollow
  BY StillFollows DEF resolve
<1>3. LedgerOK'
  BY LedgerKept DEF resolve, Core, LedgerOK
<1> QED BY <1>1, <1>2, <1>3, CoreCarries DEF resolve, truth

\* What a full catch-up would credit is what everybody holds then.
LEMMA CreditsAre ==
  ASSUME NEW t \in Nat \ {0}, NEW cap \in Nat, BoardsOK, \A s \in Sides : Within(board[s], cap)
  PROVE  /\ Credits(t, cap) \in PerPosition(Nat)
         /\ \A s \in Sides, a \in Accounts :
              Credits(t, cap)[s][a] = Holding(AdvanceAll(board[s], t, cap), a)
<1>1. ASSUME NEW s \in Sides, NEW a \in Accounts
      PROVE  /\ Holding(AdvanceAll(board[s], t, cap), a) \in Nat
             /\ Settled(AdvanceAll(board[s], t, cap), a).pos[a].accrued
                  = Holding(AdvanceAll(board[s], t, cap), a)
  <2>1. Good(board[s]) /\ Within(board[s], cap) /\ board[s] \in BoardRecords
    BY BoardOf
  <2>2. PICK n \in Nat : n = Len(board[s].queue)
    BY <2>1, QueueIs
  <2>3. AdvanceAll(board[s], t, cap) = Advance(board[s], t, cap, n)
    BY <2>2 DEF AdvanceAll
  <2>4. Good(AdvanceAll(board[s], t, cap))
    BY <2>1, <2>3, FollowsAdvance DEF Follows
  <2> QED BY <2>4, SettledAccrued
<1>2. Credits(t, cap) = [s \in Sides |-> [a \in Accounts |->
        Settled(AdvanceAll(board[s], t, cap), a).pos[a].accrued]]
  BY DEF Credits
<1>3. \A s \in Sides, a \in Accounts :
        Credits(t, cap)[s][a] = Settled(AdvanceAll(board[s], t, cap), a).pos[a].accrued
  BY <1>2
<1>4. \A s \in Sides : Credits(t, cap)[s] \in [Accounts -> Nat]
  BY <1>1, <1>2
<1>5. Credits(t, cap) \in [Sides -> [Accounts -> Nat]]
  BY <1>2, <1>4
<1> QED BY <1>1, <1>3, <1>5 DEF PerPosition

LEMMA DeliveredIs ==
  ASSUME BoardsOK, now \in Nat, NEW f \in PerPosition(Nat)
  PROVE  /\ Delivered(f) \in PerPosition(Nat)
         /\ \A s \in Sides, a \in Accounts : Delivered(f)[s][a] =
              f[s][a] + IF Flows(s, a) THEN board[s].pos[a].rate ELSE 0
<1>1. Delivered(f) = [s \in Sides |-> [a \in Accounts |->
        f[s][a] + IF Flows(s, a) THEN board[s].pos[a].rate ELSE 0]]
  BY DEF Delivered
<1>2. ASSUME NEW s \in Sides, NEW a \in Accounts
      PROVE  f[s][a] + (IF Flows(s, a) THEN board[s].pos[a].rate ELSE 0) \in Nat
  <2>1. board[s].pos[a].rate \in Nat
    BY BoardOf, PositionIs
  <2>2. f[s][a] \in Nat
    BY DEF PerPosition
  <2> QED BY <2>1, <2>2
<1>3. \A s \in Sides : Delivered(f)[s] \in [Accounts -> Nat]
  BY <1>1, <1>2
<1>4. Delivered(f) \in [Sides -> [Accounts -> Nat]]
  BY <1>1, <1>3
<1> QED BY <1>1, <1>4 DEF PerPosition

LEMMA TickKeepsCore ==
  ASSUME Core, Tick
  PROVE  Core'
<1>1. ClockOK /\ LedgerOK /\ BoardsOK /\ LossExact /\ now \in Nat \ {0} /\ now + 1 \in Nat \ {0}
  BY DEF Core, ClockOK
<1>2. ClockOK' /\ Cap' \in Nat /\ Cap \in Nat
  <2>1. ClockOK'
    BY <1>1 DEF Tick, ClockOK
  <2> QED BY <1>1, <2>1, CapIs DEF Cap, ClockOK, Least, Tick
<1>3. /\ Resolved => Cap' = Cap
      /\ ~Resolved => Cap = now /\ Cap' = now + 1
      /\ Cap' = IF Resolved THEN Cap ELSE now + 1
  BY <1>1 DEF Cap, Resolved, Least, Tick, ClockOK
<1>4. board' = board
  BY DEF Tick
<1>5. \A s \in Sides : Within(board[s], Cap')
  <2> SUFFICES ASSUME NEW s \in Sides
               PROVE  Within(board[s], Cap')
    OBVIOUS
  <2>1. Within(board[s], Cap) /\ board[s].last \in Nat
    BY <1>1, BoardOf, BoardIs
  <2>2. Cap <= Cap'
    BY <1>1, <1>2, <1>3
  <2> QED BY <1>2, <2>1, <2>2 DEF Within
<1>6. BoardsOK'
  BY <1>1, <1>4, <1>5 DEF BoardsOK
<1>7. earned' \in PerPosition(Nat)
  <2>1. earned' = Credits(now + 1, Cap')
    BY <1>3 DEF Tick
  <2>2. PICK cap \in Nat : cap = Cap'
    BY <1>2
  <2>3. Credits(now + 1, cap) \in PerPosition(Nat)
    BY <1>1, <1>5, <2>2, CreditsAre
  <2> QED BY <2>1, <2>2, <2>3
<1>8. streamed' \in PerPosition(Nat) /\ overstreamed' \in PerPosition(Nat)
  BY <1>1, DeliveredIs DEF Tick, LedgerOK
<1>9. LedgerOK'
  BY <1>1, <1>7, <1>8 DEF LedgerOK, Tick, settlement
<1>10. ASSUME NEW s \in Sides, NEW a \in Accounts
       PROVE  Loss(board[s], a, Cap') = streamed'[s][a]
  <2>1. Loss(board[s], a, Cap) = streamed[s][a]
    BY <1>1 DEF LossExact
  <2>2. CASE Resolved
    BY <1>3, <2>1, <2>2 DEF Tick
  <2>3. CASE ~Resolved
    <3>1. Good(board[s]) /\ Within(board[s], Cap) /\ Cap = now /\ Cap' = now + 1
      BY <1>1, <1>3, <2>3, BoardOf
    <3>2. Loss(board[s], a, now + 1) = Loss(board[s], a, now)
            + IF board[s].pos[a].rate > 0 /\ now < board[s].pos[a].maxEnd
              THEN board[s].pos[a].rate ELSE 0
      BY <1>1, <3>1, LossTicks
    <3>3. streamed'[s][a] = streamed[s][a] + IF Flows(s, a) THEN board[s].pos[a].rate ELSE 0
      BY <1>1, <2>3, DeliveredIs DEF Tick, LedgerOK
    <3> QED BY <2>1, <3>1, <3>2, <3>3 DEF Flows
  <2> QED BY <2>2, <2>3
<1>11. LossExact'
  BY <1>4, <1>10 DEF LossExact
<1> QED BY <1>2, <1>6, <1>9, <1>11 DEF Core

LEMMA InitCore ==
  ASSUME Init
  PROVE  Core
<1>1. ClockOK
  BY DEF Init, ClockOK
<1>2. Nought \in PerPosition(Nat) /\ \A s \in Sides, a \in Accounts : Nought[s][a] = 0
  BY DEF Nought, PerPosition
<1>3. LedgerOK
  BY <1>2 DEF Init, LedgerOK
<1>4. \A s \in Sides : board[s] = NewBoard
  BY DEF Init
<1>5. Good(NewBoard) /\ NewBoard \in BoardRecords
  BY NewBoardGood DEF Good
<1>6. NewBoard.queue = << >>
  BY DEF NewBoard
<1>7. BoardsOK
  <2>1. board \in [Sides -> BoardRecords]
    BY <1>5 DEF Init
  <2> QED BY <2>1, <1>4, <1>5, <1>6 DEF BoardsOK, Within
<1>8. LossExact
  <2>1. \A a \in Accounts : Loss(NewBoard, a, Cap) = 0
    BY DEF Loss, NewBoard, NoPosition
  <2> QED BY <1>2, <1>4, <2>1 DEF LossExact, Init
<1> QED BY <1>1, <1>3, <1>7, <1>8 DEF Core

LEMMA onFundKeepsCore ==
  ASSUME Core, NEW s \in Sides, NEW a \in Accounts, NEW rate \in Nat \ {0},
         NEW maxEnd \in Nat, now <= maxEnd, onFund(s, a, rate, maxEnd)
  PROVE  Core'
BY onFundFollows, CallKeepsCore DEF onFund

LEMMA refreshKeepsCore ==
  ASSUME Core, NEW a \in Accounts, NEW lanes \in SUBSET Sides, NEW maxEnd \in Nat, now <= maxEnd,
         refreshMaxEnds(a, lanes, maxEnd)
  PROVE  Core'
BY refreshFollows, CallKeepsCore DEF refreshMaxEnds

LEMMA advanceKeepsCore ==
  ASSUME Core, NEW s \in Sides, NEW n \in Nat, advance(s, n)
  PROVE  Core'
BY advanceFollows, CallKeepsCore DEF advance

LEMMA settleKeepsCore ==
  ASSUME Core, NEW s \in Sides, NEW a \in Accounts, settle(s, a)
  PROVE  Core'
BY settleFollows, CallKeepsCore DEF settle

\* The arguments the callers pass.
LEMMA ArgumentsAre ==
  ASSUME ClockOK
  PROVE  /\ \A s \in Sides : Funders[s] \subseteq Accounts
         /\ \A a \in Accounts : Rates[a] \subseteq Nat \ {0}
         /\ \A maxEnd \in now..now + Horizon : maxEnd \in Nat /\ now <= maxEnd
         /\ 1..MaxSteps \subseteq Nat /\ FundedSides \subseteq Sides
BY VaultAssumption DEF ClockOK, FundedSides

LEMMA NextKeepsCore ==
  ASSUME Core, [Next]_vars
  PROVE  Core'
<1>1. ClockOK
  BY DEF Core
<1>2. ASSUME NEW s \in Sides, NEW a \in Funders[s], NEW rate \in Rates[a],
             NEW maxEnd \in now..now + Horizon, onFund(s, a, rate, maxEnd)
      PROVE  Core'
  <2>1. a \in Accounts /\ maxEnd \in Nat /\ now <= maxEnd
    BY <1>1, ArgumentsAre
  <2>2. rate \in Nat \ {0}
    BY <1>1, <2>1, ArgumentsAre
  <2> QED BY <1>2, <2>1, <2>2, onFundKeepsCore
<1>3. ASSUME NEW s \in Sides, NEW a \in Funders[s], onStop(s, a)
      PROVE  Core'
  <2>1. a \in Accounts
    BY <1>1, ArgumentsAre
  <2> QED BY <1>3, <2>1, onStopKeepsCore
<1>4. ASSUME NEW s \in Sides, NEW a \in Funders[s], settle(s, a)
      PROVE  Core'
  <2>1. a \in Accounts
    BY <1>1, ArgumentsAre
  <2> QED BY <1>4, <2>1, settleKeepsCore
<1>5. ASSUME NEW a \in Accounts, NEW lanes \in (SUBSET Sides) \ {{}},
             NEW maxEnd \in now..now + Horizon, refreshMaxEnds(a, lanes, maxEnd)
      PROVE  Core'
  <2>1. maxEnd \in Nat /\ now <= maxEnd /\ lanes \in SUBSET Sides
    BY <1>1, ArgumentsAre
  <2> QED BY <1>5, <2>1, refreshKeepsCore
<1>6. ASSUME NEW s \in FundedSides, NEW n \in 1..MaxSteps, advance(s, n)
      PROVE  Core'
  <2>1. n \in Nat /\ s \in Sides
    BY <1>1, ArgumentsAre
  <2> QED BY <1>6, <2>1, advanceKeepsCore
<1>7. ASSUME NEW side \in Sides, resolve(side)
      PROVE  Core'
  BY <1>7, resolveKeepsCore
<1>8. ASSUME NEW cash \in BOOLEAN, collect(cash)
      PROVE  Core'
  BY <1>8, collectKeepsCore
<1>9. ASSUME NEW a \in Accounts, withdraw(a)
      PROVE  Core'
  BY <1>9, withdrawKeepsCore
<1>10. CASE Tick
  BY <1>10, TickKeepsCore
<1>11. CASE UNCHANGED vars
  BY <1>11 DEF vars, settlement, truth, Core, ClockOK, LedgerOK, BoardsOK, LossExact, Cap,
               Resolved
<1> QED
  <2>1. CASE \E s \in Sides : \E a \in Funders[s] :
               \/ \E rate \in Rates[a], maxEnd \in now..now + Horizon : onFund(s, a, rate, maxEnd)
               \/ onStop(s, a)
               \/ settle(s, a)
    BY <2>1, <1>2, <1>3, <1>4
  <2>2. CASE \E a \in Accounts, lanes \in (SUBSET Sides) \ {{}}, maxEnd \in now..now + Horizon :
               refreshMaxEnds(a, lanes, maxEnd)
    BY <2>2, <1>5
  <2>3. CASE \E s \in FundedSides, n \in 1..MaxSteps : advance(s, n)
    BY <2>3, <1>6
  <2> QED BY <2>1, <2>2, <2>3, <1>7, <1>8, <1>9, <1>10, <1>11 DEF Next

\* The accounting of the boards is inductive: sums, order and place of every
\* boundary, and every account's loss basis, through every call and second.
THEOREM CoreInductive == Spec => []Core
<1>1. Init => Core
  BY InitCore
<1>2. Core /\ [Next]_vars => Core'
  BY NextKeepsCore
<1> QED BY <1>1, <1>2, PTL DEF Spec

-----------------------------------------------------------------------------
(* What follows from the accounting, at any moment.                        *)

\* The storage of the vault keeps its shape through every call (the state
\* variables and structs of Vault.sol), and while a board has boundaries to
\* come it is not ahead of the second accrual stops at (the clamp of nowTs in
\* _advance, line 522).
THEOREM TypeCorrect == Spec => []TypeOK
<1>1. Core => TypeOK
  <2> SUFFICES ASSUME Core
               PROVE  TypeOK
    OBVIOUS
  <2>1. ASSUME NEW s \in Sides
        PROVE  /\ DOMAIN board[s] = DOMAIN NewBoard
               /\ \A f \in {"pool", "sideRate", "g", "last", "shares"} : board[s][f] \in Nat
               /\ board[s].pos \in [Accounts -> Positions]
               /\ board[s].queue \in Seq(Boundaries)
               /\ board[s].queue # << >> => board[s].last <= Cap
    <3>1. board[s] \in BoardRecords
      BY BoardOf DEF Core
    <3>4. board[s].queue # << >> => board[s].last <= Cap
      BY BoardOf DEF Core, Within
    <3>2. DOMAIN board[s] = {"pool", "sideRate", "g", "last", "shares", "pos", "queue"}
      BY <3>1 DEF BoardRecords
    <3>3. DOMAIN NewBoard = {"pool", "sideRate", "g", "last", "shares", "pos", "queue"}
      BY DEF NewBoard
    <3> QED BY <3>1, <3>2, <3>3, <3>4, BoardIs
  <2> QED BY <2>1 DEF Core, ClockOK, LedgerOK, TypeOK
<1> QED BY <1>1, CoreInductive, PTL

\* No board passes a rate drop it has not applied: the side's rate is the sum
\* of the rates still streaming, none of them past its run-dry second, and the
\* boundary that will close each is still in its ordered queue (_advance and
\* _advanceToNow of Vault.sol, with any budget of turns).
THEOREM NeverPastDropHolds == Spec => []NeverPastDrop
<1>1. Core => NeverPastDrop
  <2> SUFFICES ASSUME Core, NEW s \in Sides, NEW b, b = board[s]
               PROVE  /\ b.sideRate = SumFunction([a \in Accounts |-> b.pos[a].rate])
                      /\ \A i, j \in DOMAIN b.queue :
                           i <= j => b.queue[i].maxEnd <= b.queue[j].maxEnd
                      /\ \A a \in Accounts : Active(b, a) =>
                           /\ b.pos[a].fundStart <= b.last
                           /\ b.last <= b.pos[a].maxEnd
                           /\ \E i \in DOMAIN b.queue :
                                b.queue[i] = [maxEnd |-> b.pos[a].maxEnd, account |-> a]
    BY DEF NeverPastDrop
  <2>1. Good(b)
    BY BoardOf DEF Core
  <2>2. b.sideRate = SumFunction([a \in Accounts |-> b.pos[a].rate])
    <3>1. SumFunction(RatesOf(b)) = SumFunctionOnSet(RatesOf(b), Accounts)
      BY SumOverAccounts DEF RatesOf
    <3> QED BY <2>1, <3>1 DEF Good, Tallied, RatesOf
  <2>3. ASSUME NEW a \in Accounts, Active(b, a)
        PROVE  /\ b.pos[a].fundStart <= b.last
               /\ b.last <= b.pos[a].maxEnd
               /\ \E i \in DOMAIN b.queue :
                    b.queue[i] = [maxEnd |-> b.pos[a].maxEnd, account |-> a]
    BY <2>1, <2>3 DEF Good, Placed, Queued, Active
  <2> QED BY <2>1, <2>2, <2>3 DEF Good, Ordered
<1> QED BY <1>1, CoreInductive, PTL

\* The loss basis of every account (_lossUsdc, the basis LVST is minted
\* against) is what its own streams delivered before resolution, through any
\* stops, re-fundings, re-pegs and run-dry ends.
THEOREM LossIsExact == Spec => []LossIsDelivered
<1>1. Core => LossIsDelivered
  BY DEF Core, LossExact, LossIsDelivered, LossUsdc, Loss
<1> QED BY <1>1, CoreInductive, PTL

\* I1: a pool and what its active streams will still add up to the accrual cap
\* is what they delivered before resolution, however late and in however many
\* bounded pokes the board is caught up (Vault.sol, the comment on collect).
THEOREM PoolIsExact == Spec => []PoolIsDelivered
<1>1. Core => PoolIsDelivered
  <2> SUFFICES ASSUME Core, NEW s \in Sides, NEW b, b = board[s]
               PROVE  b.pool + SumFunction([a \in Accounts |->
                        IF Active(b, a)
                        THEN b.pos[a].rate * (Least(b.pos[a].maxEnd, Cap) - b.last) ELSE 0])
                      = SumFunction(streamed[s])
    BY DEF PoolIsDelivered
  <2> DEFINE unbooked == [a \in Accounts |->
               IF Active(b, a)
               THEN b.pos[a].rate * (Least(b.pos[a].maxEnd, Cap) - b.last) ELSE 0]
  <2>1. /\ Good(b) /\ Within(b, Cap) /\ Cap \in Nat
        /\ streamed \in [Sides -> [Accounts -> Nat]]
    BY BoardOf, CapIs DEF Core, LedgerOK, PerPosition
  <2>2. b \in BoardRecords /\ IsFiniteSet(Accounts)
    BY <2>1, BoardAssumption DEF Good
  <2>3. ASSUME NEW a \in Accounts
        PROVE  /\ BookedOf(b)[a] \in Int /\ unbooked[a] \in Int
               /\ streamed[s][a] = BookedOf(b)[a] + unbooked[a]
    <3>1. BookedOf(b)[a] = Booked(b, a) /\ Booked(b, a) \in Int
      BY <2>2, TermsAreInts
    <3>2. Loss(b, a, Cap) = streamed[s][a]
      BY DEF Core, LossExact
    <3> QED BY <2>1, <3>1, <3>2, LossSplits
  <2>4. DOMAIN unbooked = Accounts /\ DOMAIN streamed[s] = Accounts
    BY <2>1
  <2> HIDE DEF unbooked
  <2>5. SumFunctionOnSet(streamed[s], Accounts)
          = SumFunctionOnSet(BookedOf(b), Accounts) + SumFunctionOnSet(unbooked, Accounts)
    BY <2>2, <2>3, SumAdds
  <2>6. b.pool = SumFunctionOnSet(BookedOf(b), Accounts)
    BY <2>1 DEF Good, Tallied
  <2>7. b.pool + SumFunction(unbooked) = SumFunction(streamed[s])
    BY <2>4, <2>5, <2>6, SumOverAccounts
  <2> QED BY <2>7 DEF unbooked
<1> QED BY <1>1, CoreInductive, PTL

\* The payout denominator of a side is exactly the shares its accounts hold,
\* settled and unsettled (sideShares of Vault.sol).
THEOREM SharesAreHeld == Spec => []SharesConserved
<1>1. Core => SharesConserved
  <2> SUFFICES ASSUME Core, NEW s \in Sides, NEW b, b = board[s]
               PROVE  b.shares = SumFunction([a \in Accounts |->
                        b.pos[a].accrued + b.pos[a].rate * (b.g - b.pos[a].gPaid)])
    BY DEF SharesConserved
  <2>1. Good(b)
    BY BoardOf DEF Core
  <2>2. SumFunction(HoldingsOf(b)) = SumFunctionOnSet(HoldingsOf(b), Accounts)
    BY SumOverAccounts DEF HoldingsOf
  <2> QED BY <2>1, <2>2 DEF Good, Tallied, HoldingsOf, Holding
<1> QED BY <1>1, CoreInductive, PTL

-----------------------------------------------------------------------------
(* The backlog.                                                            *)

\* The queue only lost its head.
Suffix(b, c) ==
    \E k \in 1..Len(b.queue) + 1 : c.queue = SubSeq(b.queue, k, Len(b.queue))

LEMMA SuffixSame ==
  ASSUME NEW b, Good(b), NEW c, c.queue = b.queue
  PROVE  Suffix(b, c)
<1>1. b.queue \in Seq(Boundaries) /\ Len(b.queue) \in Nat
  BY BoardIs, QueueIs DEF Good
<1>2. SubSeq(b.queue, 1, Len(b.queue)) = b.queue
  BY <1>1, SubSeqFull
<1>3. 1 \in 1..Len(b.queue) + 1
  BY <1>1
<1> QED BY <1>2, <1>3 DEF Suffix

LEMMA SuffixAdvance ==
  ASSUME NEW t \in Nat \ {0}, NEW cap \in Nat, NEW n \in Nat, NEW b, Good(b),
         NEW c, c = Advance(b, t, cap, n)
  PROVE  Suffix(b, c)
<1>1. PICK m \in 0..Len(b.queue) : c.queue = SubSeq(b.queue, m + 1, Len(b.queue))
  <2>1. Advanced(b, c, t, cap, n)
    BY AdvanceIs
  <2> QED BY <2>1 DEF Advanced
<1>2. Len(b.queue) \in Nat
  BY QueueIs DEF Good
<1>3. m + 1 \in 1..Len(b.queue) + 1
  BY <1>2
<1> QED BY <1>1, <1>3 DEF Suffix

\* A hook that found the board current had no more to do than it may.
LEMMA NoHookBehind ==
  ASSUME Core, NEW s \in Sides, Current(s)
  PROVE  ~(Backlog(s) > MaxSteps)
<1> SUFFICES ASSUME Backlog(s) > MaxSteps
             PROVE  FALSE
  OBVIOUS
<1> DEFINE q == board[s].queue
           late == {i \in DOMAIN q : q[i].maxEnd < Cap}
           c == AdvanceToNow(s)
<1>1. ClockOK /\ BoardsOK
  BY DEF Core
<1>2. /\ Cap \in Nat /\ now \in Nat \ {0} /\ MaxSteps \in Nat /\ Good(board[s])
      /\ Within(board[s], Cap)
  BY <1>1, CapIs, BoardOf, VaultAssumption DEF ClockOK
<1>3. q \in Seq(Boundaries) /\ Len(q) \in Nat /\ DOMAIN q = 1..Len(q)
  BY <1>2, BoardIs, QueueIs DEF Good
<1>4. c = Advance(board[s], now, Cap, MaxSteps) /\ CaughtUp(c, Cap)
  BY DEF AdvanceToNow, Current
<1>5. Cardinality(late) > MaxSteps
  BY DEF Backlog
<1> HIDE DEF c
<1>6. Advanced(board[s], c, now, Cap, MaxSteps)
  BY <1>2, <1>4, AdvanceIs
<1>7. Good(c) /\ c.last = Cap
  BY <1>4, <1>6 DEF Advanced, CaughtUp
<1>8. PICK m \in 0..Len(q) : m <= MaxSteps /\ c.queue = SubSeq(q, m + 1, Len(q))
  BY <1>6 DEF Advanced
<1>9. PICK i \in late : i > MaxSteps
  <2> SUFFICES ASSUME \A i \in late : ~(i > MaxSteps)
               PROVE  FALSE
    OBVIOUS
  <2>1. \A i \in late : i \in 1..MaxSteps
    BY <1>2, <1>3
  <2> HIDE DEF late
  <2>2. late \in SUBSET (1..MaxSteps)
    BY <2>1
  <2>3. IsFiniteSet(1..MaxSteps) /\ Cardinality(1..MaxSteps) <= MaxSteps
    <3>1. 1 \in Int /\ MaxSteps \in Int
      BY <1>2
    <3>2. /\ IsFiniteSet(1..MaxSteps)
          /\ Cardinality(1..MaxSteps) = IF 1 > MaxSteps THEN 0 ELSE MaxSteps - 1 + 1
      BY <3>1, FS_Interval
    <3> QED BY <1>2, <3>2
  <2>4. Cardinality(late) <= Cardinality(1..MaxSteps) /\ IsFiniteSet(late)
    BY <2>2, <2>3, FS_Subset
  <2>5. Cardinality(late) \in Nat /\ Cardinality(1..MaxSteps) \in Nat
    BY <2>3, <2>4, FS_CardinalityType
  <2> QED BY <1>2, <1>5, <2>3, <2>4, <2>5
<1>10. i \in 1..Len(q) /\ q[i].maxEnd < Cap /\ m < i
  BY <1>2, <1>3, <1>8, <1>9
<1>11. \A j \in (m + 1)..Len(q) : q[j] \in Boundaries
  <2>1. \A j \in 1..Len(q) : q[j] \in Boundaries
    BY <1>2, <1>3, QueueIs DEF Good
  <2> QED BY <1>3, <2>1
<1> HIDE DEF late, q
<1>12. /\ Len(c.queue) = IF m + 1 <= Len(q) THEN Len(q) - (m + 1) + 1 ELSE 0
       /\ \A j \in 1..(Len(q) - (m + 1) + 1) : c.queue[j] = q[(m + 1) + j - 1]
  <2>1. m + 1 \in Int /\ Len(q) \in Int
    BY <1>3
  <2> QED BY <1>8, <1>11, <2>1, SubSeqProperties
<1>13. i - m \in DOMAIN c.queue /\ c.queue[i - m] = q[i]
  <2>1. DOMAIN c.queue = 1..Len(c.queue)
    BY <1>7, QueueIs DEF Good
  <2>2. i - m \in 1..(Len(q) - (m + 1) + 1) /\ (m + 1) + (i - m) - 1 = i /\ m + 1 <= Len(q)
    BY <1>3, <1>10
  <2> QED BY <1>12, <2>1, <2>2
<1>14. Cap <= q[i].maxEnd
  BY <1>7, <1>13 DEF Good, Ahead
<1>15. q[i].maxEnd \in Nat
  BY <1>2, <1>3, <1>10, QueueIs DEF Good, q
<1> QED BY <1>2, <1>10, <1>14, <1>15

\* What a call may do to the queues: pop, and push only where no more than one
\* hook's worth was due.
QueuesShrink == \A s \in Sides : Backlog(s) > MaxSteps => Suffix(board[s], board'[s])

LEMMA HookShrinks ==
  ASSUME Core, NEW s \in Sides, Current(s), \A o \in Sides \ {s} : board'[o] = board[o]
  PROVE  QueuesShrink
<1>1. ~(Backlog(s) > MaxSteps)
  BY NoHookBehind
<1>2. \A o \in Sides \ {s} : Suffix(board[o], board'[o])
  BY BoardOf, SuffixSame DEF Core
<1> QED BY <1>1, <1>2 DEF QueuesShrink

LEMMA refreshShrinks ==
  ASSUME Core, NEW a \in Accounts, NEW lanes \in SUBSET Sides, NEW maxEnd,
         refreshMaxEnds(a, lanes, maxEnd)
  PROVE  QueuesShrink
<1>1. \A s \in lanes : ~(Backlog(s) > MaxSteps)
  BY NoHookBehind DEF refreshMaxEnds
<1>2. ASSUME NEW s \in Sides \ lanes
      PROVE  Suffix(board[s], board'[s])
  <2>1. board'[s] = board[s]
    BY DEF refreshMaxEnds
  <2> QED BY <2>1, BoardOf, SuffixSame DEF Core
<1> QED BY <1>1, <1>2 DEF QueuesShrink

LEMMA OneShrinks ==
  ASSUME Core, NEW s \in Sides, NEW c, Suffix(board[s], c), board' = [board EXCEPT ![s] = c]
  PROVE  QueuesShrink
<1>1. board'[s] = c /\ \A o \in Sides \ {s} : board'[o] = board[o]
  BY DEF Core, BoardsOK
<1>2. \A o \in Sides \ {s} : Suffix(board[o], board'[o])
  BY <1>1, BoardOf, SuffixSame DEF Core
<1> QED BY <1>1, <1>2 DEF QueuesShrink

LEMMA advanceShrinks ==
  ASSUME Core, NEW s \in Sides, NEW n \in Nat, advance(s, n)
  PROVE  QueuesShrink
<1>1. board' = [board EXCEPT ![s] = Advance(board[s], now, Cap, n)]
  BY DEF advance
<1>2. Good(board[s]) /\ now \in Nat \ {0} /\ Cap \in Nat
  BY BoardOf, CapIs DEF Core, ClockOK
<1>3. Suffix(board[s], Advance(board[s], now, Cap, n))
  BY <1>2, SuffixAdvance
<1> QED BY <1>1, <1>3, OneShrinks

LEMMA settleShrinks ==
  ASSUME Core, NEW s \in Sides, NEW a \in Accounts, settle(s, a)
  PROVE  QueuesShrink
<1> DEFINE b == AdvanceToNow(s)
           c == Settled(b, a)
<1>1. board' = [board EXCEPT ![s] = c]
  BY DEF settle
<1>2. b = Advance(board[s], now, Cap, MaxSteps) /\ MaxSteps \in Nat
  BY VaultAssumption DEF AdvanceToNow
<1>3. Good(board[s]) /\ Within(board[s], Cap) /\ now \in Nat \ {0} /\ Cap \in Nat
  BY BoardOf, CapIs DEF Core, ClockOK
<1>4. c = Settled(b, a)
  OBVIOUS
<1> HIDE DEF b, c
<1>5. Suffix(board[s], b) /\ Good(b)
  BY <1>2, <1>3, SuffixAdvance, FollowsAdvance DEF Follows
<1>6. c.queue = b.queue
  BY <1>4, <1>5, HookedSettled
<1>7. Suffix(board[s], c)
  BY <1>5, <1>6 DEF Suffix
<1> QED BY <1>1, <1>7, OneShrinks

LEMMA CaughtUpShrinks ==
  ASSUME Core, NEW s \in Sides
  PROVE  Suffix(board[s], CaughtUpBoards[s])
<1>1. Good(board[s]) /\ now \in Nat \ {0} /\ Cap \in Nat
  BY BoardOf, CapIs DEF Core, ClockOK
<1>2. PICK n \in Nat : n = Len(board[s].queue)
  BY <1>1, QueueIs DEF Good
<1>3. CaughtUpBoards[s] = Advance(board[s], now, Cap, n)
  BY <1>2 DEF CaughtUpBoards, AdvanceAll
<1> QED BY <1>1, <1>3, SuffixAdvance

LEMMA collectShrinks ==
  ASSUME Core, NEW cash \in BOOLEAN, collect(cash)
  PROVE  QueuesShrink
<1>1. board' = CaughtUpBoards
  BY DEF collect
<1> QED BY <1>1, CaughtUpShrinks DEF QueuesShrink

LEMMA withdrawShrinks ==
  ASSUME Core, NEW a \in Accounts, withdraw(a)
  PROVE  QueuesShrink
<1> SUFFICES ASSUME NEW s \in Sides
             PROVE  Suffix(board[s], board'[s])
  BY DEF QueuesShrink
<1>1. board' = [CaughtUpBoards EXCEPT ![outcome] =
                  IF <<outcome, a>> \in claimed THEN @ ELSE Settled(@, a)]
  BY DEF withdraw
<1>2. CaughtUpBoards = [o \in Sides |-> CaughtUpBoards[o]]
  BY DEF CaughtUpBoards
<1>3. board'[s] = CaughtUpBoards[s] \/ board'[s] = Settled(CaughtUpBoards[s], a)
  BY <1>1, <1>2
<1>4. Suffix(board[s], CaughtUpBoards[s]) /\ Good(CaughtUpBoards[s])
  BY CaughtUpShrinks, CaughtUpIs
<1>5. Settled(CaughtUpBoards[s], a).queue = CaughtUpBoards[s].queue
  BY <1>4, HookedSettled
<1> QED BY <1>3, <1>4, <1>5 DEF Suffix

LEMMA StillShrinks ==
  ASSUME Core, board' = board
  PROVE  QueuesShrink
BY BoardOf, SuffixSame DEF Core, QueuesShrink

\* While more boundaries are overdue than one hook may process, no call queues
\* another: within a second a side's queue only loses its head (Vault.sol, the
\* comment on _advanceToNow), whatever MAX_STEPS is.
THEOREM BacklogOnlyShrinks == Spec => BacklogShrinks
<1>1. Core /\ [Next]_vars =>
        [\A s \in Sides : now' = now /\ Backlog(s) > MaxSteps =>
           \E k \in 1..Len(board[s].queue) + 1 :
              board'[s].queue = SubSeq(board[s].queue, k, Len(board[s].queue))]_vars
  <2> SUFFICES ASSUME Core, Next
               PROVE  QueuesShrink
    BY DEF QueuesShrink, Suffix
  <2>1. ClockOK /\ board \in [Sides -> BoardRecords]
    BY DEF Core, BoardsOK
  <2>2. ASSUME NEW s \in Sides, NEW a \in Funders[s], NEW rate, NEW maxEnd,
               onFund(s, a, rate, maxEnd)
        PROVE  QueuesShrink
    <3>1. Current(s) /\ \A o \in Sides \ {s} : board'[o] = board[o]
      BY <2>1, <2>2 DEF onFund
    <3> QED BY <3>1, HookShrinks
  <2>3. ASSUME NEW s \in Sides, NEW a \in Funders[s], onStop(s, a)
        PROVE  QueuesShrink
    <3>1. Current(s) /\ \A o \in Sides \ {s} : board'[o] = board[o]
      BY <2>1, <2>3 DEF onStop
    <3> QED BY <3>1, HookShrinks
  <2>4. ASSUME NEW s \in Sides, NEW a \in Funders[s], settle(s, a)
        PROVE  QueuesShrink
    BY <2>1, <2>4, ArgumentsAre, settleShrinks
  <2>5. ASSUME NEW s \in FundedSides, NEW n \in 1..MaxSteps, advance(s, n)
        PROVE  QueuesShrink
    BY <2>1, <2>5, ArgumentsAre, advanceShrinks
  <2>6. CASE \E s \in Sides : \E a \in Funders[s] :
               \/ \E rate \in Rates[a], maxEnd \in now..now + Horizon : onFund(s, a, rate, maxEnd)
               \/ onStop(s, a)
               \/ settle(s, a)
    BY <2>2, <2>3, <2>4, <2>6
  <2>7. CASE \E a \in Accounts, lanes \in (SUBSET Sides) \ {{}}, maxEnd \in now..now + Horizon :
               refreshMaxEnds(a, lanes, maxEnd)
    BY <2>7, refreshShrinks
  <2>8. CASE \E s \in FundedSides, n \in 1..MaxSteps : advance(s, n)
    BY <2>5, <2>8
  <2>9. CASE \E side \in Sides : resolve(side)
    BY <2>9, StillShrinks DEF resolve
  <2>10. CASE \E cash \in BOOLEAN : collect(cash)
    BY <2>10, collectShrinks
  <2>11. CASE \E a \in Accounts : withdraw(a)
    BY <2>11, withdrawShrinks
  <2>12. CASE Tick
    BY <2>12, StillShrinks DEF Tick
  <2> QED BY <2>6, <2>7, <2>8, <2>9, <2>10, <2>11, <2>12 DEF Next
<1> QED BY <1>1, CoreInductive, PTL DEF Spec, BacklogShrinks

-----------------------------------------------------------------------------
(* Shares accrue with time only: what a full catch-up would credit is the  *)
(* same before and after every call.                                       *)

\* A full catch-up at t credits everybody the same on either board.
SameWorth(b, c, t, cap) ==
    \A a \in Accounts : Holding(AdvanceAll(c, t, cap), a) = Holding(AdvanceAll(b, t, cap), a)

LEMMA WorthOn ==
  ASSUME NEW b, NEW c, NEW d, NEW t, NEW cap, SameWorth(b, c, t, cap), SameWorth(c, d, t, cap)
  PROVE  SameWorth(b, d, t, cap)
BY DEF SameWorth

LEMMA WorthAdvance ==
  ASSUME NEW t \in Nat \ {0}, NEW cap \in Nat, cap <= t, NEW n \in Nat, NEW b, Good(b),
         NEW c, c = Advance(b, t, cap, n)
  PROVE  SameWorth(b, c, t, cap)
BY AdvanceOnTheWay DEF SameWorth

LEMMA WorthSettled ==
  ASSUME NEW t \in Nat \ {0}, NEW cap \in Nat, NEW b, Good(b), NEW a \in Accounts,
         NEW c, c = Settled(b, a)
  PROVE  SameWorth(b, c, t, cap)
<1>1. Good(c) /\ Alike(b, c)
  BY AlikeSettled
<1> QED BY <1>1, AlikeWorth DEF SameWorth

\* At the cap everything is credited.
LEMMA WorthAtCap ==
  ASSUME NEW t \in Nat \ {0}, NEW cap \in Nat, NEW b, Good(b), cap <= b.last, NEW a \in Accounts
  PROVE  Holding(AdvanceAll(b, t, cap), a) = Holding(b, a)
<1>1. PICK n \in Nat : n = Len(b.queue)
  BY QueueIs DEF Good
<1>2. PICK c : c = Advance(b, t, cap, n)
  OBVIOUS
<1>3. AdvanceAll(b, t, cap) = c
  BY <1>1, <1>2 DEF AdvanceAll
<1>4. Advanced(b, c, t, cap, n)
  BY <1>2, AdvanceIs
<1>5. KeptOf(b, c, cap, a)
  BY <1>4 DEF Advanced
<1> QED BY <1>3, <1>5 DEF KeptOf

LEMMA WorthHooked ==
  ASSUME NEW t \in Nat \ {0}, NEW cap \in Nat, NEW b, Good(b), cap <= b.last,
         NEW c, HookKeeps(b, c)
  PROVE  SameWorth(b, c, t, cap)
<1>1. Good(c) /\ c.last = b.last
  BY DEF HookKeeps
<1> SUFFICES ASSUME NEW a \in Accounts
             PROVE  Holding(AdvanceAll(c, t, cap), a) = Holding(AdvanceAll(b, t, cap), a)
  BY DEF SameWorth
<1>2. Holding(AdvanceAll(b, t, cap), a) = Holding(b, a)
  BY WorthAtCap
<1>3. Holding(AdvanceAll(c, t, cap), a) = Holding(c, a)
  BY <1>1, WorthAtCap
<1>4. Holding(c, a) = Holding(b, a)
  BY DEF HookKeeps
<1> QED BY <1>2, <1>3, <1>4

\* The board a hook works on is worth what it found.
LEMMA WorthAtHook ==
  ASSUME Core, NEW s \in Sides, NEW a \in Accounts, NEW b, b = Settled(AdvanceToNow(s), a)
  PROVE  SameWorth(board[s], b, now, Cap)
<1> DEFINE c == AdvanceToNow(s)
<1>1. Cap \in Nat /\ Cap <= now /\ now \in Nat \ {0} /\ MaxSteps \in Nat
  BY CapIs, VaultAssumption DEF Core, ClockOK
<1>2. Good(board[s]) /\ Within(board[s], Cap)
  BY BoardOf DEF Core
<1>3. c = Advance(board[s], now, Cap, MaxSteps) /\ b = Settled(c, a)
  BY DEF AdvanceToNow
<1> HIDE DEF c
<1>4. Good(c)
  BY <1>1, <1>2, <1>3, FollowsAdvance DEF Follows
<1>5. SameWorth(board[s], c, now, Cap)
  BY <1>1, <1>2, <1>3, WorthAdvance
<1>6. SameWorth(c, b, now, Cap)
  BY <1>1, <1>3, <1>4, WorthSettled
<1> QED BY <1>5, <1>6, WorthOn

\* The boards after a call are worth what they were before it.
BoardsWorth == \A s \in Sides : SameWorth(board[s], board'[s], now, Cap)

LEMMA OneWorth ==
  ASSUME Core, NEW s \in Sides, NEW c, SameWorth(board[s], c, now, Cap),
         board' = [board EXCEPT ![s] = c]
  PROVE  BoardsWorth
<1>1. board \in [Sides -> BoardRecords]
  BY DEF Core, BoardsOK
<1>2. ASSUME NEW o \in Sides
      PROVE  SameWorth(board[o], board'[o], now, Cap)
  <2>1. board'[o] = IF o = s THEN c ELSE board[o]
    BY <1>1
  <2> QED BY <2>1 DEF SameWorth
<1> QED BY <1>2 DEF BoardsWorth

LEMMA onFundWorth ==
  ASSUME Core, NEW s \in Sides, NEW a \in Accounts, NEW rate \in Nat \ {0},
         NEW maxEnd \in Nat, now <= maxEnd, onFund(s, a, rate, maxEnd)
  PROVE  BoardsWorth
<1>1. ClockOK /\ BoardsOK /\ ~Resolved /\ Current(s)
  BY DEF Core, onFund
<1>2. PICK b \in {Settled(AdvanceToNow(s), a)} :
        /\ b.pos[a].rate = 0
        /\ board' = [board EXCEPT ![s] = Opened(b, a, rate, maxEnd, now)]
  BY DEF onFund
<1>3. b = Settled(AdvanceToNow(s), a)
  BY <1>2
<1>4. /\ Good(b) /\ b.last = Cap /\ 0 < b.last
  BY <1>1, <1>3, HookAtCap
<1>5. Cap = now /\ Cap \in Nat /\ now \in Nat \ {0}
  BY <1>1, CapIs DEF ClockOK
<1> DEFINE c == Opened(b, a, rate, maxEnd, now)
<1>6. c = Opened(b, a, rate, maxEnd, b.last) /\ b.last # 0 /\ b.last <= maxEnd
  BY <1>4, <1>5
<1>7. board' = [board EXCEPT ![s] = c]
  BY <1>2
<1> HIDE DEF c
<1>8. HookKeeps(b, c)
  BY <1>2, <1>4, <1>6, HookedOpened
<1>9. SameWorth(b, c, now, Cap)
  BY <1>4, <1>5, <1>8, WorthHooked
<1>10. SameWorth(board[s], b, now, Cap)
  BY <1>3, WorthAtHook
<1>11. SameWorth(board[s], c, now, Cap)
  BY <1>9, <1>10, WorthOn
<1> QED BY <1>7, <1>11, OneWorth

LEMMA onStopWorth ==
  ASSUME Core, NEW s \in Sides, NEW a \in Accounts, onStop(s, a)
  PROVE  BoardsWorth
<1>1. PICK b, c : /\ b = Settled(AdvanceToNow(s), a) /\ Good(b) /\ b.last = Cap
                  /\ board' = [board EXCEPT ![s] = c] /\ HookKeeps(b, c)
  BY onStopIs
<1>2. Cap \in Nat /\ now \in Nat \ {0} /\ Cap <= Cap
  BY CapIs DEF Core, ClockOK
<1>3. SameWorth(b, c, now, Cap)
  BY <1>1, <1>2, WorthHooked
<1>4. SameWorth(board[s], b, now, Cap)
  BY <1>1, WorthAtHook
<1>5. SameWorth(board[s], c, now, Cap)
  BY <1>3, <1>4, WorthOn
<1> QED BY <1>1, <1>5, OneWorth

LEMMA refreshWorth ==
  ASSUME Core, NEW a \in Accounts, NEW lanes \in SUBSET Sides, NEW maxEnd \in Nat, now <= maxEnd,
         refreshMaxEnds(a, lanes, maxEnd)
  PROVE  BoardsWorth
<1>1. ClockOK /\ BoardsOK
  BY DEF Core
<1> DEFINE base(s) == Settled(AdvanceToNow(s), a)
           c(s) == Repegged(base(s), a, maxEnd)
<1>2. board' = [s \in Sides |-> IF s \in lanes THEN c(s) ELSE board[s]]
  BY DEF refreshMaxEnds
<1>3. ASSUME NEW s \in lanes
      PROVE  SameWorth(board[s], c(s), now, Cap)
  <2>1. s \in Sides /\ Current(s)
    BY DEF refreshMaxEnds
  <2>2. base(s) = Settled(AdvanceToNow(s), a) /\ c(s) = Repegged(base(s), a, maxEnd)
    OBVIOUS
  <2> HIDE DEF base, c
  <2>3. Good(base(s)) /\ base(s).last = Cap
    BY <1>1, <2>1, <2>2, HookAtCap
  <2>4. Cap \in Nat /\ Cap <= now /\ now \in Nat \ {0}
    BY <1>1, CapIs DEF ClockOK
  <2>5. base(s).last <= maxEnd /\ Cap <= base(s).last
    BY <2>3, <2>4
  <2>6. HookKeeps(base(s), c(s))
    BY <2>2, <2>3, <2>5, HookedRepegged
  <2>7. SameWorth(base(s), c(s), now, Cap)
    BY <2>3, <2>4, <2>5, <2>6, WorthHooked
  <2>8. SameWorth(board[s], base(s), now, Cap)
    BY <2>1, <2>2, WorthAtHook
  <2> QED BY <2>7, <2>8, WorthOn
<1> HIDE DEF c
<1>4. ASSUME NEW s \in Sides
      PROVE  SameWorth(board[s], board'[s], now, Cap)
  <2>1. CASE s \in lanes
    BY <1>2, <1>3, <2>1
  <2>2. CASE s \notin lanes
    <3>1. board'[s] = board[s]
      BY <1>2, <2>2
    <3> QED BY <3>1 DEF SameWorth
  <2> QED BY <2>1, <2>2
<1> QED BY <1>4 DEF BoardsWorth

LEMMA advanceWorth ==
  ASSUME Core, NEW s \in Sides, NEW n \in Nat, advance(s, n)
  PROVE  BoardsWorth
<1>1. board' = [board EXCEPT ![s] = Advance(board[s], now, Cap, n)]
  BY DEF advance
<1>2. Cap \in Nat /\ Cap <= now /\ now \in Nat \ {0} /\ Good(board[s])
  BY CapIs, BoardOf DEF Core, ClockOK
<1>3. SameWorth(board[s], Advance(board[s], now, Cap, n), now, Cap)
  BY <1>2, WorthAdvance
<1> QED BY <1>1, <1>3, OneWorth

LEMMA settleWorth ==
  ASSUME Core, NEW s \in Sides, NEW a \in Accounts, settle(s, a)
  PROVE  BoardsWorth
<1> DEFINE c == Settled(AdvanceToNow(s), a)
<1>1. board' = [board EXCEPT ![s] = c] /\ c = Settled(AdvanceToNow(s), a)
  BY DEF settle
<1> HIDE DEF c
<1>2. SameWorth(board[s], c, now, Cap)
  BY <1>1, WorthAtHook
<1> QED BY <1>1, <1>2, OneWorth

LEMMA CaughtUpWorth ==
  ASSUME Core, NEW s \in Sides
  PROVE  SameWorth(board[s], CaughtUpBoards[s], now, Cap)
<1>1. Cap \in Nat /\ Cap <= now /\ now \in Nat \ {0} /\ Good(board[s])
  BY CapIs, BoardOf DEF Core, ClockOK
<1>2. PICK n \in Nat : n = Len(board[s].queue)
  BY <1>1, QueueIs DEF Good
<1>3. CaughtUpBoards[s] = Advance(board[s], now, Cap, n)
  BY <1>2 DEF CaughtUpBoards, AdvanceAll
<1> QED BY <1>1, <1>3, WorthAdvance

LEMMA collectWorth ==
  ASSUME Core, NEW cash \in BOOLEAN, collect(cash)
  PROVE  BoardsWorth
<1>1. board' = CaughtUpBoards
  BY collectFollows
<1> QED BY <1>1, CaughtUpWorth DEF BoardsWorth

LEMMA withdrawWorth ==
  ASSUME Core, NEW a \in Accounts, withdraw(a)
  PROVE  BoardsWorth
<1>1. outcome \in Sides /\ Cap \in Nat /\ now \in Nat \ {0}
  BY CapIs DEF Core, ClockOK, withdraw, Resolved
<1> DEFINE boards == CaughtUpBoards
           c == Settled(boards[outcome], a)
<1>2. board' = [boards EXCEPT ![outcome] = IF <<outcome, a>> \in claimed THEN @ ELSE Settled(@, a)]
  BY DEF withdraw
<1>3. boards = [s \in Sides |-> boards[s]] /\ c = Settled(boards[outcome], a)
  BY DEF CaughtUpBoards
<1>4. \A s \in Sides : board'[s] = boards[s] \/ (s = outcome /\ board'[s] = c)
  BY <1>1, <1>2, <1>3
<1> HIDE DEF c
<1>5. SameWorth(boards[outcome], c, now, Cap)
  BY <1>1, <1>3, CaughtUpIs, WorthSettled
<1>6. ASSUME NEW s \in Sides
      PROVE  SameWorth(board[s], board'[s], now, Cap)
  <2>1. SameWorth(board[s], boards[s], now, Cap)
    BY CaughtUpWorth
  <2> QED BY <1>4, <1>5, <2>1, WorthOn
<1> QED BY <1>6 DEF BoardsWorth

\* What is credited on boards of the same worth.
CreditsOf(boards, t, cap) == [s \in Sides |-> [a \in Accounts |->
    Settled(AdvanceAll(boards[s], t, cap), a).pos[a].accrued]]

LEMMA CreditedIs ==
  ASSUME NEW t \in Nat \ {0}, NEW cap \in Nat, NEW b, Good(b), NEW a \in Accounts
  PROVE  Settled(AdvanceAll(b, t, cap), a).pos[a].accrued = Holding(AdvanceAll(b, t, cap), a)
<1>1. PICK n \in Nat : n = Len(b.queue)
  BY QueueIs DEF Good
<1>2. PICK c : c = Advance(b, t, cap, n)
  OBVIOUS
<1>3. AdvanceAll(b, t, cap) = c
  BY <1>1, <1>2 DEF AdvanceAll
<1>4. Good(c)
  BY <1>2, AdvanceIs DEF Advanced
<1> QED BY <1>3, <1>4, SettledAccrued

LEMMA CreditsAgree ==
  ASSUME NEW t \in Nat \ {0}, NEW cap \in Nat, NEW b, NEW c,
         \A s \in Sides : Good(b[s]) /\ Good(c[s]) /\ SameWorth(b[s], c[s], t, cap)
  PROVE  CreditsOf(c, t, cap) = CreditsOf(b, t, cap)
<1>1. ASSUME NEW s \in Sides, NEW a \in Accounts
      PROVE  Settled(AdvanceAll(c[s], t, cap), a).pos[a].accrued
               = Settled(AdvanceAll(b[s], t, cap), a).pos[a].accrued
  <2>1. Good(b[s]) /\ Good(c[s])
    OBVIOUS
  <2>2. Holding(AdvanceAll(c[s], t, cap), a) = Holding(AdvanceAll(b[s], t, cap), a)
    BY DEF SameWorth
  <2>3. /\ Settled(AdvanceAll(b[s], t, cap), a).pos[a].accrued
             = Holding(AdvanceAll(b[s], t, cap), a)
        /\ Settled(AdvanceAll(c[s], t, cap), a).pos[a].accrued
             = Holding(AdvanceAll(c[s], t, cap), a)
    BY <2>1, CreditedIs
  <2> QED BY ONLY <2>2, <2>3
<1>2. ASSUME NEW s \in Sides
      PROVE  [a \in Accounts |-> Settled(AdvanceAll(c[s], t, cap), a).pos[a].accrued]
               = [a \in Accounts |-> Settled(AdvanceAll(b[s], t, cap), a).pos[a].accrued]
  BY <1>1
<1> QED BY <1>2, Zenon DEF CreditsOf

\* A call that is worth nothing keeps the promise.
LEMMA WorthKeeps ==
  ASSUME Core, Core', OnlyTimeEarns, BoardsWorth,
         now' = now, Cap' = Cap, earned' = earned
  PROVE  OnlyTimeEarns'
<1>1. now \in Nat \ {0} /\ Cap \in Nat
  BY CapIs DEF Core, ClockOK
<1>2. \A s \in Sides : /\ Good(board[s]) /\ Good(board'[s])
                       /\ SameWorth(board[s], board'[s], now, Cap)
  BY DEF Core, BoardsOK, BoardsWorth
<1>3. PICK t, cap, b, c : t = now /\ cap = Cap /\ b = board /\ c = board'
  OBVIOUS
<1>4. CreditsOf(c, t, cap) = CreditsOf(b, t, cap)
  BY <1>1, <1>2, <1>3, CreditsAgree
<1>5. Credits(now, Cap) = CreditsOf(b, t, cap)
  BY <1>3 DEF Credits, CreditsOf
<1>6. Credits(now, Cap)' = CreditsOf(c, t, cap)
  BY <1>3 DEF Credits, CreditsOf
<1> QED BY <1>4, <1>5, <1>6 DEF OnlyTimeEarns

LEMMA resolveEarnsNothing ==
  ASSUME Core, OnlyTimeEarns, NEW side \in Sides, resolve(side)
  PROVE  OnlyTimeEarns'
<1>1. ClockOK' /\ Cap' = Cap
  BY DEF Core, ClockOK, Cap, Resolved, Least, resolve
<1>2. Core'
  BY resolveKeepsCore
<1>3. BoardsWorth /\ now' = now /\ earned' = earned
  BY DEF resolve, truth, BoardsWorth, SameWorth
<1> QED BY <1>1, <1>2, <1>3, WorthKeeps

\* A second is credited as it passes.
LEMMA TickEarns ==
  ASSUME Core, Tick
  PROVE  OnlyTimeEarns'
<1>1. Cap' = IF Resolved THEN Cap ELSE now + 1
  BY DEF Cap, Resolved, Least, Tick, Core, ClockOK
<1>2. board' = board /\ now' = now + 1
  BY DEF Tick
<1>3. earned' = Credits(now', Cap')
  BY <1>1, <1>2 DEF Tick
<1>4. PICK t, cap : t = now' /\ cap = Cap'
  OBVIOUS
<1>5. Credits(now, Cap)' = CreditsOf(board', t, cap)
  BY <1>4 DEF Credits, CreditsOf
<1>6. Credits(t, cap) = CreditsOf(board, t, cap)
  BY DEF Credits, CreditsOf
<1> QED BY <1>2, <1>3, <1>4, <1>5, <1>6 DEF OnlyTimeEarns

LEMMA InitEarnsNothing ==
  ASSUME Init
  PROVE  OnlyTimeEarns
<1>1. now = 1 /\ Cap \in Nat /\ earned = Nought /\ \A s \in Sides : board[s] = NewBoard
  BY InitCore, CapIs DEF Init, Core
<1>2. PICK t \in Nat \ {0} : t = now
  BY <1>1
<1>3. PICK cap \in Nat : cap = Cap
  BY <1>1
<1>4. Good(NewBoard) /\ NewBoard.last = 0
  BY NewBoardGood DEF NewBoard
<1>5. PICK c : c = [NewBoard EXCEPT !.last = t]
  OBVIOUS
<1>6. AdvanceAll(NewBoard, t, cap) = c
  BY <1>4, <1>5 DEF AdvanceAll, Advance
<1>7. c.pos = NewBoard.pos /\ c.g = NewBoard.g
  BY <1>4, <1>5, TouchedIs
<1>8. ASSUME NEW a \in Accounts
      PROVE  Settled(AdvanceAll(NewBoard, t, cap), a).pos[a].accrued = 0
  <2>1. Holding(c, a) = 0
    BY <1>7 DEF Holding, NewBoard, NoPosition
  <2>2. Settled(AdvanceAll(NewBoard, t, cap), a).pos[a].accrued = Holding(AdvanceAll(NewBoard, t, cap), a)
    BY <1>4, CreditedIs
  <2> QED BY <1>6, <2>1, <2>2
<1>9. Credits(t, cap) = Nought
  BY <1>1, <1>8 DEF Credits, Nought
<1> QED BY <1>1, <1>2, <1>3, <1>9 DEF OnlyTimeEarns

LEMMA NextEarns ==
  ASSUME Core, OnlyTimeEarns, [Next]_vars
  PROVE  OnlyTimeEarns'
<1>1. ClockOK /\ Core'
  BY NextKeepsCore DEF Core
<1>2. ASSUME BoardsWorth, UNCHANGED <<now, outcome, resolvedAt>>, earned' = earned
      PROVE  OnlyTimeEarns'
  <2>1. now' = now /\ Cap' = Cap
    BY <1>1, <1>2, ClockKept
  <2> QED BY <1>1, <1>2, <2>1, WorthKeeps
<1>3. ASSUME NEW s \in Sides, NEW a \in Funders[s], NEW rate \in Rates[a],
             NEW maxEnd \in now..now + Horizon, onFund(s, a, rate, maxEnd)
      PROVE  OnlyTimeEarns'
  <2>1. a \in Accounts /\ maxEnd \in Nat /\ now <= maxEnd
    BY <1>1, ArgumentsAre
  <2>2. rate \in Nat \ {0}
    BY <1>1, <2>1, ArgumentsAre
  <2>3. BoardsWorth
    BY <1>3, <2>1, <2>2, onFundWorth
  <2> QED BY <1>2, <1>3, <2>3 DEF onFund, truth
<1>4. ASSUME NEW s \in Sides, NEW a \in Funders[s], onStop(s, a)
      PROVE  OnlyTimeEarns'
  <2>1. a \in Accounts
    BY <1>1, ArgumentsAre
  <2>2. BoardsWorth
    BY <1>4, <2>1, onStopWorth
  <2> QED BY <1>2, <1>4, <2>2 DEF onStop, truth
<1>5. ASSUME NEW s \in Sides, NEW a \in Funders[s], settle(s, a)
      PROVE  OnlyTimeEarns'
  <2>1. a \in Accounts
    BY <1>1, ArgumentsAre
  <2>2. BoardsWorth
    BY <1>5, <2>1, settleWorth
  <2> QED BY <1>2, <1>5, <2>2 DEF settle, truth
<1>6. ASSUME NEW a \in Accounts, NEW lanes \in (SUBSET Sides) \ {{}},
             NEW maxEnd \in now..now + Horizon, refreshMaxEnds(a, lanes, maxEnd)
      PROVE  OnlyTimeEarns'
  <2>1. maxEnd \in Nat /\ now <= maxEnd /\ lanes \in SUBSET Sides
    BY <1>1, ArgumentsAre
  <2>2. BoardsWorth
    BY <1>6, <2>1, refreshWorth
  <2> QED BY <1>2, <1>6, <2>2 DEF refreshMaxEnds, truth
<1>7. ASSUME NEW s \in FundedSides, NEW n \in 1..MaxSteps, advance(s, n)
      PROVE  OnlyTimeEarns'
  <2>1. n \in Nat /\ s \in Sides
    BY <1>1, ArgumentsAre
  <2>2. BoardsWorth
    BY <1>7, <2>1, advanceWorth
  <2> QED BY <1>2, <1>7, <2>2 DEF advance, truth
<1>8. ASSUME NEW side \in Sides, resolve(side)
      PROVE  OnlyTimeEarns'
  BY <1>8, resolveEarnsNothing
<1>9. ASSUME NEW cash \in BOOLEAN, collect(cash)
      PROVE  OnlyTimeEarns'
  <2>1. BoardsWorth
    BY <1>9, collectWorth
  <2> QED BY <1>2, <1>9, <2>1 DEF collect, truth
<1>10. ASSUME NEW a \in Accounts, withdraw(a)
      PROVE  OnlyTimeEarns'
  <2>1. BoardsWorth
    BY <1>10, withdrawWorth
  <2> QED BY <1>2, <1>10, <2>1 DEF withdraw, truth
<1>11. CASE Tick
  BY <1>11, TickEarns
<1>12. CASE UNCHANGED vars
  <2>1. BoardsWorth
    BY <1>12 DEF vars, BoardsWorth, SameWorth
  <2> QED BY <1>2, <1>12, <2>1 DEF vars, truth
<1> QED
  <2>1. CASE \E s \in Sides : \E a \in Funders[s] :
               \/ \E rate \in Rates[a], maxEnd \in now..now + Horizon : onFund(s, a, rate, maxEnd)
               \/ onStop(s, a)
               \/ settle(s, a)
    BY <2>1, <1>3, <1>4, <1>5
  <2>2. CASE \E a \in Accounts, lanes \in (SUBSET Sides) \ {{}}, maxEnd \in now..now + Horizon :
               refreshMaxEnds(a, lanes, maxEnd)
    BY <2>2, <1>6
  <2>3. CASE \E s \in FundedSides, n \in 1..MaxSteps : advance(s, n)
    BY <2>3, <1>7
  <2> QED BY <2>1, <2>2, <2>3, <1>8, <1>9, <1>10, <1>11, <1>12 DEF Next

\* Within a second no call, by anybody and in any order, changes the shares an
\* account has earned: settled, pending on a board that is behind, or banked by
\* a stop (_advance, _settle and the hooks of Vault.sol, for any MAX_STEPS).
THEOREM EarnedByTimeOnly == Spec => []OnlyTimeEarns
<1>1. Init => Core /\ OnlyTimeEarns
  BY InitCore, InitEarnsNothing
<1>2. Core /\ OnlyTimeEarns /\ [Next]_vars => (Core /\ OnlyTimeEarns)'
  BY NextKeepsCore, NextEarns
<1> QED BY <1>1, <1>2, PTL DEF Spec

\* The preview, which closes nothing on its way, promises what a settle would
\* credit, on a board that may be behind or over, as long as no account has two
\* boundaries of one second (pendingShares and _previewG of Vault.sol).
THEOREM PreviewPromises == Spec => []PreviewAgrees
<1>1. Core /\ OnlyTimeEarns => PreviewAgrees
  <2> SUFFICES ASSUME Core, OnlyTimeEarns, NEW s \in Sides, NEW a \in Accounts, ~Twins(board[s])
               PROVE  PendingShares(board[s], a, Cap) = earned[s][a]
    BY DEF PreviewAgrees
  <2>1. Cap \in Nat /\ now \in Nat \ {0} /\ Good(board[s])
    BY CapIs, BoardOf DEF Core, ClockOK
  <2>2. PICK cap \in Nat : cap = Cap
    BY <2>1
  <2>3. OneEach(board[s])
    BY DEF Twins, OneEach
  <2>4. PICK b : b = board[s]
    OBVIOUS
  <2>5. PendingShares(b, a, cap) = Holding(AdvanceAll(b, now, cap), a)
    BY <2>1, <2>3, <2>4, PendingIs
  <2>6. Settled(AdvanceAll(b, now, cap), a).pos[a].accrued = Holding(AdvanceAll(b, now, cap), a)
    BY <2>1, <2>4, CreditedIs
  <2>7. earned[s][a] = Settled(AdvanceAll(b, now, cap), a).pos[a].accrued
    BY <2>2, <2>4 DEF OnlyTimeEarns, Credits
  <2> QED BY <2>2, <2>4, <2>5, <2>6, <2>7
<1> QED BY <1>1, CoreInductive, EarnedByTimeOnly, PTL

-----------------------------------------------------------------------------
(* The settlement: the steps of a vault, as it sees them.                  *)

\* A call that touches the boards only: before resolution anything a stream
\* may do, after it nothing but accrual up to the cap.
Poke ==
    /\ UNCHANGED <<now, outcome, resolvedAt, overageOwed, settlement, truth>>
    /\ Resolved => \A s \in Sides, a \in Accounts : KeptOf(board[s], board'[s], Cap, a)

LEMMA KeptItself ==
  ASSUME NEW b, NEW cap, NEW a
  PROVE  KeptOf(b, b, cap, a)
BY DEF KeptOf

LEMMA KeptSettled ==
  ASSUME NEW cap \in Nat, NEW b, NEW c, Good(c), NEW a \in Accounts, NEW o \in Accounts,
         KeptOf(b, c, cap, o), Within(c, cap), cap <= b.last => cap <= c.last,
         NEW d, d = Settled(c, a)
  PROVE  KeptOf(b, d, cap, o)
<1>1. /\ d.pos[o].rate = c.pos[o].rate /\ d.pos[o].maxEnd = c.pos[o].maxEnd
      /\ d.pos[o].depleted = c.pos[o].depleted /\ d.pos[o].fundStart = c.pos[o].fundStart
      /\ d.pos[o].lost = c.pos[o].lost /\ HookKeeps(c, d)
  BY HookedSettled
<1>2. Holding(d, o) = Holding(c, o)
  BY <1>1 DEF HookKeeps
<1>3. Loss(d, o, cap) = Loss(c, o, cap)
  BY <1>1 DEF Loss, Streamed
<1> QED BY <1>1, <1>2, <1>3 DEF KeptOf

LEMMA advancePokes ==
  ASSUME Core, NEW s \in Sides, NEW n \in Nat, advance(s, n)
  PROVE  Poke
<1>1. board' = [board EXCEPT ![s] = Advance(board[s], now, Cap, n)]
  BY DEF advance
<1>2. Good(board[s]) /\ now \in Nat \ {0} /\ Cap \in Nat /\ board \in [Sides -> BoardRecords]
  BY BoardOf, CapIs DEF Core, ClockOK, BoardsOK
<1>3. Advanced(board[s], Advance(board[s], now, Cap, n), now, Cap, n)
  BY <1>2, AdvanceIs
<1>4. ASSUME NEW o \in Sides, NEW a \in Accounts
      PROVE  KeptOf(board[o], board'[o], Cap, a)
  <2>1. CASE o = s
    <3>1. board'[s] = Advance(board[s], now, Cap, n)
      BY <1>1, <1>2
    <3> QED BY <1>3, <2>1, <3>1 DEF Advanced
  <2>2. CASE o # s
    <3>1. board'[o] = board[o]
      BY <1>1, <1>2, <2>2
    <3> QED BY <3>1, KeptItself
  <2> QED BY <2>1, <2>2
<1> QED BY <1>4 DEF Poke, advance

LEMMA settlePokes ==
  ASSUME Core, NEW s \in Sides, NEW a \in Accounts, settle(s, a)
  PROVE  Poke
<1> DEFINE b == AdvanceToNow(s)
           c == Settled(b, a)
<1>1. board' = [board EXCEPT ![s] = c]
  BY DEF settle
<1>2. /\ Good(board[s]) /\ Within(board[s], Cap) /\ now \in Nat \ {0} /\ Cap \in Nat
      /\ board \in [Sides -> BoardRecords]
  BY BoardOf, CapIs DEF Core, ClockOK, BoardsOK
<1>3. b = Advance(board[s], now, Cap, MaxSteps) /\ MaxSteps \in Nat
  BY VaultAssumption DEF AdvanceToNow
<1>4. c = Settled(b, a)
  OBVIOUS
<1> HIDE DEF b, c
<1>5. Advanced(board[s], b, now, Cap, MaxSteps)
  BY <1>2, <1>3, AdvanceIs
<1>6. Follows(board[s], b, Cap)
  BY <1>2, <1>3, FollowsAdvance
<1>7. Good(b) /\ Within(b, Cap) /\ (Cap <= board[s].last => Cap <= b.last)
  BY <1>6 DEF Follows
<1>8. \A o \in Accounts : KeptOf(board[s], c, Cap, o)
  <2> SUFFICES ASSUME NEW o \in Accounts
               PROVE  KeptOf(board[s], c, Cap, o)
    OBVIOUS
  <2>1. KeptOf(board[s], b, Cap, o)
    BY <1>5 DEF Advanced
  <2> QED BY <1>2, <1>4, <1>7, <2>1, KeptSettled
<1>9. ASSUME NEW t \in Sides, NEW o \in Accounts
      PROVE  KeptOf(board[t], board'[t], Cap, o)
  <2>1. CASE t = s
    <3>1. board'[s] = c
      BY <1>1, <1>2
    <3> QED BY <1>8, <2>1, <3>1
  <2>2. CASE t # s
    <3>1. board'[t] = board[t]
      BY <1>1, <1>2, <2>2
    <3> QED BY <3>1, KeptItself
  <2> QED BY <2>1, <2>2
<1> QED BY <1>9 DEF Poke, settle

\* Every step, and what it does to the boards.
Seen ==
    /\ BoardsFollow
    /\ \/ \E cash \in BOOLEAN : collect(cash)
       \/ \E a \in Accounts : withdraw(a)
       \/ \E s \in Sides, a \in Accounts : onStop(s, a)
       \/ \E a \in Accounts, lanes \in SUBSET Sides, maxEnd \in Nat :
            now <= maxEnd /\ refreshMaxEnds(a, lanes, maxEnd)
       \/ \E side \in Sides : resolve(side)
       \/ Tick
       \/ Poke

LEMMA StepIs ==
  ASSUME Core, [Next]_vars
  PROVE  Seen
<1>1. ClockOK
  BY DEF Core
<1>2. ASSUME NEW s \in Sides, NEW a \in Funders[s], NEW rate \in Rates[a],
             NEW maxEnd \in now..now + Horizon, onFund(s, a, rate, maxEnd)
      PROVE  Seen
  <2>1. a \in Accounts /\ maxEnd \in Nat /\ now <= maxEnd
    BY <1>1, ArgumentsAre
  <2>2. rate \in Nat \ {0}
    BY <1>1, <2>1, ArgumentsAre
  <2>3. BoardsFollow
    BY <1>2, <2>1, <2>2, onFundFollows
  <2>4. Poke
    BY <1>2 DEF onFund, Poke
  <2> QED BY <2>3, <2>4 DEF Seen
<1>3. ASSUME NEW s \in Sides, NEW a \in Funders[s], onStop(s, a)
      PROVE  Seen
  <2>1. a \in Accounts
    BY <1>1, ArgumentsAre
  <2> QED BY <1>3, <2>1, onStopFollows DEF Seen
<1>4. ASSUME NEW s \in Sides, NEW a \in Funders[s], settle(s, a)
      PROVE  Seen
  <2>1. a \in Accounts
    BY <1>1, ArgumentsAre
  <2> QED BY <1>4, <2>1, settleFollows, settlePokes DEF Seen
<1>5. ASSUME NEW a \in Accounts, NEW lanes \in (SUBSET Sides) \ {{}},
             NEW maxEnd \in now..now + Horizon, refreshMaxEnds(a, lanes, maxEnd)
      PROVE  Seen
  <2>1. maxEnd \in Nat /\ now <= maxEnd /\ lanes \in SUBSET Sides
    BY <1>1, ArgumentsAre
  <2>2. BoardsFollow
    BY <1>5, <2>1, refreshFollows
  <2> QED BY <1>5, <2>1, <2>2 DEF Seen
<1>6. ASSUME NEW s \in FundedSides, NEW n \in 1..MaxSteps, advance(s, n)
      PROVE  Seen
  <2>1. n \in Nat /\ s \in Sides
    BY <1>1, ArgumentsAre
  <2> QED BY <1>6, <2>1, advanceFollows, advancePokes DEF Seen
<1>7. ASSUME NEW side \in Sides, resolve(side)
      PROVE  Seen
  BY <1>7, StillFollows DEF resolve, Seen
<1>8. ASSUME NEW cash \in BOOLEAN, collect(cash)
      PROVE  Seen
  BY <1>8, collectFollows DEF Seen
<1>9. ASSUME NEW a \in Accounts, withdraw(a)
      PROVE  Seen
  BY <1>9, withdrawFollows DEF Seen
<1>10. CASE Tick
  BY <1>10, StillFollows DEF Tick, Seen
<1>11. CASE UNCHANGED vars
  <2>1. BoardsFollow
    BY <1>11, StillFollows DEF vars
  <2>2. Poke
    BY <1>11, KeptItself DEF vars, Poke
  <2> QED BY <2>1, <2>2 DEF Seen
<1>12. CASE \E s \in Sides : \E a \in Funders[s] :
              \/ \E rate \in Rates[a], maxEnd \in now..now + Horizon : onFund(s, a, rate, maxEnd)
              \/ onStop(s, a)
              \/ settle(s, a)
  BY <1>12, <1>2, <1>3, <1>4
<1>13. CASE \E a \in Accounts, lanes \in (SUBSET Sides) \ {{}}, maxEnd \in now..now + Horizon :
              refreshMaxEnds(a, lanes, maxEnd)
  BY <1>13, <1>5
<1>14. CASE \E s \in FundedSides, n \in 1..MaxSteps : advance(s, n)
  BY <1>14, <1>6
<1>15. Seen
  BY <1>12, <1>13, <1>14, <1>7, <1>8, <1>9, <1>10, <1>11 DEF Next
<1> QED BY <1>15

-----------------------------------------------------------------------------
(* The pot and its shares.                                                 *)

\* What an account's settled and unsettled shares earn of the pot.
Quota(a) == (pot * Holding(board[outcome], a)) \div board[outcome].shares

\* Nothing is paid before the first collect; from then on the boards are at
\* the cap, pot and skim are what the pools hold, and a winner has been paid
\* its quota or nothing yet.
Shared ==
    /\ ~collected => claimed = {} /\ skimmed = 0 /\ \A s \in Sides, a \in Accounts : won[s][a] = 0
    /\ collected =>
         /\ Resolved
         /\ \A s \in Sides : Cap <= board[s].last
         /\ pot + skimOwed + skimmed = board["Yes"].pool + board["No"].pool
         /\ HasTreasury /\ board[outcome].shares = 0 => pot = 0
         /\ \A a \in Accounts :
              /\ won[outcome][a] = IF <<outcome, a>> \in claimed THEN Quota(a) ELSE 0
              /\ <<outcome, a>> \in claimed => board[outcome].shares # 0

\* Once collected no step moves a pool, a denominator or anybody's shares.
Steady ==
    /\ outcome' = outcome /\ outcome \in Sides /\ Resolved'
    /\ \A s \in Sides : /\ Cap' <= board'[s].last
                        /\ board'[s].pool = board[s].pool /\ board'[s].shares = board[s].shares
                        /\ \A a \in Accounts : Holding(board'[s], a) = Holding(board[s], a)

LEMMA ResolvedStays ==
  ASSUME Core, [Next]_vars, Resolved
  PROVE  outcome' = outcome /\ outcome \in Sides /\ resolvedAt' = resolvedAt /\ Cap' = Cap /\ Resolved'
<1>1. Core' /\ Seen
  BY NextKeepsCore, StepIs
<1>2. outcome' = outcome /\ resolvedAt' = resolvedAt
  BY <1>1 DEF Seen, collect, withdraw, onStop, refreshMaxEnds, resolve, Tick, Poke
<1>3. Resolved'
  BY <1>2 DEF Resolved
<1>4. Cap = resolvedAt /\ outcome \in Sides
  BY CapIs DEF Core, ClockOK, Resolved
<1>5. ClockOK'
  BY <1>1 DEF Core
<1>6. Cap' = resolvedAt'
  BY <1>3, <1>5 DEF ClockOK, Cap, Least
<1> QED BY <1>2, <1>3, <1>4, <1>6

LEMMA CollectedIsSteady ==
  ASSUME Core, Shared, [Next]_vars, collected
  PROVE  Steady
<1>1. Resolved /\ \A s \in Sides : Cap <= board[s].last
  BY DEF Shared
<1>2. /\ outcome' = outcome /\ outcome \in Sides /\ Cap' = Cap /\ Resolved'
  BY <1>1, ResolvedStays
<1>3. BoardsFollow
  BY StepIs DEF Seen
<1> QED BY <1>1, <1>2, <1>3 DEF BoardsFollow, Follows, Steady

LEMMA SteadyShares ==
  ASSUME Shared, collected, collected', Steady, pot' = pot, won' = won, claimed' = claimed,
         skimOwed' + skimmed' = skimOwed + skimmed, Core, Core'
  PROVE  Shared'
<1>1. "Yes" \in Sides /\ "No" \in Sides
  BY DEF Sides
<1>2. /\ pot \in Nat /\ skimOwed \in Nat /\ skimmed \in Nat /\ skimOwed' \in Nat /\ skimmed' \in Nat
  BY DEF Core, LedgerOK
<1>3. pot + skimOwed + skimmed = board["Yes"].pool + board["No"].pool
  BY DEF Shared
<1>4. pot' + skimOwed' + skimmed' = board'["Yes"].pool + board'["No"].pool
  <2>1. /\ pot' + skimOwed' + skimmed' = pot' + (skimOwed' + skimmed')
        /\ pot + skimOwed + skimmed = pot + (skimOwed + skimmed)
    BY <1>2
  <2>2. pot' + skimOwed' + skimmed' = pot + skimOwed + skimmed
    BY <2>1
  <2> QED BY <1>1, <1>3, <2>2 DEF Steady
<1>5. \A a \in Accounts : Quota(a)' = Quota(a)
  BY DEF Quota, Steady
<1> QED BY <1>4, <1>5 DEF Shared, Steady

LEMMA firstCollectShares ==
  ASSUME Core, Core', Shared, ~collected, NEW cash \in BOOLEAN, collect(cash)
  PROVE  Shared'
<1> DEFINE boards == CaughtUpBoards
           fresh == FinalSkim(boards)
<1>1. /\ board' = boards /\ collected' = TRUE /\ claimed' = claimed /\ won' = won
      /\ outcome' = outcome /\ resolvedAt' = resolvedAt /\ now' = now /\ Resolved
  BY DEF collect
<1>2. claimed = {} /\ skimmed = 0 /\ \A s \in Sides, a \in Accounts : won[s][a] = 0
  BY DEF Shared
<1>3. /\ outcome \in Sides /\ fresh \in Nat /\ pot' \in Nat
      /\ pot' = boards["Yes"].pool + boards["No"].pool - fresh
      /\ skimOwed' + skimmed' = fresh + skimmed /\ skimOwed' \in Nat /\ skimmed' \in Nat
  BY collectIs
<1>4. Resolved' /\ Cap' = Cap
  BY <1>1 DEF Resolved, Cap
<1>5. \A s \in Sides : Cap <= boards[s].last /\ boards[s].pool \in Nat
  <2>1. \A s \in Sides : Cap <= boards[s].last /\ Good(boards[s])
    BY CaughtUpIs
  <2> QED BY <2>1, BoardIs DEF Good
<1>6. boards["Yes"].pool \in Nat /\ boards["No"].pool \in Nat
  BY <1>5 DEF Sides
<1>7. HasTreasury /\ boards[outcome].shares = 0 => pot' = 0
  <2> SUFFICES ASSUME HasTreasury, boards[outcome].shares = 0
               PROVE  pot' = 0
    OBVIOUS
  <2>1. fresh = boards[outcome].pool + boards[Other(outcome)].pool
    BY DEF FinalSkim
  <2>2. boards[outcome].pool + boards[Other(outcome)].pool
          = boards["Yes"].pool + boards["No"].pool
    BY <1>3, <1>5, SkimIs
  <2> QED BY <1>3, <1>6, <2>1, <2>2
<1> HIDE DEF boards, fresh
<1>8. pot' + skimOwed' + skimmed' = boards["Yes"].pool + boards["No"].pool
  BY <1>2, <1>3, <1>6
<1> QED BY <1>1, <1>2, <1>3, <1>4, <1>5, <1>7, <1>8 DEF Shared

\* A winner is paid its quota, once.
LEMMA WinningsAre ==
  ASSUME Core, Shared, collected, NEW a \in Accounts
  PROVE  /\ outcome \in Sides
         /\ Quota(a) \in Nat \/ board[outcome].shares = 0
         /\ Winnings(a) = IF board[outcome].shares = 0 \/ <<outcome, a>> \in claimed
                          THEN 0 ELSE Quota(a)
<1>1. Resolved /\ outcome \in Sides /\ Cap <= board[outcome].last
  BY DEF Shared, Core, ClockOK, Resolved
<1> DEFINE c == CaughtUpBoards[outcome]
<1>2. Follows(board[outcome], c, Cap) /\ Good(c)
  BY <1>1, CaughtUpIs
<1>3. c.shares = board[outcome].shares /\ Holding(c, a) = Holding(board[outcome], a)
  BY <1>1, <1>2 DEF Follows
<1>4. pot \in Nat
  BY DEF Core, LedgerOK
<1>5. /\ Payout(c, a) \in Nat
      /\ c.shares = 0 \/ <<outcome, a>> \in claimed => Payout(c, a) = 0
      /\ ~(c.shares = 0 \/ <<outcome, a>> \in claimed) =>
               Payout(c, a) = (pot * Holding(c, a)) \div c.shares
  BY <1>2, <1>4, PayoutIs
<1>6. Winnings(a) = Payout(c, a)
  BY DEF Winnings
<1> HIDE DEF c
<1>7. Winnings(a) = IF board[outcome].shares = 0 \/ <<outcome, a>> \in claimed
                    THEN 0 ELSE Quota(a)
  BY <1>3, <1>5, <1>6 DEF Quota
<1>8. Quota(a) \in Nat \/ board[outcome].shares = 0
  <2>1. Good(board[outcome])
    BY <1>1, BoardOf DEF Core
  <2>2. board[outcome].shares \in Nat /\ Holding(board[outcome], a) \in Nat
    BY <2>1, BoardIs, GoodTerms DEF Good
  <2>3. pot * Holding(board[outcome], a) \in Nat
    BY <1>4, <2>2, NatTimes
  <2> QED BY <2>2, <2>3, DivNat DEF Quota
<1> QED BY <1>1, <1>7, <1>8

LEMMA withdrawShares ==
  ASSUME Core, Core', Shared, Steady, NEW a \in Accounts, withdraw(a)
  PROVE  Shared'
<1>1. /\ collected /\ collected' = collected /\ pot' = pot /\ skimOwed' = skimOwed
      /\ skimmed' = skimmed
  BY DEF withdraw
<1>2. /\ outcome \in Sides /\ Winnings(a) \in Nat
      /\ won' = [won EXCEPT ![outcome][a] = @ + Winnings(a)]
      /\ claimed' = IF Winnings(a) > 0 THEN claimed \cup {<<outcome, a>>} ELSE claimed
  BY withdrawIs
<1>3. won \in PerPosition(Nat) /\ won' \in PerPosition(Nat)
  BY DEF Core, LedgerOK
<1>4. \A o \in Accounts : won'[outcome][o] =
        IF o = a THEN won[outcome][a] + Winnings(a) ELSE won[outcome][o]
  <2>1. won' = [won EXCEPT ![outcome][a] = won[outcome][a] + Winnings(a)]
    BY <1>2, <1>3 DEF PerPosition
  <2>2. won[outcome] \in [Accounts -> Nat] /\ won \in [Sides -> [Accounts -> Nat]]
    BY <1>2, <1>3 DEF PerPosition
  <2>3. won'[outcome] = [won[outcome] EXCEPT ![a] = won[outcome][a] + Winnings(a)]
    BY <1>2, <2>1, <2>2
  <2> QED BY <2>2, <2>3
<1>5. Winnings(a) = IF board[outcome].shares = 0 \/ <<outcome, a>> \in claimed
                    THEN 0 ELSE Quota(a)
  BY <1>1, WinningsAre
<1>6. \A o \in Accounts : Quota(o)' = Quota(o)
  BY <1>1 DEF Quota, Steady
<1>7. \A o \in Accounts :
        /\ won[outcome][o] = IF <<outcome, o>> \in claimed THEN Quota(o) ELSE 0
        /\ <<outcome, o>> \in claimed => board[outcome].shares # 0
        /\ won[outcome][o] \in Nat
  BY <1>1, <1>2, <1>3 DEF Shared, PerPosition
<1>8. ASSUME NEW o \in Accounts
      PROVE  /\ won'[outcome][o] = IF <<outcome, o>> \in claimed' THEN Quota(o) ELSE 0
             /\ <<outcome, o>> \in claimed' => board[outcome].shares # 0
  <2>1. CASE o # a
    <3>1. <<outcome, o>> \in claimed' <=> <<outcome, o>> \in claimed
      BY <1>2, <2>1
    <3> QED BY <1>4, <1>7, <2>1, <3>1
  <2>2. CASE o = a /\ Winnings(a) > 0
    <3>1. <<outcome, a>> \in claimed' /\ <<outcome, a>> \notin claimed /\ board[outcome].shares # 0
      BY <1>2, <1>5, <2>2
    <3>2. won[outcome][a] = 0 /\ Winnings(a) = Quota(a)
      BY <1>5, <1>7, <3>1
    <3>3. won'[outcome][a] = Quota(a)
      BY <1>2, <1>4, <3>2
    <3> QED BY <2>2, <3>1, <3>3
  <2>3. CASE o = a /\ ~(Winnings(a) > 0)
    <3>1. Winnings(a) = 0 /\ claimed' = claimed
      BY <1>2, <2>3
    <3>2. won'[outcome][a] = won[outcome][a]
      <4>1. won'[outcome][a] = won[outcome][a] + 0
        BY <1>4, <3>1
      <4>2. won[outcome][a] \in Nat
        BY <1>7
      <4> QED BY <4>1, <4>2
    <3> QED BY <1>7, <2>3, <3>1, <3>2
  <2> QED BY <2>1, <2>2, <2>3
<1>9. "Yes" \in Sides /\ "No" \in Sides
  BY DEF Sides
<1>10. pot' + skimOwed' + skimmed' = board'["Yes"].pool + board'["No"].pool
  BY <1>1, <1>9 DEF Shared, Steady
<1>11. outcome' = outcome /\ board'[outcome].shares = board[outcome].shares
  BY <1>2 DEF Steady
<1>12. HasTreasury /\ board'[outcome].shares = 0 => pot' = 0
  BY <1>1, <1>11 DEF Shared
<1>13. \A o \in Accounts :
         /\ won'[outcome'][o] = IF <<outcome', o>> \in claimed' THEN Quota(o)' ELSE 0
         /\ <<outcome', o>> \in claimed' => board'[outcome'].shares # 0
  BY <1>6, <1>8, <1>11
<1> QED BY <1>1, <1>10, <1>11, <1>12, <1>13 DEF Shared, Steady

LEMMA InitShares ==
  ASSUME Init
  PROVE  Shared
BY DEF Init, Shared, Nought

LEMMA NextShares ==
  ASSUME Core, Shared, [Next]_vars
  PROVE  Shared'
<1>1. Core' /\ Seen
  BY NextKeepsCore, StepIs
<1>2. CASE ~collected
  <2>1. CASE \E cash \in BOOLEAN : collect(cash)
    BY <1>1, <1>2, <2>1, firstCollectShares
  <2>2. CASE collected' = collected /\ claimed' = claimed /\ skimmed' = skimmed /\ won' = won
    BY <1>2, <2>2 DEF Shared
  <2>3. \/ \E cash \in BOOLEAN : collect(cash)
        \/ collected' = collected /\ claimed' = claimed /\ skimmed' = skimmed /\ won' = won
    BY <1>1, <1>2 DEF Seen, withdraw, onStop, refreshMaxEnds, resolve, Tick, Poke, settlement
  <2> QED BY <2>1, <2>2, <2>3
<1>3. CASE collected
  <2>1. Steady
    BY <1>3, CollectedIsSteady
  <2>2. ASSUME NEW cash \in BOOLEAN, collect(cash)
        PROVE  Shared'
    <3>1. pot' = pot /\ skimOwed' + skimmed' = skimOwed + skimmed
      BY <1>3, <2>2, collectIs
    <3>2. won' = won /\ claimed' = claimed /\ collected'
      BY <2>2 DEF collect
    <3> QED BY <1>1, <1>3, <2>1, <3>1, <3>2, SteadyShares
  <2>3. ASSUME NEW a \in Accounts, withdraw(a)
        PROVE  Shared'
    BY <1>1, <2>1, <2>3, withdrawShares
  <2>4. CASE UNCHANGED settlement
    BY <1>1, <1>3, <2>1, <2>4, SteadyShares DEF settlement
  <2> QED BY <1>1, <2>2, <2>3, <2>4 DEF Seen, onStop, refreshMaxEnds, resolve, Tick, Poke
<1> QED BY <1>2, <1>3 DEF Core, LedgerOK

\* The pot, its shares and the boards they are taken of are inductive beside
\* the accounting.
THEOREM SharedInductive == Spec => [](Core /\ Shared)
<1>1. Init => Core /\ Shared
  BY InitCore, InitShares
<1>2. Core /\ Shared /\ [Next]_vars => (Core /\ Shared)'
  BY NextKeepsCore, NextShares
<1> QED BY <1>1, <1>2, PTL DEF Spec

-----------------------------------------------------------------------------
(* Where the pot comes from.                                               *)

\* The pool of a side that reached the cap is what its streams delivered.
LEMMA PoolAtCap ==
  ASSUME Core, NEW s \in Sides, Cap <= board[s].last
  PROVE  board[s].pool = SumFunction(streamed[s])
<1> DEFINE b == board[s]
<1>1. /\ Good(b) /\ Within(b, Cap) /\ Cap \in Nat
      /\ streamed \in [Sides -> [Accounts -> Nat]]
  BY BoardOf, CapIs DEF Core, LedgerOK, PerPosition
<1>2. b \in BoardRecords /\ IsFiniteSet(Accounts) /\ b.last \in Nat /\ Cap <= b.last
  BY <1>1, BoardAssumption, BoardIs DEF Good
<1> HIDE DEF b
<1>3. ASSUME NEW a \in Accounts
      PROVE  BookedOf(b)[a] \in Int /\ streamed[s][a] = BookedOf(b)[a]
  <2>1. BookedOf(b)[a] = Booked(b, a) /\ Booked(b, a) \in Int
    BY <1>2, TermsAreInts
  <2>2. Loss(b, a, Cap) = streamed[s][a]
    BY DEF Core, LossExact, b
  <2> DEFINE unbooked == IF Active(b, a)
                         THEN b.pos[a].rate * (Least(b.pos[a].maxEnd, Cap) - b.last) ELSE 0
  <2>3. unbooked \in Int /\ Loss(b, a, Cap) = Booked(b, a) + unbooked
    BY <1>1, LossSplits
  <2>4. unbooked = 0
    <3>1. ASSUME Active(b, a)
          PROVE  Least(b.pos[a].maxEnd, Cap) = b.last /\ b.pos[a].rate \in Nat
      <4>1. b.last <= b.pos[a].maxEnd /\ Queued(b, a)
        BY <1>1, <3>1 DEF Active, Good, Placed
      <4>2. DOMAIN << >> = {}
        OBVIOUS
      <4>3. b.last <= Cap
        BY <1>1, <4>1, <4>2 DEF Queued, Within
      <4>4. b.pos[a].maxEnd \in Nat /\ b.pos[a].rate \in Nat
        BY <1>2, PositionIs
      <4> QED BY <1>1, <1>2, <4>1, <4>3, <4>4 DEF Least
    <3>2. \A x \in Nat, y \in Nat : x * (y - y) = 0
      OBVIOUS
    <3> QED BY <1>2, <3>1, <3>2
  <2> QED BY <2>1, <2>2, <2>3, <2>4
<1>4. SumFunctionOnSet(streamed[s], Accounts) = SumFunctionOnSet(BookedOf(b), Accounts)
  BY <1>2, <1>3, SumSame
<1>5. b.pool = SumFunctionOnSet(BookedOf(b), Accounts)
  BY <1>1 DEF Good, Tallied
<1>6. DOMAIN streamed[s] = Accounts
  BY <1>1
<1> QED BY <1>4, <1>5, <1>6, SumOverAccounts DEF b

\* Once collected, the pot and the skim, owed or sent, are exactly what both
\* sides delivered up to resolution, whatever the order of collects, late
\* stops and pokes (collect and _flushSkim of Vault.sol).
THEOREM PotIsWhatWasDelivered == Spec => []PotIsDelivered
<1>1. Core /\ Shared => PotIsDelivered
  <2> SUFFICES ASSUME Core, Shared, collected
               PROVE  pot + skimOwed + skimmed
                        = SumFunction(streamed["Yes"]) + SumFunction(streamed["No"])
    BY DEF PotIsDelivered
  <2>1. "Yes" \in Sides /\ "No" \in Sides
    BY DEF Sides
  <2>2. /\ pot + skimOwed + skimmed = board["Yes"].pool + board["No"].pool
        /\ \A s \in Sides : Cap <= board[s].last
    BY DEF Shared
  <2>3. /\ board["Yes"].pool = SumFunction(streamed["Yes"])
        /\ board["No"].pool = SumFunction(streamed["No"])
    BY <2>1, <2>2, PoolAtCap
  <2> QED BY <2>2, <2>3
<1> QED BY <1>1, SharedInductive, PTL

-----------------------------------------------------------------------------
(* Who shares it.                                                          *)

\* Rounded down, quotas sum to no more than the pot and miss it by less than
\* one unit each.
LEMMA QuotasShare ==
  ASSUME NEW p \in Nat, NEW b, Good(b), b.shares # 0,
         NEW f, \A a \in Accounts : f[a] = (p * Holding(b, a)) \div b.shares
  PROVE  /\ SumFunctionOnSet(f, Accounts) \in Nat
         /\ SumFunctionOnSet(f, Accounts) <= p
         /\ p - SumFunctionOnSet(f, Accounts) < Cardinality(Accounts)
<1> DEFINE d == b.shares
           h == HoldingsOf(b)
           total == SumFunctionOnSet(f, Accounts)
           card == Cardinality(Accounts)
<1>1. IsFiniteSet(Accounts) /\ b \in BoardRecords /\ d \in Nat \ {0} /\ card \in Nat
  BY BoardAssumption, FS_CardinalityType, BoardIs DEF Good
<1>2. d = SumFunctionOnSet(h, Accounts)
  BY DEF Good, Tallied
<1>3. \A a \in Accounts : h[a] = Holding(b, a) /\ h[a] \in Nat
  BY GoodTerms DEF HoldingsOf
<1> DEFINE whole == [a \in Accounts |-> p * h[a]]
           part == [a \in Accounts |-> d * f[a]]
           slack == [a \in Accounts |-> d - 1]
           over == [a \in Accounts |-> d * f[a] + (d - 1)]
<1> HIDE DEF d, h
<1>4. ASSUME NEW a \in Accounts
      PROVE  /\ f[a] \in Nat /\ whole[a] \in Nat /\ part[a] \in Nat /\ over[a] \in Nat
             /\ part[a] <= whole[a] /\ whole[a] <= over[a] /\ slack[a] = d - 1
             /\ whole[a] = p * h[a] /\ part[a] = d * f[a] /\ over[a] = part[a] + slack[a]
  <2> DEFINE x == p * h[a]
  <2>1. x \in Nat
    BY <1>3, NatTimes
  <2>2. whole[a] = x /\ part[a] = d * f[a] /\ slack[a] = d - 1 /\ over[a] = d * f[a] + (d - 1)
    OBVIOUS
  <2>3. f[a] = x \div d
    BY <1>3 DEF d
  <2> HIDE DEF x, whole, part, slack, over
  <2>4. f[a] \in Nat /\ d * f[a] <= x /\ x < d * f[a] + d
    BY <1>1, <2>1, <2>3, DivNat, DivIs
  <2>5. d * f[a] \in Nat
    BY <1>1, <2>4, NatTimes
  <2> DEFINE y == d * f[a]
  <2>6. y \in Nat /\ y <= x /\ x < y + d /\ part[a] = y /\ over[a] = y + (d - 1)
    BY <2>2, <2>4, <2>5
  <2> HIDE DEF y
  <2>7. part[a] <= whole[a] /\ whole[a] <= over[a] /\ over[a] \in Nat /\ over[a] = part[a] + slack[a]
    BY <1>1, <2>1, <2>2, <2>6
  <2> QED BY <2>1, <2>2, <2>4, <2>5, <2>7 DEF x
<1> HIDE DEF whole, part, slack, over
<1>5. total \in Nat
  BY <1>1, <1>4, SumNat
<1>6. SumFunctionOnSet(whole, Accounts) = p * d
  <2>1. \A a \in Accounts : h[a] \in Int /\ whole[a] = p * h[a]
    BY <1>3, <1>4
  <2>2. SumFunctionOnSet(whole, Accounts) = p * SumFunctionOnSet(h, Accounts)
    BY <1>1, <2>1, SumScales
  <2> QED BY <1>2, <2>2
<1>7. SumFunctionOnSet(part, Accounts) = d * total
  <2>1. \A a \in Accounts : f[a] \in Int /\ part[a] = d * f[a]
    BY <1>4
  <2> QED BY <1>1, <2>1, SumScales
<1>8. SumFunctionOnSet(slack, Accounts) = (d - 1) * card
  <2>1. d - 1 \in Int /\ \A a \in Accounts : slack[a] = d - 1
    BY <1>1, <1>4
  <2> QED BY <1>1, <2>1, SumConstant
<1>9. SumFunctionOnSet(over, Accounts)
        = SumFunctionOnSet(part, Accounts) + SumFunctionOnSet(slack, Accounts)
  <2>1. \A a \in Accounts : part[a] \in Int /\ slack[a] \in Int /\ over[a] = part[a] + slack[a]
    BY <1>1, <1>4
  <2> QED BY <1>1, <2>1, SumAdds
<1>10. SumFunctionOnSet(part, Accounts) <= SumFunctionOnSet(whole, Accounts)
  <2>1. \A a \in Accounts : part[a] \in Int /\ whole[a] \in Int /\ part[a] <= whole[a]
    BY <1>4
  <2> QED BY <1>1, <2>1, SumOrdered
<1>11. SumFunctionOnSet(whole, Accounts) <= SumFunctionOnSet(over, Accounts)
  <2>1. \A a \in Accounts : whole[a] \in Int /\ over[a] \in Int /\ whole[a] <= over[a]
    BY <1>4
  <2> QED BY <1>1, <2>1, SumOrdered
<1>12. card # 0
  <2> SUFFICES ASSUME card = 0
               PROVE  FALSE
    OBVIOUS
  <2>1. Accounts = {}
    BY <1>1, FS_EmptySet
  <2>2. SumFunctionOnSet(h, {}) = 0
    BY SumEmpty
  <2> QED BY <1>1, <1>2, <2>1, <2>2
<1> HIDE DEF total, card
<1>13. d * total <= p * d
  BY <1>6, <1>7, <1>10
<1>14. p * d <= d * total + (d - 1) * card
  BY <1>6, <1>7, <1>8, <1>9, <1>11
<1>15. total <= p
  <2> SUFFICES ASSUME p < total
               PROVE  FALSE
    BY <1>5
  <2>1. d * p + d <= d * total
    BY <1>1, <1>5, Factor
  <2>2. d * p = p * d /\ d * p \in Nat
    BY <1>1, NatTimes
  <2> QED BY <1>1, <1>5, <1>13, <2>1, <2>2
<1>16. p - total < card
  <2> SUFFICES ASSUME total + card <= p
               PROVE  FALSE
    BY <1>1, <1>5
  <2>1. d * (total + card) <= d * p
    BY <1>1, <1>5, TimesOrdered
  <2>2. d * (total + card) = d * total + d * card
    BY <1>1, <1>5
  <2>3. (d - 1) * card = d * card - card
    BY <1>1
  <2>4. d * p = p * d
    BY <1>1
  <2>5. d * total \in Nat /\ d * card \in Nat /\ d * p \in Nat
    BY <1>1, <1>5, NatTimes
  <2> DEFINE u == d * total
             v == d * card
             w == d * p
  <2>6. u \in Nat /\ v \in Nat /\ w \in Nat /\ u + v <= w /\ w <= u + (v - card)
    BY <1>14, <2>1, <2>2, <2>3, <2>4, <2>5
  <2> HIDE DEF u, v, w
  <2> QED BY <1>1, <1>12, <2>6
<1> QED BY <1>5, <1>15, <1>16 DEF total, card

\* What winners were paid and can still claim is never more than the pot, and
\* all of it but rounding dust, less than one unit for each account (_payWinnings
\* of Vault.sol), in a vault with a treasury to take a pot nobody shares.
THEOREM WinnersAreCovered == ASSUME HasTreasury PROVE Spec => []WinnersShareThePot
<1>1. Core /\ Shared => WinnersShareThePot
  <2> DEFINE f == [a \in Accounts |-> won[outcome][a] + Claimable(a)]
  <2> SUFFICES ASSUME Core, Shared, collected
               PROVE  /\ SumFunction(f) <= pot
                      /\ pot > 0 => pot - SumFunction(f) < Cardinality(Accounts)
    BY DEF WinnersShareThePot
  <2>1. /\ outcome \in Sides /\ pot \in Nat /\ Good(board[outcome])
        /\ won \in PerPosition(Nat) /\ IsFiniteSet(Accounts)
    BY BoardOf, BoardAssumption DEF Core, LedgerOK, ClockOK, Shared, Resolved
  <2>2. ASSUME NEW a \in Accounts
        PROVE  f[a] = IF board[outcome].shares = 0 THEN 0 ELSE Quota(a)
    <3>1. f[a] = won[outcome][a] + Winnings(a)
      BY DEF Claimable, Winnings
    <3>2. /\ Winnings(a) = IF board[outcome].shares = 0 \/ <<outcome, a>> \in claimed
                           THEN 0 ELSE Quota(a)
          /\ Quota(a) \in Nat \/ board[outcome].shares = 0
      BY WinningsAre
    <3>3. /\ won[outcome][a] = IF <<outcome, a>> \in claimed THEN Quota(a) ELSE 0
          /\ <<outcome, a>> \in claimed => board[outcome].shares # 0
      BY DEF Shared
    <3> HIDE DEF f
    <3> QED BY <3>1, <3>2, <3>3
  <2>3. SumFunction(f) = SumFunctionOnSet(f, Accounts)
    BY SumOverAccounts
  <2> HIDE DEF f
  <2>4. CASE board[outcome].shares = 0
    <3>1. pot = 0
      BY <2>4 DEF Shared
    <3>2. SumFunctionOnSet(f, Accounts) = 0 * Cardinality(Accounts)
      <4>1. \A a \in Accounts : f[a] = 0
        BY <2>2, <2>4
      <4> QED BY <2>1, <4>1, SumConstant
    <3>3. 0 * Cardinality(Accounts) = 0
      BY <2>1, FS_CardinalityType
    <3> QED BY <2>3, <3>1, <3>2, <3>3
  <2>5. CASE board[outcome].shares # 0
    <3>1. \A a \in Accounts : f[a] = (pot * Holding(board[outcome], a)) \div board[outcome].shares
      BY <2>2, <2>5 DEF Quota
    <3>2. /\ SumFunctionOnSet(f, Accounts) <= pot
          /\ pot - SumFunctionOnSet(f, Accounts) < Cardinality(Accounts)
      BY <2>1, <2>5, <3>1, QuotasShare
    <3> QED BY <2>3, <3>2
  <2> QED BY <2>4, <2>5
<1> QED BY <1>1, SharedInductive, PTL

-----------------------------------------------------------------------------
(* What is refunded.                                                       *)

\* What the stream behind a position delivered between resolution at r and t.
Late(b, a, t, r) ==
    LET end == Least(b.pos[a].maxEnd, t)
    IN  IF b.pos[a].rate > 0 /\ end > r THEN b.pos[a].rate * (end - r) ELSE 0

LEMMA LateIs ==
  ASSUME NEW b, Good(b), NEW a \in Accounts, NEW t \in Nat, NEW r \in Nat
  PROVE  /\ Late(b, a, t, r) \in Nat
         /\ b.pos[a].rate > 0 /\ Least(b.pos[a].maxEnd, t) > r =>
              Late(b, a, t, r) = b.pos[a].rate * (Least(b.pos[a].maxEnd, t) - r)
         /\ b.pos[a].rate = 0 \/ ~(Least(b.pos[a].maxEnd, t) > r) => Late(b, a, t, r) = 0
<1> DEFINE rate == b.pos[a].rate
           end == Least(b.pos[a].maxEnd, t)
<1>1. rate \in Nat /\ end \in Nat
  BY PositionIs DEF Good, Least
<1>2. Late(b, a, t, r) = IF rate > 0 /\ end > r THEN rate * (end - r) ELSE 0
  BY DEF Late
<1> HIDE DEF rate, end
<1>3. end > r => rate * (end - r) \in Nat
  <2> SUFFICES ASSUME end > r
               PROVE  rate * (end - r) \in Nat
    OBVIOUS
  <2>1. end - r \in Nat
    BY <1>1
  <2> QED BY <1>1, <2>1, NatTimes
<1>4. /\ Late(b, a, t, r) \in Nat
      /\ rate > 0 /\ end > r => Late(b, a, t, r) = rate * (end - r)
      /\ rate = 0 \/ ~(end > r) => Late(b, a, t, r) = 0
  BY <1>1, <1>2, <1>3
<1> QED BY <1>4 DEF rate, end

\* Catching up moves none of it: only streams that ended by the cap leave.
LEMMA LateKept ==
  ASSUME NEW b, Good(b), NEW c, Good(c), NEW a \in Accounts, NEW t \in Nat, NEW r \in Nat,
         KeptOf(b, c, r, a)
  PROVE  Late(c, a, t, r) = Late(b, a, t, r)
<1>1. c.pos[a].maxEnd = b.pos[a].maxEnd
  BY DEF KeptOf
<1>2. CASE c.pos[a].rate = b.pos[a].rate
  BY <1>1, <1>2 DEF Late
<1>3. CASE c.pos[a].rate = 0 /\ b.pos[a].maxEnd <= r
  <2>1. b.pos[a].maxEnd \in Nat
    BY PositionIs DEF Good
  <2>2. ~(Least(b.pos[a].maxEnd, t) > r)
    BY <1>3, <2>1 DEF Least
  <2>3. Late(b, a, t, r) = 0 /\ Late(c, a, t, r) = 0
    BY <1>3, <2>2, LateIs
  <2> QED BY <2>3
<1> QED BY <1>2, <1>3 DEF KeptOf

\* A second adds the rate of a stream that has not run dry.
LEMMA LateTicks ==
  ASSUME NEW b, Good(b), NEW a \in Accounts, NEW t \in Nat, NEW r \in Nat, r <= t
  PROVE  Late(b, a, t + 1, r) = Late(b, a, t, r)
           + IF b.pos[a].rate > 0 /\ t < b.pos[a].maxEnd THEN b.pos[a].rate ELSE 0
<1> DEFINE rate == b.pos[a].rate
           end == b.pos[a].maxEnd
<1>1. rate \in Nat /\ end \in Nat
  BY PositionIs DEF Good
<1>2. \A u \in Nat : Late(b, a, u, r) =
        IF rate > 0 /\ Least(end, u) > r THEN rate * (Least(end, u) - r) ELSE 0
  BY DEF Late
<1>3. /\ Late(b, a, t, r) =
           IF rate > 0 /\ Least(end, t) > r THEN rate * (Least(end, t) - r) ELSE 0
      /\ Late(b, a, t + 1, r) =
           IF rate > 0 /\ Least(end, t + 1) > r THEN rate * (Least(end, t + 1) - r) ELSE 0
      /\ Late(b, a, t, r) \in Nat
  <2>1. Late(b, a, t, r) \in Nat
    BY LateIs
  <2>2. t \in Nat /\ t + 1 \in Nat
    OBVIOUS
  <2> HIDE DEF rate, end
  <2> QED BY <1>2, <2>1, <2>2
<1> HIDE DEF rate, end
<1>4. CASE rate > 0 /\ t < end
  <2>1. Least(end, t) = t /\ Least(end, t + 1) = t + 1
    BY <1>1, <1>4 DEF Least
  <2>2. rate * (t + 1 - r) = rate * (t - r) + rate
    BY <1>1
  <2>3. t = r => rate * (t - r) = 0
    BY <1>1
  <2>4. Late(b, a, t + 1, r) = rate * (t + 1 - r)
    BY <1>1, <1>3, <1>4, <2>1
  <2>5. Late(b, a, t, r) = rate * (t - r)
    BY <1>1, <1>3, <1>4, <2>1, <2>3
  <2>6. Late(b, a, t + 1, r) = Late(b, a, t, r) + rate
    BY <2>2, <2>4, <2>5
  <2> QED BY <1>4, <2>6 DEF rate, end
<1>5. CASE ~(rate > 0 /\ t < end)
  <2>1. Late(b, a, t + 1, r) = Late(b, a, t, r)
    <3>1. CASE rate = 0
      BY <1>3, <3>1
    <3>2. CASE end <= t
      <4>1. Least(end, t) = end /\ Least(end, t + 1) = end
        BY <1>1, <3>2 DEF Least
      <4> QED BY <1>3, <4>1
    <3> QED BY <1>1, <1>5, <3>1, <3>2
  <2> QED BY <1>3, <1>5, <2>1 DEF rate, end
<1> QED BY <1>4, <1>5

\* Before resolution nothing is owed; after it what was paid, and what is owed
\* or still running, each stay within what the stream delivered since.
RefundAt(s, a) ==
    /\ overage[s][a] = overagePaid[s][a]
    /\ overagePaid[s][a] <= overstreamed[s][a]
    /\ IF Resolved
       THEN overageOwed[s][a] + Late(board[s], a, now, resolvedAt) <= overstreamed[s][a]
       ELSE overageOwed[s][a] = 0

Refunded == \A s \in Sides, a \in Accounts : RefundAt(s, a)

\* What the money of one lane is.
LEMMA LaneMoney ==
  ASSUME Core, NEW s \in Sides, NEW a \in Accounts
  PROVE  /\ overage[s][a] \in Nat /\ overagePaid[s][a] \in Nat
         /\ overstreamed[s][a] \in Nat /\ overageOwed[s][a] \in Nat
         /\ now \in Nat \ {0} /\ resolvedAt \in Nat /\ resolvedAt <= now /\ Good(board[s])
         /\ Late(board[s], a, now, resolvedAt) \in Nat
<1>1. /\ now \in Nat \ {0} /\ resolvedAt \in Nat /\ resolvedAt <= now /\ Good(board[s])
  BY BoardOf DEF Core, ClockOK
<1>2. Late(board[s], a, now, resolvedAt) \in Nat
  BY <1>1, LateIs
<1> QED BY <1>1, <1>2 DEF Core, LedgerOK, PerPosition

LEMMA LaneMoneyNext ==
  ASSUME Core', NEW s \in Sides, NEW a \in Accounts
  PROVE  /\ overstreamed'[s][a] \in Nat /\ overageOwed'[s][a] \in Nat
         /\ now' \in Nat \ {0} /\ resolvedAt' \in Nat /\ Good(board'[s])
         /\ Late(board'[s], a, now', resolvedAt') \in Nat
<1>1. /\ now' \in Nat \ {0} /\ resolvedAt' \in Nat /\ Good(board'[s])
  BY DEF Core, ClockOK, BoardsOK
<1>2. Late(board'[s], a, now', resolvedAt') \in Nat
  BY <1>1, LateIs
<1> QED BY <1>1, <1>2 DEF Core, LedgerOK, PerPosition

LEMMA AtResolution ==
  ASSUME Core, Resolved
  PROVE  Cap = resolvedAt
BY CapIs DEF Core

\* A step that pays nothing and adds nothing to what is late or owed.
LEMMA RefundKept ==
  ASSUME Core, Core', NEW s \in Sides, NEW a \in Accounts, RefundAt(s, a), Resolved, Resolved',
         overage'[s][a] = overage[s][a], overagePaid'[s][a] = overagePaid[s][a],
         overstreamed'[s][a] = overstreamed[s][a],
         overageOwed'[s][a] + Late(board'[s], a, now', resolvedAt')
           <= overageOwed[s][a] + Late(board[s], a, now, resolvedAt)
  PROVE  RefundAt(s, a)'
<1>1. /\ overstreamed[s][a] \in Nat /\ overageOwed[s][a] \in Nat
      /\ Late(board[s], a, now, resolvedAt) \in Nat
      /\ overageOwed'[s][a] \in Nat /\ Late(board'[s], a, now', resolvedAt') \in Nat
  BY LaneMoney, LaneMoneyNext
<1> DEFINE before == overageOwed[s][a] + Late(board[s], a, now, resolvedAt)
           after == overageOwed'[s][a] + Late(board'[s], a, now', resolvedAt')
<1>2. before \in Nat /\ after \in Nat /\ after <= before
  BY <1>1
<1>3. before <= overstreamed[s][a]
  BY DEF RefundAt
<1> HIDE DEF before, after
<1>4. after <= overstreamed'[s][a]
  BY <1>1, <1>2, <1>3
<1> QED BY <1>4 DEF RefundAt, after

LEMMA collectRefunds ==
  ASSUME Core, Core', Refunded, NEW cash \in BOOLEAN, collect(cash)
  PROVE  Refunded'
<1>1. /\ Resolved /\ outcome' = outcome /\ resolvedAt' = resolvedAt /\ now' = now
      /\ overage' = overage /\ overagePaid' = overagePaid /\ overageOwed' = overageOwed
      /\ overstreamed' = overstreamed /\ board' = CaughtUpBoards
  BY DEF collect, truth
<1>2. Resolved' /\ Cap = resolvedAt
  BY <1>1, AtResolution DEF Resolved
<1>3. ASSUME NEW s \in Sides, NEW a \in Accounts
      PROVE  RefundAt(s, a)'
  <2>1. KeptOf(board[s], CaughtUpBoards[s], resolvedAt, a) /\ Good(CaughtUpBoards[s])
    BY <1>2, CaughtUpIs
  <2>2. now \in Nat /\ resolvedAt \in Nat /\ Good(board[s])
    BY LaneMoney
  <2>3. Late(board'[s], a, now', resolvedAt') = Late(board[s], a, now, resolvedAt)
    BY <1>1, <2>1, <2>2, LateKept
  <2>4. overageOwed[s][a] \in Nat /\ Late(board[s], a, now, resolvedAt) \in Nat
    BY LaneMoney
  <2>5. overageOwed'[s][a] + Late(board'[s], a, now', resolvedAt')
          <= overageOwed[s][a] + Late(board[s], a, now, resolvedAt)
    BY <1>1, <2>3, <2>4
  <2> QED BY <1>1, <1>2, <2>5, RefundKept DEF Refunded
<1> QED BY <1>3 DEF Refunded

LEMMA pokeRefunds ==
  ASSUME Core, Core', Refunded, Poke
  PROVE  Refunded'
<1>1. /\ outcome' = outcome /\ resolvedAt' = resolvedAt /\ now' = now
      /\ overage' = overage /\ overagePaid' = overagePaid /\ overageOwed' = overageOwed
      /\ overstreamed' = overstreamed
  BY DEF Poke, settlement, truth
<1>2. CASE ~Resolved
  BY <1>1, <1>2 DEF Refunded, RefundAt, Resolved
<1>3. CASE Resolved
  <2>1. Resolved' /\ Cap = resolvedAt
    BY <1>1, <1>3, AtResolution DEF Resolved
  <2>2. ASSUME NEW s \in Sides, NEW a \in Accounts
        PROVE  RefundAt(s, a)'
    <3>1. KeptOf(board[s], board'[s], resolvedAt, a)
      BY <1>3, <2>1 DEF Poke
    <3>2. now \in Nat /\ resolvedAt \in Nat /\ Good(board[s]) /\ Good(board'[s])
      BY LaneMoney, LaneMoneyNext
    <3>3. Late(board'[s], a, now', resolvedAt') = Late(board[s], a, now, resolvedAt)
      BY <1>1, <3>1, <3>2, LateKept
    <3>4. overageOwed[s][a] \in Nat /\ Late(board[s], a, now, resolvedAt) \in Nat
      BY LaneMoney
    <3>5. overageOwed'[s][a] + Late(board'[s], a, now', resolvedAt')
            <= overageOwed[s][a] + Late(board[s], a, now, resolvedAt)
      BY <1>1, <3>3, <3>4
    <3> QED BY <1>1, <1>3, <2>1, <3>5, RefundKept DEF Refunded
  <2> QED BY <2>2 DEF Refunded
<1> QED BY <1>2, <1>3

LEMMA resolveRefunds ==
  ASSUME Core, Core', Refunded, NEW side \in Sides, resolve(side)
  PROVE  Refunded'
<1>1. /\ ~Resolved /\ resolvedAt' = now /\ now' = now /\ board' = board
      /\ overage' = overage /\ overagePaid' = overagePaid /\ overageOwed' = overageOwed
      /\ overstreamed' = overstreamed
  BY DEF resolve, settlement, truth
<1>2. ASSUME NEW s \in Sides, NEW a \in Accounts
      PROVE  RefundAt(s, a)'
  <2>1. overageOwed[s][a] = 0 /\ overage[s][a] = overagePaid[s][a]
        /\ overagePaid[s][a] <= overstreamed[s][a]
    BY <1>1 DEF Refunded, RefundAt
  <2>2. now \in Nat /\ Good(board[s]) /\ overstreamed[s][a] \in Nat
    BY LaneMoney
  <2>3. board[s].pos[a].maxEnd \in Nat
    BY <2>2, PositionIs DEF Good
  <2>4. ~(Least(board[s].pos[a].maxEnd, now) > now)
    BY <2>2, <2>3 DEF Least
  <2>5. Late(board[s], a, now, now) = 0
    BY <2>2, <2>4, LateIs
  <2> QED BY <1>1, <2>1, <2>2, <2>5 DEF RefundAt
<1> QED BY <1>2 DEF Refunded

LEMMA tickRefunds ==
  ASSUME Core, Core', Refunded, Tick
  PROVE  Refunded'
<1>1. /\ outcome' = outcome /\ resolvedAt' = resolvedAt /\ now' = now + 1 /\ board' = board
      /\ overage' = overage /\ overagePaid' = overagePaid /\ overageOwed' = overageOwed
      /\ overstreamed' = IF Resolved THEN Delivered(overstreamed) ELSE overstreamed
  BY DEF Tick, settlement
<1>2. CASE ~Resolved
  BY <1>1, <1>2 DEF Refunded, RefundAt, Resolved
<1>3. CASE Resolved
  <2>1. ASSUME NEW s \in Sides, NEW a \in Accounts
        PROVE  RefundAt(s, a)'
    <3> DEFINE more == IF Flows(s, a) THEN board[s].pos[a].rate ELSE 0
    <3>1. /\ overage[s][a] \in Nat /\ overagePaid[s][a] \in Nat
          /\ overstreamed[s][a] \in Nat /\ overageOwed[s][a] \in Nat
          /\ now \in Nat /\ resolvedAt \in Nat /\ resolvedAt <= now /\ Good(board[s])
          /\ Late(board[s], a, now, resolvedAt) \in Nat
      BY LaneMoney
    <3>2. overstreamed'[s][a] = overstreamed[s][a] + more
      <4>1. BoardsOK /\ overstreamed \in PerPosition(Nat)
        BY DEF Core, LedgerOK
      <4> QED BY <1>1, <1>3, <3>1, <4>1, DeliveredIs
    <3>3. Late(board[s], a, now + 1, resolvedAt) = Late(board[s], a, now, resolvedAt) + more
      BY <3>1, LateTicks DEF Flows
    <3>4. more \in Nat
      BY <3>1, PositionIs DEF Good
    <3>5. /\ overage[s][a] = overagePaid[s][a] /\ overagePaid[s][a] <= overstreamed[s][a]
          /\ overageOwed[s][a] + Late(board[s], a, now, resolvedAt) <= overstreamed[s][a]
      BY <1>3 DEF Refunded, RefundAt
    <3> HIDE DEF more
    <3>6. overagePaid[s][a] <= overstreamed'[s][a]
      BY <3>1, <3>2, <3>4, <3>5
    <3>7. overageOwed[s][a] + Late(board[s], a, now + 1, resolvedAt) <= overstreamed'[s][a]
      BY <3>1, <3>2, <3>3, <3>4, <3>5
    <3>8. /\ Late(board'[s], a, now', resolvedAt') = Late(board[s], a, now + 1, resolvedAt)
          /\ overageOwed'[s][a] = overageOwed[s][a] /\ overage'[s][a] = overage[s][a]
          /\ overagePaid'[s][a] = overagePaid[s][a] /\ Resolved'
      BY <1>1, <1>3 DEF Resolved
    <3> QED BY <3>5, <3>6, <3>7, <3>8 DEF RefundAt
  <2> QED BY <2>1 DEF Refunded
<1> QED BY <1>2, <1>3

\* What a hook finds: every lane as it was, but those that ended by the cap.
LEMMA HookKept ==
  ASSUME Core, NEW s \in Sides, NEW a \in Accounts, Current(s), NEW o \in Accounts,
         NEW b, b = Settled(AdvanceToNow(s), a)
  PROVE  KeptOf(board[s], b, Cap, o) /\ Good(b) /\ b.last = Cap
<1> DEFINE c == AdvanceToNow(s)
<1>1. /\ Good(board[s]) /\ Within(board[s], Cap) /\ now \in Nat \ {0} /\ Cap \in Nat
  BY BoardOf, CapIs DEF Core, ClockOK
<1>2. c = Advance(board[s], now, Cap, MaxSteps) /\ MaxSteps \in Nat
  BY VaultAssumption DEF AdvanceToNow
<1>3. b = Settled(c, a)
  OBVIOUS
<1> HIDE DEF c
<1>4. Advanced(board[s], c, now, Cap, MaxSteps)
  BY <1>1, <1>2, AdvanceIs
<1>5. Good(c) /\ Within(c, Cap) /\ (Cap <= board[s].last => Cap <= c.last)
  <2>1. Follows(board[s], c, Cap)
    BY <1>1, <1>2, FollowsAdvance
  <2> QED BY <2>1 DEF Follows
<1>6. KeptOf(board[s], c, Cap, o)
  BY <1>4 DEF Advanced
<1>7. KeptOf(board[s], b, Cap, o)
  BY <1>1, <1>3, <1>5, <1>6, KeptSettled
<1> QED BY <1>7, HookAtCap DEF Core

PutAt(f, s, a, x) == [f EXCEPT ![s][a] = x]

LEMMA PutAtIs ==
  ASSUME NEW f \in PerPosition(Nat), NEW s \in Sides, NEW a \in Accounts, NEW x \in Nat,
         NEW h, h = PutAt(f, s, a, x)
  PROVE  /\ h[s][a] = x
         /\ \A t \in Sides, o \in Accounts : t # s \/ o # a => h[t][o] = f[t][o]
BY PerPositionPut DEF PutAt

LEMMA onStopRefunds ==
  ASSUME Core, Core', Refunded, NEW s \in Sides, NEW a \in Accounts, onStop(s, a)
  PROVE  Refunded'
<1>1. /\ outcome' = outcome /\ resolvedAt' = resolvedAt /\ now' = now /\ Current(s)
      /\ overage' = overage /\ overagePaid' = overagePaid /\ overstreamed' = overstreamed
  BY DEF onStop, settlement, truth
<1>2. PICK b, c :
        /\ b = Settled(AdvanceToNow(s), a) /\ Good(b) /\ b.last = Cap
        /\ Follows(board[s], c, Cap) /\ board' = [board EXCEPT ![s] = c]
        /\ \A o \in Accounts \ {a} : c.pos[o] = b.pos[o]
        /\ \/ /\ b.pos[a].rate > 0 /\ c.pos[a].rate = 0
              /\ overageOwed' =
                   IF Resolved /\ Least(b.pos[a].maxEnd, now) > resolvedAt
                   THEN [overageOwed EXCEPT ![s][a] =
                           @ + b.pos[a].rate * (Least(b.pos[a].maxEnd, now) - resolvedAt)]
                   ELSE overageOwed
           \/ c = b /\ overageOwed' = overageOwed
  BY onStopIs
<1>3. overageOwed \in PerPosition(Nat)
  BY DEF Core, LedgerOK
<1>4. CASE ~Resolved
  <2>1. overageOwed' = overageOwed
    BY <1>2, <1>4
  <2> QED BY <1>1, <1>4, <2>1 DEF Refunded, RefundAt, Resolved
<1>5. CASE Resolved
  <2>1. Resolved' /\ Cap = resolvedAt /\ now \in Nat /\ resolvedAt \in Nat
    BY <1>1, <1>5, AtResolution DEF Resolved, Core, ClockOK
  <2>2. board'[s] = c /\ \A t \in Sides \ {s} : board'[t] = board[t]
    BY <1>2 DEF Core, BoardsOK
  <2>3. Good(c)
    BY <1>2 DEF Follows
  <2>4. \A o \in Accounts : Late(b, o, now, resolvedAt) = Late(board[s], o, now, resolvedAt)
    <3> SUFFICES ASSUME NEW o \in Accounts
                 PROVE  Late(b, o, now, resolvedAt) = Late(board[s], o, now, resolvedAt)
      OBVIOUS
    <3>1. KeptOf(board[s], b, resolvedAt, o)
      BY <1>1, <1>2, <2>1, HookKept
    <3>2. Good(board[s]) /\ Good(b)
      BY <1>2, LaneMoney
    <3> QED BY <2>1, <3>1, <3>2, LateKept
  <2>5. overageOwed'[s][a] + Late(c, a, now, resolvedAt)
          = overageOwed[s][a] + Late(b, a, now, resolvedAt)
        /\ \A t \in Sides, o \in Accounts : t # s \/ o # a => overageOwed'[t][o] = overageOwed[t][o]
    <3>1. /\ Late(b, a, now, resolvedAt) \in Nat /\ overageOwed[s][a] \in Nat
      BY <1>2, <2>1, LateIs, LaneMoney
    <3>2. CASE c = b /\ overageOwed' = overageOwed
      BY <3>2
    <3>3. CASE b.pos[a].rate > 0 /\ c.pos[a].rate = 0
      <4> DEFINE more == b.pos[a].rate * (Least(b.pos[a].maxEnd, now) - resolvedAt)
      <4>1. Late(c, a, now, resolvedAt) = 0
        BY <2>1, <2>3, <3>3, LateIs
      <4>2. CASE Least(b.pos[a].maxEnd, now) > resolvedAt
        <5>1. Late(b, a, now, resolvedAt) = more
          BY <1>2, <2>1, <3>3, <4>2, LateIs
        <5>2. overageOwed' = [overageOwed EXCEPT ![s][a] = @ + more] \/ c = b
          BY <1>2, <1>5, <4>2
        <5>3. c # b
          BY <3>3
        <5> HIDE DEF more
        <5> DEFINE sum == overageOwed[s][a] + more
        <5>4. overageOwed' = PutAt(overageOwed, s, a, sum)
          BY <1>3, <5>2, <5>3 DEF PerPosition, PutAt
        <5>5. sum \in Nat /\ sum = overageOwed[s][a] + more
          BY <3>1, <5>1
        <5> HIDE DEF sum
        <5>6. /\ overageOwed'[s][a] = sum
              /\ \A t \in Sides, o \in Accounts :
                   t # s \/ o # a => overageOwed'[t][o] = overageOwed[t][o]
          BY <1>3, <5>4, <5>5, PutAtIs
        <5>7. sum + 0 = overageOwed[s][a] + more
          BY <5>5
        <5> QED BY <4>1, <5>1, <5>6, <5>7
      <4>3. CASE ~(Least(b.pos[a].maxEnd, now) > resolvedAt)
        <5>1. Late(b, a, now, resolvedAt) = 0
          BY <1>2, <2>1, <4>3, LateIs
        <5>2. overageOwed' = overageOwed
          BY <1>2, <4>3
        <5> QED BY <3>1, <4>1, <5>1, <5>2
      <4> QED BY <4>2, <4>3
    <3> QED BY <1>2, <3>2, <3>3
  <2>6. ASSUME NEW t \in Sides, NEW o \in Accounts
        PROVE  RefundAt(t, o)'
    <3>1. overageOwed[t][o] \in Nat /\ Late(board[t], o, now, resolvedAt) \in Nat
      BY LaneMoney
    <3>2. overageOwed'[t][o] + Late(board'[t], o, now', resolvedAt')
            = overageOwed[t][o] + Late(board[t], o, now, resolvedAt)
      <4>1. CASE t # s
        BY <1>1, <2>2, <2>5, <4>1
      <4>2. CASE t = s /\ o # a
        <5>1. Late(c, o, now, resolvedAt) = Late(b, o, now, resolvedAt)
          BY <1>2, <4>2 DEF Late
        <5> QED BY <1>1, <2>2, <2>4, <2>5, <4>2, <5>1
      <4>3. CASE t = s /\ o = a
        BY <1>1, <2>2, <2>4, <2>5, <4>3
      <4> QED BY <4>1, <4>2, <4>3
    <3>3. overageOwed'[t][o] + Late(board'[t], o, now', resolvedAt')
            <= overageOwed[t][o] + Late(board[t], o, now, resolvedAt)
      BY <3>1, <3>2
    <3> QED BY <1>1, <1>5, <2>1, <3>3, RefundKept DEF Refunded
  <2> QED BY <2>6 DEF Refunded
<1> QED BY <1>4, <1>5

\* A re-peg moves no end past the current second, unless it revives a lane
\* that had run dry.
LEMMA refreshRefunds ==
  ASSUME Core, Core', Refunded, ~DryRepeg, NEW a \in Accounts, NEW lanes \in SUBSET Sides,
         NEW maxEnd \in Nat, now <= maxEnd, refreshMaxEnds(a, lanes, maxEnd)
  PROVE  Refunded'
<1>1. /\ outcome' = outcome /\ resolvedAt' = resolvedAt /\ now' = now
      /\ overage' = overage /\ overagePaid' = overagePaid /\ overageOwed' = overageOwed
      /\ overstreamed' = overstreamed
  BY DEF refreshMaxEnds, settlement, truth
<1>2. CASE ~Resolved
  BY <1>1, <1>2 DEF Refunded, RefundAt, Resolved
<1>3. CASE Resolved
  <2>1. Resolved' /\ Cap = resolvedAt /\ now \in Nat /\ resolvedAt \in Nat /\ resolvedAt <= now
    BY <1>1, <1>3, AtResolution DEF Resolved, Core, ClockOK
  <2>2. \A s \in lanes : ~RanDry(s, a) /\ Current(s)
    BY <1>3 DEF refreshMaxEnds
  <2>3. board' = [s \in Sides |->
                    IF s \in lanes
                    THEN Repegged(Settled(AdvanceToNow(s), a), a, maxEnd)
                    ELSE board[s]]
    BY DEF refreshMaxEnds
  <2>4. ASSUME NEW s \in lanes, NEW o \in Accounts
        PROVE  Late(board'[s], o, now, resolvedAt) <= Late(board[s], o, now, resolvedAt)
    <3> DEFINE b == Settled(AdvanceToNow(s), a)
               c == Repegged(b, a, maxEnd)
    <3>1. board'[s] = c
      BY <2>3
    <3>2. b = Settled(AdvanceToNow(s), a) /\ c = Repegged(b, a, maxEnd)
      OBVIOUS
    <3> HIDE DEF b, c
    <3>3. KeptOf(board[s], b, resolvedAt, o) /\ Good(b) /\ b.last <= maxEnd /\ Good(board[s])
      BY <2>1, <2>2, <3>2, HookKept, LaneMoney
    <3>4. /\ Good(c) /\ c.pos[o].rate = b.pos[o].rate
          /\ o # a => c.pos[o] = b.pos[o]
          /\ o = a => c.pos[o].maxEnd \in {maxEnd, b.pos[o].maxEnd}
      BY <3>2, <3>3, HookedRepegged DEF HookKeeps
    <3>5. Late(b, o, now, resolvedAt) = Late(board[s], o, now, resolvedAt)
      BY <2>1, <3>3, LateKept
    <3>6. Late(b, o, now, resolvedAt) \in Nat
      BY <2>1, <3>3, LateIs
    <3>7. CASE o # a
      <4>1. Late(c, o, now, resolvedAt) = Late(b, o, now, resolvedAt)
        BY <3>4, <3>7 DEF Late
      <4> QED BY <3>1, <3>5, <3>6, <4>1
    <3>8. CASE o = a /\ b.pos[a].rate = 0
      <4>1. Late(c, o, now, resolvedAt) = 0
        BY <2>1, <3>4, <3>8, LateIs
      <4> QED BY <3>1, <3>5, <3>6, <4>1
    <3>9. CASE o = a /\ b.pos[a].rate # 0
      <4>1. b.pos[a].rate \in Nat /\ b.pos[a].maxEnd \in Nat /\ board[s].pos[a].rate \in Nat
        BY <3>3, PositionIs DEF Good
      <4>2. b.pos[a].rate = board[s].pos[a].rate /\ b.pos[a].maxEnd = board[s].pos[a].maxEnd
        BY <3>3, <3>9 DEF KeptOf
      <4>3. Active(board[s], a)
        BY <3>3, <3>9, <4>1, <4>2 DEF Good, Placed, Active
      <4>4. now < b.pos[a].maxEnd
        BY <2>1, <2>2, <4>1, <4>2, <4>3 DEF RanDry
      <4>5. Least(c.pos[a].maxEnd, now) = now /\ Least(b.pos[a].maxEnd, now) = now
        BY <2>1, <3>4, <3>9, <4>1, <4>4 DEF Least
      <4>6. Late(c, a, now, resolvedAt) = Late(b, a, now, resolvedAt)
        BY <3>4, <3>9, <4>5 DEF Late
      <4> QED BY <3>1, <3>5, <3>6, <3>9, <4>6
    <3> QED BY <3>7, <3>8, <3>9
  <2>5. ASSUME NEW s \in Sides, NEW o \in Accounts
        PROVE  RefundAt(s, o)'
    <3>1. overageOwed[s][o] \in Nat /\ Late(board[s], o, now, resolvedAt) \in Nat
      BY LaneMoney
    <3>2. Late(board'[s], o, now, resolvedAt) \in Nat
      BY <1>1, LaneMoneyNext
    <3>3. Late(board'[s], o, now, resolvedAt) <= Late(board[s], o, now, resolvedAt)
      <4>1. CASE s \in lanes
        BY <2>4, <4>1
      <4>2. CASE s \notin lanes
        <5>1. board'[s] = board[s]
          BY <2>3, <4>2
        <5> QED BY <3>1, <5>1
      <4> QED BY <4>1, <4>2
    <3>4. overageOwed'[s][o] + Late(board'[s], o, now', resolvedAt')
            <= overageOwed[s][o] + Late(board[s], o, now, resolvedAt)
      BY <1>1, <3>1, <3>2, <3>3
    <3> QED BY <1>1, <1>3, <2>1, <3>4, RefundKept DEF Refunded
  <2> QED BY <2>5 DEF Refunded
<1> QED BY <1>2, <1>3

\* A withdrawal pays what is owed or late, once.
LEMMA withdrawRefunds ==
  ASSUME Core, Core', Refunded, NEW a \in Accounts, withdraw(a)
  PROVE  Refunded'
<1>1. /\ Resolved /\ outcome' = outcome /\ resolvedAt' = resolvedAt /\ now' = now
      /\ overstreamed' = overstreamed
  BY DEF withdraw, truth
<1>2. Resolved' /\ Cap = resolvedAt /\ now \in Nat /\ resolvedAt \in Nat
  BY <1>1, AtResolution DEF Resolved, Core, ClockOK
<1>3. board' = [CaughtUpBoards EXCEPT ![outcome] =
                  IF <<outcome, a>> \in claimed THEN @ ELSE Settled(@, a)]
  BY DEF withdraw
<1>4. \A s \in Sides : /\ Good(CaughtUpBoards[s]) /\ Good(board[s])
                       /\ \A o \in Accounts : KeptOf(board[s], CaughtUpBoards[s], resolvedAt, o)
  BY <1>2, CaughtUpIs, BoardOf DEF Core
<1>5. ASSUME NEW s \in Sides, NEW o \in Accounts
      PROVE  /\ Late(CaughtUpBoards[s], o, now, resolvedAt) = Late(board[s], o, now, resolvedAt)
             /\ Late(board'[s], o, now, resolvedAt) = Late(board[s], o, now, resolvedAt)
  <2> DEFINE c == CaughtUpBoards[s]
             d == Settled(c, a)
  <2>1. Late(c, o, now, resolvedAt) = Late(board[s], o, now, resolvedAt)
    BY <1>2, <1>4, LateKept
  <2>2. board'[s] = c \/ board'[s] = d
    <3>1. CaughtUpBoards = [t \in Sides |-> CaughtUpBoards[t]]
      BY DEF CaughtUpBoards
    <3> QED BY <1>3, <3>1
  <2>3. d = Settled(c, a) /\ Good(c)
    BY <1>4
  <2> HIDE DEF c, d
  <2>4. d.pos[o].rate = c.pos[o].rate /\ d.pos[o].maxEnd = c.pos[o].maxEnd
    BY <2>3, HookedSettled
  <2>5. Late(d, o, now, resolvedAt) = Late(c, o, now, resolvedAt)
    BY <2>4 DEF Late
  <2> QED BY <2>1, <2>2, <2>5 DEF c
<1>6. /\ \A s \in Sides : Owed(s, a) \in Nat /\ PaysOverage(s, a)
      /\ \A s \in Sides, o \in Accounts \ {a} : /\ overagePaid'[s][o] = overagePaid[s][o]
                                                /\ overage'[s][o] = overage[s][o]
                                                /\ overageOwed'[s][o] = overageOwed[s][o]
  BY withdrawIs
<1>7. ASSUME NEW s \in Sides
      PROVE  RefundAt(s, a)'
  <2> DEFINE c == CaughtUpBoards[s]
             late == Late(board[s], a, now, resolvedAt)
  <2>1. /\ overage[s][a] \in Nat /\ overagePaid[s][a] \in Nat
        /\ overstreamed[s][a] \in Nat /\ overageOwed[s][a] \in Nat /\ late \in Nat
    BY LaneMoney
  <2>2. /\ overage[s][a] = overagePaid[s][a] /\ overagePaid[s][a] <= overstreamed[s][a]
        /\ overageOwed[s][a] + late <= overstreamed[s][a]
    BY <1>1 DEF Refunded, RefundAt
  <2>3. Owed(s, a) = IF c.pos[a].rate = 0 THEN overageOwed[s][a] ELSE Late(c, a, now, resolvedAt)
    <3>1. c.pos[a].rate \in Nat
      BY <1>4, PositionIs DEF Good
    <3> QED BY <3>1 DEF Owed, OverageEntitlement, Late
  <2>4. Late(c, a, now, resolvedAt) = late
    BY <1>5
  <2>5. Late(board'[s], a, now', resolvedAt') = late
    BY <1>1, <1>5
  <2> HIDE DEF c, late
  <2>6. Owed(s, a) \in Nat /\ Owed(s, a) <= overstreamed[s][a]
    BY <2>1, <2>2, <2>3, <2>4
  <2>7. /\ overageOwed'[s][a] \in {0, overageOwed[s][a]}
        /\ \/ /\ overagePaid'[s][a] = Owed(s, a)
              /\ overage'[s][a] = overage[s][a] + Owed(s, a) - overagePaid[s][a]
           \/ overagePaid'[s][a] = overagePaid[s][a] /\ overage'[s][a] = overage[s][a]
    BY <1>6 DEF PaysOverage
  <2>8. overageOwed'[s][a] + late <= overstreamed[s][a]
    BY <2>1, <2>2, <2>7
  <2>9. overage'[s][a] = overagePaid'[s][a] /\ overagePaid'[s][a] <= overstreamed[s][a]
    BY <2>1, <2>2, <2>6, <2>7
  <2> QED BY <1>1, <1>2, <2>5, <2>8, <2>9 DEF RefundAt
<1>8. ASSUME NEW s \in Sides, NEW o \in Accounts \ {a}
      PROVE  RefundAt(s, o)'
  <2>1. overageOwed[s][o] \in Nat /\ Late(board[s], o, now, resolvedAt) \in Nat
    BY LaneMoney
  <2>2. overageOwed'[s][o] + Late(board'[s], o, now', resolvedAt')
          <= overageOwed[s][o] + Late(board[s], o, now, resolvedAt)
    BY <1>1, <1>5, <1>6, <2>1
  <2>3. overage'[s][o] = overage[s][o] /\ overagePaid'[s][o] = overagePaid[s][o]
    BY <1>6
  <2> QED BY <1>1, <1>2, <2>2, <2>3, RefundKept DEF Refunded
<1> QED BY <1>7, <1>8 DEF Refunded

LEMMA InitRefunds ==
  ASSUME Init
  PROVE  Refunded
BY DEF Init, Refunded, RefundAt, Nought, Resolved

LEMMA NextRefunds ==
  ASSUME Core, Refunded, ~DryRepeg, [Next]_vars
  PROVE  Refunded'
<1>1. Core' /\ Seen
  BY NextKeepsCore, StepIs
<1> QED BY <1>1, collectRefunds, withdrawRefunds, onStopRefunds, refreshRefunds, resolveRefunds,
           tickRefunds, pokeRefunds DEF Seen

\* What an account is refunded is never more than its streams delivered after
\* resolution, through any order of late stops, re-pegs and withdrawals (onStop
\* and _payOverage of Vault.sol), as long as nobody re-pegs a lane that ran dry
\* after resolution: that would count seconds in which nothing was delivered.
THEOREM RefundsAreCovered == ASSUME ~DryRepeg PROVE Spec => []OverageIsStreamed
<1>1. Init => Core /\ Refunded
  BY InitCore, InitRefunds
<1>2. Core /\ Refunded /\ [Next]_vars => (Core /\ Refunded)'
  BY NextKeepsCore, NextRefunds
<1>3. Core /\ Refunded => OverageIsStreamed
  BY DEF Refunded, RefundAt, OverageIsStreamed
<1> QED BY <1>1, <1>2, <1>3, PTL DEF Spec

-----------------------------------------------------------------------------
(* The settlement is final.                                                *)

\* On boards at the cap a second credits nobody.
LEMMA NothingToEarn ==
  ASSUME NEW t \in Nat \ {0}, NEW u \in Nat \ {0}, NEW cap \in Nat,
         \A s \in Sides : Good(board[s]) /\ cap <= board[s].last
  PROVE  Credits(u, cap) = Credits(t, cap)
<1>1. ASSUME NEW s \in Sides, NEW a \in Accounts
      PROVE  Settled(AdvanceAll(board[s], u, cap), a).pos[a].accrued
               = Settled(AdvanceAll(board[s], t, cap), a).pos[a].accrued
  <2>1. Good(board[s]) /\ cap <= board[s].last
    OBVIOUS
  <2>2. /\ Settled(AdvanceAll(board[s], u, cap), a).pos[a].accrued = Holding(board[s], a)
        /\ Settled(AdvanceAll(board[s], t, cap), a).pos[a].accrued = Holding(board[s], a)
    BY <2>1, CreditedIs, WorthAtCap
  <2> QED BY <2>2
<1> QED BY <1>1 DEF Credits

LEMMA TickIsFinal ==
  ASSUME Core, Shared, OnlyTimeEarns, collected, Tick
  PROVE  earned' = earned
<1>1. Resolved /\ \A s \in Sides : Cap <= board[s].last
  BY DEF Shared
<1>2. Cap \in Nat /\ now \in Nat \ {0} /\ now + 1 \in Nat \ {0}
  BY CapIs DEF Core, ClockOK
<1>3. \A s \in Sides : Good(board[s])
  BY BoardOf DEF Core
<1>4. PICK cap \in Nat : cap = Cap
  BY <1>2
<1>5. Credits(now + 1, cap) = Credits(now, cap)
  BY <1>1, <1>2, <1>3, <1>4, NothingToEarn
<1>6. earned' = Credits(now + 1, cap)
  BY <1>1, <1>4 DEF Tick
<1>7. earned = Credits(now, cap)
  BY <1>4 DEF OnlyTimeEarns
<1> QED BY <1>5, <1>6, <1>7

\* From the first collect on, pot, pools, denominators and everybody's shares
\* never move again, while funders go on stopping, re-pegging, poking and
\* over-streaming (collect, _payWinnings and the cap of _advance in Vault.sol).
THEOREM SettledForGood == Spec => SettlementIsFinal
<1>1. Core /\ Shared /\ OnlyTimeEarns /\ [Next]_vars
        => [collected =>
              /\ pot' = pot
              /\ earned' = earned
              /\ \A s \in Sides : board'[s].pool = board[s].pool /\ board'[s].shares = board[s].shares]_vars
  <2> SUFFICES ASSUME Core, Shared, OnlyTimeEarns, [Next]_vars, collected
               PROVE  /\ pot' = pot
                      /\ earned' = earned
                      /\ \A s \in Sides : /\ board'[s].pool = board[s].pool
                                          /\ board'[s].shares = board[s].shares
    OBVIOUS
  <2>1. \A s \in Sides : /\ board'[s].pool = board[s].pool
                         /\ board'[s].shares = board[s].shares
    BY CollectedIsSteady DEF Steady
  <2>2. Seen
    BY StepIs
  <2>3. pot' = pot
    BY <2>2 DEF Seen, collect, withdraw, onStop, refreshMaxEnds, resolve, Tick, Poke, settlement
  <2>4. earned' = earned
    BY <2>2, TickIsFinal DEF Seen, collect, withdraw, onStop, refreshMaxEnds, resolve, Poke, truth
  <2> QED BY <2>1, <2>3, <2>4
<1> QED BY <1>1, SharedInductive, EarnedByTimeOnly, PTL DEF Spec, SettlementIsFinal

=============================================================================
