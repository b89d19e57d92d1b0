------------------------------- MODULE Treasury -------------------------------
(***************************************************************************)
(* The house pot (Treasury.sol, LvstToken.sol).  Vaults send it what they  *)
(* skim; losers mint LVST against their losses, at a rate that falls as    *)
(* the pot grows; staked LVST earns the skims, through one accumulator     *)
(* that rounds down and is settled when a stake changes or is paid.        *)
(*                                                                         *)
(* `share` is kept beside the contract: what each user's stake earned of   *)
(* every skim when it came in, exactly, in units of 1/Unit.                *)
(***************************************************************************)
EXTENDS Integers, FiniteSets, Functions

CONSTANTS
    Users,      \* who ever holds LVST
    House,      \* the Treasury, as a holder of LVST
    Losses,     \* account, vault and side that lost, once the vault is resolved
    Lost,       \* of each loss: the vault's lossClaimable, which is final
    Skims,      \* bound: what a vault may send at once
    MintParams, \* bound: what governance may set
    MaxSkimmed, \* bound: skimmed in all
    MaxChanges, \* bound: stakes and unstakes of a user
    MaxStaked,  \* bound: LVST staked at once
    AccScale,   \* ACC_SCALE
    UsdcOne,    \* USDC_ONE
    Unit        \* a multiple of every total stake, so that shares are whole

ASSUME TreasuryAssumption ==
    /\ IsFiniteSet(Users)
    /\ House \notin Users
    /\ Lost \in [Losses -> Nat \ {0}]
    /\ Skims \subseteq Nat \ {0}
    /\ MintParams \subseteq [start : Nat, floor : Nat, knee : Nat \ {0}]
    /\ \A p \in MintParams : p.start >= p.floor
    /\ {MaxSkimmed, MaxChanges, MaxStaked} \subseteq Nat
    /\ {AccScale, UsdcOne, Unit} \subseteq Nat \ {0}
    /\ \A n \in 1..MaxStaked : Unit % n = 0

VARIABLES
    params,           \* mintStart, mintFloor, mintKnee
    totalSkimmed,
    totalStaked, accUsdcPerStake, undistributed,
    stake,            \* of each user: stakeOf, rewardDebt, accruedDividends
    lossClaimed,
    lvst,             \* LVST held
    usdc,             \* USDC the Treasury holds
    \* beside the contract
    share,
    paid,             \* dividends paid to each user
    changes,          \* how often each user's stake changed
    stakedOver        \* each user's stake, summed over the skims

curve == <<params, totalSkimmed>>
accumulator == <<totalStaked, accUsdcPerStake, undistributed>>
history == <<share, paid, changes, stakedOver>>
vars == <<curve, accumulator, stake, lossClaimed, lvst, usdc, history>>

Zero == [u \in Users |-> 0]

Init ==
    /\ params \in MintParams
    /\ totalSkimmed = 0
    /\ totalStaked = 0
    /\ accUsdcPerStake = 0
    /\ undistributed = 0
    /\ stake = [u \in Users |-> [of |-> 0, debt |-> 0, accrued |-> 0]]
    /\ lossClaimed = {}
    /\ lvst = [h \in Users \cup {House} |-> 0]
    /\ usdc = 0
    /\ share = Zero /\ paid = Zero /\ changes = Zero /\ stakedOver = Zero

-----------------------------------------------------------------------------
(* The mint curve and the skim.                                            *)

setMintParams(p) ==
    /\ params' = p
    /\ UNCHANGED <<totalSkimmed, accumulator, stake, lossClaimed, lvst, usdc, history>>

mintRate ==
    params.floor + ((params.start - params.floor) * params.knee) \div (params.knee + totalSkimmed)

\* Mutant: what came in while nobody staked is never handed out.
DistIgnoresHeld(amount) == amount

\* What came in while nobody staked is handed out with the next skim.
Dist(amount) == amount + undistributed

notifySkim(amount) ==
    /\ totalSkimmed + amount <= MaxSkimmed
    /\ totalSkimmed' = totalSkimmed + amount
    /\ usdc' = usdc + amount
    /\ IF totalStaked > 0
       THEN /\ accUsdcPerStake' = accUsdcPerStake + (Dist(amount) * AccScale) \div totalStaked
            /\ undistributed' = 0
            /\ share' = [u \in Users |->
                 share[u] + (amount + undistributed) * stake[u].of * (Unit \div totalStaked)]
            /\ stakedOver' = [u \in Users |-> stakedOver[u] + stake[u].of]
       ELSE /\ undistributed' = Dist(amount)
            /\ UNCHANGED <<accUsdcPerStake, share, stakedOver>>
    /\ UNCHANGED <<params, totalStaked, stake, lossClaimed, lvst, paid, changes>>

mintLossLvst(l, to) ==
    /\ l \notin lossClaimed
    /\ lossClaimed' = lossClaimed \cup {l}
    /\ lvst' = [lvst EXCEPT ![to] = @ + (Lost[l] * mintRate) \div UsdcOne]
    /\ UNCHANGED <<curve, accumulator, stake, usdc, history>>

-----------------------------------------------------------------------------
(* Staking.                                                                *)

Acc(amount) == (amount * accUsdcPerStake) \div AccScale

pendingDividends(u) == stake[u].accrued + Acc(stake[u].of) - stake[u].debt

\* Mutant: the debt of the old stake is kept.
RestakedOldDebt(u, amount) ==
    [of |-> amount, debt |-> Acc(stake[u].of), accrued |-> pendingDividends(u)]

\* _settleDividends, then the debt of the new stake.
Restaked(u, amount) ==
    [of |-> amount, debt |-> Acc(amount), accrued |-> pendingDividends(u)]

\* `amount` is taken from the wallet, or put back if it is negative.
Changed(u, amount) ==
    /\ changes[u] < MaxChanges /\ totalStaked + amount <= MaxStaked
    /\ changes' = [changes EXCEPT ![u] = @ + 1]
    /\ stake' = [stake EXCEPT ![u] = Restaked(u, @.of + amount)]
    /\ totalStaked' = totalStaked + amount
    /\ lvst' = [lvst EXCEPT ![u] = @ - amount, ![House] = @ + amount]
    /\ UNCHANGED <<curve, accUsdcPerStake, undistributed, lossClaimed, usdc, share, paid, stakedOver>>

stakeLvst(u, amount) == amount <= lvst[u] /\ Changed(u, amount)

unstakeLvst(u, amount) == amount <= stake[u].of /\ Changed(u, -amount)

claimDividends(u) ==
    LET amount == pendingDividends(u)
    IN  /\ amount <= usdc
        /\ stake' = [stake EXCEPT ![u].accrued = 0, ![u].debt = Acc(stake[u].of)]
        /\ usdc' = usdc - amount
        /\ paid' = [paid EXCEPT ![u] = @ + amount]
        /\ UNCHANGED <<curve, accumulator, lossClaimed, lvst, share, changes, stakedOver>>

Next ==
    \/ \E p \in MintParams : setMintParams(p)
    \/ \E amount \in Skims : notifySkim(amount)
    \/ \E l \in Losses, to \in Users : mintLossLvst(l, to)
    \/ \E u \in Users :
         \/ \E amount \in 1..lvst[u] : stakeLvst(u, amount)
         \/ \E amount \in 1..stake[u].of : unstakeLvst(u, amount)
         \/ claimDividends(u)

Spec == Init /\ [][Next]_vars
-----------------------------------------------------------------------------
(* Properties.                                                             *)

\* The shape of the storage, and who holds LVST: the Treasury exactly what is
\* staked, so that no unstake can fail, and no debt exceeds what it is
\* subtracted from.
TypeOK ==
    /\ params \in MintParams
    /\ {totalSkimmed, totalStaked, accUsdcPerStake, undistributed, usdc} \subseteq Nat
    /\ stake \in [Users -> [of : Nat, debt : Nat, accrued : Nat]]
    /\ lossClaimed \subseteq Losses
    /\ \A u \in Users : pendingDividends(u) >= 0
    /\ lvst \in [Users \cup {House} -> Nat]
    /\ lvst[House] = totalStaked
    /\ totalStaked = SumFunction([u \in Users |-> stake[u].of])

\* Staked LVST earns the skim pro rata (Treasury.sol, the contract's comment):
\* whenever stakes change and dividends are taken, a user was paid and can
\* still claim what its stake earned of each skim, give or take a unit for
\* each change of the stake and 1/AccScale for each unit staked at each skim.
ProRata == \A u \in Users :
    LET got == (paid[u] + pendingDividends(u)) * AccScale * Unit
        due == share[u] * AccScale
        unit == changes[u] * AccScale * Unit
    IN  /\ got <= due + unit
        /\ due <= got + unit + stakedOver[u] * Unit
=============================================================================
