# LiveStreak: a TLA+ verification project

LiveStreak runs prediction markets on live streams: money streams second by
second into the two sides of a vault while a stream is observed, published and
judged. This project models the parts of the repository that carry most of its
state and its timing: the money path of the EVM contracts (streaming library,
funding drivers, vault, treasury), the observe runtime, the creation of vaults
by the bookmaker, and the remote console. TLC checks them on small instances,
and TLAPS proves their safety for instances of any size: the vault's accounting and
settlement, the streaming library and its refinement of payment by the second, the drivers over several vaults, the treasury,
the observe runtime, the bookmaker and the remote console.

    Board.tla             one side of a vault: curve, share index, boundary queue
    Vault.tla             a vault: two Boards, resolution, pot, skim, payouts, overage
    StreamLedger.tla      what the streaming library promises, second by second
    Streams.tla           how it does it: deltas per cycle, histories, squeezing
    Lanes.tla             the funding drivers: lanes on several vaults, one balance
    Treasury.tla          the house pot: LVST for losses, stakes, dividends
    ObserveRun.tla        observations of a run on one control bus
    CreateOnce.tla        createVaultOnce, its store, the chain writer, restarts
    Remote.tla            gateway, host relay and consoles of one remote session
    BoardProofs.tla       lemmas: sums; what the operators of Board keep of a board
    VaultProofs.tla       theorems about Vault: its accounting, then its settlement
    StreamsProofs.tla     theorems about Streams, and that it implements StreamLedger
    LanesProofs.tla       theorems about Lanes
    TreasuryProofs.tla    theorems about Treasury
    ObserveRunProofs.tla  theorems about ObserveRun
    CreateOnceProofs.tla  theorems about CreateOnce
    RemoteProofs.tla      theorems about Remote
    MC*.tla               small instances for TLC (*.cfg), one module for each component

Run `tlc -config X.cfg M` with the module and the configuration named in the
tables below, and `tlapm M.tla` for each module M of proofs.

## 1. Inventory

| component | where | state | operations | interacts with | hard behaviour |
|---|---|---|---|---|---|
| Vault | `packages/contracts/chains/evm/solidity/vault` | boards, positions, boundary queues, outcome, pot, skim, claims, overage | onFund, onStop, refreshMaxEnds, advance, settle, resolve, collect, withdraw; views | drivers call its hooks; it asks VaultDriver to harvest and pays USDC | lazy catch-up in bounded steps; stale boundaries; calls in any order in one second; settlement frozen while funders go on streaming |
| Funding drivers | `streaming/drivers` | lanes of a position token, its Drips balance | fund, stop, setLanes, stopAll, withdraw; createVault, stopSeed, harvest | Vault hooks, Drips setStreams | one balance feeds several lanes: they run dry together and are re-pegged together |
| Drips | `streaming/Streams.sol`, `DripsStreaming.sol` | per-cycle deltas, balances, receivers' hashes | setStreams, receive, squeeze, collect, withdraw | drivers | amounts split over cycles; squeeze against a history of receiver lists |
| Treasury, LVST | `treasury` | house pot, stakes, dividend accumulator, supply | notifySkim, mintLossLvst, stakeLvst, unstakeLvst, claimDividends | Vault skim and loss basis | an accumulator that rounds, settled lazily; skims while nobody stakes |
| Registries | `registries`, `steward`, `Protocol.sol` | market status, steward workload | register, status, propose, resolve | resolver of Vault | few steps, access rules |
| Sui, Solana ports | `chains/sui`, `chains/solana` | as above | as above | as above | ports may diverge from the EVM code |
| Observe run | `packages/observe/src/run` | board cells, worker state, wake, run handles | prepare, start, await, pause, resume, stop; supervisor turns | sources, sinks, panel bridge | fibers interleave at every await; one bus shared by several workers; timeouts and deaths |
| Observe config, market, drivers | `packages/observe/src/{run/config,market,pipeline,bridge}` | settings, market registration, sessions with ffmpeg and browsers | configure, create, remove, goLive, setEnded | the run's board | configuration changed under a prepared run |
| Bookmaker | `packages/bookmaker` | idempotency store and its state file, pipeline | createVaultOnce; approve, create, confirm | bundler and chain, console requests | late receipts, concurrent and retried requests, restarts between a chain call and its record |
| Steward | `packages/steward` | findings, decisions, plans | refresh, poll | chain, host | overlapping polls |
| Remote console | `host/src/services/remote`, `cli/src/gateway/{remote,session}` | the host's sessions, routes and boards; the gateway's session record, socket, outbox, spend | register, hello, call, call_result, board_patch, revoke, session_closed, reap | gateway actions, web app | reconnects, late closes, restarts of the host, calls under way when a leg breaks |
| Host, rest | `host/src` | gas coins, catalog cache, media | HTTP handlers, cron | chains, storage | reservations that time out, stale caches |
| CLI, app, shared packages | `cli`, `app`, `packages/{core,schema,options,wallet,host}` | session files, UI state | commands, hooks | host, chains | mostly I/O and presentation |

What makes the vault right: money booked equals money delivered, however
late it is booked; shares are conserved; settlement is final and pays out what
there is; a view agrees with the call it previews. The observe runtime:
the board tells the truth about its workers; no control request is lost; sinks
see a well-formed timeline; only a stalled run is killed as stalled.

What makes the streaming library right: it pays what a ledger kept second by second
would pay, and tokens cover every claim. The drivers: the boards of all vaults
agree with Drips about every stream. The bookmaker: one question, one vault,
however often it is asked. The remote console: answers are true and arrive, a
gateway that reconnects is reached, and the end of a session is final.

`PROJECT.json` lists every component with its status and every hazard at its line.

## 2. The vault: Board.tla and Vault.tla

`Board.tla` holds pure operators from a board to a board, as the contract's
internal functions are; `Vault.tla` makes one atomic action of each external
call. A call that reverts is a disabled action.

| model | code |
|---|---|
| `board[s]`: pool, sideRate, g, last, shares, pos, queue | `_boards`, `_positions`, `_boundaries` from `_boundaryHead` on |
| `Segment`, `Settled`, `Closed`, `Turn`, `Finish`, `Advance` | `_segment`, `_settle`, the body and end of the loop of `_advance` |
| `Scheduled` | `_scheduleBoundary` (sorted insert) |
| `PreviewIndex`, `PendingShares` | `_previewG`, `pendingShares` |
| `onFund`, `onStop`, `refreshMaxEnds` | the drivers' hooks, which need the board caught up (`Current`) |
| `advance`, `settle` | the permissionless pokes |
| `resolve`, `collect`, `withdraw` | outcome, pot and skim, winnings and overage |
| `Tick` | a second passes; every stream that has not run dry delivers its rate |

`streamed` and `overstreamed` are kept beside the contract: what each stream
really delivered, before and after resolution, counted second by second. The
contract never counts that way; it multiplies rates with intervals, late, and
the invariants compare the two. `earned` is what each account had earned when
the second began.

Abstractions:

- `ln(p1/p0)` in `IndexGain` is the rational `2(p1-p0)/(p1+p0)`, rounded down:
  zero exactly when the prices agree and increasing. No property depends on
  the logarithm itself.
- Drips is external: a stream delivers its rate until `maxEnd`. `DryRepeg` says
  whether a sibling lane's top-up may re-peg a lane that ran dry after
  resolution; the drivers do that, with a consequence told in section 9, so the
  settlement run leaves it out.
- `collect(cash)`: whether the Vault's USDC covers the skim is a free choice,
  since that balance is shared by all vaults. Transfers of `withdraw` succeed.
- Every account a side has is one that some driver funded; `onStop` and
  `refreshMaxEnds` need `fundStart > 0`, as drivers only name their own lanes.
- Integers are unbounded: amounts in the code are 256 bits wide and a second's
  rate cannot reach that width.

Properties (the comments in `Vault.tla` state each in full): `NeverPastDrop`
(rates, queue and lastAdvance agree), `PoolIsDelivered` (invariant I1 of the
contract's comments), `LossIsDelivered`, `SharesConserved`, `OnlyTimeEarns`,
`PreviewAgrees`, `BacklogShrinks`, `PotIsDelivered`, `WinnersShareThePot`,
`OverageIsStreamed`, `SettlementIsFinal`, and `WinnersArePaid`.

Fairness (`FairSpec`): time passes, somebody calls `collect`, which is
permissionless, until it was done once, and each winner calls `withdraw`. Nobody
is assumed to poke, stop or settle.

## 3. Streaming and its drivers: StreamLedger.tla, Streams.tla, Lanes.tla

`StreamLedger` is what `Streams.sol` promises, with nothing of how it is done: each
second a sender whose funds cover all of its streams pays each the units that
fall due, and a sender whose funds do not is stopped until it configures again.
`Streams` is the code:

| model | code |
|---|---|
| `sender[s]`: recv, updateTime, maxEnd, balance, currCycleConfigs, history | `StreamsState` of a sender |
| `receiver[r]`: nextReceivableCycle, amtDeltas, nextSqueezed | `StreamsState` of a receiver |
| `setStreams` | `_setStreams`: the new end, the deltas of both lists, the history |
| `receiveStreams`, `squeezeStreams`, `collect` | of `Streams.sol` and `DripsStreaming.sol` |

The refinement is `PaysBySecond`: under the mapping of `Ledger`, where a sender's
funds are its balance now and what a receiver is owed is what it would get by
receiving every finished cycle and squeezing every sender, each call is a step
of the ledger and each tick is one second of payments. So an end computed ahead,
a delta split over two cycles, or a squeeze against a history may never make
anybody better or worse off than paying by the second. TLC checks it on a small
instance, and theorem `Refines` proves it for all.

Abstractions: a list of receivers, sorted and without repetition in the code, is
a set; as in the code, streams of one receiver and rate may differ in start, duration or
only in their id. A change of the list puts streams of equal receiver and rate
together in pairs and shifts them. Which ones the walk along both lists pairs depends on
how ids and times sort them, and `setStreams` admits every choice (`Pairings`): the
deltas come to the same, and the theorems hold for all of them. Hashes of lists and histories are left out, since a call that discloses a
wrong one reverts; but a squeeze may disclose any part of the history
(`shown`), as the code allows. The hints of the end search are left out: they
only speed it up. TLC runs one sender and one receiver; the theorems, the refinement
among them, are for any finite number of both: what senders add to a receiver's
deltas are sums, and squeezing keeps its marks for each sender alone. Starts, durations and times are no greater than
`Forever`, the largest `uint32`; amounts are unbounded. The ledger is told of a stream by
`Promise`, which bears the stream's identity: an end the code would put behind `Forever` is cut there, as `_streamRange` cuts it at
the computed end, and a stream that ends no later than it begins counts as over from the outset.

`Lanes` composes the drivers with the boards of several vaults (the operators of
`Board.tla`) and the account of Drips, here what `Streams` makes of whole rates: a
balance, one end, and the streams. `fund`, `stop`, `setLanes`, `stopAll` are those of
`MarketDriver`; `createVault`, `stopSeed` of `VaultDriver`; `advance` and `resolve`
are calls of the vaults by anybody. `PoolIsStreamed` compares each pool with what
Drips delivered to it, counted by the second; `BoardsFollowDrips` says that a
position accrues exactly when its stream flows. `DryFunding = FALSE` keeps `fund` and
`stop` from reviving a sibling lane that has run dry, which is the subject of the
finding `lanes_dry`; `setLanes` and `stopAll` are never restricted.

## 4. The treasury: Treasury.tla

`notifySkim`, `mintLossLvst`, `stakeLvst`, `unstakeLvst`, `claimDividends` and
`setMintParams`, with the mint curve and the accumulator as in `Treasury.sol`. What
vaults skim and what accounts lost is free, as `Vault` models both. `share` is
what each user's stake earned of each skim, exactly, in units of 1/`Unit`, where
`Unit` is a multiple of every total stake up to the bound `MaxStaked`.

`ProRata` bounds what the code may round: a unit for each change of a stake, and
`1/AccScale` for each staked unit at each skim. The bound cannot be dropped: TLC
refutes "what users can claim and what is undistributed is covered by the USDC held",
since an unstake may round its owner up by part of a unit; the last claim then
reverts until the next skim comes in.

## 5. Creating vaults: CreateOnce.tla

| model | code |
|---|---|
| `settled`, `pending`, `turn` | the idempotency store, `exclusiveChains` |
| `disk`, `writes`, `Flush`, `Restart` | the state file, its chain of writes, a restart that reads it |
| `createVaultOnce`, `Begin` | a request queues for its key; what it finds when its turn comes |
| `ReadAllowance`, `Approved`, `Created`, ... | the EVM writer, from one await to the next |
| `Execute` | the bundler: an operation is included or reverted, in its own time |

`OneVaultPerIntent`: of all creates ever sent for an intent at most one has
staked or still may, and every answer names it. `LandedIsFound`: a vault that
landed is found by a retry. Fairness: operations are executed, callers go on,
each key is tried again, and a receipt that is there is found in the end (strong
fairness, as a poll may time out any number of times, but not for ever).

Assumptions of the run: `Faults = {}` (no lost reply of a send, no receipt
that cannot be read, no crash between the chain's answer and its record) and one
key for each intent; section 9 says what happens without them. Without the crash
fault the gateway restarts only while no snapshot waits to be written and no
create awaits its record.

## 6. The observe runtime: ObserveRun.tla

Every observation `o` of a run has cells on the shared board, and a worker
fiber when it was started.

| model | code |
|---|---|
| `cell[o]` | status, prepared, stopRequested, pause.requested of `obs:<id>:run` and `obs:<id>:pause` |
| `mounted`, `facts`, `capture` | sink stage cells with deliveredItems and finalized, capture's eosAppended |
| `wake` | `wakeWorker` of the bus: the one boardWake it notifies |
| `worker[o]` | WorkerState (lifecycle, track, cursor, sink), boardWake (pending, waiter), the loop's idle count, where the fiber stands |
| `prepare`, `prepareFails`, `prepareByCall` | `prepareObserveRun` through the runtime; its failure after the first commit; the raw control call on a run that is prepared already |
| `start`, `launch`, `launchRefused` | `startObserveRunAsync`, the forked `startObserveRun` with `validateWorkerPrepare` |
| `pause`, `resume`, `stop` | the control calls: a patch, and a wake if it changed the board |
| `stopTimeout`, `die` | `stopRun` giving up; the watcher of a fiber that died |
| `beginTurn`, `endTurn` | the loop's reading of the board; the turn, the commit, and what the loop does next |
| `Body` | `supervisorTurn`: promotion, then the turn of the lifecycle |
| `napOver` | the 5 ms sleep winning its race against the wake |

A turn is two steps because it awaits the source, the sink and the pause
controls after it has read the board and before it commits: control calls of any
observation fall in between. Everything between two awaits is one step, as
Effect fibers are scheduled cooperatively.

Abstractions:

- A worker has one sink with one subscription. `track` is everything it ever
  appended, `items` the sequence numbers its sink has still to read.
- Of the pause markers, `pauseStart` and `pauseEnd` are kept; the slate marker,
  which always follows `pauseStart` in the same step, is left out. Health
  readings never change and commit nothing by themselves.
- `launch` collapses the fiber's attach, register and validate into one step.
- The runtime refuses to prepare an active run. The raw control call (`run.ts:88-97`)
  does not: it finds the prepared run in the store and writes "prepared" over whatever
  the status is (`prepareByCall`). The console prepares through the runtime; the raw
  call is on the bus for whoever drives it directly.
- As a bound, a full `prepare` of what is prepared happens only after it has run or
  after a prepare that broke off. Configuration patches and `await`'s late status write
  are left out.
- A wake for a worker that is not in its loop is dropped: its boardWake is
  either not registered yet or never read again.
- Any turn may fail the worker (`Outcomes`), as pause controls and health
  checks may; any await may kill the fiber (`die`).

Properties: `TypeOK`, `BoardKnowsTheWorker`, `MarkersArrive`,
`QuietWhilePaused`, `NoLostWake`, `ProgressIsNoStall`; under fairness
`StopEnds`, `ResumeObeyed` and `DrainEnds`.

Fairness: fibers that can run do run, sleeps end, sources and sinks answer.
Control calls and deaths are never forced. `StopEnds` and `ResumeObeyed` are
stated for as long as no other observation takes over the bus's wake, for
which see section 9. `DrainEnds` needs no such premise: a
draining worker naps, and naps end by themselves.

## 7. The remote console: Remote.tla

One session. Leg A, from gateway to host, is a sequence of sockets with frames
in flight each way; a break loses them, and each end learns of it in its own
time. Leg B, from console to host, is immediate. The host keeps everything in
memory (`HostRestarts` forgets it), the gateway keeps its record and its outbox.

| model | code |
|---|---|
| `hosted`, `routes` | `session-store.ts`: session, gateway socket, board, UI sinks; pending calls |
| `registerGateway`, `onCallResult`, `onBoardPatch`, `onRevoke`, `onGatewayClose` | `relay.ts`, gateway side |
| `onUiHello`, `onUiMessage`, `onUiClose` | `relay.ts`, console side |
| `open`, `handleCall`, `onSessionClosed`, `onClose`, `shutdown`, `pushBoard` | `wss-client.ts` and the gateway's relay |
| `CallEnds`, `LateCallEnds`, `CallTimesOut` | dispatch and its 120 s timeout; the console's own timer |
| `ExpiresAtHost`, `reapExpired` | expiry and the reaper |

`AnswersAreTrue`, `NoCallAfterTheEnd`, `CallsAreAnswered`, `ReachedAgain`,
`EndIsTold`. Fairness: frames arrive, closes are seen, the gateway reconnects,
dispatches end or time out, and a session that is over is shut down and reaped. The
console's own timer is not assumed, so `CallsAreAnswered` says that the relay
itself answers. `StaleCloses = FALSE` assumes that the host sees the close of an old
socket before the next one registers (section 9).

Left out: pairing, passwords, grants and scopes (consoles only see functions
they may call), the replay window (the transport never repeats a call), and the
catalog of functions, which is pushed just like the board.

## 8. Runs

| run | module | checks | states | what it shows |
|---|---|---|---|---|
| vault_accounting | MCVault | TypeOK, NeverPastDrop, PoolIsDelivered, LossIsDelivered, SharesConserved, OnlyTimeEarns, PreviewAgrees, BacklogShrinks | 343 k | booking is exact however late and by whomever it is done, and the preview agrees |
| vault_settlement | MCVault | PotIsDelivered, WinnersShareThePot, OverageIsStreamed, SettlementIsFinal, WinnersArePaid | 39 k | settlement is final, complete and paid once, in the end |
| streams | MCStreams | TypeOK, CyclesNeverOwe, TokensCovered, PaysBySecond | 47 k | deltas by cycle implement payment by the second |
| lanes | MCLanes | TypeOK, PoolIsStreamed, BoardsFollowDrips | 370 k | lanes of one balance on two vaults agree with Drips |
| treasury | MCTreasury | TypeOK, ProRata | 1.45 M | dividends are pro rata, but for stated rounding |
| observe_worker | MCObserveRun | MarkersArrive, QuietWhilePaused, ProgressIsNoStall, StopEnds, ResumeObeyed | 86 k | one worker against every order of calls |
| observe_board | MCObserveRun | TypeOK, BoardKnowsTheWorker, NoLostWake | 3.3 M | two workers on one bus, prepared by raw calls while they run |
| observe_siblings | MCObserveRun | DrainEnds | 87 k | two sink kinds: refused launches, and drains that the budget ends |
| create_once | MCCreateOnce | TypeOK, OneVaultPerIntent, LandedIsFound | 306 k | one vault for one question through timeouts, reverts and a restart |
| remote | MCRemote | TypeOK, AnswersAreTrue, NoCallAfterTheEnd, CallsAreAnswered, ReachedAgain, EndIsTold | 156 k | a break of leg A or a restart of the host at any point |
| lanes_dry | MCLanes | PoolIsStreamed | violated | finding 1 |
| remote_cap | MCRemote | CapHolds | violated | finding 2 |

Deadlock is not checked: a vault that was paid out at the last second, and
runs, calls and sessions that are over with their bounds used up, stop.

Bounds, and why they are enough. *vault_accounting*: two accounts, a clock of three
seconds from 1, streams of up to two seconds, two rates that differ, and at most
three queued boundaries of a side. That admits, on one side, two boundaries that
fall due in one catch-up, a stale one before a valid one, a re-funding after a
run-dry end and a backlog longer than `MaxSteps = 1`, so hooks do revert.
*vault_settlement*: two accounts on one side, one of them on the other as well,
who fund in the first second and stop, re-peg, run dry and over-stream at any time;
resolution in either of the first two, two seconds left after it for late
stops, a treasury skim and the readiness gate, whose cycle is two
seconds. *streams*: cycles of three seconds and a clock of six, so that a
stream begins, ends and is replaced within one cycle, across two, and is
received or squeezed late; lists of two streams, whose rates differ in one and agree
in the other, so that streams are shifted, created and removed beside each other and several pairings
are possible; funds of up to four units run dry in mid cycle, and half units
(`Multiplier = 2`) make fractions. *lanes*: one
token with a lane on each of two vaults, on either side of the first, beside a
seed each, and three driver calls in four seconds. *treasury*: two losses minted
at different points of the curve, three changes of each stake, skims of 2 and 5
that no total divides evenly; `MaxStaked` is all the LVST that can be minted. *Observe*: an idle budget of
two to eight turns (4096 in the code) is what a pause and a drain need to meet
it, eight where a drain is to sleep before: a worker naps only when it has used up
the wakes its own commits left; a window of one frame (16 in the code) drops a frame as soon as two
wait; two frames make the window drop, two starts make a restart meet what the
first left on the board, and two observations (symmetric, so permuted) are enough
for one to take the other's wake or sink. *create_once*: two callers for two
intents, four operations (an approval and a create each, or retries of a reverted
one), one restart. *remote*: two consoles, a call, one break or restart, hence two sockets
that overlap in time. Counters of calls, frames, operations and failures only count
up and bound the behaviours; liveness is unaffected as no fairness is on them.

Each property has a mutant: a plausible bug put into one definition
(`PROJECT.json`, "mutants"; the mutated operator stands right before the one it
replaces) for which TLC finds the property violated under the run's own bounds.

## 9. Findings

1. **fund revives a sibling lane that ran dry** (`MarketDriver.sol:129`): Drips streams
   to it again, its vault has closed the position and books nothing. `setLanes` knows
   of this and reopens; `fund` and `stop` do not. (`lanes_dry`)
2. **The spend cap of a remote session is checked before an await and committed
   after it** (`session/registry.ts:217`): calls under way together all pass. (`remote_cap`)

Other disagreements between the code and its comments or its purpose that the models
show, with the change to a configuration that makes TLC show them:

- `pendingShares` can revert or under-report (`Vault.sol:600`): two boundaries of one
  account and second both look valid to a preview that cannot close the position.
  Drop the premise `~Twins(board[s])` of `PreviewAgrees` in `vault_accounting.cfg`.
- The overage counts seconds in which nothing flowed (`Vault.sol:757`), when a lane
  that ran dry after resolution is re-pegged by a sibling's top-up.
  `DryRepeg = TRUE` in `vault_settlement.cfg` refutes `OverageIsStreamed`.
- A raw `prepare` of a live run (`run.ts:94`) makes the board say "prepared" until the
  worker's next turn writes the truth again; a worker the bus does not wake goes on
  sleeping beside it, and of a run that is over it hides how it ended. The last
  two are why `BoardKnowsTheWorker` has to admit "prepared" for a run that is done and for
  a sleeper whose wake the bus has given to another.
- A paused run can sleep through its stop and resume (`control/bus/bus.ts:179`): the
  bus knows one wake, the latest worker's. `NoWorkerSleepsThroughACall` in `observe_board.cfg`.
- A long run is killed as stalled on its first pause (`worker/worker.ts:177`): each
  committed frame leaves a pending wake, and a paused worker burns them as idle
  turns. `WaitingIsNoStall` in `observe_worker.cfg`.
- A draining run waits for a sibling's sink (`control/board/worker-view.ts:73`) until
  the idle budget fails it. `DrainingIsNoStall` in `observe_siblings.cfg`.
- An approval that is slow is recorded as the pending create (`writer.ts:182`), and
  every retry of the key confirms the wrong operation. `PendingIsCreate` in
  `create_once.cfg`.
- A lost reply of a send, a receipt whose transaction cannot be read (`writer.ts:91`)
  and a crash before the record (`create-vault-once.ts:66`) each make a retry create a
  second vault: put the fault into `Faults` in `create_once.cfg`.
- A request that leaves the resolution window blank gets a key of its own second
  (`bridge.ts:169`), so a retry is a new intent to the store: `WindowKeys <- Blank`,
  `Intents = {i1}`.
- The close of an old socket that the host sees after the new one registered
  clears the new one (`relay.ts:187`), and the session is unreachable though the
  gateway is connected: `StaleCloses = TRUE` in `remote.cfg` refutes `ReachedAgain`.
- After a restart of the host the gateway registers again but does not push its
  board and functions (`wss-client.ts:128-135`): consoles see neither until they change.

## 10. Proofs

| module | theorem | property, or what it says |
|---|---|---|
| ObserveRunProofs | TypeCorrect | TypeOK |
| | BoardKnows | BoardKnowsTheWorker |
| | MarkersDelivered | MarkersArrive |
| | PausesAreQuiet | QuietWhilePaused |
| | NoWakeIsLost | NoLostWake |
| | ProgressIsSpared | ProgressIsNoStall |
| VaultProofs | CoreInductive | the inductive invariant of the accounting |
| | TypeCorrect | TypeOK |
| | NeverPastDropHolds | NeverPastDrop |
| | PoolIsExact | PoolIsDelivered |
| | LossIsExact | LossIsDelivered |
| | SharesAreHeld | SharesConserved |
| | BacklogOnlyShrinks | BacklogShrinks |
| | EarnedByTimeOnly | OnlyTimeEarns |
| | PreviewPromises | PreviewAgrees |
| | SharedInductive | the inductive invariant of the pot |
| | PotIsWhatWasDelivered | PotIsDelivered |
| | WinnersAreCovered | WinnersShareThePot |
| | RefundsAreCovered | OverageIsStreamed |
| | SettledForGood | SettlementIsFinal |
| StreamsProofs | CoreAlways | the inductive invariant of deltas, histories and balances |
| | TypeCorrect | TypeOK |
| | NeverOwes | CyclesNeverOwe |
| | Covered | TokensCovered |
| | Refines | PaysBySecond, the refinement of StreamLedger |
| LanesProofs | CoreInductive | the inductive invariant of drivers, Drips and boards |
| | TypeCorrect | TypeOK |
| | PoolIsDrips | PoolIsStreamed |
| | BoardsFollow | BoardsFollowDrips |
| TreasuryProofs | TypeCorrect | TypeOK |
| | PaysProRata | ProRata |
| CreateOnceProofs | TypeCorrect | TypeOK |
| | VaultCreatedOnce | OneVaultPerIntent |
| RemoteProofs | InductiveInvariant | the inductive invariant of the session |
| | TypeCorrect | TypeOK |
| | ConsolesToldTrue | AnswersAreTrue |
| | NoCallAfterRevoke | NoCallAfterTheEnd |

They hold for every value of the constants that the named assumptions of the models
admit: bounds are natural numbers, budgets and scales positive, the sets that
are summed over or counted (`Accounts`, `Vaults`, `Users`, `Calls`, `Senders`,
`Receivers` and each list of streams) finite, time within 32 bits (`Streams`), and what
the drivers require of a call holds (rates and deposits positive, one seed account
for each vault). Six theorems have a premise of their own:

- `WinnersAreCovered`: `HasTreasury`. Without one, a pot that nobody shares stays in
  the vault, as there is nowhere to send it.
- `RefundsAreCovered`: `~DryRepeg`, that is, no lane that ran dry after
  resolution is re-pegged. The code allows it and then refunds too much (section 9).
- `PoolIsDrips` and `BoardsFollow`: `~DryFunding`, that is, `fund` and `stop` do
  not set a sibling lane streaming again that ran dry (`Revives`). The code allows it and
  then the boards miss what Drips delivers (section 9). `setLanes` has no such premise.
- `VaultCreatedOnce`: `Calm` (`Faults = {}`: operations may be slow, refused or
  reverted, but no reply, receipt or record is lost) and `OneWindow` (all requests for
  an intent name one resolution window). Section 9 has what happens without each.

TLC checked every inductive invariant below on the runs' instances before it was
proved.

**Sums** (head of `BoardProofs`). Shares, rates, stakes and pools are sums over accounts,
amounts of a cycle sums over deltas. The lemmas say what `SumFunctionOnSet` does on finite sets: it unfolds, splits,
adds, scales, is monotone, and changes with one term. Induction is stated over
sets (`NatBySet`, `SetBySet`): a property is given as the set of numbers, or of
finite sets, that have it.

**Boards** (`BoardProofs`). Pure facts about the operators of `Board`, the most used
of which are that every operator keeps `Good(b)`: sums agree with positions
(`Tallied`), the queue is ordered (`Ordered`), no boundary that is still valid lies
behind `last` (`Ahead`), and every active position has its boundary in the queue
(`Placed`). `Placed` is what an unapplied drop would break, so that accrual
could run past it; `Ahead` is what makes one interval at the current rate exact.
`TurnsUnfold`, `TurnsReach`, `AdvanceIs` lift a turn of the loop to a whole
catch-up, for any budget. Then come two arguments about catch-ups as a whole:

- *Order does not matter.* Bounded catch-ups compose into one (`TurnsCompose`,
  `AdvanceOnTheWay`), and settling an account ahead of time gives a board that differs
  only in what is settled (`Alike`), now and at every later turn (`AlikeTurns`).
- *The preview walks where the catch-up goes.* The preview has neither a board to
  close positions on nor anything to write; its walk keeps four numbers. `WalksAll`
  shows that they are those of the board after each turn (`WalkOf`), provided
  that no two boundaries are equal: an applied boundary is closed in the one and
  merely passed in the other, and only a twin tells the difference. Past its own
  end an account earns nothing (`HoldingPast`), so that stopping the walk there, as
  the code does, changes nothing (`PendingIs`).

**Vault** (`VaultProofs`). `Core` is `ClockOK /\ LedgerOK /\ BoardsOK /\ LossExact`:
types, both boards `Good` and no further than the cap while anything is queued,
and for each account the equation between what its position has booked, what it
will book up to the cap, and what its stream has delivered. None of the properties is
inductive: `PoolIsDelivered`, say, speaks of a sum, and a stop of one account keeps
it only because the loss of that account is exact, which is why `LossExact` is
stated for each. `Follows` says what any call may do to a board (everybody's
loss unmoved; a board at the cap unmoved but for settled shares), with one lemma
for each hook and poke; `TickKeepsCore` is the other half: a second changes
what is to be booked by exactly what the streams deliver. `EarnedByTimeOnly` adds
`SameWorth`: what a full catch-up would credit is the same on both sides of
every call.

**Settlement** (`VaultProofs`, second half). `Seen` sorts the steps into those that only poke
boards, time, `resolve`, `collect` and `withdraw`. `Shared` is inductive beside
`Core`: from the first collect on both boards stay at the cap, so that pot and
quotas are functions of boards that no longer move, and a winner has been paid
its quota or nothing. The rounding argument (`QuotasShare`) is about sums
of quotients: they lose less than one unit for each account. `Refunded` bounds
what was refunded and what is still owed by what was streamed after resolution.

**Streams** (`StreamsProofs`, which extends `BoardProofs` for its lemmas about sums and
uses nothing of boards). Every amount is a difference of one function, `Upto(rate, t)`:
what a stream pays in the seconds before `t`, fractions waiting within their cycle.
`Flow` is what a stream pays in a window of time, and windows add up. What a
receiver's deltas come to in cycle `k`, `Cumulated(d, k)`, is linear in the deltas; a
range adds to it the flow of the part of the range in cycle `k`, so a delta split
over two cycles is a window cut at their border. Neither of the two invariants is
inductive: that a cycle never comes out negative after a stream was removed or
squeezed depends on what the other senders still have in it, and on each
mark in the histories. Nor does a delta know what stream it came from, so how a change
of the list pairs streams cannot matter: `Matched` says that paired and lone streams together are
the list. `Core` is the equation behind both: from the running cycle on,
the deltas of a receiver come to what all senders' streams are still to pay in that
cycle, and, in the running one, to what was paid in it and not squeezed yet (`AsDue`). Beside
it stand the shape of histories, configuration counters and marks (`GoodSender`,
`GoodReceiver`: the entry in force when the cycle began is the last a squeeze can see; a
mark never lies ahead of now, so one left in a slot that is used again cuts nothing),
that no stream begins before the cycle a receiver takes next (`Knows`), and that the balance
is what is left to senders and owed to receivers. One lemma for each call:
`ConfigureKeeps` replaces the old list's flows by the new list's in every cycle at once,
shifted streams included, and shows by the choice of the new end that no balance is
overdrawn; `ReceiveKeeps` and `SqueezeKeeps` take from the deltas exactly what
they bank; `TickKeeps` moves one second from what is to come to what can be
squeezed, or, at the end of a cycle, to what can be received.

*The refinement* (`Refines`) needs one fact more, which `Core` leaves open: an end computed
ahead must not be too early either. `Tight` says that at its `maxEnd` a sender is
exhausted in the ledger's sense: nothing is left, or nothing is left to pay for, or the
next second would cost more than is left. `EndIsTight` takes it from the maximality of the
search for the end; it outlasts every step, since what was paid up to the end does not depend
on when one looks. `DueIs` says that a second of a list in the ledger is the flow of that second
in the code, so a sender is stopped in the ledger exactly when the code has it pay nothing more
(`StoppedIs`, `StoppedStays`). What a receiver is owed is what `Core` says its
deltas and its open histories come to (`OwedIs`). Then each action maps to one of the ledger:
`SecondStep`, `ConfigureStep`, `BankStep` (receiving and squeezing alike), `CollectStep`, or
changes nothing it sees (`StutterStep`). The proof showed one thing about the statement that
no small run had: streams that start at the end of time, or end no later than they begin, had
to be counted as over in the ledger.

**Lanes** (`LanesProofs`). `Core` needs no premise: Drips holds exactly the driver's lanes
and the money for them until their end (`Agreed`), every board of every vault is
`Good`, and nothing streams to a vault that is not created, nor from a seed to
another vault (`Apart`). `BoardsFollowDrips` is almost inductive; `Tracked` adds what it
leaves open: a position at rest for a lane that Drips has stopped is one that ran dry,
and a position always bears the lane's rate and Drips' end. `PoolIsStreamed` is a
consequence of `Delivered`: what all accounts put into a side up to the cap is what Drips
delivered to it. The two halves of the argument: a second adds to each
position's loss what Drips streams for its lane, which is where `Tracked` is needed
(`TickGains`); a call moves nobody's loss (`Follows`) and leaves the boards tracked if
it `Tells` them enough: every lane that stays is pegged and had not run dry, or is
opened anew, and every lane that goes is stopped (`CallTracks`). `HookIs` composes what up to
three hooks of one call do to one board. `fund` and `stop` tell enough only under the
premise; without it `CallTracks` fails at exactly the step that `lanes_dry.cfg` shows.

**Treasury** (`TreasuryProofs`). What a user was paid and can claim is rounded whenever
its stake changes, so `ProRata` itself is not inductive. `FairToAll` counts in the
accumulator's own unit with nothing rounded off (`Raw`): a skim moves `Raw` by what
it gives the stake (`FairSkim`), a change of a stake by less than one unit
(`FairRestaked`), a claim not at all (`FairClaimed`).

**CreateOnce** (`CreateOnceProofs`). `Shape`, which needs no premise, says that the
callers of a key stand in line for it, each once. Under the premises `Once` says that every create
that has staked or may still stake is settled, pending or in the hands of
the caller at the head of the line (`Accounted`), that what a call read when its turn
came still holds at each later await (`Progress`), and that the state file, with
the snapshots on their way to it, ends in what memory says (`Durable`), which is
what a restart needs.

**Remote** (`RemoteProofs`). `Inductive` says what may be on the wires: a result that
says ok belongs to a call that was done, a call on its way has not been run
and is on its way once, a revoke was sent by a gateway that runs no call any
more; and what host, gateway and consoles believe agrees with that. `Retold` is the
step relation most host actions refine: nothing but what consoles are told changes.

**Observe run** (`ObserveRunProofs`). None of its properties is inductive.
`MarkersArrive` speaks of what was delivered; a step keeps it only because what is
still to be read is ordered, comes after what was delivered, and together with it
covers every marker, and because the end, once drained, is behind every other
marker. `NoLostWake` speaks of a worker that sleeps; a step keeps it only because a
worker whose view is older than the board has a wake pending (`Heard`), which its next
wait consumes. `IInv` collects these: the types of the shared variables (`Board`),
and for each observation `Sound` (its worker's types, timeline and phase), `Placed` (its
cell against where its fiber stands) and `Heard`. A turn is a function from
worker to worker: lemmas about the sequences (`AppendKept`, `PumpOrdered`,
`DropKept`, ...) give what each helper preserves, one lemma per lifecycle
(`StoppingObeys`, `RunningObeys`, ...) what its turn preserves, and `OutcomesObey`
the whole turn. Then one lemma per action shows that it keeps `IInv`;
`NotifiedKeeps` shows that a wake of any worker is harmless, and `OnwardLands`
that what the loop does after a turn keeps the worker sound and awake.

Only model-checked:

- `StopEnds`, `ResumeObeyed`, `DrainEnds`, `WinnersArePaid`, `LandedIsFound`,
  `CallsAreAnswered`, `ReachedAgain` and `EndIsTold`: liveness under fairness, which
  is out of the prover's reach.

## 11. Not modelled, and the plan

In this order:

1. `ObserveRun` extended with configuration patches, a stale prepared handle,
   `await`'s late status; an abstract run (requested, running,
   over) that it implements.
2. The balance of USDC shared by several vaults under one `Vault` contract
   (`Vault.sol:678`), composed with the release of Drips' cycles.
3. The steward's overlapping polls, the registries, the gas station's reservations.
4. The Sui and Solana ports, compared with the EVM models.

Out of scope: ffmpeg and browser drivers, HTTP handlers, storage clients, generated
bindings and presentation (I/O without protocol state; they are most of the
repository's lines); access control of contracts.
