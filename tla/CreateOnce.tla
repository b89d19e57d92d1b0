------------------------------ MODULE CreateOnce ------------------------------
(***************************************************************************)
(* The bookmaker's createVault: createVaultOnce over the idempotency       *)
(* store, the EVM writer (approve, then create, each a user operation it   *)
(* polls for), the state file and restarts of the gateway.                 *)
(*                                                                         *)
(* The chain does not refuse a second vault for the same question, so the  *)
(* store is all that keeps a retry from staking twice.  An action runs     *)
(* from one await to the next.  The bundler, which executes operations in  *)
(* its own time, and the file system are the environment.                  *)
(***************************************************************************)
EXTENDS Integers, Sequences, FiniteSets, SequencesExt

CONSTANTS
    Callers,    \* concurrent requests; one that ended may come again
    Intents,    \* what is to be created: market, question, side, stake
    Keys,       \* idempotency keys
    WindowKeys, \* of an intent: the keys its resolution windows give it
    MaxOps,     \* bound: user operations ever sent
    MaxCrashes, \* bound: restarts of the gateway
    Faults      \* what may go wrong beyond slow, refused and reverted operations

NoOp == 0

ASSUME CreateOnceAssumption ==
    /\ WindowKeys \in [Intents -> SUBSET Keys]
    /\ \A i, j \in Intents : i # j => WindowKeys[i] \cap WindowKeys[j] = {}
    /\ MaxOps \in Nat
    /\ MaxCrashes \in Nat
    /\ Faults \subseteq {"send reply lost", "receipt missing", "crash before persist"}

VARIABLES
    settled,    \* of each key: the operation whose vault was answered
    pending,    \* of each key: the operation to be confirmed
    turn,       \* exclusiveChains: who runs and who waits on each key
    call,       \* of each caller: where it is, its intent, key and operation
    disk,       \* the state file
    writes,     \* snapshots on the file's write chain
    ops,        \* the user operations the bundler accepted
    allowance,  \* the account's USDC allowance, in stakes
    answers,    \* [intent, key, op]: vaults returned to callers
    crashes

memory == <<settled, pending>>
vars == <<settled, pending, turn, call, disk, writes, ops, allowance, answers, crashes>>

Idle == [at |-> "idle"]
At(c, place) == call[c].at = place
Places == {"queued", "allowance", "approving", "creating", "confirming"}
Calls == {Idle} \cup [at : Places, intent : Intents, key : Keys, op : 0..MaxOps]

Nothing == [k \in Keys |-> NoOp]

Init ==
    /\ settled = Nothing
    /\ pending = Nothing
    /\ turn = [k \in Keys |-> << >>]
    /\ call = [c \in Callers |-> Idle]
    /\ disk = [settled |-> Nothing, pending |-> Nothing]
    /\ writes = << >>
    /\ ops = << >>
    /\ allowance \in 0..1
    /\ answers = {}
    /\ crashes = 0

-----------------------------------------------------------------------------
(* The idempotency store.                                                  *)

Persist == writes' = Append(writes, [settled |-> settled', pending |-> pending'])

settle(k, o) ==
    /\ settled' = [settled EXCEPT ![k] = o]
    /\ pending' = [pending EXCEPT ![k] = NoOp]
    /\ Persist

\* Mutant: the pending operation is kept in memory only.
markPendingInMemory(k, o) ==
    /\ pending' = [pending EXCEPT ![k] = o]
    /\ UNCHANGED <<settled, writes>>

markPending(k, o) ==
    /\ pending' = [pending EXCEPT ![k] = o]
    /\ UNCHANGED settled
    /\ Persist

Unrecorded == UNCHANGED <<settled, pending, writes>>

\* Mutant: a settled or pending operation is not looked up.
RecordedAnswerOnly(k) == settled[k] # NoOp
Recorded(k) == settled[k] # NoOp \/ pending[k] # NoOp

\* Mutant: the callers of a key do not wait for each other.
NoTurns(c) == call[c].key \in Keys

\* Mutant: a caller runs when no other is waiting.
RunsAlone(c) == turn[call[c].key] = <<c>>

HasTurn(c) == Head(turn[call[c].key]) = c

\* Mutant: a failed call leaves the chain of its key rejected.
ChainRejected(c) == UNCHANGED turn

\* The next caller on the key runs, whether this one failed or not.
Release(c) == turn' = [turn EXCEPT ![call[c].key] = Tail(@)]

-----------------------------------------------------------------------------
(* createVaultOnce.                                                        *)

Goto(c, place, o) == call' = [call EXCEPT ![c].at = place, ![c].op = o]

\* The call is over, with an answer or an error; the caller may call again.
End(c) ==
    /\ call' = [call EXCEPT ![c] = Idle]
    /\ Release(c)

Answer(c, o) ==
    answers' = answers \cup {[intent |-> call[c].intent, key |-> call[c].key, op |-> o]}

createVaultOnce(c, i, k) ==
    /\ At(c, "idle")
    /\ k \in WindowKeys[i]
    /\ call' = [call EXCEPT ![c] = [at |-> "queued", intent |-> i, key |-> k, op |-> NoOp]]
    /\ turn' = [turn EXCEPT ![k] = Append(@, c)]
    /\ Unrecorded
    /\ UNCHANGED <<disk, ops, allowance, answers, crashes>>

\* Its turn has come: the store is read and the first request goes out.
Begin(c) ==
    LET k == call[c].key
    IN  /\ At(c, "queued")
        /\ HasTurn(c)
        /\ \/ /\ Recorded(k)
              /\ settled[k] # NoOp
              /\ Answer(c, settled[k])
              /\ End(c)
           \/ /\ Recorded(k)
              /\ settled[k] = NoOp
              /\ Goto(c, "confirming", pending[k])
              /\ UNCHANGED <<turn, answers>>
           \/ /\ ~Recorded(k)
              /\ Goto(c, "allowance", NoOp)
              /\ UNCHANGED <<turn, answers>>
        /\ Unrecorded
        /\ UNCHANGED <<disk, ops, allowance, crashes>>

-----------------------------------------------------------------------------
(* The writer.                                                             *)

Operation(c, kind) ==
    [kind |-> kind, intent |-> call[c].intent, key |-> call[c].key, status |-> "sent"]

Send(c, kind, place) ==
    /\ Len(ops) < MaxOps
    /\ ops' = Append(ops, Operation(c, kind))
    /\ Goto(c, place, Len(ops'))
    /\ UNCHANGED turn

\* ensureUsdcAllowance, and the create at once if there is enough.
ReadAllowance(c) ==
    /\ At(c, "allowance")
    /\ IF allowance > 0 THEN Send(c, "create", "creating") ELSE Send(c, "approve", "approving")
    /\ Unrecorded
    /\ UNCHANGED <<disk, allowance, answers, crashes>>

Included(c) == ops[call[c].op].status = "included"

Approved(c) ==
    /\ At(c, "approving")
    /\ Included(c)
    /\ Send(c, "create", "creating")
    /\ Unrecorded
    /\ UNCHANGED <<disk, allowance, answers, crashes>>

\* The request is refused, or a read of the chain fails: nothing was sent; or
\* the request was accepted and its reply is lost.
NotSent(c) ==
    /\ At(c, "allowance") \/ (At(c, "approving") /\ Included(c))
    /\ \/ UNCHANGED ops
       \/ /\ "send reply lost" \in Faults
          /\ At(c, "allowance") => allowance > 0
          /\ Len(ops) < MaxOps
          /\ ops' = Append(ops, Operation(c, "create"))
    /\ End(c)
    /\ Unrecorded
    /\ UNCHANGED <<disk, allowance, answers, crashes>>

\* The vault is known: settled and answered.
Created(c) ==
    /\ At(c, "creating")
    /\ Included(c)
    /\ settle(call[c].key, call[c].op)
    /\ Answer(c, call[c].op)
    /\ End(c)
    /\ UNCHANGED <<disk, ops, allowance, crashes>>

\* The operation reverted, or its transaction cannot be read although its
\* receipt was polled.
CreateFails(c) ==
    /\ At(c, "creating")
    /\ \/ ops[call[c].op].status = "reverted"
       \/ Included(c) /\ "receipt missing" \in Faults
    /\ End(c)
    /\ Unrecorded
    /\ UNCHANGED <<disk, ops, allowance, answers, crashes>>

\* 60 seconds without a receipt, whether or not the operation was executed.
\* The timeout of the approval looks the same to createVaultOnce.
PollTimesOut(c) ==
    /\ At(c, "creating") \/ At(c, "approving")
    /\ markPending(call[c].key, call[c].op)
    /\ End(c)
    /\ UNCHANGED <<disk, ops, allowance, answers, crashes>>

\* confirmCreateVault finds the vault of the pending operation.
Confirmed(c) ==
    /\ At(c, "confirming")
    /\ Included(c)
    /\ ops[call[c].op].kind = "create"
    /\ settle(call[c].key, call[c].op)
    /\ Answer(c, call[c].op)
    /\ End(c)
    /\ UNCHANGED <<disk, ops, allowance, crashes>>

\* Not included, reverted, without the event, or not to be looked up now.
NotConfirmed(c) ==
    /\ At(c, "confirming")
    /\ End(c)
    /\ Unrecorded
    /\ UNCHANGED <<disk, ops, allowance, answers, crashes>>

-----------------------------------------------------------------------------
(* The environment.                                                        *)

\* approve sets the allowance, createVault spends it or reverts.
Execute(o) ==
    LET success == ops[o].kind = "approve" \/ allowance > 0
    IN  /\ ops[o].status = "sent"
        /\ ops' = [ops EXCEPT ![o].status = IF success THEN "included" ELSE "reverted"]
        /\ allowance' = IF ops[o].kind = "approve" THEN 1 ELSE IF success THEN allowance - 1 ELSE 0
        /\ Unrecorded
        /\ UNCHANGED <<turn, call, disk, answers, crashes>>

Flush ==
    /\ writes # << >>
    /\ disk' = Head(writes)
    /\ writes' = Tail(writes)
    /\ UNCHANGED <<memory, turn, call, ops, allowance, answers, crashes>>

\* The gateway dies and starts again from the state file.
Restart ==
    /\ crashes < MaxCrashes
    /\ \/ "crash before persist" \in Faults
       \/ writes = << >> /\ \A c \in Callers : ~At(c, "creating")
    /\ crashes' = crashes + 1
    /\ settled' = disk.settled
    /\ pending' = disk.pending
    /\ writes' = << >>
    /\ turn' = [k \in Keys |-> << >>]
    /\ call' = [c \in Callers |-> Idle]
    /\ UNCHANGED <<disk, ops, allowance, answers>>

Step(c) ==
    \/ Begin(c)
    \/ ReadAllowance(c)
    \/ Approved(c)
    \/ NotSent(c)
    \/ Created(c)
    \/ CreateFails(c)
    \/ PollTimesOut(c)
    \/ Confirmed(c)
    \/ NotConfirmed(c)

Next ==
    \/ \E c \in Callers :
         \/ \E i \in Intents : \E k \in WindowKeys[i] : createVaultOnce(c, i, k)
         \/ Step(c)
    \/ \E o \in DOMAIN ops : Execute(o)
    \/ Flush
    \/ Restart

Spec == Init /\ [][Next]_vars

\* Operations are executed, requests come to an end, each key is tried again,
\* and a receipt that is there is found in the end.  (Neither an execution nor
\* a confirmation happens twice, so that fairness of all is fairness of each.)
FairSpec ==
    /\ Spec
    /\ WF_vars(\E o \in DOMAIN ops : Execute(o))
    /\ \A c \in Callers : WF_vars(Step(c))
    /\ SF_vars(\E c \in Callers : Confirmed(c))
    /\ \A k \in Keys : SF_vars(\E c \in Callers, i \in Intents : createVaultOnce(c, i, k))
-----------------------------------------------------------------------------
(* Properties.                                                             *)

Live(o) == ops[o].kind = "create" /\ ops[o].status # "reverted"
Landed(o) == ops[o].kind = "create" /\ ops[o].status = "included"

\* The shape of the store and of the calls; a caller under way waits or runs
\* exactly once on the chain of its key, and nobody else does.
TypeOK ==
    /\ {settled, pending, disk.settled, disk.pending} \subseteq [Keys -> 0..MaxOps]
    /\ call \in [Callers -> Calls \cup {Idle}]
    /\ \A k \in Keys :
         /\ IsInjective(turn[k])
         /\ ToSet(turn[k]) = {c \in Callers : ~At(c, "idle") /\ call[c].key = k}
    /\ allowance \in 0..1
    /\ crashes \in 0..MaxCrashes

\* At most one submit per intent (bookmaker/docs/flow.md:61): of all create
\* operations ever sent for an intent, by concurrent calls, retries after a
\* timeout and retries after a restart, at most one has staked or still may;
\* and every vault a caller was ever told of exists and is that one.
OneVaultPerIntent ==
    /\ \A o, p \in DOMAIN ops :
         Live(o) /\ Live(p) /\ ops[o].intent = ops[p].intent => o = p
    /\ \A a \in answers : Landed(a.op) /\ ops[a.op].intent = a.intent

\* A pending key waits for a create of its own ("pending userOpHash recorded;
\* retry calls confirmCreateVault", bookmaker/docs/flow.md:40); else every
\* retry would confirm the wrong operation for ever.
PendingIsCreate == \A k \in Keys : pending[k] # NoOp =>
    ops[pending[k]].kind = "create" /\ ops[pending[k]].key = k

\* A vault that was created is answered in the end, however its receipt was
\* missed, if somebody tries again.
LandedIsFound == \A k \in Keys :
    (\E o \in DOMAIN ops : Landed(o) /\ ops[o].key = k) ~> (settled[k] # NoOp)
=============================================================================
