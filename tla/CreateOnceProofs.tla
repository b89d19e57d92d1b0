--------------------------- MODULE CreateOnceProofs ---------------------------
(***************************************************************************)
(* What CreateOnce.tla promises, for any callers, intents, keys and        *)
(* bounds.  The first half is the shape of the store and of the chains on  *)
(* which callers wait, whatever goes wrong.  The second half is that a     *)
(* question gets one vault, from two premises the code does not always     *)
(* meet: nothing goes wrong beyond slow, refused and reverted operations,  *)
(* and every request for an intent names the same resolution window.       *)
(***************************************************************************)
EXTENDS CreateOnce, TLAPS

-----------------------------------------------------------------------------
(* The shape of the store and of the chains.                               *)

Ids == 0..MaxOps
Memory == [Keys -> Ids]
Snapshots == [settled : Memory, pending : Memory]
Operations == [kind : {"approve", "create"}, intent : Intents, key : Keys,
               status : {"sent", "included", "reverted"}]
Requests == [at : Places, intent : Intents, key : Keys, op : Ids]

Store ==
    /\ settled \in Memory /\ pending \in Memory
    /\ disk \in Snapshots
    /\ writes \in Seq(Snapshots)

Chain ==
    /\ ops \in Seq(Operations)
    /\ Len(ops) <= MaxOps
    /\ allowance \in 0..1
    /\ crashes \in 0..MaxCrashes

\* A caller's key is one its intent may have.
Asked(c) == call[c] \in Requests /\ call[c].key \in WindowKeys[call[c].intent]

Waiting(k) == {c \in Callers : ~At(c, "idle") /\ call[c].key = k}

\* Callers under way stand once on the chain of their key; who is past the
\* queue is its head.
Turns ==
    /\ call \in [Callers -> Requests \cup {Idle}]
    /\ \A c \in Callers : At(c, "idle") \/ Asked(c)
    /\ DOMAIN turn = Keys
    /\ \A k \in Keys :
         /\ turn[k] \in Seq(Callers)
         /\ \A i, j \in 1..Len(turn[k]) : turn[k][i] = turn[k][j] => i = j
         /\ \A c \in Callers : c \in Waiting(k) <=> \E i \in 1..Len(turn[k]) : turn[k][i] = c
    /\ \A c \in Callers : At(c, "idle") \/ At(c, "queued") \/ HasTurn(c)

Shape == Store /\ Chain /\ Turns

LEMMA Bounds == MaxOps \in Nat /\ MaxCrashes \in Nat
BY CreateOnceAssumption

LEMMA NoOpIsId == NoOp \in Ids
BY Bounds DEF NoOp, Ids

LEMMA OperationIs ==
  ASSUME Chain, NEW o \in DOMAIN ops
  PROVE  /\ ops[o] \in Operations /\ ops[o].intent \in Intents /\ ops[o].key \in Keys
         /\ o \in 1..Len(ops) /\ o \in Ids /\ o # NoOp
<1>1. o \in 1..Len(ops) /\ Len(ops) \in Nat /\ ops[o] \in Operations
  BY DEF Chain
<1>2. o \in Ids /\ o # NoOp
  BY <1>1, Bounds DEF Chain, Ids, NoOp
<1> QED BY <1>1, <1>2 DEF Operations

LEMMA RequestIs ==
  ASSUME Turns, NEW c \in Callers
  PROVE  /\ call[c] = Idle <=> At(c, "idle")
         /\ ~At(c, "idle") => Asked(c) /\ call[c] \in Requests /\ call[c].key \in Keys
BY DEF Turns, Asked, At, Idle, Requests, Places

LEMMA GotoIs ==
  ASSUME Turns, NEW c \in Callers, ~At(c, "idle"), NEW place, NEW o, Goto(c, place, o)
  PROVE  call' = [call EXCEPT ![c] = [at |-> place, intent |-> call[c].intent,
                                      key |-> call[c].key, op |-> o]]
<1>1. call[c] \in Requests
  BY RequestIs
<1>2. call' = [call EXCEPT ![c] = [[call[c] EXCEPT !.at = place] EXCEPT !.op = o]]
  BY DEF Goto, Turns
<1> DEFINE moved == [call[c] EXCEPT !.at = place]
<1>3. moved = [at |-> place, intent |-> call[c].intent, key |-> call[c].key, op |-> call[c].op]
  BY <1>1 DEF Requests
<1> HIDE DEF moved
<1>4. [moved EXCEPT !.op = o]
      = [at |-> place, intent |-> call[c].intent, key |-> call[c].key, op |-> o]
  BY <1>3
<1> QED BY <1>2, <1>4 DEF moved

\* A caller that moves on keeps its place on the chain.
LEMMA GotoKeeps ==
  ASSUME Turns, NEW c \in Callers, ~At(c, "idle"), HasTurn(c), UNCHANGED turn,
         NEW place \in Places, NEW o \in Ids, Goto(c, place, o)
  PROVE  Turns'
<1>1. call[c] \in Requests /\ Asked(c)
  BY RequestIs
<1>2. call' = [call EXCEPT ![c] = [at |-> place, intent |-> call[c].intent,
                                   key |-> call[c].key, op |-> o]]
  BY GotoIs
<1>3. \A d \in Callers : /\ d # c => call'[d] = call[d]
                         /\ At(d, "idle")' <=> At(d, "idle")
                         /\ ~At(d, "idle") => call'[d].key = call[d].key
  BY <1>1, <1>2 DEF Turns, At, Places
<1>4. call' \in [Callers -> Requests \cup {Idle}]
  BY <1>1, <1>2 DEF Turns, Requests
<1>5. \A d \in Callers : At(d, "idle")' \/ Asked(d)'
  BY <1>1, <1>2, <1>3 DEF Turns, Asked, At, Requests
<1>6. \A k \in Keys : Waiting(k)' = Waiting(k)
  BY <1>3 DEF Waiting
<1>7. \A d \in Callers : At(d, "idle")' \/ At(d, "queued")' \/ HasTurn(d)'
  BY <1>1, <1>2, <1>3 DEF Turns, At, HasTurn
<1> QED BY <1>4, <1>5, <1>6, <1>7 DEF Turns

\* A call that ends leaves the head of its chain, and the next one runs.
LEMMA EndKeeps ==
  ASSUME Turns, NEW c \in Callers, ~At(c, "idle"), HasTurn(c), End(c)
  PROVE  Turns'
<1>1. PICK k \in Keys : k = call[c].key
  BY RequestIs
<1>2. /\ call' = [call EXCEPT ![c] = Idle]
      /\ turn' = [turn EXCEPT ![k] = Tail(turn[k])]
  BY <1>1 DEF End, Release
<1>3. c \in Waiting(k)
  BY <1>1 DEF Waiting
<1>4. /\ turn[k] \in Seq(Callers) /\ turn[k] # << >> /\ turn[k][1] = c
      /\ Len(turn[k]) \in Nat \ {0}
  BY <1>1, <1>3 DEF Turns, HasTurn
<1>5. /\ turn'[k] \in Seq(Callers)
      /\ Len(turn'[k]) = Len(turn[k]) - 1
      /\ \A i \in 1..Len(turn'[k]) : turn'[k][i] = turn[k][i + 1]
  <2>1. turn'[k] = Tail(turn[k])
    BY <1>1, <1>2 DEF Turns
  <2> QED BY <1>4, <2>1
<1>6. \A h \in Keys \ {k} : turn'[h] = turn[h]
  BY <1>2 DEF Turns
<1>7. \A d \in Callers \ {c} : call'[d] = call[d]
  BY <1>2 DEF Turns
<1>8. call'[c] = Idle /\ At(c, "idle")'
  BY <1>2 DEF Turns, At, Idle
<1>9. call' \in [Callers -> Requests \cup {Idle}]
  BY <1>2 DEF Turns
<1>10. \A d \in Callers : At(d, "idle")' \/ Asked(d)'
  BY <1>7, <1>8 DEF Turns, Asked, At
<1>11. \A i, j \in 1..Len(turn'[k]) : turn'[k][i] = turn'[k][j] => i = j
  <2> SUFFICES ASSUME NEW i \in 1..Len(turn'[k]), NEW j \in 1..Len(turn'[k]),
                      turn'[k][i] = turn'[k][j]
               PROVE  i = j
    OBVIOUS
  <2>1. i + 1 \in 1..Len(turn[k]) /\ j + 1 \in 1..Len(turn[k])
    BY <1>4, <1>5
  <2>2. turn[k][i + 1] = turn[k][j + 1]
    BY <1>5
  <2>3. i + 1 = j + 1
    BY <1>1, <2>1, <2>2 DEF Turns
  <2> QED BY <2>3
<1>12. \A d \in Callers : d \in Waiting(k)' <=> \E i \in 1..Len(turn'[k]) : turn'[k][i] = d
  <2>1. ASSUME NEW i \in 1..Len(turn'[k])
        PROVE  turn'[k][i] # c
    <3>1. i + 1 \in 1..Len(turn[k]) /\ 1 \in 1..Len(turn[k]) /\ i + 1 # 1
      BY <1>4, <1>5
    <3>2. turn[k][i + 1] # turn[k][1]
      BY <1>1, <3>1 DEF Turns
    <3> QED BY <1>4, <1>5, <3>2
  <2>2. c \notin Waiting(k)'
    BY <1>8 DEF Waiting
  <2>3. ASSUME NEW d \in Callers \ {c}
        PROVE  d \in Waiting(k)' <=> \E i \in 1..Len(turn'[k]) : turn'[k][i] = d
    <3>1. d \in Waiting(k)' <=> d \in Waiting(k)
      BY <1>7 DEF Waiting, At
    <3>2. ASSUME d \in Waiting(k)
          PROVE  \E i \in 1..Len(turn'[k]) : turn'[k][i] = d
      <4>1. PICK i \in 1..Len(turn[k]) : turn[k][i] = d
        BY <1>1, <3>2 DEF Turns
      <4>2. i # 1
        BY <1>4, <4>1
      <4>3. i - 1 \in 1..Len(turn'[k])
        BY <1>4, <1>5, <4>2
      <4>4. turn'[k][i - 1] = turn[k][(i - 1) + 1]
        BY <1>5, <4>3
      <4> QED BY <4>1, <4>3, <4>4
    <3>3. ASSUME NEW i \in 1..Len(turn'[k]), turn'[k][i] = d
          PROVE  d \in Waiting(k)
      <4>1. i + 1 \in 1..Len(turn[k]) /\ turn[k][i + 1] = d
        BY <1>4, <1>5, <3>3
      <4> QED BY <1>1, <4>1 DEF Turns
    <3> QED BY <3>1, <3>2, <3>3
  <2> QED BY <2>1, <2>2, <2>3
<1>13. \A h \in Keys \ {k} : Waiting(h)' = Waiting(h)
  BY <1>1, <1>7, <1>8 DEF Waiting, At
<1>14. ASSUME NEW d \in Callers, ~At(d, "idle")', ~At(d, "queued")'
       PROVE  HasTurn(d)'
  <2>1. d # c /\ call'[d] = call[d]
    BY <1>7, <1>8, <1>14
  <2>2. HasTurn(d) /\ d \in Callers /\ call[d].key \in Keys
    BY <1>14, <2>1, RequestIs DEF Turns, At
  <2>3. call[d].key # k
    BY <1>1, <2>1, <2>2 DEF HasTurn
  <2> QED BY <1>6, <2>1, <2>2, <2>3 DEF HasTurn
<1>15. DOMAIN turn' = Keys
  BY <1>2 DEF Turns
<1>16. ASSUME NEW h \in Keys
       PROVE  /\ turn'[h] \in Seq(Callers)
              /\ \A i, j \in 1..Len(turn'[h]) : turn'[h][i] = turn'[h][j] => i = j
              /\ \A d \in Callers : d \in Waiting(h)' <=> \E i \in 1..Len(turn'[h]) : turn'[h][i] = d
  <2>1. CASE h = k
    BY <1>5, <1>11, <1>12, <2>1
  <2>2. CASE h # k
    BY <1>6, <1>13, <2>2 DEF Turns
  <2> QED BY <2>1, <2>2
<1> QED BY <1>9, <1>10, <1>14, <1>15, <1>16 DEF Turns

\* A request joins its chain at the end, and runs at once if it was empty.
LEMMA RequestKeeps ==
  ASSUME Turns, NEW c \in Callers, NEW i \in Intents, NEW k \in WindowKeys[i],
         createVaultOnce(c, i, k)
  PROVE  Turns'
<1> DEFINE new == [at |-> "queued", intent |-> i, key |-> k, op |-> NoOp]
<1>1. k \in Keys /\ At(c, "idle")
  BY CreateOnceAssumption DEF createVaultOnce
<1>2. /\ call' = [call EXCEPT ![c] = new]
      /\ turn' = [turn EXCEPT ![k] = Append(turn[k], c)]
  BY DEF createVaultOnce
<1>3. new \in Requests
  BY <1>1, NoOpIsId DEF Requests, Places
<1>4. call'[c] = new /\ \A d \in Callers \ {c} : call'[d] = call[d]
  BY <1>2 DEF Turns
<1>5. ~At(c, "idle")' /\ At(c, "queued")' /\ Asked(c)'
  BY <1>3, <1>4 DEF At, Asked
<1>6. turn[k] \in Seq(Callers) /\ Len(turn[k]) \in Nat
  BY <1>1 DEF Turns
<1>7. turn'[k] = Append(turn[k], c) /\ \A h \in Keys \ {k} : turn'[h] = turn[h]
  BY <1>1, <1>2 DEF Turns
<1>8. /\ turn'[k] \in Seq(Callers)
      /\ Len(turn'[k]) = Len(turn[k]) + 1
      /\ turn'[k][Len(turn[k]) + 1] = c
      /\ \A j \in 1..Len(turn[k]) : turn'[k][j] = turn[k][j]
  BY <1>6, <1>7
<1>9. \A j \in 1..Len(turn[k]) : turn[k][j] # c
  BY <1>1 DEF Turns, Waiting
<1>10. call' \in [Callers -> Requests \cup {Idle}]
  BY <1>2, <1>3 DEF Turns
<1>11. \A d \in Callers : At(d, "idle")' \/ Asked(d)'
  BY <1>4, <1>5 DEF Turns, Asked, At
<1>12. \A m, n \in 1..Len(turn'[k]) : turn'[k][m] = turn'[k][n] => m = n
  <2> SUFFICES ASSUME NEW m \in 1..Len(turn'[k]), NEW n \in 1..Len(turn'[k]),
                      turn'[k][m] = turn'[k][n]
               PROVE  m = n
    OBVIOUS
  <2>1. CASE m \in 1..Len(turn[k]) /\ n \in 1..Len(turn[k])
    BY <1>1, <1>8, <2>1 DEF Turns
  <2>2. CASE m = Len(turn[k]) + 1 \/ n = Len(turn[k]) + 1
    <3>1. m \notin 1..Len(turn[k]) /\ n \notin 1..Len(turn[k])
      BY <1>6, <1>8, <1>9, <2>2
    <3> QED BY <1>6, <1>8, <3>1
  <2> QED BY <1>6, <1>8, <2>1, <2>2
<1>13. ASSUME NEW d \in Callers
       PROVE  d \in Waiting(k)' <=> \E j \in 1..Len(turn'[k]) : turn'[k][j] = d
  <2>1. CASE d = c
    <3>1. c \in Waiting(k)'
      BY <1>4, <1>5 DEF Waiting
    <3>2. Len(turn[k]) + 1 \in 1..Len(turn'[k])
      BY <1>6, <1>8
    <3> QED BY <1>8, <2>1, <3>1, <3>2
  <2>2. CASE d # c
    <3>1. d \in Waiting(k)' <=> d \in Waiting(k)
      BY <1>4, <2>2 DEF Waiting, At
    <3>2. d \in Waiting(k) <=> \E j \in 1..Len(turn[k]) : turn[k][j] = d
      BY <1>1 DEF Turns
    <3>3. \A j \in 1..Len(turn'[k]) : turn'[k][j] = d => j \in 1..Len(turn[k])
      BY <1>6, <1>8, <2>2
    <3>4. \A j \in 1..Len(turn[k]) : j \in 1..Len(turn'[k])
      BY <1>6, <1>8
    <3> QED BY <1>8, <3>1, <3>2, <3>3, <3>4
  <2> QED BY <2>1, <2>2
<1>14. \A h \in Keys \ {k} : Waiting(h)' = Waiting(h)
  BY <1>1, <1>4 DEF Waiting, At
<1>15. ASSUME NEW d \in Callers, ~At(d, "idle")', ~At(d, "queued")'
       PROVE  HasTurn(d)'
  <2>1. d # c /\ call'[d] = call[d]
    BY <1>4, <1>5, <1>15
  <2>2. HasTurn(d) /\ call[d].key \in Keys /\ d \in Waiting(call[d].key)
    BY <1>15, <2>1, RequestIs DEF Turns, At, Waiting
  <2>3. CASE call[d].key # k
    BY <1>7, <2>1, <2>2, <2>3 DEF HasTurn
  <2>4. CASE call[d].key = k
    <3>1. 1 \in 1..Len(turn[k])
      BY <1>6, <2>2, <2>4 DEF Turns
    <3>2. turn[k][1] = d /\ turn'[k][1] = d /\ turn'[k] # << >>
      BY <1>6, <1>8, <2>2, <2>4, <3>1 DEF HasTurn
    <3> QED BY <2>1, <2>4, <3>2 DEF HasTurn
  <2> QED BY <2>3, <2>4
<1>16. DOMAIN turn' = Keys
  BY <1>2 DEF Turns
<1>17. ASSUME NEW h \in Keys
       PROVE  /\ turn'[h] \in Seq(Callers)
              /\ \A m, n \in 1..Len(turn'[h]) : turn'[h][m] = turn'[h][n] => m = n
              /\ \A d \in Callers : d \in Waiting(h)' <=> \E j \in 1..Len(turn'[h]) : turn'[h][j] = d
  <2>1. CASE h = k
    BY <1>8, <1>12, <1>13, <2>1
  <2>2. CASE h # k
    BY <1>7, <1>14, <2>2 DEF Turns
  <2> QED BY <2>1, <2>2
<1> QED BY <1>10, <1>11, <1>15, <1>16, <1>17 DEF Turns


LEMMA NothingIsMemory == Nothing \in Memory /\ [settled |-> Nothing, pending |-> Nothing] \in Snapshots
BY NoOpIsId DEF Nothing, Memory, Snapshots

LEMMA ShapeInit ==
  ASSUME Init
  PROVE  Shape
<1>1. Store
  BY NothingIsMemory DEF Init, Store
<1>2. Chain
  BY Bounds DEF Init, Chain
<1>3. Turns
  BY DEF Init, Turns, At, Idle, Waiting
<1> QED BY <1>1, <1>2, <1>3 DEF Shape

LEMMA PersistKeeps ==
  ASSUME Store, settled' \in Memory, pending' \in Memory, Persist, UNCHANGED disk
  PROVE  Store'
<1>1. [settled |-> settled', pending |-> pending'] \in Snapshots
  BY DEF Snapshots
<1>2. writes' \in Seq(Snapshots)
  BY <1>1 DEF Persist, Store
<1> QED BY <1>2 DEF Store

LEMMA settleKeeps ==
  ASSUME Store, NEW k \in Keys, NEW o \in Ids, settle(k, o), UNCHANGED disk
  PROVE  Store'
<1>1. settled' \in Memory /\ pending' \in Memory
  BY NoOpIsId DEF settle, Store, Memory
<1> QED BY <1>1, PersistKeeps DEF settle

LEMMA markPendingKeeps ==
  ASSUME Store, NEW k \in Keys, NEW o \in Ids, markPending(k, o), UNCHANGED disk
  PROVE  Store'
<1>1. settled' \in Memory /\ pending' \in Memory
  BY DEF markPending, Store, Memory
<1> QED BY <1>1, PersistKeeps DEF markPending

LEMMA SendKeeps ==
  ASSUME Chain, Turns, NEW c \in Callers, ~At(c, "idle"), HasTurn(c),
         NEW kind \in {"approve", "create"}, NEW place \in Places, Send(c, kind, place),
         UNCHANGED <<allowance, crashes>>
  PROVE  Chain' /\ Turns'
<1>1. Asked(c) /\ call[c] \in Requests
  BY RequestIs
<1>2. Operation(c, kind) \in Operations
  BY <1>1 DEF Operation, Operations, Requests
<1>3. ops' \in Seq(Operations) /\ Len(ops') = Len(ops) + 1 /\ Len(ops) < MaxOps
  BY <1>2 DEF Send, Chain
<1>4. Len(ops') \in Ids
  BY <1>3, Bounds DEF Ids, Chain
<1>5. Goto(c, place, Len(ops')) /\ UNCHANGED turn
  BY DEF Send
<1>6. Chain'
  BY <1>3, Bounds DEF Chain
<1>7. Turns'
  BY <1>4, <1>5, GotoKeeps
<1> QED BY <1>6, <1>7

\* Every step of a call keeps the shape.
LEMMA StepKeeps ==
  ASSUME Shape, NEW c \in Callers, Step(c)
  PROVE  Shape'
<1> USE DEF Shape
<1>1. ~At(c, "idle") /\ HasTurn(c)
  BY DEF Step, Turns, At, Begin, ReadAllowance, Approved, NotSent, Created, CreateFails,
         PollTimesOut, Confirmed, NotConfirmed
<1>2. call[c] \in Requests /\ Asked(c) /\ call[c].key \in Keys /\ call[c].op \in Ids
  BY <1>1, RequestIs DEF Requests
<1>3. End(c) => Turns'
  BY <1>1, EndKeeps
<1>4. CASE Begin(c)
  <2>1. Store' /\ Chain'
    BY <1>4 DEF Begin, Unrecorded, Store, Chain
  <2>2. Turns'
    <3>1. CASE End(c)
      BY <1>3, <3>1
    <3>2. CASE Goto(c, "confirming", pending[call[c].key]) /\ UNCHANGED turn
      <4>1. pending[call[c].key] \in Ids /\ "confirming" \in Places
        BY <1>2 DEF Store, Memory, Places
      <4> QED BY <1>1, <3>2, <4>1, GotoKeeps
    <3>3. CASE Goto(c, "allowance", NoOp) /\ UNCHANGED turn
      <4>1. NoOp \in Ids /\ "allowance" \in Places
        BY NoOpIsId DEF Places
      <4> QED BY <1>1, <3>3, <4>1, GotoKeeps
    <3> QED BY <1>4, <3>1, <3>2, <3>3 DEF Begin
  <2> QED BY <2>1, <2>2
<1>5. CASE ReadAllowance(c)
  <2>1. Store'
    BY <1>5 DEF ReadAllowance, Unrecorded, Store
  <2>2. Send(c, "create", "creating") \/ Send(c, "approve", "approving")
    BY <1>5 DEF ReadAllowance
  <2>3. UNCHANGED <<allowance, crashes>>
    BY <1>5 DEF ReadAllowance
  <2>4. "creating" \in Places /\ "approving" \in Places
    BY DEF Places
  <2> QED BY <1>1, <2>1, <2>2, <2>3, <2>4, SendKeeps
<1>6. CASE Approved(c)
  <2>1. Store'
    BY <1>6 DEF Approved, Unrecorded, Store
  <2>2. Send(c, "create", "creating") /\ UNCHANGED <<allowance, crashes>>
    BY <1>6 DEF Approved
  <2>3. "creating" \in Places
    BY DEF Places
  <2> QED BY <1>1, <2>1, <2>2, <2>3, SendKeeps
<1>7. CASE NotSent(c)
  <2>1. Store' /\ End(c)
    BY <1>7 DEF NotSent, Unrecorded, Store
  <2>2. Operation(c, "create") \in Operations
    BY <1>2 DEF Operation, Operations, Requests
  <2>3. Chain'
    <3>1. CASE UNCHANGED ops
      BY <1>7, <3>1 DEF NotSent, Chain
    <3>2. CASE Len(ops) < MaxOps /\ ops' = Append(ops, Operation(c, "create"))
      <4>1. ops' \in Seq(Operations) /\ Len(ops') = Len(ops) + 1
        BY <2>2, <3>2 DEF Chain
      <4>2. UNCHANGED <<allowance, crashes>>
        BY <1>7 DEF NotSent
      <4>3. Len(ops') <= MaxOps
        BY <3>2, <4>1, Bounds DEF Chain
      <4> QED BY <4>1, <4>2, <4>3 DEF Chain
    <3> QED BY <1>7, <3>1, <3>2 DEF NotSent
  <2> QED BY <1>3, <2>1, <2>3
<1>8. CASE Created(c) \/ Confirmed(c)
  <2>1. settle(call[c].key, call[c].op) /\ End(c) /\ UNCHANGED <<disk, ops, allowance, crashes>>
    BY <1>8 DEF Created, Confirmed
  <2>2. Store'
    BY <1>2, <2>1, settleKeeps
  <2>3. Chain'
    BY <2>1 DEF Chain
  <2> QED BY <1>3, <2>1, <2>2, <2>3
<1>9. CASE CreateFails(c) \/ NotConfirmed(c)
  <2>1. Store' /\ Chain' /\ End(c)
    BY <1>9 DEF CreateFails, NotConfirmed, Unrecorded, Store, Chain
  <2> QED BY <1>3, <2>1
<1>10. CASE PollTimesOut(c)
  <2>1. markPending(call[c].key, call[c].op) /\ End(c) /\ UNCHANGED <<disk, ops, allowance, crashes>>
    BY <1>10 DEF PollTimesOut
  <2>2. Store'
    BY <1>2, <2>1, markPendingKeeps
  <2>3. Chain'
    BY <2>1 DEF Chain
  <2> QED BY <1>3, <2>1, <2>2, <2>3
<1> QED BY <1>4, <1>5, <1>6, <1>7, <1>8, <1>9, <1>10 DEF Step

LEMMA ExecuteKeeps ==
  ASSUME Shape, NEW o \in DOMAIN ops, Execute(o)
  PROVE  Shape'
<1> USE DEF Shape
<1>1. Store' /\ Turns'
  BY DEF Execute, Unrecorded, Store, Turns, Waiting, At, Asked, HasTurn
<1>2. PICK status \in {"included", "reverted"} : ops' = [ops EXCEPT ![o].status = status]
  BY DEF Execute
<1>3. ops[o] \in Operations
  BY DEF Chain
<1>4. [ops[o] EXCEPT !.status = status] \in Operations
  BY <1>3 DEF Operations
<1>5. ops' = [ops EXCEPT ![o] = [ops[o] EXCEPT !.status = status]]
  BY <1>2
<1>6. ops' \in Seq(Operations) /\ Len(ops') = Len(ops)
  BY <1>4, <1>5 DEF Chain
<1>7. allowance' \in 0..1 /\ crashes' = crashes
  BY DEF Execute, Chain
<1> QED BY <1>1, <1>6, <1>7 DEF Chain

LEMMA FlushKeeps ==
  ASSUME Shape, Flush
  PROVE  Shape'
<1> USE DEF Shape
<1>1. Chain' /\ Turns'
  BY DEF Flush, Chain, Turns, Waiting, At, Asked, HasTurn
<1>2. settled' = settled /\ pending' = pending
  BY DEF Flush, memory
<1>3. Head(writes) \in Snapshots /\ Tail(writes) \in Seq(Snapshots)
  BY DEF Flush, Store
<1>4. Store'
  BY <1>2, <1>3 DEF Flush, Store
<1> QED BY <1>1, <1>4

LEMMA RestartKeeps ==
  ASSUME Shape, Restart
  PROVE  Shape'
<1> USE DEF Shape
<1>1. Store'
  <2>1. /\ settled' = disk.settled /\ pending' = disk.pending /\ disk' = disk
        /\ writes' = << >>
    BY DEF Restart
  <2> QED BY <2>1 DEF Store, Snapshots
<1>2. Chain'
  <2>1. crashes < MaxCrashes /\ crashes' = crashes + 1 /\ UNCHANGED <<ops, allowance>>
    BY DEF Restart
  <2> QED BY <2>1, Bounds DEF Chain
<1>3. Turns'
  <2>1. turn' = [k \in Keys |-> << >>] /\ call' = [c \in Callers |-> Idle]
    BY DEF Restart
  <2>2. \A c \in Callers : call'[c] = Idle /\ At(c, "idle")'
    BY <2>1 DEF At, Idle
  <2>3. \A k \in Keys : turn'[k] = << >> /\ Waiting(k)' = {}
    BY <2>1, <2>2 DEF Waiting
  <2>4. DOMAIN turn' = Keys /\ call' \in [Callers -> Requests \cup {Idle}]
    BY <2>1
  <2>5. ASSUME NEW k \in Keys
        PROVE  turn'[k] \in Seq(Callers) /\ Len(turn'[k]) = 0 /\ 1..Len(turn'[k]) = {}
    <3>1. << >> \in Seq(Callers) /\ Len(<< >>) = 0 /\ 1..0 = {}
      OBVIOUS
    <3>2. turn'[k] = << >>
      BY <2>3
    <3> QED BY <3>1, <3>2
  <2>6. ASSUME NEW k \in Keys
        PROVE  /\ turn'[k] \in Seq(Callers)
               /\ \A i, j \in 1..Len(turn'[k]) : turn'[k][i] = turn'[k][j] => i = j
               /\ \A c \in Callers : c \in Waiting(k)' <=> \E i \in 1..Len(turn'[k]) : turn'[k][i] = c
    BY <2>3, <2>5
  <2>7. \A c \in Callers : At(c, "idle")' \/ Asked(c)'
    BY <2>2
  <2>8. \A c \in Callers : At(c, "idle")' \/ At(c, "queued")' \/ HasTurn(c)'
    BY <2>2
  <2> QED BY <2>4, <2>6, <2>7, <2>8 DEF Turns
<1> QED BY <1>1, <1>2, <1>3

LEMMA ShapeNext ==
  ASSUME Shape, [Next]_vars
  PROVE  Shape'
<1>1. ASSUME NEW c \in Callers, NEW i \in Intents, NEW k \in WindowKeys[i], createVaultOnce(c, i, k)
      PROVE  Shape'
  <2>1. Store' /\ Chain'
    BY <1>1 DEF createVaultOnce, Unrecorded, Shape, Store, Chain
  <2> QED BY <1>1, <2>1, RequestKeeps DEF Shape
<1>2. CASE UNCHANGED vars
  BY <1>2 DEF vars, Shape, Store, Chain, Turns, Waiting, At, Asked, HasTurn
<1> QED BY <1>1, <1>2, StepKeeps, ExecuteKeeps, FlushKeeps, RestartKeeps DEF Next

THEOREM ShapeInvariant == Spec => []Shape
BY ShapeInit, ShapeNext, PTL DEF Spec

\* The shape of the store and of the calls, whatever goes wrong: in particular,
\* callers of a key stand in line for it, each once, and nobody else does.
THEOREM TypeCorrect == Spec => []TypeOK
<1>1. Shape => TypeOK
  <2> SUFFICES ASSUME Shape
               PROVE  TypeOK
    OBVIOUS
  <2>1. {settled, pending, disk.settled, disk.pending} \subseteq [Keys -> 0..MaxOps]
    BY DEF Shape, Store, Snapshots, Memory, Ids
  <2>2. call \in [Callers -> Calls \cup {Idle}]
    BY DEF Shape, Turns, Requests, Ids, Calls
  <2>3. ASSUME NEW k \in Keys
        PROVE  /\ IsInjective(turn[k])
               /\ ToSet(turn[k]) = {c \in Callers : ~At(c, "idle") /\ call[c].key = k}
    <3>1. turn[k] \in Seq(Callers) /\ DOMAIN turn[k] = 1..Len(turn[k])
      BY DEF Shape, Turns
    <3>2. IsInjective(turn[k])
      BY <3>1 DEF Shape, Turns, IsInjective
    <3>3. ToSet(turn[k]) = Waiting(k)
      <4>1. \A i \in 1..Len(turn[k]) : turn[k][i] \in Callers
        BY <3>1
      <4>2. \A c \in Callers : c \in Waiting(k) <=> \E i \in 1..Len(turn[k]) : turn[k][i] = c
        BY DEF Shape, Turns
      <4>3. Waiting(k) \subseteq Callers
        BY DEF Waiting
      <4> QED BY <3>1, <4>1, <4>2, <4>3 DEF ToSet
    <3> QED BY <3>2, <3>3 DEF Waiting
  <2> QED BY <2>1, <2>2, <2>3 DEF TypeOK, Shape, Chain
<1> QED BY <1>1, ShapeInvariant, PTL


-----------------------------------------------------------------------------
(* One vault per intent.                                                   *)

\* Nothing goes wrong but slow, refused and reverted operations.
Calm == Faults = {}

\* All requests for an intent name the same resolution window.
OneWindow == \A i \in Intents : \A k, l \in WindowKeys[i] : k = l

\* An operation is sent for an intent under a key of that intent.
Named == \A o \in DOMAIN ops : ops[o].key \in WindowKeys[ops[o].intent]

SentFor(o, k) == o \in DOMAIN ops /\ ops[o].key = k

Marks == \A k \in Keys :
    /\ settled[k] # NoOp => SentFor(settled[k], k) /\ Landed(settled[k]) /\ pending[k] = NoOp
    /\ pending[k] # NoOp => SentFor(pending[k], k)

\* What a call knows from when its turn came still holds.
InProgress(c) ==
    /\ At(c, "allowance") \/ At(c, "approving") \/ At(c, "creating") => ~Recorded(call[c].key)
    /\ At(c, "approving") \/ At(c, "creating") => SentFor(call[c].op, call[c].key)
    /\ At(c, "creating") =>
         ops[call[c].op].kind = "create" /\ ops[call[c].op].intent = call[c].intent
    /\ At(c, "confirming") =>
         /\ settled[call[c].key] = NoOp /\ pending[call[c].key] # NoOp
         /\ call[c].op = pending[call[c].key]

Progress == \A c \in Callers : InProgress(c)

Creating(c, o) == At(c, "creating") /\ call[c].key = ops[o].key /\ call[c].op = o

\* No create is forgotten while it may stake.
Accounted == \A o \in DOMAIN ops : Live(o) =>
    \/ settled[ops[o].key] = o
    \/ pending[ops[o].key] = o
    \/ \E c \in Callers : Creating(c, o)

\* The last snapshot on its way to the file, or the file, is the memory.
Durable ==
    LET snapshot == [settled |-> settled, pending |-> pending]
    IN  IF writes = << >> THEN disk = snapshot ELSE writes[Len(writes)] = snapshot

Answered == \A a \in answers :
    SentFor(a.op, a.key) /\ Landed(a.op) /\ ops[a.op].intent = a.intent

Once == Named /\ Marks /\ Progress /\ Accounted /\ Durable /\ Answered

Past(c) == At(c, "allowance") \/ At(c, "approving") \/ At(c, "creating") \/ At(c, "confirming")

\* Of the callers that share a key, one is past the queue.
LEMMA OneRuns ==
  ASSUME Turns, NEW c \in Callers, HasTurn(c), NEW d \in Callers, Past(d),
         call[d].key = call[c].key
  PROVE  d = c
BY DEF Turns, Past, At, HasTurn

\* A create for the key of a running call is that call's own.
LEMMA NoneBefore ==
  ASSUME Once, Shape, NEW c \in Callers, HasTurn(c), ~Recorded(call[c].key),
         NEW o \in DOMAIN ops, Live(o), ops[o].key = call[c].key
  PROVE  At(c, "creating") /\ call[c].op = o
<1>1. o # NoOp
  BY DEF Shape, Chain, NoOp
<1>2. settled[call[c].key] # o /\ pending[call[c].key] # o
  BY <1>1 DEF Recorded
<1>3. PICK d \in Callers : Creating(d, o)
  BY <1>2 DEF Once, Accounted
<1>4. d = c
  BY <1>3, OneRuns DEF Creating, Past, Shape
<1> QED BY <1>3, <1>4 DEF Creating

\* Two creates for one key are one.
LEMMA OnePerKey ==
  ASSUME Once, Shape, NEW o \in DOMAIN ops, NEW p \in DOMAIN ops,
         Live(o), Live(p), ops[o].key = ops[p].key
  PROVE  o = p
<1>1. PICK k \in Keys : k = ops[o].key
  BY OperationIs DEF Shape
<1>2. o # NoOp /\ p # NoOp
  BY OperationIs DEF Shape
<1>3. \A c \in Callers : At(c, "creating") /\ call[c].key = k =>
        HasTurn(c) /\ settled[k] = NoOp /\ pending[k] = NoOp
  BY DEF Once, Progress, InProgress, Recorded, Shape, Turns, At
<1>4. \A c, d \in Callers : Creating(c, o) /\ Creating(d, p) => c = d
  BY <1>1, <1>3, OneRuns DEF Creating, Past, Shape
<1>5. settled[k] # NoOp => pending[k] = NoOp
  BY DEF Once, Marks
<1>6. \/ settled[k] = o
      \/ pending[k] = o
      \/ \E c \in Callers : Creating(c, o)
  BY <1>1 DEF Once, Accounted
<1>7. \/ settled[k] = p
      \/ pending[k] = p
      \/ \E c \in Callers : Creating(c, p)
  BY <1>1 DEF Once, Accounted
<1>8. \A c \in Callers : Creating(c, o) \/ Creating(c, p) => settled[k] = NoOp /\ pending[k] = NoOp
  BY <1>1, <1>3 DEF Creating
<1> QED BY <1>2, <1>4, <1>5, <1>6, <1>7, <1>8 DEF Creating

LEMMA OnceInit ==
  ASSUME Init
  PROVE  Once
<1>1. Named /\ Accounted /\ Answered /\ Durable
  BY DEF Init, Named, Accounted, Answered, Durable
<1>2. Marks
  BY DEF Init, Nothing, Marks
<1>3. Progress
  BY DEF Init, Idle, At, Progress, InProgress
<1> QED BY <1>1, <1>2, <1>3 DEF Once

\* The callers but c, and the memory and the operations, are as before.
Apart(c) ==
    /\ \A d \in Callers \ {c} : call'[d] = call[d]
    /\ Unrecorded
    /\ UNCHANGED <<disk, ops>>

\* A step that only moves a call which no create depends on.
LEMMA ApartKeeps ==
  ASSUME Once, NEW c \in Callers, Apart(c),
         \A o \in DOMAIN ops : Live(o) => ~Creating(c, o), InProgress(c)', Answered'
  PROVE  Once'
<1>1. Named' /\ Marks' /\ Durable'
  BY DEF Apart, Unrecorded, Once, Named, Marks, Durable, SentFor, Landed
<1>2. Progress'
  BY DEF Apart, Unrecorded, Once, Progress, InProgress, At, Recorded, SentFor
<1>3. Accounted'
  BY DEF Apart, Unrecorded, Once, Accounted, Live, Creating, At
<1> QED BY <1>1, <1>2, <1>3 DEF Once

LEMMA EndApart ==
  ASSUME Turns, NEW c \in Callers, End(c)
  PROVE  /\ \A d \in Callers \ {c} : call'[d] = call[d]
         /\ InProgress(c)'
BY DEF End, Turns, InProgress, At, Idle

\* The vault of operation o is answered to c.
LEMMA AnswerKeeps ==
  ASSUME Once, Shape, NEW c \in Callers, ~At(c, "idle"), UNCHANGED ops, NEW o,
         SentFor(o, call[c].key), Landed(o), Answer(c, o)
  PROVE  Answered'
<1>1. Asked(c) /\ call[c].intent \in Intents /\ call[c].key \in WindowKeys[call[c].intent]
  BY RequestIs DEF Shape, Asked, Requests
<1>2. ops[o].intent \in Intents /\ ops[o].key \in WindowKeys[ops[o].intent] /\ ops[o].key = call[c].key
  BY OperationIs DEF SentFor, Once, Named, Shape
<1>3. ops[o].intent = call[c].intent
  BY <1>1, <1>2, CreateOnceAssumption
<1> QED BY <1>3 DEF Answer, Once, Answered, SentFor, Landed

LEMMA RequestOnce ==
  ASSUME Once, Shape, NEW c \in Callers, NEW i \in Intents, NEW k \in WindowKeys[i],
         createVaultOnce(c, i, k)
  PROVE  Once'
<1>1. call' = [call EXCEPT ![c] = [at |-> "queued", intent |-> i, key |-> k, op |-> NoOp]]
  BY DEF createVaultOnce
<1>2. Apart(c) /\ At(c, "queued")'
  BY <1>1 DEF createVaultOnce, Apart, Shape, Turns, At
<1>3. InProgress(c)'
  BY <1>2 DEF InProgress, At
<1>4. Answered'
  BY DEF createVaultOnce, Once, Answered, SentFor, Landed
<1>5. ~At(c, "creating")
  BY DEF createVaultOnce, At
<1> QED BY <1>2, <1>3, <1>4, <1>5, ApartKeeps DEF Creating

LEMMA BeginOnce ==
  ASSUME Once, Shape, NEW c \in Callers, Begin(c)
  PROVE  Once'
<1>1. PICK k \in Keys : k = call[c].key
  BY RequestIs DEF Begin, Shape, At
<1>2. ~At(c, "idle") /\ ~At(c, "creating") /\ Unrecorded /\ UNCHANGED <<disk, ops>>
  BY DEF Begin, At
<1>3. CASE settled[k] # NoOp /\ Answer(c, settled[k]) /\ End(c)
  <2>1. SentFor(settled[k], k) /\ Landed(settled[k])
    BY <1>3 DEF Once, Marks
  <2>2. Answered'
    BY <1>1, <1>2, <1>3, <2>1, AnswerKeeps
  <2>3. Apart(c) /\ InProgress(c)'
    BY <1>2, <1>3, EndApart DEF Apart, Shape
  <2> QED BY <1>2, <2>2, <2>3, ApartKeeps DEF Creating
<1>4. CASE UNCHANGED answers /\ \E place \in {"confirming", "allowance"}, o \in Ids :
             /\ Goto(c, place, o)
             /\ IF place = "confirming" THEN settled[k] = NoOp /\ pending[k] # NoOp /\ o = pending[k]
                ELSE ~Recorded(k)
  <2>1. PICK place \in {"confirming", "allowance"}, o \in Ids :
             /\ Goto(c, place, o)
             /\ IF place = "confirming" THEN settled[k] = NoOp /\ pending[k] # NoOp /\ o = pending[k]
                ELSE ~Recorded(k)
    BY <1>4
  <2>2. call' = [call EXCEPT ![c] = [at |-> place, intent |-> call[c].intent,
                                     key |-> k, op |-> o]]
    BY <1>1, <1>2, <2>1, GotoIs DEF Shape
  <2>3. /\ \A d \in Callers \ {c} : call'[d] = call[d]
        /\ call'[c].at = place /\ call'[c].key = k /\ call'[c].op = o
    BY <2>2 DEF Shape, Turns
  <2>4. Apart(c)
    BY <1>2, <2>3 DEF Apart
  <2>5. InProgress(c)'
    BY <1>2, <2>1, <2>3 DEF InProgress, At, Recorded, Unrecorded
  <2>6. Answered'
    BY <1>2, <1>4 DEF Once, Answered, SentFor, Landed
  <2> QED BY <1>2, <2>4, <2>5, <2>6, ApartKeeps DEF Creating
<1>5. \/ settled[k] # NoOp /\ Answer(c, settled[k]) /\ End(c)
      \/ settled[k] = NoOp /\ pending[k] # NoOp /\ Goto(c, "confirming", pending[k]) /\ UNCHANGED answers
      \/ ~Recorded(k) /\ Goto(c, "allowance", NoOp) /\ UNCHANGED answers
  BY <1>1 DEF Begin, Recorded
<1>6. pending[k] \in Ids /\ NoOp \in Ids
  BY NoOpIsId DEF Shape, Store, Memory
<1> QED BY <1>3, <1>4, <1>5, <1>6

\* The only create for a key is sent when none is known, and none is there.
LEMMA SendOnce ==
  ASSUME Once, Shape, NEW c \in Callers, HasTurn(c), At(c, "allowance") \/ At(c, "approving"),
         NEW kind \in {"approve", "create"}, NEW place \in {"approving", "creating"},
         place = "creating" <=> kind = "create",
         Send(c, kind, place), Unrecorded, UNCHANGED <<disk, answers>>
  PROVE  Once'
<1> DEFINE n == Len(ops) + 1
<1>1. PICK k \in Keys : k = call[c].key
  BY RequestIs DEF Shape, At
<1>2. call[c] \in Requests /\ call[c].key \in WindowKeys[call[c].intent] /\ ~At(c, "idle")
  BY RequestIs DEF Shape, At, Asked
<1>3. Operation(c, kind) = [kind |-> kind, intent |-> call[c].intent, key |-> k, status |-> "sent"]
  BY <1>1 DEF Operation
<1>4. ops' = Append(ops, Operation(c, kind)) /\ ops \in Seq(Operations) /\ Goto(c, place, Len(ops'))
  BY DEF Send, Shape, Chain
<1>5. /\ Len(ops') = n /\ DOMAIN ops' = DOMAIN ops \cup {n} /\ n \notin DOMAIN ops
      /\ ops'[n] = Operation(c, kind)
      /\ \A o \in DOMAIN ops : ops'[o] = ops[o]
  BY <1>4
<1>6. call' = [call EXCEPT ![c] = [at |-> place, intent |-> call[c].intent, key |-> k, op |-> n]]
  BY <1>1, <1>2, <1>4, <1>5, GotoIs DEF Shape
<1> HIDE DEF n
<1>7. /\ \A d \in Callers \ {c} : call'[d] = call[d]
      /\ call'[c].at = place /\ call'[c].key = k /\ call'[c].op = n
      /\ call'[c].intent = call[c].intent
  BY <1>6 DEF Shape, Turns
<1>8. ~Recorded(k)
  BY <1>1 DEF Once, Progress, InProgress
<1>9. Named'
  BY <1>1, <1>2, <1>3, <1>5 DEF Once, Named
<1>10. Marks'
  BY <1>5 DEF Once, Marks, SentFor, Landed, Unrecorded
<1>11. Durable'
  BY DEF Once, Durable, Unrecorded
<1>12. Answered'
  BY <1>5 DEF Once, Answered, SentFor, Landed
<1>13. InProgress(c)'
  <2>1. settled'[k] = NoOp /\ pending'[k] = NoOp
    BY <1>8 DEF Recorded, Unrecorded
  <2>2. n \in DOMAIN ops' /\ ops'[n].key = k
    BY <1>3, <1>5
  <2>3. place = "creating" => ops'[n].kind = "create" /\ ops'[n].intent = call[c].intent
    BY <1>3, <1>5
  <2> QED BY <1>7, <2>1, <2>2, <2>3 DEF InProgress, At, Recorded, SentFor
<1>14. Progress'
  <2> SUFFICES ASSUME NEW d \in Callers \ {c}
               PROVE  InProgress(d)'
    BY <1>13 DEF Progress
  <2>1. InProgress(d) /\ call'[d] = call[d]
    BY <1>7 DEF Once, Progress
  <2> QED BY <1>5, <2>1 DEF InProgress, At, Recorded, Unrecorded, SentFor
<1>15. Accounted'
  <2> SUFFICES ASSUME NEW o \in DOMAIN ops', Live(o)'
               PROVE  \/ settled'[ops'[o].key] = o
                      \/ pending'[ops'[o].key] = o
                      \/ \E d \in Callers : Creating(d, o)'
    BY DEF Accounted
  <2>1. CASE o = n
    <3>1. place = "creating"
      BY <1>3, <1>5, <2>1 DEF Live
    <3>2. Creating(c, o)'
      BY <1>3, <1>5, <1>7, <2>1, <3>1 DEF Creating, At
    <3> QED BY <3>2
  <2>2. CASE o \in DOMAIN ops
    <3>1. Live(o) /\ ops'[o] = ops[o]
      BY <1>5, <2>2 DEF Live
    <3>2. \A d \in Callers : Creating(d, o) => Creating(d, o)'
      BY <1>7, <3>1 DEF Creating, At
    <3> QED BY <2>2, <3>1, <3>2 DEF Once, Accounted, Unrecorded
  <2> QED BY <1>5, <2>1, <2>2
<1> QED BY <1>9, <1>10, <1>11, <1>12, <1>14, <1>15 DEF Once

\* A call that ends without a mark owes no create.
LEMMA EndOnce ==
  ASSUME Once, Shape, NEW c \in Callers, End(c), Unrecorded, UNCHANGED <<disk, ops, answers>>,
         \A o \in DOMAIN ops : Live(o) => ~Creating(c, o)
  PROVE  Once'
<1>1. Apart(c) /\ InProgress(c)'
  BY EndApart DEF Apart, Shape
<1>2. Answered'
  BY DEF Once, Answered, SentFor, Landed
<1> QED BY <1>1, <1>2, ApartKeeps

\* A call that ends with a mark marks the create of its key, if there is one.
LEMMA MarkOnce ==
  ASSUME Once, Shape, NEW c \in Callers, HasTurn(c), Past(c), End(c),
         NEW k \in Keys, k = call[c].key, NEW o, o = call[c].op, SentFor(o, k),
         \/ settle(k, o) /\ Landed(o)
         \/ markPending(k, o) /\ settled[k] = NoOp,
         \A p \in DOMAIN ops : Live(p) /\ ops[p].key = k => p = o,
         UNCHANGED <<disk, ops>>, Answered'
  PROVE  Once'
<1>1. /\ \A d \in Callers \ {c} : call'[d] = call[d]
      /\ InProgress(c)'
  BY EndApart DEF Shape
<1>2. /\ \A h \in Keys \ {k} : settled'[h] = settled[h] /\ pending'[h] = pending[h]
      /\ \/ settled'[k] = o /\ pending'[k] = NoOp /\ Landed(o)
         \/ settled'[k] = NoOp /\ pending'[k] = o
  BY DEF settle, markPending, Shape, Store, Memory
<1>3. Named'
  BY DEF Once, Named
<1>4. Marks'
  <2>1. ASSUME NEW h \in Keys \ {k}
        PROVE  /\ settled'[h] # NoOp => SentFor(settled[h], h)' /\ Landed(settled[h])' /\ pending'[h] = NoOp
               /\ pending'[h] # NoOp => SentFor(pending[h], h)'
    BY <1>2 DEF Once, Marks, SentFor, Landed
  <2>2. /\ settled'[k] # NoOp => SentFor(settled[k], k)' /\ Landed(settled[k])' /\ pending'[k] = NoOp
        /\ pending'[k] # NoOp => SentFor(pending[k], k)'
    BY <1>2 DEF SentFor, Landed
  <2> QED BY <2>1, <2>2 DEF Marks
<1>5. Durable'
  <2>1. Persist /\ writes \in Seq(Snapshots)
    BY DEF settle, markPending, Shape, Store
  <2> DEFINE snapshot == [settled |-> settled', pending |-> pending']
  <2>2. writes' = Append(writes, snapshot)
    BY <2>1 DEF Persist
  <2> HIDE DEF snapshot
  <2>3. writes' # << >> /\ writes'[Len(writes')] = snapshot
    BY <2>1, <2>2
  <2> QED BY <2>3 DEF Durable, snapshot
<1>6. Progress'
  <2> SUFFICES ASSUME NEW d \in Callers \ {c}
               PROVE  InProgress(d)'
    BY <1>1 DEF Progress
  <2>1. CASE Past(d)
    <3>1. call[d].key \in Keys \ {k}
      BY <2>1, OneRuns, RequestIs DEF Shape, Past, At
    <3>2. InProgress(d) /\ call'[d] = call[d]
      BY <1>1 DEF Once, Progress
    <3> QED BY <1>2, <3>1, <3>2 DEF InProgress, At, Recorded, SentFor
  <2>2. CASE ~Past(d)
    BY <1>1, <2>2 DEF InProgress, Past, At
  <2> QED BY <2>1, <2>2
<1>7. Accounted'
  <2> SUFFICES ASSUME NEW p \in DOMAIN ops, Live(p)
               PROVE  \/ settled'[ops[p].key] = p
                      \/ pending'[ops[p].key] = p
                      \/ \E d \in Callers : Creating(d, p)'
    BY DEF Accounted, Live
  <2>1. CASE ops[p].key = k
    BY <1>2, <2>1
  <2>2. CASE ops[p].key # k
    <3>1. \A d \in Callers : Creating(d, p) => d # c /\ Creating(d, p)'
      BY <1>1, <2>2 DEF Creating, At
    <3>2. ops[p].key \in Keys \ {k}
      BY <2>2, OperationIs DEF Shape
    <3> QED BY <1>2, <3>1, <3>2 DEF Once, Accounted
  <2> QED BY <2>1, <2>2
<1> QED BY <1>3, <1>4, <1>5, <1>6, <1>7 DEF Once

LEMMA StepOnce ==
  ASSUME Calm, Once, Shape, NEW c \in Callers, Step(c)
  PROVE  Once'
<1>1. ~At(c, "idle") => c \in Callers /\ call[c].key \in Keys
  BY RequestIs DEF Shape
<1>2. Past(c) => HasTurn(c)
  BY DEF Past, At, Shape, Turns
<1>3. InProgress(c)
  BY DEF Once, Progress
<1>4. CASE Begin(c)
  BY <1>4, BeginOnce
<1>5. CASE ReadAllowance(c) \/ Approved(c)
  <2>1. At(c, "allowance") \/ At(c, "approving")
    BY <1>5 DEF ReadAllowance, Approved
  <2>2. Unrecorded /\ UNCHANGED <<disk, answers>>
    BY <1>5 DEF ReadAllowance, Approved
  <2>3. Send(c, "create", "creating") \/ Send(c, "approve", "approving")
    BY <1>5 DEF ReadAllowance, Approved
  <2> QED BY <1>2, <2>1, <2>2, <2>3, SendOnce DEF Past
<1>6. CASE NotSent(c) \/ NotConfirmed(c)
  <2>1. ~At(c, "creating")
    BY <1>6 DEF NotSent, NotConfirmed, At
  <2>2. End(c) /\ Unrecorded /\ UNCHANGED <<disk, ops, answers>>
    BY <1>6 DEF NotSent, NotConfirmed, Calm
  <2> QED BY <2>1, <2>2, EndOnce DEF Creating
<1>7. CASE CreateFails(c)
  <2>1. End(c) /\ Unrecorded /\ UNCHANGED <<disk, ops, answers>> /\ ops[call[c].op].status = "reverted"
    BY <1>7 DEF CreateFails, Calm
  <2> QED BY <2>1, EndOnce DEF Creating, Live
<1>8. CASE Created(c)
  <2>1. At(c, "creating") /\ Included(c) /\ End(c) /\ settle(call[c].key, call[c].op)
        /\ Answer(c, call[c].op) /\ UNCHANGED <<disk, ops>>
    BY <1>8 DEF Created
  <2>2. SentFor(call[c].op, call[c].key) /\ Landed(call[c].op) /\ ~Recorded(call[c].key)
    BY <1>3, <2>1 DEF InProgress, Landed, Included
  <2>3. Past(c) /\ ~At(c, "idle") /\ HasTurn(c)
    BY <1>2, <2>1 DEF Past, At
  <2>4. \A p \in DOMAIN ops : Live(p) /\ ops[p].key = call[c].key => p = call[c].op
    BY <2>2, <2>3, NoneBefore
  <2>5. Answered'
    BY <2>1, <2>2, <2>3, AnswerKeeps
  <2> QED BY <1>1, <2>1, <2>2, <2>3, <2>4, <2>5, MarkOnce
<1>9. CASE Confirmed(c)
  <2>1. At(c, "confirming") /\ Included(c) /\ End(c) /\ settle(call[c].key, call[c].op)
        /\ ops[call[c].op].kind = "create" /\ Answer(c, call[c].op) /\ UNCHANGED <<disk, ops>>
    BY <1>9 DEF Confirmed
  <2>2. Past(c) /\ ~At(c, "idle") /\ HasTurn(c)
    BY <1>2, <2>1 DEF Past, At
  <2>3. SentFor(call[c].op, call[c].key) /\ Landed(call[c].op) /\ Live(call[c].op)
    BY <1>1, <1>3, <2>1, <2>2 DEF InProgress, Landed, Live, Included, Once, Marks
  <2>4. \A p \in DOMAIN ops : Live(p) /\ ops[p].key = call[c].key => p = call[c].op
    BY <2>3, OnePerKey DEF SentFor
  <2>5. Answered'
    BY <2>1, <2>2, <2>3, AnswerKeeps
  <2> QED BY <1>1, <2>1, <2>2, <2>3, <2>4, <2>5, MarkOnce
<1>10. CASE PollTimesOut(c)
  <2>1. /\ At(c, "creating") \/ At(c, "approving")
        /\ End(c) /\ markPending(call[c].key, call[c].op) /\ UNCHANGED <<disk, ops, answers>>
    BY <1>10 DEF PollTimesOut
  <2>2. Past(c) /\ ~At(c, "idle") /\ HasTurn(c)
    BY <1>2, <2>1 DEF Past, At
  <2>3. SentFor(call[c].op, call[c].key) /\ ~Recorded(call[c].key)
    BY <1>3, <2>1 DEF InProgress
  <2>4. \A p \in DOMAIN ops : Live(p) /\ ops[p].key = call[c].key => p = call[c].op
    BY <2>2, <2>3, NoneBefore
  <2>5. Answered'
    BY <2>1 DEF Once, Answered, SentFor, Landed
  <2> QED BY <1>1, <2>1, <2>2, <2>3, <2>4, <2>5, MarkOnce DEF Recorded
<1> QED BY <1>4, <1>5, <1>6, <1>7, <1>8, <1>9, <1>10 DEF Step

LEMMA ExecuteOnce ==
  ASSUME Once, Shape, NEW o \in DOMAIN ops, Execute(o)
  PROVE  Once'
<1>1. ops[o].status = "sent" /\ Unrecorded /\ UNCHANGED <<turn, call, disk, answers>>
  BY DEF Execute
<1>2. PICK status \in {"included", "reverted"} : ops' = [ops EXCEPT ![o].status = status]
  BY DEF Execute
<1>3. /\ DOMAIN ops' = DOMAIN ops
      /\ \A p \in DOMAIN ops \ {o} : ops'[p] = ops[p]
      /\ ops'[o].kind = ops[o].kind /\ ops'[o].intent = ops[o].intent /\ ops'[o].key = ops[o].key
  BY <1>2, OperationIs DEF Shape, Operations
<1>4. \A p \in DOMAIN ops : /\ ops'[p].kind = ops[p].kind
                            /\ ops'[p].intent = ops[p].intent
                            /\ ops'[p].key = ops[p].key
  BY <1>3
<1>5. \A p \in DOMAIN ops : Landed(p) => Landed(p)'
  BY <1>1, <1>3 DEF Landed
<1>6. \A p \in DOMAIN ops : Live(p)' => Live(p)
  BY <1>1, <1>3 DEF Live
<1>7. \A p, k : SentFor(p, k) <=> SentFor(p, k)'
  BY <1>3, <1>4 DEF SentFor
<1>8. Named'
  BY <1>3, <1>4 DEF Once, Named
<1>9. Marks'
  BY <1>1, <1>5, <1>7 DEF Once, Marks, Unrecorded, SentFor
<1>10. Progress'
  BY <1>1, <1>4, <1>7 DEF Once, Progress, InProgress, At, Recorded, Unrecorded, SentFor
<1>11. Durable'
  BY <1>1 DEF Once, Durable, Unrecorded
<1>12. Answered'
  BY <1>1, <1>4, <1>5, <1>7 DEF Once, Answered, SentFor
<1>13. Accounted'
  BY <1>1, <1>3, <1>4, <1>6 DEF Once, Accounted, Creating, At, Unrecorded
<1> QED BY <1>8, <1>9, <1>10, <1>11, <1>12, <1>13 DEF Once

LEMMA FlushOnce ==
  ASSUME Once, Shape, Flush
  PROVE  Once'
<1>1. Named' /\ Marks' /\ Progress' /\ Accounted' /\ Answered'
  BY DEF Flush, memory, Once, Named, Marks, Progress, InProgress, Accounted, Answered, SentFor,
         Landed, Live, Creating, At, Recorded
<1>2. Durable'
  <2>1. /\ writes \in Seq(Snapshots) /\ writes # << >>
        /\ disk' = Head(writes) /\ writes' = Tail(writes)
        /\ settled' = settled /\ pending' = pending
    BY DEF Flush, memory, Shape, Store
  <2> DEFINE snapshot == [settled |-> settled, pending |-> pending]
  <2>2. writes[Len(writes)] = snapshot
    BY <2>1 DEF Once, Durable
  <2> HIDE DEF snapshot
  <2>3. IF writes' = << >> THEN disk' = snapshot ELSE writes'[Len(writes')] = snapshot
    <3>1. Len(writes') = Len(writes) - 1 /\ Len(writes) \in Nat \ {0}
      BY <2>1
    <3>2. CASE Len(writes) = 1
      <4>1. Head(writes) = writes[1]
        BY <2>1
      <4>2. writes' = << >>
        BY <2>1, <3>1, <3>2
      <4> QED BY <2>1, <2>2, <3>2, <4>1, <4>2
    <3>3. CASE Len(writes) # 1
      <4>1. \A i \in 1..Len(writes') : writes'[i] = writes[i + 1]
        BY <2>1
      <4>2. Len(writes') \in 1..Len(writes') /\ Len(writes') + 1 = Len(writes)
        BY <3>1, <3>3
      <4>3. writes'[Len(writes')] = writes[Len(writes)] /\ writes' # << >>
        BY <3>1, <3>3, <4>1, <4>2
      <4> QED BY <2>2, <4>3
    <3> QED BY <3>2, <3>3
  <2> QED BY <2>1, <2>3 DEF Durable, snapshot
<1> QED BY <1>1, <1>2 DEF Once

LEMMA RestartOnce ==
  ASSUME Calm, Once, Shape, Restart
  PROVE  Once'
<1>1. writes = << >> /\ \A c \in Callers : ~At(c, "creating")
  BY DEF Restart, Calm
<1>2. settled' = settled /\ pending' = pending /\ UNCHANGED <<disk, ops, answers>> /\ writes' = << >>
  <2>1. disk = [settled |-> settled, pending |-> pending]
    BY <1>1 DEF Once, Durable
  <2>2. disk.settled = settled /\ disk.pending = pending
    BY <2>1
  <2> QED BY <2>2 DEF Restart
<1>3. \A c \in Callers : call'[c] = Idle /\ At(c, "idle")'
  <2>1. call' = [c \in Callers |-> Idle]
    BY DEF Restart
  <2> QED BY <2>1 DEF At, Idle
<1>4. Named' /\ Marks' /\ Answered' /\ Durable'
  BY <1>1, <1>2 DEF Once, Named, Marks, Answered, Durable, SentFor, Landed
<1>5. Progress'
  BY <1>3 DEF Progress, InProgress, At
<1>6. Accounted'
  BY <1>1, <1>2 DEF Once, Accounted, Live, Creating
<1> QED BY <1>4, <1>5, <1>6 DEF Once

LEMMA OnceNext ==
  ASSUME Calm, Once, Shape, [Next]_vars
  PROVE  Once'
<1>1. CASE UNCHANGED vars
  BY <1>1 DEF vars, Once, Named, Marks, Progress, InProgress, Accounted, Durable, Answered, SentFor,
              Landed, Live, Creating, At, Recorded
<1> QED BY <1>1, RequestOnce, StepOnce, ExecuteOnce, FlushOnce, RestartOnce DEF Next

\* With nothing worse than slow, refused and reverted operations, an intent
\* whose requests all name one resolution window stakes once, through
\* concurrent calls, timeouts, retries and restarts between requests.
THEOREM VaultCreatedOnce ==
  ASSUME Calm, OneWindow
  PROVE  Spec => []OneVaultPerIntent
<1>1. Init => Once
  BY OnceInit
<1>2. Once /\ Shape /\ [Next]_vars => Once'
  BY OnceNext
<1>3. Once /\ Shape => OneVaultPerIntent
  <2> SUFFICES ASSUME Once, Shape
               PROVE  OneVaultPerIntent
    OBVIOUS
  <2>1. ASSUME NEW o \in DOMAIN ops, NEW p \in DOMAIN ops, Live(o), Live(p),
               ops[o].intent = ops[p].intent
        PROVE  o = p
    <3>1. ops[o].key = ops[p].key
      BY <2>1, OperationIs DEF OneWindow, Once, Named, Shape
    <3> QED BY <2>1, <3>1, OnePerKey
  <2>2. \A a \in answers : Landed(a.op) /\ ops[a.op].intent = a.intent
    BY DEF Once, Answered
  <2> QED BY <2>1, <2>2 DEF OneVaultPerIntent
<1> QED BY <1>1, <1>2, <1>3, ShapeInvariant, PTL DEF Spec

=============================================================================
