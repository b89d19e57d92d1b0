----------------------------- MODULE RemoteProofs -----------------------------
(***************************************************************************)
(* What Remote.tla promises, for any consoles, calls, cap and number of    *)
(* failures, and whether or not the close of an old socket may come late.  *)
(*                                                                         *)
(* The inductive invariant says what is on the lines: a result that says   *)
(* "ok" belongs to a call that is done, a call that is on its way has not  *)
(* been run and is on its way once, and a revoke was sent by a gateway     *)
(* that runs no call any more.                                             *)
(***************************************************************************)
EXTENDS Remote, FiniteSetTheorems, TLAPS

Boards == 0..MaxBoard

\* What may be on its way to the host now.
HostFrames ==
    {f \in {Register, Revoke} \cup [type : {"board_patch"}, board : Boards]
           \cup [type : {"call_result"}, call : Calls, ok : BOOLEAN] :
       /\ f.type = "revoke" => gateway.revoked
       /\ f.type = "call_result" => (f.ok => calls[f.call].run = "done")}

\* A call that was made and handed to the gateway's line.
Forwarded(c) == calls[c].told \notin {"not asked", "unavailable"}

\* What may be on its way to the gateway now.
GatewayFrames ==
    {f \in {SessionClosed} \cup [type : {"call"}, call : Calls] :
       f.type = "call" => calls[f.call].run = "no" /\ Forwarded(f.call)}

Lines(toHost, toGateway) ==
    [up : BOOLEAN, closed : BOOLEAN, atHost : BOOLEAN,
     toHost : Seq(toHost), toGateway : Seq(toGateway)]

\* No call is twice on a line.
CallsOnce(queue) == \A i, j \in 1..Len(queue) :
    queue[i].type = "call" /\ queue[i] = queue[j] => i = j

\* Lines that carry given frames; only the current socket is up or read from.
Wired(lines, toHost, toGateway, current) ==
    /\ lines \in Seq(Lines(toHost, toGateway))
    /\ \A s \in 1..Len(lines) :
         /\ CallsOnce(lines[s].toGateway)
         /\ lines[s].up => current = s
         /\ lines[s].toGateway # << >> => current = s

Wires == Wired(sockets, HostFrames, GatewayFrames, gateway.socket)

\* Every socket but one was lost to a failure.
Failures ==
    /\ failures \in 0..MaxFailures
    /\ Len(sockets) <= failures + 1
    /\ gateway.socket = NoSocket /\ ~gateway.closing => Len(sockets) <= failures
    /\ gateway.socket # NoSocket /\ ~sockets[gateway.socket].up => Len(sockets) <= failures

GatewayRecords(toHost) ==
    [revoked : BOOLEAN, expired : BOOLEAN, closing : BOOLEAN,
     socket : Nat, outbox : Seq(toHost), spent : Nat, board : Boards]

Gateway ==
    /\ gateway \in GatewayRecords(HostFrames)
    /\ gateway.socket \in {NoSocket, Len(sockets)}
    /\ gateway.spent <= Cardinality({c \in Calls : calls[c].run = "done"})

Host ==
    /\ hosted \in [state : States, gateway : 0..Len(sockets), board : Boards, sinks : SUBSET Conns]
    /\ routes \subseteq Calls
    /\ hosted.state = "absent" => hosted = Absent
    /\ hosted.state = "expired" => gateway.expired
    /\ hosted.state = "revoked" => gateway.revoked \/ gateway.expired

CallRecords == [ui : Conns \cup {NoConn}, told : Told, run : Runs]

Asked ==
    /\ calls \in [Calls -> CallRecords]
    /\ \A c \in Calls :
         /\ calls[c].ui = NoConn <=> calls[c].told = "not asked"
         /\ ~Forwarded(c) => calls[c].run = "no"
         /\ calls[c].told = "ok" => calls[c].run = "done"

Consoles ==
    /\ uis \in [Conns -> [at : {"new", "open", "closed"}, board : Boards]]
    /\ hosted.sinks = {u \in Conns : uis[u].at = "open"}

Inductive == Wires /\ Failures /\ Gateway /\ Host /\ Asked /\ Consoles

-----------------------------------------------------------------------------
(* Lines.                                                                  *)

LEMMA SeqGrows ==
  ASSUME NEW S, NEW T, S \subseteq T, NEW q \in Seq(S)
  PROVE  q \in Seq(T)
OBVIOUS

LEMMA SeqOf ==
  ASSUME NEW S, NEW T, NEW q \in Seq(S), \A i \in 1..Len(q) : q[i] \in T
  PROVE  q \in Seq(T)
OBVIOUS

LEMMA WiredGrows ==
  ASSUME NEW lines, NEW H, NEW G, NEW current, Wired(lines, H, G, current),
         NEW I, NEW J, H \subseteq I, G \subseteq J
  PROVE  Wired(lines, I, J, current)
<1>1. Seq(H) \subseteq Seq(I) /\ Seq(G) \subseteq Seq(J)
  BY SeqGrows
<1>2. Lines(H, G) \subseteq Lines(I, J)
  BY <1>1 DEF Lines
<1> QED BY <1>2, SeqGrows DEF Wired

LEMMA RecordsGrow ==
  ASSUME NEW H, NEW I, H \subseteq I, NEW r \in GatewayRecords(H)
  PROVE  r \in GatewayRecords(I)
<1>1. Seq(H) \subseteq Seq(I)
  BY SeqGrows
<1> QED BY <1>1 DEF GatewayRecords

SameUps(lines, others) ==
    /\ Len(others) = Len(lines)
    /\ \A s \in 1..Len(lines) : others[s].up = lines[s].up

\* One line changes.
LEMMA PutKeeps ==
  ASSUME NEW lines, NEW H, NEW G, NEW current, Wired(lines, H, G, current),
         NEW s \in 1..Len(lines), NEW line \in Lines(H, G), line.up = lines[s].up,
         CallsOnce(line.toGateway), line.toGateway # << >> => current = s
  PROVE  /\ Wired([lines EXCEPT ![s] = line], H, G, current)
         /\ SameUps(lines, [lines EXCEPT ![s] = line])
         /\ [lines EXCEPT ![s] = line][s] = line
<1> DEFINE others == [lines EXCEPT ![s] = line]
<1>1. others \in Seq(Lines(H, G)) /\ Len(others) = Len(lines)
  BY DEF Wired
<1>2. \A r \in 1..Len(lines) : others[r] = IF r = s THEN line ELSE lines[r]
  BY DEF Wired
<1> HIDE DEF others
<1>3. Wired(others, H, G, current) /\ SameUps(lines, others) /\ others[s] = line
  BY <1>1, <1>2 DEF Wired, SameUps
<1> QED BY <1>3 DEF others

LEMMA LineIs ==
  ASSUME NEW lines, NEW H, NEW G, NEW current, Wired(lines, H, G, current),
         NEW s \in 1..Len(lines)
  PROVE  /\ lines[s] \in Lines(H, G)
         /\ lines[s].toHost \in Seq(H) /\ lines[s].toGateway \in Seq(G)
         /\ CallsOnce(lines[s].toGateway)
         /\ lines[s].toGateway # << >> => current = s
         /\ lines[s].up => current = s
<1>1. lines[s] \in Lines(H, G)
  BY DEF Wired
<1>2. lines[s].toHost \in Seq(H) /\ lines[s].toGateway \in Seq(G)
  BY <1>1 DEF Lines
<1> QED BY <1>1, <1>2 DEF Wired

\* The host takes a frame.
LEMMA ReceivedKeeps ==
  ASSUME NEW lines, NEW H, NEW G, NEW current, Wired(lines, H, G, current),
         NEW s \in 1..Len(lines), lines[s].toHost # << >>
  PROVE  /\ Wired([lines EXCEPT ![s].toHost = Tail(@)], H, G, current)
         /\ SameUps(lines, [lines EXCEPT ![s].toHost = Tail(@)])
<1> DEFINE line == [lines[s] EXCEPT !.toHost = Tail(@)]
<1>0. /\ lines[s] \in Lines(H, G) /\ lines[s].toHost \in Seq(H) /\ lines[s].toGateway \in Seq(G)
      /\ CallsOnce(lines[s].toGateway) /\ (lines[s].toGateway # << >> => current = s)
      /\ (lines[s].up => current = s)
  BY LineIs
<1>1. Tail(lines[s].toHost) \in Seq(H)
  BY <1>0
<1>2. line \in Lines(H, G) /\ line.up = lines[s].up /\ line.toGateway = lines[s].toGateway
  BY <1>0, <1>1 DEF Lines
<1>3. [lines EXCEPT ![s].toHost = Tail(@)] = [lines EXCEPT ![s] = line]
  OBVIOUS
<1> HIDE DEF line
<1> QED BY <1>0, <1>2, <1>3, PutKeeps

\* The host's end of a line is closed, and what is on its way to it is lost.
LEMMA HungUpKeeps ==
  ASSUME NEW lines, NEW H, NEW G, NEW current, Wired(lines, H, G, current),
         NEW s \in 1..Len(lines)
  PROVE  /\ Wired([lines EXCEPT ![s].atHost = FALSE, ![s].toHost = << >>], H, G, current)
         /\ SameUps(lines, [lines EXCEPT ![s].atHost = FALSE, ![s].toHost = << >>])
<1>1. \A k : Wired(k, H, G, current) /\ s \in 1..Len(k) =>
         /\ Wired([k EXCEPT ![s].atHost = FALSE], H, G, current)
         /\ SameUps(k, [k EXCEPT ![s].atHost = FALSE])
  <2> SUFFICES ASSUME NEW k, Wired(k, H, G, current), s \in 1..Len(k)
               PROVE  /\ Wired([k EXCEPT ![s].atHost = FALSE], H, G, current)
                      /\ SameUps(k, [k EXCEPT ![s].atHost = FALSE])
    OBVIOUS
  <2> DEFINE line == [k[s] EXCEPT !.atHost = FALSE]
  <2>1. /\ k[s] \in Lines(H, G) /\ CallsOnce(k[s].toGateway)
        /\ k[s].toGateway # << >> => current = s
    BY LineIs
  <2>2. line \in Lines(H, G) /\ line.up = k[s].up /\ line.toGateway = k[s].toGateway
    BY <2>1 DEF Lines
  <2>3. [k EXCEPT ![s].atHost = FALSE] = [k EXCEPT ![s] = line]
    OBVIOUS
  <2> HIDE DEF line
  <2> QED BY <2>1, <2>2, <2>3, PutKeeps
<1>2. \A k : Wired(k, H, G, current) /\ s \in 1..Len(k) =>
         /\ Wired([k EXCEPT ![s].toHost = << >>], H, G, current)
         /\ SameUps(k, [k EXCEPT ![s].toHost = << >>])
  <2> SUFFICES ASSUME NEW k, Wired(k, H, G, current), s \in 1..Len(k)
               PROVE  /\ Wired([k EXCEPT ![s].toHost = << >>], H, G, current)
                      /\ SameUps(k, [k EXCEPT ![s].toHost = << >>])
    OBVIOUS
  <2> DEFINE line == [k[s] EXCEPT !.toHost = << >>]
  <2>1. /\ k[s] \in Lines(H, G) /\ CallsOnce(k[s].toGateway)
        /\ k[s].toGateway # << >> => current = s
    BY LineIs
  <2>2. line \in Lines(H, G) /\ line.up = k[s].up /\ line.toGateway = k[s].toGateway
    <3>1. << >> \in Seq(H)
      OBVIOUS
    <3> QED BY <2>1, <3>1 DEF Lines
  <2>3. [k EXCEPT ![s].toHost = << >>] = [k EXCEPT ![s] = line]
    OBVIOUS
  <2> HIDE DEF line
  <2> QED BY <2>1, <2>2, <2>3, PutKeeps
<1> DEFINE one == [lines EXCEPT ![s].atHost = FALSE]
           two == [one EXCEPT ![s].toHost = << >>]
<1>3. Wired(one, H, G, current) /\ SameUps(lines, one)
  BY <1>1
<1> HIDE DEF one
<1>4. Wired(two, H, G, current) /\ SameUps(one, two)
  BY <1>2, <1>3 DEF SameUps
<1> HIDE DEF two
<1>5. Wired(two, H, G, current) /\ SameUps(lines, two)
  BY <1>3, <1>4 DEF SameUps
<1>6. two = [lines EXCEPT ![s].atHost = FALSE, ![s].toHost = << >>]
  BY DEF one, two
<1> QED BY <1>5, <1>6

\* A frame goes out to the host.
LEMMA ToHostKeeps ==
  ASSUME NEW lines, NEW H, NEW G, NEW current, Wired(lines, H, G, current),
         NEW s \in 1..Len(lines), NEW f \in H
  PROVE  /\ Wired([lines EXCEPT ![s].toHost = Append(@, f)], H, G, current)
         /\ SameUps(lines, [lines EXCEPT ![s].toHost = Append(@, f)])
         /\ [lines EXCEPT ![s].toHost = Append(@, f)][s].toGateway = lines[s].toGateway
<1> DEFINE line == [lines[s] EXCEPT !.toHost = Append(@, f)]
<1>0. /\ lines[s] \in Lines(H, G) /\ lines[s].toHost \in Seq(H) /\ lines[s].toGateway \in Seq(G)
      /\ CallsOnce(lines[s].toGateway) /\ (lines[s].toGateway # << >> => current = s)
      /\ (lines[s].up => current = s)
  BY LineIs
<1>1. Append(lines[s].toHost, f) \in Seq(H)
  BY <1>0
<1>2. line \in Lines(H, G) /\ line.up = lines[s].up /\ line.toGateway = lines[s].toGateway
  BY <1>0, <1>1 DEF Lines
<1>3. [lines EXCEPT ![s].toHost = Append(@, f)] = [lines EXCEPT ![s] = line]
  OBVIOUS
<1> HIDE DEF line
<1> QED BY <1>0, <1>2, <1>3, PutKeeps

LEMMA TailOnce ==
  ASSUME NEW G, NEW q \in Seq(G), q # << >>, CallsOnce(q)
  PROVE  /\ Tail(q) \in Seq(G) /\ CallsOnce(Tail(q))
         /\ \A i \in 1..Len(Tail(q)) : Head(q).type = "call" => Tail(q)[i] # Head(q)
<1>1. Tail(q) \in Seq(G) /\ Len(Tail(q)) = Len(q) - 1 /\ Len(q) \in Nat \ {0}
  OBVIOUS
<1>2. \A i \in 1..Len(Tail(q)) : Tail(q)[i] = q[i + 1] /\ i + 1 \in 1..Len(q) /\ i + 1 # 1
  BY <1>1
<1>3. Head(q) = q[1] /\ 1 \in 1..Len(q)
  BY <1>1
<1>4. CallsOnce(Tail(q))
  <2> SUFFICES ASSUME NEW i \in 1..Len(Tail(q)), NEW j \in 1..Len(Tail(q)),
                      Tail(q)[i].type = "call", Tail(q)[i] = Tail(q)[j]
               PROVE  i = j
    BY DEF CallsOnce
  <2>1. i + 1 = j + 1
    BY <1>2 DEF CallsOnce
  <2> QED BY <1>1, <2>1
<1>5. \A i \in 1..Len(Tail(q)) : Head(q).type = "call" => Tail(q)[i] # Head(q)
  BY <1>2, <1>3 DEF CallsOnce
<1> QED BY <1>1, <1>4, <1>5

\* The gateway takes a frame.
LEMMA ReadKeeps ==
  ASSUME NEW lines, NEW H, NEW G, NEW current, Wired(lines, H, G, current),
         NEW s \in 1..Len(lines), lines[s].toGateway # << >>
  PROVE  /\ Wired([lines EXCEPT ![s].toGateway = Tail(@)], H, G, current)
         /\ SameUps(lines, [lines EXCEPT ![s].toGateway = Tail(@)])
<1> DEFINE line == [lines[s] EXCEPT !.toGateway = Tail(@)]
<1>0. /\ lines[s] \in Lines(H, G) /\ lines[s].toHost \in Seq(H) /\ lines[s].toGateway \in Seq(G)
      /\ CallsOnce(lines[s].toGateway) /\ (lines[s].toGateway # << >> => current = s)
      /\ (lines[s].up => current = s)
  BY LineIs
<1>1. Tail(lines[s].toGateway) \in Seq(G) /\ CallsOnce(Tail(lines[s].toGateway))
  BY <1>0, TailOnce
<1>2. /\ line \in Lines(H, G) /\ line.up = lines[s].up
      /\ line.toGateway = Tail(lines[s].toGateway)
  BY <1>0, <1>1 DEF Lines
<1>3. [lines EXCEPT ![s].toGateway = Tail(@)] = [lines EXCEPT ![s] = line]
  OBVIOUS
<1> HIDE DEF line
<1> QED BY <1>0, <1>1, <1>2, <1>3, PutKeeps

\* A frame goes out to the gateway: no call that is on the line already.
LEMMA ToGatewayKeeps ==
  ASSUME NEW lines, NEW H, NEW G, NEW current, Wired(lines, H, G, current),
         NEW s \in 1..Len(lines), lines[s].up, NEW f \in G,
         f.type = "call" => \A i \in 1..Len(lines[s].toGateway) : lines[s].toGateway[i] # f
  PROVE  /\ Wired([lines EXCEPT ![s].toGateway = Append(@, f)], H, G, current)
         /\ SameUps(lines, [lines EXCEPT ![s].toGateway = Append(@, f)])
<1> DEFINE q == lines[s].toGateway
           line == [lines[s] EXCEPT !.toGateway = Append(@, f)]
<1>0. /\ lines[s] \in Lines(H, G) /\ lines[s].toHost \in Seq(H) /\ lines[s].toGateway \in Seq(G)
      /\ CallsOnce(lines[s].toGateway) /\ (lines[s].toGateway # << >> => current = s)
      /\ (lines[s].up => current = s)
  BY LineIs
<1>1. q \in Seq(G) /\ CallsOnce(q) /\ current = s
  BY <1>0
<1>2. /\ Append(q, f) \in Seq(G) /\ Len(Append(q, f)) = Len(q) + 1 /\ Len(q) \in Nat
      /\ Append(q, f)[Len(q) + 1] = f
      /\ \A i \in 1..Len(q) : Append(q, f)[i] = q[i]
  BY <1>1
<1>3. \A i \in 1..Len(q) + 1 : i \in 1..Len(q) \/ i = Len(q) + 1
  BY <1>2
<1>4. CallsOnce(Append(q, f))
  BY <1>1, <1>2, <1>3 DEF CallsOnce
<1>5. line \in Lines(H, G) /\ line.up = lines[s].up /\ line.toGateway = Append(q, f)
  BY <1>0, <1>2 DEF Lines
<1>6. [lines EXCEPT ![s].toGateway = Append(@, f)] = [lines EXCEPT ![s] = line]
  OBVIOUS
<1>7. CallsOnce(line.toGateway)
  BY <1>4, <1>5
<1> HIDE DEF line, q
<1>8. line \in Lines(H, G) /\ line.up = lines[s].up /\ current = s
  BY <1>1, <1>5
<1>9. Wired([lines EXCEPT ![s] = line], H, G, current) /\ SameUps(lines, [lines EXCEPT ![s] = line])
  BY <1>7, <1>8, PutKeeps
<1> QED BY <1>6, <1>9

-----------------------------------------------------------------------------
(* What a step leaves alone.                                               *)

Done == {c \in Calls : calls[c].run = "done"}

LEMMA FailuresStay ==
  ASSUME Failures, Gateway, UNCHANGED failures, SameUps(sockets, sockets'),
         gateway'.socket = gateway.socket, gateway'.closing = gateway.closing
  PROVE  Failures'
<1>1. gateway.socket = NoSocket \/ gateway.socket = Len(sockets)
  BY DEF Gateway
<1>2. Len(sockets') = Len(sockets)
  BY DEF SameUps
<1>3. CASE gateway.socket = NoSocket
  BY <1>2, <1>3 DEF Failures
<1>4. CASE gateway.socket # NoSocket /\ Len(sockets) \in Nat
  <2>1. gateway.socket \in 1..Len(sockets)
    BY <1>1, <1>4 DEF NoSocket
  <2>2. sockets'[gateway.socket].up = sockets[gateway.socket].up
    BY <2>1 DEF SameUps
  <2> QED BY <1>2, <1>4, <2>2 DEF Failures
<1>5. gateway.socket = Len(sockets) => Len(sockets) \in Nat
  BY DEF Gateway
<1> QED BY <1>1, <1>3, <1>4, <1>5

LEMMA FramesGrow ==
  ASSUME gateway.revoked => gateway'.revoked,
         \A c \in Calls : calls[c].run = "done" => calls'[c].run = "done",
         \A c \in Calls : calls[c].run = "no" /\ Forwarded(c) => calls'[c].run = "no" /\ Forwarded(c)'
  PROVE  HostFrames \subseteq HostFrames' /\ GatewayFrames \subseteq GatewayFrames'
<1>1. HostFrames \subseteq HostFrames'
  BY DEF HostFrames, Register, Revoke
<1>2. GatewayFrames \subseteq GatewayFrames'
  BY DEF GatewayFrames, SessionClosed
<1> QED BY <1>1, <1>2

\* Consoles are told how their pending calls ended; "ok" of those done only.
Retold ==
    /\ calls' \in [Calls -> CallRecords]
    /\ \A c \in Calls :
         /\ calls'[c].ui = calls[c].ui
         /\ calls'[c].run = calls[c].run
         /\ \/ calls'[c].told = calls[c].told
            \/ /\ calls[c].told = "pending"
               /\ calls'[c].told \in {"ok", "failed", "closed", "timed out"}
               /\ calls'[c].told = "ok" => calls[c].run = "done"

LEMMA RetoldKeeps ==
  ASSUME Asked, Retold
  PROVE  /\ Asked' /\ Done' = Done
         /\ \A c \in Calls : (Forwarded(c) <=> Forwarded(c)') /\ calls'[c].run = calls[c].run
<1>1. \A c \in Calls : (Forwarded(c) <=> Forwarded(c)') /\ calls'[c].run = calls[c].run
  BY DEF Asked, Retold, Forwarded
<1>2. Done' = Done
  BY <1>1 DEF Done
<1>3. ASSUME NEW c \in Calls
      PROVE  /\ calls'[c].ui = NoConn <=> calls'[c].told = "not asked"
             /\ ~Forwarded(c)' => calls'[c].run = "no"
             /\ calls'[c].told = "ok" => calls'[c].run = "done"
  BY <1>1 DEF Asked, Retold
<1> QED BY <1>1, <1>2, <1>3 DEF Asked, Retold

LEMMA UnchangedIsRetold ==
  ASSUME Asked, UNCHANGED calls
  PROVE  Retold
BY DEF Asked, Retold

LEMMA ToldIs ==
  ASSUME NEW r \in CallRecords, NEW answer
  PROVE  [r EXCEPT !.told = answer] = [ui |-> r.ui, told |-> answer, run |-> r.run]
BY DEF CallRecords

LEMMA TellIsRetold ==
  ASSUME Asked, NEW c \in Calls, calls[c].told = "pending",
         NEW answer \in {"ok", "failed", "timed out"}, answer = "ok" => calls[c].run = "done",
         Tell(c, answer)
  PROVE  Retold
<1>0. calls[c] \in CallRecords
  BY DEF Asked
<1>1. calls[c] \in CallRecords /\ answer \in Told
  BY <1>0 DEF Told
<1>2. calls' = [calls EXCEPT ![c] = [calls[c] EXCEPT !.told = answer]]
  BY DEF Tell
<1>3. [calls[c] EXCEPT !.told = answer] = [ui |-> calls[c].ui, told |-> answer, run |-> calls[c].run]
  BY <1>0, ToldIs
<1>4. [ui |-> calls[c].ui, told |-> answer, run |-> calls[c].run] \in CallRecords
  BY <1>1 DEF CallRecords
<1>5. calls' = [calls EXCEPT ![c] = [ui |-> calls[c].ui, told |-> answer, run |-> calls[c].run]]
  BY <1>2, <1>3
<1> QED BY <1>4, <1>5 DEF Asked, Retold

LEMMA HangupIsRetold ==
  ASSUME Asked, Consoles, NEW us \in SUBSET Conns, Hangup(us)
  PROVE  /\ Retold
         /\ uis' \in [Conns -> [at : {"new", "open", "closed"}, board : Boards]]
         /\ {u \in Conns : uis'[u].at = "open"} = {u \in Conns : uis[u].at = "open"} \ us
<1>1. \A c \in Calls : calls'[c] = IF calls[c].ui \in us /\ calls[c].told = "pending"
                                   THEN [calls[c] EXCEPT !.told = "closed"] ELSE calls[c]
  BY DEF Hangup
<1>2. \A c \in Calls : calls[c] \in CallRecords
  BY DEF Asked
<1>3. \A c \in Calls : [calls[c] EXCEPT !.told = "closed"]
                       = [ui |-> calls[c].ui, told |-> "closed", run |-> calls[c].run]
  BY <1>2 DEF CallRecords
<1>4. \A c \in Calls : [ui |-> calls[c].ui, told |-> "closed", run |-> calls[c].run] \in CallRecords
  BY <1>2 DEF CallRecords, Told
<1>5. calls' \in [Calls -> CallRecords]
  <2>1. \A c \in Calls : calls'[c] \in CallRecords
    BY <1>1, <1>2, <1>3, <1>4
  <2> QED BY <2>1 DEF Hangup
<1>6. Retold
  BY <1>1, <1>3, <1>5 DEF Retold
<1>7. \A u \in Conns : uis'[u] = IF u \in us THEN [uis[u] EXCEPT !.at = "closed"] ELSE uis[u]
  BY DEF Hangup
<1>8. \A u \in Conns : [uis[u] EXCEPT !.at = "closed"] = [at |-> "closed", board |-> uis[u].board]
                       /\ uis[u].board \in Boards
  BY DEF Consoles
<1>9. \A u \in Conns : uis'[u] \in [at : {"new", "open", "closed"}, board : Boards]
  BY <1>7, <1>8 DEF Consoles
<1>10. uis' \in [Conns -> [at : {"new", "open", "closed"}, board : Boards]]
  BY <1>9 DEF Hangup
<1>11. \A u \in Conns : uis'[u].at = IF u \in us THEN "closed" ELSE uis[u].at
  BY <1>7, <1>8
<1> QED BY <1>6, <1>10, <1>11

\* The gateway is as it was, and its line still up or down.
LEMMA GatewayStays ==
  ASSUME Gateway, UNCHANGED gateway, Len(sockets') = Len(sockets),
         HostFrames \subseteq HostFrames', Done' = Done
  PROVE  Gateway'
<1>1. gateway \in GatewayRecords(HostFrames')
  BY RecordsGrow DEF Gateway
<1>2. gateway.spent <= Cardinality(Done')
  BY DEF Gateway, Done
<1> QED BY <1>1, <1>2 DEF Gateway, Done

\* Steps of the host and the consoles that tell the gateway nothing.
Aside == Retold /\ UNCHANGED <<sockets, gateway, failures>>

LEMMA AsideKeeps ==
  ASSUME Inductive, Aside
  PROVE  Wires' /\ Failures' /\ Gateway' /\ Asked'
<1>1. Asked' /\ HostFrames \subseteq HostFrames' /\ GatewayFrames \subseteq GatewayFrames' /\ Done' = Done
  BY RetoldKeeps, FramesGrow DEF Aside, Inductive
<1>2. Wires'
  BY <1>1, WiredGrows DEF Aside, Inductive, Wires
<1>3. Failures'
  BY DEF Aside, Inductive, Failures
<1>4. Gateway'
  BY <1>1, GatewayStays DEF Aside, Inductive
<1> QED BY <1>1, <1>2, <1>3, <1>4

-----------------------------------------------------------------------------
(* The consoles.                                                           *)

\* A console makes call c, and is told at once or waits.
Made(c) ==
    /\ calls[c].told = "not asked"
    /\ calls' \in [Calls -> CallRecords]
    /\ calls'[c].ui \in Conns
    /\ calls'[c].told \in {"closed", "unavailable", "pending"}
    /\ calls'[c].run = "no"
    /\ \A d \in Calls \ {c} :
         /\ calls'[d].ui = calls[d].ui
         /\ calls'[d].run = calls[d].run
         /\ \/ calls'[d].told = calls[d].told
            \/ calls[d].told = "pending" /\ calls'[d].told = "closed"

LEMMA MadeKeeps ==
  ASSUME Asked, NEW c \in Calls, Made(c), UNCHANGED gateway
  PROVE  /\ Asked' /\ Done' = Done
         /\ HostFrames \subseteq HostFrames' /\ GatewayFrames \subseteq GatewayFrames'
<1>1. calls[c].run = "no" /\ calls'[c].run = "no"
  BY DEF Asked, Made, Forwarded
<1>2. \A d \in Calls : calls'[d].run = calls[d].run
  BY <1>1 DEF Made
<1>3. Done' = Done
  BY <1>2 DEF Done
<1>4. \A d \in Calls : Forwarded(d) => Forwarded(d)'
  BY DEF Made, Forwarded
<1>5. HostFrames \subseteq HostFrames' /\ GatewayFrames \subseteq GatewayFrames'
  BY <1>2, <1>4, FramesGrow
<1>6. ASSUME NEW d \in Calls
      PROVE  /\ calls'[d].ui = NoConn <=> calls'[d].told = "not asked"
             /\ ~Forwarded(d)' => calls'[d].run = "no"
             /\ calls'[d].told = "ok" => calls'[d].run = "done"
  <2>1. CASE d = c
    BY <1>1, <2>1, RemoteAssumption DEF Made
  <2>2. CASE d # c
    BY <1>2, <1>4, <2>2 DEF Made, Asked, Forwarded
  <2> QED BY <2>1, <2>2
<1> QED BY <1>3, <1>5, <1>6 DEF Asked, Made

LEMMA HelloKeeps ==
  ASSUME Inductive, NEW u \in Conns, onUiHello(u)
  PROVE  Inductive'
<1>1. Wires' /\ Failures' /\ Gateway' /\ Asked'
  BY AsideKeeps, UnchangedIsRetold DEF onUiHello, Aside, Inductive
<1>2. /\ hosted.state = "live" /\ UNCHANGED <<routes, sockets, gateway>>
      /\ hosted' = [hosted EXCEPT !.sinks = @ \cup {u}]
      /\ uis' = [uis EXCEPT ![u] = [at |-> "open", board |-> hosted.board]]
  BY DEF onUiHello, getLive
<1>3. /\ hosted'.state = "live" /\ hosted'.sinks = hosted.sinks \cup {u}
      /\ hosted' \in [state : States, gateway : 0..Len(sockets), board : Boards, sinks : SUBSET Conns]
  BY <1>2 DEF Inductive, Host
<1>4. Host'
  BY <1>2, <1>3 DEF Inductive, Host
<1>5. [at |-> "open", board |-> hosted.board] \in [at : {"new", "open", "closed"}, board : Boards]
  BY DEF Inductive, Host
<1>6. Consoles'
  BY <1>2, <1>3, <1>5 DEF Inductive, Consoles
<1> QED BY <1>1, <1>4, <1>6 DEF Inductive

\* A console that is not open any more.
LEMMA LeaveKeeps ==
  ASSUME Inductive, NEW u \in Conns, hosted' = [hosted EXCEPT !.sinks = @ \ {u}],
         {v \in Conns : uis'[v].at = "open"} = {v \in Conns : uis[v].at = "open"} \ {u},
         uis' \in [Conns -> [at : {"new", "open", "closed"}, board : Boards]],
         UNCHANGED <<routes, sockets, gateway>>
  PROVE  Host' /\ Consoles'
<1>1. /\ hosted'.state = hosted.state /\ hosted'.sinks = hosted.sinks \ {u}
      /\ hosted'.gateway = hosted.gateway /\ hosted'.board = hosted.board
      /\ hosted' \in [state : States, gateway : 0..Len(sockets), board : Boards, sinks : SUBSET Conns]
  BY DEF Inductive, Host
<1>2. hosted.state = "absent" => hosted' = hosted
  <2>1. hosted.state = "absent" => hosted.sinks = {}
    BY DEF Inductive, Host, Absent
  <2>2. hosted.state = "absent" => hosted'.sinks = hosted.sinks
    BY <1>1, <2>1
  <2> QED BY <1>1, <2>2 DEF Inductive, Host
<1>3. Host'
  BY <1>1, <1>2 DEF Inductive, Host
<1>4. Consoles'
  BY <1>1 DEF Inductive, Consoles
<1> QED BY <1>3, <1>4

LEMMA MessageKeeps ==
  ASSUME Inductive, NEW u \in Conns, NEW c \in Calls, onUiMessage(u, c)
  PROVE  Inductive'
<1>1. uis[u].at = "open" /\ calls[c].told = "not asked" /\ UNCHANGED <<gateway, failures>>
  BY DEF onUiMessage
<1>2. \A d \in Calls : calls[d] \in CallRecords
  BY DEF Inductive, Asked
<1>3. CASE CallTooLate(u, c)
  <2>1. \A d \in Calls : calls'[d] =
           IF d = c THEN [ui |-> u, told |-> "closed", run |-> "no"]
           ELSE IF calls[d].ui = u /\ calls[d].told = "pending"
           THEN [calls[d] EXCEPT !.told = "closed"] ELSE calls[d]
    BY <1>3 DEF CallTooLate
  <2>2. \A d \in Calls : [calls[d] EXCEPT !.told = "closed"]
                         = [ui |-> calls[d].ui, told |-> "closed", run |-> calls[d].run]
    BY <1>2, ToldIs
  <2>3. \A d \in Calls : calls'[d] \in CallRecords
    <3>1. [ui |-> u, told |-> "closed", run |-> "no"] \in CallRecords
      BY DEF CallRecords, Told, Runs
    <3>2. \A d \in Calls : [ui |-> calls[d].ui, told |-> "closed", run |-> calls[d].run] \in CallRecords
      BY <1>2 DEF CallRecords, Told
    <3> QED BY <1>2, <2>1, <2>2, <3>1, <3>2
  <2>4. Made(c)
    BY <1>1, <1>3, <2>1, <2>2, <2>3 DEF CallTooLate, Made
  <2>5. UNCHANGED <<sockets, routes>> /\ hosted' = [hosted EXCEPT !.sinks = @ \ {u}]
        /\ uis' = [uis EXCEPT ![u].at = "closed"]
    BY <1>3 DEF CallTooLate
  <2>6. Asked' /\ Wires' /\ Failures' /\ Gateway'
    BY <1>1, <2>4, <2>5, MadeKeeps, WiredGrows, GatewayStays DEF Inductive, Wires, Failures
  <2>7. /\ \A v \in Conns \ {u} : uis'[v] = uis[v]
        /\ uis'[u] = [at |-> "closed", board |-> uis[u].board]
    <3>1. uis[u] \in [at : {"new", "open", "closed"}, board : Boards] /\ uis'[u] = [uis[u] EXCEPT !.at = "closed"]
      BY <2>5 DEF Inductive, Consoles
    <3>2. [uis[u] EXCEPT !.at = "closed"] = [at |-> "closed", board |-> uis[u].board]
      BY <3>1
    <3> QED BY <2>5, <3>1, <3>2 DEF Inductive, Consoles
  <2>8. uis' \in [Conns -> [at : {"new", "open", "closed"}, board : Boards]]
    BY <2>5, <2>7 DEF Inductive, Consoles
  <2>9. Host' /\ Consoles'
    BY <1>1, <2>5, <2>7, <2>8, LeaveKeeps
  <2> QED BY <2>6, <2>9 DEF Inductive
<1>4. CASE CallUnavailable(u, c)
  <2>1. calls' = [calls EXCEPT ![c] = [ui |-> u, told |-> "unavailable", run |-> "no"]]
        /\ UNCHANGED <<hosted, routes, sockets, uis>>
    BY <1>4 DEF CallUnavailable
  <2>2. [ui |-> u, told |-> "unavailable", run |-> "no"] \in CallRecords
    BY DEF CallRecords, Told, Runs
  <2>3. Made(c)
    BY <1>1, <2>1, <2>2 DEF Made, Inductive, Asked
  <2>4. Asked' /\ Wires' /\ Failures' /\ Gateway'
    BY <1>1, <2>1, <2>3, MadeKeeps, WiredGrows, GatewayStays DEF Inductive, Wires, Failures
  <2>5. Host' /\ Consoles'
    BY <1>1, <2>1 DEF Inductive, Host, Consoles
  <2> QED BY <2>4, <2>5 DEF Inductive
<1>5. CASE CallForwarded(u, c)
  <2>1. /\ calls' = [calls EXCEPT ![c] = [ui |-> u, told |-> "pending", run |-> "no"]]
        /\ routes' = routes \cup {c} /\ sockets' = ToGateway(sockets, Call(c))
        /\ UNCHANGED <<hosted, uis>>
    BY <1>5 DEF CallForwarded
  <2>2. [ui |-> u, told |-> "pending", run |-> "no"] \in CallRecords
    BY DEF CallRecords, Told, Runs
  <2>3. Made(c) /\ Forwarded(c)' /\ calls'[c].run = "no"
    BY <1>1, <2>1, <2>2 DEF Made, Inductive, Asked, Forwarded
  <2>4. /\ Asked' /\ Done' = Done
        /\ HostFrames \subseteq HostFrames' /\ GatewayFrames \subseteq GatewayFrames'
    BY <1>1, <2>3, MadeKeeps DEF Inductive
  <2>5. Wired(sockets, HostFrames', GatewayFrames', gateway.socket)
    BY <2>4, WiredGrows DEF Inductive, Wires
  <2>6. Call(c) \in GatewayFrames'
    BY <2>3 DEF GatewayFrames, Call
  <2>7. ASSUME NEW s \in 1..Len(sockets)
        PROVE  \A i \in 1..Len(sockets[s].toGateway) : sockets[s].toGateway[i] # Call(c)
    <3>1. sockets[s].toGateway \in Seq(GatewayFrames)
      BY LineIs DEF Inductive, Wires
    <3>2. Call(c) \notin GatewayFrames
      BY <1>1 DEF GatewayFrames, Call, Forwarded
    <3> QED BY <3>1, <3>2
  <2>8. /\ Wired(sockets', HostFrames', GatewayFrames', gateway.socket)
        /\ SameUps(sockets, sockets')
    <3> DEFINE s == hosted.gateway
    <3>1. CASE s # NoSocket /\ sockets[s].up
      <4>1. s \in 1..Len(sockets)
        <5>1. s \in 0..Len(sockets) /\ s # 0
          BY <3>1 DEF Inductive, Host, NoSocket
        <5>2. Len(sockets) \in Nat
          BY DEF Inductive, Wires, Wired
        <5> QED BY <5>1, <5>2
      <4>2. sockets' = [sockets EXCEPT ![s].toGateway = Append(@, Call(c))]
        BY <2>1, <3>1 DEF ToGateway
      <4> QED BY <2>5, <2>6, <2>7, <3>1, <4>1, <4>2, ToGatewayKeeps
    <3>2. CASE ~(s # NoSocket /\ sockets[s].up)
      BY <2>1, <2>5, <3>2 DEF ToGateway, SameUps
    <3> QED BY <3>1, <3>2
  <2>9. Wires' /\ Failures' /\ Gateway'
    BY <1>1, <2>4, <2>8, FailuresStay, GatewayStays DEF Inductive, Wires, SameUps
  <2>10. Host' /\ Consoles'
    BY <1>1, <2>1, <2>8 DEF Inductive, Host, Consoles, SameUps
  <2> QED BY <2>4, <2>9, <2>10 DEF Inductive
<1> QED BY <1>3, <1>4, <1>5 DEF onUiMessage

LEMMA TimesOutKeeps ==
  ASSUME Inductive, NEW c \in Calls, CallTimesOut(c)
  PROVE  Inductive'
<1>1. Aside
  BY TellIsRetold DEF CallTimesOut, Aside, Inductive
<1>2. Host' /\ Consoles'
  BY DEF CallTimesOut, Inductive, Host, Consoles
<1> QED BY <1>1, <1>2, AsideKeeps DEF Inductive

LEMMA UiCloseKeeps ==
  ASSUME Inductive, NEW u \in Conns, onUiClose(u)
  PROVE  Inductive'
<1>1. /\ Hangup({u}) /\ hosted' = [hosted EXCEPT !.sinks = @ \ {u}]
      /\ UNCHANGED <<routes, sockets, gateway, failures>>
  BY DEF onUiClose
<1>2. /\ Retold
      /\ uis' \in [Conns -> [at : {"new", "open", "closed"}, board : Boards]]
      /\ {v \in Conns : uis'[v].at = "open"} = {v \in Conns : uis[v].at = "open"} \ {u}
  BY <1>1, HangupIsRetold DEF Inductive
<1>3. Host' /\ Consoles'
  BY <1>1, <1>2, LeaveKeeps
<1> QED BY <1>1, <1>2, <1>3, AsideKeeps DEF Aside, Inductive

-----------------------------------------------------------------------------
(* The host's end of leg A.                                                *)

\* A frame that arrives at the host may be on its way, and its socket is left
\* as it is but for the frame.
LEMMA Arrived ==
  ASSUME Inductive, NEW s \in DOMAIN sockets, NEW type, Arrives(s, type)
  PROVE  /\ s \in 1..Len(sockets)
         /\ Head(sockets[s].toHost) \in HostFrames /\ Head(sockets[s].toHost).type = type
         /\ Wired(Received(s), HostFrames, GatewayFrames, gateway.socket)
         /\ SameUps(sockets, Received(s))
<1>1. s \in 1..Len(sockets) /\ sockets[s].toHost # << >>
  BY DEF Inductive, Wires, Wired, Arrives
<1>2. sockets[s].toHost \in Seq(HostFrames)
  BY <1>1, LineIs DEF Inductive, Wires
<1>3. Head(sockets[s].toHost) \in HostFrames /\ Head(sockets[s].toHost).type = type
  BY <1>1, <1>2 DEF Arrives
<1> QED BY <1>1, <1>3, ReceivedKeeps DEF Inductive, Wires, Received

\* A step in which the host reads or answers, and the gateway is not concerned.
LEMMA HostStepKeeps ==
  ASSUME Inductive, Retold, UNCHANGED <<gateway, failures>>, SameUps(sockets, sockets'),
         Wired(sockets', HostFrames, GatewayFrames, gateway.socket)
  PROVE  Wires' /\ Failures' /\ Gateway' /\ Asked'
<1>1. Asked' /\ HostFrames \subseteq HostFrames' /\ GatewayFrames \subseteq GatewayFrames' /\ Done' = Done
  BY RetoldKeeps, FramesGrow DEF Inductive
<1>2. Wires'
  BY <1>1, WiredGrows DEF Wires
<1>3. Failures' /\ Gateway'
  BY <1>1, FailuresStay, GatewayStays DEF Inductive, SameUps
<1> QED BY <1>1, <1>2, <1>3

LEMMA RegisterKeeps ==
  ASSUME Inductive, NEW s \in DOMAIN sockets, registerGateway(s)
  PROVE  Inductive'
<1>1. /\ sockets' = Received(s) /\ hosted' = Registered(s)
      /\ UNCHANGED <<routes, gateway, calls, uis, failures>> /\ s \in 1..Len(sockets)
      /\ Wired(sockets', HostFrames, GatewayFrames, gateway.socket) /\ SameUps(sockets, sockets')
  BY Arrived DEF registerGateway
<1>2. Wires' /\ Failures' /\ Gateway' /\ Asked'
  BY <1>1, HostStepKeeps, UnchangedIsRetold DEF Inductive
<1>3. /\ hosted'.sinks = hosted.sinks /\ hosted'.gateway = s /\ hosted'.board = hosted.board
      /\ hosted'.state = IF hosted.state = "absent" THEN "live" ELSE hosted.state
      /\ hosted' = [state |-> hosted'.state, gateway |-> s, board |-> hosted.board, sinks |-> hosted.sinks]
  <2>1. CASE hosted.state = "absent"
    BY <1>1, <2>1 DEF Registered, Absent, Inductive, Host
  <2>2. CASE hosted.state # "absent"
    BY <1>1, <2>2 DEF Registered, Inductive, Host
  <2> QED BY <2>1, <2>2
<1>4. Len(sockets') = Len(sockets)
  BY <1>1 DEF SameUps
<1>5. Host'
  BY <1>1, <1>3, <1>4 DEF Inductive, Host, States
<1>6. Consoles'
  BY <1>1, <1>3 DEF Inductive, Consoles
<1> QED BY <1>2, <1>5, <1>6 DEF Inductive

LEMMA ResultKeeps ==
  ASSUME Inductive, NEW s \in DOMAIN sockets, onCallResult(s)
  PROVE  Inductive'
<1> DEFINE frame == Head(sockets[s].toHost)
           c == frame.call
<1>1. /\ sockets' = Received(s) /\ routes' = routes \ {c}
      /\ UNCHANGED <<hosted, gateway, uis, failures>>
      /\ IF c \in routes /\ calls[c].ui \in hosted.sinks /\ calls[c].told = "pending"
         THEN Tell(c, IF frame.ok THEN "ok" ELSE "failed")
         ELSE UNCHANGED calls
  BY DEF onCallResult
<1>2. /\ frame \in HostFrames /\ frame.type = "call_result"
      /\ Wired(sockets', HostFrames, GatewayFrames, gateway.socket) /\ SameUps(sockets, sockets')
  BY <1>1, Arrived DEF onCallResult
<1>3. c \in Calls /\ frame.ok \in BOOLEAN /\ (frame.ok => calls[c].run = "done")
  BY <1>2 DEF HostFrames, Register, Revoke
<1> HIDE DEF frame, c
<1>4. Retold
  <2>1. CASE UNCHANGED calls
    BY <2>1, UnchangedIsRetold DEF Inductive
  <2>2. CASE calls[c].told = "pending" /\ Tell(c, IF frame.ok THEN "ok" ELSE "failed")
    <3>1. CASE frame.ok
      <4>1. Tell(c, "ok")
        BY <2>2, <3>1
      <4> QED BY <1>3, <2>2, <3>1, <4>1, TellIsRetold DEF Inductive
    <3>2. CASE ~frame.ok
      <4>1. Tell(c, "failed")
        BY <2>2, <3>2
      <4> QED BY <1>3, <2>2, <4>1, TellIsRetold DEF Inductive
    <3> QED BY <3>1, <3>2
  <2> QED BY <1>1, <2>1, <2>2
<1>5. Wires' /\ Failures' /\ Gateway' /\ Asked'
  BY <1>1, <1>2, <1>4, HostStepKeeps
<1>6. Host' /\ Consoles'
  BY <1>1, <1>2 DEF Inductive, Host, Consoles, SameUps
<1> QED BY <1>5, <1>6 DEF Inductive

LEMMA BoardPatchKeeps ==
  ASSUME Inductive, NEW s \in DOMAIN sockets, onBoardPatch(s)
  PROVE  Inductive'
<1>1. PICK b : b = Head(sockets[s].toHost).board
  OBVIOUS
<1>2. /\ sockets' = Received(s) /\ UNCHANGED <<routes, gateway, calls, failures>>
      /\ hosted' = IF hosted.state = "absent" THEN hosted ELSE [hosted EXCEPT !.board = b]
      /\ uis' = [u \in Conns |->
           IF u \in hosted.sinks THEN [uis[u] EXCEPT !.board = b] ELSE uis[u]]
  BY <1>1 DEF onBoardPatch
<1>3. /\ Head(sockets[s].toHost) \in HostFrames /\ Head(sockets[s].toHost).type = "board_patch"
      /\ Wired(sockets', HostFrames, GatewayFrames, gateway.socket) /\ SameUps(sockets, sockets')
  BY <1>2, Arrived DEF onBoardPatch
<1>4. b \in Boards
  BY <1>1, <1>3 DEF HostFrames, Register, Revoke
<1>5. Wires' /\ Failures' /\ Gateway' /\ Asked'
  BY <1>2, <1>3, HostStepKeeps, UnchangedIsRetold DEF Inductive
<1>6. Host' /\ hosted'.sinks = hosted.sinks
  BY <1>2, <1>3, <1>4 DEF Inductive, Host, SameUps
<1>7. \A u \in Conns : /\ uis'[u] \in [at : {"new", "open", "closed"}, board : Boards]
                       /\ uis'[u].at = uis[u].at
  <2> SUFFICES ASSUME NEW u \in Conns
               PROVE  /\ uis'[u] \in [at : {"new", "open", "closed"}, board : Boards]
                      /\ uis'[u].at = uis[u].at
    OBVIOUS
  <2>1. uis[u] \in [at : {"new", "open", "closed"}, board : Boards]
    BY DEF Inductive, Consoles
  <2>2. uis'[u] = IF u \in hosted.sinks THEN [uis[u] EXCEPT !.board = b] ELSE uis[u]
    BY <1>2
  <2> QED BY <1>4, <2>1, <2>2
<1>8. Consoles'
  <2>1. uis' \in [Conns -> [at : {"new", "open", "closed"}, board : Boards]]
    BY <1>2, <1>7
  <2> QED BY <1>6, <1>7, <2>1 DEF Inductive, Consoles
<1> QED BY <1>5, <1>6, <1>8 DEF Inductive

\* The session is over at the host, and its consoles leave.
LEMMA ClosedKeeps ==
  ASSUME Inductive, gateway.revoked \/ gateway.expired, hosted' = Closed, Hangup(hosted.sinks),
         UNCHANGED <<routes, gateway>>, Len(sockets') = Len(sockets)
  PROVE  Host' /\ Consoles' /\ Retold
<1>1. /\ hosted'.state = IF hosted.state = "absent" THEN "absent" ELSE "revoked"
      /\ hosted'.sinks = {} /\ hosted'.gateway = hosted.gateway /\ hosted'.board = hosted.board
      /\ hosted' \in [state : States, gateway : 0..Len(sockets), board : Boards, sinks : SUBSET Conns]
  BY DEF Closed, Inductive, Host, States
<1>2. hosted.state = "absent" => hosted' = hosted
  <2> SUFFICES ASSUME hosted = Absent
               PROVE  hosted' = Absent
    BY DEF Inductive, Host
  <2> QED BY DEF Closed, Absent
<1>3. Host'
  BY <1>1, <1>2 DEF Inductive, Host
<1>4. hosted.sinks \in SUBSET Conns /\ hosted.sinks = {u \in Conns : uis[u].at = "open"}
  BY DEF Inductive, Host, Consoles
<1>5. /\ Retold
      /\ uis' \in [Conns -> [at : {"new", "open", "closed"}, board : Boards]]
      /\ {u \in Conns : uis'[u].at = "open"} = {u \in Conns : uis[u].at = "open"} \ hosted.sinks
  BY <1>4, HangupIsRetold DEF Inductive
<1>6. {u \in Conns : uis'[u].at = "open"} = {}
  BY <1>4, <1>5
<1> QED BY <1>1, <1>3, <1>5, <1>6 DEF Consoles

\* The host tells its gateway that the session is closed.
LEMMA SessionClosedSent ==
  ASSUME Inductive, NEW lines, Wired(lines, HostFrames, GatewayFrames, gateway.socket),
         SameUps(sockets, lines)
  PROVE  /\ Wired(ToGateway(lines, SessionClosed), HostFrames, GatewayFrames, gateway.socket)
         /\ SameUps(sockets, ToGateway(lines, SessionClosed))
<1> DEFINE s == hosted.gateway
<1>1. SessionClosed \in GatewayFrames /\ SessionClosed.type # "call"
  BY DEF GatewayFrames, SessionClosed
<1>2. CASE s # NoSocket /\ lines[s].up
  <2>1. s \in 0..Len(sockets) /\ s # 0 /\ Len(lines) = Len(sockets) /\ Len(sockets) \in Nat
    BY <1>2 DEF Inductive, Host, Wires, Wired, NoSocket, SameUps
  <2>2. s \in 1..Len(lines)
    BY <2>1
  <2>3. ToGateway(lines, SessionClosed) = [lines EXCEPT ![s].toGateway = Append(@, SessionClosed)]
    BY <1>2 DEF ToGateway
  <2>4. /\ Wired([lines EXCEPT ![s].toGateway = Append(@, SessionClosed)],
                 HostFrames, GatewayFrames, gateway.socket)
        /\ SameUps(lines, [lines EXCEPT ![s].toGateway = Append(@, SessionClosed)])
    BY <1>1, <1>2, <2>2, ToGatewayKeeps
  <2> QED BY <2>3, <2>4 DEF SameUps
<1>3. CASE ~(s # NoSocket /\ lines[s].up)
  BY <1>3 DEF ToGateway
<1> QED BY <1>2, <1>3

LEMMA RevokeKeeps ==
  ASSUME Inductive, NEW s \in DOMAIN sockets, onRevoke(s)
  PROVE  Inductive'
<1>1. /\ sockets' = ToGateway(Received(s), SessionClosed) /\ hosted' = Closed
      /\ Hangup(hosted.sinks) /\ UNCHANGED <<routes, gateway, failures>>
  BY DEF onRevoke
<1>2. /\ Head(sockets[s].toHost) \in HostFrames /\ Head(sockets[s].toHost).type = "revoke"
      /\ Wired(Received(s), HostFrames, GatewayFrames, gateway.socket) /\ SameUps(sockets, Received(s))
  BY Arrived DEF onRevoke
<1>3. gateway.revoked
  BY <1>2 DEF HostFrames
<1>4. /\ Wired(sockets', HostFrames, GatewayFrames, gateway.socket)
      /\ SameUps(sockets, sockets')
  BY <1>1, <1>2, SessionClosedSent
<1>5. Host' /\ Consoles' /\ Retold
  BY <1>1, <1>3, <1>4, ClosedKeeps DEF SameUps
<1> QED BY <1>1, <1>4, <1>5, HostStepKeeps DEF Inductive

LEMMA ReapKeeps ==
  ASSUME Inductive, reapExpired
  PROVE  Inductive'
<1>1. /\ sockets' = ToGateway(sockets, SessionClosed) /\ hosted' = Closed
      /\ Hangup(hosted.sinks) /\ UNCHANGED <<routes, gateway, failures>> /\ hosted.state = "expired"
  BY DEF reapExpired
<1>2. gateway.expired
  BY <1>1 DEF Inductive, Host
<1>3. Wired(sockets, HostFrames, GatewayFrames, gateway.socket) /\ SameUps(sockets, sockets)
  BY DEF Inductive, Wires, SameUps
<1>4. Wired(sockets', HostFrames, GatewayFrames, gateway.socket) /\ SameUps(sockets, sockets')
  BY <1>1, <1>3, SessionClosedSent
<1>5. Host' /\ Consoles' /\ Retold
  BY <1>1, <1>2, <1>4, ClosedKeeps DEF SameUps
<1> QED BY <1>1, <1>4, <1>5, HostStepKeeps DEF Inductive

LEMMA ExpiresKeeps ==
  ASSUME Inductive, ExpiresAtHost
  PROVE  Inductive'
<1>1. /\ hosted' = [hosted EXCEPT !.state = "expired"] /\ gateway.expired /\ hosted.state = "live"
      /\ UNCHANGED <<routes, sockets, gateway, calls, uis, failures>>
  BY DEF ExpiresAtHost, Expires
<1>2. Host' /\ hosted'.sinks = hosted.sinks
  BY <1>1 DEF Inductive, Host, States
<1>3. Consoles'
  BY <1>1, <1>2 DEF Inductive, Consoles
<1> QED BY <1>1, <1>2, <1>3, AsideKeeps, UnchangedIsRetold DEF Aside, Inductive

LEMMA GatewayCloseKeeps ==
  ASSUME Inductive, NEW s \in DOMAIN sockets, onGatewayClose(s)
  PROVE  Inductive'
<1>1. /\ sockets' = [sockets EXCEPT ![s].atHost = FALSE, ![s].toHost = << >>]
      /\ hosted' = [hosted EXCEPT !.gateway = NoSocket, !.sinks = @ \ Disconnected]
      /\ Hangup(hosted.sinks) /\ UNCHANGED <<routes, gateway, failures>>
  BY DEF onGatewayClose, Disconnected
<1>2. hosted.sinks \in SUBSET Conns /\ hosted.sinks = {u \in Conns : uis[u].at = "open"}
  BY DEF Inductive, Host, Consoles
<1>3. /\ Retold
      /\ uis' \in [Conns -> [at : {"new", "open", "closed"}, board : Boards]]
      /\ {u \in Conns : uis'[u].at = "open"} = {u \in Conns : uis[u].at = "open"} \ hosted.sinks
  BY <1>1, <1>2, HangupIsRetold DEF Inductive
<1>4. s \in 1..Len(sockets) /\ Wired(sockets, HostFrames, GatewayFrames, gateway.socket)
  BY DEF Inductive, Wires, Wired
<1>8. Wired(sockets', HostFrames, GatewayFrames, gateway.socket) /\ SameUps(sockets, sockets')
  BY <1>1, <1>4, HungUpKeeps
<1>9. /\ hosted'.state = hosted.state /\ hosted'.board = hosted.board
      /\ hosted'.gateway = NoSocket /\ hosted'.sinks = {}
      /\ hosted' = [state |-> hosted.state, gateway |-> NoSocket, board |-> hosted.board, sinks |-> {}]
  <2> DEFINE one == [hosted EXCEPT !.gateway = NoSocket]
  <2>1. one = [state |-> hosted.state, gateway |-> NoSocket, board |-> hosted.board, sinks |-> hosted.sinks]
    BY DEF Inductive, Host
  <2>2. hosted' = [one EXCEPT !.sinks = hosted.sinks \ hosted.sinks]
    BY <1>1, <2>1 DEF Disconnected
  <2> HIDE DEF one
  <2> QED BY <2>1, <2>2
<1>10. Host'
  <2>1. hosted' \in [state : States, gateway : 0..Len(sockets'), board : Boards, sinks : SUBSET Conns]
    <3>1. Len(sockets') \in Nat
      BY <1>8 DEF Wired
    <3> QED BY <1>9, <3>1 DEF Inductive, Host, NoSocket
  <2>2. ASSUME hosted = Absent
        PROVE  hosted' = Absent
    BY <1>9, <2>2 DEF Absent
  <2> QED BY <1>1, <1>9, <2>1, <2>2 DEF Inductive, Host
<1>11. Consoles'
  BY <1>2, <1>3, <1>9 DEF Consoles
<1> QED BY <1>1, <1>3, <1>8, <1>10, <1>11, HostStepKeeps DEF Inductive

-----------------------------------------------------------------------------
(* The gateway.                                                            *)

LEMMA OpenKeeps ==
  ASSUME Inductive, open
  PROVE  Inductive'
<1> DEFINE line == [up |-> TRUE, closed |-> FALSE, atHost |-> TRUE,
                    toHost |-> Reopened, toGateway |-> << >>]
<1>1. /\ gateway.socket = NoSocket /\ ~gateway.closing /\ sockets' = Append(sockets, line)
      /\ gateway' = [gateway EXCEPT !.socket = Len(sockets'), !.outbox = << >>]
      /\ UNCHANGED <<hosted, routes, calls, uis, failures>>
  BY DEF open
<1>2. /\ sockets \in Seq(Lines(HostFrames, GatewayFrames)) /\ Len(sockets) \in Nat
      /\ \A s \in 1..Len(sockets) : /\ ~sockets[s].up /\ sockets[s].toGateway = << >>
                                    /\ CallsOnce(sockets[s].toGateway)
  BY <1>1 DEF Inductive, Wires, Wired, NoSocket
<1>3. Reopened \in Seq(HostFrames)
  <2>1. Register \in HostFrames
    BY DEF HostFrames, Register
  <2>2. gateway.outbox \in Seq(HostFrames)
    BY DEF Inductive, Gateway, GatewayRecords
  <2> QED BY <2>1, <2>2 DEF Reopened
<1>4. line \in Lines(HostFrames, GatewayFrames)
  <2>1. << >> \in Seq(GatewayFrames)
    OBVIOUS
  <2> QED BY <1>3, <2>1 DEF Lines
<1>5. line.up /\ line.toGateway = << >>
  OBVIOUS
<1> HIDE DEF line
<1>6. /\ sockets' \in Seq(Lines(HostFrames, GatewayFrames)) /\ Len(sockets') = Len(sockets) + 1
      /\ sockets'[Len(sockets) + 1] = line
      /\ \A s \in 1..Len(sockets) : sockets'[s] = sockets[s]
  BY <1>1, <1>2, <1>4
<1>7. /\ gateway' \in GatewayRecords(HostFrames)
      /\ gateway'.revoked = gateway.revoked /\ gateway'.expired = gateway.expired
      /\ gateway'.closing = gateway.closing /\ gateway'.socket = Len(sockets) + 1
      /\ gateway'.spent = gateway.spent
  <2> DEFINE one == [gateway EXCEPT !.socket = Len(sockets')]
  <2>1. gateway \in GatewayRecords(HostFrames) /\ Len(sockets') \in Nat
    BY <1>2, <1>6 DEF Inductive, Gateway
  <2>2. /\ one \in GatewayRecords(HostFrames)
        /\ one.revoked = gateway.revoked /\ one.expired = gateway.expired /\ one.closing = gateway.closing
        /\ one.spent = gateway.spent /\ one.socket = Len(sockets')
    BY <2>1 DEF GatewayRecords
  <2>3. gateway' = [one EXCEPT !.outbox = << >>]
    BY <1>1
  <2> HIDE DEF one
  <2>4. << >> \in Seq(HostFrames)
    OBVIOUS
  <2> QED BY <1>6, <2>2, <2>3, <2>4 DEF GatewayRecords
<1>8. HostFrames \subseteq HostFrames' /\ GatewayFrames \subseteq GatewayFrames'
  BY <1>1, <1>7, FramesGrow DEF Forwarded
<1>9. Wired(sockets', HostFrames, GatewayFrames, Len(sockets) + 1)
  <2>1. \A s \in 1..Len(sockets') : s = Len(sockets) + 1 \/ s \in 1..Len(sockets)
    BY <1>2, <1>6
  <2>2. CallsOnce(<< >>)
    BY DEF CallsOnce
  <2> QED BY <1>2, <1>5, <1>6, <2>1, <2>2 DEF Wired
<1>10. Wires'
  BY <1>7, <1>8, <1>9, WiredGrows DEF Wires
<1>11. Failures'
  BY <1>1, <1>2, <1>5, <1>6, <1>7 DEF Inductive, Failures, NoSocket
<1>12. Gateway'
  <2>1. gateway' \in GatewayRecords(HostFrames')
    BY <1>7, <1>8, RecordsGrow
  <2> QED BY <1>1, <1>6, <1>7, <2>1 DEF Inductive, Gateway
<1>13. Host' /\ Asked' /\ Consoles'
  <2>1. hosted.gateway \in 0..Len(sockets')
    BY <1>2, <1>6 DEF Inductive, Host
  <2> QED BY <1>1, <1>7, <2>1 DEF Inductive, Host, Asked, Consoles, Forwarded
<1> QED BY <1>10, <1>11, <1>12, <1>13 DEF Inductive

\* No line is read or up any more.
LEMMA Retarget ==
  ASSUME NEW lines, NEW H, NEW G, NEW current, Wired(lines, H, G, current), NEW other,
         \A s \in 1..Len(lines) : ~lines[s].up /\ lines[s].toGateway = << >>
  PROVE  Wired(lines, H, G, other)
BY DEF Wired

LEMMA EmptiedKeeps ==
  ASSUME NEW lines, NEW H, NEW G, NEW current, Wired(lines, H, G, current),
         NEW s \in 1..Len(lines)
  PROVE  /\ Wired([lines EXCEPT ![s].toGateway = << >>], H, G, current)
         /\ SameUps(lines, [lines EXCEPT ![s].toGateway = << >>])
<1> DEFINE line == [lines[s] EXCEPT !.toGateway = << >>]
<1>1. lines[s] \in Lines(H, G)
  BY LineIs
<1>2. line \in Lines(H, G) /\ line.up = lines[s].up /\ line.toGateway = << >>
  <2>1. << >> \in Seq(G)
    OBVIOUS
  <2> QED BY <1>1, <2>1 DEF Lines
<1>3. [lines EXCEPT ![s].toGateway = << >>] = [lines EXCEPT ![s] = line]
  OBVIOUS
<1> HIDE DEF line
<1>4. CallsOnce(line.toGateway)
  BY <1>2 DEF CallsOnce
<1> QED BY <1>2, <1>3, <1>4, PutKeeps

LEMMA OnCloseKeeps ==
  ASSUME Inductive, NEW s \in DOMAIN sockets, onClose(s)
  PROVE  Inductive'
<1>1. /\ gateway.socket = s /\ ~sockets[s].up /\ gateway' = [gateway EXCEPT !.socket = NoSocket]
      /\ sockets' = [sockets EXCEPT ![s].toGateway = << >>]
      /\ UNCHANGED <<hosted, routes, calls, uis, failures>>
  BY DEF onClose
<1>2. s \in 1..Len(sockets) /\ Len(sockets) \in Nat
  BY DEF Inductive, Wires, Wired
<1>3. Wired(sockets', HostFrames, GatewayFrames, s) /\ SameUps(sockets, sockets')
  BY <1>1, <1>2, EmptiedKeeps DEF Inductive, Wires
<1>4. sockets'[s].toGateway = << >>
  <2>1. sockets[s] \in Lines(HostFrames, GatewayFrames)
    BY <1>2, LineIs DEF Inductive, Wires
  <2>2. sockets'[s] = [sockets[s] EXCEPT !.toGateway = << >>]
    BY <1>1, <1>2 DEF Inductive, Wires, Wired
  <2> QED BY <2>1, <2>2 DEF Lines
<1>5. \A r \in 1..Len(sockets') : ~sockets'[r].up /\ sockets'[r].toGateway = << >>
  BY <1>1, <1>3, <1>4 DEF Wired, SameUps
<1>6. /\ gateway'.socket = NoSocket /\ gateway'.revoked = gateway.revoked
      /\ gateway'.expired = gateway.expired /\ gateway'.closing = gateway.closing
      /\ gateway'.outbox = gateway.outbox /\ gateway'.spent = gateway.spent
      /\ gateway' \in GatewayRecords(HostFrames)
  BY <1>1 DEF Inductive, Gateway, GatewayRecords, NoSocket
<1>7. HostFrames \subseteq HostFrames' /\ GatewayFrames \subseteq GatewayFrames'
  BY <1>1, <1>6, FramesGrow DEF Forwarded
<1>8. Wires'
  <2>1. Wired(sockets', HostFrames, GatewayFrames, NoSocket)
    BY <1>3, <1>5, Retarget
  <2> QED BY <1>6, <1>7, <2>1, WiredGrows DEF Wires
<1>9. Failures'
  BY <1>1, <1>2, <1>3, <1>6 DEF Inductive, Failures, NoSocket, SameUps
<1>10. Gateway'
  <2>1. gateway' \in GatewayRecords(HostFrames')
    BY <1>6, <1>7, RecordsGrow
  <2> QED BY <1>1, <1>6, <2>1 DEF Inductive, Gateway
<1>11. Host' /\ Asked' /\ Consoles'
  BY <1>1, <1>3, <1>6 DEF Inductive, Host, Asked, Consoles, Forwarded, SameUps
<1> QED BY <1>8, <1>9, <1>10, <1>11 DEF Inductive

\* A frame that the gateway reads.
LEMMA Reading ==
  ASSUME Inductive, NEW s \in DOMAIN sockets, NEW type, Reads(s, type)
  PROVE  /\ s \in 1..Len(sockets) /\ gateway.socket = s
         /\ Head(sockets[s].toGateway) \in GatewayFrames /\ Head(sockets[s].toGateway).type = type
         /\ Wired(Read(s), HostFrames, GatewayFrames, gateway.socket)
         /\ SameUps(sockets, Read(s))
<1>1. s \in 1..Len(sockets) /\ sockets[s].toGateway # << >> /\ gateway.socket = s
  BY DEF Inductive, Wires, Wired, Reads
<1>2. sockets[s].toGateway \in Seq(GatewayFrames)
  BY <1>1, LineIs DEF Inductive, Wires
<1>3. Head(sockets[s].toGateway) \in GatewayFrames /\ Head(sockets[s].toGateway).type = type
  BY <1>1, <1>2 DEF Reads
<1> QED BY <1>1, <1>3, ReadKeeps DEF Inductive, Wires, Read

\* What happens to a call at the gateway.
Ran(c, run) == calls' = [calls EXCEPT ![c].run = run]

LEMMA RanKeeps ==
  ASSUME Asked, NEW c \in Calls, Forwarded(c), calls[c].run # "done", NEW run \in Runs, Ran(c, run)
  PROVE  /\ Asked'
         /\ \A d \in Calls : Forwarded(d)' <=> Forwarded(d)
         /\ \A d \in Calls \ {c} : calls'[d].run = calls[d].run
         /\ calls'[c].run = run
         /\ Done' = IF run = "done" THEN Done \cup {c} ELSE Done
<1>1. calls[c] \in CallRecords
  BY DEF Asked
<1>2. [calls[c] EXCEPT !.run = run] = [ui |-> calls[c].ui, told |-> calls[c].told, run |-> run]
  BY <1>1 DEF CallRecords
<1>3. calls' = [calls EXCEPT ![c] = [ui |-> calls[c].ui, told |-> calls[c].told, run |-> run]]
  BY <1>2 DEF Ran
<1>4. /\ \A d \in Calls \ {c} : calls'[d] = calls[d]
      /\ calls'[c].ui = calls[c].ui /\ calls'[c].told = calls[c].told /\ calls'[c].run = run
      /\ calls' \in [Calls -> CallRecords]
  <2>1. [ui |-> calls[c].ui, told |-> calls[c].told, run |-> run] \in CallRecords
    BY <1>1 DEF CallRecords
  <2> QED BY <1>3, <2>1 DEF Asked
<1>5. \A d \in Calls : Forwarded(d)' <=> Forwarded(d)
  BY <1>4 DEF Forwarded
<1>6. Done' = IF run = "done" THEN Done \cup {c} ELSE Done
  BY <1>4 DEF Done
<1>7. Asked'
  BY <1>4, <1>5 DEF Asked
<1> QED BY <1>4, <1>5, <1>6, <1>7

\* The lines, when a call on them may not be on them any more.
LEMMA Regroup ==
  ASSUME NEW lines, NEW H, NEW G, NEW current, Wired(lines, H, G, current),
         NEW I, NEW J, H \subseteq I,
         \A s \in 1..Len(lines) : lines[s].toGateway \in Seq(J)
  PROVE  Wired(lines, I, J, current)
<1>1. Seq(H) \subseteq Seq(I)
  BY SeqGrows
<1>2. \A s \in 1..Len(lines) : lines[s] \in Lines(I, J)
  <2> SUFFICES ASSUME NEW s \in 1..Len(lines)
               PROVE  lines[s] \in Lines(I, J)
    OBVIOUS
  <2>1. lines[s] \in Lines(H, G) /\ lines[s].toGateway \in Seq(J)
    BY LineIs
  <2> QED BY <1>1, <2>1 DEF Lines
<1>3. lines \in Seq(Lines(I, J))
  BY <1>2 DEF Wired
<1> QED BY <1>3 DEF Wired

\* A call that is read starts or is refused, and is on no line any more.
LEMMA HandleKeeps ==
  ASSUME Inductive, NEW s \in DOMAIN sockets, handleCall(s)
  PROVE  Inductive'
<1> DEFINE frame == Head(sockets[s].toGateway)
           c == frame.call
           run == IF authorize THEN "running" ELSE "refused"
<1>1. /\ Reads(s, "call") /\ UNCHANGED <<hosted, routes, gateway, uis, failures>> /\ Ran(c, run)
      /\ \/ sockets' = Read(s)
         \/ sockets' = [Read(s) EXCEPT ![s].toHost = Append(@, CallResult(c, FALSE))]
  BY DEF handleCall, Ran
<1>2. /\ s \in 1..Len(sockets) /\ gateway.socket = s
      /\ frame \in GatewayFrames /\ frame.type = "call"
      /\ Wired(Read(s), HostFrames, GatewayFrames, gateway.socket) /\ SameUps(sockets, Read(s))
  BY <1>1, Reading
<1>3. c \in Calls /\ frame = Call(c) /\ calls[c].run = "no" /\ Forwarded(c)
  BY <1>2 DEF GatewayFrames, SessionClosed, Call
<1>4. /\ sockets[s].toGateway \in Seq(GatewayFrames) /\ sockets[s].toGateway # << >>
      /\ CallsOnce(sockets[s].toGateway) /\ sockets[s] \in Lines(HostFrames, GatewayFrames)
  BY <1>1, <1>2, LineIs DEF Inductive, Wires, Reads
<1>5. /\ Tail(sockets[s].toGateway) \in Seq(GatewayFrames)
      /\ \A i \in 1..Len(Tail(sockets[s].toGateway)) : Tail(sockets[s].toGateway)[i] # Call(c)
  BY <1>2, <1>3, <1>4, TailOnce
<1> HIDE DEF frame, c
<1>6. run \in Runs /\ run # "done" /\ run # "no"
  BY DEF Runs
<1> HIDE DEF run
<1>7. /\ Asked' /\ (\A d \in Calls : Forwarded(d)' <=> Forwarded(d))
      /\ (\A d \in Calls \ {c} : calls'[d].run = calls[d].run) /\ Done' = Done
  BY <1>1, <1>3, <1>6, RanKeeps DEF Inductive
<1>8. HostFrames \subseteq HostFrames'
  BY <1>1, <1>3, <1>7 DEF HostFrames, Register, Revoke
<1>9. \A f \in GatewayFrames : f # Call(c) => f \in GatewayFrames'
  <2> SUFFICES ASSUME NEW f \in GatewayFrames, f # Call(c)
               PROVE  f \in GatewayFrames'
    OBVIOUS
  <2>1. CASE f = SessionClosed
    BY <2>1 DEF GatewayFrames, SessionClosed
  <2>2. CASE f \in [type : {"call"}, call : Calls]
    <3>1. f.call # c /\ f.call \in Calls
      BY <2>2 DEF Call
    <3> QED BY <1>7, <2>2, <3>1 DEF GatewayFrames
  <2> QED BY <2>1, <2>2 DEF GatewayFrames
<1>10. Tail(sockets[s].toGateway) \in Seq(GatewayFrames')
  <2>1. PICK q : q = Tail(sockets[s].toGateway)
    OBVIOUS
  <2>2. q \in Seq(GatewayFrames) /\ \A i \in 1..Len(q) : q[i] # Call(c)
    BY <1>5, <2>1
  <2>3. \A i \in 1..Len(q) : q[i] \in GatewayFrames'
    BY <1>9, <2>2
  <2> QED BY <2>1, <2>2, <2>3, SeqOf
<1>11. \A r \in 1..Len(Read(s)) : Read(s)[r].toGateway \in Seq(GatewayFrames')
  <2> SUFFICES ASSUME NEW r \in 1..Len(Read(s))
               PROVE  Read(s)[r].toGateway \in Seq(GatewayFrames')
    OBVIOUS
  <2>1. CASE r = s
    <3>1. Read(s)[s] = [sockets[s] EXCEPT !.toGateway = Tail(@)]
      BY <1>2 DEF Read, Inductive, Wires, Wired
    <3>2. Read(s)[s].toGateway = Tail(sockets[s].toGateway)
      BY <1>4, <3>1 DEF Lines
    <3> QED BY <1>10, <2>1, <3>2
  <2>2. CASE r # s
    <3>1. Read(s)[r].toGateway = << >>
      BY <1>2, <2>2 DEF Wired
    <3>2. << >> \in Seq(GatewayFrames')
      OBVIOUS
    <3> QED BY <3>1, <3>2
  <2> QED BY <2>1, <2>2
<1>12. Wired(Read(s), HostFrames', GatewayFrames', gateway.socket)
  BY <1>2, <1>8, <1>11, Regroup
<1>13. Wired(sockets', HostFrames', GatewayFrames', gateway.socket) /\ SameUps(sockets, sockets')
  <2>1. CASE sockets' = Read(s)
    BY <1>2, <1>12, <2>1
  <2>2. CASE sockets' = [Read(s) EXCEPT ![s].toHost = Append(@, CallResult(c, FALSE))]
    <3>1. CallResult(c, FALSE) \in HostFrames'
      BY <1>3 DEF HostFrames, CallResult
    <3>2. s \in 1..Len(Read(s))
      BY <1>2 DEF SameUps
    <3>3. Wired(sockets', HostFrames', GatewayFrames', gateway.socket) /\ SameUps(Read(s), sockets')
      BY <1>12, <2>2, <3>1, <3>2, ToHostKeeps
    <3> QED BY <1>2, <3>3 DEF SameUps
  <2> QED BY <1>1, <2>1, <2>2
<1>14. Wires' /\ Failures' /\ Gateway'
  BY <1>1, <1>7, <1>8, <1>13, FailuresStay, GatewayStays DEF Inductive, Wires, SameUps
<1>15. Host' /\ Consoles'
  BY <1>1, <1>13 DEF Inductive, Host, Consoles, SameUps
<1> QED BY <1>7, <1>14, <1>15 DEF Inductive

LEMMA SessionClosedKeeps ==
  ASSUME Inductive, NEW s \in DOMAIN sockets, onSessionClosed(s)
  PROVE  Inductive'
<1>1. /\ sockets' = Read(s) /\ gateway' = [gateway EXCEPT !.revoked = TRUE]
      /\ UNCHANGED <<hosted, routes, calls, uis, failures>>
      /\ Wired(sockets', HostFrames, GatewayFrames, gateway.socket) /\ SameUps(sockets, sockets')
  BY Reading DEF onSessionClosed
<1>2. /\ gateway' \in GatewayRecords(HostFrames) /\ gateway'.revoked
      /\ gateway'.expired = gateway.expired /\ gateway'.closing = gateway.closing
      /\ gateway'.socket = gateway.socket /\ gateway'.spent = gateway.spent
  BY <1>1 DEF Inductive, Gateway, GatewayRecords
<1>3. HostFrames \subseteq HostFrames' /\ GatewayFrames \subseteq GatewayFrames'
  BY <1>1, <1>2, FramesGrow DEF Forwarded
<1>4. Wires'
  BY <1>1, <1>2, <1>3, WiredGrows DEF Wires
<1>5. Failures'
  BY <1>1, <1>2, FailuresStay DEF Inductive
<1>6. Gateway'
  <2>1. gateway' \in GatewayRecords(HostFrames')
    BY <1>2, <1>3, RecordsGrow
  <2> QED BY <1>1, <1>2, <2>1 DEF Inductive, Gateway, SameUps
<1>7. Host' /\ Asked' /\ Consoles'
  BY <1>1, <1>2 DEF Inductive, Host, Asked, Consoles, Forwarded, SameUps
<1> QED BY <1>4, <1>5, <1>6, <1>7 DEF Inductive

\* The gateway sends a frame, or queues it, or the frame is lost.
LEMMA safeSendKeeps ==
  ASSUME NEW H, NEW G, Wired(sockets, H, G, gateway.socket), NEW record \in GatewayRecords(H),
         NEW frame \in H, safeSend(record, frame), record.socket = gateway.socket,
         gateway.socket \in {NoSocket, Len(sockets)}
  PROVE  /\ Wired(sockets', H, G, gateway.socket) /\ SameUps(sockets, sockets')
         /\ gateway' \in GatewayRecords(H)
         /\ gateway'.revoked = record.revoked /\ gateway'.expired = record.expired
         /\ gateway'.closing = record.closing /\ gateway'.socket = record.socket
         /\ gateway'.spent = record.spent
<1> DEFINE s == gateway.socket
<1>1. CASE s = NoSocket
  <2>1. gateway' = [record EXCEPT !.outbox = Append(@, frame)] /\ UNCHANGED sockets
    BY <1>1 DEF safeSend
  <2>2. Append(record.outbox, frame) \in Seq(H)
    <3>1. record.outbox \in Seq(H)
      BY DEF GatewayRecords
    <3> QED BY <3>1
  <2> QED BY <2>1, <2>2 DEF GatewayRecords, SameUps
<1>2. CASE s # NoSocket
  <2>1. s \in 1..Len(sockets)
    <3>1. Len(sockets) \in Nat /\ s = Len(sockets)
      BY <1>2 DEF Wired
    <3> QED BY <1>2, <3>1 DEF NoSocket
  <2>2. gateway' = record
    BY <1>2 DEF safeSend
  <2>3. \/ sockets' = [sockets EXCEPT ![s].toHost = Append(@, frame)]
        \/ sockets' = sockets
    BY <1>2 DEF safeSend
  <2>4. Wired(sockets', H, G, gateway.socket) /\ SameUps(sockets, sockets')
    <3>1. CASE sockets' = [sockets EXCEPT ![s].toHost = Append(@, frame)]
      BY <2>1, <3>1, ToHostKeeps
    <3>2. CASE sockets' = sockets
      BY <3>2 DEF SameUps
    <3> QED BY <2>3, <3>1, <3>2
  <2> QED BY <2>2, <2>4
<1> QED BY <1>1, <1>2

LEMMA CallEndsKeeps ==
  ASSUME Inductive, NEW c \in Calls, NEW run \in {"done", "failed", "late"}, CallEnds(c, run)
  PROVE  Inductive'
<1> DEFINE record == [gateway EXCEPT !.spent = IF run = "done" THEN @ + 1 ELSE @]
<1>1. /\ calls[c].run = "running" /\ Ran(c, run) /\ safeSend(record, CallResult(c, AnswerOf(run)))
      /\ UNCHANGED <<hosted, routes, uis, failures>>
  BY DEF CallEnds, Ran
<1>2. Forwarded(c) /\ run \in Runs
  BY <1>1 DEF Inductive, Asked, Runs
<1>3. /\ Asked' /\ (\A d \in Calls : Forwarded(d)' <=> Forwarded(d))
      /\ (\A d \in Calls \ {c} : calls'[d].run = calls[d].run) /\ calls'[c].run = run
      /\ Done' = IF run = "done" THEN Done \cup {c} ELSE Done
  BY <1>1, <1>2, RanKeeps DEF Inductive
<1>4. /\ record \in GatewayRecords(HostFrames)
      /\ record.revoked = gateway.revoked /\ record.expired = gateway.expired
      /\ record.closing = gateway.closing /\ record.socket = gateway.socket
      /\ record.spent = IF run = "done" THEN gateway.spent + 1 ELSE gateway.spent
  BY DEF Inductive, Gateway, GatewayRecords
<1> HIDE DEF record
<1>5. gateway'.revoked = record.revoked
  BY <1>1, <1>4 DEF safeSend, GatewayRecords
<1>6. HostFrames \subseteq HostFrames' /\ GatewayFrames \subseteq GatewayFrames'
  <2>1. gateway.revoked => gateway'.revoked
    BY <1>4, <1>5
  <2>2. \A d \in Calls : calls[d].run = "done" => calls'[d].run = "done"
    BY <1>1, <1>3
  <2>3. \A d \in Calls : calls[d].run = "no" /\ Forwarded(d) => calls'[d].run = "no" /\ Forwarded(d)'
    BY <1>1, <1>3
  <2> QED BY <2>1, <2>2, <2>3, FramesGrow
<1>7. CallResult(c, AnswerOf(run)) \in HostFrames'
  BY <1>3 DEF HostFrames, CallResult, AnswerOf
<1>8. /\ Wired(sockets', HostFrames', GatewayFrames', gateway.socket) /\ SameUps(sockets, sockets')
      /\ gateway' \in GatewayRecords(HostFrames')
      /\ gateway'.expired = record.expired /\ gateway'.closing = record.closing
      /\ gateway'.socket = record.socket /\ gateway'.spent = record.spent
  <2>1. Wired(sockets, HostFrames', GatewayFrames', gateway.socket)
    BY <1>6, WiredGrows DEF Inductive, Wires
  <2>2. record \in GatewayRecords(HostFrames')
    BY <1>4, <1>6, RecordsGrow
  <2>3. gateway.socket \in {NoSocket, Len(sockets)}
    BY DEF Inductive, Gateway
  <2> QED BY <1>1, <1>4, <1>7, <2>1, <2>2, <2>3, safeSendKeeps
<1>9. gateway'.spent <= Cardinality(Done')
  <2>1. gateway.spent <= Cardinality(Done) /\ gateway.spent \in Nat
    BY DEF Inductive, Gateway, GatewayRecords, Done
  <2>2. IsFiniteSet(Done) /\ c \notin Done
    BY <1>1, RemoteAssumption, FS_Subset DEF Done
  <2>3. Cardinality(Done) \in Nat /\ Cardinality(Done \cup {c}) = Cardinality(Done) + 1
    BY <2>2, FS_AddElement, FS_CardinalityType
  <2> QED BY <1>3, <1>4, <1>8, <2>1, <2>3
<1>10. Wires' /\ Failures'
  BY <1>1, <1>4, <1>8, FailuresStay DEF Inductive, Wires
<1>11. Gateway'
  BY <1>4, <1>8, <1>9 DEF Inductive, Gateway, Done, SameUps
<1>12. Host' /\ Consoles'
  BY <1>1, <1>4, <1>5, <1>8 DEF Inductive, Host, Consoles, SameUps
<1> QED BY <1>3, <1>10, <1>11, <1>12 DEF Inductive

LEMMA LateCallEndsKeeps ==
  ASSUME Inductive, NEW c \in Calls, NEW run \in {"done", "failed"}, LateCallEnds(c, run)
  PROVE  Inductive'
<1>1. /\ calls[c].run = "late" /\ Ran(c, run)
      /\ UNCHANGED <<hosted, routes, sockets, gateway, uis, failures>>
  BY DEF LateCallEnds, Ran
<1>2. Forwarded(c) /\ run \in Runs
  BY <1>1 DEF Inductive, Asked, Runs
<1>3. /\ Asked' /\ (\A d \in Calls : Forwarded(d)' <=> Forwarded(d))
      /\ (\A d \in Calls \ {c} : calls'[d].run = calls[d].run) /\ calls'[c].run = run
      /\ Done' = IF run = "done" THEN Done \cup {c} ELSE Done
  BY <1>1, <1>2, RanKeeps DEF Inductive
<1>4. HostFrames \subseteq HostFrames' /\ GatewayFrames \subseteq GatewayFrames'
  BY <1>1, <1>3, FramesGrow
<1>5. Wires' /\ Failures'
  BY <1>1, <1>4, WiredGrows DEF Inductive, Wires, Failures
<1>6. gateway'.spent <= Cardinality(Done')
  <2>1. gateway.spent <= Cardinality(Done) /\ gateway.spent \in Nat
    BY DEF Inductive, Gateway, GatewayRecords, Done
  <2>2. IsFiniteSet(Done) /\ c \notin Done
    BY <1>1, RemoteAssumption, FS_Subset DEF Done
  <2>3. Cardinality(Done) \in Nat /\ Cardinality(Done \cup {c}) = Cardinality(Done) + 1
    BY <2>2, FS_AddElement, FS_CardinalityType
  <2> QED BY <1>1, <1>3, <2>1, <2>3
<1>7. gateway' \in GatewayRecords(HostFrames')
  BY <1>1, <1>4, RecordsGrow DEF Inductive, Gateway
<1>8. Gateway'
  BY <1>1, <1>6, <1>7 DEF Inductive, Gateway, Done
<1>9. Host' /\ Consoles'
  BY <1>1 DEF Inductive, Host, Consoles
<1> QED BY <1>3, <1>5, <1>8, <1>9 DEF Inductive

LEMMA PushBoardKeeps ==
  ASSUME Inductive, pushBoard
  PROVE  Inductive'
<1> DEFINE record == [gateway EXCEPT !.board = @ + 1]
<1>1. /\ gateway.board < MaxBoard /\ safeSend(record, BoardPatch(gateway.board + 1))
      /\ UNCHANGED <<hosted, routes, calls, uis, failures>>
  BY DEF pushBoard
<1>2. gateway.board \in Boards /\ gateway.board + 1 \in Boards
  BY <1>1, RemoteAssumption DEF Inductive, Gateway, GatewayRecords, Boards
<1>3. /\ record \in GatewayRecords(HostFrames)
      /\ record.revoked = gateway.revoked /\ record.expired = gateway.expired
      /\ record.closing = gateway.closing /\ record.socket = gateway.socket
      /\ record.spent = gateway.spent
  BY <1>2 DEF Inductive, Gateway, GatewayRecords
<1> HIDE DEF record
<1>4. BoardPatch(gateway.board + 1) \in HostFrames
  BY <1>2 DEF HostFrames, BoardPatch
<1>5. /\ Wired(sockets', HostFrames, GatewayFrames, gateway.socket) /\ SameUps(sockets, sockets')
      /\ gateway' \in GatewayRecords(HostFrames)
      /\ gateway'.revoked = record.revoked /\ gateway'.expired = record.expired
      /\ gateway'.closing = record.closing
      /\ gateway'.socket = record.socket /\ gateway'.spent = record.spent
  BY <1>1, <1>3, <1>4, safeSendKeeps DEF Inductive, Wires, Gateway
<1>6. HostFrames \subseteq HostFrames' /\ GatewayFrames \subseteq GatewayFrames'
  BY <1>1, <1>3, <1>5, FramesGrow DEF Forwarded
<1>7. Wires' /\ Failures'
  BY <1>1, <1>3, <1>5, <1>6, WiredGrows, FailuresStay DEF Inductive, Wires
<1>8. Gateway'
  <2>1. gateway' \in GatewayRecords(HostFrames')
    BY <1>5, <1>6, RecordsGrow
  <2> QED BY <1>1, <1>3, <1>5, <2>1 DEF Inductive, Gateway, SameUps
<1>9. Host' /\ Asked' /\ Consoles'
  BY <1>1, <1>3, <1>5 DEF Inductive, Host, Asked, Consoles, Forwarded, SameUps
<1> QED BY <1>7, <1>8, <1>9 DEF Inductive

LEMMA TimePassesKeeps ==
  ASSUME Inductive, TimePasses
  PROVE  Inductive'
<1>1. /\ gateway' = [gateway EXCEPT !.expired = TRUE]
      /\ UNCHANGED <<hosted, routes, sockets, calls, uis, failures>>
  BY DEF TimePasses
<1>2. /\ gateway' \in GatewayRecords(HostFrames) /\ gateway'.expired
      /\ gateway'.revoked = gateway.revoked /\ gateway'.closing = gateway.closing
      /\ gateway'.socket = gateway.socket /\ gateway'.spent = gateway.spent
  BY <1>1 DEF Inductive, Gateway, GatewayRecords
<1>3. HostFrames \subseteq HostFrames' /\ GatewayFrames \subseteq GatewayFrames'
  BY <1>1, <1>2, FramesGrow DEF Forwarded
<1>4. Wires' /\ Failures'
  BY <1>1, <1>2, <1>3, WiredGrows DEF Inductive, Wires, Failures
<1>5. Gateway'
  <2>1. gateway' \in GatewayRecords(HostFrames')
    BY <1>2, <1>3, RecordsGrow
  <2> QED BY <1>1, <1>2, <2>1 DEF Inductive, Gateway
<1>6. Host' /\ Asked' /\ Consoles'
  BY <1>1, <1>2 DEF Inductive, Host, Asked, Consoles, Forwarded
<1> QED BY <1>4, <1>5, <1>6 DEF Inductive

-----------------------------------------------------------------------------
(* The end of the session, and failures.                                   *)

\* A socket goes down.
LEMMA DownKeeps ==
  ASSUME NEW lines, NEW H, NEW G, NEW current, Wired(lines, H, G, current),
         NEW s \in 1..Len(lines)
  PROVE  /\ Wired([lines EXCEPT ![s].up = FALSE], H, G, current)
         /\ Len([lines EXCEPT ![s].up = FALSE]) = Len(lines)
         /\ ~[lines EXCEPT ![s].up = FALSE][s].up
         /\ [lines EXCEPT ![s].up = FALSE][s].toGateway = lines[s].toGateway
<1> DEFINE line == [lines[s] EXCEPT !.up = FALSE]
           others == [lines EXCEPT ![s] = line]
<1>1. /\ lines[s] \in Lines(H, G) /\ CallsOnce(lines[s].toGateway)
      /\ lines[s].toGateway # << >> => current = s
  BY LineIs
<1>2. line \in Lines(H, G) /\ ~line.up /\ line.toGateway = lines[s].toGateway
  BY <1>1 DEF Lines
<1> HIDE DEF line
<1>3. others \in Seq(Lines(H, G)) /\ Len(others) = Len(lines)
      /\ \A r \in 1..Len(lines) : others[r] = IF r = s THEN line ELSE lines[r]
  BY <1>2 DEF Wired
<1> HIDE DEF others
<1>4. Wired(others, H, G, current)
  BY <1>1, <1>2, <1>3 DEF Wired
<1>5. others = [lines EXCEPT ![s].up = FALSE]
  BY DEF others, line
<1>6. others[s] = line
  BY <1>3
<1> QED BY <1>2, <1>3, <1>4, <1>5, <1>6

\* The gateway closes a socket.
LEMMA FlagKeeps ==
  ASSUME NEW lines, NEW H, NEW G, NEW current, Wired(lines, H, G, current),
         NEW s \in 1..Len(lines)
  PROVE  /\ Wired([lines EXCEPT ![s].closed = TRUE], H, G, current)
         /\ SameUps(lines, [lines EXCEPT ![s].closed = TRUE])
<1> DEFINE line == [lines[s] EXCEPT !.closed = TRUE]
<1>1. /\ lines[s] \in Lines(H, G) /\ CallsOnce(lines[s].toGateway)
      /\ lines[s].toGateway # << >> => current = s
  BY LineIs
<1>2. line \in Lines(H, G) /\ line.up = lines[s].up /\ line.toGateway = lines[s].toGateway
  BY <1>1 DEF Lines
<1>3. [lines EXCEPT ![s].closed = TRUE] = [lines EXCEPT ![s] = line]
  OBVIOUS
<1> HIDE DEF line
<1> QED BY <1>1, <1>2, <1>3, PutKeeps

LEMMA ShutdownKeeps ==
  ASSUME Inductive, shutdown
  PROVE  Inductive'
<1> DEFINE s == gateway.socket
<1>1. /\ ~gateway.closing
      /\ gateway' = [gateway EXCEPT !.revoked = TRUE, !.closing = TRUE, !.socket = NoSocket]
      /\ UNCHANGED <<hosted, routes, calls, uis, failures>>
  BY DEF shutdown
<1>2. /\ gateway' \in GatewayRecords(HostFrames) /\ gateway'.revoked /\ gateway'.closing
      /\ gateway'.expired = gateway.expired /\ gateway'.socket = NoSocket
      /\ gateway'.spent = gateway.spent
  <2> DEFINE one == [gateway EXCEPT !.revoked = TRUE]
             two == [one EXCEPT !.closing = TRUE]
  <2>1. gateway \in GatewayRecords(HostFrames)
    BY DEF Inductive, Gateway
  <2>2. one \in GatewayRecords(HostFrames) /\ one.revoked
        /\ one.expired = gateway.expired /\ one.spent = gateway.spent
    BY <2>1 DEF GatewayRecords
  <2> HIDE DEF one
  <2>3. two \in GatewayRecords(HostFrames) /\ two.revoked /\ two.closing
        /\ two.expired = gateway.expired /\ two.spent = gateway.spent
    BY <2>2 DEF GatewayRecords
  <2>4. gateway' = [two EXCEPT !.socket = NoSocket]
    BY <1>1 DEF one
  <2> HIDE DEF two
  <2> QED BY <2>3, <2>4 DEF GatewayRecords, NoSocket
<1>3. HostFrames \subseteq HostFrames' /\ GatewayFrames \subseteq GatewayFrames'
  BY <1>1, <1>2, FramesGrow DEF Forwarded
<1>4. Wired(sockets, HostFrames', GatewayFrames', s) /\ Len(sockets) \in Nat
  <2>1. Wired(sockets, HostFrames', GatewayFrames', s)
    BY <1>3, WiredGrows DEF Inductive, Wires
  <2> QED BY <2>1 DEF Wired
<1>5. Revoke \in HostFrames'
  BY <1>2 DEF HostFrames, Revoke
<1>6. s # NoSocket => s \in 1..Len(sockets)
  BY <1>4 DEF Inductive, Gateway, NoSocket
<1>7. /\ Wired(sockets', HostFrames', GatewayFrames', s) /\ Len(sockets') = Len(sockets)
      /\ s # NoSocket => ~sockets'[s].up /\ sockets'[s].toGateway = << >>
  <2>1. CASE s = NoSocket
    BY <1>4, <2>1 DEF shutdown
  <2>2. CASE s # NoSocket /\ ~sockets[s].up
    <3>1. sockets' = [sockets EXCEPT ![s].toGateway = << >>]
      BY <2>2 DEF shutdown
    <3>2. Wired(sockets', HostFrames', GatewayFrames', s) /\ SameUps(sockets, sockets')
      BY <1>4, <1>6, <2>2, <3>1, EmptiedKeeps
    <3>3. sockets[s] \in Lines(HostFrames', GatewayFrames') /\ sockets'[s] = [sockets[s] EXCEPT !.toGateway = << >>]
      BY <1>4, <1>6, <2>2, <3>1 DEF Wired
    <3>4. sockets'[s].toGateway = << >>
      BY <3>3 DEF Lines
    <3> QED BY <1>6, <2>2, <3>2, <3>4 DEF SameUps
  <2>3. CASE s # NoSocket /\ sockets[s].up
    <3> DEFINE one == [sockets EXCEPT ![s].up = FALSE]
               two == [one EXCEPT ![s].closed = TRUE]
               three == [two EXCEPT ![s].toGateway = << >>]
               four == [three EXCEPT ![s].toHost = Append(@, Revoke)]
    <3>1. sockets' = four
      BY <2>3 DEF shutdown
    <3>2. s \in 1..Len(sockets)
      BY <1>6, <2>3
    <3>3. Wired(one, HostFrames', GatewayFrames', s) /\ Len(one) = Len(sockets) /\ ~one[s].up
      BY <1>4, <3>2, DownKeeps
    <3> HIDE DEF one
    <3>4. Wired(two, HostFrames', GatewayFrames', s) /\ SameUps(one, two)
      BY <3>2, <3>3, FlagKeeps
    <3> HIDE DEF two
    <3>5. Wired(three, HostFrames', GatewayFrames', s) /\ SameUps(two, three)
      BY <3>2, <3>3, <3>4, EmptiedKeeps DEF SameUps
    <3>6. three[s].toGateway = << >>
      <4>1. two[s] \in Lines(HostFrames', GatewayFrames') /\ three[s] = [two[s] EXCEPT !.toGateway = << >>]
        BY <3>2, <3>3, <3>4 DEF Wired, SameUps
      <4> QED BY <4>1 DEF Lines
    <3> HIDE DEF three
    <3>7. s \in 1..Len(three)
      BY <3>2, <3>3, <3>4, <3>5 DEF SameUps
    <3>8. Wired(four, HostFrames', GatewayFrames', s) /\ SameUps(three, four)
          /\ four[s].toGateway = << >>
      BY <1>5, <3>5, <3>6, <3>7, ToHostKeeps
    <3> HIDE DEF four
    <3> QED BY <3>1, <3>3, <3>4, <3>5, <3>7, <3>8 DEF SameUps
  <2> QED BY <2>1, <2>2, <2>3
<1>8. \A r \in 1..Len(sockets') : ~sockets'[r].up /\ sockets'[r].toGateway = << >>
  BY <1>7 DEF Wired, NoSocket
<1>9. Wires'
  BY <1>2, <1>7, <1>8, Retarget DEF Wires
<1>10. Failures'
  BY <1>1, <1>2, <1>7 DEF Inductive, Failures
<1>11. Gateway'
  <2>1. gateway' \in GatewayRecords(HostFrames')
    BY <1>2, <1>3, RecordsGrow
  <2> QED BY <1>1, <1>2, <2>1 DEF Inductive, Gateway
<1>12. Host' /\ Asked' /\ Consoles'
  BY <1>1, <1>2, <1>7 DEF Inductive, Host, Asked, Consoles, Forwarded
<1> QED BY <1>9, <1>10, <1>11, <1>12 DEF Inductive

LEMMA BreakKeeps ==
  ASSUME Inductive, NEW s \in DOMAIN sockets, Break(s)
  PROVE  Inductive'
<1>1. /\ sockets[s].up /\ failures < MaxFailures /\ failures' = failures + 1
      /\ sockets' = [sockets EXCEPT ![s].up = FALSE]
      /\ UNCHANGED <<hosted, routes, gateway, calls, uis>>
  BY DEF Break
<1>2. s \in 1..Len(sockets) /\ Len(sockets) \in Nat
  BY DEF Inductive, Wires, Wired
<1>3. Wired(sockets', HostFrames, GatewayFrames, gateway.socket) /\ Len(sockets') = Len(sockets)
  BY <1>1, <1>2, DownKeeps DEF Inductive, Wires
<1>4. HostFrames \subseteq HostFrames' /\ GatewayFrames \subseteq GatewayFrames'
  BY <1>1, FramesGrow DEF Forwarded
<1>5. Wires'
  BY <1>1, <1>3, <1>4, WiredGrows DEF Wires
<1>6. Failures'
  BY <1>1, <1>2, <1>3, RemoteAssumption DEF Inductive, Failures
<1>7. Gateway'
  BY <1>1, <1>3, <1>4, GatewayStays DEF Inductive, Done
<1>8. Host' /\ Asked' /\ Consoles'
  BY <1>1, <1>3 DEF Inductive, Host, Asked, Consoles, Forwarded
<1> QED BY <1>5, <1>6, <1>7, <1>8 DEF Inductive

LEMMA HostRestartsKeeps ==
  ASSUME Inductive, HostRestarts
  PROVE  Inductive'
<1> DEFINE us == {u \in Conns : uis[u].at = "open"}
<1>1. /\ failures < MaxFailures /\ failures' = failures + 1 /\ hosted' = Absent /\ routes' = {}
      /\ sockets' = [s \in DOMAIN sockets |->
           [sockets[s] EXCEPT !.up = FALSE, !.atHost = FALSE, !.toHost = << >>]]
      /\ Hangup(us) /\ UNCHANGED gateway
  BY DEF HostRestarts
<1>2. Retold /\ uis' \in [Conns -> [at : {"new", "open", "closed"}, board : Boards]]
      /\ {u \in Conns : uis'[u].at = "open"} = us \ us
  BY <1>1, HangupIsRetold DEF Inductive
<1>3. /\ sockets \in Seq(Lines(HostFrames, GatewayFrames)) /\ Len(sockets) \in Nat
      /\ DOMAIN sockets = 1..Len(sockets)
      /\ \A s \in 1..Len(sockets) : sockets[s] \in Lines(HostFrames, GatewayFrames)
  BY DEF Inductive, Wires, Wired
<1>4. \A s \in 1..Len(sockets) :
        /\ sockets'[s] \in Lines(HostFrames, GatewayFrames) /\ ~sockets'[s].up
        /\ sockets'[s].toGateway = sockets[s].toGateway
  <2> SUFFICES ASSUME NEW s \in 1..Len(sockets)
               PROVE  /\ sockets'[s] \in Lines(HostFrames, GatewayFrames) /\ ~sockets'[s].up
                      /\ sockets'[s].toGateway = sockets[s].toGateway
    OBVIOUS
  <2>1. PICK H, G : H = HostFrames /\ G = GatewayFrames
    OBVIOUS
  <2> DEFINE one == [sockets[s] EXCEPT !.up = FALSE]
             two == [one EXCEPT !.atHost = FALSE]
  <2>2. sockets[s] \in Lines(H, G)
    BY <1>3, <2>1
  <2>3. sockets'[s] = [two EXCEPT !.toHost = << >>]
    BY <1>1, <1>3
  <2>4. one \in Lines(H, G) /\ ~one.up /\ one.toGateway = sockets[s].toGateway
    BY <2>2 DEF Lines
  <2> HIDE DEF one
  <2>5. two \in Lines(H, G) /\ ~two.up /\ two.toGateway = sockets[s].toGateway
    BY <2>4 DEF Lines
  <2> HIDE DEF two
  <2>6. << >> \in Seq(H)
    OBVIOUS
  <2> QED BY <2>1, <2>3, <2>5, <2>6 DEF Lines
<1>5. sockets' \in Seq(Lines(HostFrames, GatewayFrames)) /\ Len(sockets') = Len(sockets)
  <2>1. sockets' \in [1..Len(sockets) -> Lines(HostFrames, GatewayFrames)]
    BY <1>1, <1>3, <1>4
  <2> QED BY <1>3, <2>1
<1>6. Wired(sockets', HostFrames, GatewayFrames, gateway.socket)
  BY <1>4, <1>5 DEF Inductive, Wires, Wired
<1>7. Asked' /\ HostFrames \subseteq HostFrames' /\ GatewayFrames \subseteq GatewayFrames' /\ Done' = Done
  BY <1>1, <1>2, RetoldKeeps, FramesGrow DEF Inductive
<1>8. Wires'
  BY <1>1, <1>6, <1>7, WiredGrows DEF Wires
<1>9. Failures'
  <2>1. failures \in 0..MaxFailures /\ Len(sockets) <= failures + 1 /\ MaxFailures \in Nat
    BY RemoteAssumption DEF Inductive, Failures
  <2>2. failures' \in 0..MaxFailures /\ Len(sockets') <= failures'
    <3>1. failures < MaxFailures /\ failures' = failures + 1
      BY <1>1
    <3>2. Len(sockets') = Len(sockets) /\ Len(sockets) \in Nat
      BY <1>3, <1>5
    <3> QED BY <2>1, <3>1, <3>2
  <2>3. Len(sockets') <= failures' + 1
    BY <1>3, <1>5, <2>1, <2>2
  <2> QED BY <2>2, <2>3 DEF Failures
<1>10. Gateway'
  BY <1>1, <1>5, <1>7, GatewayStays DEF Inductive
<1>11. Host'
  <2>1. Absent \in [state : States, gateway : 0..Len(sockets'), board : Boards, sinks : SUBSET Conns]
    BY <1>3, <1>5, RemoteAssumption DEF Absent, States, Boards, NoSocket
  <2> QED BY <1>1, <2>1 DEF Host, Absent
<1>12. Consoles'
  <2>1. hosted'.sinks = {}
    BY <1>1 DEF Absent
  <2> QED BY <1>2, <2>1 DEF Consoles
<1> QED BY <1>7, <1>8, <1>9, <1>10, <1>11, <1>12 DEF Inductive

-----------------------------------------------------------------------------
(* The theorems.                                                           *)

LEMMA FieldsOf ==
  ASSUME NEW r, NEW u, NEW told, NEW run, r = [ui |-> u, told |-> told, run |-> run]
  PROVE  r.ui = u /\ r.told = told /\ r.run = run
OBVIOUS

LEMMA InductiveInit ==
  ASSUME Init
  PROVE  Inductive
<1>1. sockets = << >> /\ hosted = Absent /\ routes = {} /\ failures = 0
  BY DEF Init
<1>2. /\ gateway.socket = 0 /\ gateway.spent = 0 /\ gateway.board = 0 /\ gateway.outbox = << >>
      /\ gateway = [revoked |-> FALSE, expired |-> FALSE, closing |-> FALSE, socket |-> 0,
                    outbox |-> << >>, spent |-> 0, board |-> 0]
  BY DEF Init, NoSocket
<1>3. 0 \in Boards /\ 0 \in 0..MaxFailures
  BY RemoteAssumption DEF Boards
<1>4. Wires
  <2>1. sockets \in Seq(Lines(HostFrames, GatewayFrames)) /\ 1..Len(sockets) = {}
    BY <1>1
  <2> QED BY <2>1 DEF Wires, Wired
<1>5. Failures
  <2>1. Len(sockets) = 0
    BY <1>1
  <2> QED BY <1>1, <1>2, <1>3, <2>1 DEF Failures, NoSocket
<1>6. Gateway
  <2>1. << >> \in Seq(HostFrames)
    OBVIOUS
  <2>2. gateway \in GatewayRecords(HostFrames)
    <3> DEFINE record(out) == [revoked |-> FALSE, expired |-> FALSE, closing |-> FALSE,
                               socket |-> 0, outbox |-> out, spent |-> 0, board |-> 0]
    <3>1. \A Q, B : \A out \in Q : 0 \in B =>
            record(out) \in [revoked : BOOLEAN, expired : BOOLEAN, closing : BOOLEAN,
                             socket : Nat, outbox : Q, spent : Nat, board : B]
      OBVIOUS
    <3>2. record(<< >>) \in GatewayRecords(HostFrames)
      BY <1>3, <2>1, <3>1 DEF GatewayRecords
    <3> QED BY <1>2, <3>2
  <2>3. Cardinality({c \in Calls : calls[c].run = "done"}) \in Nat
    BY RemoteAssumption, FS_Subset, FS_CardinalityType
  <2> QED BY <1>2, <2>2, <2>3 DEF Gateway, NoSocket
<1>7. Host
  <2>1. Absent \in [state : States, gateway : 0..0, board : Boards, sinks : SUBSET Conns]
    BY <1>3 DEF Absent, States, NoSocket
  <2>2. Len(sockets) = 0
    BY <1>1
  <2> QED BY <1>1, <2>1, <2>2 DEF Host, Absent
<1>8. Asked
  <2>1. \A c \in Calls : calls[c] = [ui |-> NoConn, told |-> "not asked", run |-> "no"]
    BY DEF Init
  <2>2. [ui |-> NoConn, told |-> "not asked", run |-> "no"] \in CallRecords
    BY DEF CallRecords, Told, Runs
  <2>3. calls \in [Calls -> CallRecords]
    BY <2>2 DEF Init
  <2>4. \A c \in Calls : calls[c].ui = NoConn /\ calls[c].told = "not asked" /\ calls[c].run = "no"
    <3> SUFFICES ASSUME NEW c \in Calls, NEW r, r = calls[c]
                 PROVE  r.ui = NoConn /\ r.told = "not asked" /\ r.run = "no"
      OBVIOUS
    <3>1. r = [ui |-> NoConn, told |-> "not asked", run |-> "no"]
      BY <2>1
    <3> QED BY ONLY <3>1, FieldsOf
  <2> QED BY <2>3, <2>4 DEF Asked, Forwarded
<1>9. Consoles
  <2>1. [at |-> "new", board |-> 0] \in [at : {"new", "open", "closed"}, board : Boards]
    BY <1>3
  <2>2. /\ uis \in [Conns -> [at : {"new", "open", "closed"}, board : Boards]]
        /\ \A u \in Conns : uis[u].at = "new"
    BY <2>1 DEF Init
  <2>3. hosted.sinks = {}
    BY <1>1 DEF Absent
  <2> QED BY <2>2, <2>3 DEF Consoles
<1> QED BY <1>4, <1>5, <1>6, <1>7, <1>8, <1>9 DEF Inductive

LEMMA InductiveNext ==
  ASSUME Inductive, [Next]_vars
  PROVE  Inductive'
<1>1. ASSUME NEW u \in Conns, onUiHello(u) \/ (\E c \in Calls : onUiMessage(u, c)) \/ onUiClose(u)
      PROVE  Inductive'
  BY <1>1, HelloKeeps, MessageKeeps, UiCloseKeeps
<1>2. ASSUME NEW c \in Calls,
             CallTimesOut(c) \/ Ends(c) \/ \E run \in {"done", "failed"} : LateCallEnds(c, run)
      PROVE  Inductive'
  BY <1>2, TimesOutKeeps, CallEndsKeeps, LateCallEndsKeeps DEF Ends
<1>3. ASSUME NEW s \in DOMAIN sockets, HostStep(s)
      PROVE  Inductive'
  BY <1>3, RegisterKeeps, ResultKeeps, BoardPatchKeeps, RevokeKeeps, GatewayCloseKeeps DEF HostStep
<1>4. ASSUME NEW s \in DOMAIN sockets, GatewayStep(s)
      PROVE  Inductive'
  BY <1>4, HandleKeeps, SessionClosedKeeps, OnCloseKeeps DEF GatewayStep
<1>5. ASSUME NEW s \in DOMAIN sockets, Break(s)
      PROVE  Inductive'
  BY <1>5, BreakKeeps
<1>6. CASE ExpiresAtHost \/ reapExpired \/ open \/ pushBoard
  BY <1>6, ExpiresKeeps, ReapKeeps, OpenKeeps, PushBoardKeeps
<1>7. CASE TimePasses \/ shutdown \/ HostRestarts
  BY <1>7, TimePassesKeeps, ShutdownKeeps, HostRestartsKeeps
<1>8. CASE UNCHANGED vars
  <2>1. UNCHANGED <<hosted, routes, sockets, gateway, calls, uis, failures>>
    BY <1>8 DEF vars
  <2>2. Wires' /\ Failures' /\ Gateway' /\ Asked'
    BY <2>1, AsideKeeps, UnchangedIsRetold DEF Aside, Inductive
  <2>3. Host' /\ Consoles'
    BY <2>1 DEF Inductive, Host, Consoles
  <2> QED BY <2>2, <2>3 DEF Inductive
<1> QED BY <1>1, <1>2, <1>3, <1>4, <1>5, <1>6, <1>7, <1>8 DEF Next

THEOREM InductiveInvariant == Spec => []Inductive
BY InductiveInit, InductiveNext, PTL DEF Spec

\* The shape of the session's state at the host, the gateway and the consoles;
\* the consoles bound at the host are the open ones, and a gateway opens one
\* socket more than it loses.
THEOREM TypeCorrect == Spec => []TypeOK
<1>1. Inductive => TypeOK
  <2> SUFFICES ASSUME Inductive
               PROVE  TypeOK
    OBVIOUS
  <2>1. hosted \in [state : States, gateway : 0..MaxSockets, board : 0..MaxBoard, sinks : SUBSET Conns]
    <3>1. Len(sockets) \in Nat /\ Len(sockets) <= MaxSockets
      <4>1. Len(sockets) \in Nat
        BY DEF Inductive, Wires, Wired
      <4> QED BY <4>1, RemoteAssumption DEF Inductive, Failures, MaxSockets
    <3>2. 0..Len(sockets) \subseteq 0..MaxSockets
      BY <3>1, RemoteAssumption DEF MaxSockets
    <3> QED BY <3>2 DEF Inductive, Host, Boards
  <2>2. gateway.spent \in 0..Cap + Cardinality(Calls)
    <3>1. IsFiniteSet(Calls) /\ Done \in SUBSET Calls /\ Cap \in Nat
      BY RemoteAssumption DEF Done
    <3>2. Cardinality(Done) <= Cardinality(Calls) /\ Cardinality(Calls) \in Nat /\ Cardinality(Done) \in Nat
      BY <3>1, FS_Subset, FS_CardinalityType
    <3>3. gateway.spent \in Nat /\ gateway.spent <= Cardinality(Done)
      BY DEF Inductive, Gateway, GatewayRecords, Done
    <3> QED BY <3>1, <3>2, <3>3
  <2>3. calls \in [Calls -> [ui : Conns \cup {NoConn}, told : Told, run : Runs]]
    BY DEF Inductive, Asked, CallRecords
  <2> QED BY <2>1, <2>2, <2>3 DEF Inductive, Host, Asked, Consoles, TypeOK, Boards
<1> QED BY <1>1, InductiveInvariant, PTL

\* A console is told "ok" of a call that was done, and "unavailable" of one the
\* gateway never ran, through any number of reconnects and restarts.
THEOREM ConsolesToldTrue == Spec => []AnswersAreTrue
<1>1. Inductive => AnswersAreTrue
  BY DEF Inductive, Asked, Forwarded, AnswersAreTrue
<1> QED BY <1>1, InductiveInvariant, PTL

-----------------------------------------------------------------------------
(* After the end.                                                          *)

LEMMA HangupRunsNone ==
  ASSUME Asked, NEW us, Hangup(us), NEW d \in Calls
  PROVE  calls'[d].run = calls[d].run
<1>1. calls'[d] = IF calls[d].ui \in us /\ calls[d].told = "pending"
                  THEN [calls[d] EXCEPT !.told = "closed"] ELSE calls[d]
  BY DEF Hangup
<1>2. calls[d] \in CallRecords
  BY DEF Asked
<1>3. [calls[d] EXCEPT !.told = "closed"].run = calls[d].run
  BY <1>2, ToldIs
<1> QED BY <1>1, <1>3

LEMMA TellRunsNone ==
  ASSUME Asked, NEW c, NEW answer, Tell(c, answer), NEW d \in Calls
  PROVE  calls'[d].run = calls[d].run
<1>1. calls[d] \in CallRecords
  BY DEF Asked
<1>2. calls'[d] = IF d = c THEN [calls[d] EXCEPT !.told = answer] ELSE calls[d]
  BY DEF Tell, Asked
<1>3. [calls[d] EXCEPT !.told = answer].run = calls[d].run
  BY <1>1, ToldIs
<1> QED BY <1>2, <1>3

LEMMA RanRunsOne ==
  ASSUME Asked, NEW c, NEW run, Ran(c, run), NEW d \in Calls
  PROVE  calls'[d].run = IF d = c THEN run ELSE calls[d].run
<1>1. calls[d] \in CallRecords
  BY DEF Asked
<1>2. calls'[d] = IF d = c THEN [calls[d] EXCEPT !.run = run] ELSE calls[d]
  BY DEF Ran, Asked
<1>3. [calls[d] EXCEPT !.run = run].run = run
  BY <1>1 DEF CallRecords
<1> QED BY <1>2, <1>3

LEMMA MessageRunsNone ==
  ASSUME Asked, NEW u \in Conns, NEW c \in Calls, onUiMessage(u, c), NEW d \in Calls
  PROVE  calls'[d].run = "running" => calls[d].run = "running"
<1>1. CASE CallTooLate(u, c)
  <2>1. calls'[d] = IF d = c THEN [ui |-> u, told |-> "closed", run |-> "no"]
                    ELSE IF calls[d].ui = u /\ calls[d].told = "pending"
                    THEN [calls[d] EXCEPT !.told = "closed"] ELSE calls[d]
    BY <1>1 DEF CallTooLate
  <2>2. calls[d] \in CallRecords
    BY DEF Asked
  <2>3. [calls[d] EXCEPT !.told = "closed"].run = calls[d].run
    BY <2>2, ToldIs
  <2> QED BY <2>1, <2>3
<1>2. CASE \E told : calls' = [calls EXCEPT ![c] = [ui |-> u, told |-> told, run |-> "no"]]
  <2>1. PICK told : calls' = [calls EXCEPT ![c] = [ui |-> u, told |-> told, run |-> "no"]]
    BY <1>2
  <2>2. calls'[d] = IF d = c THEN [ui |-> u, told |-> told, run |-> "no"] ELSE calls[d]
    BY <2>1 DEF Asked
  <2>3. [ui |-> u, told |-> told, run |-> "no"].run = "no"
    OBVIOUS
  <2> QED BY <2>2, <2>3
<1>3. CallUnavailable(u, c) =>
        calls' = [calls EXCEPT ![c] = [ui |-> u, told |-> "unavailable", run |-> "no"]]
  BY DEF CallUnavailable
<1>4. CallForwarded(u, c) =>
        calls' = [calls EXCEPT ![c] = [ui |-> u, told |-> "pending", run |-> "no"]]
  BY DEF CallForwarded
<1>5. CallTooLate(u, c) \/ CallUnavailable(u, c) \/ CallForwarded(u, c)
  BY DEF onUiMessage
<1> QED BY <1>1, <1>2, <1>3, <1>4, <1>5

\* A call starts to run only when the gateway reads it and authorizes it.
LEMMA OnlyHandledRuns ==
  ASSUME Asked, [Next]_vars, NEW d \in Calls, calls'[d].run = "running", calls[d].run # "running"
  PROVE  authorize
<1>1. ASSUME NEW u \in Conns, onUiHello(u) \/ (\E c \in Calls : onUiMessage(u, c)) \/ onUiClose(u)
      PROVE  FALSE
  BY <1>1, MessageRunsNone, HangupRunsNone DEF onUiHello, onUiClose
<1>2. ASSUME NEW c \in Calls,
             CallTimesOut(c) \/ Ends(c) \/ \E run \in {"done", "failed"} : LateCallEnds(c, run)
      PROVE  FALSE
  <2>1. CASE CallTimesOut(c)
    BY <2>1, TellRunsNone DEF CallTimesOut
  <2>2. CASE \E run \in {"done", "failed", "late"} : Ran(c, run)
    BY <2>2, RanRunsOne
  <2> QED BY <1>2, <2>1, <2>2 DEF Ends, CallEnds, LateCallEnds, Ran
<1>3. ASSUME NEW s \in DOMAIN sockets, HostStep(s)
      PROVE  FALSE
  <2>1. CASE UNCHANGED calls
    BY <2>1
  <2>2. CASE \E us : Hangup(us)
    BY <2>2, HangupRunsNone
  <2>3. CASE \E c, answer : Tell(c, answer)
    BY <2>3, TellRunsNone
  <2>4. onCallResult(s) => (UNCHANGED calls \/ \E c, answer : Tell(c, answer))
    BY DEF onCallResult
  <2>5. onRevoke(s) \/ onGatewayClose(s) => \E us : Hangup(us)
    BY DEF onRevoke, onGatewayClose
  <2>6. registerGateway(s) \/ onBoardPatch(s) => UNCHANGED calls
    BY DEF registerGateway, onBoardPatch
  <2> QED BY <1>3, <2>1, <2>2, <2>3, <2>4, <2>5, <2>6 DEF HostStep
<1>4. ASSUME NEW s \in DOMAIN sockets, GatewayStep(s), ~authorize
      PROVE  FALSE
  <2>1. CASE handleCall(s)
    <3>1. Ran(Head(sockets[s].toGateway).call, "refused")
      BY <1>4, <2>1 DEF handleCall, Ran
    <3> QED BY <3>1, RanRunsOne
  <2>2. CASE onSessionClosed(s) \/ onClose(s)
    BY <2>2 DEF onSessionClosed, onClose
  <2> QED BY <1>4, <2>1, <2>2 DEF GatewayStep
<1>5. ASSUME NEW s \in DOMAIN sockets, Break(s)
      PROVE  FALSE
  BY <1>5 DEF Break
<1>6. CASE ExpiresAtHost \/ reapExpired \/ open \/ pushBoard
  BY <1>6, HangupRunsNone, SMTT(30) DEF ExpiresAtHost, reapExpired, open, pushBoard
<1>7. CASE TimePasses \/ shutdown \/ HostRestarts
  BY <1>7, HangupRunsNone DEF TimePasses, shutdown, HostRestarts
<1>8. CASE UNCHANGED vars
  BY <1>8 DEF vars
<1> QED BY <1>1, <1>2, <1>3, <1>4, <1>5, <1>6, <1>7, <1>8 DEF Next

\* When the host has told the consoles that the session is over, no call starts
\* at the gateway any more, not even one that was on its way: the gateway had
\* revoked the session or it had expired there, and authorize refuses it.
THEOREM NoCallAfterRevoke == Spec => NoCallAfterTheEnd
<1>1. Inductive /\ [Next]_vars =>
        [hosted.state = "revoked" =>
         \A c \in Calls : calls'[c].run = "running" => calls[c].run = "running"]_vars
  <2> SUFFICES ASSUME Inductive, [Next]_vars, hosted.state = "revoked",
                      NEW c \in Calls, calls'[c].run = "running", calls[c].run # "running"
               PROVE  FALSE
    OBVIOUS
  <2>1. authorize
    BY OnlyHandledRuns DEF Inductive
  <2>2. gateway.revoked \/ gateway.expired
    BY DEF Inductive, Host
  <2> QED BY <2>1, <2>2 DEF authorize
<1> QED BY <1>1, InductiveInvariant, PTL DEF Spec, NoCallAfterTheEnd

=============================================================================
