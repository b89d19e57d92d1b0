-------------------------------- MODULE Remote --------------------------------
(***************************************************************************)
(* The remote console: a gateway that holds the seed, consoles (UIs) that  *)
(* call its actions, and the host that relays between them.  One session.  *)
(*                                                                         *)
(* Leg A, gateway to host, is a socket the gateway opens again whenever it *)
(* sees it closed; a socket that breaks loses what is sent into it, and    *)
(* each end learns of it in its own time.  Leg B, console to host, is      *)
(* taken as immediate: what the host sends to a console, or a console to   *)
(* the host, arrives in the same step.  The host keeps sessions in memory  *)
(* only and may restart.                                                   *)
(***************************************************************************)
EXTENDS Integers, Sequences, FiniteSets

CONSTANTS
    Conns,       \* console connections; each has a connId of its own
    Calls,       \* the calls consoles make; each gets a relayCallId of its own
    Cap,         \* spend cap; every call spends 1
    MaxFailures, \* bound: breaks of leg A and restarts of the host
    MaxBoard,    \* bound: board changes
    StaleCloses  \* the close of an old socket may be seen after the next one registered

NoSocket == 0
NoConn == "none"
MaxSockets == MaxFailures + 1

ASSUME RemoteAssumption ==
    /\ NoConn \notin Conns
    /\ IsFiniteSet(Calls)
    /\ {Cap, MaxFailures, MaxBoard} \subseteq Nat
    /\ StaleCloses \in BOOLEAN

VARIABLES
    hosted,   \* the host's session: state, gateway socket, last board, bound UIs
    routes,   \* the host's pending: forwarded calls whose result is awaited
    sockets,  \* leg A: is the line up, does the host hold it open, frames each way
    gateway,  \* the gateway: its session record, current socket, queue and board
    calls,    \* of each call: its UI, what the UI was told, what the gateway did
    uis,      \* of each console: its status and the board it shows
    failures  \* how many there were

vars == <<hosted, routes, sockets, gateway, calls, uis, failures>>

States == {"absent", "live", "expired", "revoked"}
Told == {"not asked", "pending", "ok", "failed", "closed", "unavailable", "timed out"}
Runs == {"no", "refused", "running", "late", "done", "failed"}

Absent == [state |-> "absent", gateway |-> NoSocket, board |-> 0, sinks |-> {}]

Init ==
    /\ hosted = Absent
    /\ routes = {}
    /\ sockets = << >>
    /\ gateway = [revoked |-> FALSE, expired |-> FALSE, closing |-> FALSE,
                  socket |-> NoSocket, outbox |-> << >>, spent |-> 0, board |-> 0]
    /\ calls = [c \in Calls |-> [ui |-> NoConn, told |-> "not asked", run |-> "no"]]
    /\ uis = [u \in Conns |-> [at |-> "new", board |-> 0]]
    /\ failures = 0

-----------------------------------------------------------------------------
(* Frames.                                                                 *)

Register == [type |-> "register"]
Revoke == [type |-> "revoke"]
SessionClosed == [type |-> "session_closed"]
BoardPatch(b) == [type |-> "board_patch", board |-> b]
Call(c) == [type |-> "call", call |-> c]
CallResult(c, ok) == [type |-> "call_result", call |-> c, ok |-> ok]

\* The gateway's sockets, after it sends a frame; queued while there is none.
safeSend(record, frame) ==
    LET s == gateway.socket
    IN  IF s = NoSocket
        THEN /\ gateway' = [record EXCEPT !.outbox = Append(@, frame)]
             /\ UNCHANGED sockets
        ELSE /\ gateway' = record
             /\ sockets' = IF sockets[s].up THEN [sockets EXCEPT ![s].toHost = Append(@, frame)]
                           ELSE sockets

\* session.gateway(frame), if there is a gateway.
ToGateway(socks, frame) ==
    LET s == hosted.gateway
    IN  IF s # NoSocket /\ socks[s].up
        THEN [socks EXCEPT ![s].toGateway = Append(@, frame)]
        ELSE socks

\* The consoles close: each tells its pending calls that the connection did.
Hangup(us) ==
    /\ uis' = [u \in Conns |-> IF u \in us THEN [uis[u] EXCEPT !.at = "closed"] ELSE uis[u]]
    /\ calls' = [c \in Calls |->
         IF calls[c].ui \in us /\ calls[c].told = "pending"
         THEN [calls[c] EXCEPT !.told = "closed"] ELSE calls[c]]

Tell(c, answer) == calls' = [calls EXCEPT ![c].told = answer]

-----------------------------------------------------------------------------
(* The consoles and leg B.                                                 *)

getLive == hosted.state = "live"

\* Redeem, connect and hello: bound, and shown the last board.
onUiHello(u) ==
    /\ uis[u].at = "new"
    /\ getLive
    /\ uis' = [uis EXCEPT ![u] = [at |-> "open", board |-> hosted.board]]
    /\ hosted' = [hosted EXCEPT !.sinks = @ \cup {u}]
    /\ UNCHANGED <<routes, sockets, gateway, calls, failures>>

\* A call on a session that is over closes the console.
CallTooLate(u, c) ==
    /\ ~getLive
    /\ uis' = [uis EXCEPT ![u].at = "closed"]
    /\ calls' = [d \in Calls |->
         IF d = c THEN [ui |-> u, told |-> "closed", run |-> "no"]
         ELSE IF calls[d].ui = u /\ calls[d].told = "pending"
         THEN [calls[d] EXCEPT !.told = "closed"] ELSE calls[d]]
    /\ hosted' = [hosted EXCEPT !.sinks = @ \ {u}]
    /\ UNCHANGED <<routes, sockets>>

CallUnavailable(u, c) ==
    /\ getLive
    /\ hosted.gateway = NoSocket
    /\ calls' = [calls EXCEPT ![c] = [ui |-> u, told |-> "unavailable", run |-> "no"]]
    /\ UNCHANGED <<hosted, routes, sockets, uis>>

CallForwarded(u, c) ==
    /\ getLive
    /\ hosted.gateway # NoSocket
    /\ calls' = [calls EXCEPT ![c] = [ui |-> u, told |-> "pending", run |-> "no"]]
    /\ routes' = routes \cup {c}
    /\ sockets' = ToGateway(sockets, Call(c))
    /\ UNCHANGED <<hosted, uis>>

onUiMessage(u, c) ==
    /\ uis[u].at = "open"
    /\ calls[c].told = "not asked"
    /\ \/ CallTooLate(u, c)
       \/ CallUnavailable(u, c)
       \/ CallForwarded(u, c)
    /\ UNCHANGED <<gateway, failures>>

\* 150 seconds, 30 more than a dispatch may take.
CallTimesOut(c) ==
    /\ calls[c].told = "pending"
    /\ calls[c].run # "running"
    /\ Tell(c, "timed out")
    /\ UNCHANGED <<hosted, routes, sockets, gateway, uis, failures>>

onUiClose(u) ==
    /\ uis[u].at = "open"
    /\ Hangup({u})
    /\ hosted' = [hosted EXCEPT !.sinks = @ \ {u}]
    /\ UNCHANGED <<routes, sockets, gateway, failures>>

-----------------------------------------------------------------------------
(* The host's end of leg A.                                                *)

Arrives(s, type) ==
    /\ sockets[s].atHost
    /\ sockets[s].toHost # << >>
    /\ Head(sockets[s].toHost).type = type

Received(s) == [sockets EXCEPT ![s].toHost = Tail(@)]

\* Mutant: a known session keeps its socket.
RegisteredOnce(s) ==
    IF hosted.state = "absent" THEN [Absent EXCEPT !.state = "live", !.gateway = s] ELSE hosted

\* A known session keeps everything but its socket, also that it is over.
Registered(s) ==
    IF hosted.state = "absent"
    THEN [Absent EXCEPT !.state = "live", !.gateway = s]
    ELSE [hosted EXCEPT !.gateway = s]

registerGateway(s) ==
    /\ Arrives(s, "register")
    /\ ~StaleCloses => \A r \in 1..(s - 1) : ~sockets[r].atHost
    /\ sockets' = Received(s)
    /\ hosted' = Registered(s)
    /\ UNCHANGED <<routes, gateway, calls, uis, failures>>

\* The result goes to the console that called, if it is still there.
onCallResult(s) ==
    LET frame == Head(sockets[s].toHost)
        c     == frame.call
    IN  /\ Arrives(s, "call_result")
        /\ sockets' = Received(s)
        /\ routes' = routes \ {c}
        /\ IF c \in routes /\ calls[c].ui \in hosted.sinks /\ calls[c].told = "pending"
           THEN Tell(c, IF frame.ok THEN "ok" ELSE "failed")
           ELSE UNCHANGED calls
        /\ UNCHANGED <<hosted, gateway, uis, failures>>

onBoardPatch(s) ==
    LET b == Head(sockets[s].toHost).board
    IN  /\ Arrives(s, "board_patch")
        /\ sockets' = Received(s)
        /\ hosted' = IF hosted.state = "absent" THEN hosted ELSE [hosted EXCEPT !.board = b]
        /\ uis' = [u \in Conns |->
             IF u \in hosted.sinks THEN [uis[u] EXCEPT !.board = b] ELSE uis[u]]
        /\ UNCHANGED <<routes, gateway, calls, failures>>

\* Mutant: the consoles stay bound.
ClosedKeepsSinks == [hosted EXCEPT !.state = IF @ = "absent" THEN @ ELSE "revoked"]

\* closeSession: the consoles are told and leave.
Closed == [hosted EXCEPT !.state = IF @ = "absent" THEN @ ELSE "revoked", !.sinks = {}]

onRevoke(s) ==
    /\ Arrives(s, "revoke")
    /\ sockets' = ToGateway(Received(s), SessionClosed)
    /\ hosted' = Closed
    /\ Hangup(hosted.sinks)
    /\ UNCHANGED <<routes, gateway, failures>>

\* Mutant: the consoles are not told.
Dismissed == {}

\* Whom the host tells that the gateway is disconnected; each closes.
Disconnected == hosted.sinks

\* The session forgets its gateway, whichever socket it was that closed.  A
\* socket that the gateway closed is read to its end first.
onGatewayClose(s) ==
    /\ sockets[s].atHost
    /\ ~sockets[s].up
    /\ sockets[s].closed => sockets[s].toHost = << >>
    /\ sockets' = [sockets EXCEPT ![s].atHost = FALSE, ![s].toHost = << >>]
    /\ hosted' = [hosted EXCEPT !.gateway = NoSocket, !.sinks = @ \ Disconnected]
    /\ Hangup(Disconnected)
    /\ UNCHANGED <<routes, gateway, failures>>

\* Mutant: a session without a gateway is not reaped.
ExpiresIfReached == hosted.state = "live" /\ gateway.expired /\ hosted.gateway # NoSocket

\* expiresAt is a whole ttl after the registration, which is after the mint.
Expires == hosted.state = "live" /\ gateway.expired

ExpiresAtHost ==
    /\ Expires
    /\ hosted' = [hosted EXCEPT !.state = "expired"]
    /\ UNCHANGED <<routes, sockets, gateway, calls, uis, failures>>

reapExpired ==
    /\ hosted.state = "expired"
    /\ hosted' = Closed
    /\ sockets' = ToGateway(sockets, SessionClosed)
    /\ Hangup(hosted.sinks)
    /\ UNCHANGED <<routes, gateway, failures>>

-----------------------------------------------------------------------------
(* The gateway.                                                            *)

\* A socket opens with the registration, then what was queued meanwhile.
Reopened == << Register >> \o gateway.outbox

open ==
    /\ gateway.socket = NoSocket
    /\ ~gateway.closing
    /\ sockets' = Append(sockets, [up |-> TRUE, closed |-> FALSE, atHost |-> TRUE,
                                   toHost |-> Reopened, toGateway |-> << >>])
    /\ gateway' = [gateway EXCEPT !.socket = Len(sockets'), !.outbox = << >>]
    /\ UNCHANGED <<hosted, routes, calls, uis, failures>>

onClose(s) ==
    /\ gateway.socket = s
    /\ ~sockets[s].up
    /\ gateway' = [gateway EXCEPT !.socket = NoSocket]
    /\ sockets' = [sockets EXCEPT ![s].toGateway = << >>]
    /\ UNCHANGED <<hosted, routes, calls, uis, failures>>

Reads(s, type) ==
    /\ gateway.socket = s
    /\ sockets[s].toGateway # << >>
    /\ Head(sockets[s].toGateway).type = type

Read(s) == [sockets EXCEPT ![s].toGateway = Tail(@)]

\* Mutant: the end of the session is left to the host.
authorizeByCap == gateway.spent + 1 <= Cap

authorize ==
    /\ ~gateway.revoked
    /\ ~gateway.expired
    /\ gateway.spent + 1 <= Cap

\* handleCall up to its await: refused at once, or dispatched.
handleCall(s) ==
    LET c == Head(sockets[s].toGateway).call
    IN  /\ Reads(s, "call")
        /\ IF authorize
           THEN /\ sockets' = Read(s)
                /\ calls' = [calls EXCEPT ![c].run = "running"]
           ELSE /\ sockets' = IF sockets[s].up
                              THEN [Read(s) EXCEPT ![s].toHost = Append(@, CallResult(c, FALSE))]
                              ELSE Read(s)
                /\ calls' = [calls EXCEPT ![c].run = "refused"]
        /\ UNCHANGED <<hosted, routes, gateway, uis, failures>>

onSessionClosed(s) ==
    /\ Reads(s, "session_closed")
    /\ sockets' = Read(s)
    /\ gateway' = [gateway EXCEPT !.revoked = TRUE]
    /\ UNCHANGED <<hosted, routes, calls, uis, failures>>

\* Mutant: a call that timed out counts as done.
AnswerOfLate(run) == run # "failed"

AnswerOf(run) == run = "done"

\* handleCall after its await: the bridge call succeeded, failed, or took
\* longer than 120 seconds and goes on by itself, never to be committed.
CallEnds(c, run) ==
    /\ calls[c].run = "running"
    /\ calls' = [calls EXCEPT ![c].run = run]
    /\ safeSend([gateway EXCEPT !.spent = IF run = "done" THEN @ + 1 ELSE @],
                CallResult(c, AnswerOf(run)))
    /\ UNCHANGED <<hosted, routes, uis, failures>>

LateCallEnds(c, run) ==
    /\ calls[c].run = "late"
    /\ calls' = [calls EXCEPT ![c].run = run]
    /\ UNCHANGED <<hosted, routes, sockets, gateway, uis, failures>>

pushBoard ==
    /\ ~gateway.closing
    /\ gateway.board < MaxBoard
    /\ safeSend([gateway EXCEPT !.board = @ + 1], BoardPatch(gateway.board + 1))
    /\ UNCHANGED <<hosted, routes, calls, uis, failures>>

TimePasses ==
    /\ ~gateway.expired
    /\ gateway' = [gateway EXCEPT !.expired = TRUE]
    /\ UNCHANGED <<hosted, routes, sockets, calls, uis, failures>>

\* The operator ends the session, or the three-second timer finds it over:
\* revoked here, revoked at the host if there is a socket, and closed.
shutdown ==
    LET s == gateway.socket
    IN  /\ ~gateway.closing
        /\ gateway' = [gateway EXCEPT !.revoked = TRUE, !.closing = TRUE, !.socket = NoSocket]
        /\ sockets' =
             IF s = NoSocket THEN sockets
             ELSE IF ~sockets[s].up THEN [sockets EXCEPT ![s].toGateway = << >>]
             ELSE [sockets EXCEPT ![s].up = FALSE, ![s].closed = TRUE, ![s].toGateway = << >>,
                                  ![s].toHost = Append(@, Revoke)]
        /\ UNCHANGED <<hosted, routes, calls, uis, failures>>

-----------------------------------------------------------------------------
(* Failures.                                                               *)

Break(s) ==
    /\ sockets[s].up
    /\ failures < MaxFailures
    /\ sockets' = [sockets EXCEPT ![s].up = FALSE]
    /\ failures' = failures + 1
    /\ UNCHANGED <<hosted, routes, gateway, calls, uis>>

HostRestarts ==
    /\ failures < MaxFailures
    /\ failures' = failures + 1
    /\ hosted' = Absent
    /\ routes' = {}
    /\ sockets' = [s \in DOMAIN sockets |->
         [sockets[s] EXCEPT !.up = FALSE, !.atHost = FALSE, !.toHost = << >>]]
    /\ Hangup({u \in Conns : uis[u].at = "open"})
    /\ UNCHANGED gateway

HostStep(s) ==
    \/ registerGateway(s)
    \/ onCallResult(s)
    \/ onBoardPatch(s)
    \/ onRevoke(s)
    \/ onGatewayClose(s)

GatewayStep(s) ==
    \/ handleCall(s)
    \/ onSessionClosed(s)
    \/ onClose(s)

Ends(c) == \E run \in {"done", "failed", "late"} : CallEnds(c, run)

Next ==
    \/ \E u \in Conns :
         \/ onUiHello(u)
         \/ \E c \in Calls : onUiMessage(u, c)
         \/ onUiClose(u)
    \/ \E c \in Calls :
         \/ CallTimesOut(c)
         \/ Ends(c)
         \/ \E run \in {"done", "failed"} : LateCallEnds(c, run)
    \/ \E s \in DOMAIN sockets :
         \/ HostStep(s)
         \/ GatewayStep(s)
         \/ Break(s)
    \/ ExpiresAtHost
    \/ reapExpired
    \/ open
    \/ pushBoard
    \/ TimePasses
    \/ shutdown
    \/ HostRestarts

Spec == Init /\ [][Next]_vars

\* Frames arrive and closes are seen, the gateway reconnects, dispatches end
\* or time out, a session that is over is shut down and reaped.  A session
\* need not be over, and a console need not give up on a call by itself.
FairSpec ==
    /\ Spec
    /\ \A s \in 1..MaxSockets :
         /\ WF_vars(s \in DOMAIN sockets /\ HostStep(s))
         /\ WF_vars(s \in DOMAIN sockets /\ GatewayStep(s))
    /\ \A c \in Calls : WF_vars(Ends(c))
    /\ WF_vars(open)
    /\ WF_vars((gateway.revoked \/ gateway.expired) /\ shutdown)
    /\ WF_vars(gateway.closing /\ TimePasses)
    /\ WF_vars(ExpiresAtHost)
    /\ WF_vars(reapExpired)
-----------------------------------------------------------------------------
(* Properties.                                                             *)

\* The shape of the state; a call has a console once it is made, and the
\* consoles bound at the host are the open ones.
TypeOK ==
    /\ hosted \in [state : States, gateway : 0..MaxSockets, board : 0..MaxBoard,
                   sinks : SUBSET Conns]
    /\ routes \subseteq Calls
    /\ gateway.spent \in 0..Cap + Cardinality(Calls)
    /\ calls \in [Calls -> [ui : Conns \cup {NoConn}, told : Told, run : Runs]]
    /\ \A c \in Calls : calls[c].ui = NoConn <=> calls[c].told = "not asked"
    /\ uis \in [Conns -> [at : {"new", "open", "closed"}, board : 0..MaxBoard]]
    /\ hosted.sinks = {u \in Conns : uis[u].at = "open"}

\* What a console is told of a call is what became of it at the gateway,
\* through reconnects and restarts: "ok" of a call that was done, and a plain
\* refusal by the host only of a call the gateway never ran.
AnswersAreTrue == \A c \in Calls :
    /\ calls[c].told = "ok" => calls[c].run = "done"
    /\ calls[c].told = "unavailable" => calls[c].run = "no"

\* When the consoles have been told that the session is over, no call starts
\* at the gateway any more, not even one that was on its way.
NoCallAfterTheEnd ==
    [][hosted.state = "revoked" =>
       \A c \in Calls : calls'[c].run = "running" => calls[c].run = "running"]_vars

\* Every call is answered in the end, without the console's own timer, however
\* leg A breaks and comes back while it is under way.
CallsAreAnswered == \A c \in Calls :
    (calls[c].told = "pending") ~> (calls[c].told # "pending")

\* A gateway that reconnects is reached again ("re-sent on every (re)connect",
\* cli/src/gateway/remote/wss-client.ts:56): when leg A stays up, the host
\* forwards to the gateway's socket or the session is over.
ReachedAgain == <>[](\/ gateway.closing
                     \/ gateway.socket # NoSocket /\ hosted.gateway = gateway.socket)

\* Once the gateway has ended its session no console stays, even if the host
\* missed the revoke.
EndIsTold == gateway.closing ~> [](\A u \in Conns : uis[u].at # "open")

\* The calls of a session spend no more than its cap (session/registry.ts:196).
CapHolds == Cardinality({c \in Calls : calls[c].run = "done"}) <= Cap
=============================================================================
