------------------------------ MODULE ObserveRun ------------------------------
(***************************************************************************)
(* The observe runtime (packages/observe/src/run): the observations of one *)
(* run share a control bus and its board; each has a worker fiber that     *)
(* pumps frames from its source to its sink, one supervisor turn at a      *)
(* time, obeying the stop and pause requests it reads from the board.      *)
(*                                                                         *)
(* A turn is two steps, beginTurn and endTurn, because it awaits the       *)
(* source, the sink and the pause controls between reading the board and   *)
(* writing its snapshot back: control calls fall in between.  Everything   *)
(* between two awaits is one step, as fibers are scheduled cooperatively.  *)
(***************************************************************************)
EXTENDS Integers, Sequences, FiniteSets

CONSTANTS
    Obs,            \* the observations of the run
    SinkOf,         \* the stage cell each observation publishes to
    MaxIdle,        \* maxTurns: the idle-turn budget
    Window,         \* maxUnconsumedVideoFrames
    MaxFrames,      \* bound: frames a source has
    MaxCalls,       \* bound: prepare, pause, resume and stop calls, and failed prepares
    MaxStarts       \* bound: starts

Sinks == {SinkOf[o] : o \in Obs}
None == "none"

ASSUME ObserveAssumption ==
    /\ None \notin Obs
    /\ DOMAIN SinkOf = Obs
    /\ MaxIdle \in Nat \ {0} /\ Window \in Nat \ {0}
    /\ MaxFrames \in Nat /\ MaxCalls \in Nat /\ MaxStarts \in Nat

VARIABLES
    cell,       \* the run and pause cells of each observation on the board
    mounted,    \* the sink stage cells on the board
    facts,      \* their readonly facts: deliveredItems and finalized
    capture,    \* the capture cell's readonly eosAppended
    wake,       \* the bus's wakeWorker: whose boardWake it notifies
    worker,     \* the worker of each observation with its boardWake
    calls, starts   \* what the bounds count

vars == <<cell, mounted, facts, capture, wake, worker, calls, starts>>

Terminal == {"stopped", "failed"}
\* A turn never ends in "pausing", "resuming" or "stopping".
Lifecycles == Terminal \cup {"running", "paused", "draining"}
Statuses == Lifecycles \cup {"created", "preparing", "prepared", "starting"}

\* What a worker's track holds besides video frames.
Markers == {"pauseStart", "pauseEnd", "eos"}

\* pc: where the fiber is.  "busy" is inside a turn, "nap" the race of the
\* wake with a short sleep, "parked" the wait of a paused worker.
Attended == {"turn", "busy", "nap", "parked"}
Places == Attended \cup {"none", "launching", "done"}

Live(o) == worker[o].pc \in Attended \cup {"launching"}

NoView == [stop |-> FALSE, pause |-> FALSE, sinks |-> {}]

\* track is every item the worker appended, by sequence number; items are the
\* sequence numbers its sink has still to read, delivered those it was handed.
NewWorker == [pc |-> "none", lifecycle |-> "running", view |-> NoView,
              idle |-> 0, worked |-> FALSE, pending |-> 0, waiter |-> FALSE,
              track |-> << >>, items |-> << >>, delivered |-> << >>,
              ended |-> FALSE, drained |-> FALSE, count |-> 0,
              finalized |-> FALSE, cycle |-> FALSE, stalledIn |-> "none"]

Init ==
    /\ cell = [o \in Obs |-> [status |-> "created", prepared |-> FALSE,
                              stop |-> FALSE, pause |-> FALSE]]
    /\ mounted = {}
    /\ facts = [s \in Sinks |-> [count |-> 0, finalized |-> FALSE]]
    /\ capture = FALSE
    /\ wake = None
    /\ worker = [o \in Obs |-> NewWorker]
    /\ calls = 0
    /\ starts = 0

-----------------------------------------------------------------------------
(* boardWake.  A notify resolves the registered waiter, which may belong   *)
(* to a nap that is long over, or else is counted for the next wait.       *)

Notified(w, n) ==
    IF n = 0 \/ w.pc \notin Attended THEN w
    ELSE IF w.waiter
    THEN [w EXCEPT !.waiter = FALSE, !.pending = @ + n - 1,
                   !.pc = IF @ \in {"nap", "parked"} THEN "turn" ELSE @]
    ELSE [w EXCEPT !.pending = @ + n]

\* Mutant: a wait forgets the wakes that came before it.
WaitingForgets(w, pc) == [w EXCEPT !.waiter = TRUE, !.pc = pc]

\* A wait returns at once while wakes are pending.
Waiting(w, pc) ==
    IF w.pending > 0 THEN [w EXCEPT !.pending = @ - 1, !.pc = "turn"]
    ELSE [w EXCEPT !.waiter = TRUE, !.pc = pc]

\* n board changes reach the one worker the bus knows.
WithWakes(workers, n) ==
    IF wake = None THEN workers ELSE [workers EXCEPT ![wake] = Notified(@, n)]

-----------------------------------------------------------------------------
(* The control calls.                                                      *)

\* Prepare mounts the sink's stage cell and commits "preparing", the sink's
\* configured mark and "prepared"; the runtime refuses it for an active run.
\* Bound: what was prepared is prepared again after it has run or broken off.
prepare(o) ==
    /\ ~Live(o)
    /\ ~cell[o].prepared \/ worker[o].pc = "done" \/ cell[o].status = "preparing"
    /\ cell' = [cell EXCEPT ![o].status = "prepared", ![o].prepared = TRUE]
    /\ mounted' = mounted \cup {SinkOf[o]}
    /\ worker' = WithWakes([worker EXCEPT ![o].pc = "none"],
                           IF SinkOf[o] \in mounted THEN 2 ELSE 3)
    /\ UNCHANGED <<facts, capture, wake, calls, starts>>

\* Prepare breaks off after its first commit, before or after it has mounted
\* the sink.
prepareFails(o) ==
    /\ ~Live(o)
    /\ ~cell[o].prepared \/ worker[o].pc = "done" \/ cell[o].status = "preparing"
    /\ calls < MaxCalls
    /\ calls' = calls + 1
    /\ cell' = [cell EXCEPT ![o].status = "preparing"]
    /\ \E sinks \in {{}, {SinkOf[o]}} :
          /\ mounted' = mounted \cup sinks
          /\ worker' = WithWakes([worker EXCEPT ![o].pc = "none"],
                                 IF sinks \subseteq mounted THEN 1 ELSE 2)
    /\ UNCHANGED <<facts, capture, wake, starts>>

\* The control call finds a prepared run in the store, active or not, and
\* writes "prepared" over its status.  Of a run not prepared yet it is
\* prepare, or prepareFails, before that.
prepareByCall(o) ==
    /\ cell[o].prepared
    /\ calls < MaxCalls
    /\ calls' = calls + 1
    /\ cell' = [cell EXCEPT ![o].status = "prepared"]
    /\ worker' = WithWakes(worker, 1)
    /\ UNCHANGED <<mounted, facts, capture, wake, starts>>

\* A stale stop request is consumed before the fiber is forked.  Only the
\* control call, not the runtime's own startRun, writes "starting" itself.
start(o, byCall) ==
    /\ ~Live(o)
    /\ cell[o].prepared
    /\ starts < MaxStarts
    /\ starts' = starts + 1
    /\ cell' = [cell EXCEPT ![o].stop = FALSE,
                            ![o].status = IF byCall THEN "starting" ELSE @]
    /\ worker' = WithWakes([worker EXCEPT ![o] = [NewWorker EXCEPT !.pc = "launching"]],
                           (IF cell[o].stop THEN 1 ELSE 0) + (IF byCall THEN 1 ELSE 0))
    /\ UNCHANGED <<mounted, facts, capture, wake, calls>>

\* The forked fiber: commits "starting", attaches the sink, registers its
\* wake and checks that its sinks are those of the board.
launch(o) ==
    /\ worker[o].pc = "launching"
    /\ mounted \subseteq {SinkOf[o]}
    /\ wake' = o
    /\ worker' = [WithWakes(worker, 1) EXCEPT ![o].pc = "turn"]
    /\ cell' = [cell EXCEPT ![o].status = "starting"]
    /\ UNCHANGED <<mounted, facts, capture, calls, starts>>

\* A sink the worker does not own is on the board: the prepared worker fails
\* its check after it has registered its wake, and the watcher writes "failed".
launchRefused(o) ==
    /\ worker[o].pc = "launching"
    /\ ~(mounted \subseteq {SinkOf[o]})
    /\ wake' = o
    /\ worker' = [WithWakes(worker, 1) EXCEPT ![o].pc = "done"]
    /\ cell' = [cell EXCEPT ![o].status = "failed"]
    /\ UNCHANGED <<mounted, facts, capture, calls, starts>>

\* A request that is already on the board patches nothing and wakes nobody.
Request(o, field, value) ==
    /\ calls < MaxCalls
    /\ calls' = calls + 1
    /\ cell[o][field] # value
    /\ cell' = [cell EXCEPT ![o][field] = value]
    /\ worker' = WithWakes(worker, 1)
    /\ UNCHANGED <<mounted, facts, capture, wake, starts>>

pause(o)  == Request(o, "pause", TRUE)
resume(o) == Request(o, "pause", FALSE)
stop(o)   == Request(o, "stop", TRUE)

\* The fiber ends without a snapshot and "failed" is written for it: stopRun
\* gave up waiting and interrupted it.
stopTimeout(o) ==
    /\ Live(o) /\ cell[o].stop
    /\ worker' = WithWakes([worker EXCEPT ![o].pc = "done"], 1)
    /\ cell' = [cell EXCEPT ![o].status = "failed"]
    /\ UNCHANGED <<mounted, facts, capture, wake, calls, starts>>

\* The same when the source or the sink fails the fiber in a turn or before.
die(o) ==
    /\ worker[o].pc \in {"launching", "busy"}
    /\ worker' = WithWakes([worker EXCEPT ![o].pc = "done"], 1)
    /\ cell' = [cell EXCEPT ![o].status = "failed"]
    /\ UNCHANGED <<mounted, facts, capture, wake, calls, starts>>

-----------------------------------------------------------------------------
(* The supervisor turn, from worker to worker.                             *)

Kind(w, i) == w.track[i]
Videos(w) == {i \in 1..Len(w.items) : Kind(w, w.items[i]) = "video"}

\* Mutant: the oldest item of any kind is dropped.
OldestItem(w) == 1

\* Latest frame wins: what the window drops is the oldest video frame.
Oldest(w) == CHOOSE i \in Videos(w) : \A j \in Videos(w) : i <= j

WithoutItem(s, i) == [j \in 1..Len(s) - 1 |-> IF j < i THEN s[j] ELSE s[j + 1]]

Windowed(w) ==
    IF Cardinality(Videos(w)) <= Window THEN w
    ELSE [w EXCEPT !.items = WithoutItem(@, Oldest(w))]

Appended(w, kind) ==
    [w EXCEPT !.track = Append(@, kind), !.items = Append(@, Len(w.track) + 1),
              !.worked = TRUE]

\* Ensured before a stop drains; no progress by itself.
Ended(w) ==
    IF w.ended THEN w ELSE [Appended(w, "eos") EXCEPT !.ended = TRUE, !.worked = w.worked]

Shown(w, kind) == {i \in DOMAIN w.track : w.track[i] = kind}

\* The source hands a frame or says that it is exhausted.
Captured(w) ==
    IF w.ended THEN {w}
    ELSE {[Appended(w, "eos") EXCEPT !.ended = TRUE]} \cup
         IF Cardinality(Shown(w, "video")) < MaxFrames
         THEN {Windowed(Appended(w, "video"))} ELSE {}

\* One item to the sink.
Pumped(w) ==
    IF w.finalized \/ w.items = << >> THEN w
    ELSE LET i == Head(w.items)
         IN  [w EXCEPT !.items = Tail(@), !.delivered = Append(@, i),
                       !.drained = @ \/ Kind(w, i) = "eos",
                       !.count = @ + IF Kind(w, i) = "video" THEN 1 ELSE 0,
                       !.worked = TRUE]

Finalized(w) ==
    IF w.finalized \/ ~w.drained THEN w ELSE [w EXCEPT !.finalized = TRUE, !.worked = TRUE]

\* Every sink on the board, in the order of its turn's view, is this
\* worker's own and finalized.
AllFinalized(o, w) == w.view.sinks \subseteq {SinkOf[o]} /\ w.finalized

Drained(o, w) ==
    LET d == Finalized(Pumped(w))
    IN  IF AllFinalized(o, d) THEN [d EXCEPT !.lifecycle = "stopped"] ELSE d

Paused(w) ==
    IF w.cycle THEN [w EXCEPT !.lifecycle = "paused"]
    ELSE [Appended(w, "pauseStart") EXCEPT !.cycle = TRUE, !.lifecycle = "paused"]

\* Mutants: no marker ends the pause; the worker waits for a turn to resume.
ResumedSilently(w) == [w EXCEPT !.cycle = FALSE, !.lifecycle = "running"]
ResumedLater(w) == [Appended(w, "pauseEnd") EXCEPT !.cycle = FALSE, !.lifecycle = "resuming"]

Resumed(w) == [Appended(w, "pauseEnd") EXCEPT !.cycle = FALSE, !.lifecycle = "running"]

\* Mutant: a paused worker is not stopped.
PromotedRunningOnly(w) ==
    CASE w.view.stop /\ w.lifecycle = "running" -> "stopping"
      [] ~w.view.stop /\ w.lifecycle = "running" /\ w.view.pause -> "pausing"
      [] ~w.view.stop /\ w.lifecycle = "paused" /\ ~w.view.pause -> "resuming"
      [] OTHER -> w.lifecycle

\* promoteStop, then promotePause and promoteResume.
Promoted(w) ==
    CASE w.view.stop /\ w.lifecycle \in {"running", "paused"} -> "stopping"
      [] ~w.view.stop /\ w.lifecycle = "running" /\ w.view.pause -> "pausing"
      [] ~w.view.stop /\ w.lifecycle = "paused" /\ ~w.view.pause -> "resuming"
      [] OTHER -> w.lifecycle

\* A running turn that has seen the end goes on to drain.
Ran(w) == IF w.ended THEN [w EXCEPT !.lifecycle = "draining"] ELSE w

Body(o, w) ==
    CASE Promoted(w) = "stopping" -> {Pumped([Ended(w) EXCEPT !.lifecycle = "draining"])}
      [] Promoted(w) = "draining" -> {Drained(o, w)}
      [] Promoted(w) = "running"  -> {Ran(Pumped(c)) : c \in Captured(w)}
      [] Promoted(w) = "pausing"  -> {Paused(w)}
      [] Promoted(w) = "resuming" -> {Resumed(w)}
      [] OTHER                    -> {w}

\* Pause controls and the health check that closes a turn may fail the worker.
Outcomes(o, w) == Body(o, w) \cup {[t EXCEPT !.lifecycle = "failed"] : t \in Body(o, w)}

beginTurn(o) ==
    /\ worker[o].pc = "turn"
    /\ worker' = [worker EXCEPT ![o].pc = "busy", ![o].worked = FALSE,
                      ![o].view = [stop |-> cell[o].stop, pause |-> cell[o].pause,
                                   sinks |-> mounted]]
    /\ UNCHANGED <<cell, mounted, facts, capture, wake, calls, starts>>

\* Mutant: the last status is left to whoever awaits the run.
StatusLeftOpen(old, lifecycle) == IF lifecycle \in Terminal THEN old ELSE lifecycle

\* Only another terminal status replaces a terminal status.
StatusFrom(old, lifecycle) ==
    IF old \in Terminal /\ lifecycle \notin Terminal THEN old ELSE lifecycle

Facts(w) == [count |-> w.count, finalized |-> w.finalized]

\* After the commit: stop, stall, wait for a call, nap, or go on.
Onward(w) ==
    CASE w.lifecycle \in Terminal -> [w EXCEPT !.pc = "done"]
      [] w.lifecycle = "paused" -> Waiting(w, "parked")
      [] w.lifecycle \notin Terminal \cup {"paused"} /\ ~w.worked -> Waiting(w, "nap")
      [] OTHER -> [w EXCEPT !.pc = "turn"]

\* Mutants: the budget counts every turn; it spares a worker that drains.
CountedAll(w) == [w EXCEPT !.idle = @ + 1]
CountedUnlessDraining(w) ==
    [w EXCEPT !.idle = IF w.worked \/ w.lifecycle = "draining" THEN 0 ELSE @ + 1]

\* Only turns without progress count against the budget.
Counted(w) == [w EXCEPT !.idle = IF w.worked THEN 0 ELSE @ + 1]

\* The rest of the turn: the work, the snapshot and what the loop does next.
\* A stalled worker commits once more, as failed.
endTurn(o) ==
    /\ worker[o].pc = "busy"
    /\ \E t \in {Counted(u) : u \in Outcomes(o, worker[o])} :
          LET stalled == t.lifecycle \notin Terminal /\ t.idle >= MaxIdle
              end == IF stalled
                     THEN [t EXCEPT !.lifecycle = "failed", !.stalledIn = t.lifecycle]
                     ELSE t
              status == StatusFrom(cell[o].status, t.lifecycle)
              changed == \/ status # cell[o].status
                         \/ facts[SinkOf[o]] # Facts(t)
                         \/ capture # t.ended
              commits == (IF changed THEN 1 ELSE 0)
                         + (IF stalled /\ status # "failed" THEN 1 ELSE 0)
              woken == WithWakes([worker EXCEPT ![o] = end], commits)
          IN  /\ worker' = [woken EXCEPT ![o] = Onward(@)]
              /\ cell' = [cell EXCEPT ![o].status = StatusFrom(status, end.lifecycle)]
              /\ facts' = [facts EXCEPT ![SinkOf[o]] = Facts(t)]
              /\ capture' = t.ended
    /\ UNCHANGED <<mounted, wake, calls, starts>>

\* The sleep wins the race; the waiter it raced against stays registered.
napOver(o) ==
    /\ worker[o].pc = "nap"
    /\ worker' = [worker EXCEPT ![o].pc = "turn"]
    /\ UNCHANGED <<cell, mounted, facts, capture, wake, calls, starts>>

Next == \E o \in Obs :
    \/ prepare(o) \/ prepareFails(o) \/ prepareByCall(o)
    \/ start(o, TRUE) \/ start(o, FALSE) \/ launch(o) \/ launchRefused(o)
    \/ pause(o) \/ resume(o) \/ stop(o) \/ stopTimeout(o)
    \/ beginTurn(o) \/ endTurn(o) \/ die(o) \/ napOver(o)

Spec == Init /\ [][Next]_vars

\* Fibers are scheduled, sleeps end, and sources and sinks answer.
Fairness == \A o \in Obs :
    /\ WF_vars(launch(o)) /\ WF_vars(launchRefused(o))
    /\ WF_vars(beginTurn(o)) /\ WF_vars(endTurn(o)) /\ WF_vars(napOver(o))

FairSpec == Spec /\ Fairness

-----------------------------------------------------------------------------
(* Properties.                                                             *)

Views == [stop : BOOLEAN, pause : BOOLEAN, sinks : SUBSET Sinks]

Workers == [pc : Places, lifecycle : Lifecycles, view : Views,
            idle : 0..MaxIdle, worked : BOOLEAN, pending : Nat, waiter : BOOLEAN,
            track : Seq(Markers \cup {"video"}), items : Seq(Nat), delivered : Seq(Nat),
            ended : BOOLEAN, drained : BOOLEAN, count : Nat, finalized : BOOLEAN,
            cycle : BOOLEAN, stalledIn : Lifecycles \cup {"none"}]

\* Every variable keeps its type: no turn ends in a passing lifecycle, so none
\* reaches the board, and the idle count never passes its budget (worker.ts).
TypeOK ==
    /\ cell \in [Obs -> [status : Statuses, prepared : BOOLEAN,
                         stop : BOOLEAN, pause : BOOLEAN]]
    /\ mounted \subseteq Sinks
    /\ facts \in [Sinks -> [count : Nat, finalized : BOOLEAN]]
    /\ capture \in BOOLEAN
    /\ wake \in Obs \cup {None}
    /\ worker \in [Obs -> Workers]
    /\ calls \in 0..MaxCalls
    /\ starts \in 0..MaxStarts

\* The board never disagrees with the worker about whether the run is over: a
\* live worker's cell is not terminal, and a cell that shows a running worker
\* has one (the watcher of kernel.ts: a run that dies must say so on the
\* board, or its cell sits at "starting" forever).  What a raw prepare writes
\* over it lasts until the next turn of a worker that the bus wakes.
BoardKnowsTheWorker == \A o \in Obs :
    /\ worker[o].pc \in Attended => cell[o].status \notin Terminal
    /\ worker[o].pc = "done" => cell[o].status \in Terminal \cup {"prepared"}
    /\ worker[o].pc \in {"nap", "parked"} =>
          \/ cell[o].status = worker[o].lifecycle
          \/ wake # o /\ cell[o].status = "prepared"

\* Whatever the window drops, pauses and stops insert: the sink is handed
\* items in the order they were appended, none twice, no marker is lost, the
\* end comes once and last, and a sink is finalized only after the end.
MarkersArrive == \A o \in Obs :
    LET w == worker[o]
        n == Len(w.track)
        m == Len(w.delivered)
    IN  /\ \A i, j \in 1..m : i < j => w.delivered[i] < w.delivered[j]
        /\ \A i \in 1..n : w.track[i] = "eos" <=> i = n /\ w.ended
        /\ w.finalized =>
              \A i \in 1..n : w.track[i] \in Markers => \E j \in 1..m : w.delivered[j] = i

\* The markers bracket the silence: a pause starts and ends in turn, and no
\* frame is appended in between (pause markers, lifecycle.ts).
QuietWhilePaused == \A o \in Obs :
    LET t == worker[o].track
    IN  /\ \A i \in 1..Len(t) :
              t[i] = "pauseStart" /\ i < Len(t) => t[i + 1] \in {"pauseEnd", "eos"}
        /\ \A i \in 1..Len(t) : t[i] = "pauseEnd" => i > 1 /\ t[i - 1] = "pauseStart"

\* A worker parked in a pause has seen the latest call: no wake was lost
\* between reading the board and waiting, as long as the bus knows this worker.
NoLostWake == \A o \in Obs :
    worker[o].pc = "parked" /\ wake = o => cell[o].pause /\ ~cell[o].stop

\* The budget measures liveness, not content length: a run that is killed as
\* stalled was not pumping frames (comment O1 of worker.ts).
ProgressIsNoStall == \A o \in Obs : worker[o].stalledIn # "running"

\* As long as no other observation takes over the bus's wake, a stop request
\* ends the run, whatever it was doing.
StopEnds == \A o \in Obs :
    [](wake \in {None, o}) => (Live(o) /\ cell[o].stop ~> ~Live(o))

\* ... and a resume gets a paused worker going, unless it is paused again.
ResumeObeyed == \A o \in Obs :
    [](wake \in {None, o}) =>
        (worker[o].lifecycle = "paused" /\ Live(o) /\ ~cell[o].pause
            ~> worker[o].lifecycle # "paused" \/ ~Live(o) \/ cell[o].pause)

\* A run that drains is over in the end, whoever holds the bus's wake and
\* whatever sinks its siblings have mounted: naps end and the budget bounds them.
DrainEnds == \A o \in Obs : worker[o].lifecycle = "draining" /\ Live(o) ~> ~Live(o)

-----------------------------------------------------------------------------
(* What comments of the code say, and the code does not do.                *)

\* runtime.ts: other observations' runs are untouched.  A paused worker wakes
\* to every call on its own cells, whichever other runs were started.
NoWorkerSleepsThroughACall == \A o \in Obs :
    worker[o].pc = "parked" => cell[o].pause /\ ~cell[o].stop

\* worker.ts: only a genuinely stalled run is terminated by the budget.  A run
\* that waits for its operator to resume it is not stalled.
WaitingIsNoStall == \A o \in Obs : worker[o].stalledIn # "paused"

\* runtime.ts again: a run that drains ends, whatever sinks others mounted.
DrainingIsNoStall == \A o \in Obs : worker[o].stalledIn # "draining"
=============================================================================
