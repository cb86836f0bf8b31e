----------------------------- MODULE Supervisor -----------------------------
(***************************************************************************)
(* One supervised backend of internal/supervise/supervisor.go: the requests*)
(* that boot it, the health gate and the Wait goroutine of every start, the*)
(* idle sweep, Stop from the API, and the operating-system processes.      *)
(*                                                                         *)
(* Start attempts are numbered.  Attempt n makes channel n (p.ready) and,  *)
(* if the command can be started, process n with its gate n and its Wait   *)
(* goroutine n.  A section under p.mu is one step.  Ensure on a running,   *)
(* starting or still parked backend and the wait for a channel change      *)
(* nothing here, so any number of requests may wait without being named.   *)
(* Ports, logs and health paths are left out: the port is sticky, so       *)
(* whichever process listens on it answers every gate's probe.             *)
(* The usual names begin with an S, so that the proofs about the workers of*)
(* the daemon can extend this module and Observation.                      *)
(***************************************************************************)
EXTENDS Naturals

CONSTANTS CrashThreshold,
          MaxStarts      \* bound: start attempts

ASSUME ThresholdAssumption == CrashThreshold \in Nat \ {0}
ASSUME StartsAssumption == MaxStarts \in Nat

VARIABLES
    state,      \* p.state
    cmd,        \* p.cmd: number of the process it points to, 0 for nil
    ready,      \* p.ready: number of the channel
    attempts,   \* start attempts so far
    failures,   \* len(p.failures), as far as the threshold
    closed,     \* channels that are closed
    proc,       \* the operating-system process of each attempt
    task,       \* where each attempt is: m.start, then its health gate
    panicked    \* a closed channel was closed again

svars == <<state, cmd, ready, attempts, failures, closed, proc, task, panicked>>

Starts == 1..MaxStarts

\* ch: the channel the gate read from p.ready.
NoTask == [pc |-> "none", ch |-> 0]
Tasks  == [pc : {"none", "start", "attach", "spawned", "poll", "probe", "healthy", "done"}, ch : Nat]

\* "signalled": told to stop, by Stop or the sweep, and still alive.
ProcStates == {"none", "up", "signalled", "exited", "reaped"}

STypeOK ==
    /\ state \in {"stopped", "starting", "running", "parked"}
    /\ attempts \in 0..MaxStarts
    /\ cmd \in 0..attempts /\ ready \in 0..attempts
    /\ failures \in 0..CrashThreshold
    /\ closed \subseteq 1..attempts
    /\ proc \in [Starts -> ProcStates]
    /\ task \in [Starts -> Tasks]
    /\ panicked \in BOOLEAN

SInit ==
    /\ state = "stopped" /\ cmd = 0 /\ ready = 0 /\ attempts = 0 /\ failures = 0
    /\ closed = {}
    /\ proc = [n \in Starts |-> "none"]
    /\ task = [n \in Starts |-> NoTask]
    /\ panicked = FALSE

-----------------------------------------------------------------------------
\* recordFailure: failures older than the window are forgotten, one is added.
RecordFailure ==
    \E kept \in 0..failures :
        failures' = IF kept < CrashThreshold THEN kept + 1 ELSE CrashThreshold

\* close(ch): panics when the channel is closed already.
Close(ch) ==
    /\ panicked' = (panicked \/ ch \in closed)
    /\ closed' = closed \cup {ch}

\* A panic in a goroutine ends the daemon, and the model with it; processes live on.
Alive      == ~ panicked
At(n, pc)  == Alive /\ task[n].pc = pc
Running(n) == proc[n] \in {"up", "signalled"}

-----------------------------------------------------------------------------
(* Ensure and start, in the goroutine of the request that found it stopped. *)

\* Ensure on a stopped backend, or on a parked one whose backoff is over.
EnsureStart(n) ==
    /\ Alive /\ n = attempts + 1
    /\ \/ state = "stopped" /\ UNCHANGED failures
       \/ state = "parked" /\ failures' = 0
    /\ attempts' = n
    /\ state' = "starting"
    /\ ready' = n
    /\ task' = [task EXCEPT ![n].pc = "start"]
    /\ UNCHANGED <<cmd, closed, proc, panicked>>

SlipStartErrorKeepsState(n) ==
    /\ At(n, "start")
    /\ RecordFailure
    /\ Close(n)
    /\ task' = [task EXCEPT ![n].pc = "done"]
    /\ UNCHANGED <<state, cmd, ready, attempts, proc>>

\* start fails: no port, or the command cannot be executed.
StartFails(n) ==
    /\ At(n, "start")
    /\ state' = "stopped"
    /\ RecordFailure
    /\ Close(n)
    /\ task' = [task EXCEPT ![n].pc = "done"]
    /\ UNCHANGED <<cmd, ready, attempts, proc>>

\* cmd.Start(): the process exists, nobody can find it yet.
Launch(n) ==
    /\ At(n, "start")
    /\ proc' = [proc EXCEPT ![n] = "up"]
    /\ task' = [task EXCEPT ![n].pc = "attach"]
    /\ UNCHANGED <<state, cmd, ready, attempts, failures, closed, panicked>>

\* p.cmd = cmd; the gate and the Wait goroutine are spawned.
Attach(n) ==
    /\ At(n, "attach")
    /\ cmd' = n
    /\ task' = [task EXCEPT ![n].pc = "spawned"]
    /\ UNCHANGED <<state, ready, attempts, failures, closed, proc, panicked>>

-----------------------------------------------------------------------------
(* The health gate. *)

\* Its first section: p.ready is read now, not when the gate was spawned.
GateBegin(n) ==
    /\ At(n, "spawned")
    /\ task' = [task EXCEPT ![n] = [pc |-> "poll", ch |-> ready]]
    /\ UNCHANGED <<state, cmd, ready, attempts, failures, closed, proc, panicked>>

GateEnd(n) ==
    /\ Close(task[n].ch)
    /\ task' = [task EXCEPT ![n] = [pc |-> "done", ch |-> 0]]

\* The loop polls; what it does without the lock comes between two looks at the state.
Polling(n) == At(n, "poll") \/ At(n, "probe")

\* The state is no longer starting: somebody else decided.
GateGivesUp(n) ==
    /\ Polling(n)
    /\ state # "starting"
    /\ GateEnd(n)
    /\ UNCHANGED <<state, cmd, ready, attempts, failures, proc>>

\* It is: the gate goes on to probe, as often as it takes.
GateLooks(n) ==
    /\ At(n, "poll")
    /\ state = "starting"
    /\ task' = [task EXCEPT ![n].pc = "probe"]
    /\ UNCHANGED <<state, cmd, ready, attempts, failures, closed, proc, panicked>>

\* The probe succeeded: something listens on the port at this moment.
GateProbed(n) ==
    /\ At(n, "probe")
    /\ \E m \in Starts : Running(m)
    /\ task' = [task EXCEPT ![n].pc = "healthy"]
    /\ UNCHANGED <<state, cmd, ready, attempts, failures, closed, proc, panicked>>

\* The state is looked at again, with the lock.  Meanwhile the process may have ended, and
\* the state may be of a newer start.
GateHealthy(n) ==
    /\ At(n, "healthy")
    /\ state' = IF state = "starting" THEN "running" ELSE state
    /\ GateEnd(n)
    /\ UNCHANGED <<cmd, ready, attempts, failures, proc>>

SlipTimeoutKeepsReady(n) ==
    /\ Polling(n)
    /\ state' = "stopped"
    /\ RecordFailure
    /\ proc' = [m \in Starts |-> IF m = cmd /\ Running(m) THEN "exited" ELSE proc[m]]
    /\ task' = [task EXCEPT ![n] = [pc |-> "done", ch |-> 0]]
    /\ UNCHANGED <<cmd, ready, attempts, closed, panicked>>

\* The deadline passed: whatever p.cmd is by now gets SIGKILL.
GateTimeout(n) ==
    /\ Polling(n)
    /\ state' = "stopped"
    /\ RecordFailure
    /\ proc' = [m \in Starts |-> IF m = cmd /\ Running(m) THEN "exited" ELSE proc[m]]
    /\ GateEnd(n)
    /\ UNCHANGED <<cmd, ready, attempts>>

-----------------------------------------------------------------------------
(* Exits and stops. *)

\* A process ends, by itself or because it was told to.
Exit(n) ==
    /\ Alive /\ Running(n)
    /\ proc' = [proc EXCEPT ![n] = "exited"]
    /\ UNCHANGED <<state, cmd, ready, attempts, failures, closed, task, panicked>>

CrashLoop(k) == k >= CrashThreshold

SlipLeavesStarting(n) ==
    /\ Alive /\ proc[n] = "exited" /\ task[n].pc # "attach"
    /\ proc' = [proc EXCEPT ![n] = "reaped"]
    /\ cmd' = 0
    /\ \/ /\ state = "running"
          /\ RecordFailure
          /\ state' = IF CrashLoop(failures') THEN "parked" ELSE "stopped"
       \/ /\ state # "running"
          /\ state' = IF state = "starting" THEN state ELSE "stopped"
          /\ UNCHANGED failures
    /\ UNCHANGED <<ready, attempts, closed, task, panicked>>

\* The Wait goroutine of attempt n, once cmd.Wait() returned.
Reaped(n) ==
    /\ Alive /\ proc[n] = "exited" /\ task[n].pc # "attach"
    /\ proc' = [proc EXCEPT ![n] = "reaped"]
    /\ cmd' = 0
    /\ \/ /\ state \in {"running", "starting"}
          /\ RecordFailure
          /\ state' = IF CrashLoop(failures') THEN "parked" ELSE "stopped"
       \/ /\ state \notin {"running", "starting"}
          /\ state' = "stopped"
          /\ UNCHANGED failures
    /\ UNCHANGED <<ready, attempts, closed, task, panicked>>

\* stopLocked: the state moves first, then the process group gets SIGTERM.
StopLocked ==
    /\ Alive
    /\ state' = "stopped"
    /\ proc' = [m \in Starts |-> IF m = cmd /\ proc[m] = "up" THEN "signalled" ELSE proc[m]]
    /\ UNCHANGED <<cmd, ready, attempts, failures, closed, task, panicked>>

\* Stop and StopAll take any state, the sweep only a running and idle backend.
Stop  == StopLocked
Sweep == state = "running" /\ StopLocked

-----------------------------------------------------------------------------
Goroutine(n) ==
    \/ StartFails(n) \/ Launch(n) \/ Attach(n)
    \/ GateBegin(n) \/ GateGivesUp(n) \/ GateLooks(n) \/ GateProbed(n)
    \/ GateHealthy(n) \/ GateTimeout(n)

SNext ==
    \/ \E n \in Starts : EnsureStart(n) \/ Goroutine(n) \/ Exit(n) \/ Reaped(n)
    \/ Sweep
    \/ Stop

SSpec == SInit /\ [][SNext]_svars

\* The goroutines of starts and gates that can run do run.  Processes need not
\* exit, no request has to come, nobody has to call Stop.
SFairSpec == SSpec /\ \A n \in Starts : WF_svars(Goroutine(n))

-----------------------------------------------------------------------------
(* Properties. *)

\* "running" never outlives the processes: while the state says running, some process is
\* alive, or its Wait goroutine has yet to report its end, or a newer start has yet to
\* execute its command, so requests are not routed to a dead port for ever, whichever of
\* several overlapping starts made the backend healthy and whichever of them ended.  The
\* last case is a gate that probed a process which ended before the gate had the lock: it
\* says running of the start that a request began since.
RunningIsAlive ==
    state = "running" =>
        \E n \in Starts : proc[n] \notin {"none", "reaped"} \/ task[n].pc = "start"

\* No interleaving of requests, gates, exits and stops leaves the backend in
\* "starting" for ever, where every later request would wait on its channel.
StartingEnds == state = "starting" ~> (state # "starting" \/ panicked)

\* Requests that wait for the latest start are answered: its channel is closed,
\* unless a still newer start replaces it or the daemon dies first.
ReadyCloses ==
    \A n \in Starts : ready = n ~> (n \in closed \/ ready # n \/ panicked)
=============================================================================
