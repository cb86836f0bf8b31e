---------------------------- MODULE WorkersProofs ----------------------------
(***************************************************************************)
(* Safety of the daemon's workers: of Supervisor for any crash threshold   *)
(* and any number of starts, of Observation for any hosts, any interval    *)
(* and grace period and any number of upsets, and of RouteTable for any    *)
(* allocations and any number of handlers.                                 *)
(***************************************************************************)
EXTENDS Observation, Supervisor, RouteTable,
        FiniteSetTheorems, SequenceTheorems, WellFoundedInduction, TLAPS

\* Attempts are numbered in order, p.ready is the channel of the latest one, and
\* a gate that polls holds a channel somebody made.
TasksSound ==
    /\ ready = attempts
    /\ \A n \in Starts : task[n].pc # "none" => n <= attempts
    /\ \A n \in Starts : task[n].pc \in {"poll", "probe", "healthy"} => task[n].ch \in 1..attempts

\* Whenever the state says starting, a goroutine is there to end it: the attempt
\* is still being started or its health gate has yet to give its verdict.
Driven(n) == task[n].pc \in {"start", "attach", "spawned", "poll", "probe", "healthy"}
StartingIsDriven == state = "starting" => \E n \in Starts : Driven(n)

\* A backend has a process or one to come from the moment it is starting, for a gate that
\* probed a process that is gone says "running" of whatever start is on its way by then.
ProcessToCome ==
    state \in {"starting", "running"} =>
        \E n \in Starts : proc[n] \notin {"none", "reaped"} \/ task[n].pc = "start"

SInv == STypeOK /\ TasksSound /\ ProcessToCome /\ StartingIsDriven

-----------------------------------------------------------------------------
\* Counting a failure keeps the count within the threshold.
LEMMA RecordFailureBound ==
    ASSUME failures \in 0..CrashThreshold, RecordFailure
    PROVE  failures' \in 0..CrashThreshold
BY ThresholdAssumption DEF RecordFailure

\* The invariant holds before the first request.
LEMMA SInitSInv == SInit => SInv
<1> SUFFICES ASSUME SInit PROVE SInv
  OBVIOUS
<1>1. /\ attempts \in 0..MaxStarts /\ cmd \in 0..attempts /\ ready \in 0..attempts
      /\ failures \in 0..CrashThreshold
  BY StartsAssumption, ThresholdAssumption DEF SInit
<1>2. proc \in [Starts -> ProcStates] /\ task \in [Starts -> Tasks]
  BY DEF SInit, ProcStates, Tasks, NoTask
<1>3. STypeOK
  BY <1>1, <1>2 DEF SInit, STypeOK
<1>4. TasksSound
  BY DEF SInit, TasksSound, NoTask
<1> QED
  BY <1>3, <1>4 DEF SInit, SInv, ProcessToCome, StartingIsDriven

\* The task of an attempt moves on.
LEMMA TaskMoves ==
    ASSUME STypeOK, NEW n \in Starts, NEW pc,
           pc \in {"start", "attach", "spawned", "poll", "probe", "healthy", "done"},
           task' = [task EXCEPT ![n].pc = pc]
    PROVE  task' \in [Starts -> Tasks]
BY DEF STypeOK, Tasks

\* The steps of an attempt that is being started.
LEMMA StartKeepsSInv ==
    ASSUME SInv, NEW n \in Starts,
           EnsureStart(n) \/ StartFails(n) \/ Launch(n) \/ Attach(n)
    PROVE  SInv'
<1> USE StartsAssumption, ThresholdAssumption DEF Starts
<1>1. CASE EnsureStart(n)
  <2>1. STypeOK'
    <3>1. task' \in [Starts -> Tasks]
      BY <1>1, TaskMoves DEF EnsureStart, SInv
    <3>2. /\ attempts' \in 0..MaxStarts /\ ready' \in 0..attempts'
          /\ cmd' \in 0..attempts' /\ closed' \subseteq 1..attempts'
      BY <1>1 DEF EnsureStart, SInv, STypeOK
    <3>3. failures' \in 0..CrashThreshold
      BY <1>1 DEF EnsureStart, SInv, STypeOK
    <3> QED
      BY <1>1, <3>1, <3>2, <3>3 DEF EnsureStart, SInv, STypeOK
  <2>2. TasksSound'
    BY <1>1 DEF EnsureStart, SInv, STypeOK, TasksSound, Tasks
  <2>3. StartingIsDriven' /\ ProcessToCome'
    BY <1>1 DEF EnsureStart, SInv, STypeOK, StartingIsDriven, ProcessToCome, Driven, Tasks
  <2> QED
    BY <2>1, <2>2, <2>3 DEF SInv
<1>2. CASE StartFails(n)
  <2>1. failures' \in 0..CrashThreshold
    BY <1>2, RecordFailureBound DEF StartFails, SInv, STypeOK
  <2>2. n \in 1..attempts
    BY <1>2 DEF StartFails, At, SInv, TasksSound
  <2>3. STypeOK'
    BY <1>2, <2>1, <2>2 DEF StartFails, SInv, STypeOK, Tasks, Close
  <2>4. TasksSound'
    BY <1>2, <2>2 DEF StartFails, SInv, STypeOK, TasksSound, Tasks
  <2> QED
    BY <1>2, <2>3, <2>4 DEF StartFails, SInv, ProcessToCome, StartingIsDriven
<1>3. CASE Launch(n)
  <2>1. STypeOK'
    BY <1>3 DEF Launch, SInv, STypeOK, Tasks, ProcStates
  <2>2. TasksSound'
    BY <1>3 DEF Launch, At, SInv, STypeOK, TasksSound, Tasks
  <2>3. ProcessToCome'
    BY <1>3 DEF Launch, SInv, STypeOK, ProcessToCome
  <2>4. StartingIsDriven'
    BY <1>3 DEF Launch, SInv, STypeOK, StartingIsDriven, Driven, Tasks
  <2> QED
    BY <2>1, <2>2, <2>3, <2>4 DEF SInv
<1>4. CASE Attach(n)
  <2>1. n \in 1..attempts
    BY <1>4 DEF Attach, At, SInv, TasksSound
  <2>2. STypeOK'
    <3>1. task' \in [Starts -> Tasks]
      BY <1>4, TaskMoves DEF Attach, SInv
    <3> QED
      BY <1>4, <2>1, <3>1 DEF Attach, SInv, STypeOK
  <2>3. TasksSound'
    BY <1>4, <2>1 DEF Attach, SInv, STypeOK, TasksSound, Tasks
  <2>4. StartingIsDriven' /\ ProcessToCome'
    BY <1>4 DEF Attach, At, SInv, STypeOK, StartingIsDriven, ProcessToCome, Driven, Tasks
  <2> QED
    BY <2>2, <2>3, <2>4 DEF SInv
<1> QED
  BY <1>1, <1>2, <1>3, <1>4

\* The steps of a health gate.  Each of its verdicts leaves a state other than
\* starting behind, which is why starting is always driven.
LEMMA GateKeepsSInv ==
    ASSUME SInv, NEW n \in Starts,
           \/ GateBegin(n) \/ GateGivesUp(n) \/ GateLooks(n) \/ GateProbed(n)
           \/ GateHealthy(n) \/ GateTimeout(n)
    PROVE  SInv'
<1> USE StartsAssumption, ThresholdAssumption DEF Starts
<1>1. CASE GateBegin(n)
  <2>1. n \in 1..attempts /\ ready \in 1..attempts
    BY <1>1 DEF GateBegin, At, SInv, STypeOK, TasksSound
  <2>2. STypeOK'
    BY <1>1, <2>1 DEF GateBegin, SInv, STypeOK, Tasks
  <2>3. TasksSound'
    BY <1>1, <2>1 DEF GateBegin, SInv, STypeOK, TasksSound, Tasks
  <2>4. StartingIsDriven' /\ ProcessToCome'
    BY <1>1 DEF GateBegin, At, SInv, STypeOK, StartingIsDriven, ProcessToCome, Driven, Tasks
  <2> QED
    BY <2>2, <2>3, <2>4 DEF SInv
<1>2. ASSUME Polling(n) \/ At(n, "healthy"), GateEnd(n), UNCHANGED <<attempts, cmd, ready>>,
             state' \in {"stopped", "starting", "running", "parked"},
             failures' \in 0..CrashThreshold, proc' \in [Starts -> ProcStates]
      PROVE  STypeOK' /\ TasksSound'
  <2>1. task[n].ch \in 1..attempts /\ n \in 1..attempts
    BY <1>2 DEF At, Polling, SInv, TasksSound
  <2>2. STypeOK'
    BY <1>2, <2>1 DEF GateEnd, Close, SInv, STypeOK, Tasks
  <2>3. TasksSound'
    BY <1>2, <2>1 DEF GateEnd, SInv, STypeOK, TasksSound, Tasks
  <2> QED
    BY <2>2, <2>3
<1>3. CASE GateGivesUp(n)
  <2>1. STypeOK' /\ TasksSound'
    BY <1>2, <1>3 DEF GateGivesUp, SInv, STypeOK
  <2>2. ProcessToCome'
    BY <1>3 DEF GateGivesUp, GateEnd, Polling, At, SInv, STypeOK, ProcessToCome, Tasks
  <2> QED
    BY <1>3, <2>1, <2>2 DEF GateGivesUp, SInv, StartingIsDriven
<1>4. CASE GateHealthy(n)
  <2>1. state' # "starting"
    BY <1>4 DEF GateHealthy
  <2>2. STypeOK' /\ TasksSound'
    BY <1>2, <1>4 DEF GateHealthy, SInv, STypeOK
  <2>3. ProcessToCome'
    BY <1>4 DEF GateHealthy, GateEnd, At, SInv, STypeOK, ProcessToCome, Tasks
  <2> QED
    BY <2>1, <2>2, <2>3 DEF SInv, StartingIsDriven
<1>5. CASE GateTimeout(n)
  <2>1. failures' \in 0..CrashThreshold
    BY <1>5, RecordFailureBound DEF GateTimeout, SInv, STypeOK
  <2>2. proc' \in [Starts -> ProcStates]
    BY <1>5 DEF GateTimeout, SInv, STypeOK, ProcStates
  <2>3. STypeOK' /\ TasksSound'
    BY <1>2, <1>5, <2>1, <2>2 DEF GateTimeout
  <2> QED
    BY <1>5, <2>3 DEF GateTimeout, SInv, ProcessToCome, StartingIsDriven
<1>6. CASE GateLooks(n) \/ GateProbed(n)
  <2>1. n \in 1..attempts /\ task[n].ch \in 1..attempts
    BY <1>6 DEF GateLooks, GateProbed, At, SInv, TasksSound
  <2>2. STypeOK'
    BY <1>6, <2>1, TaskMoves DEF GateLooks, GateProbed, SInv, STypeOK
  <2>3. TasksSound'
    <3>1. /\ UNCHANGED <<attempts, ready>> /\ \A m \in Starts : m # n => task'[m] = task[m]
          /\ task'[n].ch = task[n].ch
      BY <1>6 DEF GateLooks, GateProbed, SInv, STypeOK, Tasks
    <3> QED
      BY <2>1, <3>1 DEF SInv, TasksSound
  <2>4. StartingIsDriven' /\ ProcessToCome'
    BY <1>6 DEF GateLooks, GateProbed, At, SInv, STypeOK, StartingIsDriven, ProcessToCome, Driven, Tasks
  <2> QED
    BY <2>2, <2>3, <2>4 DEF SInv
<1> QED
  BY <1>1, <1>3, <1>4, <1>5, <1>6

\* Processes that end, Wait goroutines, Stop and the sweep.
LEMMA ExitKeepsSInv ==
    ASSUME SInv, (\E n \in Starts : Exit(n) \/ Reaped(n)) \/ StopLocked
    PROVE  SInv'
<1> USE StartsAssumption, ThresholdAssumption DEF Starts
<1>1. ASSUME NEW n \in Starts, Exit(n)
      PROVE  SInv'
  <2>1. STypeOK'
    BY <1>1 DEF Exit, SInv, STypeOK, ProcStates
  <2>2. ProcessToCome'
    BY <1>1 DEF Exit, SInv, STypeOK, ProcessToCome
  <2> QED
    BY <1>1, <2>1, <2>2 DEF Exit, SInv, TasksSound, StartingIsDriven, Driven
<1>2. ASSUME NEW n \in Starts, Reaped(n)
      PROVE  SInv'
  <2>1. failures' \in 0..CrashThreshold
    BY <1>2, RecordFailureBound DEF Reaped, SInv, STypeOK
  <2>2. state' \in {"stopped", "parked"}
    BY <1>2 DEF Reaped
  <2>3. STypeOK'
    BY <1>2, <2>1, <2>2 DEF Reaped, SInv, STypeOK, ProcStates
  <2> QED
    BY <1>2, <2>2, <2>3 DEF Reaped, SInv, TasksSound, ProcessToCome, StartingIsDriven
<1>3. CASE StopLocked
  <2>1. STypeOK'
    BY <1>3 DEF StopLocked, SInv, STypeOK, ProcStates
  <2> QED
    BY <1>3, <2>1 DEF StopLocked, SInv, TasksSound, ProcessToCome, StartingIsDriven
<1> QED
  BY <1>1, <1>2, <1>3

\* Every step keeps the invariant.
LEMMA NextKeepsSInv == SInv /\ [SNext]_svars => SInv'
<1> SUFFICES ASSUME SInv, [SNext]_svars PROVE SInv'
  OBVIOUS
<1>1. CASE SNext
  BY <1>1, StartKeepsSInv, GateKeepsSInv, ExitKeepsSInv DEF SNext, Goroutine, Stop, Sweep
<1>2. CASE UNCHANGED svars
  BY <1>2 DEF svars, SInv, STypeOK, TasksSound, ProcessToCome, StartingIsDriven, Driven
<1> QED
  BY <1>1, <1>2

-----------------------------------------------------------------------------
\* The inductive invariant.
THEOREM SupervisorInvariance == SSpec => []SInv
BY SInitSInv, NextKeepsSInv, PTL DEF SSpec

\* Every state of the supervised backend is well formed.
THEOREM SupervisorTypeCorrect == SSpec => []STypeOK
<1>1. SInv => STypeOK
  BY DEF SInv
<1> QED
  BY <1>1, SupervisorInvariance, PTL

\* A backend that is said to run has a process that is alive or about to be reported dead,
\* or a start that has yet to execute its command, whichever starts, gates, exits and stops
\* overlap (Ensure, start, healthGate).
THEOREM RunningStaysAlive == SSpec => []RunningIsAlive
<1>1. SInv => RunningIsAlive
  BY DEF SInv, ProcessToCome, RunningIsAlive
<1> QED
  BY <1>1, SupervisorInvariance, PTL

\* A backend that is said to be starting has a goroutine that will end it: the
\* safety half of StartingEnds.
THEOREM StartingStaysDriven == SSpec => []StartingIsDriven
<1>1. SInv => StartingIsDriven
  BY DEF SInv
<1> QED
  BY <1>1, SupervisorInvariance, PTL

\* Whoever waits for the latest start waits for a channel that somebody will close:
\* it is closed already, the attempt is still on its way to its gate, or its gate
\* polls and holds that very channel.  The gate reads p.ready late, and an older gate
\* may hold a newer channel; the latest attempt's gate never holds another one.
Closes(n) == \/ task[n].pc \in {"start", "attach", "spawned"}
             \/ task[n].pc \in {"poll", "probe", "healthy"} /\ task[n].ch = n
ReadyIsDriven == \A n \in Starts : ready = n => n \in closed \/ Closes(n)

LEMMA NextKeepsReady ==
    ASSUME SInv, ReadyIsDriven, [SNext]_svars
    PROVE  ReadyIsDriven'
<1> SUFFICES ASSUME NEW n \in Starts, ready' = n, n \notin closed'
             PROVE  Closes(n)'
  BY DEF ReadyIsDriven
<1>1. task \in [Starts -> Tasks] /\ ready = attempts
  BY DEF SInv, STypeOK, TasksSound
<1>2. ASSUME ready = n, n \notin closed
      PROVE  Closes(n)
  BY <1>2 DEF ReadyIsDriven
<1>3. ASSUME NEW m \in Starts, EnsureStart(m)
      PROVE  Closes(n)'
  BY <1>1, <1>3 DEF EnsureStart, Closes, Tasks
<1>4. ASSUME NEW m \in Starts, StartFails(m)
      PROVE  Closes(n)'
  <2>1. ready = n /\ n \notin closed /\ n # m
    BY <1>4 DEF StartFails, Close
  <2> QED
    BY <1>1, <1>2, <1>4, <2>1 DEF StartFails, Closes
<1>5. ASSUME NEW m \in Starts, Launch(m) \/ Attach(m) \/ GateBegin(m) \/ GateLooks(m) \/ GateProbed(m)
      PROVE  Closes(n)'
  <2>1. ready = n /\ n \notin closed
    BY <1>5 DEF Launch, Attach, GateBegin, GateLooks, GateProbed
  <2>2. CASE m = n
    BY <1>1, <1>2, <1>5, <2>1, <2>2 DEF Launch, Attach, GateBegin, GateLooks, GateProbed, At, Closes, Tasks
  <2>3. CASE m # n
    BY <1>1, <1>2, <1>5, <2>1, <2>3 DEF Launch, Attach, GateBegin, GateLooks, GateProbed, Closes
  <2> QED
    BY <2>2, <2>3
<1>6. ASSUME NEW m \in Starts, GateEnd(m), Polling(m) \/ At(m, "healthy"), UNCHANGED ready
      PROVE  Closes(n)'
  <2>1. ready = n /\ n \notin closed /\ n # task[m].ch
    BY <1>6 DEF GateEnd, Close
  <2>2. m # n
    BY <1>2, <1>6, <2>1 DEF At, Polling, Closes
  <2> QED
    BY <1>1, <1>2, <1>6, <2>1, <2>2 DEF GateEnd, Closes
<1>7. ASSUME UNCHANGED <<ready, closed, task>>
      PROVE  Closes(n)'
  BY <1>2, <1>7 DEF Closes
<1> QED
  BY <1>3, <1>4, <1>5, <1>6, <1>7
  DEF SNext, Goroutine, GateGivesUp, GateHealthy, GateTimeout, Exit, Reaped,
      Sweep, Stop, StopLocked, svars

\* The channel that requests for the latest start wait on is closed or has a
\* goroutine that will close it: the safety half of ReadyCloses, whatever the other
\* starts, gates and stops do (internal/supervise/supervisor.go).
THEOREM ReadyStaysDriven == SSpec => []ReadyIsDriven
<1>1. SInit => ReadyIsDriven
  BY DEF SInit, ReadyIsDriven, Starts
<1>2. SInv /\ ReadyIsDriven /\ [SNext]_svars => ReadyIsDriven'
  BY NextKeepsReady
<1> QED
  BY <1>1, <1>2, SupervisorInvariance, PTL DEF SSpec

-----------------------------------------------------------------------------
(* The observer: ages. *)

\* The ages there can be by now: the clock was set back upsets times at most.
NowTimes == {{}} \cup {{a} : a \in -upsets .. OldAge}

\* The clock as one handler reads it moved by d, forth or back.
Moves(d) == \/ d = 1 /\ upsets' \in {upsets, upsets + 1}
            \/ d = -1 /\ upsets' = upsets + 1

\* s is a time as long ago as t, or longer.
NotAfter(s, t) == \E a \in s, b \in t : a >= b

LEMMA Periods ==
    /\ OldAge \in Nat /\ Interval + MaxUpsets <= OldAge
    /\ MaxUpsets \in Nat /\ Interval \in Nat /\ Grace \in Nat /\ 0 <= 2 * Interval
<1>1. Longest \in Nat
  BY PeriodsAssumption DEF Longest
<1> QED
  BY <1>1, PeriodsAssumption, UpsetsAssumption DEF OldAge

LEMMA NowTimesAreTimes ==
    ASSUME upsets \in 0..MaxUpsets
    PROVE  NowTimes \subseteq Times
BY Periods DEF NowTimes, Times, Ages

LEMMA LowerBound ==
    ASSUME NEW u \in Nat, NEW v \in Nat, u <= v, NEW a \in -u .. OldAge
    PROVE  a \in -v .. OldAge
BY Periods

LEMMA NowTimesGrow ==
    ASSUME upsets \in 0..MaxUpsets, upsets' \in {upsets, upsets + 1}
    PROVE  NowTimes \subseteq NowTimes'
<1>1. upsets \in Nat /\ upsets' \in Nat /\ upsets <= upsets'
  BY Periods
<1>2. \A a \in -upsets .. OldAge : a \in -(upsets') .. OldAge
  BY <1>1, LowerBound
<1> QED
  BY <1>2 DEF NowTimes

LEMMA NextTimesAreTimes ==
    ASSUME upsets' \in 0..MaxUpsets
    PROVE  NowTimes' \subseteq Times
<1>1. upsets' \in Nat /\ upsets' <= MaxUpsets
  BY Periods
<1>2. \A a \in -(upsets') .. OldAge : a \in Ages
  BY <1>1, Periods, LowerBound DEF Ages
<1> QED
  BY <1>2 DEF NowTimes, Times

LEMMA JustNow ==
    ASSUME upsets \in 0..MaxUpsets
    PROVE  {0} \in NowTimes
BY Periods DEF NowTimes

LEMMA AgeMoves ==
    ASSUME NEW a, NEW d
    PROVE  Moved({a}, d) = {IF a + d > OldAge THEN OldAge ELSE a + d}
BY DEF Moved

LEMMA MovedIsNow ==
    ASSUME upsets \in 0..MaxUpsets, NEW d, Moves(d), NEW t \in NowTimes
    PROVE  Moved(t, d) \in NowTimes' /\ (Moved(t, d) = {} <=> t = {})
<1>1. CASE t = {}
  BY <1>1 DEF Moved, NowTimes
<1>2. ASSUME NEW a \in -upsets .. OldAge, t = {a}
      PROVE  Moved(t, d) \in NowTimes' /\ (Moved(t, d) = {} <=> t = {})
  <2> DEFINE b == IF a + d > OldAge THEN OldAge ELSE a + d
  <2>1. Moved(t, d) = {b}
    BY <1>2, AgeMoves
  <2>2. b \in -(upsets') .. OldAge
    BY Periods DEF Moves
  <2> HIDE DEF b
  <2> QED
    BY <1>2, <2>1, <2>2 DEF NowTimes
<1> QED
  BY <1>1, <1>2 DEF NowTimes

\* Ages keep their order and do not move apart, though the oldest are all alike.
LEMMA OrderIsKept ==
    ASSUME NEW d, d \in {1, -1}, NEW s \in NowTimes, NEW t \in NowTimes, upsets \in 0..MaxUpsets
    PROVE  /\ NotAfter(s, t) => NotAfter(Moved(s, d), Moved(t, d))
           /\ \A k \in Nat : Within(s, t, k) => Within(Moved(s, d), Moved(t, d), k)
<1>1. CASE s = {} \/ t = {}
  BY <1>1 DEF NotAfter, Within
<1>2. ASSUME NEW a \in -upsets .. OldAge, NEW b \in -upsets .. OldAge, s = {a}, t = {b}
      PROVE  /\ NotAfter(s, t) => NotAfter(Moved(s, d), Moved(t, d))
             /\ \A k \in Nat : Within(s, t, k) => Within(Moved(s, d), Moved(t, d), k)
  <2> DEFINE x == IF a + d > OldAge THEN OldAge ELSE a + d
             y == IF b + d > OldAge THEN OldAge ELSE b + d
  <2>1. Moved(s, d) = {x} /\ Moved(t, d) = {y}
    BY <1>2, AgeMoves
  <2>2. /\ x \in Int /\ y \in Int /\ (a >= b => x >= y)
        /\ \A k \in Nat : 0 <= a - b /\ a - b <= k => 0 <= x - y /\ x - y <= k
    BY Periods
  <2> HIDE DEF x, y
  <2> QED
    BY <1>2, <2>1, <2>2 DEF NotAfter, Within, Between
<1> QED
  BY <1>1, <1>2 DEF NowTimes

-----------------------------------------------------------------------------
(* The inductive invariant of the observer. *)

\* A run of scans without a host, in ages there can be by now.
Run == [scans : 0..MinScans, since : NowTimes, latest : NowTimes]

RowsTyped == /\ rows \in [Hosts -> Row \cup {Nothing}]
             /\ \A h \in Hosts : rows[h] # Nothing => rows[h].missing \in NowTimes
PatchTyped == \/ patch = NoPatch
              \/ /\ patch \in [on : Hosts, row : Row]
                 /\ patch.row.missing \in NowTimes
ScanTyped == /\ scan \in Scan /\ scan.at \in NowTimes
             /\ scan.step \in {"import", "apply"} => scan.at # {}
             /\ scan.own \subseteq scan.found
Typed == /\ routed \in [Hosts -> Routes] /\ RowsTyped /\ ScanTyped /\ last \in NowTimes
         /\ PatchTyped /\ gone \in [Hosts -> Run]
         /\ timer \in Nat /\ timer <= Interval + upsets
         /\ steady \subseteq Hosts /\ edited \subseteq Hosts
         /\ upsets \in 0..MaxUpsets

\* A run begins before its latest scan.
RunOK(h) == gone[h].scans > 0 => NotAfter(gone[h].since, gone[h].latest)

\* A cycle goes on counting only if the last successful one was not long ago.
ResetOK == scan.step = "apply" /\ ~scan.reset => Within(last, scan.at, 2 * Interval)

\* As long as no cycle has failed, what a row says of its absence is not more than what
\* the scans have seen, unless a PATCH wrote the row.
CountsOK(h) ==
    /\ last # {} /\ h \notin edited
    /\ rows[h] # Nothing /\ rows[h].source = "observed" /\ rows[h].missing # {}
    => /\ gone[h].latest = last
       /\ rows[h].count <= gone[h].scans
       /\ NotAfter(gone[h].since, rows[h].missing)

\* A host served alike since the cycle began is in the list it belongs in.
FoundOK(h) ==
    h \in steady =>
       /\ scan.step = "ingresses" /\ routed[h] \in {"route", "managed"} => h \in scan.found
       /\ scan.step \in {"import", "apply"} /\ routed[h] # "none" => h \in scan.found

OInv == Typed /\ ResetOK /\ \A h \in Hosts : RunOK(h) /\ CountsOK(h) /\ FoundOK(h)

LEMMA TypedIsTypeOK ==
    ASSUME Typed
    PROVE  TypeOK
<1>1. NowTimes \subseteq Times /\ {} \in Times
  BY NowTimesAreTimes DEF Typed, Times
<1>2. timer \in 0..OldAge
  BY Periods DEF Typed
<1>3. patch \in [on : Hosts \cup {Nothing}, row : Row \cup {Nothing}]
  BY DEF Typed, PatchTyped, NoPatch
<1>4. gone \in [Hosts -> [scans : 0..MinScans, since : Times, latest : Times]]
  BY <1>1 DEF Typed, Run
<1> QED
  BY <1>1, <1>2, <1>3, <1>4 DEF Typed, RowsTyped, ScanTyped, TypeOK

-----------------------------------------------------------------------------
(* The observer: time passes. *)

LEMMA RowMoves ==
    ASSUME upsets \in 0..MaxUpsets, upsets' \in 0..MaxUpsets, NEW d, Moves(d),
           NEW r \in Row, r.missing \in NowTimes
    PROVE  LET m == [r EXCEPT !.missing = Moved(@, d)]
           IN  /\ m \in Row /\ m.missing = Moved(r.missing, d) /\ m.missing \in NowTimes'
               /\ m.source = r.source /\ m.count = r.count
<1>1. Moved(r.missing, d) \in NowTimes' /\ (Moved(r.missing, d) = {} <=> r.missing = {})
  BY MovedIsNow
<1>2. NowTimes' \subseteq Times
  BY NextTimesAreTimes
<1> QED
  BY <1>1, <1>2 DEF Row

LEMMA ClockKeepsTypes ==
    ASSUME Typed, NEW d, Moves(d), Clock(d), upsets' \in 0..MaxUpsets,
           timer' \in Nat, timer' <= Interval + upsets',
           UNCHANGED <<routed, steady, edited>>
    PROVE  Typed'
<1>1. RowsTyped'
  <2> SUFFICES ASSUME NEW h \in Hosts
               PROVE  /\ rows'[h] \in Row \cup {Nothing}
                      /\ rows'[h] # Nothing => rows'[h].missing \in NowTimes'
    <3>1. rows' = [h \in Hosts |-> IF rows[h] = Nothing THEN Nothing
                                  ELSE [rows[h] EXCEPT !.missing = Moved(@, d)]]
      BY DEF Clock
    <3> QED
      BY <3>1 DEF RowsTyped
  <2>1. CASE rows[h] = Nothing
    BY <2>1 DEF Clock
  <2>2. CASE rows[h] # Nothing
    <3>1. rows'[h] = [rows[h] EXCEPT !.missing = Moved(@, d)]
      BY <2>2 DEF Clock
    <3>2. rows[h] \in Row /\ rows[h].missing \in NowTimes
      BY <2>2 DEF Typed, RowsTyped
    <3> QED
      BY <3>1, <3>2, RowMoves DEF Typed
  <2> QED
    BY <2>1, <2>2
<1>2. ScanTyped'
  <2>1. scan' = [scan EXCEPT !.at = Moved(@, d)]
    BY DEF Clock
  <2>2. scan \in Scan /\ scan.at \in NowTimes
    BY DEF Typed, ScanTyped
  <2>3. Moved(scan.at, d) \in NowTimes' /\ (Moved(scan.at, d) = {} <=> scan.at = {})
    BY <2>2, MovedIsNow DEF Typed
  <2>4. NowTimes' \subseteq Times
    BY NextTimesAreTimes
  <2> QED
    BY <2>1, <2>2, <2>3, <2>4 DEF Typed, ScanTyped, Scan
<1>3. last' \in NowTimes'
  BY MovedIsNow DEF Clock, Typed
<1>4. PatchTyped'
  <2>1. CASE patch.row = Nothing
    <3>1. patch' = patch
      BY <2>1 DEF Clock
    <3>2. patch = NoPatch
      BY <2>1, NothingAssumption DEF Typed, PatchTyped
    <3> QED
      BY <3>1, <3>2 DEF PatchTyped
  <2>2. CASE patch.row # Nothing
    <3>1. patch' = [patch EXCEPT !.row.missing = Moved(@, d)]
      BY <2>2 DEF Clock
    <3>2. patch \in [on : Hosts, row : Row] /\ patch.row.missing \in NowTimes
      BY <2>2 DEF Typed, PatchTyped, NoPatch
    <3>3. /\ patch'.row = [patch.row EXCEPT !.missing = Moved(patch.row.missing, d)]
          /\ patch' = [on |-> patch.on, row |-> patch'.row]
      BY <3>1, <3>2
    <3>4. patch'.row \in Row /\ patch'.row.missing \in NowTimes'
      BY <3>2, <3>3, RowMoves DEF Typed
    <3> QED
      BY <3>2, <3>3, <3>4 DEF PatchTyped
  <2> QED
    BY <2>1, <2>2
<1>5. gone' \in [Hosts -> Run']
  <2> SUFFICES ASSUME NEW h \in Hosts PROVE gone'[h] \in Run'
    BY DEF Clock
  <2>1. gone'[h] = [gone[h] EXCEPT !.since = Moved(@, d), !.latest = Moved(@, d)]
    BY DEF Clock
  <2>2. gone[h] \in Run
    BY DEF Typed
  <2>3. Moved(gone[h].since, d) \in NowTimes' /\ Moved(gone[h].latest, d) \in NowTimes'
    BY <2>2, MovedIsNow DEF Run, Typed
  <2> QED
    BY <2>1, <2>2, <2>3 DEF Run
<1> QED
  BY <1>1, <1>2, <1>3, <1>4, <1>5 DEF Typed

\* Nothing an observer compares changes as the clock moves.
LEMMA ClockKeeps ==
    ASSUME OInv, NEW d, Moves(d), Clock(d), upsets' \in 0..MaxUpsets,
           timer' \in Nat, timer' <= Interval + upsets',
           UNCHANGED <<routed, steady, edited>>
    PROVE  OInv'
<1>0. Typed /\ ResetOK /\ d \in {1, -1} /\ upsets \in 0..MaxUpsets
  BY DEF OInv, Typed, Moves
<1>1. Typed'
  BY <1>0, ClockKeepsTypes
<1>2. /\ scan'.step = scan.step /\ scan'.found = scan.found /\ scan'.reset = scan.reset
      /\ scan'.at = Moved(scan.at, d) /\ last' = Moved(last, d)
  BY <1>0 DEF Typed, ScanTyped, Scan, Clock
<1>3. ResetOK'
  <2>1. ASSUME Within(last, scan.at, 2 * Interval)
        PROVE  Within(Moved(last, d), Moved(scan.at, d), 2 * Interval)
    BY <1>0, <2>1, OrderIsKept, Periods DEF Typed, ScanTyped
  <2> QED
    BY <1>0, <1>2, <2>1 DEF ResetOK
<1>4. ASSUME NEW h \in Hosts PROVE RunOK(h)' /\ CountsOK(h)' /\ FoundOK(h)'
  <2>1. RunOK(h) /\ CountsOK(h) /\ FoundOK(h) /\ gone[h] \in Run
    BY DEF OInv, Typed
  <2>2. /\ gone'[h].scans = gone[h].scans /\ gone'[h].since = Moved(gone[h].since, d)
        /\ gone'[h].latest = Moved(gone[h].latest, d)
    BY <2>1 DEF Run, Clock
  <2>3. RunOK(h)'
    BY <1>0, <2>1, <2>2, OrderIsKept DEF RunOK, Run
  <2>4. FoundOK(h)'
    BY <1>2, <2>1 DEF FoundOK
  <2>5. CountsOK(h)'
    <3> SUFFICES ASSUME last' # {}, h \notin edited', rows'[h] # Nothing,
                        rows'[h].source = "observed", rows'[h].missing # {}
                 PROVE  /\ gone'[h].latest = last' /\ rows'[h].count <= gone'[h].scans
                        /\ NotAfter(gone'[h].since, rows'[h].missing)
      BY DEF CountsOK
    <3>1. rows[h] # Nothing /\ rows'[h] = [rows[h] EXCEPT !.missing = Moved(@, d)]
      BY DEF Clock
    <3>2. rows[h] \in Row /\ rows[h].missing \in NowTimes
      BY <1>0, <3>1 DEF Typed, RowsTyped
    <3>3. /\ rows'[h].missing = Moved(rows[h].missing, d)
          /\ rows'[h].source = rows[h].source /\ rows'[h].count = rows[h].count
      BY <1>0, <1>1, <3>1, <3>2, RowMoves DEF Typed
    <3>4. last # {} /\ rows[h].missing # {}
      BY <1>2, <3>3 DEF Moved
    <3>5. /\ gone[h].latest = last /\ rows[h].count <= gone[h].scans
          /\ NotAfter(gone[h].since, rows[h].missing)
      BY <2>1, <3>1, <3>3, <3>4 DEF CountsOK
    <3>6. NotAfter(Moved(gone[h].since, d), Moved(rows[h].missing, d))
      BY <1>0, <2>1, <3>2, <3>5, OrderIsKept DEF Run
    <3> QED
      BY <1>2, <2>2, <3>3, <3>5, <3>6
  <2> QED
    BY <2>3, <2>4, <2>5
<1> QED
  BY <1>1, <1>3, <1>4 DEF OInv

-----------------------------------------------------------------------------
(* The observer: the steps of a cycle up to its transaction, and the API. *)

\* Nothing that is typed ceases to be as the changes of the world are counted.
LEMMA TypesGrow ==
    ASSUME Typed, upsets' \in {upsets, upsets + 1}, upsets' \in 0..MaxUpsets
    PROVE  /\ NowTimes \subseteq NowTimes' /\ Run \subseteq Run'
           /\ timer <= Interval + upsets'
           /\ UNCHANGED rows => RowsTyped'
           /\ UNCHANGED patch => PatchTyped'
           /\ UNCHANGED scan => ScanTyped'
           /\ UNCHANGED last => last' \in NowTimes'
           /\ UNCHANGED gone => gone' \in [Hosts -> Run']
<1>1. NowTimes \subseteq NowTimes'
  BY NowTimesGrow DEF Typed
<1>2. Run \subseteq Run'
  BY <1>1 DEF Run
<1>3. timer <= Interval + upsets'
  <2>1. timer \in Nat /\ upsets \in Nat /\ Interval \in Nat /\ timer <= Interval + upsets
    BY Periods DEF Typed
  <2>2. CASE upsets' = upsets
    BY <2>1, <2>2
  <2>3. CASE upsets' = upsets + 1
    BY <2>1, <2>3
  <2> QED
    BY <2>2, <2>3
<1>4. UNCHANGED rows => RowsTyped'
  BY <1>1 DEF Typed, RowsTyped
<1>5. UNCHANGED patch => PatchTyped'
  BY <1>1 DEF Typed, PatchTyped
<1>6. UNCHANGED scan => ScanTyped'
  BY <1>1 DEF Typed, ScanTyped
<1>7. UNCHANGED last => last' \in NowTimes'
  BY <1>1 DEF Typed
<1>8. UNCHANGED gone => gone' \in [Hosts -> Run']
  BY <1>2 DEF Typed
<1> QED
  BY <1>1, <1>2, <1>3, <1>4, <1>5, <1>6, <1>7, <1>8

LEMMA NewRow ==
    ASSUME NEW s \in {"observed", "excluded", "claimed"}
    PROVE  [source |-> s, missing |-> {}, count |-> 0] \in Row
<1> DEFINE r == [source |-> s, missing |-> {}, count |-> 0]
<1>1. {} \in Times
  BY DEF Times
<1>2. r \in [source : {"observed", "excluded", "claimed"}, missing : Times, count : 0..MinScans]
  BY <1>1 DEF MinScans
<1> QED
  BY <1>2 DEF Row

LEMMA ListRoutesKeeps ==
    ASSUME OInv, ListRoutes
    PROVE  OInv'
<1>1. Typed /\ scan \in Scan /\ upsets \in 0..MaxUpsets
  BY DEF OInv, Typed, ScanTyped
<1>2. /\ scan' = [step |-> "ingresses",
                  found |-> {h \in Hosts : routed[h] \in {"route", "managed"}},
                  own |-> {h \in Hosts : routed[h] = "route"}, at |-> {}, reset |-> FALSE]
      /\ timer' = 0 /\ steady' = Hosts
      /\ UNCHANGED <<routed, rows, last, patch, gone, edited, upsets>>
  BY DEF ListRoutes, NoScan
<1>3. ScanTyped'
  BY <1>1, <1>2 DEF ScanTyped, Scan, Times, NowTimes
<1>4. Typed'
  <2>1. RowsTyped' /\ PatchTyped' /\ last' \in NowTimes' /\ gone' \in [Hosts -> Run']
    BY <1>1, <1>2, TypesGrow DEF Typed
  <2> QED
    BY <1>1, <1>2, <1>3, <2>1, Periods DEF Typed
<1>5. ResetOK'
  BY <1>2 DEF ResetOK
<1>6. ASSUME NEW h \in Hosts PROVE RunOK(h)' /\ CountsOK(h)' /\ FoundOK(h)'
  <2>1. RunOK(h)' /\ CountsOK(h)'
    BY <1>2 DEF OInv, RunOK, CountsOK
  <2>2. FoundOK(h)'
    BY <1>2 DEF FoundOK
  <2> QED
    BY <2>1, <2>2
<1> QED
  BY <1>4, <1>5, <1>6 DEF OInv

LEMMA ListIngressesKeeps ==
    ASSUME OInv, ListIngresses
    PROVE  OInv'
<1> DEFINE H == {h \in Hosts : routed[h] = "ingress"}
<1>1. Typed /\ scan \in Scan /\ upsets \in 0..MaxUpsets /\ scan.own \subseteq scan.found
  BY DEF OInv, Typed, ScanTyped
<1>2. /\ scan' = [step |-> "import", found |-> scan.found \cup H, own |-> scan.own \cup H,
                  at |-> {0}, reset |-> scan.reset]
      /\ scan.step = "ingresses"
      /\ UNCHANGED <<routed, rows, last, patch, timer, gone, steady, edited, upsets>>
  BY <1>1 DEF ListIngresses, BothLists, Scan
<1>3. ScanTyped'
  <2>1. {0} \in NowTimes /\ {0} \in NowTimes' /\ {0} \in Times
    BY <1>1, <1>2, JustNow, NowTimesAreTimes DEF NowTimes
  <2> QED
    BY <1>1, <1>2, <2>1 DEF ScanTyped, Scan
<1>4. Typed'
  <2>1. RowsTyped' /\ PatchTyped' /\ last' \in NowTimes' /\ gone' \in [Hosts -> Run']
    BY <1>1, <1>2, TypesGrow DEF Typed
  <2> QED
    BY <1>1, <1>2, <1>3, <2>1 DEF Typed
<1>5. ResetOK'
  BY <1>2 DEF ResetOK
<1>6. ASSUME NEW h \in Hosts PROVE RunOK(h)' /\ CountsOK(h)' /\ FoundOK(h)'
  <2>1. RunOK(h)' /\ CountsOK(h)'
    BY <1>2 DEF OInv, RunOK, CountsOK
  <2>2. FoundOK(h)'
    <3>1. routed[h] \in Routes /\ FoundOK(h)
      BY <1>1 DEF OInv, Typed
    <3> QED
      BY <1>2, <3>1 DEF FoundOK, Routes
  <2> QED
    BY <2>1, <2>2
<1> QED
  BY <1>4, <1>5, <1>6 DEF OInv

\* What an imported row starts from.
LEMMA ImportedRows ==
    ASSUME Typed, NEW H \in SUBSET Hosts,
           rows' = [h \in Hosts |-> IF h \in H THEN Imported ELSE rows[h]],
           upsets' \in {upsets, upsets + 1}, upsets' \in 0..MaxUpsets
    PROVE  RowsTyped'
<1>1. Imported \in Row /\ Imported.missing = {} /\ {} \in NowTimes'
  BY NewRow DEF Imported, NowTimes
<1>2. NowTimes \subseteq NowTimes'
  BY TypesGrow
<1> QED
  BY <1>1, <1>2 DEF Typed, RowsTyped

LEMMA ImportKeeps ==
    ASSUME OInv, Import
    PROVE  OInv'
<1> DEFINE H == {h \in scan.own : rows[h] = Nothing}
<1>1. /\ Typed /\ scan \in Scan /\ scan.at \in NowTimes /\ upsets \in 0..MaxUpsets
      /\ scan.own \subseteq scan.found /\ scan.at # {} /\ H \subseteq Hosts
  BY DEF OInv, Typed, ScanTyped, Import, Scan
<1>2. /\ scan' = [step |-> "apply", found |-> scan.found, own |-> scan.own,
                  at |-> scan.at, reset |-> ResetMissing(scan.at)]
      /\ scan.step = "import" /\ edited' = edited \ H
      /\ rows' = [h \in Hosts |-> IF h \in H THEN Imported ELSE rows[h]]
      /\ UNCHANGED <<routed, last, patch, timer, gone, steady, upsets>>
  BY <1>1 DEF Import, Scan
<1>3. ResetMissing(scan.at) \in BOOLEAN /\ (~ResetMissing(scan.at) => Within(last, scan.at, 2 * Interval))
  BY DEF ResetMissing
<1>4. ScanTyped'
  <2>1. scan.at \in NowTimes'
    BY <1>1, <1>2 DEF NowTimes
  <2> QED
    BY <1>1, <1>2, <1>3, <2>1 DEF ScanTyped, Scan
<1>5. Typed'
  <2>1. PatchTyped' /\ last' \in NowTimes' /\ gone' \in [Hosts -> Run']
    BY <1>1, <1>2, TypesGrow DEF Typed
  <2>2. RowsTyped'
    BY <1>1, <1>2, ImportedRows
  <2> QED
    BY <1>1, <1>2, <1>4, <2>1, <2>2 DEF Typed
<1>6. ResetOK'
  <2>1. UNCHANGED <<last, Interval>> /\ scan'.at = scan.at
        /\ scan'.reset = ResetMissing(scan.at)
    BY <1>2
  <2> HIDE DEF H
  <2> QED
    BY <1>3, <2>1 DEF ResetOK
<1>7. ASSUME NEW h \in Hosts PROVE RunOK(h)' /\ CountsOK(h)' /\ FoundOK(h)'
  <2>1. RunOK(h)' /\ FoundOK(h)'
    BY <1>2 DEF OInv, RunOK, FoundOK
  <2>2. CASE h \in H
    <3>1. rows'[h].missing = {}
      BY <1>2, <2>2 DEF Imported
    <3> QED
      BY <2>1, <3>1 DEF CountsOK
  <2>3. CASE h \notin H
    <3>1. rows'[h] = rows[h] /\ (h \in edited' <=> h \in edited)
      BY <1>2, <2>3
    <3> QED
      BY <1>2, <2>1, <3>1 DEF OInv, CountsOK
  <2> QED
    BY <2>2, <2>3
<1> QED
  BY <1>5, <1>6, <1>7 DEF OInv

\* The cluster and the API write rows that no scan has missed, and a PATCH says so.
LEMMA RequestKeeps ==
    ASSUME OInv, upsets' \in {upsets, upsets + 1}, upsets' \in 0..MaxUpsets,
           UNCHANGED <<scan, last, timer, gone>>,
           RowsTyped', PatchTyped', routed' \in [Hosts -> Routes],
           steady' \subseteq steady, edited' \subseteq Hosts,
           \A h \in steady' : routed'[h] = routed[h],
           \A h \in Hosts : \/ rows'[h] = rows[h] /\ (h \in edited' <=> h \in edited)
                            \/ rows'[h] = Nothing
                            \/ rows'[h].source # "observed"
                            \/ h \in edited'
    PROVE  OInv'
<1>1. Typed
  BY DEF OInv
<1>2. Typed'
  <2>1. last' \in NowTimes' /\ gone' \in [Hosts -> Run'] /\ ScanTyped' /\ timer <= Interval + upsets'
    BY <1>1, TypesGrow
  <2> QED
    BY <1>1, <2>1 DEF Typed
<1>3. ResetOK'
  BY DEF OInv, ResetOK
<1>4. ASSUME NEW h \in Hosts PROVE RunOK(h)' /\ CountsOK(h)' /\ FoundOK(h)'
  <2>1. RunOK(h) /\ CountsOK(h) /\ FoundOK(h)
    BY DEF OInv
  <2>2. RunOK(h)'
    BY <2>1 DEF RunOK
  <2>3. CountsOK(h)'
    BY <2>1 DEF CountsOK
  <2>4. FoundOK(h)'
    BY <2>1 DEF FoundOK
  <2> QED
    BY <2>2, <2>3, <2>4
<1> QED
  BY <1>2, <1>3, <1>4 DEF OInv

LEMMA OneUpset ==
    ASSUME Typed, Upset
    PROVE  upsets' \in {upsets, upsets + 1} /\ upsets' \in 0..MaxUpsets
BY Periods DEF Typed, Upset

LEMMA DroppedKeeps ==
    ASSUME Typed, NEW H, Dropped(H), upsets' \in {upsets, upsets + 1}, upsets' \in 0..MaxUpsets
    PROVE  PatchTyped'
<1>1. UNCHANGED patch => PatchTyped'
  BY TypesGrow
<1>2. patch' = NoPatch => PatchTyped'
  BY DEF PatchTyped
<1> QED
  BY <1>1, <1>2 DEF Dropped

LEMMA ClusterKeeps ==
    ASSUME OInv, NEW h \in Hosts, ChangeRoute(h) \/ Claim(h) \/ Release(h) \/ PatchRead(h)
    PROVE  OInv'
<1>1. Typed /\ rows \in [Hosts -> Row \cup {Nothing}]
  BY DEF OInv, Typed, RowsTyped
<1>2. upsets' \in {upsets, upsets + 1} /\ upsets' \in 0..MaxUpsets
  BY <1>1, OneUpset DEF ChangeRoute, Claim, Release, PatchRead, Request
<1>3. /\ UNCHANGED rows => RowsTyped'
      /\ UNCHANGED patch => PatchTyped'
      /\ NowTimes \subseteq NowTimes'
  BY <1>1, <1>2, TypesGrow
<1>4. CASE ChangeRoute(h)
  <2>1. UNCHANGED <<rows, scan, last, patch, timer, gone, edited>> /\ steady' = steady \ {h}
    BY <1>4 DEF ChangeRoute
  <2>2. routed' \in [Hosts -> Routes] /\ \A k \in Hosts \ {h} : routed'[k] = routed[k]
    BY <1>1, <1>4 DEF ChangeRoute, Typed
  <2>3. edited' \subseteq Hosts /\ steady' \subseteq Hosts
    BY <1>1, <2>1 DEF Typed
  <2> QED
    BY <1>2, <1>3, <2>1, <2>2, <2>3, RequestKeeps
<1>5. CASE Claim(h)
  <2> DEFINE r == [source |-> "claimed", missing |-> {}, count |-> 0]
  <2>1. /\ UNCHANGED <<routed, scan, last, timer, gone, steady, patch>>
        /\ rows' = [rows EXCEPT ![h] = r] /\ edited' = edited \ {h}
    BY <1>5 DEF Claim, Request
  <2>2. r \in Row /\ r.missing \in NowTimes' /\ r.source # "observed"
    BY NewRow DEF NowTimes
  <2> HIDE DEF r
  <2>3. RowsTyped'
    BY <1>1, <1>3, <2>1, <2>2 DEF Typed, RowsTyped
  <2>4. routed' \in [Hosts -> Routes] /\ edited' \subseteq Hosts /\ steady' \subseteq Hosts
    BY <1>1, <2>1 DEF Typed
  <2>5. \A k \in Hosts : \/ rows'[k] = rows[k] /\ (k \in edited' <=> k \in edited)
                         \/ rows'[k].source # "observed"
    BY <1>1, <2>1, <2>2
  <2> QED
    BY <1>2, <1>3, <2>1, <2>3, <2>4, <2>5, RequestKeeps
<1>6. CASE Release(h)
  <2>1. /\ UNCHANGED <<routed, scan, last, timer, gone, steady, edited>>
        /\ rows' = [rows EXCEPT ![h] = Nothing] /\ Dropped({h})
    BY <1>6 DEF Release, Request
  <2>2. RowsTyped'
    BY <1>1, <1>3, <2>1 DEF Typed, RowsTyped
  <2>3. routed' \in [Hosts -> Routes] /\ edited' \subseteq Hosts /\ steady' \subseteq Hosts
    BY <1>1, <2>1 DEF Typed
  <2>4. PatchTyped'
    BY <1>1, <1>2, <2>1, DroppedKeeps
  <2>5. \A k \in Hosts : rows'[k] = rows[k] \/ rows'[k] = Nothing
    BY <1>1, <2>1
  <2> QED
    BY <1>2, <2>1, <2>2, <2>3, <2>4, <2>5, RequestKeeps
<1>7. CASE PatchRead(h)
  <2>1. /\ UNCHANGED <<routed, scan, last, timer, gone, steady, rows, edited>>
        /\ patch' = [on |-> h, row |-> rows[h]] /\ rows[h] # Nothing
    BY <1>7 DEF PatchRead, Request
  <2>2. PatchTyped'
    BY <1>1, <1>3, <2>1 DEF Typed, RowsTyped, PatchTyped
  <2>3. routed' \in [Hosts -> Routes] /\ edited' \subseteq Hosts /\ steady' \subseteq Hosts
    BY <1>1, <2>1 DEF Typed
  <2> QED
    BY <1>2, <1>3, <2>1, <2>2, <2>3, RequestKeeps
<1> QED
  BY <1>4, <1>5, <1>6, <1>7

LEMMA PatchWriteKeeps ==
    ASSUME OInv, PatchWrite
    PROVE  OInv'
<1>1. Typed /\ rows \in [Hosts -> Row \cup {Nothing}] /\ upsets \in 0..MaxUpsets
  BY DEF OInv, Typed, RowsTyped
<1>2. /\ UNCHANGED <<routed, scan, last, timer, gone, steady, upsets>>
      /\ edited' = edited \cup {patch.on} /\ patch' = NoPatch
      /\ patch \in [on : Hosts, row : Row] /\ patch.row.missing \in NowTimes
  BY <1>1 DEF PatchWrite, Typed, PatchTyped
<1>3. PICK to \in {"observed", "excluded"} :
         rows' = [rows EXCEPT ![patch.on] = [patch.row EXCEPT !.source = to]]
  BY DEF PatchWrite
<1> DEFINE r == [patch.row EXCEPT !.source = to]
<1>4. r \in Row /\ r.missing = patch.row.missing
  BY <1>2 DEF Row
<1> HIDE DEF r
<1>5. upsets' \in {upsets, upsets + 1} /\ upsets' \in 0..MaxUpsets
  BY <1>1, <1>2
<1>6. RowsTyped'
  <2>1. NowTimes \subseteq NowTimes'
    BY <1>1, <1>5, TypesGrow
  <2>2. rows' = [rows EXCEPT ![patch.on] = r]
    BY <1>3 DEF r
  <2> QED
    BY <1>1, <1>2, <1>4, <2>1, <2>2 DEF Typed, RowsTyped
<1>7. PatchTyped'
  BY <1>2 DEF PatchTyped
<1>8. routed' \in [Hosts -> Routes] /\ edited' \subseteq Hosts /\ steady' \subseteq Hosts
  BY <1>1, <1>2 DEF Typed
<1>9. \A k \in Hosts : \/ rows'[k] = rows[k] /\ (k \in edited' <=> k \in edited)
                       \/ k \in edited'
  BY <1>1, <1>2, <1>3
<1> QED
  BY <1>2, <1>5, <1>6, <1>7, <1>8, <1>9, RequestKeeps

-----------------------------------------------------------------------------
(* The observer: the transaction of a cycle. *)

\* What the transaction makes of a row that is there.
LEMMA MissingTyped ==
    ASSUME Typed, scan.at # {}, NEW r \in Row, r.missing \in NowTimes
    PROVE  /\ Missing(r) \in NowTimes /\ Missing(r) # {}
           /\ Count(r) \in 1..MinScans
           /\ [r EXCEPT !.missing = Missing(r), !.count = Count(r)] \in Row
           /\ [r EXCEPT !.missing = {}, !.count = 0] \in Row
<1>1. scan.at \in NowTimes /\ r.count \in 0..MinScans /\ NowTimes \subseteq Times /\ {} \in Times
  BY NowTimesAreTimes DEF Typed, ScanTyped, Row, Times
<1>2. Missing(r) \in NowTimes /\ Missing(r) # {}
  BY <1>1 DEF Missing, Fresh
<1>3. Count(r) \in 1..MinScans
  BY <1>1 DEF Count, MinScans
<1>4. Missing(r) \in Times /\ Count(r) \in 0..MinScans /\ Count(r) # 0
  BY <1>1, <1>2, <1>3 DEF MinScans
<1>5. [r EXCEPT !.missing = Missing(r), !.count = Count(r)] \in Row
  <2> HIDE DEF Typed
  <2> QED
    BY <1>2, <1>4 DEF Row
<1>6. [r EXCEPT !.missing = {}, !.count = 0] \in Row
  <2>1. r \in [source : {"observed", "excluded", "claimed"}, missing : Times, count : 0..MinScans]
    BY DEF Row
  <2>2. 0 \in 0..MinScans
    BY DEF MinScans
  <2>3. [r EXCEPT !.missing = {}, !.count = 0]
          \in [source : {"observed", "excluded", "claimed"}, missing : Times, count : 0..MinScans]
    BY <1>1, <2>1, <2>2
  <2> QED
    BY <2>1, <2>3 DEF Row
<1> QED
  BY <1>2, <1>3, <1>5, <1>6

LEMMA ReconciledTyped ==
    ASSUME Typed, scan.at # {}, NEW h \in Hosts
    PROVE  /\ Reconciled(h) \in Row \cup {Nothing}
           /\ Reconciled(h) # Nothing => Reconciled(h).missing \in NowTimes
<1> DEFINE r == rows[h]
<1>1. CASE r = Nothing \/ r.source # "observed"
  BY <1>1 DEF Reconciled, Typed, RowsTyped
<1>2. CASE r # Nothing /\ r.source = "observed"
  <2>1. r \in Row /\ r.missing \in NowTimes /\ {} \in NowTimes
    BY <1>2 DEF Typed, RowsTyped, NowTimes
  <2> DEFINE found == [r EXCEPT !.missing = {}, !.count = 0]
             missed == [r EXCEPT !.missing = Missing(r), !.count = Count(r)]
  <2>2. found \in Row /\ missed \in Row /\ found.missing \in NowTimes /\ missed.missing \in NowTimes
    <3>1. found.missing = {} /\ missed.missing = Missing(r)
      BY <2>1 DEF Row
    <3> QED
      BY <2>1, <3>1, MissingTyped
  <2>3. Reconciled(h) \in {found, Nothing, missed}
    BY <1>2 DEF Reconciled
  <2> QED
    BY <2>2, <2>3
<1> QED
  BY <1>1, <1>2

LEMMA AbsencesTyped ==
    ASSUME Typed, scan.at # {}, NEW h \in Hosts
    PROVE  /\ Absences(h) \in Run /\ Absences(h).latest = scan.at
           /\ RunOK(h) /\ Absences(h).scans > 0 => NotAfter(Absences(h).since, scan.at)
<1>1. scan.at \in NowTimes /\ gone[h] \in Run /\ {} \in NowTimes
  BY DEF Typed, ScanTyped, NowTimes
<1>2. NotAfter(scan.at, scan.at)
  <2>1. PICK a \in -upsets .. OldAge : scan.at = {a}
    BY <1>1 DEF NowTimes
  <2> QED
    BY <2>1 DEF NotAfter
<1>3. CASE h \in scan.found
  BY <1>1, <1>3 DEF Absences, Seen, Run, MinScans
<1>4. CASE h \notin scan.found /\ gone[h].scans > 0 /\ Within(gone[h].latest, scan.at, 2 * Interval)
  <2> DEFINE n == IF gone[h].scans < MinScans THEN gone[h].scans + 1 ELSE MinScans
  <2>1. Absences(h) = [scans |-> n, since |-> gone[h].since, latest |-> scan.at]
    BY <1>4 DEF Absences
  <2>2. n \in 0..MinScans /\ gone[h].since \in NowTimes
    BY <1>1 DEF Run, MinScans
  <2>3. RunOK(h) => NotAfter(gone[h].since, scan.at)
    <3> SUFFICES ASSUME RunOK(h) PROVE NotAfter(gone[h].since, scan.at)
      OBVIOUS
    <3>1. PICK a \in gone[h].since, b \in gone[h].latest : a >= b
      BY <1>4 DEF RunOK, NotAfter
    <3>2. PICK c \in gone[h].latest, e \in scan.at : 0 <= c - e
      BY <1>4 DEF Within, Between
    <3>3. b = c /\ a \in Int /\ b \in Int /\ e \in Int
      BY <1>1, <3>1, <3>2 DEF Run, NowTimes
    <3>4. a >= e
      BY <3>1, <3>2, <3>3
    <3> QED
      BY <3>1, <3>2, <3>4 DEF NotAfter
  <2> HIDE DEF n
  <2> QED
    BY <1>1, <2>1, <2>2, <2>3 DEF Run
<1>5. CASE h \notin scan.found /\ ~(gone[h].scans > 0 /\ Within(gone[h].latest, scan.at, 2 * Interval))
  <2>1. Absences(h) = [scans |-> 1, since |-> scan.at, latest |-> scan.at]
    BY <1>5 DEF Absences
  <2> QED
    BY <1>1, <1>2, <2>1 DEF Run, MinScans
<1> QED
  BY <1>3, <1>4, <1>5

\* The scans of a run are at least those that a row counts: a row goes on counting
\* only in the run that its count is of.
LEMMA CountsAreScans ==
    ASSUME OInv, scan.step = "apply", NEW h \in Hosts, h \notin edited, h \notin scan.found,
           rows[h] # Nothing, rows[h].source = "observed"
    PROVE  /\ Count(rows[h]) <= Absences(h).scans
           /\ NotAfter(Absences(h).since, Missing(rows[h]))
<1> DEFINE r == rows[h]
<1>1. /\ Typed /\ scan.at \in NowTimes /\ scan.at # {} /\ gone[h] \in Run
      /\ r \in Row /\ r.missing \in NowTimes /\ last \in NowTimes
      /\ RunOK(h) /\ CountsOK(h) /\ ResetOK
  BY DEF OInv, Typed, ScanTyped, RowsTyped
<1>2. Absences(h) \in Run /\ (Absences(h).scans > 0 => NotAfter(Absences(h).since, scan.at))
  BY <1>1, AbsencesTyped
<1>3. CASE Fresh(r)
  <2>1. Missing(r) = scan.at /\ Count(r) = 1
    BY <1>3 DEF Missing, Count
  <2>2. Absences(h).scans \in 1..MinScans
    BY <1>1 DEF Absences, Run, MinScans
  <2> QED
    BY <1>2, <2>1, <2>2
<1>4. CASE ~Fresh(r)
  <2>1. /\ ~scan.reset /\ r.missing # {} /\ Missing(r) = r.missing
        /\ Count(r) = IF r.count < MinScans THEN r.count + 1 ELSE MinScans
    BY <1>4 DEF Fresh, Missing, Count
  <2>2. Within(last, scan.at, 2 * Interval)
    BY <1>1, <2>1 DEF ResetOK
  <2>3. last # {}
    BY <2>2 DEF Within
  <2>4. gone[h].latest = last /\ r.count <= gone[h].scans /\ NotAfter(gone[h].since, r.missing)
    BY <1>1, <2>1, <2>3 DEF CountsOK
  <2>5. r.count \in 1..MinScans /\ gone[h].scans \in 0..MinScans
    BY <1>1, <2>1 DEF Row, Run, MinScans
  <2>6. Absences(h) = [scans |-> IF gone[h].scans < MinScans THEN gone[h].scans + 1 ELSE MinScans,
                       since |-> gone[h].since, latest |-> scan.at]
    <3>1. gone[h].scans > 0
      BY <2>4, <2>5 DEF MinScans
    <3> QED
      BY <2>2, <2>4, <3>1 DEF Absences
  <2>7. Count(r) <= Absences(h).scans
    BY <2>1, <2>4, <2>5, <2>6 DEF MinScans
  <2> QED
    BY <2>1, <2>4, <2>6, <2>7
<1> QED
  BY <1>3, <1>4

LEMMA ApplyKeeps ==
    ASSUME OInv, Apply
    PROVE  OInv'
<1>1. /\ Typed /\ scan \in Scan /\ scan.at \in NowTimes /\ scan.at # {}
      /\ upsets \in 0..MaxUpsets /\ scan.step = "apply"
  BY DEF OInv, Typed, ScanTyped, Apply
<1>2. /\ rows' = [h \in Hosts |-> Reconciled(h)] /\ gone' = [h \in Hosts |-> Absences(h)]
      /\ last' = scan.at /\ scan' = NoScan
      /\ Dropped({h \in Hosts : Reconciled(h) = Nothing})
      /\ UNCHANGED <<routed, timer, steady, edited, upsets>>
  BY DEF Apply
<1>3. upsets' \in {upsets, upsets + 1} /\ upsets' \in 0..MaxUpsets
  BY <1>1, <1>2
<1>4. NowTimes \subseteq NowTimes' /\ Run \subseteq Run'
  BY <1>1, <1>3, TypesGrow
<1>5. Typed'
  <2>1. RowsTyped'
    BY <1>1, <1>2, <1>4, ReconciledTyped DEF RowsTyped
  <2>2. PatchTyped'
    BY <1>1, <1>2, <1>3, DroppedKeeps
  <2>3. ScanTyped'
    BY <1>2 DEF ScanTyped, NoScan, Scan, Times, NowTimes
  <2>4. gone' \in [Hosts -> Run'] /\ last' \in NowTimes'
    BY <1>1, <1>2, <1>4, AbsencesTyped
  <2> QED
    BY <1>1, <1>2, <2>1, <2>2, <2>3, <2>4 DEF Typed
<1>6. ResetOK'
  BY <1>2 DEF ResetOK, NoScan
<1>7. ASSUME NEW h \in Hosts PROVE RunOK(h)' /\ CountsOK(h)' /\ FoundOK(h)'
  <2>1. RunOK(h)'
    <3>1. gone'[h] = Absences(h) /\ RunOK(h)
      BY <1>2 DEF OInv
    <3> QED
      BY <1>1, <3>1, AbsencesTyped DEF RunOK
  <2>2. FoundOK(h)'
    BY <1>2 DEF FoundOK, NoScan
  <2>3. CountsOK(h)'
    <3> SUFFICES ASSUME h \notin edited, Reconciled(h) # Nothing, Reconciled(h).source = "observed",
                        Reconciled(h).missing # {}
                 PROVE  /\ Absences(h).latest = scan.at
                        /\ Reconciled(h).count <= Absences(h).scans
                        /\ NotAfter(Absences(h).since, Reconciled(h).missing)
      BY <1>2 DEF CountsOK
    <3> DEFINE r == rows[h]
    <3>1. r # Nothing /\ r.source = "observed" /\ r \in Row
      <4>1. r # Nothing
        BY DEF Reconciled
      <4>2. r \in Row
        BY <1>1, <4>1 DEF Typed, RowsTyped
      <4> QED
        BY <4>1, <4>2 DEF Reconciled
    <3>2. h \notin scan.found /\ Reconciled(h) = [r EXCEPT !.missing = Missing(r), !.count = Count(r)]
      <4>1. [r EXCEPT !.missing = {}, !.count = 0].missing = {}
        BY <3>1 DEF Row
      <4> QED
        BY <3>1, <4>1 DEF Reconciled
    <3>3. Reconciled(h).missing = Missing(r) /\ Reconciled(h).count = Count(r)
      BY <3>1, <3>2 DEF Row
    <3>4. Count(r) <= Absences(h).scans /\ NotAfter(Absences(h).since, Missing(r))
      BY <1>1, <3>1, <3>2, CountsAreScans
    <3> QED
      BY <1>1, <3>3, <3>4, AbsencesTyped
  <2> QED
    BY <2>1, <2>2, <2>3
<1> QED
  BY <1>5, <1>6, <1>7 DEF OInv

-----------------------------------------------------------------------------
(* The observer: failures and the clock. *)

\* Whatever a failed cycle has written, nothing is counted on from there.
LEMMA FailureKeeps ==
    ASSUME OInv, Failed, last' = {}, RowsTyped', PatchTyped', edited' \subseteq Hosts,
           UNCHANGED <<routed, timer, steady>>
    PROVE  OInv'
<1>1. Typed /\ scan' = NoScan /\ gone' = [h \in Hosts |-> Seen] /\ Upset
  BY DEF OInv, Failed
<1>2. upsets' \in {upsets, upsets + 1} /\ upsets' \in 0..MaxUpsets
  BY <1>1, OneUpset
<1>3. timer <= Interval + upsets'
  BY <1>1, <1>2, TypesGrow
<1>4. {} \in NowTimes'
  BY DEF NowTimes
<1>5. ScanTyped' /\ gone' \in [Hosts -> Run']
  BY <1>1, <1>4 DEF ScanTyped, NoScan, Scan, Times, Run, Seen, MinScans
<1>6. Typed'
  BY <1>1, <1>2, <1>3, <1>4, <1>5 DEF Typed
<1>7. ResetOK' /\ \A h \in Hosts : RunOK(h)' /\ CountsOK(h)' /\ FoundOK(h)'
  BY <1>1 DEF ResetOK, RunOK, CountsOK, FoundOK, NoScan, Seen
<1> QED
  BY <1>6, <1>7 DEF OInv

LEMMA ScanFailsKeeps ==
    ASSUME OInv, ScanFails
    PROVE  OInv'
<1>1. /\ Typed /\ scan \in Scan /\ scan.own \subseteq Hosts
      /\ (scan.step = "apply" => scan.at # {}) /\ edited \subseteq Hosts
  BY DEF OInv, Typed, ScanTyped, Scan
<1>2. Failed /\ Upset /\ last' = {} /\ UNCHANGED <<routed, timer, steady>>
  BY DEF ScanFails, Failed, AfterFailure
<1>3. upsets' \in {upsets, upsets + 1} /\ upsets' \in 0..MaxUpsets
  BY <1>1, <1>2, OneUpset
<1>4. /\ UNCHANGED rows => RowsTyped'
      /\ UNCHANGED patch => PatchTyped'
      /\ NowTimes \subseteq NowTimes'
  BY <1>1, <1>3, TypesGrow
<1>5. CASE UNCHANGED <<rows, patch, edited>>
  BY <1>1, <1>2, <1>4, <1>5, FailureKeeps
<1>6. ASSUME NEW H \in SUBSET {h \in scan.own : rows[h] = Nothing},
             rows' = [h \in Hosts |-> IF h \in H THEN Imported ELSE rows[h]],
             edited' = edited \ H, patch' = patch
      PROVE  OInv'
  <2>1. RowsTyped'
    BY <1>1, <1>3, <1>6, ImportedRows
  <2> QED
    BY <1>1, <1>2, <1>4, <1>6, <2>1, FailureKeeps
<1>7. ASSUME scan.step = "apply", rows' = [h \in Hosts |-> Reconciled(h)],
             Dropped({h \in Hosts : Reconciled(h) = Nothing}), edited' = edited
      PROVE  OInv'
  <2>1. RowsTyped'
    BY <1>1, <1>4, <1>7, ReconciledTyped DEF RowsTyped
  <2>2. PatchTyped'
    BY <1>1, <1>3, <1>7, DroppedKeeps
  <2> QED
    BY <1>1, <1>2, <1>7, <2>1, <2>2, FailureKeeps
<1> QED
  BY <1>5, <1>6, <1>7 DEF ScanFails

LEMMA RestartKeeps ==
    ASSUME OInv, Restart
    PROVE  OInv'
<1>1. Typed /\ Failed /\ Upset /\ last' = {} /\ patch' = NoPatch
      /\ UNCHANGED <<routed, rows, timer, steady, edited>>
  BY DEF OInv, Restart, Failed
<1>2. RowsTyped' /\ PatchTyped' /\ edited' \subseteq Hosts
  <2>1. upsets' \in {upsets, upsets + 1} /\ upsets' \in 0..MaxUpsets
    BY <1>1, OneUpset
  <2> QED
    BY <1>1, <2>1, TypesGrow DEF PatchTyped, Typed
<1> QED
  BY <1>1, <1>2, FailureKeeps

LEMMA TimeKeeps ==
    ASSUME OInv, Tick \/ SetBack
    PROVE  OInv'
<1>1. Typed /\ timer \in Nat /\ upsets \in Nat /\ upsets <= MaxUpsets /\ timer <= Interval + upsets
  BY Periods DEF OInv, Typed
<1>2. CASE Tick
  <2>1. Clock(1) /\ timer' = timer + 1 /\ UNCHANGED <<routed, steady, edited>>
    BY <1>2 DEF Tick
  <2>2. upsets' \in 0..MaxUpsets /\ timer' \in Nat /\ timer' <= Interval + upsets'
    <3>1. CASE timer < Interval /\ upsets' = upsets
      BY <1>1, <2>1, <3>1, Periods
    <3>2. CASE timer >= Interval /\ Upset
      BY <1>1, <2>1, <3>2, Periods DEF Upset
    <3> QED
      BY <1>2, <3>1, <3>2 DEF Tick
  <2>3. Moves(1)
    BY <1>2 DEF Tick, Upset, Moves
  <2> QED
    BY <2>1, <2>2, <2>3, ClockKeeps
<1>3. CASE SetBack
  <2>1. /\ Clock(-1) /\ timer' = timer /\ UNCHANGED <<routed, steady, edited>>
        /\ upsets < MaxUpsets /\ upsets' = upsets + 1
    BY <1>3 DEF SetBack, Upset
  <2>2. upsets' \in 0..MaxUpsets /\ timer' \in Nat /\ timer' <= Interval + upsets'
    BY <1>1, <2>1, Periods
  <2>3. Moves(-1)
    BY <2>1 DEF Moves
  <2> QED
    BY <2>1, <2>2, <2>3, ClockKeeps
<1> QED
  BY <1>2, <1>3

LEMMA InitOInv ==
    ASSUME Init
    PROVE  OInv
<1>1. {} \in NowTimes /\ {} \in Times
  BY DEF NowTimes, Times
<1>2. Typed
  BY <1>1, Periods DEF Init, Typed, RowsTyped, PatchTyped, ScanTyped, Routes, NoScan, Scan, Seen, Run,
                       MinScans
<1> QED
  BY <1>2 DEF Init, OInv, ResetOK, RunOK, CountsOK, FoundOK, NoScan, Seen

LEMMA NextOInv ==
    ASSUME OInv, [Next]_vars
    PROVE  OInv'
<1>1. CASE UNCHANGED vars
  BY <1>1 DEF vars, OInv, Typed, RowsTyped, PatchTyped, ScanTyped, NowTimes, Run, ResetOK, RunOK,
              CountsOK, FoundOK
<1> QED
  BY <1>1, TimeKeeps, ListRoutesKeeps, ListIngressesKeeps, ImportKeeps, ApplyKeeps, ScanFailsKeeps,
     RestartKeeps, ClusterKeeps, PatchWriteKeeps DEF Next, Cycle

\* The counts in the rows never run ahead of the scans, whatever the clock, the
\* cluster, the API and failures do in between (observe/k8s.go:176-299,
\* store/observation.go:31-121).
THEOREM ObserverInvariance == Spec => []OInv
<1>1. Init => OInv
  BY InitOInv
<1>2. OInv /\ [Next]_vars => OInv'
  BY NextOInv
<1> QED
  BY <1>1, <1>2, PTL DEF Spec

\* Every variable of the observer keeps its type; no age leaves its bounds.
THEOREM ObserverTypeCorrect == Spec => []TypeOK
<1>1. OInv => TypeOK
  BY TypedIsTypeOK DEF OInv
<1> QED
  BY <1>1, ObserverInvariance, PTL

-----------------------------------------------------------------------------
(* The observer: what it retires. *)

\* A row goes only by a reconciliation that finds it overdue.
LEMMA RetiredIsOverdue ==
    ASSUME OInv, [Next]_vars, NEW h \in Hosts, Retires(h)
    PROVE  /\ h \notin scan.found /\ rows[h].source = "observed" /\ Overdue(rows[h])
           /\ Reconciled(h) = Nothing
<1>1. Typed /\ scan.at # {} /\ rows[h] # Nothing /\ rows[h] \in Row /\ scan.step = "apply"
  BY DEF Retires, OInv, Typed, ScanTyped, RowsTyped
<1>2. rows'[h] = Reconciled(h) \/ rows'[h] = rows[h]
  <2>1. scan.step = "apply" /\ scan'.step = "idle"
    BY DEF Retires
  <2>2. CASE Apply
    BY <2>2 DEF Apply
  <2>3. CASE ScanFails
    BY <2>1, <2>3 DEF ScanFails
  <2>4. CASE Restart
    BY <2>4 DEF Restart
  <2>5. CASE ListRoutes \/ ListIngresses \/ Import
    BY <2>1, <2>5 DEF ListRoutes, ListIngresses, Import
  <2>6. CASE Tick \/ SetBack
    <3>1. scan' = [scan EXCEPT !.at = scan'.at]
      BY <2>6 DEF Tick, SetBack, Clock
    <3>2. scan'.step = scan.step
      BY <1>1, <3>1 DEF Typed, ScanTyped, Scan
    <3> QED
      BY <2>1, <3>2
  <2>7. CASE PatchWrite \/ UNCHANGED vars \/ \E k \in Hosts : ChangeRoute(k) \/ Claim(k) \/ Release(k) \/ PatchRead(k)
    <3>1. scan' = scan
      BY <2>7 DEF PatchWrite, vars, ChangeRoute, Claim, Release, PatchRead, Request
    <3> QED
      BY <2>1, <3>1
  <2> QED
    BY <2>2, <2>3, <2>4, <2>5, <2>6, <2>7 DEF Next, Cycle
<1>3. Reconciled(h) = Nothing
  BY <1>1, <1>2 DEF Retires
<1>4. /\ [rows[h] EXCEPT !.missing = Missing(rows[h]), !.count = Count(rows[h])] \in Row
      /\ [rows[h] EXCEPT !.missing = {}, !.count = 0] \in Row
  BY <1>1, MissingTyped DEF Typed, RowsTyped
<1> QED
  BY <1>1, <1>3, <1>4, NothingAssumption DEF Reconciled

LEMMA OverdueIsLongGone ==
    ASSUME OInv, scan.step = "apply", NEW h \in Hosts, h \notin edited, h \notin scan.found,
           rows[h] # Nothing, rows[h].source = "observed", Overdue(rows[h])
    PROVE  LongGone(h)
<1> DEFINE r == rows[h]
<1>1. Typed /\ scan.at # {} /\ scan.at \in NowTimes /\ r \in Row /\ r.missing \in NowTimes
  BY DEF OInv, Typed, ScanTyped, RowsTyped
<1>2. Count(r) <= Absences(h).scans /\ NotAfter(Absences(h).since, Missing(r))
  BY CountsAreScans
<1>3. Absences(h) \in Run /\ Missing(r) \in NowTimes /\ Count(r) \in 1..MinScans
  BY <1>1, AbsencesTyped, MissingTyped
<1>4. PICK a \in Missing(r), b \in scan.at : a - b >= Grace
  BY DEF Overdue, Between
<1>5. PICK c \in Absences(h).since, e \in Missing(r) : c >= e
  BY <1>2 DEF NotAfter
<1>6. a = e /\ a \in Int /\ b \in Int /\ c \in Int
  BY <1>1, <1>3, <1>4, <1>5 DEF NowTimes, Run
<1>7. c - b >= Grace
  BY <1>4, <1>5, <1>6, Periods
<1>8. Absences(h).scans >= MinScans
  BY <1>2, <1>3 DEF Overdue, Run, MinScans
<1> QED
  BY <1>4, <1>5, <1>7, <1>8 DEF LongGone, Between

\* A row no PATCH has written is retired only after three successful scans in a row
\* without its host, over at least the grace period (store/observation.go:73-78,
\* observe/k8s.go:258 and 288).
THEOREM RetirementsAreEarned == Spec => RetiresOnlyMissing
<1>1. OInv /\ [Next]_vars => \A h \in Hosts : Retires(h) => h \in edited \/ LongGone(h)
  <2> SUFFICES ASSUME OInv, [Next]_vars, NEW h \in Hosts, Retires(h), h \notin edited
               PROVE  LongGone(h)
    OBVIOUS
  <2>1. h \notin scan.found /\ rows[h].source = "observed" /\ Overdue(rows[h])
    BY RetiredIsOverdue
  <2> QED
    BY <2>1, OverdueIsLongGone DEF Retires
<1> QED
  BY <1>1, ObserverInvariance, PTL DEF Spec, RetiresOnlyMissing

\* A host that the cluster serves all through a cycle is not retired by it, though
\* the two lists are read one after the other (observe/k8s.go:176-244).
THEOREM ServedHostsStay == Spec => ServedStays
<1>1. OInv /\ [Next]_vars => \A h \in Hosts : Retires(h) => h \notin steady \/ routed[h] = "none"
  <2> SUFFICES ASSUME OInv, [Next]_vars, NEW h \in Hosts, Retires(h), h \in steady, routed[h] # "none"
               PROVE  FALSE
    OBVIOUS
  <2>1. h \notin scan.found /\ scan.step = "apply"
    BY RetiredIsOverdue DEF Retires
  <2> QED
    BY <2>1 DEF OInv, FoundOK
<1> QED
  BY <1>1, ObserverInvariance, PTL DEF Spec, ServedStays

-----------------------------------------------------------------------------
(* The observer: what a cycle achieves. *)

\* Of a host served alike since the cycle began its two lists say exactly how the
\* cluster serves it, though they were read one after the other.
ListsOK == \A h \in steady :
    /\ scan.step = "ingresses" => /\ h \in scan.own <=> routed[h] = "route"
                                  /\ h \in scan.found <=> routed[h] \in {"route", "managed"}
    /\ scan.step \in {"import", "apply"} => /\ h \in scan.own <=> routed[h] \in {"route", "ingress"}
                                            /\ h \in scan.found <=> routed[h] # "none"

LEMMA ListsStay ==
    ASSUME Typed, ListsOK, [Next]_vars
    PROVE  ListsOK'
<1>1. scan \in Scan /\ routed \in [Hosts -> Routes] /\ steady \subseteq Hosts
  BY DEF Typed, ScanTyped
<1>2. ASSUME scan'.step = "idle"
      PROVE  ListsOK'
  BY <1>2 DEF ListsOK
<1>3. ASSUME routed' = routed, steady' = steady, scan'.found = scan.found, scan'.own = scan.own,
             scan'.step = scan.step \/ (scan.step = "import" /\ scan'.step = "apply")
      PROVE  ListsOK'
  BY <1>3 DEF ListsOK
<1>4. CASE Tick \/ SetBack
  <2>1. Clock(1) \/ Clock(-1)
    BY <1>4 DEF Tick, SetBack
  <2>2. scan' = [scan EXCEPT !.at = Moved(@, 1)] \/ scan' = [scan EXCEPT !.at = Moved(@, -1)]
    BY <2>1 DEF Clock
  <2>3. scan'.step = scan.step /\ scan'.found = scan.found /\ scan'.own = scan.own
    BY <1>1, <2>2 DEF Scan
  <2>4. routed' = routed /\ steady' = steady
    BY <1>4 DEF Tick, SetBack
  <2> QED
    BY <1>3, <2>3, <2>4
<1>5. CASE ListRoutes
  <2>1. /\ scan'.step = "ingresses" /\ scan'.own = {h \in Hosts : routed[h] = "route"}
        /\ scan'.found = {h \in Hosts : routed[h] \in {"route", "managed"}}
        /\ steady' = Hosts /\ routed' = routed
    BY <1>5 DEF ListRoutes, NoScan
  <2> QED
    BY <2>1 DEF ListsOK
<1>6. CASE ListIngresses
  <2> DEFINE H == {h \in Hosts : routed[h] = "ingress"}
  <2>1. /\ scan.step = "ingresses" /\ scan'.step = "import" /\ scan'.own = scan.own \cup H
        /\ scan'.found = scan.found \cup H /\ steady' = steady /\ routed' = routed
    BY <1>1, <1>6 DEF ListIngresses, BothLists, Scan
  <2>2. ASSUME NEW h \in steady
        PROVE  /\ h \in scan'.own <=> routed[h] \in {"route", "ingress"}
               /\ h \in scan'.found <=> routed[h] # "none"
    <3>1. h \in Hosts /\ routed[h] \in Routes
      BY <1>1
    <3>2. /\ h \in scan.own <=> routed[h] = "route"
          /\ h \in scan.found <=> routed[h] \in {"route", "managed"}
          /\ h \in H <=> routed[h] = "ingress"
      BY <2>1, <3>1 DEF ListsOK
    <3> HIDE DEF H
    <3> QED
      BY <2>1, <3>1, <3>2 DEF Routes
  <2> QED
    BY <2>1, <2>2 DEF ListsOK
<1>7. CASE Import
  <2>1. /\ scan.step = "import" /\ scan'.step = "apply" /\ scan'.found = scan.found
        /\ scan'.own = scan.own /\ routed' = routed /\ steady' = steady
    BY <1>1, <1>7 DEF Import, Scan
  <2> QED
    BY <1>3, <2>1
<1>8. CASE Apply \/ ScanFails \/ Restart
  <2>1. scan'.step = "idle"
    BY <1>8 DEF Apply, ScanFails, Restart, Failed, NoScan
  <2> QED
    BY <1>2, <2>1
<1>9. ASSUME NEW h \in Hosts, ChangeRoute(h)
      PROVE  ListsOK'
  <2>1. /\ scan' = scan /\ steady' = steady \ {h}
        /\ \A k \in steady' : routed'[k] = routed[k]
    BY <1>1, <1>9 DEF ChangeRoute
  <2> QED
    BY <2>1 DEF ListsOK
<1>10. CASE \/ \E h \in Hosts : Claim(h) \/ Release(h) \/ PatchRead(h)
            \/ PatchWrite \/ UNCHANGED vars
  <2>1. routed' = routed /\ steady' = steady /\ scan' = scan
    BY <1>10 DEF Claim, Release, PatchRead, PatchWrite, Request, vars
  <2> QED
    BY <1>3, <2>1
<1> QED
  BY <1>4, <1>5, <1>6, <1>7, <1>8, <1>9, <1>10 DEF Next, Cycle

\* The transaction finds the row of h, which nothing serves: it goes, or the
\* absence counts one scan more, or all there is to wait for is the grace period;
\* an absence that a gap or the clock made void begins anew.
CountedOn(h) ==
    \/ rows'[h] = Nothing
    \/ /\ Fresh(rows[h])
       /\ rows'[h].count = 1 /\ rows'[h].missing = scan.at
    \/ /\ rows'[h].missing = rows[h].missing
       /\ \/ rows'[h].count > rows[h].count
          \/ /\ rows'[h].count = MinScans
             /\ \A a \in rows[h].missing, b \in scan.at : Between(a, b) < Grace

\* What a cycle does for a host that stays as it is: a row once the imports are
\* made, if the cluster serves it by itself, and one step towards the end of its
\* row if nothing does.
CycleAdvances ==
    [][\A h \in steady :
          /\ Import /\ routed[h] \in {"route", "ingress"} => rows'[h] # Nothing
          /\ /\ Apply /\ routed[h] = "none" /\ rows[h] # Nothing
             /\ rows[h].source = "observed"
             => CountedOn(h)]_vars

LEMMA ImportsAreMade ==
    ASSUME Typed, ListsOK, Import, NEW h \in steady, routed[h] \in {"route", "ingress"}
    PROVE  rows'[h] # Nothing
<1>1. h \in Hosts /\ h \in scan.own
  BY DEF Typed, ListsOK, Import
<1>2. Imported # Nothing
  BY NewRow, NothingAssumption DEF Imported
<1> QED
  BY <1>1, <1>2 DEF Import

LEMMA AbsencesCountOn ==
    ASSUME Typed, ListsOK, Apply, NEW h \in steady, routed[h] = "none", rows[h] # Nothing,
           rows[h].source = "observed"
    PROVE  CountedOn(h)
<1> DEFINE r == rows[h]
<1>1. /\ h \in Hosts /\ h \notin scan.found /\ r \in Row /\ rows'[h] = Reconciled(h)
      /\ scan.at \in NowTimes /\ scan.at # {} /\ r.missing \in NowTimes /\ Grace \in Nat
  BY Periods DEF Typed, RowsTyped, ScanTyped, ListsOK, Apply
<1>2. CASE Overdue(r)
  BY <1>1, <1>2 DEF Reconciled, CountedOn
<1>3. CASE ~ Overdue(r)
  <2>1. rows'[h] = [r EXCEPT !.missing = Missing(r), !.count = Count(r)]
    BY <1>1, <1>3 DEF Reconciled
  <2>2. rows'[h].missing = Missing(r) /\ rows'[h].count = Count(r)
    BY <1>1, <2>1 DEF Row
  <2>3. CASE Fresh(r)
    BY <2>2, <2>3 DEF Missing, Count, CountedOn
  <2>4. CASE ~ Fresh(r)
    <3>1. /\ rows'[h].missing = r.missing /\ r.count \in 0..MinScans
          /\ rows'[h].count = IF r.count < MinScans THEN r.count + 1 ELSE MinScans
      BY <1>1, <2>2, <2>4 DEF Missing, Count, Row
    <3>2. CASE r.count < MinScans
      BY <3>1, <3>2 DEF CountedOn, MinScans
    <3>3. CASE ~ (r.count < MinScans)
      <4>1. Count(r) >= MinScans /\ Missing(r) = r.missing /\ rows'[h].count = MinScans
        BY <2>2, <3>1, <3>3 DEF MinScans
      <4>2. ASSUME NEW a \in r.missing, NEW b \in scan.at
            PROVE  Between(a, b) < Grace
        <5>1. ~ (Between(a, b) >= Grace)
          BY <1>3, <4>1 DEF Overdue
        <5>2. a \in Int /\ b \in Int
          BY <1>1 DEF NowTimes
        <5> QED
          BY <1>1, <5>1, <5>2 DEF Between
      <4> QED
        BY <3>1, <4>1, <4>2 DEF CountedOn
    <3> QED
      BY <3>2, <3>3
  <2> QED
    BY <2>3, <2>4
<1> QED
  BY <1>2, <1>3

\* The safety half of Converges (observe/k8s.go:166-299 and 399-415,
\* store/observation.go:31-121).
THEOREM CyclesAdvance == Spec => CycleAdvances
<1>1. Init => ListsOK
  BY DEF Init, ListsOK
<1>2. OInv /\ ListsOK /\ [Next]_vars => ListsOK'
  BY ListsStay DEF OInv
<1>3. OInv /\ ListsOK /\ [Next]_vars
      => [\A h \in steady :
             /\ Import /\ routed[h] \in {"route", "ingress"} => rows'[h] # Nothing
             /\ /\ Apply /\ routed[h] = "none" /\ rows[h] # Nothing
                /\ rows[h].source = "observed"
                => CountedOn(h)]_vars
  BY ImportsAreMade, AbsencesCountOn DEF OInv
<1> QED
  BY <1>1, <1>2, <1>3, ObserverInvariance, PTL DEF Spec, CycleAdvances

-----------------------------------------------------------------------------
(* The route table: names. *)

LEMMA ReverseIs ==
    ASSUME NEW S, NEW s \in Seq(S)
    PROVE  /\ Reverse(s) \in Seq(S) /\ Len(Reverse(s)) = Len(s)
           /\ \A i \in 1..Len(s) : Reverse(s)[i] = s[Len(s) - i + 1]
<1>1. Len(s) \in Nat /\ \A i \in 1..Len(s) : s[i] \in S
  BY LenProperties, ElementOfSeq
<1>2. \A i \in 1..Len(s) : Len(s) - i + 1 \in 1..Len(s)
  BY <1>1
<1>3. Reverse(s) = [i \in 1..Len(s) |-> s[Len(s) - i + 1]]
  BY DEF Reverse
<1>4. Reverse(s) \in [1..Len(s) -> S]
  BY <1>1, <1>2, <1>3
<1> QED
  BY <1>1, <1>3, <1>4

\* What strings.HasSuffix(t, "." + s) looks at.
LEMMA StrictSuffixIs ==
    ASSUME NEW S, NEW s \in Seq(S), NEW t \in Seq(S)
    PROVE  IsStrictSuffix(s, t) <=>
              Len(s) < Len(t) /\ \A i \in 1..Len(s) : s[i] = t[Len(t) - Len(s) + i]
<1> DEFINE m == Len(s)
           n == Len(t)
           r == Reverse(s)
           q == Reverse(t)
<1>1. m \in Nat /\ n \in Nat
  BY LenProperties
<1>2. /\ r \in Seq(S) /\ Len(r) = m /\ \A i \in 1..m : r[i] = s[m - i + 1]
      /\ q \in Seq(S) /\ Len(q) = n /\ \A i \in 1..n : q[i] = t[n - i + 1]
  BY ReverseIs
<1>3. IsStrictSuffix(s, t) <=> m <= n /\ SubSeq(r, 1, m) = SubSeq(q, 1, m) /\ s # t
  BY <1>2 DEF IsStrictSuffix, IsSuffix, IsPrefix
<1> HIDE DEF r, q
<1>4. SubSeq(r, 1, m) = r
  BY <1>2, SubSeqFull
<1>5. ASSUME m <= n
      PROVE  SubSeq(r, 1, m) = SubSeq(q, 1, m) <=> \A i \in 1..m : r[i] = q[i]
  <2>1. \A i \in 1..m : q[i] \in S
    BY <1>1, <1>2, <1>5, ElementOfSeq
  <2>2. /\ SubSeq(q, 1, m) \in Seq(S) /\ Len(SubSeq(q, 1, m)) = m
        /\ \A i \in 1..m : SubSeq(q, 1, m)[i] = q[i]
    <3>1. /\ SubSeq(q, 1, m) \in Seq(S)
          /\ Len(SubSeq(q, 1, m)) = IF 1 <= m THEN m - 1 + 1 ELSE 0
          /\ \A i \in 1..m - 1 + 1 : SubSeq(q, 1, m)[i] = q[1 + i - 1]
      BY <1>1, <2>1, SubSeqProperties
    <3> QED
      BY <1>1, <3>1
  <2> QED
    BY <1>2, <1>4, <2>2, SeqEqual
<1>6. ASSUME m <= n
      PROVE  (\A i \in 1..m : r[i] = q[i]) <=> \A i \in 1..m : s[i] = t[n - m + i]
  <2>1. \A i \in 1..m : m - i + 1 \in 1..m /\ m - (m - i + 1) + 1 = i /\ n - m + (m - i + 1) = n - i + 1
                        /\ n - (m - i + 1) + 1 = n - m + i
    BY <1>1
  <2>2. \A i \in 1..m : r[i] = s[m - i + 1] /\ q[i] = t[n - i + 1]
    BY <1>1, <1>2, <1>6
  <2>3. ASSUME \A i \in 1..m : r[i] = q[i], NEW i \in 1..m
        PROVE  s[i] = t[n - m + i]
    <3> DEFINE j == m - i + 1
    <3>1. j \in 1..m /\ m - j + 1 = i /\ n - j + 1 = n - m + i
      BY <2>1
    <3> QED
      BY <2>2, <2>3, <3>1
  <2>4. ASSUME \A i \in 1..m : s[i] = t[n - m + i], NEW i \in 1..m
        PROVE  r[i] = q[i]
    <3> DEFINE j == m - i + 1
    <3>1. j \in 1..m /\ n - m + j = n - i + 1
      BY <2>1
    <3>2. s[j] = t[n - m + j]
      BY <2>4, <3>1
    <3> QED
      BY <2>2, <3>1, <3>2
  <2> QED
    BY <2>3, <2>4
<1>7. ASSUME m = n, \A i \in 1..m : s[i] = t[n - m + i]
      PROVE  s = t
  <2>1. \A i \in 1..m : s[i] = t[i]
    BY <1>1, <1>7
  <2> QED
    BY <1>7, <2>1, SeqEqual
<1> HIDE DEF m, n
<1>8. IsStrictSuffix(s, t) => m < n /\ \A i \in 1..m : s[i] = t[n - m + i]
  BY <1>1, <1>3, <1>5, <1>6, <1>7
<1>9. m < n /\ (\A i \in 1..m : s[i] = t[n - m + i]) => IsStrictSuffix(s, t)
  <2>1. m < n => m <= n /\ s # t
    BY <1>1 DEF m, n
  <2> QED
    BY <1>3, <1>5, <1>6, <2>1
<1> QED
  BY <1>8, <1>9 DEF m, n

\* A wildcard matches what lies below its name.
LEMMA StrictSuffixIsBelow ==
    ASSUME NEW S, NEW s \in Seq(S), NEW t \in Seq(S), s # <<>>
    PROVE  IsStrictSuffix(s, t) <=> Below(t, s)
<1> DEFINE m == Len(s)
           n == Len(t)
<1>1. m \in Nat \ {0} /\ n \in Nat
  BY EmptySeq, LenProperties
<1>2. \A i \in 1..n : t[i] \in S
  BY ElementOfSeq
<1>3. ASSUME NEW i \in 2..n
      PROVE  SubSeq(t, i, n) = s <=> n - i + 1 = m /\ \A k \in 1..m : s[k] = t[n - m + k]
  <2>1. /\ SubSeq(t, i, n) \in Seq(S)
        /\ Len(SubSeq(t, i, n)) = IF i <= n THEN n - i + 1 ELSE 0
        /\ \A k \in 1..n - i + 1 : SubSeq(t, i, n)[k] = t[i + k - 1]
    <3>1. \A k \in i..n : t[k] \in S
      BY <1>1, <1>2
    <3> QED
      BY <1>1, <3>1, SubSeqProperties
  <2>2. ASSUME n - i + 1 = m
        PROVE  \A k \in 1..m : SubSeq(t, i, n)[k] = t[n - m + k]
    <3>1. \A k \in 1..m : i + k - 1 = n - m + k
      BY <1>1, <2>2
    <3> QED
      BY <2>1, <2>2, <3>1
  <2>3. Len(SubSeq(t, i, n)) = n - i + 1
    BY <1>1, <2>1
  <2> QED
    BY <2>1, <2>2, <2>3, SeqEqual
<1>4. Below(t, s) <=> m < n /\ \A k \in 1..m : s[k] = t[n - m + k]
  <2>1. Below(t, s) => m < n /\ \A k \in 1..m : s[k] = t[n - m + k]
    BY <1>1, <1>3 DEF Below
  <2>2. ASSUME m < n, \A k \in 1..m : s[k] = t[n - m + k]
        PROVE  Below(t, s)
    <3> DEFINE i == n - m + 1
    <3>1. i \in 2..n /\ n - i + 1 = m
      BY <1>1, <2>2
    <3> QED
      BY <1>3, <2>2, <3>1 DEF Below
  <2> QED
    BY <2>1, <2>2
<1> QED
  BY <1>4, StrictSuffixIs

-----------------------------------------------------------------------------
(* The route table: entries. *)

LEMMA SeqTyped ==
    ASSUME NEW S, NEW T, NEW s \in Seq(S), \A i \in 1..Len(s) : s[i] \in T
    PROVE  s \in Seq(T)
<1>1. Len(s) \in Nat /\ s \in [1..Len(s) -> S]
  BY LenProperties
<1> QED
  BY <1>1

LEMMA NamesAre ==
    ASSUME NEW a \in Allocs
    PROVE  /\ Name[a] \in Seq(DnsLabels \cup {Star}) /\ Name[a] # <<>>
           /\ Head(Name[a]) = Name[a][1]
           /\ Base(a) \in Seq(DnsLabels) /\ Base(a) # <<>>
<1> DEFINE L == DnsLabels \cup {Star}
           N == Name[a]
           T == Tail(N)
<1>1. N \in Seq(L) /\ N # <<>> /\ N # <<Star>> /\ \A i \in 2..Len(N) : N[i] # Star
  BY AllocsAssumption
<1>2. Len(N) \in Nat \ {0} /\ \A i \in 1..Len(N) : N[i] \in L
  BY <1>1, EmptySeq, ElementOfSeq
<1>3. Head(N) = N[1]
  BY <1>1
<1>4. T \in Seq(L) /\ Len(T) = Len(N) - 1 /\ \A i \in 1..Len(T) : T[i] = N[i + 1]
  BY <1>1, HeadTailProperties
<1>5. CASE Head(N) = Star
  <2>1. Len(N) # 1
    <3> SUFFICES ASSUME Len(N) = 1 PROVE FALSE
      OBVIOUS
    <3>1. <<Star>> \in Seq(L) /\ Len(<<Star>>) = 1 /\ <<Star>>[1] = Star
      OBVIOUS
    <3>2. N = <<Star>>
      BY <1>1, <1>3, <1>5, <3>1, SeqEqual
    <3> QED
      BY <1>1, <3>2
  <2> HIDE DEF T
  <2>2. \A i \in 1..Len(T) : T[i] \in DnsLabels
    BY <1>1, <1>2, <1>4
  <2>3. T \in Seq(DnsLabels)
    BY <1>4, <2>2, SeqTyped
  <2>4. T # <<>>
    <3>1. Len(<<>>) = 0
      BY EmptySeq
    <3>2. Len(T) # 0
      BY <1>2, <1>4, <2>1
    <3> QED
      BY <3>1, <3>2
  <2> QED
    BY <1>1, <1>3, <1>5, <2>3, <2>4 DEF Base, T
<1>6. CASE Head(N) # Star
  <2>1. \A i \in 1..Len(N) : N[i] \in DnsLabels
    BY <1>1, <1>2, <1>3, <1>6
  <2>2. N \in Seq(DnsLabels)
    BY <1>1, <2>1, SeqTyped
  <2> QED
    BY <1>1, <1>3, <1>6, <2>2 DEF Base
<1> QED
  BY <1>5, <1>6

\* The entries of an allocation: its name unless it is a wildcard, and what is below
\* its base if it is one or its spec says so.
LEMMA EntriesAre ==
    ASSUME NEW a \in Allocs, NEW e
    PROVE  e \in EntriesOf(a) <=>
              /\ Listen[a] # {}
              /\ \/ Head(Name[a]) # Star /\ e = [fqdn |-> Name[a], wildcard |-> FALSE, alloc |-> a]
                 \/ /\ Head(Name[a]) = Star \/ Wild[a]
                    /\ e = [fqdn |-> Base(a), wildcard |-> TRUE, alloc |-> a]
<1>1. Wild[a] \in BOOLEAN
  BY AllocsAssumption
<1> QED
  BY <1>1 DEF EntriesOf, Base

LEMMA EntriesTyped ==
    ASSUME NEW a \in Allocs
    PROVE  EntriesOf(a) \subseteq Entries /\ \A e \in EntriesOf(a) : e.alloc = a
<1> SUFFICES ASSUME NEW e \in EntriesOf(a) PROVE e \in Entries /\ e.alloc = a
  OBVIOUS
<1>1. Base(a) \in Seq(DnsLabels) /\ (Head(Name[a]) # Star => Base(a) = Name[a])
  BY NamesAre DEF Base
<1>2. \/ e = [fqdn |-> Base(a), wildcard |-> FALSE, alloc |-> a]
      \/ e = [fqdn |-> Base(a), wildcard |-> TRUE, alloc |-> a]
  BY <1>1, EntriesAre
<1>3. CASE e = [fqdn |-> Base(a), wildcard |-> FALSE, alloc |-> a]
  BY <1>1, <1>3 DEF Entries
<1>4. CASE e = [fqdn |-> Base(a), wildcard |-> TRUE, alloc |-> a]
  BY <1>1, <1>4 DEF Entries
<1> QED
  BY <1>2, <1>3, <1>4

LEMMA EntriesAreFinite ==
    ASSUME NEW L \in SUBSET Allocs
    PROVE  IsFiniteSet(UNION {EntriesOf(a) : a \in L})
<1> DEFINE E == UNION {EntriesOf(a) : a \in L}
           exact == {e \in E : ~ e.wildcard}
           wild == {e \in E : e.wildcard}
<1>1. IsFiniteSet(L)
  BY AllocsAssumption, FS_Subset
<1>2. \A e \in E : e \in Entries /\ e.alloc \in L /\ e \in EntriesOf(e.alloc)
  BY EntriesTyped
<1>3. ASSUME NEW F \in SUBSET E, \A e, f \in F : e.alloc = f.alloc => e = f
      PROVE  IsFiniteSet(F)
  <2> DEFINE g == [e \in F |-> e.alloc]
  <2>1. g \in Injection(F, L)
    BY <1>2, <1>3 DEF Injection, IsInjective
  <2> QED
    BY <1>1, <2>1, FS_Injection
<1>4. \A e, f \in E : e.alloc = f.alloc /\ e.wildcard = f.wildcard => e = f
  <2> SUFFICES ASSUME NEW e \in E, NEW f \in E, e.alloc = f.alloc, e.wildcard = f.wildcard
               PROVE  e = f
    OBVIOUS
  <2>1. e \in EntriesOf(e.alloc) /\ f \in EntriesOf(e.alloc) /\ e.alloc \in Allocs
    BY <1>2
  <2> DEFINE a == e.alloc
  <2>2. \/ e = [fqdn |-> Name[a], wildcard |-> FALSE, alloc |-> a]
        \/ e = [fqdn |-> Base(a), wildcard |-> TRUE, alloc |-> a]
    BY <2>1, EntriesAre
  <2>3. \/ f = [fqdn |-> Name[a], wildcard |-> FALSE, alloc |-> a]
        \/ f = [fqdn |-> Base(a), wildcard |-> TRUE, alloc |-> a]
    BY <2>1, EntriesAre
  <2> HIDE DEF a
  <2> QED
    BY <2>2, <2>3
<1>5. IsFiniteSet(exact) /\ IsFiniteSet(wild)
  <2>1. \A e \in E : e.wildcard \in BOOLEAN
    BY <1>2 DEF Entries
  <2>2. \A e, f \in exact : e.alloc = f.alloc => e = f
    BY <1>4, <2>1
  <2>3. \A e, f \in wild : e.alloc = f.alloc => e = f
    BY <1>4, <2>1
  <2> HIDE DEF E
  <2> QED
    BY <1>3, <2>2, <2>3
<1>6. E = exact \cup wild
  OBVIOUS
<1> HIDE DEF E, exact, wild
<1>7. IsFiniteSet(E)
  BY <1>5, <1>6, FS_Union
<1> QED
  BY <1>7 DEF E

-----------------------------------------------------------------------------
(* The route table: a sorted table resolves to the most specific allocation. *)

LEMMA LeastExists ==
    ASSUME NEW D \in SUBSET Nat, D # {}
    PROVE  LET m == CHOOSE i \in D : \A j \in D : i <= j
           IN  m \in D /\ \A j \in D : m <= j
<1>1. PICK b \in D : \A c \in D : <<c, b>> \notin OpToRel(<, Nat)
  BY NatLessThanWellFounded, WFMin, Zenon
<1>2. \A c \in D : b <= c
  <2>1. \A c \in D : ~ (c < b)
    BY <1>1 DEF OpToRel
  <2>2. \A c \in D : c \in Nat /\ b \in Nat
    OBVIOUS
  <2> QED
    BY <2>1, <2>2
<1>3. \E i \in D : \A j \in D : i <= j
  BY <1>2
<1> QED
  BY <1>3, Zenon

\* A table has the entries of some allocations, all of them, in order.
LEMMA TablesAre ==
    ASSUME NEW L \in SUBSET Allocs, NEW t \in TablesOf(L)
    PROVE  /\ t \in Seq(Entries) /\ Len(t) \in Nat /\ DOMAIN t = 1..Len(t)
           /\ \A i \in DOMAIN t : t[i].alloc \in L /\ t[i] \in EntriesOf(t[i].alloc)
           /\ \A a \in L : \A e \in EntriesOf(a) : \E i \in DOMAIN t : t[i] = e
           /\ \A i, j \in DOMAIN t : i < j => ~ Before(t[j], t[i])
<1> DEFINE E == UNION {EntriesOf(a) : a \in L}
           n == Cardinality(E)
<1>1. n \in Nat
  BY EntriesAreFinite, FS_CardinalityType
<1>2. t \in [1..n -> E] /\ (\A e \in E : \E i \in 1..n : t[i] = e)
      /\ \A i, j \in DOMAIN t : i < j => ~ Before(t[j], t[i])
  BY DEF TablesOf, Bijection, Surjection
<1>3. \A e \in E : e \in Entries /\ e.alloc \in L /\ e \in EntriesOf(e.alloc)
  BY EntriesTyped
<1>4. \A a \in L : \A e \in EntriesOf(a) : e \in E
  OBVIOUS
<1> HIDE DEF E, n
<1>5. t \in [1..n -> Entries] /\ DOMAIN t = 1..n
  BY <1>2, <1>3
<1>6. t \in Seq(Entries) /\ Len(t) = n
  BY <1>1, <1>5
<1> QED
  BY <1>1, <1>2, <1>3, <1>4, <1>5, <1>6

LEMMA SortedFindsBest ==
    ASSUME NEW L \in SUBSET Allocs, NEW t \in TablesOf(L), NEW host \in Seq(DnsLabels), NEW port
    PROVE  LET best   == Best({t[i].alloc : i \in DOMAIN t}, host, port)
               target == Resolve(t, host, port)
           IN  IF best = {} THEN target = NoTarget ELSE target.alloc \in best
<1> DEFINE R == {t[i].alloc : i \in DOMAIN t}
           able == {a \in R : RouteFor(a, port) # {}}
           exact == {a \in able : Name[a] = host}
           wild == {a \in able : (Head(Name[a]) = Star \/ Wild[a]) /\ Below(host, Base(a))}
           best == Best(R, host, port)
           hits == {i \in DOMAIN t : Serves(t[i], host, port)}
           first == CHOOSE i \in hits : \A j \in hits : i <= j
           exactEntry(a) == [fqdn |-> Name[a], wildcard |-> FALSE, alloc |-> a]
           wildEntry(a) == [fqdn |-> Base(a), wildcard |-> TRUE, alloc |-> a]
<1>1. /\ Len(t) \in Nat /\ DOMAIN t = 1..Len(t) /\ R \subseteq L
      /\ \A i \in DOMAIN t : t[i].alloc \in L /\ t[i] \in EntriesOf(t[i].alloc)
      /\ \A a \in L : \A e \in EntriesOf(a) : \E i \in DOMAIN t : t[i] = e
      /\ \A i, j \in DOMAIN t : i < j => ~ Before(t[j], t[i])
  BY TablesAre
<1>2. best = IF exact # {} THEN exact
             ELSE {a \in wild : \A b \in wild : Len(Base(b)) <= Len(Base(a))}
  BY DEF Best
<1>3. \A a \in R : a \in Allocs /\ Listen[a] # {}
  <2> SUFFICES ASSUME NEW i \in DOMAIN t
               PROVE  t[i].alloc \in Allocs /\ Listen[t[i].alloc] # {}
    OBVIOUS
  <2>1. t[i].alloc \in Allocs /\ t[i] \in EntriesOf(t[i].alloc)
    BY <1>1
  <2> QED
    BY <2>1, EntriesAre
\* An exact entry serves the requests of its name, a wildcard those below its base.
<1>4. ASSUME NEW i \in hits
      PROVE  \/ t[i].wildcard = FALSE /\ t[i].alloc \in exact
             \/ /\ t[i].wildcard = TRUE /\ t[i].fqdn = Base(t[i].alloc)
                /\ t[i].alloc \in wild
  <2> DEFINE a == t[i].alloc
  <2>1. a \in able /\ a \in Allocs /\ t[i] \in EntriesOf(a) /\ Matches(t[i], host)
    BY <1>1 DEF Serves
  <2>2. \/ t[i] = exactEntry(a)
        \/ (Head(Name[a]) = Star \/ Wild[a]) /\ t[i] = wildEntry(a)
    BY <2>1, EntriesAre
  <2>3. Base(a) \in Seq(DnsLabels) /\ Base(a) # <<>>
    BY <2>1, NamesAre
  <2> HIDE DEF a
  <2>4. CASE t[i] = exactEntry(a)
    <3>1. t[i].wildcard = FALSE /\ t[i].fqdn = Name[a]
      BY <2>4
    <3>2. Name[a] = host
      BY <2>1, <3>1 DEF Matches
    <3> QED
      BY <2>1, <3>1, <3>2 DEF a
  <2>5. CASE (Head(Name[a]) = Star \/ Wild[a]) /\ t[i] = wildEntry(a)
    <3>1. t[i].wildcard = TRUE /\ t[i].fqdn = Base(a)
      BY <2>5
    <3>2. Below(host, Base(a))
      BY <2>1, <2>3, <3>1, StrictSuffixIsBelow DEF Matches
    <3> QED
      BY <2>1, <2>5, <3>1, <3>2 DEF a
  <2> QED
    BY <2>2, <2>4, <2>5
\* There is an entry for each allocation that should be found.
<1>5. ASSUME NEW a \in exact
      PROVE  \E i \in hits : t[i].wildcard = FALSE
  <2>1. a \in Allocs /\ a \in L /\ Listen[a] # {} /\ Name[a] = host /\ RouteFor(a, port) # {}
    BY <1>1, <1>3
  <2>2. Head(Name[a]) # Star
    <3>1. Head(host) = host[1] /\ Len(host) \in Nat \ {0}
      BY <2>1, NamesAre, EmptySeq
    <3>2. host[1] \in DnsLabels
      BY <3>1, ElementOfSeq
    <3> QED
      BY <2>1, <3>1, <3>2, AllocsAssumption
  <2>3. exactEntry(a) \in EntriesOf(a)
    BY <2>1, <2>2, EntriesAre
  <2>4. PICK i \in DOMAIN t : t[i] = exactEntry(a)
    BY <1>1, <2>1, <2>3
  <2>5. t[i].wildcard = FALSE /\ t[i].fqdn = Name[a] /\ t[i].alloc = a
    BY <2>4
  <2>6. Serves(t[i], host, port)
    BY <2>1, <2>5 DEF Serves, Matches
  <2> QED
    BY <2>5, <2>6
<1>6. ASSUME NEW a \in wild
      PROVE  \E i \in hits : t[i].wildcard = TRUE /\ t[i].fqdn = Base(a)
  <2>1. /\ a \in Allocs /\ a \in L /\ Listen[a] # {} /\ RouteFor(a, port) # {}
        /\ Head(Name[a]) = Star \/ Wild[a]
        /\ Below(host, Base(a))
    BY <1>1, <1>3
  <2>2. wildEntry(a) \in EntriesOf(a)
    BY <2>1, EntriesAre
  <2>3. PICK i \in DOMAIN t : t[i] = wildEntry(a)
    BY <1>1, <2>1, <2>2
  <2>4. IsStrictSuffix(Base(a), host)
    BY <2>1, NamesAre, StrictSuffixIsBelow
  <2>5. t[i].wildcard = TRUE /\ t[i].fqdn = Base(a) /\ t[i].alloc = a
    BY <2>3
  <2>6. Serves(t[i], host, port)
    BY <2>1, <2>4, <2>5 DEF Serves, Matches
  <2> QED
    BY <2>5, <2>6
<1> HIDE DEF exactEntry, wildEntry
<1>7. ASSUME hits # {}
      PROVE  t[first].alloc \in best
  <2>1. first \in hits /\ \A j \in hits : first <= j
    <3>1. hits \in SUBSET Nat
      BY <1>1
    <3> HIDE DEF hits
    <3> QED
      BY <1>7, <3>1, LeastExists
  <2>2. \A j \in hits : first = j \/ ~ Before(t[j], t[first])
    <3> HIDE DEF first
    <3> QED
      BY <1>1, <2>1
  <2> HIDE DEF first, hits, exact, wild, best
  <2>3. CASE exact # {}
    <3>1. PICK j \in hits : t[j].wildcard = FALSE
      BY <1>5, <2>3
    <3>2. t[first].wildcard = FALSE
      <4>1. t[first].wildcard \in BOOLEAN
        BY <1>4, <2>1
      <4> QED
        BY <2>2, <3>1, <4>1 DEF Before
    <3>3. t[first].alloc \in exact
      BY <1>4, <2>1, <3>2
    <3> QED
      BY <1>2, <2>3, <3>3
  <2>4. CASE exact = {}
    <3> DEFINE a == t[first].alloc
    <3>1. a \in wild /\ t[first].wildcard = TRUE /\ t[first].fqdn = Base(a)
      BY <1>4, <2>1, <2>4
    <3> HIDE DEF a
    <3>2. ASSUME NEW b \in wild
          PROVE  Len(Base(b)) <= Len(Base(a))
      <4>1. PICK j \in hits : t[j].wildcard = TRUE /\ t[j].fqdn = Base(b)
        BY <1>6
      <4>2. Len(Base(a)) \in Nat /\ Len(Base(b)) \in Nat
        <5>1. a \in Allocs /\ b \in Allocs
          BY <1>3, <3>1 DEF wild
        <5> QED
          BY <5>1, NamesAre, LenProperties
      <4>3. CASE first = j
        BY <3>1, <4>1, <4>2, <4>3
      <4>4. CASE ~ Before(t[j], t[first])
        <5>1. ~ (Len(t[j].fqdn) > Len(t[first].fqdn))
          BY <3>1, <4>1, <4>4 DEF Before
        <5>2. ~ (Len(Base(b)) > Len(Base(a)))
          BY <3>1, <4>1, <5>1
        <5> QED
          BY <4>2, <5>2
      <4> QED
        BY <2>2, <4>3, <4>4
    <3> QED
      BY <1>2, <2>4, <3>1, <3>2 DEF a
  <2> QED
    BY <2>3, <2>4
<1>8. CASE hits = {}
  <2>1. best = {}
    BY <1>2, <1>5, <1>6, <1>8
  <2>2. Resolve(t, host, port) = NoTarget
    BY <1>8 DEF Resolve
  <2> QED
    BY <2>1, <2>2
<1>9. CASE hits # {}
  <2>1. Resolve(t, host, port).alloc = t[first].alloc
    BY <1>9 DEF Resolve
  <2> QED
    BY <1>7, <1>9, <2>1
<1> QED
  BY <1>8, <1>9

-----------------------------------------------------------------------------
(* The route table: invariants. *)

\* Whatever is installed is the sorted table of some list of allocations.
TInv == /\ TTypeOK
        /\ \E L \in SUBSET Allocs : table \in TablesOf(L)

LEMMA RestingIsTyped == Resting \in Rebuild
BY DEF Resting, Rebuild

LEMMA InitTInv ==
    ASSUME TInit
    PROVE  TInv
<1>1. Listed \in SUBSET Allocs /\ table \in TablesOf(Listed)
  BY DEF TInit, Listed
<1>2. table \in Seq(Entries)
  BY <1>1, TablesAre
<1>3. TTypeOK
  BY <1>2, RestingIsTyped, RouteBoundsAssumption DEF TInit, TTypeOK, States
<1> QED
  BY <1>1, <1>3 DEF TInv

LEMMA NextTInv ==
    ASSUME TInv, [TNext]_tvars
    PROVE  TInv'
<1>1. /\ states \in [Allocs -> States] /\ table \in Seq(Entries)
      /\ rebuild \in [Rebuilders -> Rebuild]
      /\ mutations \in 0..MaxMutations /\ errors \in 0..MaxErrors
      /\ MaxMutations \in Nat /\ MaxErrors \in Nat
  BY RouteBoundsAssumption DEF TInv, TTypeOK
<1>2. ASSUME NEW h \in Handlers, NEW a \in Allocs, NEW st \in States, Mutate(h, a, st)
      PROVE  TInv'
  <2> DEFINE r == [Resting EXCEPT !.step = "list", !.on = a]
  <2>1. r \in Rebuild
    BY RestingIsTyped DEF Rebuild
  <2>2. rebuild' = [rebuild EXCEPT ![h] = r]
    BY <1>2 DEF Mutate
  <2> HIDE DEF r
  <2>3. rebuild' \in [Rebuilders -> Rebuild]
    BY <1>1, <2>1, <2>2
  <2> QED
    BY <1>1, <1>2, <2>3 DEF TInv, TTypeOK, Mutate
<1>3. CASE WatchTick
  <2>1. [rebuild[Watcher] EXCEPT !.step = "list"] \in Rebuild
    BY <1>3, RestingIsTyped DEF WatchTick, Rebuild
  <2>2. rebuild' \in [Rebuilders -> Rebuild]
    BY <1>1, <1>3, <2>1 DEF WatchTick
  <2> QED
    BY <1>1, <1>3, <2>2 DEF TInv, TTypeOK, WatchTick
<1>4. ASSUME NEW p \in Rebuilders, List(p)
      PROVE  TInv'
  <2> DEFINE r == [rebuild[p] EXCEPT !.step = "install", !.list = Listed]
  <2>1. r \in Rebuild
    BY <1>1 DEF Rebuild, Listed
  <2>2. rebuild' = [rebuild EXCEPT ![p] = r]
    BY <1>1, <1>4 DEF List
  <2>3. rebuild' \in [Rebuilders -> Rebuild]
    BY <1>1, <2>1, <2>2
  <2> QED
    BY <1>1, <1>4, <2>3 DEF TInv, TTypeOK, List
<1>5. ASSUME NEW p \in Rebuilders, ListFails(p)
      PROVE  TInv'
  <2>1. rebuild' \in [Rebuilders -> Rebuild]
    BY <1>1, <1>5, RestingIsTyped DEF ListFails
  <2>2. errors' \in 0..MaxErrors
    BY <1>1, <1>5 DEF ListFails
  <2> QED
    BY <1>1, <1>5, <2>1, <2>2 DEF TInv, TTypeOK, ListFails
<1>6. ASSUME NEW p \in Rebuilders, Install(p)
      PROVE  TInv'
  <2>1. rebuild[p].list \in SUBSET Allocs /\ table' \in TablesOf(rebuild[p].list)
    BY <1>1, <1>6 DEF Install, Rebuild
  <2>2. table' \in Seq(Entries)
    BY <2>1, TablesAre
  <2>3. rebuild' \in [Rebuilders -> Rebuild]
    BY <1>1, <1>6, RestingIsTyped DEF Install
  <2>4. UNCHANGED <<states, mutations, errors>>
    BY <1>6 DEF Install
  <2>5. TTypeOK'
    BY <1>1, <2>2, <2>3, <2>4 DEF TTypeOK
  <2> QED
    BY <2>1, <2>5 DEF TInv
<1>7. CASE UNCHANGED tvars
  BY <1>7 DEF TInv, TTypeOK, tvars
<1> QED
  BY <1>2, <1>3, <1>4, <1>5, <1>6, <1>7 DEF TNext

\* Whatever list a rebuild installs, late or not, the table is one that list sorts to.
THEOREM RouteTableInvariance == TSpec => []TInv
<1>1. TInit => TInv
  BY InitTInv
<1>2. TInv /\ [TNext]_tvars => TInv'
  BY NextTInv
<1> QED
  BY <1>1, <1>2, PTL DEF TSpec

\* Scanning the sorted entries finds the most specific allocation able to serve a
\* request, and finds one whenever there is one: for any allocations, names, wildcards
\* and ports, and any number of rebuilds at once (internal/proxy/table.go:77-115).
THEOREM MostSpecificIsFound == TSpec => []MostSpecific
<1>1. TInv => MostSpecific
  <2> SUFFICES ASSUME TInv PROVE MostSpecific
    OBVIOUS
  <2>1. PICK L \in SUBSET Allocs : table \in TablesOf(L)
    BY DEF TInv
  <2>2. ASSUME NEW host \in RequestHosts, NEW port \in Ports
        PROVE  LET best   == Best(Routed, host, port)
                   target == Resolve(table, host, port)
               IN  IF best = {} THEN target = NoTarget ELSE target.alloc \in best
    BY <2>1, SortedFindsBest, RequestsAssumption DEF Routed
  <2> QED
    BY <2>2 DEF TInv, MostSpecific
<1> QED
  BY <1>1, RouteTableInvariance, PTL

\* What the table should hold: the active allocations that have routes.
Serving == {a \in Allocs : states[a] = "active" /\ Listen[a] # {}}

\* The table holds it, and no rebuild is about to install anything else.
Settled ==
    /\ Routed = Serving
    /\ \A p \in Rebuilders : rebuild[p].step = "install" => rebuild[p].list = Listed

\* A table built from the current list holds what it should.
LEMMA CurrentTableServes ==
    ASSUME NEW t \in TablesOf(Listed)
    PROVE  {t[i].alloc : i \in DOMAIN t} = Serving
<1>1. Listed \in SUBSET Allocs
  BY DEF Listed
<1>2. /\ \A i \in DOMAIN t : t[i].alloc \in Listed /\ t[i] \in EntriesOf(t[i].alloc)
      /\ \A a \in Listed : \A e \in EntriesOf(a) : \E i \in DOMAIN t : t[i] = e
  BY <1>1, TablesAre
<1>3. ASSUME NEW i \in DOMAIN t
      PROVE  t[i].alloc \in Serving
  BY <1>2, <1>3 DEF EntriesOf, Listed, Serving
<1>4. ASSUME NEW a \in Serving
      PROVE  \E i \in DOMAIN t : t[i].alloc = a
  <2>1. a \in Listed /\ Listen[a] # {} /\ a \in Allocs
    BY DEF Serving, Listed
  <2>2. PICK e \in EntriesOf(a) : e.alloc = a
    <3>1. CASE Head(Name[a]) = Star
      <4>1. [fqdn |-> Tail(Name[a]), wildcard |-> TRUE, alloc |-> a] \in EntriesOf(a)
        BY <2>1, <3>1 DEF EntriesOf
      <4> QED
        BY <4>1
    <3>2. CASE Head(Name[a]) # Star
      <4>1. [fqdn |-> Name[a], wildcard |-> FALSE, alloc |-> a] \in EntriesOf(a)
        BY <2>1, <3>2 DEF EntriesOf
      <4> QED
        BY <4>1
    <3> QED
      BY <3>1, <3>2
  <2> QED
    BY <1>2, <2>1, <2>2
<1> QED
  BY <1>3, <1>4

\* A rebuild that installs the current list brings the table up to date, and a
\* settled table stays settled until the store changes again: rebuilds that listed
\* late, or failed to list, cannot bring an old table back.
SettlesDown ==
    [][/\ \A p \in Rebuilders :
             Install(p) /\ rebuild[p].list = Listed => (Routed = Serving)'
       /\ Settled /\ UNCHANGED states => Settled']_tvars

LEMMA InstallServes ==
    ASSUME NEW p \in Rebuilders, Install(p), rebuild[p].list = Listed
    PROVE  (Routed = Serving)'
<1>1. table' \in TablesOf(Listed) /\ states' = states
  BY DEF Install
<1>2. {table'[i].alloc : i \in DOMAIN table'} = Serving
  BY <1>1, CurrentTableServes
<1> QED
  BY <1>1, <1>2 DEF Routed, Serving

LEMMA SettledStays ==
    ASSUME TInv, Settled, TNext, UNCHANGED states
    PROVE  Settled'
<1>1. rebuild \in [Rebuilders -> Rebuild] /\ Listed' = Listed /\ Serving' = Serving
  BY DEF TInv, TTypeOK, Listed, Serving
<1>2. ASSUME NEW h \in Handlers, NEW a \in Allocs, NEW st \in States, Mutate(h, a, st)
      PROVE  FALSE
  BY <1>2 DEF Mutate, TInv, TTypeOK
<1>3. CASE WatchTick
  BY <1>1, <1>3 DEF WatchTick, Settled, Routed
<1>4. ASSUME NEW p \in Rebuilders, List(p) \/ ListFails(p)
      PROVE  Settled'
  <2>1. Routed' = Routed
    BY <1>4 DEF List, ListFails, Routed
  <2>2. ASSUME NEW q \in Rebuilders, rebuild'[q].step = "install"
        PROVE  rebuild'[q].list = Listed
    BY <1>1, <1>4, <2>2 DEF List, ListFails, Settled, Rebuild, Resting
  <2> QED
    BY <1>1, <2>1, <2>2 DEF Settled
<1>5. ASSUME NEW p \in Rebuilders, Install(p)
      PROVE  Settled'
  <2>1. rebuild[p].list = Listed
    BY <1>5 DEF Install, Settled
  <2>2. (Routed = Serving)'
    BY <1>5, <2>1, InstallServes
  <2>3. ASSUME NEW q \in Rebuilders, rebuild'[q].step = "install"
        PROVE  rebuild'[q].list = Listed
    BY <1>1, <1>5, <2>3 DEF Install, Settled, Rebuild, Resting
  <2> QED
    BY <1>1, <2>2, <2>3 DEF Settled
<1> QED
  BY <1>2, <1>3, <1>4, <1>5 DEF TNext

\* The safety half of CatchesUp (Rebuild and Watch of internal/proxy/table.go).
THEOREM TableSettlesDown == TSpec => SettlesDown
<1>1. TInv /\ [TNext]_tvars
      => [/\ \A p \in Rebuilders :
               Install(p) /\ rebuild[p].list = Listed => (Routed = Serving)'
          /\ Settled /\ UNCHANGED states => Settled']_tvars
  BY InstallServes, SettledStays
<1> QED
  BY <1>1, RouteTableInvariance, PTL DEF TSpec, SettlesDown
=============================================================================
