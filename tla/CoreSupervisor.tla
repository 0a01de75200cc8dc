--------------------------- MODULE CoreSupervisor ---------------------------
(***************************************************************************)
(* Engine::CoreSupervisor and Configs_sys::CoreProcess: the policy that    *)
(* keeps one ThroneCore child process running.                             *)
(*                                                                         *)
(* Three actors interleave.                                                *)
(*   - The main thread runs the requests (start, stop, restart, exit), the *)
(*     two timers and the handlers of what the other threads post to it.   *)
(*   - DS_cores owns the QProcess. It takes tasks in order; a task or an   *)
(*     exit handler that stops the running profile waits in a nested event *)
(*     loop, in which DS_cores takes further tasks (the frames below).     *)
(*   - The core process itself execs, dials the IPC socket, hangs or dies. *)
(*                                                                         *)
(* Profiles are started and stopped by ConnectionManager, represented here *)
(* by what the supervisor sees of it: the profile a start worker is busy   *)
(* with, the running one, and the started_id setting.                      *)
(***************************************************************************)
EXTENDS Naturals, Sequences

CONSTANTS
  Profiles,          \* profile ids that can be started
  NoProfile,         \* Configs::NoProfileId
  GiveUpAfter,       \* kGiveUpAfter
  HasPrivilegeProbe, \* TRUE on Linux and macOS, FALSE on Windows
  MaxFaults,         \* bound: crashes, hangs, failed execs and slow kills
  MaxRequests,       \* bound: user and engine requests
  MaxQueued          \* bound: a request is made with fewer tasks waiting on DS_cores

ASSUME ProfilesAssumption == NoProfile \notin Profiles
ASSUME BoundsAssumption ==
  /\ GiveUpAfter \in Nat \ {0}
  /\ MaxFaults \in Nat /\ MaxRequests \in Nat /\ MaxQueued \in Nat
ASSUME PlatformAssumption == HasPrivilegeProbe \in BOOLEAN

VARIABLES
  phase,       \* the engine from EngineHost::init to ExitController::shutdown
  sup,         \* the supervisor's members that only the main thread touches
  coreRunning, \* settings core_running
  startedId,   \* settings started_id
  running,     \* ConnectionManager::m_running
  starting,    \* the profile a start worker is busy with (mu_starting held)
  stopping,    \* the stop worker of the user or of a profile switch is busy
  killSwitch,  \* settings kill_switch
  noIdentity,  \* KillSwitch::identityUnsupported()
  core,        \* m_expectedExitGen, the CoreProcess and the child behind it
  dsQ,         \* tasks posted to DS_cores
  frames,      \* tasks and handlers waiting in a nested loop, innermost last
  posts,       \* calls queued to the main thread
  conns,       \* pids whose connection the IPC server has not handed out
  probes,      \* privilege probes whose answer the main thread has not seen
  channel,     \* pid the RPC client is connected to, 0 before the first
  barred,      \* history: why nothing may be resumed, "no" when it may
  faults,      \* how much of MaxFaults is used
  requests     \* how much of MaxRequests is used

profVars == <<startedId, running, starting, stopping>>
guardVars == <<killSwitch, noIdentity>>
procVars == <<core, dsQ, frames>>
netVars == <<conns, probes, channel>>
bookVars == <<barred, faults, requests>>
vars == <<phase, sup, coreRunning, profVars, guardVars, procVars, posts, netVars, bookVars>>

Phases == {"boot", "listened", "ready", "stopping", "stopped", "killing", "done"}
States == {"NotStarted", "Starting", "Connected", "Backoff", "GaveUp",
           "ListenFailed", "ShuttingDown"}
MaybeProfile == Profiles \cup {NoProfile}

Supervisors ==
  [state : States, startWhenUp : MaybeProfile, probing : BOOLEAN,
   failures : Nat, startFailures : Nat, handledExitGen : Nat, acceptedGen : Nat,
   connectGen : Nat, timedOutGen : Nat, restartTimer : BOOLEAN,
   connectTimer : BOOLEAN, crashTimer : BOOLEAN, accepting : Nat, guardRestart : BOOLEAN]
\* os: the QProcess state. pid: the generation that spawned the child. dying: the
\* child was killed or crashed and DS_cores has not seen it end yet. failed (history):
\* generations a fault is blamed on. unmarked (history): generations that were killed on
\* purpose, and whose mark the next such kill overwrote.
Cores ==
  [generation : Nat, expectedExitGen : Nat, os : {"none", "starting", "up"}, pid : Nat,
   dying : BOOLEAN, identityExit : BOOLEAN, slow : BOOLEAN, dialed : BOOLEAN,
   guard : BOOLEAN, failed : SUBSET Nat, unmarked : SUBSET Nat]
Tasks ==
  [op : {"start", "restart", "reset", "kill", "timeoutKill", "killForExit", "shutdown",
         "exit", "execFailed"},
   before : {"none", "stop", "manualStop"}, gen : Nat, identity : BOOLEAN,
   stopped : BOOLEAN]
Posts ==
  [kind : {"spawned", "exit", "restartDead"}, gen : Nat, failedToStart : BOOLEAN,
   identity : BOOLEAN]

Probes == [gen : Nat, reply : {"none", "ok", "failed"}]

Probe(gen, reply) == [gen |-> gen, reply |-> reply]
Task(op, before, gen, identity) ==
  [op |-> op, before |-> before, gen |-> gen, identity |-> identity, stopped |-> FALSE]
Post(kind, gen, failedToStart, identity) ==
  [kind |-> kind, gen |-> gen, failedToStart |-> failedToStart, identity |-> identity]

MaxOf(a, b) == IF a >= b THEN a ELSE b

prepareExit == phase \in {"stopping", "stopped", "killing", "done"}
exiting == sup.state = "ShuttingDown" \/ prepareExit
canStartCore == sup.state \notin {"ListenFailed", "ShuttingDown"}
\* Mutated form of Dead: resetCore and killForPrivilegeChange forget Backoff.
Dead_GaveUpOnly == sup.state = "GaveUp"
\* The exit of the last core was handled: nothing is left to kill.
Dead == sup.state \in {"Backoff", "GaveUp"}

\* mu_stopping is held: by the user's stop, the exit's or the innermost frame's.
StopBusy == stopping \/ phase = "stopping" \/ (frames # <<>> /\ ~frames[Len(frames)].stopped)

\* IsConnected() of the RPC client.
ChannelUp == channel # 0 /\ core.os # "none" /\ core.pid = channel /\ ~core.dying

\* The main thread is not inside onNewConnection.
MainFree == sup.accepting = 0

Init ==
  /\ phase = "boot"
  /\ sup = [state |-> "NotStarted", startWhenUp |-> NoProfile, probing |-> FALSE,
            failures |-> 0, startFailures |-> 0, handledExitGen |-> 0, acceptedGen |-> 0,
            connectGen |-> 0, timedOutGen |-> 0, restartTimer |-> FALSE,
            connectTimer |-> FALSE, crashTimer |-> FALSE, accepting |-> 0,
            guardRestart |-> FALSE]
  /\ core = [generation |-> 0, expectedExitGen |-> 0, os |-> "none", pid |-> 0,
             dying |-> FALSE, identityExit |-> FALSE, slow |-> FALSE, dialed |-> FALSE,
             guard |-> FALSE, failed |-> {}, unmarked |-> {}]
  /\ coreRunning = FALSE
  /\ startedId = NoProfile /\ running = NoProfile /\ starting = NoProfile /\ stopping = FALSE
  /\ killSwitch \in BOOLEAN /\ noIdentity = FALSE
  /\ dsQ = <<>> /\ frames = <<>> /\ posts = <<>>
  /\ conns = {} /\ probes = {} /\ channel = 0
  /\ barred = "no" /\ faults = 0 /\ requests = 0

-----------------------------------------------------------------------------
(* Boot: EngineHost::init calls listen() and start() before any request.   *)

Listen ==
  /\ phase = "boot"
  /\ phase' = "listened"
  /\ \E s \in {"NotStarted", "ListenFailed"} : sup' = [sup EXCEPT !.state = s]
  /\ UNCHANGED <<coreRunning, profVars, guardVars, procVars, posts, netVars, bookVars>>

Start(p) ==
  /\ phase = "listened"
  /\ phase' = "ready"
  /\ \/ /\ sup.state = "NotStarted"
        /\ sup' = [sup EXCEPT !.state = "Starting", !.startWhenUp = p]
        /\ dsQ' = Append(dsQ, Task("start", "none", 0, FALSE))
     \/ /\ sup.state # "NotStarted"
        /\ UNCHANGED <<sup, dsQ>>
  /\ UNCHANGED <<coreRunning, profVars, guardVars, core, frames, posts, netVars, bookVars>>

-----------------------------------------------------------------------------
(* Requests, on the main thread.                                           *)

\* EngineHost answers requests only once booted; the bounds limit their number.
Request ==
  /\ phase \notin {"boot", "listened"} /\ MainFree
  /\ requests < MaxRequests /\ Len(dsQ) < MaxQueued
  /\ requests' = requests + 1

beginRestart(s) ==
  [s EXCEPT !.probing = FALSE, !.restartTimer = FALSE, !.connectTimer = FALSE,
            !.failures = 0, !.startFailures = 0, !.state = "Starting"]

\* Reports of the generation that the posted restart replaces are moot.
postProcessRestart(s, before) ==
  /\ sup' = [s EXCEPT !.handledExitGen = MaxOf(s.handledExitGen, core.generation)]
  /\ dsQ' = Append(dsQ, Task("restart", before, 0, FALSE))

\* "Restart Core". A dead core is restarted at once; a live one is killed on
\* DS_cores and restarted by its exit report.
ResetCore ==
  /\ Request
  /\ canStartCore /\ ~exiting
  /\ \/ /\ Dead
        /\ postProcessRestart([beginRestart(sup) EXCEPT !.startWhenUp = NoProfile], "manualStop")
        /\ startedId' = NoProfile
     \/ /\ ~Dead
        /\ sup' = beginRestart(sup)
        /\ dsQ' = Append(dsQ, Task("reset", "manualStop", 0, FALSE))
        /\ UNCHANGED startedId
  /\ UNCHANGED <<phase, coreRunning, running, starting, stopping, guardVars, core, frames,
                 posts, netVars, barred, faults>>

restartNotListening(s, p) ==
  /\ canStartCore /\ ~exiting
  /\ postProcessRestart([beginRestart(s) EXCEPT !.startWhenUp = p], "none")

\* ConnectionManager::start: left to the restart for the guard that is pending, or
\* to the core that is being probed, turned into a restart of a core that is not
\* listening, or handed to a worker.
StartProfile(p) ==
  /\ Request
  /\ ~prepareExit
  /\ barred' = "no"
  /\ \/ /\ \/ sup.guardRestart /\ core.generation # 0
           \/ starting = NoProfile /\ ~StopBusy /\ sup.probing
        /\ sup' = [sup EXCEPT !.startWhenUp = p]
        /\ UNCHANGED <<dsQ, starting>>
     \/ /\ starting = NoProfile /\ ~StopBusy /\ ~sup.probing /\ ~coreRunning
        /\ restartNotListening(sup, p)
        /\ UNCHANGED starting
     \/ /\ starting = NoProfile /\ ~StopBusy /\ ~sup.probing /\ coreRunning
        /\ starting' = p
        /\ UNCHANGED <<sup, dsQ>>
  /\ UNCHANGED <<phase, coreRunning, startedId, running, stopping, guardVars, core, frames,
                 posts, netVars, faults>>

\* ConnectionManager::restartCoreForGuard: the guard is armed, and the core that
\* runs has not been given its identity.
RestartForGuard(p) ==
  /\ Request
  /\ killSwitch /\ ~noIdentity
  /\ core.generation # 0 /\ coreRunning /\ ~core.guard
  /\ canStartCore /\ ~exiting
  /\ postProcessRestart([beginRestart(sup) EXCEPT !.startWhenUp = p, !.guardRestart = TRUE],
                        "stop")
  /\ barred' = IF p = NoProfile THEN barred ELSE "no"
  /\ UNCHANGED <<phase, coreRunning, profVars, guardVars, core, frames, posts, netVars,
                 faults>>

\* The kill switch is turned on or off; off also forgets a refused identity.
SetKillSwitch ==
  /\ Request
  /\ killSwitch' = ~killSwitch
  /\ noIdentity' = (noIdentity /\ ~killSwitch)
  /\ UNCHANGED <<phase, sup, coreRunning, profVars, procVars, posts, netVars, barred, faults>>

KillForPrivilegeChange ==
  /\ Request
  /\ canStartCore
  /\ \/ /\ Dead
        /\ posts' = Append(posts, Post("restartDead", 0, FALSE, FALSE))
        /\ UNCHANGED dsQ
     \/ /\ ~Dead
        /\ dsQ' = Append(dsQ, Task("kill", "none", 0, FALSE))
        /\ UNCHANGED posts
  /\ UNCHANGED <<phase, sup, coreRunning, profVars, guardVars, core, frames, netVars,
                 barred, faults>>

\* Mutated form of cancelResume: only started_id is cleared.
cancelResume_IdOnly(s) == s
cancelResume(s) == [s EXCEPT !.startWhenUp = NoProfile]

\* A user stop. With nothing running it is cancelResume().
StopProfile ==
  /\ Request
  /\ \/ /\ running = NoProfile
        /\ sup' = cancelResume(sup)
        /\ startedId' = NoProfile
        /\ barred' = "declined"
        /\ UNCHANGED stopping
     \/ /\ running # NoProfile /\ ~StopBusy
        /\ stopping' = TRUE
        /\ UNCHANGED <<sup, startedId, barred>>
  /\ UNCHANGED <<phase, coreRunning, running, starting, guardVars, procVars, posts, netVars,
                 faults>>

workFrame == <<phase, sup, coreRunning, guardVars, procVars, posts, netVars, faults, requests>>

\* A start worker first stops the profile that runs.
SwitchStop ==
  /\ starting # NoProfile /\ running # NoProfile /\ ~StopBusy
  /\ stopping' = TRUE
  /\ UNCHANGED <<startedId, running, starting, barred, workFrame>>

\* The Stop RPC succeeded or failed: the profile is stopped either way.
StopDone ==
  /\ stopping /\ phase # "done"
  /\ stopping' = FALSE
  /\ startedId' = NoProfile /\ running' = NoProfile
  /\ barred' = IF starting = NoProfile THEN "stopped" ELSE barred
  /\ UNCHANGED <<starting, workFrame>>

\* The start worker of ConnectionManager: the Start RPC succeeded or failed.
StartWorker ==
  /\ starting # NoProfile /\ running = NoProfile
  /\ starting' = NoProfile
  /\ \/ /\ startedId' = starting
        /\ running' = starting
        /\ barred' = "no"
     \/ UNCHANGED <<startedId, running, barred>>
  /\ UNCHANGED <<stopping, workFrame>>

-----------------------------------------------------------------------------
(* Exit: ExitController::shutdown and the supervisor's part in it.         *)

exitFrame == <<coreRunning, startedId, starting, stopping, guardVars, core, frames, posts, netVars,
               barred, faults>>

\* prepare_exit is set, and the running profile is being stopped: at once if
\* there is none, or if another stop holds mu_stopping.
BeginExit ==
  /\ Request
  /\ phase = "ready"
  /\ phase' = IF running = NoProfile \/ StopBusy THEN "stopped" ELSE "stopping"
  /\ UNCHANGED <<sup, running, dsQ, exitFrame>>

ExitStopDone ==
  /\ phase = "stopping"
  /\ phase' = "stopped"
  /\ running' = NoProfile
  /\ UNCHANGED <<sup, dsQ, requests, exitFrame>>

stopSupervising ==
  sup' = [sup EXCEPT !.state = "ShuttingDown", !.probing = FALSE, !.restartTimer = FALSE,
                     !.connectTimer = FALSE]

Shutdown ==
  /\ phase = "stopped" /\ MainFree
  /\ phase' = "killing"
  /\ stopSupervising
  /\ dsQ' = Append(dsQ, Task("shutdown", "none", 0, FALSE))
  /\ UNCHANGED <<running, requests, exitFrame>>

\* A second stop signal during the teardown.
KillForExit ==
  /\ Request
  /\ phase \in {"stopping", "killing"}
  /\ stopSupervising
  /\ dsQ' = Append(dsQ, Task("killForExit", "none", 0, FALSE))
  /\ UNCHANGED <<phase, running, exitFrame>>

-----------------------------------------------------------------------------
(* DS_cores: CoreProcess and the tasks posted to it.                       *)

Fault ==
  /\ faults < MaxFaults
  /\ faults' = faults + 1

\* CoreProcess::Start spawns generation + 1.
Spawn(c) ==
  [c EXCEPT !.generation = c.generation + 1, !.os = "starting", !.pid = c.generation + 1,
            !.dying = FALSE, !.identityExit = FALSE, !.slow = FALSE, !.dialed = FALSE,
            !.guard = killSwitch /\ ~noIdentity]
Kill(c) == [c EXCEPT !.dying = (c.os # "none")]
Gone(c) == [c EXCEPT !.os = "none", !.pid = 0, !.dying = FALSE, !.identityExit = FALSE,
                     !.slow = FALSE, !.dialed = FALSE]

\* m_expectedExitGen holds one generation.
Expect(c) == [Kill(c) EXCEPT !.expectedExitGen = c.generation,
                             !.unmarked = @ \cup ({c.expectedExitGen} \ {c.generation})]
Blame(c) == [c EXCEPT !.failed = @ \cup {c.generation}]

\* QProcess::started, reported when DS_cores or a wait for the child sees it.
SpawnReport ==
  IF core.os = "starting"
  THEN Append(posts, Post("spawned", core.generation, FALSE, FALSE)) ELSE posts

DoStart ==
  /\ core' = Spawn(core)
  /\ UNCHANGED <<phase, posts, coreRunning, startedId, barred, faults>>

\* CoreProcess::Restart. A child that outlives the 500 ms wait is not replaced:
\* QProcess refuses to start, and its exit is reported under the new generation.
DoRestart ==
  /\ \/ /\ core' = Spawn(core)
        /\ coreRunning' = (coreRunning /\ core.os = "none")
        /\ posts' = SpawnReport
        /\ UNCHANGED faults
     \/ /\ core.os # "none" /\ Fault
        /\ core' = Blame([Kill(core) EXCEPT !.generation = core.generation + 1])
        /\ UNCHANGED <<coreRunning, posts>>
  /\ UNCHANGED <<phase, startedId, barred>>

DoReset ==
  /\ startedId' = NoProfile
  /\ core' = Expect(core)
  /\ UNCHANGED <<phase, posts, coreRunning, barred, faults>>

DoKill ==
  /\ core' = Expect(core)
  /\ UNCHANGED <<phase, posts, coreRunning, startedId, barred, faults>>

DoTimeoutKill(gen) ==
  /\ core' = IF gen = core.generation THEN Kill(core) ELSE core
  /\ UNCHANGED <<phase, posts, coreRunning, startedId, barred, faults>>

DoKillForExit ==
  /\ core' = Kill(core)
  /\ UNCHANGED <<phase, posts, coreRunning, startedId, barred, faults>>

\* Kill() reaps the child, then shutdown() returns on the main thread.
DoShutdown ==
  /\ core' = Gone(core)
  /\ coreRunning' = (coreRunning /\ core.os = "none")
  /\ phase' = "done"
  /\ UNCHANGED <<posts, startedId, barred, faults>>

\* What the exit handlers post. NotRunning reports the generation it read first;
\* errorOccurred(FailedToStart) the current one, which Windows reports twice.
Reports(t) ==
  IF t.op = "exit" THEN <<Post("exit", t.gen, FALSE, t.identity)>>
  ELSE LET failed == Post("exit", core.generation, TRUE, FALSE)
       IN IF HasPrivilegeProbe THEN <<failed>> ELSE <<failed, failed>>

\* A failed exec is blamed on the generation it is reported for.
Blamed(t, c) == IF t.op = "exit" THEN c ELSE Blame(c)

DoPostExit(t) ==
  /\ posts' = posts \o Reports(t)
  /\ core' = Blamed(t, core)
  /\ UNCHANGED <<phase, coreRunning, startedId, barred, faults>>

\* What is left of t once the running profile is stopped.
Perform(t) ==
  \/ t.op = "start" /\ DoStart
  \/ t.op = "restart" /\ DoRestart
  \/ t.op = "reset" /\ DoReset
  \/ t.op = "kill" /\ DoKill
  \/ t.op = "timeoutKill" /\ DoTimeoutKill(t.gen)
  \/ t.op = "killForExit" /\ DoKillForExit
  \/ t.op = "shutdown" /\ DoShutdown
  \/ t.op \in {"exit", "execFailed"} /\ DoPostExit(t)

\* Lifecycle::StopRunningProfile blocks only when it is the one that stops.
MustWait(t) == t.before # "none" /\ running # NoProfile /\ ~StopBusy

\* Waits for the stop in a nested loop, or runs to its end at once.
Run(t) ==
  \/ /\ MustWait(t)
     /\ frames' = Append(frames, t)
     /\ UNCHANGED <<phase, core, posts, coreRunning, startedId, barred, faults>>
  \/ /\ ~MustWait(t)
     /\ Perform(t)
     /\ UNCHANGED frames

\* Mutated form of Dropped: without a process, shutdown() is never answered.
Dropped_Shutdown(t) ==
  \/ t.op # "start" /\ core.generation = 0
  \/ t.op = "restart" /\ prepareExit
\* A task returns before its first effect: no process, or a restart during the exit.
Dropped(t) ==
  \/ t.op \notin {"start", "shutdown"} /\ core.generation = 0
  \/ t.op = "restart" /\ prepareExit

dsFrame == <<sup, running, starting, stopping, guardVars, netVars, requests>>

TakeTask ==
  /\ dsQ # <<>>
  /\ dsQ' = Tail(dsQ)
  /\ \/ /\ Dropped(Head(dsQ))
        /\ UNCHANGED <<phase, core, frames, posts, coreRunning, startedId, barred, faults>>
     \/ /\ ~Dropped(Head(dsQ))
        /\ Run(Head(dsQ))
  /\ UNCHANGED dsFrame

\* ConnectionManager::stop's worker for the frame that waits; it ends on the main thread.
StopWorker ==
  /\ frames # <<>> /\ phase # "done"
  /\ LET n == Len(frames) IN
       /\ ~frames[n].stopped
       /\ frames' = [frames EXCEPT ![n] = [frames[n] EXCEPT !.stopped = TRUE]]
       /\ startedId' = IF frames[n].before = "manualStop" THEN NoProfile ELSE startedId
  /\ running' = NoProfile
  /\ UNCHANGED <<phase, sup, coreRunning, starting, stopping, guardVars, core, dsQ, posts,
                 netVars, bookVars>>

\* The nested loop ends and the innermost frame runs to its end.
ResumeFrame ==
  /\ frames # <<>>
  /\ LET n == Len(frames) IN
       /\ frames[n].stopped
       /\ Perform(frames[n])
       /\ frames' = SubSeq(frames, 1, n - 1)
  /\ UNCHANGED <<dsQ, dsFrame>>

CoreSpawned ==
  /\ core.os = "starting"
  /\ core' = [core EXCEPT !.os = "up"]
  /\ posts' = SpawnReport
  /\ UNCHANGED <<phase, coreRunning, startedId, dsQ, frames, barred, faults, dsFrame>>

\* The child has ended: NotRunning, then the blocking cleanup or the report at once.
NotRunning(t) ==
  /\ coreRunning' = FALSE
  /\ \/ /\ MustWait(t)
        /\ core' = Gone(core)
        /\ frames' = Append(frames, t)
        /\ UNCHANGED posts
     \/ /\ ~MustWait(t)
        /\ core' = Blamed(t, Gone(core))
        /\ posts' = posts \o Reports(t)
        /\ UNCHANGED frames
  /\ UNCHANGED <<phase, startedId, dsQ, barred, dsFrame>>

\* Windows knows by then that the start failed, and has nothing to clean up.
ExecFails ==
  /\ core.os = "starting" /\ ~core.dialed
  /\ Fault
  /\ LET before == IF prepareExit \/ ~HasPrivilegeProbe THEN "none" ELSE "stop"
     IN NotRunning(Task("execFailed", before, 0, FALSE))

CoreExits ==
  /\ core.os = "up" /\ core.dying
  /\ \/ /\ prepareExit
        /\ core' = Gone(core)
        /\ coreRunning' = FALSE
        /\ UNCHANGED <<phase, posts, startedId, dsQ, frames, barred, dsFrame>>
     \/ /\ ~prepareExit
        /\ NotRunning(Task("exit", "stop", core.generation, core.identityExit))
  /\ UNCHANGED faults

-----------------------------------------------------------------------------
(* The core process.                                                       *)

coreFrame == <<phase, sup, coreRunning, profVars, guardVars, dsQ, frames, posts, probes,
               channel, barred, requests>>

Alive == core.os # "none" /\ ~core.dying

Dial ==
  /\ Alive /\ ~core.dialed
  /\ core' = [core EXCEPT !.dialed = TRUE]
  /\ conns' = conns \cup {core.pid}
  /\ UNCHANGED <<faults, coreFrame>>

\* A crash, or the exit code of a core that cannot adopt the guard group.
CoreDies ==
  /\ Alive /\ Fault
  /\ \E identity \in BOOLEAN :
       /\ identity => core.guard /\ ~core.dialed
       /\ core' = Blame([core EXCEPT !.dying = TRUE, !.identityExit = identity])
  /\ UNCHANGED <<conns, coreFrame>>

\* The core takes kConnectTimeoutMs or more to dial, if it ever does.
CoreIsSlow ==
  /\ Alive /\ ~core.dialed /\ ~core.slow /\ Fault
  /\ core' = Blame([core EXCEPT !.slow = TRUE])
  /\ UNCHANGED <<conns, coreFrame>>

-----------------------------------------------------------------------------
(* What the main thread handles.                                           *)

mainFrame == <<phase, startedId, running, stopping, killSwitch, core, frames, faults, requests>>

\* onNewConnection up to the generation checks: the peer must be the current
\* child, and its generation neither handled nor timed out.
VerifyConnection(c) ==
  /\ MainFree /\ phase # "done"
  /\ conns' = conns \ {c}
  /\ \/ /\ core.os # "none" /\ core.pid = c
        /\ core.generation > sup.handledExitGen /\ core.generation > sup.timedOutGen
        /\ sup' = [sup EXCEPT !.accepting = core.generation]
        /\ channel' = c
     \/ /\ \/ core.os = "none" \/ core.pid # c
           \/ core.generation <= sup.handledExitGen \/ core.generation <= sup.timedOutGen
        /\ UNCHANGED <<sup, channel>>
  /\ UNCHANGED <<coreRunning, starting, noIdentity, dsQ, posts, probes, barred, mainFrame>>

\* The rest of onNewConnection. DS_cores may have seen the core end in between.
Accept ==
  /\ sup.accepting # 0
  /\ coreRunning' = TRUE
  /\ LET gen == MaxOf(sup.acceptedGen, sup.accepting)
         accepted == [sup EXCEPT !.accepting = 0, !.acceptedGen = gen,
                                 !.connectTimer = FALSE, !.state = "Connected"]
     IN \/ /\ exiting
           /\ sup' = [sup EXCEPT !.accepting = 0]
           /\ UNCHANGED <<probes, starting>>
        \/ /\ ~exiting /\ HasPrivilegeProbe
           /\ sup' = [accepted EXCEPT !.probing = TRUE]
           /\ probes' = probes \cup {Probe(gen, "none")}
           /\ UNCHANGED starting
        \/ /\ ~exiting /\ ~HasPrivilegeProbe
           /\ sup' = [accepted EXCEPT !.startFailures = 0, !.startWhenUp = NoProfile,
                                !.guardRestart = FALSE]
           /\ starting' \in IF starting = NoProfile /\ ~StopBusy
                            THEN {NoProfile, sup.startWhenUp} ELSE {starting}
           /\ UNCHANGED probes
  /\ UNCHANGED <<noIdentity, dsQ, posts, conns, channel, barred, mainFrame>>

\* emitCoreStarted and ConnectionManager::onCoreStarted: the waiting profile is
\* refused, handed to a start worker, or waits for the successor of a core that
\* is gone already.
emitCoreStarted ==
  LET started == [sup EXCEPT !.probing = FALSE, !.startFailures = 0, !.startWhenUp = NoProfile,
                              !.guardRestart = FALSE]
      mayStart == sup.startWhenUp # NoProfile /\ starting = NoProfile /\ ~StopBusy
  IN \/ /\ sup' = started
        /\ UNCHANGED <<starting, dsQ>>
     \/ /\ mayStart /\ coreRunning
        /\ sup' = started
        /\ starting' = sup.startWhenUp
        /\ UNCHANGED dsQ
     \/ /\ mayStart /\ ~coreRunning
        /\ restartNotListening(started, sup.startWhenUp)
        /\ UNCHANGED starting

\* The probe's own thread: the core answers, or the call fails or times out.
ProbeReply(p) ==
  /\ p.reply = "none"
  /\ \E reply \in {"ok", "failed"} :
       /\ reply = "ok" => ChannelUp
       /\ probes' = (probes \ {p}) \cup {Probe(p.gen, reply)}
  /\ UNCHANGED <<sup, coreRunning, starting, noIdentity, dsQ, posts, conns, channel, barred,
                 mainFrame>>

\* The first answer of the privilege probe; its retries only refresh a cache.
OnPrivilegeProbed(p) ==
  /\ MainFree
  /\ p.reply # "none"
  /\ probes' = probes \ {p}
  /\ LET current == /\ sup.probing /\ p.gen = sup.acceptedGen /\ sup.state = "Connected"
                    /\ ~exiting /\ (p.reply = "ok" \/ ChannelUp)
     IN \/ /\ current
           /\ emitCoreStarted
        \/ /\ ~current
           /\ UNCHANGED <<sup, starting, dsQ>>
  /\ UNCHANGED <<coreRunning, noIdentity, posts, conns, channel, barred, mainFrame>>

timerFrame == <<coreRunning, starting, noIdentity, posts, netVars, barred, mainFrame>>

\* The backoff is over.
postRestart ==
  /\ MainFree /\ sup.restartTimer
  /\ LET fired == [sup EXCEPT !.restartTimer = FALSE] IN
       \/ /\ sup.state = "Backoff" /\ ~exiting
          /\ postProcessRestart([fired EXCEPT !.state = "Starting"], "none")
       \/ /\ sup.state # "Backoff" \/ exiting
          /\ sup' = fired
          /\ UNCHANGED dsQ
  /\ UNCHANGED timerFrame

\* The timer of a live core fires only if that core is slow.
onConnectTimeout ==
  /\ MainFree /\ sup.connectTimer
  /\ Alive /\ sup.connectGen = core.generation => core.slow
  /\ LET fired == [sup EXCEPT !.connectTimer = FALSE]
         late == /\ sup.state = "Starting" /\ ~exiting
                 /\ sup.connectGen > sup.acceptedGen /\ sup.connectGen = core.generation
     IN \/ /\ late
           /\ sup' = [fired EXCEPT !.timedOutGen = sup.connectGen]
           /\ dsQ' = Append(dsQ, Task("timeoutKill", "none", sup.connectGen, FALSE))
        \/ /\ ~late
           /\ sup' = fired
           /\ UNCHANGED dsQ
  /\ UNCHANGED timerFrame

\* The call at the head of the main thread's queue.
Posted(kind) ==
  /\ MainFree
  /\ posts # <<>> /\ Head(posts).kind = kind
  /\ posts' = Tail(posts)

postFrame == <<coreRunning, starting, netVars, mainFrame>>

\* Mutated form of Watched: a restarted core is not watched.
Watched_FirstOnly(gen) == sup.state = "Starting" /\ sup.connectGen = 0 /\ ~exiting
\* The accept can be dispatched before the report of the spawn.
Watched(gen) == sup.state = "Starting" /\ gen > sup.acceptedGen /\ ~exiting

onCoreSpawned ==
  /\ Posted("spawned")
  /\ LET gen == Head(posts).gen
     IN sup' = IF Watched(gen)
               THEN [sup EXCEPT !.connectGen = gen, !.connectTimer = TRUE] ELSE sup
  /\ UNCHANGED <<noIdentity, dsQ, barred, postFrame>>

restartDeadCore ==
  /\ Posted("restartDead")
  /\ \/ /\ Dead /\ ~exiting
        /\ postProcessRestart([beginRestart(sup) EXCEPT !.startWhenUp = startedId], "none")
     \/ /\ ~Dead \/ exiting
        /\ UNCHANGED <<sup, dsQ>>
  /\ UNCHANGED <<noIdentity, barred, postFrame>>

scheduleRestart(s) == [s EXCEPT !.state = "Backoff", !.restartTimer = TRUE]

WasProbing(gen) == sup.probing /\ gen = sup.acceptedGen

\* Mutated form of noteExit: the generation is not remembered.
noteExit_Forgets(gen) == [sup EXCEPT !.probing = sup.probing /\ ~WasProbing(gen)]
\* What onCoreExited does first with every report it has not handled yet.
noteExit(gen) ==
  [sup EXCEPT !.handledExitGen = gen, !.probing = sup.probing /\ ~WasProbing(gen)]

ExitFrame == <<phase, running, coreRunning, starting, stopping, killSwitch, core, dsQ, frames,
               netVars, faults, requests>>

\* A report of a generation already handled, or one during the exit.
MootExit(r) ==
  /\ sup' = IF r.gen <= sup.handledExitGen THEN sup ELSE noteExit(r.gen)
  /\ r.gen <= sup.handledExitGen \/ exiting
  /\ UNCHANGED <<startedId, noIdentity, barred>>

\* The exit the supervisor caused itself: a restart, without counting it.
ExpectedExit(r) ==
  /\ core.expectedExitGen = r.gen
  /\ LET resume == IF ~WasProbing(r.gen) \/ sup.startWhenUp = NoProfile
                   THEN startedId ELSE sup.startWhenUp
     IN sup' = scheduleRestart([noteExit(r.gen) EXCEPT !.connectTimer = FALSE, !.failures = 0,
                                  !.startFailures = 0, !.startWhenUp = resume])
  /\ UNCHANGED <<startedId, noIdentity, barred>>

WasConnected(r) == ~r.failedToStart /\ r.gen = sup.acceptedGen /\ ~WasProbing(r.gen)

\* The core could not adopt the guard group: the next one is spawned without it.
IdentityRefused(r) == ~WasConnected(r) /\ r.identity /\ ~noIdentity

IdentityExit(r) ==
  /\ core.expectedExitGen # r.gen /\ IdentityRefused(r)
  /\ noIdentity' = killSwitch
  /\ sup' = scheduleRestart([noteExit(r.gen) EXCEPT !.connectTimer = FALSE])
  /\ UNCHANGED <<startedId, barred>>

\* A failure. stable: it was connected for kStableMs. soon: a connected core
\* crashed within kProfileCrashWindowMs of the crash before.
FailedExit(r, stable, soon) ==
  LET connected == WasConnected(r)
      failures == IF connected /\ stable THEN 1 ELSE sup.failures + 1
      startFailures == IF connected THEN sup.startFailures ELSE sup.startFailures + 1
      tooFrequent == connected /\ sup.crashTimer /\ soon
      settled == connected \/ sup.startWhenUp = NoProfile
      declined == settled /\ tooFrequent /\ startedId # NoProfile
      resume == IF declined THEN NoProfile
                ELSE IF settled THEN startedId ELSE sup.startWhenUp
      giveUp == \/ failures >= GiveUpAfter /\ resume = NoProfile
                \/ ~connected /\ startFailures >= GiveUpAfter
      counted == [noteExit(r.gen) EXCEPT !.connectTimer = FALSE, !.failures = failures,
                    !.startFailures = startFailures,
                    !.crashTimer = IF connected THEN ~tooFrequent ELSE sup.crashTimer,
                    !.startWhenUp = IF giveUp THEN NoProfile ELSE resume]
  IN /\ core.expectedExitGen # r.gen /\ ~IdentityRefused(r)
     /\ sup' = IF giveUp THEN [counted EXCEPT !.state = "GaveUp", !.guardRestart = FALSE] ELSE scheduleRestart(counted)
     /\ startedId' = IF giveUp \/ declined THEN NoProfile ELSE startedId
     /\ barred' = IF giveUp \/ declined THEN "declined" ELSE barred
     /\ UNCHANGED noIdentity

onCoreExited ==
  /\ Posted("exit")
  /\ LET r == Head(posts) IN
       \/ MootExit(r)
       \/ /\ r.gen > sup.handledExitGen /\ ~exiting
          /\ \/ ExpectedExit(r)
             \/ IdentityExit(r)
             \/ \E stable, soon \in BOOLEAN : FailedExit(r, stable, soon)
  /\ UNCHANGED ExitFrame

-----------------------------------------------------------------------------
Boot == Listen \/ \E p \in MaybeProfile : Start(p)

Requests ==
  \/ ResetCore \/ KillForPrivilegeChange \/ StopProfile \/ SetKillSwitch
  \/ BeginExit \/ KillForExit
  \/ \E p \in Profiles : StartProfile(p)
  \/ \E p \in MaybeProfile : RestartForGuard(p)

Main ==
  \/ \E c \in conns : VerifyConnection(c)
  \/ Accept
  \/ \E p \in probes : OnPrivilegeProbed(p)
  \/ onCoreSpawned \/ restartDeadCore \/ onCoreExited

Exit == ExitStopDone \/ Shutdown

DsCores == TakeTask \/ StopWorker \/ ResumeFrame \/ CoreSpawned \/ CoreExits

Timers == postRestart \/ onConnectTimeout

Workers == StartWorker \/ SwitchStop \/ StopDone \/ \E p \in probes : ProbeReply(p)

Next ==
  \/ Boot \/ Requests \/ Workers \/ Exit
  \/ Main \/ Timers \/ DsCores
  \/ ExecFails \/ Dial \/ CoreDies \/ CoreIsSlow

Spec == Init /\ [][Next]_vars

-----------------------------------------------------------------------------
(* Properties.                                                             *)

\* Every variable holds a value of its kind.
TypeOK ==
  /\ phase \in Phases
  /\ sup \in Supervisors
  /\ core \in Cores
  /\ coreRunning \in BOOLEAN
  /\ startedId \in MaybeProfile /\ running \in MaybeProfile /\ starting \in MaybeProfile
  /\ stopping \in BOOLEAN
  /\ killSwitch \in BOOLEAN /\ noIdentity \in BOOLEAN
  /\ dsQ \in Seq(Tasks) /\ frames \in Seq(Tasks) /\ posts \in Seq(Posts)
  /\ conns \subseteq Nat /\ probes \subseteq Probes /\ channel \in Nat
  /\ barred \in {"no", "declined", "stopped"}
  /\ faults \in 0..MaxFaults /\ requests \in 0..MaxRequests

\* Something is on its way that will move a supervisor waiting for a core.
UnderWay ==
  \/ dsQ # <<>> \/ frames # <<>>
  \/ core.os = "starting" \/ core.dying
  \/ sup.accepting # 0
  \/ sup.connectTimer /\ sup.connectGen = core.generation /\ core.os = "up"
  \/ \E i \in DOMAIN posts :
       \/ posts[i].kind = "exit" /\ posts[i].gen > sup.handledExitGen
       \/ posts[i].kind = "spawned" /\ posts[i].gen = core.generation /\ posts[i].gen > sup.acceptedGen

\* There is a core, or the news of its end is on its way.
CoreOrNews ==
  \/ core.os # "none" \/ dsQ # <<>> \/ frames # <<>>
  \/ \E i \in DOMAIN posts : posts[i].kind = "exit" /\ posts[i].gen > sup.handledExitGen

\* CoreSupervisor never strands itself: while it is Starting, a task, a report,
\* an accept or the connect timer of the current core is still to come, in Backoff
\* the restart timer runs, and while it is Connected no interleaving of kills,
\* restarts and late reports loses the news of the core's end. Nothing else would
\* ever restart the core.
NotStranded ==
  ~exiting => /\ sup.state = "Starting" => UnderWay
              /\ sup.state = "Backoff" => sup.restartTimer
              /\ sup.state = "Connected" => CoreOrNews

\* What counts towards giving up: the two counters rise only with the first report of an
\* exit, and only for a generation that a fault is blamed on. Restarts and second reports
\* of one exit never count. An exit the supervisor caused itself counts in one case only:
\* a second kill on purpose took the one slot that tells them apart (m_expectedExitGen)
\* before the first exit was handled.
OnlyFaultsCount ==
  [][sup'.failures > sup.failures \/ sup'.startFailures > sup.startFailures =>
       /\ sup'.handledExitGen > sup.handledExitGen
       /\ sup'.handledExitGen \in core.failed \cup core.unmarked]_vars

\* After a give-up, a profile declined for crashing too often, or a user stop with
\* nothing running, no profile starts until somebody asks for one.
NoStartOnceDeclined ==
  [][starting' # starting /\ starting' # NoProfile => barred' # "declined"]_vars

\* A user stop ends the run: nothing starts afterwards until somebody asks for it,
\* not even through a resume that a crash of the core has set up (stop).
NoStartAfterStop ==
  [][starting' # starting /\ starting' # NoProfile => barred' # "stopped"]_vars

Fairness ==
  /\ WF_vars(Boot) /\ WF_vars(Exit) /\ WF_vars(Workers)
  /\ WF_vars(Main) /\ WF_vars(Timers) /\ WF_vars(DsCores)
  /\ WF_vars(~core.slow /\ Dial)

FairSpec == Spec /\ Fairness

\* A supervisor that waits for a core gets one, gives up or shuts down.
Recovers ==
  sup.state \in {"Starting", "Backoff"} ~>
    sup.state \in {"Connected", "GaveUp", "ShuttingDown"} \/ prepareExit

\* The exit ends: no wait of the main thread for DS_cores, or of DS_cores for the
\* main thread, blocks it.
ExitCompletes == prepareExit ~> phase = "done"
=============================================================================
