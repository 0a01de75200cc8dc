------------------------ MODULE CoreSupervisorProofs ------------------------
(***************************************************************************)
(* Proofs about CoreSupervisor, for every set of profiles, every           *)
(* GiveUpAfter, both platforms and every bound.                            *)
(***************************************************************************)
EXTENDS CoreSupervisor, SequenceTheorems, TLAPS

(* What the helpers return.                                                *)

\* Appending an element of a kind to a sequence of that kind.
LEMMA AppendType ==
  ASSUME NEW S, NEW q \in Seq(S), NEW e \in S
  PROVE  Append(q, e) \in Seq(S)
OBVIOUS

\* A task posted to DS_cores is well formed.
LEMMA TaskType ==
  ASSUME NEW op \in {"start", "restart", "reset", "kill", "timeoutKill", "killForExit",
                     "shutdown", "exit", "execFailed"},
         NEW before \in {"none", "stop", "manualStop"}, NEW gen \in Nat,
         NEW identity \in BOOLEAN
  PROVE  Task(op, before, gen, identity) \in Tasks
BY DEF Task, Tasks

\* A call posted to the main thread is well formed.
LEMMA PostType ==
  ASSUME NEW kind \in {"spawned", "exit", "restartDead"}, NEW gen \in Nat,
         NEW failedToStart \in BOOLEAN, NEW identity \in BOOLEAN
  PROVE  Post(kind, gen, failedToStart, identity) \in Posts
BY DEF Post, Posts

\* qMax of two generations is a generation.
LEMMA MaxOfType ==
  ASSUME NEW a \in Nat, NEW b \in Nat
  PROVE  MaxOf(a, b) \in Nat
BY DEF MaxOf

\* The supervisor's helpers keep its members well formed.
LEMMA SupervisorTypes ==
  ASSUME NEW s \in Supervisors, NEW p \in MaybeProfile
  PROVE  /\ beginRestart(s) \in Supervisors
         /\ [s EXCEPT !.startWhenUp = p] \in Supervisors
         /\ scheduleRestart(s) \in Supervisors
         /\ cancelResume(s) \in Supervisors
<1>1. beginRestart(s) \in Supervisors
  BY DEF beginRestart, Supervisors, States
<1>2. [s EXCEPT !.startWhenUp = p] \in Supervisors
  BY DEF Supervisors
<1>3. scheduleRestart(s) \in Supervisors
  BY DEF scheduleRestart, Supervisors, States
<1>4. cancelResume(s) \in Supervisors
  BY DEF cancelResume, Supervisors, MaybeProfile
<1>5. QED
  BY <1>1, <1>2, <1>3, <1>4

\* CoreProcess::Start, Kill and the end of the child keep the core well formed.
LEMMA CoreTypes ==
  ASSUME NEW c \in Cores
  PROVE  /\ Spawn(c) \in Cores /\ Kill(c) \in Cores /\ Gone(c) \in Cores
         /\ Expect(c) \in Cores /\ Blame(c) \in Cores /\ \A t : Blamed(t, c) \in Cores
<1>1. ASSUME NEW gen \in Nat, NEW guard \in BOOLEAN
      PROVE  [c EXCEPT !.generation = gen, !.os = "starting", !.pid = gen, !.dying = FALSE,
                       !.identityExit = FALSE, !.slow = FALSE, !.dialed = FALSE,
                       !.guard = guard] \in Cores
  BY DEF Cores
<1>2. c.generation + 1 \in Nat /\ (killSwitch /\ ~noIdentity) \in BOOLEAN
  BY DEF Cores
<1>3. Spawn(c) \in Cores
  BY <1>1, <1>2 DEF Spawn
<1>4. Kill(c) \in Cores
  <2>1. (c.os # "none") \in BOOLEAN
    OBVIOUS
  <2>2. ASSUME NEW dying \in BOOLEAN
        PROVE  [c EXCEPT !.dying = dying] \in Cores
    BY DEF Cores
  <2>3. QED
    BY <2>1, <2>2 DEF Kill
<1>5. Gone(c) \in Cores
  BY DEF Gone, Cores
<1>6. Blame(c) \in Cores
  <2>1. c.failed \cup {c.generation} \in SUBSET Nat
    BY DEF Cores
  <2>2. ASSUME NEW S \in SUBSET Nat
        PROVE  [c EXCEPT !.failed = S] \in Cores
    BY DEF Cores
  <2>3. QED
    BY <2>1, <2>2 DEF Blame
<1>7. Expect(c) \in Cores
  <2>1. /\ c.generation \in Nat
        /\ Kill(c).unmarked \cup ({c.expectedExitGen} \ {c.generation}) \in SUBSET Nat
    BY <1>4 DEF Cores
  <2>2. ASSUME NEW gen \in Nat, NEW S \in SUBSET Nat
        PROVE  [Kill(c) EXCEPT !.expectedExitGen = gen, !.unmarked = S] \in Cores
    BY <1>4 DEF Cores
  <2>3. QED
    BY <2>1, <2>2 DEF Expect
<1>8. \A t : Blamed(t, c) \in Cores
  BY <1>6 DEF Blamed
<1>9. QED
  BY <1>3, <1>4, <1>5, <1>6, <1>7, <1>8

\* Marking an exit as expected is a kill; blaming a generation changes no other member.
LEMMA Marks ==
  ASSUME NEW c \in Cores
  PROVE  /\ Kill(c).generation = c.generation /\ Kill(c).os = c.os
         /\ Kill(c).dying = (c.os # "none")
         /\ Kill(c).failed = c.failed /\ Kill(c).unmarked = c.unmarked
         /\ Kill(c).expectedExitGen = c.expectedExitGen
         /\ Expect(c).generation = c.generation /\ Expect(c).os = c.os
         /\ Expect(c).dying = (c.os # "none") /\ Expect(c).failed = c.failed
         /\ Expect(c).expectedExitGen = c.generation
         /\ c.unmarked \subseteq Expect(c).unmarked
         /\ c.expectedExitGen \in Expect(c).unmarked \cup {c.generation}
         /\ Blame(c).generation = c.generation /\ Blame(c).os = c.os
         /\ Blame(c).dying = c.dying /\ Blame(c).unmarked = c.unmarked
         /\ Blame(c).expectedExitGen = c.expectedExitGen
         /\ Blame(c).failed = c.failed \cup {c.generation}
<1>1. /\ Kill(c).generation = c.generation /\ Kill(c).os = c.os
      /\ Kill(c).dying = (c.os # "none")
      /\ Kill(c).failed = c.failed /\ Kill(c).unmarked = c.unmarked
      /\ Kill(c).expectedExitGen = c.expectedExitGen
  BY DEF Kill, Cores
<1>2. Kill(c) \in Cores
  BY CoreTypes
<1>3. /\ Expect(c).generation = Kill(c).generation /\ Expect(c).os = Kill(c).os
      /\ Expect(c).dying = Kill(c).dying /\ Expect(c).failed = Kill(c).failed
      /\ Expect(c).expectedExitGen = c.generation
      /\ Expect(c).unmarked = Kill(c).unmarked \cup ({c.expectedExitGen} \ {c.generation})
  BY <1>2 DEF Expect, Cores
<1>4. /\ Blame(c).generation = c.generation /\ Blame(c).os = c.os
      /\ Blame(c).dying = c.dying /\ Blame(c).unmarked = c.unmarked
      /\ Blame(c).expectedExitGen = c.expectedExitGen
      /\ Blame(c).failed = c.failed \cup {c.generation}
  BY DEF Blame, Cores
<1>5. QED
  BY <1>1, <1>3, <1>4

\* Posting a restart keeps the supervisor and DS_cores' queue well formed.
LEMMA RestartType ==
  ASSUME TypeOK, NEW s \in Supervisors, NEW before \in {"none", "stop", "manualStop"},
         postProcessRestart(s, before)
  PROVE  sup' \in Supervisors /\ dsQ' \in Seq(Tasks)
<1>1. MaxOf(s.handledExitGen, core.generation) \in Nat
  BY MaxOfType DEF TypeOK, Cores, Supervisors
<1>2. ASSUME NEW gen \in Nat
      PROVE  [s EXCEPT !.handledExitGen = gen] \in Supervisors
  BY DEF Supervisors
<1>3. Task("restart", before, 0, FALSE) \in Tasks
  BY TaskType
<1>4. Append(dsQ, Task("restart", before, 0, FALSE)) \in Seq(Tasks)
  BY <1>3, AppendType DEF TypeOK
<1>5. QED
  BY <1>1, <1>2, <1>4 DEF postProcessRestart

\* A request or a fault is made only below its bound.
LEMMA CounterTypes ==
  ASSUME TypeOK
  PROVE  /\ Request => requests' \in 0..MaxRequests
         /\ Fault => faults' \in 0..MaxFaults
BY BoundsAssumption DEF TypeOK, Request, Fault

\* Boot and requests.
LEMMA RequestTypes ==
  ASSUME TypeOK, Boot \/ Requests
  PROVE  TypeOK'
<1>1. CASE Listen
  <2>1. sup' \in Supervisors
    BY <1>1 DEF TypeOK, Listen, Supervisors, States
  <2>2. QED
    BY <1>1, <2>1 DEF TypeOK, Listen, Phases, profVars, guardVars, procVars, netVars, bookVars
<1>2. ASSUME NEW p \in MaybeProfile, Start(p)
      PROVE  TypeOK'
  <2>1. Append(dsQ, Task("start", "none", 0, FALSE)) \in Seq(Tasks)
    BY TaskType, AppendType DEF TypeOK
  <2>2. [sup EXCEPT !.state = "Starting", !.startWhenUp = p] \in Supervisors
    BY DEF TypeOK, Supervisors, States
  <2>3. QED
    BY <1>2, <2>1, <2>2 DEF TypeOK, Start, Phases, profVars, guardVars, netVars, bookVars
<1>3. CASE ResetCore
  <2>1. NoProfile \in MaybeProfile
    BY DEF MaybeProfile
  <2>2. beginRestart(sup) \in Supervisors
    BY SupervisorTypes, <2>1 DEF TypeOK
  <2>3. [beginRestart(sup) EXCEPT !.startWhenUp = NoProfile] \in Supervisors
    BY SupervisorTypes, <2>1, <2>2
  <2>4. Append(dsQ, Task("reset", "manualStop", 0, FALSE)) \in Seq(Tasks)
    BY TaskType, AppendType DEF TypeOK
  <2>5. sup' \in Supervisors /\ dsQ' \in Seq(Tasks)
    BY <1>3, RestartType, <2>2, <2>3, <2>4 DEF ResetCore, TypeOK
  <2>6. QED
    BY CounterTypes, <1>3, <2>1, <2>5 DEF TypeOK, ResetCore, guardVars, netVars
<1>4. CASE KillForPrivilegeChange
  <2>1. /\ Append(dsQ, Task("kill", "none", 0, FALSE)) \in Seq(Tasks)
        /\ Append(posts, Post("restartDead", 0, FALSE, FALSE)) \in Seq(Posts)
    BY TaskType, PostType, AppendType DEF TypeOK
  <2>2. QED
    BY CounterTypes, <1>4, <2>1 DEF TypeOK, KillForPrivilegeChange, profVars, guardVars, netVars
<1>5. CASE StopProfile
  <2>1. NoProfile \in MaybeProfile
    BY DEF MaybeProfile
  <2>2. cancelResume(sup) \in Supervisors
    BY SupervisorTypes, <2>1 DEF TypeOK
  <2>3. QED
    BY CounterTypes, <1>5, <2>1, <2>2 DEF TypeOK, StopProfile, guardVars, procVars, netVars
<1>6. CASE SetKillSwitch
  <2>1. (noIdentity /\ ~killSwitch) \in BOOLEAN /\ (~killSwitch) \in BOOLEAN
    OBVIOUS
  <2>2. QED
    BY CounterTypes, <1>6, <2>1 DEF TypeOK, SetKillSwitch, profVars, procVars, netVars
<1>7. CASE BeginExit
  BY CounterTypes, <1>7 DEF TypeOK, BeginExit, Phases, exitFrame, guardVars, netVars
<1>8. CASE KillForExit
  <2>1. Append(dsQ, Task("killForExit", "none", 0, FALSE)) \in Seq(Tasks)
    BY TaskType, AppendType DEF TypeOK
  <2>2. sup' \in Supervisors
    BY <1>8 DEF TypeOK, KillForExit, stopSupervising, Supervisors, States
  <2>3. QED
    BY CounterTypes, <1>8, <2>1, <2>2 DEF TypeOK, KillForExit, exitFrame, guardVars, netVars
<1>9. ASSUME NEW p \in Profiles, StartProfile(p)
      PROVE  TypeOK'
  <2>1. p \in MaybeProfile
    BY DEF MaybeProfile
  <2>2. /\ [sup EXCEPT !.startWhenUp = p] \in Supervisors
        /\ [beginRestart(sup) EXCEPT !.startWhenUp = p] \in Supervisors
    BY SupervisorTypes, <2>1 DEF TypeOK
  <2>3. sup' \in Supervisors /\ dsQ' \in Seq(Tasks)
    BY <1>9, RestartType, <2>2 DEF StartProfile, restartNotListening, TypeOK
  <2>4. QED
    BY CounterTypes, <1>9, <2>1, <2>3 DEF TypeOK, StartProfile, guardVars, netVars
<1>10. ASSUME NEW p \in MaybeProfile, RestartForGuard(p)
       PROVE  TypeOK'
  <2>1. [beginRestart(sup) EXCEPT !.startWhenUp = p, !.guardRestart = TRUE] \in Supervisors
    BY SupervisorTypes DEF TypeOK, Supervisors
  <2>2. sup' \in Supervisors /\ dsQ' \in Seq(Tasks)
    BY <1>10, RestartType, <2>1 DEF RestartForGuard
  <2>3. QED
    BY CounterTypes, <1>10, <2>2 DEF TypeOK, RestartForGuard, profVars, guardVars, netVars
<1>11. QED
  BY <1>1, <1>2, <1>3, <1>4, <1>5, <1>6, <1>7, <1>8, <1>9, <1>10 DEF Boot, Requests

\* The workers of ConnectionManager and the exit.
LEMMA WorkerTypes ==
  ASSUME TypeOK, Workers \/ Exit
  PROVE  TypeOK'
<1>1. NoProfile \in MaybeProfile
  BY DEF MaybeProfile
<1>2. CASE StartWorker
  BY <1>1, <1>2 DEF TypeOK, StartWorker, workFrame, guardVars, procVars, netVars
<1>3. CASE SwitchStop
  BY <1>3 DEF TypeOK, SwitchStop, workFrame, guardVars, procVars, netVars
<1>4. CASE StopDone
  BY <1>1, <1>4 DEF TypeOK, StopDone, workFrame, guardVars, procVars, netVars
<1>5. ASSUME NEW p \in probes, ProbeReply(p)
      PROVE  TypeOK'
  <2>1. p \in Probes
    BY DEF TypeOK
  <2>2. probes' \subseteq Probes
    BY <1>5, <2>1 DEF TypeOK, ProbeReply, Probe, Probes
  <2>3. QED
    BY <1>5, <2>2 DEF TypeOK, ProbeReply, mainFrame
<1>6. CASE ExitStopDone
  BY <1>1, <1>6 DEF TypeOK, ExitStopDone, Phases, exitFrame, guardVars, netVars
<1>7. CASE Shutdown
  <2>1. Append(dsQ, Task("shutdown", "none", 0, FALSE)) \in Seq(Tasks)
    BY TaskType, AppendType DEF TypeOK
  <2>2. sup' \in Supervisors
    BY <1>7 DEF TypeOK, Shutdown, stopSupervising, Supervisors, States
  <2>3. QED
    BY <1>7, <2>1, <2>2 DEF TypeOK, Shutdown, Phases, exitFrame, guardVars, netVars
<1>8. QED
  BY <1>2, <1>3, <1>4, <1>5, <1>6, <1>7 DEF Workers, Exit

\* The reports that the exit handlers post.
LEMMA ReportsType ==
  ASSUME TypeOK, NEW t \in Tasks
  PROVE  posts \o Reports(t) \in Seq(Posts)
<1>1. t.gen \in Nat /\ t.identity \in BOOLEAN /\ core.generation \in Nat
  BY DEF TypeOK, Tasks, Cores
<1>2. /\ Post("exit", t.gen, FALSE, t.identity) \in Posts
      /\ Post("exit", core.generation, TRUE, FALSE) \in Posts
  BY <1>1, PostType
<1>3. ASSUME NEW S, NEW a \in S
      PROVE  <<a>> \in Seq(S) /\ <<a, a>> \in Seq(S)
  OBVIOUS
<1>4. Reports(t) \in Seq(Posts)
  BY <1>2, <1>3 DEF Reports
<1>5. QED
  BY <1>4 DEF TypeOK

\* The innermost frame, and the frames without it.
LEMMA FrameType ==
  ASSUME NEW f \in Seq(Tasks), f # <<>>
  PROVE  f[Len(f)] \in Tasks /\ SubSeq(f, 1, Len(f) - 1) \in Seq(Tasks)
OBVIOUS

\* Marking the innermost frame as stopped.
LEMMA StoppedType ==
  ASSUME NEW f \in Seq(Tasks), f # <<>>
  PROVE  [f EXCEPT ![Len(f)] = [f[Len(f)] EXCEPT !.stopped = TRUE]] \in Seq(Tasks)
<1>1. f[Len(f)] \in Tasks
  BY FrameType
<1>2. [f[Len(f)] EXCEPT !.stopped = TRUE] \in Tasks
  BY <1>1 DEF Tasks
<1>3. QED
  BY <1>2

\* What is left of a task or an exit handler that DS_cores runs to its end.
LEMMA PerformTypes ==
  ASSUME TypeOK, NEW t \in Tasks, Perform(t)
  PROVE  /\ phase' \in Phases /\ core' \in Cores /\ coreRunning' \in BOOLEAN
         /\ startedId' \in MaybeProfile /\ posts' \in Seq(Posts)
         /\ barred' \in {"no", "declined", "stopped"}
         /\ faults' \in 0..MaxFaults
<1>1. /\ core \in Cores /\ Spawn(core) \in Cores /\ Kill(core) \in Cores
      /\ Gone(core) \in Cores
  BY CoreTypes DEF TypeOK
<1>2. core.generation \in Nat /\ core.generation + 1 \in Nat
  BY <1>1 DEF Cores
<1>3. /\ Blame([Kill(core) EXCEPT !.generation = core.generation + 1]) \in Cores
      /\ Expect(core) \in Cores /\ Blamed(t, core) \in Cores
  <2>1. ASSUME NEW gen \in Nat
        PROVE  [Kill(core) EXCEPT !.generation = gen] \in Cores
    BY <1>1 DEF Cores
  <2>2. QED
    BY <1>1, <1>2, <2>1, CoreTypes
<1>4. (coreRunning /\ core.os = "none") \in BOOLEAN
  OBVIOUS
<1>5. SpawnReport \in Seq(Posts)
  BY <1>2, PostType, AppendType DEF TypeOK, SpawnReport
<1>6. CASE DoStart
  BY <1>1, <1>6 DEF TypeOK, DoStart
<1>7. CASE DoRestart
  BY <1>1, <1>2, <1>3, <1>4, <1>5, <1>7, CounterTypes DEF TypeOK, DoRestart
<1>8. CASE DoReset
  BY <1>3, <1>8 DEF TypeOK, DoReset, MaybeProfile
<1>9. CASE DoKill
  BY <1>3, <1>9 DEF TypeOK, DoKill
<1>10. CASE DoTimeoutKill(t.gen)
  BY <1>1, <1>10 DEF TypeOK, DoTimeoutKill
<1>11. CASE DoKillForExit
  BY <1>1, <1>11 DEF TypeOK, DoKillForExit
<1>12. CASE DoShutdown
  BY <1>1, <1>4, <1>12 DEF TypeOK, DoShutdown, Phases
<1>13. CASE DoPostExit(t)
  <2>1. posts' \in Seq(Posts)
    BY <1>13, ReportsType DEF DoPostExit
  <2>2. QED
    BY <1>3, <1>13, <2>1 DEF TypeOK, DoPostExit
<1>14. QED
  BY <1>6, <1>7, <1>8, <1>9, <1>10, <1>11, <1>12, <1>13 DEF Perform

\* DS_cores.
LEMMA DsCoresTypes ==
  ASSUME TypeOK, DsCores \/ ExecFails
  PROVE  TypeOK'
<1>1. ASSUME dsQ # <<>>
      PROVE  Head(dsQ) \in Tasks /\ Tail(dsQ) \in Seq(Tasks)
  BY <1>1 DEF TypeOK
<1>2. CASE TakeTask
  <2>1. Head(dsQ) \in Tasks /\ Tail(dsQ) \in Seq(Tasks)
    BY <1>1, <1>2 DEF TakeTask
  <2>2. CASE Dropped(Head(dsQ))
    BY <1>2, <2>1, <2>2 DEF TypeOK, TakeTask, dsFrame, guardVars, netVars
  <2>3. CASE ~Dropped(Head(dsQ)) /\ MustWait(Head(dsQ))
    <3>1. Append(frames, Head(dsQ)) \in Seq(Tasks)
      BY <2>1, AppendType DEF TypeOK
    <3>2. QED
      BY <1>2, <2>1, <2>3, <3>1 DEF TypeOK, TakeTask, Run, dsFrame, guardVars, netVars
  <2>4. CASE ~Dropped(Head(dsQ)) /\ ~MustWait(Head(dsQ))
    <3>1. Perform(Head(dsQ)) /\ frames' = frames
      BY <1>2, <2>4 DEF TakeTask, Run
    <3>2. QED
      BY <1>2, <2>1, <3>1, PerformTypes DEF TypeOK, TakeTask, dsFrame, guardVars, netVars
  <2>5. QED
    BY <2>2, <2>3, <2>4
<1>3. CASE StopWorker
  <2>1. frames' \in Seq(Tasks)
    BY <1>3, StoppedType DEF StopWorker, TypeOK
  <2>2. QED
    BY <1>3, <2>1 DEF TypeOK, StopWorker, MaybeProfile, guardVars, netVars, bookVars
<1>4. CASE ResumeFrame
  <2>1. /\ frames[Len(frames)] \in Tasks
        /\ SubSeq(frames, 1, Len(frames) - 1) \in Seq(Tasks)
    BY <1>4, FrameType DEF ResumeFrame, TypeOK
  <2>2. QED
    BY <1>4, <2>1, PerformTypes DEF TypeOK, ResumeFrame, dsFrame, guardVars, netVars
<1>5. CASE CoreSpawned
  <2>1. core' \in Cores
    BY <1>5 DEF TypeOK, CoreSpawned, Cores
  <2>2. SpawnReport \in Seq(Posts)
    BY PostType, AppendType DEF TypeOK, SpawnReport, Cores
  <2>3. QED
    BY <1>5, <2>1, <2>2 DEF TypeOK, CoreSpawned, dsFrame, guardVars, netVars
<1>6. Gone(core) \in Cores /\ \A t : Blamed(t, Gone(core)) \in Cores
  BY CoreTypes DEF TypeOK
<1>7. ASSUME NEW t \in Tasks, NotRunning(t), faults' \in 0..MaxFaults
      PROVE  TypeOK'
  <2>1. Append(frames, t) \in Seq(Tasks) /\ posts \o Reports(t) \in Seq(Posts)
    BY AppendType, ReportsType DEF TypeOK
  <2>2. QED
    BY <1>6, <1>7, <2>1 DEF TypeOK, NotRunning, dsFrame, guardVars, netVars
<1>8. CASE ExecFails
  <2>1. Task("execFailed", IF prepareExit \/ ~HasPrivilegeProbe THEN "none" ELSE "stop", 0,
             FALSE) \in Tasks
    BY TaskType
  <2>2. QED
    BY <1>7, <1>8, <2>1, CounterTypes DEF ExecFails
<1>9. CASE CoreExits
  <2>1. Task("exit", "stop", core.generation, core.identityExit) \in Tasks
    BY TaskType DEF TypeOK, Cores
  <2>2. CASE prepareExit
    BY <1>6, <1>7, <1>9, <2>1, <2>2 DEF TypeOK, CoreExits, dsFrame, guardVars, netVars
  <2>3. CASE ~prepareExit
    <3>1. faults' \in 0..MaxFaults
      BY <1>9 DEF TypeOK, CoreExits
    <3>2. QED
      BY <1>7, <1>9, <2>1, <2>3, <3>1 DEF CoreExits
  <2>4. QED
    BY <2>2, <2>3
<1>10. QED
  BY <1>2, <1>3, <1>4, <1>5, <1>8, <1>9 DEF DsCores

\* The core process.
LEMMA CoreProcessTypes ==
  ASSUME TypeOK, Dial \/ CoreDies \/ CoreIsSlow
  PROVE  TypeOK'
<1>1. ASSUME NEW b \in BOOLEAN, NEW i \in BOOLEAN
      PROVE  /\ [core EXCEPT !.dialed = b] \in Cores
             /\ Blame([core EXCEPT !.slow = b]) \in Cores
             /\ Blame([core EXCEPT !.dying = b, !.identityExit = i]) \in Cores
  <2>1. /\ [core EXCEPT !.dialed = b] \in Cores
        /\ [core EXCEPT !.slow = b] \in Cores
        /\ [core EXCEPT !.dying = b, !.identityExit = i] \in Cores
    BY DEF TypeOK, Cores
  <2>2. QED
    BY <2>1, CoreTypes
<1>2. core' \in Cores
  BY <1>1 DEF Dial, CoreDies, CoreIsSlow
<1>3. conns' \subseteq Nat
  BY DEF TypeOK, Dial, CoreDies, CoreIsSlow, Cores
<1>4. faults' \in 0..MaxFaults
  BY CounterTypes DEF TypeOK, Dial, CoreDies, CoreIsSlow
<1>5. UNCHANGED coreFrame
  BY DEF Dial, CoreDies, CoreIsSlow
<1>6. QED
  BY <1>2, <1>3, <1>4, <1>5 DEF TypeOK, coreFrame, profVars, guardVars

\* The timers.
LEMMA TimerTypes ==
  ASSUME TypeOK, Timers
  PROVE  TypeOK'
<1>1. ASSUME NEW gen \in Nat
      PROVE  /\ [sup EXCEPT !.restartTimer = FALSE] \in Supervisors
             /\ [[sup EXCEPT !.restartTimer = FALSE] EXCEPT !.state = "Starting"] \in Supervisors
             /\ [sup EXCEPT !.connectTimer = FALSE] \in Supervisors
             /\ [[sup EXCEPT !.connectTimer = FALSE] EXCEPT !.timedOutGen = gen] \in Supervisors
  BY DEF TypeOK, Supervisors, States
<1>2. sup.connectGen \in Nat
  BY DEF TypeOK, Supervisors
<1>3. CASE postRestart
  <2>1. sup' \in Supervisors /\ dsQ' \in Seq(Tasks)
    BY <1>1, <1>2, <1>3, RestartType DEF postRestart, TypeOK
  <2>2. QED
    BY <1>3, <2>1 DEF TypeOK, postRestart, timerFrame, mainFrame, netVars
<1>4. CASE onConnectTimeout
  <2>1. Append(dsQ, Task("timeoutKill", "none", sup.connectGen, FALSE)) \in Seq(Tasks)
    BY <1>2, TaskType, AppendType DEF TypeOK
  <2>2. sup' \in Supervisors /\ dsQ' \in Seq(Tasks)
    BY <1>1, <1>2, <1>4, <2>1 DEF onConnectTimeout, TypeOK
  <2>3. QED
    BY <1>4, <2>2 DEF TypeOK, onConnectTimeout, timerFrame, mainFrame, netVars
<1>5. QED
  BY <1>3, <1>4 DEF Timers

\* Accepting a connection, and the answer of the privilege probe.
LEMMA AcceptTypes ==
  ASSUME TypeOK,
         \/ \E c \in conns : VerifyConnection(c)
         \/ Accept
         \/ \E p \in probes : OnPrivilegeProbed(p)
  PROVE  TypeOK'
<1>1. NoProfile \in MaybeProfile /\ sup.startWhenUp \in MaybeProfile
  BY DEF MaybeProfile, TypeOK, Supervisors
<1>2. ASSUME NEW c \in conns, VerifyConnection(c)
      PROVE  TypeOK'
  <2>1. sup' \in Supervisors
    BY <1>2 DEF TypeOK, VerifyConnection, Supervisors, Cores
  <2>2. QED
    BY <1>2, <2>1 DEF TypeOK, VerifyConnection, mainFrame
<1>3. CASE Accept
  <2> DEFINE gen == MaxOf(sup.acceptedGen, sup.accepting)
             accepted == [sup EXCEPT !.accepting = 0, !.acceptedGen = gen,
                                     !.connectTimer = FALSE, !.state = "Connected"]
  <2>1. gen \in Nat
    BY MaxOfType DEF TypeOK, Supervisors
  <2> HIDE DEF gen
  <2>2. /\ [accepted EXCEPT !.probing = TRUE] \in Supervisors
        /\ [accepted EXCEPT !.startFailures = 0, !.startWhenUp = NoProfile,
                            !.guardRestart = FALSE] \in Supervisors
        /\ [sup EXCEPT !.accepting = 0] \in Supervisors
    BY <1>1, <2>1 DEF TypeOK, Supervisors, States
  <2>3. Probe(gen, "none") \in Probes
    BY <2>1 DEF Probe, Probes
  <2> HIDE DEF accepted
  <2>4. /\ sup' \in Supervisors /\ probes' \subseteq Probes /\ starting' \in MaybeProfile
        /\ coreRunning' = TRUE
    BY <1>1, <1>3, <2>2, <2>3 DEF Accept, TypeOK, gen, accepted
  <2>5. QED
    BY <1>3, <2>4 DEF TypeOK, Accept, mainFrame
<1>4. ASSUME emitCoreStarted
      PROVE  sup' \in Supervisors /\ dsQ' \in Seq(Tasks) /\ starting' \in MaybeProfile
  <2> DEFINE started == [sup EXCEPT !.probing = FALSE, !.startFailures = 0,
                                    !.startWhenUp = NoProfile, !.guardRestart = FALSE]
  <2>1. started \in Supervisors
    BY <1>1 DEF TypeOK, Supervisors
  <2>2. [beginRestart(started) EXCEPT !.startWhenUp = sup.startWhenUp] \in Supervisors
    BY <1>1, <2>1, SupervisorTypes
  <2>3. QED
    BY <1>1, <1>4, <2>1, <2>2, RestartType DEF emitCoreStarted, restartNotListening, TypeOK
<1>5. ASSUME NEW p \in probes, OnPrivilegeProbed(p)
      PROVE  TypeOK'
  <2>1. sup' \in Supervisors /\ dsQ' \in Seq(Tasks) /\ starting' \in MaybeProfile
    BY <1>4, <1>5 DEF OnPrivilegeProbed, TypeOK
  <2>2. QED
    BY <1>5, <2>1 DEF TypeOK, OnPrivilegeProbed, mainFrame
<1>6. QED
  BY <1>2, <1>3, <1>5

\* The reports posted to the main thread.
LEMMA ReportTypes ==
  ASSUME TypeOK, onCoreSpawned \/ restartDeadCore \/ onCoreExited
  PROVE  TypeOK'
<1> DEFINE r == Head(posts)
<1>1. r \in Posts /\ posts' \in Seq(Posts)
  <2>1. posts # <<>> /\ posts' = Tail(posts)
    BY DEF onCoreSpawned, restartDeadCore, onCoreExited, Posted
  <2>2. QED
    BY <2>1 DEF TypeOK
<1>2. r.gen \in Nat
  BY <1>1 DEF Posts
<1> HIDE DEF r
<1>3. CASE onCoreSpawned
  <2>1. sup' \in Supervisors
    BY <1>1, <1>2, <1>3 DEF TypeOK, onCoreSpawned, r, Supervisors
  <2>2. QED
    BY <1>1, <1>3, <2>1 DEF TypeOK, onCoreSpawned, postFrame, mainFrame, netVars
<1>4. CASE restartDeadCore
  <2>1. [beginRestart(sup) EXCEPT !.startWhenUp = startedId] \in Supervisors
    BY SupervisorTypes DEF TypeOK
  <2>2. sup' \in Supervisors /\ dsQ' \in Seq(Tasks)
    BY <1>4, <2>1, RestartType DEF restartDeadCore, TypeOK
  <2>3. QED
    BY <1>1, <1>4, <2>2 DEF TypeOK, restartDeadCore, postFrame, mainFrame, netVars
<1>5. CASE onCoreExited
  <2>1. noteExit(r.gen) \in Supervisors
    <3>1. (sup.probing /\ ~WasProbing(r.gen)) \in BOOLEAN
      OBVIOUS
    <3>2. ASSUME NEW b \in BOOLEAN
          PROVE  [sup EXCEPT !.handledExitGen = r.gen, !.probing = b] \in Supervisors
      BY <1>2 DEF TypeOK, Supervisors
    <3>3. QED
      BY <3>1, <3>2 DEF noteExit
  <2>2. CASE MootExit(r)
    BY <1>1, <1>5, <2>1, <2>2 DEF TypeOK, onCoreExited, MootExit, ExitFrame, netVars
  <2>3. CASE ExpectedExit(r)
    <3>1. ASSUME NEW p \in MaybeProfile
          PROVE  [noteExit(r.gen) EXCEPT !.connectTimer = FALSE, !.failures = 0,
                    !.startFailures = 0, !.startWhenUp = p] \in Supervisors
      BY <2>1 DEF Supervisors
    <3>2. startedId \in MaybeProfile /\ sup.startWhenUp \in MaybeProfile
      BY DEF TypeOK, Supervisors
    <3>3. sup' \in Supervisors
      BY <2>3, <3>1, <3>2, SupervisorTypes DEF ExpectedExit
    <3>4. QED
      BY <1>1, <1>5, <2>3, <3>3 DEF TypeOK, onCoreExited, ExpectedExit, ExitFrame, netVars
  <2>4. CASE IdentityExit(r)
    <3>1. [noteExit(r.gen) EXCEPT !.connectTimer = FALSE] \in Supervisors
      BY <2>1 DEF Supervisors
    <3>2. sup' \in Supervisors
      BY <2>4, <3>1, SupervisorTypes DEF IdentityExit, MaybeProfile
    <3>3. QED
      BY <1>1, <1>5, <2>4, <3>2 DEF TypeOK, onCoreExited, IdentityExit, ExitFrame, netVars
  <2>5. ASSUME NEW stable \in BOOLEAN, NEW soon \in BOOLEAN, FailedExit(r, stable, soon)
        PROVE  TypeOK'
    <3>1. ASSUME NEW f \in Nat, NEW sf \in Nat, NEW crash \in BOOLEAN, NEW p \in MaybeProfile
          PROVE  [noteExit(r.gen) EXCEPT !.connectTimer = FALSE, !.failures = f,
                    !.startFailures = sf, !.crashTimer = crash, !.startWhenUp = p]
                   \in Supervisors
      BY <2>1 DEF Supervisors
    <3> DEFINE connected == WasConnected(r)
               failures == IF connected /\ stable THEN 1 ELSE sup.failures + 1
               startFailures == IF connected THEN sup.startFailures ELSE sup.startFailures + 1
               tooFrequent == connected /\ sup.crashTimer /\ soon
               settled == connected \/ sup.startWhenUp = NoProfile
               declined == settled /\ tooFrequent /\ startedId # NoProfile
               resume == IF declined THEN NoProfile
                         ELSE IF settled THEN startedId ELSE sup.startWhenUp
               giveUp == \/ failures >= GiveUpAfter /\ resume = NoProfile
                         \/ ~connected /\ startFailures >= GiveUpAfter
               crash == IF connected THEN ~tooFrequent ELSE sup.crashTimer
               next == IF giveUp THEN NoProfile ELSE resume
               counted == [noteExit(r.gen) EXCEPT !.connectTimer = FALSE,
                             !.failures = failures, !.startFailures = startFailures,
                             !.crashTimer = crash, !.startWhenUp = next]
    <3>2. failures \in Nat /\ startFailures \in Nat
      BY DEF TypeOK, Supervisors
    <3>3. sup.crashTimer \in BOOLEAN /\ (~tooFrequent) \in BOOLEAN
      BY DEF TypeOK, Supervisors
    <3>4. crash \in BOOLEAN
      BY <3>3
    <3>5. NoProfile \in MaybeProfile /\ next \in MaybeProfile
      BY DEF TypeOK, Supervisors, MaybeProfile
    <3>6. counted \in Supervisors
      BY <3>1, <3>2, <3>4, <3>5
    <3>7. /\ sup' = IF giveUp THEN [counted EXCEPT !.state = "GaveUp", !.guardRestart = FALSE]
                     ELSE scheduleRestart(counted)
          /\ startedId' = IF giveUp \/ declined THEN NoProfile ELSE startedId
          /\ barred' = IF giveUp \/ declined THEN "declined" ELSE barred
          /\ noIdentity' = noIdentity
      BY <2>5 DEF FailedExit
    <3> HIDE DEF counted, giveUp, declined
    <3>8. [counted EXCEPT !.state = "GaveUp", !.guardRestart = FALSE] \in Supervisors
      BY <3>6 DEF Supervisors, States
    <3>9. scheduleRestart(counted) \in Supervisors
      BY <3>5, <3>6, SupervisorTypes
    <3>10. sup' \in Supervisors
      BY <3>7, <3>8, <3>9
    <3>11. QED
      BY <1>1, <1>5, <3>5, <3>7, <3>10 DEF TypeOK, onCoreExited, ExitFrame, netVars
  <2>6. QED
    BY <1>1, <1>5, <2>2, <2>3, <2>4, <2>5 DEF onCoreExited, r
<1>6. QED
  BY <1>3, <1>4, <1>5

-----------------------------------------------------------------------------
(* The supervisor never strands itself.                                    *)

\* The elements of a queue.
Items(q) == {q[i] : i \in DOMAIN q}

\* The tasks DS_cores has not finished.
Todo == Items(dsQ) \cup Items(frames)

\* t kills the current core.
Kills(t) == t.op \in {"reset", "kill"} \/ (t.op = "timeoutKill" /\ t.gen = core.generation)
\* t makes a new core.
Renews(t) == t.op \in {"start", "restart"}

\* Generations come from the core: nobody knows of a later one, and there is no child
\* before the first.
Bounded ==
  /\ sup.handledExitGen <= core.generation /\ sup.accepting <= core.generation
  /\ sup.acceptedGen <= core.generation /\ sup.connectGen <= core.generation
  /\ \A t \in Todo : t.gen <= core.generation
  /\ \A r \in Items(posts) : r.gen <= core.generation
  /\ core.os # "none" => core.generation # 0

\* Until EngineHost starts the core there is nothing to do, and what is asked of it
\* before its first generation waits behind the start.
Booted ==
  /\ phase \in {"boot", "listened"} =>
       core.generation = 0 /\ dsQ = <<>> /\ sup.state \in {"NotStarted", "ListenFailed"}
  /\ sup.state = "NotStarted" => phase \in {"boot", "listened"}
  /\ core.generation = 0 /\ ~prepareExit =>
       /\ frames = <<>>
       /\ dsQ # <<>> => dsQ[1].op = "start" /\ dsQ[1].before = "none"
       /\ phase \notin {"boot", "listened"} => sup.state = "ListenFailed" \/ dsQ # <<>>

\* The members that belong together.
Members ==
  /\ sup.state = "ShuttingDown" => prepareExit
  /\ sup.accepting # 0 => sup.accepting > sup.handledExitGen
  /\ sup.connectTimer => sup.connectGen > sup.acceptedGen
  /\ sup.state = "Backoff" /\ ~prepareExit => sup.restartTimer

\* Reports of spawned cores arrive in the order of their generations.
Sorted(p) ==
  \A i, j \in DOMAIN p :
    i < j /\ p[i].kind = "spawned" /\ p[j].kind = "spawned" => p[i].gen <= p[j].gen
\* And none of them is older than the core whose connection is awaited.
Ordered ==
  /\ Sorted(posts)
  /\ \A r \in Items(posts) : r.kind = "spawned" => r.gen >= sup.connectGen

\* The end of a core that was not handled is still to come, or the news of it.
Reported ==
  core.generation > sup.handledExitGen /\ ~prepareExit =>
    \/ core.os # "none"
    \/ \E t \in Items(frames) :
         t.op = "execFailed" \/ (t.op = "exit" /\ t.gen = core.generation)
    \/ \E r \in Items(posts) : r.kind = "exit" /\ r.gen = core.generation

\* A supervisor that waits for a core or has one knows of no end of the current one,
\* or a new one is to come.
Current ==
  sup.state \in {"Starting", "Connected"} /\ ~prepareExit =>
    (\E t \in Todo : Renews(t)) \/ core.generation > sup.handledExitGen

\* A core that a supervisor waits for is being killed or replaced, or has not been
\* accepted, and once it is up its timer runs or will.
Watching ==
  sup.state = "Starting" /\ ~prepareExit /\ core.os # "none" /\ ~core.dying =>
    \/ \E t \in Todo : Renews(t) \/ Kills(t)
    \/ core.os = "starting" /\ core.generation > sup.acceptedGen
    \/ sup.connectTimer /\ sup.connectGen = core.generation
    \/ /\ core.generation > sup.acceptedGen
       /\ \E r \in Items(posts) : r.kind = "spawned" /\ r.gen = core.generation

\* What NotStranded needs.
NInv == Bounded /\ Booted /\ Members /\ Ordered /\ Reported /\ Current /\ Watching

\* The elements of a queue that one joins or leaves.
LEMMA ItemsAppend ==
  ASSUME NEW S, NEW q \in Seq(S), NEW e \in S
  PROVE  /\ Append(q, e) \in Seq(S) /\ Items(Append(q, e)) = Items(q) \cup {e}
         /\ Append(q, e) # <<>> /\ (q # <<>> => Append(q, e)[1] = q[1])
         /\ (q = <<>> => Append(q, e)[1] = e)
<1>1. /\ Append(q, e) \in Seq(S) /\ Len(q) \in Nat /\ DOMAIN q = 1..Len(q)
      /\ DOMAIN Append(q, e) = 1..(Len(q) + 1)
      /\ \A i \in 1..Len(q) : Append(q, e)[i] = q[i]
      /\ Append(q, e)[Len(q) + 1] = e
  BY AppendProperties, LenProperties
<1>2. \A i \in 1..(Len(q) + 1) : i \in 1..Len(q) \/ i = Len(q) + 1
  BY <1>1
<1>3. Len(q) + 1 \in 1..(Len(q) + 1) /\ \A i \in 1..Len(q) : i \in 1..(Len(q) + 1)
  BY <1>1
<1>4. Items(Append(q, e)) = Items(q) \cup {e}
  BY <1>1, <1>2, <1>3 DEF Items
<1>5. Append(q, e) # <<>> /\ (q # <<>> => Append(q, e)[1] = q[1]) /\ (q = <<>> => Append(q, e)[1] = e)
  BY <1>1
<1> QED
  BY <1>1, <1>4, <1>5

\* Taking the first of a queue.
LEMMA ItemsTail ==
  ASSUME NEW S, NEW q \in Seq(S), q # <<>>
  PROVE  /\ Tail(q) \in Seq(S) /\ Head(q) \in S /\ Head(q) = q[1]
         /\ Items(q) = {Head(q)} \cup Items(Tail(q))
         /\ \A i \in DOMAIN Tail(q) : i + 1 \in DOMAIN q /\ Tail(q)[i] = q[i + 1]
<1>1. /\ Tail(q) \in Seq(S) /\ Head(q) \in S /\ Head(q) = q[1]
      /\ Len(q) \in Nat \ {0} /\ DOMAIN q = 1..Len(q) /\ DOMAIN Tail(q) = 1..(Len(q) - 1)
      /\ \A i \in 1..(Len(q) - 1) : Tail(q)[i] = q[i + 1]
  BY HeadTailProperties, EmptySeq, LenProperties
<1>2. \A i \in 1..(Len(q) - 1) : i + 1 \in 1..Len(q)
  BY <1>1
<1>3. \A i \in 1..Len(q) : i = 1 \/ (i - 1 \in 1..(Len(q) - 1) /\ (i - 1) + 1 = i)
  BY <1>1
<1>4. 1 \in 1..Len(q)
  BY <1>1
<1>5. Items(q) \subseteq {Head(q)} \cup Items(Tail(q))
  <2> SUFFICES ASSUME NEW i \in 1..Len(q) PROVE q[i] \in {Head(q)} \cup Items(Tail(q))
    BY <1>1 DEF Items
  <2>1. CASE i = 1
    BY <1>1, <2>1
  <2>2. CASE i # 1
    <3>1. i - 1 \in 1..(Len(q) - 1) /\ (i - 1) + 1 = i
      BY <1>3, <2>2
    <3>2. Tail(q)[i - 1] = q[i]
      BY <1>1, <3>1
    <3> QED
      BY <1>1, <3>1, <3>2 DEF Items
  <2> QED
    BY <2>1, <2>2
<1>6. {Head(q)} \cup Items(Tail(q)) \subseteq Items(q)
  BY <1>1, <1>2, <1>4 DEF Items
<1> QED
  BY <1>1, <1>2, <1>5, <1>6

\* Taking the last of a stack.
LEMMA ItemsFront ==
  ASSUME NEW S, NEW q \in Seq(S), q # <<>>
  PROVE  /\ q[Len(q)] \in S
         /\ Items(q) = {q[Len(q)]} \cup Items(SubSeq(q, 1, Len(q) - 1))
<1>1. Len(q) \in Nat \ {0} /\ DOMAIN q = 1..Len(q) /\ \A i \in 1..Len(q) : q[i] \in S
  BY EmptySeq, LenProperties, ElementOfSeq
<1> DEFINE f == SubSeq(q, 1, Len(q) - 1)
<1>2. DOMAIN f = 1..(Len(q) - 1) /\ \A i \in 1..(Len(q) - 1) : f[i] = q[i]
  BY <1>1
<1> HIDE DEF f
<1>3. \A i \in 1..Len(q) : i = Len(q) \/ i \in 1..(Len(q) - 1)
  <2>1. ASSUME NEW n \in Nat PROVE \A i \in 1..n : i = n \/ i \in 1..(n - 1)
    OBVIOUS
  <2> QED
    BY <1>1, <2>1
<1>4. Len(q) \in 1..Len(q) /\ \A i \in 1..(Len(q) - 1) : i \in 1..Len(q)
  BY <1>1
<1>5. Items(q) = {q[Len(q)]} \cup Items(f)
  BY <1>1, <1>2, <1>3, <1>4 DEF Items
<1> QED
  BY <1>1, <1>4, <1>5 DEF f

\* Reports stay in order when the first is read, or when one of the current generation
\* or of another kind joins them.
LEMMA SortedTail ==
  ASSUME NEW p \in Seq(Posts), p # <<>>, Sorted(p)
  PROVE  /\ Sorted(Tail(p))
         /\ Head(p).kind = "spawned" =>
              \A r \in Items(Tail(p)) : r.kind = "spawned" => Head(p).gen <= r.gen
<1>1. /\ Tail(p) \in Seq(Posts) /\ Head(p) = p[1] /\ 1 \in DOMAIN p
      /\ \A i \in DOMAIN Tail(p) : i \in Nat /\ i > 0 /\ i + 1 \in DOMAIN p /\ Tail(p)[i] = p[i + 1]
  BY ItemsTail, LenProperties, EmptySeq
<1>2. \A i, j \in DOMAIN Tail(p) : i < j => i + 1 < j + 1
  BY <1>1
<1>3. Sorted(Tail(p))
  BY <1>1, <1>2 DEF Sorted
<1>4. \A i \in DOMAIN Tail(p) : 1 < i + 1
  BY <1>1
<1> QED
  BY <1>1, <1>3, <1>4 DEF Sorted, Items

\* A report of the newest generation goes last.
LEMMA SortedAppend ==
  ASSUME NEW p \in Seq(Posts), Sorted(p), NEW e \in Posts,
         e.kind = "spawned" => \A r \in Items(p) : r.gen <= e.gen
  PROVE  Sorted(Append(p, e))
<1>1. /\ Len(p) \in Nat /\ DOMAIN p = 1..Len(p)
      /\ DOMAIN Append(p, e) = 1..(Len(p) + 1)
      /\ \A i \in 1..Len(p) : Append(p, e)[i] = p[i]
      /\ Append(p, e)[Len(p) + 1] = e
  BY AppendProperties, LenProperties
<1>2. \A i, j \in 1..(Len(p) + 1) :
        i < j => i \in 1..Len(p) /\ (j \in 1..Len(p) \/ j = Len(p) + 1)
  BY <1>1
<1> QED
  BY <1>1, <1>2 DEF Sorted, Items

\* The reports of an exit.
LEMMA ReportItems ==
  ASSUME TypeOK, NEW t \in Tasks, t.gen <= core.generation, Sorted(posts),
         \A r \in Items(posts) : r.gen <= core.generation
  PROVE  /\ Sorted(posts \o Reports(t)) /\ Items(posts) \subseteq Items(posts \o Reports(t))
         /\ \A r \in Items(posts \o Reports(t)) :
              r \in Items(posts) \/ (r.kind = "exit" /\ r.gen <= core.generation)
         /\ t.op # "exit" \/ t.gen = core.generation =>
              \E r \in Items(posts \o Reports(t)) : r.kind = "exit" /\ r.gen = core.generation
<1>1. t.gen \in Nat /\ t.identity \in BOOLEAN /\ core.generation \in Nat /\ posts \in Seq(Posts)
  BY DEF TypeOK, Tasks, Cores
<1> DEFINE a == Post("exit", t.gen, FALSE, t.identity)
           b == Post("exit", core.generation, TRUE, FALSE)
<1>2. a \in Posts /\ b \in Posts
  BY <1>1, PostType
<1>3. a.kind = "exit" /\ a.gen = t.gen /\ b.kind = "exit" /\ b.gen = core.generation
  BY DEF Post
<1> HIDE DEF a, b
<1>4. ASSUME NEW e \in Posts
      PROVE  posts \o <<e>> = Append(posts, e) /\ posts \o <<e, e>> = Append(Append(posts, e), e)
  BY <1>1
<1>5. ASSUME NEW e \in Posts, e.kind = "exit"
      PROVE  /\ Sorted(Append(posts, e)) /\ Sorted(Append(Append(posts, e), e))
             /\ Items(Append(posts, e)) = Items(posts) \cup {e}
             /\ Items(Append(Append(posts, e), e)) = Items(posts) \cup {e}
  <2>1. /\ Append(posts, e) \in Seq(Posts) /\ Items(Append(posts, e)) = Items(posts) \cup {e}
    BY <1>1, ItemsAppend
  <2>2. Sorted(Append(posts, e))
    BY <1>1, <1>5, SortedAppend
  <2>3. Items(Append(Append(posts, e), e)) = Items(posts) \cup {e}
    <3>1. \A q \in Seq(Posts) : Items(Append(q, e)) = Items(q) \cup {e}
      BY ItemsAppend
    <3>2. Items(Append(Append(posts, e), e)) = Items(Append(posts, e)) \cup {e}
      BY <2>1, <3>1, Zenon
    <3> QED
      BY <2>1, <3>2, Zenon
  <2>4. Sorted(Append(Append(posts, e), e))
    BY <1>5, <2>1, <2>2, SortedAppend
  <2> QED
    BY <2>1, <2>2, <2>3, <2>4
<1> DEFINE p == posts \o Reports(t)
<1>6. CASE t.op = "exit"
  <2>1. p = Append(posts, a)
    BY <1>2, <1>4, <1>6 DEF Reports, a
  <2>2. Sorted(p) /\ Items(p) = Items(posts) \cup {a}
    BY <1>2, <1>3, <1>5, <2>1
  <2> HIDE DEF p
  <2>3. \A r \in Items(p) : r \in Items(posts) \/ (r.kind = "exit" /\ r.gen <= core.generation)
    BY <1>3, <2>2
  <2>4. t.gen = core.generation => \E r \in Items(p) : r.kind = "exit" /\ r.gen = core.generation
    BY <1>3, <2>2
  <2> QED
    BY <1>6, <2>2, <2>3, <2>4 DEF p
<1>7. CASE t.op # "exit"
  <2>1. p = Append(posts, b) \/ p = Append(Append(posts, b), b)
    BY <1>2, <1>4, <1>7 DEF Reports, b
  <2>2. Sorted(p) /\ Items(p) = Items(posts) \cup {b}
    BY <1>2, <1>3, <1>5, <2>1
  <2> HIDE DEF p
  <2>3. \A r \in Items(p) : r \in Items(posts) \/ (r.kind = "exit" /\ r.gen <= core.generation)
    BY <1>1, <1>3, <2>2
  <2>4. \E r \in Items(p) : r.kind = "exit" /\ r.gen = core.generation
    BY <1>3, <2>2
  <2> QED
    BY <2>2, <2>3, <2>4 DEF p
<1> QED
  BY <1>6, <1>7

\* Generations are numbers.
LEMMA Numbers ==
  ASSUME TypeOK
  PROVE  /\ core.generation \in Nat /\ sup.handledExitGen \in Nat /\ sup.accepting \in Nat
         /\ sup.acceptedGen \in Nat /\ sup.connectGen \in Nat
         /\ dsQ \in Seq(Tasks) /\ frames \in Seq(Tasks) /\ posts \in Seq(Posts)
         /\ \A t \in Todo : t \in Tasks /\ t.gen \in Nat
         /\ \A r \in Items(posts) : r \in Posts /\ r.gen \in Nat
<1>1. dsQ \in Seq(Tasks) /\ frames \in Seq(Tasks) /\ posts \in Seq(Posts)
  BY DEF TypeOK
<1>2. ASSUME NEW S, NEW q \in Seq(S) PROVE \A e \in Items(q) : e \in S
  BY ElementOfSeq, LenProperties DEF Items
<1>3. /\ \A t \in Items(dsQ) : t \in Tasks
      /\ \A t \in Items(frames) : t \in Tasks
      /\ \A r \in Items(posts) : r \in Posts
  BY <1>1, <1>2
<1>4. \A t \in Todo : t \in Tasks /\ t.gen \in Nat
  BY <1>3 DEF Todo, Tasks
<1>5. \A r \in Items(posts) : r \in Posts /\ r.gen \in Nat
  BY <1>3 DEF Posts
<1>6. /\ core.generation \in Nat /\ sup.handledExitGen \in Nat /\ sup.accepting \in Nat
      /\ sup.acceptedGen \in Nat /\ sup.connectGen \in Nat
  BY DEF TypeOK, Supervisors, Cores
<1> QED
  BY <1>1, <1>4, <1>5, <1>6

\* A task joins the queue of DS_cores.
LEMMA TaskAppended ==
  ASSUME TypeOK, NEW t \in Tasks, dsQ' = Append(dsQ, t)
  PROVE  /\ Items(dsQ') = Items(dsQ) \cup {t} /\ dsQ' # <<>>
         /\ dsQ # <<>> => dsQ'[1] = dsQ[1]
         /\ dsQ = <<>> => dsQ'[1] = t
<1>1. dsQ \in Seq(Tasks)
  BY DEF TypeOK
<1> QED
  BY <1>1, ItemsAppend

\* The supervisor's view does not change: at most a task joins the queue, or a report
\* leaves that says nothing of a core it waits for.
LEMMA Kept ==
  ASSUME TypeOK, TypeOK', NInv,
         sup'.state = sup.state, sup'.handledExitGen = sup.handledExitGen,
         sup'.accepting \in {0, sup.accepting}
           \/ (sup.handledExitGen < sup'.accepting /\ sup'.accepting = core.generation),
         sup'.acceptedGen = sup.acceptedGen,
         sup'.connectGen = sup.connectGen, sup'.connectTimer => sup.connectTimer,
         sup.connectTimer =>
           \/ sup'.connectTimer \/ prepareExit \/ sup.state # "Starting"
           \/ sup.connectGen # core.generation \/ \E t \in Items(dsQ') : Kills(t),
         sup.restartTimer => sup'.restartTimer \/ sup.state # "Backoff" \/ prepareExit,
         core'.generation = core.generation, core'.os = core.os, core.dying => core'.dying,
         phase' = phase, frames' = frames,
         \/ dsQ' = dsQ
         \/ \E t \in Tasks : /\ dsQ' = Append(dsQ, t) /\ t.gen <= core.generation
                             /\ phase \notin {"boot", "listened"}
                             /\ sup.state # "ListenFailed" \/ prepareExit,
         \/ posts' = posts
         \/ \E r \in Posts : /\ posts' = Append(posts, r) /\ r.gen <= core.generation
                             /\ r.kind = "restartDead"
         \/ /\ posts # <<>> /\ posts' = Tail(posts)
            /\ Head(posts).kind = "exit" => Head(posts).gen <= sup.handledExitGen
            /\ Head(posts).kind = "spawned" =>
                 \/ prepareExit \/ sup.state # "Starting"
                 \/ Head(posts).gen # core.generation \/ Head(posts).gen <= sup.acceptedGen
  PROVE  NInv'
<1>1. /\ core.generation \in Nat /\ sup.handledExitGen \in Nat /\ sup.accepting \in Nat
      /\ sup.acceptedGen \in Nat /\ sup.connectGen \in Nat
      /\ dsQ \in Seq(Tasks) /\ posts \in Seq(Posts)
  BY Numbers
<1>2. Bounded /\ Booted /\ Members /\ Ordered /\ Reported /\ Current /\ Watching
  BY DEF NInv
<1>3. prepareExit' = prepareExit
  BY DEF prepareExit
<1>4. /\ Items(dsQ) \subseteq Items(dsQ')
      /\ \A t \in Items(dsQ') : t \in Items(dsQ) \/ t.gen <= core.generation
      /\ \/ dsQ' = dsQ
         \/ /\ dsQ' # <<>> /\ (dsQ # <<>> => dsQ'[1] = dsQ[1])
            /\ phase \notin {"boot", "listened"}
            /\ sup.state # "ListenFailed" \/ prepareExit
  <2>1. CASE dsQ' = dsQ
    BY <2>1
  <2>2. ASSUME NEW t \in Tasks, dsQ' = Append(dsQ, t), t.gen <= core.generation
        PROVE  /\ Items(dsQ) \subseteq Items(dsQ')
               /\ \A u \in Items(dsQ') : u \in Items(dsQ) \/ u.gen <= core.generation
               /\ dsQ' # <<>> /\ (dsQ # <<>> => dsQ'[1] = dsQ[1])
    <3>1. /\ Items(dsQ') = Items(dsQ) \cup {t}
          /\ dsQ' # <<>> /\ (dsQ # <<>> => dsQ'[1] = dsQ[1])
      BY <1>1, <2>2, ItemsAppend
    <3> QED
      BY <2>2, <3>1
  <2> QED
    BY <2>1, <2>2
<1>5. /\ Sorted(posts')
      /\ \A r \in Items(posts') : r \in Items(posts) \/ (r.kind = "restartDead" /\ r.gen <= core.generation)
      /\ \A r \in Items(posts) :
           \/ r \in Items(posts')
           \/ /\ r.kind = "exit" => r.gen <= sup.handledExitGen
              /\ r.kind = "spawned" =>
                   \/ prepareExit \/ sup.state # "Starting"
                   \/ r.gen # core.generation \/ r.gen <= sup.acceptedGen
  <2>1. CASE posts' = posts
    BY <1>2, <2>1 DEF Ordered
  <2>2. ASSUME NEW r \in Posts, posts' = Append(posts, r), r.gen <= core.generation,
               r.kind = "restartDead"
        PROVE  /\ Sorted(posts') /\ Items(posts) \subseteq Items(posts')
               /\ \A u \in Items(posts') :
                    u \in Items(posts) \/ (u.kind = "restartDead" /\ u.gen <= core.generation)
    <3>1. Items(posts') = Items(posts) \cup {r}
      BY <1>1, <2>2, ItemsAppend
    <3>2. Sorted(posts')
      BY <1>1, <1>2, <2>2, SortedAppend DEF Ordered
    <3> QED
      BY <2>2, <3>1, <3>2
  <2>3. ASSUME posts # <<>>, posts' = Tail(posts)
        PROVE  Sorted(posts') /\ Items(posts) = {Head(posts)} \cup Items(posts')
    <3>1. Items(posts) = {Head(posts)} \cup Items(posts')
      BY <1>1, <2>3, ItemsTail
    <3>2. Sorted(posts')
      BY <1>1, <1>2, <2>3, SortedTail DEF Ordered
    <3> QED
      BY <3>1, <3>2
  <2> QED
    BY <2>1, <2>2, <2>3
<1>6. /\ \A t \in Todo' : t \in Todo \/ t.gen <= core.generation
      /\ Todo \subseteq Todo'
  BY <1>4 DEF Todo
<1>7. Bounded'
  BY <1>1, <1>2, <1>5, <1>6 DEF Bounded
<1>8. Booted'
  BY <1>1, <1>2, <1>3, <1>4 DEF Booted
<1>9. Members'
  BY <1>1, <1>2, <1>3 DEF Members
<1>10. Ordered'
  BY <1>2, <1>5 DEF Ordered
<1>11. Reported'
  <2> SUFFICES ASSUME core.generation > sup.handledExitGen, ~prepareExit, core.os = "none",
                      ~\E t \in Items(frames) :
                         t.op = "execFailed" \/ (t.op = "exit" /\ t.gen = core.generation)
               PROVE  \E r \in Items(posts') : r.kind = "exit" /\ r.gen = core.generation
    BY <1>3 DEF Reported
  <2>1. PICK r \in Items(posts) : r.kind = "exit" /\ r.gen = core.generation
    BY <1>2 DEF Reported
  <2> QED
    BY <1>1, <1>5, <2>1
<1>12. Current'
  BY <1>2, <1>3, <1>6 DEF Current
<1>13. Watching'
  <2> SUFFICES ASSUME sup.state = "Starting", ~prepareExit, core.os # "none", ~core.dying
               PROVE  \/ \E t \in Todo' : Renews(t) \/ Kills(t)'
                      \/ core.os = "starting" /\ core.generation > sup.acceptedGen
                      \/ sup'.connectTimer /\ sup.connectGen = core.generation
                      \/ /\ core.generation > sup.acceptedGen
                         /\ \E r \in Items(posts') : r.kind = "spawned" /\ r.gen = core.generation
    BY <1>3 DEF Watching
  <2>1. \A t : Kills(t)' = Kills(t)
    BY DEF Kills
  <2>2. CASE \E t \in Todo : Renews(t) \/ Kills(t)
    BY <1>6, <2>1, <2>2
  <2>3. CASE core.os = "starting" /\ core.generation > sup.acceptedGen
    BY <2>3
  <2>4. CASE sup.connectTimer /\ sup.connectGen = core.generation
    <3>1. CASE \E t \in Items(dsQ') : Kills(t)
      BY <2>1, <3>1 DEF Todo
    <3> QED
      BY <2>4, <3>1
  <2>5. CASE /\ core.generation > sup.acceptedGen
             /\ \E r \in Items(posts) : r.kind = "spawned" /\ r.gen = core.generation
    BY <1>1, <1>5, <2>5
  <2> QED
    BY <1>2, <2>2, <2>3, <2>4, <2>5 DEF Watching
<1> QED
  BY <1>7, <1>8, <1>9, <1>10, <1>11, <1>12, <1>13 DEF NInv

\* A restart is posted: whatever was known of the core before is moot.
LEMMA Renewed ==
  ASSUME TypeOK, TypeOK', NInv, ~exiting, phase \notin {"boot", "listened"},
         sup.state # "ListenFailed", sup.accepting = 0,
         NEW s \in Supervisors, s.state = "Starting", s.handledExitGen = sup.handledExitGen,
         s.accepting = sup.accepting, s.acceptedGen = sup.acceptedGen,
         s.connectGen = sup.connectGen, s.connectTimer => sup.connectTimer,
         NEW before \in {"none", "stop", "manualStop"}, postProcessRestart(s, before),
         UNCHANGED <<core, frames, phase>>,
         posts' = posts \/ (posts # <<>> /\ posts' = Tail(posts))
  PROVE  NInv'
<1>1. /\ core.generation \in Nat /\ sup.handledExitGen \in Nat /\ sup.accepting \in Nat
      /\ sup.acceptedGen \in Nat /\ sup.connectGen \in Nat
      /\ dsQ \in Seq(Tasks) /\ posts \in Seq(Posts)
  BY Numbers
<1>2. Bounded /\ Booted /\ Members /\ Ordered /\ Reported /\ Current /\ Watching
  BY DEF NInv
<1>3. prepareExit' = prepareExit /\ ~prepareExit
  BY DEF prepareExit, exiting
<1> DEFINE t == Task("restart", before, 0, FALSE)
<1>4. t \in Tasks /\ t.op = "restart" /\ t.gen = 0
  <2>1. t \in Tasks
    BY DEF Task, Tasks
  <2>2. t.op = "restart" /\ t.gen = 0
    BY DEF Task
  <2> QED
    BY <2>1, <2>2
<1>5. dsQ' = Append(dsQ, t)
  BY DEF postProcessRestart
<1> HIDE DEF t
<1>6. Items(dsQ') = Items(dsQ) \cup {t} /\ dsQ' # <<>> /\ (dsQ # <<>> => dsQ'[1] = dsQ[1])
  BY <1>4, <1>5, TaskAppended
<1>7. MaxOf(sup.handledExitGen, core.generation) = core.generation
  BY <1>1, <1>2 DEF MaxOf, Bounded
<1>8. /\ sup'.state = "Starting" /\ sup'.handledExitGen = core.generation
      /\ sup'.accepting = 0 /\ sup'.acceptedGen = sup.acceptedGen
      /\ sup'.connectGen = sup.connectGen /\ (sup'.connectTimer => sup.connectTimer)
  BY <1>7 DEF postProcessRestart, Supervisors
<1>9. Sorted(posts') /\ Items(posts') \subseteq Items(posts)
  BY <1>1, <1>2, ItemsTail, SortedTail DEF Ordered
<1>10. Todo' = Todo \cup {t}
  BY <1>6 DEF Todo
<1>11. Bounded'
  BY <1>1, <1>2, <1>4, <1>8, <1>9, <1>10 DEF Bounded
<1>12. Booted'
  BY <1>2, <1>3, <1>6, <1>8 DEF Booted
<1>13. Members'
  BY <1>2, <1>8 DEF Members
<1>14. Ordered'
  BY <1>2, <1>8, <1>9 DEF Ordered
<1>15. Reported'
  BY <1>1, <1>8 DEF Reported
<1>16. Current' /\ Watching'
  BY <1>4, <1>10 DEF Current, Watching, Renews
<1> QED
  BY <1>11, <1>12, <1>13, <1>14, <1>15, <1>16 DEF NInv

\* The engine is about to exit: only what the exit itself does matters from now on.
LEMMA Leaving ==
  ASSUME TypeOK, NInv, UNCHANGED <<core, frames, posts>>, prepareExit',
         phase \notin {"boot", "listened"}, sup' = sup \/ stopSupervising,
         NEW t \in Tasks, t.gen = 0, dsQ' = dsQ \/ dsQ' = Append(dsQ, t)
  PROVE  NInv'
<1>1. Bounded /\ Booted /\ Members /\ Ordered /\ core.generation \in Nat
  BY Numbers DEF NInv
<1>2. /\ sup'.handledExitGen = sup.handledExitGen
      /\ sup'.state = sup.state \/ sup'.state = "ShuttingDown"
      /\ sup'.accepting = sup.accepting /\ sup'.acceptedGen = sup.acceptedGen
      /\ sup'.connectGen = sup.connectGen /\ (sup'.connectTimer => sup.connectTimer)
  BY DEF stopSupervising, Supervisors, TypeOK
<1>3. Items(dsQ') = Items(dsQ) \/ Items(dsQ') = Items(dsQ) \cup {t}
  BY TaskAppended
<1>4. \A u \in Todo' : u \in Todo \/ u.gen = 0
  BY <1>3 DEF Todo
<1>5. Bounded' /\ Members' /\ Ordered'
  BY <1>1, <1>2, <1>4 DEF Bounded, Members, Ordered
<1>6. phase' \notin {"boot", "listened"}
  BY DEF prepareExit
<1>7. Booted' /\ Reported' /\ Current' /\ Watching'
  BY <1>1, <1>2, <1>6 DEF Booted, Reported, Current, Watching
<1> QED
  BY <1>5, <1>7 DEF NInv

\* Boot and requests.
LEMMA RequestMoves ==
  ASSUME TypeOK, TypeOK', NInv, Boot \/ Requests
  PROVE  NInv'
<1>1. sup \in Supervisors /\ core.generation \in Nat
  BY DEF TypeOK, Cores
<1>2. Bounded /\ Booted /\ Members /\ Ordered /\ Reported /\ Current /\ Watching
  BY DEF NInv
<1>3. /\ core.generation \in Nat /\ sup.handledExitGen \in Nat /\ sup.accepting \in Nat
      /\ sup.acceptedGen \in Nat /\ sup.connectGen \in Nat
      /\ dsQ \in Seq(Tasks) /\ posts \in Seq(Posts)
  BY Numbers
<1>4. ASSUME Request PROVE phase \notin {"boot", "listened"} /\ sup.accepting = 0
  BY <1>4 DEF Request, MainFree
<1>5. ASSUME NEW p \in MaybeProfile, NEW s,
              s \in {beginRestart(sup), [beginRestart(sup) EXCEPT !.startWhenUp = p],
                           [beginRestart(sup) EXCEPT !.startWhenUp = p, !.guardRestart = TRUE]}
      PROVE  /\ s \in Supervisors /\ s.state = "Starting" /\ s.handledExitGen = sup.handledExitGen
             /\ s.accepting = sup.accepting /\ s.acceptedGen = sup.acceptedGen
             /\ s.connectGen = sup.connectGen /\ s.connectTimer = FALSE
  <2> DEFINE b == beginRestart(sup)
  <2>1. /\ b \in Supervisors /\ b.state = "Starting" /\ b.handledExitGen = sup.handledExitGen
        /\ b.accepting = sup.accepting /\ b.acceptedGen = sup.acceptedGen
        /\ b.connectGen = sup.connectGen /\ b.connectTimer = FALSE
    BY <1>1 DEF beginRestart, Supervisors, States
  <2> HIDE DEF b
  <2>2. CASE s = b
    BY <2>1, <2>2
  <2>3. CASE s = [b EXCEPT !.startWhenUp = p]
    BY <2>1, <2>3 DEF Supervisors
  <2>4. CASE s = [b EXCEPT !.startWhenUp = p, !.guardRestart = TRUE]
    BY <2>1, <2>4 DEF Supervisors
  <2> QED
    BY <1>5, <2>2, <2>3, <2>4 DEF b
<1>6. NoProfile \in MaybeProfile
  BY DEF MaybeProfile
<1>7. ASSUME Listen PROVE NInv'
  <2>1. /\ UNCHANGED <<core, dsQ, frames, posts>> /\ phase' = "listened"
        /\ sup'.state \in {"NotStarted", "ListenFailed"} /\ sup'.handledExitGen = sup.handledExitGen
        /\ sup'.accepting = sup.accepting /\ sup'.acceptedGen = sup.acceptedGen
        /\ sup'.connectGen = sup.connectGen /\ sup'.connectTimer = sup.connectTimer
        /\ sup.state \in {"NotStarted", "ListenFailed"} /\ core.generation = 0 /\ dsQ = <<>>
        /\ phase = "boot"
    BY <1>1, <1>2, <1>7 DEF Listen, procVars, Supervisors, Booted
  <2>2. ~prepareExit /\ ~prepareExit'
    BY <2>1 DEF prepareExit
  <2>3. Bounded' /\ Members' /\ Ordered'
    BY <1>2, <2>1, <2>2 DEF Bounded, Members, Ordered, Todo
  <2>4. Booted' /\ Current' /\ Watching'
    BY <1>2, <2>1, <2>2 DEF Booted, Current, Watching
  <2>5. Reported'
    BY <1>2, <1>3, <2>1, <2>2 DEF Reported, Bounded
  <2> QED
    BY <2>3, <2>4, <2>5 DEF NInv
<1>8. ASSUME NEW p \in MaybeProfile, Start(p) PROVE NInv'
  <2>1. /\ UNCHANGED <<core, frames, posts>> /\ phase = "listened" /\ phase' = "ready"
        /\ core.generation = 0 /\ dsQ = <<>> /\ sup.state \in {"NotStarted", "ListenFailed"}
    BY <1>2, <1>8 DEF Start, Booted
  <2>2. ~prepareExit /\ ~prepareExit'
    BY <2>1 DEF prepareExit
  <2>3. CASE sup.state # "NotStarted"
    <3>1. UNCHANGED <<sup, dsQ>>
      BY <1>8, <2>3 DEF Start
    <3>2. Bounded' /\ Members' /\ Ordered' /\ Reported' /\ Current' /\ Watching'
      BY <1>2, <2>1, <2>2, <2>3, <3>1 DEF Bounded, Members, Ordered, Reported, Current, Watching,
                                          Todo
    <3>3. Booted'
      BY <1>2, <2>1, <2>2, <2>3, <3>1 DEF Booted
    <3> QED
      BY <3>2, <3>3 DEF NInv
  <2>4. CASE sup.state = "NotStarted"
    <3> DEFINE t == Task("start", "none", 0, FALSE)
    <3>1. t \in Tasks /\ t.op = "start" /\ t.gen = 0 /\ t.before = "none"
      BY TaskType DEF Task
    <3>2. /\ dsQ' = Append(dsQ, t) /\ sup' = [sup EXCEPT !.state = "Starting", !.startWhenUp = p]
      BY <1>8, <2>4 DEF Start
    <3>3. /\ sup'.state = "Starting" /\ sup'.handledExitGen = sup.handledExitGen
          /\ sup'.accepting = sup.accepting /\ sup'.acceptedGen = sup.acceptedGen
          /\ sup'.connectGen = sup.connectGen /\ sup'.connectTimer = sup.connectTimer
      BY <1>1, <3>2 DEF Supervisors
    <3> HIDE DEF t
    <3>4. Items(dsQ') = Items(dsQ) \cup {t} /\ dsQ' # <<>> /\ dsQ'[1] = t
      BY <2>1, <3>1, <3>2, TaskAppended
    <3>5. Todo' = Todo \cup {t}
      BY <2>1, <3>4 DEF Todo
    <3>6. Bounded' /\ Members' /\ Ordered'
      BY <1>2, <1>3, <2>1, <2>2, <3>1, <3>3, <3>5 DEF Bounded, Members, Ordered
    <3>7. Booted'
      BY <1>2, <2>1, <2>2, <3>1, <3>3, <3>4 DEF Booted
    <3>8. Reported'
      BY <1>2, <1>3, <2>1, <2>2, <3>3 DEF Reported, Bounded
    <3>9. Current' /\ Watching'
      BY <3>1, <3>5 DEF Current, Watching, Renews
    <3> QED
      BY <3>6, <3>7, <3>8, <3>9 DEF NInv
  <2> QED
    BY <2>3, <2>4
<1>9. ASSUME ResetCore PROVE NInv'
  <2>1. /\ ~exiting /\ canStartCore /\ phase \notin {"boot", "listened"} /\ sup.accepting = 0
        /\ UNCHANGED <<core, frames, phase, posts>>
    BY <1>4, <1>9 DEF ResetCore
  <2>2. CASE Dead
    <3> DEFINE s == [beginRestart(sup) EXCEPT !.startWhenUp = NoProfile]
    <3>1. postProcessRestart(s, "manualStop")
      BY <1>9, <2>2 DEF ResetCore
    <3>2. /\ s \in Supervisors /\ s.state = "Starting" /\ s.handledExitGen = sup.handledExitGen
          /\ s.accepting = sup.accepting /\ s.acceptedGen = sup.acceptedGen
          /\ s.connectGen = sup.connectGen /\ s.connectTimer = FALSE
      BY <1>5, <1>6
    <3> HIDE DEF s
    <3> QED
      BY <2>1, <2>2, <3>1, <3>2, Renewed DEF Dead
  <2>3. CASE ~Dead
    <3> DEFINE t == Task("reset", "manualStop", 0, FALSE)
    <3>1. sup' = beginRestart(sup) /\ dsQ' = Append(dsQ, t)
      BY <1>9, <2>3 DEF ResetCore
    <3>2. /\ sup'.state = "Starting" /\ sup'.handledExitGen = sup.handledExitGen
          /\ sup'.accepting = sup.accepting /\ sup'.acceptedGen = sup.acceptedGen
          /\ sup'.connectGen = sup.connectGen /\ sup'.connectTimer = FALSE
      BY <1>5, <1>6, <3>1
    <3>3. sup.state \in {"Starting", "Connected"}
      BY <1>1, <1>2, <2>1, <2>3 DEF Dead, canStartCore, Booted, Supervisors, States
    <3>4. t \in Tasks /\ t.op = "reset" /\ t.gen = 0
      BY TaskType DEF Task
    <3> HIDE DEF t
    <3>5. Items(dsQ') = Items(dsQ) \cup {t} /\ dsQ' # <<>> /\ (dsQ # <<>> => dsQ'[1] = dsQ[1])
      BY <3>1, <3>4, TaskAppended
    <3>6. Todo' = Todo \cup {t} /\ ~prepareExit /\ ~prepareExit'
      BY <2>1, <3>5 DEF Todo, prepareExit, exiting
    <3>7. Bounded' /\ Members' /\ Ordered'
      BY <1>2, <1>3, <2>1, <3>2, <3>4, <3>6 DEF Bounded, Members, Ordered
    <3>8. Booted'
      BY <1>2, <2>1, <3>2, <3>3, <3>5, <3>6 DEF Booted
    <3>9. Reported' /\ Current'
      BY <1>2, <2>1, <3>2, <3>3, <3>6 DEF Reported, Current
    <3>10. Watching'
      BY <3>4, <3>6 DEF Watching, Kills
    <3> QED
      BY <3>7, <3>8, <3>9, <3>10 DEF NInv
  <2> QED
    BY <2>2, <2>3
<1>10. ASSUME KillForPrivilegeChange PROVE NInv'
  <2>1. /\ canStartCore /\ phase \notin {"boot", "listened"}
        /\ UNCHANGED <<core, frames, phase, sup>>
    BY <1>4, <1>10 DEF KillForPrivilegeChange
  <2>2. CASE Dead
    <3> DEFINE r == Post("restartDead", 0, FALSE, FALSE)
    <3>1. r \in Posts /\ r.gen = 0 /\ r.kind = "restartDead"
      BY PostType DEF Post
    <3>2. posts' = Append(posts, r) /\ dsQ' = dsQ
      BY <1>10, <2>2 DEF KillForPrivilegeChange
    <3> HIDE DEF r
    <3> QED
      BY <1>3, <2>1, <3>1, <3>2, Kept
  <2>3. CASE ~Dead
    <3> DEFINE t == Task("kill", "none", 0, FALSE)
    <3>1. t \in Tasks /\ t.gen = 0
      BY TaskType DEF Task
    <3>2. dsQ' = Append(dsQ, t) /\ posts' = posts
      BY <1>10, <2>3 DEF KillForPrivilegeChange
    <3> HIDE DEF t
    <3> QED
      BY <1>3, <2>1, <3>1, <3>2, Kept DEF canStartCore
  <2> QED
    BY <2>2, <2>3
<1>11. ASSUME StopProfile PROVE NInv'
  <2>1. UNCHANGED <<core, frames, phase, posts, dsQ>> /\ (sup' = sup \/ sup' = cancelResume(sup))
    BY <1>11 DEF StopProfile, procVars
  <2>2. /\ sup'.state = sup.state /\ sup'.handledExitGen = sup.handledExitGen
        /\ sup'.accepting = sup.accepting /\ sup'.acceptedGen = sup.acceptedGen
        /\ sup'.connectGen = sup.connectGen /\ sup'.connectTimer = sup.connectTimer
        /\ sup'.restartTimer = sup.restartTimer
    BY <1>1, <2>1 DEF cancelResume, Supervisors
  <2> QED
    BY <2>1, <2>2, Kept
<1>12. ASSUME SetKillSwitch PROVE NInv'
  BY <1>12, Kept DEF SetKillSwitch, procVars
<1>13. ASSUME BeginExit \/ KillForExit PROVE NInv'
  <2> DEFINE t == Task("killForExit", "none", 0, FALSE)
  <2>1. t \in Tasks /\ t.gen = 0
    BY TaskType DEF Task
  <2>2. /\ UNCHANGED <<core, frames, posts>> /\ prepareExit' /\ phase \notin {"boot", "listened"}
        /\ dsQ' = dsQ \/ dsQ' = Append(dsQ, t)
        /\ sup' = sup \/ stopSupervising
    BY <1>4, <1>13 DEF BeginExit, KillForExit, exitFrame, prepareExit
  <2> HIDE DEF t
  <2> QED
    BY <2>1, <2>2, Leaving
<1>14. ASSUME NEW p \in Profiles, StartProfile(p) PROVE NInv'
  <2>1. UNCHANGED <<core, frames, phase, posts>> /\ phase \notin {"boot", "listened"} /\ sup.accepting = 0
    BY <1>4, <1>14 DEF StartProfile
  <2>2. CASE restartNotListening(sup, p)
    <3> DEFINE s == [beginRestart(sup) EXCEPT !.startWhenUp = p]
    <3>1. postProcessRestart(s, "none") /\ ~exiting /\ canStartCore
      BY <2>2 DEF restartNotListening
    <3>2. /\ s \in Supervisors /\ s.state = "Starting" /\ s.handledExitGen = sup.handledExitGen
          /\ s.accepting = sup.accepting /\ s.acceptedGen = sup.acceptedGen
          /\ s.connectGen = sup.connectGen /\ s.connectTimer = FALSE
      BY <1>5 DEF MaybeProfile
    <3> HIDE DEF s
    <3> QED
      BY <2>1, <3>1, <3>2, Renewed DEF canStartCore
  <2>3. CASE UNCHANGED dsQ /\ sup' \in {sup, [sup EXCEPT !.startWhenUp = p]}
    <3>1. /\ sup'.state = sup.state /\ sup'.handledExitGen = sup.handledExitGen
          /\ sup'.accepting = sup.accepting /\ sup'.acceptedGen = sup.acceptedGen
          /\ sup'.connectGen = sup.connectGen /\ sup'.connectTimer = sup.connectTimer
          /\ sup'.restartTimer = sup.restartTimer
      BY <1>1, <2>3 DEF Supervisors
    <3> QED
      BY <2>1, <2>3, <3>1, Kept
  <2> QED
    BY <1>14, <2>2, <2>3 DEF StartProfile
<1>15. ASSUME NEW p \in MaybeProfile, RestartForGuard(p) PROVE NInv'
  <2> DEFINE s == [beginRestart(sup) EXCEPT !.startWhenUp = p, !.guardRestart = TRUE]
  <2>1. /\ UNCHANGED <<core, frames, phase, posts>> /\ phase \notin {"boot", "listened"}
        /\ sup.accepting = 0 /\ ~exiting /\ canStartCore /\ postProcessRestart(s, "stop")
    BY <1>4, <1>15 DEF RestartForGuard
  <2>2. /\ s \in Supervisors /\ s.state = "Starting" /\ s.handledExitGen = sup.handledExitGen
        /\ s.accepting = sup.accepting /\ s.acceptedGen = sup.acceptedGen
        /\ s.connectGen = sup.connectGen /\ s.connectTimer = FALSE
    BY <1>5
  <2> HIDE DEF s
  <2> QED
    BY <2>1, <2>2, Renewed DEF canStartCore
<1> QED
  BY <1>7, <1>8, <1>9, <1>10, <1>11, <1>12, <1>13, <1>14, <1>15 DEF Boot, Requests

\* The workers of ConnectionManager and the exit.
LEMMA WorkerMoves ==
  ASSUME TypeOK, TypeOK', NInv, Workers \/ Exit
  PROVE  NInv'
<1>1. CASE StartWorker \/ SwitchStop \/ StopDone
  <2>1. UNCHANGED <<sup, core, dsQ, frames, posts, phase>>
    BY <1>1 DEF StartWorker, SwitchStop, StopDone, workFrame, procVars
  <2> QED
    BY <2>1, Kept
<1>2. CASE \E p \in probes : ProbeReply(p)
  <2>1. UNCHANGED <<sup, core, dsQ, frames, posts, phase>>
    BY <1>2 DEF ProbeReply, mainFrame
  <2> QED
    BY <2>1, Kept
<1>3. CASE Exit
  <2> DEFINE t == Task("shutdown", "none", 0, FALSE)
  <2>1. t \in Tasks /\ t.gen = 0
    BY TaskType DEF Task
  <2>2. /\ UNCHANGED <<core, frames, posts>> /\ prepareExit' /\ phase \notin {"boot", "listened"}
        /\ dsQ' = dsQ \/ dsQ' = Append(dsQ, t)
        /\ sup' = sup \/ stopSupervising
    BY <1>3 DEF Exit, ExitStopDone, Shutdown, exitFrame, prepareExit
  <2> HIDE DEF t
  <2> QED
    BY <2>1, <2>2, Leaving
<1> QED
  BY <1>1, <1>2, <1>3 DEF Workers

\* The timers.
LEMMA TimerMoves ==
  ASSUME TypeOK, TypeOK', NInv, Timers
  PROVE  NInv'
<1>1. /\ core.generation \in Nat /\ sup.connectGen \in Nat /\ sup.acceptedGen \in Nat
      /\ sup \in Supervisors /\ Members /\ Booted
  BY Numbers DEF NInv, TypeOK
<1>2. UNCHANGED <<core, frames, phase, posts>>
  BY DEF Timers, postRestart, onConnectTimeout, timerFrame, mainFrame
<1>3. CASE postRestart
  <2> DEFINE fired == [sup EXCEPT !.restartTimer = FALSE]
             s == [fired EXCEPT !.state = "Starting"]
  <2>1. sup.accepting = 0
    BY <1>3 DEF postRestart, MainFree
  <2>2. CASE sup.state = "Backoff" /\ ~exiting
    <3>1. postProcessRestart(s, "none")
      BY <1>3, <2>2 DEF postRestart
    <3>2. /\ s \in Supervisors /\ s.state = "Starting" /\ s.handledExitGen = sup.handledExitGen
          /\ s.accepting = sup.accepting /\ s.acceptedGen = sup.acceptedGen
          /\ s.connectGen = sup.connectGen /\ s.connectTimer = sup.connectTimer
      BY <1>1 DEF Supervisors, States
    <3>3. phase \notin {"boot", "listened"}
      BY <1>1, <2>2 DEF Booted
    <3> HIDE DEF s
    <3> QED
      BY <1>2, <2>1, <2>2, <3>1, <3>2, <3>3, Renewed
  <2>3. CASE sup.state # "Backoff" \/ exiting
    <3>1. sup' = fired /\ dsQ' = dsQ
      BY <1>3, <2>3 DEF postRestart
    <3>2. /\ sup'.state = sup.state /\ sup'.handledExitGen = sup.handledExitGen
          /\ sup'.accepting = sup.accepting /\ sup'.acceptedGen = sup.acceptedGen
          /\ sup'.connectGen = sup.connectGen /\ sup'.connectTimer = sup.connectTimer
      BY <1>1, <3>1 DEF Supervisors
    <3>3. sup.state # "Backoff" \/ prepareExit
      BY <1>1, <2>3 DEF Members, exiting
    <3> QED
      BY <1>2, <3>1, <3>2, <3>3, Kept
  <2> QED
    BY <2>2, <2>3
<1>4. CASE onConnectTimeout
  <2> DEFINE fired == [sup EXCEPT !.connectTimer = FALSE]
             late == /\ sup.state = "Starting" /\ ~exiting
                     /\ sup.connectGen > sup.acceptedGen /\ sup.connectGen = core.generation
             t == Task("timeoutKill", "none", sup.connectGen, FALSE)
  <2>1. /\ sup.connectTimer
        /\ \/ late /\ sup' = [fired EXCEPT !.timedOutGen = sup.connectGen] /\ dsQ' = Append(dsQ, t)
           \/ ~late /\ sup' = fired /\ dsQ' = dsQ
    BY <1>4 DEF onConnectTimeout
  <2>2. /\ sup'.state = sup.state /\ sup'.handledExitGen = sup.handledExitGen
        /\ sup'.accepting = sup.accepting /\ sup'.acceptedGen = sup.acceptedGen
        /\ sup'.connectGen = sup.connectGen /\ sup'.connectTimer = FALSE
        /\ sup'.restartTimer = sup.restartTimer
    BY <1>1, <2>1 DEF Supervisors
  <2>3. t \in Tasks /\ t.gen = sup.connectGen /\ t.op = "timeoutKill"
    BY <1>1, TaskType DEF Task
  <2> HIDE DEF t
  <2>4. CASE late /\ dsQ' = Append(dsQ, t)
    <3>1. t \in Items(dsQ') /\ Kills(t) /\ t.gen <= core.generation
      BY <1>1, <2>3, <2>4, TaskAppended DEF Kills
    <3>2. phase \notin {"boot", "listened"}
      BY <1>1, <2>4 DEF Booted
    <3> QED
      BY <1>2, <2>2, <2>3, <2>4, <3>1, <3>2, Kept
  <2>5. CASE ~late /\ dsQ' = dsQ
    <3>1. prepareExit \/ sup.state # "Starting" \/ sup.connectGen # core.generation
      BY <1>1, <2>1, <2>5 DEF Members, exiting
    <3> QED
      BY <1>2, <2>2, <2>5, <3>1, Kept
  <2> QED
    BY <2>1, <2>4, <2>5
<1> QED
  BY <1>3, <1>4 DEF Timers

\* Connections, and the answers of the privilege probe.
LEMMA AcceptMoves ==
  ASSUME TypeOK, TypeOK', NInv,
         \/ \E c \in conns : VerifyConnection(c)
         \/ Accept
         \/ \E p \in probes : OnPrivilegeProbed(p)
  PROVE  NInv'
<1>1. /\ sup \in Supervisors /\ Bounded /\ Booted /\ Members /\ Ordered /\ Reported /\ Current /\ Watching
      /\ core.generation \in Nat /\ sup.handledExitGen \in Nat /\ sup.accepting \in Nat
      /\ sup.acceptedGen \in Nat /\ sup.connectGen \in Nat
  BY Numbers DEF NInv, TypeOK
<1>2. UNCHANGED <<core, frames, phase, posts>>
  BY DEF VerifyConnection, Accept, OnPrivilegeProbed, mainFrame
<1>3. CASE \E c \in conns : VerifyConnection(c)
  <2>1. /\ dsQ' = dsQ
        /\ \/ core.generation > sup.handledExitGen /\ sup' = [sup EXCEPT !.accepting = core.generation]
           \/ sup' = sup
    BY <1>3 DEF VerifyConnection
  <2>2. /\ sup'.state = sup.state /\ sup'.handledExitGen = sup.handledExitGen
        /\ sup'.acceptedGen = sup.acceptedGen /\ sup'.restartTimer = sup.restartTimer
        /\ sup'.connectGen = sup.connectGen /\ sup'.connectTimer = sup.connectTimer
        /\ \/ sup.handledExitGen < sup'.accepting /\ sup'.accepting = core.generation
           \/ sup'.accepting = sup.accepting
    BY <1>1, <2>1 DEF Supervisors
  <2> QED
    BY <1>2, <2>1, <2>2, Kept
<1>4. CASE Accept
  <2> DEFINE gen == MaxOf(sup.acceptedGen, sup.accepting)
  <2>1. sup.accepting # 0 /\ dsQ' = dsQ
    BY <1>4 DEF Accept
  <2>2. CASE exiting
    <3>1. sup' = [sup EXCEPT !.accepting = 0]
      BY <1>4, <2>2 DEF Accept
    <3>2. /\ sup'.state = sup.state /\ sup'.handledExitGen = sup.handledExitGen
          /\ sup'.acceptedGen = sup.acceptedGen /\ sup'.restartTimer = sup.restartTimer
          /\ sup'.connectGen = sup.connectGen /\ sup'.connectTimer = sup.connectTimer
          /\ sup'.accepting = 0
      BY <1>1, <3>1 DEF Supervisors
    <3> QED
      BY <1>2, <2>1, <3>2, Kept
  <2>3. CASE ~exiting
    <3>1. /\ sup'.state = "Connected" /\ sup'.handledExitGen = sup.handledExitGen
          /\ sup'.acceptedGen = gen /\ sup'.connectTimer = FALSE
          /\ sup'.connectGen = sup.connectGen /\ sup'.accepting = 0
      BY <1>1, <1>4, <2>3 DEF Accept, Supervisors
    <3>2. gen \in Nat /\ gen <= core.generation
      BY <1>1 DEF MaxOf, Bounded
    <3>3. core.generation > sup.handledExitGen /\ core.generation # 0
      BY <1>1, <2>1 DEF Members, Bounded
    <3>4. prepareExit' = prepareExit /\ Todo' = Todo
      BY <1>2, <2>1 DEF prepareExit, Todo
    <3> HIDE DEF gen
    <3>5. Bounded' /\ Members' /\ Ordered'
      BY <1>1, <1>2, <3>1, <3>2, <3>4 DEF Bounded, Members, Ordered
    <3>6. Booted'
      BY <1>1, <1>2, <3>1, <3>3 DEF Booted
    <3>7. Reported' /\ Current' /\ Watching'
      BY <1>1, <1>2, <3>1, <3>3, <3>4 DEF Reported, Current, Watching
    <3> QED
      BY <3>5, <3>6, <3>7 DEF NInv
  <2> QED
    BY <2>2, <2>3
<1>5. CASE \E p \in probes : OnPrivilegeProbed(p)
  <2> DEFINE started == [sup EXCEPT !.probing = FALSE, !.startFailures = 0,
                                    !.startWhenUp = NoProfile, !.guardRestart = FALSE]
             s == [beginRestart(started) EXCEPT !.startWhenUp = sup.startWhenUp]
  <2>1. \/ sup' = sup /\ dsQ' = dsQ
        \/ sup' = started /\ dsQ' = dsQ
        \/ /\ sup.state = "Connected" /\ sup.accepting = 0 /\ ~exiting
           /\ postProcessRestart(s, "none")
    BY <1>5 DEF OnPrivilegeProbed, emitCoreStarted, restartNotListening, MainFree
  <2>2. CASE (sup' = sup \/ sup' = started) /\ dsQ' = dsQ
    <3>1. /\ sup'.state = sup.state /\ sup'.handledExitGen = sup.handledExitGen
          /\ sup'.accepting = sup.accepting /\ sup'.acceptedGen = sup.acceptedGen
          /\ sup'.connectGen = sup.connectGen /\ sup'.connectTimer = sup.connectTimer
          /\ sup'.restartTimer = sup.restartTimer
      BY <1>1, <2>2 DEF Supervisors
    <3> QED
      BY <1>2, <2>2, <3>1, Kept
  <2>3. CASE /\ sup.state = "Connected" /\ sup.accepting = 0 /\ ~exiting
             /\ postProcessRestart(s, "none")
    <3>1. /\ s \in Supervisors /\ s.state = "Starting" /\ s.handledExitGen = sup.handledExitGen
          /\ s.accepting = sup.accepting /\ s.acceptedGen = sup.acceptedGen
          /\ s.connectGen = sup.connectGen /\ s.connectTimer = FALSE
      <4>1. sup.startWhenUp \in MaybeProfile /\ NoProfile \in MaybeProfile
        BY <1>1 DEF Supervisors, MaybeProfile
      <4> QED
        BY <1>1, <4>1 DEF beginRestart, Supervisors, States
    <3>2. phase \notin {"boot", "listened"}
      BY <1>1, <2>3 DEF Booted
    <3> HIDE DEF s
    <3> QED
      BY <1>2, <2>3, <3>1, <3>2, Renewed
  <2> QED
    BY <2>1, <2>2, <2>3
<1> QED
  BY <1>3, <1>4, <1>5

\* The exit of a core is handled: the supervisor backs off or gives up.
LEMMA Handled ==
  ASSUME TypeOK, TypeOK', NInv, ~exiting, sup.accepting = 0, posts # <<>>, posts' = Tail(posts),
         Head(posts).gen > sup.handledExitGen,
         sup'.state = "GaveUp" \/ (sup'.state = "Backoff" /\ sup'.restartTimer),
         sup'.handledExitGen = Head(posts).gen, sup'.connectTimer = FALSE,
         sup'.accepting = sup.accepting, sup'.acceptedGen = sup.acceptedGen,
         sup'.connectGen = sup.connectGen, UNCHANGED <<core, dsQ, frames, phase>>
  PROVE  NInv'
<1>1. /\ Bounded /\ Booted /\ Members /\ Ordered /\ Reported /\ Current /\ Watching
      /\ core.generation \in Nat /\ sup.handledExitGen \in Nat /\ posts \in Seq(Posts)
      /\ sup.accepting \in Nat /\ sup.acceptedGen \in Nat /\ sup.connectGen \in Nat
      /\ \A r \in Items(posts) : r.gen \in Nat
  BY Numbers DEF NInv
<1>2. Sorted(posts') /\ Items(posts) = {Head(posts)} \cup Items(posts')
  BY <1>1, ItemsTail, SortedTail DEF Ordered
<1>3. Head(posts).gen \in Nat /\ Head(posts).gen <= core.generation /\ core.generation # 0
  BY <1>1, <1>2 DEF Bounded
<1>4. prepareExit' = prepareExit /\ Todo' = Todo
  BY DEF prepareExit, Todo
<1>5. Bounded' /\ Members' /\ Ordered'
  BY <1>1, <1>2, <1>3, <1>4 DEF Bounded, Members, Ordered
<1>6. Booted'
  BY <1>1, <1>3 DEF Booted
<1>7. Reported'
  <2> SUFFICES ASSUME core.generation > Head(posts).gen, ~prepareExit, core.os = "none",
                      ~\E t \in Items(frames) :
                         t.op = "execFailed" \/ (t.op = "exit" /\ t.gen = core.generation)
               PROVE  \E r \in Items(posts') : r.kind = "exit" /\ r.gen = core.generation
    BY <1>4 DEF Reported
  <2>1. core.generation > sup.handledExitGen
    BY <1>1, <1>3
  <2>2. PICK r \in Items(posts) : r.kind = "exit" /\ r.gen = core.generation
    BY <1>1, <2>1 DEF Reported
  <2> QED
    BY <1>2, <1>3, <2>2
<1>8. Current' /\ Watching'
  BY DEF Current, Watching
<1> QED
  BY <1>5, <1>6, <1>7, <1>8 DEF NInv

\* The reports posted to the main thread.
LEMMA ReportMoves ==
  ASSUME TypeOK, TypeOK', NInv, onCoreSpawned \/ restartDeadCore \/ onCoreExited
  PROVE  NInv'
<1> DEFINE r == Head(posts)
<1>1. /\ sup \in Supervisors /\ Bounded /\ Booted /\ Members /\ Ordered /\ Reported /\ Current /\ Watching
      /\ core.generation \in Nat /\ sup.handledExitGen \in Nat /\ posts \in Seq(Posts)
      /\ sup.accepting \in Nat /\ sup.acceptedGen \in Nat /\ sup.connectGen \in Nat
      /\ \A e \in Items(posts) : e.gen \in Nat
  BY Numbers DEF NInv, TypeOK
<1>2. /\ posts # <<>> /\ posts' = Tail(posts) /\ sup.accepting = 0
      /\ UNCHANGED <<core, frames, phase>>
  BY DEF onCoreSpawned, restartDeadCore, onCoreExited, Posted, MainFree, postFrame, mainFrame,
         ExitFrame
<1>3. Sorted(posts') /\ Items(posts) = {r} \cup Items(posts')
  BY <1>1, <1>2, ItemsTail, SortedTail DEF Ordered
<1>4. r.gen \in Nat /\ r.gen <= core.generation
  BY <1>1, <1>3 DEF Bounded
<1>5. prepareExit' = prepareExit
  BY <1>2 DEF prepareExit
<1>6. CASE onCoreSpawned
  <2>1. r.kind = "spawned" /\ dsQ' = dsQ
    BY <1>6 DEF onCoreSpawned, Posted
  <2>2. CASE ~Watched(r.gen)
    <3>1. sup' = sup
      BY <1>6, <2>2 DEF onCoreSpawned
    <3>2. prepareExit \/ sup.state # "Starting" \/ r.gen <= sup.acceptedGen
      BY <1>1, <1>4, <2>2 DEF Watched, exiting, Members
    <3> QED
      BY <1>2, <2>1, <3>1, <3>2, Kept
  <2>3. CASE Watched(r.gen)
    <3>1. /\ sup'.connectGen = r.gen /\ sup'.connectTimer = TRUE /\ sup'.state = sup.state
          /\ sup'.handledExitGen = sup.handledExitGen /\ sup'.accepting = sup.accepting
          /\ sup'.acceptedGen = sup.acceptedGen /\ sup'.restartTimer = sup.restartTimer
      BY <1>1, <1>6, <2>3 DEF onCoreSpawned, Supervisors
    <3>2. r.gen > sup.acceptedGen /\ sup.state = "Starting" /\ r.gen >= sup.connectGen
      BY <1>1, <1>3, <2>1, <2>3 DEF Watched, Ordered
    <3>3. \A e \in Items(posts') : e.kind = "spawned" => r.gen <= e.gen
      BY <1>1, <1>2, <2>1, SortedTail DEF Ordered
    <3>4. Todo' = Todo
      BY <1>2, <2>1 DEF Todo
    <3> HIDE DEF r
    <3>5. Bounded' /\ Members'
      BY <1>1, <1>2, <1>3, <1>4, <1>5, <3>1, <3>2, <3>4 DEF Bounded, Members
    <3>6. \A e \in Items(posts') : e.kind = "spawned" => e.gen >= r.gen
      BY <1>1, <1>3, <1>4, <3>3
    <3>7. Ordered'
      BY <1>3, <3>1, <3>6 DEF Ordered
    <3>8. Booted'
      BY <1>1, <1>2, <1>5, <2>1, <3>1 DEF Booted
    <3>9. Reported' /\ Current'
      BY <1>1, <1>2, <1>3, <1>5, <2>1, <3>1, <3>4 DEF Reported, Current
    <3>10. Watching'
      <4> SUFFICES ASSUME ~prepareExit, core.os # "none", ~core.dying
                   PROVE  \/ \E t \in Todo : Renews(t) \/ Kills(t)
                          \/ core.os = "starting" /\ core.generation > sup.acceptedGen
                          \/ r.gen = core.generation
                          \/ /\ core.generation > sup.acceptedGen
                             /\ \E e \in Items(posts') : e.kind = "spawned" /\ e.gen = core.generation
        BY <1>2, <1>5, <3>1, <3>4 DEF Watching, Kills
      <4>1. CASE sup.connectGen = core.generation
        BY <1>1, <1>4, <3>2, <4>1
      <4> QED
        BY <1>1, <1>3, <3>2, <4>1 DEF Watching
    <3> QED
      BY <3>5, <3>7, <3>8, <3>9, <3>10 DEF NInv
  <2> QED
    BY <2>2, <2>3
<1>7. CASE restartDeadCore
  <2>1. r.kind = "restartDead"
    BY <1>7 DEF restartDeadCore, Posted
  <2>2. CASE Dead /\ ~exiting
    <3> DEFINE s == [beginRestart(sup) EXCEPT !.startWhenUp = startedId]
    <3>1. postProcessRestart(s, "none")
      BY <1>7, <2>2 DEF restartDeadCore
    <3>2. /\ s \in Supervisors /\ s.state = "Starting" /\ s.handledExitGen = sup.handledExitGen
          /\ s.accepting = sup.accepting /\ s.acceptedGen = sup.acceptedGen
          /\ s.connectGen = sup.connectGen /\ s.connectTimer = FALSE
      <4>1. startedId \in MaybeProfile
        BY DEF TypeOK
      <4> QED
        BY <1>1, <4>1 DEF beginRestart, Supervisors, States
    <3>3. phase \notin {"boot", "listened"} /\ sup.state # "ListenFailed"
      BY <1>1, <2>2 DEF Booted, Dead
    <3> HIDE DEF s
    <3> QED
      BY <1>2, <2>2, <3>1, <3>2, <3>3, Renewed
  <2>3. CASE ~Dead \/ exiting
    <3>1. UNCHANGED <<sup, dsQ>>
      BY <1>7, <2>3 DEF restartDeadCore
    <3> QED
      BY <1>2, <2>1, <3>1, Kept
  <2> QED
    BY <2>2, <2>3
<1>8. CASE onCoreExited
  <2>1. r.kind = "exit" /\ dsQ' = dsQ
    BY <1>8 DEF onCoreExited, Posted, ExitFrame
  <2>2. /\ noteExit(r.gen).handledExitGen = r.gen /\ noteExit(r.gen).state = sup.state
        /\ noteExit(r.gen).accepting = sup.accepting /\ noteExit(r.gen).acceptedGen = sup.acceptedGen
        /\ noteExit(r.gen).connectGen = sup.connectGen
        /\ noteExit(r.gen).connectTimer = sup.connectTimer
        /\ noteExit(r.gen).restartTimer = sup.restartTimer
    BY <1>1 DEF noteExit, Supervisors
  <2>4. CASE MootExit(r)
    <3>1. CASE r.gen <= sup.handledExitGen
      BY <1>2, <2>1, <2>4, <3>1, Kept DEF MootExit
    <3>2. CASE r.gen > sup.handledExitGen
      <4>1. sup' = noteExit(r.gen) /\ prepareExit
        BY <1>1, <1>4, <2>4, <3>2 DEF MootExit, exiting, Members
      <4>2. Todo' = Todo
        BY <1>2, <2>1 DEF Todo
      <4>3. Bounded' /\ Members' /\ Ordered'
        BY <1>1, <1>2, <1>3, <1>4, <1>5, <2>2, <4>1, <4>2 DEF Bounded, Members, Ordered
      <4>4. Booted' /\ Reported' /\ Current' /\ Watching'
        BY <1>1, <1>2, <1>5, <2>1, <2>2, <4>1 DEF Booted, Reported, Current, Watching
      <4> QED
        BY <4>3, <4>4 DEF NInv
    <3> QED
      BY <1>1, <1>4, <3>1, <3>2
  <2>5. CASE r.gen > sup.handledExitGen /\ ~exiting /\ ~MootExit(r)
    <3>1. /\ sup'.state = "GaveUp" \/ (sup'.state = "Backoff" /\ sup'.restartTimer)
          /\ sup'.handledExitGen = r.gen /\ sup'.connectTimer = FALSE
          /\ sup'.accepting = sup.accepting /\ sup'.acceptedGen = sup.acceptedGen
          /\ sup'.connectGen = sup.connectGen
      <4> DEFINE n == noteExit(r.gen)
      <4>1. DOMAIN n = {"state", "startWhenUp", "probing", "failures", "startFailures",
                        "handledExitGen", "acceptedGen", "connectGen", "timedOutGen",
                        "restartTimer", "connectTimer", "crashTimer", "accepting", "guardRestart"}
        BY <1>1 DEF noteExit, Supervisors
      <4> DEFINE Like(m) == /\ m.handledExitGen = n.handledExitGen /\ m.connectTimer = FALSE
                            /\ m.accepting = n.accepting /\ m.acceptedGen = n.acceptedGen
                            /\ m.connectGen = n.connectGen /\ DOMAIN m = DOMAIN n
      <4> HIDE DEF n
      <4>5. ASSUME NEW f, NEW sf, NEW c, NEW p
            PROVE  /\ Like([n EXCEPT !.connectTimer = FALSE, !.failures = f, !.startFailures = sf,
                                     !.crashTimer = c, !.startWhenUp = p])
                   /\ Like([n EXCEPT !.connectTimer = FALSE, !.failures = f, !.startFailures = sf,
                                     !.startWhenUp = p])
                   /\ Like([n EXCEPT !.connectTimer = FALSE])
        BY <4>1
      <4>6. ASSUME NEW m, Like(m),
                   sup' = scheduleRestart(m) \/ sup' = [m EXCEPT !.state = "GaveUp", !.guardRestart = FALSE]
            PROVE  /\ sup'.state = "GaveUp" \/ (sup'.state = "Backoff" /\ sup'.restartTimer)
                   /\ sup'.handledExitGen = r.gen /\ sup'.connectTimer = FALSE
                   /\ sup'.accepting = sup.accepting /\ sup'.acceptedGen = sup.acceptedGen
                   /\ sup'.connectGen = sup.connectGen
        <5>1. /\ sup'.state = "GaveUp" \/ (sup'.state = "Backoff" /\ sup'.restartTimer)
              /\ sup'.handledExitGen = m.handledExitGen /\ sup'.connectTimer = m.connectTimer
              /\ sup'.accepting = m.accepting /\ sup'.acceptedGen = m.acceptedGen
              /\ sup'.connectGen = m.connectGen
          BY <4>1, <4>6 DEF scheduleRestart
        <5> QED
          BY <2>2, <4>6, <5>1 DEF n
      <4> HIDE DEF Like
      <4>2. CASE ExpectedExit(r)
        BY <4>2, <4>5, <4>6 DEF ExpectedExit, n
      <4>3. CASE IdentityExit(r)
        BY <4>3, <4>5, <4>6 DEF IdentityExit, n
      <4>4. CASE \E stable, soon \in BOOLEAN : FailedExit(r, stable, soon)
        <5>1. PICK stable, soon \in BOOLEAN : FailedExit(r, stable, soon)
          BY <4>4
        <5> DEFINE connected == WasConnected(r)
                   failures == IF connected /\ stable THEN 1 ELSE sup.failures + 1
                   startFailures == IF connected THEN sup.startFailures ELSE sup.startFailures + 1
                   tooFrequent == connected /\ sup.crashTimer /\ soon
                   settled == connected \/ sup.startWhenUp = NoProfile
                   declined == settled /\ tooFrequent /\ startedId # NoProfile
                   resume == IF declined THEN NoProfile
                             ELSE IF settled THEN startedId ELSE sup.startWhenUp
                   giveUp == \/ failures >= GiveUpAfter /\ resume = NoProfile
                             \/ ~connected /\ startFailures >= GiveUpAfter
                   crash == IF connected THEN ~tooFrequent ELSE sup.crashTimer
                   next == IF giveUp THEN NoProfile ELSE resume
                   counted == [n EXCEPT !.connectTimer = FALSE, !.failures = failures,
                                 !.startFailures = startFailures, !.crashTimer = crash,
                                 !.startWhenUp = next]
        <5>2. sup' = scheduleRestart(counted)
                \/ sup' = [counted EXCEPT !.state = "GaveUp", !.guardRestart = FALSE]
          BY <5>1 DEF FailedExit, n
        <5> HIDE DEF failures, startFailures, crash, next
        <5>3. Like(counted)
          BY <4>5
        <5> HIDE DEF counted
        <5> QED
          BY <4>6, <5>2, <5>3
      <4> QED
        BY <1>8, <2>5, <4>2, <4>3, <4>4 DEF onCoreExited
    <3> QED
      BY <1>2, <2>1, <2>5, <3>1, Handled
  <2> QED
    BY <1>8, <2>4, <2>5 DEF onCoreExited
<1> QED
  BY <1>6, <1>7, <1>8

\* u stands for v.
As(u, v) == u.op = v.op /\ u.gen = v.gen
\* v is the handler of the end of the current core.
Ends(v) == v.op = "execFailed" \/ (v.op = "exit" /\ v.gen = core.generation)
\* Nothing waits for v any more.
Finished(v) ==
  /\ ~Renews(v) /\ (Kills(v) => core'.dying \/ core.os = "none")
  /\ Ends(v) => \E r \in Items(posts') : r.kind = "exit" /\ r.gen = core.generation

\* DS_cores moves its tasks on, and the core stays the one it is.
LEMMA Moved ==
  ASSUME TypeOK, TypeOK', NInv, sup' = sup, phase' = phase,
         core'.generation = core.generation, core'.os = core.os,
         core.dying => core'.dying \/ core.os = "none", prepareExit \/ core.generation # 0,
         \A u \in Todo' : \E v \in Todo : As(u, v),
         prepareExit \/ \A v \in Items(dsQ) : Finished(v) \/ \E u \in Todo' : As(u, v),
         prepareExit \/ \A v \in Items(frames) :
                          Finished(v) \/ \E u \in Items(frames') : As(u, v),
         Sorted(posts'), Items(posts) \subseteq Items(posts'),
         \A r \in Items(posts') :
           r \in Items(posts) \/ (r.kind = "exit" /\ r.gen <= core.generation)
  PROVE  NInv'
<1>1. /\ Bounded /\ Booted /\ Members /\ Ordered /\ Reported /\ Current /\ Watching
      /\ core.generation \in Nat
  BY Numbers DEF NInv
<1>2. prepareExit' = prepareExit
  BY DEF prepareExit
<1>3. Bounded'
  <2>1. \A u \in Todo' : u.gen <= core.generation
    BY <1>1 DEF Bounded, As
  <2> QED
    BY <1>1, <2>1 DEF Bounded
<1>4. Members' /\ Ordered'
  BY <1>1, <1>2 DEF Members, Ordered
<1>5. Booted'
  <2>1. phase \in {"boot", "listened"} => ~prepareExit
    BY DEF prepareExit
  <2> QED
    BY <1>1, <1>2, <2>1 DEF Booted
<1>6. prepareExit \/ \A v \in Todo : Finished(v) \/ \E u \in Todo' : As(u, v)
  BY DEF Todo
<1>7. Reported'
  <2> SUFFICES ASSUME core.generation > sup.handledExitGen, ~prepareExit, core.os = "none"
               PROVE  \/ \E t \in Items(frames') : Ends(t)
                      \/ \E r \in Items(posts') : r.kind = "exit" /\ r.gen = core.generation
    BY <1>2 DEF Reported, Ends
  <2>1. CASE \E r \in Items(posts) : r.kind = "exit" /\ r.gen = core.generation
    BY <2>1
  <2>2. ASSUME NEW v \in Items(frames), Ends(v)
        PROVE  \/ \E t \in Items(frames') : Ends(t)
               \/ \E r \in Items(posts') : r.kind = "exit" /\ r.gen = core.generation
    BY <2>2 DEF Finished, As, Ends
  <2> QED
    BY <1>1, <2>1, <2>2 DEF Reported, Ends
<1>8. Current'
  <2> SUFFICES ASSUME sup.state \in {"Starting", "Connected"}, ~prepareExit,
                      NEW v \in Todo, Renews(v)
               PROVE  \E u \in Todo' : Renews(u)
    BY <1>1, <1>2 DEF Current, Renews
  <2>1. PICK u \in Todo' : As(u, v)
    BY <1>6 DEF Finished
  <2> QED
    BY <2>1 DEF As, Renews
<1>9. Watching'
  <2> SUFFICES ASSUME sup.state = "Starting", ~prepareExit, core.os # "none", ~core'.dying,
                      NEW v \in Todo, Renews(v) \/ Kills(v)
               PROVE  \E u \in Todo' : Renews(u) \/ Kills(u)
    BY <1>1, <1>2 DEF Watching, Renews, Kills
  <2>1. PICK u \in Todo' : As(u, v)
    BY <1>6 DEF Finished
  <2> QED
    BY <2>1 DEF As, Renews, Kills
<1> QED
  BY <1>3, <1>4, <1>5, <1>7, <1>8, <1>9 DEF NInv

\* A new generation: a core that is being spawned, or one that should have been replaced
\* and is dying.
LEMMA Replaced ==
  ASSUME TypeOK, TypeOK', NInv, sup' = sup, phase' = phase,
         phase \notin {"boot", "listened"}, core'.generation = core.generation + 1,
         core'.os = "starting" \/ (core'.os # "none" /\ core'.dying),
         \A u \in Todo' : u \in Todo,
         \/ posts' = posts
         \/ posts' = Append(posts, Post("spawned", core.generation, FALSE, FALSE))
  PROVE  NInv'
<1>1. /\ Bounded /\ Booted /\ Members /\ Ordered /\ Reported /\ Current /\ Watching
      /\ core.generation \in Nat /\ sup.handledExitGen \in Nat /\ sup.accepting \in Nat
      /\ sup.acceptedGen \in Nat /\ sup.connectGen \in Nat /\ posts \in Seq(Posts)
      /\ \A t \in Todo : t.gen \in Nat
      /\ \A e \in Items(posts) : e.gen \in Nat
  BY Numbers DEF NInv
<1>2. prepareExit' = prepareExit
  BY DEF prepareExit
<1> DEFINE r == Post("spawned", core.generation, FALSE, FALSE)
<1>3. r \in Posts /\ r.kind = "spawned" /\ r.gen = core.generation
  <2>1. r \in Posts
    BY <1>1, PostType
  <2> QED
    BY <2>1 DEF Post
<1> HIDE DEF r
<1>4. Sorted(posts') /\ \A e \in Items(posts') : e \in Items(posts) \/ e = r
  <2>1. CASE posts' = posts
    BY <1>1, <2>1 DEF Ordered
  <2>2. CASE posts' = Append(posts, r)
    <3>1. Items(posts') = Items(posts) \cup {r}
      BY <1>1, <1>3, <2>2, ItemsAppend
    <3>2. Sorted(posts')
      BY <1>1, <1>3, <2>2, SortedAppend DEF Ordered, Bounded
    <3> QED
      BY <3>1, <3>2
  <2> QED
    BY <2>1, <2>2 DEF r
<1>5. Bounded'
  <2>1. \A u \in Todo' : u.gen <= core.generation + 1
    BY <1>1 DEF Bounded
  <2>2. \A e \in Items(posts') : e.gen <= core.generation + 1
    BY <1>1, <1>3, <1>4 DEF Bounded
  <2>3. /\ sup.handledExitGen <= core.generation + 1 /\ sup.accepting <= core.generation + 1
        /\ sup.acceptedGen <= core.generation + 1 /\ sup.connectGen <= core.generation + 1
        /\ core.generation + 1 # 0
    BY <1>1 DEF Bounded
  <2> QED
    BY <2>1, <2>2, <2>3 DEF Bounded
<1>6. Members'
  BY <1>1, <1>2 DEF Members
<1>7. Ordered'
  BY <1>1, <1>3, <1>4 DEF Ordered, Bounded
<1>8. Booted'
  BY <1>1 DEF Booted
<1>9. Reported' /\ Current' /\ Watching'
  BY <1>1 DEF Reported, Current, Watching, Bounded
<1> QED
  BY <1>5, <1>6, <1>7, <1>8, <1>9 DEF NInv

\* A child that outlives the wait of Restart dies under the new generation.
LEMMA OutlivedKill ==
  ASSUME core \in Cores, core.os # "none",
         core' = Blame([Kill(core) EXCEPT !.generation = core.generation + 1])
  PROVE  /\ core'.generation = core.generation + 1 /\ core'.os = core.os /\ core'.dying = TRUE
         /\ core'.expectedExitGen = core.expectedExitGen /\ core'.unmarked = core.unmarked
         /\ core'.failed = core.failed \cup {core.generation + 1}
<1> DEFINE c == [Kill(core) EXCEPT !.generation = core.generation + 1]
<1>1. Kill(core) \in Cores /\ core.generation + 1 \in Nat
  BY CoreTypes DEF Cores
<1>2. /\ Kill(core).os = core.os /\ Kill(core).dying = TRUE
      /\ Kill(core).expectedExitGen = core.expectedExitGen
      /\ Kill(core).failed = core.failed /\ Kill(core).unmarked = core.unmarked
  BY Marks
<1>3. /\ c \in Cores /\ c.generation = core.generation + 1 /\ c.os = Kill(core).os
      /\ c.dying = Kill(core).dying /\ c.expectedExitGen = Kill(core).expectedExitGen
      /\ c.failed = Kill(core).failed /\ c.unmarked = Kill(core).unmarked
  BY <1>1 DEF Cores
<1> HIDE DEF c
<1>4. core' = Blame(c)
  BY DEF c
<1>5. /\ Blame(c).generation = c.generation /\ Blame(c).os = c.os
      /\ Blame(c).dying = c.dying /\ Blame(c).unmarked = c.unmarked
      /\ Blame(c).expectedExitGen = c.expectedExitGen
      /\ Blame(c).failed = c.failed \cup {c.generation}
  BY <1>3, Marks
<1> QED
  BY <1>2, <1>3, <1>4, <1>5

\* DS_cores runs a task to its end.
LEMMA Performed ==
  ASSUME TypeOK, TypeOK', NInv, NEW t \in Todo, Perform(t), sup' = sup,
         phase \notin {"boot", "listened"}, prepareExit \/ core.generation # 0 \/ t.op = "start",
         \A u \in Todo' : u \in Todo,
         \A v \in Items(dsQ) : v = t \/ v \in Todo',
         \A v \in Items(frames) : v = t \/ v \in Items(frames')
  PROVE  NInv'
<1>1. /\ Bounded /\ Booted /\ Members /\ Ordered /\ Reported /\ Current /\ Watching
      /\ core.generation \in Nat /\ core \in Cores /\ t \in Tasks /\ posts \in Seq(Posts)
  BY Numbers DEF NInv, TypeOK
<1>2. \A u \in Todo' : \E v \in Todo : As(u, v)
  BY DEF As
<1>3. ASSUME Finished(t)
      PROVE  /\ \A v \in Items(dsQ) : Finished(v) \/ \E u \in Todo' : As(u, v)
             /\ \A v \in Items(frames) : Finished(v) \/ \E u \in Items(frames') : As(u, v)
  BY <1>3 DEF As
<1>4. CASE t.op = "start" /\ DoStart
  <2>1. core' = Spawn(core) /\ phase' = phase /\ posts' = posts
    BY <1>4 DEF DoStart
  <2>2. core'.generation = core.generation + 1 /\ core'.os = "starting"
    BY <1>1, <2>1 DEF Spawn, Cores
  <2> QED
    BY <2>1, <2>2, Replaced
<1>5. CASE t.op = "restart" /\ DoRestart
  <2>1. /\ phase' = phase
        /\ \/ core' = Spawn(core) /\ posts' = SpawnReport
           \/ /\ core.os # "none" /\ posts' = posts
              /\ core' = Blame([Kill(core) EXCEPT !.generation = core.generation + 1])
    BY <1>5 DEF DoRestart
  <2>2. CASE core' = Spawn(core) /\ posts' = SpawnReport
    <3>1. core'.generation = core.generation + 1 /\ core'.os = "starting"
      BY <1>1, <2>2 DEF Spawn, Cores
    <3>2. \/ posts' = posts
          \/ posts' = Append(posts, Post("spawned", core.generation, FALSE, FALSE))
      BY <2>2 DEF SpawnReport
    <3> QED
      BY <2>1, <3>1, <3>2, Replaced
  <2>3. CASE /\ core.os # "none" /\ posts' = posts
             /\ core' = Blame([Kill(core) EXCEPT !.generation = core.generation + 1])
    <3>1. core'.generation = core.generation + 1 /\ core'.os = core.os /\ core'.dying = TRUE
      BY <1>1, <2>3, OutlivedKill
    <3> QED
      BY <2>1, <2>3, <3>1, Replaced
  <2> QED
    BY <2>1, <2>2, <2>3
<1>6. CASE \/ t.op = "reset" /\ DoReset
           \/ t.op = "kill" /\ DoKill
           \/ t.op = "timeoutKill" /\ DoTimeoutKill(t.gen)
           \/ t.op = "killForExit" /\ DoKillForExit
  <2>1. /\ phase' = phase /\ posts' = posts
        /\ core' = core \/ core' = Kill(core) \/ core' = Expect(core)
        /\ Kills(t) => core' = Kill(core) \/ core' = Expect(core)
    BY <1>6 DEF DoReset, DoKill, DoTimeoutKill, DoKillForExit, Kills
  <2>2. ASSUME core' = Kill(core) \/ core' = Expect(core)
        PROVE  /\ core'.generation = core.generation /\ core'.os = core.os
               /\ core'.dying = (core.os # "none")
    BY <1>1, <2>2, Marks
  <2>3. /\ core'.generation = core.generation /\ core'.os = core.os
        /\ core.dying => core'.dying \/ core.os = "none"
        /\ Kills(t) => core'.dying \/ core.os = "none"
    BY <2>1, <2>2
  <2>4. Finished(t)
    BY <1>6, <2>3 DEF Finished, Renews, Ends
  <2>5. prepareExit \/ core.generation # 0
    BY <1>6
  <2>6. Sorted(posts')
    BY <1>1, <2>1 DEF Ordered
  <2> QED
    BY <1>2, <1>3, <2>1, <2>3, <2>4, <2>5, <2>6, Moved
<1>7. CASE t.op = "shutdown" /\ DoShutdown
  <2>1. /\ core' = Gone(core) /\ phase' = "done" /\ posts' = posts
    BY <1>7 DEF DoShutdown
  <2>2. core'.generation = core.generation /\ core'.os = "none"
    BY <1>1, <2>1 DEF Gone, Cores
  <2>3. prepareExit'
    BY <2>1 DEF prepareExit
  <2>4. Bounded' /\ Members' /\ Ordered'
    BY <1>1, <2>1, <2>2, <2>3 DEF Bounded, Members, Ordered
  <2>5. Booted' /\ Reported' /\ Current' /\ Watching'
    BY <1>1, <2>1, <2>3 DEF Booted, Reported, Current, Watching
  <2> QED
    BY <2>4, <2>5 DEF NInv
<1>8. CASE t.op \in {"exit", "execFailed"} /\ DoPostExit(t)
  <2>1. /\ core' = core \/ core' = Blame(core)
        /\ phase' = phase /\ posts' = posts \o Reports(t)
    BY <1>8 DEF DoPostExit, Blamed
  <2>2. t.gen <= core.generation /\ \A r \in Items(posts) : r.gen <= core.generation
    BY <1>1 DEF Bounded
  <2>3. /\ Sorted(posts') /\ Items(posts) \subseteq Items(posts')
        /\ \A r \in Items(posts') :
             r \in Items(posts) \/ (r.kind = "exit" /\ r.gen <= core.generation)
        /\ t.op # "exit" \/ t.gen = core.generation =>
             \E r \in Items(posts') : r.kind = "exit" /\ r.gen = core.generation
    BY <1>1, <2>1, <2>2, ReportItems DEF Ordered
  <2>4. Finished(t)
    BY <1>8, <2>3 DEF Finished, Renews, Kills, Ends
  <2>5. prepareExit \/ core.generation # 0
    BY <1>8
  <2>6. /\ core'.generation = core.generation /\ core'.os = core.os
        /\ core'.dying = core.dying
    BY <1>1, <2>1, Marks
  <2> QED
    BY <1>2, <1>3, <2>1, <2>3, <2>4, <2>5, <2>6, Moved
<1> QED
  BY <1>4, <1>5, <1>6, <1>7, <1>8 DEF Perform

\* The child has ended: its handler waits, or has reported it.
LEMMA Ended ==
  ASSUME TypeOK, TypeOK', NInv, core.os # "none", NEW t \in Tasks, NotRunning(t),
         t.op = "execFailed" \/ (t.op = "exit" /\ t.gen = core.generation),
         t.gen <= core.generation
  PROVE  NInv'
<1>1. /\ Bounded /\ Booted /\ Members /\ Ordered /\ Reported /\ Current /\ Watching
      /\ core.generation \in Nat /\ core \in Cores /\ posts \in Seq(Posts) /\ frames \in Seq(Tasks)
  BY Numbers DEF NInv, TypeOK
<1>2. /\ core' = Gone(core) \/ core' = Blame(Gone(core))
      /\ phase' = phase /\ sup' = sup /\ dsQ' = dsQ
  BY DEF NotRunning, Blamed, dsFrame
<1>3. core'.generation = core.generation /\ core'.os = "none"
  <2>1. Gone(core).generation = core.generation /\ Gone(core).os = "none"
    BY <1>1 DEF Gone, Cores
  <2>2. Gone(core) \in Cores
    BY <1>1, CoreTypes
  <2> QED
    BY <1>2, <2>1, <2>2, Marks
<1>4. prepareExit' = prepareExit
  BY <1>2 DEF prepareExit
<1>5. /\ Sorted(posts') /\ Items(posts) \subseteq Items(posts')
      /\ \A r \in Items(posts') :
           r \in Items(posts) \/ (r.kind = "exit" /\ r.gen <= core.generation)
      /\ Items(frames) \subseteq Items(frames')
      /\ \A u \in Items(frames') : u \in Items(frames) \/ u.gen <= core.generation
      /\ \/ t \in Items(frames')
         \/ \E r \in Items(posts') : r.kind = "exit" /\ r.gen = core.generation
  <2>1. CASE frames' = Append(frames, t) /\ posts' = posts
    <3>1. Items(frames') = Items(frames) \cup {t}
      BY <1>1, <2>1, ItemsAppend
    <3> QED
      BY <1>1, <2>1, <3>1 DEF Ordered
  <2>2. CASE posts' = posts \o Reports(t) /\ frames' = frames
    <3>1. \A r \in Items(posts) : r.gen <= core.generation
      BY <1>1 DEF Bounded
    <3>2. /\ Sorted(posts') /\ Items(posts) \subseteq Items(posts')
          /\ \A r \in Items(posts') :
               r \in Items(posts) \/ (r.kind = "exit" /\ r.gen <= core.generation)
          /\ t.op # "exit" \/ t.gen = core.generation =>
               \E r \in Items(posts') : r.kind = "exit" /\ r.gen = core.generation
      BY <1>1, <2>2, <3>1, ReportItems DEF Ordered
    <3> QED
      BY <2>2, <3>2
  <2> QED
    BY <2>1, <2>2 DEF NotRunning
<1>6. /\ \A u \in Todo' : u \in Todo \/ u.gen <= core.generation
      /\ \A v \in Todo : v \in Todo'
  BY <1>2, <1>5 DEF Todo
<1>7. Bounded'
  BY <1>1, <1>2, <1>3, <1>5, <1>6 DEF Bounded
<1>8. Members' /\ Ordered'
  BY <1>1, <1>2, <1>4, <1>5 DEF Members, Ordered
<1>9. core.generation # 0
  BY <1>1 DEF Bounded
<1>10. Booted'
  BY <1>1, <1>2, <1>3, <1>9 DEF Booted
<1>11. Reported'
  BY <1>3, <1>5 DEF Reported
<1>12. Current' /\ Watching'
  BY <1>1, <1>2, <1>3, <1>4, <1>6 DEF Current, Watching, Renews
<1> QED
  BY <1>7, <1>8, <1>10, <1>11, <1>12 DEF NInv

\* DS_cores.
LEMMA DsMoves ==
  ASSUME TypeOK, TypeOK', NInv, DsCores \/ ExecFails
  PROVE  NInv'
<1>1. /\ Bounded /\ Booted /\ Members /\ Ordered /\ Reported /\ Current /\ Watching
      /\ core.generation \in Nat /\ core \in Cores /\ posts \in Seq(Posts)
      /\ frames \in Seq(Tasks) /\ dsQ \in Seq(Tasks)
      /\ \A r \in Items(posts) : r.gen \in Nat
  BY Numbers DEF NInv, TypeOK
<1>2. ASSUME dsQ # <<>> \/ frames # <<>>
      PROVE  phase \notin {"boot", "listened"}
  <2>1. phase \in {"boot", "listened"} => ~prepareExit
    BY DEF prepareExit
  <2> QED
    BY <1>1, <1>2, <2>1 DEF Booted
<1>3. CASE TakeTask
  <2> DEFINE t == Head(dsQ)
  <2>1. /\ dsQ # <<>> /\ dsQ' = Tail(dsQ) /\ sup' = sup
        /\ \/ Dropped(t) /\ UNCHANGED <<phase, core, frames, posts>>
           \/ /\ ~Dropped(t) /\ MustWait(t) /\ frames' = Append(frames, t)
              /\ UNCHANGED <<phase, core, posts>>
           \/ ~Dropped(t) /\ ~MustWait(t) /\ Perform(t) /\ frames' = frames
    BY <1>3 DEF TakeTask, Run, dsFrame
  <2>2. t \in Tasks /\ t = dsQ[1] /\ Items(dsQ) = {t} \cup Items(dsQ')
    BY <1>1, <2>1, ItemsTail
  <2>3. phase \notin {"boot", "listened"}
    BY <1>2, <2>1
  <2>4. prepareExit \/ core.generation # 0 \/ (t.op = "start" /\ t.before = "none")
    BY <1>1, <2>1, <2>2 DEF Booted
  <2> HIDE DEF t
  <2>5. CASE Dropped(t) /\ UNCHANGED <<phase, core, frames, posts>>
    <3>1. prepareExit
      BY <2>4, <2>5 DEF Dropped
    <3>2. \A u \in Todo' : \E v \in Todo : As(u, v)
      BY <2>2, <2>5 DEF Todo, As
    <3> QED
      BY <1>1, <2>1, <2>5, <3>1, <3>2, Moved DEF Ordered
  <2>6. CASE /\ ~Dropped(t) /\ MustWait(t) /\ frames' = Append(frames, t)
             /\ UNCHANGED <<phase, core, posts>>
    <3>1. prepareExit \/ core.generation # 0
      BY <2>4, <2>6 DEF MustWait
    <3>2. Items(frames') = Items(frames) \cup {t}
      BY <1>1, <2>2, <2>6, ItemsAppend
    <3>3. /\ \A u \in Todo' : \E v \in Todo : As(u, v)
          /\ \A v \in Items(dsQ) : \E u \in Todo' : As(u, v)
          /\ \A v \in Items(frames) : \E u \in Items(frames') : As(u, v)
      BY <2>2, <3>2 DEF Todo, As
    <3> QED
      BY <1>1, <2>1, <2>6, <3>1, <3>3, Moved DEF Ordered
  <2>7. CASE ~Dropped(t) /\ ~MustWait(t) /\ Perform(t) /\ frames' = frames
    <3>1. /\ t \in Todo
          /\ \A u \in Todo' : u \in Todo
          /\ \A v \in Items(dsQ) : v = t \/ v \in Todo'
          /\ \A v \in Items(frames) : v = t \/ v \in Items(frames')
      BY <2>2, <2>7 DEF Todo
    <3> QED
      BY <2>1, <2>3, <2>4, <2>7, <3>1, Performed
  <2> QED
    BY <2>1, <2>5, <2>6, <2>7
<1>4. CASE StopWorker
  <2>1. /\ frames # <<>> /\ UNCHANGED <<sup, phase, core, dsQ, posts>>
        /\ frames' = [frames EXCEPT ![Len(frames)] = [frames[Len(frames)] EXCEPT !.stopped = TRUE]]
    BY <1>4 DEF StopWorker
  <2>2. /\ DOMAIN frames' = DOMAIN frames
        /\ \A i \in DOMAIN frames : frames[i] \in Tasks /\ As(frames'[i], frames[i])
    <3>1. DOMAIN frames' = DOMAIN frames /\ \A i \in DOMAIN frames : frames[i] \in Tasks
      BY <1>1, <2>1, ElementOfSeq, LenProperties
    <3>2. ASSUME NEW i \in DOMAIN frames PROVE As(frames'[i], frames[i])
      <4>1. CASE i = Len(frames)
        BY <2>1, <3>1, <4>1 DEF As, Tasks
      <4>2. CASE i # Len(frames)
        BY <2>1, <4>2 DEF As
      <4> QED
        BY <4>1, <4>2
    <3> QED
      BY <3>1, <3>2
  <2>3. /\ \A u \in Items(frames') : \E v \in Items(frames) : As(u, v)
        /\ \A v \in Items(frames) : \E u \in Items(frames') : As(u, v)
    BY <2>2 DEF Items
  <2>4. /\ \A u \in Todo' : \E v \in Todo : As(u, v)
        /\ \A v \in Items(dsQ) : \E u \in Todo' : As(u, v)
    BY <2>1, <2>3 DEF Todo, As
  <2>5. prepareExit \/ core.generation # 0
    BY <1>1, <2>1 DEF Booted
  <2> QED
    BY <1>1, <2>1, <2>3, <2>4, <2>5, Moved DEF Ordered
<1>5. CASE ResumeFrame
  <2> DEFINE t == frames[Len(frames)]
  <2>1. /\ frames # <<>> /\ Perform(t) /\ frames' = SubSeq(frames, 1, Len(frames) - 1)
        /\ sup' = sup /\ dsQ' = dsQ
    BY <1>5 DEF ResumeFrame, dsFrame
  <2>2. Items(frames) = {t} \cup Items(frames')
    BY <1>1, <2>1, ItemsFront
  <2>3. phase \notin {"boot", "listened"} /\ (prepareExit \/ core.generation # 0)
    BY <1>1, <1>2, <2>1 DEF Booted
  <2> HIDE DEF t
  <2>4. /\ t \in Todo
        /\ \A u \in Todo' : u \in Todo
        /\ \A v \in Items(dsQ) : v = t \/ v \in Todo'
        /\ \A v \in Items(frames) : v = t \/ v \in Items(frames')
    BY <2>1, <2>2 DEF Todo
  <2> QED
    BY <2>1, <2>3, <2>4, Performed
<1>6. CASE CoreSpawned
  <2> DEFINE r == Post("spawned", core.generation, FALSE, FALSE)
  <2>1. /\ core.os = "starting" /\ core' = [core EXCEPT !.os = "up"] /\ posts' = Append(posts, r)
        /\ UNCHANGED <<phase, sup, dsQ, frames>>
    BY <1>6 DEF CoreSpawned, SpawnReport, dsFrame
  <2>2. r \in Posts /\ r.kind = "spawned" /\ r.gen = core.generation
    <3>1. r \in Posts
      BY <1>1, PostType
    <3> QED
      BY <3>1 DEF Post
  <2>3. core'.os = "up" /\ core'.generation = core.generation /\ core'.dying = core.dying
    BY <1>1, <2>1 DEF Cores
  <2> HIDE DEF r
  <2>4. Items(posts') = Items(posts) \cup {r} /\ Sorted(posts')
    BY <1>1, <2>1, <2>2, ItemsAppend, SortedAppend DEF Ordered, Bounded
  <2>5. prepareExit' = prepareExit /\ Todo' = Todo
    BY <2>1 DEF prepareExit, Todo
  <2>6. Bounded' /\ Members'
    BY <1>1, <2>1, <2>2, <2>3, <2>4, <2>5 DEF Bounded, Members
  <2>7. Ordered'
    BY <1>1, <2>1, <2>2, <2>4 DEF Ordered, Bounded
  <2>8. Booted'
    BY <1>1, <2>1, <2>3, <2>5 DEF Booted
  <2>9. Reported' /\ Current'
    BY <1>1, <2>1, <2>3, <2>5 DEF Reported, Current, Renews
  <2>10. Watching'
    BY <1>1, <2>1, <2>2, <2>3, <2>4, <2>5 DEF Watching, Renews, Kills
  <2> QED
    BY <2>6, <2>7, <2>8, <2>9, <2>10 DEF NInv
<1>7. CASE ExecFails
  <2> DEFINE t == Task("execFailed", IF prepareExit \/ ~HasPrivilegeProbe THEN "none" ELSE "stop",
                      0, FALSE)
  <2>1. core.os # "none" /\ NotRunning(t)
    BY <1>7 DEF ExecFails
  <2>2. t \in Tasks /\ t.op = "execFailed" /\ t.gen = 0
    BY TaskType DEF Task
  <2> HIDE DEF t
  <2> QED
    BY <1>1, <2>1, <2>2, Ended
<1>8. CASE CoreExits
  <2>1. CASE prepareExit /\ core' = Gone(core) /\ UNCHANGED <<phase, sup, posts, dsQ, frames>>
    <3>1. core'.generation = core.generation /\ core'.os = "none"
      BY <1>1, <2>1 DEF Gone, Cores
    <3>2. prepareExit' /\ Todo' = Todo
      BY <2>1 DEF prepareExit, Todo
    <3>3. Bounded' /\ Members' /\ Ordered'
      BY <1>1, <2>1, <3>1, <3>2 DEF Bounded, Members, Ordered
    <3>4. Booted' /\ Reported' /\ Current' /\ Watching'
      BY <1>1, <2>1, <3>1, <3>2 DEF Booted, Reported, Current, Watching
    <3> QED
      BY <3>3, <3>4 DEF NInv
  <2>2. CASE NotRunning(Task("exit", "stop", core.generation, core.identityExit))
    <3> DEFINE t == Task("exit", "stop", core.generation, core.identityExit)
    <3>1. core.os # "none"
      BY <1>8 DEF CoreExits
    <3>2. core.identityExit \in BOOLEAN
      BY <1>1 DEF Cores
    <3>3. t \in Tasks
      BY <1>1, <3>2, TaskType
    <3>4. t.op = "exit" /\ t.gen = core.generation
      BY DEF Task
    <3>5. NotRunning(t)
      BY <2>2
    <3> HIDE DEF t
    <3> QED
      BY <1>1, <3>1, <3>3, <3>4, <3>5, Ended
  <2> QED
    BY <1>8, <2>1, <2>2 DEF CoreExits, dsFrame
<1> QED
  BY <1>3, <1>4, <1>5, <1>6, <1>7, <1>8 DEF DsCores

\* The core process, which the supervisor does not see, and a step that changes nothing.
LEMMA CoreMoves ==
  ASSUME TypeOK, TypeOK', NInv, Dial \/ CoreDies \/ CoreIsSlow \/ UNCHANGED vars
  PROVE  NInv'
<1>1. UNCHANGED <<phase, sup, dsQ, frames, posts>>
  BY DEF Dial, CoreDies, CoreIsSlow, coreFrame, vars, procVars
<1>2. /\ core'.generation = core.generation /\ core'.os = core.os /\ (core.dying => core'.dying)
  <2>1. core \in Cores
    BY DEF TypeOK
  <2>2. \/ core' = core
        \/ core' = [core EXCEPT !.dialed = TRUE]
        \/ core' = Blame([core EXCEPT !.slow = TRUE])
        \/ \E b \in BOOLEAN : core' = Blame([core EXCEPT !.dying = TRUE, !.identityExit = b])
    BY DEF Dial, CoreDies, CoreIsSlow, vars, procVars
  <2>3. ASSUME NEW c \in Cores, c.generation = core.generation, c.os = core.os,
               core.dying => c.dying, core' = Blame(c)
        PROVE  /\ core'.generation = core.generation /\ core'.os = core.os
               /\ core.dying => core'.dying
    BY <2>3, Marks
  <2>4. CASE core' = Blame([core EXCEPT !.slow = TRUE])
    <3> DEFINE c == [core EXCEPT !.slow = TRUE]
    <3>1. /\ c \in Cores /\ c.generation = core.generation /\ c.os = core.os
          /\ core.dying => c.dying
      BY <2>1 DEF Cores
    <3> QED
      BY <2>3, <2>4, <3>1
  <2>5. ASSUME NEW b \in BOOLEAN, core' = Blame([core EXCEPT !.dying = TRUE, !.identityExit = b])
        PROVE  /\ core'.generation = core.generation /\ core'.os = core.os
               /\ core.dying => core'.dying
    <3> DEFINE c == [core EXCEPT !.dying = TRUE, !.identityExit = b]
    <3>1. /\ c \in Cores /\ c.generation = core.generation /\ c.os = core.os
          /\ core.dying => c.dying
      BY <2>1 DEF Cores
    <3> QED
      BY <2>3, <2>5, <3>1
  <2> QED
    BY <2>1, <2>2, <2>4, <2>5 DEF Cores
<1> QED
  BY <1>1, <1>2, Kept

\* Every step keeps the invariant.
LEMMA NextMoves ==
  ASSUME TypeOK, TypeOK', NInv, [Next]_vars
  PROVE  NInv'
<1>1. CASE Next
  BY <1>1, RequestMoves, WorkerMoves, TimerMoves, AcceptMoves, ReportMoves, DsMoves, CoreMoves
     DEF Next, Main
<1> QED
  BY <1>1, CoreMoves

\* It holds before EngineHost::init.
LEMMA InitMoves ==
  ASSUME Init
  PROVE  NInv
<1>1. /\ Items(dsQ) = {} /\ Items(frames) = {} /\ Items(posts) = {} /\ DOMAIN posts = {}
  BY DEF Init, Items
<1>2. Todo = {}
  BY <1>1 DEF Todo
<1>3. /\ sup.state = "NotStarted" /\ sup.handledExitGen = 0 /\ sup.accepting = 0
      /\ sup.acceptedGen = 0 /\ sup.connectGen = 0 /\ sup.connectTimer = FALSE
      /\ core.generation = 0 /\ core.os = "none" /\ phase = "boot"
      /\ dsQ = <<>> /\ frames = <<>>
  BY DEF Init
<1>4. Bounded
  BY <1>1, <1>2, <1>3 DEF Bounded
<1>5. Booted /\ Members
  BY <1>3 DEF Booted, Members
<1>6. Ordered
  BY <1>1 DEF Ordered, Sorted
<1>7. Reported /\ Current /\ Watching
  BY <1>3 DEF Reported, Current, Watching
<1> QED
  BY <1>4, <1>5, <1>6, <1>7 DEF NInv

\* What the invariant is for.
LEMMA MovesSuffice ==
  ASSUME TypeOK, NInv
  PROVE  NotStranded
<1>1. /\ Bounded /\ Booted /\ Members /\ Reported /\ Current /\ Watching
      /\ core.generation \in Nat /\ sup.handledExitGen \in Nat
  BY Numbers DEF NInv
<1>2. core.os \in {"none", "starting", "up"}
  BY DEF TypeOK, Cores
<1> SUFFICES ASSUME ~exiting
             PROVE  /\ sup.state = "Starting" => UnderWay
                    /\ sup.state = "Backoff" => sup.restartTimer
                    /\ sup.state = "Connected" => CoreOrNews
  BY DEF NotStranded
<1>3. ~prepareExit
  BY DEF exiting
<1>4. ASSUME dsQ = <<>>, frames = <<>>
      PROVE  Todo = {} /\ Items(frames) = {}
  BY <1>4 DEF Todo, Items
<1>5. ASSUME dsQ = <<>>, frames = <<>>, core.os = "none", sup.state \in {"Starting", "Connected"}
      PROVE  \E i \in DOMAIN posts : posts[i].kind = "exit" /\ posts[i].gen > sup.handledExitGen
  <2>1. core.generation > sup.handledExitGen
    BY <1>1, <1>3, <1>4, <1>5 DEF Current
  <2>2. \E r \in Items(posts) : r.kind = "exit" /\ r.gen = core.generation
    BY <1>1, <1>3, <1>4, <1>5, <2>1 DEF Reported
  <2> QED
    BY <2>1, <2>2 DEF Items
<1>6. ASSUME dsQ = <<>>, frames = <<>>, core.os = "up", ~core.dying, sup.state = "Starting"
      PROVE  \/ sup.connectTimer /\ sup.connectGen = core.generation
             \/ \E i \in DOMAIN posts :
                  /\ posts[i].kind = "spawned" /\ posts[i].gen = core.generation
                  /\ posts[i].gen > sup.acceptedGen
  BY <1>1, <1>3, <1>4, <1>6 DEF Watching, Items
<1>7. sup.state = "Starting" => UnderWay
  BY <1>2, <1>5, <1>6 DEF UnderWay
<1>8. sup.state = "Connected" => CoreOrNews
  BY <1>5 DEF CoreOrNews
<1> QED
  BY <1>1, <1>3, <1>7, <1>8 DEF Members

-----------------------------------------------------------------------------
(* Nothing starts once it was declined.                                    *)

\* No profile waits to be resumed after a give-up, a declined profile or a cancelled resume.
NothingWaits ==
  barred = "declined" =>
    /\ sup.startWhenUp = NoProfile /\ startedId = NoProfile
    /\ phase \notin {"boot", "listened"}

\* A step that only forgets a profile, or resumes the one that ran.
LEMMA NothingNew ==
  ASSUME NothingWaits, barred' = barred,
         sup'.startWhenUp \in {NoProfile, sup.startWhenUp, startedId},
         startedId' \in {NoProfile, startedId},
         phase' = phase \/ phase' \notin {"boot", "listened"}
  PROVE  NothingWaits'
BY DEF NothingWaits

\* A posted restart leaves the profile that waits as it was prepared.
LEMMA RestartWaits ==
  ASSUME TypeOK, NEW s \in Supervisors, NEW before, postProcessRestart(s, before)
  PROVE  sup'.startWhenUp = s.startWhenUp
BY DEF postProcessRestart, Supervisors

\* The helpers of the supervisor leave the profile that waits alone, or set it.
LEMMA WaitsSet ==
  ASSUME NEW s \in Supervisors, NEW p \in MaybeProfile
  PROVE  /\ beginRestart(s).startWhenUp = s.startWhenUp
         /\ [beginRestart(s) EXCEPT !.startWhenUp = p].startWhenUp = p
         /\ [beginRestart(s) EXCEPT !.startWhenUp = p] \in Supervisors
         /\ scheduleRestart(s).startWhenUp = s.startWhenUp
         /\ cancelResume(s).startWhenUp = NoProfile
<1>1. beginRestart(s) \in Supervisors /\ [beginRestart(s) EXCEPT !.startWhenUp = p] \in Supervisors
  BY SupervisorTypes
<1>2. [beginRestart(s) EXCEPT !.startWhenUp = p].startWhenUp = p
  BY <1>1 DEF Supervisors
<1>3. beginRestart(s).startWhenUp = s.startWhenUp
  BY DEF beginRestart, Supervisors
<1>4. scheduleRestart(s).startWhenUp = s.startWhenUp /\ cancelResume(s).startWhenUp = NoProfile
  BY DEF scheduleRestart, cancelResume, Supervisors
<1> QED
  BY <1>1, <1>2, <1>3, <1>4

\* Boot and requests.
LEMMA RequestWaits ==
  ASSUME TypeOK, NothingWaits, Boot \/ Requests
  PROVE  NothingWaits'
<1>1. sup \in Supervisors /\ NoProfile \in MaybeProfile /\ startedId \in MaybeProfile
  BY DEF TypeOK, MaybeProfile
<1>2. CASE Boot
  <2>1. barred # "declined" /\ barred' = barred
    BY <1>2 DEF Boot, Listen, Start, NothingWaits, bookVars
  <2> QED
    BY <2>1 DEF NothingWaits
<1>3. CASE ResetCore
  <2>1. sup'.startWhenUp \in {NoProfile, sup.startWhenUp}
    <3>1. CASE postProcessRestart([beginRestart(sup) EXCEPT !.startWhenUp = NoProfile], "manualStop")
      BY <1>1, <3>1, RestartWaits, WaitsSet
    <3>2. CASE sup' = beginRestart(sup)
      BY <1>1, <3>2, WaitsSet
    <3> QED
      BY <1>3, <3>1, <3>2 DEF ResetCore
  <2> QED
    BY <1>3, <2>1, NothingNew DEF ResetCore
<1>4. CASE KillForPrivilegeChange \/ SetKillSwitch \/ BeginExit \/ KillForExit
  <2>1. sup'.startWhenUp = sup.startWhenUp
    BY <1>1, <1>4 DEF KillForPrivilegeChange, SetKillSwitch, BeginExit, KillForExit,
                      stopSupervising, Supervisors
  <2>2. startedId' = startedId /\ barred' = barred
    BY <1>4 DEF KillForPrivilegeChange, SetKillSwitch, BeginExit, KillForExit, exitFrame, profVars
  <2>3. phase' = phase \/ phase' \notin {"boot", "listened"}
    BY <1>4 DEF KillForPrivilegeChange, SetKillSwitch, BeginExit, KillForExit
  <2> QED
    BY <2>1, <2>2, <2>3, NothingNew
<1>5. CASE StopProfile
  <2>1. CASE running = NoProfile
    <3>1. sup'.startWhenUp = NoProfile
      BY <1>1, <1>5, <2>1, WaitsSet DEF StopProfile
    <3> QED
      BY <1>5, <2>1, <3>1 DEF StopProfile, NothingWaits, Request
  <2>2. CASE running # NoProfile
    BY <1>5, <2>2, NothingNew DEF StopProfile
  <2> QED
    BY <2>1, <2>2
<1>6. ASSUME NEW p \in Profiles, StartProfile(p)
      PROVE  NothingWaits'
  BY <1>6 DEF StartProfile, NothingWaits
<1>7. ASSUME NEW p \in MaybeProfile, RestartForGuard(p)
      PROVE  NothingWaits'
  <2>1. CASE p # NoProfile
    BY <1>7, <2>1 DEF RestartForGuard, NothingWaits
  <2>2. CASE p = NoProfile
    <3> DEFINE s == [beginRestart(sup) EXCEPT !.startWhenUp = p, !.guardRestart = TRUE]
    <3>1. beginRestart(sup) \in Supervisors
      BY <1>1, SupervisorTypes
    <3>2. s \in Supervisors /\ s.startWhenUp = p
      BY <3>1 DEF Supervisors
    <3>3. postProcessRestart(s, "stop") /\ barred' = barred /\ startedId' = startedId /\ phase' = phase
      BY <1>7, <2>2 DEF RestartForGuard, profVars
    <3> HIDE DEF s
    <3>4. sup'.startWhenUp = p
      BY <3>2, <3>3, RestartWaits
    <3> QED
      BY <2>2, <3>3, <3>4, NothingNew
  <2> QED
    BY <2>1, <2>2
<1> QED
  BY <1>2, <1>3, <1>4, <1>5, <1>6, <1>7 DEF Requests

\* The main thread's handlers and timers.
LEMMA MainWaits ==
  ASSUME TypeOK, NothingWaits, NInv, Main \/ Timers
  PROVE  NothingWaits'
<1>1. /\ sup \in Supervisors /\ NoProfile \in MaybeProfile /\ startedId \in MaybeProfile
      /\ sup.startWhenUp \in MaybeProfile
  BY DEF TypeOK, MaybeProfile, Supervisors
<1>2. CASE Timers
  <2> DEFINE s == [[sup EXCEPT !.restartTimer = FALSE] EXCEPT !.state = "Starting"]
  <2>2. s \in Supervisors /\ s.startWhenUp = sup.startWhenUp
    BY <1>1 DEF Supervisors, States
  <2>3. \/ postProcessRestart(s, "none")
        \/ sup' = [sup EXCEPT !.restartTimer = FALSE]
        \/ sup' = [sup EXCEPT !.connectTimer = FALSE]
        \/ sup' = [[sup EXCEPT !.connectTimer = FALSE] EXCEPT !.timedOutGen = sup.connectGen]
    BY <1>2 DEF Timers, postRestart, onConnectTimeout
  <2> HIDE DEF s
  <2>4. sup'.startWhenUp = sup.startWhenUp
    <3>1. CASE postProcessRestart(s, "none")
      BY <2>2, <3>1, RestartWaits
    <3>2. CASE ~postProcessRestart(s, "none")
      BY <1>1, <2>3, <3>2 DEF Supervisors
    <3> QED
      BY <3>1, <3>2
  <2> QED
    BY <1>2, <2>4, NothingNew DEF Timers, postRestart, onConnectTimeout, timerFrame, mainFrame
<1>3. CASE \E c \in conns : VerifyConnection(c)
  <2>1. sup'.startWhenUp = sup.startWhenUp
    BY <1>1, <1>3 DEF VerifyConnection, Supervisors
  <2> QED
    BY <1>3, <2>1, NothingNew DEF VerifyConnection, mainFrame
<1>4. CASE Accept
  <2>1. sup'.startWhenUp \in {NoProfile, sup.startWhenUp}
    <3> DEFINE gen == MaxOf(sup.acceptedGen, sup.accepting)
               accepted == [sup EXCEPT !.accepting = 0, !.acceptedGen = gen,
                                       !.connectTimer = FALSE, !.state = "Connected"]
    <3>1. gen \in Nat
      BY <1>1, MaxOfType DEF Supervisors
    <3> HIDE DEF gen
    <3>2. accepted \in Supervisors /\ accepted.startWhenUp = sup.startWhenUp
      BY <1>1, <3>1 DEF Supervisors, States
    <3>3. \/ sup' = [sup EXCEPT !.accepting = 0]
          \/ sup' = [accepted EXCEPT !.probing = TRUE]
          \/ sup' = [accepted EXCEPT !.startFailures = 0, !.startWhenUp = NoProfile,
                                     !.guardRestart = FALSE]
      BY <1>4 DEF Accept, gen
    <3> HIDE DEF accepted
    <3> QED
      BY <1>1, <3>2, <3>3 DEF Supervisors
  <2> QED
    BY <1>4, <2>1, NothingNew DEF Accept, mainFrame
<1>5. CASE \E p \in probes : OnPrivilegeProbed(p)
  <2> DEFINE started == [sup EXCEPT !.probing = FALSE, !.startFailures = 0,
                                    !.startWhenUp = NoProfile, !.guardRestart = FALSE]
             s == [beginRestart(started) EXCEPT !.startWhenUp = sup.startWhenUp]
  <2>1. started \in Supervisors /\ started.startWhenUp = NoProfile
    BY <1>1 DEF Supervisors
  <2>2. sup' = sup \/ sup' = started \/ postProcessRestart(s, "none")
    BY <1>5 DEF OnPrivilegeProbed, emitCoreStarted, restartNotListening
  <2> HIDE DEF started
  <2>3. s \in Supervisors /\ s.startWhenUp = sup.startWhenUp
    BY <1>1, <2>1, WaitsSet
  <2> HIDE DEF s
  <2>4. sup'.startWhenUp \in {NoProfile, sup.startWhenUp}
    BY <2>1, <2>2, <2>3, RestartWaits
  <2> QED
    BY <1>5, <2>4, NothingNew DEF OnPrivilegeProbed, mainFrame
<1>6. CASE onCoreSpawned
  <2>1. sup'.startWhenUp = sup.startWhenUp
    BY <1>1, <1>6 DEF onCoreSpawned, Supervisors
  <2> QED
    BY <1>6, <2>1, NothingNew DEF onCoreSpawned, postFrame, mainFrame
<1>7. CASE restartDeadCore
  <2>1. sup'.startWhenUp \in {startedId, sup.startWhenUp}
    <3>1. CASE postProcessRestart([beginRestart(sup) EXCEPT !.startWhenUp = startedId], "none")
      BY <1>1, <3>1, RestartWaits, WaitsSet
    <3> QED
      BY <1>7, <3>1 DEF restartDeadCore
  <2> QED
    BY <1>7, <2>1, NothingNew DEF restartDeadCore, postFrame, mainFrame
<1>8. CASE onCoreExited
  <2> DEFINE r == Head(posts)
             n == noteExit(r.gen)
  <2>1. phase' = phase /\ posts # <<>>
    BY <1>8 DEF onCoreExited, ExitFrame, Posted
  <2>2. r \in Items(posts) /\ r.gen \in Nat
    <3>1. posts \in Seq(Posts) /\ \A e \in Items(posts) : e.gen \in Nat
      BY Numbers
    <3> QED
      BY <2>1, <3>1, ItemsTail
  <2>3. n \in Supervisors /\ n.startWhenUp = sup.startWhenUp
    <3>1. (sup.probing /\ ~WasProbing(r.gen)) \in BOOLEAN
      OBVIOUS
    <3>2. ASSUME NEW b \in BOOLEAN
          PROVE  /\ [sup EXCEPT !.handledExitGen = r.gen, !.probing = b] \in Supervisors
                 /\ [sup EXCEPT !.handledExitGen = r.gen, !.probing = b].startWhenUp = sup.startWhenUp
      BY <1>1, <2>2 DEF Supervisors
    <3> QED
      BY <3>1, <3>2 DEF noteExit
  <2>4. CASE MootExit(r)
    BY <2>1, <2>3, <2>4, NothingNew DEF MootExit
  <2>5. CASE ~MootExit(r)
    <3>1. phase \notin {"boot", "listened"}
      <4>1. r.gen > sup.handledExitGen
        BY <1>8, <2>5 DEF onCoreExited
      <4>2. core.generation \in Nat /\ sup.handledExitGen \in Nat /\ Bounded /\ Booted
        BY Numbers DEF NInv
      <4>3. core.generation # 0
        BY <2>2, <4>1, <4>2 DEF Bounded
      <4> QED
        BY <4>2, <4>3 DEF Booted
    <3> HIDE DEF n
    <3> DEFINE Like(m, p) == m.startWhenUp = p /\ DOMAIN m = DOMAIN n
    <3>2. ASSUME NEW f, NEW sf, NEW c, NEW p
          PROVE  /\ Like([n EXCEPT !.connectTimer = FALSE, !.failures = f, !.startFailures = sf,
                                   !.crashTimer = c, !.startWhenUp = p], p)
                 /\ Like([n EXCEPT !.connectTimer = FALSE, !.failures = f, !.startFailures = sf,
                                   !.startWhenUp = p], p)
                 /\ Like([n EXCEPT !.connectTimer = FALSE], sup.startWhenUp)
      BY <2>3 DEF Supervisors
    <3>6. ASSUME NEW m, NEW p, Like(m, p),
                 sup' = scheduleRestart(m) \/ sup' = [m EXCEPT !.state = "GaveUp", !.guardRestart = FALSE]
          PROVE  sup'.startWhenUp = p
      BY <2>3, <3>6 DEF scheduleRestart, Supervisors
    <3> HIDE DEF Like
    <3>3. CASE ExpectedExit(r)
      <4> DEFINE p == IF ~WasProbing(r.gen) \/ sup.startWhenUp = NoProfile
                      THEN startedId ELSE sup.startWhenUp
                 m == [n EXCEPT !.connectTimer = FALSE, !.failures = 0, !.startFailures = 0,
                                !.startWhenUp = p]
      <4>1. sup' = scheduleRestart(m)
        BY <3>3 DEF ExpectedExit, n
      <4>2. p \in {startedId, sup.startWhenUp}
        OBVIOUS
      <4> HIDE DEF p
      <4>3. Like(m, p)
        BY <3>2
      <4> HIDE DEF m
      <4>4. sup'.startWhenUp = p
        BY <3>6, <4>1, <4>3
      <4> QED
        BY <2>1, <3>3, <4>2, <4>4, NothingNew DEF ExpectedExit
    <3>4. CASE IdentityExit(r)
      <4>1. sup'.startWhenUp = sup.startWhenUp
        BY <3>2, <3>4, <3>6 DEF IdentityExit, n
      <4> QED
        BY <2>1, <3>4, <4>1, NothingNew DEF IdentityExit
    <3>5. ASSUME NEW stable \in BOOLEAN, NEW soon \in BOOLEAN, FailedExit(r, stable, soon)
          PROVE  NothingWaits'
      <4> DEFINE connected == WasConnected(r)
                 failures == IF connected /\ stable THEN 1 ELSE sup.failures + 1
                 startFailures == IF connected THEN sup.startFailures ELSE sup.startFailures + 1
                 tooFrequent == connected /\ sup.crashTimer /\ soon
                 settled == connected \/ sup.startWhenUp = NoProfile
                 declined == settled /\ tooFrequent /\ startedId # NoProfile
                 resume == IF declined THEN NoProfile
                           ELSE IF settled THEN startedId ELSE sup.startWhenUp
                 giveUp == \/ failures >= GiveUpAfter /\ resume = NoProfile
                           \/ ~connected /\ startFailures >= GiveUpAfter
                 crash == IF connected THEN ~tooFrequent ELSE sup.crashTimer
                 next == IF giveUp THEN NoProfile ELSE resume
                 counted == [n EXCEPT !.connectTimer = FALSE, !.failures = failures,
                               !.startFailures = startFailures, !.crashTimer = crash,
                               !.startWhenUp = next]
      <4>1. /\ sup' = scheduleRestart(counted)
                 \/ sup' = [counted EXCEPT !.state = "GaveUp", !.guardRestart = FALSE]
            /\ startedId' = IF giveUp \/ declined THEN NoProfile ELSE startedId
            /\ barred' = IF giveUp \/ declined THEN "declined" ELSE barred
        BY <3>5 DEF FailedExit, n
      <4>2. next \in {NoProfile, sup.startWhenUp, startedId} /\ (giveUp \/ declined => next = NoProfile)
        OBVIOUS
      <4> HIDE DEF failures, startFailures, crash, next, giveUp, declined
      <4>6. Like(counted, next)
        BY <3>2
      <4> HIDE DEF counted
      <4>3. sup'.startWhenUp = next
        BY <3>6, <4>1, <4>6
      <4>4. CASE giveUp \/ declined
        BY <2>1, <3>1, <4>1, <4>2, <4>3, <4>4 DEF NothingWaits
      <4>5. CASE ~(giveUp \/ declined)
        BY <2>1, <4>1, <4>2, <4>3, <4>5, NothingNew
      <4> QED
        BY <4>4, <4>5
    <3> QED
      BY <1>8, <2>5, <3>3, <3>4, <3>5 DEF onCoreExited
  <2> QED
    BY <2>4, <2>5
<1> QED
  BY <1>2, <1>3, <1>4, <1>5, <1>6, <1>7, <1>8 DEF Main

\* Every other step forgets at most the profile that ran.
LEMMA NextWaits ==
  ASSUME TypeOK, NInv, NothingWaits, [Next]_vars
  PROVE  NothingWaits'
<1>1. CASE StartWorker
  <2>1. CASE barred' = "no"
    BY <2>1 DEF NothingWaits
  <2>2. CASE barred' # "no"
    BY <1>1, <2>2, NothingNew DEF StartWorker, workFrame
  <2> QED
    BY <2>1, <2>2
<1>2. CASE StopDone
  <2>1. CASE barred' = "stopped"
    BY <2>1 DEF NothingWaits
  <2>2. CASE barred' # "stopped"
    BY <1>2, <2>2, NothingNew DEF StopDone, workFrame
  <2> QED
    BY <2>1, <2>2
<1>3. CASE SwitchStop
  BY <1>3, NothingNew DEF SwitchStop, workFrame
<1>4. CASE \E p \in probes : ProbeReply(p)
  BY <1>4, NothingNew DEF ProbeReply, mainFrame
<1>5. CASE Exit
  <2>1. sup'.startWhenUp = sup.startWhenUp
    BY <1>5 DEF Exit, ExitStopDone, Shutdown, stopSupervising, TypeOK, Supervisors
  <2> QED
    BY <1>5, <2>1, NothingNew DEF Exit, ExitStopDone, Shutdown, exitFrame
<1>6. CASE DsCores \/ ExecFails
  <2>1. ASSUME NEW t, Perform(t)
        PROVE  /\ startedId' \in {NoProfile, startedId} /\ barred' = barred
               /\ phase' = phase \/ phase' = "done"
    BY <2>1 DEF Perform, DoStart, DoRestart, DoReset, DoKill, DoTimeoutKill, DoKillForExit,
                DoShutdown,
                DoPostExit
  <2>2. CASE TakeTask
    <3>1. /\ sup' = sup
          /\ \/ Perform(Head(dsQ))
             \/ UNCHANGED <<phase, startedId, barred>>
      BY <2>2 DEF TakeTask, Run, dsFrame
    <3> QED
      BY <2>1, <3>1, NothingNew
  <2>3. CASE ResumeFrame
    <3>1. sup' = sup /\ Perform(frames[Len(frames)])
      BY <2>3 DEF ResumeFrame, dsFrame
    <3> QED
      BY <2>1, <3>1, NothingNew
  <2>4. CASE StopWorker
    BY <2>4, NothingNew DEF StopWorker, bookVars
  <2>5. CASE CoreSpawned \/ CoreExits \/ ExecFails
    <3>1. UNCHANGED <<sup, startedId, barred, phase>>
      BY <2>5 DEF CoreSpawned, CoreExits, ExecFails, NotRunning, dsFrame
    <3> QED
      BY <3>1, NothingNew
  <2> QED
    BY <1>6, <2>2, <2>3, <2>4, <2>5 DEF DsCores
<1>7. CASE Dial \/ CoreDies \/ CoreIsSlow \/ UNCHANGED vars
  <2>1. UNCHANGED <<sup, startedId, barred, phase>>
    BY <1>7 DEF Dial, CoreDies, CoreIsSlow, coreFrame, profVars, vars, bookVars
  <2> QED
    BY <2>1, NothingNew
<1> QED
  BY <1>1, <1>2, <1>3, <1>4, <1>5, <1>6, <1>7, RequestWaits, MainWaits DEF Next, Workers

\* A profile starts only when somebody asks for it, or when it waited.
LEMMA StartsAsked ==
  ASSUME TypeOK, NothingWaits, [Next]_vars, starting' # starting, starting' # NoProfile
  PROVE  barred' # "declined"
<1>1. CASE Boot \/ Requests
  <2>1. PICK p \in Profiles : StartProfile(p)
    BY <1>1 DEF Boot, Requests, Listen, Start, ResetCore, KillForPrivilegeChange, StopProfile,
                SetKillSwitch, BeginExit, KillForExit, RestartForGuard, profVars, exitFrame
  <2> QED
    BY <2>1 DEF StartProfile
<1>2. CASE Accept
  BY <1>2 DEF Accept, NothingWaits
<1>3. CASE \E p \in probes : OnPrivilegeProbed(p)
  BY <1>3 DEF OnPrivilegeProbed, emitCoreStarted, NothingWaits
<1>4. CASE Workers \/ Exit \/ Timers
  BY <1>4 DEF Workers, Exit, Timers, StartWorker, SwitchStop, StopDone, ProbeReply, ExitStopDone,
              Shutdown, postRestart, onConnectTimeout, exitFrame, timerFrame
<1>5. CASE \/ \E c \in conns : VerifyConnection(c)
           \/ onCoreSpawned \/ restartDeadCore \/ onCoreExited
  BY <1>5 DEF VerifyConnection, onCoreSpawned, restartDeadCore, onCoreExited, postFrame, ExitFrame
<1>6. CASE DsCores \/ ExecFails
  BY <1>6 DEF DsCores, TakeTask, StopWorker, ResumeFrame, CoreSpawned, CoreExits, ExecFails,
              NotRunning, dsFrame
<1>7. CASE Dial \/ CoreDies \/ CoreIsSlow \/ UNCHANGED vars
  BY <1>7 DEF Dial, CoreDies, CoreIsSlow, coreFrame, profVars, vars
<1> QED
  BY <1>1, <1>2, <1>3, <1>4, <1>5, <1>6, <1>7 DEF Next, Main

-----------------------------------------------------------------------------
(* Only faults count towards giving up.                                    *)

\* The end of generation g was handled, has a fault to blame, or was caused on purpose.
Accounted(g) ==
  \/ g \in core.failed \cup core.unmarked \/ g = core.expectedExitGen
  \/ g <= sup.handledExitGen

\* Every end that is reported, waits to be reported, or is about to happen is accounted
\* for: a core that is slow may be killed by the connect timer.
Accounts ==
  ~prepareExit =>
    /\ \A r \in Items(posts) : r.kind = "exit" => Accounted(r.gen)
    /\ \A t \in Todo : t.op = "exit" => Accounted(t.gen)
    /\ \A t \in Todo : t.op = "timeoutKill" /\ t.gen = core.generation /\ core.os # "none" =>
                         Accounted(t.gen)
    /\ \A t \in Todo : t.op # "killForExit"
    /\ core.os # "none" /\ (core.dying \/ core.slow) => Accounted(core.generation)

\* No counter rises, and what was handled stays handled.
Calm ==
  /\ sup'.failures <= sup.failures /\ sup'.startFailures <= sup.startFailures
  /\ sup'.handledExitGen >= sup.handledExitGen

\* The main thread queues t: no end of a core comes of it, or one that is accounted for.
Harmless(t) ==
  \/ t.op \in {"start", "restart", "reset", "kill", "shutdown"}
  \/ t.op = "timeoutKill" /\ (Alive => core.slow)

\* A step of the main thread or of a worker: it leaves the core and the frames alone.
Steady ==
  /\ core' = core /\ frames' = frames /\ (prepareExit => prepareExit')
  /\ \A r \in Items(posts') : r \in Items(posts) \/ r.kind # "exit"
  /\ dsQ' = dsQ \/ prepareExit' \/ \E t \in Tasks : dsQ' = Append(dsQ, t) /\ Harmless(t)

\* Such a step keeps every end accounted for.
LEMMA StillAccounted ==
  ASSUME TypeOK, TypeOK', Accounts, Steady, sup'.handledExitGen >= sup.handledExitGen
  PROVE  Accounts'
<1>1. /\ sup.handledExitGen \in Nat /\ sup'.handledExitGen \in Nat /\ core.generation \in Nat
      /\ \A t \in Todo : t.gen \in Nat
      /\ \A r \in Items(posts) : r.gen \in Nat
  <2>1. sup'.handledExitGen \in Nat
    BY DEF TypeOK, Supervisors
  <2> QED
    BY <2>1, Numbers
<1> SUFFICES ASSUME ~prepareExit' PROVE Accounts'
  BY DEF Accounts
<1>2. ~prepareExit /\ core' = core
  BY DEF Steady
<1>3. ASSUME NEW g \in Nat, Accounted(g) PROVE Accounted(g)'
  BY <1>1, <1>2, <1>3 DEF Accounted
<1>4. ASSUME NEW u \in Todo', u \notin Todo PROVE Harmless(u)
  <2>1. PICK t \in Tasks : dsQ' = Append(dsQ, t) /\ Harmless(t)
    BY <1>4 DEF Steady, Todo
  <2>2. Items(dsQ') = Items(dsQ) \cup {t}
    BY <2>1, TaskAppended
  <2> QED
    BY <1>4, <2>1, <2>2 DEF Steady, Todo
<1>5. \A r \in Items(posts') : r.kind = "exit" => Accounted(r.gen)'
  BY <1>1, <1>2, <1>3 DEF Steady, Accounts
<1>6. \A u \in Todo' : (u.op = "exit" => Accounted(u.gen)') /\ u.op # "killForExit"
  BY <1>1, <1>2, <1>3, <1>4 DEF Accounts, Harmless
<1>7. core.os # "none" /\ (core.dying \/ core.slow) => Accounted(core.generation)'
  BY <1>1, <1>2, <1>3 DEF Accounts
<1>8. \A u \in Todo' : u.op = "timeoutKill" /\ u.gen = core.generation /\ core.os # "none" =>
                         Accounted(u.gen)'
  BY <1>1, <1>2, <1>3, <1>4, <1>7 DEF Accounts, Harmless, Alive
<1> QED
  BY <1>2, <1>5, <1>6, <1>7, <1>8 DEF Accounts

\* The helpers of the supervisor reset its counters or leave them alone.
LEMMA CountersSet ==
  ASSUME TypeOK, NEW p \in MaybeProfile
  PROVE  /\ \A s \in {beginRestart(sup), [beginRestart(sup) EXCEPT !.startWhenUp = p],
                      [beginRestart(sup) EXCEPT !.startWhenUp = p, !.guardRestart = TRUE]} :
              /\ s \in Supervisors /\ s.failures <= sup.failures
              /\ s.startFailures <= sup.startFailures /\ s.handledExitGen = sup.handledExitGen
         /\ cancelResume(sup).failures = sup.failures
         /\ cancelResume(sup).startFailures = sup.startFailures
         /\ cancelResume(sup).handledExitGen = sup.handledExitGen
<1> DEFINE b == beginRestart(sup)
<1>1. sup \in Supervisors /\ sup.failures \in Nat /\ sup.startFailures \in Nat
  BY DEF TypeOK, Supervisors
<1>2. /\ b \in Supervisors /\ b.failures = 0 /\ b.startFailures = 0
      /\ b.handledExitGen = sup.handledExitGen
  BY <1>1, SupervisorTypes DEF beginRestart, Supervisors
<1>3. /\ cancelResume(sup).failures = sup.failures
      /\ cancelResume(sup).startFailures = sup.startFailures
      /\ cancelResume(sup).handledExitGen = sup.handledExitGen
  BY <1>1 DEF cancelResume, Supervisors
<1> HIDE DEF b
<1>4. ASSUME NEW s \in {b, [b EXCEPT !.startWhenUp = p],
                        [b EXCEPT !.startWhenUp = p, !.guardRestart = TRUE]}
      PROVE  /\ s \in Supervisors /\ s.failures = 0 /\ s.startFailures = 0
             /\ s.handledExitGen = sup.handledExitGen
  <2>1. CASE s = b
    BY <1>2, <2>1
  <2>2. CASE s = [b EXCEPT !.startWhenUp = p]
    BY <1>2, <2>2 DEF Supervisors
  <2>3. CASE s = [b EXCEPT !.startWhenUp = p, !.guardRestart = TRUE]
    BY <1>2, <2>3 DEF Supervisors
  <2> QED
    BY <2>1, <2>2, <2>3
<1>5. 0 <= sup.failures /\ 0 <= sup.startFailures
  BY <1>1
<1>6. ASSUME NEW s \in {b, [b EXCEPT !.startWhenUp = p],
                        [b EXCEPT !.startWhenUp = p, !.guardRestart = TRUE]}
      PROVE  /\ s \in Supervisors /\ s.failures <= sup.failures
             /\ s.startFailures <= sup.startFailures /\ s.handledExitGen = sup.handledExitGen
  <2>1. /\ s \in Supervisors /\ s.failures = 0 /\ s.startFailures = 0
        /\ s.handledExitGen = sup.handledExitGen
    BY <1>4
  <2> QED
    BY <1>5, <2>1
<1> QED
  BY <1>3, <1>6 DEF b

\* A step that resets a counter or leaves it alone, and handles no exit.
LEMMA SameCounters ==
  ASSUME TypeOK, sup'.failures = sup.failures, sup'.startFailures \in {0, sup.startFailures},
         sup'.handledExitGen = sup.handledExitGen
  PROVE  Calm
<1>1. sup.failures \in Nat /\ sup.startFailures \in Nat /\ sup.handledExitGen \in Nat
  BY DEF TypeOK, Supervisors
<1> QED
  BY <1>1 DEF Calm

\* A posted restart is calm and queues one task.
LEMMA RestartCalm ==
  ASSUME TypeOK, NEW s \in Supervisors, NEW before \in {"none", "stop", "manualStop"},
         postProcessRestart(s, before), s.failures <= sup.failures,
         s.startFailures <= sup.startFailures, s.handledExitGen = sup.handledExitGen
  PROVE  Calm /\ \E t \in Tasks : dsQ' = Append(dsQ, t) /\ Harmless(t)
<1> DEFINE t == Task("restart", before, 0, FALSE)
<1>1. t \in Tasks /\ t.op = "restart"
  BY TaskType DEF Task
<1>2. dsQ' = Append(dsQ, t)
  BY DEF postProcessRestart
<1>3. /\ sup'.failures = s.failures /\ sup'.startFailures = s.startFailures
      /\ sup'.handledExitGen = MaxOf(s.handledExitGen, core.generation)
  BY DEF postProcessRestart, Supervisors
<1>4. MaxOf(s.handledExitGen, core.generation) >= s.handledExitGen
  BY Numbers DEF MaxOf
<1> HIDE DEF t
<1> QED
  BY <1>1, <1>2, <1>3, <1>4 DEF Calm, Harmless

\* Boot and requests.
LEMMA RequestsCalm ==
  ASSUME TypeOK, Boot \/ Requests
  PROVE  Calm /\ Steady
<1>1. /\ sup \in Supervisors /\ sup.failures \in Nat /\ sup.startFailures \in Nat
      /\ sup.handledExitGen \in Nat /\ NoProfile \in MaybeProfile /\ posts \in Seq(Posts)
  BY DEF TypeOK, Supervisors, MaybeProfile
<1>2. core' = core /\ frames' = frames /\ (prepareExit => prepareExit')
  BY DEF Boot, Requests, Listen, Start, ResetCore, KillForPrivilegeChange, StopProfile,
         SetKillSwitch,
         BeginExit, KillForExit, StartProfile, RestartForGuard, procVars, exitFrame, prepareExit
<1>3. ASSUME NEW t \in Tasks, Harmless(t), dsQ' = Append(dsQ, t)
      PROVE  \E u \in Tasks : dsQ' = Append(dsQ, u) /\ Harmless(u)
  BY <1>3
<1>4. ASSUME NEW op \in {"start", "reset", "kill"}, NEW before \in {"none", "manualStop"}
      PROVE  Task(op, before, 0, FALSE) \in Tasks /\ Harmless(Task(op, before, 0, FALSE))
  BY TaskType DEF Task, Harmless
<1>5. sup' = sup => Calm
  BY <1>1 DEF Calm
<1>6. CASE KillForPrivilegeChange
  <2>1. sup' = sup
    BY <1>6 DEF KillForPrivilegeChange
  <2>2. CASE posts' = Append(posts, Post("restartDead", 0, FALSE, FALSE)) /\ dsQ' = dsQ
    <3> DEFINE r == Post("restartDead", 0, FALSE, FALSE)
    <3>1. r \in Posts /\ r.kind # "exit"
      BY PostType DEF Post
    <3>2. posts' = Append(posts, r)
      BY <2>2
    <3> HIDE DEF r
    <3>3. Items(posts') = Items(posts) \cup {r}
      BY <1>1, <3>1, <3>2, ItemsAppend
    <3> QED
      BY <1>2, <1>5, <2>1, <2>2, <3>1, <3>3 DEF Steady
  <2>3. CASE posts' = posts /\ dsQ' = Append(dsQ, Task("kill", "none", 0, FALSE))
    BY <1>2, <1>3, <1>4, <1>5, <2>1, <2>3 DEF Steady
  <2> QED
    BY <1>6, <2>2, <2>3 DEF KillForPrivilegeChange
<1>7. ASSUME ~KillForPrivilegeChange
      PROVE  posts' = posts
  BY <1>7 DEF Boot, Requests, Listen, Start, ResetCore, StopProfile, SetKillSwitch,
              BeginExit, KillForExit, StartProfile, RestartForGuard, exitFrame
<1>8. ASSUME posts' = posts,
             dsQ' = dsQ \/ prepareExit' \/ \E t \in Tasks : dsQ' = Append(dsQ, t) /\ Harmless(t)
      PROVE  Steady
  BY <1>2, <1>8 DEF Steady
<1>9. CASE Listen
  <2>1. posts' = posts /\ dsQ' = dsQ /\ \E s \in States : sup' = [sup EXCEPT !.state = s]
    BY <1>9 DEF Listen, procVars, States
  <2>2. Calm
    <3>1. /\ sup'.failures = sup.failures /\ sup'.startFailures = sup.startFailures
          /\ sup'.handledExitGen = sup.handledExitGen
      BY <1>1, <2>1 DEF Supervisors
    <3> QED
      BY <3>1, SameCounters
  <2> QED
    BY <1>8, <2>1, <2>2
<1>10. ASSUME NEW p \in MaybeProfile, Start(p) PROVE Calm /\ Steady
  <2>1. /\ posts' = posts
        /\ dsQ' = dsQ \/ dsQ' = Append(dsQ, Task("start", "none", 0, FALSE))
        /\ sup' = sup \/ sup' = [sup EXCEPT !.state = "Starting", !.startWhenUp = p]
    BY <1>10 DEF Start
  <2>2. Calm
    <3>1. /\ sup'.failures = sup.failures /\ sup'.startFailures = sup.startFailures
          /\ sup'.handledExitGen = sup.handledExitGen
      BY <1>1, <2>1 DEF Supervisors
    <3> QED
      BY <3>1, SameCounters
  <2> QED
    BY <1>3, <1>4, <1>8, <2>1, <2>2
<1>11. CASE ResetCore
  <2>1. /\ posts' = posts
        /\ \/ postProcessRestart([beginRestart(sup) EXCEPT !.startWhenUp = NoProfile], "manualStop")
           \/ /\ sup' = beginRestart(sup)
              /\ dsQ' = Append(dsQ, Task("reset", "manualStop", 0, FALSE))
    BY <1>11 DEF ResetCore
  <2>2. /\ \A s \in {beginRestart(sup), [beginRestart(sup) EXCEPT !.startWhenUp = NoProfile]} :
              /\ s \in Supervisors /\ s.failures <= sup.failures
              /\ s.startFailures <= sup.startFailures /\ s.handledExitGen = sup.handledExitGen
    <3> DEFINE b == beginRestart(sup)
    <3>1. \A s \in {b, [b EXCEPT !.startWhenUp = NoProfile],
                   [b EXCEPT !.startWhenUp = NoProfile, !.guardRestart = TRUE]} :
            /\ s \in Supervisors /\ s.failures <= sup.failures
            /\ s.startFailures <= sup.startFailures /\ s.handledExitGen = sup.handledExitGen
      BY <1>1, CountersSet
    <3> HIDE DEF b
    <3> QED
      BY <3>1 DEF b
  <2>3. CASE postProcessRestart([beginRestart(sup) EXCEPT !.startWhenUp = NoProfile], "manualStop")
    <3>1. Calm /\ \E t \in Tasks : dsQ' = Append(dsQ, t) /\ Harmless(t)
      BY <2>2, <2>3, RestartCalm
    <3> QED
      BY <1>8, <2>1, <3>1
  <2>4. CASE /\ sup' = beginRestart(sup)
             /\ dsQ' = Append(dsQ, Task("reset", "manualStop", 0, FALSE))
    <3>1. Calm
      BY <1>1, <2>2, <2>4 DEF Calm
    <3> QED
      BY <1>3, <1>4, <1>8, <2>1, <2>4, <3>1
  <2> QED
    BY <2>1, <2>3, <2>4
<1>12. ASSUME NEW p \in Profiles, StartProfile(p) PROVE Calm /\ Steady
  <2>1. p \in MaybeProfile /\ posts' = posts
    BY <1>12 DEF MaybeProfile, StartProfile
  <2>2. CASE sup' \in {sup, [sup EXCEPT !.startWhenUp = p]} /\ dsQ' = dsQ
    <3>1. Calm
      BY <1>1, <2>2 DEF Calm, Supervisors
    <3> QED
      BY <1>8, <2>1, <2>2, <3>1
  <2>3. CASE postProcessRestart([beginRestart(sup) EXCEPT !.startWhenUp = p], "none")
    <3>1. Calm /\ \E t \in Tasks : dsQ' = Append(dsQ, t) /\ Harmless(t)
      BY <2>1, <2>3, CountersSet, RestartCalm
    <3> QED
      BY <1>8, <2>1, <3>1
  <2> QED
    BY <1>12, <2>2, <2>3 DEF StartProfile, restartNotListening
<1>13. ASSUME NEW p \in MaybeProfile, RestartForGuard(p) PROVE Calm /\ Steady
  <2>1. /\ posts' = posts
        /\ postProcessRestart([beginRestart(sup) EXCEPT !.startWhenUp = p, !.guardRestart = TRUE],
                              "stop")
    BY <1>13 DEF RestartForGuard
  <2>2. Calm /\ \E t \in Tasks : dsQ' = Append(dsQ, t) /\ Harmless(t)
    BY <2>1, CountersSet, RestartCalm
  <2> QED
    BY <1>8, <2>1, <2>2
<1>14. CASE StopProfile
  <2>1. posts' = posts /\ dsQ' = dsQ /\ (sup' = sup \/ sup' = cancelResume(sup))
    BY <1>14 DEF StopProfile, procVars
  <2>2. Calm
    <3>1. /\ sup'.failures = sup.failures /\ sup'.startFailures = sup.startFailures
          /\ sup'.handledExitGen = sup.handledExitGen
      BY <1>1, <2>1, CountersSet
    <3> QED
      BY <3>1, SameCounters
  <2> QED
    BY <1>8, <2>1, <2>2
<1>15. CASE SetKillSwitch \/ BeginExit
  <2>1. sup' = sup /\ posts' = posts /\ dsQ' = dsQ
    BY <1>15 DEF SetKillSwitch, BeginExit, procVars, exitFrame
  <2> QED
    BY <1>5, <1>8, <2>1
<1>16. CASE KillForExit
  <2>1. prepareExit' /\ stopSupervising /\ posts' = posts
    BY <1>16 DEF KillForExit, exitFrame, prepareExit
  <2>2. Calm
    <3>1. /\ sup'.failures = sup.failures /\ sup'.startFailures = sup.startFailures
          /\ sup'.handledExitGen = sup.handledExitGen
      BY <1>1, <2>1 DEF stopSupervising, Supervisors
    <3> QED
      BY <3>1, SameCounters
  <2> QED
    BY <1>8, <2>1, <2>2
<1> QED
  BY <1>6, <1>9, <1>10, <1>11, <1>12, <1>13, <1>14, <1>15, <1>16 DEF Boot, Requests

\* The workers, the exit and the timers.
LEMMA WorkersCalm ==
  ASSUME TypeOK, Workers \/ Exit \/ Timers
  PROVE  Calm /\ Steady
<1>1. /\ sup \in Supervisors /\ sup.failures \in Nat /\ sup.startFailures \in Nat
      /\ sup.handledExitGen \in Nat /\ sup.connectGen \in Nat
  BY DEF TypeOK, Supervisors
<1>2. core' = core /\ frames' = frames /\ posts' = posts /\ (prepareExit => prepareExit')
  BY DEF Workers, Exit, Timers, StartWorker, SwitchStop, StopDone, ProbeReply, ExitStopDone,
         Shutdown,
         postRestart, onConnectTimeout, procVars, workFrame, exitFrame, timerFrame, mainFrame, prepareExit
<1>3. ASSUME dsQ' = dsQ \/ prepareExit' \/ \E t \in Tasks : dsQ' = Append(dsQ, t) /\ Harmless(t)
      PROVE  Steady
  BY <1>2, <1>3 DEF Steady
<1>4. CASE Workers
  <2>1. sup' = sup /\ dsQ' = dsQ
    BY <1>4 DEF Workers, StartWorker, SwitchStop, StopDone, ProbeReply, workFrame, procVars
  <2> QED
    BY <1>1, <1>3, <2>1 DEF Calm
<1>5. CASE Exit
  <2>1. prepareExit' /\ (sup' = sup \/ stopSupervising)
    BY <1>5 DEF Exit, ExitStopDone, Shutdown, prepareExit
  <2>2. Calm
    <3>1. /\ sup'.failures = sup.failures /\ sup'.startFailures = sup.startFailures
          /\ sup'.handledExitGen = sup.handledExitGen
      BY <1>1, <2>1 DEF stopSupervising, Supervisors
    <3> QED
      BY <3>1, SameCounters
  <2> QED
    BY <1>3, <2>1, <2>2
<1>6. CASE postRestart
  <2> DEFINE fired == [sup EXCEPT !.restartTimer = FALSE]
             s == [fired EXCEPT !.state = "Starting"]
  <2>1. postProcessRestart(s, "none") \/ (sup' = fired /\ dsQ' = dsQ)
    BY <1>6 DEF postRestart
  <2>2. /\ s \in Supervisors /\ s.failures = sup.failures
        /\ s.startFailures = sup.startFailures /\ s.handledExitGen = sup.handledExitGen
    BY <1>1 DEF Supervisors, States
  <2>3. ASSUME sup' = fired PROVE Calm
    BY <1>1, <2>3 DEF Calm, Supervisors
  <2> HIDE DEF s
  <2>4. CASE postProcessRestart(s, "none")
    <3>1. Calm /\ \E t \in Tasks : dsQ' = Append(dsQ, t) /\ Harmless(t)
      BY <1>1, <2>2, <2>4, RestartCalm
    <3> QED
      BY <1>3, <3>1
  <2> QED
    BY <1>3, <2>1, <2>3, <2>4
<1>7. CASE onConnectTimeout
  <2> DEFINE fired == [sup EXCEPT !.connectTimer = FALSE]
             t == Task("timeoutKill", "none", sup.connectGen, FALSE)
  <2>1. \/ /\ sup' = [fired EXCEPT !.timedOutGen = sup.connectGen] /\ dsQ' = Append(dsQ, t)
           /\ Alive => core.slow
        \/ sup' = fired /\ dsQ' = dsQ
    BY <1>7 DEF onConnectTimeout
  <2>2. Calm
    <3>1. /\ sup'.failures = sup.failures /\ sup'.startFailures = sup.startFailures
          /\ sup'.handledExitGen = sup.handledExitGen
      BY <1>1, <2>1 DEF Supervisors
    <3> QED
      BY <3>1, SameCounters
  <2>3. t \in Tasks /\ t.op = "timeoutKill"
    BY <1>1, TaskType DEF Task
  <2> HIDE DEF t
  <2> QED
    BY <1>3, <2>1, <2>2, <2>3 DEF Harmless
<1> QED
  BY <1>4, <1>5, <1>6, <1>7 DEF Timers

\* What the main thread handles, but for the exits.
LEMMA HandlersCalm ==
  ASSUME TypeOK,
         \/ \E c \in conns : VerifyConnection(c)
         \/ Accept
         \/ \E p \in probes : OnPrivilegeProbed(p)
         \/ onCoreSpawned \/ restartDeadCore
  PROVE  Calm /\ Steady
<1>1. /\ sup \in Supervisors /\ sup.failures \in Nat /\ sup.startFailures \in Nat
      /\ sup.handledExitGen \in Nat /\ posts \in Seq(Posts) /\ NoProfile \in MaybeProfile
      /\ sup.startWhenUp \in MaybeProfile /\ startedId \in MaybeProfile
  BY DEF TypeOK, Supervisors, MaybeProfile
<1>2. /\ core' = core /\ frames' = frames /\ (prepareExit => prepareExit')
      /\ posts' = posts \/ (posts # <<>> /\ posts' = Tail(posts))
  BY DEF VerifyConnection, Accept, OnPrivilegeProbed, onCoreSpawned, restartDeadCore, Posted,
         postFrame,
         mainFrame, prepareExit
<1>3. \A r \in Items(posts') : r \in Items(posts)
  BY <1>1, <1>2, ItemsTail
<1>4. ASSUME dsQ' = dsQ \/ \E t \in Tasks : dsQ' = Append(dsQ, t) /\ Harmless(t)
      PROVE  Steady
  BY <1>2, <1>3, <1>4 DEF Steady
<1>5. CASE \E c \in conns : VerifyConnection(c)
  <2>1. dsQ' = dsQ /\ (sup' = sup \/ sup' = [sup EXCEPT !.accepting = core.generation])
    BY <1>5 DEF VerifyConnection
  <2>2. Calm
    <3>1. /\ sup'.failures = sup.failures /\ sup'.startFailures = sup.startFailures
          /\ sup'.handledExitGen = sup.handledExitGen
      BY <1>1, <2>1 DEF Supervisors
    <3> QED
      BY <3>1, SameCounters
  <2> QED
    BY <1>4, <2>1, <2>2
<1>6. CASE Accept
  <2>1. /\ dsQ' = dsQ /\ sup'.failures = sup.failures
        /\ sup'.startFailures \in {0, sup.startFailures}
        /\ sup'.handledExitGen = sup.handledExitGen
    BY <1>1, <1>6 DEF Accept, Supervisors
  <2> QED
    BY <1>1, <1>4, <2>1 DEF Calm
<1>7. CASE \E p \in probes : OnPrivilegeProbed(p)
  <2> DEFINE started == [sup EXCEPT !.probing = FALSE, !.startFailures = 0,
                                    !.startWhenUp = NoProfile, !.guardRestart = FALSE]
             s == [beginRestart(started) EXCEPT !.startWhenUp = sup.startWhenUp]
  <2>1. \/ (sup' = sup \/ sup' = started) /\ dsQ' = dsQ
        \/ postProcessRestart(s, "none")
    BY <1>7 DEF OnPrivilegeProbed, emitCoreStarted, restartNotListening
  <2>2. ASSUME sup' = sup \/ sup' = started PROVE Calm
    <3>1. /\ sup'.failures = sup.failures /\ sup'.startFailures \in {0, sup.startFailures}
          /\ sup'.handledExitGen = sup.handledExitGen
      BY <1>1, <2>2 DEF Supervisors
    <3> QED
      BY <3>1, SameCounters
  <2>3. /\ s \in Supervisors /\ s.failures = 0 /\ s.startFailures = 0
        /\ s.handledExitGen = sup.handledExitGen
    BY <1>1 DEF beginRestart, Supervisors, States
  <2> HIDE DEF s
  <2>4. CASE postProcessRestart(s, "none")
    <3>1. Calm /\ \E t \in Tasks : dsQ' = Append(dsQ, t) /\ Harmless(t)
      BY <1>1, <2>3, <2>4, RestartCalm
    <3> QED
      BY <1>4, <3>1
  <2> QED
    BY <1>4, <2>1, <2>2, <2>4
<1>8. CASE onCoreSpawned
  <2>1. /\ dsQ' = dsQ
        /\ sup' = sup \/ sup' = [sup EXCEPT !.connectGen = Head(posts).gen, !.connectTimer = TRUE]
    BY <1>8 DEF onCoreSpawned
  <2>2. Calm
    <3>1. /\ sup'.failures = sup.failures /\ sup'.startFailures = sup.startFailures
          /\ sup'.handledExitGen = sup.handledExitGen
      BY <1>1, <2>1 DEF Supervisors
    <3> QED
      BY <3>1, SameCounters
  <2> QED
    BY <1>4, <2>1, <2>2
<1>9. CASE restartDeadCore
  <2> DEFINE s == [beginRestart(sup) EXCEPT !.startWhenUp = startedId]
  <2>1. (sup' = sup /\ dsQ' = dsQ) \/ postProcessRestart(s, "none")
    BY <1>9 DEF restartDeadCore
  <2>2. /\ s \in Supervisors /\ s.failures <= sup.failures
        /\ s.startFailures <= sup.startFailures /\ s.handledExitGen = sup.handledExitGen
    BY <1>1, CountersSet
  <2> HIDE DEF s
  <2>3. CASE postProcessRestart(s, "none")
    <3>1. Calm /\ \E t \in Tasks : dsQ' = Append(dsQ, t) /\ Harmless(t)
      BY <2>2, <2>3, RestartCalm
    <3> QED
      BY <1>4, <3>1
  <2>4. ASSUME sup' = sup PROVE Calm
    BY <1>1, <2>4 DEF Calm
  <2> QED
    BY <1>4, <2>1, <2>3, <2>4
<1> QED
  BY <1>5, <1>6, <1>7, <1>8, <1>9

\* An exit is handled: the counters rise only for one that was not, and not for the
\* expected one.
LEMMA ExitsCounted ==
  ASSUME TypeOK, onCoreExited
  PROVE  /\ Steady
         /\ \/ Calm
            \/ /\ ~exiting /\ posts # <<>> /\ Head(posts).kind = "exit"
               /\ sup'.handledExitGen = Head(posts).gen
               /\ Head(posts).gen > sup.handledExitGen /\ core.expectedExitGen # Head(posts).gen
<1> DEFINE r == Head(posts)
<1>1. /\ sup \in Supervisors /\ sup.failures \in Nat /\ sup.startFailures \in Nat
      /\ sup.handledExitGen \in Nat /\ posts \in Seq(Posts)
  BY DEF TypeOK, Supervisors
<1>2. /\ posts # <<>> /\ posts' = Tail(posts) /\ r.kind = "exit" /\ dsQ' = dsQ
      /\ UNCHANGED <<core, frames, phase>>
  BY DEF onCoreExited, Posted, ExitFrame
<1>3. r.gen \in Nat /\ Items(posts) = {r} \cup Items(posts')
  <2>1. Items(posts) = {r} \cup Items(posts')
    BY <1>1, <1>2, ItemsTail
  <2> QED
    BY <2>1, Numbers
<1>4. Steady
  BY <1>2, <1>3 DEF Steady, prepareExit
<1> DEFINE n == noteExit(r.gen)
<1>5. /\ n.handledExitGen = r.gen /\ n.failures = sup.failures
      /\ n.startFailures = sup.startFailures
      /\ DOMAIN n = {"state", "startWhenUp", "probing", "failures", "startFailures",
                     "handledExitGen", "acceptedGen", "connectGen", "timedOutGen",
                     "restartTimer", "connectTimer", "crashTimer", "accepting", "guardRestart"}
  BY <1>1 DEF noteExit, Supervisors
<1>6. CASE MootExit(r)
  <2>1. sup' = sup \/ (r.gen > sup.handledExitGen /\ sup' = n)
    BY <1>1, <1>3, <1>6 DEF MootExit
  <2> HIDE DEF n, r
  <2> QED
    BY <1>1, <1>3, <1>4, <1>5, <2>1 DEF Calm
<1>7. CASE r.gen > sup.handledExitGen /\ ~exiting /\ ExpectedExit(r)
  <2> DEFINE e(p) == [n EXCEPT !.connectTimer = FALSE, !.failures = 0, !.startFailures = 0,
                               !.startWhenUp = p]
  <2>1. \E p : sup' = scheduleRestart(e(p))
    BY <1>7 DEF ExpectedExit
  <2> HIDE DEF n, r
  <2>2. /\ sup'.failures = 0 /\ sup'.startFailures = 0 /\ sup'.handledExitGen = r.gen
    BY <1>5, <2>1 DEF scheduleRestart
  <2> QED
    BY <1>1, <1>3, <1>4, <1>7, <2>2 DEF Calm
<1>8. CASE r.gen > sup.handledExitGen /\ ~exiting /\ IdentityExit(r)
  <2>1. sup' = scheduleRestart([n EXCEPT !.connectTimer = FALSE])
    BY <1>8 DEF IdentityExit
  <2> HIDE DEF n, r
  <2>2. /\ sup'.failures = sup.failures /\ sup'.startFailures = sup.startFailures
        /\ sup'.handledExitGen = r.gen
    BY <1>5, <2>1 DEF scheduleRestart
  <2> QED
    BY <1>1, <1>3, <1>4, <1>8, <2>2 DEF Calm
<1>9. CASE /\ r.gen > sup.handledExitGen /\ ~exiting
           /\ \E stable, soon \in BOOLEAN : FailedExit(r, stable, soon)
  <2>1. PICK stable, soon \in BOOLEAN : FailedExit(r, stable, soon)
    BY <1>9
  <2> DEFINE connected == WasConnected(r)
             failures == IF connected /\ stable THEN 1 ELSE sup.failures + 1
             startFailures == IF connected THEN sup.startFailures ELSE sup.startFailures + 1
             tooFrequent == connected /\ sup.crashTimer /\ soon
             settled == connected \/ sup.startWhenUp = NoProfile
             declined == settled /\ tooFrequent /\ startedId # NoProfile
             resume == IF declined THEN NoProfile
                       ELSE IF settled THEN startedId ELSE sup.startWhenUp
             giveUp == \/ failures >= GiveUpAfter /\ resume = NoProfile
                       \/ ~connected /\ startFailures >= GiveUpAfter
             crash == IF connected THEN ~tooFrequent ELSE sup.crashTimer
             next == IF giveUp THEN NoProfile ELSE resume
             counted == [n EXCEPT !.connectTimer = FALSE, !.failures = failures,
                           !.startFailures = startFailures, !.crashTimer = crash,
                           !.startWhenUp = next]
  <2>2. /\ core.expectedExitGen # r.gen
        /\ \/ sup' = scheduleRestart(counted)
           \/ sup' = [counted EXCEPT !.state = "GaveUp", !.guardRestart = FALSE]
    BY <2>1 DEF FailedExit
  <2> HIDE DEF failures, startFailures, crash, next, n, r
  <2>3. counted.handledExitGen = r.gen /\ DOMAIN counted = DOMAIN n
    BY <1>5
  <2> HIDE DEF counted
  <2>4. sup'.handledExitGen = r.gen
    BY <1>5, <2>2, <2>3 DEF scheduleRestart
  <2> QED
    BY <1>2, <1>4, <1>9, <2>2, <2>4 DEF r
<1> QED
  BY <1>6, <1>7, <1>8, <1>9 DEF onCoreExited

\* What DS_cores and the core do keeps every end accounted for, as long as the
\* generation stays and a new end comes with its blame or its mark.
LEMMA Ending ==
  ASSUME TypeOK, TypeOK', Accounts, sup' = sup, prepareExit => prepareExit',
         core'.generation = core.generation, core.os = "none" => core'.os = "none",
         core.failed \subseteq core'.failed, core.unmarked \subseteq core'.unmarked,
         core.expectedExitGen \in core'.unmarked \cup {core'.expectedExitGen},
         ~prepareExit' /\ core'.os # "none" /\ (core'.dying \/ core'.slow) =>
           (core.os # "none" /\ (core.dying \/ core.slow)) \/ Accounted(core.generation)',
         \A u \in Todo' : (\E v \in Todo : As(u, v)) \/ prepareExit'
                            \/ (u.op = "exit" /\ Accounted(u.gen)') \/ u.op = "execFailed",
         \A r \in Items(posts') : r \in Items(posts) \/ r.kind # "exit" \/ prepareExit'
                                    \/ Accounted(r.gen)'
  PROVE  Accounts'
<1>1. /\ sup.handledExitGen \in Nat /\ core.generation \in Nat
      /\ \A t \in Todo : t.gen \in Nat
      /\ \A r \in Items(posts) : r.gen \in Nat
  BY Numbers
<1> SUFFICES ASSUME ~prepareExit' PROVE Accounts'
  BY DEF Accounts
<1>2. ~prepareExit
  OBVIOUS
<1>3. ASSUME NEW g \in Nat, Accounted(g) PROVE Accounted(g)'
  BY <1>3 DEF Accounted
<1>4. \A r \in Items(posts') : r.kind = "exit" => Accounted(r.gen)'
  BY <1>1, <1>2, <1>3 DEF Accounts
<1>5. core'.os # "none" /\ (core'.dying \/ core'.slow) => Accounted(core.generation)'
  BY <1>1, <1>2, <1>3 DEF Accounts
<1>6. ASSUME NEW u \in Todo'
      PROVE  /\ u.op = "exit" => Accounted(u.gen)'
             /\ u.op = "timeoutKill" /\ u.gen = core.generation /\ core'.os # "none" =>
                  Accounted(u.gen)'
             /\ u.op # "killForExit"
  <2>1. CASE \E v \in Todo : As(u, v)
    BY <1>1, <1>2, <1>3, <2>1 DEF Accounts, As
  <2>2. CASE (u.op = "exit" /\ Accounted(u.gen)') \/ u.op = "execFailed"
    BY <2>2
  <2> QED
    BY <2>1, <2>2
<1> QED
  BY <1>4, <1>5, <1>6 DEF Accounts

\* A new generation, which is not slow; if it is dying, the slow kill is to blame.
LEMMA Generated ==
  ASSUME TypeOK, TypeOK', NInv, Accounts, sup' = sup, phase' = phase,
         core'.generation = core.generation + 1,
         core.failed \subseteq core'.failed, core.unmarked \subseteq core'.unmarked,
         core.expectedExitGen = core'.expectedExitGen,
         core'.dying \/ core'.slow => core.generation + 1 \in core'.failed,
         \A u \in Todo' : u \in Todo,
         \A r \in Items(posts') : r \in Items(posts) \/ r.kind # "exit"
  PROVE  Accounts'
<1>1. /\ sup.handledExitGen \in Nat /\ core.generation \in Nat
      /\ \A t \in Todo : t.gen \in Nat /\ t.gen <= core.generation
      /\ \A r \in Items(posts) : r.gen \in Nat
  BY Numbers DEF NInv, Bounded
<1>2. prepareExit' = prepareExit
  BY DEF prepareExit
<1> SUFFICES ASSUME ~prepareExit PROVE Accounts'
  BY <1>2 DEF Accounts
<1>3. ASSUME NEW g \in Nat, Accounted(g) PROVE Accounted(g)'
  BY <1>3 DEF Accounted
<1>4. \A r \in Items(posts') : r.kind = "exit" => Accounted(r.gen)'
  BY <1>1, <1>3 DEF Accounts
<1>5. \A u \in Todo' : (u.op = "exit" => Accounted(u.gen)') /\ u.op # "killForExit"
  BY <1>1, <1>3 DEF Accounts
<1>6. ASSUME NEW u \in Todo' PROVE u.gen # core'.generation
  <2>1. u.gen \in Nat /\ u.gen <= core.generation
    BY <1>1
  <2> QED
    BY <1>1, <2>1
<1>7. core'.dying \/ core'.slow => Accounted(core.generation)'
  BY DEF Accounted
<1> QED
  BY <1>4, <1>5, <1>6, <1>7 DEF Accounts

\* The reports of an exit handler are of the generation it read, or of the current one.
LEMMA ReportedGens ==
  ASSUME TypeOK, NEW t \in Tasks, t.gen <= core.generation
  PROVE  \A r \in Items(posts \o Reports(t)) :
           r \in Items(posts) \/ r.gen = (IF t.op = "exit" THEN t.gen ELSE core.generation)
<1>1. /\ t.gen \in Nat /\ t.identity \in BOOLEAN /\ core.generation \in Nat
      /\ posts \in Seq(Posts)
  BY DEF TypeOK, Tasks, Cores
<1> DEFINE a == Post("exit", t.gen, FALSE, t.identity)
           b == Post("exit", core.generation, TRUE, FALSE)
<1>2. a \in Posts /\ b \in Posts
  BY <1>1, PostType
<1>3. a.gen = t.gen /\ b.gen = core.generation
  BY DEF Post
<1> HIDE DEF a, b
<1>4. ASSUME NEW e \in Posts
      PROVE  /\ Items(posts \o <<e>>) = Items(posts) \cup {e}
             /\ Items(posts \o <<e, e>>) = Items(posts) \cup {e}
  <2>1. posts \o <<e>> = Append(posts, e) /\ posts \o <<e, e>> = Append(Append(posts, e), e)
    BY <1>1
  <2>2. \A q \in Seq(Posts) : Append(q, e) \in Seq(Posts) /\ Items(Append(q, e)) = Items(q) \cup {e}
    BY ItemsAppend
  <2>3. /\ Items(Append(posts, e)) = Items(posts) \cup {e} /\ Append(posts, e) \in Seq(Posts)
    BY <1>1, <2>2
  <2>4. Items(Append(Append(posts, e), e)) = Items(Append(posts, e)) \cup {e}
    BY <2>2, <2>3, Zenon
  <2>5. Items(Append(Append(posts, e), e)) = Items(posts) \cup {e}
    BY <2>3, <2>4, Zenon
  <2> QED
    BY <2>1, <2>3, <2>5
<1>5. CASE t.op = "exit"
  <2>1. Reports(t) = <<a>>
    BY <1>5 DEF Reports, a
  <2> QED
    BY <1>2, <1>3, <1>4, <1>5, <2>1
<1>6. CASE t.op # "exit"
  <2>1. Reports(t) = <<b>> \/ Reports(t) = <<b, b>>
    BY <1>6 DEF Reports, b
  <2> QED
    BY <1>2, <1>3, <1>4, <1>6, <2>1
<1> QED
  BY <1>5, <1>6

\* DS_cores runs a task to its end.
LEMMA PerformedAccounts ==
  ASSUME TypeOK, TypeOK', NInv, Accounts, NEW t \in Todo, Perform(t), sup' = sup,
         \A u \in Todo' : u \in Todo
  PROVE  Accounts'
<1>1. /\ core \in Cores /\ core.generation \in Nat /\ t \in Tasks /\ t.gen \in Nat
      /\ t.gen <= core.generation /\ posts \in Seq(Posts) /\ sup.handledExitGen \in Nat
  BY Numbers DEF NInv, TypeOK, Bounded
<1>2. \A u \in Todo' : \E v \in Todo : As(u, v)
  BY DEF As
<1>3. CASE \/ t.op = "start" /\ DoStart
           \/ t.op = "restart" /\ DoRestart
  <2>1. /\ phase' = phase
        /\ posts' = posts \/ posts' = SpawnReport
        /\ \/ core' = Spawn(core)
           \/ /\ core.os # "none"
              /\ core' = Blame([Kill(core) EXCEPT !.generation = core.generation + 1])
    BY <1>3 DEF DoStart, DoRestart
  <2>2. \A r \in Items(posts') : r \in Items(posts) \/ r.kind # "exit"
    <3> DEFINE r == Post("spawned", core.generation, FALSE, FALSE)
    <3>1. r \in Posts /\ r.kind = "spawned"
      BY <1>1, PostType DEF Post
    <3> HIDE DEF r
    <3>2. posts' = posts \/ posts' = Append(posts, r)
      BY <2>1 DEF SpawnReport, r
    <3>3. Items(Append(posts, r)) = Items(posts) \cup {r}
      BY <1>1, <3>1, ItemsAppend
    <3> QED
      BY <3>1, <3>2, <3>3
  <2>3. CASE core' = Spawn(core)
    <3>1. /\ core'.generation = core.generation + 1 /\ core'.dying = FALSE /\ core'.slow = FALSE
          /\ core'.failed = core.failed /\ core'.unmarked = core.unmarked
          /\ core'.expectedExitGen = core.expectedExitGen
      BY <1>1, <2>3 DEF Spawn, Cores
    <3> QED
      BY <2>1, <2>2, <3>1, Generated
  <2>4. CASE /\ core.os # "none"
             /\ core' = Blame([Kill(core) EXCEPT !.generation = core.generation + 1])
    <3>1. /\ core'.generation = core.generation + 1
          /\ core'.expectedExitGen = core.expectedExitGen /\ core'.unmarked = core.unmarked
          /\ core'.failed = core.failed \cup {core.generation + 1}
      BY <1>1, <2>4, OutlivedKill
    <3> QED
      BY <2>1, <2>2, <3>1, Generated
  <2> QED
    BY <2>1, <2>3, <2>4
<1>4. ASSUME phase' = phase, posts' = posts, core' \in {core, Kill(core), Expect(core)},
             core' = Kill(core) /\ core.os # "none" /\ ~prepareExit => Accounted(core.generation)
      PROVE  Accounts'
  <2>1. prepareExit' = prepareExit
    BY <1>4 DEF prepareExit
  <2>2. /\ core'.generation = core.generation /\ core'.os = core.os
        /\ core'.failed = core.failed /\ core.unmarked \subseteq core'.unmarked
        /\ core.expectedExitGen \in core'.unmarked \cup {core'.expectedExitGen}
    BY <1>1, <1>4, Marks
  <2>3. CASE core' = core
    BY <1>2, <1>4, <2>1, <2>2, <2>3, Ending
  <2>4. CASE core' = Kill(core)
    <3>1. core'.expectedExitGen = core.expectedExitGen /\ core'.unmarked = core.unmarked
      BY <1>1, <2>4, Marks
    <3>2. ~prepareExit /\ core.os # "none" => Accounted(core.generation)'
      BY <1>4, <2>2, <2>4, <3>1 DEF Accounted
    <3> QED
      BY <1>2, <1>4, <2>1, <2>2, <3>2, Ending
  <2>5. CASE core' = Expect(core)
    <3>1. core'.expectedExitGen = core.generation
      BY <1>1, <2>5, Marks
    <3>2. Accounted(core.generation)'
      BY <2>2, <3>1 DEF Accounted
    <3> QED
      BY <1>2, <1>4, <2>1, <2>2, <3>2, Ending
  <2> QED
    BY <1>4, <2>3, <2>4, <2>5
<1>5. CASE \/ t.op = "reset" /\ DoReset
           \/ t.op = "kill" /\ DoKill
  <2>1. phase' = phase /\ posts' = posts /\ core' = Expect(core)
    BY <1>5 DEF DoReset, DoKill
  <2>2. ASSUME core' = Kill(core), core.os # "none", ~prepareExit
        PROVE  Accounted(core.generation)
    <3>1. /\ Kill(core).expectedExitGen = core.expectedExitGen
          /\ Expect(core).expectedExitGen = core.generation
      BY <1>1, Marks
    <3>2. core.expectedExitGen = core.generation
      BY <2>1, <2>2, <3>1
    <3> QED
      BY <3>2 DEF Accounted
  <2> QED
    BY <1>4, <2>1, <2>2
<1>6. CASE t.op = "timeoutKill" /\ DoTimeoutKill(t.gen)
  <2>1. phase' = phase /\ posts' = posts
        /\ core' = IF t.gen = core.generation THEN Kill(core) ELSE core
    BY <1>6 DEF DoTimeoutKill
  <2>2. CASE t.gen = core.generation
    <3>1. ~prepareExit /\ core.os # "none" => Accounted(core.generation)
      BY <1>6, <2>2 DEF Accounts
    <3> QED
      BY <1>4, <2>1, <2>2, <3>1
  <2>3. CASE t.gen # core.generation
    <3>1. core' = core /\ prepareExit' = prepareExit
      BY <2>1, <2>3 DEF prepareExit
    <3> QED
      BY <1>2, <2>1, <3>1, Ending
  <2> QED
    BY <2>2, <2>3
<1>7. CASE t.op = "killForExit" /\ DoKillForExit
  <2>1. prepareExit /\ phase' = phase
    BY <1>7 DEF Accounts, DoKillForExit
  <2> QED
    BY <2>1 DEF Accounts, prepareExit
<1>8. CASE t.op = "shutdown" /\ DoShutdown
  BY <1>8 DEF Accounts, DoShutdown, prepareExit
<1>9. CASE t.op \in {"exit", "execFailed"} /\ DoPostExit(t)
  <2>1. /\ core' = Blamed(t, core) /\ phase' = phase /\ posts' = posts \o Reports(t)
    BY <1>9 DEF DoPostExit
  <2>2. prepareExit' = prepareExit
    BY <2>1 DEF prepareExit
  <2>3. /\ core'.generation = core.generation /\ core'.os = core.os /\ core'.dying = core.dying
        /\ core'.unmarked = core.unmarked /\ core'.expectedExitGen = core.expectedExitGen
        /\ core.failed \subseteq core'.failed /\ core'.slow = core.slow
        /\ t.op # "exit" => core.generation \in core'.failed
    <3>1. Blame(core).slow = core.slow
      BY <1>1 DEF Blame, Cores
    <3> QED
      BY <1>1, <2>1, <3>1, Marks DEF Blamed
  <2>4. ASSUME NEW r \in Items(posts'), r \notin Items(posts), ~prepareExit
        PROVE  Accounted(r.gen)'
    <3>1. r.gen = IF t.op = "exit" THEN t.gen ELSE core.generation
      BY <1>1, <2>1, <2>4, ReportedGens
    <3>2. t.op = "exit" => Accounted(t.gen)
      BY <2>4 DEF Accounts
    <3> QED
      BY <2>3, <3>1, <3>2 DEF Accounted
  <2> QED
    BY <1>2, <2>2, <2>3, <2>4, Ending
<1> QED
  BY <1>3, <1>5, <1>6, <1>7, <1>8, <1>9 DEF Perform

\* The child has ended.
LEMMA EndedAccounts ==
  ASSUME TypeOK, TypeOK', NInv, Accounts, core.os # "none", NEW t \in Tasks, NotRunning(t),
         \/ t.op = "execFailed"
         \/ t.op = "exit" /\ t.gen = core.generation /\ core.dying,
         t.gen <= core.generation
  PROVE  Accounts'
<1>1. /\ core \in Cores /\ core.generation \in Nat /\ posts \in Seq(Posts)
      /\ frames \in Seq(Tasks) /\ sup.handledExitGen \in Nat
  BY Numbers DEF TypeOK
<1>2. phase' = phase /\ sup' = sup /\ dsQ' = dsQ
  BY DEF NotRunning, dsFrame
<1>3. prepareExit' = prepareExit
  BY <1>2 DEF prepareExit
<1> DEFINE c == Gone(core)
<1>4. /\ c \in Cores /\ c.generation = core.generation /\ c.os = "none"
      /\ c.failed = core.failed /\ c.unmarked = core.unmarked
      /\ c.expectedExitGen = core.expectedExitGen
  <2>1. c \in Cores
    BY <1>1, CoreTypes
  <2>2. /\ c.generation = core.generation /\ c.os = "none"
        /\ c.failed = core.failed /\ c.unmarked = core.unmarked
        /\ c.expectedExitGen = core.expectedExitGen
    BY <1>1 DEF Gone, Cores
  <2> QED
    BY <2>1, <2>2
<1> HIDE DEF c
<1>5. /\ core'.generation = core.generation /\ core'.os = "none"
      /\ core'.unmarked = core.unmarked /\ core'.expectedExitGen = core.expectedExitGen
      /\ core.failed \subseteq core'.failed
  <2>1. core' = c \/ core' = Blame(c)
    BY DEF NotRunning, Blamed, c
  <2> QED
    BY <1>4, <2>1, Marks
<1>6. ~prepareExit /\ t.op = "exit" => Accounted(t.gen)' /\ t.gen = core.generation
  <2> SUFFICES ASSUME ~prepareExit, t.op = "exit" PROVE Accounted(t.gen)' /\ t.gen = core.generation
    OBVIOUS
  <2>1. Accounted(t.gen)
    BY DEF Accounts
  <2> QED
    BY <1>2, <1>5, <2>1 DEF Accounted
<1>7. CASE frames' = Append(frames, t) /\ posts' = posts
  <2>1. Items(frames') = Items(frames) \cup {t}
    BY <1>1, <1>7, ItemsAppend
  <2>2. \A u \in Todo' : u \in Todo \/ u = t
    BY <1>2, <2>1 DEF Todo
  <2>3. \A u \in Todo' : (\E v \in Todo : As(u, v)) \/ prepareExit'
                           \/ (u.op = "exit" /\ Accounted(u.gen)') \/ u.op = "execFailed"
    BY <1>3, <1>6, <2>2 DEF As
  <2> QED
    BY <1>2, <1>3, <1>5, <1>7, <2>3, Ending
<1>8. CASE frames' = frames /\ posts' = posts \o Reports(t) /\ core' = Blamed(t, c)
  <2>1. \A u \in Todo' : \E v \in Todo : As(u, v)
    BY <1>2, <1>8 DEF Todo, As
  <2>2. t.op # "exit" => core.generation \in core'.failed
    BY <1>4, <1>8, Marks DEF Blamed
  <2>3. ~prepareExit => Accounted(core.generation)'
    BY <1>5, <1>6, <2>2 DEF Accounted
  <2>4. \A r \in Items(posts') : r \in Items(posts) \/ r.gen = core.generation
    BY <1>8, ReportedGens
  <2> QED
    BY <1>2, <1>3, <1>5, <2>1, <2>3, <2>4, Ending
<1> QED
  BY <1>7, <1>8 DEF NotRunning, c

\* DS_cores and the core process.
LEMMA CoreAccounts ==
  ASSUME TypeOK, TypeOK', NInv, Accounts,
         DsCores \/ ExecFails \/ Dial \/ CoreDies \/ CoreIsSlow \/ UNCHANGED vars
  PROVE  Accounts'
<1>1. /\ core \in Cores /\ core.generation \in Nat /\ posts \in Seq(Posts)
      /\ frames \in Seq(Tasks) /\ dsQ \in Seq(Tasks)
  BY Numbers DEF TypeOK
<1>2. sup' = sup
  BY DEF DsCores, TakeTask, StopWorker, ResumeFrame, CoreSpawned, CoreExits, ExecFails,
         NotRunning, Dial,
         CoreDies, CoreIsSlow, coreFrame, dsFrame, vars
<1>3. ASSUME phase' = phase, core' = core, posts' = posts, \A u \in Todo' : \E v \in Todo : As(u, v)
      PROVE  Accounts'
  <2>1. prepareExit' = prepareExit
    BY <1>3 DEF prepareExit
  <2> QED
    BY <1>2, <1>3, <2>1, Ending
<1>4. CASE TakeTask
  <2> DEFINE t == Head(dsQ)
  <2>1. /\ dsQ # <<>> /\ dsQ' = Tail(dsQ)
        /\ \/ UNCHANGED <<phase, core, frames, posts>>
           \/ frames' = Append(frames, t) /\ UNCHANGED <<phase, core, posts>>
           \/ Perform(t) /\ frames' = frames
    BY <1>4 DEF TakeTask, Run
  <2>2. t \in Tasks /\ Items(dsQ) = {t} \cup Items(dsQ')
    BY <1>1, <2>1, ItemsTail
  <2> HIDE DEF t
  <2>3. Items(Append(frames, t)) = Items(frames) \cup {t}
    BY <1>1, <2>2, ItemsAppend
  <2>4. t \in Todo /\ \A u \in Todo' : u \in Todo
    BY <2>1, <2>2, <2>3 DEF Todo
  <2>5. CASE UNCHANGED <<phase, core, posts>>
    BY <1>3, <2>4, <2>5 DEF As
  <2>6. CASE Perform(t)
    BY <1>2, <2>4, <2>6, PerformedAccounts
  <2> QED
    BY <2>1, <2>5, <2>6
<1>5. CASE StopWorker
  <2>1. /\ frames # <<>> /\ UNCHANGED <<phase, core, dsQ, posts>>
        /\ frames' = [frames EXCEPT ![Len(frames)] = [frames[Len(frames)] EXCEPT !.stopped = TRUE]]
    BY <1>5 DEF StopWorker
  <2>2. /\ DOMAIN frames' = DOMAIN frames
        /\ \A i \in DOMAIN frames : As(frames'[i], frames[i])
    <3>1. DOMAIN frames' = DOMAIN frames /\ \A i \in DOMAIN frames : frames[i] \in Tasks
      BY <1>1, <2>1, ElementOfSeq, LenProperties
    <3>2. ASSUME NEW i \in DOMAIN frames PROVE As(frames'[i], frames[i])
      <4>1. CASE i = Len(frames)
        BY <2>1, <3>1, <4>1 DEF As, Tasks
      <4>2. CASE i # Len(frames)
        BY <2>1, <4>2 DEF As
      <4> QED
        BY <4>1, <4>2
    <3> QED
      BY <3>1, <3>2
  <2>3. \A u \in Todo' : \E v \in Todo : As(u, v)
    <3>1. \A u \in Items(frames') : \E v \in Items(frames) : As(u, v)
      BY <2>2 DEF Items
    <3> QED
      BY <2>1, <3>1 DEF Todo, As
  <2> QED
    BY <1>3, <2>1, <2>3
<1>6. CASE ResumeFrame
  <2> DEFINE t == frames[Len(frames)]
  <2>1. /\ frames # <<>> /\ Perform(t) /\ frames' = SubSeq(frames, 1, Len(frames) - 1)
        /\ dsQ' = dsQ
    BY <1>6 DEF ResumeFrame
  <2>2. Items(frames) = {t} \cup Items(frames')
    BY <1>1, <2>1, ItemsFront
  <2> HIDE DEF t
  <2>3. t \in Todo /\ \A u \in Todo' : u \in Todo
    BY <2>1, <2>2 DEF Todo
  <2> QED
    BY <1>2, <2>1, <2>3, PerformedAccounts
<1>7. CASE CoreSpawned
  <2> DEFINE r == Post("spawned", core.generation, FALSE, FALSE)
  <2>1. /\ core.os = "starting" /\ core' = [core EXCEPT !.os = "up"] /\ posts' = Append(posts, r)
        /\ UNCHANGED <<phase, dsQ, frames>>
    BY <1>7 DEF CoreSpawned, SpawnReport
  <2>2. r \in Posts /\ r.kind = "spawned"
    BY <1>1, PostType DEF Post
  <2> HIDE DEF r
  <2>3. Items(posts') = Items(posts) \cup {r}
    BY <1>1, <2>1, <2>2, ItemsAppend
  <2>4. /\ core'.generation = core.generation /\ core'.dying = core.dying
        /\ core'.slow = core.slow /\ core'.failed = core.failed
        /\ core'.unmarked = core.unmarked /\ core'.expectedExitGen = core.expectedExitGen
    BY <1>1, <2>1 DEF Cores
  <2>5. prepareExit' = prepareExit /\ \A u \in Todo' : \E v \in Todo : As(u, v)
    BY <2>1 DEF prepareExit, Todo, As
  <2> QED
    BY <1>2, <2>1, <2>2, <2>3, <2>4, <2>5, Ending
<1>8. CASE ExecFails
  <2> DEFINE t == Task("execFailed", IF prepareExit \/ ~HasPrivilegeProbe THEN "none" ELSE "stop",
                      0, FALSE)
  <2>1. core.os # "none" /\ NotRunning(t)
    BY <1>8 DEF ExecFails
  <2>2. t \in Tasks /\ t.op = "execFailed" /\ t.gen = 0
    BY TaskType DEF Task
  <2> HIDE DEF t
  <2> QED
    BY <1>1, <2>1, <2>2, EndedAccounts
<1>9. CASE CoreExits
  <2>1. CASE prepareExit /\ phase' = phase
    BY <2>1 DEF Accounts, prepareExit
  <2>2. CASE NotRunning(Task("exit", "stop", core.generation, core.identityExit))
    <3> DEFINE t == Task("exit", "stop", core.generation, core.identityExit)
    <3>1. core.os # "none" /\ core.dying /\ core.identityExit \in BOOLEAN
      BY <1>1, <1>9 DEF CoreExits, Cores
    <3>2. t \in Tasks /\ t.op = "exit" /\ t.gen = core.generation
      BY <1>1, <3>1, TaskType DEF Task
    <3>3. NotRunning(t)
      BY <2>2
    <3> HIDE DEF t
    <3> QED
      BY <1>1, <3>1, <3>2, <3>3, EndedAccounts
  <2> QED
    BY <1>9, <2>1, <2>2 DEF CoreExits
<1>10. CASE Dial \/ CoreDies \/ CoreIsSlow \/ UNCHANGED vars
  <2>1. UNCHANGED <<phase, dsQ, frames, posts>>
    BY <1>10 DEF Dial, CoreDies, CoreIsSlow, coreFrame, vars, procVars
  <2>2. prepareExit' = prepareExit /\ \A u \in Todo' : \E v \in Todo : As(u, v)
    BY <2>1 DEF prepareExit, Todo, As
  <2>3. CASE core' = core
    BY <1>3, <2>1, <2>2, <2>3
  <2>4. CASE core' = [core EXCEPT !.dialed = TRUE]
    <3>1. /\ core'.generation = core.generation /\ core'.dying = core.dying /\ core'.os = core.os
          /\ core'.slow = core.slow /\ core'.failed = core.failed
          /\ core'.unmarked = core.unmarked /\ core'.expectedExitGen = core.expectedExitGen
      BY <1>1, <2>4 DEF Cores
    <3> QED
      BY <1>2, <2>1, <2>2, <3>1, Ending
  <2>5. ASSUME NEW c \in Cores, c.generation = core.generation, c.os = core.os,
               c.failed = core.failed, c.unmarked = core.unmarked,
               c.expectedExitGen = core.expectedExitGen, core' = Blame(c)
        PROVE  Accounts'
    <3>1. /\ core'.generation = core.generation /\ core'.os = core.os
          /\ core'.failed = core.failed \cup {core.generation}
          /\ core'.unmarked = core.unmarked /\ core'.expectedExitGen = core.expectedExitGen
      BY <2>5, Marks
    <3>2. Accounted(core.generation)'
      BY <3>1 DEF Accounted
    <3> QED
      BY <1>2, <2>1, <2>2, <3>1, <3>2, Ending
  <2>6. CASE CoreIsSlow
    <3> DEFINE c == [core EXCEPT !.slow = TRUE]
    <3>1. /\ c \in Cores /\ c.generation = core.generation /\ c.os = core.os
          /\ c.failed = core.failed /\ c.unmarked = core.unmarked
          /\ c.expectedExitGen = core.expectedExitGen
      BY <1>1 DEF Cores
    <3>2. core' = Blame(c)
      BY <2>6 DEF CoreIsSlow
    <3> QED
      BY <2>5, <3>1, <3>2
  <2>7. CASE CoreDies
    <3>1. PICK b \in BOOLEAN : core' = Blame([core EXCEPT !.dying = TRUE, !.identityExit = b])
      BY <2>7 DEF CoreDies
    <3> DEFINE c == [core EXCEPT !.dying = TRUE, !.identityExit = b]
    <3>2. /\ c \in Cores /\ c.generation = core.generation /\ c.os = core.os
          /\ c.failed = core.failed /\ c.unmarked = core.unmarked
          /\ c.expectedExitGen = core.expectedExitGen
      BY <1>1 DEF Cores
    <3> QED
      BY <2>5, <3>1, <3>2
  <2> QED
    BY <1>10, <2>3, <2>4, <2>6, <2>7 DEF Dial, vars, procVars
<1> QED
  BY <1>4, <1>5, <1>6, <1>7, <1>8, <1>9, <1>10 DEF DsCores

\* Every step keeps every end accounted for.
LEMMA NextAccounts ==
  ASSUME TypeOK, TypeOK', NInv, Accounts, [Next]_vars
  PROVE  Accounts'
<1>1. ASSUME Calm, Steady PROVE Accounts'
  BY <1>1, StillAccounted DEF Calm
<1>2. CASE onCoreExited
  <2>1. Steady /\ sup'.handledExitGen >= sup.handledExitGen
    <3>1. sup.handledExitGen \in Nat /\ sup'.handledExitGen \in Nat
      BY DEF TypeOK, Supervisors
    <3> QED
      BY <1>2, <3>1, ExitsCounted DEF Calm
  <2> QED
    BY <2>1, StillAccounted
<1> QED
  BY <1>1, <1>2, RequestsCalm, WorkersCalm, HandlersCalm, CoreAccounts DEF Next, Main

\* A counter that rises does so for an exit with a fault or a lost mark to blame.
LEMMA RisesCounted ==
  ASSUME TypeOK, TypeOK', NInv, Accounts, [Next]_vars,
         sup'.failures > sup.failures \/ sup'.startFailures > sup.startFailures
  PROVE  /\ sup'.handledExitGen > sup.handledExitGen
         /\ sup'.handledExitGen \in core.failed \cup core.unmarked
<1>1. /\ sup.failures \in Nat /\ sup.startFailures \in Nat /\ sup.handledExitGen \in Nat
      /\ sup'.failures \in Nat /\ sup'.startFailures \in Nat /\ posts \in Seq(Posts)
  BY DEF TypeOK, Supervisors
<1>2. ~Calm
  BY <1>1 DEF Calm
<1>3. sup' # sup
  BY <1>1
<1>4. onCoreExited
  <2>1. ~(DsCores \/ ExecFails \/ Dial \/ CoreDies \/ CoreIsSlow \/ UNCHANGED vars)
    BY <1>3 DEF DsCores, TakeTask, StopWorker, ResumeFrame, CoreSpawned, CoreExits, ExecFails,
                NotRunning,
                Dial, CoreDies, CoreIsSlow, coreFrame, dsFrame, vars
  <2> QED
    BY <1>2, <2>1, RequestsCalm, WorkersCalm, HandlersCalm DEF Next, Main
<1> DEFINE r == Head(posts)
<1>5. /\ ~exiting /\ posts # <<>> /\ r.kind = "exit" /\ sup'.handledExitGen = r.gen
      /\ r.gen > sup.handledExitGen /\ core.expectedExitGen # r.gen
  BY <1>2, <1>4, ExitsCounted
<1>6. r \in Items(posts)
  BY <1>1, <1>5, ItemsTail
<1>7. r.gen \in Nat
  BY <1>6, Numbers
<1>8. Accounted(r.gen)
  BY <1>5, <1>6 DEF Accounts, exiting
<1> QED
  BY <1>1, <1>5, <1>7, <1>8 DEF Accounted

-----------------------------------------------------------------------------
\* Type correctness: whatever the interleaving of main thread, DS_cores and core,
\* every member of the supervisor and every posted task and report has its type.
THEOREM TypeCorrect == Spec => []TypeOK
<1>1. Init => TypeOK
  <2>1. ASSUME Init
        PROVE  sup \in Supervisors /\ core \in Cores
    BY <2>1 DEF Init, Supervisors, States, Cores, MaybeProfile
  <2>2. ASSUME Init
        PROVE  faults \in 0..MaxFaults /\ requests \in 0..MaxRequests
    BY <2>2, BoundsAssumption DEF Init
  <2>3. ASSUME Init
        PROVE  dsQ \in Seq(Tasks) /\ frames \in Seq(Tasks) /\ posts \in Seq(Posts)
    BY <2>3 DEF Init
  <2>4. ASSUME Init
        PROVE  /\ phase \in Phases /\ barred \in {"no", "declined", "stopped"}
               /\ startedId \in MaybeProfile /\ running \in MaybeProfile
               /\ starting \in MaybeProfile
               /\ conns \subseteq Nat /\ probes \subseteq Probes /\ channel \in Nat
    BY <2>4 DEF Init, Phases, MaybeProfile
  <2>5. ASSUME Init
        PROVE  /\ coreRunning \in BOOLEAN /\ stopping \in BOOLEAN
               /\ killSwitch \in BOOLEAN /\ noIdentity \in BOOLEAN
    BY <2>5 DEF Init
  <2>6. QED
    BY <2>1, <2>2, <2>3, <2>4, <2>5 DEF TypeOK
<1>2. TypeOK /\ [Next]_vars => TypeOK'
  <2>1. ASSUME TypeOK, Next
        PROVE  TypeOK'
    BY <2>1, RequestTypes, WorkerTypes, AcceptTypes, ReportTypes, TimerTypes, DsCoresTypes,
       CoreProcessTypes DEF Next, Main
  <2>2. ASSUME TypeOK, UNCHANGED vars
        PROVE  TypeOK'
    BY <2>2 DEF TypeOK, vars, profVars, guardVars, procVars, netVars, bookVars
  <2>3. QED
    BY <2>1, <2>2
<1>3. QED
  BY <1>1, <1>2, PTL DEF Spec

\* The members of the supervisor, the tasks of DS_cores and the reports to the main
\* thread fit together: no core, kill, restart or exit gets lost between the threads.
THEOREM SupervisorFits == Spec => []NInv
<1>1. Init => NInv
  BY InitMoves
<1>2. TypeOK /\ TypeOK' /\ NInv /\ [Next]_vars => NInv'
  BY NextMoves
<1>3. QED
  BY <1>1, <1>2, TypeCorrect, PTL DEF Spec

\* CoreSupervisor never strands itself: while it is Starting, in Backoff or Connected,
\* what moves it on is still to come, for any number of faults and requests.
THEOREM NeverStranded == Spec => []NotStranded
<1>1. TypeOK /\ NInv => NotStranded
  BY MovesSuffice
<1>2. QED
  BY <1>1, TypeCorrect, SupervisorFits, PTL

\* After a give-up, a declined profile or a cancelled resume, CoreSupervisor and
\* ConnectionManager start nothing until somebody asks for it.
THEOREM DeclinedStays == Spec => NoStartOnceDeclined
<1> DEFINE Asked == starting' # starting /\ starting' # NoProfile => barred' # "declined"
<1>1. Init => NothingWaits
  BY DEF Init, NothingWaits
<1>2. TypeOK /\ NInv /\ NothingWaits /\ [Next]_vars => NothingWaits'
  BY NextWaits
<1>3. TypeOK /\ NothingWaits /\ [Next]_vars => [Asked]_vars
  BY StartsAsked
<1>4. QED
  BY <1>1, <1>2, <1>3, TypeCorrect, SupervisorFits, PTL DEF Spec, NoStartOnceDeclined

\* CoreSupervisor counts an exit towards giving up only once, and only when a fault is
\* to blame for it or its mark was overwritten, for any number of faults and requests and
\* on both platforms.
THEOREM FaultsCounted == Spec => OnlyFaultsCount
<1> DEFINE Rises == sup'.failures > sup.failures \/ sup'.startFailures > sup.startFailures =>
                      /\ sup'.handledExitGen > sup.handledExitGen
                      /\ sup'.handledExitGen \in core.failed \cup core.unmarked
<1>1. Init => Accounts
  <2>1. Init => Items(posts) = {} /\ Todo = {} /\ core.os = "none"
    BY DEF Init, Items, Todo
  <2> QED
    BY <2>1 DEF Accounts
<1>2. TypeOK /\ TypeOK' /\ NInv /\ Accounts /\ [Next]_vars => Accounts'
  BY NextAccounts
<1>3. TypeOK /\ TypeOK' /\ NInv /\ Accounts /\ [Next]_vars => [Rises]_vars
  BY RisesCounted
<1>4. QED
  BY <1>1, <1>2, <1>3, TypeCorrect, SupervisorFits, PTL DEF Spec, OnlyFaultsCount
=============================================================================
