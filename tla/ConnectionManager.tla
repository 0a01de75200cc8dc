------------------------- MODULE ConnectionManager -------------------------
(***************************************************************************)
(* Engine::ConnectionManager: starts, stops and switches the profile.      *)
(*                                                                         *)
(* A start request is answered by one startFinished. Until then it may     *)
(* wait for the kill switch to settle, for the core to come up, for a      *)
(* ranking sweep, in the start worker, or in a call posted to the main     *)
(* thread. The main thread, one start worker (mu_starting), one stop       *)
(* worker (mu_stopping) and DS_cores, which stops the profile of a dead    *)
(* core, interleave. CoreSupervisor and KillSwitch are represented by what *)
(* the manager asks of them; modules of their own describe them.           *)
(***************************************************************************)
EXTENDS Naturals, Sequences, FiniteSets

CONSTANTS
  Profiles,    \* profile ids
  NoProfile,   \* -1
  TunRequired, \* headless: a boot profile is not started without its Tun
  MaxSerial,   \* bound: requests with a serial, the boot's included
  MaxEvents    \* bound: stops, core deaths, mode changes and failures with a retry

ASSUME ProfilesAssumption == NoProfile \notin Profiles
ASSUME BoundsAssumption ==
  /\ TunRequired \in BOOLEAN
  /\ MaxSerial \in Nat \ {0} /\ MaxEvents \in Nat

VARIABLES
  cm,        \* the manager's members that only the main thread touches
  env,       \* what it sees of CoreSupervisor and KillSwitch
  running,   \* m_running
  startedId, \* settings started_id
  endpoints, \* the profile whose VPN endpoints Stats maps
  startW,    \* the start worker: holds mu_starting unless idle
  stopW,     \* the stop worker: holds mu_stopping unless idle
  ui,        \* calls queued to the main thread
  ranking,   \* the request AutoSelectorController ranks for
  geoFetch,  \* the profile to retry once the geo assets are installed
  offers,    \* profiles whose failed start the user is offered to retry
  asked,     \* serials given out
  answered,  \* serials that got their startFinished
  used       \* how much of MaxEvents is used

workers == <<startW, stopW>>
profile == <<running, startedId, endpoints>>
vars == <<cm, env, profile, workers, ui, ranking, geoFetch, offers, asked, answered, used>>

MaybeProfile == Profiles \cup {NoProfile}
Request(p, n) == [profile |-> p, serial |-> n]
NoRequest == Request(NoProfile, 0)
Requests == [profile : MaybeProfile, serial : 0 .. MaxSerial]

Managers ==
  [ksDeferred : Requests, coreReq : Requests, bootSerial : 0 .. MaxSerial,
   guardRestart : BOOLEAN, connecting : BOOLEAN, disconnecting : BOOLEAN,
   geoRetried : MaybeProfile, tun : BOOLEAN, remember : BOOLEAN, held : BOOLEAN]
\* life: where the core is. listening: core_running. ds: DS_cores in stop().
Environments ==
  [life : {"coming", "up", "dying", "restarting", "gone", "refused"}, listening : BOOLEAN,
   probing : BOOLEAN, startWhenUp : MaybeProfile, identity : BOOLEAN,
   ks : {"Disabled", "Arming", "Armed", "Failed"}, ds : {"none", "check", "lock", "wait"}]
StartWorkers ==
  [pc : {"idle", "begin", "check", "lock", "wait", "rpc", "land", "unlock"}, req : Requests]
StopWorkers ==
  [pc : {"idle", "rpc", "clear", "teardown"}, manual : BOOLEAN, crash : BOOLEAN]
Calls ==
  [op : {"disconnecting", "cancelResume", "started", "failed", "connected"},
   req : Requests]

Idle == [pc |-> "idle", req |-> NoRequest]
NoStop == [pc |-> "idle", manual |-> FALSE, crash |-> FALSE]
Call(op, r) == [op |-> op, req |-> r]

TypeOK ==
  /\ cm \in Managers /\ env \in Environments
  /\ running \in MaybeProfile /\ startedId \in MaybeProfile /\ endpoints \in MaybeProfile
  /\ startW \in StartWorkers /\ stopW \in StopWorkers
  /\ ui \in Seq(Calls) /\ ranking \in Requests
  /\ geoFetch \in MaybeProfile /\ offers \in SUBSET Profiles
  /\ asked \in 0 .. MaxSerial /\ answered \in SUBSET (1 .. MaxSerial)
  /\ used \in 0 .. MaxEvents

\* setBootStart, then CoreSupervisor::start: serial 1, the boot's, waits for the first
\* coreStarted. An application that goes on without its IPC server boots no profile.
Init ==
  /\ \E p \in MaybeProfile, wantTun \in BOOLEAN, k \in {"Disabled", "Arming"},
        l \in {"coming", "refused"} :
       LET boot == IF p = NoProfile THEN NoRequest ELSE Request(p, 1) IN
       /\ l = "refused" => p = NoProfile
       /\ cm = [ksDeferred |-> NoRequest, coreReq |-> boot, bootSerial |-> boot.serial,
                guardRestart |-> FALSE, connecting |-> FALSE, disconnecting |-> FALSE,
                geoRetried |-> NoProfile, tun |-> FALSE, remember |-> wantTun, held |-> FALSE]
       /\ env = [life |-> l, listening |-> FALSE, probing |-> FALSE, startWhenUp |-> p,
                 identity |-> FALSE, ks |-> k, ds |-> "none"]
       /\ answered = {1} \ {boot.serial}
  /\ running = NoProfile /\ startedId = NoProfile /\ endpoints = NoProfile
  /\ startW = Idle /\ stopW = NoStop
  /\ ui = <<>> /\ ranking = NoRequest /\ geoFetch = NoProfile /\ offers = {}
  /\ asked = 1 /\ used = 0

Event == used < MaxEvents /\ used' = used + 1

-----------------------------------------------------------------------------
(* start() and what it leaves a request to. x bundles the state that one   *)
(* main-thread handler changes on its way.                                 *)

Now == [cm |-> cm, env |-> env, answered |-> answered, ranking |-> ranking, startW |-> startW]
Becomes(x) ==
  /\ cm' = x.cm /\ env' = x.env /\ answered' = x.answered
  /\ ranking' = x.ranking /\ startW' = x.startW

\* startFinished.
Answer(x, r) == [x EXCEPT !.answered = @ \cup ({r.serial} \ {0})]

\* Mutated form of deferStartToCore: the request that waited is dropped.
deferStartToCore_Drops(x, r) == [x EXCEPT !.cm.coreReq = r]
deferStartToCore(x, r) == [Answer(x, x.cm.coreReq) EXCEPT !.cm.coreReq = r]

Restarting(e, p) == [e EXCEPT !.life = "restarting", !.probing = FALSE, !.startWhenUp = p]

\* restartForGuard: DS_cores stops the profile before it replaces the core.
Replacing(e, p) ==
  [Restarting(e, p) EXCEPT !.ds = IF e.ds = "none" THEN "check" ELSE e.ds]

restartCoreForGuard(x, r) ==
  LET y == [deferStartToCore(x, r) EXCEPT !.env.startWhenUp = r.profile]
  IN IF x.env.life = "refused" THEN Answer(x, r)
     ELSE IF x.cm.guardRestart THEN y
     ELSE [y EXCEPT !.cm.guardRestart = TRUE, !.env = Replacing(@, r.profile)]

runningWithoutGuardIdentity(e) == e.listening /\ ~e.identity
NeedsGuardRestart(x) ==
  x.cm.guardRestart \/ (x.env.ks = "Armed" /\ runningWithoutGuardIdentity(x.env))
AllowsStart(x) == x.env.ks \in {"Disabled", "Armed"}

\* mu_starting or mu_stopping is held.
Locked(x) == x.startW.pc # "idle" \/ stopW.pc # "idle"

\* The locks are tried, then the request goes to the core or to a worker.
Dispatch(x, r) ==
  \/ /\ Locked(x)
     /\ Becomes(Answer(x, r))
  \/ /\ ~Locked(x) /\ x.env.probing
     /\ Becomes([deferStartToCore(x, r) EXCEPT !.env.startWhenUp = r.profile])
  \/ /\ ~Locked(x) /\ ~x.env.probing /\ ~x.env.listening /\ x.env.life = "refused"
     /\ Becomes(Answer(x, r))
  \/ /\ ~Locked(x) /\ ~x.env.probing /\ ~x.env.listening /\ x.env.life # "refused"
     /\ Becomes([deferStartToCore(x, r) EXCEPT !.env = Restarting(@, r.profile)])
  \/ /\ ~Locked(x) /\ ~x.env.probing /\ x.env.listening
     /\ Becomes([x EXCEPT !.startW = [pc |-> "begin", req |-> r], !.cm.connecting = TRUE])

\* ++m_geoRetryToken disowns a geo retry that is still to come. Then the request is
\* refused (exiting, no such profile, archived, no config), or waits for the kill
\* switch, for a restart that gives the core the guard identity or for a ranking
\* sweep (one at a time, and none right after one), or is dispatched.
start(x, r, ranked) ==
  /\ geoFetch' = NoProfile
  /\ \/ Becomes(Answer(x, r))
     \/ /\ x.env.ks = "Arming"
        /\ Becomes([Answer(x, x.cm.ksDeferred) EXCEPT !.cm.ksDeferred = r])
     \/ /\ AllowsStart(x) /\ NeedsGuardRestart(x)
        /\ Becomes(restartCoreForGuard(x, r))
     \/ /\ AllowsStart(x) /\ ~NeedsGuardRestart(x) /\ ~ranked /\ x.ranking = NoRequest
        /\ Becomes([x EXCEPT !.ranking = r])
     \/ /\ AllowsStart(x) /\ ~NeedsGuardRestart(x)
        /\ Dispatch(x, r)

untouched == <<profile, stopW, offers>>

\* A start from the window or the API; so does every change that restarts the
\* started profile (restartStartedProfile, applyPendingRestart, chooseRoute).
StartRequested(p) ==
  /\ asked < MaxSerial
  /\ asked' = asked + 1
  /\ start(Now, Request(p, asked + 1), FALSE)
  /\ UNCHANGED <<untouched, ui, used>>

RankingDone ==
  /\ ranking # NoRequest
  /\ start([Now EXCEPT !.ranking = NoRequest], ranking, TRUE)
  /\ UNCHANGED <<untouched, ui, asked, used>>

-----------------------------------------------------------------------------
(* The core and the kill switch.                                           *)

\* Mutated form of HeldBack: compared with m_bootSerial after it was cleared.
HeldBack_Cleared(x, r, boot) == x.cm.held /\ r.serial # 0 /\ r.serial = x.cm.bootSerial
HeldBack(x, r, boot) == x.cm.held /\ r.serial # 0 /\ r.serial = boot

\* coreStarted: the remembered Tun is restored or held, the request that waited
\* runs if it asked for this profile, and the boot's only with its Tun.
onCoreStarted(x, id) ==
  LET req  == x.cm.coreReq
      boot == x.cm.bootSerial
      y == [x EXCEPT !.cm.guardRestart = FALSE, !.cm.coreReq = NoRequest, !.cm.bootSerial = 0]
      z == IF req.profile = id THEN y ELSE Answer(y, req)
      next == IF req.profile = id THEN req ELSE Request(id, 0)
  IN \/ /\ id = NoProfile
        /\ Becomes(z) /\ UNCHANGED geoFetch
     \/ /\ id # NoProfile /\ HeldBack(z, next, boot)
        /\ Becomes(Answer(z, next)) /\ UNCHANGED geoFetch
     \/ /\ id # NoProfile /\ ~HeldBack(z, next, boot)
        /\ start(z, next, FALSE)

RestoreTun(m, works) ==
  LET tun == m.tun \/ (m.remember /\ works)
  IN [m EXCEPT !.tun = tun, !.held = TunRequired /\ m.remember /\ ~tun]

\* A guard that failed for privileges is armed again.
Rearmed(k) == IF k = "Failed" THEN {"Failed", "Arming"} ELSE {k}

CoreStarted ==
  /\ env.probing
  /\ \E works \in BOOLEAN, k \in Rearmed(env.ks) :
       onCoreStarted([Now EXCEPT !.cm = RestoreTun(@, works),
                                 !.env = [@ EXCEPT !.probing = FALSE, !.ks = k,
                                                   !.startWhenUp = NoProfile]],
                     env.startWhenUp)
  /\ UNCHANGED <<untouched, ui, asked, used>>

\* The core's connection is accepted.
CoreConnects ==
  /\ env.life = "coming"
  /\ env' = [env EXCEPT !.life = "up", !.listening = TRUE, !.probing = TRUE]
  /\ UNCHANGED <<cm, profile, workers, ui, ranking, geoFetch, offers, asked, answered, used>>

\* The core ends; DS_cores stops its profile before it reports the exit.
CoreDies ==
  /\ env.life \in {"coming", "up"} /\ env.ds = "none"
  /\ Event
  /\ env' = [env EXCEPT !.life = "dying", !.listening = FALSE, !.ds = "check"]
  /\ UNCHANGED <<cm, profile, workers, ui, ranking, geoFetch, offers, asked, answered>>

\* Mutated form of onCoreGaveUp: the request keeps waiting for a core.
onCoreGaveUp_Kept(x) == [x EXCEPT !.cm.guardRestart = FALSE]
onCoreGaveUp(x) ==
  [Answer(x, x.cm.coreReq) EXCEPT !.cm.coreReq = NoRequest, !.cm.guardRestart = FALSE]

\* The exit report: the core is restarted, with what already waited for it or else
\* with the started profile (an expected exit takes that one anyway, and crashes too
\* frequent for it none), or the supervisor gives up.
CoreExited ==
  /\ env.life = "dying" /\ env.ds = "none"
  /\ \/ \E p \in {startedId} \cup
               (IF env.startWhenUp = NoProfile THEN {NoProfile} ELSE {env.startWhenUp}) :
          /\ env' = [env EXCEPT !.life = "restarting", !.probing = FALSE, !.startWhenUp = p]
          /\ startedId' = IF p = NoProfile THEN NoProfile ELSE startedId
          /\ UNCHANGED <<cm, answered, ranking, startW>>
     \/ /\ Becomes([onCoreGaveUp(Now) EXCEPT
                       !.env = [@ EXCEPT !.life = "gone", !.probing = FALSE,
                                         !.startWhenUp = NoProfile]])
        /\ startedId' = NoProfile
  /\ UNCHANGED <<running, endpoints, stopW, ui, geoFetch, offers, asked, used>>

\* DS_cores spawns the successor, with the identity if the kill switch is on.
CoreRestarts ==
  /\ env.life = "restarting" /\ env.ds = "none"
  /\ env' = [env EXCEPT !.life = "coming", !.listening = FALSE,
                        !.identity = (env.ks # "Disabled")]
  /\ UNCHANGED <<cm, profile, workers, ui, ranking, geoFetch, offers, asked, answered, used>>

\* kGuardRestartWindowMs passed.
GuardWindowEnds ==
  /\ cm.guardRestart
  /\ cm' = [cm EXCEPT !.guardRestart = FALSE]
  /\ UNCHANGED <<env, profile, workers, ui, ranking, geoFetch, offers, asked, answered, used>>

SetKillSwitch ==
  /\ Event
  /\ env.ks # "Arming"
  /\ env' = [env EXCEPT !.ks = IF env.ks = "Disabled" THEN "Arming" ELSE "Disabled"]
  /\ UNCHANGED <<cm, profile, workers, ui, ranking, geoFetch, offers, asked, answered>>

\* onKillSwitchStateChanged: a core without the identity is restarted, with the
\* start that waits for it if it is being probed.
onKillSwitchStateChanged(x) ==
  LET waits == x.env.probing /\ x.env.startWhenUp # NoProfile
      carried == CASE waits /\ x.cm.coreReq # NoRequest -> x.cm.coreReq
                   [] waits /\ x.cm.coreReq = NoRequest -> Request(x.env.startWhenUp, 0)
                   [] OTHER -> Request(startedId, 0)
      taken == IF waits THEN [x EXCEPT !.cm.coreReq = NoRequest] ELSE x
  IN IF x.env.ks = "Armed" /\ ~x.cm.guardRestart /\ runningWithoutGuardIdentity(x.env)
     THEN restartCoreForGuard(taken, carried)
     ELSE x

\* The guard is armed, has failed or was turned off: stateChanged, then the waiter.
KillSwitchSettles ==
  /\ env.ks = "Arming"
  /\ \E k \in {"Armed", "Failed", "Disabled"} :
       LET x == onKillSwitchStateChanged([Now EXCEPT !.env.ks = k])
           y == [x EXCEPT !.cm.ksDeferred = NoRequest]
       IN \/ /\ cm.ksDeferred = NoRequest
             /\ Becomes(x) /\ UNCHANGED geoFetch
          \/ /\ cm.ksDeferred # NoRequest
             /\ start(y, cm.ksDeferred, FALSE)
  /\ UNCHANGED <<untouched, ui, asked, used>>

\* setTun of a change that is saved: it restarts the started profile.
SetTun(enable) ==
  /\ Event
  /\ cm.tun # enable \/ (cm.held /\ ~enable)
  /\ LET x == [Now EXCEPT !.cm = [@ EXCEPT !.tun = enable, !.remember = enable, !.held = FALSE]]
     IN \/ /\ startedId = NoProfile \/ cm.tun = enable
           /\ Becomes(x) /\ UNCHANGED <<asked, geoFetch>>
        \/ /\ startedId # NoProfile /\ cm.tun # enable /\ asked < MaxSerial
           /\ asked' = asked + 1
           /\ start(x, Request(startedId, asked + 1), FALSE)
  /\ UNCHANGED <<untouched, ui>>

-----------------------------------------------------------------------------
(* stop(), on the main thread, on the start worker and on DS_cores.        *)

StopWorker(manual, crash) == [pc |-> "rpc", manual |-> manual, crash |-> crash]

cancelResume ==
  /\ env' = [env EXCEPT !.startWhenUp = NoProfile]
  /\ startedId' = NoProfile

\* A stop on the main thread: the user's, or of a group that is being deleted.
StopRequested(manual) ==
  /\ Event
  /\ geoFetch' = IF manual THEN NoProfile ELSE geoFetch
  /\ \/ /\ running = NoProfile /\ manual
        /\ cancelResume
        /\ UNCHANGED <<cm, stopW>>
     \/ /\ running # NoProfile /\ stopW.pc = "idle"
        /\ stopW' = StopWorker(manual, FALSE)
        /\ cm' = [cm EXCEPT !.disconnecting = TRUE]
        /\ UNCHANGED <<env, startedId>>
  /\ UNCHANGED <<running, endpoints, startW, ui, ranking, offers, asked, answered>>

stopFrame == <<profile, ranking, offers, asked, answered, used>>

\* DS_cores in stop({crash, block}): the profile is looked at, then the lock is tried.
DsCoresChecks ==
  /\ env.ds = "check"
  /\ env' = [env EXCEPT !.ds = IF running = NoProfile THEN "none" ELSE "lock"]
  /\ UNCHANGED <<cm, startW, stopW, ui, geoFetch, stopFrame>>

DsCoresLocks ==
  /\ env.ds = "lock"
  /\ \/ /\ stopW.pc = "idle"
        /\ stopW' = StopWorker(FALSE, TRUE)
        /\ ui' = Append(ui, Call("disconnecting", NoRequest))
        /\ env' = [env EXCEPT !.ds = "wait"]
     \/ /\ stopW.pc # "idle"
        /\ env' = [env EXCEPT !.ds = "none"]
        /\ UNCHANGED <<stopW, ui>>
  /\ UNCHANGED <<cm, startW, geoFetch, stopFrame>>

\* The worker of a stop: the Stop RPC, unless the core is dead.
StopRpc ==
  /\ stopW.pc = "rpc"
  /\ stopW' = [stopW EXCEPT !.pc = "clear"]
  /\ UNCHANGED <<cm, env, startW, ui, geoFetch, stopFrame>>

\* The profile is gone whatever the RPC said.
StopClears ==
  /\ stopW.pc = "clear"
  /\ stopW' = [stopW EXCEPT !.pc = "teardown"]
  /\ running' = NoProfile
  /\ startedId' = IF stopW.manual THEN NoProfile ELSE startedId
  /\ UNCHANGED <<cm, env, endpoints, startW, ui, ranking, geoFetch, offers, asked, answered,
                 used>>

\* The end of a stop on the main thread: noteRunStopped, then mu_stopping is released.
StopTeardown ==
  /\ stopW.pc = "teardown"
  /\ stopW' = NoStop
  /\ cm' = [cm EXCEPT !.disconnecting = FALSE]
  /\ endpoints' = NoProfile
  /\ env' = [env EXCEPT !.ds = IF stopW.crash THEN "none" ELSE @]
  /\ UNCHANGED <<running, startedId, startW, ui, ranking, geoFetch, offers, asked, answered,
                 used>>

-----------------------------------------------------------------------------
(* The start worker.                                                       *)

At(pc) == startW.pc = pc
Goto(pc) == startW' = [startW EXCEPT !.pc = pc]
Post(calls) == ui' = ui \o calls

WorkerBegins ==
  /\ At("begin")
  /\ Goto(IF running = NoProfile THEN "rpc" ELSE "check")
  /\ UNCHANGED <<cm, env, stopW, ui, geoFetch, stopFrame>>

\* stop() on the worker; it is manual, so with nothing left to stop it cancels a
\* resume.
WorkerChecks ==
  /\ At("check")
  /\ geoFetch' = NoProfile
  /\ Goto(IF running = NoProfile THEN "wait" ELSE "lock")
  /\ Post(IF running = NoProfile THEN <<Call("cancelResume", NoRequest)>> ELSE <<>>)
  /\ UNCHANGED <<cm, env, stopW, stopFrame>>

WorkerLocks ==
  /\ At("lock")
  /\ Goto("wait")
  /\ \/ /\ stopW.pc = "idle"
        /\ stopW' = StopWorker(TRUE, FALSE)
        /\ Post(<<Call("disconnecting", NoRequest)>>)
     \/ /\ stopW.pc # "idle"
        /\ UNCHANGED <<stopW, ui>>
  /\ UNCHANGED <<cm, env, geoFetch, stopFrame>>

\* Mutated form of WorkerWaited: the worker does not wait for a stop it found running.
WorkerWaited_Not ==
  /\ At("wait")
  /\ Goto("rpc")
  /\ UNCHANGED <<cm, env, stopW, ui, geoFetch, stopFrame>>
\* mu_stopping is taken and given back: whatever stop runs has ended.
WorkerWaited ==
  /\ At("wait") /\ stopW.pc = "idle"
  /\ Goto("rpc")
  /\ UNCHANGED <<cm, env, stopW, ui, geoFetch, stopFrame>>

\* The Start RPC succeeded: started_id and the endpoint map come before m_running.
StartRpcOk ==
  /\ At("rpc") /\ env.listening
  /\ Goto("land")
  /\ startedId' = startW.req.profile /\ endpoints' = startW.req.profile
  /\ UNCHANGED <<cm, env, running, stopW, ui, ranking, geoFetch, offers, asked, answered,
                 used>>

\* It failed, or the extra core was not let through: geo assets that are missing
\* are fetched for a retry, a leftover Tun adapter is offered one.
StartRpcFails ==
  /\ At("rpc")
  /\ startW' = [pc |-> "unlock", req |-> NoRequest]
  /\ Post(<<Call("failed", startW.req)>>)
  /\ LET p == startW.req.profile IN
       \/ UNCHANGED <<geoFetch, offers, used>>
       \/ Event /\ geoFetch' = p /\ UNCHANGED offers
       \/ Event /\ offers' = offers \cup {p} /\ UNCHANGED geoFetch
  /\ UNCHANGED <<cm, env, profile, stopW, ranking, asked, answered>>

WorkerLands ==
  /\ At("land")
  /\ startW' = [pc |-> "unlock", req |-> NoRequest]
  /\ running' = startW.req.profile
  /\ Post(<<Call("started", startW.req)>>)
  /\ UNCHANGED <<cm, env, startedId, endpoints, stopW, ranking, geoFetch, offers,
                 asked, answered, used>>

\* mu_starting is released before the last call is posted.
WorkerUnlocks ==
  /\ At("unlock")
  /\ startW' = Idle
  /\ Post(<<Call("connected", NoRequest)>>)
  /\ UNCHANGED <<cm, env, profile, stopW, ranking, geoFetch, offers, asked, answered, used>>

-----------------------------------------------------------------------------
(* Calls posted to the main thread.                                        *)

CMIdle == ~cm.connecting /\ ~cm.disconnecting /\ running = NoProfile

TakeCall ==
  /\ ui # <<>>
  /\ ui' = Tail(ui)
  /\ LET c == Head(ui) IN
       \/ /\ c.op = "disconnecting"
          /\ cm' = [cm EXCEPT !.disconnecting = TRUE]
          /\ UNCHANGED <<env, startedId, answered, ranking, startW, geoFetch>>
       \/ /\ c.op = "cancelResume"
          /\ cancelResume
          /\ UNCHANGED <<cm, answered, ranking, startW, geoFetch>>
       \/ /\ c.op = "started"
          /\ Becomes([Answer(Now, c.req) EXCEPT !.cm.geoRetried = NoProfile])
          /\ UNCHANGED <<startedId, geoFetch>>
       \/ /\ c.op = "failed"
          /\ Becomes(Answer(Now, c.req))
          /\ UNCHANGED <<startedId, geoFetch>>
       \/ /\ c.op = "connected"
          /\ cm' = [cm EXCEPT !.connecting = FALSE]
          /\ UNCHANGED <<env, startedId, answered, ranking, startW, geoFetch>>
  /\ UNCHANGED <<running, endpoints, stopW, offers, asked, used>>

\* offerLeftoverTunAdapterRetry was accepted or declined.
OfferAnswered(p) ==
  /\ p \in offers
  /\ offers' = offers \ {p}
  /\ \/ CMIdle /\ start(Now, Request(p, 0), FALSE)
     \/ Becomes(Now) /\ UNCHANGED geoFetch
  /\ UNCHANGED <<profile, stopW, ui, asked, used>>

\* retryAfterGeoFetch: once per profile, until one of its starts succeeds.
GeoFetched ==
  /\ geoFetch # NoProfile
  /\ LET retried == [Now EXCEPT !.cm.geoRetried = geoFetch]
         again == cm.geoRetried # geoFetch /\ CMIdle
     IN \/ again /\ start(retried, Request(geoFetch, 0), FALSE)
        \/ ~again /\ Becomes(retried) /\ geoFetch' = NoProfile
  /\ UNCHANGED <<untouched, ui, asked, used>>

Next ==
  \/ \E p \in Profiles : StartRequested(p) \/ OfferAnswered(p)
  \/ \E b \in BOOLEAN : StopRequested(b) \/ SetTun(b)
  \/ SetKillSwitch
  \/ CoreStarted \/ CoreConnects \/ CoreDies \/ CoreExited \/ CoreRestarts
  \/ GuardWindowEnds \/ KillSwitchSettles
  \/ DsCoresChecks \/ DsCoresLocks
  \/ StopRpc \/ StopClears \/ StopTeardown
  \/ WorkerBegins \/ WorkerChecks \/ WorkerLocks \/ WorkerWaited
  \/ StartRpcOk \/ StartRpcFails \/ WorkerLands \/ WorkerUnlocks
  \/ TakeCall \/ RankingDone \/ GeoFetched

Spec == Init /\ [][Next]_vars

\* Threads run, calls and RPCs end, a core that is coming connects or dies, and the
\* kill switch settles; users, modes, faults and the guard window owe nothing.
Fairness ==
  /\ WF_vars(StopRpc \/ StopClears \/ StopTeardown)
  /\ WF_vars(WorkerBegins \/ WorkerChecks \/ WorkerLocks \/ WorkerWaited \/ StartRpcOk
             \/ StartRpcFails \/ WorkerLands \/ WorkerUnlocks)
  /\ WF_vars(TakeCall) /\ WF_vars(RankingDone)
  /\ WF_vars(DsCoresChecks \/ DsCoresLocks) /\ WF_vars(KillSwitchSettles)
  /\ WF_vars(CoreConnects) /\ WF_vars(CoreStarted) /\ WF_vars(CoreExited)
  /\ WF_vars(CoreRestarts)

FairSpec == Spec /\ Fairness

-----------------------------------------------------------------------------
(* Properties.                                                             *)

\* Where the request with serial n is.
Places(n) ==
  {w \in {"ks", "core", "ranking", "worker", "answered"} :
     \/ w = "ks" /\ cm.ksDeferred.serial = n
     \/ w = "core" /\ cm.coreReq.serial = n
     \/ w = "ranking" /\ ranking.serial = n
     \/ w = "worker" /\ startW.req.serial = n
     \/ w = "answered" /\ n \in answered}
  \cup {i \in 1 .. Len(ui) : ui[i].req.serial = n}

\* "startFinished fires once per request": a request is never lost and never runs
\* or is answered twice; whatever it waits for, it is in one place.
OnePlace == \A n \in 1 .. asked : Cardinality(Places(n)) = 1

\* The core is never asked to start a profile while it is being asked to stop one.
OneCoreCall == ~(startW.pc = "rpc" /\ stopW.pc = "rpc" /\ ~stopW.crash)

\* Where Tun is required, the boot profile never starts while the Tun remembered
\* with it is neither up nor turned off by the user.
BootWantsTun ==
  startW.req.serial = 1 /\ TunRequired => cm.tun \/ ~cm.remember

\* Every request is answered in the end.
EveryRequestAnswered ==
  \A n \in 1 .. MaxSerial : (asked >= n) ~> (n \in answered)
=============================================================================
