----------------------------- MODULE KillSwitch -----------------------------
(***************************************************************************)
(* Sys::KillSwitch and the guard processes it spawns (guard.Run of         *)
(* ThroneCore --guard). A guard installs firewall rules that block every   *)
(* packet outside the tunnel, prints READY, and removes them when its      *)
(* stdin closes. The switch keeps at most one ready guard (active) and one *)
(* that is arming (pending), so that new settings take over without a gap. *)
(*                                                                         *)
(* KillSwitch runs on the UI thread; guards run by themselves and reach it *)
(* through their output, which is read in order, and their end. A guard's  *)
(* number is the order of its spawn, 0 stands for nullptr.                 *)
(***************************************************************************)
EXTENDS Naturals, Sequences

CONSTANTS
  Configs,     \* what buildConfig() can return
  Waiters,     \* callers of whenSettled() and whenIdle()
  MaxFaults,   \* bound: guards that fail, hang, crash or are refused
  MaxRequests  \* bound: settings changes, identity reports and exits

ASSUME ConfigsAssumption == Configs # {}
ASSUME KillSwitchBounds == MaxFaults \in Nat /\ MaxRequests \in Nat

VARIABLES
  enabled,    \* settings kill_switch
  overridden, \* overridden_ (--no-kill-switch)
  config,     \* what buildConfig() returns now
  phase,      \* "boot", "run", "exiting" (prepare_exit), "down" (shutdown_) or "dead"
  ks,         \* the other members of KillSwitch
  guards,     \* the guard processes, in the order of their spawn
  retries,    \* armFailed's timers that are running
  ports,      \* calls queued by SetApiPort
  faults,     \* how much of MaxFaults is used
  requests    \* how much of MaxRequests is used

vars == <<enabled, overridden, config, phase, ks, guards, retries, ports, faults, requests>>

\* The failures that a new guard cannot help (privilege, unsupported, config), and
\* those that it may (tampered, internal, crash, timeout).
Codes == {"persistent", "transient"}

Switches ==
  [state : {"Disabled", "Arming", "Armed", "Failed"}, active : Nat, pending : Nat,
   code : Codes \cup {"none", "identity", "overridden"}, identityUnsupported : BOOLEAN,
   respawned : BOOLEAN, waiters : SUBSET [who : Waiters, idle : BOOLEAN]]

\* late: it was silent for kReadyTimeoutMs. refused: it ended with a persistent code.
\* proc: armed while its rules are in force, gone once KillSwitch has seen its end.
Guards ==
  [config : Configs, closing : BOOLEAN, ready : BOOLEAN, late : BOOLEAN, refused : BOOLEAN,
   proc : {"starting", "armed", "execFailed", "ended", "gone"},
   out : Seq([verb : {"READY", "ERROR", "FAIL"}, code : Codes])]

NewGuard(c) ==
  [config |-> c, closing |-> FALSE, ready |-> FALSE, late |-> FALSE, refused |-> FALSE,
   proc |-> "starting", out |-> <<>>]
Line(verb, code) == [verb |-> verb, code |-> code]

Init ==
  /\ enabled \in BOOLEAN /\ overridden \in BOOLEAN
  /\ config \in Configs
  /\ phase = "boot"
  /\ ks = [state |-> "Disabled", active |-> 0, pending |-> 0, code |-> "none",
           identityUnsupported |-> FALSE, respawned |-> FALSE, waiters |-> {}]
  /\ guards = <<>>
  /\ retries = 0 /\ ports = 0 /\ faults = 0 /\ requests = 0

\* The application runs; its event loop serves KillSwitch.
Alive == phase # "dead"

-----------------------------------------------------------------------------
(* KillSwitch's helpers. They take its members k and the guards gs, and    *)
(* the ones that change both return the pair of them.                      *)

\* The step ends with the pair r.
Now(r) == ks' = r[1] /\ guards' = r[2]

\* closeGuard for every guard of S: stdin is closed, the end is expected.
closeGuard(gs, S) ==
  [g \in DOMAIN gs |-> IF g \in S THEN [gs[g] EXCEPT !.closing = TRUE] ELSE gs[g]]

StillWaits(k, w) == IF w.idle THEN k.pending # 0 ELSE k.state = "Arming"
\* Calls every waiter back that has nothing left to wait for.
settle(k) == [k EXCEPT !.waiters = {w \in k.waiters : StillWaits(k, w)}]

\* Every state but Failed clears the failure code.
setState(k, state) == [k EXCEPT !.state = state, !.code = "none"]
\* Mutated form of fail: the waiters are not called.
fail_Unsettled(k, code) == [k EXCEPT !.state = "Failed", !.code = code]
fail(k, code) == settle([k EXCEPT !.state = "Failed", !.code = code])
failIdentity(k) == fail(k, "identity")

\* Mutated form of spawn: the guard in force is closed before the new one is ready.
spawn_CloseFirst(k, gs, c) ==
  << [setState(k, "Arming") EXCEPT !.active = 0, !.pending = Len(gs) + 1],
     Append(closeGuard(gs, {k.active, k.pending}), NewGuard(c)) >>
\* The pending guard is replaced at once, the active one when the new one is ready.
\* A failed start is reported after start(), although on Windows it is synchronous:
\* spawn is always the last thing its callers do.
spawn(k, gs, c) ==
  << [(IF k.active = 0 /\ ~k.identityUnsupported THEN setState(k, "Arming") ELSE k)
        EXCEPT !.pending = Len(gs) + 1],
     Append(closeGuard(gs, {k.pending}), NewGuard(c)) >>

\* Under an identity failure an armed switch refuses profiles, with its guard kept.
Identified(k) ==
  IF k.identityUnsupported /\ k.state = "Armed" THEN failIdentity(k) ELSE k

\* The switch goes to k1 without any of its guards.
Off(k, gs, k1) ==
  << settle([k1 EXCEPT !.active = 0, !.pending = 0]), closeGuard(gs, {k.active, k.pending}) >>

\* Arms a guard for the configuration c unless one is armed or arming for it.
Arm(k, gs, c) ==
  IF k.pending # 0 /\ gs[k.pending].config = c THEN <<k, gs>>
  ELSE IF k.active # 0 /\ gs[k.active].config = c
       THEN << (IF k.pending = 0 THEN k ELSE settle([k EXCEPT !.pending = 0])),
               closeGuard(gs, {k.pending}) >>
       ELSE spawn(k, gs, c)

\* KillSwitch::apply, with the setting on and the configuration c.
apply(k, gs, on, c) ==
  CASE phase = "down" -> <<k, gs>>
    [] phase # "down" /\ ~on ->
         Off(k, gs, setState([k EXCEPT !.identityUnsupported = FALSE], "Disabled"))
    [] phase # "down" /\ on /\ overridden ->
         Off(k, gs, [k EXCEPT !.state = "Failed", !.code = "overridden"])
    [] phase # "down" /\ on /\ ~overridden -> Arm(Identified(k), gs, c)

\* Mutated form of Retried: the previous settings stay in force for good.
Retried_Never(code) == 0
\* The timers armFailed starts.
Retried(code) == IF code = "transient" THEN 1 ELSE 0

\* A pending guard is lost: the active one stays in force, and apply() is called
\* again later unless that cannot help.
armFailed(k, gs, code) ==
  /\ Now(<<IF k.active # 0 THEN settle(k) ELSE fail(k, code), gs>>)
  /\ retries' = retries + (IF k.active # 0 THEN Retried(code) ELSE 0)

\* The active guard is lost while its replacement is arming.
LostWithPending(k) == settle(IF k.identityUnsupported THEN k ELSE setState(k, "Arming"))

\* The active guard is lost. lastRespawn_ allows one new guard, and another one when
\* kRespawnIntervalMs have passed, which may or may not be so.
protectionLost(k, gs, code) ==
  /\ phase # "down" /\ Alive
  /\ UNCHANGED retries
  /\ IF ~enabled THEN Now(apply(k, gs, enabled, config))
     ELSE \/ k.pending # 0 /\ Now(<<LostWithPending(k), gs>>)
          \/ /\ k.pending = 0 /\ code = "transient"
             /\ Now(spawn([k EXCEPT !.respawned = TRUE], gs, config))
          \/ /\ k.pending = 0 /\ (code = "transient" => k.respawned)
             /\ Now(<<fail(k, code), gs>>)

\* The guard g, closed already in gs, has ended or said that it will.
Lost(g, gs, code) ==
  \/ g = ks.active /\ protectionLost([ks EXCEPT !.active = 0], gs, code)
  \/ g = ks.pending /\ armFailed([ks EXCEPT !.pending = 0], gs, code)
  \/ /\ g \notin {ks.active, ks.pending}
     /\ guards' = gs
     /\ UNCHANGED <<ks, retries>>

-----------------------------------------------------------------------------
(* What the UI thread handles.                                             *)

Request ==
  /\ requests < MaxRequests
  /\ requests' = requests + 1

\* EngineHost's first apply(), before it starts the core.
Boot ==
  /\ phase = "boot"
  /\ phase' = "run"
  /\ Now(apply(ks, guards, enabled, config))
  /\ UNCHANGED <<enabled, overridden, config, retries, ports, faults, requests>>

\* The kill switch is turned on or off, or another setting of the guard changes.
ChangeSettings(on, c) ==
  /\ Request /\ phase = "run"
  /\ enabled' = on /\ config' = c
  /\ Now(apply(ks, guards, on, c))
  /\ UNCHANGED <<overridden, phase, retries, ports, faults>>

\* The API server's thread publishes its port and queues the rest.
SetApiPort(c) ==
  /\ Request /\ phase # "down" /\ Alive
  /\ c # config
  /\ config' = c
  /\ ports' = ports + 1
  /\ UNCHANGED <<enabled, overridden, phase, ks, guards, retries, faults>>

\* A guard kept under the identity failure needs the new port too.
PortApplies ==
  /\ ks.state \in {"Arming", "Armed"} \/ ks.active # 0 \/ ks.pending # 0
  /\ phase # "exiting"

PortChanged ==
  /\ ports > 0 /\ phase # "down" /\ Alive
  /\ ports' = ports - 1
  /\ Now(IF PortApplies THEN apply(ks, guards, enabled, config) ELSE <<ks, guards>>)
  /\ UNCHANGED <<enabled, overridden, config, phase, retries, faults, requests>>

\* A core exited because it cannot adopt the guard group (CoreSupervisor).
noteIdentityUnsupported ==
  /\ Request /\ phase = "run" /\ ~ks.identityUnsupported
  /\ Now(apply([ks EXCEPT !.identityUnsupported = TRUE], guards, enabled, config))
  /\ UNCHANGED <<enabled, overridden, config, phase, retries, ports, faults>>

\* A core has connected, perhaps with the privileges that the guard needed.
CoreStarted ==
  /\ Request /\ phase = "run"
  /\ ks.state = "Failed" /\ ks.code = "persistent"
  /\ Now(apply(ks, guards, enabled, config))
  /\ UNCHANGED <<enabled, overridden, config, phase, retries, ports, faults>>

\* w waits. A caller with nothing to wait for is called back at once.
Waiting(k, w) == IF StillWaits(k, w) THEN [k EXCEPT !.waiters = k.waiters \cup {w}] ELSE k
Idle(w) == \A v \in ks.waiters : v.who # w

\* A profile start or the headless boot waits for the switch.
whenSettled(w) ==
  /\ phase = "run" /\ Idle(w)
  /\ ks.state = "Arming"
  /\ ks' = Waiting(ks, [who |-> w, idle |-> FALSE])
  /\ UNCHANGED <<enabled, overridden, config, phase, guards, retries, ports, faults, requests>>

\* A worker asks for an extra core's executable (Windows): the path is saved, which
\* makes the configuration c, and the worker waits until no guard is arming.
permitExtraCore(w, c) ==
  /\ Request /\ phase = "run" /\ Idle(w)
  /\ ks.state # "Disabled"
  /\ config' = c
  /\ LET r == apply(ks, guards, enabled, c)
     IN Now(<<Waiting(r[1], [who |-> w, idle |-> TRUE]), r[2]>>)
  /\ UNCHANGED <<enabled, overridden, phase, retries, ports, faults>>

\* armFailed's timer fires.
RetryApply ==
  /\ retries > 0 /\ Alive
  /\ retries' = retries - 1
  /\ Now(IF phase # "run" \/ ks.pending # 0 \/ ks.active = 0 THEN <<ks, guards>>
         ELSE apply(ks, guards, enabled, config))
  /\ UNCHANGED <<enabled, overridden, config, phase, ports, faults, requests>>

BeginExit ==
  /\ Request /\ phase = "run"
  /\ phase' = "exiting"
  /\ UNCHANGED <<enabled, overridden, config, ks, guards, retries, ports, faults>>

\* KillSwitch::shutdown, once the core is gone.
Shutdown ==
  /\ phase = "exiting"
  /\ phase' = "down"
  /\ ks' = [ks EXCEPT !.active = 0, !.pending = 0, !.waiters = {}]
  /\ guards' = closeGuard(guards, DOMAIN guards)
  /\ UNCHANGED <<enabled, overridden, config, retries, ports, faults, requests>>

lineFrame == <<enabled, overridden, config, phase, ports, faults, requests>>

\* Mutated form of Awaited: the late READY of a guard given up on counts.
Awaited_Any(g, gs) == ~gs[g].ready
\* READY counts when it comes from the guard that is arming.
Awaited(g, gs) == g = ks.pending /\ ~gs[g].ready

\* The pending guard takes over, and only now the previous one is closed.
onReady(g, gs) ==
  /\ UNCHANGED retries
  /\ LET k == [ks EXCEPT !.active = g, !.pending = 0]
     IN Now(IF ~Awaited(g, gs) THEN <<ks, gs>>
            ELSE << (IF k.identityUnsupported THEN failIdentity(k)
                     ELSE settle(setState(k, "Armed"))),
                    closeGuard([gs EXCEPT ![g].ready = TRUE], {ks.active}) >>)

\* The next line that g printed: READY, or ERROR and FAIL with a code.
handleLine(g) ==
  /\ Alive /\ guards[g].proc # "gone" /\ guards[g].out # <<>>
  /\ LET line == Head(guards[g].out)
         gs == [guards EXCEPT ![g].out = Tail(guards[g].out)]
     IN \/ line.verb = "READY" /\ onReady(g, gs)
        \/ /\ line.verb # "READY" /\ guards[g].closing
           /\ guards' = gs
           /\ UNCHANGED <<ks, retries>>
        \/ /\ line.verb # "READY" /\ ~guards[g].closing
           /\ Lost(g, closeGuard(gs, {g}), line.code)
  /\ UNCHANGED lineFrame

\* Mutated form of onReadyTimeout: the timer is set for a replacement only.
onReadyTimeout_Replacing(g) ==
  /\ Alive /\ guards[g].late /\ g = ks.pending /\ ~guards[g].ready /\ ks.active # 0
  /\ armFailed([ks EXCEPT !.pending = 0], closeGuard(guards, {g}), "transient")
  /\ UNCHANGED lineFrame
\* The guard is closed and stopped hard (StopHard); its READY may be on the way.
onReadyTimeout(g) ==
  /\ Alive /\ guards[g].late /\ g = ks.pending /\ ~guards[g].ready
  /\ armFailed([ks EXCEPT !.pending = 0], closeGuard(guards, {g}), "transient")
  /\ UNCHANGED lineFrame

\* onStartFailed, or onFinished once the guard's output is read.
onEnded(g) ==
  /\ Alive /\ guards[g].proc \in {"execFailed", "ended"} /\ guards[g].out = <<>>
  /\ LET gs == [closeGuard(guards, {g}) EXCEPT ![g].proc = "gone"]
     IN IF guards[g].closing
        THEN guards' = gs /\ UNCHANGED <<ks, retries>>
        ELSE Lost(g, gs, "transient")
  /\ UNCHANGED lineFrame

\* onReadyTimeout, closeGuard's grace timer or the end of shutdown's wait stop a
\* closed guard. On macOS this is SIGTERM, which a guard heeds once Arm returns.
StopHard(g) ==
  /\ Alive /\ guards[g].closing /\ guards[g].proc \in {"starting", "armed"}
  /\ guards' = [guards EXCEPT ![g].proc = "ended"]
  /\ UNCHANGED <<ks, retries, lineFrame>>

-----------------------------------------------------------------------------
(* The guard process, guard.Run.                                           *)

Fault ==
  /\ faults < MaxFaults
  /\ faults' = faults + 1

guardFrame == <<enabled, overridden, config, phase, ks, retries, ports, requests>>

\* The process of g is in the state proc, after it printed lines.
Becomes(g, proc, lines) ==
  guards' = [guards EXCEPT ![g].proc = proc, ![g].out = guards[g].out \o lines]

\* Arm has installed the rules.
GuardArms(g) ==
  /\ guards[g].proc = "starting"
  /\ Becomes(g, "armed", <<Line("READY", "transient")>>)
  /\ UNCHANGED <<faults, guardFrame>>

\* Mutated form of GuardDisarms: no watchParent, and a child of the application holds
\* the pipe open.
GuardDisarms_PipeOnly(g) ==
  /\ guards[g].closing /\ guards[g].proc \in {"starting", "armed"}
  /\ Becomes(g, "ended", <<>>)
  /\ UNCHANGED <<faults, guardFrame>>
\* Its stdin is closed or its parent is gone: a guard removes its rules and ends.
GuardDisarms(g) ==
  /\ guards[g].closing \/ ~Alive
  /\ guards[g].proc \in {"starting", "armed"}
  /\ Becomes(g, "ended", <<>>)
  /\ UNCHANGED <<faults, guardFrame>>

\* The configuration is rejected, or Arm fails.
GuardRefuses(g, code) ==
  /\ Fault
  /\ guards[g].proc = "starting"
  /\ guards' = [guards EXCEPT ![g].proc = "ended", ![g].refused = (code = "persistent"),
                              ![g].out = Append(guards[g].out, Line("ERROR", code))]
  /\ UNCHANGED guardFrame

\* Another program removed the rules, or a watcher panicked.
GuardFails(g) ==
  /\ Fault
  /\ guards[g].proc = "armed"
  /\ Becomes(g, "ended", <<Line("FAIL", "transient")>>)
  /\ UNCHANGED guardFrame

\* The application dies. Nobody closes its guards or stops them any more.
AppDies ==
  /\ Fault
  /\ phase \notin {"down", "dead"}
  /\ phase' = "dead"
  /\ UNCHANGED <<enabled, overridden, config, ks, guards, retries, ports, requests>>

\* It cannot be executed or crashes.
GuardBreaks(g) ==
  /\ Fault
  /\ \/ guards[g].proc = "starting" /\ Becomes(g, "execFailed", <<>>)
     \/ guards[g].proc \in {"starting", "armed"} /\ Becomes(g, "ended", <<>>)
  /\ UNCHANGED guardFrame

\* Arm takes longer than kReadyTimeoutMs, or does not return.
GuardHangs(g) ==
  /\ Fault
  /\ guards[g].proc = "starting" /\ ~guards[g].late
  /\ guards' = [guards EXCEPT ![g].late = TRUE]
  /\ UNCHANGED guardFrame

-----------------------------------------------------------------------------
Requests ==
  \/ \E on \in BOOLEAN, c \in Configs : ChangeSettings(on, c)
  \/ \E c \in Configs : SetApiPort(c)
  \/ noteIdentityUnsupported \/ CoreStarted \/ BeginExit
  \/ \E w \in Waiters : whenSettled(w) \/ \E c \in Configs : permitExtraCore(w, c)

\* What the event loop of the UI thread runs when it is due.
Handlers ==
  \/ Boot \/ PortChanged \/ RetryApply
  \/ \E g \in DOMAIN guards : handleLine(g) \/ onReadyTimeout(g) \/ onEnded(g) \/ StopHard(g)

Processes == \E g \in DOMAIN guards : GuardDisarms(g) \/ GuardArms(g)

Breakage ==
  \E g \in DOMAIN guards :
    \/ GuardFails(g) \/ GuardBreaks(g) \/ GuardHangs(g)
    \/ \E code \in Codes : GuardRefuses(g, code)

Next == Requests \/ Handlers \/ Shutdown \/ AppDies \/ Processes \/ Breakage

Spec == Init /\ [][Next]_vars

\* No behaviour spawns more: Boot, a request and a fault each lead to one guard.
MaxGuards == 1 + MaxRequests + MaxFaults

\* The event loop runs, and a guard that does not hang in Arm goes on.
Fairness ==
  /\ WF_vars(Handlers)
  /\ \A g \in 1..MaxGuards :
       WF_vars(/\ g \in DOMAIN guards /\ (guards[g].late => guards[g].proc = "armed")
               /\ GuardArms(g) \/ GuardDisarms(g))

FairSpec == Spec /\ Fairness

-----------------------------------------------------------------------------
(* Properties.                                                             *)

\* Every variable holds a value of its kind, and a failure code goes with Failed only.
TypeOK ==
  /\ enabled \in BOOLEAN /\ overridden \in BOOLEAN
  /\ config \in Configs
  /\ phase \in {"boot", "run", "exiting", "down", "dead"}
  /\ ks \in Switches /\ (ks.code = "none" <=> ks.state # "Failed")
  /\ guards \in Seq(Guards)
  /\ retries \in Nat /\ ports \in Nat
  /\ faults \in 0..MaxFaults /\ requests \in 0..MaxRequests

\* allowsStart() lets a profile start when the switch is armed. Then a guard that
\* was READY and that nobody has closed is in force, or its end has not been seen
\* yet, whatever READY, ERROR and FAIL lines of other guards are still on the way.
ArmedIsGuarded ==
  ks.state = "Armed" /\ phase # "down" =>
    /\ ~ks.identityUnsupported
    /\ ks.active \in DOMAIN guards
    /\ guards[ks.active].ready /\ ~guards[ks.active].closing
    /\ guards[ks.active].proc \in {"armed", "ended"}

\* The other states agree with the guards that are kept: none when the switch is off
\* (allowsStart() is true then), only a pending one while it is arming, and none when
\* it has failed, unless that is because of the core's identity.
StateAgrees ==
  phase # "down" =>
    /\ ks.state = "Disabled" => ks.active = 0 /\ ks.pending = 0 /\ ~ks.identityUnsupported
    /\ ks.state = "Arming" => ks.active = 0 /\ ks.pending # 0
    /\ ks.state = "Failed" /\ ~ks.identityUnsupported => ks.active = 0 /\ ks.pending = 0

\* What KillSwitch reports is true of its guards, whatever it reports.
StateIsTrue == ArmedIsGuarded /\ StateAgrees

\* No caller of whenSettled() or permitExtraCore() is forgotten, whatever ends the
\* arming it waits for: whoever is still on the list has something to wait for.
NoForgottenWaiter == \A w \in ks.waiters : StillWaits(ks, w)

\* The settings reach the guard: one that is in force with other settings is being
\* replaced, or a call that will replace it is queued, or these settings were refused.
SettingsReachGuard ==
  phase = "run" /\ ks.active # 0 /\ guards[ks.active].config # config =>
    \/ ks.pending # 0 /\ guards[ks.pending].config = config
    \/ ports > 0 \/ retries > 0
    \/ \E g \in DOMAIN guards : guards[g].refused /\ guards[g].config = config

\* New settings take over without a gap: while the switch stays on, KillSwitch closes
\* a guard whose rules are in force only when another READY guard has replaced it.
NoGap ==
  [][\A g \in DOMAIN guards :
       /\ guards[g].ready /\ guards[g].proc = "armed" /\ ~guards[g].closing
       /\ guards'[g].closing /\ enabled' /\ phase' # "down"
       => ks'.active # 0 /\ ks'.active # g /\ guards'[ks'.active].ready]_vars

\* No rules outlive the switch's interest in them: a guard that is closed ends, also
\* one that hangs or that is closed before it has read its configuration; and no rules
\* outlive the application when it dies without closing its guards.
ClosedGuardsEnd ==
  LET Ending == {g \in DOMAIN guards :
                   IF Alive THEN guards[g].closing /\ guards[g].proc # "gone"
                   ELSE guards[g].proc = "armed"}
  IN Ending # {} ~> Ending = {}

\* Arming comes to an end, so whoever waits for the switch is called back.
Settles == (ks.state = "Arming") ~> (ks.state # "Arming" \/ phase \in {"down", "dead"})
=============================================================================
