# A TLA+ model of Waterdisco

Waterdisco is a proxy client. A Qt application (a window, or headless) supervises a child
process, ThroneCore, written in Go, which runs sing-box and Xray. The two talk over a local
socket. A third kind of process, the guard, holds the firewall rules of the kill switch. This
directory holds TLA+ modules of the parts where those processes and their threads meet, the
TLC configurations that check them, and TLAPS proofs of the main invariants.

Contents: the system and its parts (1), the modules and how they follow the code (2), the runs,
their bounds and what they show (3), fairness (4), the proofs (5), what the models say against
the code's own words (6), what is left out (7) and the plan (8).

Run everything in this directory: `tlc -config CoreSupervisor_safe.cfg CoreSupervisor` and
`tlapm CoreSupervisorProofs.tla`, and likewise for the other modules. `PROJECT.json` lists the
runs, the source lines of every definition, the hazards and the theorems.

## 1. The system

### Components

| Part | State it keeps | Operations | Meets others through | What is hard |
|---|---|---|---|---|
| Core supervisor (`CoreSupervisor.cpp`) | state, profile to resume, failure counts, the generation of the last handled exit and of the accepted core, two timers, a grace period | start, restart, reset, kill for a privilege change, cancel a resume, accept, exit reports, connect timeout, backoff, give up, shutdown | tasks to the thread DS_cores, calls queued to the main thread, the IPC server, the connection manager | three actors, nested event loops, exit reports of replaced cores, two reports of one exit |
| Core process (`Process.cpp`) | QProcess, generation, restart flag | Start, Restart, Kill | signals on DS_cores | slow kills, failed execs |
| Connection manager (`ConnectionManager.cpp`, `ConnectionModes.cpp`) | running profile, started_id, mutexes for start and stop, requests that wait for the kill switch or the core | start, stop, deferred start, boot start, retries | a worker thread per call, RPC Start and Stop, ranking sweeps, the supervisor's reports | requests that supersede each other in four waiting places; state read before a worker and used after it |
| Kill switch (`KillSwitch.cpp`) | active and pending guard, state, failure code, waiters, retry timers | apply, whenSettled, permitExtraCore, port change, identity report, shutdown | pipes and ends of guard processes | replacement without a gap, late READY lines, hanging guards |
| Guard process (`guard.go`) | firewall rules | arm, watch the parent, disarm | stdin and stdout | must not outlive the application |
| Core lifecycle RPC (`rpc/lifecycle.go`, `state.go`, `xray.go`) | box, extra process, Xray slots, mark, watch | Start, Stop | a goroutine per call, pollers | error paths after partial success, calls the client gave up |
| Extra process (`process.go`) | child, stopped flag, configuration file | Start, Stop, wait | reports to the client | end races with Stop |
| Xray gate (`xray/gate.go`) | instance, generation, tracked sockets, active count, last use | accept, handle, sweep, Recycle, Close | one goroutine per connection | instance retired or closed under a connection |
| System DNS (`sysdns_darwin.go`) | record in memory and on disk, current service, callback generation | Prepare, Apply, follow, Release, RestoreStale | networksetup, ifconfig, a file shared by successive cores | death between two steps, commands that fail |
| RPC channel (`RPC.cpp`, `dispatch.go`) | socket, pending calls | Call, Reconnect, reader | every caller | socket swap races with waiters and timeouts |
| Scan sessions and engine (`scan/`) | sessions, tombstones, cancellations | Acquire, Stop, Probe | RPC calls | late Acquire after Stop |
| Scan manager and worker (`scanner/`) | a worker per scan, cursor and results in the database | start, pause, chunk, retry, resume | RPC, database | death between two writes, half-measured chunks, lost networks |
| IP lists (`IpListsRepo.cpp`) | rows of entries under generations | bulk replace, upsert, remove, clear, delete, paged read | one transaction per chunk; backups restored over the table | readers and writers between the chunks, leftovers of a dead writer |
| Auto selector | plan, current member, cool-downs | reports, switch | core's reports, connection manager | stale reports |
| Test runner | queue of tests, test environment | run, cancel | RPC, worker threads | one environment for all |
| VPN authentication | pending challenges | prompt, answer, retry | core's events | answer after the profile stopped |
| Resume guard (headless) | persisted crash counter | arm, confirm | settings on disk | crash between two writes |
| Exit controller, lifecycle helpers | prepare_exit | shutdown, StopRunningProfile | supervisor, connection manager | everyone waits on everyone |
| Remote API, services, database, subscriptions, configuration generation, statistics, user interface, system integration | rows, widgets, sockets | one call each | engine operations | mostly sequential, or the database's and the operating system's business |

### What makes each part correct

- The supervisor always has something under way that ends its waiting; it never loses the end
  of a connected core; it counts only failures; it starts nothing that was declined; exits end.
- The kill switch never reports more protection than the guards give, changes settings without
  a gap, and lets no caller wait for nothing.
- Start and Stop leave nothing behind on any error path but those NothingLeftBehind names,
  publish only what lives, and what the client believes after lost answers is true.
- The gate never closes an instance under a relay, never leaks one, and a closed gate empties.
- The user's DNS servers are in place or on disk in every state, whatever step a core dies at,
  unless a Prepare could not read the record it wrote over.
- A start request is in one place until it is answered once, and start and stop never overlap
  in the core.
- A call over the channel returns its own result or an error, whatever core dies meanwhile.
- A scan passes a target by only for one of four named reasons and removes no result that was
  not confirmed dead.
- A reader of an IP list sees whole bulk writes only.

`PROJECT.json` lists 40 hazards at the lines where they bite, with the properties that watch
them.

## 2. The modules

Definitions keep the names of the code. A method of a C++ class that changes several members is
an operator from the old record of members to the new one, so that a handler is one action and
includes every call it makes. Operators whose name ends in `_Something` are mutated forms of the
definition that follows them; no specification uses them, and each one breaks a property.

### CoreSupervisor

The main thread, DS_cores and the core process. `sup` holds the members only the main thread
touches, `core` the QProcess, the child and `m_expectedExitGen`. `dsQ` are the tasks posted to
DS_cores, `posts` the calls queued to the main thread, both served in order. A task that stops
the running profile waits in a nested loop (`Lifecycle::StopRunningProfile`), inside which
DS_cores takes further tasks: `frames` is that stack, and only its innermost entry goes on. The
main thread in `shutdown()` waits in a loop of its own, in which queued calls are served.
The core may exec late or never, dial late, hang, crash at any moment, or survive a kill for a
while; `Fault` counts these. The connection manager is what the supervisor sees of it: a start
worker that is busy, a stop worker that is busy, the running profile and `started_id`.
Three histories: `barred` is why nothing may be resumed, `core.failed` the generations whose end
a fault is to blame for, and `core.unmarked` those killed on purpose whose mark in
`m_expectedExitGen` a later kill wrote over before their end was handled.

### KillSwitch

One action per slot and per entry point of `Sys::KillSwitch` on the UI thread, and the guard
processes, whose output is a queue. `guards` is the sequence of all guards spawned so far;
`ks.active` and `ks.pending` index it, 0 is `nullptr`. `AppDies` is the death of the application
without a shutdown: its handlers stop, its ends of the pipes close, and a guard that armed finds
its parent gone (`watchParent` in `guard.go`) and takes its rules away. The helpers (`setState`, `spawn`, `fail`,
`armFailed`, `Arm`, `settle`, ...) take the members and the guards and return both, since the
code calls them in the middle of handlers. A configuration is a member of a set; codes are
those a new guard cannot help and those it may.

### CoreLifecycle

The RPC calls Start and Stop, one step per statement that others can observe, and the client
with at most one call outstanding, which may give a call up while the core carries it out.
`slots` are the package variables that pollers read under `stateMu`. Boxes, Xray instances and
extra processes are named by the call that made them. Every early return of Start is an action:
it goes to the deferred function, to `stopSidecars` or to `closeXray` as the code does. A panic
while the box is built is recovered by the dispatcher and runs the deferred functions with no
error set. `Platform` selects what only Linux (the mark), macOS (system DNS) and Windows (the
egress watch) do. `Release` of the system DNS succeeds here; a service that cannot be put back is
SystemDns's subject. `MayEnter` serves the mutex in the order of the calls, which is more than
`sync.Mutex` promises; the client has one call outstanding besides those it gave up.

### XrayGate

One goroutine per connection in `handle`, the sweeper in `sweep`, and the owner that calls
`Recycle` and `Close` under its own mutex. `mu` is held over several steps by the sweeper only;
the other critical sections are a step each. Sockets are open or closed per direction, with the
generation under which `conns` tracks them. Time is reduced to `quiet`: the last use is at
least `idle` ago.

### SystemDns

Successive core processes that share one record on disk. Each call of `networksetup`,
`ifconfig` and each write of the record is a step of its own; a core dies between any two of
them, and commands, writes, the removal of the record, and its lock or read (`Load`) fail within a
bound. A service has the user's servers, the core's or none. `alias` is `"left"` after a removal
that failed, which the code only logs. `Overlap` says whether a core may start while an older one
still runs. `lost` is history: the services that pointed at a dead core when a Prepare that
could not read their record wrote its own over it.

### ConnectionManager

The main thread, the start worker, the stop worker, DS_cores when it stops the profile of a dead
core, and calls queued to the main thread (`ui`). `start` is one operator with every early return:
wait for the kill switch, restart the core for its guard identity, defer to the core, rank first,
or dispatch to the worker. A request carries a serial as in the code; `Places` says where it is.
`stopW.crash` is a stop without an RPC. `env` is what the manager asks of the supervisor and of
the kill switch. Retries after a download of geo assets and after an offer to the user are
requests without a serial, as in the code. Only the headless restore of Tun is modelled, and the
build of the configuration is one outcome, success or failure.

### RpcChannel, RpcCalls and MCRpcChannel

Threads in `Call()`, the I/O thread and its queue, the main thread in `Reconnect`, and successive
cores with a reader and a writer. A frame is a header and its data, which arrive separately, so a
core may die between them and the next core's bytes follow in the same buffer unless it is
cleared. `RpcCalls` is what the callers may rely on: each call is run at most once, and returns
what was computed for this call, or fails. `RpcChannel` implements it; the mapping is the identity
on `result` and `ret`. `MCRpcChannel` adds the symmetry of calls, sound as the run checks no
liveness.

### ScanWorker

`ScanManager::Start` and `Pause`, the worker's thread label by label, and the scan session in the
core. Each write to the database is a step; the application may die between any two, the core may
restart, a call may be lost, and each write of results (upsert, removal, the copies of the lists)
may fail. `results` and `row` are what is on disk. Four variables are history. `dead` are the
targets measured as failing with their address family known to be reachable; `stranded` those that
failed on this machine itself, for want of a route or an address, while some family was up;
`unsaved` the hits whose write failed; `strikes` counts the failures of a target in its chunk.
The writes of the scan's row succeed.

### IpLists and IpListValue

One action is one transaction under `WriteMutex`, and a chunk is one row. `rows` holds the
entries of every generation, `gen` the one readers see. `IpListValue` is the list as readers see
it, which only changes as a whole except for upserts and removals; `IpLists` implements it with
`list <- visible`. `AnyGeneration` says whether a restored backup may carry a generation that is
in use. `FreshRestores` is the condition that none does, as a formula over behaviours; nothing in
the code establishes it.

### Proof modules

`CoreSupervisorProofs`, `KillSwitchProofs`, `CoreLifecycleProofs`, `XrayGateProofs`,
`SystemDnsProofs`, `ConnectionManagerProofs` and `RpcChannelProofs` extend the module they are
about. `ScannerProofs` is about the scanner's data and extends both IpLists and ScanWorker, so the
specification of a scan has names of its own (`ScanSpec`, `ScanTypeOK`, `scanVars`).

## 3. The runs

All bounds are constants named `Max...`, plus the sizes of the sets. Deadlock checking is off
everywhere: each model ends in states where the bounds are used up or the application has
exited, and the liveness properties cover what must not stop.

| Run | Instance | Distinct states | Checks |
|---|---|---|---|
| `sup_safe` | one profile, give up after 2, privilege probe, 1 fault, 2 requests | 2.7 M | NotStranded, NoStartOnceDeclined |
| `sup_live` | Windows (no probe, a failed exec is reported twice), give up after 2, 2 faults, 1 request, fair | 418 k | OnlyFaultsCount, Recovers, ExitCompletes |
| `kill_fair` | 2 configurations, 1 waiter, 2 faults, 2 requests, the application may die, fair | 468 k | StateIsTrue, NoForgottenWaiter, SettingsReachGuard, NoGap, ClosedGuardsEnd, Settles |
| `gate_fair` | 2 connections, sweeping, 1 recycle, fair | 204 k | OneOwner, LiveTarget, NobodyMissed, Drains, RetiredRelaysEnd |
| `life_safe` | Linux, 4 calls, extra process or not, Xray or not, full gates, auto_redirect, Stops may be given up | 1.9 M | SlotsTellTrue, ProbesEscape |
| `life_fair` | macOS, 2 calls, extra process or not, all kinds of Xray, full gates or not, Tun or not, both calls may be given up, panics, fair | 546 k | NothingLeftBehind, ResolverHasListener, ClientIsRight, StoppedExtraGoes |
| `dns_fair` | 2 services, 3 cores, 2 faults, 2 moves, 2 starts, fair | 174 k | OnRecord, CleanAtRest, NoLateFollow, Follows, BootRepairs |
| `conn_fair` | 2 profiles, the boot's start and one request, 1 event, Tun required, fair | 275 k | OnePlace, OneCoreCall, BootWantsTun, EveryRequestAnswered |
| `rpc_safe` | 3 calls, 2 cores, 1 FailInFlightCalls, symmetry of calls | 1.4 M | SlotsAgree, FreshSocket, Implements (refines RpcCalls) |
| `scan_fair` | 3 targets of two families, chunks of 2, 1 retry, stop after 2, 2 runs, 1 fault, fair | 1.1 M | NothingSkipped, RemovalConfirmed, EveryRunEnds |
| `lists_safe` | 2 threads, 2 values of 2 rows, 2 writes, 1 fault | 446 k | ShownWhole (refines IpListValue), ReadsWhole, RestoreWins |
| `lists_restore` | the same, a restored list may have any generation | – | RestoreWins fails |

Why these bounds are enough to be interesting:

- Supervisor. The hard cases are two requests around one fault: a restart posted while the core
  dies, a stop whose worker is busy during a crash, an exit during a restart. With
  `GiveUpAfter = 2` one fault leads to Backoff (`sup_safe`) and two to giving up (`sup_live`).
  A request is made with at most `MaxQueued = 1` task waiting on DS_cores: the user is slow
  compared with that queue. One profile suffices because the supervisor compares ids only with
  none. That a kill on purpose loses its mark takes three requests and `MaxQueued = 4`;
  OnlyFaultsCount names that case, was checked there as well (no fault, 6.2 million states) and is
  proved for all bounds.
- Kill switch. Two configurations distinguish current from old settings; two faults let the
  guard and its replacement fail; a waiter is treated like any other, so one stands for all.
- Gate. Two connections and one recycle give an old and a new generation at once, with the
  sweeper and Close beside them. The proofs cover any number.
- Lifecycle. Four calls are start, lost stop, start, stop with every error path between; two
  calls with lost Starts are the shortest in which a call meets one that was given up, and in
  which a failed Start disowns its box. NothingLeftBehind was also checked with three calls (6.6
  million states). The
  Windows watch is modelled and runs in no configuration, as it only sets a slot.
- System DNS. Three cores are a crash, a crash in the repair, and a core that finishes it.
- Connection manager. The boot's request and a second one meet in each waiting place; one event
  (a stop, a death of the core, a mode change or a failure with a retry) falls at any moment
  between them. Two profiles tell a switch from a restart.
- Channel. The third call is made after the swap while the others are in any state; two cores are
  one swap.
- Scan. Three targets in chunks of two give a full and a partial chunk and a chunk with both
  families; two runs are a run and its resume or rescan. `Retries = 1` stands for
  `kScanWorkerRescanRetries` (5): each round is treated alike.
- Lists. Two rows are the least that can be seen in part; two writes and a read overlap.
  Generations and orders are bounded by `MaxGen` and `MaxOrders`, sums over the writes that
  `MaxOps` allows; the guards that keep to them cut off no state of this run.

SlotsTellTrue and ProbesEscape (`life_safe`) are checked with `TimesOut = {"stop"}` and
`MayPanic = FALSE`. With Starts that are given up, or with panics, they are false (6).
NothingLeftBehind is stated for these too and names what they leave.

`StateIsTrue`, `NobodyMissed`, `SlotsTellTrue` and `OnRecord` are conjunctions of named parts,
each of which is an invariant worth reading on its own. Every module also defines `TypeOK`
(`ScanTypeOK` for ScanWorker); it is proved for every module.

## 4. Fairness

- CoreSupervisor: weak fairness of the main thread, of its timers, of DS_cores, of the worker
  threads and of boot and exit (event loops and threads run); of the core's dialling unless the
  core hangs. No fairness for requests, crashes and failed execs.
- KillSwitch: weak fairness of the event loop's handlers while the application lives, and of each
  guard that does not hang; a guard that armed late is fair from then on. No fairness for faults
  and for the death of the application.
- XrayGate: weak fairness of each handler, of the sweeper and of the owner once it is in a
  call. A relay ends by itself only when both of its sockets are cut: no client is assumed to
  close its connection.
- CoreLifecycle: weak fairness of each call's goroutine (starts and closes of libraries
  return), of the end of a killed child and of the goroutine that reaps it. Nothing makes a
  running extra process end.
- SystemDns: weak fairness of a call under way, of a queued goroutine of the callback, and of
  the release that follows a failed Prepare. Nothing makes a core die or start.
- ConnectionManager: weak fairness of the main thread's queue, of each worker and of DS_cores, of
  a ranking sweep, of the kill switch's settling (Settles of KillSwitch) and of a core that is on
  its way (Recovers of CoreSupervisor). The RPC calls end because each has a timeout. Users, mode
  changes, failures and the guard window owe nothing.
- ScanWorker: weak fairness of the worker's thread and of the core: each phase of a probe has a
  timeout. No fairness for the user, for faults or for the delivery of StopScan.
- RpcChannel and IpLists are checked for safety only.

## 5. The proofs

Every theorem holds for all values of the constants that satisfy the named ASSUMEs and, where the
table says so, an extra hypothesis stated in the theorem itself. Each rests on an inductive
invariant that TLC checked on the run's instance, or a smaller one, before it was proved.

| Module | Theorems (the property they state) | Extra hypothesis |
|---|---|---|
| CoreSupervisorProofs | TypeCorrect, SupervisorFits, NeverStranded (NotStranded), DeclinedStays (NoStartOnceDeclined), FaultsCounted (OnlyFaultsCount) | – |
| KillSwitchProofs | Invariant, TypeCorrect, StatesTrue (StateIsTrue), NobodyForgotten (NoForgottenWaiter), SettingsDue, SettingsReach (SettingsReachGuard), GapFree (NoGap) | – |
| XrayGateProofs | Invariant, TypeCorrect, InstancesOwned (OneOwner), RelaysAlive (LiveTarget), NoneMissed (NobodyMissed) | – |
| CoreLifecycleProofs | TypeCorrect, ClientRight (ClientIsRight), ResolverServed (ResolverHasListener), SlotsLive (XraySlotsLive), NothingStays (NothingLeftBehind), PollsSeeLive (PublishedIsLive) | PollsSeeLive: not macOS |
| | OneProfileRuns, CleanAtRest, ProbesDoEscape (ProbesEscape), SlotsAreTrue (SlotsTellTrue) | no panic and no Start given up; SlotsAreTrue: not macOS |
| SystemDnsProofs | NeverLost (OnRecord), NothingLate (NoLateFollow), CleanRest (CleanAtRest), TypeCorrect | cores do not overlap |
| ConnectionManagerProofs | Invariant, TypeCorrect, EachInOnePlace (OnePlace), OneCallAtATime (OneCoreCall), BootHasTun (BootWantsTun) | – |
| RpcChannelProofs | Invariant, TypeCorrect, SlotsRight (SlotsAgree), SocketFresh (FreshSocket), Implementation (Implements: the channel refines RpcCalls) | – |
| ScannerProofs (IpLists) | Invariant, TypeCorrect, Implementation (ShownWhole: the lists refine IpListValue), ReadsAreWhole (ReadsWhole), RestoresWin (RestoreWins) | `FreshRestores`, except TypeCorrect |
| ScannerProofs (ScanWorker) | ScanInvariant, ScanTypeCorrect, NonePassedBy (NothingSkipped), RemovalsConfirmed (RemovalConfirmed) | – |

The hypotheses are those under which the code is right, and section 6 says what happens without
them: `~Overlap` is the state file's one owner (`SystemDns!DeadLeaveRecord`), `MayPanic = FALSE`
and `"start" \notin TimesOut` exclude the leftovers of a panic in `boxmain.Create` and of a Start
that the client gave up (`CoreLifecycle!NoBoxNoTun`), and macOS is excluded where a failed
`sysdns.Apply` closes a published box. `FreshRestores` is a condition on the behaviour, not a
value of a constant: the theorems about lists hold of every behaviour, `AnyGeneration` or not, in
which each restore brings a generation above those in use. The code does not guarantee it, and
`lists_restore` is the counterexample without it.

- **CoreSupervisor.** TypeOK is inductive once every record of a task, a post and a probe is
  typed by a lemma. NotStranded needs `NInv`: nobody knows a generation that the core did not
  reach (`Bounded`), the reports of spawned cores are in order (`Ordered`), the end of a core that
  was not handled is still to come or its report is on its way (`Reported`), a supervisor that is
  Starting or Connected has a core whose end it does not know, or a task that makes one
  (`Current`), and such a core has its timer, its spawn report or a task that kills it
  (`Watching`). The action property NoStartOnceDeclined needs one more invariant, `NothingWaits`:
  after a decline neither `startWhenUp` nor `started_id` holds a profile. OnlyFaultsCount needs
  `Accounts`: every end of a core that is reported or still to come is blamed on a fault, lost its
  mark, is the expected one, or was handled.
- **KillSwitch.** The state alone is not inductive: that Armed implies a READY, open guard needs
  to know what `active` and `pending` point to (`Pointers`), that unread output comes from a
  guard that could print it (`Spoke`), what each state says of the two pointers (`Told`) and that
  waiters wait for something (`Waits`). The invariant is stated for the members and the guards
  as arguments, so each helper gets a lemma that also applies in the middle of a handler. The death of the
  application (`DeathSound`) closes all pipes at once and keeps what the members say.
  SettingsReachGuard needs `JInv` beside it: unless a port change is queued, the pending guard
  has the settings in force (`Due`), and a guard's lines say whether it refused them (`Lines`).
  NoGap is proved per handler next to them.
- **XrayGate.** The counter equals the number of connections between its increment and its
  decrement (`Counted`, by the cardinality theorems), so a sweeper that saw zero saw that nobody
  holds an instance. `Handout` says whose instance a connection was handed, `Relay` that a
  connection that relays is cut, or goes to the current instance, or is still to be found by
  the call that took the instance away. NobodyMissed and LiveTarget follow.
- **CoreLifecycle.** `Ordered` and `Sent` say that the mutex serves calls in their order,
  `Believes` where the client's belief comes from, `Local` what a call knows at its label.
  ClientIsRight holds with lost answers and panics. PublishedIsLive is inductive
  next to this invariant where the system DNS is not changed. NothingLeftBehind needs `LInv`, which
  follows everything a call made from the call to its end (`Account`): it is being made, published,
  disowned by a later Start that failed, undone as far as the label of the call that undoes it
  tells, gone, or left by a panic; what that call finds in the slots is what there is to undo
  (`Finds`), and a published box and a prepared resolver are what they are taken for (`BoxTrue`,
  `DnsTrue`). It holds with panics and given-up calls. Without them `KInv` says more: at
  each label the call that holds the mutex knows the one box, the Xray parts, the mark and the
  resolver it has still to undo (`Knows`), the client waits for every Start under way
  (`Awaited`), a published box is one the client will stop (`Wanted`), and when nobody holds the
  mutex either one profile runs whole or nothing does (`Rest`).
- **SystemDns.** `Covers` says of a record that every service that is not `lost` can be put back
  from it; the file always covers, and so does the memory of a core that has a record, and what a
  replay has left. A Prepare that neither read a dead core's record nor saved its own has nothing
  in memory and leaves the file alone (`Blind`).
  `Honest` excludes a record of "no servers" that was read after the service had been pointed at
  the core. `Mine` ties memory to disk between Prepare and Release. A dead core has no memory,
  and only one core is alive, so each action needs a look at one core only (`OneCore`).
  CleanAtRest needs that, until something fails, the loops that put services back have recorded
  all they have left (`Tidy`).
- **ConnectionManager.** A handler of the main thread has at most one request in its hand. `Apart`
  says of the serials given out that each is in the hand, in one of the four members, in a posted
  call or answered, and in one of these only. A few lemmas move a serial from one place to
  another; `Goes` says of `start` and of all it calls that the request in the hand goes to one of
  five places and whatever it replaces there is answered. `StopsFirst` relates the labels of both
  workers to `m_running`: a Stop RPC has a profile to stop unless the start worker waits for it,
  and the start worker comes to its RPC with nothing running. `BootHeld` says that the boot's
  request leaves the core's place only with a settled Tun, for which `bootSerial` must tell it
  from the others until the first coreStarted.
- **RpcChannel.** `Order` says that sockets are swapped in the order of their cores, `Reach` and
  `Fresh` that a queued write finds the socket its call counted on, `Once` that a frame is queued,
  received and run at most once, `Genuine` that a value on its way back is the one computed for
  its call. `Framed` and `Closing` say that headers and data alternate across the border between
  buffer and socket and across the death of a core, so that data is never taken for the header of
  another call. The refinement follows step by step; the mapping is the identity.
- **IpLists.** A write that compares generations never holds one above the live one, and a write
  overtaken by a restore holds a lower one for good (`Behind`); while the live generation is the
  one a staging write counted from, the next one holds exactly its chunks (`Staged`); a paged read
  has what the rows up to its place hold, but for what single writes touched (`Seen`). Orders are
  numbered once (`Numbered`). The refinement of IpListValue maps its list to `visible`.
- **ScanWorker.** NothingSkipped (`Covered` of the row: each target behind the cursor is a result,
  dead, stranded or unsaved) and the same of the worker's copy are kept
  by `saveProgress` only because every target from the chunk's start to the place it reached has
  an outcome (`Reached`), which is followed from the probe through the config tests, the network
  checks and the two writes of results. Where a probe that was cut short has reached is the
  number of targets before the first unfinished one; that all of those have finished is
  arithmetic over the positions of a slice (`SliceFits`, `SliceOfAll`, `UnfinishedAll`, by the
  cardinality theorems), and needs that the snapshot of a first pass holds every target
  (`Snapshots`). RemovalConfirmed follows from `Tally`: in round r what is still to be measured
  failed r times in a row and what failed in this round r + 1 times, so what is marked for removal
  failed Retries + 1 times; `CutByStop` says that a round which was cut short belongs to a run that
  is stopping, whose failures are dropped.

Only model-checked: every liveness property (out of reach of the prover used here, like ENABLED, induction over
  data and RECURSIVE operators; no module declares RECURSIVE).

## 6. Where the code differs from what it says

One run ends in a violation, quoted in `PROJECT.json` under `findings`:

- `lists_restore`: a write in flight recognises a restored list only by its generation, a small
  number that the restore copies from the backup; with equal numbers it goes on in the restored
  list (`IpListsRepo.cpp:594`; the comment at `:593` says what is to be prevented).

Four more formulas are false of the code and stay in their modules; each is refuted by TLC when
it is added to a configuration with the constants given here.

- `CoreSupervisor!NoStartAfterStop` (the constants of `sup_safe` with one request): a user stop
  whose worker is still busy when the core crashes does not cancel the resume that the exit
  report sets up (`ConnectionManager.cpp:369`, `:400`).
- `CoreLifecycle!NoBoxNoTun` (`TimesOut = {"start"}`, two calls, `Tuns = {"redirect"}`): a Start
  the client gave up leaves a box running; the next Start fails and its deferred function clears
  `boxInstance`, so the box and its Tun have no owner (`lifecycle.go:33`).
- `CoreLifecycle!ReportedExtraIsCurrent` (`Extras = {TRUE, FALSE}`, two calls): the error returns
  at Xray and at the full gates leave the extra process running; when it ends it stops the
  profile of a later Start (`lifecycle.go:91`).
- `SystemDns!DeadLeaveRecord` (`Overlap = TRUE`, two cores): the record holds one owner; two cores
  that overlap write over each other's (`sysdns_darwin.go:230`).

Further observations met while modelling:

- "that exit restarts the core without counting" (`CoreSupervisor.h:139`) is said of an intentional
  kill, but `m_expectedExitGen` remembers one: a second kill overwrites it while the exit report
  of the first is on its way (`CoreSupervisor.cpp:255`, `:616`), and the first exit counts. With
  the first start still waiting on DS_cores, Restart Core, a start and Restart Core again suffice
  (three requests, no fault, `MaxQueued = 4`). OnlyFaultsCount names the case (`core.unmarked`).
- The record on disk can be lost with the user's servers. When a service could not be put back
  after a crash, its record stays; if the next Prepare then fails to lock or read the file, the
  failure is dropped (`sysdns_darwin.go:203`, `:224`) and Prepare writes its own record over it
  (`:65`), although the comment at `:30` says that the next core can always put back what a dead
  one left. OnRecord names the case (`lost`).
- Some targets of a scan are passed by without a measurement: those that fail for want of a route
  or an address on this machine while another family is up (`ScanWorker.cpp:491`), and hits whose
  UpsertEntries failed, since the cursor is saved all the same (`:531`, `:559`). NothingSkipped
  names both (`stranded`, `unsaved`).
- What a Start leaves behind at rest: its extra process when it fails at Xray or at the full gates
  (`lifecycle.go:89`, `:117`), the box of an earlier Start that the client gave up
  (`:33`), and everything it had when building the box panics. NothingLeftBehind names these.
- "Restart Core" is to resume nothing (`CoreSupervisor.h:52`); if the core dies before the task
  on DS_cores forgets the profile, its exit report puts the profile back
  (`CoreSupervisor.cpp:250`, `:620`).
- A restart task that waits in the nested loop passed its check of `prepare_exit` before; when
  the loop ends it spawns a core after `shutdown()` has killed the last one
  (`CoreSupervisor.cpp:723`).
- `postProcessRestart` silences the generation current when the restart is posted; a task queued
  before it may spawn a newer core whose failed exec is acted on (`CoreSupervisor.cpp:720`).
- `failedForIdentity()` is also true while only a pending guard is there, so nothing blocks yet
  (`KillSwitch.cpp:170`).
- On macOS a Start whose `sysdns.Apply` fails closes a box that pollers still find
  (`lifecycle.go:159`).
- After a panic in `boxmain.Create` the mark stays too (`lifecycle.go:79`).
- When the loopback alias cannot be removed the record forgets it (`sysdns_darwin.go:108`).
- A stop by the user that falls between a start's publication of the running profile and its
  write of `started_id` can leave `started_id` none while the profile runs
  (`ConnectionManager.cpp:251`, `:257`); the last call of a previous worker clears `connecting`
  of the next (`:336`).
- The old socket's `disconnected` may arrive after `Reconnect` has stored `connected_ = true` and
  sets it to false for a live socket (`RPC.cpp:154`). No call is answered wrongly; calls fail.
- A death between `ClearEntries` and the removal of the snapshot leaves a scan with its old cursor
  over empty results (`ScanWorker.cpp:337`, `:339`), which NothingSkipped excludes by `wiping`.
- A chunk with a hit before an outage passes over the rest of that family (`ScanWorker.cpp:493`).
- "Every later Acquire of the same id is refused." (`session.go:131`) ends when the tombstone is
  pruned after ten minutes.
- A paged read may miss an entry that is upserted after a removal has freed the highest order
  (`IpListsRepo.cpp:596`); an upsert between a deletion's change of generation and the deletion
  of the header is lost with it.
- VPN authentication, read but not modelled: a one-time code is drawn (`VpnAuthController.cpp:364`)
  before the answer of the form can fail (`:376`), although `:356` says otherwise; an answer to a
  poll is applied to a run that began after it (`:263`).

## 7. What is not modelled

Firewall back ends, packet handling and what sing-box and Xray do inside: libraries and the
operating system, met only through success, failure and delay. Configuration generation,
subscription parsing, text formats, statistics and widgets: sequential data, covered by the
repository's tests. The repositories of the database other than IpListsRepo and the scan's row:
one transaction each, which SQLite serialises. Vendored code. PID reuse, clock jumps and the exact
lengths of timeouts: a timeout may fire whenever its timer runs. Tests, the auto selector beyond
its ranking before a start, VPN authentication and the resume guard are in the plan. Of the
modelled parts: a core_running that is cleared between its check at `CoreSupervisor.cpp:411` and
the one at `ConnectionManager.cpp:300`; the system proxy and the windowed branches of the connection manager
(`ConnectionManager.cpp:514`); frames without data, ids that wrap and a socket of an older core
that is accepted late in the channel; the process `--restore-dns` beside the next core
(`CoreSupervisor.cpp:568`), which replays the record under the same lock; the copy of the mark
that a dialler took before a Start (`egress.go:67`); failing writes of the scan's row; status, ports, live counters, configuration edits,
the pruning of sessions and `StopAll(false)` in scans; headers, latencies, paging limits,
AddIpList and CopyAsUserList in lists. Every part is listed in `PROJECT.json` with its status.

The repository has some 119,000 lines, most of them configuration translation, widgets and
parsers. The models cover the parts in which several actors or a failure meet.

## 8. Plan

Done: CoreSupervisor, KillSwitch with the guard's parent watch, XrayGate, CoreLifecycle,
SystemDns, ConnectionManager, RpcChannel over RpcCalls, ScanWorker with the scan sessions, IpLists
over IpListValue. Next, in this order:

1. TestRunner with the test environment, VpnAuthController, AutoSelectorController, ResumeGuard
   (crash between two writes), reconciliation of subscriptions.
2. Compositions: supervisor with kill switch (guard restarts and identity reports as the two
   meet), connection manager with the core's lifecycle through the channel.
3. Abstract specifications: a supervised service (down, coming up, up, given up, off) that
   CoreSupervisor implements; a kill switch as a set of rules in force that only changes by
   replacement; an on-demand server without generations, which XrayGate implements.
4. Proofs of the refinements of the abstract specifications above.
