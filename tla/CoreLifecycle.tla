--------------------------- MODULE CoreLifecycle ---------------------------
(***************************************************************************)
(* The RPC calls Start and Stop of the core (rpc/lifecycle.go) and the     *)
(* client that makes them (ConnectionManager through the RPC channel).     *)
(*                                                                         *)
(* The dispatcher gives every call a goroutine of its own; lifecycleMu     *)
(* lets one of them in at a time. What a poller can read of the core is    *)
(* any state in between: pollers take stateMu only, which no step holds.   *)
(*                                                                         *)
(* The client has one call outstanding at most. When the channel's timeout *)
(* passes first, it gives the call up and the core still carries it out.   *)
(* A box, an extra process or an Xray instance is named by the call of     *)
(* Start that made it.                                                     *)
(***************************************************************************)
EXTENDS Integers, FiniteSets

CONSTANTS
  Platform,   \* runtime.GOOS of the core
  Extras, Xrays, Fulls, Tuns, \* what a profile may ask for, see Profiles
  TimesOut,   \* the calls whose answer may come after the channel's timeout
  MayPanic,   \* TRUE when building a box may panic
  MaxCalls    \* bound: calls the client makes

ASSUME CoreLifecycleAssumption ==
  /\ Platform \in {"linux", "darwin", "windows"}
  /\ Extras \subseteq BOOLEAN
  /\ Xrays \subseteq {"none", "lazy", "eager"}
  /\ Fulls \subseteq BOOLEAN
  /\ Tuns \subseteq {"none", "tun", "redirect"}
  /\ TimesOut \subseteq {"start", "stop"}
  /\ MayPanic \in BOOLEAN
  /\ MaxCalls \in Nat

VARIABLES
  client, \* what the client waits for and believes
  asked,  \* how many calls were made; call i is the i-th
  req,    \* per call, what it asks for
  pc,     \* per call, where its goroutine is
  slots,  \* the package variables of rpc, 0 is nil
  dns,    \* the state of package sysdns
  boxes,  \* per call, the box it made
  xrays,  \* per call, the Xray instances and gates of it that run
  procs,  \* per call, the extra process it started
  taken   \* what the call inside closeXray took out of the slots

vars == <<client, asked, req, pc, slots, dns, boxes, xrays, procs, taken>>

Ids == 1..MaxCalls

Parts == {"instance", "gate", "full"}

\* extra: NeedExtraProcess. xray: NeedXray and XrayLazyStart. full: there are
\* XrayFullConfigs. tun: TunIpv4Cidr is set, and auto_redirect with it.
Profiles == [extra : BOOLEAN, xray : {"none", "lazy", "eager"},
             full : BOOLEAN, tun : {"none", "tun", "redirect"}]

Offered == [extra : Extras, xray : Xrays, full : Fulls, tun : Tuns]

Requests == [kind : {"start", "stop"}, want : Profiles]

StopRequest ==
  [kind |-> "stop",
   want |-> [extra |-> FALSE, xray |-> "none", full |-> FALSE, tun |-> "none"]]

Slots == [box : 0..MaxCalls, extra : 0..MaxCalls, instance : 0..MaxCalls,
          gate : 0..MaxCalls, full : 0..MaxCalls, mark : 0..MaxCalls,
          watch : 0..MaxCalls]

\* The slot an Xray instance, a gate or the full gates are in.
Held(part) == CASE part = "instance" -> slots.instance
                [] part = "gate" -> slots.gate
                [] part = "full" -> slots.full

\* run: what the operating system knows of the child. stopped: Process.stopped.
\* file: the configuration written for it is still on disk.
Processes == [run : {"none", "running", "killed", "ended", "reaped"},
              stopped : BOOLEAN, file : BOOLEAN]

Holding == {"extra", "xray", "full", "dns", "create", "publish", "apply",
            "watch", "release", "unpublish", "closeBox", "sidecars",
            "clearXray", "closeXray", "defer"}

Answered == {"ok", "failed", "panicked"}

Init ==
  /\ client = [call |-> 0, running |-> FALSE]
  /\ asked = 0
  /\ req = [i \in Ids |-> StopRequest]
  /\ pc = [i \in Ids |-> "unsent"]
  /\ slots = [box |-> 0, extra |-> 0, instance |-> 0, gate |-> 0, full |-> 0,
              mark |-> 0, watch |-> 0]
  /\ dns = "off"
  /\ boxes = [i \in Ids |-> "none"]
  /\ xrays = [i \in Ids |-> {}]
  /\ procs = [i \in Ids |-> [run |-> "none", stopped |-> FALSE, file |-> FALSE]]
  /\ taken = {}

-----------------------------------------------------------------------------
(* The client.                                                             *)

Ask(r) ==
  /\ client.call = 0
  /\ asked < MaxCalls
  /\ asked' = asked + 1
  /\ client' = [client EXCEPT !.call = asked + 1]
  /\ req' = [req EXCEPT ![asked + 1] = r]
  /\ pc' = [pc EXCEPT ![asked + 1] = "queued"]
  /\ UNCHANGED <<slots, dns, boxes, xrays, procs, taken>>

\* A profile that runs is stopped before the next one is started.
AskStart == \E p \in Offered :
  ~client.running /\ Ask([kind |-> "start", want |-> p])

AskStop == client.running /\ Ask(StopRequest)

\* Whatever the answer to a Stop is, the client takes the profile for stopped.
Answer ==
  /\ client.call # 0
  /\ pc[client.call] \in Answered
  /\ client' = [call |-> 0,
                running |-> /\ req[client.call].kind = "start"
                            /\ pc[client.call] = "ok"]
  /\ UNCHANGED <<asked, req, pc, slots, dns, boxes, xrays, procs, taken>>

TimeOut ==
  /\ client.call # 0
  /\ pc[client.call] \notin Answered
  /\ req[client.call].kind \in TimesOut
  /\ client' = [call |-> 0, running |-> FALSE]
  /\ UNCHANGED <<asked, req, pc, slots, dns, boxes, xrays, procs, taken>>

-----------------------------------------------------------------------------
(* lifecycleMu, and the step each call takes first.                        *)

Goto(i, label) == pc' = [pc EXCEPT ![i] = label]

Starts(i) == req[i].kind = "start"

\* Mutant: no lifecycleMu.
MayEnter_Unlocked(i) == pc[i] = "queued"

\* A call that waits comes in after those that waited before it: two calls
\* meet here only when a timeout lies between them, and sync.Mutex serves
\* waiters in their order once one of them waited for a millisecond.
MayEnter(i) ==
  /\ pc[i] = "queued"
  /\ \A j \in Ids : pc[j] \notin Holding /\ (j < i => pc[j] # "queued")

EnterStart(i) ==
  /\ MayEnter(i)
  /\ Starts(i)
  /\ Goto(i, IF slots.box # 0 THEN "defer" ELSE "extra")
  /\ UNCHANGED <<client, asked, req, slots, dns, boxes, xrays, procs, taken>>

EnterStop(i) ==
  /\ MayEnter(i)
  /\ ~Starts(i)
  /\ Goto(i, IF slots.box = 0 THEN "ok" ELSE "release")
  /\ UNCHANGED <<client, asked, req, slots, dns, boxes, xrays, procs, taken>>

-----------------------------------------------------------------------------
(* Start.                                                                  *)

SkipExtra(i) ==
  /\ pc[i] = "extra"
  /\ ~req[i].want.extra
  /\ Goto(i, "xray")
  /\ UNCHANGED <<client, asked, req, slots, dns, boxes, xrays, procs, taken>>

\* The arguments do not parse, or CreateExtraConfig fails.
ExtraRefused(i) ==
  /\ pc[i] = "extra"
  /\ req[i].want.extra
  /\ Goto(i, "defer")
  /\ UNCHANGED <<client, asked, req, slots, dns, boxes, xrays, procs, taken>>

\* extraProcess is set before the child is started, and kept when it fails.
StartExtra(i) ==
  /\ pc[i] = "extra"
  /\ req[i].want.extra
  /\ slots' = [slots EXCEPT !.extra = i]
  /\ \/ /\ procs' = [procs EXCEPT ![i] =
                       [run |-> "running", stopped |-> FALSE, file |-> TRUE]]
        /\ Goto(i, "xray")
     \/ procs' = procs /\ Goto(i, "defer")
  /\ UNCHANGED <<client, asked, req, dns, boxes, xrays, taken>>

\* autoRedirectMarkFor: the mark of a Tun with auto_redirect, on Linux only.
Marked(i) == Platform = "linux" /\ req[i].want.tun = "redirect"

WithMark(i) == [slots EXCEPT !.mark = IF Marked(i) THEN i ELSE 0]

SkipXray(i) ==
  /\ pc[i] = "xray"
  /\ req[i].want.xray = "none"
  /\ slots' = WithMark(i)
  /\ Goto(i, "full")
  /\ UNCHANGED <<client, asked, req, dns, boxes, xrays, procs, taken>>

\* StartGate, or the creation or the start of the instance, fails; what was
\* made of it is closed again.
XrayFails(i) ==
  /\ pc[i] = "xray"
  /\ req[i].want.xray # "none"
  /\ slots' = WithMark(i)
  /\ Goto(i, "defer")
  /\ UNCHANGED <<client, asked, req, dns, boxes, xrays, procs, taken>>

StartGate(i) ==
  /\ pc[i] = "xray"
  /\ req[i].want.xray = "lazy"
  /\ slots' = [WithMark(i) EXCEPT !.instance = 0, !.gate = i]
  /\ xrays' = [xrays EXCEPT ![i] = @ \cup {"gate"}]
  /\ Goto(i, "full")
  /\ UNCHANGED <<client, asked, req, dns, boxes, procs, taken>>

StartInstance(i) ==
  /\ pc[i] = "xray"
  /\ req[i].want.xray = "eager"
  /\ slots' = [WithMark(i) EXCEPT !.instance = i, !.gate = 0]
  /\ xrays' = [xrays EXCEPT ![i] = @ \cup {"instance"}]
  /\ Goto(i, "full")
  /\ UNCHANGED <<client, asked, req, dns, boxes, procs, taken>>

SkipFull(i) ==
  /\ pc[i] = "full"
  /\ ~req[i].want.full
  /\ Goto(i, "dns")
  /\ UNCHANGED <<client, asked, req, slots, dns, boxes, xrays, procs, taken>>

\* startXrayFullGates opens all of them or leaves none open.
StartFullGates(i) ==
  /\ pc[i] = "full"
  /\ req[i].want.full
  /\ slots' = [slots EXCEPT !.full = i]
  /\ xrays' = [xrays EXCEPT ![i] = @ \cup {"full"}]
  /\ Goto(i, "dns")
  /\ UNCHANGED <<client, asked, req, dns, boxes, procs, taken>>

FullGatesFail(i) ==
  /\ pc[i] = "full"
  /\ req[i].want.full
  /\ Goto(i, "clearXray")
  /\ UNCHANGED <<client, asked, req, slots, dns, boxes, xrays, procs, taken>>

SystemDNS(i) == Platform = "darwin" /\ req[i].want.tun # "none"

\* The alias and the record; a service that still points at the core stays so.
PrepareDNS(i) ==
  /\ pc[i] = "dns"
  /\ IF SystemDNS(i)
       THEN \/ Goto(i, "create") /\ dns' = IF dns = "off" THEN "prepared" ELSE dns
            \/ Goto(i, "sidecars") /\ dns' = dns
       ELSE Goto(i, "create") /\ dns' = dns
  /\ UNCHANGED <<client, asked, req, slots, boxes, xrays, procs, taken>>

\* boxmain.Create returns a box that was started: its Tun is up.
CreateBox(i) ==
  /\ pc[i] = "create"
  /\ boxes' = [boxes EXCEPT ![i] = "live"]
  /\ Goto(i, "publish")
  /\ UNCHANGED <<client, asked, req, slots, dns, xrays, procs, taken>>

CreateFails(i) ==
  /\ pc[i] = "create"
  /\ Goto(i, "sidecars")
  /\ UNCHANGED <<client, asked, req, slots, dns, boxes, xrays, procs, taken>>

\* The dispatcher recovers; the deferred function of Start sees no error.
CreatePanics(i) ==
  /\ MayPanic
  /\ pc[i] = "create"
  /\ Goto(i, "panicked")
  /\ UNCHANGED <<client, asked, req, slots, dns, boxes, xrays, procs, taken>>

Publish(i) ==
  /\ pc[i] = "publish"
  /\ slots' = [slots EXCEPT !.box = i]
  /\ Goto(i, "apply")
  /\ UNCHANGED <<client, asked, req, dns, boxes, xrays, procs, taken>>

ApplyDNS(i) ==
  /\ pc[i] = "apply"
  /\ dns' = IF SystemDNS(i) THEN "applied" ELSE dns
  /\ Goto(i, "watch")
  /\ UNCHANGED <<client, asked, req, slots, boxes, xrays, procs, taken>>

\* Released, and the box closed while it is published.
ApplyFails(i) ==
  /\ pc[i] = "apply"
  /\ SystemDNS(i)
  /\ dns' = "off"
  /\ boxes' = [boxes EXCEPT ![i] = "closing"]
  /\ Goto(i, "closeBox")
  /\ UNCHANGED <<client, asked, req, slots, xrays, procs, taken>>

\* watchEgressForwarding watches on Windows only.
WatchEgress(i) ==
  /\ pc[i] = "watch"
  /\ slots' = IF req[i].want.tun = "none" THEN slots
              ELSE [slots EXCEPT !.watch = IF Platform = "windows" THEN i ELSE 0]
  /\ Goto(i, "ok")
  /\ UNCHANGED <<client, asked, req, dns, boxes, xrays, procs, taken>>

\* Mutant: the deferred function forgets the mark.
Defer_Marked(i) ==
  /\ pc[i] = "defer"
  /\ slots' = [slots EXCEPT !.box = 0]
  /\ Goto(i, "failed")
  /\ UNCHANGED <<client, asked, req, dns, boxes, xrays, procs, taken>>

\* The deferred function of a Start that returns an error.
Defer(i) ==
  /\ pc[i] = "defer"
  /\ slots' = [slots EXCEPT !.box = 0, !.mark = 0]
  /\ Goto(i, "failed")
  /\ UNCHANGED <<client, asked, req, dns, boxes, xrays, procs, taken>>

-----------------------------------------------------------------------------
(* Stop, and what a Start that fails late shares with it.                  *)

\* Mutant: Stop forgets the DNS.
Release_Dns(i) ==
  /\ pc[i] = "release"
  /\ slots' = [slots EXCEPT !.watch = 0]
  /\ Goto(i, "unpublish")
  /\ UNCHANGED <<client, asked, req, dns, boxes, xrays, procs, taken>>

\* sysdns.Release succeeds here; what its failure leaves is in SystemDns.
Release(i) ==
  /\ pc[i] = "release"
  /\ slots' = [slots EXCEPT !.watch = 0]
  /\ dns' = "off"
  /\ Goto(i, "unpublish")
  /\ UNCHANGED <<client, asked, req, boxes, xrays, procs, taken>>

Unpublish(i) ==
  /\ pc[i] = "unpublish"
  /\ slots' = [slots EXCEPT !.box = 0]
  /\ boxes' = [boxes EXCEPT ![slots.box] = "closing"]
  /\ Goto(i, "closeBox")
  /\ UNCHANGED <<client, asked, req, dns, xrays, procs, taken>>

CloseBox(i) ==
  /\ pc[i] = "closeBox"
  /\ \E b \in Ids :
       /\ boxes[b] = "closing"
       /\ boxes' = [boxes EXCEPT ![b] = "closed"]
  /\ Goto(i, "sidecars")
  /\ UNCHANGED <<client, asked, req, slots, dns, xrays, procs, taken>>

\* Process.Stop: what it kills is reaped later. Its cleanup fails when the
\* child still holds the file.
Stopped(p) ==
  {[run |-> IF p.run = "running" THEN "killed" ELSE p.run,
    stopped |-> TRUE, file |-> f] :
     f \in {FALSE} \cup (IF p.run \in {"running", "killed"} THEN {p.file} ELSE {})}

\* Mutant: the extra process is forgotten, not stopped.
StopSidecars_Extra(i) ==
  /\ pc[i] = "sidecars"
  /\ dns' = IF Starts(i) THEN "off" ELSE dns
  /\ slots' = [slots EXCEPT !.extra = 0]
  /\ Goto(i, "clearXray")
  /\ UNCHANGED <<client, asked, req, boxes, xrays, procs, taken>>

\* stopSidecars releases the DNS first; Stop did so before it closed the box.
StopSidecars(i) ==
  /\ pc[i] = "sidecars"
  /\ dns' = IF Starts(i) THEN "off" ELSE dns
  /\ IF slots.extra = 0 THEN procs' = procs
       ELSE \E p \in Stopped(procs[slots.extra]) :
              procs' = [procs EXCEPT ![slots.extra] = p]
  /\ slots' = [slots EXCEPT !.extra = 0]
  /\ Goto(i, "clearXray")
  /\ UNCHANGED <<client, asked, req, boxes, xrays, taken>>

\* Mutant: the full gates are forgotten.
ClearXray_NotFull(i) ==
  /\ pc[i] = "clearXray"
  /\ taken' = {t \in Ids \X {"instance", "gate"} : Held(t[2]) = t[1]}
  /\ slots' = [slots EXCEPT !.instance = 0, !.gate = 0, !.full = 0]
  /\ Goto(i, "closeXray")
  /\ UNCHANGED <<client, asked, req, dns, boxes, xrays, procs>>

\* The first half of closeXray, under stateMu.
ClearXray(i) ==
  /\ pc[i] = "clearXray"
  /\ taken' = {t \in Ids \X Parts : Held(t[2]) = t[1]}
  /\ slots' = [slots EXCEPT !.instance = 0, !.gate = 0, !.full = 0]
  /\ Goto(i, "closeXray")
  /\ UNCHANGED <<client, asked, req, dns, boxes, xrays, procs>>

\* The second half, and the mark that Stop clears last.
CloseXray(i) ==
  /\ pc[i] = "closeXray"
  /\ xrays' = [j \in Ids |-> {part \in xrays[j] : <<j, part>> \notin taken}]
  /\ taken' = {}
  /\ slots' = IF Starts(i) THEN slots ELSE [slots EXCEPT !.mark = 0]
  /\ Goto(i, IF Starts(i) THEN "defer" ELSE "ok")
  /\ UNCHANGED <<client, asked, req, dns, boxes, procs>>

-----------------------------------------------------------------------------
(* The extra process and the goroutine of Process.Start that waits for it. *)

ExtraEnds(i) ==
  /\ procs[i].run \in {"running", "killed"}
  /\ procs' = [procs EXCEPT ![i] = [procs[i] EXCEPT !.run = "ended"]]
  /\ UNCHANGED <<client, asked, req, pc, slots, dns, boxes, xrays, taken>>

\* Mutant: only Process.Stop cleans up.
ExtraReaped_Kept(i) ==
  /\ procs[i].run = "ended"
  /\ procs' = [procs EXCEPT ![i] = [procs[i] EXCEPT !.run = "reaped"]]
  /\ UNCHANGED <<client, asked, req, pc, slots, dns, boxes, xrays, taken>>

\* It reports an end that nobody asked for, and cleans up.
ExtraReaped(i) ==
  /\ procs[i].run = "ended"
  /\ procs' = [procs EXCEPT ![i] = [procs[i] EXCEPT !.run = "reaped", !.file = FALSE]]
  /\ UNCHANGED <<client, asked, req, pc, slots, dns, boxes, xrays, taken>>

-----------------------------------------------------------------------------

StartStep(i) ==
  \/ EnterStart(i)
  \/ SkipExtra(i) \/ ExtraRefused(i) \/ StartExtra(i)
  \/ SkipXray(i) \/ XrayFails(i) \/ StartGate(i) \/ StartInstance(i)
  \/ SkipFull(i) \/ StartFullGates(i) \/ FullGatesFail(i)
  \/ PrepareDNS(i)
  \/ CreateBox(i) \/ CreateFails(i) \/ CreatePanics(i)
  \/ Publish(i) \/ ApplyDNS(i) \/ ApplyFails(i) \/ WatchEgress(i)
  \/ Defer(i)

StopStep(i) ==
  \/ EnterStop(i) \/ Release(i) \/ Unpublish(i)
  \/ CloseBox(i) \/ StopSidecars(i) \/ ClearXray(i) \/ CloseXray(i)

Client == AskStart \/ AskStop \/ Answer \/ TimeOut

Next ==
  \/ Client
  \/ \E i \in Ids : StartStep(i) \/ StopStep(i) \/ ExtraEnds(i) \/ ExtraReaped(i)

Spec == Init /\ [][Next]_vars

\* The goroutine of a call goes on: starts and closes of boxes and instances
\* return. A killed child ends, and one that ended is reaped.
Fairness ==
  \A i \in Ids :
    /\ WF_vars(StartStep(i) \/ StopStep(i))
    /\ WF_vars(procs[i].run = "killed" /\ ExtraEnds(i))
    /\ WF_vars(ExtraReaped(i))

FairSpec == Spec /\ Fairness

-----------------------------------------------------------------------------
(* Properties.                                                             *)

\* Every variable has its type; taken is not empty only inside closeXray.
TypeOK ==
  /\ client \in [call : 0..MaxCalls, running : BOOLEAN]
  /\ asked \in 0..MaxCalls
  /\ req \in [Ids -> Requests]
  /\ pc \in [Ids -> {"unsent", "queued"} \cup Holding \cup Answered]
  /\ slots \in Slots
  /\ dns \in {"off", "prepared", "applied"}
  /\ boxes \in [Ids -> {"none", "live", "closing", "closed"}]
  /\ xrays \in [Ids -> SUBSET Parts]
  /\ procs \in [Ids -> Processes]
  /\ taken \in SUBSET (Ids \X Parts)
  /\ taken # {} => \E i \in Ids : pc[i] = "closeXray"

AtRest == \A i \in Ids : pc[i] \notin Holding \cup {"queued"}

\* A later Start failed and its deferred function cleared the slot of the box.
Disowned(i) ==
  /\ slots.box # i
  /\ \E j \in Ids : j > i /\ Starts(j) /\ pc[j] = "failed"

\* The returns of Start between StartExtra and stopSidecars, which the extra
\* process survives.
LeavesExtra(i) ==
  pc[i] = "failed" /\ (req[i].want.xray # "none" \/ req[i].want.full)

\* What still runs when no call is under way: the published profile and,
\* besides it, a box that a Start found and disowned ("instance already
\* started"), with its sidecars, when the client had given up the Start that
\* made it; all that a Start had when building its box panicked; and the extra
\* process of a Start that failed at Xray or at the full gates. No other error
\* path of Start, and no Stop, leaves a box, an Xray instance or gate, an extra
\* process that nobody stopped, or a prepared system DNS behind.
NothingLeftBehind ==
  AtRest =>
    /\ \A i \in Ids :
         /\ boxes[i] # "closing"
         /\ boxes[i] = "live" => slots.box = i \/ Disowned(i)
         /\ xrays[i] # {} => boxes[i] = "live" \/ pc[i] = "panicked"
         /\ procs[i].run = "running" /\ ~procs[i].stopped =>
              boxes[i] = "live" \/ pc[i] = "panicked" \/ LeavesExtra(i)
    /\ dns = "prepared" => \E i \in Ids : pc[i] = "panicked"

\* An Xray instance or gate that runs is in its slot, or the call inside
\* closeXray is about to close it: none is overwritten, none is lost.
XrayOwned ==
  \A i \in Ids : \A part \in xrays[i] :
    Held(part) = i \/ <<i, part>> \in taken

\* A slot of an Xray instance or gate never holds one that was closed, so the
\* egress callback (liveXrayInstances) finds only live ones.
XraySlotsLive ==
  \A part \in Parts : Held(part) # 0 => part \in xrays[Held(part)]

\* A poll that finds a box finds one that is not being closed.
PublishedIsLive == slots.box # 0 => boxes[slots.box] = "live"

\* What the package variables hold is what runs: the parts of Xray that run are in
\* their slots or about to be closed, and nothing published is closed or closing.
SlotsTellTrue == XrayOwned /\ XraySlotsLive /\ PublishedIsLive

\* While a Tun redirects, test boxes get its mark and are not captured by it;
\* without one at rest they get none.
ProbesEscape ==
  /\ \A i \in Ids : boxes[i] = "live" /\ Marked(i) => slots.mark = i
  /\ AtRest /\ slots.mark # 0 => boxes[slots.mark] = "live"

\* The system DNS points at the core only while a box listens.
ResolverHasListener ==
  dns = "applied" => \E i \in Ids : boxes[i] = "live" /\ SystemDNS(i)

\* When the client takes a profile for running and waits for nothing, the box
\* it last asked for is published and live, calls it gave up included.
ClientIsRight ==
  client.running /\ client.call = 0 =>
    slots.box = asked /\ boxes[asked] = "live"

\* An extra process that was stopped ends, and its configuration is removed.
StoppedExtraGoes ==
  \A i \in Ids : procs[i].stopped ~> procs[i].run \in {"none", "reaped"} /\ ~procs[i].file

-----------------------------------------------------------------------------
(* Said of the code, and not so.                                           *)

\* "with no box there is no Tun to steer around" (egress.go): at rest, when
\* currentBox is nil no box with a Tun lives.
NoBoxNoTun ==
  AtRest /\ slots.box = 0 =>
    \A i \in Ids : req[i].want.tun # "none" => boxes[i] # "live"

\* "Extra Core exited, stopping profile..." (CoreSupervisor): an extra process
\* whose end is reported is not one of another profile than the running one.
ReportedExtraIsCurrent ==
  [][\A i \in Ids :
       procs[i].run = "ended" /\ procs'[i].run = "reaped" /\ ~procs[i].stopped =>
         slots.box \in {0, i}]_vars

=============================================================================
