------------------------------ MODULE XrayGate ------------------------------
(***************************************************************************)
(* xray.Gate: it listens on the ports of a gated Xray instance, starts the *)
(* instance when a connection needs it and relays to it, closes it when it *)
(* is idle (sweep), retires it when the network changes (Recycle) and ends *)
(* with the profile (Close).                                               *)
(*                                                                         *)
(* One goroutine per connection (handle), the sweeper, and the owner of    *)
(* the gate interleave. Recycle and Close run under the owner's mutex      *)
(* (xrayStack.access), so the owner is in one of them at a time. g.mu is   *)
(* held over several steps by the sweeper only; the other sections under   *)
(* g.mu, a start of the instance included, and those under g.connsMu, are  *)
(* one step each.                                                          *)
(***************************************************************************)
EXTENDS Integers, FiniteSets

CONSTANTS
  Conns,       \* connections that clients make
  Sweeps,      \* TRUE when the gate has an idle time (idle > 0)
  MaxRecycles  \* bound: calls of Recycle that find an instance

ASSUME XrayGateAssumption ==
  IsFiniteSet(Conns) /\ Sweeps \in BOOLEAN /\ MaxRecycles \in Nat

VARIABLES
  gate,     \* the members of Gate
  handlers, \* per connection, the goroutine in handle and its two sockets
  sweeper,  \* the goroutine in sweep
  owner,    \* the call of Recycle or Close that is under way
  alive,    \* instances that run
  started   \* how many instances were started; their ids are 1..started

vars == <<gate, handlers, sweeper, owner, alive, started>>

Untracked == -1

\* instance: 0 is nil. failed: the last start failed within gateStartCooldown.
\* tracking: conns is not nil. quiet: lastUse is at least idle ago.
Gates ==
  [instance : Nat, closed : BOOLEAN, failed : BOOLEAN, generation : Nat,
   listening : BOOLEAN, tracking : BOOLEAN, active : Nat, quiet : BOOLEAN]

\* clientGen and upstreamGen are the entries of conns for the two sockets.
Handlers ==
  [pc : {"new", "accepted", "tracked", "counted", "ensured", "bound", "dialed",
         "relaying", "leaving", "uncounted", "done"},
   instance : Nat, generation : Nat,
   client : {"none", "open", "closed"}, upstream : {"none", "open", "closed"},
   clientGen : Nat \cup {Untracked}, upstreamGen : Nat \cup {Untracked}]

Sweepers == [pc : {"ticking", "checked", "locked", "closing", "stopped"},
             idle : BOOLEAN, instance : Nat]

Owners ==
  [pc : {"free", "snapshot", "closeStale", "retire",
         "listeners", "map", "closeConns", "shut"},
   instance : Nat, retired : Nat,
   clients : SUBSET Conns, upstreams : SUBSET Conns]

Init ==
  /\ gate = [instance |-> 0, closed |-> FALSE, failed |-> FALSE, generation |-> 1,
             listening |-> TRUE, tracking |-> TRUE, active |-> 0, quiet |-> FALSE]
  /\ handlers = [c \in Conns |->
       [pc |-> "new", instance |-> 0, generation |-> 0, client |-> "none",
        upstream |-> "none", clientGen |-> Untracked, upstreamGen |-> Untracked]]
  /\ sweeper = [pc |-> "ticking", idle |-> FALSE, instance |-> 0]
  /\ owner = [pc |-> "free", instance |-> 0, retired |-> 0, clients |-> {}, upstreams |-> {}]
  /\ alive = {} /\ started = 0

muFree == sweeper.pc # "locked"

-----------------------------------------------------------------------------
(* handle                                                                  *)

At(c, pc) == handlers[c].pc = pc

Becomes(c, h) == handlers' = [handlers EXCEPT ![c] = h]
Goto(c, pc) == Becomes(c, [handlers[c] EXCEPT !.pc = pc])

\* serve: the listener hands the connection over.
Accept(c) ==
  /\ At(c, "new") /\ gate.listening
  /\ Becomes(c, [handlers[c] EXCEPT !.pc = "accepted", !.client = "open"])
  /\ UNCHANGED <<gate, sweeper, owner, alive, started>>

\* track accepts a socket that is to be bound to this generation.
Tracks(generation) ==
  gate.tracking /\ (generation # 0 => generation = gate.generation)

TrackClient(c) ==
  /\ At(c, "accepted")
  /\ IF Tracks(0) THEN Becomes(c, [handlers[c] EXCEPT !.pc = "tracked", !.clientGen = 0])
     ELSE Becomes(c, [handlers[c] EXCEPT !.pc = "done", !.client = "closed"])
  /\ UNCHANGED <<gate, sweeper, owner, alive, started>>

Count(c) ==
  /\ At(c, "tracked")
  /\ Goto(c, "counted")
  /\ gate' = [gate EXCEPT !.active = @ + 1, !.quiet = FALSE]
  /\ UNCHANGED <<sweeper, owner, alive, started>>

\* ensure hands the instance out.
Handed(c, i) ==
  Becomes(c, [handlers[c] EXCEPT !.pc = "ensured", !.instance = i,
                                 !.generation = gate.generation])

EnsureRefuses(c) ==
  /\ At(c, "counted") /\ muFree
  /\ gate.closed \/ (gate.instance = 0 /\ gate.failed)
  /\ Goto(c, "leaving")
  /\ UNCHANGED <<gate, sweeper, owner, alive, started>>

EnsureFinds(c) ==
  /\ At(c, "counted") /\ muFree
  /\ ~gate.closed /\ gate.instance # 0
  /\ Handed(c, gate.instance)
  /\ UNCHANGED <<gate, sweeper, owner, alive, started>>

\* startInstance, with its retries: it gives an instance or leaves none behind.
EnsureStarts(c, ok) ==
  /\ At(c, "counted") /\ muFree
  /\ ~gate.closed /\ gate.instance = 0 /\ ~gate.failed
  /\ IF ok
     THEN /\ started' = started + 1
          /\ alive' = alive \cup {started'}
          /\ gate' = [gate EXCEPT !.instance = started']
          /\ Handed(c, started')
     ELSE /\ gate' = [gate EXCEPT !.failed = TRUE]
          /\ Goto(c, "leaving")
          /\ UNCHANGED <<alive, started>>
  /\ UNCHANGED <<sweeper, owner>>

Bind(c) ==
  /\ At(c, "ensured")
  /\ IF Tracks(handlers[c].generation)
     THEN Becomes(c, [handlers[c] EXCEPT !.pc = "bound", !.clientGen = handlers[c].generation])
     ELSE Goto(c, "leaving")
  /\ UNCHANGED <<gate, sweeper, owner, alive, started>>

\* The dial can reach somebody although the instance is gone: its port is free then.
Dial(c, ok) ==
  /\ At(c, "bound")
  /\ IF ok THEN Becomes(c, [handlers[c] EXCEPT !.pc = "dialed", !.upstream = "open"])
     ELSE Goto(c, "leaving")
  /\ UNCHANGED <<gate, sweeper, owner, alive, started>>

TrackUpstream(c) ==
  /\ At(c, "dialed")
  /\ IF Tracks(handlers[c].generation)
     THEN Becomes(c, [handlers[c] EXCEPT !.pc = "relaying", !.upstreamGen = handlers[c].generation])
     ELSE Becomes(c, [handlers[c] EXCEPT !.pc = "leaving", !.upstream = "closed"])
  /\ UNCHANGED <<gate, sweeper, owner, alive, started>>

\* Both directions have ended: by the peers, or because the sockets were closed.
RelayEnds(c) ==
  /\ At(c, "relaying")
  /\ Becomes(c, [handlers[c] EXCEPT !.pc = "leaving", !.upstream = "closed",
                                    !.upstreamGen = Untracked])
  /\ UNCHANGED <<gate, sweeper, owner, alive, started>>

Uncount(c) ==
  /\ At(c, "leaving")
  /\ Goto(c, "uncounted")
  /\ gate' = [gate EXCEPT !.active = @ - 1]
  /\ UNCHANGED <<sweeper, owner, alive, started>>

Leave(c) ==
  /\ At(c, "uncounted")
  /\ Becomes(c, [handlers[c] EXCEPT !.pc = "done", !.client = "closed",
                                    !.clientGen = Untracked])
  /\ gate' = [gate EXCEPT !.quiet = FALSE]
  /\ UNCHANGED <<sweeper, owner, alive, started>>

-----------------------------------------------------------------------------
(* Time: the cooldown of a failed start ends, and lastUse gets old.        *)

CooldownEnds ==
  /\ gate.failed
  /\ gate' = [gate EXCEPT !.failed = FALSE]
  /\ UNCHANGED <<handlers, sweeper, owner, alive, started>>

GetsQuiet ==
  /\ Sweeps /\ ~gate.quiet
  /\ gate' = [gate EXCEPT !.quiet = TRUE]
  /\ UNCHANGED <<handlers, sweeper, owner, alive, started>>

-----------------------------------------------------------------------------
(* sweep                                                                   *)

SweepTick ==
  /\ sweeper.pc = "ticking"
  /\ gate.active = 0 /\ gate.quiet
  /\ sweeper' = [sweeper EXCEPT !.pc = "checked"]
  /\ UNCHANGED <<gate, handlers, owner, alive, started>>

\* Mutated form of ActiveNone: the check that was made before the lock is trusted.
ActiveNone_Stale == TRUE
\* The first half of idleNow.
ActiveNone == gate.active = 0

\* The recheck loads active first and lastUse later, with g.mu held.
SweepLock ==
  /\ sweeper.pc = "checked"
  /\ sweeper' = [sweeper EXCEPT !.pc = "locked", !.idle = ActiveNone]
  /\ UNCHANGED <<gate, handlers, owner, alive, started>>

SweepTake ==
  /\ sweeper.pc = "locked"
  /\ IF sweeper.idle /\ gate.quiet
     THEN /\ sweeper' = [sweeper EXCEPT !.pc = "closing", !.instance = gate.instance]
          /\ gate' = [gate EXCEPT !.instance = 0]
     ELSE /\ sweeper' = [sweeper EXCEPT !.pc = "ticking"]
          /\ UNCHANGED gate
  /\ UNCHANGED <<handlers, owner, alive, started>>

SweepClose ==
  /\ sweeper.pc = "closing"
  /\ alive' = alive \ {sweeper.instance}
  /\ sweeper' = [sweeper EXCEPT !.pc = "ticking", !.instance = 0]
  /\ UNCHANGED <<gate, handlers, owner, started>>

SweepStops ==
  /\ sweeper.pc = "ticking" /\ ~gate.listening
  /\ sweeper' = [sweeper EXCEPT !.pc = "stopped"]
  /\ UNCHANGED <<gate, handlers, owner, alive, started>>

-----------------------------------------------------------------------------
(* Recycle and Close, called by xrayStack.recycle and xrayStack.close.     *)

OwnerGoes(from, to) ==
  /\ owner.pc = from
  /\ owner' = [owner EXCEPT !.pc = to]

\* Mutated form of CloseSockets: the sockets to the instance stay open.
CloseSockets_ClientsOnly ==
  handlers' = [c \in Conns |-> [handlers[c] EXCEPT
    !.client = IF c \in owner.clients THEN "closed" ELSE @]]
\* The sockets that the owner has picked are closed.
CloseSockets ==
  handlers' = [c \in Conns |-> [handlers[c] EXCEPT
    !.client = IF c \in owner.clients THEN "closed" ELSE @,
    !.upstream = IF c \in owner.upstreams THEN "closed" ELSE @]]

\* The instance that the owner has taken is closed and the call returns.
CloseInstance ==
  /\ alive' = alive \ {owner.instance}
  /\ owner' = [owner EXCEPT !.pc = "free", !.instance = 0, !.clients = {}, !.upstreams = {}]

\* Mutated form of Recycle: the old generation stays current.
Recycle_NoGeneration ==
  /\ owner.pc = "free" /\ muFree
  /\ gate.instance # 0 /\ gate.generation <= MaxRecycles
  /\ gate' = [gate EXCEPT !.instance = 0]
  /\ owner' = [owner EXCEPT !.pc = "snapshot", !.instance = gate.instance,
                            !.retired = gate.generation]
  /\ UNCHANGED <<handlers, sweeper, alive, started>>
Recycle ==
  /\ owner.pc = "free" /\ muFree
  /\ gate.instance # 0 /\ gate.generation <= MaxRecycles
  /\ gate' = [gate EXCEPT !.instance = 0, !.generation = @ + 1]
  /\ owner' = [owner EXCEPT !.pc = "snapshot", !.instance = gate.instance,
                            !.retired = gate.generation]
  /\ UNCHANGED <<handlers, sweeper, alive, started>>

RecycleSnapshot ==
  /\ owner.pc = "snapshot"
  /\ owner' = [owner EXCEPT !.pc = "closeStale",
       !.clients = {c \in Conns : handlers[c].clientGen = owner.retired},
       !.upstreams = {c \in Conns : handlers[c].upstreamGen = owner.retired}]
  /\ UNCHANGED <<gate, handlers, sweeper, alive, started>>

RecycleCloseStale ==
  /\ OwnerGoes("closeStale", "retire")
  /\ CloseSockets
  /\ UNCHANGED <<gate, sweeper, alive, started>>

RecycleRetire ==
  /\ owner.pc = "retire"
  /\ CloseInstance
  /\ UNCHANGED <<gate, handlers, sweeper, started>>

\* Mutated form of Close: the instance stays in its slot.
Close_Kept ==
  /\ owner.pc = "free" /\ muFree /\ ~gate.closed
  /\ gate' = [gate EXCEPT !.closed = TRUE]
  /\ owner' = [owner EXCEPT !.pc = "listeners", !.instance = gate.instance]
  /\ UNCHANGED <<handlers, sweeper, alive, started>>
Close ==
  /\ owner.pc = "free" /\ muFree /\ ~gate.closed
  /\ gate' = [gate EXCEPT !.closed = TRUE, !.instance = 0]
  /\ owner' = [owner EXCEPT !.pc = "listeners", !.instance = gate.instance]
  /\ UNCHANGED <<handlers, sweeper, alive, started>>

CloseListeners ==
  /\ OwnerGoes("listeners", "map")
  /\ gate' = [gate EXCEPT !.listening = FALSE]
  /\ UNCHANGED <<handlers, sweeper, alive, started>>

\* conns becomes nil; what was in it is closed next.
CloseMap ==
  /\ owner.pc = "map"
  /\ owner' = [owner EXCEPT !.pc = "closeConns",
       !.clients = {c \in Conns : handlers[c].clientGen # Untracked},
       !.upstreams = {c \in Conns : handlers[c].upstreamGen # Untracked}]
  /\ gate' = [gate EXCEPT !.tracking = FALSE]
  /\ UNCHANGED <<handlers, sweeper, alive, started>>

CloseConns ==
  /\ OwnerGoes("closeConns", "shut")
  /\ CloseSockets
  /\ UNCHANGED <<gate, sweeper, alive, started>>

CloseShut ==
  /\ owner.pc = "shut"
  /\ CloseInstance
  /\ UNCHANGED <<gate, handlers, sweeper, started>>

-----------------------------------------------------------------------------
Handle(c) ==
  \/ TrackClient(c) \/ Count(c)
  \/ EnsureRefuses(c) \/ EnsureFinds(c) \/ \E ok \in BOOLEAN : EnsureStarts(c, ok)
  \/ Bind(c) \/ (\E ok \in BOOLEAN : Dial(c, ok)) \/ TrackUpstream(c)
  \/ Uncount(c) \/ Leave(c)

Sweep == SweepTick \/ SweepLock \/ SweepTake \/ SweepClose \/ SweepStops

\* The rest of a call that has begun.
OwnerGoesOn ==
  \/ RecycleSnapshot \/ RecycleCloseStale \/ RecycleRetire
  \/ CloseListeners \/ CloseMap \/ CloseConns \/ CloseShut

Next ==
  \/ \E c \in Conns : Accept(c) \/ Handle(c) \/ RelayEnds(c)
  \/ CooldownEnds \/ GetsQuiet
  \/ Sweep
  \/ Recycle \/ Close \/ OwnerGoesOn

Spec == Init /\ [][Next]_vars

\* Both sockets of the relay are closed, so io.Copy returns in both directions.
Cut(c) == handlers[c].client = "closed" /\ handlers[c].upstream = "closed"

\* Goroutines go on; a relay ends for sure only when it is cut.
Fairness ==
  /\ \A c \in Conns : WF_vars(Handle(c)) /\ WF_vars(Cut(c) /\ RelayEnds(c))
  /\ WF_vars(Sweep) /\ WF_vars(OwnerGoesOn)

FairSpec == Spec /\ Fairness

-----------------------------------------------------------------------------
(* Properties.                                                             *)

\* Every variable holds a value of its kind.
TypeOK ==
  /\ gate \in Gates
  /\ handlers \in [Conns -> Handlers]
  /\ sweeper \in Sweepers
  /\ owner \in Owners
  /\ alive \subseteq Nat /\ started \in Nat

\* Every instance that runs has exactly one place from which it will be closed: the
\* slot of the gate, the sweeper, or the call of Recycle or Close that took it. None
\* leaks and none is closed twice.
OneOwner ==
  /\ alive = {gate.instance, sweeper.instance, owner.instance} \ {0}
  /\ gate.instance # 0 => gate.instance \notin {sweeper.instance, owner.instance}
  /\ sweeper.instance # 0 => sweeper.instance # owner.instance

\* A connection that is relayed and still open is relayed to an instance that runs:
\* whoever closes an instance has closed the relays to it before.
LiveTarget ==
  \A c \in Conns :
    At(c, "relaying") /\ handlers[c].client = "open" => handlers[c].instance \in alive

\* "Recycle never misses a connection still on its way to the old instance": once the
\* call is over, a relay of a retired generation has both its sockets closed.
RecycleMissesNone ==
  owner.pc \notin {"snapshot", "closeStale"} =>
    \A c \in Conns :
      At(c, "relaying") /\ handlers[c].generation # gate.generation => Cut(c)

\* "a connection counted after the first check must not be handed an instance about
\* to close": no handler has the instance that the sweeper took.
SweepSparesBusy ==
  sweeper.instance # 0 =>
    \A c \in Conns :
      handlers[c].pc \in {"ensured", "bound", "dialed", "relaying"} =>
        handlers[c].instance # sweeper.instance

\* When Close has returned, nothing is left that it should have ended: an instance
\* runs only while the sweeper is about to close it, and every relay is cut.
CloseLeavesNothing ==
  gate.closed /\ owner.pc = "free" =>
    /\ alive \subseteq {sweeper.instance}
    /\ \A c \in Conns : At(c, "relaying") => Cut(c)

\* Whoever takes the instance to close it, Recycle, the sweeper or Close, misses no
\* connection that has been handed it.
NobodyMissed == RecycleMissesNone /\ SweepSparesBusy /\ CloseLeavesNothing

\* A closed gate empties: every goroutine of a connection ends and no instance runs.
Drains ==
  gate.closed ~> alive = {} /\ \A c \in Conns : handlers[c].pc \in {"new", "done"}

\* A relay to a retired instance ends, although the client may never send or close.
RetiredRelaysEnd ==
  \A c \in Conns :
    At(c, "relaying") /\ handlers[c].generation # gate.generation ~> ~At(c, "relaying")
=============================================================================
