----------------------------- MODULE SystemDns -----------------------------
(***************************************************************************)
(* Package sysdns on macOS: while a Tun runs, the network service of the   *)
(* default interface uses the core's loopback alias as its DNS server. The *)
(* record of what to put back is kept in a file, for the next core when    *)
(* this one dies.                                                          *)
(*                                                                         *)
(* A core is a process: it may die between any two steps. Its own calls    *)
(* run one at a time under mu, in goroutines of their own; the cores share *)
(* the services, the alias and the file, whose accesses are one step each  *)
(* (withStateLock) but for the replay of a record, which holds the lock    *)
(* over several.                                                           *)
(***************************************************************************)
EXTENDS Integers, FiniteSets

CONSTANTS
  Services,   \* network services of the operating system
  NoService,  \* no default interface, or no service is pointed at the core
  MaxCores,   \* bound: core processes; core c has PID c
  Overlap,    \* TRUE when a core may start while another one still runs
  MaxFaults,  \* bound: calls of networksetup, ifconfig or the disk that fail
  MaxMoves,   \* bound: changes of the default interface
  MaxStarts   \* bound: calls of Prepare

ASSUME SystemDnsAssumption ==
  /\ NoService \notin Services
  /\ Overlap \in BOOLEAN
  /\ MaxCores \in Nat /\ MaxFaults \in Nat /\ MaxMoves \in Nat /\ MaxStarts \in Nat

VARIABLES
  servers,  \* per service its DNS servers: the user's, the core's or none
  alias,    \* the loopback alias: none, set, or there with no one left to remove it
  file,     \* the record on disk
  default,  \* the service of the default interface
  pc,       \* per core, where its call is, or where it rests between calls
  back,     \* per core, where the call under way goes when it ends
  owned,    \* per core, its record
  stored,   \* per core, the record it replays (restoreStaleLocked)
  current,  \* per core, the service it points at itself
  at,       \* per core, the service the call under way works on
  todo,     \* per core, the services a loop has left
  follow,   \* per core, followGen, whether it watches, and its goroutines
  spent,    \* how much of each bound is used up
  lost      \* history: services whose record was written over unread

vars == <<servers, alias, file, default, pc, back, owned, stored, current, at,
          todo, follow, spent, lost>>

Cores == 1..MaxCores

\* What to put back: nothing recorded, the user's servers, or an empty list.
Previous == {"none", "user", "empty"}

Records == [pid : 0..MaxCores, alias : BOOLEAN, services : [Services -> Previous]]

Blank == [pid |-> 0, alias |-> FALSE, services |-> [s \in Services |-> "none"]]

Recorded(record) == {s \in Services : record.services[s] # "none"}

Unwatched == [gen |-> 0, watching |-> FALSE, runs |-> {}]

Resting == {"idle", "failed", "prepared", "applied"}

\* At these labels a core holds the lock of the state file.
Replaying == {"replay", "unalias", "rewrite"}

Busy == {"load", "decide", "alias", "follow", "point", "set", "restore", "forget",
         "undo", "undone", "close"} \cup Replaying

Alive(c) == pc[c] \in Resting \cup Busy

Init ==
  /\ servers = [s \in Services |-> "user"]
  /\ alias = "none"
  /\ file = Blank
  /\ default \in Services \cup {NoService}
  /\ pc = [c \in Cores |-> "unborn"]
  /\ back = [c \in Cores |-> [ok |-> "idle", err |-> "idle"]]
  /\ owned = [c \in Cores |-> Blank]
  /\ stored = [c \in Cores |-> Blank]
  /\ current = [c \in Cores |-> NoService]
  /\ at = [c \in Cores |-> NoService]
  /\ todo = [c \in Cores |-> {}]
  /\ follow = [c \in Cores |-> Unwatched]
  /\ spent = [faults |-> 0, moves |-> 0, starts |-> 0]
  /\ lost = {}

-----------------------------------------------------------------------------

Goto(c, label) == pc' = [pc EXCEPT ![c] = label]

WorksOn(c, s) == at' = [at EXCEPT ![c] = s]

\* A call of another program or of the disk goes wrong.
Fault == /\ spent.faults < MaxFaults
         /\ spent' = [spent EXCEPT !.faults = @ + 1]

\* The lock of the state file is free for core c.
FlockFree(c) == \A d \in Cores \ {c} : pc[d] \notin Replaying

Put(s, value) == servers' = [servers EXCEPT ![s] = value]

Own(c, record) == owned' = [owned EXCEPT ![c] = record]

Without(record, s) ==
  [record EXCEPT !.services = [record.services EXCEPT ![s] = "none"]]

\* saveLocked after a change of the record.
Save(c, record) == FlockFree(c) /\ Own(c, record) /\ file' = record

-----------------------------------------------------------------------------
(* restoreStaleLocked: at the start of a core and in Prepare.              *)

Boot(c) ==
  /\ pc[c] = "unborn"
  /\ \A d \in Cores : d < c => pc[d] # "unborn"
  /\ Overlap \/ \A d \in Cores : ~Alive(d)
  /\ back' = [back EXCEPT ![c] = [ok |-> "idle", err |-> "idle"]]
  /\ Goto(c, "load")
  /\ UNCHANGED <<servers, alias, file, default, owned, stored, current, at, todo,
                 follow, spent, lost>>

\* Mutant: alive matches the command name alone, and so this core as well.
Stale_AnyCore(c) == file.pid # 0 /\ file.pid # c /\ \A d \in Cores : ~Alive(d)

\* The record of a core that is dead, and not this one's.
Stale(c) == file.pid # 0 /\ file.pid # c /\ ~Alive(file.pid)

\* Without a record to replay, or when the lock or the file fails, which is only
\* logged, restoreStaleLocked returns no leftovers.
Load(c) ==
  /\ pc[c] = "load"
  /\ \/ /\ Stale(c) /\ FlockFree(c)
        /\ stored' = [stored EXCEPT ![c] = file]
        /\ todo' = [todo EXCEPT ![c] = Recorded(file)]
        /\ Goto(c, "replay")
        /\ spent' = spent
     \/ /\ (~Stale(c) /\ FlockFree(c) /\ spent' = spent) \/ Fault
        /\ stored' = [stored EXCEPT ![c] = Blank]
        /\ todo' = [todo EXCEPT ![c] = {}]
        /\ Goto(c, back[c].ok)
  /\ UNCHANGED <<servers, alias, file, default, back, owned, current, at, follow, lost>>

\* One service is put back, or networksetup fails and it stays recorded.
Replay(c) ==
  /\ pc[c] = "replay"
  /\ \E s \in todo[c] :
       /\ todo' = [todo EXCEPT ![c] = @ \ {s}]
       /\ \/ /\ Put(s, stored[c].services[s])
             /\ stored' = [stored EXCEPT ![c] = Without(stored[c], s)]
             /\ spent' = spent
          \/ Fault /\ UNCHANGED <<servers, stored>>
  /\ UNCHANGED <<alias, file, default, pc, back, owned, current, at, follow, lost>>

Replayed(c) ==
  /\ pc[c] = "replay"
  /\ todo[c] = {}
  /\ Goto(c, "unalias")
  /\ UNCHANGED <<servers, alias, file, default, back, owned, stored, current, at, todo,
                 follow, spent, lost>>

\* removeAlias only logs a failure.
AliasRemoved(wanted) ==
  \/ alias' = (IF wanted THEN "none" ELSE alias) /\ spent' = spent
  \/ wanted /\ alias # "none" /\ Fault /\ alias' = "left"

Unalias(c) ==
  /\ pc[c] = "unalias"
  /\ AliasRemoved(stored[c].alias)
  /\ stored' = [stored EXCEPT ![c] = [stored[c] EXCEPT !.alias = FALSE]]
  /\ Goto(c, "rewrite")
  /\ UNCHANGED <<servers, file, default, back, owned, current, at, todo, follow, lost>>

\* Mutant: the record of a dead core is not removed once it is replayed.
Rewrite_Kept(c) ==
  /\ pc[c] = "rewrite"
  /\ file' = stored[c]
  /\ Goto(c, back[c].ok)
  /\ UNCHANGED <<servers, alias, default, back, owned, stored, current, at, todo,
                 follow, spent, lost>>

Rewrite(c) ==
  /\ pc[c] = "rewrite"
  /\ \/ file' = (IF Recorded(stored[c]) = {} THEN Blank ELSE stored[c]) /\ spent' = spent
     \/ file' = file /\ Fault
  /\ Goto(c, back[c].ok)
  /\ UNCHANGED <<servers, alias, default, back, owned, stored, current, at, todo, follow, lost>>

-----------------------------------------------------------------------------
(* Prepare and Apply.                                                      *)

Prepare(c) ==
  /\ pc[c] \in Resting \ {"failed"}
  /\ spent.starts < MaxStarts
  /\ spent' = [spent EXCEPT !.starts = @ + 1]
  /\ back' = [back EXCEPT ![c] = [ok |-> "decide", err |-> "failed"]]
  /\ Goto(c, "load")
  /\ UNCHANGED <<servers, alias, file, default, owned, stored, current, at, todo, follow, lost>>

\* The alias is this core's when it is not there yet; what the replay could not
\* put back is taken over.
Decided(c) ==
  [pid |-> c,
   alias |-> owned[c].alias \/ alias = "none",
   services |-> [s \in Services |->
                   IF stored[c].services[s] # "none" THEN stored[c].services[s]
                   ELSE owned[c].services[s]]]

\* A dead core's record is on disk and this Prepare could not read it.
Unread(c) == Stale(c) /\ stored[c].pid = 0

\* The record is saved. Over one that could not be read, what only that one knew is
\* lost, and its alias, taken for someone else's, is no one's to remove.
Decide(c) ==
  /\ pc[c] = "decide"
  /\ \/ /\ Save(c, Decided(c))
        /\ lost' = lost \cup {s \in Services : Unread(c) /\ servers[s] = "core"
                                               /\ Decided(c).services[s] = "none"}
        /\ alias' = IF Unread(c) /\ alias = "set" /\ ~Decided(c).alias THEN "left" ELSE alias
        /\ Goto(c, "alias")
        /\ spent' = spent
     \/ Own(c, Decided(c)) /\ Fault /\ Goto(c, "failed") /\ UNCHANGED <<file, alias, lost>>
  /\ UNCHANGED <<servers, default, back, stored, current, at, todo, follow>>

AliasAdded(c) == IF owned[c].alias /\ alias = "none" THEN "set" ELSE alias

\* addAlias, and the probe of the address.
AddAlias(c) ==
  /\ pc[c] = "alias"
  /\ \/ alias' = AliasAdded(c) /\ Goto(c, "prepared") /\ spent' = spent
     \/ Fault /\ Goto(c, "failed") /\ alias' \in {alias, AliasAdded(c)}
  /\ UNCHANGED <<servers, file, default, back, owned, stored, current, at, todo, follow, lost>>

Apply(c) ==
  /\ pc[c] = "prepared"
  /\ follow' = [follow EXCEPT ![c] =
                  [follow[c] EXCEPT !.gen = @ + 1, !.watching = TRUE]]
  /\ back' = [back EXCEPT ![c] = [ok |-> "applied", err |-> "failed"]]
  /\ Goto(c, "follow")
  /\ UNCHANGED <<servers, alias, file, default, owned, stored, current, at, todo, spent, lost>>

\* Mutant: a change is dropped while a call holds mu.
Move_Dropped(s) ==
  /\ s # default
  /\ spent.moves < MaxMoves
  /\ spent' = [spent EXCEPT !.moves = @ + 1]
  /\ default' = s
  /\ follow' = [c \in Cores |->
                  IF follow[c].watching /\ pc[c] \in Resting
                    THEN [follow[c] EXCEPT !.runs = @ \cup {follow[c].gen}]
                    ELSE follow[c]]
  /\ UNCHANGED <<servers, alias, file, pc, back, owned, stored, current, at, todo, lost>>

\* The default interface changes; the callback starts a goroutine.
Move(s) ==
  /\ s # default
  /\ spent.moves < MaxMoves
  /\ spent' = [spent EXCEPT !.moves = @ + 1]
  /\ default' = s
  /\ follow' = [c \in Cores |->
                  IF follow[c].watching /\ Alive(c)
                    THEN [follow[c] EXCEPT !.runs = @ \cup {follow[c].gen}]
                    ELSE follow[c]]
  /\ UNCHANGED <<servers, alias, file, pc, back, owned, stored, current, at, todo, lost>>

\* Such a goroutine gets mu; it goes on when nothing was released since.
Follow(c) ==
  /\ pc[c] \in Resting
  /\ \E gen \in follow[c].runs :
       /\ follow' = [follow EXCEPT ![c] = [follow[c] EXCEPT !.runs = @ \ {gen}]]
       /\ Goto(c, IF gen = follow[c].gen THEN "follow" ELSE pc[c])
  /\ back' = [back EXCEPT ![c] = [ok |-> pc[c], err |-> pc[c]]]
  /\ UNCHANGED <<servers, alias, file, default, owned, stored, current, at, todo, spent, lost>>

-----------------------------------------------------------------------------
(* followLocked.                                                           *)

FollowDefault(c) ==
  /\ pc[c] = "follow"
  /\ IF default \in {NoService, current[c]}
       THEN Goto(c, back[c].ok) /\ at' = at
       ELSE Goto(c, "point") /\ WorksOn(c, default)
  /\ UNCHANGED <<servers, alias, file, default, back, owned, stored, current, todo,
                 follow, spent, lost>>

\* serviceForDevice, dnsServers, setDNSServers or the save in pointLocked fail.
FollowFails(c) ==
  /\ pc[c] \in {"follow", "point", "set"}
  /\ Fault
  /\ Goto(c, back[c].err)
  /\ WorksOn(c, NoService)
  /\ UNCHANGED <<servers, alias, file, default, back, owned, stored, current, todo,
                 follow, lost>>

\* The core's own address, left by a dead core, is not put back.
Read(s) == IF servers[s] = "core" THEN "empty" ELSE servers[s]

Known(c, s) == owned[c].services[s] # "none"

With(record, s, value) ==
  [record EXCEPT !.services = [record.services EXCEPT ![s] = value]]

\* Mutant: the record is changed in memory only.
Point_Unsaved(c) ==
  /\ pc[c] = "point"
  /\ IF Known(c, at[c]) THEN owned' = owned
       ELSE Own(c, With(owned[c], at[c], Read(at[c])))
  /\ Goto(c, "set")
  /\ UNCHANGED <<servers, alias, file, default, back, stored, current, at, todo, follow,
                 spent, lost>>

Point(c) ==
  /\ pc[c] = "point"
  /\ IF Known(c, at[c]) THEN UNCHANGED <<owned, file>>
       ELSE Save(c, With(owned[c], at[c], Read(at[c])))
  /\ Goto(c, "set")
  /\ UNCHANGED <<servers, alias, default, back, stored, current, at, todo, follow, spent, lost>>

\* The end of followLocked.
Followed(c) ==
  /\ current' = [current EXCEPT ![c] = at[c]]
  /\ WorksOn(c, NoService)
  /\ Goto(c, back[c].ok)

SetDNS(c) ==
  /\ pc[c] = "set"
  /\ Put(at[c], "core")
  /\ IF current[c] = NoService
       THEN Followed(c)
       ELSE Goto(c, "restore") /\ UNCHANGED <<current, at>>
  /\ UNCHANGED <<alias, file, default, back, owned, stored, todo, follow, spent, lost>>

\* The empty list is what a service without a record would get.
Restored(record, s) ==
  IF record.services[s] = "none" THEN "empty" ELSE record.services[s]

\* restoreLocked of the service before; a failure is only logged.
RestorePrevious(c) ==
  /\ pc[c] = "restore"
  /\ \/ /\ Put(current[c], Restored(owned[c], current[c]))
        /\ Goto(c, "forget")
        /\ UNCHANGED <<current, at, spent>>
     \/ Fault /\ Followed(c) /\ servers' = servers
  /\ UNCHANGED <<alias, file, default, back, owned, stored, todo, follow, lost>>

ForgetPrevious(c) ==
  /\ pc[c] = "forget"
  /\ \/ Save(c, Without(owned[c], current[c])) /\ spent' = spent
     \/ Own(c, Without(owned[c], current[c])) /\ Fault /\ file' = file
  /\ Followed(c)
  /\ UNCHANGED <<servers, alias, default, back, stored, todo, follow, lost>>

-----------------------------------------------------------------------------
(* Release, and the end of a core.                                         *)

\* Mutant: the goroutines under way keep a valid generation.
Release_SameGen(c) ==
  /\ pc[c] \in Resting
  /\ owned[c].pid # 0 \/ follow[c].watching
  /\ follow' = [follow EXCEPT ![c] = [follow[c] EXCEPT !.watching = FALSE]]
  /\ current' = [current EXCEPT ![c] = NoService]
  /\ todo' = [todo EXCEPT ![c] = Recorded(owned[c])]
  /\ Goto(c, IF owned[c].pid = 0 THEN "idle" ELSE "undo")
  /\ UNCHANGED <<servers, alias, file, default, back, owned, stored, at, spent, lost>>

\* Without a record and a callback it has nothing to do.
Release(c) ==
  /\ pc[c] \in Resting
  /\ owned[c].pid # 0 \/ follow[c].watching
  /\ follow' = [follow EXCEPT ![c] =
                  [follow[c] EXCEPT !.gen = @ + 1, !.watching = FALSE]]
  /\ current' = [current EXCEPT ![c] = NoService]
  /\ todo' = [todo EXCEPT ![c] = Recorded(owned[c])]
  /\ Goto(c, IF owned[c].pid = 0 THEN "idle" ELSE "undo")
  /\ UNCHANGED <<servers, alias, file, default, back, owned, stored, at, spent, lost>>

Undo(c) ==
  /\ pc[c] = "undo"
  /\ \E s \in todo[c] :
       \/ /\ Put(s, owned[c].services[s])
          /\ WorksOn(c, s)
          /\ Goto(c, "undone")
          /\ UNCHANGED <<todo, spent>>
       \/ /\ Fault
          /\ todo' = [todo EXCEPT ![c] = @ \ {s}]
          /\ UNCHANGED <<servers, at, pc>>
  /\ UNCHANGED <<alias, file, default, back, owned, stored, current, follow, lost>>

Undone(c) ==
  /\ pc[c] = "undone"
  /\ \/ Save(c, Without(owned[c], at[c])) /\ spent' = spent
     \/ Own(c, Without(owned[c], at[c])) /\ Fault /\ file' = file
  /\ todo' = [todo EXCEPT ![c] = @ \ {at[c]}]
  /\ WorksOn(c, NoService)
  /\ Goto(c, "undo")
  /\ UNCHANGED <<servers, alias, default, back, stored, current, follow, lost>>

UndoAlias(c) ==
  /\ pc[c] = "undo"
  /\ todo[c] = {}
  /\ AliasRemoved(owned[c].alias)
  /\ Own(c, [owned[c] EXCEPT !.alias = FALSE])
  /\ Goto(c, "close")
  /\ UNCHANGED <<servers, file, default, back, stored, current, at, todo, follow, lost>>

\* What could not be put back stays recorded under this PID; otherwise the file
\* goes, unless another core has taken it over; a failure is only logged.
Close(c) ==
  /\ pc[c] = "close"
  /\ FlockFree(c)
  /\ IF Recorded(owned[c]) # {}
       THEN /\ owned' = owned
            /\ \/ file' = owned[c] /\ spent' = spent
               \/ file' = file /\ Fault
       ELSE /\ Own(c, Blank)
            /\ \/ file' = (IF file.pid = c THEN Blank ELSE file) /\ spent' = spent
               \/ file' = file /\ Fault
  /\ Goto(c, "idle")
  /\ UNCHANGED <<servers, alias, default, back, stored, current, at, todo, follow, lost>>

\* The process dies, by a signal, a crash or at its end, and its memory goes.
Die(c) ==
  /\ Alive(c)
  /\ Goto(c, "dead")
  /\ back' = [back EXCEPT ![c] = [ok |-> "idle", err |-> "idle"]]
  /\ Own(c, Blank)
  /\ stored' = [stored EXCEPT ![c] = Blank]
  /\ current' = [current EXCEPT ![c] = NoService]
  /\ WorksOn(c, NoService)
  /\ todo' = [todo EXCEPT ![c] = {}]
  /\ follow' = [follow EXCEPT ![c] = Unwatched]
  /\ UNCHANGED <<servers, alias, file, default, spent, lost>>

-----------------------------------------------------------------------------

Goes(c) ==
  \/ Load(c) \/ Replay(c) \/ Replayed(c) \/ Unalias(c) \/ Rewrite(c)
  \/ Decide(c) \/ AddAlias(c)
  \/ FollowDefault(c) \/ FollowFails(c) \/ Point(c) \/ SetDNS(c)
  \/ RestorePrevious(c) \/ ForgetPrevious(c)
  \/ Undo(c) \/ Undone(c) \/ UndoAlias(c) \/ Close(c)

Asked(c) == Prepare(c) \/ Apply(c) \/ Release(c)

Next ==
  \/ \E c \in Cores : Boot(c) \/ Goes(c) \/ Asked(c) \/ Follow(c) \/ Die(c)
  \/ \E s \in Services \cup {NoService} : Move(s)

Spec == Init /\ [][Next]_vars

\* A call goes on once it has begun, a goroutine that waits for mu gets it, and
\* a profile that could not be prepared is released.
Fairness ==
  \A c \in Cores : WF_vars(Goes(c)) /\ WF_vars(Follow(c))
                   /\ WF_vars(pc[c] = "failed" /\ Release(c))

FairSpec == Spec /\ Fairness

-----------------------------------------------------------------------------
(* Properties.                                                             *)

\* Every variable has its type; a replay holds the lock alone.
TypeOK ==
  /\ servers \in [Services -> {"user", "core", "empty"}]
  /\ alias \in {"none", "set", "left"}
  /\ file \in Records
  /\ default \in Services \cup {NoService}
  /\ pc \in [Cores -> {"unborn", "dead"} \cup Resting \cup Busy]
  /\ back \in [Cores -> [ok : Resting \cup {"decide"}, err : Resting]]
  /\ owned \in [Cores -> Records]
  /\ stored \in [Cores -> Records]
  /\ current \in [Cores -> Services \cup {NoService}]
  /\ at \in [Cores -> Services \cup {NoService}]
  /\ todo \in [Cores -> SUBSET Services]
  /\ follow \in [Cores -> [gen : Nat, watching : BOOLEAN, runs : SUBSET Nat]]
  /\ spent \in [faults : 0..MaxFaults, moves : 0..MaxMoves, starts : 0..MaxStarts]
  /\ lost \subseteq Services
  /\ \A c, d \in Cores : pc[c] \in Replaying /\ pc[d] \in Replaying => c = d

\* "record is written before every change, so whatever a dead core left behind
\* can be put back by the next one": a service never loses the user's servers,
\* and while it uses the core's the file says what to put back. The one exception
\* is a service that a dead core left pointed at itself when a Prepare, unable to
\* read the record of it, wrote its own over it.
Recoverable ==
  \A s \in Services \ lost :
    \/ servers[s] = "user"
    \/ servers[s] = "core" /\ file.services[s] = "user"

\* An alias that the core added is in the file, so that it is removed again, by
\* this core or the next one; only a removal that failed is not tried again, and
\* an alias whose record a Prepare wrote over unread is taken for someone else's.
AliasRecorded == alias = "set" => file.alias

\* Whatever the core changed in the system is on record.
OnRecord == Recoverable /\ AliasRecorded

\* A core that starts, and one that has released, left nothing of the core's in
\* the system when no command failed.
CleanAtRest ==
  \A c \in Cores :
    pc[c] = "idle" /\ spent.faults = 0 =>
      alias = "none" /\ file = Blank /\ \A s \in Services : servers[s] = "user"

\* After Release a late goroutine of the callback points nothing at the core.
NoLateFollow ==
  [][\A s \in Services :
       servers'[s] = "core" /\ servers[s] # "core" =>
         \E c \in Cores : follow[c].watching /\ Alive(c)]_vars

\* What a dead core left behind can be put back by the next one: with no core
\* running, every service that is not the user's is in the file.
DeadLeaveRecord == (\A c \in Cores : ~Alive(c)) => Recoverable

\* A change of the default interface during a call is not missed: the service
\* of the default interface is pointed at the core in the end.
Follows ==
  \A c \in Cores :
    (follow[c].watching /\ default # NoService) ~>
      \/ default # NoService /\ servers[default] = "core" /\ current[c] = default
      \/ ~follow[c].watching
      \/ default = NoService
      \/ spent.faults > 0

\* A core that starts repairs what the one before left, whatever step it died
\* at, unless a command fails or it dies itself.
BootRepairs ==
  \A c \in Cores :
    (pc[c] = "load" /\ back[c].ok = "idle") ~>
      \/ alias = "none" /\ \A s \in Services : servers[s] = "user"
      \/ ~Alive(c)
      \/ spent.faults > 0

=============================================================================
