-------------------------- MODULE SystemDnsProofs --------------------------
(***************************************************************************)
(* Proofs about SystemDns, for any set of services, any number of cores,   *)
(* faults, moves and starts, as long as cores do not overlap: the user's   *)
(* DNS servers are lost in one way only, a Prepare that writes its record  *)
(* over one it could not read (Recoverable), and an alias of the core's is *)
(* on disk (AliasRecorded).                                                *)
(***************************************************************************)
EXTENDS SystemDns, TLAPS

-----------------------------------------------------------------------------
(* The inductive invariant.                                                *)

\* Cores do not overlap.
Solo == \A c, d \in Cores : Alive(c) /\ Alive(d) => c = d

\* The services whose record was never written over unread.
Kept == Services \ lost

\* A record from which every service that is not the user's can be put back.
Covers(record) ==
  \A s \in Kept :
    \/ servers[s] = "user"
    \/ servers[s] = "core" /\ record.services[s] = "user"

\* No record says that a service had no servers: the user's were read before
\* the service was pointed at the core.
Honest(record) == \A s \in Kept : record.services[s] \in {"none", "user"}

\* A dead core, or one that has not started, has no memory.
Gone(c) ==
  ~Alive(c) => /\ owned[c] = Blank
               /\ current[c] = NoService
               /\ ~follow[c].watching
               /\ pc[c] = "unborn" => file.pid # c

\* Nothing is left of the core's that could still be put back.
AllBack == alias # "set" /\ \A s \in Kept : servers[s] = "user"

\* A Prepare that neither read the record of a dead core nor saved its own: it
\* gives up, and Release leaves the file alone.
Blind(c) ==
  /\ pc[c] \in {"failed", "undo", "close"}
  /\ Recorded(owned[c]) = {}
  /\ file.pid # c

\* What a core has changed is in its record, or it has changed nothing.
Accounts(c) ==
  \/ Covers(owned[c]) /\ (alias = "set" => owned[c].alias)
  \/ Blind(c)

\* A core knows of its own record on disk, which has all that it remembers, unless
\* it could not remove the file when all was put back.
Mine(c) ==
  Alive(c) =>
    /\ owned[c].pid = 0 => owned[c] = Blank /\ (file.pid = c => AllBack)
    /\ owned[c].pid # 0 => owned[c].pid = c /\ Accounts(c)
    /\ file.pid = c => \A s \in Kept :
                         owned[c].services[s] # "none" => file.services[s] = "user"

\* Between Prepare and Release the file is this core's.
Pointing == {"alias", "prepared", "follow", "point", "set", "restore", "forget", "applied"}

\* A core that points services at itself has its record in memory and on disk.
Prepared(c) ==
  pc[c] \in Pointing \/ (Alive(c) /\ follow[c].watching) => owned[c].pid = c /\ file.pid = c

\* The replay: what it has put back is the user's, and the rest is recorded.
Replays(c) ==
  /\ pc[c] \in Replaying =>
       /\ Covers(stored[c])
       /\ file.pid # 0 /\ file.pid # c /\ stored[c].pid = file.pid
       /\ \A s \in Services : stored[c].services[s] \in {"none", file.services[s]}
       /\ todo[c] \subseteq Recorded(stored[c])
  /\ pc[c] \in {"replay", "unalias"} => stored[c].alias = file.alias
  /\ pc[c] = "rewrite" => alias # "set"
  /\ pc[c] \in Replaying \cup {"load"} => back[c].ok \in {"idle", "decide"}
  /\ pc[c] = "decide" =>
       /\ Honest(stored[c])
       /\ file.pid = c => stored[c] = Blank
       /\ owned[c].pid = 0 =>
            \/ Unread(c) /\ stored[c] = Blank
            \/ Covers(stored[c]) /\ alias # "set"
       /\ \A s \in Kept : stored[c].services[s] # "none" => file.services[s] = "user"

\* Where a call is: what it works on is recorded, and what it is about to forget
\* is the user's again. A goroutine of the current generation is one of Apply's.
Works(c) ==
  /\ pc[c] \in {"point", "set", "restore", "forget", "undone"} => at[c] \in Services
  /\ pc[c] \in {"set", "restore", "forget"} /\ at[c] \in Kept =>
       owned[c].services[at[c]] = "user"
  /\ pc[c] \in {"restore", "forget"} => current[c] # NoService /\ at[c] # current[c]
  /\ pc[c] = "point" => at[c] # current[c]
  /\ pc[c] = "set" => at[c] # current[c]
  /\ current[c] \in Kept => owned[c].services[current[c]] = "user"
  /\ pc[c] = "forget" /\ current[c] \in Kept => servers[current[c]] = "user"
  /\ pc[c] = "undone" /\ at[c] \in Kept => servers[at[c]] = "user"
  /\ pc[c] \in {"undo", "undone"} => todo[c] \subseteq Recorded(owned[c])
  /\ pc[c] \in {"undo", "undone", "close"} => current[c] = NoService /\ owned[c].pid = c
                                              /\ ~follow[c].watching
  /\ pc[c] = "alias" => owned[c].alias = file.alias
  /\ pc[c] = "close" => alias # "set" \/ Blind(c)
  /\ pc[c] \in {"follow", "point", "set", "restore", "forget"} =>
       back[c].ok \in Resting /\ follow[c].watching
  /\ \A gen \in follow[c].runs : gen <= follow[c].gen
  /\ follow[c].gen \in follow[c].runs => follow[c].watching

\* Everything is recorded on disk.
OnDisk ==
  /\ Covers(file)
  /\ Honest(file)
  /\ alias = "set" => file.alias
  /\ file.pid = 0 => file = Blank
  /\ \A c \in Cores : Honest(owned[c])

\* What is known of one core.
Each(c) == Gone(c) /\ Mine(c) /\ Prepared(c) /\ Replays(c) /\ Works(c)

\* The inductive invariant, without the types.
Sound == Solo /\ OnDisk /\ \A c \in Cores : Each(c)

\* The inductive invariant.
IInv == TypeOK /\ Sound

-----------------------------------------------------------------------------
(* A step of core c leaves the others, which are dead, alone.              *)

\* The members of core d stay.
Keeps(d) ==
  /\ pc'[d] = pc[d]
  /\ owned'[d] = owned[d]
  /\ current'[d] = current[d]
  /\ follow'[d] = follow[d]

\* The invariant of a dead core needs no more than that the file is not its own.
LEMMA DeadCore ==
  ASSUME TypeOK, NEW d \in Cores, Gone(d), Works(d), ~Alive(d), Keeps(d),
         pc[d] = "unborn" => file'.pid # d
  PROVE  Each(d)'
BY SystemDnsAssumption DEF TypeOK, Gone, Alive, Keeps, Each, Mine, Prepared, Pointing, Replays,
                           Replaying,
       Works, Resting, Busy, Blank, Kept, Accounts, AllBack, Blind, Recorded, Unread, Stale

\* So it is enough to look at the core that takes the step.
LEMMA OneCore ==
  ASSUME TypeOK, Sound, NEW c \in Cores, \A d \in Cores \ {c} : ~Alive(d) /\ Keeps(d),
         file'.pid \in {0, c, file.pid}, OnDisk', Each(c)'
  PROVE  Sound'
<1>1. ASSUME NEW d \in Cores \ {c} PROVE Each(d)' /\ ~Alive(d)'
  <2>1. Gone(d) /\ Works(d) /\ ~Alive(d) /\ Keeps(d)
    BY DEF Sound, Each
  <2>2. pc[d] = "unborn" => file'.pid # d
    BY <2>1, 0 \notin Cores DEF Gone, Cores
  <2>3. Each(d)'
    BY <2>1, <2>2, DeadCore
  <2> QED  BY <2>1, <2>3 DEF Alive, Keeps
<1>2. Solo'
  BY <1>1 DEF Solo
<1> QED  BY <1>1, <1>2 DEF Sound

\* While core c runs, no other one does.
LEMMA Alone ==
  ASSUME Sound, NEW c \in Cores, Alive(c)
  PROVE  \A d \in Cores \ {c} : ~Alive(d)
BY DEF Sound, Solo

-----------------------------------------------------------------------------
(* One lemma per action.                                                   *)

\* Boot preserves the invariant.
LEMMA BootStep ==
  ASSUME IInv, ~Overlap, NEW c \in Cores, Boot(c)
  PROVE  IInv'
<1> USE DEF IInv, Boot, Goto
<1>1. TypeOK'
  BY DEF TypeOK, Resting, Busy, Replaying, Alive
<1>2. \A d \in Cores \ {c} : ~Alive(d) /\ Keeps(d)
  BY DEF Keeps, TypeOK
<1>3. pc'[c] = "load" /\ back'[c].ok = "idle" /\ Gone(c) /\ Works(c) /\ ~Alive(c)
  BY DEF TypeOK, Sound, Each, Alive, Resting, Busy, Replaying
<1>4. OnDisk'
  BY DEF OnDisk, Sound, Covers, Honest, Kept
<1>5. Each(c)'
  BY <1>3 DEF Each, Gone, Mine, Prepared, Replays, Works, Alive, Resting, Busy, Replaying,
              Pointing, Blank, Kept, Accounts, AllBack, Blind, Recorded, Unread, Stale
<1> QED  BY <1>1, <1>2, <1>4, <1>5, OneCore

\* The empty record records no service.
LEMMA BlankRecord == Blank \in Records /\ Recorded(Blank) = {}
BY SystemDnsAssumption DEF Blank, Records, Recorded, Previous

\* What is used of the bounds.
Spending == [faults : 0..MaxFaults, moves : 0..MaxMoves, starts : 0..MaxStarts]

\* A fault is within its bound.
LEMMA Spent ==
  ASSUME spent \in Spending, Fault \/ spent' = spent
  PROVE  spent' \in Spending
BY SystemDnsAssumption DEF Fault, Spending

\* Load preserves the invariant.
LEMMA LoadStep ==
  ASSUME IInv, NEW c \in Cores, Load(c)
  PROVE  IInv'
<1> USE DEF IInv
<1>0. /\ Alive(c) /\ (\A d \in Cores \ {c} : ~Alive(d)) /\ pc[c] = "load"
      /\ UNCHANGED <<servers, alias, file, default, back, owned, current, at, follow, lost>>
      /\ spent' = spent \/ Fault
  BY Alone DEF Alive, Busy, Load
<1>1. /\ back[c].ok \in {"idle", "decide"}
      /\ file \in Records
      /\ \A d \in Cores \ {c} : pc'[d] = pc[d]
      /\ \/ Stale(c) /\ pc'[c] = "replay" /\ stored'[c] = file /\ todo'[c] = Recorded(file)
         \/ pc'[c] = back[c].ok /\ stored'[c] = Blank
  BY <1>0 DEF TypeOK, Sound, Each, Replays, Load, Goto
<1>2. TypeOK'
  <2>1. stored' \in [Cores -> Records]
    BY BlankRecord DEF TypeOK, Load
  <2>2. todo' \in [Cores -> SUBSET Services]
    BY DEF TypeOK, Recorded, Load
  <2>3. pc' \in [Cores -> {"unborn", "dead"} \cup Resting \cup Busy]
    BY <1>1 DEF TypeOK, Resting, Busy, Replaying, Load, Goto
  <2>4. \A b, d \in Cores : pc'[b] \in Replaying /\ pc'[d] \in Replaying => b = d
    BY <1>0, <1>1 DEF TypeOK, Alive, Busy
  <2>5. spent' \in Spending
    BY <1>0, Spent DEF TypeOK, Spending
  <2> QED  BY <1>0, <2>1, <2>2, <2>3, <2>4, <2>5 DEF TypeOK, Spending
<1>3. \A d \in Cores \ {c} : ~Alive(d) /\ Keeps(d)
  BY <1>0, <1>1 DEF Keeps, TypeOK
<1>4. OnDisk'
  BY <1>0 DEF OnDisk, Sound, Covers, Honest, Kept
<1>5. Each(c)'
  <2> USE DEF Sound, Each
  <2>1. Gone(c)' /\ Mine(c)' /\ Prepared(c)' /\ Works(c)'
    BY <1>0, <1>1 DEF Gone, Mine, Covers, Prepared, Works, Alive, Resting, Busy, Replaying,
                      Pointing, TypeOK, Kept, Accounts, AllBack, Blind, Recorded
  <2>2. CASE Stale(c) /\ pc'[c] = "replay" /\ stored'[c] = file /\ todo'[c] = Recorded(file)
    <3>1. Covers(file) /\ file.pid # 0 /\ file.pid # c
      BY <2>2 DEF OnDisk, Stale
    <3>2. Replays(c)'
      BY <1>0, <1>1, <2>2, <3>1 DEF Replays, Covers, Replaying, Kept
    <3> QED  BY <2>1, <3>2
  <2>3. CASE pc'[c] = back[c].ok /\ stored'[c] = Blank
    <3>1. ASSUME Stale(c) PROVE Unread(c)'
      BY <3>1, <2>3, <1>0, <1>1 DEF Unread, Stale, Records, Cores, Alive, Blank
    <3>2. ASSUME ~Stale(c), owned[c].pid = 0 PROVE alias # "set" /\ Covers(Blank)
      <4>1. CASE file.pid = c
        BY <1>0, <3>2, <4>1 DEF Mine, AllBack, Covers
      <4>2. CASE file.pid # c
        <5>1. file.pid \in Cores => ~Alive(file.pid)
          BY <1>0, <4>2
        <5>2. file.pid = 0
          BY <1>1, <3>2, <4>2, <5>1 DEF Stale, Records, Cores
        <5>3. file = Blank
          BY <5>2 DEF OnDisk
        <5> QED  BY <5>3 DEF OnDisk, Blank
      <4> QED  BY <4>1, <4>2
    <3>3. Covers(Blank)' = Covers(Blank) /\ alias' = alias /\ owned'[c] = owned[c]
      BY <1>0 DEF Covers, Kept, Blank
    <3>4. Honest(Blank)' /\ \A s \in Services : Blank.services[s] = "none"
      BY DEF Honest, Blank, Kept
    <3>5. Replays(c)'
      BY <1>0, <1>1, <2>3, <3>1, <3>2, <3>3, <3>4 DEF Replays, Replaying, Kept
    <3> QED  BY <2>1, <3>5
  <2> QED  BY <1>1, <2>2, <2>3
<1> QED  BY <1>0, <1>2, <1>3, <1>4, <1>5, OneCore

\* What the changes of a record do.
LEMMA Changed ==
  ASSUME NEW record \in Records, NEW s \in Services, NEW v \in Previous
  PROVE  /\ With(record, s, v) \in Records
         /\ With(record, s, v).pid = record.pid
         /\ With(record, s, v).alias = record.alias
         /\ With(record, s, v).services[s] = v
         /\ \A t \in Services \ {s} : With(record, s, v).services[t] = record.services[t]
BY DEF With, Records, Previous

\* Without a service, a record keeps the others.
LEMMA Forgotten ==
  ASSUME NEW record \in Records, NEW s \in Services
  PROVE  /\ Without(record, s) \in Records
         /\ Without(record, s).pid = record.pid
         /\ Without(record, s).alias = record.alias
         /\ Without(record, s).services[s] = "none"
         /\ \A t \in Services \ {s} : Without(record, s).services[t] = record.services[t]
BY DEF Without, Records, Previous

\* Without the alias, a record keeps the services.
LEMMA Unaliased ==
  ASSUME NEW record \in Records
  PROVE  /\ [record EXCEPT !.alias = FALSE] \in Records
         /\ [record EXCEPT !.alias = FALSE].pid = record.pid
         /\ [record EXCEPT !.alias = FALSE].alias = FALSE
         /\ [record EXCEPT !.alias = FALSE].services = record.services
BY DEF Records

\* Replay preserves the invariant.
LEMMA ReplayStep ==
  ASSUME IInv, NEW c \in Cores, Replay(c)
  PROVE  IInv'
<1> USE DEF IInv
<1>0. Alive(c) /\ (\A d \in Cores \ {c} : ~Alive(d)) /\ pc[c] = "replay" /\ pc' = pc
      /\ file' = file /\ alias' = alias /\ owned' = owned /\ current' = current
      /\ lost' = lost /\ follow' = follow /\ back' = back /\ at' = at /\ default' = default
  BY Alone DEF Alive, Busy, Replaying, Replay
<1>1. PICK s \in todo[c] :
        /\ todo' = [todo EXCEPT ![c] = @ \ {s}]
        /\ \/ /\ Put(s, stored[c].services[s])
              /\ stored' = [stored EXCEPT ![c] = Without(stored[c], s)]
              /\ spent' = spent
           \/ Fault /\ UNCHANGED <<servers, stored>>
  BY DEF Replay
<1>2. /\ s \in Services /\ stored[c] \in Records
      /\ stored[c].services[s] \in {"user", "empty"}
      /\ s \in Kept => stored[c].services[s] = "user"
  <2>1. s \in Recorded(stored[c]) /\ stored[c] \in Records
        /\ \A t \in Services : stored[c].services[t] \in {"none", file.services[t]}
    BY <1>0 DEF TypeOK, Sound, Each, Replays, Replaying
  <2>2. \A t \in Kept : file.services[t] \in {"none", "user"}
    BY DEF Sound, OnDisk, Honest
  <2> QED  BY <2>1, <2>2 DEF Recorded, Records, Previous, Kept
<1>3. /\ stored' \in [Cores -> Records]
      /\ stored'[c].pid = stored[c].pid /\ stored'[c].alias = stored[c].alias
      /\ servers' \in [Services -> {"user", "core", "empty"}]
      /\ \A t \in Services \ {s} : servers'[t] = servers[t]
                                   /\ stored'[c].services[t] = stored[c].services[t]
      /\ \/ (s \in Kept => servers'[s] = "user") /\ stored'[c].services[s] = "none"
         \/ servers'[s] = servers[s] /\ stored'[c] = stored[c]
  <2>1. CASE UNCHANGED <<servers, stored>>
    BY <2>1 DEF TypeOK
  <2>2. CASE Put(s, stored[c].services[s])
             /\ stored' = [stored EXCEPT ![c] = Without(stored[c], s)]
    <3>1. Without(stored[c], s) \in Records /\ stored \in [Cores -> Records]
      BY <1>2, Forgotten DEF TypeOK
    <3>2. stored' \in [Cores -> Records] /\ stored'[c] = Without(stored[c], s)
      BY <2>2, <3>1
    <3>3. /\ servers' \in [Services -> {"user", "core", "empty"}]
          /\ s \in Kept => servers'[s] = "user"
          /\ \A t \in Services \ {s} : servers'[t] = servers[t]
      BY <2>2, <1>2 DEF TypeOK, Put
    <3> QED  BY <3>2, <3>3, <1>2, Forgotten
  <2> QED  BY <1>1, <2>1, <2>2
<1>4. TypeOK'
  <2>1. spent' \in Spending
    BY <1>1, Spent DEF TypeOK, Spending
  <2>2. todo' \in [Cores -> SUBSET Services]
    BY <1>1 DEF TypeOK
  <2> QED  BY <1>0, <1>3, <2>1, <2>2 DEF TypeOK, Spending
<1>5. \A d \in Cores \ {c} : ~Alive(d) /\ Keeps(d)
  BY <1>0 DEF Keeps, TypeOK
<1>6. OnDisk'
  BY <1>0, <1>3 DEF OnDisk, Sound, Covers, Honest, Kept
<1>7. Each(c)'
  <2>1. Gone(c)' /\ Prepared(c)'
    BY <1>0 DEF Sound, Each, Gone, Prepared, Alive, Pointing, Resting, Busy, Replaying
  <2>2. Mine(c)'
    BY <1>0, <1>3 DEF Sound, Each, Mine, Covers, Alive, Kept, Accounts, AllBack, Blind, Recorded
  <2>3. todo'[c] = todo[c] \ {s}
    BY <1>1 DEF TypeOK
  <2>4. Replays(c)'
    BY <1>0, <1>3, <2>3 DEF Sound, Each, Replays, Replaying, Covers, Recorded, Kept, Unread, Stale
  <2>5. Works(c)'
    BY <1>0, <1>3 DEF Sound, Each, Works, Kept, Blind, Recorded
  <2> QED  BY <2>1, <2>2, <2>4, <2>5 DEF Each
<1> QED  BY <1>0, <1>4, <1>5, <1>6, <1>7, OneCore

\* Replayed preserves the invariant.
LEMMA ReplayedStep ==
  ASSUME IInv, NEW c \in Cores, Replayed(c)
  PROVE  IInv'
<1> USE DEF IInv, Replayed, Goto
<1>0. Alive(c) /\ (\A d \in Cores \ {c} : ~Alive(d)) /\ pc'[c] = "unalias"
  BY Alone DEF Alive, Busy, Replaying, TypeOK
<1>1. TypeOK'
  BY DEF TypeOK, Busy, Replaying
<1>2. \A d \in Cores \ {c} : ~Alive(d) /\ Keeps(d)
  BY <1>0 DEF Keeps, TypeOK
<1>3. OnDisk'
  BY DEF OnDisk, Sound, Covers, Honest, Kept
<1>4. Each(c)'
  BY <1>0 DEF Sound, Each, Gone, Mine, Prepared, Replays, Works, Covers, Honest, Alive, Resting,
              Busy, Replaying, Pointing, Kept, Accounts, AllBack, Blind, Recorded, Unread, Stale
<1> QED  BY <1>1, <1>2, <1>3, <1>4, OneCore

\* Unalias preserves the invariant.
LEMMA UnaliasStep ==
  ASSUME IInv, NEW c \in Cores, Unalias(c)
  PROVE  IInv'
<1> USE DEF IInv
<1>0. /\ Alive(c) /\ (\A d \in Cores \ {c} : ~Alive(d))
      /\ pc[c] = "unalias" /\ pc'[c] = "rewrite" /\ stored[c] \in Records
      /\ UNCHANGED <<servers, file, default, back, owned, current, at, todo, follow, lost>>
  BY Alone DEF Alive, Busy, Replaying, TypeOK, Unalias, Goto
<1>1. /\ stored[c].alias = file.alias /\ alias' \in {"none", "left"}
      /\ spent' = spent \/ Fault
  BY DEF TypeOK, Sound, Each, Replays, OnDisk, AliasRemoved, Unalias, Unread, Stale
<1>2. stored' \in [Cores -> Records] /\ stored'[c].pid = stored[c].pid
      /\ stored'[c].services = stored[c].services
  BY <1>0, Unaliased DEF TypeOK, Unalias
<1>3. TypeOK'
  <2>1. spent' \in Spending
    BY <1>1, Spent DEF TypeOK, Spending
  <2> QED  BY <1>0, <1>1, <1>2, <2>1 DEF TypeOK, Spending, Busy, Replaying, Unalias, Goto
<1>4. \A d \in Cores \ {c} : ~Alive(d) /\ Keeps(d)
  BY <1>0 DEF Keeps, TypeOK, Unalias, Goto
<1>5. OnDisk'
  BY <1>0, <1>1 DEF OnDisk, Sound, Covers, Honest, Kept
<1>6. Each(c)'
  <2>1. Gone(c)' /\ Mine(c)' /\ Prepared(c)' /\ Works(c)'
    BY <1>0, <1>1 DEF Sound, Each, Gone, Mine, Prepared, Works, Covers, Alive, Resting, Busy,
                      Replaying, Pointing, Kept, Accounts, AllBack, Blind, Recorded
  <2>2. Replays(c)'
    BY <1>0, <1>1, <1>2 DEF Sound, Each, Replays, Covers, Replaying, Recorded, Kept, Unread, Stale
  <2> QED  BY <2>1, <2>2 DEF Each
<1> QED  BY <1>0, <1>3, <1>4, <1>5, <1>6, OneCore

\* Rewrite preserves the invariant.
LEMMA RewriteStep ==
  ASSUME IInv, NEW c \in Cores, Rewrite(c)
  PROVE  IInv'
<1> USE DEF IInv
<1>0. /\ Alive(c) /\ (\A d \in Cores \ {c} : ~Alive(d))
      /\ pc[c] = "rewrite" /\ pc'[c] = back[c].ok /\ back[c].ok \in {"idle", "decide"}
      /\ alias # "set" /\ stored[c] \in Records /\ file \in Records
      /\ UNCHANGED <<servers, alias, default, back, owned, stored, current, at, todo, follow, lost>>
      /\ spent' = spent \/ Fault
      /\ pc' = [pc EXCEPT ![c] = back[c].ok]
  BY Alone DEF Alive, Busy, Replaying, TypeOK, Rewrite, Goto, Sound, Each, Replays, Unread, Stale
<1>1. /\ Covers(stored[c])
      /\ stored[c].pid = file.pid /\ file.pid # 0 /\ file.pid # c
      /\ \A s \in Services : stored[c].services[s] \in {"none", file.services[s]}
  BY <1>0 DEF Sound, Each, Replays, Replaying, Unread, Stale
<1>2. Honest(stored[c])
  BY <1>1 DEF Sound, OnDisk, Honest, Kept
<1>3. /\ file' \in Records
      /\ file' = Blank \/ file'.pid = file.pid
      /\ file'.pid = 0 => file' = Blank
      /\ \A s \in Kept :
           /\ stored[c].services[s] = "user" => file'.services[s] = "user"
           /\ file'.services[s] \in {"none", "user"}
  <2>1. CASE file' = file
    BY <2>1, <1>0, <1>1, <1>2 DEF Sound, OnDisk, Honest, Kept
  <2>2. CASE file' = stored[c]
    BY <2>2, <1>0, <1>1, <1>2 DEF Honest, Kept
  <2>3. CASE file' = Blank /\ Recorded(stored[c]) = {}
    BY <2>3, <1>0, BlankRecord DEF Blank, Recorded, Kept
  <2> QED  BY <2>1, <2>2, <2>3 DEF Rewrite
<1>4. file'.pid # c /\ file'.pid \in {0, file.pid}
  BY <1>1, <1>3 DEF Blank, Cores
<1>5. TypeOK'
  <2>1. spent' \in Spending
    BY <1>0, Spent DEF TypeOK, Spending
  <2>2. pc' \in [Cores -> {"unborn", "dead"} \cup Resting \cup Busy]
    BY <1>0 DEF TypeOK, Resting, Busy
  <2>3. \A b, d \in Cores : pc'[b] \in Replaying /\ pc'[d] \in Replaying => b = d
    BY <1>0 DEF TypeOK, Replaying
  <2> QED  BY <1>0, <1>3, <2>1, <2>2, <2>3 DEF TypeOK, Spending
<1>6. \A d \in Cores \ {c} : ~Alive(d) /\ Keeps(d)
  BY <1>0 DEF Keeps, TypeOK
<1>7. OnDisk'
  BY <1>0, <1>1, <1>3 DEF OnDisk, Sound, Covers, Honest, Kept
<1>8. Each(c)'
  <2>1. Gone(c)' /\ Mine(c)' /\ Prepared(c)' /\ Works(c)'
    BY <1>0, <1>1, <1>4 DEF Sound, Each, Gone, Mine, Prepared, Works, Covers, Alive, Resting,
                            Busy,
                      Replaying, Pointing, Kept, Accounts, AllBack, Blind, Recorded
  <2>2. Replays(c)'
    BY <1>0, <1>1, <1>2, <1>3, <1>4 DEF Replays, Covers, Honest, Replaying, Kept, Unread, Stale
  <2> QED  BY <2>1, <2>2 DEF Each
<1> QED  BY <1>4, <1>5, <1>6, <1>7, <1>8, OneCore

\* Prepare preserves the invariant.
LEMMA PrepareStep ==
  ASSUME IInv, NEW c \in Cores, Prepare(c)
  PROVE  IInv'
<1> USE DEF IInv, Prepare, Goto
<1>0. Alive(c) /\ (\A d \in Cores \ {c} : ~Alive(d)) /\ pc'[c] = "load" /\ back'[c].ok = "decide"
  BY Alone DEF Alive, TypeOK
<1>1. TypeOK'
  <2>1. spent' \in Spending
    <3>1. spent.starts + 1 \in 0..MaxStarts
      BY SystemDnsAssumption DEF TypeOK
    <3> QED  BY <3>1 DEF TypeOK, Spending
  <2>2. back' \in [Cores -> [ok : Resting \cup {"decide"}, err : Resting]]
    BY DEF TypeOK, Resting
  <2>3. pc' \in [Cores -> {"unborn", "dead"} \cup Resting \cup Busy]
    BY DEF TypeOK, Busy
  <2>4. \A b, d \in Cores : pc'[b] \in Replaying /\ pc'[d] \in Replaying => b = d
    BY DEF TypeOK, Replaying
  <2> QED  BY <2>1, <2>2, <2>3, <2>4 DEF TypeOK, Spending
<1>2. \A d \in Cores \ {c} : ~Alive(d) /\ Keeps(d)
  BY <1>0 DEF Keeps, TypeOK
<1>3. OnDisk'
  BY DEF OnDisk, Sound, Covers, Honest, Kept
<1>4. Each(c)'
  BY <1>0 DEF Sound, Each, Gone, Mine, Prepared, Replays, Works, Covers, Honest, Alive, Resting,
              Busy, Replaying, Pointing, Kept, Accounts, AllBack, Blind, Recorded, Unread, Stale
<1> QED  BY <1>1, <1>2, <1>3, <1>4, OneCore

\* The record of a Prepare. One that could not read the record of a dead core, and had
\* none of its own, starts an empty one.
LEMMA DecidedRecord ==
  ASSUME IInv, NEW c \in Cores, pc[c] = "decide"
  PROVE  /\ Decided(c) \in Records
         /\ Decided(c).pid = c
         /\ Honest(Decided(c))
         /\ \/ Covers(Decided(c)) /\ (alias = "set" => Decided(c).alias)
            \/ Unread(c) /\ \A s \in Services : Decided(c).services[s] = "none"
         /\ file.pid = c => \A s \in Kept :
                              Decided(c).services[s] # "none" => file.services[s] = "user"
         /\ \A s \in Kept :
              owned[c].services[s] = "user" => Decided(c).services[s] = "user"
<1> USE DEF IInv
<1>0. Alive(c)
  BY DEF Alive, Busy
<1>1. stored[c] \in Records /\ owned[c] \in Records /\ alias \in {"none", "set", "left"}
      /\ c \in 0..MaxCores
  BY DEF TypeOK, Cores
<1>2. /\ Honest(stored[c]) /\ Honest(owned[c])
      /\ file.pid = c => stored[c] = Blank
      /\ owned[c].pid = 0 => owned[c] = Blank
                             /\ \/ Unread(c) /\ stored[c] = Blank
                                \/ Covers(stored[c]) /\ alias # "set"
      /\ owned[c].pid # 0 => Covers(owned[c]) /\ (alias = "set" => owned[c].alias)
      /\ file.pid = c => \A s \in Kept :
                           owned[c].services[s] # "none" => file.services[s] = "user"
  <2>1. ~Blind(c)
    BY DEF Blind
  <2> QED  BY <1>0, <2>1 DEF Sound, Each, Replays, Mine, Accounts, OnDisk
<1>3. /\ Decided(c) \in Records /\ Decided(c).pid = c
      /\ Decided(c).alias = (owned[c].alias \/ alias = "none")
      /\ \A s \in Services :
           Decided(c).services[s] = IF stored[c].services[s] # "none"
                                      THEN stored[c].services[s] ELSE owned[c].services[s]
  BY <1>1 DEF Decided, Records
<1>4. Honest(Decided(c))
  BY <1>2, <1>3 DEF Honest, Kept
<1>5. \/ Covers(Decided(c)) /\ (alias = "set" => Decided(c).alias)
      \/ Unread(c) /\ \A s \in Services : Decided(c).services[s] = "none"
  <2>1. CASE owned[c].pid # 0
    <3>1. Covers(Decided(c))
      BY <2>1, <1>2, <1>3 DEF Covers, Honest, Kept
    <3>2. alias = "set" => Decided(c).alias
      BY <2>1, <1>2, <1>3
    <3> QED  BY <3>1, <3>2
  <2>2. CASE owned[c].pid = 0 /\ Covers(stored[c]) /\ alias # "set"
    BY <2>2, <1>3 DEF Covers, Kept
  <2>3. CASE owned[c] = Blank /\ Unread(c) /\ stored[c] = Blank
    BY <2>3, <1>3 DEF Blank
  <2> QED  BY <1>2, <2>1, <2>2, <2>3
<1>6. file.pid = c => \A s \in Kept :
                        Decided(c).services[s] # "none" => file.services[s] = "user"
  BY <1>2, <1>3 DEF Blank, Kept
<1>7. \A s \in Kept : owned[c].services[s] = "user" => Decided(c).services[s] = "user"
  BY <1>2, <1>3 DEF Honest, Kept
<1> QED  BY <1>3, <1>4, <1>5, <1>6, <1>7

\* Decide preserves the invariant.
LEMMA DecideStep ==
  ASSUME IInv, NEW c \in Cores, Decide(c)
  PROVE  IInv'
<1> USE DEF IInv
<1> DEFINE r == Decided(c)
<1>0. /\ Alive(c) /\ (\A d \in Cores \ {c} : ~Alive(d)) /\ pc[c] = "decide"
      /\ UNCHANGED <<servers, default, back, stored, current, at, todo, follow>>
      /\ spent' = spent \/ Fault
  BY Alone DEF Alive, Busy, Decide
<1>1. /\ r \in Records /\ r.pid = c /\ Honest(r)
      /\ \/ Covers(r) /\ (alias = "set" => r.alias)
         \/ Unread(c) /\ \A s \in Services : r.services[s] = "none"
      /\ file.pid = c => \A s \in Kept : r.services[s] # "none" => file.services[s] = "user"
      /\ \A s \in Kept : owned[c].services[s] = "user" => r.services[s] = "user"
  BY <1>0, DecidedRecord
<1>2. /\ owned' = [owned EXCEPT ![c] = r]
      /\ \/ /\ pc' = [pc EXCEPT ![c] = "alias"] /\ file' = r
            /\ lost' = lost \cup {s \in Services : Unread(c) /\ servers[s] = "core"
                                                    /\ r.services[s] = "none"}
            /\ alias' = IF Unread(c) /\ alias = "set" /\ ~r.alias THEN "left" ELSE alias
         \/ pc' = [pc EXCEPT ![c] = "failed"] /\ UNCHANGED <<file, alias, lost>>
  BY DEF Decide, Save, Own, Goto
<1> HIDE DEF r
<1>3. /\ owned' \in [Cores -> Records] /\ owned'[c] = r
      /\ \A d \in Cores \ {c} : owned'[d] = owned[d]
      /\ \/ pc'[c] = "alias" /\ file' = r
         \/ pc'[c] = "failed" /\ UNCHANGED <<file, alias, lost>>
      /\ Kept' \subseteq Kept /\ lost' \subseteq Services
      /\ alias' \in {alias, "left"} /\ c # 0
  <2>1. /\ owned' \in [Cores -> Records] /\ owned'[c] = r
        /\ \A d \in Cores \ {c} : owned'[d] = owned[d]
    BY <1>1, <1>2 DEF TypeOK
  <2>2. \/ pc'[c] = "alias" /\ file' = r
        \/ pc'[c] = "failed" /\ UNCHANGED <<file, alias, lost>>
    BY <1>2 DEF TypeOK
  <2>3. lost \subseteq lost' /\ lost' \subseteq Services
    BY <1>2 DEF TypeOK
  <2>4. alias' \in {alias, "left"} /\ c # 0
    BY <1>2 DEF Cores
  <2> QED  BY <2>1, <2>2, <2>3, <2>4 DEF Kept
<1>4. TypeOK'
  <2>1. spent' \in Spending
    BY <1>0, Spent DEF TypeOK, Spending
  <2>2. pc' \in [Cores -> {"unborn", "dead"} \cup Resting \cup Busy]
    BY <1>2 DEF TypeOK, Resting, Busy
  <2>3. \A b, d \in Cores : pc'[b] \in Replaying /\ pc'[d] \in Replaying => b = d
    BY <1>2 DEF TypeOK, Replaying
  <2> QED  BY <1>0, <1>1, <1>3, <2>1, <2>2, <2>3 DEF TypeOK, Spending
<1>5. \A d \in Cores \ {c} : ~Alive(d) /\ Keeps(d)
  BY <1>0, <1>2 DEF Keeps, TypeOK
<1>6. ASSUME pc'[c] = "alias"
      PROVE  /\ file' = r /\ (alias' = "set" => r.alias)
             /\ \A s \in Kept' :
                  servers'[s] = "user" \/ (servers'[s] = "core" /\ r.services[s] = "user")
  <2>1. Covers(file) /\ file' = r
    BY <1>3, <1>6 DEF Sound, OnDisk
  <2>2. /\ lost' = lost \cup {s \in Services : Unread(c) /\ servers[s] = "core"
                                               /\ r.services[s] = "none"}
        /\ alias' = IF Unread(c) /\ alias = "set" /\ ~r.alias THEN "left" ELSE alias
    <3>1. pc' # [pc EXCEPT ![c] = "failed"]
      BY <1>6 DEF TypeOK
    <3> QED  BY <1>2, <3>1
  <2>3. CASE Covers(r) /\ (alias = "set" => r.alias)
    <3>1. \A s \in Kept' :
            servers'[s] = "user" \/ (servers'[s] = "core" /\ r.services[s] = "user")
      BY <1>0, <1>3, <2>3 DEF Covers
    <3>2. alias' = "set" => r.alias
      BY <2>2, <2>3
    <3> QED  BY <2>1, <3>1, <3>2
  <2>4. CASE Unread(c) /\ \A s \in Services : r.services[s] = "none"
    <3>1. \A s \in Kept' : servers'[s] = "user"
      BY <1>0, <1>3, <2>1, <2>2, <2>4 DEF Covers, Kept
    <3> QED  BY <2>1, <2>2, <2>4, <3>1
  <2> QED  BY <1>1, <2>3, <2>4
<1>7. OnDisk'
  <2>1. \A d \in Cores : Honest(owned[d])'
    <3>1. ASSUME NEW d \in Cores PROVE Honest(owned[d])'
      <4>1. Honest(owned'[d])
        BY <1>1, <1>3 DEF Sound, OnDisk
      <4> QED  BY <4>1, <1>3 DEF Honest
    <3> QED  BY <3>1
  <2>2. CASE pc'[c] = "alias"
    <3>1. Covers(file)'
      BY <1>6, <2>2 DEF Covers
    <3>2. Honest(file)'
      BY <1>1, <1>3, <1>6, <2>2 DEF Honest
    <3> QED  BY <1>1, <1>3, <1>6, <2>1, <2>2, <3>1, <3>2 DEF OnDisk
  <2>3. CASE UNCHANGED <<file, alias, lost>>
    BY <1>0, <2>1, <2>3 DEF OnDisk, Sound, Covers, Honest, Kept
  <2> QED  BY <1>3, <2>2, <2>3
<1>8. Each(c)'
  <2>1. Mine(c)'
    <3>1. CASE pc'[c] = "alias"
      <4>2. Covers(owned[c])'
        BY <1>3, <1>6, <3>1 DEF Covers
      <4>3. \A s \in Kept' : r.services[s] # "none" => r.services[s] = "user"
        BY <1>1, <1>3 DEF Honest
      <4> QED  BY <1>1, <1>3, <1>6, <3>1, <4>2, <4>3 DEF Mine, Accounts
    <3>2. CASE pc'[c] = "failed" /\ UNCHANGED <<file, alias, lost>>
      <4>1. Accounts(c)'
        <5>1. CASE Covers(r) /\ (alias = "set" => r.alias)
          BY <1>0, <1>3, <3>2, <5>1 DEF Accounts, Covers, Kept
        <5>2. CASE Unread(c) /\ \A s \in Services : r.services[s] = "none"
          BY <1>3, <3>2, <5>2 DEF Accounts, Blind, Unread, Stale, Recorded
        <5> QED  BY <1>1, <5>1, <5>2
      <4> QED  BY <4>1, <1>1, <1>3, <3>2 DEF Mine
    <3> QED  BY <1>3, <3>1, <3>2
  <2>2. Gone(c)' /\ Prepared(c)' /\ Replays(c)'
    BY <1>0, <1>1, <1>3 DEF Sound, Each, Gone, Prepared, Replays, Alive, Resting, Busy,
                            Replaying, Pointing
  <2>3. Works(c)'
    BY <1>0, <1>1, <1>3 DEF Sound, Each, Works, TypeOK
  <2> QED  BY <2>1, <2>2, <2>3 DEF Each
<1> QED  BY <1>1, <1>3, <1>4, <1>5, <1>7, <1>8, OneCore

\* AddAlias preserves the invariant.
LEMMA AddAliasStep ==
  ASSUME IInv, NEW c \in Cores, AddAlias(c)
  PROVE  IInv'
<1> USE DEF IInv
<1>0. /\ Alive(c) /\ (\A d \in Cores \ {c} : ~Alive(d)) /\ pc[c] = "alias"
      /\ UNCHANGED <<servers, file, default, back, owned, stored, current, at, todo, follow, lost>>
      /\ spent' = spent \/ Fault
      /\ alias' = alias \/ alias' = AliasAdded(c)
      /\ pc' = [pc EXCEPT ![c] = "prepared"] \/ pc' = [pc EXCEPT ![c] = "failed"]
  BY Alone DEF Alive, Busy, AddAlias, Goto
<1>1. /\ owned[c].pid = c /\ file.pid = c /\ owned[c].alias = file.alias
      /\ alias' = "set" => file.alias
      /\ owned[c].alias \in BOOLEAN
  BY <1>0 DEF AliasAdded, Sound, Each, Prepared, Works, Pointing, OnDisk, TypeOK, Records, Kept,
              Blind, Recorded
<1>2. pc'[c] \in {"prepared", "failed"}
  BY <1>0 DEF TypeOK
<1>3. TypeOK'
  <2>1. spent' \in Spending
    BY <1>0, Spent DEF TypeOK, Spending
  <2>2. pc' \in [Cores -> {"unborn", "dead"} \cup Resting \cup Busy]
    BY <1>0 DEF TypeOK, Resting
  <2>3. \A b, d \in Cores : pc'[b] \in Replaying /\ pc'[d] \in Replaying => b = d
    BY <1>0 DEF TypeOK, Replaying
  <2>4. alias' \in {"none", "set", "left"}
    BY <1>0 DEF AliasAdded, TypeOK
  <2> QED  BY <1>0, <2>1, <2>2, <2>3, <2>4 DEF TypeOK, Spending
<1>4. \A d \in Cores \ {c} : ~Alive(d) /\ Keeps(d)
  BY <1>0 DEF Keeps, TypeOK
<1>5. OnDisk'
  BY <1>0, <1>1 DEF OnDisk, Sound, Covers, Honest, Kept
<1>6. Each(c)'
  <2>1. ~Blind(c)
    BY <1>0 DEF Blind
  <2>2. Covers(owned[c]) /\ c # 0
    BY <1>0, <1>1, <2>1 DEF Sound, Each, Mine, Accounts, Cores
  <2>3. Mine(c)'
    BY <1>0, <1>1, <2>2 DEF Sound, Each, Mine, Accounts, Covers, Kept
  <2>4. Gone(c)' /\ Prepared(c)' /\ Replays(c)'
    BY <1>0, <1>1, <1>2 DEF Gone, Prepared, Replays, Alive, Resting, Busy, Replaying, Pointing
  <2>5. Works(c)'
    BY <1>0, <1>1, <1>2 DEF Sound, Each, Works, Kept
  <2> QED  BY <2>3, <2>4, <2>5 DEF Each
<1> QED  BY <1>0, <1>3, <1>4, <1>5, <1>6, OneCore

\* Apply preserves the invariant.
LEMMA ApplyStep ==
  ASSUME IInv, NEW c \in Cores, Apply(c)
  PROVE  IInv'
<1> USE DEF IInv
<1>0. /\ Alive(c) /\ (\A d \in Cores \ {c} : ~Alive(d)) /\ pc[c] = "prepared"
      /\ UNCHANGED <<servers, alias, file, default, owned, stored, current, at, todo, spent, lost>>
      /\ pc'[c] = "follow" /\ back'[c].ok = "applied"
      /\ pc' = [pc EXCEPT ![c] = "follow"]
  BY Alone DEF Alive, Resting, Apply, Goto, TypeOK
<1>1. follow' \in [Cores -> [gen : Nat, watching : BOOLEAN, runs : SUBSET Nat]]
  <2>1. follow[c].gen + 1 \in Nat
    BY DEF TypeOK
  <2> QED  BY <2>1 DEF TypeOK, Apply
<1>2. TypeOK'
  <2>1. back' \in [Cores -> [ok : Resting \cup {"decide"}, err : Resting]]
    BY DEF TypeOK, Resting, Apply
  <2>2. pc' \in [Cores -> {"unborn", "dead"} \cup Resting \cup Busy]
    BY <1>0 DEF TypeOK, Busy
  <2>3. \A b, d \in Cores : pc'[b] \in Replaying /\ pc'[d] \in Replaying => b = d
    BY <1>0 DEF TypeOK, Replaying
  <2> QED  BY <1>0, <1>1, <2>1, <2>2, <2>3 DEF TypeOK
<1>3. \A d \in Cores \ {c} : ~Alive(d) /\ Keeps(d)
  BY <1>0 DEF Keeps, TypeOK, Apply
<1>4. OnDisk'
  BY <1>0 DEF OnDisk, Sound, Covers, Honest, Kept
<1>5. Each(c)'
  <2>1. /\ follow'[c].runs = follow[c].runs /\ follow'[c].gen = follow[c].gen + 1
        /\ follow'[c].watching
        /\ follow[c].gen \in Nat /\ follow[c].runs \subseteq Nat
    BY DEF TypeOK, Apply
  <2>2. Works(c)'
    BY <1>0, <2>1 DEF Sound, Each, Works, Resting, Kept, Blind, Recorded
  <2> QED  BY <1>0, <2>2 DEF Sound, Each, Gone, Mine, Prepared, Replays, Covers, Honest,
                             Alive, Resting, Busy, Replaying, Pointing, Kept, Accounts, AllBack,
                             Blind, Recorded, Unread, Stale
<1> QED  BY <1>0, <1>2, <1>3, <1>4, <1>5, OneCore

\* Move preserves the invariant.
LEMMA MoveStep ==
  ASSUME IInv, NEW s \in Services \cup {NoService}, Move(s)
  PROVE  IInv'
<1> USE DEF IInv
<1>0. UNCHANGED <<servers, alias, file, pc, back, owned, stored, current, at, todo, lost>>
  BY DEF Move
<1>1. \A c \in Cores :
        /\ follow'[c].gen = follow[c].gen /\ (follow'[c].watching <=> follow[c].watching)
        /\ follow'[c].runs = follow[c].runs \cup
                             (IF follow[c].watching /\ Alive(c) THEN {follow[c].gen} ELSE {})
        /\ follow'[c] \in [gen : Nat, watching : BOOLEAN, runs : SUBSET Nat]
  BY DEF Move, TypeOK
<1>2. TypeOK'
  <2>1. spent' \in Spending
    <3>1. spent.moves + 1 \in 0..MaxMoves
      BY SystemDnsAssumption DEF TypeOK, Move
    <3> QED  BY <3>1 DEF TypeOK, Spending, Move
  <2>2. follow' \in [Cores -> [gen : Nat, watching : BOOLEAN, runs : SUBSET Nat]]
    BY <1>1 DEF Move
  <2> QED  BY <1>0, <2>1, <2>2 DEF TypeOK, Spending, Move
<1>3. Solo' /\ OnDisk'
  BY <1>0 DEF Sound, Solo, OnDisk, Alive, Covers, Honest, Kept
<1>4. ASSUME NEW c \in Cores PROVE Each(c)'
  <2>1. Gone(c)' /\ Mine(c)' /\ Prepared(c)' /\ Replays(c)'
    BY <1>0, <1>1 DEF Sound, Each, Gone, Mine, Prepared, Replays, Covers, Honest, Alive, Kept,
                      Accounts, AllBack, Blind, Recorded, Unread, Stale
  <2>2. Works(c)'
    BY <1>0, <1>1 DEF Sound, Each, Works, TypeOK, Kept, Blind, Recorded
  <2> QED  BY <2>1, <2>2 DEF Each
<1> QED  BY <1>2, <1>3, <1>4 DEF Sound

\* Follow preserves the invariant.
LEMMA FollowStep ==
  ASSUME IInv, NEW c \in Cores, Follow(c)
  PROVE  IInv'
<1> USE DEF IInv
<1>0. /\ Alive(c) /\ (\A d \in Cores \ {c} : ~Alive(d)) /\ pc[c] \in Resting
      /\ UNCHANGED <<servers, alias, file, default, owned, stored, current, at, todo, spent, lost>>
      /\ back' = [back EXCEPT ![c] = [ok |-> pc[c], err |-> pc[c]]]
      /\ back'[c].ok = pc[c]
  BY Alone DEF Alive, Follow, TypeOK
<1>1. PICK gen \in follow[c].runs :
        /\ follow' = [follow EXCEPT ![c] = [follow[c] EXCEPT !.runs = @ \ {gen}]]
        /\ Goto(c, IF gen = follow[c].gen THEN "follow" ELSE pc[c])
  BY DEF Follow
<1>2. /\ follow'[c].gen = follow[c].gen /\ follow'[c].watching = follow[c].watching
      /\ follow'[c].runs = follow[c].runs \ {gen}
      /\ follow' \in [Cores -> [gen : Nat, watching : BOOLEAN, runs : SUBSET Nat]]
  BY <1>1 DEF TypeOK
<1>3. \/ pc'[c] = pc[c]
      \/ pc'[c] = "follow" /\ follow[c].watching
  BY <1>1 DEF Goto, TypeOK, Sound, Each, Works, Kept, Blind, Recorded
<1>4. TypeOK'
  <2>1. back' \in [Cores -> [ok : Resting \cup {"decide"}, err : Resting]]
    BY <1>0 DEF TypeOK
  <2>2. pc' \in [Cores -> {"unborn", "dead"} \cup Resting \cup Busy]
    BY <1>1 DEF TypeOK, Busy, Goto
  <2>3. \A b, d \in Cores : pc'[b] \in Replaying /\ pc'[d] \in Replaying => b = d
    BY <1>1 DEF TypeOK, Replaying, Goto
  <2> QED  BY <1>0, <1>2, <2>1, <2>2, <2>3 DEF TypeOK
<1>5. \A d \in Cores \ {c} : ~Alive(d) /\ Keeps(d)
  BY <1>0, <1>1 DEF Keeps, TypeOK, Goto
<1>6. OnDisk'
  BY <1>0 DEF OnDisk, Sound, Covers, Honest, Kept
<1>7. Each(c)'
  <2>1. Gone(c)' /\ Mine(c)' /\ Prepared(c)' /\ Replays(c)'
    BY <1>0, <1>2, <1>3 DEF Sound, Each, Gone, Mine, Prepared, Replays, Covers, Honest, Alive,
                            Resting, Busy, Replaying, Pointing, Kept, Accounts, AllBack, Blind,
                            Recorded, Unread, Stale
  <2>2. Works(c)'
    BY <1>0, <1>2, <1>3 DEF Sound, Each, Works, Resting, TypeOK, Kept, Blind, Recorded
  <2> QED  BY <2>1, <2>2 DEF Each
<1> QED  BY <1>0, <1>4, <1>5, <1>6, <1>7, OneCore

\* FollowDefault preserves the invariant.
LEMMA FollowDefaultStep ==
  ASSUME IInv, NEW c \in Cores, FollowDefault(c)
  PROVE  IInv'
<1> USE DEF IInv, FollowDefault, Goto, WorksOn
<1>0. /\ Alive(c) /\ (\A d \in Cores \ {c} : ~Alive(d)) /\ back[c].ok \in Resting
      /\ \/ pc'[c] = back[c].ok
         \/ pc'[c] = "point" /\ at'[c] \in Services /\ at'[c] # current[c]
  BY Alone DEF Alive, Busy, TypeOK, Sound, Each, Works, Kept, Blind, Recorded
<1>1. TypeOK'
  <2>1. pc' \in [Cores -> {"unborn", "dead"} \cup Resting \cup Busy]
    BY <1>0 DEF TypeOK, Busy
  <2>2. \A b, d \in Cores : pc'[b] \in Replaying /\ pc'[d] \in Replaying => b = d
    BY <1>0 DEF TypeOK, Replaying, Resting
  <2> QED  BY <2>1, <2>2 DEF TypeOK
<1>2. \A d \in Cores \ {c} : ~Alive(d) /\ Keeps(d)
  BY <1>0 DEF Keeps, TypeOK
<1>3. OnDisk'
  BY DEF OnDisk, Sound, Covers, Honest, Kept
<1>4. Each(c)'
  BY <1>0 DEF Sound, Each, Gone, Mine, Prepared, Replays, Works, Covers, Honest, Alive, Resting,
              Busy, Replaying, Pointing, Kept, Accounts, AllBack, Blind, Recorded, Unread, Stale
<1> QED  BY <1>1, <1>2, <1>3, <1>4, OneCore

\* FollowFails preserves the invariant.
LEMMA FollowFailsStep ==
  ASSUME IInv, NEW c \in Cores, FollowFails(c)
  PROVE  IInv'
<1> USE DEF IInv
<1>0. /\ Alive(c) /\ (\A d \in Cores \ {c} : ~Alive(d)) /\ back[c].err \in Resting
      /\ pc[c] \in {"follow", "point", "set"} /\ Fault
      /\ UNCHANGED <<servers, alias, file, default, back, owned, stored, current, todo, follow, lost>>
      /\ pc'[c] = back[c].err /\ pc' = [pc EXCEPT ![c] = back[c].err]
      /\ at' = [at EXCEPT ![c] = NoService]
  BY Alone DEF Alive, Busy, TypeOK, FollowFails, Goto, WorksOn
<1>1. TypeOK'
  <2>1. pc' \in [Cores -> {"unborn", "dead"} \cup Resting \cup Busy]
    BY <1>0 DEF TypeOK, Busy
  <2>2. \A b, d \in Cores : pc'[b] \in Replaying /\ pc'[d] \in Replaying => b = d
    BY <1>0 DEF TypeOK, Replaying, Resting
  <2>3. spent' \in Spending
    BY <1>0, Spent DEF TypeOK, Spending
  <2>4. at' \in [Cores -> Services \cup {NoService}]
    BY <1>0 DEF TypeOK
  <2> QED  BY <1>0, <2>1, <2>2, <2>3, <2>4 DEF TypeOK, Spending
<1>2. \A d \in Cores \ {c} : ~Alive(d) /\ Keeps(d)
  BY <1>0 DEF Keeps, TypeOK
<1>3. OnDisk'
  BY <1>0 DEF OnDisk, Sound, Covers, Honest, Kept
<1>4. Each(c)'
  BY <1>0 DEF Sound, Each, Gone, Mine, Prepared, Replays, Works, Covers, Honest, Alive, Resting,
              Busy, Replaying, Pointing, Kept, Accounts, AllBack, Blind, Recorded, Unread, Stale
<1> QED  BY <1>0, <1>1, <1>2, <1>3, <1>4, OneCore

\* Point preserves the invariant.
LEMMA PointStep ==
  ASSUME IInv, NEW c \in Cores, Point(c)
  PROVE  IInv'
<1> USE DEF IInv
<1>0. /\ Alive(c) /\ (\A d \in Cores \ {c} : ~Alive(d)) /\ pc[c] = "point" /\ at[c] \in Services
      /\ UNCHANGED <<servers, alias, default, back, stored, current, at, todo, follow, spent, lost>>
      /\ pc'[c] = "set" /\ pc' = [pc EXCEPT ![c] = "set"]
      /\ owned[c].pid = c /\ file.pid = c /\ owned[c] \in Records /\ file \in Records
  BY Alone DEF Alive, Busy, TypeOK, Point, Goto, Sound, Each, Works, Prepared, Pointing, Kept,
               Blind, Recorded
<1>1. /\ Covers(owned[c]) /\ Honest(owned[c])
      /\ alias = "set" => owned[c].alias
      /\ \A s \in Kept : owned[c].services[s] # "none" => file.services[s] = "user"
  <2>1. ~Blind(c)
    BY <1>0 DEF Blind
  <2> QED  BY <1>0, <2>1 DEF Sound, Each, Mine, Accounts, OnDisk, Cores
<1>2. /\ owned' \in [Cores -> Records] /\ file' \in Records
      /\ owned'[c].pid = c /\ file'.pid = c
      /\ alias = "set" => owned'[c].alias /\ file'.alias
      /\ \A s \in Kept :
           /\ owned[c].services[s] = "user" => owned'[c].services[s] = "user"
           /\ owned'[c].services[s] # "none" => file'.services[s] = "user"
           /\ owned'[c].services[s] \in {"none", "user"}
           /\ file'.services[s] \in {"none", "user"}
           /\ servers[s] = "core" => file'.services[s] = "user"
      /\ at[c] \in Kept => owned'[c].services[at[c]] = "user"
      /\ \A d \in Cores \ {c} : owned'[d] = owned[d]
  <2>1. CASE Known(c, at[c])
    BY <2>1, <1>0, <1>1 DEF Known, Point, TypeOK, Sound, OnDisk, Honest, Covers, Kept
  <2>2. CASE ~Known(c, at[c])
    <3> DEFINE v == Read(at[c])
    <3> DEFINE r == With(owned[c], at[c], v)
    <3>1. at[c] \in Kept => servers[at[c]] = "user" /\ v = "user"
      BY <2>2, <1>0, <1>1 DEF Known, Covers, Read
    <3>2. owned' = [owned EXCEPT ![c] = r] /\ file' = r
      BY <2>2 DEF Point, Save, Own
    <3>0. v \in Previous
      BY <1>0 DEF Previous, Read, TypeOK
    <3> HIDE DEF v
    <3>3. /\ r \in Records /\ r.pid = c /\ r.alias = owned[c].alias
          /\ r.services[at[c]] = v
          /\ \A t \in Services \ {at[c]} : r.services[t] = owned[c].services[t]
      BY <1>0, <3>0, Changed
    <3> HIDE DEF r
    <3>4. /\ owned' \in [Cores -> Records] /\ owned'[c] = r
          /\ \A d \in Cores \ {c} : owned'[d] = owned[d]
      BY <3>2, <3>3 DEF TypeOK
    <3> QED  BY <1>1, <3>1, <3>2, <3>3, <3>4 DEF Covers, Honest, Kept
  <2> QED  BY <2>1, <2>2
<1>3. TypeOK'
  <2>1. pc' \in [Cores -> {"unborn", "dead"} \cup Resting \cup Busy]
    BY <1>0 DEF TypeOK, Busy
  <2>2. \A b, d \in Cores : pc'[b] \in Replaying /\ pc'[d] \in Replaying => b = d
    BY <1>0 DEF TypeOK, Replaying
  <2> QED  BY <1>0, <1>2, <2>1, <2>2 DEF TypeOK
<1>4. \A d \in Cores \ {c} : ~Alive(d) /\ Keeps(d)
  BY <1>0, <1>2 DEF Keeps, TypeOK
<1>5. c # 0
  BY DEF Cores
<1>6. OnDisk'
  BY <1>0, <1>1, <1>2, <1>5 DEF OnDisk, Sound, Covers, Honest, Kept
<1>7. Each(c)'
  <2>1. Mine(c)'
    BY <1>0, <1>1, <1>2, <1>5 DEF Mine, Covers, Kept, Accounts
  <2>2. Gone(c)' /\ Prepared(c)' /\ Replays(c)'
    BY <1>0, <1>2 DEF Gone, Prepared, Replays, Alive, Resting, Busy, Replaying, Pointing, Unread,
                      Stale
  <2>3. Works(c)'
    BY <1>0, <1>2 DEF Sound, Each, Works, TypeOK, Kept, Blind, Recorded
  <2> QED  BY <2>1, <2>2, <2>3 DEF Each
<1> QED  BY <1>0, <1>2, <1>3, <1>4, <1>6, <1>7, OneCore

\* SetDNS preserves the invariant.
LEMMA SetDNSStep ==
  ASSUME IInv, NEW c \in Cores, SetDNS(c)
  PROVE  IInv'
<1> USE DEF IInv
<1>0. /\ Alive(c) /\ (\A d \in Cores \ {c} : ~Alive(d)) /\ pc[c] = "set" /\ at[c] \in Services
      /\ UNCHANGED <<alias, file, default, back, owned, stored, todo, follow, spent, lost>>
      /\ servers' = [servers EXCEPT ![at[c]] = "core"]
      /\ back[c].ok \in Resting
      /\ owned[c].pid = c /\ file.pid = c
      /\ at[c] \in Kept => owned[c].services[at[c]] = "user"
  BY Alone DEF Alive, Busy, TypeOK, SetDNS, Put, Sound, Each, Works, Prepared, Pointing, Kept,
               Blind, Recorded
<1>1. at[c] \in Kept => file.services[at[c]] = "user"
  BY <1>0 DEF Sound, Each, Mine, Accounts, AllBack, Blind, Recorded, Kept
<1>2. /\ servers' \in [Services -> {"user", "core", "empty"}] /\ servers'[at[c]] = "core"
      /\ \A t \in Services \ {at[c]} : servers'[t] = servers[t]
  BY <1>0 DEF TypeOK
<1>3. \/ /\ current' = [current EXCEPT ![c] = at[c]]
         /\ at' = [at EXCEPT ![c] = NoService]
         /\ pc' = [pc EXCEPT ![c] = back[c].ok]
      \/ /\ UNCHANGED <<current, at>>
         /\ pc' = [pc EXCEPT ![c] = "restore"]
         /\ current[c] # NoService
  BY DEF SetDNS, Followed, WorksOn, Goto
<1>4. TypeOK'
  <2>1. pc' \in [Cores -> {"unborn", "dead"} \cup Resting \cup Busy]
    BY <1>0, <1>3 DEF TypeOK, Busy
  <2>2. \A b, d \in Cores : pc'[b] \in Replaying /\ pc'[d] \in Replaying => b = d
    <3>1. pc'[c] \notin Replaying /\ \A d \in Cores \ {c} : pc'[d] = pc[d]
      BY <1>0, <1>3 DEF TypeOK, Replaying, Resting
    <3> QED  BY <3>1 DEF TypeOK
  <2>3. /\ current' \in [Cores -> Services \cup {NoService}]
        /\ at' \in [Cores -> Services \cup {NoService}]
    BY <1>0, <1>3 DEF TypeOK
  <2> QED  BY <1>0, <1>2, <2>1, <2>2, <2>3 DEF TypeOK
<1>5. \A d \in Cores \ {c} : ~Alive(d) /\ Keeps(d)
  BY <1>0, <1>3 DEF Keeps, TypeOK
<1>6. OnDisk'
  BY <1>0, <1>1, <1>2 DEF OnDisk, Sound, Covers, Honest, Kept
<1>7. Each(c)'
  <2>1. \/ pc'[c] = back[c].ok /\ current'[c] = at[c]
        \/ pc'[c] = "restore" /\ current'[c] = current[c] /\ at'[c] = at[c]
           /\ current[c] # NoService
    BY <1>3 DEF TypeOK
  <2>2. Mine(c)'
    <3>1. ~Blind(c) /\ c # 0
      BY <1>0 DEF Blind, Cores
    <3> QED  BY <1>0, <1>1, <1>2, <3>1 DEF Sound, Each, Mine, Accounts, Covers, Kept
  <2>3. Gone(c)' /\ Prepared(c)' /\ Replays(c)'
    BY <1>0, <2>1 DEF Gone, Prepared, Replays, Alive, Resting, Busy, Replaying, Pointing, Unread,
                      Stale
  <2>4. Works(c)'
    BY <1>0, <2>1 DEF Sound, Each, Works, TypeOK, Resting, Kept, Blind, Recorded
  <2> QED  BY <2>2, <2>3, <2>4 DEF Each
<1> QED  BY <1>0, <1>4, <1>5, <1>6, <1>7, OneCore

\* RestorePrevious preserves the invariant.
LEMMA RestorePreviousStep ==
  ASSUME IInv, NEW c \in Cores, RestorePrevious(c)
  PROVE  IInv'
<1> USE DEF IInv
<1>0. /\ Alive(c) /\ (\A d \in Cores \ {c} : ~Alive(d)) /\ pc[c] = "restore"
      /\ at[c] \in Services /\ current[c] \in Services /\ at[c] # current[c]
      /\ UNCHANGED <<alias, file, default, back, owned, stored, todo, follow, lost>>
      /\ spent' = spent \/ Fault
      /\ back[c].ok \in Resting
      /\ owned[c].pid = c /\ file.pid = c
      /\ at[c] \in Kept => owned[c].services[at[c]] = "user"
      /\ current[c] \in Kept => owned[c].services[current[c]] = "user"
      /\ Restored(owned[c], current[c]) \in {"user", "empty"}
  BY Alone DEF Alive, Busy, TypeOK, RestorePrevious, Sound, Each, Works, Prepared, Pointing, Kept,
                Restored, Records, Previous
<1>1. \/ /\ servers' = [servers EXCEPT ![current[c]] = Restored(owned[c], current[c])]
         /\ pc' = [pc EXCEPT ![c] = "forget"]
         /\ UNCHANGED <<current, at>>
      \/ /\ servers' = servers
         /\ current' = [current EXCEPT ![c] = at[c]]
         /\ at' = [at EXCEPT ![c] = NoService]
         /\ pc' = [pc EXCEPT ![c] = back[c].ok]
  BY <1>0 DEF RestorePrevious, Put, Followed, WorksOn, Goto
<1>2. /\ servers' \in [Services -> {"user", "core", "empty"}]
      /\ \A t \in Kept : servers'[t] \in {servers[t], "user"}
  <2>1. current[c] \in Kept => Restored(owned[c], current[c]) = "user"
    BY <1>0 DEF Restored
  <2>2. CASE servers' = servers
    BY <2>2 DEF TypeOK
  <2>3. CASE servers' = [servers EXCEPT ![current[c]] = Restored(owned[c], current[c])]
    <3> DEFINE v == Restored(owned[c], current[c])
    <3>1. v \in {"user", "core", "empty"} /\ (current[c] \in Kept => v = "user")
      BY <1>0, <2>1
    <3>2. servers \in [Services -> {"user", "core", "empty"}] /\ current[c] \in Services
      BY <1>0 DEF TypeOK
    <3>3. servers' = [servers EXCEPT ![current[c]] = v]
      BY <2>3
    <3> HIDE DEF v
    <3> QED  BY <3>1, <3>2, <3>3 DEF Kept
  <2> QED  BY <1>1, <2>2, <2>3
<1>3. TypeOK'
  <2>1. pc' \in [Cores -> {"unborn", "dead"} \cup Resting \cup Busy]
    BY <1>0, <1>1 DEF TypeOK, Busy
  <2>2. \A b, d \in Cores : pc'[b] \in Replaying /\ pc'[d] \in Replaying => b = d
    BY <1>0, <1>1 DEF TypeOK, Replaying, Resting
  <2>3. /\ current' \in [Cores -> Services \cup {NoService}]
        /\ at' \in [Cores -> Services \cup {NoService}]
    BY <1>0, <1>1 DEF TypeOK
  <2>4. spent' \in Spending
    BY <1>0, Spent DEF TypeOK, Spending
  <2> QED  BY <1>0, <1>2, <2>1, <2>2, <2>3, <2>4 DEF TypeOK, Spending
<1>4. \A d \in Cores \ {c} : ~Alive(d) /\ Keeps(d)
  BY <1>0, <1>1 DEF Keeps, TypeOK
<1>5. OnDisk'
  BY <1>0, <1>2 DEF OnDisk, Sound, Covers, Honest, Kept
<1>6. Each(c)'
  <2>1. \/ pc'[c] = back[c].ok /\ current'[c] = at[c]
        \/ pc'[c] = "forget" /\ current'[c] = current[c] /\ at'[c] = at[c]
           /\ (current[c] \in Kept => servers'[current[c]] = "user")
    BY <1>0, <1>1 DEF TypeOK, Restored
  <2>2. Mine(c)'
    BY <1>0, <1>2 DEF Sound, Each, Mine, Covers, Kept, Accounts, AllBack, Blind, Recorded
  <2>3. Gone(c)' /\ Prepared(c)' /\ Replays(c)'
    BY <1>0, <2>1 DEF Gone, Prepared, Replays, Alive, Resting, Busy, Replaying, Pointing, Unread,
                      Stale
  <2>4. Works(c)'
    BY <1>0, <2>1, SystemDnsAssumption DEF Sound, Each, Works, TypeOK, Resting, Kept, Blind,
                                           Recorded
  <2> QED  BY <2>2, <2>3, <2>4 DEF Each
<1> QED  BY <1>0, <1>3, <1>4, <1>5, <1>6, OneCore

\* ForgetPrevious preserves the invariant.
LEMMA ForgetPreviousStep ==
  ASSUME IInv, NEW c \in Cores, ForgetPrevious(c)
  PROVE  IInv'
<1> USE DEF IInv
<1> DEFINE r == Without(owned[c], current[c])
<1>0. /\ Alive(c) /\ (\A d \in Cores \ {c} : ~Alive(d)) /\ pc[c] = "forget"
      /\ at[c] \in Services /\ current[c] \in Services /\ at[c] # current[c]
      /\ UNCHANGED <<servers, alias, default, back, stored, todo, follow, lost>>
      /\ spent' = spent \/ Fault
      /\ back[c].ok \in Resting
      /\ owned[c].pid = c /\ file.pid = c /\ owned[c] \in Records /\ file \in Records
      /\ at[c] \in Kept => owned[c].services[at[c]] = "user"
      /\ current[c] \in Kept => servers[current[c]] = "user"
  BY Alone DEF Alive, Busy, TypeOK, ForgetPrevious, Sound, Each, Works, Prepared, Pointing, Kept,
               Blind, Recorded
<1>1. /\ owned' = [owned EXCEPT ![c] = r]
      /\ file' \in {r, file}
      /\ current' = [current EXCEPT ![c] = at[c]]
      /\ at' = [at EXCEPT ![c] = NoService]
      /\ pc' = [pc EXCEPT ![c] = back[c].ok]
  BY <1>0 DEF ForgetPrevious, Save, Own, Followed, WorksOn, Goto
<1>2. /\ r \in Records /\ r.pid = c /\ r.alias = owned[c].alias
      /\ r.services[current[c]] = "none"
      /\ \A t \in Services \ {current[c]} : r.services[t] = owned[c].services[t]
  BY <1>0, Forgotten
<1> HIDE DEF r
<1>3. /\ owned' \in [Cores -> Records] /\ owned'[c] = r /\ file' \in Records /\ file'.pid = c
      /\ pc'[c] = back[c].ok /\ current'[c] = at[c]
  BY <1>0, <1>1, <1>2 DEF TypeOK
<1>4. TypeOK'
  <2>1. pc' \in [Cores -> {"unborn", "dead"} \cup Resting \cup Busy]
    BY <1>0, <1>1 DEF TypeOK, Busy
  <2>2. \A b, d \in Cores : pc'[b] \in Replaying /\ pc'[d] \in Replaying => b = d
    BY <1>0, <1>1 DEF TypeOK, Replaying, Resting
  <2>3. /\ current' \in [Cores -> Services \cup {NoService}]
        /\ at' \in [Cores -> Services \cup {NoService}]
    BY <1>0, <1>1 DEF TypeOK
  <2>4. spent' \in Spending
    BY <1>0, Spent DEF TypeOK, Spending
  <2> QED  BY <1>0, <1>3, <2>1, <2>2, <2>3, <2>4 DEF TypeOK, Spending
<1>5. \A d \in Cores \ {c} : ~Alive(d) /\ Keeps(d)
  BY <1>0, <1>1 DEF Keeps, TypeOK
<1>6. c # 0 /\ \A d \in Cores \ {c} : owned'[d] = owned[d]
  BY <1>1 DEF Cores, TypeOK
<1>7. OnDisk'
  BY <1>0, <1>1, <1>2, <1>3, <1>6 DEF OnDisk, Sound, Each, Mine, Covers, Honest, Kept, Accounts,
                                      AllBack, Blind, Recorded
<1>8. Each(c)'
  <2>1. Mine(c)'
    BY <1>0, <1>1, <1>2, <1>3, <1>6 DEF Sound, OnDisk, Honest, Each, Mine, Covers, Kept,
                                        Accounts, AllBack, Blind, Recorded
  <2>2. Gone(c)' /\ Prepared(c)' /\ Replays(c)'
    BY <1>0, <1>2, <1>3 DEF Gone, Prepared, Replays, Alive, Resting, Busy, Replaying, Pointing,
                            Unread, Stale
  <2>3. Works(c)'
    BY <1>0, <1>2, <1>3, SystemDnsAssumption DEF Sound, Each, Works, TypeOK, Resting, Kept,
                                                 Blind, Recorded
  <2> QED  BY <2>1, <2>2, <2>3 DEF Each
<1> QED  BY <1>3, <1>4, <1>5, <1>7, <1>8, OneCore

\* Release preserves the invariant.
LEMMA ReleaseStep ==
  ASSUME IInv, NEW c \in Cores, Release(c)
  PROVE  IInv'
<1> USE DEF IInv
<1>0. /\ Alive(c) /\ (\A d \in Cores \ {c} : ~Alive(d)) /\ pc[c] \in Resting
      /\ UNCHANGED <<servers, alias, file, default, back, owned, stored, at, spent, lost>>
      /\ owned[c].pid = c
  BY Alone DEF Alive, Release, Sound, Each, Mine, Prepared, Accounts, AllBack, Blind, Recorded,
               Kept
<1>1. /\ pc' = [pc EXCEPT ![c] = "undo"] /\ pc'[c] = "undo"
      /\ current' = [current EXCEPT ![c] = NoService] /\ current'[c] = NoService
      /\ todo' = [todo EXCEPT ![c] = Recorded(owned[c])] /\ todo'[c] = Recorded(owned[c])
  <2>1. owned[c].pid # 0
    BY <1>0 DEF Cores
  <2>2. /\ pc' = [pc EXCEPT ![c] = "undo"]
        /\ current' = [current EXCEPT ![c] = NoService]
        /\ todo' = [todo EXCEPT ![c] = Recorded(owned[c])]
    BY <2>1 DEF Release, Goto
  <2> QED  BY <2>2 DEF TypeOK
<1>2. /\ follow' \in [Cores -> [gen : Nat, watching : BOOLEAN, runs : SUBSET Nat]]
      /\ ~follow'[c].watching
      /\ follow[c].gen \in Nat /\ follow'[c].gen = follow[c].gen + 1
      /\ follow[c].runs \subseteq Nat /\ follow'[c].runs = follow[c].runs
      /\ \A d \in Cores \ {c} : follow'[d] = follow[d]
  <2>1. follow[c].gen + 1 \in Nat
    BY DEF TypeOK
  <2> QED  BY <2>1 DEF Release, TypeOK
<1>3. TypeOK'
  <2>1. pc' \in [Cores -> {"unborn", "dead"} \cup Resting \cup Busy]
    BY <1>1 DEF TypeOK, Busy
  <2>2. \A b, d \in Cores : pc'[b] \in Replaying /\ pc'[d] \in Replaying => b = d
    BY <1>1 DEF TypeOK, Replaying
  <2>3. /\ current' \in [Cores -> Services \cup {NoService}]
        /\ todo' \in [Cores -> SUBSET Services]
    BY <1>1 DEF TypeOK, Recorded
  <2> QED  BY <1>0, <1>2, <2>1, <2>2, <2>3 DEF TypeOK
<1>4. \A d \in Cores \ {c} : ~Alive(d) /\ Keeps(d)
  BY <1>0, <1>1, <1>2 DEF Keeps, TypeOK
<1>5. OnDisk'
  BY <1>0 DEF OnDisk, Sound, Covers, Honest, Kept
<1>6. Each(c)'
  <2>0. c # 0
    BY DEF Cores
  <2>3. Accounts(c) /\ (Blind(c) => Blind(c)')
    <3>1. Accounts(c)
      BY <1>0, <2>0 DEF Sound, Each, Mine
    <3>2. Blind(c) => Blind(c)'
      BY <1>0, <1>1 DEF Blind, Recorded
    <3> QED  BY <3>1, <3>2
  <2>4. Mine(c)'
    BY <1>0, <2>0, <2>3 DEF Sound, Each, Mine, Accounts, Covers, Kept
  <2>1. Gone(c)' /\ Mine(c)' /\ Prepared(c)' /\ Replays(c)'
    BY <1>0, <1>1, <1>2, <2>4 DEF Gone, Prepared, Replays, Alive, Resting, Busy, Replaying,
                                  Pointing
  <2>2. Works(c)'
    BY <1>0, <1>1, <1>2, SystemDnsAssumption DEF Sound, Each, Works, Kept, Recorded
  <2> QED  BY <2>1, <2>2 DEF Each
<1> QED  BY <1>0, <1>3, <1>4, <1>5, <1>6, OneCore

\* Undo preserves the invariant.
LEMMA UndoStep ==
  ASSUME IInv, NEW c \in Cores, Undo(c)
  PROVE  IInv'
<1> USE DEF IInv
<1>0. /\ Alive(c) /\ (\A d \in Cores \ {c} : ~Alive(d)) /\ pc[c] = "undo"
      /\ UNCHANGED <<alias, file, default, back, owned, stored, current, follow, lost>>
      /\ owned[c].pid = c /\ current[c] = NoService /\ ~follow[c].watching
      /\ todo[c] \subseteq Recorded(owned[c])
  BY Alone DEF Alive, Busy, Undo, Sound, Each, Works, Kept, Blind, Recorded
<1>1. PICK s \in todo[c] :
       \/ /\ servers' = [servers EXCEPT ![s] = owned[c].services[s]]
          /\ at' = [at EXCEPT ![c] = s]
          /\ pc' = [pc EXCEPT ![c] = "undone"]
          /\ UNCHANGED <<todo, spent>>
       \/ /\ Fault
          /\ todo' = [todo EXCEPT ![c] = @ \ {s}]
          /\ UNCHANGED <<servers, at, pc>>
  BY DEF Undo, Put, WorksOn, Goto
<1>2. /\ s \in Services /\ owned[c].services[s] \in {"user", "empty"}
      /\ s \in Kept => owned[c].services[s] = "user"
      /\ ~Blind(c)
  BY <1>0 DEF TypeOK, Records, Previous, Recorded, Sound, OnDisk, Honest, Kept, Blind
<1>3. /\ servers' \in [Services -> {"user", "core", "empty"}]
      /\ \A t \in Kept : servers'[t] \in {servers[t], "user"}
      /\ \/ /\ pc'[c] = "undone" /\ at'[c] = s /\ todo'[c] = todo[c]
            /\ s \in Kept => servers'[s] = "user"
         \/ pc'[c] = "undo" /\ todo'[c] = todo[c] \ {s}
  <2>1. CASE servers' = [servers EXCEPT ![s] = owned[c].services[s]]
             /\ at' = [at EXCEPT ![c] = s] /\ pc' = [pc EXCEPT ![c] = "undone"] /\ todo' = todo
    BY <2>1, <1>2 DEF TypeOK, Kept
  <2>2. CASE todo' = [todo EXCEPT ![c] = @ \ {s}] /\ UNCHANGED <<servers, at, pc>>
    BY <2>2, <1>0 DEF TypeOK, Kept
  <2> QED  BY <1>1, <2>1, <2>2
<1>4. TypeOK'
  <2>1. pc' \in [Cores -> {"unborn", "dead"} \cup Resting \cup Busy]
    BY <1>1 DEF TypeOK, Busy
  <2>2. \A b, d \in Cores : pc'[b] \in Replaying /\ pc'[d] \in Replaying => b = d
    <3>1. pc'[c] \notin Replaying /\ \A d \in Cores \ {c} : pc'[d] = pc[d]
      BY <1>0, <1>1 DEF TypeOK, Replaying
    <3> QED  BY <3>1 DEF TypeOK
  <2>3. at' \in [Cores -> Services \cup {NoService}]
    BY <1>1, <1>2 DEF TypeOK
  <2>5. todo' \in [Cores -> SUBSET Services]
    <3>1. todo' = todo \/ todo' = [todo EXCEPT ![c] = todo[c] \ {s}]
      BY <1>1
    <3>2. todo[c] \ {s} \in SUBSET Services /\ todo \in [Cores -> SUBSET Services]
      BY DEF TypeOK
    <3> QED  BY <3>1, <3>2
  <2>4. spent' \in Spending
    BY <1>1, Spent DEF TypeOK, Spending
  <2> QED  BY <1>0, <1>3, <2>1, <2>2, <2>3, <2>4, <2>5 DEF TypeOK, Spending
<1>5. \A d \in Cores \ {c} : ~Alive(d) /\ Keeps(d)
  BY <1>0, <1>1 DEF Keeps, TypeOK
<1>6. OnDisk'
  BY <1>0, <1>3 DEF OnDisk, Sound, Covers, Honest, Kept
<1>7. Each(c)'
  <2>1. Gone(c)' /\ Mine(c)' /\ Prepared(c)' /\ Replays(c)'
    BY <1>0, <1>2, <1>3 DEF Sound, Each, Gone, Mine, Prepared, Replays, Covers, Alive, Resting,
                            Busy,
                      Replaying, Pointing, Kept, Accounts, AllBack, Blind, Recorded, Unread, Stale
  <2>2. Works(c)'
    BY <1>0, <1>2, <1>3 DEF Sound, Each, Works, Kept, Blind, Recorded
  <2> QED  BY <2>1, <2>2 DEF Each
<1> QED  BY <1>0, <1>4, <1>5, <1>6, <1>7, OneCore

\* Undone preserves the invariant.
LEMMA UndoneStep ==
  ASSUME IInv, NEW c \in Cores, Undone(c)
  PROVE  IInv'
<1> USE DEF IInv
<1> DEFINE r == Without(owned[c], at[c])
<1>0. /\ Alive(c) /\ (\A d \in Cores \ {c} : ~Alive(d)) /\ pc[c] = "undone" /\ at[c] \in Services
      /\ UNCHANGED <<servers, alias, default, back, stored, current, follow, lost>>
      /\ spent' = spent \/ Fault
      /\ owned[c].pid = c /\ owned[c] \in Records /\ file \in Records
      /\ (at[c] \in Kept => servers[at[c]] = "user") /\ current[c] = NoService /\ ~follow[c].watching
      /\ todo[c] \subseteq Recorded(owned[c])
  BY Alone DEF Alive, Busy, TypeOK, Undone, Sound, Each, Works, Kept, Blind, Recorded
<1>1. /\ owned' = [owned EXCEPT ![c] = r]
      /\ file' \in {r, file}
      /\ todo' = [todo EXCEPT ![c] = @ \ {at[c]}]
      /\ at' = [at EXCEPT ![c] = NoService]
      /\ pc' = [pc EXCEPT ![c] = "undo"]
  BY DEF Undone, Save, Own, WorksOn, Goto
<1>2. /\ r \in Records /\ r.pid = c /\ r.alias = owned[c].alias
      /\ r.services[at[c]] = "none"
      /\ \A t \in Services \ {at[c]} : r.services[t] = owned[c].services[t]
  BY <1>0, Forgotten
<1> HIDE DEF r
<1>3. /\ owned' \in [Cores -> Records] /\ owned'[c] = r /\ file' \in Records
      /\ file'.pid \in {c, file.pid}
      /\ pc'[c] = "undo" /\ todo'[c] = todo[c] \ {at[c]}
  BY <1>0, <1>1, <1>2 DEF TypeOK
<1>4. TypeOK'
  <2>1. pc' \in [Cores -> {"unborn", "dead"} \cup Resting \cup Busy]
    BY <1>1 DEF TypeOK, Busy
  <2>2. \A b, d \in Cores : pc'[b] \in Replaying /\ pc'[d] \in Replaying => b = d
    BY <1>1 DEF TypeOK, Replaying
  <2>3. /\ at' \in [Cores -> Services \cup {NoService}]
        /\ todo' \in [Cores -> SUBSET Services]
    BY <1>1 DEF TypeOK
  <2>4. spent' \in Spending
    BY <1>0, Spent DEF TypeOK, Spending
  <2> QED  BY <1>0, <1>3, <2>1, <2>2, <2>3, <2>4 DEF TypeOK, Spending
<1>5. \A d \in Cores \ {c} : ~Alive(d) /\ Keeps(d)
  BY <1>0, <1>1 DEF Keeps, TypeOK
<1>6. c # 0 /\ \A d \in Cores \ {c} : owned'[d] = owned[d]
  BY <1>1 DEF Cores, TypeOK
<1>7. OnDisk'
  BY <1>0, <1>1, <1>2, <1>3, <1>6 DEF OnDisk, Sound, Each, Mine, Covers, Honest, Kept, Accounts,
                                      AllBack, Blind, Recorded
<1>8. Each(c)'
  <2>1. Mine(c)'
    BY <1>0, <1>1, <1>2, <1>3, <1>6 DEF Sound, OnDisk, Honest, Each, Mine, Covers, Kept,
                                        Accounts, AllBack, Blind, Recorded
  <2>2. Gone(c)' /\ Prepared(c)' /\ Replays(c)'
    BY <1>0, <1>3 DEF Gone, Prepared, Replays, Alive, Resting, Busy, Replaying, Pointing, Unread,
                      Stale
  <2>3. todo'[c] \subseteq Recorded(r)
    BY <1>0, <1>2, <1>3 DEF Recorded
  <2>4. Works(c)'
    BY <1>0, <1>2, <1>3, <2>3, SystemDnsAssumption DEF Sound, Each, Works, Kept
  <2> QED  BY <2>1, <2>2, <2>4 DEF Each
<1> QED  BY <1>3, <1>4, <1>5, <1>7, <1>8, OneCore

\* UndoAlias preserves the invariant.
LEMMA UndoAliasStep ==
  ASSUME IInv, NEW c \in Cores, UndoAlias(c)
  PROVE  IInv'
<1> USE DEF IInv
<1> DEFINE r == [owned[c] EXCEPT !.alias = FALSE]
<1>0. /\ Alive(c) /\ (\A d \in Cores \ {c} : ~Alive(d)) /\ pc[c] = "undo"
      /\ UNCHANGED <<servers, file, default, back, stored, current, at, todo, follow, lost>>
      /\ owned[c].pid = c /\ owned[c] \in Records /\ current[c] = NoService
      /\ ~follow[c].watching
  BY Alone DEF Alive, Busy, TypeOK, UndoAlias, Sound, Each, Works, Kept, Blind, Recorded
<1>1. /\ owned' = [owned EXCEPT ![c] = r]
      /\ pc' = [pc EXCEPT ![c] = "close"]
      /\ AliasRemoved(owned[c].alias)
  BY DEF UndoAlias, Own, Goto
<1>2. /\ c # 0 /\ alias' \in {"none", "left", alias} /\ (spent' = spent \/ Fault)
      /\ alias' = "set" => alias = "set" /\ Blind(c)
      /\ Accounts(c)
  <2>1. c # 0 /\ Accounts(c) /\ alias \in {"none", "set", "left"}
    BY <1>0 DEF Sound, Each, Mine, Cores, TypeOK
  <2> QED  BY <1>1, <2>1 DEF AliasRemoved, Accounts
<1>3. /\ r \in Records /\ r.pid = c /\ r.services = owned[c].services
  BY <1>0, Unaliased
<1> HIDE DEF r
<1>4. /\ owned' \in [Cores -> Records] /\ owned'[c] = r /\ pc'[c] = "close"
      /\ \A d \in Cores \ {c} : owned'[d] = owned[d]
  BY <1>1, <1>3 DEF TypeOK
<1>5. TypeOK'
  <2>1. pc' \in [Cores -> {"unborn", "dead"} \cup Resting \cup Busy]
    BY <1>1 DEF TypeOK, Busy
  <2>2. \A b, d \in Cores : pc'[b] \in Replaying /\ pc'[d] \in Replaying => b = d
    BY <1>1 DEF TypeOK, Replaying
  <2>3. spent' \in Spending
    BY <1>2, Spent DEF TypeOK, Spending
  <2> QED  BY <1>0, <1>2, <1>4, <2>1, <2>2, <2>3 DEF TypeOK, Spending
<1>6. \A d \in Cores \ {c} : ~Alive(d) /\ Keeps(d)
  BY <1>0, <1>1 DEF Keeps, TypeOK
<1>9. Blind(c) => Blind(c)'
  BY <1>0, <1>3, <1>4 DEF Blind, Recorded
<1>7. OnDisk'
  BY <1>0, <1>2, <1>3, <1>4 DEF OnDisk, Sound, Covers, Honest, Kept
<1>8. Each(c)'
  <2>1. Mine(c)'
    BY <1>0, <1>2, <1>3, <1>4, <1>9 DEF Sound, Each, Mine, Covers, Kept, Accounts
  <2>2. Gone(c)' /\ Prepared(c)' /\ Replays(c)'
    BY <1>0, <1>4 DEF Gone, Prepared, Replays, Alive, Resting, Busy, Replaying, Pointing, Unread,
                      Stale
  <2>3. Works(c)'
    BY <1>0, <1>2, <1>3, <1>4, <1>9 DEF Sound, Each, Works, Kept, Recorded
  <2> QED  BY <2>1, <2>2, <2>3 DEF Each
<1> QED  BY <1>0, <1>5, <1>6, <1>7, <1>8, OneCore

\* Close preserves the invariant.
LEMMA CloseStep ==
  ASSUME IInv, NEW c \in Cores, Close(c)
  PROVE  IInv'
<1> USE DEF IInv
<1>0. /\ Alive(c) /\ (\A d \in Cores \ {c} : ~Alive(d)) /\ pc[c] = "close"
      /\ UNCHANGED <<servers, alias, default, back, stored, current, at, todo, follow, lost>>
      /\ owned[c].pid = c /\ owned[c] \in Records /\ file \in Records
      /\ current[c] = NoService /\ ~follow[c].watching
      /\ spent' = spent \/ Fault
      /\ pc' = [pc EXCEPT ![c] = "idle"] /\ pc'[c] = "idle"
  BY Alone DEF Alive, Busy, TypeOK, Close, Goto, Sound, Each, Works, Kept, Blind, Recorded
<1>1. /\ c # 0 /\ Honest(owned[c]) /\ Covers(file) /\ Honest(file)
      /\ (Covers(owned[c]) /\ alias # "set") \/ Blind(c)
  <2>1. c # 0 /\ Accounts(c) /\ (alias # "set" \/ Blind(c))
    BY <1>0 DEF Sound, Each, Mine, Works, Cores
  <2> QED  BY <2>1 DEF Sound, OnDisk, Accounts
<1>2. \/ owned' = owned /\ file' \in {owned[c], file} /\ Recorded(owned[c]) # {}
      \/ /\ owned' = [owned EXCEPT ![c] = Blank] /\ Recorded(owned[c]) = {}
         /\ file' = file \/ (file' = Blank /\ file.pid = c)
  BY DEF Close, Own
<1>3. Recorded(owned[c]) = {} => Blind(c) \/ (AllBack /\ Covers(Blank))
  BY <1>1 DEF Covers, Recorded, Kept, AllBack
<1>4. /\ owned' \in [Cores -> Records] /\ owned'[c] \in {owned[c], Blank}
      /\ file' \in {owned[c], file, Blank} /\ file' \in Records
      /\ \A d \in Cores \ {c} : owned'[d] = owned[d]
  <2>1. CASE owned' = owned /\ file' \in {owned[c], file}
    BY <2>1, <1>0 DEF TypeOK
  <2>2. CASE owned' = [owned EXCEPT ![c] = Blank] /\ file' \in {Blank, file}
    BY <2>2, <1>0, BlankRecord DEF TypeOK
  <2> QED  BY <1>2, <2>1, <2>2
<1>5. /\ Blank.pid = 0 /\ Honest(Blank)
      /\ \A s \in Services : Blank.services[s] = "none"
  BY DEF Blank, Honest, Kept
<1>6. TypeOK'
  <2>1. pc' \in [Cores -> {"unborn", "dead"} \cup Resting \cup Busy]
    BY <1>0 DEF TypeOK, Resting
  <2>2. \A b, d \in Cores : pc'[b] \in Replaying /\ pc'[d] \in Replaying => b = d
    BY <1>0 DEF TypeOK, Replaying
  <2>3. spent' \in Spending
    BY <1>0, Spent DEF TypeOK, Spending
  <2> QED  BY <1>0, <1>4, <2>1, <2>2, <2>3 DEF TypeOK, Spending
<1>7. \A d \in Cores \ {c} : ~Alive(d) /\ Keeps(d)
  BY <1>0, <1>4 DEF Keeps, TypeOK
<1>8. OnDisk'
  <2>1. \A d \in Cores : Honest(owned[d])'
    BY <1>0, <1>1, <1>4, <1>5 DEF Sound, OnDisk, Honest, Kept
  <2>2. Covers(file)' /\ Honest(file)'
    <3>1. CASE file' = file
      BY <1>0, <1>1, <3>1 DEF Covers, Honest, Kept
    <3>2. CASE file' = owned[c] /\ Recorded(owned[c]) # {}
      BY <1>0, <1>1, <3>2 DEF Covers, Honest, Kept, Blind
    <3>3. CASE file' = Blank /\ file.pid = c /\ Recorded(owned[c]) = {}
      BY <1>0, <1>3, <1>5, <3>3 DEF Covers, Honest, Kept, Blind
    <3> QED  BY <1>2, <3>1, <3>2, <3>3
  <2>3. file'.pid = 0 => file' = Blank
    BY <1>0, <1>1, <1>4 DEF Sound, OnDisk
  <2>4. alias' = "set" => file'.alias
    BY <1>0, <1>1, <1>2 DEF Sound, OnDisk, Blind
  <2> QED  BY <2>1, <2>2, <2>3, <2>4 DEF OnDisk
<1>9. Each(c)'
  <2>1. Mine(c)'
    <3>1. CASE owned' = owned /\ file' \in {owned[c], file} /\ Recorded(owned[c]) # {}
      BY <3>1, <1>0, <1>1 DEF Sound, Each, Mine, Covers, Honest, Kept, Accounts, Blind
    <3>2. CASE /\ owned' = [owned EXCEPT ![c] = Blank] /\ Recorded(owned[c]) = {}
               /\ file' = file \/ (file' = Blank /\ file.pid = c)
      <4>1. owned'[c] = Blank
        BY <3>2 DEF TypeOK
      <4>2. file'.pid = c => AllBack'
        BY <3>2, <1>0, <1>1, <1>3, <1>5 DEF AllBack, Blind, Kept
      <4> QED  BY <4>1, <4>2, <1>5 DEF Mine, Kept
    <3> QED  BY <1>2, <3>1, <3>2
  <2>2. Gone(c)' /\ Prepared(c)' /\ Replays(c)'
    BY <1>0 DEF Gone, Prepared, Replays, Alive, Resting, Busy, Replaying, Pointing, Unread, Stale
  <2>3. Works(c)'
    BY <1>0, SystemDnsAssumption DEF Sound, Each, Works, Kept
  <2> QED  BY <2>1, <2>2, <2>3 DEF Each
<1> QED  BY <1>0, <1>4, <1>5, <1>6, <1>7, <1>8, <1>9, OneCore

\* Die preserves the invariant.
LEMMA DieStep ==
  ASSUME IInv, NEW c \in Cores, Die(c)
  PROVE  IInv'
<1> USE DEF IInv
<1>0. /\ Alive(c) /\ (\A d \in Cores \ {c} : ~Alive(d))
      /\ UNCHANGED <<servers, alias, file, default, spent, lost>>
      /\ pc' = [pc EXCEPT ![c] = "dead"]
      /\ back' = [back EXCEPT ![c] = [ok |-> "idle", err |-> "idle"]]
      /\ owned' = [owned EXCEPT ![c] = Blank]
      /\ stored' = [stored EXCEPT ![c] = Blank]
      /\ current' = [current EXCEPT ![c] = NoService]
      /\ at' = [at EXCEPT ![c] = NoService]
      /\ todo' = [todo EXCEPT ![c] = {}]
      /\ follow' = [follow EXCEPT ![c] = Unwatched]
  BY Alone DEF Die, Goto, Own, WorksOn
<1>1. TypeOK'
  <2>1. pc' \in [Cores -> {"unborn", "dead"} \cup Resting \cup Busy]
    BY <1>0 DEF TypeOK
  <2>2. \A b, d \in Cores : pc'[b] \in Replaying /\ pc'[d] \in Replaying => b = d
    BY <1>0 DEF TypeOK, Replaying
  <2>3. /\ current' \in [Cores -> Services \cup {NoService}]
        /\ at' \in [Cores -> Services \cup {NoService}]
        /\ todo' \in [Cores -> SUBSET Services]
    BY <1>0 DEF TypeOK
  <2>4. owned' \in [Cores -> Records] /\ stored' \in [Cores -> Records]
    BY <1>0, BlankRecord DEF TypeOK
  <2>5. back' \in [Cores -> [ok : Resting \cup {"decide"}, err : Resting]]
    BY <1>0 DEF TypeOK, Resting
  <2>6. follow' \in [Cores -> [gen : Nat, watching : BOOLEAN, runs : SUBSET Nat]]
    BY <1>0 DEF TypeOK, Unwatched
  <2> QED  BY <1>0, <2>1, <2>2, <2>3, <2>4, <2>5, <2>6 DEF TypeOK
<1>2. /\ pc'[c] = "dead" /\ owned'[c] = Blank /\ current'[c] = NoService
      /\ follow'[c] = Unwatched /\ todo'[c] = {}
  BY <1>0 DEF TypeOK
<1>3. \A d \in Cores \ {c} : ~Alive(d) /\ Keeps(d)
  BY <1>0 DEF Keeps, TypeOK
<1>4. OnDisk'
  <2>1. \A d \in Cores : Honest(owned[d])'
    BY <1>0 DEF Sound, OnDisk, Honest, Blank, TypeOK, Kept
  <2> QED  BY <1>0, <2>1 DEF OnDisk, Sound, Covers, Honest, Kept
<1>5. Each(c)'
  BY <1>2, SystemDnsAssumption DEF Each, Gone, Mine, Prepared, Replays, Works, Alive, Resting,
                                   Busy, Replaying,
              Pointing, Unwatched, Kept, Accounts, AllBack, Blind, Recorded, Unread, Stale
<1> QED  BY <1>0, <1>1, <1>3, <1>4, <1>5, OneCore

-----------------------------------------------------------------------------
(* Cleanliness: while nothing has failed, a core that rests leaves nothing. *)

\* The labels of a call that follows the default service.
Following == {"follow", "point", "set", "restore", "forget"}

\* The labels of Release.
Releasing == {"undo", "undone", "close"}

\* What the loops have left is all that is still recorded, an idle core has no record,
\* and a call that follows came from Apply.
Tidy(c) ==
  /\ pc[c] # "failed"
  /\ pc[c] = "idle" => file = Blank /\ owned[c] = Blank
  /\ pc[c] \in {"load"} \cup Replaying /\ back[c].ok = "idle" => owned[c] = Blank
  /\ pc[c] = "load" /\ back[c].ok = "idle" => file.pid # c
  /\ pc[c] = "decide" => ~Unread(c)
  /\ pc[c] = "replay" => Recorded(stored[c]) \subseteq todo[c]
  /\ pc[c] \in {"unalias", "rewrite"} => Recorded(stored[c]) = {}
  /\ pc[c] \in Following => back[c].ok \in {"prepared", "applied"}
  /\ pc[c] \in {"undo", "undone"} => Recorded(owned[c]) \subseteq todo[c]
  /\ pc[c] = "close" => Recorded(owned[c]) = {}
  /\ pc[c] \in Releasing => file.pid = c

\* The inductive invariant for cleanliness.
CInv == spent.faults = 0 => alias # "left" /\ lost = {} /\ \A c \in Cores : Tidy(c)

\* Nothing fails in a step after which nothing has failed.
LEMMA NothingFailed ==
  ASSUME IInv, NEW c \in Cores, Boot(c) \/ Goes(c) \/ Asked(c) \/ Follow(c) \/ Die(c),
         spent'.faults = 0
  PROVE  spent.faults = 0 /\ ~Fault
<1>1. spent \in Spending
  BY DEF IInv, TypeOK, Spending
<1>2. ~Fault
  BY <1>1, SystemDnsAssumption DEF Fault, Spending
<1>3. spent' = spent \/ spent' = [spent EXCEPT !.starts = @ + 1]
  BY <1>2 DEF Goes, Asked, Boot, Load, Replay, Replayed, Unalias, AliasRemoved, Rewrite, Decide,
              AddAlias,
     FollowDefault, FollowFails, Point, SetDNS, RestorePrevious, ForgetPrevious, Undo, Undone,
     UndoAlias, Close, Prepare, Apply, Release, Follow, Die
<1> QED
  BY <1>1, <1>2, <1>3 DEF Spending

\* It is enough to look at the core that takes the step.
LEMMA StaysTidy ==
  ASSUME NEW c \in Cores, \A d \in Cores \ {c} : ~Alive(d) /\ pc'[d] = pc[d],
         alias' # "left", lost' = {}, Tidy(c)'
  PROVE  CInv'
<1>1. ASSUME NEW d \in Cores \ {c} PROVE Tidy(d)'
  BY DEF Tidy, Alive, Resting, Busy, Replaying, Following, Releasing
<1> QED
  BY <1>1 DEF CInv

\* A core starts, and repairs what the one before left.
LEMMA BootTidy ==
  ASSUME ~Overlap, IInv, IInv', CInv, spent.faults = 0, ~Fault, NEW c \in Cores,
         Boot(c) \/ Load(c) \/ Replay(c) \/ Replayed(c) \/ Unalias(c) \/ Rewrite(c)
  PROVE  CInv'
<1>0. lost' = {}
  BY DEF CInv, Boot, Load, Replay, Replayed, Unalias, Rewrite
<1>1. /\ TypeOK /\ Solo /\ OnDisk /\ Each(c) /\ Tidy(c) /\ alias # "left"
      /\ file \in Records /\ stored[c] \in Records
  BY DEF IInv, Sound, CInv, TypeOK
<1>2. CASE Boot(c)
  <2>1. /\ pc'[c] = "load" /\ alias' = alias /\ owned' = owned
        /\ \A d \in Cores \ {c} : ~Alive(d) /\ pc'[d] = pc[d]
    BY <1>1, <1>2 DEF Boot, Goto, TypeOK
  <2>2. owned[c] = Blank /\ file'.pid # c
    BY <1>1, <1>2 DEF Each, Gone, Boot, Alive, Resting, Busy, Replaying
  <2>3. Tidy(c)'
    BY <2>1, <2>2 DEF Tidy, Replaying, Following, Releasing
  <2> QED
    BY <1>1, <2>1, <2>3, <1>0, StaysTidy
<1>3. ASSUME ~Boot(c)
      PROVE  Alive(c) /\ \A d \in Cores \ {c} : ~Alive(d) /\ pc'[d] = pc[d]
  <2>1. Alive(c)
    BY <1>3 DEF Load, Replay, Replayed, Unalias, Rewrite, Alive, Busy, Replaying
  <2>2. \A d \in Cores \ {c} : pc'[d] = pc[d]
    BY <1>1, <1>3 DEF Load, Replay, Replayed, Unalias, Rewrite, Goto, TypeOK
  <2> QED
    BY <2>1, <2>2, Alone DEF IInv
<1>4. CASE Load(c)
  <2>1. /\ pc'[c] = IF Stale(c) THEN "replay" ELSE back[c].ok
        /\ stored'[c] = IF Stale(c) THEN file ELSE Blank
        /\ todo'[c] = IF Stale(c) THEN Recorded(file) ELSE {}
        /\ UNCHANGED <<alias, owned, back, file>> /\ pc[c] = "load"
        /\ back[c].ok \in {"idle", "decide"}
    BY <1>1, <1>4 DEF Load, Goto, TypeOK, Each, Replays
  <2>2. Alive(c) /\ \A d \in Cores \ {c} : ~Alive(d) /\ pc'[d] = pc[d]
    BY <1>3, <1>4 DEF Load, Boot
  <2>3. CASE Stale(c)
    <3>1. Tidy(c)'
      BY <1>1, <2>1, <2>3 DEF Tidy, Replaying, Following, Releasing, Recorded
    <3> QED
      BY <1>1, <2>1, <2>2, <3>1, <1>0, StaysTidy
  <2>4. CASE ~Stale(c)
    <3>1. ASSUME back[c].ok = "idle" PROVE file = Blank /\ owned[c] = Blank
      <4>1. owned[c] = Blank
        BY <1>1, <2>1, <3>1 DEF Tidy
      <4>2. file.pid # c
        BY <1>1, <2>1, <3>1 DEF Tidy
      <4>3. file.pid \in Cores => ~Alive(file.pid)
        BY <2>2, <4>2
      <4>4. file.pid = 0
        BY <1>1, <2>4, <4>2, <4>3 DEF Stale, Records, Cores
      <4> QED
        BY <1>1, <4>1, <4>4 DEF OnDisk
    <3>2. ~Unread(c)'
      <4>1. ASSUME file.pid # 0, file.pid # c PROVE Alive(file.pid)'
        <5>1. file.pid \in Cores /\ Alive(file.pid)
          BY <1>1, <2>4, <4>1 DEF Stale, Records, Cores
        <5> QED  BY <2>2, <5>1, <4>1 DEF Alive
      <4> QED  BY <2>1, <4>1 DEF Unread, Stale
    <3>3. Tidy(c)'
      BY <2>1, <2>4, <3>1, <3>2 DEF Tidy, Replaying, Following, Releasing
    <3> QED
      BY <1>1, <2>1, <2>2, <3>3, <1>0, StaysTidy
  <2> QED
    BY <2>3, <2>4
<1>5. CASE Replay(c)
  <2>1. /\ pc[c] = "replay" /\ UNCHANGED <<pc, alias, file, owned, back>>
        /\ \A d \in Cores \ {c} : ~Alive(d) /\ pc'[d] = pc[d]
    BY <1>3, <1>5 DEF Replay, Boot
  <2>2. PICK s \in todo[c] : /\ todo' = [todo EXCEPT ![c] = @ \ {s}]
                             /\ stored' = [stored EXCEPT ![c] = Without(stored[c], s)]
    BY <1>5 DEF Replay
  <2>3. todo'[c] = todo[c] \ {s} /\ stored'[c] = Without(stored[c], s) /\ s \in Services
    BY <1>1, <2>2 DEF TypeOK
  <2>4. Recorded(Without(stored[c], s)) \subseteq Recorded(stored[c]) \ {s}
    BY <1>1, <2>3, Forgotten DEF Recorded
  <2>5. Recorded(stored'[c]) \subseteq todo'[c]
    BY <1>1, <2>1, <2>3, <2>4 DEF Tidy
  <2>6. Tidy(c)'
    BY <1>1, <2>1, <2>5 DEF Tidy, Replaying, Following, Releasing, Recorded
  <2> QED
    BY <1>1, <2>1, <2>6, <1>0, StaysTidy
<1>6. CASE Replayed(c)
  <2>1. /\ pc[c] = "replay" /\ pc'[c] = "unalias" /\ todo[c] = {}
        /\ UNCHANGED <<alias, file, owned, stored, back, lost>>
        /\ \A d \in Cores \ {c} : ~Alive(d) /\ pc'[d] = pc[d]
    BY <1>1, <1>3, <1>6 DEF Replayed, Boot, Goto, TypeOK
  <2>2. Tidy(c)'
    BY <1>1, <2>1 DEF Tidy, Replaying, Following, Releasing, Recorded
  <2> QED
    BY <1>1, <2>1, <2>2, <1>0, StaysTidy
<1>7. CASE Unalias(c)
  <2>1. /\ pc[c] = "unalias" /\ pc'[c] = "rewrite" /\ alias' \in {"none", alias}
        /\ UNCHANGED <<file, owned, back>>
        /\ stored'[c] = [stored[c] EXCEPT !.alias = FALSE]
        /\ \A d \in Cores \ {c} : ~Alive(d) /\ pc'[d] = pc[d]
    BY <1>1, <1>3, <1>7 DEF Unalias, Boot, Goto, TypeOK, AliasRemoved
  <2>2. Recorded(stored'[c]) = Recorded(stored[c])
    BY <1>1, <2>1, Unaliased DEF Recorded
  <2>3. Tidy(c)'
    BY <1>1, <2>1, <2>2 DEF Tidy, Replaying, Following, Releasing, Recorded
  <2> QED
    BY <1>1, <2>1, <2>3, <1>0, StaysTidy
<1>8. CASE Rewrite(c)
  <2>1. /\ pc[c] = "rewrite" /\ pc'[c] = back[c].ok /\ UNCHANGED <<alias, owned, back>>
        /\ file' = (IF Recorded(stored[c]) = {} THEN Blank ELSE stored[c])
        /\ back[c].ok \in {"idle", "decide"}
        /\ \A d \in Cores \ {c} : ~Alive(d) /\ pc'[d] = pc[d]
    BY <1>1, <1>3, <1>8 DEF Rewrite, Boot, Goto, TypeOK, Each, Replays, Replaying, Unread, Stale
  <2>2. file' = Blank /\ ~Unread(c)'
    BY <1>1, <2>1 DEF Tidy, Unread, Stale, Blank
  <2>3. Tidy(c)'
    BY <1>1, <2>1, <2>2 DEF Tidy, Replaying, Following, Releasing
  <2> QED
    BY <1>1, <2>1, <2>3, <1>0, StaysTidy
<1> QED
  BY <1>2, <1>4, <1>5, <1>6, <1>7, <1>8

\* Prepare, Apply and the goroutines that follow the default interface.
LEMMA FollowTidy ==
  ASSUME IInv, IInv', CInv, spent.faults = 0, ~Fault, NEW c \in Cores,
         \/ Prepare(c) \/ Decide(c) \/ AddAlias(c) \/ Apply(c) \/ Follow(c)
         \/ FollowDefault(c) \/ Point(c) \/ SetDNS(c) \/ RestorePrevious(c) \/ ForgetPrevious(c)
  PROVE  CInv'
<1>0. lost' = {}
  <2>1. CASE Decide(c)
    BY <2>1 DEF CInv, Tidy, Decide
  <2>2. CASE ~Decide(c)
    BY <2>2 DEF CInv, Prepare, AddAlias, Apply, Follow, FollowDefault, Point, SetDNS,
                RestorePrevious,
         ForgetPrevious
  <2> QED
    BY <2>1, <2>2
<1>1. /\ TypeOK /\ Solo /\ OnDisk /\ Each(c) /\ Tidy(c) /\ alias # "left"
  BY DEF IInv, Sound, CInv
<1>2. /\ \A d \in Cores \ {c} : ~Alive(d) /\ pc'[d] = pc[d]
  <2>1. Alive(c)
    BY DEF Prepare, Decide, AddAlias, Apply, Follow, FollowDefault, Point, SetDNS,
           RestorePrevious,
           ForgetPrevious, Alive, Busy, Resting
  <2>2. \A d \in Cores \ {c} : pc'[d] = pc[d]
    BY <1>1 DEF Prepare, Decide, AddAlias, Apply, Follow, FollowDefault, Point, SetDNS,
                RestorePrevious, ForgetPrevious, Followed, Goto, TypeOK
  <2> QED
    BY <2>1, <2>2, Alone DEF IInv
<1>3. CASE Prepare(c)
  <2>1. pc'[c] = "load" /\ back'[c].ok = "decide" /\ alias' = alias
    BY <1>1, <1>3 DEF Prepare, Goto, TypeOK
  <2>2. Tidy(c)'
    BY <2>1 DEF Tidy, Replaying, Following, Releasing
  <2> QED
    BY <1>1, <1>2, <2>1, <2>2, <1>0, StaysTidy
<1>4. CASE Decide(c) \/ AddAlias(c)
  <2>1. pc'[c] \in {"alias", "prepared"} /\ alias' \in {alias, "set"}
    <3>1. CASE Decide(c)
      BY <1>1, <3>1 DEF Decide, Tidy, Goto, TypeOK
    <3>2. CASE AddAlias(c)
      BY <1>1, <3>2 DEF AddAlias, AliasAdded, Goto, TypeOK
    <3> QED
      BY <1>4, <3>1, <3>2
  <2>2. Tidy(c)'
    BY <2>1 DEF Tidy, Replaying, Following, Releasing
  <2> QED
    BY <1>1, <1>2, <2>1, <2>2, <1>0, StaysTidy
<1>5. CASE Apply(c)
  <2>1. pc'[c] = "follow" /\ back'[c].ok = "applied" /\ alias' = alias
    BY <1>1, <1>5 DEF Apply, Goto, TypeOK
  <2>2. Tidy(c)'
    BY <2>1 DEF Tidy, Replaying, Following, Releasing
  <2> QED
    BY <1>1, <1>2, <2>1, <2>2, <1>0, StaysTidy
<1>6. CASE Follow(c)
  <2>1. PICK gen \in follow[c].runs : Goto(c, IF gen = follow[c].gen THEN "follow" ELSE pc[c])
    BY <1>6 DEF Follow
  <2>2. /\ pc[c] \in Resting /\ pc'[c] = (IF gen = follow[c].gen THEN "follow" ELSE pc[c])
        /\ back'[c].ok = pc[c] /\ UNCHANGED <<alias, file, owned>>
    BY <1>1, <1>6, <2>1 DEF Follow, Goto, TypeOK
  <2>3. ASSUME gen = follow[c].gen PROVE pc[c] # "idle"
    <3>1. follow[c].watching
      BY <1>1, <2>1, <2>3 DEF Each, Works, Kept, Blind, Recorded
    <3>2. file.pid = c /\ c # 0
      BY <1>1, <2>2, <3>1 DEF Each, Prepared, Alive, Cores
    <3> QED
      BY <1>1, <3>2 DEF Tidy, Blank
  <2>4. Tidy(c)'
    <3>1. CASE gen = follow[c].gen
      BY <1>1, <2>2, <2>3, <3>1 DEF Tidy, Replaying, Following, Releasing, Resting
    <3>2. CASE gen # follow[c].gen
      BY <1>1, <2>2, <3>2 DEF Tidy, Replaying, Following, Releasing, Resting
    <3> QED
      BY <3>1, <3>2
  <2> QED
    BY <1>1, <1>2, <2>2, <2>4, <1>0, StaysTidy
<1>7. CASE FollowDefault(c) \/ Point(c) \/ SetDNS(c) \/ RestorePrevious(c) \/ ForgetPrevious(c)
  <2>1. /\ pc[c] \in Following /\ pc'[c] \in {"point", "set", "restore", "forget", back[c].ok}
        /\ UNCHANGED <<alias, back>>
    BY <1>1, <1>7 DEF FollowDefault, Point, SetDNS, RestorePrevious, ForgetPrevious, Followed,
                      Goto,
                      TypeOK, Following
  <2>2. Tidy(c)'
    BY <1>1, <2>1 DEF Tidy, Replaying, Following, Releasing
  <2> QED
    BY <1>1, <1>2, <2>1, <2>2, <1>0, StaysTidy
<1> QED
  BY <1>3, <1>4, <1>5, <1>6, <1>7

\* Release, and the end of a core.
LEMMA ReleaseTidy ==
  ASSUME IInv, IInv', CInv, spent.faults = 0, ~Fault, NEW c \in Cores,
         Release(c) \/ Undo(c) \/ Undone(c) \/ UndoAlias(c) \/ Close(c) \/ Die(c)
  PROVE  CInv'
<1>0. lost' = {}
  BY DEF CInv, Release, Undo, Undone, UndoAlias, Close, Die
<1>1. /\ TypeOK /\ Solo /\ OnDisk /\ Each(c) /\ Tidy(c) /\ alias # "left"
      /\ owned[c] \in Records
  BY DEF IInv, Sound, CInv, TypeOK
<1>2. Alive(c) /\ \A d \in Cores \ {c} : ~Alive(d) /\ pc'[d] = pc[d]
  <2>1. Alive(c)
    BY DEF Release, Undo, Undone, UndoAlias, Close, Die, Alive, Busy, Resting
  <2>2. \A d \in Cores \ {c} : pc'[d] = pc[d]
    BY <1>1 DEF Release, Undo, Undone, UndoAlias, Close, Die, Goto, TypeOK
  <2> QED
    BY <2>1, <2>2, Alone DEF IInv
<1>3. CASE Release(c)
  <2>1. /\ pc[c] \in Resting /\ pc'[c] = (IF owned[c].pid = 0 THEN "idle" ELSE "undo")
        /\ todo'[c] = Recorded(owned[c]) /\ UNCHANGED <<alias, file, owned>>
        /\ owned[c].pid # 0 \/ follow[c].watching
    BY <1>1, <1>3 DEF Release, Goto, TypeOK
  <2>2. c # 0 /\ owned[c].pid # 0
    BY <1>1, <1>2, <2>1 DEF Each, Prepared, Cores
  <2>3. pc[c] \in {"prepared", "applied"}
    BY <1>1, <2>1, <2>2 DEF Tidy, Resting, Blank
  <2>4. file.pid = c
    BY <1>1, <2>3 DEF Each, Prepared, Pointing
  <2>5. Tidy(c)'
    BY <2>1, <2>2, <2>4 DEF Tidy, Replaying, Following, Releasing, Recorded
  <2> QED
    BY <1>1, <1>2, <2>1, <2>5, <1>0, StaysTidy
<1>4. CASE Undo(c)
  <2>1. /\ pc[c] = "undo" /\ pc'[c] = "undone" /\ UNCHANGED <<alias, file, owned, todo>>
    BY <1>1, <1>4 DEF Undo, Goto, TypeOK
  <2>2. Tidy(c)'
    BY <1>1, <2>1 DEF Tidy, Replaying, Following, Releasing, Recorded
  <2> QED
    BY <1>1, <1>2, <2>1, <2>2, <1>0, StaysTidy
<1>5. CASE Undone(c)
  <2>1. /\ pc[c] = "undone" /\ pc'[c] = "undo" /\ alias' = alias
        /\ todo'[c] = todo[c] \ {at[c]} /\ owned'[c] = Without(owned[c], at[c])
        /\ file' = Without(owned[c], at[c]) /\ at[c] \in Services /\ owned[c].pid = c
    BY <1>1, <1>5 DEF Undone, Save, Own, Goto, TypeOK, Each, Works, Kept, Blind, Recorded
  <2>2. /\ Recorded(Without(owned[c], at[c])) \subseteq Recorded(owned[c]) \ {at[c]}
        /\ Without(owned[c], at[c]).pid = c
    BY <1>1, <2>1, Forgotten DEF Recorded
  <2>3. Recorded(owned'[c]) \subseteq todo'[c] /\ file'.pid = c
    BY <1>1, <2>1, <2>2 DEF Tidy
  <2>4. Tidy(c)'
    BY <2>1, <2>3 DEF Tidy, Replaying, Following, Releasing, Recorded
  <2> QED
    BY <1>1, <1>2, <2>1, <2>4, <1>0, StaysTidy
<1>6. CASE UndoAlias(c)
  <2>1. /\ pc[c] = "undo" /\ pc'[c] = "close" /\ alias' \in {"none", alias} /\ todo[c] = {}
        /\ file' = file /\ owned'[c] = [owned[c] EXCEPT !.alias = FALSE]
    BY <1>1, <1>6 DEF UndoAlias, AliasRemoved, Own, Goto, TypeOK
  <2>2. Recorded(owned'[c]) = Recorded(owned[c])
    BY <1>1, <2>1, Unaliased DEF Recorded
  <2>3. Tidy(c)'
    BY <1>1, <2>1, <2>2 DEF Tidy, Replaying, Following, Releasing, Recorded
  <2> QED
    BY <1>1, <1>2, <2>1, <2>3, <1>0, StaysTidy
<1>7. CASE Close(c)
  <2>1. pc[c] = "close" /\ Recorded(owned[c]) = {} /\ file.pid = c
    BY <1>1, <1>7 DEF Close, Tidy, Releasing
  <2>2. pc'[c] = "idle" /\ alias' = alias /\ file' = Blank /\ owned'[c] = Blank
    BY <1>1, <1>7, <2>1 DEF Close, Goto, Own, TypeOK
  <2>3. Tidy(c)'
    BY <2>2 DEF Tidy, Replaying, Following, Releasing
  <2> QED
    BY <1>1, <1>2, <2>2, <2>3, <1>0, StaysTidy
<1>8. CASE Die(c)
  <2>1. pc'[c] = "dead" /\ alias' = alias
    BY <1>1, <1>8 DEF Die, Goto, TypeOK
  <2>2. Tidy(c)'
    BY <2>1 DEF Tidy, Replaying, Following, Releasing
  <2> QED
    BY <1>1, <1>2, <2>1, <2>2, <1>0, StaysTidy
<1> QED
  BY <1>3, <1>4, <1>5, <1>6, <1>7, <1>8

\* Every step, while nothing has failed.
LEMMA NextTidy ==
  ASSUME ~Overlap, IInv, IInv', CInv, [Next]_vars
  PROVE  CInv'
<1> SUFFICES ASSUME spent'.faults = 0 PROVE CInv'
  BY DEF CInv
<1>1. ASSUME NEW c \in Cores, Boot(c) \/ Goes(c) \/ Asked(c) \/ Follow(c) \/ Die(c)
      PROVE  CInv'
  <2>1. spent.faults = 0 /\ ~Fault
    BY <1>1, NothingFailed
  <2>2. ~FollowFails(c)
    BY <2>1 DEF FollowFails
  <2> QED
    BY <1>1, <2>1, <2>2, BootTidy, FollowTidy, ReleaseTidy DEF Goes, Asked
<1>2. ASSUME NEW s \in Services \cup {NoService}, Move(s)
      PROVE  CInv'
  <2>1. spent.faults = 0
    BY <1>2 DEF Move, IInv, TypeOK
  <2>2. UNCHANGED <<alias, file, pc, back, owned, stored, todo, lost>>
    BY <1>2 DEF Move
  <2>3. ASSUME NEW c \in Cores PROVE Tidy(c)'
    BY <2>1, <2>2 DEF CInv, Tidy, Recorded, Unread, Stale, Alive
  <2> QED
    BY <2>1, <2>2, <2>3 DEF CInv
<1>3. CASE UNCHANGED vars
  <2>1. UNCHANGED <<alias, file, pc, back, owned, stored, todo, spent, lost>>
    BY <1>3 DEF vars
  <2>2. ASSUME NEW c \in Cores PROVE Tidy(c)'
    BY <2>1 DEF CInv, Tidy, Recorded, Unread, Stale, Alive
  <2> QED
    BY <2>1, <2>2 DEF CInv
<1> QED
  BY <1>1, <1>2, <1>3 DEF Next

-----------------------------------------------------------------------------
(* The theorems.                                                           *)

\* The first state: no core, and the user's servers in place.
LEMMA Initially == Init => IInv
<1> SUFFICES ASSUME Init PROVE IInv
  OBVIOUS
<1> USE DEF Init
<1>1. TypeOK
  <2>1. spent \in Spending
    BY SystemDnsAssumption DEF Spending
  <2>2. owned \in [Cores -> Records] /\ stored \in [Cores -> Records] /\ file \in Records
    BY BlankRecord
  <2>3. follow \in [Cores -> [gen : Nat, watching : BOOLEAN, runs : SUBSET Nat]]
    BY DEF Unwatched
  <2>4. back \in [Cores -> [ok : Resting \cup {"decide"}, err : Resting]]
    BY DEF Resting
  <2> QED  BY <2>1, <2>2, <2>3, <2>4 DEF TypeOK, Spending, Replaying
<1>2. Solo /\ OnDisk
  BY DEF Solo, OnDisk, Alive, Resting, Busy, Replaying, Covers, Honest, Blank, Kept
<1>3. \A c \in Cores : Each(c)
  BY SystemDnsAssumption DEF Each, Gone, Mine, Prepared, Replays, Works, Alive, Resting, Busy,
                             Replaying,
         Pointing, Unwatched, Blank, Cores, Kept, Accounts, AllBack, Blind, Recorded, Unread,
         Stale
<1> QED  BY <1>1, <1>2, <1>3 DEF IInv, Sound

\* A step that changes nothing.
LEMMA Stutters == IInv /\ UNCHANGED vars => IInv'
<1> SUFFICES ASSUME IInv, UNCHANGED vars PROVE IInv'
  OBVIOUS
<1>1. TypeOK'
  BY DEF IInv, vars, TypeOK
<1>2. Solo' /\ OnDisk'
  BY DEF IInv, vars, Sound, Solo, OnDisk, Alive, Covers, Honest, Kept
<1>3. ASSUME NEW c \in Cores PROVE Each(c)'
  BY DEF IInv, vars, Sound, Each, Gone, Mine, Prepared, Replays, Works, Alive, Covers, Honest,
         Kept, Accounts, AllBack, Blind, Recorded, Unread, Stale
<1> QED  BY <1>1, <1>2, <1>3 DEF IInv, Sound

\* Every step preserves the invariant.
LEMMA Preserved ==
  ASSUME ~Overlap, IInv, [Next]_vars
  PROVE  IInv'
<1>1. CASE UNCHANGED vars
  BY <1>1, Stutters
<1>2. ASSUME NEW c \in Cores, Boot(c) \/ Goes(c) \/ Asked(c) \/ Follow(c) \/ Die(c)
      PROVE  IInv'
  BY <1>2, BootStep, LoadStep, ReplayStep, ReplayedStep, UnaliasStep, RewriteStep, PrepareStep,
     DecideStep, AddAliasStep, ApplyStep, FollowStep, FollowDefaultStep, FollowFailsStep,
     PointStep, SetDNSStep, RestorePreviousStep, ForgetPreviousStep, ReleaseStep, UndoStep,
     UndoneStep, UndoAliasStep, CloseStep, DieStep DEF Goes, Asked
<1>3. ASSUME NEW s \in Services \cup {NoService}, Move(s) PROVE IInv'
  BY <1>3, MoveStep
<1> QED  BY <1>1, <1>2, <1>3 DEF Next

\* The invariant holds in every state, if cores do not overlap.
THEOREM Invariant ==
  ASSUME ~Overlap
  PROVE  Spec => []IInv
<1>1. Init => IInv
  BY Initially
<1>2. IInv /\ [Next]_vars => IInv'
  BY Preserved
<1> QED  BY <1>1, <1>2, PTL DEF Spec

\* Whatever step a core dies at and whatever fails, every service still has the user's
\* servers or is in the file with them, but for one whose record a Prepare wrote over
\* because it could not read it; and the alias is never there without a record of it,
\* unless its removal failed or its record went the same way.
THEOREM NeverLost ==
  ASSUME ~Overlap
  PROVE  Spec => []OnRecord
<1>1. IInv => Recoverable
  BY DEF IInv, Sound, OnDisk, Covers, Recoverable, Kept
<1>2. IInv => AliasRecorded
  BY DEF IInv, Sound, OnDisk, AliasRecorded
<1> QED  BY <1>1, <1>2, Invariant, PTL DEF OnRecord

\* A step that points a service at the core is SetDNS, and the core watches then:
\* no goroutine of the callback does so after Release.
LEMMA NoLateStep ==
  ASSUME IInv, [Next]_vars, NEW s \in Services, servers'[s] = "core", servers[s] # "core"
  PROVE  \E c \in Cores : follow[c].watching /\ Alive(c)
<1>1. servers' # servers
  OBVIOUS
<1>2. PICK c \in Cores : Replay(c) \/ SetDNS(c) \/ RestorePrevious(c) \/ Undo(c)
  BY <1>1 DEF Next, Goes, Asked, vars, Boot, Load, Replayed, Unalias, Rewrite, Decide, AddAlias,
     FollowDefault, FollowFails, Point, ForgetPrevious, Undone, UndoAlias, Close, Prepare, Apply,
     Release, Follow, Die, Move
<1>3. ASSUME NEW t \in Services, NEW v \in Previous, Put(t, v) PROVE FALSE
  BY <1>3 DEF Put, IInv, TypeOK, Previous
<1>4. CASE SetDNS(c)
  BY <1>4 DEF SetDNS, IInv, Sound, Each, Works, Alive, Busy, Kept, Blind, Recorded
<1>5. CASE Replay(c)
  <2>1. PICK t \in todo[c] : Put(t, stored[c].services[t])
    BY <1>1, <1>5 DEF Replay
  <2>2. t \in Services /\ stored[c].services[t] \in Previous
    BY <2>1 DEF IInv, TypeOK, Records
  <2> QED  BY <1>3, <2>1, <2>2
<1>6. CASE RestorePrevious(c)
  <2>1. Put(current[c], Restored(owned[c], current[c]))
    BY <1>1, <1>6 DEF RestorePrevious
  <2>2. current[c] \in Services /\ Restored(owned[c], current[c]) \in Previous
    BY <1>6 DEF RestorePrevious, IInv, TypeOK, Sound, Each, Works, Restored, Records, Previous
  <2> QED  BY <1>3, <2>1, <2>2
<1>7. CASE Undo(c)
  <2>1. PICK t \in todo[c] : Put(t, owned[c].services[t])
    BY <1>1, <1>7 DEF Undo
  <2>2. t \in Services /\ owned[c].services[t] \in Previous
    BY <2>1 DEF IInv, TypeOK, Records
  <2> QED  BY <1>3, <2>1, <2>2
<1> QED  BY <1>2, <1>4, <1>5, <1>6, <1>7

\* After Release a goroutine of the callback that comes late points nothing at the
\* core.
THEOREM NothingLate ==
  ASSUME ~Overlap
  PROVE  Spec => NoLateFollow
<1>1. IInv /\ [Next]_vars =>
        [\A s \in Services :
           servers'[s] = "core" /\ servers[s] # "core" =>
             \E c \in Cores : follow[c].watching /\ Alive(c)]_vars
  BY NoLateStep
<1> QED  BY <1>1, Invariant, PTL DEF Spec, NoLateFollow

\* A core that has started, and one that has released, leaves nothing of the core's in
\* the system as long as no command failed, however often the cores before it died.
THEOREM CleanRest ==
  ASSUME ~Overlap
  PROVE  Spec => []CleanAtRest
<1>1. Init => CInv
  BY DEF Init, CInv, Tidy, Replaying, Following, Releasing
<1>2. IInv /\ IInv' /\ CInv /\ [Next]_vars => CInv'
  BY NextTidy
<1>3. IInv /\ CInv => CleanAtRest
  <2> SUFFICES ASSUME IInv, CInv, NEW c \in Cores, pc[c] = "idle", spent.faults = 0
               PROVE  alias = "none" /\ file = Blank /\ \A s \in Services : servers[s] = "user"
    BY DEF CleanAtRest
  <2>1. file = Blank /\ alias # "left" /\ lost = {}
    BY DEF CInv, Tidy
  <2>2. alias \in {"none", "set", "left"} /\ OnDisk
    BY DEF IInv, TypeOK, Sound
  <2> QED
    BY <2>1, <2>2 DEF OnDisk, Covers, Blank, Kept
<1> QED
  BY <1>1, <1>2, <1>3, Invariant, PTL DEF Spec

\* Every variable has its type.
THEOREM TypeCorrect ==
  ASSUME ~Overlap
  PROVE  Spec => []TypeOK
<1>1. IInv => TypeOK
  BY DEF IInv
<1> QED  BY <1>1, Invariant, PTL

=============================================================================
