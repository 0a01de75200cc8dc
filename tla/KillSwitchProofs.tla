-------------------------- MODULE KillSwitchProofs --------------------------
(***************************************************************************)
(* Proofs about KillSwitch, for every set of configurations and waiters    *)
(* and every bound.                                                        *)
(*                                                                         *)
(* The invariants of KillSwitch rest on what active_ and pending_ point    *)
(* to, so the inductive invariant is stated for the members k of the       *)
(* switch and the guards gs: the helpers can then be treated one by one,   *)
(* also on the values that occur in the middle of a handler.               *)
(***************************************************************************)
EXTENDS KillSwitch, SequenceTheorems, TLAPS

\* active_ is READY and not closed, pending_ is neither READY nor closed.
Pointers(k, gs) ==
  /\ k.active # 0 =>
       /\ k.active \in DOMAIN gs
       /\ gs[k.active].ready /\ ~gs[k.active].closing
       /\ gs[k.active].proc \in {"armed", "ended"}
  /\ k.pending # 0 =>
       /\ k.pending \in DOMAIN gs
       /\ ~gs[k.pending].ready /\ ~gs[k.pending].closing

\* Unread output comes from a guard that got as far as printing it.
Spoke(gs) == \A g \in DOMAIN gs : gs[g].out # <<>> => gs[g].proc \in {"armed", "ended"}

\* Every caller that waits has something to wait for.
Waits(k) == \A w \in k.waiters : StillWaits(k, w)
\* The failure code is there exactly in the failed state.
Coded(k) == k.code = "none" <=> k.state # "Failed"

\* What holds between any two steps of a handler.
Basic(k, gs) ==
  /\ k \in Switches /\ gs \in Seq(Guards)
  /\ Pointers(k, gs) /\ Spoke(gs) /\ Waits(k) /\ Coded(k)

\* What the state says of the guards, when the core's identity may be news.
Told(k) ==
  /\ k.state = "Disabled" => k.active = 0 /\ k.pending = 0
  /\ k.state = "Arming" => k.active = 0 /\ k.pending # 0
  /\ k.state = "Armed" => k.active # 0
  /\ k.state = "Failed" /\ ~k.identityUnsupported => k.active = 0 /\ k.pending = 0

\* What the state says of the guards at the end of a handler.
States(k) ==
  /\ Told(k)
  /\ k.state \in {"Disabled", "Armed"} => ~k.identityUnsupported

-----------------------------------------------------------------------------
(* What the helpers return.                                                *)

\* settle changes the waiters only, and leaves those that have to wait.
LEMMA Settled ==
  ASSUME NEW k \in Switches
  PROVE  /\ settle(k) \in Switches
         /\ settle(k).state = k.state /\ settle(k).code = k.code
         /\ settle(k).active = k.active /\ settle(k).pending = k.pending
         /\ settle(k).identityUnsupported = k.identityUnsupported
         /\ settle(k).waiters \subseteq k.waiters
         /\ Waits(settle(k))
<1> DEFINE W0 == {w \in k.waiters : StillWaits(k, w)}
<1>1. settle(k) = [k EXCEPT !.waiters = W0]
  BY DEF settle
<1>2. W0 \in SUBSET [who : Waiters, idle : BOOLEAN] /\ W0 \subseteq k.waiters
  BY DEF Switches
<1>3. \A w \in W0 : StillWaits(k, w)
  OBVIOUS
<1> HIDE DEF W0
<1>4. /\ [k EXCEPT !.waiters = W0] \in Switches
      /\ [k EXCEPT !.waiters = W0].state = k.state
      /\ [k EXCEPT !.waiters = W0].code = k.code
      /\ [k EXCEPT !.waiters = W0].active = k.active
      /\ [k EXCEPT !.waiters = W0].pending = k.pending
      /\ [k EXCEPT !.waiters = W0].identityUnsupported = k.identityUnsupported
      /\ [k EXCEPT !.waiters = W0].waiters = W0
  BY <1>2 DEF Switches
<1>5. Waits(settle(k))
  BY <1>1, <1>3, <1>4 DEF Waits, StillWaits
<1>6. QED
  BY <1>1, <1>2, <1>4, <1>5

\* setState sets the state and clears the code.
LEMMA StateSet ==
  ASSUME NEW k \in Switches, NEW state \in {"Disabled", "Arming", "Armed"}
  PROVE  /\ setState(k, state) \in Switches /\ Coded(setState(k, state))
         /\ setState(k, state).state = state
         /\ setState(k, state).active = k.active /\ setState(k, state).pending = k.pending
         /\ setState(k, state).identityUnsupported = k.identityUnsupported
         /\ setState(k, state).waiters = k.waiters
BY DEF setState, Switches, Codes, Coded

\* fail sets the state and the code, and calls every waiter of whenSettled() back.
LEMMA Failed ==
  ASSUME NEW k \in Switches, NEW code \in Codes \cup {"identity", "overridden"}
  PROVE  /\ fail(k, code) \in Switches /\ Coded(fail(k, code)) /\ Waits(fail(k, code))
         /\ fail(k, code).state = "Failed"
         /\ fail(k, code).active = k.active /\ fail(k, code).pending = k.pending
         /\ fail(k, code).identityUnsupported = k.identityUnsupported
<1> DEFINE f == [k EXCEPT !.state = "Failed", !.code = code]
<1>1. /\ f \in Switches /\ f.state = "Failed" /\ f.code = code /\ f.active = k.active
      /\ f.pending = k.pending /\ f.identityUnsupported = k.identityUnsupported
  BY DEF Switches, Codes
<1>2. code # "none"
  BY DEF Codes
<1> HIDE DEF f
<1>3. fail(k, code) = settle(f)
  BY DEF fail, f
<1>4. QED
  BY <1>1, <1>2, <1>3, Settled DEF Coded

\* closeGuard changes nothing but closing.
LEMMA Closed ==
  ASSUME NEW gs \in Seq(Guards), NEW S
  PROVE  /\ closeGuard(gs, S) \in Seq(Guards)
         /\ DOMAIN closeGuard(gs, S) = DOMAIN gs /\ Len(closeGuard(gs, S)) = Len(gs)
         /\ \A g \in DOMAIN gs :
              /\ closeGuard(gs, S)[g].ready = gs[g].ready
              /\ closeGuard(gs, S)[g].proc = gs[g].proc
              /\ closeGuard(gs, S)[g].out = gs[g].out
              /\ closeGuard(gs, S)[g].config = gs[g].config
              /\ closeGuard(gs, S)[g].refused = gs[g].refused
              /\ (closeGuard(gs, S)[g].closing <=> (g \in S \/ gs[g].closing))
<1> DEFINE e(g) == IF g \in S THEN [gs[g] EXCEPT !.closing = TRUE] ELSE gs[g]
<1>1. DOMAIN gs = 1..Len(gs) /\ Len(gs) \in Nat /\ \A g \in 1..Len(gs) : gs[g] \in Guards
  BY LenProperties, ElementOfSeq
<1>2. \A g \in 1..Len(gs) : e(g) \in Guards
  BY <1>1 DEF Guards
<1>3. closeGuard(gs, S) = [g \in 1..Len(gs) |-> e(g)]
  BY <1>1 DEF closeGuard
<1>4. \A g \in DOMAIN gs :
        /\ e(g).ready = gs[g].ready /\ e(g).proc = gs[g].proc /\ e(g).out = gs[g].out
        /\ e(g).config = gs[g].config /\ e(g).refused = gs[g].refused
        /\ (e(g).closing <=> (g \in S \/ gs[g].closing))
  <2> TAKE g \in DOMAIN gs
  <2>1. gs[g] \in Guards
    BY <1>1
  <2>2. CASE g \in S
    BY <2>1, <2>2 DEF Guards
  <2>3. CASE g \notin S
    BY <2>1, <2>3 DEF Guards
  <2>4. QED
    BY <2>2, <2>3
<1> HIDE DEF e
<1>5. [g \in 1..Len(gs) |-> e(g)] \in Seq(Guards)
  BY <1>1, <1>2, IsASeq
<1>6. Len([g \in 1..Len(gs) |-> e(g)]) = Len(gs)
  BY <1>1
<1>7. QED
  BY <1>1, <1>3, <1>4, <1>5, <1>6

\* A switch without guards is sound whatever was closed.
LEMMA ClosedBasic ==
  ASSUME NEW k, NEW gs, NEW S, Basic(k, gs),
         k.active = 0 \/ k.active \notin S, k.pending = 0 \/ k.pending \notin S
  PROVE  Basic(k, closeGuard(gs, S))
<1>1. gs \in Seq(Guards)
  BY DEF Basic
<1>2. Pointers(k, closeGuard(gs, S))
  <2>1. Pointers(k, gs)
    BY DEF Basic
  <2> DEFINE cs == closeGuard(gs, S)
  <2>2. /\ DOMAIN cs = DOMAIN gs
        /\ \A g \in DOMAIN gs : /\ cs[g].ready = gs[g].ready /\ cs[g].proc = gs[g].proc
                               /\ (cs[g].closing <=> (g \in S \/ gs[g].closing))
    BY <1>1, Closed
  <2> HIDE DEF cs
  <2>3. Pointers(k, cs)
    BY <2>1, <2>2 DEF Pointers
  <2>4. QED
    BY <2>3 DEF cs
<1>3. Spoke(closeGuard(gs, S))
  BY <1>1, Closed DEF Basic, Spoke
<1>4. QED
  BY <1>1, <1>2, <1>3, Closed DEF Basic

\* A new guard is added to the guards, which stay as they are.
LEMMA Appended ==
  ASSUME NEW gs \in Seq(Guards), NEW c \in Configs
  PROVE  LET as == Append(gs, NewGuard(c)) IN
         /\ as \in Seq(Guards) /\ Len(as) = Len(gs) + 1
         /\ DOMAIN as = 1..(Len(gs) + 1) /\ DOMAIN gs = 1..Len(gs) /\ Len(gs) \in Nat
         /\ \A g \in DOMAIN gs : as[g] = gs[g]
         /\ as[Len(gs) + 1] = NewGuard(c)
<1>1. NewGuard(c) \in Guards
  BY DEF NewGuard, Guards
<1>2. ASSUME NEW n \in Guards
      PROVE  LET as == Append(gs, n) IN
             /\ as \in Seq(Guards) /\ Len(as) = Len(gs) + 1
             /\ DOMAIN as = 1..(Len(gs) + 1) /\ DOMAIN gs = 1..Len(gs) /\ Len(gs) \in Nat
             /\ \A g \in DOMAIN gs : as[g] = gs[g]
             /\ as[Len(gs) + 1] = n
  BY AppendProperties, LenProperties
<1>3. QED
  BY <1>1, <1>2

\* spawn leaves a pending guard for c, arming unless another one is in force or the
\* identity failure decides the state.
LEMMA Spawned ==
  ASSUME NEW k, NEW gs, NEW c \in Configs, Basic(k, gs),
         k.identityUnsupported => k.state \notin {"Disabled", "Armed"},
         k.identityUnsupported /\ k.state = "Arming" => k.active = 0,
         ~k.identityUnsupported /\ k.active # 0 => k.state = "Armed"
  PROVE  LET r == spawn(k, gs, c) IN
         Basic(r[1], r[2]) /\ States(r[1]) /\ r[1].state # "Disabled"
<1> DEFINE s == IF k.active = 0 /\ ~k.identityUnsupported THEN setState(k, "Arming") ELSE k
           n == Len(gs) + 1
           k1 == [s EXCEPT !.pending = n]
           cs == closeGuard(gs, {k.pending})
           as == Append(cs, NewGuard(c))
<1>1. k \in Switches /\ gs \in Seq(Guards) /\ Len(gs) \in Nat
  BY LenProperties DEF Basic
<1>2. /\ s \in Switches /\ Coded(s) /\ s.active = k.active
      /\ s.identityUnsupported = k.identityUnsupported /\ s.waiters = k.waiters
      /\ s.state = IF k.active = 0 /\ ~k.identityUnsupported THEN "Arming" ELSE k.state
  BY <1>1, StateSet DEF Basic
<1> HIDE DEF s
<1>3. /\ k1 \in Switches /\ k1.state = s.state /\ k1.code = s.code /\ k1.active = s.active
      /\ k1.pending = n /\ k1.identityUnsupported = s.identityUnsupported
      /\ k1.waiters = s.waiters
  BY <1>1, <1>2 DEF Switches
<1>4. cs \in Seq(Guards) /\ Len(cs) = Len(gs) /\ DOMAIN cs = DOMAIN gs
  BY <1>1, Closed
<1>5. /\ as \in Seq(Guards) /\ DOMAIN as = 1..n /\ DOMAIN gs = 1..Len(gs)
      /\ \A g \in DOMAIN gs : as[g] = cs[g]
      /\ as[n] = NewGuard(c)
  <2> HIDE DEF cs
  <2> QED
    BY <1>1, <1>4, Appended
<1>6. spawn(k, gs, c) = <<k1, as>>
  BY DEF spawn, s
<1> HIDE DEF k1
<1>7. Coded(k1) /\ Waits(k1) /\ States(k1) /\ k1.state # "Disabled"
  <2>1. Coded(k1)
    BY <1>2, <1>3 DEF Coded
  <2>2. Waits(k1)
    BY <1>1, <1>2, <1>3 DEF Waits, StillWaits, Basic
  <2>3. States(k1) /\ k1.state # "Disabled"
    BY <1>1, <1>2, <1>3 DEF States, Told, Switches
  <2>4. QED
    BY <2>1, <2>2, <2>3
<1>8. Pointers(k1, as)
  <2>1. k.active # 0 => k.active # k.pending
    BY <1>1 DEF Basic, Pointers
  <2>2. ~as[n].ready /\ ~as[n].closing
    BY <1>5 DEF NewGuard
  <2>3. \A g \in DOMAIN gs :
          as[g].ready = gs[g].ready /\ as[g].proc = gs[g].proc
          /\ (as[g].closing <=> (g \in {k.pending} \/ gs[g].closing))
    BY <1>1, <1>5, Closed
  <2>4. k.active # 0 => k.active \in DOMAIN as
    BY <1>1, <1>5 DEF Basic, Pointers
  <2>5. n \in DOMAIN as /\ Pointers(k, gs)
    BY <1>1, <1>5 DEF Basic
  <2> HIDE DEF as, cs, n
  <2>6. k1.active = k.active /\ k1.pending = n
    BY <1>2, <1>3
  <2>7. ASSUME k.active # 0
        PROVE  as[k.active].ready /\ ~as[k.active].closing
               /\ as[k.active].proc \in {"armed", "ended"}
    BY <2>1, <2>3, <2>5, <2>7 DEF Pointers
  <2>8. QED
    BY <2>2, <2>4, <2>5, <2>6, <2>7 DEF Pointers
<1>9. Spoke(as)
  <2>1. as[n].out = <<>>
    BY <1>5 DEF NewGuard
  <2>2. \A g \in DOMAIN gs : as[g].out = gs[g].out /\ as[g].proc = gs[g].proc
    BY <1>1, <1>5, Closed
  <2> HIDE DEF as, cs
  <2>3. Spoke(gs) /\ \A g \in DOMAIN as : g = n \/ g \in DOMAIN gs
    BY <1>1, <1>5 DEF Basic
  <2> HIDE DEF n
  <2>4. QED
    BY <2>1, <2>2, <2>3 DEF Spoke
<1>10. QED
  BY <1>3, <1>5, <1>6, <1>7, <1>8, <1>9 DEF Basic

\* A settled switch has everything that its members had, and nobody waits in vain.
LEMMA SettledBasic ==
  ASSUME NEW k \in Switches, NEW gs \in Seq(Guards),
         Pointers(k, gs), Spoke(gs), Coded(k)
  PROVE  Basic(settle(k), gs) /\ (States(settle(k)) <=> States(k))
<1>1. Pointers(settle(k), gs)
  BY Settled DEF Pointers
<1>2. Coded(settle(k))
  BY Settled DEF Coded
<1>3. States(settle(k)) <=> States(k)
  BY Settled DEF States, Told
<1>4. QED
  BY <1>1, <1>2, <1>3, Settled DEF Basic

\* A failed switch too.
LEMMA FailedBasic ==
  ASSUME NEW k \in Switches, NEW gs \in Seq(Guards),
         NEW code \in Codes \cup {"identity", "overridden"},
         Pointers(k, gs), Spoke(gs),
         k.identityUnsupported \/ (k.active = 0 /\ k.pending = 0)
  PROVE  Basic(fail(k, code), gs) /\ States(fail(k, code))
<1>1. Pointers(fail(k, code), gs)
  BY Failed DEF Pointers
<1>2. States(fail(k, code))
  BY Failed DEF States, Told
<1>3. QED
  BY <1>1, <1>2, Failed DEF Basic

\* Closing the pending guard or both leaves a sound switch without them.
LEMMA Dropped ==
  ASSUME NEW k, NEW gs, Basic(k, gs), NEW j \in Switches, NEW S, Coded(j),
         \/ j.active = 0
         \/ j.active = k.active /\ k.active \notin S,
         j.pending = 0
  PROVE  /\ Pointers(j, closeGuard(gs, S)) /\ Spoke(closeGuard(gs, S))
         /\ closeGuard(gs, S) \in Seq(Guards)
         /\ Basic(settle(j), closeGuard(gs, S))
         /\ States(settle(j)) <=> States(j)
<1> DEFINE cs == closeGuard(gs, S)
<1>1. /\ cs \in Seq(Guards) /\ DOMAIN cs = DOMAIN gs
      /\ \A g \in DOMAIN gs :
           /\ cs[g].ready = gs[g].ready /\ cs[g].proc = gs[g].proc /\ cs[g].out = gs[g].out
           /\ (cs[g].closing <=> (g \in S \/ gs[g].closing))
  BY Closed DEF Basic
<1>2. Pointers(k, gs) /\ Spoke(gs)
  BY DEF Basic
<1> HIDE DEF cs
<1>3. Pointers(j, cs)
  BY <1>1, <1>2 DEF Pointers
<1>4. Spoke(cs)
  BY <1>1, <1>2 DEF Spoke
<1>5. QED
  BY <1>1, <1>3, <1>4, SettledBasic DEF cs

-----------------------------------------------------------------------------
(* KillSwitch::apply.                                                      *)

\* The second half of apply() leaves a switch that is on and sound.
LEMMA ArmSound ==
  ASSUME NEW k, NEW gs, NEW c \in Configs, Basic(k, gs), States(k)
  PROVE  LET r == Arm(k, gs, c) IN
         Basic(r[1], r[2]) /\ States(r[1]) /\ r[1].state # "Disabled"
<1>1. k \in Switches /\ gs \in Seq(Guards) /\ Coded(k)
  BY DEF Basic
<1>2. CASE k.pending # 0 /\ gs[k.pending].config = c
  BY <1>2 DEF Arm, States, Told
<1>3. CASE ~(k.pending # 0 /\ gs[k.pending].config = c) /\ k.active # 0 /\ gs[k.active].config = c
  <2> DEFINE cs == closeGuard(gs, {k.pending})
  <2>1. k.state \notin {"Disabled", "Arming"}
    BY <1>1, <1>3 DEF States, Told
  <2>2. CASE k.pending = 0
    <3>1. Arm(k, gs, c) = <<k, cs>>
      BY <1>3, <2>2 DEF Arm
    <3>2. 0 \notin DOMAIN gs
      BY <1>1, LenProperties
    <3>3. Basic(k, cs)
      BY <1>3, <2>2, <3>2, ClosedBasic
    <3>4. QED
      BY <2>1, <3>1, <3>3
  <2>3. CASE k.pending # 0
    <3> DEFINE j == [k EXCEPT !.pending = 0]
    <3>1. /\ j \in Switches /\ j.active = k.active /\ j.pending = 0 /\ j.state = k.state
          /\ j.code = k.code /\ j.identityUnsupported = k.identityUnsupported
      BY <1>1 DEF Switches
    <3>2. Arm(k, gs, c) = <<settle(j), cs>>
      BY <1>3, <2>3 DEF Arm
    <3> HIDE DEF j
    <3>3. Coded(j) /\ States(j)
      BY <1>1, <2>1, <3>1 DEF Coded, States, Told
    <3>4. k.active \notin {k.pending}
      BY <1>3, <2>3 DEF Basic, Pointers
    <3>5. Basic(settle(j), cs) /\ States(settle(j))
      BY <3>1, <3>3, <3>4, Dropped
    <3>6. settle(j).state = k.state
      BY <3>1, Settled
    <3>7. QED
      BY <2>1, <3>2, <3>5, <3>6
  <2>4. QED
    BY <2>2, <2>3
<1>4. CASE /\ ~(k.pending # 0 /\ gs[k.pending].config = c)
           /\ ~(k.active # 0 /\ gs[k.active].config = c)
  <2>1. Arm(k, gs, c) = spawn(k, gs, c)
    BY <1>4 DEF Arm
  <2>2. k.state \in {"Disabled", "Arming", "Armed", "Failed"}
    BY <1>1 DEF Switches
  <2>3. QED
    BY <2>1, <2>2, Spawned DEF States, Told
<1>5. QED
  BY <1>2, <1>3, <1>4

\* apply() leaves a sound switch, which is off exactly when the setting is. It may be
\* called with the news that the core lacks the identity.
LEMMA ApplySound ==
  ASSUME NEW k, NEW gs, NEW on \in BOOLEAN, NEW c \in Configs, Basic(k, gs), Told(k),
         k.state = "Disabled" /\ on => ~k.identityUnsupported,
         phase # "down", overridden \in BOOLEAN
  PROVE  LET r == apply(k, gs, on, c) IN
         /\ Basic(r[1], r[2]) /\ States(r[1])
         /\ r[1].state = "Disabled" <=> ~on
<1>1. k \in Switches /\ gs \in Seq(Guards) /\ Coded(k) /\ Pointers(k, gs) /\ Spoke(gs)
  BY DEF Basic
<1> DEFINE cs == closeGuard(gs, {k.active, k.pending})
<1>2. CASE ~on
  <2> DEFINE i == [k EXCEPT !.identityUnsupported = FALSE]
             d == setState(i, "Disabled")
             j == [d EXCEPT !.active = 0, !.pending = 0]
  <2>1. i \in Switches /\ ~i.identityUnsupported
    BY <1>1 DEF Switches
  <2> HIDE DEF i
  <2>2. d \in Switches /\ Coded(d) /\ d.state = "Disabled" /\ ~d.identityUnsupported
    BY <2>1, StateSet
  <2> HIDE DEF d
  <2>3. /\ j \in Switches /\ j.state = "Disabled" /\ j.code = d.code
        /\ j.active = 0 /\ j.pending = 0 /\ ~j.identityUnsupported
    BY <2>2 DEF Switches
  <2>4. apply(k, gs, on, c) = <<settle(j), cs>>
    BY <1>2 DEF apply, Off, d, i
  <2> HIDE DEF j
  <2>5. Coded(j) /\ States(j)
    BY <2>2, <2>3 DEF Coded, States, Told
  <2>6. Basic(settle(j), cs) /\ States(settle(j)) /\ settle(j).state = "Disabled"
    BY <2>3, <2>5, Dropped, Settled
  <2>7. QED
    BY <1>2, <2>4, <2>6
<1>3. CASE on /\ overridden
  <2> DEFINE f == [k EXCEPT !.state = "Failed", !.code = "overridden"]
             j == [f EXCEPT !.active = 0, !.pending = 0]
  <2>1. /\ j \in Switches /\ j.state = "Failed" /\ j.code = "overridden"
        /\ j.active = 0 /\ j.pending = 0
    BY <1>1 DEF Switches, Codes
  <2>2. apply(k, gs, on, c) = <<settle(j), cs>>
    BY <1>3 DEF apply, Off
  <2> HIDE DEF j
  <2>3. Coded(j) /\ States(j)
    BY <2>1 DEF Coded, States, Told
  <2>4. Basic(settle(j), cs) /\ States(settle(j)) /\ settle(j).state = "Failed"
    BY <2>1, <2>3, Dropped, Settled
  <2>5. settle(j).state # "Disabled"
    BY <2>4
  <2> HIDE DEF cs
  <2>6. settle(j).state = "Disabled" <=> ~on
    BY <1>3, <2>5
  <2>7. QED
    BY <2>2, <2>4, <2>6
<1>4. CASE on /\ ~overridden
  <2>1. apply(k, gs, on, c) = Arm(Identified(k), gs, c)
    BY <1>4 DEF apply
  <2>2. Basic(Identified(k), gs) /\ States(Identified(k))
    <3>1. CASE k.identityUnsupported /\ k.state = "Armed"
      BY <1>1, <3>1, FailedBasic DEF Identified, failIdentity
    <3>2. CASE ~(k.identityUnsupported /\ k.state = "Armed")
      BY <1>4, <3>2 DEF Identified, States
    <3>3. QED
      BY <3>1, <3>2
  <2>3. QED
    BY <1>4, <2>1, <2>2, ArmSound
<1>5. QED
  BY <1>2, <1>3, <1>4

-----------------------------------------------------------------------------
(* The inductive invariant.                                                *)

\* The types of what is not a guard or a member of the switch.
Scalars ==
  /\ enabled \in BOOLEAN /\ overridden \in BOOLEAN
  /\ config \in Configs
  /\ phase \in {"boot", "run", "exiting", "down", "dead"}
  /\ retries \in Nat /\ ports \in Nat
  /\ faults \in 0..MaxFaults /\ requests \in 0..MaxRequests

\* The state is sound until the shutdown, which leaves nothing; it is Disabled before
\* the first apply(), and afterwards exactly when the setting is off.
Sound ==
  /\ Basic(ks, guards)
  /\ phase # "down" => States(ks)
  /\ phase \in {"run", "exiting"} => (ks.state = "Disabled" <=> ~enabled)
  /\ phase = "boot" => ks.state = "Disabled"
  /\ phase = "down" => ks.active = 0 /\ ks.pending = 0

\* The inductive invariant.
IInv == Scalars /\ Sound

\* The first state is sound.
LEMMA InitSound == Init => IInv
<1> SUFFICES ASSUME Init PROVE IInv
  OBVIOUS
<1>1. Scalars
  BY KillSwitchBounds DEF Init, Scalars
<1>2. ks \in Switches
  <2>1. {} \in SUBSET [who : Waiters, idle : BOOLEAN]
    OBVIOUS
  <2>2. QED
    BY <2>1 DEF Init, Switches, Codes
<1>3. guards \in Seq(Guards) /\ Spoke(guards)
  BY DEF Init, Spoke
<1>4. Pointers(ks, guards) /\ Waits(ks) /\ Coded(ks)
  BY DEF Init, Pointers, Waits, Coded
<1>5. States(ks)
  BY DEF Init, States, Told
<1>6. QED
  BY <1>1, <1>2, <1>3, <1>4, <1>5 DEF IInv, Sound, Basic, Init

\* One guard of a sequence is replaced.
LEMMA GuardSet ==
  ASSUME NEW gs \in Seq(Guards), NEW g \in DOMAIN gs, NEW n \in Guards
  PROVE  /\ [gs EXCEPT ![g] = n] \in Seq(Guards)
         /\ DOMAIN [gs EXCEPT ![g] = n] = DOMAIN gs
         /\ \A h \in DOMAIN gs : [gs EXCEPT ![g] = n][h] = IF h = g THEN n ELSE gs[h]
BY ExceptSeq, LenProperties

\* An apply() with the current settings ends soundly while the engine runs.
LEMMA NowApplied ==
  ASSUME IInv, phase # "down", NEW on \in BOOLEAN, NEW c \in Configs,
         NEW k \in Switches, Basic(k, guards), Told(k),
         k.state = "Disabled" /\ on => ~k.identityUnsupported,
         Now(apply(k, guards, on, c))
  PROVE  /\ Basic(ks, guards)' /\ States(ks)'
         /\ ks'.state = "Disabled" <=> ~on
<1>1. overridden \in BOOLEAN
  BY DEF IInv, Scalars
<1> DEFINE r == apply(k, guards, on, c)
<1>2. Basic(r[1], r[2]) /\ States(r[1]) /\ (r[1].state = "Disabled" <=> ~on)
  BY <1>1, ApplySound
<1>3. ks' = r[1] /\ guards' = r[2]
  BY DEF Now
<1> HIDE DEF r
<1>4. QED
  BY <1>2, <1>3

\* Steps of a guard process, or of its output, that change neither the switch nor
\* what it knows of its guards.
LEMMA GuardStep ==
  ASSUME IInv, guards' \in Seq(Guards), DOMAIN guards' = DOMAIN guards,
         \A h \in DOMAIN guards :
           /\ guards'[h].ready = guards[h].ready
           /\ (guards'[h].closing <=> guards[h].closing)
              \/ h \notin {ks.active, ks.pending}
           /\ guards[h].proc \in {"armed", "ended"} =>
                guards'[h].proc \in {"armed", "ended"} \/ h # ks.active
           /\ guards'[h].out # <<>> => guards'[h].proc \in {"armed", "ended"},
         UNCHANGED <<ks, phase, enabled>>
  PROVE  Sound'
<1>1. Pointers(ks, guards)
  BY DEF IInv, Sound, Basic
<1>2. Pointers(ks, guards')
  BY <1>1 DEF Pointers
<1>3. Spoke(guards')
  BY DEF Spoke
<1>4. Basic(ks, guards')
  BY <1>2, <1>3 DEF IInv, Sound, Basic
<1>5. QED
  BY <1>4 DEF IInv, Sound

-----------------------------------------------------------------------------
(* A guard is lost or ready. gs are the guards of the moment: g has been   *)
(* closed or read from, the others are as they were.                       *)

\* What remains when g is taken out of the switch.
LEMMA Removed ==
  ASSUME IInv, NEW g \in DOMAIN guards, NEW gs \in Seq(Guards), DOMAIN gs = DOMAIN guards,
         Spoke(gs), \A h \in DOMAIN guards : h # g => gs[h] = guards[h]
  PROVE  /\ g = ks.active =>
              LET k == [ks EXCEPT !.active = 0] IN
              /\ k \in Switches /\ Coded(k) /\ Pointers(k, gs) /\ Waits(k)
              /\ k.active = 0 /\ k.pending = ks.pending /\ k.state = ks.state
              /\ k.identityUnsupported = ks.identityUnsupported
         /\ g = ks.pending =>
              LET k == [ks EXCEPT !.pending = 0] IN
              /\ k \in Switches /\ Coded(k) /\ Pointers(k, gs)
              /\ k.active = ks.active /\ k.pending = 0 /\ k.state = ks.state
              /\ k.identityUnsupported = ks.identityUnsupported
<1>1. ks \in Switches /\ Coded(ks) /\ Waits(ks) /\ Pointers(ks, guards)
  BY DEF IInv, Sound, Basic
<1>2. g # 0
  BY LenProperties DEF IInv, Sound, Basic
<1>3. ASSUME g = ks.active
      PROVE  LET k == [ks EXCEPT !.active = 0] IN
             /\ k \in Switches /\ Coded(k) /\ Pointers(k, gs) /\ Waits(k)
             /\ k.active = 0 /\ k.pending = ks.pending /\ k.state = ks.state
             /\ k.identityUnsupported = ks.identityUnsupported
  <2> DEFINE k == [ks EXCEPT !.active = 0]
  <2>1. /\ k \in Switches /\ k.active = 0 /\ k.pending = ks.pending /\ k.state = ks.state
        /\ k.code = ks.code /\ k.identityUnsupported = ks.identityUnsupported
        /\ k.waiters = ks.waiters
    BY <1>1 DEF Switches
  <2> HIDE DEF k
  <2>2. ks.pending # g
    BY <1>1, <1>2, <1>3 DEF Pointers
  <2>3. Pointers(k, gs)
    BY <1>1, <2>1, <2>2 DEF Pointers
  <2>4. Waits(k) /\ Coded(k)
    BY <1>1, <2>1 DEF Waits, StillWaits, Coded
  <2>5. QED
    BY <2>1, <2>3, <2>4 DEF k
<1>4. ASSUME g = ks.pending
      PROVE  LET k == [ks EXCEPT !.pending = 0] IN
             /\ k \in Switches /\ Coded(k) /\ Pointers(k, gs)
             /\ k.active = ks.active /\ k.pending = 0 /\ k.state = ks.state
             /\ k.identityUnsupported = ks.identityUnsupported
  <2> DEFINE k == [ks EXCEPT !.pending = 0]
  <2>1. /\ k \in Switches /\ k.active = ks.active /\ k.pending = 0 /\ k.state = ks.state
        /\ k.code = ks.code /\ k.identityUnsupported = ks.identityUnsupported
    BY <1>1 DEF Switches
  <2> HIDE DEF k
  <2>2. ks.active # g
    BY <1>1, <1>2, <1>4 DEF Pointers
  <2>3. Pointers(k, gs)
    BY <1>1, <2>1, <2>2 DEF Pointers
  <2>4. Coded(k)
    BY <1>1, <2>1 DEF Coded
  <2>5. QED
    BY <2>1, <2>3, <2>4 DEF k
<1>5. QED
  BY <1>3, <1>4

\* armFailed ends soundly.
LEMMA ArmFailed ==
  ASSUME IInv, NEW g \in DOMAIN guards, NEW gs \in Seq(Guards), DOMAIN gs = DOMAIN guards,
         Spoke(gs), \A h \in DOMAIN guards : h # g => gs[h] = guards[h],
         NEW code \in Codes, g = ks.pending,
         armFailed([ks EXCEPT !.pending = 0], gs, code)
  PROVE  /\ Basic(ks, guards)' /\ States(ks)' /\ phase # "down"
         /\ ks'.state = "Disabled" <=> ks.state = "Disabled"
         /\ retries' \in Nat
<1> DEFINE k == [ks EXCEPT !.pending = 0]
<1>1. /\ k \in Switches /\ Coded(k) /\ Pointers(k, gs)
      /\ k.active = ks.active /\ k.pending = 0 /\ k.state = ks.state
      /\ k.identityUnsupported = ks.identityUnsupported
  BY Removed
<1>2. /\ ks' = IF k.active # 0 THEN settle(k) ELSE fail(k, code)
      /\ guards' = gs
      /\ retries' = retries + (IF k.active # 0 THEN Retried(code) ELSE 0)
  BY DEF armFailed, Now
<1> HIDE DEF k
<1>3. retries' \in Nat
  BY <1>2 DEF IInv, Scalars, Retried
<1>4. ks.pending # 0 /\ phase # "down" /\ States(ks)
  BY LenProperties DEF IInv, Sound, Basic
<1>5. CASE k.active # 0
  <2>1. States(k)
    BY <1>1, <1>4, <1>5 DEF States, Told
  <2>2. QED
    BY <1>1, <1>2, <1>3, <1>4, <1>5, <2>1, SettledBasic, Settled
<1>6. CASE k.active = 0
  <2>1. Basic(fail(k, code), gs) /\ States(fail(k, code)) /\ fail(k, code).state = "Failed"
    BY <1>1, <1>6, FailedBasic, Failed
  <2>2. ks' = fail(k, code) /\ ks.state # "Disabled"
    BY <1>2, <1>4, <1>6 DEF States, Told
  <2>3. QED
    BY <1>2, <1>3, <1>4, <2>1, <2>2
<1>7. QED
  BY <1>5, <1>6

\* protectionLost ends soundly.
LEMMA ProtectionLost ==
  ASSUME IInv, NEW g \in DOMAIN guards, NEW gs \in Seq(Guards), DOMAIN gs = DOMAIN guards,
         Spoke(gs), \A h \in DOMAIN guards : h # g => gs[h] = guards[h],
         NEW code \in Codes, g = ks.active,
         protectionLost([ks EXCEPT !.active = 0], gs, code)
  PROVE  /\ Basic(ks, guards)' /\ States(ks)' /\ phase # "down"
         /\ ks'.state = "Disabled" <=> ks.state = "Disabled"
         /\ retries' \in Nat
<1> DEFINE k == [ks EXCEPT !.active = 0]
<1>1. /\ k \in Switches /\ Coded(k) /\ Pointers(k, gs) /\ Waits(k)
      /\ k.active = 0 /\ k.pending = ks.pending /\ k.state = ks.state
      /\ k.identityUnsupported = ks.identityUnsupported
  BY Removed
<1>2. Basic(k, gs)
  BY <1>1 DEF Basic
<1>3. phase # "down" /\ States(ks) /\ ks.active # 0
  BY LenProperties DEF IInv, Sound, Basic
<1>4. /\ ks.state \in {"Armed", "Failed"}
      /\ ks.state = "Armed" => ~ks.identityUnsupported
      /\ ks.state = "Failed" => ks.identityUnsupported
  BY <1>3 DEF IInv, Sound, Basic, States, Told, Switches
<1>5. enabled
  BY <1>3, <1>4 DEF IInv, Sound, Scalars, protectionLost, Alive
<1>6. retries' \in Nat
  BY DEF protectionLost, IInv, Scalars
<1>7. \/ k.pending # 0 /\ Now(<<LostWithPending(k), gs>>)
      \/ k.pending = 0 /\ Now(spawn([k EXCEPT !.respawned = TRUE], gs, config))
      \/ k.pending = 0 /\ Now(<<fail(k, code), gs>>)
  BY <1>5 DEF protectionLost
<1> HIDE DEF k
<1>8. CASE k.pending # 0 /\ Now(<<LostWithPending(k), gs>>)
  <2>1. ks' = LostWithPending(k) /\ guards' = gs
    BY <1>8 DEF Now
  <2>2. CASE k.identityUnsupported
    <3>1. States(k)
      BY <1>1, <1>4, <2>2 DEF States, Told
    <3>2. ks' = settle(k)
      BY <2>1, <2>2 DEF LostWithPending
    <3>3. QED
      BY <1>1, <1>2, <1>3, <1>6, <2>1, <3>1, <3>2, SettledBasic, Settled DEF Basic
  <2>3. CASE ~k.identityUnsupported
    <3> DEFINE j == setState(k, "Arming")
    <3>1. /\ j \in Switches /\ Coded(j) /\ j.state = "Arming" /\ j.active = 0
          /\ j.pending = k.pending
      BY <1>1, StateSet
    <3>2. ks' = settle(j)
      BY <2>1, <2>3 DEF LostWithPending
    <3> HIDE DEF j
    <3>3. Pointers(j, gs) /\ States(j)
      BY <1>1, <1>8, <3>1 DEF Pointers, States, Told
    <3>4. Basic(settle(j), gs) /\ States(settle(j)) /\ settle(j).state = "Arming"
      BY <3>1, <3>3, SettledBasic, Settled
    <3>5. QED
      BY <1>3, <1>4, <1>6, <2>1, <3>2, <3>4
  <2>4. QED
    BY <2>2, <2>3
<1>9. CASE k.pending = 0 /\ Now(spawn([k EXCEPT !.respawned = TRUE], gs, config))
  <2> DEFINE j == [k EXCEPT !.respawned = TRUE]
             r == spawn(j, gs, config)
  <2>1. /\ j \in Switches /\ j.state = k.state /\ j.active = k.active /\ j.pending = k.pending
        /\ j.code = k.code /\ j.identityUnsupported = k.identityUnsupported
        /\ j.waiters = k.waiters
    BY <1>1 DEF Switches
  <2>2. ks' = r[1] /\ guards' = r[2]
    BY <1>9 DEF Now
  <2> HIDE DEF j
  <2>3. Basic(j, gs)
    BY <1>1, <1>2, <2>1 DEF Basic, Pointers, Waits, StillWaits, Coded
  <2>4. config \in Configs
    BY DEF IInv, Scalars
  <2>5. Basic(r[1], r[2]) /\ States(r[1]) /\ r[1].state # "Disabled"
    BY <1>1, <1>4, <2>1, <2>3, <2>4, Spawned
  <2> HIDE DEF r
  <2>6. QED
    BY <1>3, <1>4, <1>6, <2>2, <2>5
<1>10. CASE k.pending = 0 /\ Now(<<fail(k, code), gs>>)
  <2>1. ks' = fail(k, code) /\ guards' = gs
    BY <1>10 DEF Now
  <2>2. Basic(fail(k, code), gs) /\ States(fail(k, code)) /\ fail(k, code).state = "Failed"
    BY <1>1, <1>10, FailedBasic, Failed
  <2>3. QED
    BY <1>3, <1>4, <1>6, <2>1, <2>2
<1>11. QED
  BY <1>7, <1>8, <1>9, <1>10

\* Whatever guard is lost, the handler ends soundly.
LEMMA LostSound ==
  ASSUME IInv, NEW g \in DOMAIN guards, NEW gs \in Seq(Guards), DOMAIN gs = DOMAIN guards,
         Spoke(gs), \A h \in DOMAIN guards : h # g => gs[h] = guards[h],
         NEW code \in Codes, Lost(g, gs, code), UNCHANGED <<phase, enabled>>
  PROVE  Sound' /\ retries' \in Nat
<1>1. CASE g = ks.active /\ protectionLost([ks EXCEPT !.active = 0], gs, code)
  <2>1. /\ Basic(ks, guards)' /\ States(ks)' /\ phase # "down"
        /\ ks'.state = "Disabled" <=> ks.state = "Disabled"
        /\ retries' \in Nat
    BY <1>1, ProtectionLost
  <2>2. QED
    BY <2>1 DEF IInv, Sound
<1>2. CASE g = ks.pending /\ armFailed([ks EXCEPT !.pending = 0], gs, code)
  <2>1. /\ Basic(ks, guards)' /\ States(ks)' /\ phase # "down"
        /\ ks'.state = "Disabled" <=> ks.state = "Disabled"
        /\ retries' \in Nat
    BY <1>2, ArmFailed
  <2>2. QED
    BY <2>1 DEF IInv, Sound
<1>3. CASE g \notin {ks.active, ks.pending} /\ guards' = gs /\ UNCHANGED <<ks, retries>>
  <2>1. Pointers(ks, gs)
    BY <1>3 DEF IInv, Sound, Basic, Pointers
  <2>2. Basic(ks, gs)
    BY <2>1 DEF IInv, Sound, Basic
  <2>3. QED
    BY <1>3, <2>2 DEF IInv, Sound, Scalars
<1>4. QED
  BY <1>1, <1>2, <1>3 DEF Lost

\* READY ends soundly: the pending guard was neither closed nor READY.
LEMMA ReadySound ==
  ASSUME IInv, NEW g \in DOMAIN guards, guards[g].out # <<>>, NEW out,
         NEW gs \in Seq(Guards), gs = [guards EXCEPT ![g].out = out],
         onReady(g, gs), UNCHANGED <<phase, enabled>>
  PROVE  Sound' /\ retries' \in Nat
<1>1. ks \in Switches /\ guards \in Seq(Guards) /\ Pointers(ks, guards) /\ Spoke(guards)
  BY DEF IInv, Sound, Basic
<1>2. /\ DOMAIN gs = DOMAIN guards
      /\ \A h \in DOMAIN guards :
           /\ gs[h].ready = guards[h].ready /\ gs[h].closing = guards[h].closing
           /\ gs[h].proc = guards[h].proc /\ (h # g => gs[h] = guards[h])
  BY <1>1 DEF Guards
<1>3. guards[g].proc \in {"armed", "ended"} /\ Spoke(gs)
  BY <1>1, <1>2 DEF Spoke
<1>4. retries' \in Nat
  BY DEF onReady, IInv, Scalars
<1>5. CASE ~Awaited(g, gs)
  <2>1. ks' = ks /\ guards' = gs
    BY <1>5 DEF onReady, Now
  <2>2. Basic(ks, gs)
    BY <1>1, <1>2, <1>3 DEF IInv, Sound, Basic, Pointers
  <2>3. QED
    BY <1>4, <2>1, <2>2 DEF IInv, Sound
<1>6. CASE Awaited(g, gs)
  <2> DEFINE k == [ks EXCEPT !.active = g, !.pending = 0]
             rs == [gs EXCEPT ![g] = [gs[g] EXCEPT !.ready = TRUE]]
             cs == closeGuard(rs, {ks.active})
             j == IF k.identityUnsupported THEN failIdentity(k) ELSE settle(setState(k, "Armed"))
  <2>1. g = ks.pending /\ ~guards[g].ready /\ ~guards[g].closing /\ g \in Nat /\ g # 0
    BY <1>1, <1>2, <1>6, LenProperties DEF Awaited, Pointers
  <2>2. ks' = j /\ guards' = cs
    BY <1>6 DEF onReady, Now
  <2>3. phase # "down" /\ States(ks) /\ ks.state # "Disabled"
    BY <2>1 DEF IInv, Sound, States, Told
  <2>4. /\ k \in Switches /\ k.active = g /\ k.pending = 0
        /\ k.identityUnsupported = ks.identityUnsupported
    BY <1>1, <2>1 DEF Switches
  <2>5. [gs[g] EXCEPT !.ready = TRUE] \in Guards
    <3>1. gs[g] \in Guards
      BY <1>2, ElementOfSeq, LenProperties
    <3>2. QED
      BY <3>1 DEF Guards
  <2>6. /\ rs \in Seq(Guards) /\ DOMAIN rs = DOMAIN guards
        /\ \A h \in DOMAIN guards :
             rs[h] = IF h = g THEN [gs[g] EXCEPT !.ready = TRUE] ELSE gs[h]
    BY <1>2, <2>5, GuardSet
  <2>7. /\ [gs[g] EXCEPT !.ready = TRUE].ready = TRUE
        /\ [gs[g] EXCEPT !.ready = TRUE].closing = gs[g].closing
        /\ [gs[g] EXCEPT !.ready = TRUE].proc = gs[g].proc
        /\ [gs[g] EXCEPT !.ready = TRUE].out = gs[g].out
    BY <1>2, ElementOfSeq, LenProperties DEF Guards
  <2>8. /\ rs[g].ready /\ ~rs[g].closing /\ rs[g].proc \in {"armed", "ended"}
        /\ Spoke(rs)
    BY <1>2, <1>3, <2>1, <2>6, <2>7 DEF Spoke
  <2>9. g \notin {ks.active}
    BY <1>1, <2>1 DEF Pointers
  <2> HIDE DEF rs, k
  <2>10. /\ cs \in Seq(Guards) /\ DOMAIN cs = DOMAIN rs
         /\ \A h \in DOMAIN rs :
              /\ cs[h].ready = rs[h].ready /\ cs[h].proc = rs[h].proc /\ cs[h].out = rs[h].out
              /\ (cs[h].closing <=> (h \in {ks.active} \/ rs[h].closing))
    BY <2>6, Closed
  <2> HIDE DEF cs
  <2>11. Pointers(k, cs) /\ Spoke(cs)
    BY <2>4, <2>6, <2>8, <2>9, <2>10 DEF Pointers, Spoke
  <2>12. CASE k.identityUnsupported
    <3>1. j = fail(k, "identity")
      BY <2>12 DEF failIdentity
    <3>2. Basic(fail(k, "identity"), cs) /\ States(fail(k, "identity"))
      BY <2>4, <2>10, <2>11, <2>12, FailedBasic
    <3>3. fail(k, "identity").state # "Disabled"
      BY <2>4, Failed
    <3> HIDE DEF j
    <3>4. QED
      BY <1>4, <2>2, <2>3, <3>1, <3>2, <3>3 DEF IInv, Sound
  <2>13. CASE ~k.identityUnsupported
    <3> DEFINE a == setState(k, "Armed")
    <3>1. /\ a \in Switches /\ Coded(a) /\ a.state = "Armed" /\ a.active = g /\ a.pending = 0
          /\ ~a.identityUnsupported
      BY <2>4, <2>13, StateSet
    <3>2. j = settle(a)
      BY <2>13
    <3> HIDE DEF a, j
    <3>3. Pointers(a, cs) /\ States(a)
      BY <2>1, <2>4, <2>11, <3>1 DEF Pointers, States, Told
    <3>4. Basic(settle(a), cs) /\ States(settle(a)) /\ settle(a).state = "Armed"
      BY <2>10, <2>11, <3>1, <3>3, SettledBasic, Settled
    <3>5. QED
      BY <1>4, <2>2, <2>3, <3>2, <3>4 DEF IInv, Sound
  <2>14. QED
    BY <2>12, <2>13
<1>7. QED
  BY <1>5, <1>6

-----------------------------------------------------------------------------
(* The steps.                                                              *)

\* Requests and the calls that apply() answers.
LEMMA RequestSound == IInv /\ Requests => IInv'
<1> SUFFICES ASSUME IInv, Requests PROVE IInv'
  OBVIOUS
<1>1. /\ Basic(ks, guards) /\ Scalars /\ Sound /\ ks \in Switches
      /\ phase # "down" => States(ks) /\ Told(ks)
      /\ phase # "down" /\ ks.state = "Disabled" => ~ks.identityUnsupported
  BY DEF IInv, Sound, Basic, States
<1>2. ASSUME Request PROVE requests' \in 0..MaxRequests
  BY <1>1, <1>2, KillSwitchBounds DEF Request, Scalars
<1>3. ASSUME NEW on \in BOOLEAN, NEW c \in Configs, ChangeSettings(on, c) PROVE IInv'
  <2>1. Basic(ks, guards)' /\ States(ks)' /\ (ks'.state = "Disabled" <=> ~on)
    BY <1>1, <1>3, NowApplied DEF ChangeSettings
  <2>2. Sound'
    BY <1>3, <2>1 DEF ChangeSettings, Sound
  <2>3. Scalars'
    BY <1>1, <1>2, <1>3 DEF ChangeSettings, Scalars
  <2>4. QED
    BY <2>2, <2>3 DEF IInv
<1>4. ASSUME NEW c \in Configs, SetApiPort(c) PROVE IInv'
  <2>1. Sound'
    BY <1>1, <1>4 DEF SetApiPort, Sound
  <2>2. Scalars'
    BY <1>1, <1>2, <1>4 DEF SetApiPort, Scalars
  <2>3. QED
    BY <2>1, <2>2 DEF IInv
<1>5. ASSUME noteIdentityUnsupported PROVE IInv'
  <2> DEFINE k == [ks EXCEPT !.identityUnsupported = TRUE]
  <2>1. /\ k \in Switches /\ k.state = ks.state /\ k.active = ks.active
        /\ k.pending = ks.pending /\ k.code = ks.code /\ k.waiters = ks.waiters
        /\ k.identityUnsupported = TRUE
    BY <1>1 DEF Switches
  <2>2. /\ phase = "run" /\ Request /\ Now(apply(k, guards, enabled, config))
        /\ UNCHANGED <<enabled, overridden, config, phase, retries, ports, faults>>
    BY <1>5 DEF noteIdentityUnsupported
  <2> HIDE DEF k
  <2>3. Basic(k, guards) /\ Told(k)
    BY <1>1, <2>1, <2>2 DEF Basic, Pointers, Waits, StillWaits, Coded, Told
  <2>4. enabled \in BOOLEAN /\ config \in Configs /\ (k.state = "Disabled" <=> ~enabled)
    BY <1>1, <2>1, <2>2 DEF Sound, Scalars
  <2>5. Basic(ks, guards)' /\ States(ks)' /\ (ks'.state = "Disabled" <=> ~enabled)
    BY <2>1, <2>2, <2>3, <2>4, NowApplied
  <2>6. Sound'
    BY <2>2, <2>5 DEF Sound
  <2>7. Scalars'
    BY <1>1, <1>2, <2>2 DEF Scalars
  <2>8. QED
    BY <2>6, <2>7 DEF IInv
<1>6. ASSUME CoreStarted PROVE IInv'
  <2>1. enabled \in BOOLEAN /\ config \in Configs
    BY <1>1 DEF Scalars
  <2>2. Basic(ks, guards)' /\ States(ks)' /\ (ks'.state = "Disabled" <=> ~enabled)
    BY <1>1, <1>6, <2>1, NowApplied DEF CoreStarted
  <2>3. Sound'
    BY <1>6, <2>2 DEF CoreStarted, Sound
  <2>4. Scalars'
    BY <1>1, <1>2, <1>6 DEF CoreStarted, Scalars
  <2>5. QED
    BY <2>3, <2>4 DEF IInv
<1>7. ASSUME BeginExit PROVE IInv'
  <2>1. Sound'
    BY <1>1, <1>7 DEF BeginExit, Sound
  <2>2. Scalars'
    BY <1>1, <1>2, <1>7 DEF BeginExit, Scalars
  <2>3. QED
    BY <2>1, <2>2 DEF IInv
<1>8. ASSUME NEW k, NEW gs, NEW who \in Waiters, NEW idle \in BOOLEAN,
             Basic(k, gs), States(k)
      PROVE  LET j == Waiting(k, [who |-> who, idle |-> idle]) IN
             Basic(j, gs) /\ States(j) /\ j.state = k.state
  <2> DEFINE w == [who |-> who, idle |-> idle]
             W == k.waiters \cup {w}
             j == [k EXCEPT !.waiters = W]
  <2>1. k \in Switches /\ w \in [who : Waiters, idle : BOOLEAN]
    BY <1>8 DEF Basic
  <2>2. W \in SUBSET [who : Waiters, idle : BOOLEAN]
    BY <2>1 DEF Switches
  <2> HIDE DEF w
  <2>3. W \subseteq k.waiters \cup {w}
    OBVIOUS
  <2> HIDE DEF W
  <2>4. /\ j \in Switches /\ j.state = k.state /\ j.active = k.active
        /\ j.pending = k.pending /\ j.code = k.code /\ j.waiters = W
        /\ j.identityUnsupported = k.identityUnsupported
    BY <2>1, <2>2 DEF Switches
  <2>5. Waiting(k, w) = IF StillWaits(k, w) THEN j ELSE k
    BY DEF Waiting, W
  <2> HIDE DEF j
  <2>6. StillWaits(k, w) => Waits(j)
    BY <1>8, <2>3, <2>4 DEF Basic, Waits, StillWaits
  <2>7. StillWaits(k, w) => Basic(j, gs) /\ States(j)
    BY <1>8, <2>4, <2>6 DEF Basic, Pointers, Coded, States, Told
  <2>8. QED
    BY <1>8, <2>4, <2>5, <2>7 DEF w
<1>9. ASSUME NEW w \in Waiters, whenSettled(w) PROVE IInv'
  <2>1. /\ phase = "run" /\ ks' = Waiting(ks, [who |-> w, idle |-> FALSE])
        /\ UNCHANGED <<enabled, overridden, config, phase, guards, retries, ports, faults,
                        requests>>
    BY <1>9 DEF whenSettled
  <2>2. Basic(ks', guards) /\ States(ks') /\ ks'.state = ks.state
    BY <1>1, <1>8, <2>1
  <2>3. Sound'
    BY <1>1, <2>1, <2>2 DEF Sound
  <2>4. Scalars'
    BY <1>1, <2>1 DEF Scalars
  <2>5. QED
    BY <2>3, <2>4 DEF IInv
<1>10. ASSUME NEW w \in Waiters, NEW c \in Configs, permitExtraCore(w, c) PROVE IInv'
  <2> DEFINE r == apply(ks, guards, enabled, c)
  <2>1. /\ phase = "run" /\ Request /\ config' = c
        /\ ks' = Waiting(r[1], [who |-> w, idle |-> TRUE]) /\ guards' = r[2]
        /\ UNCHANGED <<enabled, overridden, phase, retries, ports, faults>>
    BY <1>10 DEF permitExtraCore, Now
  <2>2. enabled \in BOOLEAN /\ overridden \in BOOLEAN
    BY <1>1 DEF Scalars
  <2>3. Basic(r[1], r[2]) /\ States(r[1]) /\ (r[1].state = "Disabled" <=> ~enabled)
    BY <1>1, <2>1, <2>2, ApplySound
  <2> HIDE DEF r
  <2>4. Basic(ks', guards') /\ States(ks') /\ ks'.state = r[1].state
    BY <1>8, <2>1, <2>3
  <2>5. Sound'
    BY <2>1, <2>3, <2>4 DEF Sound
  <2>6. Scalars'
    BY <1>1, <1>2, <2>1 DEF Scalars
  <2>7. QED
    BY <2>5, <2>6 DEF IInv
<1>11. QED
  BY <1>3, <1>4, <1>5, <1>6, <1>7, <1>9, <1>10 DEF Requests

\* Handlers that do not concern one guard.
LEMMA CallSound == IInv /\ (Boot \/ PortChanged \/ RetryApply \/ Shutdown) => IInv'
<1> SUFFICES ASSUME IInv, Boot \/ PortChanged \/ RetryApply \/ Shutdown PROVE IInv'
  OBVIOUS
<1>1. /\ Basic(ks, guards) /\ Scalars /\ Sound /\ ks \in Switches
      /\ phase # "down" => States(ks) /\ Told(ks)
      /\ phase # "down" /\ ks.state = "Disabled" => ~ks.identityUnsupported
      /\ enabled \in BOOLEAN /\ config \in Configs
  BY DEF IInv, Sound, Scalars, Basic, States
<1>2. ASSUME phase # "down", Now(apply(ks, guards, enabled, config))
      PROVE  Basic(ks, guards)' /\ States(ks)' /\ (ks'.state = "Disabled" <=> ~enabled)
  BY <1>1, <1>2, NowApplied
<1>3. ASSUME Boot PROVE IInv'
  <2>1. Sound'
    BY <1>2, <1>3 DEF Boot, Sound
  <2>2. Scalars'
    BY <1>1, <1>3 DEF Boot, Scalars
  <2>3. QED
    BY <2>1, <2>2 DEF IInv
<1>4. ASSUME PortChanged PROVE IInv'
  <2>1. CASE PortApplies
    <3>1. phase = "run"
      BY <1>1, <1>4, <2>1 DEF PortChanged, PortApplies, Alive, Scalars, Sound, States, Told
    <3>2. Now(apply(ks, guards, enabled, config)) /\ UNCHANGED <<phase, enabled>>
      BY <1>4, <2>1 DEF PortChanged
    <3>3. QED
      <4>1. Sound'
        BY <1>2, <3>1, <3>2 DEF Sound
      <4>2. Scalars'
        BY <1>1, <1>4 DEF PortChanged, Scalars
      <4>3. QED
        BY <4>1, <4>2 DEF IInv
  <2>2. CASE ~PortApplies
    <3>1. UNCHANGED <<ks, guards, phase, enabled>>
      BY <1>4, <2>2 DEF PortChanged, Now
    <3>2. Sound'
      BY <1>1, <3>1 DEF Sound
    <3>3. Scalars'
      BY <1>1, <1>4 DEF PortChanged, Scalars
    <3>4. QED
      BY <3>2, <3>3 DEF IInv
  <2>3. QED
    BY <2>1, <2>2
<1>5. ASSUME RetryApply PROVE IInv'
  <2>1. Scalars'
    BY <1>1, <1>5 DEF RetryApply, Scalars
  <2>2. CASE phase # "run" \/ ks.pending # 0 \/ ks.active = 0
    <3>1. UNCHANGED <<ks, guards, phase, enabled>>
      BY <1>5, <2>2 DEF RetryApply, Now
    <3>2. Sound'
      BY <1>1, <3>1 DEF Sound
    <3>3. QED
      BY <2>1, <3>2 DEF IInv
  <2>3. CASE ~(phase # "run" \/ ks.pending # 0 \/ ks.active = 0)
    <3>1. Now(apply(ks, guards, enabled, config)) /\ UNCHANGED <<phase, enabled>>
      BY <1>5, <2>3 DEF RetryApply
    <3>2. Sound'
      BY <1>2, <2>3, <3>1 DEF Sound
    <3>3. QED
      BY <2>1, <3>2 DEF IInv
  <2>4. QED
    BY <2>2, <2>3
<1>6. ASSUME Shutdown PROVE IInv'
  <2>1. Scalars'
    BY <1>1, <1>6 DEF Shutdown, Scalars
  <2> DEFINE j == [ks EXCEPT !.active = 0, !.pending = 0, !.waiters = {}]
             cs == closeGuard(guards, DOMAIN guards)
  <2>2. ks' = j /\ guards' = cs /\ phase' = "down"
    BY <1>6 DEF Shutdown
  <2>3. {} \in SUBSET [who : Waiters, idle : BOOLEAN]
    OBVIOUS
  <2>4. ASSUME NEW W \in SUBSET [who : Waiters, idle : BOOLEAN], W = {}
        PROVE  LET i == [ks EXCEPT !.active = 0, !.pending = 0, !.waiters = W] IN
               /\ i \in Switches /\ i.active = 0 /\ i.pending = 0 /\ i.waiters = {}
               /\ i.state = ks.state /\ i.code = ks.code
    BY <1>1, <2>4 DEF Switches
  <2>5. /\ j \in Switches /\ j.active = 0 /\ j.pending = 0 /\ j.waiters = {}
        /\ j.state = ks.state /\ j.code = ks.code
    BY <2>3, <2>4
  <2> HIDE DEF j
  <2>6. Pointers(j, cs) /\ Waits(j) /\ Coded(j)
    BY <1>1, <2>5 DEF Pointers, Waits, Coded, Basic
  <2>7. cs \in Seq(Guards) /\ Spoke(cs)
    BY <1>1, Closed DEF Basic, Spoke
  <2> HIDE DEF cs
  <2>8. Sound'
    BY <2>2, <2>5, <2>6, <2>7 DEF Sound, Basic
  <2>9. QED
    BY <2>1, <2>8 DEF IInv
<1>7. QED
  BY <1>3, <1>4, <1>5, <1>6

\* What KillSwitch hears from or does to one guard.
LEMMA HandlerSound ==
  ASSUME IInv, NEW g \in DOMAIN guards,
         handleLine(g) \/ onReadyTimeout(g) \/ onEnded(g) \/ StopHard(g)
  PROVE  IInv'
<1>1. /\ Scalars /\ guards \in Seq(Guards) /\ Spoke(guards) /\ guards[g] \in Guards
  BY ElementOfSeq, LenProperties DEF IInv, Sound, Basic
<1>2. ASSUME UNCHANGED lineFrame, retries' \in Nat PROVE Scalars'
  BY <1>1, <1>2 DEF lineFrame, Scalars
<1>3. ASSUME NEW gs \in Seq(Guards), DOMAIN gs = DOMAIN guards, Spoke(gs),
             \A h \in DOMAIN guards : h # g => gs[h] = guards[h]
      PROVE  LET cs == closeGuard(gs, {g}) IN
             /\ cs \in Seq(Guards) /\ DOMAIN cs = DOMAIN guards /\ Spoke(cs)
             /\ \A h \in DOMAIN guards : h # g => cs[h] = guards[h]
  <2>1. Spoke(closeGuard(gs, {g}))
    BY <1>3, Closed DEF Spoke
  <2>2. \A h \in DOMAIN guards : h # g => closeGuard(gs, {g})[h] = guards[h]
    BY <1>3 DEF closeGuard
  <2>3. QED
    BY <1>3, <2>1, <2>2, Closed
<1>4. ASSUME handleLine(g) PROVE IInv'
  <2> DEFINE line == Head(guards[g].out)
             gs == [guards EXCEPT ![g] = [guards[g] EXCEPT !.out = Tail(guards[g].out)]]
  <2>1. guards[g].out \in Seq([verb : {"READY", "ERROR", "FAIL"}, code : Codes])
    BY <1>1 DEF Guards
  <2>2. guards[g].out # <<>> /\ UNCHANGED lineFrame
    BY <1>4 DEF handleLine
  <2>3. /\ line.verb \in {"READY", "ERROR", "FAIL"} /\ line.code \in Codes
        /\ Tail(guards[g].out) \in Seq([verb : {"READY", "ERROR", "FAIL"}, code : Codes])
    <3> DEFINE L == [verb : {"READY", "ERROR", "FAIL"}, code : Codes]
    <3>1. line \in L /\ Tail(guards[g].out) \in Seq(L)
      <4> HIDE DEF L
      <4> QED
        BY <2>1, <2>2, HeadTailProperties DEF L
    <3>2. QED
      BY <3>1
  <2>4. ASSUME NEW o \in Seq([verb : {"READY", "ERROR", "FAIL"}, code : Codes])
        PROVE  /\ [guards[g] EXCEPT !.out = o] \in Guards
               /\ [guards[g] EXCEPT !.out = o].proc = guards[g].proc
               /\ [guards[g] EXCEPT !.out = o].ready = guards[g].ready
               /\ [guards[g] EXCEPT !.out = o].closing = guards[g].closing
    BY <1>1 DEF Guards
  <2> DEFINE n == [guards[g] EXCEPT !.out = Tail(guards[g].out)]
  <2>5. /\ n \in Guards /\ n.proc = guards[g].proc /\ n.ready = guards[g].ready
        /\ n.closing = guards[g].closing
    BY <2>3, <2>4
  <2>6. gs = [guards EXCEPT ![g] = n] /\ gs = [guards EXCEPT ![g].out = Tail(guards[g].out)]
    OBVIOUS
  <2> HIDE DEF n, gs
  <2>7. /\ gs \in Seq(Guards) /\ DOMAIN gs = DOMAIN guards
        /\ \A h \in DOMAIN guards : gs[h] = IF h = g THEN n ELSE guards[h]
    BY <1>1, <2>5, <2>6, GuardSet
  <2>8. guards[g].proc \in {"armed", "ended"} /\ Spoke(gs)
    BY <1>1, <2>2, <2>5, <2>7 DEF Spoke
  <2>9. \/ line.verb = "READY" /\ onReady(g, gs)
        \/ line.verb # "READY" /\ guards' = gs /\ UNCHANGED <<ks, retries>>
        \/ line.verb # "READY" /\ Lost(g, closeGuard(gs, {g}), line.code)
    BY <1>4, <2>6 DEF handleLine
  <2> HIDE DEF line
  <2>10. UNCHANGED <<phase, enabled>>
    BY <2>2 DEF lineFrame
  <2>11. CASE onReady(g, gs)
    BY <1>2, <2>2, <2>6, <2>7, <2>10, <2>11, ReadySound DEF IInv
  <2>12. CASE guards' = gs /\ UNCHANGED <<ks, retries>>
    <3>1. retries' \in Nat
      BY <1>1, <2>12 DEF Scalars
    <3>2. \A h \in DOMAIN guards :
           /\ guards'[h].ready = guards[h].ready
           /\ (guards'[h].closing <=> guards[h].closing)
           /\ guards'[h].proc = guards[h].proc
           /\ guards'[h].out # <<>> => guards'[h].proc \in {"armed", "ended"}
      BY <1>1, <2>5, <2>7, <2>8, <2>12 DEF Spoke
    <3>3. Sound'
      BY <2>7, <2>10, <2>12, <3>2, GuardStep
    <3>4. QED
      BY <1>2, <2>2, <3>1, <3>3 DEF IInv
  <2>13. CASE Lost(g, closeGuard(gs, {g}), line.code)
    <3> DEFINE cs == closeGuard(gs, {g})
    <3>1. /\ cs \in Seq(Guards) /\ DOMAIN cs = DOMAIN guards /\ Spoke(cs)
          /\ \A h \in DOMAIN guards : h # g => cs[h] = guards[h]
      BY <1>3, <2>7, <2>8
    <3> HIDE DEF cs
    <3>2. Lost(g, cs, line.code)
      BY <2>13 DEF cs
    <3>3. line.code \in Codes
      BY <2>3 DEF line
    <3>4. Sound' /\ retries' \in Nat
      BY <2>10, <3>1, <3>2, <3>3, LostSound
    <3>5. QED
      BY <1>2, <2>2, <3>4 DEF IInv
  <2>14. QED
    BY <2>9, <2>11, <2>12, <2>13
<1>5. ASSUME onReadyTimeout(g) PROVE IInv'
  <2> DEFINE cs == closeGuard(guards, {g})
  <2>1. /\ cs \in Seq(Guards) /\ DOMAIN cs = DOMAIN guards /\ Spoke(cs)
        /\ \A h \in DOMAIN guards : h # g => cs[h] = guards[h]
    BY <1>1, <1>3
  <2> HIDE DEF cs
  <2>2. Lost(g, cs, "transient") /\ UNCHANGED lineFrame
    BY <1>5 DEF onReadyTimeout, Lost, cs
  <2>3. Sound' /\ retries' \in Nat
    BY <2>1, <2>2, LostSound DEF lineFrame, Codes
  <2>4. QED
    BY <1>2, <2>2, <2>3 DEF IInv
<1>6. ASSUME onEnded(g) PROVE IInv'
  <2> DEFINE cs == closeGuard(guards, {g})
             n == [cs[g] EXCEPT !.proc = "gone"]
             gs == [cs EXCEPT ![g] = n]
  <2>1. /\ cs \in Seq(Guards) /\ DOMAIN cs = DOMAIN guards /\ Spoke(cs)
        /\ \A h \in DOMAIN guards : h # g => cs[h] = guards[h]
    BY <1>1, <1>3
  <2>2. guards[g].out = <<>> /\ UNCHANGED lineFrame
    BY <1>6 DEF onEnded
  <2>3. /\ cs[g] \in Guards /\ cs[g].out = <<>> /\ cs[g].ready = guards[g].ready
    BY <1>1, <2>1, <2>2, Closed, ElementOfSeq, LenProperties
  <2>4. n \in Guards /\ n.out = <<>> /\ n.ready = guards[g].ready
    BY <2>3 DEF Guards
  <2>5. \/ guards[g].closing /\ guards' = gs /\ UNCHANGED <<ks, retries>>
        \/ Lost(g, gs, "transient")
    BY <1>6 DEF onEnded
  <2> HIDE DEF cs, n
  <2>6. /\ gs \in Seq(Guards) /\ DOMAIN gs = DOMAIN guards
        /\ \A h \in DOMAIN guards : gs[h] = IF h = g THEN n ELSE cs[h]
    BY <2>1, <2>4, GuardSet
  <2> HIDE DEF gs
  <2>7. Spoke(gs) /\ \A h \in DOMAIN guards : h # g => gs[h] = guards[h]
    BY <2>1, <2>4, <2>6 DEF Spoke
  <2>8. UNCHANGED <<phase, enabled>>
    BY <2>2 DEF lineFrame
  <2>9. CASE guards[g].closing /\ guards' = gs /\ UNCHANGED <<ks, retries>>
    <3>1. retries' \in Nat
      BY <1>1, <2>9 DEF Scalars
    <3>2. g \notin {ks.active, ks.pending}
      <4>1. Pointers(ks, guards) /\ g # 0
        BY <1>1, LenProperties DEF IInv, Sound, Basic
      <4>2. QED
        BY <2>9, <4>1 DEF Pointers
    <3>3. \A h \in DOMAIN guards :
           /\ guards'[h].ready = guards[h].ready
           /\ h # g => guards'[h] = guards[h]
           /\ guards'[h].out # <<>> => guards'[h].proc \in {"armed", "ended"}
      BY <2>4, <2>6, <2>7, <2>9 DEF Spoke
    <3>4. Sound'
      BY <2>6, <2>8, <2>9, <3>2, <3>3, GuardStep
    <3>5. QED
      BY <1>2, <2>2, <3>1, <3>4 DEF IInv
  <2>10. CASE Lost(g, gs, "transient")
    <3>1. Sound' /\ retries' \in Nat
      BY <2>6, <2>7, <2>8, <2>10, LostSound DEF Codes
    <3>2. QED
      BY <1>2, <2>2, <3>1 DEF IInv
  <2>11. QED
    BY <2>5, <2>9, <2>10
<1>7. ASSUME StopHard(g) PROVE IInv'
  <2> DEFINE n == [guards[g] EXCEPT !.proc = "ended"]
  <2>1. /\ n \in Guards /\ n.proc = "ended" /\ n.ready = guards[g].ready
        /\ n.closing = guards[g].closing /\ n.out = guards[g].out
    BY <1>1 DEF Guards
  <2>2. guards' = [guards EXCEPT ![g] = n] /\ UNCHANGED <<ks, retries, lineFrame>>
    BY <1>7 DEF StopHard
  <2> HIDE DEF n
  <2>3. /\ guards' \in Seq(Guards) /\ DOMAIN guards' = DOMAIN guards
        /\ \A h \in DOMAIN guards : guards'[h] = IF h = g THEN n ELSE guards[h]
    BY <1>1, <2>1, <2>2, GuardSet
  <2>4. Sound'
    BY <1>1, <2>1, <2>2, <2>3, GuardStep DEF Spoke, lineFrame
  <2>5. QED
    BY <1>1, <1>2, <2>2, <2>4 DEF IInv, Scalars
<1>8. QED
  BY <1>4, <1>5, <1>6, <1>7

\* Steps of a guard process.
LEMMA ProcessSound == IInv /\ (Processes \/ Breakage) => IInv'
<1> SUFFICES ASSUME IInv, Processes \/ Breakage PROVE IInv'
  OBVIOUS
<1>1. Scalars /\ guards \in Seq(Guards) /\ Spoke(guards)
  BY DEF IInv, Sound, Basic
<1>2. ASSUME UNCHANGED guardFrame, faults' = faults \/ Fault PROVE Scalars'
  BY <1>1, <1>2, KillSwitchBounds DEF guardFrame, Fault, Scalars
<1> DEFINE Lines == Seq([verb : {"READY", "ERROR", "FAIL"}, code : Codes])
<1>3. \A v \in {"READY", "ERROR", "FAIL"}, code \in Codes :
        Line(v, code) \in [verb : {"READY", "ERROR", "FAIL"}, code : Codes]
  BY DEF Line
<1>4. ASSUME NEW g \in DOMAIN guards, NEW n \in Guards, guards' = [guards EXCEPT ![g] = n],
             n.ready = guards[g].ready, n.closing = guards[g].closing,
             guards[g].proc \in {"armed", "ended"} => n.proc \in {"armed", "ended"},
             n.out # <<>> => n.proc \in {"armed", "ended"},
             UNCHANGED guardFrame
      PROVE  Sound'
  <2>1. /\ guards' \in Seq(Guards) /\ DOMAIN guards' = DOMAIN guards
        /\ \A h \in DOMAIN guards : guards'[h] = IF h = g THEN n ELSE guards[h]
    BY <1>1, <1>4, GuardSet
  <2>2. \A h \in DOMAIN guards :
          /\ guards'[h].ready = guards[h].ready
          /\ guards'[h].closing = guards[h].closing
          /\ guards[h].proc \in {"armed", "ended"} => guards'[h].proc \in {"armed", "ended"}
          /\ guards'[h].out # <<>> => guards'[h].proc \in {"armed", "ended"}
    BY <1>1, <1>4, <2>1 DEF Spoke
  <2>3. QED
    BY <1>4, <2>1, <2>2, GuardStep DEF guardFrame
<1>5. ASSUME NEW g \in DOMAIN guards, NEW proc \in {"armed", "ended", "execFailed"},
             NEW lines \in Lines, Becomes(g, proc, lines), UNCHANGED guardFrame,
             guards[g].proc \in {"starting", "armed"},
             proc = "execFailed" => guards[g].proc = "starting" /\ lines = <<>>
      PROVE  Sound'
  <2> DEFINE o == guards[g].out \o lines
             n == [guards[g] EXCEPT !.proc = proc, !.out = o]
  <2>1. guards[g] \in Guards /\ guards[g].out \in Lines
    <3>1. guards[g] \in Guards
      BY <1>1, ElementOfSeq, LenProperties
    <3>2. QED
      BY <3>1 DEF Guards
  <2>2. o \in Lines /\ (proc = "execFailed" => o = <<>>)
    <3>1. o \in Lines
      <4> HIDE DEF o
      <4> QED
        BY <1>5, <2>1, ConcatProperties DEF o
    <3>2. proc = "execFailed" => guards[g].out = <<>> /\ lines = <<>>
      BY <1>1, <1>5 DEF Spoke
    <3>3. ASSUME guards[g].out = <<>>, lines = <<>> PROVE o = <<>>
      BY <1>5, <3>3, ConcatEmptySeq
    <3>4. QED
      BY <3>1, <3>2, <3>3
  <2>3. guards' = [guards EXCEPT ![g] = n]
    BY <1>5 DEF Becomes
  <2> HIDE DEF o
  <2>4. /\ n \in Guards /\ n.proc = proc /\ n.out = o /\ n.ready = guards[g].ready
        /\ n.closing = guards[g].closing
    BY <2>1, <2>2 DEF Guards
  <2> HIDE DEF n
  <2>5. QED
    BY <1>4, <1>5, <2>2, <2>3, <2>4
<1>6. <<>> \in Lines
  OBVIOUS
<1>7. \A v \in {"READY", "ERROR", "FAIL"}, code \in Codes : <<Line(v, code)>> \in Lines
  <2> TAKE v \in {"READY", "ERROR", "FAIL"}, code \in Codes
  <2>1. Line(v, code) \in [verb : {"READY", "ERROR", "FAIL"}, code : Codes]
    BY <1>3
  <2>2. ASSUME NEW S, NEW e \in S PROVE <<e>> \in Seq(S)
    OBVIOUS
  <2>3. QED
    BY <2>1, <2>2
<1>8. "transient" \in Codes /\ "persistent" \in Codes
  BY DEF Codes
<1> HIDE DEF Lines
<1>9. ASSUME NEW g \in DOMAIN guards, GuardArms(g) PROVE IInv'
  <2>1. <<Line("READY", "transient")>> \in Lines
    BY <1>7, <1>8
  <2>2. Sound'
    BY <1>5, <1>9, <2>1 DEF GuardArms
  <2>3. QED
    BY <1>2, <1>9, <2>2 DEF GuardArms, IInv
<1>10. ASSUME NEW g \in DOMAIN guards, GuardDisarms(g) PROVE IInv'
  <2>1. Sound'
    BY <1>5, <1>6, <1>10 DEF GuardDisarms
  <2>2. QED
    BY <1>2, <1>10, <2>1 DEF GuardDisarms, IInv
<1>11. ASSUME NEW g \in DOMAIN guards, GuardFails(g) PROVE IInv'
  <2>1. <<Line("FAIL", "transient")>> \in Lines
    BY <1>7, <1>8
  <2>2. Sound'
    BY <1>5, <1>11, <2>1 DEF GuardFails
  <2>3. QED
    BY <1>2, <1>11, <2>2 DEF GuardFails, IInv
<1>12. ASSUME NEW g \in DOMAIN guards, GuardBreaks(g) PROVE IInv'
  <2>1. Sound'
    BY <1>5, <1>6, <1>12 DEF GuardBreaks
  <2>2. QED
    BY <1>2, <1>12, <2>1 DEF GuardBreaks, IInv
<1>13. ASSUME NEW g \in DOMAIN guards, GuardHangs(g) PROVE IInv'
  <2> DEFINE n == [guards[g] EXCEPT !.late = TRUE]
  <2>1. guards[g] \in Guards
    BY <1>1, ElementOfSeq, LenProperties
  <2>2. /\ n \in Guards /\ n.proc = guards[g].proc /\ n.out = guards[g].out
        /\ n.ready = guards[g].ready /\ n.closing = guards[g].closing
    BY <2>1 DEF Guards
  <2>3. guards' = [guards EXCEPT ![g] = n] /\ UNCHANGED guardFrame
    BY <1>13 DEF GuardHangs
  <2> HIDE DEF n
  <2>4. n.out # <<>> => n.proc \in {"armed", "ended"}
    BY <1>1, <2>2 DEF Spoke
  <2>5. Sound'
    BY <1>4, <2>2, <2>3, <2>4
  <2>6. QED
    BY <1>2, <1>13, <2>3, <2>5 DEF GuardHangs, IInv
<1>14. ASSUME NEW g \in DOMAIN guards, NEW code \in Codes, GuardRefuses(g, code) PROVE IInv'
  <2>1. guards[g] \in Guards
    BY <1>1, ElementOfSeq, LenProperties
  <2>2. (code = "persistent") \in BOOLEAN
    OBVIOUS
  <2>3. Append(guards[g].out, Line("ERROR", code)) \in Lines
    <3>1. ASSUME NEW S, NEW q \in Seq(S), NEW e \in S PROVE Append(q, e) \in Seq(S)
      OBVIOUS
    <3>2. guards[g].out \in Lines
      BY <2>1 DEF Guards, Lines
    <3>3. QED
      BY <1>3, <3>1, <3>2 DEF Lines
  <2>4. ASSUME NEW o \in Lines, NEW b \in BOOLEAN
        PROVE  LET n == [guards[g] EXCEPT !.proc = "ended", !.refused = b, !.out = o] IN
               /\ n \in Guards /\ n.proc = "ended" /\ n.ready = guards[g].ready
               /\ n.closing = guards[g].closing
    BY <2>1 DEF Guards, Lines
  <2> DEFINE n == [guards[g] EXCEPT !.proc = "ended", !.refused = (code = "persistent"),
                                    !.out = Append(guards[g].out, Line("ERROR", code))]
  <2>5. /\ n \in Guards /\ n.proc = "ended" /\ n.ready = guards[g].ready
        /\ n.closing = guards[g].closing
    BY <2>2, <2>3, <2>4
  <2>6. guards' = [guards EXCEPT ![g] = n] /\ UNCHANGED guardFrame
    BY <1>14 DEF GuardRefuses
  <2> HIDE DEF n
  <2>7. Sound'
    BY <1>4, <2>5, <2>6
  <2>8. QED
    BY <1>2, <1>14, <2>6, <2>7 DEF GuardRefuses, IInv
<1>15. QED
  BY <1>9, <1>10, <1>11, <1>12, <1>13, <1>14 DEF Processes, Breakage

\* A death of the application changes neither KillSwitch nor a guard.
LEMMA DeathSound == IInv /\ AppDies => IInv'
<1> SUFFICES ASSUME IInv, AppDies PROVE IInv'
  OBVIOUS
<1>1. Scalars'
  BY KillSwitchBounds DEF IInv, Scalars, AppDies, Fault
<1>2. Sound'
  BY DEF IInv, Sound, AppDies
<1>3. QED
  BY <1>1, <1>2 DEF IInv

\* Every step keeps the invariant.
LEMMA StepSound == IInv /\ [Next]_vars => IInv'
<1> SUFFICES ASSUME IInv, [Next]_vars PROVE IInv'
  OBVIOUS
<1>1. CASE Next
  BY <1>1, RequestSound, CallSound, HandlerSound, DeathSound, ProcessSound DEF Next, Handlers
<1>2. CASE UNCHANGED vars
  BY <1>2 DEF vars, IInv, Scalars, Sound
<1>3. QED
  BY <1>1, <1>2

-----------------------------------------------------------------------------
(* The theorems.                                                           *)

\* The inductive invariant says what the properties say.
LEMMA Implied == IInv => TypeOK /\ ArmedIsGuarded /\ StateAgrees /\ NoForgottenWaiter
<1> SUFFICES ASSUME IInv PROVE TypeOK /\ ArmedIsGuarded /\ StateAgrees /\ NoForgottenWaiter
  OBVIOUS
<1>1. TypeOK
  BY DEF IInv, Sound, Scalars, Basic, Coded, TypeOK
<1>2. ArmedIsGuarded
  BY DEF IInv, Sound, Basic, Pointers, States, Told, ArmedIsGuarded
<1>3. StateAgrees
  BY DEF IInv, Sound, States, Told, StateAgrees
<1>4. NoForgottenWaiter
  BY DEF IInv, Sound, Basic, Waits, NoForgottenWaiter
<1>5. QED
  BY <1>1, <1>2, <1>3, <1>4

-----------------------------------------------------------------------------
(* Settings reach the guard, without a gap.                                *)

\* A guard that is starting was not refused, one that is armed has said nothing but
\* READY, and one that has printed a persistent error was refused.
Said(n) ==
  /\ n.proc = "starting" => ~n.refused
  /\ \A i \in DOMAIN n.out :
       n.out[i].verb # "READY" =>
         /\ n.proc \notin {"starting", "armed"}
         /\ n.out[i].code = "persistent" => n.refused
\* So of every guard.
Lines(gs) == \A g \in DOMAIN gs : Said(gs[g])

\* The pending guard has the settings c, and an active one with others is being
\* replaced, unless one of the n timers will do it or a guard refused c.
Due(k, gs, c, n) ==
  /\ k.pending # 0 => gs[k.pending].config = c
  /\ k.active # 0 /\ gs[k.active].config # c =>
       k.pending # 0 \/ n > 0 \/ \E g \in DOMAIN gs : gs[g].refused /\ gs[g].config = c

\* So it is whenever no call of SetApiPort is queued.
Reached == phase = "run" /\ ports = 0 => Due(ks, guards, config, retries)

\* Overridden, the switch has no guard.
Overrides == overridden => ks.active = 0 /\ ks.pending = 0

\* What SettingsReachGuard and NoGap need beside IInv.
JInv == Lines(guards) /\ Reached /\ Overrides

\* hs are the guards gs, perhaps with one more that is starting.
Same(gs, hs) ==
  /\ \A g \in DOMAIN gs :
       /\ g \in DOMAIN hs
       /\ hs[g].config = gs[g].config /\ hs[g].refused = gs[g].refused
       /\ hs[g].proc = gs[g].proc /\ hs[g].out = gs[g].out
  /\ \A g \in DOMAIN hs :
       g \in DOMAIN gs \/ (hs[g].proc = "starting" /\ hs[g].out = <<>> /\ ~hs[g].refused)

\* No guard of gs that is READY is closed in hs.
Spares(gs, hs) == \A g \in DOMAIN gs : gs[g].ready /\ ~gs[g].closing => ~hs[g].closing

\* A step leaves no gap (NoGap).
Covered ==
  \A g \in DOMAIN guards :
    /\ guards[g].ready /\ guards[g].proc = "armed" /\ ~guards[g].closing
    /\ guards'[g].closing /\ enabled' /\ phase' # "down"
    => ks'.active # 0 /\ ks'.active # g /\ guards'[ks'.active].ready

\* Guards that are the same have said the same.
LEMMA SameLines ==
  ASSUME NEW gs, NEW hs, Same(gs, hs), Lines(gs)
  PROVE  Lines(hs)
<1> SUFFICES ASSUME NEW g \in DOMAIN hs PROVE Said(hs[g])
  BY DEF Lines
<1>1. CASE g \in DOMAIN gs
  BY <1>1 DEF Same, Lines, Said
<1>2. CASE hs[g].proc = "starting" /\ hs[g].out = <<>> /\ ~hs[g].refused
  BY <1>2 DEF Said
<1> QED
  BY <1>1, <1>2 DEF Same

\* closeGuard keeps the guards the same.
LEMMA ClosedSame ==
  ASSUME NEW gs \in Seq(Guards), NEW S
  PROVE  /\ Same(gs, closeGuard(gs, S))
         /\ (\A g \in S : g \in DOMAIN gs => ~gs[g].ready) => Spares(gs, closeGuard(gs, S))
<1> DEFINE cs == closeGuard(gs, S)
<1>1. /\ DOMAIN cs = DOMAIN gs
      /\ \A g \in DOMAIN gs :
           /\ cs[g].proc = gs[g].proc /\ cs[g].out = gs[g].out /\ cs[g].config = gs[g].config
           /\ cs[g].refused = gs[g].refused /\ (cs[g].closing <=> (g \in S \/ gs[g].closing))
  BY Closed
<1> HIDE DEF cs
<1> QED
  BY <1>1 DEF Same, Spares, cs

\* spawn adds a guard for the settings, and closes none that is READY.
LEMMA SpawnDue ==
  ASSUME NEW k \in Switches, NEW gs \in Seq(Guards), NEW c \in Configs,
         k.pending \in DOMAIN gs => ~gs[k.pending].ready
  PROVE  LET r == spawn(k, gs, c) IN
         /\ Same(gs, r[2]) /\ Spares(gs, r[2]) /\ r[1].active = k.active
         /\ r[1].pending # 0 /\ r[2][r[1].pending].config = c
<1> DEFINE s == IF k.active = 0 /\ ~k.identityUnsupported THEN setState(k, "Arming") ELSE k
           n == Len(gs) + 1
           k1 == [s EXCEPT !.pending = n]
           cs == closeGuard(gs, {k.pending})
           as == Append(cs, NewGuard(c))
<1>1. Len(gs) \in Nat /\ DOMAIN gs = 1 .. Len(gs)
  BY LenProperties
<1>2. s \in Switches /\ s.active = k.active
  BY StateSet
<1> HIDE DEF s
<1>3. k1.active = k.active /\ k1.pending = n /\ n # 0
  BY <1>1, <1>2 DEF Switches
<1>4. cs \in Seq(Guards) /\ Len(cs) = Len(gs) /\ DOMAIN cs = DOMAIN gs
  BY Closed
<1>5. Same(gs, cs) /\ Spares(gs, cs)
  BY ClosedSame
<1>6. spawn(k, gs, c) = <<k1, as>>
  BY DEF spawn, s
<1> HIDE DEF cs
<1>7. DOMAIN as = 1 .. n /\ (\A g \in DOMAIN gs : as[g] = cs[g]) /\ as[n] = NewGuard(c)
  BY <1>4, Appended
<1>8. \A g \in DOMAIN as : g \in DOMAIN gs \/ g = n
  BY <1>1, <1>7
<1>9. \A g \in DOMAIN gs : g \in DOMAIN as
  BY <1>1, <1>7
<1>10. as[n].config = c /\ as[n].proc = "starting" /\ as[n].out = <<>> /\ ~as[n].refused
  BY <1>7 DEF NewGuard
<1> HIDE DEF as, k1, n
<1>11. Same(gs, as)
  BY <1>4, <1>5, <1>7, <1>8, <1>9, <1>10 DEF Same
<1>12. Spares(gs, as)
  BY <1>5, <1>7 DEF Spares
<1>13. spawn(k, gs, c)[1] = k1 /\ spawn(k, gs, c)[2] = as
  BY <1>6
<1> QED
  BY <1>3, <1>10, <1>11, <1>12, <1>13

\* Whatever guards apply() finds, it leaves the settings c in force or on their way, and
\* it closes a READY guard only when the switch is off or overridden.
LEMMA ApplyDue ==
  ASSUME NEW k, NEW gs, NEW on \in BOOLEAN, NEW c \in Configs, NEW n, Basic(k, gs),
         phase # "down", overridden \in BOOLEAN
  PROVE  LET r == apply(k, gs, on, c) IN
         /\ Same(gs, r[2]) /\ Due(r[1], r[2], c, n)
         /\ overridden => r[1].active = 0 /\ r[1].pending = 0
         /\ on /\ (overridden => k.active = 0) => Spares(gs, r[2])
<1>1. /\ k \in Switches /\ gs \in Seq(Guards) /\ Pointers(k, gs)
      /\ k.pending \in DOMAIN gs => ~gs[k.pending].ready
      /\ 0 \notin DOMAIN gs
  BY LenProperties DEF Basic, Pointers
<1> DEFINE cs == closeGuard(gs, {k.active, k.pending})
<1>2. /\ Same(gs, cs)
      /\ k.active = 0 => Spares(gs, cs)
  BY <1>1, ClosedSame
<1>3. ASSUME NEW j \in Switches
      PROVE  LET q == settle([j EXCEPT !.active = 0, !.pending = 0]) IN
             q.active = 0 /\ q.pending = 0
  <2>1. /\ [j EXCEPT !.active = 0, !.pending = 0] \in Switches
        /\ [j EXCEPT !.active = 0, !.pending = 0].active = 0
        /\ [j EXCEPT !.active = 0, !.pending = 0].pending = 0
    BY DEF Switches
  <2> QED
    BY <2>1, Settled
<1>4. ASSUME NEW j \in Switches, apply(k, gs, on, c) = Off(k, gs, j), on => overridden
      PROVE  LET r == apply(k, gs, on, c) IN
             /\ Same(gs, r[2]) /\ Due(r[1], r[2], c, n)
             /\ overridden => r[1].active = 0 /\ r[1].pending = 0
             /\ on /\ (overridden => k.active = 0) => Spares(gs, r[2])
  <2> DEFINE q == settle([j EXCEPT !.active = 0, !.pending = 0])
  <2>1. apply(k, gs, on, c) = <<q, cs>>
    BY <1>4 DEF Off
  <2>2. q.active = 0 /\ q.pending = 0
    BY <1>3
  <2> HIDE DEF q, cs
  <2> QED
    BY <1>2, <1>4, <2>1, <2>2 DEF Due
<1>5. CASE ~on
  <2> DEFINE i == [k EXCEPT !.identityUnsupported = FALSE]
  <2>1. i \in Switches
    BY <1>1 DEF Switches
  <2>2. apply(k, gs, on, c) = Off(k, gs, setState(i, "Disabled"))
    BY <1>5 DEF apply
  <2>3. setState(i, "Disabled") \in Switches
    BY <2>1, StateSet
  <2> QED
    BY <1>4, <1>5, <2>2, <2>3
<1>6. CASE on /\ overridden
  <2>1. apply(k, gs, on, c) = Off(k, gs, [k EXCEPT !.state = "Failed", !.code = "overridden"])
    BY <1>6 DEF apply
  <2>2. [k EXCEPT !.state = "Failed", !.code = "overridden"] \in Switches
    BY <1>1 DEF Switches
  <2> QED
    BY <1>4, <1>6, <2>1, <2>2
<1>7. CASE on /\ ~overridden
  <2> DEFINE i == Identified(k)
  <2>1. apply(k, gs, on, c) = Arm(i, gs, c)
    BY <1>7 DEF apply
  <2>2. i \in Switches /\ i.active = k.active /\ i.pending = k.pending
    BY <1>1, Failed DEF Identified, failIdentity
  <2> HIDE DEF i
  <2>3. CASE i.pending # 0 /\ gs[i.pending].config = c
    <3>1. Arm(i, gs, c) = <<i, gs>>
      BY <2>3 DEF Arm
    <3>2. Same(gs, gs) /\ Spares(gs, gs)
      BY DEF Same, Spares
    <3>3. Due(i, gs, c, n)
      BY <2>3 DEF Due
    <3>4. apply(k, gs, on, c)[1] = i /\ apply(k, gs, on, c)[2] = gs
      BY <2>1, <3>1
    <3> QED
      BY <1>7, <3>2, <3>3, <3>4
  <2>4. CASE ~(i.pending # 0 /\ gs[i.pending].config = c) /\ i.active # 0 /\ gs[i.active].config = c
    <3> DEFINE ds == closeGuard(gs, {i.pending})
               j == IF i.pending = 0 THEN i ELSE settle([i EXCEPT !.pending = 0])
    <3>1. Arm(i, gs, c) = <<j, ds>>
      BY <2>4 DEF Arm
    <3>2. Same(gs, ds) /\ Spares(gs, ds)
      BY <1>1, <2>2, ClosedSame
    <3>3. j.pending = 0 /\ j.active = i.active
      <4>1. /\ [i EXCEPT !.pending = 0] \in Switches
            /\ [i EXCEPT !.pending = 0].pending = 0 /\ [i EXCEPT !.pending = 0].active = i.active
        BY <2>2 DEF Switches
      <4> QED
        BY <4>1, Settled
    <3>4. i.active \in DOMAIN gs
      BY <1>1, <2>2, <2>4 DEF Pointers
    <3> HIDE DEF j, ds
    <3>5. ds[i.active].config = c
      BY <2>4, <3>2, <3>4 DEF Same
    <3>6. Due(j, ds, c, n)
      BY <3>3, <3>5 DEF Due
    <3>7. apply(k, gs, on, c)[1] = j /\ apply(k, gs, on, c)[2] = ds
      BY <2>1, <3>1
    <3> QED
      BY <1>7, <3>2, <3>6, <3>7
  <2>5. CASE /\ ~(i.pending # 0 /\ gs[i.pending].config = c)
             /\ ~(i.active # 0 /\ gs[i.active].config = c)
    <3>1. Arm(i, gs, c) = spawn(i, gs, c)
      BY <2>5 DEF Arm
    <3> DEFINE r == spawn(i, gs, c)
    <3>2. /\ Same(gs, r[2]) /\ Spares(gs, r[2])
          /\ r[1].pending # 0 /\ r[2][r[1].pending].config = c
      BY <1>1, <2>2, SpawnDue
    <3> HIDE DEF r
    <3> QED
      BY <1>7, <2>1, <3>1, <3>2 DEF Due, r
  <2> QED
    BY <2>3, <2>4, <2>5
<1> QED
  BY <1>5, <1>6, <1>7

\* A step that changes nothing the guards have said, closes no READY guard while the
\* switch is on, and leaves the settings due.
LEMMA StepDue ==
  ASSUME JInv, Same(guards, guards'), UNCHANGED overridden,
         overridden => ks'.active = 0 /\ ks'.pending = 0,
         phase' = "run" /\ ports' = 0 => Due(ks', guards', config', retries'),
         enabled' /\ phase' # "down" => Spares(guards, guards')
  PROVE  JInv' /\ Covered
<1>1. Lines(guards')
  BY SameLines DEF JInv
<1>2. Reached' /\ Overrides'
  BY DEF Reached, Overrides
<1>3. Covered
  BY DEF Covered, Spares
<1> QED
  BY <1>1, <1>2, <1>3 DEF JInv

\* Such a step is an apply() of the settings, by whoever calls it.
LEMMA AppliedDue ==
  ASSUME IInv, JInv, phase # "down", NEW k, Basic(k, guards), k.active = ks.active,
         Now(apply(k, guards, enabled', config')), UNCHANGED overridden,
         enabled' \in BOOLEAN, config' \in Configs
  PROVE  JInv' /\ Covered
<1> DEFINE r == apply(k, guards, enabled', config')
<1>1. overridden \in BOOLEAN
  BY DEF IInv, Scalars
<1>2. ks' = r[1] /\ guards' = r[2]
  BY DEF Now
<1>3. /\ Same(guards, r[2]) /\ Due(r[1], r[2], config', retries')
      /\ overridden => r[1].active = 0 /\ r[1].pending = 0
      /\ enabled' /\ (overridden => k.active = 0) => Spares(guards, r[2])
  BY <1>1, ApplyDue
<1>4. overridden => k.active = 0
  BY DEF JInv, Overrides
<1> HIDE DEF r
<1> QED
  BY <1>2, <1>3, <1>4, StepDue

\* A step that leaves the switch and its guards alone.
LEMMA IdleDue ==
  ASSUME JInv, UNCHANGED <<guards, overridden>>,
         ks'.active = ks.active, ks'.pending = ks.pending,
         phase' = "run" /\ ports' = 0 => Due(ks, guards, config', retries')
  PROVE  JInv' /\ Covered
<1>1. Same(guards, guards') /\ Spares(guards, guards')
  BY DEF Same, Spares
<1>2. overridden => ks'.active = 0 /\ ks'.pending = 0
  BY DEF JInv, Overrides
<1>3. phase' = "run" /\ ports' = 0 => Due(ks', guards', config', retries')
  BY DEF Due
<1> QED
  BY <1>1, <1>2, <1>3, StepDue

\* Requests keep the settings due and leave no gap.
LEMMA RequestDue ==
  ASSUME IInv, JInv, Requests
  PROVE  JInv' /\ Covered
<1>1. /\ Basic(ks, guards) /\ ks \in Switches /\ enabled \in BOOLEAN /\ config \in Configs
      /\ ports \in Nat /\ guards \in Seq(Guards)
  BY DEF IInv, Sound, Scalars, Basic
<1>2. ASSUME NEW on \in BOOLEAN, NEW c \in Configs, ChangeSettings(on, c)
      PROVE  JInv' /\ Covered
  <2>1. /\ enabled' = on /\ config' = c /\ phase # "down" /\ UNCHANGED overridden
        /\ Now(apply(ks, guards, enabled', config'))
    BY <1>2 DEF ChangeSettings
  <2> QED
    BY <1>1, <2>1, AppliedDue
<1>3. ASSUME NEW c \in Configs, SetApiPort(c)
      PROVE  JInv' /\ Covered
  <2>1. ports' # 0 /\ UNCHANGED <<ks, guards, overridden>>
    BY <1>1, <1>3 DEF SetApiPort
  <2> QED
    BY <2>1, IdleDue
<1>4. CASE noteIdentityUnsupported
  <2> DEFINE k == [ks EXCEPT !.identityUnsupported = TRUE]
  <2>1. /\ k \in Switches /\ k.active = ks.active /\ k.pending = ks.pending /\ k.state = ks.state
        /\ k.code = ks.code /\ k.waiters = ks.waiters
    BY <1>1 DEF Switches
  <2>2. /\ phase # "down" /\ UNCHANGED <<overridden, enabled, config>>
        /\ Now(apply(k, guards, enabled, config))
    BY <1>4 DEF noteIdentityUnsupported
  <2> HIDE DEF k
  <2>3. Basic(k, guards)
    BY <1>1, <2>1 DEF Basic, Pointers, Waits, StillWaits, Coded
  <2>4. Now(apply(k, guards, enabled', config')) /\ enabled' \in BOOLEAN /\ config' \in Configs
    BY <1>1, <2>2
  <2> QED
    BY <2>1, <2>2, <2>3, <2>4, AppliedDue
<1>5. CASE CoreStarted
  <2>1. /\ phase # "down" /\ UNCHANGED <<overridden, enabled, config>>
        /\ Now(apply(ks, guards, enabled, config))
    BY <1>5 DEF CoreStarted
  <2>2. Now(apply(ks, guards, enabled', config')) /\ enabled' \in BOOLEAN /\ config' \in Configs
    BY <1>1, <2>1
  <2> QED
    BY <1>1, <2>1, <2>2, AppliedDue
<1>6. CASE BeginExit
  <2>1. UNCHANGED <<ks, guards, overridden>> /\ phase' = "exiting"
    BY <1>6 DEF BeginExit
  <2> QED
    BY <2>1, IdleDue
<1>7. ASSUME NEW k \in Switches, NEW w \in [who : Waiters, idle : BOOLEAN]
      PROVE  /\ Waiting(k, w).active = k.active /\ Waiting(k, w).pending = k.pending
  <2>1. k.waiters \cup {w} \in SUBSET [who : Waiters, idle : BOOLEAN]
    BY DEF Switches
  <2> QED
    BY <2>1 DEF Waiting, Switches
<1>8. ASSUME NEW w \in Waiters, whenSettled(w)
      PROVE  JInv' /\ Covered
  <2>1. /\ UNCHANGED <<guards, overridden, config, retries, phase, ports>>
        /\ ks' = Waiting(ks, [who |-> w, idle |-> FALSE])
    BY <1>8 DEF whenSettled
  <2>2. ks'.active = ks.active /\ ks'.pending = ks.pending
    BY <1>1, <1>7, <2>1
  <2>3. phase' = "run" /\ ports' = 0 => Due(ks, guards, config', retries')
    BY <2>1 DEF JInv, Reached
  <2> QED
    BY <2>1, <2>2, <2>3, IdleDue
<1>9. ASSUME NEW w \in Waiters, NEW c \in Configs, permitExtraCore(w, c)
      PROVE  JInv' /\ Covered
  <2> DEFINE r == apply(ks, guards, enabled, c)
             who == [who |-> w, idle |-> TRUE]
  <2>1. /\ phase # "down" /\ phase = "run" /\ ks.state # "Disabled"
        /\ UNCHANGED <<overridden, enabled>> /\ config' = c
        /\ ks' = Waiting(r[1], who) /\ guards' = r[2]
    BY <1>9 DEF permitExtraCore, Now
  <2>2. overridden \in BOOLEAN
    BY DEF IInv, Scalars
  <2>3. /\ Same(guards, r[2]) /\ Due(r[1], r[2], c, retries')
        /\ overridden => r[1].active = 0 /\ r[1].pending = 0
        /\ enabled /\ (overridden => ks.active = 0) => Spares(guards, r[2])
    BY <1>1, <2>1, <2>2, ApplyDue
  <2>4. Told(ks)
    BY <2>1 DEF IInv, Sound, States
  <2>5. Basic(r[1], r[2])
    BY <1>1, <2>1, <2>2, <2>4, ApplySound
  <2> HIDE DEF r
  <2>6. ks'.active = r[1].active /\ ks'.pending = r[1].pending
    BY <1>7, <2>1, <2>5 DEF Basic
  <2>7. Due(ks', guards', config', retries')
    BY <2>1, <2>3, <2>6 DEF Due
  <2>8. overridden => ks'.active = 0 /\ ks'.pending = 0
    BY <2>3, <2>6
  <2>9. enabled' => Spares(guards, guards')
    BY <2>1, <2>3 DEF JInv, Overrides
  <2> QED
    BY <2>1, <2>3, <2>7, <2>8, <2>9, StepDue
<1> QED
  BY <1>2, <1>3, <1>4, <1>5, <1>6, <1>8, <1>9 DEF Requests

\* So do the handlers that do not concern one guard.
LEMMA CallDue ==
  ASSUME IInv, JInv, Boot \/ PortChanged \/ RetryApply \/ Shutdown \/ AppDies
  PROVE  JInv' /\ Covered
<1>1. /\ Basic(ks, guards) /\ ks \in Switches /\ enabled \in BOOLEAN /\ config \in Configs
      /\ ports \in Nat /\ retries \in Nat /\ guards \in Seq(Guards)
  BY DEF IInv, Sound, Scalars, Basic
<1>2. ASSUME phase # "down", Now(apply(ks, guards, enabled, config)),
             UNCHANGED <<overridden, enabled, config>>
      PROVE  JInv' /\ Covered
  <2>1. Now(apply(ks, guards, enabled', config')) /\ enabled' \in BOOLEAN /\ config' \in Configs
    BY <1>1, <1>2
  <2> QED
    BY <1>1, <1>2, <2>1, AppliedDue
<1>3. CASE Boot
  BY <1>2, <1>3 DEF Boot
<1>4. CASE PortChanged
  <2>1. CASE PortApplies
    BY <1>2, <1>4, <2>1 DEF PortChanged
  <2>2. CASE ~PortApplies
    <3>1. UNCHANGED <<ks, guards, overridden, phase>>
      BY <1>4, <2>2 DEF PortChanged, Now
    <3>2. phase = "run" => ks.active = 0 /\ ks.pending = 0
      BY <2>2 DEF PortApplies
    <3>3. phase' = "run" => Due(ks, guards, config', retries')
      BY <3>1, <3>2 DEF Due
    <3> QED
      BY <3>1, <3>3, IdleDue
  <2> QED
    BY <2>1, <2>2
<1>5. CASE RetryApply
  <2>1. CASE phase # "run" \/ ks.pending # 0 \/ ks.active = 0
    <3>1. UNCHANGED <<ks, guards, overridden, phase, ports, config>>
      BY <1>5, <2>1 DEF RetryApply, Now
    <3>2. phase' = "run" /\ ports' = 0 => Due(ks, guards, config', retries')
      BY <2>1, <3>1 DEF JInv, Reached, Due
    <3> QED
      BY <3>1, <3>2, IdleDue
  <2>2. CASE ~(phase # "run" \/ ks.pending # 0 \/ ks.active = 0)
    BY <1>2, <1>5, <2>2 DEF RetryApply
  <2> QED
    BY <2>1, <2>2
<1>6. CASE Shutdown
  <2> DEFINE j == [ks EXCEPT !.active = 0, !.pending = 0, !.waiters = {}]
  <2>1. ks' = j /\ guards' = closeGuard(guards, DOMAIN guards) /\ phase' = "down" /\ UNCHANGED overridden
    BY <1>6 DEF Shutdown
  <2>2. j.active = 0 /\ j.pending = 0
    BY <1>1 DEF Switches
  <2> HIDE DEF j
  <2>3. Same(guards, guards')
    BY <1>1, <2>1, ClosedSame
  <2> QED
    BY <2>1, <2>2, <2>3, StepDue
<1>7. CASE AppDies
  <2>1. UNCHANGED <<ks, guards, overridden>> /\ phase' = "dead"
    BY <1>7 DEF AppDies
  <2> QED
    BY <2>1, IdleDue
<1> QED
  BY <1>3, <1>4, <1>5, <1>6, <1>7

\* The guards gs of the moment are those of the state, but for g, which is not in force.
Moment(g, gs) ==
  /\ gs \in Seq(Guards) /\ DOMAIN gs = DOMAIN guards /\ Lines(gs)
  /\ \A h \in DOMAIN guards : h # g => gs[h] = guards[h]
  /\ gs[g].config = guards[g].config /\ gs[g].refused = guards[g].refused
  /\ ~(guards[g].ready /\ guards[g].proc = "armed" /\ ~guards[g].closing)

\* The rest of a handler that began with them.
LEMMA MomentDue ==
  ASSUME JInv, NEW g \in DOMAIN guards, NEW gs, Moment(g, gs), Same(gs, guards'),
         UNCHANGED overridden, overridden => ks'.active = 0 /\ ks'.pending = 0,
         phase' = "run" /\ ports' = 0 => Due(ks', guards', config', retries'),
         enabled' /\ phase' # "down" => Spares(gs, guards')
  PROVE  JInv' /\ Covered
<1>1. Lines(guards')
  BY SameLines DEF Moment
<1>2. Reached' /\ Overrides'
  BY DEF Reached, Overrides
<1>3. Covered
  BY DEF Covered, Spares, Moment
<1> QED
  BY <1>1, <1>2, <1>3 DEF JInv

\* Whatever guard is lost, the settings stay due and no gap is left.
LEMMA LostDue ==
  ASSUME IInv, JInv, NEW g \in DOMAIN guards, NEW gs, Moment(g, gs), Spoke(gs),
         NEW code \in Codes, code = "persistent" => guards[g].refused,
         Lost(g, gs, code), UNCHANGED lineFrame
  PROVE  JInv' /\ Covered
<1>1. /\ ks \in Switches /\ guards \in Seq(Guards) /\ Pointers(ks, guards) /\ Basic(ks, guards)
      /\ enabled \in BOOLEAN /\ overridden \in BOOLEAN /\ config \in Configs /\ retries \in Nat
      /\ g # 0 /\ 0 \notin DOMAIN guards
  BY LenProperties DEF IInv, Sound, Scalars, Basic
<1>2. UNCHANGED <<enabled, overridden, config, phase, ports>>
  BY DEF lineFrame
<1>3. phase = "run" /\ ports = 0 => Due(ks, guards, config, retries)
  BY DEF JInv, Reached
<1>4. /\ gs \in Seq(Guards) /\ DOMAIN gs = DOMAIN guards
      /\ \A h \in DOMAIN guards : h # g => gs[h] = guards[h]
      /\ \A h \in DOMAIN guards : gs[h].config = guards[h].config /\ gs[h].refused = guards[h].refused
  BY DEF Moment
<1>5. Same(gs, gs) /\ Spares(gs, gs)
  BY DEF Same, Spares
<1>6. CASE g = ks.active /\ protectionLost([ks EXCEPT !.active = 0], gs, code)
  <2> DEFINE k == [ks EXCEPT !.active = 0]
  <2>1. /\ k \in Switches /\ Coded(k) /\ Pointers(k, gs) /\ Waits(k)
        /\ k.active = 0 /\ k.pending = ks.pending
    BY <1>4, <1>6, Removed
  <2>2. Basic(k, gs)
    BY <1>4, <2>1 DEF Basic
  <2>3. ~overridden
    BY <1>1, <1>6 DEF JInv, Overrides
  <2>4. \/ phase # "down" /\ ~enabled /\ Now(apply(k, gs, enabled, config))
        \/ k.pending # 0 /\ Now(<<LostWithPending(k), gs>>)
        \/ k.pending = 0 /\ Now(spawn([k EXCEPT !.respawned = TRUE], gs, config))
        \/ k.pending = 0 /\ Now(<<fail(k, code), gs>>)
    BY <1>6 DEF protectionLost
  <2> HIDE DEF k
  <2>5. CASE phase # "down" /\ ~enabled /\ Now(apply(k, gs, enabled, config))
    <3> DEFINE r == apply(k, gs, enabled, config)
    <3>1. Same(gs, r[2]) /\ Due(r[1], r[2], config, retries')
      BY <1>1, <2>2, <2>5, ApplyDue
    <3>2. ks' = r[1] /\ guards' = r[2]
      BY <2>5 DEF Now
    <3> HIDE DEF r
    <3> QED
      BY <1>2, <2>3, <2>5, <3>1, <3>2, MomentDue
  <2>6. CASE k.pending # 0 /\ Now(<<LostWithPending(k), gs>>)
    <3>1. ks' = LostWithPending(k) /\ guards' = gs
      BY <2>6 DEF Now
    <3>2. ks'.active = 0 /\ ks'.pending = ks.pending
      BY <2>1, <3>1, Settled, StateSet DEF LostWithPending
    <3>3. ks.pending # 0 => ks.pending \in DOMAIN guards
      BY <1>1 DEF Pointers
    <3>4. phase = "run" /\ ports = 0 => Due(ks', guards', config, retries')
      BY <1>3, <1>4, <3>1, <3>2, <3>3 DEF Due
    <3> QED
      BY <1>2, <1>5, <2>3, <3>1, <3>4, MomentDue
  <2>7. CASE k.pending = 0 /\ Now(spawn([k EXCEPT !.respawned = TRUE], gs, config))
    <3> DEFINE j == [k EXCEPT !.respawned = TRUE]
               r == spawn(j, gs, config)
    <3>1. j \in Switches /\ j.active = 0 /\ j.pending = 0
      BY <2>1, <2>7 DEF Switches
    <3> HIDE DEF j
    <3>2. /\ Same(gs, r[2]) /\ Spares(gs, r[2]) /\ r[1].active = 0
          /\ r[1].pending # 0 /\ r[2][r[1].pending].config = config
      BY <1>1, <1>4, <3>1, SpawnDue
    <3>3. ks' = r[1] /\ guards' = r[2]
      BY <2>7 DEF Now, j
    <3> HIDE DEF r
    <3>4. Due(ks', guards', config, retries')
      BY <3>2, <3>3 DEF Due
    <3> QED
      BY <1>2, <2>3, <3>2, <3>3, <3>4, MomentDue
  <2>8. CASE k.pending = 0 /\ Now(<<fail(k, code), gs>>)
    <3>1. ks' = fail(k, code) /\ guards' = gs
      BY <2>8 DEF Now
    <3>2. ks'.active = 0 /\ ks'.pending = 0
      BY <2>1, <2>8, <3>1, Failed
    <3>3. Due(ks', guards', config, retries')
      BY <3>2 DEF Due
    <3> QED
      BY <1>2, <1>5, <2>3, <3>1, <3>3, MomentDue
  <2> QED
    BY <2>4, <2>5, <2>6, <2>7, <2>8
<1>7. CASE g = ks.pending /\ armFailed([ks EXCEPT !.pending = 0], gs, code)
  <2> DEFINE k == [ks EXCEPT !.pending = 0]
  <2>1. k \in Switches /\ k.active = ks.active /\ k.pending = 0
    BY <1>1 DEF Switches
  <2>2. /\ ks' = IF k.active # 0 THEN settle(k) ELSE fail(k, code)
        /\ guards' = gs
        /\ retries' = retries + (IF k.active # 0 THEN Retried(code) ELSE 0)
    BY <1>7 DEF armFailed, Now
  <2> HIDE DEF k
  <2>3. ks'.active = ks.active /\ ks'.pending = 0
    BY <2>1, <2>2, Settled, Failed
  <2>4. ~overridden
    BY <1>1, <1>7 DEF JInv, Overrides
  <2>5. ASSUME phase = "run", ports = 0, ks.active # 0
        PROVE  retries' > 0 \/ \E h \in DOMAIN guards' : guards'[h].refused /\ guards'[h].config = config
    <3>1. CASE code = "transient"
      <4>1. retries' = retries + 1
        BY <2>1, <2>2, <2>5, <3>1 DEF Retried
      <4> QED
        BY <1>1, <4>1
    <3>2. CASE code = "persistent"
      <4>1. guards[g].config = config
        BY <1>1, <1>3, <1>7, <2>5 DEF Due
      <4> QED
        BY <1>4, <2>2, <3>2, <4>1
    <3> QED
      BY <3>1, <3>2 DEF Codes
  <2>6. phase = "run" /\ ports = 0 => Due(ks', guards', config, retries')
    BY <2>3, <2>5 DEF Due
  <2> QED
    BY <1>2, <1>5, <2>2, <2>4, <2>6, MomentDue
<1>8. CASE g \notin {ks.active, ks.pending} /\ guards' = gs /\ UNCHANGED <<ks, retries>>
  <2>1. phase = "run" /\ ports = 0 => Due(ks', guards', config, retries')
    BY <1>1, <1>3, <1>4, <1>8 DEF Due, Pointers
  <2>2. overridden => ks'.active = 0 /\ ks'.pending = 0
    BY <1>8 DEF JInv, Overrides
  <2> QED
    BY <1>2, <1>5, <1>8, <2>1, <2>2, MomentDue
<1> QED
  BY <1>6, <1>7, <1>8 DEF Lost

\* A guard changes in a way that KillSwitch does not see.
LEMMA GuardDue ==
  ASSUME IInv, JInv, NEW g \in DOMAIN guards, NEW n \in Guards, guards' = [guards EXCEPT ![g] = n],
         n.config = guards[g].config, n.closing = guards[g].closing,
         guards[g].refused => n.refused, Said(n),
         UNCHANGED <<ks, overridden, config, phase, ports, retries>>
  PROVE  JInv' /\ Covered
<1>1. guards \in Seq(Guards) /\ Pointers(ks, guards)
  BY DEF IInv, Sound, Basic
<1>2. /\ DOMAIN guards' = DOMAIN guards
      /\ \A h \in DOMAIN guards : guards'[h] = IF h = g THEN n ELSE guards[h]
  BY <1>1, GuardSet
<1>3. \A h \in DOMAIN guards :
        /\ guards'[h].config = guards[h].config /\ guards'[h].closing = guards[h].closing
        /\ guards[h].refused => guards'[h].refused
  BY <1>2
<1>4. Lines(guards')
  BY <1>2 DEF JInv, Lines
<1>5. Reached'
  <2> SUFFICES ASSUME phase = "run", ports = 0 PROVE Due(ks, guards', config, retries)
    BY DEF Reached
  <2>1. Due(ks, guards, config, retries)
    BY DEF JInv, Reached
  <2> QED
    BY <1>1, <1>2, <1>3, <2>1 DEF Due, Pointers
<1>6. Overrides'
  BY DEF JInv, Overrides
<1>7. Covered
  BY <1>3 DEF Covered
<1> QED
  BY <1>4, <1>5, <1>6, <1>7 DEF JInv

\* A READY that counts: the guard that takes over has the settings, and only the one it
\* replaces is closed.
LEMMA ReadyDue ==
  ASSUME IInv, JInv, NEW g \in DOMAIN guards, NEW n \in Guards,
         NEW gs, gs = [guards EXCEPT ![g] = n], Said(n), n.config = guards[g].config,
         n.closing = guards[g].closing, n.refused = guards[g].refused,
         n.ready = guards[g].ready, onReady(g, gs), UNCHANGED lineFrame
  PROVE  JInv' /\ Covered
<1>1. /\ ks \in Switches /\ guards \in Seq(Guards) /\ Pointers(ks, guards)
      /\ g # 0 /\ g \in Nat
  BY LenProperties DEF IInv, Sound, Basic
<1>2. /\ gs \in Seq(Guards) /\ DOMAIN gs = DOMAIN guards
      /\ \A h \in DOMAIN guards : gs[h] = IF h = g THEN n ELSE guards[h]
  BY <1>1, GuardSet
<1>3. UNCHANGED <<enabled, overridden, config, phase, ports, retries>>
  BY DEF lineFrame, onReady
<1>4. CASE ~Awaited(g, gs)
  <2>1. ks' = ks /\ guards' = gs
    BY <1>4 DEF onReady, Now
  <2> QED
    BY <1>3, <2>1, GuardDue
<1>5. CASE Awaited(g, gs)
  <2> DEFINE k == [ks EXCEPT !.active = g, !.pending = 0]
             m == [gs[g] EXCEPT !.ready = TRUE]
             rs == [gs EXCEPT ![g] = m]
             cs == closeGuard(rs, {ks.active})
  <2>1. g = ks.pending
    BY <1>5 DEF Awaited
  <2>2. /\ ks' = IF k.identityUnsupported THEN failIdentity(k) ELSE settle(setState(k, "Armed"))
        /\ guards' = cs
    BY <1>5 DEF onReady, Now
  <2>3. k \in Switches /\ k.active = g /\ k.pending = 0
    BY <1>1 DEF Switches
  <2>4. /\ m \in Guards /\ m.ready = TRUE /\ m.closing = guards[g].closing
        /\ m.config = guards[g].config /\ m.refused = guards[g].refused
        /\ m.proc = n.proc /\ m.out = n.out
    BY <1>2 DEF Guards
  <2> HIDE DEF k, m
  <2>5. ks'.active = g /\ ks'.pending = 0
    BY <2>2, <2>3, Settled, StateSet, Failed DEF failIdentity
  <2>6. /\ rs \in Seq(Guards) /\ DOMAIN rs = DOMAIN guards
        /\ \A h \in DOMAIN guards : rs[h] = IF h = g THEN m ELSE guards[h]
    BY <1>2, <2>4, GuardSet
  <2>7. Lines(rs)
    BY <2>4, <2>6 DEF JInv, Lines, Said
  <2> HIDE DEF rs
  <2>8. /\ DOMAIN cs = DOMAIN rs /\ Same(rs, cs)
        /\ \A h \in DOMAIN rs :
             /\ cs[h].ready = rs[h].ready /\ cs[h].config = rs[h].config
             /\ (cs[h].closing <=> (h \in {ks.active} \/ rs[h].closing))
    BY <2>6, Closed, ClosedSame
  <2> HIDE DEF cs
  <2>9. Lines(guards')
    BY <2>2, <2>7, <2>8, SameLines
  <2>10. Reached'
    <3> SUFFICES ASSUME phase = "run", ports = 0 PROVE Due(ks', guards', config, retries)
      BY <1>3 DEF Reached
    <3>1. guards[g].config = config
      BY <1>1, <2>1 DEF JInv, Reached, Due
    <3>2. guards'[g].config = config
      BY <2>2, <2>4, <2>6, <2>8, <3>1
    <3> QED
      BY <2>5, <3>2 DEF Due
  <2>11. ~overridden
    BY <1>1, <2>1 DEF JInv, Overrides
  <2>12. guards'[g].ready
    BY <2>2, <2>4, <2>6, <2>8
  <2>13. \A h \in DOMAIN guards : ~guards[h].closing /\ guards'[h].closing => h = ks.active
    BY <2>2, <2>4, <2>6, <2>8
  <2>14. ks.active # g
    BY <1>1, <2>1 DEF Pointers
  <2>15. Covered
    BY <1>1, <2>5, <2>12, <2>13, <2>14 DEF Covered
  <2> QED
    BY <1>3, <2>9, <2>10, <2>11, <2>15 DEF JInv, Overrides
<1> QED
  BY <1>4, <1>5

\* What is left of the output when its first line has been read.
LEMMA LineRead ==
  ASSUME NEW n \in Guards, n.out # <<>>, Said(n), NEW m, m = [n EXCEPT !.out = Tail(n.out)]
  PROVE  /\ m \in Guards /\ Said(m) /\ m.proc = n.proc /\ m.ready = n.ready /\ m.config = n.config
         /\ m.closing = n.closing /\ m.refused = n.refused /\ m.late = n.late
         /\ Head(n.out).verb \in {"READY", "ERROR", "FAIL"} /\ Head(n.out).code \in Codes
         /\ Head(n.out).verb # "READY" =>
              n.proc # "armed" /\ (Head(n.out).code = "persistent" => n.refused)
<1> DEFINE L == [verb : {"READY", "ERROR", "FAIL"}, code : Codes]
<1>1. ASSUME NEW S, NEW q \in Seq(S), q # <<>>
      PROVE  /\ Tail(q) \in Seq(S) /\ Head(q) \in S /\ Head(q) = q[1] /\ 1 \in DOMAIN q
             /\ \A i \in DOMAIN Tail(q) : i + 1 \in DOMAIN q /\ Tail(q)[i] = q[i + 1]
  BY <1>1, HeadTailProperties, EmptySeq, LenProperties
<1>2. n.out \in Seq(L)
  BY DEF Guards
<1> HIDE DEF L
<1>3. /\ Tail(n.out) \in Seq(L) /\ Head(n.out) \in L /\ Head(n.out) = n.out[1] /\ 1 \in DOMAIN n.out
      /\ \A i \in DOMAIN Tail(n.out) : i + 1 \in DOMAIN n.out /\ Tail(n.out)[i] = n.out[i + 1]
  BY <1>1, <1>2
<1>4. ASSUME NEW o \in Seq(L)
      PROVE  LET e == [n EXCEPT !.out = o] IN
             /\ e \in Guards /\ e.proc = n.proc /\ e.ready = n.ready /\ e.config = n.config
             /\ e.closing = n.closing /\ e.refused = n.refused /\ e.late = n.late /\ e.out = o
  BY DEF Guards, L
<1>5. /\ m \in Guards /\ m.proc = n.proc /\ m.ready = n.ready /\ m.config = n.config
      /\ m.closing = n.closing /\ m.refused = n.refused /\ m.late = n.late /\ m.out = Tail(n.out)
  BY <1>3, <1>4
<1>6. Said(m)
  BY <1>3, <1>5 DEF Said
<1>7. Head(n.out).verb \in {"READY", "ERROR", "FAIL"} /\ Head(n.out).code \in Codes
  BY <1>3 DEF L
<1>8. Head(n.out).verb # "READY" =>
        n.proc # "armed" /\ (Head(n.out).code = "persistent" => n.refused)
  BY <1>3 DEF Said
<1> QED
  BY <1>5, <1>6, <1>7, <1>8

\* closeGuard for g, in the middle of a handler that has changed only g.
LEMMA MomentClosed ==
  ASSUME IInv, JInv, NEW g \in DOMAIN guards, NEW n \in Guards, Said(n),
         NEW gs, gs = [guards EXCEPT ![g] = n],
         n.config = guards[g].config, n.refused = guards[g].refused,
         n.out # <<>> => n.proc \in {"armed", "ended"},
         ~(guards[g].ready /\ guards[g].proc = "armed" /\ ~guards[g].closing)
  PROVE  Moment(g, closeGuard(gs, {g})) /\ Spoke(closeGuard(gs, {g}))
<1> DEFINE cs == closeGuard(gs, {g})
<1>1. guards \in Seq(Guards) /\ Spoke(guards) /\ Lines(guards)
  BY DEF IInv, Sound, Basic, JInv
<1>2. /\ gs \in Seq(Guards) /\ DOMAIN gs = DOMAIN guards
      /\ \A h \in DOMAIN guards : gs[h] = IF h = g THEN n ELSE guards[h]
  BY <1>1, GuardSet
<1>3. Lines(gs) /\ Spoke(gs)
  BY <1>1, <1>2 DEF Lines, Spoke
<1> HIDE DEF cs
<1>4. cs \in Seq(Guards) /\ DOMAIN cs = DOMAIN gs /\ Same(gs, cs)
  <2>1. cs \in Seq(Guards) /\ DOMAIN cs = DOMAIN gs
    BY <1>2, Closed DEF cs
  <2>2. Same(gs, cs)
    BY <1>2, ClosedSame DEF cs
  <2> QED
    BY <2>1, <2>2
<1>5. \A h \in DOMAIN gs :
        /\ cs[h].config = gs[h].config /\ cs[h].refused = gs[h].refused
        /\ cs[h].proc = gs[h].proc /\ cs[h].out = gs[h].out
  BY <1>4 DEF Same
<1>6. \A h \in DOMAIN gs : h # g => cs[h] = gs[h]
  BY DEF closeGuard, cs
<1>7. Lines(cs) /\ Spoke(cs)
  BY <1>3, <1>4, <1>5, SameLines DEF Spoke
<1> QED
  BY <1>2, <1>4, <1>5, <1>6, <1>7 DEF Moment, cs

\* What KillSwitch does about a guard's output and end keeps the settings due.
LEMMA HandlerDue ==
  ASSUME IInv, JInv, NEW g \in DOMAIN guards,
         handleLine(g) \/ onReadyTimeout(g) \/ onEnded(g) \/ StopHard(g)
  PROVE  JInv' /\ Covered
<1>1. /\ guards \in Seq(Guards) /\ Spoke(guards) /\ guards[g] \in Guards /\ Said(guards[g])
      /\ Pointers(ks, guards) /\ g # 0
  BY ElementOfSeq, LenProperties DEF IInv, Sound, Basic, JInv, Lines
<1>2. ASSUME handleLine(g) PROVE JInv' /\ Covered
  <2> DEFINE line == Head(guards[g].out)
             n == [guards[g] EXCEPT !.out = Tail(guards[g].out)]
             gs == [guards EXCEPT ![g] = n]
  <2>1. guards[g].out # <<>> /\ UNCHANGED lineFrame
    BY <1>2 DEF handleLine
  <2>2. \/ line.verb = "READY" /\ onReady(g, gs)
        \/ line.verb # "READY" /\ guards' = gs /\ UNCHANGED <<ks, retries>>
        \/ /\ line.verb # "READY" /\ ~guards[g].closing
           /\ Lost(g, closeGuard(gs, {g}), line.code)
    BY <1>2 DEF handleLine
  <2>3. /\ n \in Guards /\ Said(n) /\ n.proc = guards[g].proc /\ n.ready = guards[g].ready
        /\ n.config = guards[g].config /\ n.closing = guards[g].closing
        /\ n.refused = guards[g].refused /\ line.code \in Codes
        /\ line.verb # "READY" =>
             guards[g].proc # "armed" /\ (line.code = "persistent" => guards[g].refused)
    BY <1>1, <2>1, LineRead
  <2>4. UNCHANGED <<overridden, config, phase, ports>>
    BY <2>1 DEF lineFrame
  <2> HIDE DEF line, n, gs
  <2>5. CASE onReady(g, gs)
    BY <2>1, <2>3, <2>5, ReadyDue DEF gs
  <2>6. CASE guards' = gs /\ UNCHANGED <<ks, retries>>
    BY <2>3, <2>4, <2>6, GuardDue DEF gs
  <2>7. CASE line.verb # "READY" /\ Lost(g, closeGuard(gs, {g}), line.code)
    <3>1. n.out # <<>> => n.proc \in {"armed", "ended"}
      BY <1>1, <2>1, <2>3 DEF Spoke
    <3>2. Moment(g, closeGuard(gs, {g})) /\ Spoke(closeGuard(gs, {g}))
      BY <2>3, <2>7, <3>1, MomentClosed DEF gs
    <3> QED
      BY <2>1, <2>3, <2>7, <3>2, LostDue
  <2> QED
    BY <2>2, <2>5, <2>6, <2>7
<1>3. ASSUME onReadyTimeout(g) PROVE JInv' /\ Covered
  <2> DEFINE cs == closeGuard(guards, {g})
  <2>1. guards = [guards EXCEPT ![g] = guards[g]]
    BY <1>1
  <2>2. Moment(g, cs) /\ Spoke(cs)
    <3>1. ~guards[g].ready
      BY <1>3 DEF onReadyTimeout
    <3>2. guards[g].out # <<>> => guards[g].proc \in {"armed", "ended"}
      BY <1>1 DEF Spoke
    <3> QED
      BY <1>1, <2>1, <3>1, <3>2, MomentClosed
  <2> HIDE DEF cs
  <2>3. Lost(g, cs, "transient") /\ UNCHANGED lineFrame
    BY <1>3 DEF onReadyTimeout, Lost, cs
  <2> QED
    BY <2>2, <2>3, LostDue DEF Codes
<1>4. ASSUME onEnded(g) PROVE JInv' /\ Covered
  <2> DEFINE n == [guards[g] EXCEPT !.proc = "gone"]
             ns == [guards EXCEPT ![g] = n]
             cs == closeGuard(guards, {g})
             m == [cs[g] EXCEPT !.proc = "gone"]
             gs == [cs EXCEPT ![g] = m]
  <2>1. guards[g].out = <<>> /\ UNCHANGED lineFrame /\ guards[g].proc # "armed"
    BY <1>4 DEF onEnded
  <2>2. /\ n \in Guards /\ n.out = <<>> /\ n.config = guards[g].config /\ n.proc = "gone"
        /\ n.refused = guards[g].refused /\ n.closing = guards[g].closing
    BY <1>1, <2>1 DEF Guards
  <2>3. Said(n)
    BY <2>2 DEF Said
  <2>4. gs = closeGuard(ns, {g})
    <3>1. /\ DOMAIN ns = DOMAIN guards /\ DOMAIN cs = DOMAIN guards
          /\ ns[g] = n /\ \A h \in DOMAIN guards : h # g => ns[h] = guards[h]
      BY <1>1 DEF closeGuard
    <3>2. /\ cs[g] = [guards[g] EXCEPT !.closing = TRUE]
          /\ \A h \in DOMAIN guards : h # g => cs[h] = guards[h]
      BY DEF closeGuard
    <3>3. m = [n EXCEPT !.closing = TRUE]
      BY <1>1, <3>2 DEF Guards
    <3> HIDE DEF n, m, cs, ns
    <3>4. closeGuard(ns, {g}) = [h \in DOMAIN guards |-> IF h = g THEN m ELSE guards[h]]
      BY <3>1, <3>3 DEF closeGuard
    <3>5. gs = [h \in DOMAIN guards |-> IF h = g THEN m ELSE guards[h]]
      <4>1. cs = [h \in DOMAIN guards |-> cs[h]]
        BY DEF cs, closeGuard
      <4> QED
        BY <3>1, <3>2, <4>1
    <3> QED
      BY <3>4, <3>5
  <2>5. \/ guards[g].closing /\ guards' = gs /\ UNCHANGED <<ks, retries>>
        \/ Lost(g, gs, "transient")
    BY <1>4 DEF onEnded
  <2> HIDE DEF n, m, cs, gs
  <2>6. CASE guards[g].closing /\ guards' = gs /\ UNCHANGED <<ks, retries>>
    <3>1. closeGuard(ns, {g}) = ns
      <4>1. ns = [h \in DOMAIN guards |-> IF h = g THEN n ELSE guards[h]] /\ DOMAIN ns = DOMAIN guards
        BY <1>1
      <4>2. [n EXCEPT !.closing = TRUE] = n
        BY <2>2, <2>6 DEF Guards
      <4> HIDE DEF ns
      <4> QED
        BY <4>1, <4>2 DEF closeGuard
    <3>2. guards' = [guards EXCEPT ![g] = n]
      BY <2>4, <2>6, <3>1
    <3> QED
      BY <2>1, <2>2, <2>3, <2>6, <3>2, GuardDue DEF lineFrame
  <2>7. CASE Lost(g, gs, "transient")
    <3>1. Moment(g, closeGuard(ns, {g})) /\ Spoke(closeGuard(ns, {g}))
      BY <2>1, <2>2, <2>3, MomentClosed
    <3> HIDE DEF ns
    <3> QED
      BY <2>1, <2>4, <2>7, <3>1, LostDue DEF Codes
  <2> QED
    BY <2>5, <2>6, <2>7
<1>5. ASSUME StopHard(g) PROVE JInv' /\ Covered
  <2> DEFINE n == [guards[g] EXCEPT !.proc = "ended"]
  <2>1. /\ n \in Guards /\ n.proc = "ended" /\ n.config = guards[g].config
        /\ n.closing = guards[g].closing /\ n.refused = guards[g].refused /\ n.out = guards[g].out
    BY <1>1 DEF Guards
  <2>2. guards' = [guards EXCEPT ![g] = n] /\ UNCHANGED <<ks, retries, lineFrame>>
    BY <1>5 DEF StopHard
  <2> HIDE DEF n
  <2>3. Said(n)
    BY <1>1, <2>1 DEF Said
  <2> QED
    BY <2>1, <2>2, <2>3, GuardDue DEF lineFrame
<1> QED
  BY <1>2, <1>3, <1>4, <1>5

\* What a guard does by itself keeps the settings due.
LEMMA ProcessDue ==
  ASSUME IInv, JInv, Processes \/ Breakage
  PROVE  JInv' /\ Covered
<1> DEFINE L == [verb : {"READY", "ERROR", "FAIL"}, code : Codes]
<1>1. guards \in Seq(Guards) /\ \A g \in DOMAIN guards : guards[g] \in Guards /\ Said(guards[g])
  BY ElementOfSeq, LenProperties DEF IInv, Sound, Basic, JInv, Lines
<1>2. ASSUME NEW S, NEW q \in Seq(S), NEW e \in S
      PROVE  /\ q \o <<e>> \in Seq(S) /\ q \o <<>> = q /\ Append(q, e) = q \o <<e>>
             /\ \A i \in DOMAIN (q \o <<e>>) :
                  \/ i \in DOMAIN q /\ (q \o <<e>>)[i] = q[i]
                  \/ (q \o <<e>>)[i] = e
  <2>1. Append(q, e) \in Seq(S) /\ Append(q, e) = q \o <<e>> /\ q \o <<>> = q
    OBVIOUS
  <2>2. /\ Len(Append(q, e)) = Len(q) + 1 /\ DOMAIN Append(q, e) = 1..(Len(q) + 1)
        /\ Len(q) \in Nat /\ DOMAIN q = 1..Len(q)
        /\ \A i \in 1..Len(q) : Append(q, e)[i] = q[i]
        /\ Append(q, e)[Len(q) + 1] = e
    BY AppendProperties, LenProperties
  <2>3. \A i \in 1..(Len(q) + 1) : i \in 1..Len(q) \/ i = Len(q) + 1
    BY <2>2
  <2> QED
    BY <2>1, <2>2, <2>3
<1>3. \A v \in {"READY", "ERROR", "FAIL"}, code \in Codes :
        /\ Line(v, code) \in L /\ Line(v, code).verb = v /\ Line(v, code).code = code
  BY DEF Line
<1>4. "transient" \in Codes /\ "persistent" \in Codes /\ "transient" # "persistent"
  BY DEF Codes
<1> HIDE DEF L
<1>5. ASSUME NEW g \in DOMAIN guards, NEW o \in Seq(L),
             NEW proc \in {"armed", "ended", "execFailed"}, NEW refused \in BOOLEAN,
             guards[g].proc \in {"starting", "armed"},
             guards[g].proc = "armed" => refused = guards[g].refused,
             \A i \in DOMAIN o :
               \/ i \in DOMAIN guards[g].out /\ o[i] = guards[g].out[i]
               \/ o[i].verb = "READY"
               \/ proc # "armed" /\ (o[i].code = "persistent" => refused),
             guards' = [guards EXCEPT ![g].proc = proc, ![g].out = o, ![g].refused = refused],
             UNCHANGED guardFrame
      PROVE  JInv' /\ Covered
  <2> DEFINE n == [guards[g] EXCEPT !.proc = proc, !.out = o, !.refused = refused]
  <2>1. guards[g] \in Guards /\ Said(guards[g])
    BY <1>1, <1>5
  <2>2. /\ n \in Guards /\ n.proc = proc /\ n.out = o /\ n.refused = refused
        /\ n.config = guards[g].config /\ n.closing = guards[g].closing
    BY <1>5, <2>1 DEF Guards, L
  <2>3. guards' = [guards EXCEPT ![g] = n]
    BY <1>5
  <2> HIDE DEF n
  <2>4. guards[g].refused => n.refused
    BY <1>5, <2>1, <2>2 DEF Said
  <2>5. Said(n)
    BY <1>5, <2>1, <2>2 DEF Said
  <2> QED
    BY <1>5, <2>2, <2>3, <2>4, <2>5, GuardDue DEF guardFrame
<1>6. ASSUME NEW g \in DOMAIN guards, NEW proc \in {"armed", "ended", "execFailed"},
             guards[g].proc \in {"starting", "armed"}, Becomes(g, proc, <<>>), UNCHANGED guardFrame
      PROVE  JInv' /\ Covered
  <2>1. guards[g] \in Guards /\ guards[g].out \in Seq(L) /\ guards[g].refused \in BOOLEAN
    BY <1>1, <1>6 DEF Guards, L
  <2>2. guards[g].out \o <<>> = guards[g].out
    BY <2>1
  <2>3. guards' = [guards EXCEPT ![g].proc = proc, ![g].out = guards[g].out,
                                 ![g].refused = guards[g].refused]
    BY <1>1, <1>6, <2>1, <2>2 DEF Becomes, Guards
  <2> QED
    BY <1>5, <1>6, <2>1, <2>3
<1>7. ASSUME NEW g \in DOMAIN guards, NEW proc \in {"armed", "ended"},
             NEW v \in {"READY", "FAIL"}, guards[g].proc \in {"starting", "armed"},
             v # "READY" => proc # "armed",
             Becomes(g, proc, <<Line(v, "transient")>>), UNCHANGED guardFrame
      PROVE  JInv' /\ Covered
  <2> DEFINE e == Line(v, "transient")
             o == guards[g].out \o <<e>>
  <2>1. guards[g] \in Guards /\ guards[g].out \in Seq(L) /\ guards[g].refused \in BOOLEAN
    BY <1>1, <1>7 DEF Guards, L
  <2>2. e \in L /\ e.verb = v /\ e.code = "transient"
    BY <1>3, <1>4, <1>7
  <2>3. guards' = [guards EXCEPT ![g].proc = proc, ![g].out = o, ![g].refused = guards[g].refused]
    BY <1>1, <1>7, <2>1 DEF Becomes, Guards
  <2> HIDE DEF e
  <2>4. /\ o \in Seq(L)
        /\ \A i \in DOMAIN o : (i \in DOMAIN guards[g].out /\ o[i] = guards[g].out[i]) \/ o[i] = e
    BY <1>2, <2>1, <2>2
  <2> HIDE DEF o
  <2>5. \A i \in DOMAIN o :
          \/ i \in DOMAIN guards[g].out /\ o[i] = guards[g].out[i]
          \/ o[i].verb = "READY"
          \/ proc # "armed" /\ (o[i].code = "persistent" => guards[g].refused)
    BY <1>4, <1>7, <2>2, <2>4
  <2> QED
    BY <1>5, <1>7, <2>1, <2>3, <2>4, <2>5
<1>8. ASSUME NEW g \in DOMAIN guards, GuardArms(g) PROVE JInv' /\ Covered
  BY <1>7, <1>8 DEF GuardArms
<1>9. ASSUME NEW g \in DOMAIN guards, GuardDisarms(g) PROVE JInv' /\ Covered
  BY <1>6, <1>9 DEF GuardDisarms
<1>10. ASSUME NEW g \in DOMAIN guards, GuardFails(g) PROVE JInv' /\ Covered
  BY <1>7, <1>10 DEF GuardFails
<1>11. ASSUME NEW g \in DOMAIN guards, GuardBreaks(g) PROVE JInv' /\ Covered
  BY <1>6, <1>11 DEF GuardBreaks
<1>12. ASSUME NEW g \in DOMAIN guards, GuardHangs(g) PROVE JInv' /\ Covered
  <2> DEFINE n == [guards[g] EXCEPT !.late = TRUE]
  <2>1. guards[g] \in Guards /\ Said(guards[g])
    BY <1>1, <1>12
  <2>2. /\ n \in Guards /\ n.proc = guards[g].proc /\ n.out = guards[g].out
        /\ n.config = guards[g].config /\ n.closing = guards[g].closing
        /\ n.refused = guards[g].refused
    BY <2>1 DEF Guards
  <2>3. guards' = [guards EXCEPT ![g] = n] /\ UNCHANGED guardFrame
    BY <1>12 DEF GuardHangs
  <2> HIDE DEF n
  <2>4. Said(n)
    BY <2>1, <2>2 DEF Said
  <2> QED
    BY <1>12, <2>2, <2>3, <2>4, GuardDue DEF guardFrame
<1>13. ASSUME NEW g \in DOMAIN guards, NEW code \in Codes, GuardRefuses(g, code)
       PROVE  JInv' /\ Covered
  <2> DEFINE e == Line("ERROR", code)
             o == guards[g].out \o <<e>>
             refused == code = "persistent"
  <2>1. guards[g] \in Guards /\ guards[g].out \in Seq(L)
    BY <1>1, <1>13 DEF Guards, L
  <2>2. e \in L /\ e.code = code
    BY <1>3, <1>13
  <2> HIDE DEF e
  <2>3. /\ o \in Seq(L) /\ Append(guards[g].out, e) = o
        /\ \A i \in DOMAIN o : (i \in DOMAIN guards[g].out /\ o[i] = guards[g].out[i]) \/ o[i] = e
    BY <1>2, <2>1, <2>2
  <2> HIDE DEF o
  <2>4. /\ guards' = [guards EXCEPT ![g].proc = "ended", ![g].out = o, ![g].refused = refused]
        /\ guards[g].proc = "starting" /\ UNCHANGED guardFrame
    <3>1. /\ guards' = [guards EXCEPT ![g].proc = "ended", ![g].refused = refused, ![g].out = o]
          /\ guards[g].proc = "starting" /\ UNCHANGED guardFrame
      BY <1>13, <2>3 DEF GuardRefuses, e
    <3>2. [guards[g] EXCEPT !.proc = "ended", !.refused = refused, !.out = o]
            = [guards[g] EXCEPT !.proc = "ended", !.out = o, !.refused = refused]
      BY <2>1 DEF Guards
    <3> QED
      BY <3>1, <3>2
  <2>5. refused \in BOOLEAN
    OBVIOUS
  <2>6. \A i \in DOMAIN o :
          \/ i \in DOMAIN guards[g].out /\ o[i] = guards[g].out[i]
          \/ o[i].verb = "READY"
          \/ "ended" # "armed" /\ (o[i].code = "persistent" => refused)
    BY <2>2, <2>3
  <2> HIDE DEF refused
  <2> QED
    BY <1>5, <1>13, <2>3, <2>4, <2>5, <2>6
<1> QED
  BY <1>8, <1>9, <1>10, <1>11, <1>12, <1>13 DEF Processes, Breakage

\* At first there is no guard.
LEMMA InitDue == Init => JInv
<1> SUFFICES ASSUME Init PROVE JInv
  OBVIOUS
<1>1. guards = <<>> /\ ks.active = 0 /\ ks.pending = 0 /\ phase = "boot"
  BY DEF Init
<1>2. Lines(guards)
  BY <1>1 DEF Lines
<1> QED
  BY <1>1, <1>2 DEF JInv, Reached, Overrides

\* Every step keeps the settings due and leaves no gap.
LEMMA NextDue == IInv /\ JInv /\ [Next]_vars => JInv' /\ Covered
<1> SUFFICES ASSUME IInv, JInv, [Next]_vars PROVE JInv' /\ Covered
  OBVIOUS
<1>1. CASE UNCHANGED vars
  <2>1. UNCHANGED <<ks, guards, overridden, config, phase, ports, retries>>
    BY <1>1 DEF vars
  <2>2. phase' = "run" /\ ports' = 0 => Due(ks, guards, config', retries')
    BY <2>1 DEF JInv, Reached
  <2> QED
    BY <2>1, <2>2, IdleDue
<1>2. CASE Requests
  BY <1>2, RequestDue
<1>3. CASE Handlers
  BY <1>3, CallDue, HandlerDue DEF Handlers
<1>4. CASE Shutdown \/ AppDies
  BY <1>4, CallDue
<1>5. CASE Processes \/ Breakage
  BY <1>5, ProcessDue
<1> QED
  BY <1>1, <1>2, <1>3, <1>4, <1>5 DEF Next

\* The inductive invariant holds in every behaviour of the switch and its guards.
THEOREM Invariant == Spec => []IInv
<1>1. QED
  BY InitSound, StepSound, PTL DEF Spec

\* The members of KillSwitch and its guards are well formed, and a failure code goes
\* with the state Failed only.
THEOREM TypeCorrect == Spec => []TypeOK
<1>1. QED
  BY Invariant, Implied, PTL

\* Whenever the switch reports Armed, and so lets a profile start, a READY guard that
\* nobody closed is in force or has just ended unseen; the other states agree with the
\* guards that are kept, above all a switch that reports Disabled keeps none.
THEOREM StatesTrue == Spec => []StateIsTrue
<1>1. IInv => StateIsTrue
  BY Implied DEF StateIsTrue
<1>2. QED
  BY <1>1, Invariant, PTL

\* Nobody who waits for the switch is forgotten.
THEOREM NobodyForgotten == Spec => []NoForgottenWaiter
<1>1. QED
  BY Invariant, Implied, PTL

\* What the settings need holds in every behaviour.
THEOREM SettingsDue == Spec => []JInv
<1>1. QED
  BY Invariant, InitDue, NextDue, PTL DEF Spec

\* A guard in force with other settings than the current ones is being replaced, or a
\* queued call or a retry timer will replace it, or a guard refused the current ones.
THEOREM SettingsReach == Spec => []SettingsReachGuard
<1>1. IInv /\ JInv => SettingsReachGuard
  BY DEF IInv, Scalars, JInv, Reached, Due, SettingsReachGuard
<1>2. QED
  BY <1>1, Invariant, SettingsDue, PTL

\* While the switch stays on, KillSwitch closes a guard whose rules are in force only
\* when another READY guard has replaced it.
THEOREM GapFree == Spec => NoGap
<1>1. IInv /\ JInv /\ [Next]_vars =>
        [\A g \in DOMAIN guards :
           /\ guards[g].ready /\ guards[g].proc = "armed" /\ ~guards[g].closing
           /\ guards'[g].closing /\ enabled' /\ phase' # "down"
           => ks'.active # 0 /\ ks'.active # g /\ guards'[ks'.active].ready]_vars
  BY NextDue DEF Covered
<1>2. QED
  BY <1>1, Invariant, SettingsDue, PTL DEF Spec, NoGap
=============================================================================
