--------------------------- MODULE XrayGateProofs ---------------------------
(***************************************************************************)
(* The safety properties of XrayGate for any finite set of connections and *)
(* any number of network changes.                                          *)
(***************************************************************************)
EXTENDS XrayGate, FiniteSetTheorems, TLAPS

-----------------------------------------------------------------------------
(* The inductive invariant.                                                *)

\* c has been handed an instance and may use it.
Holds(c) == handlers[c].pc \in {"ensured", "bound", "dialed", "relaying"}

\* c is counted in active.
Busy(c) == handlers[c].pc \in {"counted", "ensured", "bound", "dialed", "relaying", "leaving"}
\* The connections that active counts.
BusyOnes == {c \in Conns : Busy(c)}

\* The slots: what the positions of the sweeper and of the owner say of the gate.
Slots ==
  /\ alive \subseteq 1..started
  /\ gate.closed => gate.instance = 0
  /\ sweeper.pc # "closing" => sweeper.instance = 0
  /\ gate.generation >= 1
  /\ ~gate.closed => gate.tracking
  /\ owner.pc = "free" => owner.instance = 0 /\ (gate.closed => ~gate.tracking)
  /\ owner.pc \in {"snapshot", "closeStale", "retire"} =>
       ~gate.closed /\ gate.generation = owner.retired + 1 /\ owner.retired >= 1
  /\ owner.pc \in {"listeners", "map"} => gate.closed /\ gate.tracking
  /\ owner.pc \in {"closeConns", "shut"} => gate.closed /\ ~gate.tracking

\* The counter is exact, so the sweeper that saw 0 saw that nobody holds an instance.
Counted ==
  /\ gate.active = Cardinality(BusyOnes)
  /\ sweeper.pc = "locked" /\ sweeper.idle => \A c \in Conns : ~Holds(c)

\* What c was handed: an instance of its generation, which is the one in the slot as
\* long as the generation is current, or the one that Close took from there.
Handout(c) ==
  Holds(c) =>
    /\ handlers[c].instance \in 1..started
    /\ handlers[c].generation \in 1..gate.generation
    /\ handlers[c].generation = gate.generation =>
         /\ ~gate.closed => handlers[c].instance = gate.instance
         /\ owner.pc \in {"listeners", "map"} => handlers[c].instance = owner.instance

\* A relay is cut, or it goes to the instance of the gate, or the call that took the
\* instance has still to find it or to close its sockets.
Relay(c) ==
  handlers[c].pc = "relaying" =>
    /\ handlers[c].clientGen = handlers[c].generation
    /\ handlers[c].upstreamGen = handlers[c].generation
    /\ \/ Cut(c)
       \/ ~gate.closed /\ handlers[c].generation = gate.generation
       \/ /\ owner.pc = "snapshot" /\ handlers[c].generation = owner.retired
          /\ handlers[c].instance = owner.instance
       \/ /\ owner.pc = "closeStale" /\ c \in owner.clients /\ c \in owner.upstreams
          /\ handlers[c].instance = owner.instance
       \/ owner.pc \in {"listeners", "map"} /\ handlers[c].generation = gate.generation
       \/ /\ owner.pc = "closeConns" /\ c \in owner.clients /\ c \in owner.upstreams
          /\ handlers[c].generation = gate.generation
          /\ handlers[c].instance = owner.instance

\* A client that has dialled is tracked under its generation.
BoundClient(c) ==
  handlers[c].pc \in {"bound", "dialed"} => handlers[c].clientGen = handlers[c].generation

\* The inductive invariant.
IInv ==
  /\ TypeOK /\ OneOwner /\ Slots /\ Counted /\ SweepSparesBusy
  /\ \A c \in Conns : Handout(c) /\ Relay(c) /\ BoundClient(c)

\* A new gate satisfies the invariant (StartGate).
LEMMA InitSound == Init => IInv
<1> SUFFICES ASSUME Init PROVE IInv
  OBVIOUS
<1>1. TypeOK
  BY DEF Init, TypeOK, Gates, Handlers, Sweepers, Owners, Untracked
<1>2. OneOwner /\ Slots /\ SweepSparesBusy
  BY DEF Init, OneOwner, Slots, SweepSparesBusy
<1>3. \A c \in Conns : ~Busy(c) /\ ~Holds(c)
  BY DEF Init, Busy, Holds
<1>4. Counted
  <2>1. BusyOnes = {}
    BY <1>3 DEF BusyOnes
  <2>2. QED
    BY <2>1, <1>3, FS_EmptySet DEF Init, Counted
<1>5. \A c \in Conns : Handout(c) /\ Relay(c) /\ BoundClient(c)
  BY DEF Init, Handout, Holds, Relay, BoundClient
<1>6. QED
  BY <1>1, <1>2, <1>4, <1>5 DEF IInv

-----------------------------------------------------------------------------
(* Types.                                                                  *)

\* The handlers other than that of c stay as they are.
Others(c) == \A d \in Conns : d # c => handlers'[d] = handlers[d]

\* What one handler becomes, when it is a handler, and what the others stay.
LEMMA BecomesType ==
  ASSUME TypeOK, NEW c \in Conns, NEW h \in Handlers, Becomes(c, h)
  PROVE handlers' \in [Conns -> Handlers] /\ handlers'[c] = h /\ Others(c)
BY DEF Becomes, TypeOK, Others

\* A handler that only goes on keeps its sockets, its instance and its generation.
LEMMA GotoType ==
  ASSUME TypeOK, NEW c \in Conns, NEW pc \in {"counted", "leaving", "uncounted"}, Goto(c, pc)
  PROVE /\ handlers' \in [Conns -> Handlers] /\ Others(c)
        /\ handlers'[c].pc = pc
        /\ handlers'[c].instance = handlers[c].instance
        /\ handlers'[c].generation = handlers[c].generation
        /\ handlers'[c].client = handlers[c].client
        /\ handlers'[c].upstream = handlers[c].upstream
        /\ handlers'[c].clientGen = handlers[c].clientGen
        /\ handlers'[c].upstreamGen = handlers[c].upstreamGen
<1> DEFINE h == [handlers[c] EXCEPT !.pc = pc]
<1>1. handlers[c] \in Handlers
  BY DEF TypeOK
<1>2. h \in Handlers
  BY <1>1 DEF Handlers
<1>3. Becomes(c, h)
  BY DEF Goto
<1>4. /\ h.pc = pc /\ h.instance = handlers[c].instance
      /\ h.generation = handlers[c].generation
      /\ h.client = handlers[c].client /\ h.upstream = handlers[c].upstream
      /\ h.clientGen = handlers[c].clientGen /\ h.upstreamGen = handlers[c].upstreamGen
  BY <1>1 DEF Handlers
<1> HIDE DEF h
<1>5. QED
  BY <1>2, <1>3, <1>4, BecomesType

\* serve: the handler of an accepted connection begins.
LEMMA AcceptEffect ==
  ASSUME TypeOK, NEW c \in Conns, Accept(c)
  PROVE /\ handlers' \in [Conns -> Handlers] /\ Others(c)
        /\ handlers'[c].pc = "accepted"
<1> DEFINE h == [handlers[c] EXCEPT !.pc = "accepted", !.client = "open"]
<1>1. handlers[c] \in Handlers
  BY DEF TypeOK
<1>2. h \in Handlers
  BY <1>1 DEF Handlers
<1>3. h.pc = "accepted"
  BY <1>1 DEF Handlers
<1>4. Becomes(c, h)
  BY DEF Accept
<1> HIDE DEF h
<1>5. QED
  BY <1>2, <1>3, <1>4, BecomesType

\* handle: the client is tracked without a generation.
LEMMA TrackedEffect ==
  ASSUME TypeOK, NEW c \in Conns, TrackClient(c), Tracks(0)
  PROVE /\ handlers' \in [Conns -> Handlers] /\ Others(c)
        /\ handlers'[c].pc = "tracked"
<1> DEFINE h == [handlers[c] EXCEPT !.pc = "tracked", !.clientGen = 0]
<1>1. handlers[c] \in Handlers
  BY DEF TypeOK
<1>2. h \in Handlers
  BY <1>1 DEF Handlers
<1>3. h.pc = "tracked"
  BY <1>1 DEF Handlers
<1>4. Becomes(c, h)
  BY DEF TrackClient
<1> HIDE DEF h
<1>5. QED
  BY <1>2, <1>3, <1>4, BecomesType

\* handle: a client that comes too late is closed.
LEMMA UntrackedEffect ==
  ASSUME TypeOK, NEW c \in Conns, TrackClient(c), ~Tracks(0)
  PROVE /\ handlers' \in [Conns -> Handlers] /\ Others(c)
        /\ handlers'[c].pc = "done"
<1> DEFINE h == [handlers[c] EXCEPT !.pc = "done", !.client = "closed"]
<1>1. handlers[c] \in Handlers
  BY DEF TypeOK
<1>2. h \in Handlers
  BY <1>1 DEF Handlers
<1>3. h.pc = "done"
  BY <1>1 DEF Handlers
<1>4. Becomes(c, h)
  BY DEF TrackClient
<1> HIDE DEF h
<1>5. QED
  BY <1>2, <1>3, <1>4, BecomesType

\* ensure: the handler has the instance and the generation it was handed out in.
LEMMA HandedEffect ==
  ASSUME TypeOK, NEW c \in Conns, NEW i \in Nat, Handed(c, i)
  PROVE /\ handlers' \in [Conns -> Handlers] /\ Others(c)
        /\ handlers'[c].pc = "ensured"
        /\ handlers'[c].instance = i
        /\ handlers'[c].generation = gate.generation
<1> DEFINE h == [handlers[c] EXCEPT !.pc = "ensured", !.instance = i,
                                      !.generation = gate.generation]
<1>1. handlers[c] \in Handlers /\ gate.generation \in Nat
  BY DEF TypeOK, Gates
<1>2. h \in Handlers
  BY <1>1 DEF Handlers
<1>3. h.pc = "ensured" /\ h.instance = i /\ h.generation = gate.generation
  BY <1>1 DEF Handlers
<1>4. Becomes(c, h)
  BY DEF Handed
<1> HIDE DEF h
<1>5. QED
  BY <1>2, <1>3, <1>4, BecomesType

\* handle: the client is bound to the generation of its instance.
LEMMA BindEffect ==
  ASSUME TypeOK, NEW c \in Conns, Bind(c), Tracks(handlers[c].generation)
  PROVE /\ handlers' \in [Conns -> Handlers] /\ Others(c)
        /\ handlers'[c].pc = "bound"
        /\ handlers'[c].clientGen = handlers[c].generation
        /\ handlers'[c].instance = handlers[c].instance
        /\ handlers'[c].generation = handlers[c].generation
<1> DEFINE h == [handlers[c] EXCEPT !.pc = "bound", !.clientGen = handlers[c].generation]
<1>1. handlers[c] \in Handlers
  BY DEF TypeOK
<1>2. h \in Handlers
  BY <1>1 DEF Handlers
<1>3. h.pc = "bound" /\ h.clientGen = handlers[c].generation /\ h.instance = handlers[c].instance /\ h.generation = handlers[c].generation
  BY <1>1 DEF Handlers
<1>4. Becomes(c, h)
  BY DEF Bind
<1> HIDE DEF h
<1>5. QED
  BY <1>2, <1>3, <1>4, BecomesType

\* handle: the dial succeeds.
LEMMA DialEffect ==
  ASSUME TypeOK, NEW c \in Conns, Dial(c, TRUE)
  PROVE /\ handlers' \in [Conns -> Handlers] /\ Others(c)
        /\ handlers'[c].pc = "dialed"
        /\ handlers'[c].instance = handlers[c].instance
        /\ handlers'[c].generation = handlers[c].generation
        /\ handlers'[c].clientGen = handlers[c].clientGen
<1> DEFINE h == [handlers[c] EXCEPT !.pc = "dialed", !.upstream = "open"]
<1>1. handlers[c] \in Handlers
  BY DEF TypeOK
<1>2. h \in Handlers
  BY <1>1 DEF Handlers
<1>3. h.pc = "dialed" /\ h.instance = handlers[c].instance /\ h.generation = handlers[c].generation /\ h.clientGen = handlers[c].clientGen
  BY <1>1 DEF Handlers
<1>4. Becomes(c, h)
  BY DEF Dial
<1> HIDE DEF h
<1>5. QED
  BY <1>2, <1>3, <1>4, BecomesType

\* handle: both sockets are tracked and the relay begins.
LEMMA RelayEffect ==
  ASSUME TypeOK, NEW c \in Conns, TrackUpstream(c), Tracks(handlers[c].generation)
  PROVE /\ handlers' \in [Conns -> Handlers] /\ Others(c)
        /\ handlers'[c].pc = "relaying"
        /\ handlers'[c].upstreamGen = handlers[c].generation
        /\ handlers'[c].instance = handlers[c].instance
        /\ handlers'[c].generation = handlers[c].generation
        /\ handlers'[c].clientGen = handlers[c].clientGen
<1> DEFINE h == [handlers[c] EXCEPT !.pc = "relaying", !.upstreamGen = handlers[c].generation]
<1>1. handlers[c] \in Handlers
  BY DEF TypeOK
<1>2. h \in Handlers
  BY <1>1 DEF Handlers
<1>3. h.pc = "relaying" /\ h.upstreamGen = handlers[c].generation /\ h.instance = handlers[c].instance /\ h.generation = handlers[c].generation /\ h.clientGen = handlers[c].clientGen
  BY <1>1 DEF Handlers
<1>4. Becomes(c, h)
  BY DEF TrackUpstream
<1> HIDE DEF h
<1>5. QED
  BY <1>2, <1>3, <1>4, BecomesType

\* handle: track refuses the upstream socket.
LEMMA NoRelayEffect ==
  ASSUME TypeOK, NEW c \in Conns, TrackUpstream(c), ~Tracks(handlers[c].generation)
  PROVE /\ handlers' \in [Conns -> Handlers] /\ Others(c)
        /\ handlers'[c].pc = "leaving"
<1> DEFINE h == [handlers[c] EXCEPT !.pc = "leaving", !.upstream = "closed"]
<1>1. handlers[c] \in Handlers
  BY DEF TypeOK
<1>2. h \in Handlers
  BY <1>1 DEF Handlers
<1>3. h.pc = "leaving"
  BY <1>1 DEF Handlers
<1>4. Becomes(c, h)
  BY DEF TrackUpstream
<1> HIDE DEF h
<1>5. QED
  BY <1>2, <1>3, <1>4, BecomesType

\* handle: the relay is over.
LEMMA RelayEndsEffect ==
  ASSUME TypeOK, NEW c \in Conns, RelayEnds(c)
  PROVE /\ handlers' \in [Conns -> Handlers] /\ Others(c)
        /\ handlers'[c].pc = "leaving"
<1> DEFINE h == [handlers[c] EXCEPT !.pc = "leaving", !.upstream = "closed",
                                      !.upstreamGen = Untracked]
<1>1. handlers[c] \in Handlers
  BY DEF TypeOK
<1>2. h \in Handlers
  BY <1>1 DEF Handlers, Untracked
<1>3. h.pc = "leaving"
  BY <1>1 DEF Handlers, Untracked
<1>4. Becomes(c, h)
  BY DEF RelayEnds
<1> HIDE DEF h
<1>5. QED
  BY <1>2, <1>3, <1>4, BecomesType

\* handle: the goroutine ends.
LEMMA LeaveEffect ==
  ASSUME TypeOK, NEW c \in Conns, Leave(c)
  PROVE /\ handlers' \in [Conns -> Handlers] /\ Others(c)
        /\ handlers'[c].pc = "done"
<1> DEFINE h == [handlers[c] EXCEPT !.pc = "done", !.client = "closed",
                                      !.clientGen = Untracked]
<1>1. handlers[c] \in Handlers
  BY DEF TypeOK
<1>2. h \in Handlers
  BY <1>1 DEF Handlers, Untracked
<1>3. h.pc = "done"
  BY <1>1 DEF Handlers, Untracked
<1>4. Becomes(c, h)
  BY DEF Leave
<1> HIDE DEF h
<1>5. QED
  BY <1>2, <1>3, <1>4, BecomesType

\* Closing sockets changes nothing else of a handler, and opens none.
LEMMA CloseSocketsEffect ==
  ASSUME TypeOK, CloseSockets
  PROVE /\ handlers' \in [Conns -> Handlers]
        /\ \A c \in Conns :
             /\ handlers'[c].pc = handlers[c].pc
             /\ handlers'[c].instance = handlers[c].instance
             /\ handlers'[c].generation = handlers[c].generation
             /\ handlers'[c].clientGen = handlers[c].clientGen
             /\ handlers'[c].upstreamGen = handlers[c].upstreamGen
             /\ c \in owner.clients \/ handlers[c].client = "closed" => handlers'[c].client = "closed"
             /\ c \in owner.upstreams \/ handlers[c].upstream = "closed" => handlers'[c].upstream = "closed"
<1> DEFINE h(c) == [handlers[c] EXCEPT
                      !.client = IF c \in owner.clients THEN "closed" ELSE @,
                      !.upstream = IF c \in owner.upstreams THEN "closed" ELSE @]
<1>1. ASSUME NEW c \in Conns
      PROVE /\ h(c) \in Handlers
            /\ h(c).pc = handlers[c].pc /\ h(c).instance = handlers[c].instance
            /\ h(c).generation = handlers[c].generation
            /\ h(c).clientGen = handlers[c].clientGen /\ h(c).upstreamGen = handlers[c].upstreamGen
            /\ c \in owner.clients \/ handlers[c].client = "closed" => h(c).client = "closed"
            /\ c \in owner.upstreams \/ handlers[c].upstream = "closed" => h(c).upstream = "closed"
  <2>1. handlers[c] \in Handlers
    BY DEF TypeOK
  <2>2. QED
    BY <2>1 DEF Handlers
<1>2. handlers' = [c \in Conns |-> h(c)]
  BY DEF CloseSockets
<1> HIDE DEF h
<1>3. QED
  BY <1>1, <1>2

-----------------------------------------------------------------------------
(* What a step of one handler leaves alone.                                *)

\* The gate may count and touch, nothing more; the other parties stay.
Bystanders ==
  /\ gate' \in Gates
  /\ gate'.instance = gate.instance /\ gate'.generation = gate.generation
  /\ gate'.closed = gate.closed /\ gate'.tracking = gate.tracking
  /\ sweeper' = sweeper /\ owner' = owner /\ alive' = alive /\ started' = started

\* The parts of the invariant that no step of a handler disturbs by counting.
Rest ==
  /\ OneOwner /\ Slots /\ SweepSparesBusy
  /\ sweeper.pc = "locked" /\ sweeper.idle => \A c \in Conns : ~Holds(c)
  /\ \A c \in Conns : Handout(c) /\ Relay(c) /\ BoundClient(c)

\* A handler that holds nothing after its step disturbs nothing.
LEMMA HoldsNothing ==
  ASSUME IInv, NEW c \in Conns, Others(c), Bystanders,
         handlers'[c].pc \notin {"ensured", "bound", "dialed", "relaying"}
  PROVE Rest'
<1> USE DEF Bystanders, Others
<1>1. OneOwner' /\ Slots'
  BY DEF IInv, OneOwner, Slots
<1>2. SweepSparesBusy'
  BY DEF IInv, SweepSparesBusy
<1>3. (sweeper.pc = "locked" /\ sweeper.idle => \A d \in Conns : ~Holds(d))'
  BY DEF IInv, Counted, Holds
<1>4. ASSUME NEW d \in Conns PROVE (Handout(d) /\ Relay(d) /\ BoundClient(d))'
  <2>1. CASE d = c
    BY <2>1 DEF Handout, Relay, BoundClient, Holds
  <2>2. CASE d # c
    <3>1. handlers'[d] = handlers[d]
      BY <2>2
    <3>2. Handout(d) /\ Relay(d) /\ BoundClient(d)
      BY DEF IInv
    <3>3. QED
      BY <3>1, <3>2 DEF Handout, Relay, BoundClient, Holds, Cut
  <2>3. QED
    BY <2>1, <2>2
<1>5. QED
  BY <1>1, <1>2, <1>3, <1>4 DEF Rest

\* A handler that goes on with what it holds.
LEMMA HoldsOn ==
  ASSUME IInv, NEW c \in Conns, Others(c), Bystanders, Holds(c), Holds(c)',
         handlers'[c].instance = handlers[c].instance,
         handlers'[c].generation = handlers[c].generation,
         BoundClient(c)', Relay(c)'
  PROVE Rest'
<1> USE DEF Bystanders, Others
<1>1. OneOwner' /\ Slots'
  BY DEF IInv, OneOwner, Slots
<1>2. SweepSparesBusy'
  BY DEF IInv, SweepSparesBusy, Holds
<1>3. (sweeper.pc = "locked" /\ sweeper.idle => \A d \in Conns : ~Holds(d))'
  BY DEF IInv, Counted, Holds
<1>4. ASSUME NEW d \in Conns PROVE (Handout(d) /\ Relay(d) /\ BoundClient(d))'
  <2>1. CASE d = c
    BY <2>1 DEF IInv, Handout, Holds
  <2>2. CASE d # c
    <3>1. handlers'[d] = handlers[d]
      BY <2>2
    <3>2. Handout(d) /\ Relay(d) /\ BoundClient(d)
      BY DEF IInv
    <3>3. QED
      BY <3>1, <3>2 DEF Handout, Relay, BoundClient, Holds, Cut
  <2>3. QED
    BY <2>1, <2>2
<1>5. QED
  BY <1>1, <1>2, <1>3, <1>4 DEF Rest

-----------------------------------------------------------------------------
(* The counter.                                                            *)

\* The handlers that are counted are finitely many.
LEMMA BusyFinite ==
  IsFiniteSet(BusyOnes) /\ Cardinality(BusyOnes) \in Nat
<1>1. BusyOnes \subseteq Conns
  BY DEF BusyOnes
<1>2. QED
  BY <1>1, XrayGateAssumption, FS_Subset, FS_CardinalityType

\* A handler that is counted before and after its step, or neither, leaves active right.
LEMMA CountSame ==
  ASSUME Counted, NEW c \in Conns, Others(c), Busy(c) <=> Busy(c)', gate'.active = gate.active
  PROVE (gate.active = Cardinality(BusyOnes))'
<1>1. BusyOnes' = BusyOnes
  BY DEF BusyOnes, Busy, Others
<1>2. QED
  BY <1>1 DEF Counted

\* A handler that counts itself leaves active right.
LEMMA CountUp ==
  ASSUME Counted, NEW c \in Conns, Others(c), ~Busy(c), Busy(c)', gate'.active = gate.active + 1
  PROVE (gate.active = Cardinality(BusyOnes))'
<1>1. BusyOnes' = BusyOnes \cup {c} /\ c \notin BusyOnes
  BY DEF BusyOnes, Busy, Others
<1>2. Cardinality(BusyOnes \cup {c}) = Cardinality(BusyOnes) + 1
  BY <1>1, BusyFinite, FS_AddElement
<1>3. QED
  BY <1>1, <1>2 DEF Counted

\* A handler that uncounts itself leaves active right and not negative.
LEMMA CountDown ==
  ASSUME Counted, NEW c \in Conns, Others(c), Busy(c), ~Busy(c)', gate'.active = gate.active - 1
  PROVE /\ (gate.active = Cardinality(BusyOnes))'
        /\ gate.active - 1 \in Nat
<1>1. BusyOnes' = BusyOnes \ {c} /\ c \in BusyOnes
  BY DEF BusyOnes, Busy, Others
<1>2. Cardinality(BusyOnes \ {c}) = Cardinality(BusyOnes) - 1
  BY <1>1, BusyFinite, FS_RemoveElement
<1>3. Cardinality(BusyOnes \ {c}) \in Nat
  BY BusyFinite, FS_RemoveElement, FS_CardinalityType
<1>4. QED
  BY <1>1, <1>2, <1>3 DEF Counted

\* If active is 0, nobody holds an instance.
LEMMA NoneBusy ==
  ASSUME Counted, gate.active = 0
  PROVE \A c \in Conns : ~Holds(c)
<1>1. BusyOnes = {}
  BY BusyFinite, FS_EmptySet DEF Counted
<1>2. QED
  BY <1>1 DEF BusyOnes, Busy, Holds

-----------------------------------------------------------------------------
(* The steps of a handler.                                                 *)

\* The parts of the invariant, put together again.
LEMMA Conclude ==
  ASSUME TypeOK', Rest', (gate.active = Cardinality(BusyOnes))'
  PROVE IInv'
BY DEF Rest, IInv, Counted

\* A step that changes handlers only, and leaves the counter right.
LEMMA OnlyHandler ==
  ASSUME IInv, NEW c \in Conns, Others(c), handlers' \in [Conns -> Handlers],
         UNCHANGED <<gate, sweeper, owner, alive, started>>, Busy(c) <=> Busy(c)'
  PROVE Bystanders /\ TypeOK' /\ (gate.active = Cardinality(BusyOnes))'
<1>1. Bystanders /\ TypeOK'
  BY DEF IInv, TypeOK, Bystanders
<1>2. QED
  BY <1>1, CountSame DEF IInv

\* The steps of handle keep the invariant.
LEMMA HandlerStep ==
  ASSUME IInv, NEW c \in Conns, Accept(c) \/ Handle(c) \/ RelayEnds(c)
  PROVE IInv'
<1> USE DEF At
<1>0. TypeOK /\ Counted
  BY DEF IInv
<1>1. CASE Accept(c)
  <2>1. handlers' \in [Conns -> Handlers] /\ Others(c) /\ handlers'[c].pc = "accepted"
    BY <1>0, <1>1, AcceptEffect
  <2>2. Bystanders /\ TypeOK' /\ (gate.active = Cardinality(BusyOnes))'
    BY <1>1, <2>1, OnlyHandler DEF Accept, Busy
  <2>3. QED
    BY <2>1, <2>2, HoldsNothing, Conclude
<1>2. CASE TrackClient(c)
  <2>1. /\ handlers' \in [Conns -> Handlers] /\ Others(c)
        /\ handlers'[c].pc \in {"tracked", "done"}
    BY <1>0, <1>2, TrackedEffect, UntrackedEffect
  <2>2. Bystanders /\ TypeOK' /\ (gate.active = Cardinality(BusyOnes))'
    BY <1>2, <2>1, OnlyHandler DEF TrackClient, Busy
  <2>3. QED
    BY <2>1, <2>2, HoldsNothing, Conclude
<1>3. CASE Count(c)
  <2>1. handlers' \in [Conns -> Handlers] /\ Others(c) /\ handlers'[c].pc = "counted"
    BY <1>0, <1>3, GotoType DEF Count
  <2>2. gate' \in Gates /\ gate'.active = gate.active + 1 /\ Bystanders
    <3>1. gate \in Gates /\ gate.active + 1 \in Nat
      BY <1>0 DEF TypeOK, Gates
    <3>2. gate' = [gate EXCEPT !.active = gate.active + 1, !.quiet = FALSE]
      BY <1>3, <3>1 DEF Count
    <3>3. gate' \in Gates
      BY <3>1, <3>2 DEF Gates
    <3>4. gate'.active = gate.active + 1
      BY <3>1, <3>2 DEF Gates
    <3>5. QED
      BY <1>3, <3>1, <3>2, <3>3, <3>4 DEF Count, Gates, Bystanders
  <2>3. TypeOK'
    BY <1>0, <1>3, <2>1, <2>2 DEF TypeOK, Count
  <2>4. (gate.active = Cardinality(BusyOnes))'
    BY <1>0, <1>3, <2>1, <2>2, CountUp DEF Count, Busy
  <2>5. QED
    BY <2>1, <2>2, <2>3, <2>4, HoldsNothing, Conclude
<1>4. CASE EnsureRefuses(c)
  <2>1. handlers' \in [Conns -> Handlers] /\ Others(c) /\ handlers'[c].pc = "leaving"
    BY <1>0, <1>4, GotoType DEF EnsureRefuses
  <2>2. Bystanders /\ TypeOK' /\ (gate.active = Cardinality(BusyOnes))'
    BY <1>4, <2>1, OnlyHandler DEF EnsureRefuses, Busy
  <2>3. QED
    BY <2>1, <2>2, HoldsNothing, Conclude
<1>5. CASE EnsureFinds(c)
  <2>0. gate.instance \in Nat /\ gate.generation \in Nat
    BY <1>0 DEF TypeOK, Gates
  <2>1. /\ handlers' \in [Conns -> Handlers] /\ Others(c) /\ handlers'[c].pc = "ensured"
        /\ handlers'[c].instance = gate.instance /\ handlers'[c].generation = gate.generation
    BY <1>0, <1>5, <2>0, HandedEffect DEF EnsureFinds
  <2>2. Bystanders /\ TypeOK' /\ (gate.active = Cardinality(BusyOnes))'
    BY <1>5, <2>1, OnlyHandler DEF EnsureFinds, Busy
  <2>3. OneOwner' /\ Slots'
    BY <2>2 DEF IInv, OneOwner, Slots, Bystanders
  <2>4. SweepSparesBusy'
    BY <1>5, <2>1, <2>2 DEF IInv, OneOwner, SweepSparesBusy, Bystanders, Others, EnsureFinds
  <2>5. (sweeper.pc = "locked" /\ sweeper.idle => \A d \in Conns : ~Holds(d))'
    BY <1>5, <2>2 DEF EnsureFinds, muFree, Bystanders
  <2>6. gate.instance \in 1..started /\ gate.generation \in 1..gate.generation
    BY <1>5, <2>0 DEF IInv, OneOwner, Slots, EnsureFinds
  <2>7. ASSUME NEW d \in Conns PROVE (Handout(d) /\ Relay(d) /\ BoundClient(d))'
    <3>1. CASE d = c
      BY <1>5, <2>1, <2>2, <2>6, <3>1
        DEF IInv, Slots, EnsureFinds, Handout, Relay, BoundClient, Holds, Bystanders
    <3>2. CASE d # c
      <4>1. handlers'[d] = handlers[d]
        BY <2>1, <3>2 DEF Others
      <4>2. Handout(d) /\ Relay(d) /\ BoundClient(d)
        BY DEF IInv
      <4>3. QED
        BY <2>2, <4>1, <4>2 DEF Handout, Relay, BoundClient, Holds, Cut, Bystanders
    <3>3. QED
      BY <3>1, <3>2
  <2>8. QED
    BY <2>2, <2>3, <2>4, <2>5, <2>7, Conclude DEF Rest
<1>6. CASE EnsureStarts(c, FALSE)
  <2>1. handlers' \in [Conns -> Handlers] /\ Others(c) /\ handlers'[c].pc = "leaving"
    BY <1>0, <1>6, GotoType DEF EnsureStarts
  <2>2. gate' \in Gates /\ gate'.active = gate.active /\ Bystanders
    BY <1>0, <1>6 DEF EnsureStarts, TypeOK, Gates, Bystanders
  <2>3. TypeOK'
    BY <1>0, <1>6, <2>1, <2>2 DEF TypeOK, EnsureStarts
  <2>4. (gate.active = Cardinality(BusyOnes))'
    BY <1>0, <1>6, <2>1, <2>2, CountSame DEF EnsureStarts, Busy
  <2>5. QED
    BY <2>1, <2>2, <2>3, <2>4, HoldsNothing, Conclude
<1>7. CASE EnsureStarts(c, TRUE)
  <2>0. started \in Nat /\ started' = started + 1 /\ gate.generation \in Nat
    BY <1>0, <1>7 DEF TypeOK, Gates, EnsureStarts
  <2>1. /\ handlers' \in [Conns -> Handlers] /\ Others(c) /\ handlers'[c].pc = "ensured"
        /\ handlers'[c].instance = started + 1 /\ handlers'[c].generation = gate.generation
    BY <1>0, <1>7, <2>0, HandedEffect DEF EnsureStarts
  <2>2. /\ gate' \in Gates /\ gate'.active = gate.active /\ gate'.instance = started + 1
        /\ gate'.generation = gate.generation /\ ~gate'.closed /\ ~gate.closed
        /\ gate'.tracking = gate.tracking /\ gate.instance = 0
        /\ sweeper' = sweeper /\ owner' = owner /\ alive' = alive \cup {started + 1}
        /\ sweeper.pc # "locked"
    BY <1>0, <1>7, <2>0 DEF EnsureStarts, TypeOK, Gates, muFree
  <2>3. TypeOK'
    BY <1>0, <2>0, <2>1, <2>2 DEF TypeOK
  <2>4. (gate.active = Cardinality(BusyOnes))'
    BY <1>0, <1>7, <2>1, <2>2, CountSame DEF EnsureStarts, Busy
  <2>5. /\ sweeper.instance \in Nat /\ owner.instance \in Nat
        /\ sweeper.instance # started + 1 /\ owner.instance # started + 1
    BY <1>0, <2>0 DEF TypeOK, Sweepers, Owners, IInv, OneOwner, Slots
  <2>6. OneOwner'
    BY <2>0, <2>2, <2>5 DEF IInv, OneOwner
  <2>7. Slots'
    BY <2>0, <2>2 DEF IInv, Slots
  <2>8. SweepSparesBusy'
    BY <2>1, <2>2, <2>5 DEF IInv, SweepSparesBusy, Others
  <2>9. (sweeper.pc = "locked" /\ sweeper.idle => \A d \in Conns : ~Holds(d))'
    BY <2>2
  <2>10. ASSUME NEW d \in Conns PROVE (Handout(d) /\ Relay(d) /\ BoundClient(d))'
    <3>1. CASE d = c
      <4>1. owner.pc \notin {"listeners", "map"} /\ gate.generation >= 1
        BY <2>2 DEF IInv, Slots
      <4>2. QED
        BY <2>0, <2>1, <2>2, <3>1, <4>1 DEF Handout, Relay, BoundClient, Holds
    <3>2. CASE d # c
      <4>1. handlers'[d] = handlers[d]
        BY <2>1, <3>2 DEF Others
      <4>2. Handout(d) /\ Relay(d) /\ BoundClient(d)
        BY DEF IInv
      <4>3. Holds(d) => handlers[d].generation # gate.generation
        BY <2>0, <2>2, <4>2 DEF Handout
      <4>4. QED
        BY <2>0, <2>2, <4>1, <4>2, <4>3 DEF Handout, Relay, BoundClient, Holds, Cut
    <3>3. QED
      BY <3>1, <3>2
  <2>11. QED
    BY <2>3, <2>4, <2>6, <2>7, <2>8, <2>9, <2>10, Conclude DEF Rest
<1>8. CASE Bind(c)
  <2>1. CASE Tracks(handlers[c].generation)
    <3>1. /\ handlers' \in [Conns -> Handlers] /\ Others(c) /\ handlers'[c].pc = "bound"
          /\ handlers'[c].clientGen = handlers[c].generation
          /\ handlers'[c].instance = handlers[c].instance
          /\ handlers'[c].generation = handlers[c].generation
      BY <1>0, <1>8, <2>1, BindEffect
    <3>2. Bystanders /\ TypeOK' /\ (gate.active = Cardinality(BusyOnes))'
      BY <1>8, <3>1, OnlyHandler DEF Bind, Busy
    <3>3. QED
      BY <1>8, <3>1, <3>2, HoldsOn, Conclude DEF Bind, Holds, BoundClient, Relay
  <2>2. CASE ~Tracks(handlers[c].generation)
    <3>1. handlers' \in [Conns -> Handlers] /\ Others(c) /\ handlers'[c].pc = "leaving"
      BY <1>0, <1>8, <2>2, GotoType DEF Bind
    <3>2. Bystanders /\ TypeOK' /\ (gate.active = Cardinality(BusyOnes))'
      BY <1>8, <3>1, OnlyHandler DEF Bind, Busy
    <3>3. QED
      BY <3>1, <3>2, HoldsNothing, Conclude
  <2>3. QED
    BY <2>1, <2>2
<1>9. CASE Dial(c, TRUE)
  <2>1. /\ handlers' \in [Conns -> Handlers] /\ Others(c) /\ handlers'[c].pc = "dialed"
        /\ handlers'[c].clientGen = handlers[c].clientGen
        /\ handlers'[c].instance = handlers[c].instance
        /\ handlers'[c].generation = handlers[c].generation
    BY <1>0, <1>9, DialEffect
  <2>2. Bystanders /\ TypeOK' /\ (gate.active = Cardinality(BusyOnes))'
    BY <1>9, <2>1, OnlyHandler DEF Dial, Busy
  <2>3. BoundClient(c)' /\ Relay(c)' /\ Holds(c) /\ Holds(c)'
    BY <1>9, <2>1 DEF IInv, Dial, BoundClient, Relay, Holds
  <2>4. QED
    BY <2>1, <2>2, <2>3, HoldsOn, Conclude
<1>10. CASE Dial(c, FALSE)
  <2>1. handlers' \in [Conns -> Handlers] /\ Others(c) /\ handlers'[c].pc = "leaving"
    BY <1>0, <1>10, GotoType DEF Dial
  <2>2. Bystanders /\ TypeOK' /\ (gate.active = Cardinality(BusyOnes))'
    BY <1>10, <2>1, OnlyHandler DEF Dial, Busy
  <2>3. QED
    BY <2>1, <2>2, HoldsNothing, Conclude
<1>11. CASE TrackUpstream(c)
  <2>1. CASE Tracks(handlers[c].generation)
    <3>1. /\ handlers' \in [Conns -> Handlers] /\ Others(c) /\ handlers'[c].pc = "relaying"
          /\ handlers'[c].upstreamGen = handlers[c].generation
          /\ handlers'[c].clientGen = handlers[c].clientGen
          /\ handlers'[c].instance = handlers[c].instance
          /\ handlers'[c].generation = handlers[c].generation
      BY <1>0, <1>11, <2>1, RelayEffect
    <3>2. Bystanders /\ TypeOK' /\ (gate.active = Cardinality(BusyOnes))'
      BY <1>11, <3>1, OnlyHandler DEF TrackUpstream, Busy
    <3>3. BoundClient(c)' /\ Holds(c) /\ Holds(c)'
      BY <1>11, <3>1 DEF TrackUpstream, BoundClient, Holds
    <3>4. handlers[c].generation = gate.generation /\ gate.tracking
      BY <2>1, <3>3 DEF Tracks, IInv, Handout
    <3>5. ~gate.closed \/ owner.pc \in {"listeners", "map"}
      BY <3>4, <1>0 DEF IInv, Slots, TypeOK, Owners
    <3>6. Relay(c)'
      BY <1>11, <3>1, <3>2, <3>4, <3>5 DEF IInv, TrackUpstream, BoundClient, Relay, Bystanders
    <3>7. QED
      BY <3>1, <3>2, <3>3, <3>6, HoldsOn, Conclude
  <2>2. CASE ~Tracks(handlers[c].generation)
    <3>1. handlers' \in [Conns -> Handlers] /\ Others(c) /\ handlers'[c].pc = "leaving"
      BY <1>0, <1>11, <2>2, NoRelayEffect
    <3>2. Bystanders /\ TypeOK' /\ (gate.active = Cardinality(BusyOnes))'
      BY <1>11, <3>1, OnlyHandler DEF TrackUpstream, Busy
    <3>3. QED
      BY <3>1, <3>2, HoldsNothing, Conclude
  <2>3. QED
    BY <2>1, <2>2
<1>12. CASE RelayEnds(c)
  <2>1. handlers' \in [Conns -> Handlers] /\ Others(c) /\ handlers'[c].pc = "leaving"
    BY <1>0, <1>12, RelayEndsEffect
  <2>2. Bystanders /\ TypeOK' /\ (gate.active = Cardinality(BusyOnes))'
    BY <1>12, <2>1, OnlyHandler DEF RelayEnds, Busy
  <2>3. QED
    BY <2>1, <2>2, HoldsNothing, Conclude
<1>13. CASE Uncount(c)
  <2>1. handlers' \in [Conns -> Handlers] /\ Others(c) /\ handlers'[c].pc = "uncounted"
    BY <1>0, <1>13, GotoType DEF Uncount
  <2>2. gate'.active = gate.active - 1
    BY <1>0, <1>13 DEF Uncount, TypeOK, Gates
  <2>3. (gate.active = Cardinality(BusyOnes))' /\ gate.active - 1 \in Nat
    BY <1>0, <1>13, <2>1, <2>2, CountDown DEF Uncount, Busy
  <2>4. Bystanders
    BY <1>0, <1>13, <2>3 DEF Uncount, TypeOK, Gates, Bystanders
  <2>5. TypeOK'
    BY <1>0, <1>13, <2>1, <2>4 DEF TypeOK, Uncount, Bystanders
  <2>6. QED
    BY <2>1, <2>3, <2>4, <2>5, HoldsNothing, Conclude
<1>14. CASE Leave(c)
  <2>1. handlers' \in [Conns -> Handlers] /\ Others(c) /\ handlers'[c].pc = "done"
    BY <1>0, <1>14, LeaveEffect
  <2>2. gate'.active = gate.active /\ Bystanders
    BY <1>0, <1>14 DEF Leave, TypeOK, Gates, Bystanders
  <2>3. (gate.active = Cardinality(BusyOnes))'
    BY <1>0, <1>14, <2>1, <2>2, CountSame DEF Leave, Busy
  <2>4. TypeOK'
    BY <1>0, <1>14, <2>1, <2>2 DEF TypeOK, Leave, Bystanders
  <2>5. QED
    BY <2>1, <2>2, <2>3, <2>4, HoldsNothing, Conclude
<1>15. QED
  BY <1>1, <1>2, <1>3, <1>4, <1>5, <1>6, <1>7, <1>8, <1>9, <1>10, <1>11, <1>12, <1>13,
     <1>14 DEF Handle

-----------------------------------------------------------------------------
(* The other steps: the positions of the handlers stay.                    *)

\* A step that moves no handler changes neither who is counted nor who holds.
LEMMA SamePositions ==
  ASSUME Counted, \A c \in Conns : handlers'[c].pc = handlers[c].pc, gate'.active = gate.active
  PROVE /\ (gate.active = Cardinality(BusyOnes))'
        /\ \A c \in Conns : Holds(c)' <=> Holds(c)
<1>1. BusyOnes' = BusyOnes
  BY DEF BusyOnes, Busy
<1>2. QED
  BY <1>1 DEF Counted, Holds

\* The passing of time keeps the invariant.
LEMMA TimeStep ==
  ASSUME IInv, CooldownEnds \/ GetsQuiet \/ UNCHANGED vars
  PROVE IInv'
<1>1. /\ gate' \in Gates /\ gate'.active = gate.active
      /\ gate'.instance = gate.instance /\ gate'.generation = gate.generation
      /\ gate'.closed = gate.closed /\ gate'.tracking = gate.tracking
      /\ UNCHANGED <<handlers, sweeper, owner, alive, started>>
  <2>1. gate \in Gates
    BY DEF IInv, TypeOK
  <2>2. CASE CooldownEnds
    BY <2>1, <2>2 DEF CooldownEnds, Gates
  <2>3. CASE GetsQuiet
    BY <2>1, <2>3 DEF GetsQuiet, Gates
  <2>4. CASE UNCHANGED vars
    BY <2>1, <2>4 DEF vars
  <2>5. QED
    BY <2>2, <2>3, <2>4
<1>2. TypeOK' /\ OneOwner' /\ Slots' /\ SweepSparesBusy'
  BY <1>1 DEF IInv, TypeOK, OneOwner, Slots, SweepSparesBusy
<1>3. (gate.active = Cardinality(BusyOnes))'
  BY <1>1, SamePositions DEF IInv
<1>4. (sweeper.pc = "locked" /\ sweeper.idle => \A c \in Conns : ~Holds(c))'
  BY <1>1 DEF IInv, Counted, Holds
<1>5. \A c \in Conns : (Handout(c) /\ Relay(c) /\ BoundClient(c))'
  BY <1>1 DEF IInv, Handout, Relay, BoundClient, Holds, Cut
<1>6. QED
  BY <1>2, <1>3, <1>4, <1>5, Conclude DEF Rest

\* The sweeper moves and leaves the gate as it is.
LEMMA SweeperMoves ==
  ASSUME IInv, UNCHANGED <<gate, handlers, owner, alive, started>>,
         sweeper' \in Sweepers, sweeper'.instance = sweeper.instance,
         sweeper'.pc # "closing" => sweeper'.instance = 0,
         sweeper'.pc = "locked" /\ sweeper'.idle => \A c \in Conns : ~Holds(c)
  PROVE IInv'
<1>1. TypeOK' /\ OneOwner' /\ Slots' /\ SweepSparesBusy'
  BY DEF IInv, TypeOK, OneOwner, Slots, SweepSparesBusy
<1>2. (gate.active = Cardinality(BusyOnes))'
  BY SamePositions DEF IInv
<1>3. (sweeper.pc = "locked" /\ sweeper.idle => \A c \in Conns : ~Holds(c))'
  BY DEF Holds
<1>4. \A c \in Conns : (Handout(c) /\ Relay(c) /\ BoundClient(c))'
  BY DEF IInv, Handout, Relay, BoundClient, Holds, Cut
<1>5. QED
  BY <1>1, <1>2, <1>3, <1>4, Conclude DEF Rest

\* The steps of sweep keep the invariant.
LEMMA SweepStep ==
  ASSUME IInv, Sweep
  PROVE IInv'
<1>0. TypeOK /\ gate \in Gates /\ sweeper \in Sweepers /\ owner \in Owners
  BY DEF IInv, TypeOK
<1>1. CASE SweepTick \/ SweepStops
  <2>1. /\ sweeper' \in Sweepers /\ sweeper'.instance = sweeper.instance
        /\ sweeper'.pc \in {"checked", "stopped"} /\ sweeper.pc = "ticking"
        /\ UNCHANGED <<gate, handlers, owner, alive, started>>
    BY <1>0, <1>1 DEF SweepTick, SweepStops, Sweepers
  <2>2. sweeper.instance = 0
    BY <2>1 DEF IInv, Slots
  <2>3. QED
    BY <2>1, <2>2, SweeperMoves
<1>2. CASE SweepLock
  <2>1. /\ sweeper' \in Sweepers /\ sweeper'.instance = sweeper.instance
        /\ sweeper'.pc = "locked" /\ sweeper.pc = "checked"
        /\ sweeper'.idle <=> gate.active = 0
        /\ UNCHANGED <<gate, handlers, owner, alive, started>>
    BY <1>0, <1>2 DEF SweepLock, ActiveNone, Sweepers
  <2>2. sweeper.instance = 0
    BY <2>1 DEF IInv, Slots
  <2>3. gate.active = 0 => \A c \in Conns : ~Holds(c)
    BY NoneBusy DEF IInv
  <2>4. QED
    BY <2>1, <2>2, <2>3, SweeperMoves
<1>3. CASE SweepTake /\ ~(sweeper.idle /\ gate.quiet)
  <2>1. /\ sweeper' \in Sweepers /\ sweeper'.instance = sweeper.instance
        /\ sweeper'.pc = "ticking" /\ sweeper.pc = "locked"
        /\ UNCHANGED <<gate, handlers, owner, alive, started>>
    BY <1>0, <1>3 DEF SweepTake, Sweepers
  <2>2. sweeper.instance = 0
    BY <2>1 DEF IInv, Slots
  <2>3. QED
    BY <2>1, <2>2, SweeperMoves
<1>4. CASE SweepTake /\ sweeper.idle /\ gate.quiet
  <2>1. /\ sweeper' \in Sweepers /\ sweeper'.instance = gate.instance
        /\ sweeper'.pc = "closing" /\ sweeper.pc = "locked"
        /\ UNCHANGED <<handlers, owner, alive, started>>
    BY <1>0, <1>4 DEF SweepTake, Sweepers, Gates
  <2>2. /\ gate' \in Gates /\ gate'.active = gate.active /\ gate'.instance = 0
        /\ gate'.generation = gate.generation /\ gate'.closed = gate.closed
        /\ gate'.tracking = gate.tracking
    BY <1>0, <1>4 DEF SweepTake, Gates
  <2>3. \A c \in Conns : ~Holds(c)
    BY <1>4, <2>1 DEF IInv, Counted
  <2>4. sweeper.instance = 0
    BY <2>1 DEF IInv, Slots
  <2>5. TypeOK' /\ OneOwner' /\ Slots'
    BY <1>0, <2>1, <2>2, <2>4 DEF IInv, TypeOK, OneOwner, Slots
  <2>6. (gate.active = Cardinality(BusyOnes))'
    BY <2>1, <2>2, SamePositions DEF IInv
  <2>7. \A c \in Conns : Holds(c)' <=> Holds(c)
    BY <2>1 DEF Holds
  <2>8. (sweeper.pc = "locked" /\ sweeper.idle => \A c \in Conns : ~Holds(c))' /\ SweepSparesBusy'
    BY <2>1, <2>3, <2>7 DEF SweepSparesBusy, Holds
  <2>9. \A c \in Conns : (Handout(c) /\ Relay(c) /\ BoundClient(c))'
    BY <2>1, <2>3, <2>7 DEF Handout, Relay, BoundClient, Holds
  <2>10. QED
    BY <2>5, <2>6, <2>8, <2>9, Conclude DEF Rest
<1>5. CASE SweepClose
  <2>1. /\ sweeper' \in Sweepers /\ sweeper'.instance = 0 /\ sweeper'.pc = "ticking"
        /\ alive' = alive \ {sweeper.instance}
        /\ UNCHANGED <<gate, handlers, owner, started>>
    BY <1>0, <1>5 DEF SweepClose, Sweepers
  <2>2. TypeOK' /\ Slots' /\ SweepSparesBusy'
    BY <1>0, <2>1 DEF IInv, TypeOK, Slots, SweepSparesBusy
  <2>3. OneOwner'
    BY <2>1 DEF IInv, OneOwner
  <2>4. (gate.active = Cardinality(BusyOnes))'
    BY <2>1, SamePositions DEF IInv
  <2>5. (sweeper.pc = "locked" /\ sweeper.idle => \A c \in Conns : ~Holds(c))'
    BY <2>1
  <2>6. \A c \in Conns : (Handout(c) /\ Relay(c) /\ BoundClient(c))'
    BY <2>1 DEF IInv, Handout, Relay, BoundClient, Holds, Cut
  <2>7. QED
    BY <2>2, <2>3, <2>4, <2>5, <2>6, Conclude DEF Rest
<1>6. QED
  BY <1>1, <1>2, <1>3, <1>4, <1>5 DEF Sweep

-----------------------------------------------------------------------------
(* Recycle and Close.                                                      *)

\* What remains to be shown of a step of the owner.
LEMMA OwnerStepRest ==
  ASSUME IInv, TypeOK', OneOwner', Slots', sweeper' = sweeper, gate'.active = gate.active,
         \A c \in Conns : /\ handlers'[c].pc = handlers[c].pc
                          /\ handlers'[c].instance = handlers[c].instance
                          /\ handlers'[c].generation = handlers[c].generation
                          /\ handlers'[c].clientGen = handlers[c].clientGen,
         \A c \in Conns : Handout(c)' /\ Relay(c)'
  PROVE IInv'
<1>1. (gate.active = Cardinality(BusyOnes))' /\ \A c \in Conns : Holds(c)' <=> Holds(c)
  BY SamePositions DEF IInv
<1>2. (sweeper.pc = "locked" /\ sweeper.idle => \A c \in Conns : ~Holds(c))'
  BY <1>1 DEF IInv, Counted
<1>3. SweepSparesBusy' /\ \A c \in Conns : BoundClient(c)'
  BY DEF IInv, SweepSparesBusy, BoundClient
<1>4. QED
  BY <1>1, <1>2, <1>3, Conclude DEF Rest

\* The first step of Recycle keeps the invariant.
LEMMA RecycleStep ==
  ASSUME IInv, Recycle
  PROVE IInv'
<1>0. TypeOK /\ gate \in Gates /\ owner \in Owners /\ gate.generation \in Nat
  BY DEF IInv, TypeOK, Gates
<1>1. /\ gate' \in Gates /\ gate'.active = gate.active /\ gate'.instance = 0
      /\ gate'.generation = gate.generation + 1 /\ gate'.closed = gate.closed
      /\ gate'.tracking = gate.tracking
  <2>1. gate.generation + 1 \in Nat
    BY <1>0
  <2>2. gate' = [gate EXCEPT !.instance = 0, !.generation = gate.generation + 1]
    BY <1>0 DEF Recycle
  <2>3. gate' \in Gates
    BY <1>0, <2>1, <2>2 DEF Gates
  <2>4. QED
    BY <1>0, <2>2, <2>3 DEF Gates
<1>2. /\ owner' \in Owners /\ owner'.pc = "snapshot" /\ owner'.instance = gate.instance
      /\ owner'.retired = gate.generation /\ owner.pc = "free" /\ gate.instance # 0
      /\ UNCHANGED <<handlers, sweeper, alive, started>>
  BY <1>0 DEF Recycle, Owners, Gates
<1>3. ~gate.closed /\ gate.generation >= 1
  BY <1>2 DEF IInv, Slots
<1>4. TypeOK' /\ OneOwner' /\ Slots'
  BY <1>0, <1>1, <1>2, <1>3 DEF IInv, TypeOK, OneOwner, Slots
<1>5. ASSUME NEW c \in Conns PROVE Handout(c)' /\ Relay(c)'
  <2>1. Handout(c) /\ Relay(c)
    BY DEF IInv
  <2>2. Handout(c)'
    BY <1>0, <1>1, <1>2, <2>1 DEF Handout, Holds
  <2>3. Relay(c)'
    BY <1>0, <1>1, <1>2, <1>3, <2>1 DEF Handout, Relay, Holds, Cut
  <2>4. QED
    BY <2>2, <2>3
<1>6. QED
  BY <1>1, <1>2, <1>4, <1>5, OwnerStepRest

\* The first step of Close keeps the invariant.
LEMMA CloseStep ==
  ASSUME IInv, Close
  PROVE IInv'
<1>0. TypeOK /\ gate \in Gates /\ owner \in Owners /\ gate.generation \in Nat
  BY DEF IInv, TypeOK, Gates
<1>1. /\ gate' \in Gates /\ gate'.active = gate.active /\ gate'.instance = 0
      /\ gate'.generation = gate.generation /\ gate'.closed /\ ~gate.closed
      /\ gate'.tracking = gate.tracking
  BY <1>0 DEF Close, Gates
<1>2. /\ owner' \in Owners /\ owner'.pc = "listeners" /\ owner'.instance = gate.instance
      /\ owner.pc = "free"
      /\ UNCHANGED <<handlers, sweeper, alive, started>>
  BY <1>0 DEF Close, Owners, Gates
<1>4. TypeOK' /\ OneOwner' /\ Slots'
  BY <1>0, <1>1, <1>2 DEF IInv, TypeOK, OneOwner, Slots
<1>5. ASSUME NEW c \in Conns PROVE Handout(c)' /\ Relay(c)'
  <2>1. Handout(c) /\ Relay(c)
    BY DEF IInv
  <2>2. Handout(c)'
    BY <1>0, <1>1, <1>2, <2>1 DEF Handout, Holds
  <2>3. Relay(c)'
    BY <1>0, <1>1, <1>2, <2>1 DEF Relay, Cut
  <2>4. QED
    BY <2>2, <2>3
<1>6. QED
  BY <1>1, <1>2, <1>4, <1>5, OwnerStepRest

\* The other steps of Recycle and Close keep the invariant.
LEMMA OwnerStep ==
  ASSUME IInv, OwnerGoesOn
  PROVE IInv'
<1>0. TypeOK /\ gate \in Gates /\ owner \in Owners /\ gate.generation \in Nat
  BY DEF IInv, TypeOK, Gates
<1>1. \A c \in Conns : Handout(c) /\ Relay(c)
  BY DEF IInv
<1>2. CASE RecycleSnapshot
  <2>1. /\ owner' \in Owners /\ owner'.pc = "closeStale" /\ owner.pc = "snapshot"
        /\ owner'.instance = owner.instance /\ owner'.retired = owner.retired
        /\ owner'.clients = {c \in Conns : handlers[c].clientGen = owner.retired}
        /\ owner'.upstreams = {c \in Conns : handlers[c].upstreamGen = owner.retired}
        /\ UNCHANGED <<gate, handlers, sweeper, alive, started>>
    BY <1>0, <1>2 DEF RecycleSnapshot, Owners
  <2>2. TypeOK' /\ OneOwner' /\ Slots'
    BY <1>0, <2>1 DEF IInv, TypeOK, OneOwner, Slots
  <2>3. \A c \in Conns : Handout(c)' /\ Relay(c)'
    BY <1>1, <2>1 DEF Handout, Holds, Relay, Cut
  <2>4. QED
    BY <2>1, <2>2, <2>3, OwnerStepRest
<1>3. CASE RecycleCloseStale
  <2>1. /\ owner' \in Owners /\ owner'.pc = "retire" /\ owner.pc = "closeStale"
        /\ owner'.instance = owner.instance /\ owner'.retired = owner.retired
        /\ UNCHANGED <<gate, sweeper, alive, started>>
    BY <1>0, <1>3 DEF RecycleCloseStale, OwnerGoes, Owners
  <2>2. /\ handlers' \in [Conns -> Handlers]
        /\ \A c \in Conns :
             /\ handlers'[c].pc = handlers[c].pc
             /\ handlers'[c].instance = handlers[c].instance
             /\ handlers'[c].generation = handlers[c].generation
             /\ handlers'[c].clientGen = handlers[c].clientGen
             /\ handlers'[c].upstreamGen = handlers[c].upstreamGen
             /\ c \in owner.clients \/ handlers[c].client = "closed" => handlers'[c].client = "closed"
             /\ c \in owner.upstreams \/ handlers[c].upstream = "closed" => handlers'[c].upstream = "closed"
    BY <1>0, <1>3, CloseSocketsEffect DEF RecycleCloseStale
  <2>3. TypeOK' /\ OneOwner' /\ Slots'
    BY <1>0, <2>1, <2>2 DEF IInv, TypeOK, OneOwner, Slots
  <2>4. \A c \in Conns : Handout(c)'
    BY <1>1, <2>1, <2>2 DEF Handout, Holds
  <2>5. \A c \in Conns : Relay(c)'
    BY <1>1, <2>1, <2>2 DEF Relay, Cut
  <2>6. QED
    BY <2>1, <2>2, <2>3, <2>4, <2>5, OwnerStepRest
<1>4. CASE RecycleRetire \/ CloseShut
  <2>1. /\ owner' \in Owners /\ owner'.pc = "free" /\ owner.pc \in {"retire", "shut"}
        /\ owner'.instance = 0 /\ alive' = alive \ {owner.instance}
        /\ UNCHANGED <<gate, handlers, sweeper, started>>
    <3>1. /\ CloseInstance /\ owner.pc \in {"retire", "shut"}
          /\ UNCHANGED <<gate, handlers, sweeper, started>>
      BY <1>4 DEF RecycleRetire, CloseShut
    <3>2. /\ {} \in SUBSET Conns /\ alive' = alive \ {owner.instance}
          /\ owner' = [owner EXCEPT !.pc = "free", !.instance = 0, !.clients = {}, !.upstreams = {}]
      BY <3>1 DEF CloseInstance
    <3>3. owner' \in Owners
      BY <1>0, <3>2 DEF Owners
    <3>4. owner'.pc = "free" /\ owner'.instance = 0
      BY <1>0, <3>2 DEF Owners
    <3>5. QED
      BY <3>1, <3>2, <3>3, <3>4
  <2>2. TypeOK' /\ Slots'
    BY <1>0, <2>1 DEF IInv, TypeOK, Slots
  <2>3. OneOwner'
    BY <2>1 DEF IInv, OneOwner
  <2>4. \A c \in Conns : Handout(c)' /\ Relay(c)'
    BY <1>1, <2>1 DEF Handout, Holds, Relay, Cut
  <2>5. QED
    BY <2>1, <2>2, <2>3, <2>4, OwnerStepRest
<1>5. CASE CloseListeners
  <2>1. /\ owner' \in Owners /\ owner'.pc = "map" /\ owner.pc = "listeners"
        /\ owner'.instance = owner.instance
        /\ UNCHANGED <<handlers, sweeper, alive, started>>
    BY <1>0, <1>5 DEF CloseListeners, OwnerGoes, Owners
  <2>2. /\ gate' \in Gates /\ gate'.active = gate.active /\ gate'.instance = gate.instance
        /\ gate'.generation = gate.generation /\ gate'.closed = gate.closed
        /\ gate'.tracking = gate.tracking
    BY <1>0, <1>5 DEF CloseListeners, Gates
  <2>3. TypeOK' /\ OneOwner' /\ Slots'
    BY <1>0, <2>1, <2>2 DEF IInv, TypeOK, OneOwner, Slots
  <2>4. \A c \in Conns : Handout(c)' /\ Relay(c)'
    BY <1>1, <2>1, <2>2 DEF Handout, Holds, Relay, Cut
  <2>5. QED
    BY <2>1, <2>2, <2>3, <2>4, OwnerStepRest
<1>6. CASE CloseMap
  <2>1. /\ owner' \in Owners /\ owner'.pc = "closeConns" /\ owner.pc = "map"
        /\ owner'.instance = owner.instance
        /\ owner'.clients = {c \in Conns : handlers[c].clientGen # Untracked}
        /\ owner'.upstreams = {c \in Conns : handlers[c].upstreamGen # Untracked}
        /\ UNCHANGED <<handlers, sweeper, alive, started>>
    BY <1>0, <1>6 DEF CloseMap, Owners
  <2>2. /\ gate' \in Gates /\ gate'.active = gate.active /\ gate'.instance = gate.instance
        /\ gate'.generation = gate.generation /\ gate'.closed = gate.closed
        /\ ~gate'.tracking
    BY <1>0, <1>6 DEF CloseMap, Gates
  <2>3. TypeOK' /\ OneOwner' /\ Slots'
    BY <1>0, <2>1, <2>2 DEF IInv, TypeOK, OneOwner, Slots
  <2>4. ASSUME NEW c \in Conns PROVE Handout(c)' /\ Relay(c)'
    <3>1. Handout(c) /\ Relay(c)
      BY <1>1
    <3>2. Handout(c)'
      BY <2>1, <2>2, <3>1 DEF Handout, Holds
    <3>3. handlers[c].pc = "relaying" =>
            handlers[c].clientGen # Untracked /\ handlers[c].upstreamGen # Untracked
      BY <1>0, <3>1 DEF TypeOK, Handlers, Relay, Handout, Holds, Untracked
    <3>4. gate.closed
      BY <2>1 DEF IInv, Slots
    <3>5. Relay(c)'
      BY <2>1, <2>2, <3>1, <3>3, <3>4 DEF Relay, Handout, Holds, Cut
    <3>6. QED
      BY <3>2, <3>5
  <2>5. QED
    BY <2>1, <2>2, <2>3, <2>4, OwnerStepRest
<1>7. CASE CloseConns
  <2>1. /\ owner' \in Owners /\ owner'.pc = "shut" /\ owner.pc = "closeConns"
        /\ owner'.instance = owner.instance
        /\ UNCHANGED <<gate, sweeper, alive, started>>
    BY <1>0, <1>7 DEF CloseConns, OwnerGoes, Owners
  <2>2. /\ handlers' \in [Conns -> Handlers]
        /\ \A c \in Conns :
             /\ handlers'[c].pc = handlers[c].pc
             /\ handlers'[c].instance = handlers[c].instance
             /\ handlers'[c].generation = handlers[c].generation
             /\ handlers'[c].clientGen = handlers[c].clientGen
             /\ handlers'[c].upstreamGen = handlers[c].upstreamGen
             /\ c \in owner.clients \/ handlers[c].client = "closed" => handlers'[c].client = "closed"
             /\ c \in owner.upstreams \/ handlers[c].upstream = "closed" => handlers'[c].upstream = "closed"
    BY <1>0, <1>7, CloseSocketsEffect DEF CloseConns
  <2>3. TypeOK' /\ OneOwner' /\ Slots'
    BY <1>0, <2>1, <2>2 DEF IInv, TypeOK, OneOwner, Slots
  <2>4. \A c \in Conns : Handout(c)'
    BY <1>1, <2>1, <2>2 DEF Handout, Holds
  <2>5. \A c \in Conns : Relay(c)'
    BY <1>1, <2>1, <2>2 DEF Relay, Cut
  <2>6. QED
    BY <2>1, <2>2, <2>3, <2>4, <2>5, OwnerStepRest
<1>8. QED
  BY <1>2, <1>3, <1>4, <1>5, <1>6, <1>7 DEF OwnerGoesOn

-----------------------------------------------------------------------------
(* The theorems.                                                           *)

\* Every step keeps the invariant.
LEMMA StepSound == IInv /\ [Next]_vars => IInv'
BY HandlerStep, TimeStep, SweepStep, RecycleStep, CloseStep, OwnerStep DEF Next

\* The invariant implies the safety properties.
LEMMA Implied ==
  IInv => TypeOK /\ OneOwner /\ LiveTarget /\ RecycleMissesNone /\ SweepSparesBusy /\ CloseLeavesNothing
<1> SUFFICES ASSUME IInv
             PROVE TypeOK /\ OneOwner /\ LiveTarget /\ RecycleMissesNone /\ SweepSparesBusy /\ CloseLeavesNothing
  OBVIOUS
<1>1. LiveTarget
  <2> SUFFICES ASSUME NEW c \in Conns, At(c, "relaying"), handlers[c].client = "open"
               PROVE handlers[c].instance \in alive
    BY DEF LiveTarget
  <2>1. Holds(c) /\ Handout(c) /\ Relay(c) /\ ~Cut(c)
    BY DEF IInv, At, Holds, Cut
  <2>2. handlers[c].instance \in {gate.instance, owner.instance}
    BY <2>1 DEF Handout, Relay, At
  <2>3. handlers[c].instance # 0
    BY <2>1 DEF Handout
  <2>4. QED
    BY <2>2, <2>3 DEF IInv, OneOwner
<1>2. RecycleMissesNone
  <2> SUFFICES ASSUME owner.pc \notin {"snapshot", "closeStale"}, NEW c \in Conns,
                      At(c, "relaying"), handlers[c].generation # gate.generation
               PROVE Cut(c)
    BY DEF RecycleMissesNone
  <2>1. Relay(c)
    BY DEF IInv
  <2>2. QED
    BY <2>1 DEF Relay, At
<1>3. CloseLeavesNothing
  <2> SUFFICES ASSUME gate.closed, owner.pc = "free"
               PROVE /\ alive \subseteq {sweeper.instance}
                     /\ \A c \in Conns : At(c, "relaying") => Cut(c)
    BY DEF CloseLeavesNothing
  <2>1. alive \subseteq {sweeper.instance}
    BY DEF IInv, OneOwner, Slots
  <2>2. \A c \in Conns : At(c, "relaying") => Cut(c)
    BY DEF IInv, Relay, At
  <2>3. QED
    BY <2>1, <2>2
<1>4. QED
  BY <1>1, <1>2, <1>3 DEF IInv

\* The inductive invariant holds for any number of connections and network changes.
THEOREM Invariant == Spec => []IInv
<1>1. QED
  BY InitSound, StepSound, PTL DEF Spec

\* Every variable of the gate keeps its type; active never becomes negative.
THEOREM TypeCorrect == Spec => []TypeOK
<1>1. QED
  BY Invariant, Implied, PTL

\* No instance that ensure starts leaks, and none is closed twice.
THEOREM InstancesOwned == Spec => []OneOwner
<1>1. QED
  BY Invariant, Implied, PTL

\* No instance is closed under a relay whose client is still open.
THEOREM RelaysAlive == Spec => []LiveTarget
<1>1. QED
  BY Invariant, Implied, PTL

\* Recycle closes every connection of the instance it retires, also those that were on
\* their way to it when the network changed; the sweeper never takes an instance that a
\* connection has been handed; Close leaves no instance and no open relay behind.
THEOREM NoneMissed == Spec => []NobodyMissed
<1>1. IInv => NobodyMissed
  BY Implied DEF NobodyMissed
<1>2. QED
  BY <1>1, Invariant, PTL
=============================================================================
