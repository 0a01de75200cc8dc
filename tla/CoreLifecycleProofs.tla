------------------------ MODULE CoreLifecycleProofs ------------------------
(***************************************************************************)
(* Theorems about CoreLifecycle, for every platform, every set of profiles *)
(* and any number of calls, with lost answers and panics allowed. The last *)
(* section excludes panics and Starts that the client gave up: without     *)
(* them, at most one profile has something that runs.                      *)
(***************************************************************************)
EXTENDS CoreLifecycle, TLAPS

\* Where a call may be.
Labels == {"unsent", "queued"} \cup Holding \cup Answered

\* What a call that holds or held the mutex found when it came in: every
\* call before it was answered.
Ordered ==
  \A i, j \in Ids :
    i < j /\ pc[j] \in Holding \cup Answered => pc[i] \in Answered

\* Calls are sent in order.
Sent == \A i \in Ids : pc[i] = "unsent" <=> asked < i

\* What the client believes was told by the last call.
Believes ==
  /\ client.call \in {0, asked}
  /\ client.running /\ client.call = 0 =>
       asked # 0 /\ pc[asked] = "ok" /\ Starts(asked)

\* What a call knows at its label.
Local(i) ==
  /\ pc[i] = "publish" => boxes[i] = "live"
  /\ pc[i] \in {"apply", "watch"} => slots.box = i /\ boxes[i] = "live"
  /\ pc[i] = "unpublish" => dns = "off"
  /\ pc[i] = "closeXray" =>
       slots.instance = 0 /\ slots.gate = 0 /\ slots.full = 0
  /\ i = asked /\ pc[i] = "ok" /\ Starts(i) => slots.box = i /\ boxes[i] = "live"

\* A call that has not begun has made no box.
BoxesMade == \A i \in Ids : boxes[i] = "live" => pc[i] \notin {"unsent", "queued"}

\* The inductive invariant, without the types.
Sound ==
  /\ Ordered
  /\ Sent
  /\ Believes
  /\ \A i \in Ids : Local(i)
  /\ BoxesMade
  /\ XraySlotsLive
  /\ ResolverHasListener

\* The inductive invariant with lost answers and panics.
IInv == TypeOK /\ Sound

-----------------------------------------------------------------------------
(* A step of a call: lemmas that do not depend on which one.               *)

\* TypeOK without the client and the positions of the calls.
CoreType ==
  /\ slots \in Slots
  /\ dns \in {"off", "prepared", "applied"}
  /\ boxes \in [Ids -> {"none", "live", "closing", "closed"}]
  /\ xrays \in [Ids -> SUBSET Parts]
  /\ procs \in [Ids -> Processes]
  /\ taken \in SUBSET (Ids \X Parts)

\* The calls make their way through the mutex in order.
LEMMA Moved ==
  ASSUME TypeOK, Ordered, Sent,
         NEW i \in Ids, NEW l \in Holding \cup Answered,
         pc[i] \in Holding \/ MayEnter(i),
         Goto(i, l), asked' = asked
  PROVE  /\ Ordered' /\ Sent'
         /\ pc' \in [Ids -> Labels]
         /\ asked \in Ids /\ pc[asked] # "ok"
         /\ \A j \in Ids \ {i} : pc'[j] = pc[j] /\ pc[j] \notin Holding
         /\ pc[i] # "closeXray" => taken = {}
<1> USE DEF Ids
<1>t. /\ pc \in [Ids -> Labels] /\ asked \in 0..MaxCalls /\ MaxCalls \in Nat
  BY CoreLifecycleAssumption DEF TypeOK, Labels
<1>d. Holding \cap Answered = {} /\ "queued" \notin Holding \cup Answered
      /\ "unsent" \notin Holding \cup Answered /\ "ok" \in Answered
  BY DEF Holding, Answered
<1>p. /\ pc' \in [Ids -> Labels]
      /\ pc'[i] = l
      /\ \A j \in Ids \ {i} : pc'[j] = pc[j]
  BY <1>t DEF Goto, Labels
<1>s. pc[i] # "unsent" /\ pc[i] \notin Answered
  BY <1>d DEF MayEnter
<1>a. asked \in Ids /\ i <= asked
  BY <1>t, <1>s DEF Sent
<1>b. \A j \in Ids : j < i => pc[j] \in Answered
  <2>1. CASE pc[i] \in Holding
    BY <2>1 DEF Ordered
  <2>2. CASE MayEnter(i)
    <3> SUFFICES ASSUME NEW j \in Ids, j < i PROVE pc[j] \in Answered
      OBVIOUS
    <3>1. pc[j] \notin Holding /\ pc[j] # "queued"
      BY <2>2 DEF MayEnter
    <3>2. pc[j] # "unsent"
      BY <1>a, <1>t DEF Sent
    <3> QED BY <3>1, <3>2, <1>t DEF Labels
  <2> QED BY <2>1, <2>2
<1>c. \A j \in Ids : i < j => pc[j] \notin Holding \cup Answered
  BY <1>s DEF Ordered
<1>e. \A j \in Ids \ {i} : pc[j] \notin Holding
  <2> SUFFICES ASSUME NEW j \in Ids \ {i} PROVE pc[j] \notin Holding
    OBVIOUS
  <2>1. j < i \/ i < j
    BY <1>t
  <2> QED BY <2>1, <1>b, <1>c, <1>d
<1>f. pc[asked] # "ok"
  <2>1. asked = i \/ i < asked
    BY <1>t, <1>a
  <2> QED BY <2>1, <1>a, <1>c, <1>d, <1>s
<1>g. Sent'
  <2> SUFFICES ASSUME NEW j \in Ids PROVE pc'[j] = "unsent" <=> asked' < j
    BY DEF Sent
  <2>1. CASE j = i
    BY <2>1, <1>a, <1>p, <1>d, <1>t
  <2>2. CASE j # i
    BY <2>2, <1>p DEF Sent
  <2> QED BY <2>1, <2>2
<1>h. Ordered'
  <2> SUFFICES ASSUME NEW a \in Ids, NEW b \in Ids, a < b,
                      pc'[b] \in Holding \cup Answered
               PROVE  pc'[a] \in Answered
    BY DEF Ordered
  <2>1. CASE b = i
    BY <2>1, <1>b, <1>p, <1>t
  <2>2. CASE b # i /\ a = i
    BY <2>2, <1>c, <1>p
  <2>3. CASE b # i /\ a # i
    BY <2>3, <1>p DEF Ordered
  <2> QED BY <2>1, <2>2, <2>3
<1>k. pc[i] # "closeXray" => taken = {}
  BY <1>e DEF TypeOK, Holding
<1> QED BY <1>p, <1>a, <1>e, <1>f, <1>g, <1>h, <1>k

\* So a step of call i preserves the invariant when it has the types, what i
\* knows next, and what the shared state must satisfy.
LEMMA Stepped ==
  ASSUME IInv,
         NEW i \in Ids, NEW l \in Holding \cup Answered,
         pc[i] \in Holding \/ MayEnter(i),
         Goto(i, l), UNCHANGED <<client, asked, req>>,
         CoreType', Local(i)', XraySlotsLive',
         \A j \in Ids \ {i} : boxes'[j] = "live" => boxes[j] = "live",
         dns' = "applied" =>
           \/ dns = "applied" /\ \A j \in Ids : boxes[j] = "live" => boxes'[j] = "live"
           \/ boxes'[i] = "live" /\ SystemDNS(i),
         taken' # {} => l = "closeXray"
  PROVE  IInv'
<1>1. /\ Ordered' /\ Sent'
      /\ pc' \in [Ids -> Labels]
      /\ asked \in Ids /\ pc[asked] # "ok"
      /\ \A j \in Ids \ {i} : pc'[j] = pc[j] /\ pc[j] \notin Holding
  BY Moved DEF IInv, Sound
<1>p. pc'[i] = l
  BY DEF Goto, IInv, TypeOK
<1>2. TypeOK'
  BY <1>1, <1>p DEF IInv, TypeOK, CoreType, Labels
<1>3. Believes'
  BY <1>1 DEF IInv, Sound, Believes, Starts
<1>4. ASSUME NEW j \in Ids \ {i} PROVE Local(j)'
  <2>1. pc'[j] \notin {"publish", "apply", "watch", "unpublish", "closeXray"}
    BY <1>1 DEF Holding
  <2>2. ~(j = asked' /\ pc'[j] = "ok")
    BY <1>1
  <2> QED BY <2>1, <2>2 DEF Local
<1>5. BoxesMade'
  BY <1>1, <1>p DEF BoxesMade, IInv, Sound, Holding, Answered
<1>6. ResolverHasListener'
  <2>1. \A j \in Ids : SystemDNS(j)' <=> SystemDNS(j)
    BY DEF SystemDNS
  <2> QED BY <2>1 DEF ResolverHasListener, IInv, Sound
<1> QED BY <1>1, <1>2, <1>3, <1>4, <1>5, <1>6 DEF IInv, Sound

\* The steps that only move on, to a label where nothing is known.
LEMMA OnlyMoves ==
  ASSUME IInv,
         NEW i \in Ids, NEW l \in Holding \cup Answered,
         pc[i] \in Holding \/ MayEnter(i), pc[i] # "closeXray",
         Goto(i, l),
         UNCHANGED <<client, asked, req, slots, dns, boxes, xrays, procs, taken>>,
         l \notin {"publish", "apply", "watch", "unpublish", "closeXray"},
         l = "ok" => ~Starts(i)
  PROVE  IInv'
<1>1. taken = {}
  BY Moved DEF IInv, Sound
<1>p. pc'[i] = l
  BY DEF Goto, IInv, TypeOK
<1>2. CoreType' /\ XraySlotsLive'
  BY DEF IInv, TypeOK, CoreType, Sound, XraySlotsLive, Held
<1>3. Local(i)'
  BY <1>p DEF Local, Starts
<1> QED BY <1>1, <1>2, <1>3, Stepped

\* What is used of the invariant in every case below.
LEMMA Known ==
  ASSUME IInv, NEW i \in Ids
  PROVE  /\ CoreType /\ Local(i) /\ XraySlotsLive /\ i # 0 /\ i \in 0..MaxCalls
         /\ pc \in [Ids -> Labels] /\ 0 \in 0..MaxCalls
  BY CoreLifecycleAssumption DEF IInv, TypeOK, CoreType, Sound, Labels, Ids

-----------------------------------------------------------------------------
(* The steps of Start.                                                     *)

\* The steps of a call that change no more than its label.
LEMMA MovesOn ==
  ASSUME IInv, NEW i \in Ids,
         \/ EnterStart(i) \/ EnterStop(i) \/ SkipExtra(i) \/ ExtraRefused(i)
         \/ SkipFull(i) \/ FullGatesFail(i) \/ CreateFails(i) \/ CreatePanics(i)
  PROVE  IInv'
<1> USE DEF Holding, Answered
<1>1. CASE EnterStart(i)
  BY <1>1, OnlyMoves DEF EnterStart, MayEnter
<1>2. CASE EnterStop(i)
  BY <1>2, OnlyMoves DEF EnterStop, MayEnter
<1>3. CASE SkipExtra(i)
  BY <1>3, OnlyMoves DEF SkipExtra
<1>4. CASE ExtraRefused(i)
  BY <1>4, OnlyMoves DEF ExtraRefused
<1>5. CASE SkipFull(i)
  BY <1>5, OnlyMoves DEF SkipFull
<1>6. CASE FullGatesFail(i)
  BY <1>6, OnlyMoves DEF FullGatesFail
<1>7. CASE CreateFails(i)
  BY <1>7, OnlyMoves DEF CreateFails
<1>8. CASE CreatePanics(i)
  BY <1>8, OnlyMoves DEF CreatePanics
<1> QED BY <1>1, <1>2, <1>3, <1>4, <1>5, <1>6, <1>7, <1>8

\* StartExtra preserves the invariant.
LEMMA StartExtraStep ==
  ASSUME IInv, NEW i \in Ids, StartExtra(i)
  PROVE  IInv'
<1>k. /\ CoreType /\ Local(i) /\ XraySlotsLive /\ i # 0 /\ i \in 0..MaxCalls
      /\ pc \in [Ids -> Labels] /\ 0 \in 0..MaxCalls
  BY Known
<1>m. PICK l \in {"xray", "defer"} : Goto(i, l)
  BY DEF StartExtra
<1>l. l \in Holding \cup Answered /\ pc[i] \in Holding /\ pc[i] # "closeXray" /\ pc'[i] = l
  BY <1>m, <1>k DEF StartExtra, Goto, Holding, Answered
<1>t. taken = {}
  BY <1>l, <1>m, Moved DEF IInv, Sound, StartExtra
<1>1. CoreType'
  <2>1. slots' \in Slots
    BY <1>k DEF StartExtra, CoreType, Slots
  <2>2. [run |-> "running", stopped |-> FALSE, file |-> TRUE] \in Processes
    BY DEF Processes
  <2>3. procs' \in [Ids -> Processes]
    BY <2>2, <1>k DEF StartExtra, CoreType
  <2> QED BY <2>1, <2>3, <1>k DEF StartExtra, CoreType
<1>2. Local(i)'
  BY <1>k, <1>l DEF StartExtra, Local, CoreType, Slots, Starts, Processes
<1>3. XraySlotsLive'
  BY <1>k, <1>l DEF StartExtra, XraySlotsLive, Held, Parts, CoreType, Slots, Processes
<1>4. /\ \A j \in Ids \ {i} : boxes'[j] = "live" => boxes[j] = "live"
      /\ dns' = "applied" =>
           \/ dns = "applied" /\ \A j \in Ids : boxes[j] = "live" => boxes'[j] = "live"
           \/ boxes'[i] = "live" /\ SystemDNS(i)
      /\ taken' # {} => l = "closeXray"
      /\ UNCHANGED <<client, asked, req>>
  BY <1>k, <1>t, <1>l DEF StartExtra, CoreType, Local
<1> QED BY <1>m, <1>l, <1>1, <1>2, <1>3, <1>4, Stepped

\* SkipXray preserves the invariant.
LEMMA SkipXrayStep ==
  ASSUME IInv, NEW i \in Ids, SkipXray(i)
  PROVE  IInv'
<1>k. /\ CoreType /\ Local(i) /\ XraySlotsLive /\ i # 0 /\ i \in 0..MaxCalls
      /\ pc \in [Ids -> Labels] /\ 0 \in 0..MaxCalls
  BY Known
<1>m. PICK l \in {"full"} : Goto(i, l)
  BY DEF SkipXray
<1>l. l \in Holding \cup Answered /\ pc[i] \in Holding /\ pc[i] # "closeXray" /\ pc'[i] = l
  BY <1>m, <1>k DEF SkipXray, Goto, Holding, Answered
<1>t. taken = {}
  BY <1>l, <1>m, Moved DEF IInv, Sound, SkipXray
<1>1. CoreType'
  BY <1>k DEF SkipXray, CoreType, Slots, WithMark, Marked
<1>2. Local(i)'
  BY <1>k, <1>l DEF SkipXray, Local, CoreType, Slots, Starts, WithMark, Marked
<1>3. XraySlotsLive'
  BY <1>k, <1>l DEF SkipXray, XraySlotsLive, Held, Parts, CoreType, Slots, WithMark, Marked
<1>4. /\ \A j \in Ids \ {i} : boxes'[j] = "live" => boxes[j] = "live"
      /\ dns' = "applied" =>
           \/ dns = "applied" /\ \A j \in Ids : boxes[j] = "live" => boxes'[j] = "live"
           \/ boxes'[i] = "live" /\ SystemDNS(i)
      /\ taken' # {} => l = "closeXray"
      /\ UNCHANGED <<client, asked, req>>
  BY <1>k, <1>t, <1>l DEF SkipXray, CoreType, Local
<1> QED BY <1>m, <1>l, <1>1, <1>2, <1>3, <1>4, Stepped

\* XrayFails preserves the invariant.
LEMMA XrayFailsStep ==
  ASSUME IInv, NEW i \in Ids, XrayFails(i)
  PROVE  IInv'
<1>k. /\ CoreType /\ Local(i) /\ XraySlotsLive /\ i # 0 /\ i \in 0..MaxCalls
      /\ pc \in [Ids -> Labels] /\ 0 \in 0..MaxCalls
  BY Known
<1>m. PICK l \in {"defer"} : Goto(i, l)
  BY DEF XrayFails
<1>l. l \in Holding \cup Answered /\ pc[i] \in Holding /\ pc[i] # "closeXray" /\ pc'[i] = l
  BY <1>m, <1>k DEF XrayFails, Goto, Holding, Answered
<1>t. taken = {}
  BY <1>l, <1>m, Moved DEF IInv, Sound, XrayFails
<1>1. CoreType'
  BY <1>k DEF XrayFails, CoreType, Slots, WithMark, Marked
<1>2. Local(i)'
  BY <1>k, <1>l DEF XrayFails, Local, CoreType, Slots, Starts, WithMark, Marked
<1>3. XraySlotsLive'
  BY <1>k, <1>l DEF XrayFails, XraySlotsLive, Held, Parts, CoreType, Slots, WithMark, Marked
<1>4. /\ \A j \in Ids \ {i} : boxes'[j] = "live" => boxes[j] = "live"
      /\ dns' = "applied" =>
           \/ dns = "applied" /\ \A j \in Ids : boxes[j] = "live" => boxes'[j] = "live"
           \/ boxes'[i] = "live" /\ SystemDNS(i)
      /\ taken' # {} => l = "closeXray"
      /\ UNCHANGED <<client, asked, req>>
  BY <1>k, <1>t, <1>l DEF XrayFails, CoreType, Local
<1> QED BY <1>m, <1>l, <1>1, <1>2, <1>3, <1>4, Stepped

\* StartGate preserves the invariant.
LEMMA StartGateStep ==
  ASSUME IInv, NEW i \in Ids, StartGate(i)
  PROVE  IInv'
<1>k. /\ CoreType /\ Local(i) /\ XraySlotsLive /\ i # 0 /\ i \in 0..MaxCalls
      /\ pc \in [Ids -> Labels] /\ 0 \in 0..MaxCalls
  BY Known
<1>m. PICK l \in {"full"} : Goto(i, l)
  BY DEF StartGate
<1>l. l \in Holding \cup Answered /\ pc[i] \in Holding /\ pc[i] # "closeXray" /\ pc'[i] = l
  BY <1>m, <1>k DEF StartGate, Goto, Holding, Answered
<1>t. taken = {}
  BY <1>l, <1>m, Moved DEF IInv, Sound, StartGate
<1>1. CoreType'
  BY <1>k DEF StartGate, CoreType, Slots, WithMark, Marked, Parts
<1>2. Local(i)'
  BY <1>k, <1>l DEF StartGate, Local, CoreType, Slots, Starts, WithMark, Marked, Parts
<1>3. XraySlotsLive'
  BY <1>k, <1>l DEF StartGate, XraySlotsLive, Held, Parts, CoreType, Slots, WithMark, Marked, Parts
<1>4. /\ \A j \in Ids \ {i} : boxes'[j] = "live" => boxes[j] = "live"
      /\ dns' = "applied" =>
           \/ dns = "applied" /\ \A j \in Ids : boxes[j] = "live" => boxes'[j] = "live"
           \/ boxes'[i] = "live" /\ SystemDNS(i)
      /\ taken' # {} => l = "closeXray"
      /\ UNCHANGED <<client, asked, req>>
  BY <1>k, <1>t, <1>l DEF StartGate, CoreType, Local
<1> QED BY <1>m, <1>l, <1>1, <1>2, <1>3, <1>4, Stepped

\* StartInstance preserves the invariant.
LEMMA StartInstanceStep ==
  ASSUME IInv, NEW i \in Ids, StartInstance(i)
  PROVE  IInv'
<1>k. /\ CoreType /\ Local(i) /\ XraySlotsLive /\ i # 0 /\ i \in 0..MaxCalls
      /\ pc \in [Ids -> Labels] /\ 0 \in 0..MaxCalls
  BY Known
<1>m. PICK l \in {"full"} : Goto(i, l)
  BY DEF StartInstance
<1>l. l \in Holding \cup Answered /\ pc[i] \in Holding /\ pc[i] # "closeXray" /\ pc'[i] = l
  BY <1>m, <1>k DEF StartInstance, Goto, Holding, Answered
<1>t. taken = {}
  BY <1>l, <1>m, Moved DEF IInv, Sound, StartInstance
<1>1. CoreType'
  BY <1>k DEF StartInstance, CoreType, Slots, WithMark, Marked, Parts
<1>2. Local(i)'
  BY <1>k, <1>l DEF StartInstance, Local, CoreType, Slots, Starts, WithMark, Marked, Parts
<1>3. XraySlotsLive'
  BY <1>k, <1>l DEF StartInstance, XraySlotsLive, Held, Parts, CoreType, Slots, WithMark, Marked, Parts
<1>4. /\ \A j \in Ids \ {i} : boxes'[j] = "live" => boxes[j] = "live"
      /\ dns' = "applied" =>
           \/ dns = "applied" /\ \A j \in Ids : boxes[j] = "live" => boxes'[j] = "live"
           \/ boxes'[i] = "live" /\ SystemDNS(i)
      /\ taken' # {} => l = "closeXray"
      /\ UNCHANGED <<client, asked, req>>
  BY <1>k, <1>t, <1>l DEF StartInstance, CoreType, Local
<1> QED BY <1>m, <1>l, <1>1, <1>2, <1>3, <1>4, Stepped

\* StartFullGates preserves the invariant.
LEMMA StartFullGatesStep ==
  ASSUME IInv, NEW i \in Ids, StartFullGates(i)
  PROVE  IInv'
<1>k. /\ CoreType /\ Local(i) /\ XraySlotsLive /\ i # 0 /\ i \in 0..MaxCalls
      /\ pc \in [Ids -> Labels] /\ 0 \in 0..MaxCalls
  BY Known
<1>m. PICK l \in {"dns"} : Goto(i, l)
  BY DEF StartFullGates
<1>l. l \in Holding \cup Answered /\ pc[i] \in Holding /\ pc[i] # "closeXray" /\ pc'[i] = l
  BY <1>m, <1>k DEF StartFullGates, Goto, Holding, Answered
<1>t. taken = {}
  BY <1>l, <1>m, Moved DEF IInv, Sound, StartFullGates
<1>1. CoreType'
  BY <1>k DEF StartFullGates, CoreType, Slots, Parts
<1>2. Local(i)'
  BY <1>k, <1>l DEF StartFullGates, Local, CoreType, Slots, Starts, Parts
<1>3. XraySlotsLive'
  BY <1>k, <1>l DEF StartFullGates, XraySlotsLive, Held, Parts, CoreType, Slots, Parts
<1>4. /\ \A j \in Ids \ {i} : boxes'[j] = "live" => boxes[j] = "live"
      /\ dns' = "applied" =>
           \/ dns = "applied" /\ \A j \in Ids : boxes[j] = "live" => boxes'[j] = "live"
           \/ boxes'[i] = "live" /\ SystemDNS(i)
      /\ taken' # {} => l = "closeXray"
      /\ UNCHANGED <<client, asked, req>>
  BY <1>k, <1>t, <1>l DEF StartFullGates, CoreType, Local
<1> QED BY <1>m, <1>l, <1>1, <1>2, <1>3, <1>4, Stepped

\* PrepareDNS preserves the invariant.
LEMMA PrepareDNSStep ==
  ASSUME IInv, NEW i \in Ids, PrepareDNS(i)
  PROVE  IInv'
<1>k. /\ CoreType /\ Local(i) /\ XraySlotsLive /\ i # 0 /\ i \in 0..MaxCalls
      /\ pc \in [Ids -> Labels] /\ 0 \in 0..MaxCalls
  BY Known
<1>m. PICK l \in {"create", "sidecars"} : Goto(i, l)
  BY DEF PrepareDNS
<1>l. l \in Holding \cup Answered /\ pc[i] \in Holding /\ pc[i] # "closeXray" /\ pc'[i] = l
  BY <1>m, <1>k DEF PrepareDNS, Goto, Holding, Answered
<1>t. taken = {}
  BY <1>l, <1>m, Moved DEF IInv, Sound, PrepareDNS
<1>1. CoreType'
  BY <1>k DEF PrepareDNS, CoreType, Slots
<1>2. Local(i)'
  BY <1>k, <1>l DEF PrepareDNS, Local, CoreType, Slots, Starts
<1>3. XraySlotsLive'
  BY <1>k, <1>l DEF PrepareDNS, XraySlotsLive, Held, Parts, CoreType, Slots
<1>4. /\ \A j \in Ids \ {i} : boxes'[j] = "live" => boxes[j] = "live"
      /\ dns' = "applied" =>
           \/ dns = "applied" /\ \A j \in Ids : boxes[j] = "live" => boxes'[j] = "live"
           \/ boxes'[i] = "live" /\ SystemDNS(i)
      /\ taken' # {} => l = "closeXray"
      /\ UNCHANGED <<client, asked, req>>
  BY <1>k, <1>t, <1>l DEF PrepareDNS, CoreType, Local
<1> QED BY <1>m, <1>l, <1>1, <1>2, <1>3, <1>4, Stepped

\* CreateBox preserves the invariant.
LEMMA CreateBoxStep ==
  ASSUME IInv, NEW i \in Ids, CreateBox(i)
  PROVE  IInv'
<1>k. /\ CoreType /\ Local(i) /\ XraySlotsLive /\ i # 0 /\ i \in 0..MaxCalls
      /\ pc \in [Ids -> Labels] /\ 0 \in 0..MaxCalls
  BY Known
<1>m. PICK l \in {"publish"} : Goto(i, l)
  BY DEF CreateBox
<1>l. l \in Holding \cup Answered /\ pc[i] \in Holding /\ pc[i] # "closeXray" /\ pc'[i] = l
  BY <1>m, <1>k DEF CreateBox, Goto, Holding, Answered
<1>t. taken = {}
  BY <1>l, <1>m, Moved DEF IInv, Sound, CreateBox
<1>1. CoreType'
  BY <1>k DEF CreateBox, CoreType, Slots
<1>2. Local(i)'
  BY <1>k, <1>l DEF CreateBox, Local, CoreType, Slots, Starts
<1>3. XraySlotsLive'
  BY <1>k, <1>l DEF CreateBox, XraySlotsLive, Held, Parts, CoreType, Slots
<1>4. /\ \A j \in Ids \ {i} : boxes'[j] = "live" => boxes[j] = "live"
      /\ dns' = "applied" =>
           \/ dns = "applied" /\ \A j \in Ids : boxes[j] = "live" => boxes'[j] = "live"
           \/ boxes'[i] = "live" /\ SystemDNS(i)
      /\ taken' # {} => l = "closeXray"
      /\ UNCHANGED <<client, asked, req>>
  BY <1>k, <1>t, <1>l DEF CreateBox, CoreType, Local
<1> QED BY <1>m, <1>l, <1>1, <1>2, <1>3, <1>4, Stepped

\* Publish preserves the invariant.
LEMMA PublishStep ==
  ASSUME IInv, NEW i \in Ids, Publish(i)
  PROVE  IInv'
<1>k. /\ CoreType /\ Local(i) /\ XraySlotsLive /\ i # 0 /\ i \in 0..MaxCalls
      /\ pc \in [Ids -> Labels] /\ 0 \in 0..MaxCalls
  BY Known
<1>m. PICK l \in {"apply"} : Goto(i, l)
  BY DEF Publish
<1>l. l \in Holding \cup Answered /\ pc[i] \in Holding /\ pc[i] # "closeXray" /\ pc'[i] = l
  BY <1>m, <1>k DEF Publish, Goto, Holding, Answered
<1>t. taken = {}
  BY <1>l, <1>m, Moved DEF IInv, Sound, Publish
<1>1. CoreType'
  BY <1>k DEF Publish, CoreType, Slots
<1>2. Local(i)'
  BY <1>k, <1>l DEF Publish, Local, CoreType, Slots, Starts
<1>3. XraySlotsLive'
  BY <1>k, <1>l DEF Publish, XraySlotsLive, Held, Parts, CoreType, Slots
<1>4. /\ \A j \in Ids \ {i} : boxes'[j] = "live" => boxes[j] = "live"
      /\ dns' = "applied" =>
           \/ dns = "applied" /\ \A j \in Ids : boxes[j] = "live" => boxes'[j] = "live"
           \/ boxes'[i] = "live" /\ SystemDNS(i)
      /\ taken' # {} => l = "closeXray"
      /\ UNCHANGED <<client, asked, req>>
  BY <1>k, <1>t, <1>l DEF Publish, CoreType, Local
<1> QED BY <1>m, <1>l, <1>1, <1>2, <1>3, <1>4, Stepped

\* ApplyDNS preserves the invariant.
LEMMA ApplyDNSStep ==
  ASSUME IInv, NEW i \in Ids, ApplyDNS(i)
  PROVE  IInv'
<1>k. /\ CoreType /\ Local(i) /\ XraySlotsLive /\ i # 0 /\ i \in 0..MaxCalls
      /\ pc \in [Ids -> Labels] /\ 0 \in 0..MaxCalls
  BY Known
<1>m. PICK l \in {"watch"} : Goto(i, l)
  BY DEF ApplyDNS
<1>l. l \in Holding \cup Answered /\ pc[i] \in Holding /\ pc[i] # "closeXray" /\ pc'[i] = l
  BY <1>m, <1>k DEF ApplyDNS, Goto, Holding, Answered
<1>t. taken = {}
  BY <1>l, <1>m, Moved DEF IInv, Sound, ApplyDNS
<1>1. CoreType'
  BY <1>k DEF ApplyDNS, CoreType, Slots
<1>2. Local(i)'
  BY <1>k, <1>l DEF ApplyDNS, Local, CoreType, Slots, Starts
<1>3. XraySlotsLive'
  BY <1>k, <1>l DEF ApplyDNS, XraySlotsLive, Held, Parts, CoreType, Slots
<1>4. /\ \A j \in Ids \ {i} : boxes'[j] = "live" => boxes[j] = "live"
      /\ dns' = "applied" =>
           \/ dns = "applied" /\ \A j \in Ids : boxes[j] = "live" => boxes'[j] = "live"
           \/ boxes'[i] = "live" /\ SystemDNS(i)
      /\ taken' # {} => l = "closeXray"
      /\ UNCHANGED <<client, asked, req>>
  BY <1>k, <1>t, <1>l DEF ApplyDNS, CoreType, Local
<1> QED BY <1>m, <1>l, <1>1, <1>2, <1>3, <1>4, Stepped

\* ApplyFails preserves the invariant.
LEMMA ApplyFailsStep ==
  ASSUME IInv, NEW i \in Ids, ApplyFails(i)
  PROVE  IInv'
<1>k. /\ CoreType /\ Local(i) /\ XraySlotsLive /\ i # 0 /\ i \in 0..MaxCalls
      /\ pc \in [Ids -> Labels] /\ 0 \in 0..MaxCalls
  BY Known
<1>m. PICK l \in {"closeBox"} : Goto(i, l)
  BY DEF ApplyFails
<1>l. l \in Holding \cup Answered /\ pc[i] \in Holding /\ pc[i] # "closeXray" /\ pc'[i] = l
  BY <1>m, <1>k DEF ApplyFails, Goto, Holding, Answered
<1>t. taken = {}
  BY <1>l, <1>m, Moved DEF IInv, Sound, ApplyFails
<1>1. CoreType'
  BY <1>k DEF ApplyFails, CoreType, Slots
<1>2. Local(i)'
  BY <1>k, <1>l DEF ApplyFails, Local, CoreType, Slots, Starts
<1>3. XraySlotsLive'
  BY <1>k, <1>l DEF ApplyFails, XraySlotsLive, Held, Parts, CoreType, Slots
<1>4. /\ \A j \in Ids \ {i} : boxes'[j] = "live" => boxes[j] = "live"
      /\ dns' = "applied" =>
           \/ dns = "applied" /\ \A j \in Ids : boxes[j] = "live" => boxes'[j] = "live"
           \/ boxes'[i] = "live" /\ SystemDNS(i)
      /\ taken' # {} => l = "closeXray"
      /\ UNCHANGED <<client, asked, req>>
  BY <1>k, <1>t, <1>l DEF ApplyFails, CoreType, Local
<1> QED BY <1>m, <1>l, <1>1, <1>2, <1>3, <1>4, Stepped

\* WatchEgress preserves the invariant.
LEMMA WatchEgressStep ==
  ASSUME IInv, NEW i \in Ids, WatchEgress(i)
  PROVE  IInv'
<1>k. /\ CoreType /\ Local(i) /\ XraySlotsLive /\ i # 0 /\ i \in 0..MaxCalls
      /\ pc \in [Ids -> Labels] /\ 0 \in 0..MaxCalls
  BY Known
<1>m. PICK l \in {"ok"} : Goto(i, l)
  BY DEF WatchEgress
<1>l. l \in Holding \cup Answered /\ pc[i] \in Holding /\ pc[i] # "closeXray" /\ pc'[i] = l
  BY <1>m, <1>k DEF WatchEgress, Goto, Holding, Answered
<1>t. taken = {}
  BY <1>l, <1>m, Moved DEF IInv, Sound, WatchEgress
<1>1. CoreType'
  BY <1>k DEF WatchEgress, CoreType, Slots
<1>2. Local(i)'
  BY <1>k, <1>l DEF WatchEgress, Local, CoreType, Slots, Starts
<1>3. XraySlotsLive'
  BY <1>k, <1>l DEF WatchEgress, XraySlotsLive, Held, Parts, CoreType, Slots
<1>4. /\ \A j \in Ids \ {i} : boxes'[j] = "live" => boxes[j] = "live"
      /\ dns' = "applied" =>
           \/ dns = "applied" /\ \A j \in Ids : boxes[j] = "live" => boxes'[j] = "live"
           \/ boxes'[i] = "live" /\ SystemDNS(i)
      /\ taken' # {} => l = "closeXray"
      /\ UNCHANGED <<client, asked, req>>
  BY <1>k, <1>t, <1>l DEF WatchEgress, CoreType, Local
<1> QED BY <1>m, <1>l, <1>1, <1>2, <1>3, <1>4, Stepped

\* Defer preserves the invariant.
LEMMA DeferStep ==
  ASSUME IInv, NEW i \in Ids, Defer(i)
  PROVE  IInv'
<1>k. /\ CoreType /\ Local(i) /\ XraySlotsLive /\ i # 0 /\ i \in 0..MaxCalls
      /\ pc \in [Ids -> Labels] /\ 0 \in 0..MaxCalls
  BY Known
<1>m. PICK l \in {"failed"} : Goto(i, l)
  BY DEF Defer
<1>l. l \in Holding \cup Answered /\ pc[i] \in Holding /\ pc[i] # "closeXray" /\ pc'[i] = l
  BY <1>m, <1>k DEF Defer, Goto, Holding, Answered
<1>t. taken = {}
  BY <1>l, <1>m, Moved DEF IInv, Sound, Defer
<1>1. CoreType'
  BY <1>k DEF Defer, CoreType, Slots
<1>2. Local(i)'
  BY <1>k, <1>l DEF Defer, Local, CoreType, Slots, Starts
<1>3. XraySlotsLive'
  BY <1>k, <1>l DEF Defer, XraySlotsLive, Held, Parts, CoreType, Slots
<1>4. /\ \A j \in Ids \ {i} : boxes'[j] = "live" => boxes[j] = "live"
      /\ dns' = "applied" =>
           \/ dns = "applied" /\ \A j \in Ids : boxes[j] = "live" => boxes'[j] = "live"
           \/ boxes'[i] = "live" /\ SystemDNS(i)
      /\ taken' # {} => l = "closeXray"
      /\ UNCHANGED <<client, asked, req>>
  BY <1>k, <1>t, <1>l DEF Defer, CoreType, Local
<1> QED BY <1>m, <1>l, <1>1, <1>2, <1>3, <1>4, Stepped

-----------------------------------------------------------------------------
(* The steps of Stop and of a Start that fails late.                       *)

\* Release preserves the invariant.
LEMMA ReleaseStep ==
  ASSUME IInv, NEW i \in Ids, Release(i)
  PROVE  IInv'
<1>k. /\ CoreType /\ Local(i) /\ XraySlotsLive /\ i # 0 /\ i \in 0..MaxCalls
      /\ pc \in [Ids -> Labels] /\ 0 \in 0..MaxCalls
  BY Known
<1>m. PICK l \in {"unpublish"} : Goto(i, l)
  BY DEF Release
<1>l. l \in Holding \cup Answered /\ pc[i] \in Holding /\ pc[i] # "closeXray" /\ pc'[i] = l
  BY <1>m, <1>k DEF Release, Goto, Holding, Answered
<1>t. taken = {}
  BY <1>l, <1>m, Moved DEF IInv, Sound, Release
<1>1. CoreType'
  BY <1>k DEF Release, CoreType, Slots
<1>2. Local(i)'
  BY <1>k, <1>l DEF Release, Local, CoreType, Slots, Starts
<1>3. XraySlotsLive'
  BY <1>k, <1>l DEF Release, XraySlotsLive, Held, Parts, CoreType, Slots
<1>4. /\ \A j \in Ids \ {i} : boxes'[j] = "live" => boxes[j] = "live"
      /\ dns' = "applied" =>
           \/ dns = "applied" /\ \A j \in Ids : boxes[j] = "live" => boxes'[j] = "live"
           \/ boxes'[i] = "live" /\ SystemDNS(i)
      /\ taken' # {} => l = "closeXray"
      /\ UNCHANGED <<client, asked, req>>
  BY <1>k, <1>t, <1>l DEF Release, CoreType, Local
<1> QED BY <1>m, <1>l, <1>1, <1>2, <1>3, <1>4, Stepped

\* Unpublish preserves the invariant.
LEMMA UnpublishStep ==
  ASSUME IInv, NEW i \in Ids, Unpublish(i)
  PROVE  IInv'
<1>k. /\ CoreType /\ Local(i) /\ XraySlotsLive /\ i # 0 /\ i \in 0..MaxCalls
      /\ pc \in [Ids -> Labels] /\ 0 \in 0..MaxCalls
  BY Known
<1>m. PICK l \in {"closeBox"} : Goto(i, l)
  BY DEF Unpublish
<1>l. l \in Holding \cup Answered /\ pc[i] \in Holding /\ pc[i] # "closeXray" /\ pc'[i] = l
  BY <1>m, <1>k DEF Unpublish, Goto, Holding, Answered
<1>t. taken = {}
  BY <1>l, <1>m, Moved DEF IInv, Sound, Unpublish
<1>1. CoreType'
  BY <1>k DEF Unpublish, CoreType, Slots
<1>2. Local(i)'
  BY <1>k, <1>l DEF Unpublish, Local, CoreType, Slots, Starts
<1>3. XraySlotsLive'
  BY <1>k, <1>l DEF Unpublish, XraySlotsLive, Held, Parts, CoreType, Slots
<1>4. /\ \A j \in Ids \ {i} : boxes'[j] = "live" => boxes[j] = "live"
      /\ dns' = "applied" =>
           \/ dns = "applied" /\ \A j \in Ids : boxes[j] = "live" => boxes'[j] = "live"
           \/ boxes'[i] = "live" /\ SystemDNS(i)
      /\ taken' # {} => l = "closeXray"
      /\ UNCHANGED <<client, asked, req>>
  BY <1>k, <1>t, <1>l DEF Unpublish, CoreType, Local
<1> QED BY <1>m, <1>l, <1>1, <1>2, <1>3, <1>4, Stepped

\* CloseBox preserves the invariant.
LEMMA CloseBoxStep ==
  ASSUME IInv, NEW i \in Ids, CloseBox(i)
  PROVE  IInv'
<1>k. /\ CoreType /\ Local(i) /\ XraySlotsLive /\ i # 0 /\ i \in 0..MaxCalls
      /\ pc \in [Ids -> Labels] /\ 0 \in 0..MaxCalls
  BY Known
<1>m. PICK l \in {"sidecars"} : Goto(i, l)
  BY DEF CloseBox
<1>l. l \in Holding \cup Answered /\ pc[i] \in Holding /\ pc[i] # "closeXray" /\ pc'[i] = l
  BY <1>m, <1>k DEF CloseBox, Goto, Holding, Answered
<1>t. taken = {}
  BY <1>l, <1>m, Moved DEF IInv, Sound, CloseBox
<1>1. CoreType'
  BY <1>k DEF CloseBox, CoreType, Slots
<1>2. Local(i)'
  BY <1>k, <1>l DEF CloseBox, Local, CoreType, Slots, Starts
<1>3. XraySlotsLive'
  BY <1>k, <1>l DEF CloseBox, XraySlotsLive, Held, Parts, CoreType, Slots
<1>4. /\ \A j \in Ids \ {i} : boxes'[j] = "live" => boxes[j] = "live"
      /\ dns' = "applied" =>
           \/ dns = "applied" /\ \A j \in Ids : boxes[j] = "live" => boxes'[j] = "live"
           \/ boxes'[i] = "live" /\ SystemDNS(i)
      /\ taken' # {} => l = "closeXray"
      /\ UNCHANGED <<client, asked, req>>
  BY <1>k, <1>t, <1>l DEF CloseBox, CoreType, Local
<1> QED BY <1>m, <1>l, <1>1, <1>2, <1>3, <1>4, Stepped

\* StopSidecars preserves the invariant.
LEMMA StopSidecarsStep ==
  ASSUME IInv, NEW i \in Ids, StopSidecars(i)
  PROVE  IInv'
<1>k. /\ CoreType /\ Local(i) /\ XraySlotsLive /\ i # 0 /\ i \in 0..MaxCalls
      /\ pc \in [Ids -> Labels] /\ 0 \in 0..MaxCalls
  BY Known
<1>m. PICK l \in {"clearXray"} : Goto(i, l)
  BY DEF StopSidecars
<1>l. l \in Holding \cup Answered /\ pc[i] \in Holding /\ pc[i] # "closeXray" /\ pc'[i] = l
  BY <1>m, <1>k DEF StopSidecars, Goto, Holding, Answered
<1>t. taken = {}
  BY <1>l, <1>m, Moved DEF IInv, Sound, StopSidecars
<1>1. CoreType'
  <2>1. slots' \in Slots /\ slots.extra \in {0} \cup Ids
    BY <1>k DEF StopSidecars, CoreType, Slots, Ids
  <2>2. ASSUME NEW p \in Processes, NEW q \in Stopped(p)
        PROVE  q \in Processes
    <3>1. p.run \in {"none", "running", "killed", "ended", "reaped"} /\ p.file \in BOOLEAN
      BY DEF Processes
    <3>2. PICK f \in {FALSE} \cup (IF p.run \in {"running", "killed"} THEN {p.file} ELSE {}) :
            q = [run |-> IF p.run = "running" THEN "killed" ELSE p.run,
                 stopped |-> TRUE, file |-> f]
      BY DEF Stopped
    <3>3. f \in BOOLEAN
      BY <3>1
    <3> QED BY <3>1, <3>2, <3>3 DEF Processes
  <2>3. procs' \in [Ids -> Processes]
    <3>1. CASE slots.extra = 0
      BY <3>1, <1>k DEF StopSidecars, CoreType
    <3>2. CASE slots.extra \in Ids
      <4>1. PICK p \in Stopped(procs[slots.extra]) :
              procs' = [procs EXCEPT ![slots.extra] = p]
        BY <3>2, <1>k DEF StopSidecars, Ids
      <4>2. p \in Processes
        BY <2>2, <3>2, <1>k DEF CoreType
      <4> QED BY <4>1, <4>2, <1>k DEF CoreType
    <3> QED BY <2>1, <3>1, <3>2
  <2> QED BY <2>1, <2>3, <1>k DEF StopSidecars, CoreType
<1>2. Local(i)'
  BY <1>k, <1>l DEF StopSidecars, Local, CoreType, Slots, Starts, Stopped, Processes
<1>3. XraySlotsLive'
  BY <1>k, <1>l DEF StopSidecars, XraySlotsLive, Held, Parts, CoreType, Slots, Stopped, Processes
<1>4. /\ \A j \in Ids \ {i} : boxes'[j] = "live" => boxes[j] = "live"
      /\ dns' = "applied" =>
           \/ dns = "applied" /\ \A j \in Ids : boxes[j] = "live" => boxes'[j] = "live"
           \/ boxes'[i] = "live" /\ SystemDNS(i)
      /\ taken' # {} => l = "closeXray"
      /\ UNCHANGED <<client, asked, req>>
  BY <1>k, <1>t, <1>l DEF StopSidecars, CoreType, Local
<1> QED BY <1>m, <1>l, <1>1, <1>2, <1>3, <1>4, Stepped

\* ClearXray preserves the invariant.
LEMMA ClearXrayStep ==
  ASSUME IInv, NEW i \in Ids, ClearXray(i)
  PROVE  IInv'
<1>k. /\ CoreType /\ Local(i) /\ XraySlotsLive /\ i # 0 /\ i \in 0..MaxCalls
      /\ pc \in [Ids -> Labels] /\ 0 \in 0..MaxCalls
  BY Known
<1>m. PICK l \in {"closeXray"} : Goto(i, l)
  BY DEF ClearXray
<1>l. l \in Holding \cup Answered /\ pc[i] \in Holding /\ pc[i] # "closeXray" /\ pc'[i] = l
  BY <1>m, <1>k DEF ClearXray, Goto, Holding, Answered
<1>t. taken = {}
  BY <1>l, <1>m, Moved DEF IInv, Sound, ClearXray
<1>1. CoreType'
  BY <1>k DEF ClearXray, CoreType, Slots, Parts
<1>2. Local(i)'
  BY <1>k, <1>l DEF ClearXray, Local, CoreType, Slots, Starts, Parts
<1>3. XraySlotsLive'
  BY <1>k, <1>l DEF ClearXray, XraySlotsLive, Held, Parts, CoreType, Slots, Parts
<1>4. /\ \A j \in Ids \ {i} : boxes'[j] = "live" => boxes[j] = "live"
      /\ dns' = "applied" =>
           \/ dns = "applied" /\ \A j \in Ids : boxes[j] = "live" => boxes'[j] = "live"
           \/ boxes'[i] = "live" /\ SystemDNS(i)
      /\ taken' # {} => l = "closeXray"
      /\ UNCHANGED <<client, asked, req>>
  BY <1>k, <1>t, <1>l DEF ClearXray, CoreType, Local
<1> QED BY <1>m, <1>l, <1>1, <1>2, <1>3, <1>4, Stepped

\* CloseXray preserves the invariant.
LEMMA CloseXrayStep ==
  ASSUME IInv, NEW i \in Ids, CloseXray(i)
  PROVE  IInv'
<1>k. /\ CoreType /\ Local(i) /\ XraySlotsLive /\ i # 0 /\ i \in 0..MaxCalls
      /\ pc \in [Ids -> Labels] /\ 0 \in 0..MaxCalls
  BY Known
<1>m. PICK l \in {"defer", "ok"} : Goto(i, l) /\ (l = "ok" => ~Starts(i))
  BY DEF CloseXray
<1>l. l \in Holding \cup Answered /\ pc[i] \in Holding /\ pc'[i] = l
  BY <1>m, <1>k DEF CloseXray, Goto, Holding, Answered
<1>1. CoreType'
  BY <1>k DEF CloseXray, CoreType, Slots
<1>2. Local(i)'
  BY <1>m, <1>l DEF CloseXray, Local, Starts
<1>3. XraySlotsLive'
  <2>1. slots'.instance = 0 /\ slots'.gate = 0 /\ slots'.full = 0
    BY <1>k DEF CloseXray, Local, CoreType, Slots
  <2> QED BY <2>1 DEF XraySlotsLive, Held, Parts
<1> QED BY <1>m, <1>l, <1>1, <1>2, <1>3, Stepped DEF CloseXray

-----------------------------------------------------------------------------
(* The steps of the client and of the extra processes.                     *)

\* Ask preserves the invariant.
LEMMA AskStep ==
  ASSUME IInv, NEW r \in Requests, Ask(r)
  PROVE  IInv'
<1> DEFINE n == asked + 1
<1>t. TypeOK /\ Sound /\ MaxCalls \in Nat
  BY CoreLifecycleAssumption DEF IInv
<1>n. n \in Ids /\ asked \in 0..MaxCalls /\ n # 0 /\ asked' = n
  BY <1>t DEF Ask, TypeOK, Ids
<1>p. /\ pc' \in [Ids -> Labels]
      /\ pc'[n] = "queued"
      /\ \A j \in Ids \ {n} : pc'[j] = pc[j] /\ req'[j] = req[j]
  BY <1>t, <1>n DEF Ask, TypeOK, Labels
<1>u. pc[n] = "unsent"
  BY <1>t, <1>n DEF Sound, Sent, TypeOK
<1>c. UNCHANGED <<slots, dns, boxes, xrays, procs, taken>>
  BY DEF Ask
<1>1. TypeOK'
  <2>1. client' \in [call : 0..MaxCalls, running : BOOLEAN]
    BY <1>t, <1>n DEF Ask, TypeOK, Ids
  <2>2. req' \in [Ids -> Requests]
    BY <1>t, <1>n DEF Ask, TypeOK
  <2>3. taken' # {} => \E i \in Ids : pc'[i] = "closeXray"
    BY <1>t, <1>c, <1>p, <1>u DEF TypeOK
  <2>4. asked' \in 0..MaxCalls
    BY <1>n DEF Ids
  <2> QED BY <2>1, <2>2, <2>3, <2>4, <1>p, <1>c, <1>t DEF TypeOK, Labels
<1>2. Ordered'
  <2> SUFFICES ASSUME NEW a \in Ids, NEW b \in Ids, a < b,
                      pc'[b] \in Holding \cup Answered
               PROVE  pc'[a] \in Answered
    BY DEF Ordered
  <2>1. b # n
    BY <1>p DEF Holding, Answered
  <2>2. pc[b] \in Holding \cup Answered /\ pc[a] \in Answered
    BY <2>1, <1>p, <1>t DEF Sound, Ordered
  <2> QED BY <2>2, <1>p, <1>u DEF Answered
<1>3. Sent'
  <2> SUFFICES ASSUME NEW j \in Ids PROVE pc'[j] = "unsent" <=> n < j
    BY <1>n DEF Sent
  <2>1. CASE j = n
    BY <2>1, <1>p, <1>n, <1>t DEF Ids
  <2>2. CASE j # n
    <3>1. pc[j] = "unsent" <=> asked < j
      BY <1>t DEF Sound, Sent
    <3>2. asked < j <=> n < j
      BY <2>2, <1>n, <1>t DEF Ids
    <3> QED BY <3>1, <3>2, <2>2, <1>p
  <2> QED BY <2>1, <2>2
<1>4. Believes'
  <2>1. client'.call = n
    BY <1>t DEF Ask, TypeOK
  <2> QED BY <2>1, <1>n DEF Believes
<1>5. ASSUME NEW j \in Ids PROVE Local(j)'
  <2>1. CASE j = n
    BY <2>1, <1>p DEF Local
  <2>2. CASE j # n
    <3>1. Local(j)
      BY <1>t DEF Sound
    <3> QED BY <3>1, <2>2, <1>p, <1>c, <1>n DEF Local
  <2> QED BY <2>1, <2>2
<1>6. BoxesMade'
  BY <1>t, <1>p, <1>u, <1>c DEF Sound, BoxesMade
<1>7. XraySlotsLive'
  BY <1>t, <1>c DEF Sound, XraySlotsLive, Held
<1>8. ResolverHasListener'
  <2> SUFFICES ASSUME dns = "applied"
               PROVE  \E i \in Ids : boxes[i] = "live" /\ SystemDNS(i)'
    BY <1>c DEF ResolverHasListener
  <2>1. PICK i \in Ids : boxes[i] = "live" /\ SystemDNS(i)
    BY <1>t DEF Sound, ResolverHasListener
  <2>2. i # n
    BY <2>1, <1>t, <1>u DEF Sound, BoxesMade
  <2> QED BY <2>1, <2>2, <1>p DEF SystemDNS
<1> QED BY <1>1, <1>2, <1>3, <1>4, <1>5, <1>6, <1>7, <1>8 DEF IInv, Sound

\* Client preserves the invariant.
LEMMA ClientStep ==
  ASSUME IInv, Client
  PROVE  IInv'
<1>t. TypeOK /\ Sound
  BY DEF IInv
<1>1. CASE AskStart
  <2>1. PICK p \in Offered : Ask([kind |-> "start", want |-> p])
    BY <1>1 DEF AskStart
  <2>2. p \in Profiles
    BY CoreLifecycleAssumption DEF Offered, Profiles
  <2>3. [kind |-> "start", want |-> p] \in Requests
    BY <2>2 DEF Requests
  <2> QED BY <2>1, <2>3, AskStep
<1>2. CASE AskStop
  <2>1. StopRequest \in Requests
    BY DEF StopRequest, Requests, Profiles
  <2> QED BY <2>1, <1>2, AskStep DEF AskStop
<1>3. CASE Answer \/ TimeOut
  <2>u. UNCHANGED <<asked, req, pc, slots, dns, boxes, xrays, procs, taken>>
    BY <1>3 DEF Answer, TimeOut
  <2>1. client.call = asked
    BY <1>3, <1>t DEF Answer, TimeOut, Sound, Believes
  <2>2. client' \in [call : 0..MaxCalls, running : BOOLEAN] /\ Believes'
    <3>1. CASE Answer
      BY <3>1, <2>1, <1>t, <2>u, CoreLifecycleAssumption
      DEF Answer, Believes, TypeOK, Starts
    <3>2. CASE TimeOut
      BY <3>2, <2>1, <1>t, <2>u, CoreLifecycleAssumption
      DEF TimeOut, Believes, TypeOK, Starts
    <3> QED BY <1>3, <3>1, <3>2
  <2>3. TypeOK'
    BY <1>t, <2>u, <2>2 DEF TypeOK
  <2>4. Ordered' /\ Sent' /\ BoxesMade' /\ XraySlotsLive' /\ ResolverHasListener'
    BY <1>t, <2>u DEF Sound, Ordered, Sent, BoxesMade, XraySlotsLive, Held,
                      ResolverHasListener, SystemDNS
  <2>5. \A i \in Ids : Local(i)'
    BY <1>t, <2>u DEF Sound, Local, Starts
  <2> QED BY <2>2, <2>3, <2>4, <2>5 DEF IInv, Sound
<1> QED BY <1>1, <1>2, <1>3 DEF Client

\* Nothing but TypeOK speaks of the extra processes.
LEMMA ExtraStep ==
  ASSUME IInv, NEW i \in Ids, ExtraEnds(i) \/ ExtraReaped(i)
  PROVE  IInv'
<1>t. TypeOK /\ Sound
  BY DEF IInv
<1>u. UNCHANGED <<client, asked, req, pc, slots, dns, boxes, xrays, taken>>
  BY DEF ExtraEnds, ExtraReaped
<1>1. procs' \in [Ids -> Processes]
  <2>1. procs[i] \in Processes
    BY <1>t DEF TypeOK
  <2>2. /\ [procs[i] EXCEPT !.run = "ended"] \in Processes
        /\ [procs[i] EXCEPT !.run = "reaped", !.file = FALSE] \in Processes
    BY <2>1 DEF Processes
  <2> QED BY <2>2, <1>t DEF ExtraEnds, ExtraReaped, TypeOK
<1>2. TypeOK'
  BY <1>t, <1>u, <1>1 DEF TypeOK
<1>3. Ordered' /\ Sent' /\ Believes' /\ BoxesMade' /\ XraySlotsLive' /\ ResolverHasListener'
  BY <1>t, <1>u DEF Sound, Ordered, Sent, Believes, BoxesMade, XraySlotsLive, Held,
                    ResolverHasListener, SystemDNS, Starts
<1>4. \A j \in Ids : Local(j)'
  BY <1>t, <1>u DEF Sound, Local, Starts
<1> QED BY <1>2, <1>3, <1>4 DEF IInv, Sound

-----------------------------------------------------------------------------

\* Every state of the calls satisfies the inductive invariant: calls go
\* through lifecycleMu in order, and each knows at its label what Local says.
THEOREM Invariant == Spec => []IInv
<1>1. Init => IInv
  <2> SUFFICES ASSUME Init PROVE IInv
    OBVIOUS
  <2>1. TypeOK
    <3>1. StopRequest \in Requests
      BY DEF StopRequest, Requests, Profiles
    <3>2. [run |-> "none", stopped |-> FALSE, file |-> FALSE] \in Processes
      BY DEF Processes
    <3>3. slots \in Slots
      BY CoreLifecycleAssumption DEF Init, Slots
    <3> QED BY <3>1, <3>2, <3>3, CoreLifecycleAssumption DEF Init, TypeOK
  <2>2. Ordered /\ Sent /\ Believes /\ BoxesMade
    BY CoreLifecycleAssumption
    DEF Init, Ordered, Sent, Believes, BoxesMade, Ids, Holding, Answered
  <2>3. XraySlotsLive /\ ResolverHasListener
    BY DEF Init, XraySlotsLive, Held, Parts, ResolverHasListener
  <2>4. \A i \in Ids : Local(i)
    BY DEF Init, Local
  <2> QED BY <2>1, <2>2, <2>3, <2>4 DEF IInv, Sound
<1>2. IInv /\ [Next]_vars => IInv'
  <2> SUFFICES ASSUME IInv, [Next]_vars PROVE IInv'
    OBVIOUS
  <2>1. CASE Client
    BY <2>1, ClientStep
  <2>2. ASSUME NEW i \in Ids, StartStep(i) PROVE IInv'
    BY <2>2, MovesOn, StartExtraStep, SkipXrayStep, XrayFailsStep, StartGateStep,
       StartInstanceStep, StartFullGatesStep, PrepareDNSStep, CreateBoxStep,
       PublishStep, ApplyDNSStep, ApplyFailsStep, WatchEgressStep, DeferStep
    DEF StartStep
  <2>3. ASSUME NEW i \in Ids, StopStep(i) PROVE IInv'
    BY <2>3, MovesOn, ReleaseStep, UnpublishStep, CloseBoxStep, StopSidecarsStep,
       ClearXrayStep, CloseXrayStep
    DEF StopStep
  <2>4. ASSUME NEW i \in Ids, ExtraEnds(i) \/ ExtraReaped(i) PROVE IInv'
    BY <2>4, ExtraStep
  <2>5. CASE UNCHANGED vars
    BY <2>5 DEF vars, IInv, TypeOK, Sound, Ordered, Sent, Believes, Local, BoxesMade,
                XraySlotsLive, Held, ResolverHasListener, SystemDNS, Starts
  <2> QED BY <2>1, <2>2, <2>3, <2>4, <2>5 DEF Next
<1> QED BY <1>1, <1>2, PTL DEF Spec

\* Type correctness of the core's package variables and of the calls.
THEOREM TypeCorrect == Spec => []TypeOK
<1>1. IInv => TypeOK
  BY DEF IInv
<1> QED BY <1>1, Invariant, PTL

\* Whatever calls the client gave up on, when it takes a profile for running
\* and waits for nothing the box of its last call is published and live: the
\* mutex serves Start and Stop one at a time and in order.
THEOREM ClientRight == Spec => []ClientIsRight
<1>1. IInv => ClientIsRight
  <2> SUFFICES ASSUME IInv, client.running /\ client.call = 0
               PROVE  slots.box = asked /\ boxes[asked] = "live"
    BY DEF ClientIsRight
  <2>1. asked \in Ids /\ pc[asked] = "ok" /\ Starts(asked)
    BY CoreLifecycleAssumption DEF IInv, Sound, Believes, TypeOK, Ids
  <2> QED BY <2>1 DEF IInv, Sound, Local
<1> QED BY <1>1, Invariant, PTL

\* No slot holds an Xray instance or gate that closeXray has closed.
THEOREM SlotsLive == Spec => []XraySlotsLive
<1>1. IInv => XraySlotsLive
  BY DEF IInv, Sound
<1> QED BY <1>1, Invariant, PTL

\* The system DNS never points at a box that is being closed or gone.
THEOREM ResolverServed == Spec => []ResolverHasListener
<1>1. IInv => ResolverHasListener
  BY DEF IInv, Sound
<1> QED BY <1>1, Invariant, PTL

\* Where the system DNS is not changed, a poll never finds a box that is being
\* closed. On macOS it may: ApplyFails closes a box that is published.
THEOREM PollsSeeLive ==
  ASSUME Platform # "darwin"
  PROVE  Spec => []PublishedIsLive
<1>1. Init => PublishedIsLive
  BY DEF Init, PublishedIsLive
<1>2. IInv /\ PublishedIsLive /\ [Next]_vars => PublishedIsLive'
  <2> SUFFICES ASSUME IInv, PublishedIsLive, [Next]_vars PROVE PublishedIsLive'
    OBVIOUS
  <2>t. /\ slots \in Slots
        /\ boxes \in [Ids -> {"none", "live", "closing", "closed"}]
        /\ slots.box # 0 => slots.box \in Ids
    BY DEF IInv, TypeOK, Slots, Ids
  <2>1. CASE UNCHANGED <<slots, boxes>>
    BY <2>1 DEF PublishedIsLive
  <2>2. ASSUME NEW i \in Ids,
               StartExtra(i) \/ SkipXray(i) \/ XrayFails(i) \/ StartGate(i)
               \/ StartInstance(i) \/ StartFullGates(i) \/ WatchEgress(i)
               \/ Release(i) \/ StopSidecars(i) \/ ClearXray(i) \/ CloseXray(i)
        PROVE  PublishedIsLive'
    <3>1. boxes' = boxes /\ slots'.box = slots.box
      BY <2>2, <2>t
      DEF StartExtra, SkipXray, XrayFails, StartGate, StartInstance, StartFullGates,
          WatchEgress, Release, StopSidecars, ClearXray, CloseXray, WithMark, Slots
    <3> QED BY <3>1 DEF PublishedIsLive
  <2>3. ASSUME NEW i \in Ids, CreateBox(i) PROVE PublishedIsLive'
    BY <2>3, <2>t DEF CreateBox, PublishedIsLive
  <2>4. ASSUME NEW i \in Ids, Publish(i) PROVE PublishedIsLive'
    <3>1. boxes[i] = "live"
      BY <2>4 DEF Publish, IInv, Sound, Local
    <3> QED BY <3>1, <2>4, <2>t DEF Publish, PublishedIsLive, Slots
  <2>5. ASSUME NEW i \in Ids, Unpublish(i) \/ Defer(i) PROVE PublishedIsLive'
    BY <2>5, <2>t DEF Unpublish, Defer, PublishedIsLive, Slots
  <2>6. ASSUME NEW i \in Ids, CloseBox(i) PROVE PublishedIsLive'
    BY <2>6, <2>t DEF CloseBox, PublishedIsLive
  <2>7. ASSUME NEW i \in Ids PROVE ~ApplyFails(i)
    BY DEF ApplyFails, SystemDNS
  <2>8. CASE Client
    <3>1. UNCHANGED <<slots, boxes>>
      BY <2>8 DEF Client, AskStart, AskStop, Ask, Answer, TimeOut
    <3> QED BY <3>1, <2>1
  <2>9. ASSUME NEW i \in Ids,
               EnterStart(i) \/ SkipExtra(i) \/ ExtraRefused(i) \/ SkipFull(i)
               \/ FullGatesFail(i) \/ PrepareDNS(i) \/ CreateFails(i)
               \/ CreatePanics(i) \/ ApplyDNS(i) \/ EnterStop(i)
               \/ ExtraEnds(i) \/ ExtraReaped(i)
        PROVE  PublishedIsLive'
    <3>1. UNCHANGED <<slots, boxes>>
      BY <2>9 DEF EnterStart, SkipExtra, ExtraRefused, SkipFull, FullGatesFail,
                  PrepareDNS, CreateFails, CreatePanics, ApplyDNS, EnterStop,
                  ExtraEnds, ExtraReaped
    <3> QED BY <3>1, <2>1
  <2>10. CASE UNCHANGED vars
    BY <2>10, <2>1 DEF vars
  <2> QED BY <2>2, <2>3, <2>4, <2>5, <2>6, <2>7, <2>8, <2>9, <2>10
          DEF Next, StartStep, StopStep
<1> QED BY <1>1, <1>2, Invariant, PTL DEF Spec

-----------------------------------------------------------------------------
(* What calls leave behind, panics and given-up Starts included. What call *)
(* i made is accounted for at any time: its Start is making it, its box is *)
(* published or was disowned, a call that holds the mutex is undoing it    *)
(* and has come as far as its label says, or it is gone.                   *)

\* Nobody stopped the extra process of call i.
Left(i) == procs[i].run = "running" /\ ~procs[i].stopped

\* The parts of Xray that call i started are in their slots.
InSlots(i) == \A part \in xrays[i] : Held(part) = i

\* If it was left, it is that of a Start failing at Xray or at the full gates.
LeftSo(i) ==
  Left(i) =>
    /\ Starts(i) /\ pc[i] \in {"clearXray", "closeXray", "defer", "failed"}
    /\ req[i].want.xray # "none" \/ req[i].want.full

\* The slots have all the sidecars of call i.
Kept(i) == InSlots(i) /\ (Left(i) => slots.extra = i)

\* Call i has no box.
Boxless(i) == boxes[i] \in {"none", "closed"}

\* Its box was disowned.
Lost(i) == boxes[i] = "live" /\ pc[i] = "ok" /\ Disowned(i)

\* Nothing of it runs but the extra process that a failed Start leaves.
Gone(i) == Boxless(i) /\ xrays[i] = {} /\ LeftSo(i)

\* Its Start has not built a box yet.
Making(i) ==
  /\ Boxless(i)
  /\ \/ pc[i] = "extra" /\ xrays[i] = {} /\ ~Left(i)
     \/ pc[i] = "xray" /\ xrays[i] = {} /\ Kept(i)
     \/ pc[i] \in {"full", "dns", "create"} /\ Kept(i)

\* Its box lives and is, or is about to be, published.
Public(i) ==
  /\ boxes[i] = "live" /\ Kept(i)
  /\ pc[i] = "publish" \/ (slots.box = i /\ pc[i] \in {"apply", "watch", "ok"})

\* A call undoes it, and has come as far as the label says.
Undone(i) ==
  \E j \in Ids :
    \/ pc[j] = "closeBox" /\ boxes[i] = "closing" /\ Kept(i)
    \/ pc[j] = "sidecars" /\ Boxless(i) /\ Kept(i)
    \/ pc[j] = "clearXray" /\ Boxless(i) /\ InSlots(i) /\ LeftSo(i)
    \/ /\ pc[j] = "closeXray" /\ Boxless(i) /\ LeftSo(i)
       /\ \A part \in xrays[i] : <<i, part>> \in taken

\* Where what call i made is.
Account(i) ==
  \/ pc[i] = "panicked" /\ Boxless(i)
  \/ Lost(i) \/ Gone(i) \/ Making(i) \/ Public(i) \/ Undone(i)

\* The labels of a Start before it publishes its box, and of what follows a
\* box that is being closed.
Building == {"extra", "xray", "full", "dns", "create", "publish"}

Closing == {"closeBox", "sidecars", "clearXray", "closeXray"}

\* What the call inside the mutex finds in the slot of the box.
Finds(i) ==
  /\ pc[i] \in Building => slots.box = 0 /\ Starts(i)
  /\ pc[i] \in {"apply", "watch", "defer"} => Starts(i)
  /\ pc[i] \in {"release", "unpublish"} => slots.box # 0 /\ ~Starts(i)
  /\ pc[i] \in Closing => slots.box = 0 \/ (slots.box = i /\ Starts(i))
  /\ pc[i] = "closeBox" =>
       \A a, b \in Ids : boxes[a] = "closing" /\ boxes[b] = "closing" => a = b

\* The published box lives, or the Start that published it is closing it.
BoxTrue ==
  slots.box # 0 =>
    boxes[slots.box] = "live"
    \/ pc[slots.box] \in Closing \cup {"defer"}

\* A prepared system DNS is that of a Start under way, or of one that panicked.
DnsTrue ==
  dns = "prepared" =>
    \E i \in Ids :
      \/ pc[i] = "panicked"
      \/ Starts(i) /\ SystemDNS(i) /\ pc[i] \in {"create", "publish", "apply", "sidecars"}

\* The inductive invariant about what calls leave, panics and given-up calls
\* included.
LInv == (\A i \in Ids : Account(i) /\ Finds(i)) /\ BoxTrue /\ DnsTrue

\* What is used of the invariants in every case below, of a call that holds the
\* mutex or comes in.
LEMMA Base ==
  ASSUME IInv, LInv, NEW i \in Ids, pc[i] \in Holding \/ MayEnter(i)
  PROVE  /\ slots \in Slots /\ dns \in {"off", "prepared", "applied"}
         /\ boxes \in [Ids -> {"none", "live", "closing", "closed"}]
         /\ xrays \in [Ids -> SUBSET Parts] /\ procs \in [Ids -> Processes]
         /\ pc \in [Ids -> Labels] /\ req \in [Ids -> Requests]
         /\ i # 0 /\ 0 \notin Ids /\ (slots.box # 0 => slots.box \in Ids)
         /\ Account(i) /\ Finds(i) /\ Local(i)
         /\ \A j \in Ids \ {i} : pc[j] \notin Holding
         /\ pc[i] \in Holding => \A j \in Ids : i < j => pc[j] \notin Answered
<1>1. ASSUME NEW j \in Ids \ {i} PROVE pc[j] \notin Holding
  <2>1. CASE MayEnter(i)
    BY <2>1 DEF MayEnter
  <2>2. CASE pc[i] \in Holding
    <3>1. i < j \/ j < i
      BY CoreLifecycleAssumption DEF Ids
    <3> QED BY <2>2, <3>1 DEF IInv, Sound, Ordered, Holding, Answered
  <2> QED BY <2>1, <2>2
<1>2. ASSUME pc[i] \in Holding, NEW j \in Ids, i < j PROVE pc[j] \notin Answered
  BY <1>2 DEF IInv, Sound, Ordered, Holding, Answered
<1> QED BY <1>1, <1>2, CoreLifecycleAssumption
        DEF IInv, TypeOK, Sound, LInv, Labels, Ids, Slots

\* Another call than the one that holds the mutex or comes in.
LEMMA Standing ==
  ASSUME IInv, LInv, NEW i \in Ids, pc[i] \in Holding \/ MayEnter(i),
         NEW k \in Ids \ {i}
  PROVE  \/ (pc[k] = "panicked" /\ Boxless(k)) \/ Lost(k) \/ Gone(k)
         \/ slots.box = k /\ pc[k] = "ok" /\ boxes[k] = "live" /\ Kept(k)
         \/ pc[i] \in Closing /\ Undone(k)
<1>b. \A j \in Ids \ {i} : pc[j] \notin Holding
  BY Base
<1>d. /\ Closing \subseteq Holding /\ Building \subseteq Holding
      /\ "apply" \in Holding /\ "watch" \in Holding
  BY DEF Closing, Building, Holding
<1>1. Account(k)
  BY DEF LInv
<1>2. ~Making(k)
  BY <1>b, <1>d DEF Making, Building
<1>3. CASE Public(k)
  BY <1>3, <1>b, <1>d DEF Public, Building
<1>4. CASE Undone(k)
  <2>1. PICK j \in Ids : pc[j] \in Closing
    BY <1>4 DEF Undone, Closing
  <2> QED BY <2>1, <1>4, <1>b, <1>d
<1> QED BY <1>1, <1>2, <1>3, <1>4 DEF Account

\* One of which nothing runs, or whose box was disowned, stays so.
LEMMA Untouched ==
  ASSUME IInv, LInv, NEW i \in Ids, NEW l \in Holding \cup Answered,
         pc[i] \in Holding \/ MayEnter(i), Goto(i, l), req' = req,
         NEW k \in Ids \ {i},
         boxes'[k] = boxes[k], xrays'[k] \subseteq xrays[k], Left(k)' => Left(k),
         slots'.box \in {0, i, slots.box},
         (pc[k] = "panicked" /\ Boxless(k)) \/ Lost(k) \/ Gone(k)
  PROVE  Account(k)'
<1>b. pc \in [Ids -> Labels] /\ 0 \notin Ids /\ i # 0
  BY Base
<1>p. pc'[i] = l /\ \A j \in Ids \ {i} : pc'[j] = pc[j]
  BY <1>b DEF Goto
<1>f. pc[i] # "failed"
  BY DEF MayEnter, Holding
<1>s. \A j \in Ids : Starts(j)' = Starts(j)
  BY DEF Starts
<1>1. CASE pc[k] = "panicked" /\ Boxless(k)
  BY <1>1, <1>p DEF Account, Boxless
<1>2. CASE Lost(k)
  <2>1. PICK j \in Ids : j > k /\ Starts(j) /\ pc[j] = "failed"
    BY <1>2 DEF Lost, Disowned
  <2>2. pc'[j] = "failed" /\ Starts(j)'
    BY <2>1, <1>p, <1>f, <1>s
  <2>3. Disowned(k)'
    BY <2>1, <2>2, <1>2, <1>b DEF Lost, Disowned
  <2> QED BY <2>3, <1>2, <1>p DEF Lost, Account
<1>3. CASE Gone(k)
  BY <1>3, <1>p, <1>s DEF Gone, Boxless, LeftSo, Account
<1> QED BY <1>1, <1>2, <1>3

\* A step of call i preserves LInv when every call stays accounted for, and i
\* finds what it should.
LEMMA Concluded ==
  ASSUME IInv, LInv, NEW i \in Ids, NEW l \in Holding \cup Answered,
         pc[i] \in Holding \/ MayEnter(i), Goto(i, l),
         \A k \in Ids : Account(k)', Finds(i)', BoxTrue', DnsTrue'
  PROVE  LInv'
<1>b. pc \in [Ids -> Labels] /\ \A j \in Ids \ {i} : pc[j] \notin Holding
  BY Base
<1>p. \A j \in Ids \ {i} : pc'[j] \notin Holding
  BY <1>b DEF Goto
<1>1. ASSUME NEW k \in Ids \ {i} PROVE Finds(k)'
  <2>1. pc'[k] \notin Holding
    BY <1>p
  <2> QED BY <2>1 DEF Finds, Building, Closing, Holding
<1> QED BY <1>1 DEF LInv

\* The system DNS stays true when a step does not prepare it and is not of a
\* Start that has.
LEMMA DnsStill ==
  ASSUME IInv, LInv, NEW i \in Ids, NEW l \in Holding \cup Answered,
         pc[i] \in Holding \/ MayEnter(i), Goto(i, l), req' = req,
         \/ dns' # "prepared"
         \/ dns' = dns /\ ~(Starts(i) /\ pc[i] \in {"create", "publish", "apply", "sidecars"})
         \/ dns' = dns /\ Starts(i) /\ l \in {"create", "publish", "apply", "sidecars", "panicked"}
  PROVE  DnsTrue'
<1>b. pc \in [Ids -> Labels] /\ \A j \in Ids \ {i} : pc[j] \notin Holding
  BY Base
<1>p. pc'[i] = l /\ \A j \in Ids \ {i} : pc'[j] = pc[j]
  BY <1>b DEF Goto
<1>s. \A j \in Ids : (Starts(j)' <=> Starts(j)) /\ (SystemDNS(j)' <=> SystemDNS(j))
  BY DEF Starts, SystemDNS
<1>1. CASE dns' # "prepared"
  BY <1>1 DEF DnsTrue
<1>2. CASE dns' = dns /\ dns = "prepared"
  <2>1. PICK k \in Ids :
          \/ pc[k] = "panicked"
          \/ Starts(k) /\ SystemDNS(k) /\ pc[k] \in {"create", "publish", "apply", "sidecars"}
    BY <1>2 DEF LInv, DnsTrue
  <2>2. CASE k # i
    BY <2>1, <2>2, <1>p, <1>s DEF DnsTrue
  <2>3. CASE k = i
    <3>1. pc[i] # "panicked"
      BY DEF MayEnter, Holding
    <3> QED BY <2>1, <2>3, <3>1, <1>2, <1>p, <1>s DEF DnsTrue
  <2> QED BY <2>2, <2>3
<1> QED BY <1>1, <1>2

\* Where the labels of a Start say that it is building its box, nothing but
\* Making accounts for it.
LEMMA IsMaking ==
  ASSUME IInv, LInv, NEW i \in Ids, pc[i] \in Building \ {"publish"}
  PROVE  Making(i)
<1>b. /\ Account(i) /\ \A j \in Ids \ {i} : pc[j] \notin Holding
  BY Base DEF Building, Holding
<1>1. ~Lost(i) /\ ~Public(i) /\ pc[i] # "panicked"
  BY DEF Lost, Public, Building
<1>2. ~Undone(i)
  BY <1>b DEF Undone, Building, Holding
<1>3. CASE Gone(i)
  BY <1>3 DEF Gone, LeftSo, Making, Kept, InSlots, Building
<1> QED BY <1>b, <1>1, <1>2, <1>3 DEF Account

\* A step of a Start while its box is built or published leaves the others
\* alone.
LEMMA BuildingStep ==
  ASSUME IInv, LInv, NEW i \in Ids, NEW l \in Holding \cup Answered,
         pc[i] \in Building \cup {"apply", "watch"}, Goto(i, l), req' = req,
         \A k \in Ids \ {i} : /\ boxes'[k] = boxes[k] /\ xrays'[k] = xrays[k]
                              /\ procs'[k] = procs[k],
         slots'.box \in {0, i}, slots'.box = i => boxes'[i] = "live" \/ l \in Closing,
         Account(i)', Finds(i)', DnsTrue'
  PROVE  LInv'
<1>h. pc[i] \in Holding /\ pc[i] \notin Closing
  BY DEF Building, Holding, Closing
<1>b. 0 \notin Ids /\ i # 0 /\ Finds(i) /\ Local(i) /\ pc \in [Ids -> Labels]
  BY <1>h, Base
<1>z. slots.box \in {0, i}
  BY <1>b DEF Finds, Local
<1>1. ASSUME NEW k \in Ids \ {i} PROVE Account(k)'
  <2>1. Left(k)' => Left(k)
    BY DEF Left
  <2>2. slots.box # k
    BY <1>b, <1>z
  <2>3. (pc[k] = "panicked" /\ Boxless(k)) \/ Lost(k) \/ Gone(k)
    BY <1>h, <2>2, Standing
  <2>4. slots'.box \in {0, i, slots.box}
    OBVIOUS
  <2> QED BY <1>h, <2>1, <2>3, <2>4, Untouched
<1>2. BoxTrue'
  <2>1. pc'[i] = l
    BY <1>b DEF Goto
  <2> QED BY <2>1, <1>b DEF BoxTrue
<1> QED BY <1>h, <1>1, <1>2, Concluded

\* The first steps of a Start: the extra process and the Xray instance or gate.
LEMMA FirstLeft ==
  ASSUME IInv, LInv, NEW i \in Ids,
         \/ SkipExtra(i) \/ ExtraRefused(i) \/ StartExtra(i)
         \/ SkipXray(i) \/ XrayFails(i) \/ StartGate(i) \/ StartInstance(i)
  PROVE  LInv'
<1>h. pc[i] \in {"extra", "xray"}
  BY DEF SkipExtra, ExtraRefused, StartExtra, SkipXray, XrayFails, StartGate,
         StartInstance
<1>g. pc[i] \in Building \ {"publish"} /\ pc[i] \in Holding
  BY <1>h DEF Building, Holding
<1>b. /\ slots \in Slots /\ xrays \in [Ids -> SUBSET Parts]
      /\ procs \in [Ids -> Processes] /\ pc \in [Ids -> Labels]
      /\ i # 0 /\ Finds(i)
  BY <1>g, Base
<1>k. slots.box = 0 /\ Starts(i) /\ Making(i)
  BY <1>b, <1>g, IsMaking DEF Finds
<1>x. xrays[i] = {}
  BY <1>k, <1>h DEF Making
<1>m. PICK l \in {"xray", "full", "defer"} : Goto(i, l)
  BY DEF SkipExtra, ExtraRefused, StartExtra, SkipXray, XrayFails, StartGate,
         StartInstance
<1>p. pc'[i] = l /\ l \in Holding \cup Answered
  BY <1>b, <1>m DEF Goto, Holding
<1>s. /\ slots'.box = 0 /\ UNCHANGED <<req, dns, boxes>>
      /\ \A k \in Ids \ {i} : xrays'[k] = xrays[k] /\ procs'[k] = procs[k]
  BY <1>b, <1>k DEF SkipExtra, ExtraRefused, StartExtra, SkipXray, XrayFails, StartGate,
         StartInstance, WithMark, Slots
<1>t. Starts(i)' /\ (Boxless(i)' <=> Boxless(i)) /\ Boxless(i)
  BY <1>k, <1>s DEF Starts, Boxless, Making
<1>1. Finds(i)'
  BY <1>p, <1>s, <1>t DEF Finds, Building, Closing
<1>2. DnsTrue'
  BY <1>g, <1>m, <1>p, <1>s, <1>h, DnsStill
<1>3. Account(i)'
  <2>1. CASE SkipExtra(i) \/ ExtraRefused(i)
    <3>1. pc[i] = "extra" /\ ~Left(i)
      BY <2>1, <1>k DEF SkipExtra, ExtraRefused, Making
    <3>2. xrays'[i] = {} /\ ~Left(i)' /\ pc'[i] \in {"xray", "defer"}
      BY <2>1, <3>1, <1>x, <1>b DEF SkipExtra, ExtraRefused, Left, Goto
    <3> QED BY <3>2, <1>t DEF Account, Making, Gone, LeftSo, Kept, InSlots
  <2>2. CASE StartExtra(i)
    <3>1. pc[i] = "extra" /\ ~Left(i)
      BY <2>2, <1>k DEF StartExtra, Making
    <3>2. xrays'[i] = {} /\ slots'.extra = i
      BY <2>2, <1>x, <1>b DEF StartExtra, Slots
    <3>3. pc'[i] = "xray" \/ (pc'[i] = "defer" /\ ~Left(i)')
      BY <2>2, <3>1, <1>b DEF StartExtra, Left, Goto
    <3> QED BY <3>2, <3>3, <1>t DEF Account, Making, Gone, LeftSo, Kept, InSlots
  <2>3. CASE SkipXray(i) \/ StartGate(i) \/ StartInstance(i)
    <3>1. Kept(i) /\ pc'[i] = "full"
      BY <2>3, <1>k, <1>b DEF SkipXray, StartGate, StartInstance, Making, Goto
    <3>2. slots'.extra = slots.extra /\ procs' = procs
      BY <2>3, <1>b DEF SkipXray, StartGate, StartInstance, WithMark, Slots
    <3>3. \A part \in xrays'[i] : Held(part)' = i
      <4>1. CASE SkipXray(i)
        BY <4>1, <1>x DEF SkipXray
      <4>2. CASE StartGate(i)
        BY <4>2, <1>x, <1>b DEF StartGate, Held, WithMark, Slots
      <4>3. CASE StartInstance(i)
        BY <4>3, <1>x, <1>b DEF StartInstance, Held, WithMark, Slots
      <4> QED BY <2>3, <4>1, <4>2, <4>3
    <3> QED BY <3>1, <3>2, <3>3, <1>t DEF Account, Making, Kept, InSlots, Left
  <2>4. CASE XrayFails(i)
    <3>1. xrays'[i] = {} /\ pc'[i] = "defer" /\ req'[i].want.xray # "none"
      BY <2>4, <1>x, <1>b DEF XrayFails, Goto
    <3> QED BY <3>1, <1>t DEF Account, Gone, LeftSo
  <2> QED BY <2>1, <2>2, <2>3, <2>4
<1> QED BY <1>1, <1>2, <1>3, <1>b, <1>g, <1>m, <1>p, <1>s, BuildingStep

\* Then the full gates, the system DNS and the box.
LEMMA BuildLeft ==
  ASSUME IInv, LInv, NEW i \in Ids,
         \/ SkipFull(i) \/ StartFullGates(i) \/ FullGatesFail(i) \/ PrepareDNS(i)
         \/ CreateBox(i) \/ CreateFails(i) \/ CreatePanics(i) \/ Publish(i)
  PROVE  LInv'
<1>h. pc[i] \in {"full", "dns", "create", "publish"}
  BY DEF SkipFull, StartFullGates, FullGatesFail, PrepareDNS, CreateBox, CreateFails,
         CreatePanics, Publish
<1>g. pc[i] \in Building /\ pc[i] \in Holding
  BY <1>h DEF Building, Holding
<1>b. /\ slots \in Slots /\ xrays \in [Ids -> SUBSET Parts]
      /\ boxes \in [Ids -> {"none", "live", "closing", "closed"}]
      /\ pc \in [Ids -> Labels] /\ i # 0 /\ Finds(i) /\ Account(i) /\ Local(i)
      /\ \A j \in Ids \ {i} : pc[j] \notin Holding
  BY <1>g, Base
<1>k. slots.box = 0 /\ Starts(i)
  BY <1>b, <1>g DEF Finds
<1>q. Kept(i) /\ (pc[i] # "publish" => Boxless(i)) /\ (pc[i] = "publish" => boxes[i] = "live")
  <2>1. CASE pc[i] # "publish"
    BY <2>1, <1>g, <1>h, IsMaking DEF Making
  <2>2. CASE pc[i] = "publish"
    <3>1. boxes[i] = "live"
      BY <2>2, <1>b DEF Local
    <3>2. ~Lost(i) /\ ~Gone(i) /\ ~Making(i)
      BY <2>2, <3>1 DEF Lost, Gone, Making, Boxless
    <3>3. ~Undone(i)
      BY <2>2, <1>b DEF Undone, Holding
    <3> QED BY <2>2, <3>1, <3>2, <3>3, <1>b DEF Account, Public
  <2> QED BY <2>1, <2>2
<1>m. PICK l \in {"dns", "clearXray", "create", "sidecars", "publish", "panicked", "apply"} :
        Goto(i, l)
  BY DEF SkipFull, StartFullGates, FullGatesFail, PrepareDNS, CreateBox, CreateFails,
         CreatePanics, Publish
<1>p. pc'[i] = l /\ l \in Holding \cup Answered
  BY <1>b, <1>m DEF Goto, Holding, Answered
<1>s. /\ UNCHANGED <<req, procs>> /\ slots'.extra = slots.extra
      /\ \A k \in Ids \ {i} : xrays'[k] = xrays[k] /\ boxes'[k] = boxes[k]
  BY <1>b DEF SkipFull, StartFullGates, FullGatesFail, PrepareDNS, CreateBox, CreateFails,
         CreatePanics, Publish, Slots
<1>t. Starts(i)' /\ (Left(i)' <=> Left(i)) /\ (SystemDNS(i)' <=> SystemDNS(i))
  BY <1>k, <1>s DEF Starts, Left, SystemDNS
<1>v. Kept(i)'
  <2> SUFFICES ASSUME NEW part \in xrays'[i] PROVE Held(part)' = i
    BY <1>q, <1>s, <1>t DEF Kept, InSlots
  <2>1. CASE StartFullGates(i)
    <3>1. part \in Parts /\ (part \in xrays[i] \/ part = "full")
      BY <2>1, <1>b DEF StartFullGates, Parts
    <3>2. /\ slots'.full = i /\ slots'.instance = slots.instance
          /\ slots'.gate = slots.gate
      BY <2>1, <1>b DEF StartFullGates, Slots
    <3> QED BY <3>1, <3>2, <1>q DEF Kept, InSlots, Held, Parts
  <2>2. CASE ~StartFullGates(i)
    <3>1. /\ xrays' = xrays /\ slots'.full = slots.full
          /\ slots'.instance = slots.instance /\ slots'.gate = slots.gate
      BY <2>2, <1>b DEF SkipFull, FullGatesFail, PrepareDNS, CreateBox, CreateFails,
           CreatePanics, Publish, Slots
    <3> QED BY <3>1, <1>q DEF Kept, InSlots, Held
  <2> QED BY <2>1, <2>2
<1>1. CASE Publish(i)
  <2>1. slots'.box = i /\ boxes'[i] = "live" /\ pc'[i] = "apply" /\ dns' = dns
    BY <1>1, <1>q, <1>b DEF Publish, Slots, Goto
  <2>2. Account(i)'
    BY <2>1, <1>v DEF Account, Public
  <2>3. Finds(i)'
    BY <2>1, <1>t DEF Finds, Building, Closing
  <2>4. DnsTrue'
    BY <1>g, <1>k, <1>m, <1>p, <1>s, <2>1, DnsStill
  <2> QED BY <2>1, <2>2, <2>3, <2>4, <1>g, <1>m, <1>p, <1>s, BuildingStep
<1>2. CASE CreateBox(i)
  <2>1. slots'.box = 0 /\ boxes'[i] = "live" /\ pc'[i] = "publish" /\ dns' = dns
    BY <1>2, <1>k, <1>b DEF CreateBox, Goto
  <2>2. Account(i)'
    BY <2>1, <1>v DEF Account, Public
  <2>3. Finds(i)'
    BY <2>1, <1>t DEF Finds, Building, Closing
  <2>4. DnsTrue'
    BY <1>g, <1>k, <1>m, <1>p, <1>s, <2>1, DnsStill
  <2> QED BY <2>1, <2>2, <2>3, <2>4, <1>g, <1>m, <1>p, <1>s, BuildingStep
<1>3. CASE CreateFails(i) \/ CreatePanics(i)
  <2>1. /\ slots'.box = 0 /\ boxes' = boxes /\ pc'[i] \in {"sidecars", "panicked"}
        /\ dns' = dns /\ Boxless(i)
    BY <1>3, <1>q, <1>k, <1>b DEF CreateFails, CreatePanics, Goto
  <2>2. Account(i)'
    BY <2>1, <1>v DEF Account, Undone, Boxless
  <2>3. Finds(i)'
    BY <2>1, <1>t DEF Finds, Building, Closing
  <2>4. DnsTrue'
    BY <1>g, <1>k, <1>m, <1>p, <1>s, <2>1, DnsStill
  <2> QED BY <2>1, <2>2, <2>3, <2>4, <1>b, <1>g, <1>m, <1>p, <1>s, BuildingStep
<1>4. CASE PrepareDNS(i)
  <2>1. /\ slots'.box = 0 /\ boxes' = boxes /\ pc'[i] \in {"create", "sidecars"}
        /\ pc[i] = "dns" /\ Boxless(i)
    BY <1>4, <1>q, <1>k, <1>b DEF PrepareDNS, Goto
  <2>2. Account(i)'
    BY <2>1, <1>v DEF Account, Undone, Making, Boxless
  <2>3. Finds(i)'
    BY <2>1, <1>t DEF Finds, Building, Closing
  <2>4. DnsTrue'
    <3>1. CASE dns' = dns
      BY <3>1, <1>g, <1>m, <1>p, <1>s, <2>1, DnsStill
    <3>2. CASE dns' # dns
      <4>1. SystemDNS(i) /\ pc'[i] = "create"
        BY <1>4, <3>2, <1>b DEF PrepareDNS, Goto
      <4> QED BY <4>1, <1>t DEF DnsTrue
    <3> QED BY <3>1, <3>2
  <2> QED BY <2>1, <2>2, <2>3, <2>4, <1>b, <1>g, <1>m, <1>p, <1>s, BuildingStep
<1>5. CASE SkipFull(i) \/ StartFullGates(i) \/ FullGatesFail(i)
  <2>1. /\ slots'.box = 0 /\ boxes' = boxes /\ dns' = dns /\ pc[i] = "full" /\ Boxless(i)
        /\ pc'[i] = "dns" \/ (pc'[i] = "clearXray" /\ req'[i].want.full)
    BY <1>5, <1>q, <1>k, <1>b DEF SkipFull, StartFullGates, FullGatesFail, Goto, Slots
  <2>2. Account(i)'
    BY <2>1, <1>v, <1>t DEF Account, Undone, Making, Boxless, Kept, LeftSo
  <2>3. Finds(i)'
    BY <2>1, <1>t DEF Finds, Building, Closing
  <2>4. DnsTrue'
    BY <1>g, <1>m, <1>p, <1>s, <2>1, DnsStill
  <2> QED BY <2>1, <2>2, <2>3, <2>4, <1>b, <1>g, <1>m, <1>p, <1>s, BuildingStep
<1> QED BY <1>1, <1>2, <1>3, <1>4, <1>5

\* A call that comes in has made nothing yet, and finds what was left at rest.
LEMMA EnterLeft ==
  ASSUME IInv, LInv, NEW i \in Ids, EnterStart(i) \/ EnterStop(i)
  PROVE  LInv'
<1>e. MayEnter(i) /\ pc[i] = "queued" /\ \A j \in Ids : pc[j] \notin Holding
  BY DEF EnterStart, EnterStop, MayEnter
<1>b. /\ pc \in [Ids -> Labels] /\ Account(i) /\ 0 \notin Ids
      /\ (slots.box # 0 => slots.box \in Ids)
  BY <1>e, Base
<1>u. UNCHANGED <<req, slots, dns, boxes, xrays, procs, taken>>
  BY DEF EnterStart, EnterStop
<1>m. PICK l \in {"defer", "extra", "ok", "release"} : Goto(i, l)
  BY DEF EnterStart, EnterStop
<1>p. /\ pc'[i] = l /\ l \in Holding \cup Answered
      /\ \A j \in Ids \ {i} : pc'[j] = pc[j]
  BY <1>b, <1>m DEF Goto, Holding, Answered
<1>s. \A k \in Ids : /\ Starts(k)' <=> Starts(k)
                     /\ Left(k)' <=> Left(k)
                     /\ Kept(k)' <=> Kept(k)
                     /\ Boxless(k)' <=> Boxless(k)
  BY <1>u DEF Starts, Left, Kept, InSlots, Held, Boxless
<1>g. Gone(i) /\ ~Left(i)
  <2>1. ~Lost(i) /\ ~Public(i) /\ ~Making(i)
    BY <1>e DEF Lost, Public, Making
  <2>2. ~Undone(i)
    BY <1>e DEF Undone, Holding
  <2>3. Gone(i)
    BY <2>1, <2>2, <1>b, <1>e DEF Account
  <2> QED BY <2>3, <1>e DEF Gone, LeftSo
<1>1. ASSUME NEW k \in Ids PROVE Account(k)'
  <2>1. CASE k = i
    BY <2>1, <1>g, <1>s, <1>u DEF Gone, LeftSo, Account
  <2>2. CASE k # i
    <3>1. \/ (pc[k] = "panicked" /\ Boxless(k)) \/ Lost(k) \/ Gone(k)
          \/ slots.box = k /\ pc[k] = "ok" /\ boxes[k] = "live" /\ Kept(k)
      BY <2>2, <1>e, Standing DEF Closing
    <3>2. CASE slots.box = k /\ pc[k] = "ok" /\ boxes[k] = "live" /\ Kept(k)
      BY <3>2, <2>2, <1>p, <1>s, <1>u DEF Account, Public
    <3>3. CASE (pc[k] = "panicked" /\ Boxless(k)) \/ Lost(k) \/ Gone(k)
      BY <3>3, <2>2, <1>e, <1>m, <1>p, <1>s, <1>u, Untouched
    <3> QED BY <3>1, <3>2, <3>3
  <2> QED BY <2>1, <2>2
<1>2. Finds(i)'
  <2>1. \/ EnterStart(i) /\ (l = "extra" => slots.box = 0)
        \/ EnterStop(i) /\ l \in {"ok", "release"} /\ (l = "release" => slots.box # 0)
    BY <1>p, <1>b DEF EnterStart, EnterStop, Goto
  <2>2. CASE EnterStart(i)
    <3>1. Starts(i)' /\ l \in {"defer", "extra"}
      BY <2>2, <1>s, <1>p, <1>b DEF EnterStart, Goto
    <3> QED BY <2>1, <2>2, <3>1, <1>p, <1>u DEF Finds, Building, Closing, EnterStart, EnterStop
  <2>3. CASE EnterStop(i)
    <3>1. ~Starts(i)'
      BY <2>3, <1>s DEF EnterStop
    <3> QED BY <2>1, <2>3, <3>1, <1>p, <1>u DEF Finds, Building, Closing, EnterStart, EnterStop
  <2> QED BY <2>2, <2>3
<1>3. BoxTrue'
  <2>1. slots.box # 0 => boxes[slots.box] = "live"
    BY <1>e, <1>b DEF LInv, BoxTrue, Closing, Holding
  <2> QED BY <2>1, <1>u DEF BoxTrue
<1>4. DnsTrue'
  BY <1>e, <1>m, <1>p, <1>u, DnsStill
<1> QED BY <1>1, <1>2, <1>3, <1>4, <1>e, <1>m, <1>p, Concluded

\* While a Start applies the DNS and watches the egress its box is public.
LEMMA AppliedLeft ==
  ASSUME IInv, LInv, NEW i \in Ids, ApplyDNS(i) \/ ApplyFails(i) \/ WatchEgress(i)
  PROVE  LInv'
<1>h. pc[i] \in {"apply", "watch"} /\ pc[i] \in Holding /\ pc[i] \notin Closing
  BY DEF ApplyDNS, ApplyFails, WatchEgress, Holding, Closing
<1>b. /\ slots \in Slots /\ boxes \in [Ids -> {"none", "live", "closing", "closed"}]
      /\ pc \in [Ids -> Labels] /\ i # 0 /\ 0 \notin Ids
      /\ Finds(i) /\ Account(i) /\ Local(i)
      /\ \A j \in Ids \ {i} : pc[j] \notin Holding
  BY <1>h, Base
<1>k. slots.box = i /\ boxes[i] = "live" /\ Starts(i)
  BY <1>b, <1>h DEF Local, Finds
<1>q. Kept(i)
  <2>1. ~Lost(i) /\ ~Gone(i) /\ ~Making(i)
    BY <1>h, <1>k DEF Lost, Gone, Making, Boxless
  <2>2. ~Undone(i)
    BY <1>b, <1>h DEF Undone, Holding, Closing
  <2> QED BY <2>1, <2>2, <1>b, <1>h DEF Account, Public
<1>m. PICK l \in {"watch", "closeBox", "ok"} : Goto(i, l)
  BY DEF ApplyDNS, ApplyFails, WatchEgress
<1>p. pc'[i] = l /\ l \in Holding \cup Answered
  BY <1>b, <1>m DEF Goto, Holding, Answered
<1>s. /\ UNCHANGED <<req, xrays, procs>>
      /\ slots'.box = i /\ slots'.extra = slots.extra /\ slots'.instance = slots.instance
      /\ slots'.gate = slots.gate /\ slots'.full = slots.full
      /\ \A k \in Ids \ {i} : boxes'[k] = boxes[k]
  BY <1>b, <1>k DEF ApplyDNS, ApplyFails, WatchEgress, Slots
<1>v. Kept(i)' /\ Starts(i)'
  BY <1>q, <1>k, <1>s DEF Kept, InSlots, Held, Left, Starts
<1>1. CASE ApplyFails(i)
  <2>1. boxes'[i] = "closing" /\ pc'[i] = "closeBox" /\ l = "closeBox" /\ dns' = "off"
    BY <1>1, <1>b, <1>p DEF ApplyFails, Goto
  <2>2. Account(i)'
    BY <2>1, <1>v DEF Account, Undone
  <2>3. \A k \in Ids \ {i} : boxes'[k] # "closing"
    <3> SUFFICES ASSUME NEW k \in Ids \ {i} PROVE boxes[k] # "closing"
      BY <1>s
    <3>1. (pc[k] = "panicked" /\ Boxless(k)) \/ Lost(k) \/ Gone(k) \/ boxes[k] = "live"
      BY <1>h, Standing
    <3> QED BY <3>1 DEF Lost, Gone, Boxless
  <2>4. Finds(i)'
    BY <2>1, <2>3, <1>v, <1>s DEF Finds, Building, Closing
  <2>5. DnsTrue'
    BY <1>h, <1>m, <1>p, <1>s, <2>1, DnsStill
  <2>6. l \in Closing
    BY <2>1 DEF Closing
  <2> QED BY <2>1, <2>2, <2>4, <2>5, <2>6, <1>b, <1>h, <1>m, <1>p, <1>s, BuildingStep
<1>2. CASE ApplyDNS(i) \/ WatchEgress(i)
  <2>1. boxes'[i] = "live" /\ pc'[i] \in {"watch", "ok"}
    BY <1>2, <1>k, <1>b DEF ApplyDNS, WatchEgress, Goto
  <2>2. Account(i)'
    BY <2>1, <1>v, <1>s DEF Account, Public
  <2>3. Finds(i)'
    BY <2>1, <1>v DEF Finds, Building, Closing
  <2>4. DnsTrue'
    <3>1. CASE dns' = "applied"
      BY <3>1, <1>h, <1>m, <1>p, <1>s, DnsStill
    <3>2. CASE dns' # "applied" /\ pc[i] = "apply"
      <4>1. dns' = dns /\ ~SystemDNS(i)
        BY <1>2, <3>2 DEF ApplyDNS, WatchEgress
      <4>2. ASSUME dns = "prepared" PROVE \E k \in Ids \ {i} : pc[k] = "panicked"
        BY <4>1, <4>2, <3>2, <1>b DEF LInv, DnsTrue, Holding
      <4>3. \A k \in Ids \ {i} : pc'[k] = pc[k]
        BY <1>m, <1>b DEF Goto
      <4> QED BY <4>1, <4>2, <4>3 DEF DnsTrue
    <3>3. CASE pc[i] = "watch"
      <4>1. dns' = dns
        BY <1>2, <3>3 DEF ApplyDNS, WatchEgress
      <4> QED BY <4>1, <3>3, <1>h, <1>m, <1>p, <1>s, DnsStill
    <3> QED BY <3>1, <3>2, <3>3, <1>h
  <2> QED BY <2>1, <2>2, <2>3, <2>4, <1>b, <1>h, <1>m, <1>p, <1>s, BuildingStep
<1> QED BY <1>1, <1>2

\* The deferred function disowns the box that an earlier Start published.
LEMMA DeferLeft ==
  ASSUME IInv, LInv, NEW i \in Ids, Defer(i)
  PROVE  LInv'
<1>h. pc[i] = "defer" /\ pc[i] \in Holding /\ pc[i] \notin Closing
  BY DEF Defer, Holding, Closing
<1>b. /\ slots \in Slots /\ pc \in [Ids -> Labels] /\ i # 0 /\ 0 \notin Ids
      /\ Finds(i) /\ Account(i)
      /\ \A j \in Ids \ {i} : pc[j] \notin Holding
      /\ \A j \in Ids : i < j => pc[j] \notin Answered
  BY <1>h, Base
<1>s. /\ slots'.box = 0 /\ UNCHANGED <<req, dns, boxes, xrays, procs>>
      /\ Goto(i, "failed") /\ pc'[i] = "failed" /\ "failed" \in Holding \cup Answered
      /\ \A k \in Ids \ {i} : pc'[k] = pc[k]
  BY <1>b DEF Defer, Slots, Goto, Answered
<1>t. /\ Starts(i)' /\ Starts(i)
      /\ \A k \in Ids : (Left(k)' <=> Left(k)) /\ (Boxless(k)' <=> Boxless(k))
  BY <1>b, <1>h, <1>s DEF Finds, Starts, Left, Boxless
<1>1. Account(i)'
  <2>1. ~Lost(i) /\ ~Making(i) /\ ~Public(i)
    BY <1>h DEF Lost, Making, Public
  <2>2. ~Undone(i)
    BY <1>b, <1>h DEF Undone, Holding
  <2>3. Gone(i)
    BY <2>1, <2>2, <1>b, <1>h DEF Account
  <2> QED BY <2>3, <1>s, <1>t DEF Gone, LeftSo, Account
<1>2. ASSUME NEW k \in Ids \ {i} PROVE Account(k)'
  <2>1. CASE slots.box = k /\ pc[k] = "ok" /\ boxes[k] = "live"
    <3>1. i > k
      BY <2>1, <1>b, CoreLifecycleAssumption DEF Answered, Ids
    <3>2. Disowned(k)'
      BY <3>1, <1>s, <1>t, <1>b DEF Disowned
    <3> QED BY <2>1, <3>2, <1>s DEF Lost, Account
  <2>2. CASE (pc[k] = "panicked" /\ Boxless(k)) \/ Lost(k) \/ Gone(k)
    BY <2>2, <1>h, <1>s, <1>t, Untouched
  <2> QED BY <2>1, <2>2, <1>h, Standing
<1>3. Finds(i)' /\ BoxTrue'
  BY <1>s DEF Finds, Building, Closing, BoxTrue
<1>4. DnsTrue'
  BY <1>h, <1>s, DnsStill
<1> QED BY <1>1, <1>2, <1>3, <1>4, <1>h, <1>s, Concluded

\* Stop takes the published box: its sidecars are in the slots.
LEMMA UnpublishLeft ==
  ASSUME IInv, LInv, NEW i \in Ids, Release(i) \/ Unpublish(i)
  PROVE  LInv'
<1>h. pc[i] \in {"release", "unpublish"} /\ pc[i] \in Holding /\ pc[i] \notin Closing
  BY DEF Release, Unpublish, Holding, Closing
<1>b. /\ slots \in Slots /\ boxes \in [Ids -> {"none", "live", "closing", "closed"}]
      /\ pc \in [Ids -> Labels] /\ i # 0 /\ 0 \notin Ids
      /\ (slots.box # 0 => slots.box \in Ids) /\ Finds(i) /\ Account(i)
      /\ \A j \in Ids \ {i} : pc[j] \notin Holding
  BY <1>h, Base
<1>k. slots.box \in Ids /\ ~Starts(i)
  BY <1>b, <1>h DEF Finds
<1>c. PICK b \in Ids : b = slots.box
  BY <1>k
<1>l. boxes[slots.box] = "live"
  BY <1>b, <1>h, <1>k DEF LInv, BoxTrue, Closing, Holding
<1>g. Gone(i) /\ ~Left(i)
  <2>1. ~Lost(i) /\ ~Public(i) /\ ~Making(i)
    BY <1>h DEF Lost, Public, Making
  <2>2. ~Undone(i)
    BY <1>b, <1>h DEF Undone, Holding
  <2>3. Gone(i)
    BY <2>1, <2>2, <1>b, <1>h DEF Account
  <2> QED BY <2>3, <1>h DEF Gone, LeftSo
<1>n. slots.box # i
  BY <1>g, <1>l DEF Gone, Boxless
<1>q. pc[slots.box] = "ok" /\ Kept(slots.box)
  BY <1>h, <1>k, <1>l, <1>n, Standing DEF Lost, Disowned, Gone, Boxless
<1>o. \A k \in Ids \ {i, slots.box} :
        (pc[k] = "panicked" /\ Boxless(k)) \/ Lost(k) \/ Gone(k)
  BY <1>h, Standing
<1>m. PICK l \in {"unpublish", "closeBox"} : Goto(i, l)
  BY DEF Release, Unpublish
<1>p. /\ pc'[i] = l /\ l \in Holding \cup Answered
      /\ \A k \in Ids \ {i} : pc'[k] = pc[k]
  BY <1>b, <1>m DEF Goto, Holding
<1>s. /\ UNCHANGED <<req, xrays, procs>>
      /\ slots'.box \in {0, slots.box} /\ slots'.extra = slots.extra
      /\ slots'.instance = slots.instance /\ slots'.gate = slots.gate
      /\ slots'.full = slots.full
      /\ \A k \in Ids \ {slots.box} : boxes'[k] = boxes[k]
  BY <1>b DEF Release, Unpublish, Slots
<1>t. /\ ~Starts(i)'
      /\ \A k \in Ids : (Left(k)' <=> Left(k)) /\ (Kept(k)' <=> Kept(k))
  BY <1>k, <1>s DEF Starts, Left, Kept, InSlots, Held
<1>1. ASSUME NEW k \in Ids \ {slots.box} PROVE Account(k)'
  <2>1. CASE k = i
    BY <2>1, <1>g, <1>n, <1>s, <1>t DEF Gone, LeftSo, Boxless, Account
  <2>2. CASE k # i
    BY <2>2, <1>o, <1>h, <1>m, <1>p, <1>s, <1>t, Untouched
  <2> QED BY <2>1, <2>2
<1>2. CASE Release(i)
  <2>1. slots'.box = slots.box /\ boxes' = boxes /\ dns' = "off" /\ pc'[i] = "unpublish"
    BY <1>2, <1>b DEF Release, Slots, Goto
  <2>2. Account(b)'
    BY <2>1, <1>c, <1>l, <1>n, <1>p, <1>q, <1>t DEF Account, Public
  <2>3. Finds(i)' /\ BoxTrue' /\ DnsTrue'
    BY <2>1, <1>b, <1>k, <1>l, <1>t DEF Finds, Building, Closing, BoxTrue, DnsTrue
  <2> QED BY <1>1, <1>c, <2>2, <2>3, <1>h, <1>m, <1>p, Concluded
<1>3. CASE Unpublish(i)
  <2>1. slots'.box = 0 /\ boxes'[slots.box] = "closing" /\ dns' = dns /\ pc'[i] = "closeBox"
    BY <1>3, <1>b, <1>k DEF Unpublish, Slots, Goto
  <2>2. Account(b)'
    BY <2>1, <1>c, <1>q, <1>t DEF Account, Undone
  <2>3. \A k \in Ids \ {slots.box} : boxes'[k] # "closing"
    BY <1>g, <1>o, <1>s DEF Lost, Gone, Boxless
  <2>4. Finds(i)' /\ BoxTrue'
    BY <2>1, <2>3 DEF Finds, Building, Closing, BoxTrue
  <2>5. DnsTrue'
    BY <2>1, <1>h, <1>m, <1>p, <1>s, DnsStill
  <2> QED BY <1>1, <1>c, <2>2, <2>4, <2>5, <1>h, <1>m, <1>p, Concluded
<1> QED BY <1>2, <1>3

\* What a call that undoes finds: itself, and the others.
LEMMA Undoers ==
  ASSUME IInv, LInv, NEW i \in Ids, pc[i] \in Closing
  PROVE  /\ pc[i] \in Holding
         /\ Gone(i) \/ Undone(i)
         /\ \A k \in Ids \ {i} : \/ (pc[k] = "panicked" /\ Boxless(k)) \/ Lost(k) \/ Gone(k)
                                 \/ Undone(k)
         /\ \A k \in Ids : Undone(k) =>
              \/ pc[i] = "closeBox" /\ boxes[k] = "closing" /\ Kept(k)
              \/ pc[i] = "sidecars" /\ Boxless(k) /\ Kept(k)
              \/ pc[i] = "clearXray" /\ Boxless(k) /\ InSlots(k) /\ LeftSo(k)
              \/ /\ pc[i] = "closeXray" /\ Boxless(k) /\ LeftSo(k)
                 /\ \A part \in xrays[k] : <<k, part>> \in taken
<1>h. pc[i] \in Holding /\ Closing \subseteq Holding
  BY DEF Closing, Holding
<1>b. /\ 0 \notin Ids /\ Finds(i) /\ Account(i)
      /\ \A j \in Ids \ {i} : pc[j] \notin Holding
  BY <1>h, Base
<1>1. Gone(i) \/ Undone(i)
  BY <1>b DEF Account, Lost, Making, Public, Closing
<1>2. ASSUME NEW k \in Ids \ {i}
      PROVE  (pc[k] = "panicked" /\ Boxless(k)) \/ Lost(k) \/ Gone(k) \/ Undone(k)
  <2>1. slots.box # k
    BY <1>b DEF Finds
  <2> QED BY <2>1, <1>h, Standing
<1>3. \A j \in Ids : pc[j] \in Closing => j = i
  BY <1>b, <1>h
<1>4. ASSUME NEW k \in Ids, Undone(k)
      PROVE  \/ pc[i] = "closeBox" /\ boxes[k] = "closing" /\ Kept(k)
             \/ pc[i] = "sidecars" /\ Boxless(k) /\ Kept(k)
             \/ pc[i] = "clearXray" /\ Boxless(k) /\ InSlots(k) /\ LeftSo(k)
             \/ /\ pc[i] = "closeXray" /\ Boxless(k) /\ LeftSo(k)
                /\ \A part \in xrays[k] : <<k, part>> \in taken
  BY <1>3, <1>4 DEF Undone, Closing
<1> QED BY <1>h, <1>1, <1>2, <1>4

\* The one box that is being closed is closed.
LEMMA CloseBoxLeft ==
  ASSUME IInv, LInv, NEW i \in Ids, CloseBox(i)
  PROVE  LInv'
<1>h. pc[i] = "closeBox" /\ pc[i] \in Closing
  BY DEF CloseBox, Closing
<1>u. /\ pc[i] \in Holding
      /\ Gone(i) \/ Undone(i)
      /\ \A k \in Ids \ {i} : \/ (pc[k] = "panicked" /\ Boxless(k)) \/ Lost(k) \/ Gone(k)
                              \/ Undone(k)
      /\ \A k \in Ids : Undone(k) => boxes[k] = "closing" /\ Kept(k)
  BY <1>h, Undoers
<1>b. /\ boxes \in [Ids -> {"none", "live", "closing", "closed"}]
      /\ pc \in [Ids -> Labels] /\ Finds(i) /\ i # 0
  BY <1>u, Base
<1>c. PICK b \in Ids : boxes[b] = "closing" /\ boxes' = [boxes EXCEPT ![b] = "closed"]
  BY DEF CloseBox
<1>s. /\ UNCHANGED <<req, slots, dns, xrays, procs, taken>>
      /\ Goto(i, "sidecars") /\ pc'[i] = "sidecars" /\ "sidecars" \in Holding \cup Answered
      /\ boxes'[b] = "closed" /\ \A k \in Ids \ {b} : boxes'[k] = boxes[k]
  BY <1>b, <1>c DEF CloseBox, Goto, Holding
<1>t. \A k \in Ids : /\ Left(k)' <=> Left(k)
                     /\ Kept(k)' <=> Kept(k)
                     /\ Starts(k)' <=> Starts(k)
  BY <1>s DEF Left, Kept, InSlots, Held, Starts
<1>o. \A k \in Ids \ {b} : ~Undone(k)
  BY <1>u, <1>c, <1>b, <1>h DEF Finds
<1>1. ASSUME NEW k \in Ids PROVE Account(k)'
  <2>1. CASE k = b
    <3>1. Kept(b)
      BY <1>u, <1>c, <1>h DEF Lost, Gone, Boxless
    <3> QED BY <2>1, <3>1, <1>s, <1>t DEF Account, Undone, Boxless
  <2>2. CASE k # b /\ k = i
    <3>1. Gone(i) /\ ~Left(i)
      BY <2>2, <1>u, <1>o, <1>h DEF Gone, LeftSo
    <3> QED BY <2>2, <3>1, <1>s, <1>t DEF Account, Gone, LeftSo, Boxless
  <2>3. CASE k # b /\ k # i
    BY <2>3, <1>u, <1>o, <1>s, <1>t, Untouched
  <2> QED BY <2>1, <2>2, <2>3
<1>2. Finds(i)' /\ BoxTrue'
  BY <1>b, <1>h, <1>s, <1>t DEF Finds, Building, Closing, BoxTrue
<1>3. DnsTrue'
  BY <1>u, <1>h, <1>s, DnsStill
<1> QED BY <1>1, <1>2, <1>3, <1>u, <1>s, Concluded

\* The extra process in the slot is stopped, whosever it is.
LEMMA SidecarsLeft ==
  ASSUME IInv, LInv, NEW i \in Ids, StopSidecars(i)
  PROVE  LInv'
<1>h. pc[i] = "sidecars" /\ pc[i] \in Closing
  BY DEF StopSidecars, Closing
<1>u. /\ pc[i] \in Holding
      /\ Gone(i) \/ Undone(i)
      /\ \A k \in Ids \ {i} : \/ (pc[k] = "panicked" /\ Boxless(k)) \/ Lost(k) \/ Gone(k)
                              \/ Undone(k)
      /\ \A k \in Ids : Undone(k) => Boxless(k) /\ Kept(k)
  BY <1>h, Undoers
<1>b. /\ slots \in Slots /\ procs \in [Ids -> Processes]
      /\ pc \in [Ids -> Labels] /\ Finds(i) /\ i # 0 /\ 0 \notin Ids
  BY <1>u, Base
<1>s. /\ UNCHANGED <<req, boxes, xrays, taken>>
      /\ slots'.box = slots.box /\ slots'.instance = slots.instance
      /\ slots'.gate = slots.gate /\ slots'.full = slots.full
      /\ Goto(i, "clearXray") /\ pc'[i] = "clearXray" /\ "clearXray" \in Holding \cup Answered
      /\ dns' = IF Starts(i) THEN "off" ELSE dns
  BY <1>b DEF StopSidecars, Goto, Holding, Slots
<1>l. /\ \A k \in Ids : Left(k)' => Left(k)
      /\ \A k \in Ids : slots.extra = k => ~Left(k)'
  <2>1. CASE slots.extra = 0
    BY <2>1, <1>b DEF StopSidecars, Left
  <2>2. CASE slots.extra # 0
    <3>1. slots.extra \in Ids
      BY <2>2, <1>b DEF Slots, Ids
    <3>2. PICK p \in Stopped(procs[slots.extra]) : procs' = [procs EXCEPT ![slots.extra] = p]
      BY <2>2 DEF StopSidecars
    <3>3. p.stopped = TRUE
      <4>1. PICK f : p = [run |-> IF procs[slots.extra].run = "running" THEN "killed"
                                  ELSE procs[slots.extra].run,
                          stopped |-> TRUE, file |-> f]
        BY <3>2 DEF Stopped
      <4> QED BY <4>1
    <3>4. procs'[slots.extra] = p /\ \A k \in Ids \ {slots.extra} : procs'[k] = procs[k]
      BY <3>1, <3>2, <1>b
    <3> QED BY <3>1, <3>3, <3>4 DEF Left
  <2> QED BY <2>1, <2>2
<1>t. \A k \in Ids : /\ InSlots(k)' <=> InSlots(k)
                     /\ Starts(k)' <=> Starts(k)
                     /\ Boxless(k)' <=> Boxless(k)
  BY <1>s DEF InSlots, Held, Starts, Boxless
<1>1. ASSUME NEW k \in Ids PROVE Account(k)'
  <2>1. CASE Undone(k)
    <3>1. ~Left(k)' /\ InSlots(k)' /\ Boxless(k)'
      BY <2>1, <1>u, <1>l, <1>t DEF Kept
    <3> QED BY <3>1, <1>s DEF Account, Undone, LeftSo
  <2>2. CASE ~Undone(k) /\ k = i
    <3>1. Gone(i) /\ ~Left(i)
      BY <2>2, <1>u, <1>h DEF Gone, LeftSo
    <3> QED BY <2>2, <3>1, <1>s, <1>l, <1>t DEF Account, Gone, LeftSo
  <2>3. CASE ~Undone(k) /\ k # i
    BY <2>3, <1>u, <1>s, <1>l, Untouched
  <2> QED BY <2>1, <2>2, <2>3
<1>2. Finds(i)' /\ BoxTrue'
  BY <1>b, <1>h, <1>s, <1>t DEF Finds, Building, Closing, BoxTrue
<1>3. DnsTrue'
  BY <1>u, <1>h, <1>s, DnsStill
<1> QED BY <1>1, <1>2, <1>3, <1>u, <1>s, Concluded

\* closeXray takes the parts of Xray out of their slots, and closes them.
LEMMA XrayLeft ==
  ASSUME IInv, LInv, NEW i \in Ids, ClearXray(i) \/ CloseXray(i)
  PROVE  LInv'
<1>h. pc[i] \in {"clearXray", "closeXray"} /\ pc[i] \in Closing
  BY DEF ClearXray, CloseXray, Closing
<1>u. /\ pc[i] \in Holding
      /\ Gone(i) \/ Undone(i)
      /\ \A k \in Ids \ {i} : \/ (pc[k] = "panicked" /\ Boxless(k)) \/ Lost(k) \/ Gone(k)
                              \/ Undone(k)
      /\ \A k \in Ids : Undone(k) => Boxless(k) /\ LeftSo(k)
      /\ \A k \in Ids : Undone(k) /\ pc[i] = "clearXray" => InSlots(k)
      /\ \A k \in Ids : Undone(k) /\ pc[i] = "closeXray" =>
           \A part \in xrays[k] : <<k, part>> \in taken
  BY <1>h, Undoers
<1>b. /\ slots \in Slots /\ xrays \in [Ids -> SUBSET Parts]
      /\ pc \in [Ids -> Labels] /\ Finds(i) /\ i # 0 /\ 0 \notin Ids
  BY <1>u, Base
<1>m. PICK l \in {"closeXray", "defer", "ok"} : Goto(i, l) /\ (l = "ok" => ~Starts(i))
  BY DEF ClearXray, CloseXray
<1>p. /\ pc'[i] = l /\ l \in Holding \cup Answered
      /\ \A k \in Ids \ {i} : pc'[k] = pc[k]
  BY <1>b, <1>m DEF Goto, Holding, Answered
<1>s. /\ UNCHANGED <<req, boxes, procs, dns>> /\ slots'.box = slots.box
      /\ \A k \in Ids : xrays'[k] \subseteq xrays[k]
  BY <1>b DEF ClearXray, CloseXray, Slots
<1>t. \A k \in Ids : /\ Left(k)' <=> Left(k)
                     /\ Starts(k)' <=> Starts(k)
                     /\ Boxless(k)' <=> Boxless(k)
  BY <1>s DEF Left, Starts, Boxless
<1>l. \A k \in Ids : LeftSo(k) => LeftSo(k)'
  BY <1>m, <1>p, <1>s, <1>t DEF LeftSo
<1>1. ASSUME NEW k \in Ids PROVE Account(k)'
  <2>1. CASE Undone(k) /\ ClearXray(i)
    <3>1. \A part \in xrays'[k] : <<k, part>> \in taken'
      <4> SUFFICES ASSUME NEW part \in xrays[k] PROVE <<k, part>> \in taken'
        BY <2>1 DEF ClearXray
      <4>1. part \in Parts /\ Held(part) = k
        BY <2>1, <1>u, <1>b DEF ClearXray, InSlots
      <4>2. taken' = {t \in Ids \X Parts : Held(t[2]) = t[1]}
        BY <2>1 DEF ClearXray
      <4>3. <<k, part>> \in Ids \X Parts
        BY <4>1
      <4> QED BY <4>1, <4>2, <4>3
    <3>2. pc'[i] = "closeXray"
      BY <2>1, <1>b DEF ClearXray, Goto
    <3> QED BY <2>1, <3>1, <3>2, <1>u, <1>t, <1>l DEF Account, Undone
  <2>2. CASE Undone(k) /\ CloseXray(i)
    <3>1. xrays'[k] = {}
      BY <2>2, <1>u DEF CloseXray
    <3> QED BY <2>2, <3>1, <1>u, <1>t, <1>l DEF Account, Gone
  <2>3. CASE ~Undone(k) /\ k = i
    BY <2>3, <1>u, <1>s, <1>t, <1>l DEF Account, Gone
  <2>4. CASE ~Undone(k) /\ k # i
    BY <2>4, <1>u, <1>m, <1>p, <1>s, <1>t, Untouched
  <2> QED BY <2>1, <2>2, <2>3, <2>4
<1>2. Finds(i)' /\ BoxTrue'
  <2>1. slots'.box = 0 \/ (slots'.box = i /\ Starts(i)' /\ l # "ok")
    BY <1>b, <1>h, <1>m, <1>s, <1>t DEF Finds
  <2>2. l = "defer" => Starts(i)'
    BY <1>m, <1>p, <1>t, <1>b DEF ClearXray, CloseXray, Goto
  <2> QED BY <2>1, <2>2, <1>p DEF Finds, Building, Closing, BoxTrue
<1>3. DnsTrue'
  BY <1>u, <1>h, <1>m, <1>p, <1>s, DnsStill
<1> QED BY <1>1, <1>2, <1>3, <1>u, <1>m, <1>p, Concluded

\* The client, and the end of an extra process.
LEMMA OutsideLeft ==
  ASSUME IInv, LInv,
         \/ Client \/ UNCHANGED vars
         \/ \E i \in Ids : ExtraEnds(i) \/ ExtraReaped(i)
  PROVE  LInv'
<1>b. /\ pc \in [Ids -> Labels] /\ procs \in [Ids -> Processes] /\ req \in [Ids -> Requests]
      /\ asked \in 0..MaxCalls /\ MaxCalls \in Nat /\ Sent
  BY CoreLifecycleAssumption DEF IInv, TypeOK, Sound, Labels
<1>u. UNCHANGED <<slots, dns, boxes, xrays, taken>>
  BY DEF Client, AskStart, AskStop, Ask, Answer, TimeOut, vars, ExtraEnds, ExtraReaped
<1>n. PICK n :
        /\ n \in Ids => pc[n] = "unsent" /\ pc'[n] = "queued"
        /\ \A k \in Ids \ {n} : pc'[k] = pc[k] /\ req'[k] = req[k]
  <2>1. CASE UNCHANGED <<pc, req>>
    <3>1. 0 \notin Ids
      BY <1>b DEF Ids
    <3> QED BY <2>1, <3>1
  <2>2. ASSUME NEW r, Ask(r)
        PROVE  /\ asked + 1 \in Ids => pc[asked + 1] = "unsent" /\ pc'[asked + 1] = "queued"
               /\ \A k \in Ids \ {asked + 1} : pc'[k] = pc[k] /\ req'[k] = req[k]
    BY <2>2, <1>b DEF Ask, Sent, Ids
  <2>3. CASE AskStart \/ AskStop
    BY <2>2, <2>3 DEF AskStart, AskStop
  <2> QED BY <2>1, <2>3 DEF Client, Answer, TimeOut, vars, ExtraEnds, ExtraReaped
<1>l. \A k \in Ids : Left(k)' => Left(k)
  <2>1. CASE procs' = procs
    BY <2>1 DEF Left
  <2>2. ASSUME NEW i \in Ids, ExtraEnds(i) \/ ExtraReaped(i)
        PROVE  \A k \in Ids : Left(k)' => Left(k)
    <3>1. procs'[i].run \in {"ended", "reaped"} /\ \A k \in Ids \ {i} : procs'[k] = procs[k]
      <4>1. CASE ExtraEnds(i)
        BY <4>1, <1>b DEF ExtraEnds, Processes
      <4>2. CASE ExtraReaped(i)
        BY <4>2, <1>b DEF ExtraReaped, Processes
      <4> QED BY <2>2, <4>1, <4>2
    <3> QED BY <3>1 DEF Left
  <2> QED BY <2>1, <2>2 DEF Client, AskStart, AskStop, Ask, Answer, TimeOut, vars
<1>s. /\ \A k \in Ids \ {n} : (Starts(k)' <=> Starts(k)) /\ (SystemDNS(k)' <=> SystemDNS(k))
      /\ \A k \in Ids : /\ Boxless(k)' <=> Boxless(k)
                        /\ InSlots(k)' <=> InSlots(k)
                        /\ Kept(k) => Kept(k)'
  BY <1>n, <1>u, <1>l DEF Starts, SystemDNS, Boxless, InSlots, Held, Kept
<1>o. \A k \in Ids : LeftSo(k) => LeftSo(k)'
  BY <1>n, <1>s, <1>l DEF LeftSo
<1>1. ASSUME NEW k \in Ids PROVE Account(k)'
  <2>0. Account(k)
    BY DEF LInv
  <2>1. CASE pc[k] = "panicked" /\ Boxless(k)
    BY <2>1, <1>n, <1>s DEF Account
  <2>2. CASE Lost(k)
    <3>1. PICK j \in Ids : j > k /\ Starts(j) /\ pc[j] = "failed"
      BY <2>2 DEF Lost, Disowned
    <3>2. j # n /\ k # n
      BY <2>2, <3>1, <1>n DEF Lost
    <3>3. Disowned(k)'
      BY <2>2, <3>1, <3>2, <1>n, <1>s, <1>u DEF Lost, Disowned
    <3> QED BY <2>2, <3>2, <3>3, <1>n, <1>u DEF Lost, Account
  <2>3. CASE Gone(k)
    BY <2>3, <1>s, <1>o, <1>u DEF Gone, Account
  <2>4. CASE Making(k)
    BY <2>4, <1>n, <1>s, <1>l, <1>u DEF Making, Account
  <2>5. CASE Public(k)
    BY <2>5, <1>n, <1>s, <1>u DEF Public, Account
  <2>6. CASE Undone(k)
    <3>1. PICK j \in Ids :
            \/ pc[j] = "closeBox" /\ boxes[k] = "closing" /\ Kept(k)
            \/ pc[j] = "sidecars" /\ Boxless(k) /\ Kept(k)
            \/ pc[j] = "clearXray" /\ Boxless(k) /\ InSlots(k) /\ LeftSo(k)
            \/ /\ pc[j] = "closeXray" /\ Boxless(k) /\ LeftSo(k)
               /\ \A part \in xrays[k] : <<k, part>> \in taken
      BY <2>6 DEF Undone
    <3>2. pc'[j] = pc[j]
      BY <3>1, <1>n
    <3>3. Undone(k)'
      BY <3>1, <3>2, <1>s, <1>o, <1>u DEF Undone
    <3> QED BY <3>3 DEF Account
  <2> QED BY <2>0, <2>1, <2>2, <2>3, <2>4, <2>5, <2>6 DEF Account
<1>2. ASSUME NEW k \in Ids PROVE Finds(k)'
  <2>1. CASE k = n
    BY <2>1, <1>n DEF Finds, Building, Closing
  <2>2. CASE k # n
    <3>1. pc'[k] = pc[k] /\ (Starts(k)' <=> Starts(k)) /\ Finds(k)
      BY <2>2, <1>n, <1>s DEF LInv
    <3> QED BY <3>1, <1>u DEF Finds
  <2> QED BY <2>1, <2>2
<1>3. BoxTrue'
  <2> SUFFICES ASSUME slots.box # 0, boxes[slots.box] # "live"
               PROVE  pc'[slots.box] \in Closing \cup {"defer"}
    BY <1>u DEF BoxTrue
  <2>1. slots.box \in Ids
    BY DEF IInv, TypeOK, Slots, Ids
  <2>2. pc[slots.box] \in Closing \cup {"defer"}
    BY DEF LInv, BoxTrue
  <2> QED BY <2>1, <2>2, <1>n DEF Closing
<1>4. DnsTrue'
  <2> SUFFICES ASSUME dns = "prepared" PROVE DnsTrue'
    BY <1>u DEF DnsTrue
  <2>1. PICK k \in Ids :
          \/ pc[k] = "panicked"
          \/ Starts(k) /\ SystemDNS(k) /\ pc[k] \in {"create", "publish", "apply", "sidecars"}
    BY DEF LInv, DnsTrue
  <2>2. k # n
    BY <2>1, <1>n
  <2> QED BY <2>1, <2>2, <1>n, <1>s DEF DnsTrue
<1> QED BY <1>1, <1>2, <1>3, <1>4 DEF LInv

\* What Start and Stop leave behind, whatever panics and whatever calls the
\* client gives up, on every platform: every error path of Start undoes what
\* the lines above it did and Stop undoes the rest, but for the boxes that a
\* later Start disowned, the Starts that panicked, and the extra process of the
\* Starts that failed at Xray or at the full gates.
THEOREM NothingStays == Spec => []NothingLeftBehind
<1>1. Init => LInv
  <2> SUFFICES ASSUME Init PROVE LInv
    OBVIOUS
  <2>1. /\ slots.box = 0 /\ dns = "off"
        /\ \A i \in Ids : /\ pc[i] = "unsent" /\ boxes[i] = "none" /\ xrays[i] = {}
                          /\ procs[i].run = "none"
    BY DEF Init
  <2>2. \A i \in Ids : Account(i)
    BY <2>1 DEF Account, Gone, Boxless, LeftSo, Left
  <2>3. \A i \in Ids : Finds(i)
    BY <2>1 DEF Finds, Building, Closing
  <2>4. BoxTrue /\ DnsTrue
    BY <2>1 DEF BoxTrue, DnsTrue
  <2> QED BY <2>2, <2>3, <2>4 DEF LInv
<1>2. IInv /\ LInv /\ [Next]_vars => LInv'
  <2> SUFFICES ASSUME IInv, LInv, [Next]_vars PROVE LInv'
    OBVIOUS
  <2>1. ASSUME NEW i \in Ids, StartStep(i) PROVE LInv'
    BY <2>1, EnterLeft, FirstLeft, BuildLeft, AppliedLeft, DeferLeft DEF StartStep
  <2>2. ASSUME NEW i \in Ids, StopStep(i) PROVE LInv'
    BY <2>2, EnterLeft, UnpublishLeft, CloseBoxLeft, SidecarsLeft, XrayLeft DEF StopStep
  <2> QED BY <2>1, <2>2, OutsideLeft DEF Next
<1>3. LInv => NothingLeftBehind
  <2> SUFFICES ASSUME LInv, AtRest
               PROVE  /\ \A i \in Ids :
                           /\ boxes[i] # "closing"
                           /\ boxes[i] = "live" => slots.box = i \/ Disowned(i)
                           /\ xrays[i] # {} => boxes[i] = "live" \/ pc[i] = "panicked"
                           /\ Left(i) => \/ boxes[i] = "live" \/ pc[i] = "panicked"
                                         \/ LeavesExtra(i)
                      /\ dns = "prepared" => \E i \in Ids : pc[i] = "panicked"
    BY DEF NothingLeftBehind, Left
  <2>1. \A i \in Ids : pc[i] \notin Holding
    BY DEF AtRest
  <2>2. ASSUME NEW i \in Ids
        PROVE  (pc[i] = "panicked" /\ Boxless(i)) \/ Lost(i) \/ Gone(i) \/ Public(i)
    BY <2>1 DEF LInv, Account, Making, Undone, Holding
  <2>3. ASSUME NEW i \in Ids
        PROVE  /\ boxes[i] # "closing"
               /\ boxes[i] = "live" => slots.box = i \/ Disowned(i)
               /\ xrays[i] # {} => boxes[i] = "live" \/ pc[i] = "panicked"
               /\ Left(i) => \/ boxes[i] = "live" \/ pc[i] = "panicked"
                             \/ LeavesExtra(i)
    <3>1. CASE Public(i)
      BY <3>1, <2>1 DEF Public, Holding
    <3>2. CASE Gone(i)
      BY <3>2, <2>1 DEF Gone, Boxless, LeftSo, LeavesExtra, Holding
    <3>3. CASE (pc[i] = "panicked" /\ Boxless(i)) \/ Lost(i)
      BY <3>3 DEF Lost, Boxless
    <3> QED BY <2>2, <3>1, <3>2, <3>3
  <2>4. dns = "prepared" => \E i \in Ids : pc[i] = "panicked"
    BY <2>1 DEF LInv, DnsTrue, Holding
  <2> QED BY <2>3, <2>4
<1> QED BY <1>1, <1>2, <1>3, Invariant, PTL DEF Spec

-----------------------------------------------------------------------------
(* Without panics and given-up Starts. A panic in the box's builder leaves *)
(* whatever there is, and a Start that the client gave up may be followed  *)
(* by one that finds a box and disowns it. Without these, at any time at   *)
(* most one profile has a box, an Xray instance or gate or the system DNS: *)
(* the published one, or the one a call is about.                          *)

\* No box lives or is being closed but that of call o (0: none at all).
Alone(o) == \A j \in Ids \ {o} : boxes[j] \in {"none", "closed"}

\* No Xray instance and no gate runs.
Bare == \A j \in Ids : xrays[j] = {}

\* The mark that test boxes get while the box of call i runs.
MarkOf(i) == IF Marked(i) THEN i ELSE 0

\* The box of call b is the only one, it lives, and the mark is its own.
Runs(b) == Alone(b) /\ boxes[b] = "live" /\ slots.mark = MarkOf(b)

\* Nothing is left of any profile.
Clean == Alone(0) /\ Bare /\ dns = "off" /\ slots.mark = 0

\* What the mutex protects when no call holds it.
Rest == IF slots.box = 0 THEN Clean ELSE Runs(slots.box)

\* The labels closeXray and its callers share.
Undoing == {"sidecars", "clearXray", "closeXray"}

\* What a Start finds at its label.
StartKnows(i) ==
  /\ pc[i] \in {"extra", "xray"} => slots.box = 0 /\ Clean
  /\ pc[i] \in {"full", "dns", "create"} =>
       slots.box = 0 /\ Alone(0) /\ slots.mark = MarkOf(i)
  /\ pc[i] \in {"full", "dns", "clearXray", "closeXray"} => dns = "off"
  /\ pc[i] = "full" => \A j \in Ids : "full" \notin xrays[j]
  /\ pc[i] = "publish" => slots.box = 0 /\ Runs(i)
  /\ pc[i] \in {"apply", "watch"} => slots.box = i /\ Runs(i)
  /\ pc[i] = "closeBox" =>
       slots.box = i /\ Alone(i) /\ boxes[i] = "closing"
  /\ pc[i] \in Undoing => slots.box \in {0, i} /\ Alone(0)
  /\ pc[i] = "defer" => slots.box \in {0, i} /\ Alone(0) /\ Bare /\ dns = "off"
  /\ pc[i] \notin {"release", "unpublish"}

\* What a Stop finds at its label.
StopKnows(i) ==
  /\ pc[i] \in {"release", "unpublish"} => slots.box # 0 /\ Runs(slots.box)
  /\ pc[i] = "closeBox" =>
       slots.box = 0 /\ dns = "off"
       /\ \E o \in Ids : Alone(o) /\ boxes[o] = "closing"
  /\ pc[i] \in Undoing => slots.box = 0 /\ dns = "off" /\ Alone(0)
  /\ pc[i] \in Holding => pc[i] \in {"release", "unpublish", "closeBox"} \cup Undoing

\* What call i knows of what the others left.
Knows(i) == IF Starts(i) THEN StartKnows(i) ELSE StopKnows(i)

\* The client waits for a Start until it is answered.
Awaited ==
  \A i \in Ids : Starts(i) /\ pc[i] \in {"queued"} \cup Holding => client.call = i

\* The published box is of a Start under way, or of one that succeeded and
\* that the client was not yet told of, takes for running or is stopping.
Wanted ==
  LET b == slots.box IN
  b # 0 =>
    /\ Starts(b)
    /\ \/ pc[b] \in Holding
       \/ /\ pc[b] = "ok"
          /\ \/ client.call = b
             \/ client.call = 0 /\ client.running
             \/ \E k \in Ids : ~Starts(k) /\ pc[k] \in {"queued", "release", "unpublish"}

\* The inductive invariant when no Start is given up and nothing panics.
KInv ==
  /\ XrayOwned
  /\ Awaited
  /\ Wanted
  /\ \A i \in Ids : Knows(i)
  /\ (\A i \in Ids : pc[i] \notin Holding) => Rest

\* A step of call i preserves KInv when i knows what it should at its next label
\* and, when it leaves the mutex, what it protects is as a call may find it.
LEMMA Carried ==
  ASSUME IInv, KInv, NEW i \in Ids, NEW l \in Holding \cup Answered,
         pc[i] \in Holding \/ MayEnter(i),
         Goto(i, l), UNCHANGED <<client, asked, req>>,
         XrayOwned', Knows(i)', l \in Answered => Rest',
         \/ slots'.box = 0
         \/ slots'.box = i /\ Starts(i) /\ l \in Holding \cup {"ok"}
         \/ slots'.box = slots.box /\ ~Starts(i) /\ l \in {"release", "unpublish"}
  PROVE  KInv'
<1>m. /\ pc' \in [Ids -> Labels]
      /\ \A j \in Ids \ {i} : pc'[j] = pc[j] /\ pc[j] \notin Holding
  BY Moved DEF IInv, Sound
<1>p. pc'[i] = l
  BY DEF Goto, IInv, TypeOK
<1>b. pc[i] \in {"queued"} \cup Holding
  BY DEF MayEnter
<1>d. Holding \cap Answered = {} /\ "ok" \in Answered /\ "queued" \notin Holding \cup Answered
  BY DEF Holding, Answered
<1>s. \A j \in Ids : Starts(j)' <=> Starts(j)
  BY DEF Starts
<1>1. Awaited'
  BY <1>m, <1>p, <1>b, <1>s DEF Awaited, KInv
<1>2. Wanted'
  <2>1. CASE slots'.box = 0
    BY <2>1 DEF Wanted
  <2>2. CASE slots'.box = i /\ Starts(i) /\ l \in Holding \cup {"ok"}
    <3>1. client.call = i
      BY <2>2, <1>b DEF KInv, Awaited
    <3> QED BY <2>2, <3>1, <1>p, <1>s DEF Wanted
  <2>3. CASE /\ slots'.box = slots.box /\ slots.box # 0 /\ ~Starts(i)
             /\ l \in {"release", "unpublish"}
    <3>1. slots.box \in Ids
      BY <2>3 DEF IInv, TypeOK, Slots, Ids
    <3>2. Starts(slots.box) /\ pc[slots.box] \in Holding \cup {"ok"} /\ slots.box # i
      BY <2>3 DEF KInv, Wanted
    <3>3. pc'[slots.box] = "ok"
      BY <3>1, <3>2, <1>m
    <3> QED BY <2>3, <3>1, <3>2, <3>3, <1>p, <1>s DEF Wanted
  <2> QED BY <2>1, <2>2, <2>3
<1>3. ASSUME NEW j \in Ids PROVE Knows(j)'
  <2>1. CASE j # i
    <3>1. pc'[j] \notin Holding
      BY <2>1, <1>m
    <3> QED BY <3>1 DEF Knows, StartKnows, StopKnows, Undoing, Holding
  <2> QED BY <2>1
<1>4. (\A j \in Ids : pc'[j] \notin Holding) => Rest'
  BY <1>p, <1>d
<1> QED BY <1>1, <1>2, <1>3, <1>4 DEF KInv

\* What is used of both invariants in every case below.
LEMMA Found ==
  ASSUME IInv, KInv, NEW i \in Ids
  PROVE  /\ slots \in Slots /\ dns \in {"off", "prepared", "applied"}
         /\ boxes \in [Ids -> {"none", "live", "closing", "closed"}]
         /\ xrays \in [Ids -> SUBSET Parts] /\ taken \in SUBSET (Ids \X Parts)
         /\ pc \in [Ids -> Labels] /\ i # 0 /\ 0 \notin Ids
         /\ Knows(i) /\ XrayOwned
         /\ pc[i] \in Holding \ {"closeXray"} => taken = {}
         /\ pc[i] = "closeXray" => slots.instance = 0 /\ slots.gate = 0 /\ slots.full = 0
<1>1. ASSUME pc[i] \in Holding \ {"closeXray"}, taken # {} PROVE FALSE
  <2>1. PICK k \in Ids : pc[k] = "closeXray"
    BY <1>1 DEF IInv, TypeOK
  <2>2. i < k \/ k < i
    BY <1>1, <2>1, CoreLifecycleAssumption DEF Ids
  <2> QED BY <1>1, <2>1, <2>2 DEF IInv, Sound, Ordered, Holding, Answered
<1> QED BY <1>1 DEF IInv, TypeOK, Sound, Local, KInv, Labels, Ids

\* What the invariant says of the core reads these parts of the state only.
LEMMA Alike ==
  ASSUME slots'.box = slots.box, slots'.mark = slots.mark,
         UNCHANGED <<req, dns, boxes, xrays>>
  PROVE  /\ \A o : Alone(o)' <=> Alone(o)
         /\ \A o : MarkOf(o)' = MarkOf(o)
         /\ \A o : Runs(o)' <=> Runs(o)
         /\ Bare' <=> Bare
         /\ Clean' <=> Clean
         /\ Rest' <=> Rest
         /\ \A o : Starts(o)' <=> Starts(o)
BY DEF Alone, MarkOf, Marked, Runs, Bare, Clean, Rest, Starts

\* Parts of Xray that run stay owned while their slots stay.
LEMMA StillOwned ==
  ASSUME XrayOwned, UNCHANGED <<xrays, taken>>, slots'.instance = slots.instance,
         slots'.gate = slots.gate, slots'.full = slots.full
  PROVE  XrayOwned'
BY DEF XrayOwned, Held

\* A call that comes in finds what the mutex protects; a Start finds no box.
LEMMA Entered ==
  ASSUME IInv, KInv, NEW i \in Ids, MayEnter(i)
  PROVE  Rest /\ (Starts(i) => slots.box = 0)
<1>1. \A j \in Ids : pc[j] \notin Holding
  BY DEF MayEnter
<1>2. Rest
  BY <1>1 DEF KInv
<1>3. ASSUME Starts(i), slots.box # 0 PROVE FALSE
  <2>1. slots.box \in Ids /\ asked \in 0..MaxCalls /\ MaxCalls \in Nat
    BY <1>3, CoreLifecycleAssumption DEF IInv, TypeOK, Slots, Ids
  <2>2. pc[i] = "queued" /\ client.call = i /\ i = asked
    BY <1>3 DEF MayEnter, KInv, Awaited, IInv, Sound, Believes, Ids
  <2>3. pc[slots.box] = "ok" /\ slots.box # i
    BY <1>1, <1>3, <2>1, <2>2 DEF KInv, Wanted
  <2>4. PICK k \in Ids : ~Starts(k) /\ pc[k] \in {"queued", "release", "unpublish"}
    BY <1>3, <2>1, <2>2, <2>3, <1>1 DEF KInv, Wanted, Ids
  <2>5. pc[k] = "queued" /\ k # i
    BY <2>4, <1>1, <1>3 DEF Holding
  <2>6. k < i \/ i < k
    BY <2>5, <2>1 DEF Ids
  <2>7. ~(k < i)
    BY <2>5 DEF MayEnter
  <2>8. pc[k] = "unsent"
    BY <2>6, <2>7, <2>2 DEF IInv, Sound, Sent
  <2> QED BY <2>8, <2>5
<1> QED BY <1>2, <1>3

\* The steps that change nothing that KInv reads but the label.
LEMMA MovesKnow ==
  ASSUME IInv, KInv, NEW i \in Ids,
         \/ EnterStart(i) \/ EnterStop(i) \/ SkipExtra(i) \/ ExtraRefused(i)
         \/ StartExtra(i) \/ SkipFull(i) \/ FullGatesFail(i) \/ CreateFails(i)
  PROVE  KInv'
<1>f. /\ slots \in Slots /\ pc \in [Ids -> Labels] /\ i # 0
      /\ Knows(i) /\ XrayOwned
  BY Found
<1>s. /\ slots'.box = slots.box /\ slots'.mark = slots.mark
      /\ slots'.instance = slots.instance /\ slots'.gate = slots.gate
      /\ slots'.full = slots.full
      /\ UNCHANGED <<client, asked, req, dns, boxes, xrays, taken>>
  BY <1>f DEF EnterStart, EnterStop, SkipExtra, ExtraRefused, StartExtra, SkipFull,
              FullGatesFail, CreateFails, Slots
<1>a. /\ \A o : Alone(o)' <=> Alone(o)
      /\ \A o : MarkOf(o)' = MarkOf(o)
      /\ \A o : Runs(o)' <=> Runs(o)
      /\ Bare' <=> Bare
      /\ Clean' <=> Clean
      /\ Rest' <=> Rest
      /\ \A o : Starts(o)' <=> Starts(o)
  BY <1>s, Alike
<1>x. XrayOwned'
  BY <1>f, <1>s, StillOwned
<1>1. CASE EnterStart(i)
  <2>1. Rest /\ slots.box = 0 /\ Starts(i)
    BY <1>1, Entered DEF EnterStart
  <2>2. Goto(i, "extra") /\ pc'[i] = "extra" /\ "extra" \in Holding
    BY <1>1, <2>1, <1>f DEF EnterStart, Goto, Holding
  <2>3. Knows(i)'
    BY <2>1, <2>2, <1>s, <1>a DEF Knows, StartKnows, Undoing, Rest
  <2> QED BY <1>1, <2>1, <2>2, <2>3, <1>s, <1>x, Carried DEF EnterStart, Holding, Answered
<1>2. CASE EnterStop(i)
  <2>1. Rest /\ ~Starts(i) /\ MayEnter(i)
    BY <1>2, Entered DEF EnterStop
  <2>2. CASE slots.box = 0
    <3>1. Goto(i, "ok") /\ pc'[i] = "ok" /\ "ok" \in Answered
      BY <1>2, <2>2, <1>f DEF EnterStop, Goto, Answered
    <3>2. Knows(i)'
      BY <3>1, <1>a, <2>1 DEF Knows, StopKnows, Undoing, Holding
    <3> QED BY <2>1, <2>2, <3>1, <3>2, <1>a, <1>s, <1>x, Carried
  <2>3. CASE slots.box # 0
    <3>1. Goto(i, "release") /\ pc'[i] = "release" /\ "release" \in Holding \ Answered
      BY <1>2, <2>3, <1>f DEF EnterStop, Goto, Answered, Holding
    <3>2. Knows(i)'
      BY <3>1, <2>1, <2>3, <1>a, <1>s DEF Knows, StopKnows, Undoing, Rest
    <3> QED BY <2>1, <2>3, <3>1, <3>2, <1>a, <1>s, <1>x, Carried
  <2> QED BY <2>2, <2>3
<1>3. ASSUME NEW l, Goto(i, l), Starts(i), slots.box = 0, pc[i] \in Holding,
             l \in Holding \ Answered,
             \/ pc[i] = "extra" /\ l \in {"xray", "defer"}
             \/ pc[i] = "full" /\ l \in {"dns", "clearXray"}
             \/ pc[i] = "create" /\ l = "sidecars"
      PROVE  KInv'
  <2>1. pc'[i] = l
    BY <1>3, <1>f DEF Goto
  <2>2. Knows(i)'
    BY <1>3, <2>1, <1>f, <1>a, <1>s DEF Knows, StartKnows, Undoing, Clean
  <2> QED BY <1>3, <2>2, <1>s, <1>x, Carried
<1>4. ASSUME pc[i] \in {"extra", "full", "create"} PROVE Starts(i) /\ slots.box = 0
  BY <1>4, <1>f DEF Knows, StartKnows, StopKnows, Undoing, Holding
<1>5. CASE SkipExtra(i) \/ ExtraRefused(i) \/ StartExtra(i)
  <2>1. PICK l \in {"xray", "defer"} : Goto(i, l)
    BY <1>5 DEF SkipExtra, ExtraRefused, StartExtra
  <2> QED BY <1>3, <1>4, <1>5, <2>1
          DEF SkipExtra, ExtraRefused, StartExtra, Holding, Answered
<1>6. CASE SkipFull(i) \/ FullGatesFail(i)
  <2>1. PICK l \in {"dns", "clearXray"} : Goto(i, l)
    BY <1>6 DEF SkipFull, FullGatesFail
  <2> QED BY <1>3, <1>4, <1>6, <2>1 DEF SkipFull, FullGatesFail, Holding, Answered
<1>7. CASE CreateFails(i)
  BY <1>3, <1>4, <1>7 DEF CreateFails, Holding, Answered
<1> QED BY <1>1, <1>2, <1>5, <1>6, <1>7

\* Where a label tells a Start from a Stop, and what it finds there.
LEMMA Labelled ==
  ASSUME NEW i, Knows(i),
         pc[i] \in {"xray", "full", "dns", "create", "publish", "apply", "watch", "defer"}
  PROVE  Starts(i) /\ StartKnows(i)
BY DEF Knows, StopKnows, Undoing, Holding

\* The Xray part of Start: its slots are written over while nothing runs.
LEMMA XrayKnows ==
  ASSUME IInv, KInv, NEW i \in Ids,
         SkipXray(i) \/ XrayFails(i) \/ StartGate(i) \/ StartInstance(i)
  PROVE  KInv'
<1>f. /\ slots \in Slots /\ pc \in [Ids -> Labels] /\ i # 0 /\ 0 \notin Ids
      /\ xrays \in [Ids -> SUBSET Parts]
      /\ Knows(i) /\ XrayOwned /\ pc[i] = "xray"
  BY Found DEF SkipXray, XrayFails, StartGate, StartInstance
<1>k. Starts(i) /\ slots.box = 0 /\ Alone(0) /\ Bare /\ dns = "off"
  BY <1>f, Labelled DEF StartKnows, Clean
<1>s. /\ slots'.box = 0 /\ slots'.mark = MarkOf(i)
      /\ UNCHANGED <<client, asked, req, dns, boxes, taken>>
  BY <1>f, <1>k DEF SkipXray, XrayFails, StartGate, StartInstance, WithMark, MarkOf, Slots
<1>a. Alone(0)' /\ MarkOf(i)' = MarkOf(i) /\ Starts(i)' /\ dns' = "off"
  BY <1>k, <1>s DEF Alone, MarkOf, Marked, Starts
<1>m. PICK l \in {"full", "defer"} : Goto(i, l) /\ (l = "defer" => xrays' = xrays)
  BY DEF SkipXray, XrayFails, StartGate, StartInstance
<1>p. pc'[i] = l /\ l \in Holding \ Answered /\ pc[i] \in Holding
  BY <1>f, <1>m DEF Goto, Holding, Answered
<1>x. XrayOwned' /\ \A j \in Ids : "full" \notin xrays'[j]
  <2>1. CASE SkipXray(i) \/ XrayFails(i)
    <3>1. xrays' = xrays
      BY <2>1 DEF SkipXray, XrayFails
    <3> QED BY <3>1, <1>k DEF XrayOwned, Bare
  <2>2. CASE StartGate(i)
    <3>1. slots'.gate = i /\ \A j \in Ids : xrays'[j] \subseteq (IF j = i THEN {"gate"} ELSE {})
      BY <2>2, <1>f, <1>k DEF StartGate, WithMark, Bare, Slots
    <3> QED BY <3>1 DEF XrayOwned, Held
  <2>3. CASE StartInstance(i)
    <3>1. /\ slots'.instance = i
          /\ \A j \in Ids : xrays'[j] \subseteq (IF j = i THEN {"instance"} ELSE {})
      BY <2>3, <1>f, <1>k DEF StartInstance, WithMark, Bare, Slots
    <3> QED BY <3>1 DEF XrayOwned, Held
  <2> QED BY <2>1, <2>2, <2>3
<1>b. l = "defer" => Bare'
  BY <1>k, <1>m DEF Bare
<1>n. Knows(i)'
  BY <1>p, <1>a, <1>s, <1>x, <1>b, <1>m DEF Knows, StartKnows, Undoing
<1> QED BY <1>m, <1>p, <1>s, <1>x, <1>n, Carried

\* The full gates join what call i opened before.
LEMMA FullKnows ==
  ASSUME IInv, KInv, NEW i \in Ids, StartFullGates(i)
  PROVE  KInv'
<1>f. /\ slots \in Slots /\ pc \in [Ids -> Labels] /\ i # 0 /\ 0 \notin Ids
      /\ xrays \in [Ids -> SUBSET Parts]
      /\ Knows(i) /\ XrayOwned /\ pc[i] = "full" /\ taken = {}
  BY Found DEF StartFullGates, Holding
<1>k. /\ Starts(i) /\ slots.box = 0 /\ Alone(0) /\ dns = "off" /\ slots.mark = MarkOf(i)
      /\ \A j \in Ids : "full" \notin xrays[j]
  BY <1>f, Labelled DEF StartKnows
<1>s. /\ slots'.box = 0 /\ slots'.mark = slots.mark
      /\ slots'.instance = slots.instance /\ slots'.gate = slots.gate /\ slots'.full = i
      /\ UNCHANGED <<client, asked, req, dns, boxes, taken>>
      /\ Goto(i, "dns") /\ pc'[i] = "dns" /\ pc[i] \in Holding /\ "dns" \in Holding \ Answered
  BY <1>f, <1>k DEF StartFullGates, Slots, Goto, Holding, Answered
<1>a. Alone(0)' /\ MarkOf(i)' = MarkOf(i) /\ Starts(i)'
  BY <1>k, <1>s DEF Alone, MarkOf, Marked, Starts
<1>x. XrayOwned'
  <2> SUFFICES ASSUME NEW j \in Ids, NEW part \in xrays'[j]
               PROVE  Held(part)' = j \/ <<j, part>> \in taken'
    BY DEF XrayOwned
  <2>1. part \in Parts /\ (part \in xrays[j] \/ (j = i /\ part = "full"))
    BY <1>f DEF StartFullGates, Parts
  <2>2. CASE part = "full"
    BY <2>1, <2>2, <1>k, <1>s DEF Held
  <2>3. CASE part # "full"
    <3>1. Held(part)' = Held(part)
      BY <2>1, <2>3, <1>s DEF Held, Parts
    <3> QED BY <3>1, <2>1, <2>3, <1>f DEF XrayOwned
  <2> QED BY <2>2, <2>3
<1>n. Knows(i)'
  BY <1>s, <1>a, <1>k DEF Knows, StartKnows, Undoing
<1> QED BY <1>s, <1>x, <1>n, Carried

\* From the system DNS to the answer of a Start that succeeds, and the failure
\* of ApplyDNS: the box of call i is the only one.
LEMMA BoxKnows ==
  ASSUME IInv, KInv, NEW i \in Ids,
         PrepareDNS(i) \/ CreateBox(i) \/ Publish(i) \/ ApplyDNS(i) \/ ApplyFails(i)
         \/ WatchEgress(i)
  PROVE  KInv'
<1>f. /\ slots \in Slots /\ pc \in [Ids -> Labels] /\ i # 0 /\ 0 \notin Ids
      /\ boxes \in [Ids -> {"none", "live", "closing", "closed"}]
      /\ Knows(i) /\ XrayOwned
  BY Found
<1>k. Starts(i) /\ StartKnows(i) /\ pc[i] \in Holding
  BY <1>f, Labelled DEF PrepareDNS, CreateBox, Publish, ApplyDNS, ApplyFails, WatchEgress,
                        Holding
<1>s. /\ slots'.mark = slots.mark /\ slots'.instance = slots.instance
      /\ slots'.gate = slots.gate /\ slots'.full = slots.full
      /\ UNCHANGED <<client, asked, req, xrays, taken>>
  BY <1>f DEF PrepareDNS, CreateBox, Publish, ApplyDNS, ApplyFails, WatchEgress, Slots
<1>x. XrayOwned'
  BY <1>f, <1>s, StillOwned
<1>a. MarkOf(i)' = MarkOf(i) /\ Starts(i)'
  BY <1>k, <1>s DEF MarkOf, Marked, Starts
<1>1. CASE PrepareDNS(i)
  <2>1. /\ pc[i] = "dns" /\ slots.box = 0 /\ Alone(0) /\ slots.mark = MarkOf(i)
        /\ UNCHANGED <<slots, boxes>>
    BY <1>1, <1>k DEF PrepareDNS, StartKnows
  <2>2. Alone(0)'
    BY <2>1 DEF Alone
  <2>3. PICK l \in {"create", "sidecars"} : Goto(i, l)
    BY <1>1 DEF PrepareDNS
  <2>4. pc'[i] = l /\ l \in Holding \ Answered
    BY <2>3, <1>f DEF Goto, Holding, Answered
  <2>5. Knows(i)'
    BY <2>1, <2>2, <2>4, <1>a DEF Knows, StartKnows, Undoing
  <2> QED BY <2>1, <2>3, <2>4, <2>5, <1>k, <1>s, <1>x, Carried
<1>2. CASE CreateBox(i)
  <2>1. pc[i] = "create" /\ slots.box = 0 /\ Alone(0) /\ slots.mark = MarkOf(i)
    BY <1>2, <1>k DEF CreateBox, StartKnows
  <2>2. /\ Goto(i, "publish") /\ pc'[i] = "publish" /\ "publish" \in Holding \ Answered
        /\ slots' = slots /\ boxes'[i] = "live" /\ \A j \in Ids \ {i} : boxes'[j] = boxes[j]
    BY <1>2, <1>f DEF CreateBox, Goto, Holding, Answered
  <2>3. Runs(i)'
    BY <2>1, <2>2, <1>a, <1>f DEF Runs, Alone
  <2>5. Knows(i)'
    BY <2>1, <2>2, <2>3, <1>a DEF Knows, StartKnows, Undoing
  <2> QED BY <2>1, <2>2, <2>5, <1>k, <1>s, <1>x, Carried
<1>3. CASE Publish(i)
  <2>1. pc[i] = "publish" /\ Runs(i)
    BY <1>3, <1>k DEF Publish, StartKnows
  <2>2. /\ Goto(i, "apply") /\ pc'[i] = "apply" /\ "apply" \in Holding \ Answered
        /\ slots'.box = i /\ boxes' = boxes
    BY <1>3, <1>f DEF Publish, Goto, Holding, Answered, Slots
  <2>3. Runs(i)'
    BY <2>1, <2>2, <1>a, <1>s DEF Runs, Alone
  <2>5. Knows(i)'
    BY <2>1, <2>2, <2>3, <1>a DEF Knows, StartKnows, Undoing
  <2> QED BY <2>1, <2>2, <2>5, <1>k, <1>s, <1>x, Carried
<1>4. CASE ApplyDNS(i)
  <2>1. pc[i] = "apply" /\ Runs(i) /\ slots.box = i
    BY <1>4, <1>k DEF ApplyDNS, StartKnows
  <2>2. /\ Goto(i, "watch") /\ pc'[i] = "watch" /\ "watch" \in Holding \ Answered
        /\ slots' = slots /\ boxes' = boxes
    BY <1>4, <1>f DEF ApplyDNS, Goto, Holding, Answered
  <2>3. Runs(i)'
    BY <2>1, <2>2, <1>a DEF Runs, Alone
  <2>5. Knows(i)'
    BY <2>1, <2>2, <2>3, <1>a DEF Knows, StartKnows, Undoing
  <2> QED BY <2>1, <2>2, <2>5, <1>k, <1>s, <1>x, Carried
<1>5. CASE ApplyFails(i)
  <2>1. pc[i] = "apply" /\ Runs(i) /\ slots.box = i
    BY <1>5, <1>k DEF ApplyFails, StartKnows
  <2>2. /\ Goto(i, "closeBox") /\ pc'[i] = "closeBox" /\ "closeBox" \in Holding \ Answered
        /\ slots' = slots /\ boxes'[i] = "closing"
        /\ \A j \in Ids \ {i} : boxes'[j] = boxes[j]
    BY <1>5, <1>f DEF ApplyFails, Goto, Holding, Answered
  <2>3. Alone(i)'
    BY <2>1, <2>2 DEF Runs, Alone
  <2>5. Knows(i)'
    BY <2>1, <2>2, <2>3, <1>a DEF Knows, StartKnows, Undoing
  <2> QED BY <2>1, <2>2, <2>5, <1>k, <1>s, <1>x, Carried
<1>6. CASE WatchEgress(i)
  <2>1. pc[i] = "watch" /\ Runs(i) /\ slots.box = i
    BY <1>6, <1>k DEF WatchEgress, StartKnows
  <2>2. /\ Goto(i, "ok") /\ pc'[i] = "ok" /\ "ok" \in Answered
        /\ slots'.box = i /\ boxes' = boxes
    BY <1>6, <2>1, <1>f DEF WatchEgress, Goto, Answered, Slots
  <2>3. Runs(i)'
    BY <2>1, <2>2, <1>a, <1>s DEF Runs, Alone
  <2>4. Rest'
    BY <2>2, <2>3, <1>f DEF Rest
  <2>5. Knows(i)'
    BY <2>2, <1>a DEF Knows, StartKnows, Undoing
  <2> QED BY <2>1, <2>2, <2>4, <2>5, <1>k, <1>s, <1>x, Carried
<1> QED BY <1>1, <1>2, <1>3, <1>4, <1>5, <1>6

\* The deferred function of a Start that failed leaves nothing.
LEMMA DeferKnows ==
  ASSUME IInv, KInv, NEW i \in Ids, Defer(i)
  PROVE  KInv'
<1>f. /\ slots \in Slots /\ pc \in [Ids -> Labels] /\ i # 0
      /\ Knows(i) /\ XrayOwned /\ pc[i] = "defer"
  BY Found DEF Defer
<1>k. Starts(i) /\ Alone(0) /\ Bare /\ dns = "off"
  BY <1>f, Labelled DEF StartKnows
<1>s. /\ slots'.box = 0 /\ slots'.mark = 0 /\ slots'.instance = slots.instance
      /\ slots'.gate = slots.gate /\ slots'.full = slots.full
      /\ UNCHANGED <<client, asked, req, dns, boxes, xrays, taken>>
      /\ Goto(i, "failed") /\ pc'[i] = "failed" /\ "failed" \in Answered /\ pc[i] \in Holding
  BY <1>f DEF Defer, Slots, Goto, Answered, Holding
<1>x. XrayOwned'
  BY <1>f, <1>s, StillOwned
<1>r. Rest'
  BY <1>k, <1>s DEF Rest, Clean, Alone, Bare
<1>n. Knows(i)'
  BY <1>s DEF Knows, StartKnows, StopKnows, Undoing, Holding
<1> QED BY <1>s, <1>x, <1>r, <1>n, Carried

\* Stop up to the point where its box is closed.
LEMMA UnpublishKnows ==
  ASSUME IInv, KInv, NEW i \in Ids, Release(i) \/ Unpublish(i)
  PROVE  KInv'
<1>f. /\ slots \in Slots /\ pc \in [Ids -> Labels] /\ i # 0 /\ 0 \notin Ids
      /\ boxes \in [Ids -> {"none", "live", "closing", "closed"}]
      /\ Knows(i) /\ XrayOwned /\ pc[i] \in {"release", "unpublish"}
  BY Found DEF Release, Unpublish
<1>k. ~Starts(i) /\ slots.box # 0 /\ Runs(slots.box)
  BY <1>f DEF Knows, StartKnows, StopKnows
<1>b. slots.box \in Ids
  BY <1>f, <1>k DEF Slots, Ids
<1>s. /\ slots'.mark = slots.mark /\ slots'.instance = slots.instance
      /\ slots'.gate = slots.gate /\ slots'.full = slots.full
      /\ UNCHANGED <<client, asked, req, xrays, taken>>
      /\ pc[i] \in Holding
  BY <1>f DEF Release, Unpublish, Slots, Holding
<1>x. XrayOwned'
  BY <1>f, <1>s, StillOwned
<1>a. (\A o : MarkOf(o)' = MarkOf(o)) /\ ~Starts(i)'
  BY <1>k, <1>s DEF MarkOf, Marked, Starts
<1>1. CASE Release(i)
  <2>1. /\ Goto(i, "unpublish") /\ pc'[i] = "unpublish" /\ "unpublish" \in Holding \ Answered
        /\ slots'.box = slots.box /\ boxes' = boxes
    BY <1>1, <1>f DEF Release, Goto, Holding, Answered, Slots
  <2>2. Runs(slots.box)'
    BY <2>1, <1>k, <1>a, <1>s DEF Runs, Alone
  <2>3. Knows(i)'
    BY <2>1, <2>2, <1>k, <1>a DEF Knows, StopKnows, Undoing
  <2> QED BY <2>1, <2>3, <1>k, <1>s, <1>x, Carried
<1>2. CASE Unpublish(i)
  <2>1. /\ Goto(i, "closeBox") /\ pc'[i] = "closeBox" /\ "closeBox" \in Holding \ Answered
        /\ slots'.box = 0 /\ dns' = dns
        /\ boxes'[slots.box] = "closing"
        /\ \A j \in Ids \ {slots.box} : boxes'[j] = boxes[j]
    BY <1>2, <1>f, <1>b DEF Unpublish, Goto, Holding, Answered, Slots
  <2>2. dns = "off"
    BY <1>2 DEF Unpublish, IInv, Sound, Local
  <2>3. \E o \in Ids : Alone(o)' /\ boxes'[o] = "closing"
    <3>1. \A j \in Ids \ {slots.box} : boxes'[j] \in {"none", "closed"}
      BY <2>1, <1>k DEF Runs, Alone
    <3> QED BY <3>1, <2>1, <1>b DEF Alone
  <2>4. Knows(i)'
    BY <2>1, <2>2, <2>3, <1>a DEF Knows, StopKnows, Undoing
  <2> QED BY <2>1, <2>4, <1>k, <1>s, <1>x, Carried
<1> QED BY <1>1, <1>2

\* What a Stop and a Start that fails late share: the box is closed.
LEMMA CloseBoxKnows ==
  ASSUME IInv, KInv, NEW i \in Ids, CloseBox(i)
  PROVE  KInv'
<1>f. /\ slots \in Slots /\ pc \in [Ids -> Labels] /\ i # 0 /\ 0 \notin Ids
      /\ boxes \in [Ids -> {"none", "live", "closing", "closed"}]
      /\ Knows(i) /\ XrayOwned /\ pc[i] = "closeBox"
  BY Found DEF CloseBox
<1>o. PICK o \in Ids : Alone(o) /\ boxes[o] = "closing"
  BY <1>f DEF Knows, StartKnows, StopKnows
<1>b. PICK b \in Ids : boxes[b] = "closing" /\ boxes' = [boxes EXCEPT ![b] = "closed"]
  BY DEF CloseBox
<1>e. b = o
  BY <1>o, <1>b DEF Alone
<1>a. Alone(0)'
  <2>1. \A j \in Ids : boxes'[j] \in {"none", "closed"}
    BY <1>o, <1>b, <1>e, <1>f DEF Alone
  <2> QED BY <2>1 DEF Alone
<1>s. /\ UNCHANGED <<client, asked, req, slots, dns, xrays, taken>>
      /\ Goto(i, "sidecars") /\ pc'[i] = "sidecars" /\ "sidecars" \in Holding \ Answered
      /\ pc[i] \in Holding
  BY <1>f DEF CloseBox, Goto, Holding, Answered
<1>x. XrayOwned'
  BY <1>f, <1>s, StillOwned
<1>k. IF Starts(i) THEN slots.box = i ELSE slots.box = 0 /\ dns = "off"
  BY <1>f DEF Knows, StartKnows, StopKnows
<1>n. Knows(i)'
  <2>1. Starts(i)' <=> Starts(i)
    BY <1>s DEF Starts
  <2> QED BY <2>1, <1>s, <1>a, <1>k DEF Knows, StartKnows, StopKnows, Undoing
<1> QED BY <1>s, <1>x, <1>n, <1>k, Carried

\* Then the side cars, and closeXray: what ran was in its slot.
LEMMA UndoKnows ==
  ASSUME IInv, KInv, NEW i \in Ids, StopSidecars(i) \/ ClearXray(i) \/ CloseXray(i)
  PROVE  KInv'
<1>f. /\ slots \in Slots /\ pc \in [Ids -> Labels] /\ i # 0 /\ 0 \notin Ids
      /\ xrays \in [Ids -> SUBSET Parts] /\ taken \in SUBSET (Ids \X Parts)
      /\ Knows(i) /\ XrayOwned
      /\ pc[i] \in Holding \ {"closeXray"} => taken = {}
      /\ pc[i] = "closeXray" => slots.instance = 0 /\ slots.gate = 0 /\ slots.full = 0
  BY Found
<1>u. pc[i] \in Undoing /\ pc[i] \in Holding
  BY DEF StopSidecars, ClearXray, CloseXray, Undoing, Holding
<1>k. /\ Alone(0) /\ slots.box \in {0, i}
      /\ ~Starts(i) => slots.box = 0 /\ dns = "off"
      /\ pc[i] \in {"clearXray", "closeXray"} => dns = "off"
  BY <1>f, <1>u DEF Knows, StartKnows, StopKnows, Undoing
<1>s. /\ slots'.box = slots.box
      /\ UNCHANGED <<client, asked, req, boxes>>
      /\ dns' \in {dns, "off"}
  BY <1>f DEF StopSidecars, ClearXray, CloseXray, Slots
<1>a. Alone(0)' /\ (Starts(i)' <=> Starts(i))
  BY <1>k, <1>s DEF Alone, Starts
<1>1. CASE StopSidecars(i)
  <2>1. /\ Goto(i, "clearXray") /\ pc'[i] = "clearXray" /\ "clearXray" \in Holding \ Answered
        /\ slots'.instance = slots.instance /\ slots'.gate = slots.gate
        /\ slots'.full = slots.full /\ UNCHANGED <<xrays, taken>>
        /\ dns' = IF Starts(i) THEN "off" ELSE dns
    BY <1>1, <1>f DEF StopSidecars, Goto, Holding, Answered, Slots
  <2>2. XrayOwned'
    BY <2>1, <1>f, StillOwned
  <2>3. Knows(i)'
    BY <2>1, <1>k, <1>s, <1>a DEF Knows, StartKnows, StopKnows, Undoing
  <2> QED BY <2>1, <2>2, <2>3, <1>s, <1>k, <1>u, Carried
<1>2. CASE ClearXray(i)
  <2>1. /\ Goto(i, "closeXray") /\ pc'[i] = "closeXray" /\ "closeXray" \in Holding \ Answered
        /\ xrays' = xrays /\ taken = {} /\ dns' = dns
        /\ pc[i] = "clearXray"
    BY <1>2, <1>f, <1>u DEF ClearXray, Goto, Holding, Answered
  <2>2. XrayOwned'
    <3> SUFFICES ASSUME NEW j \in Ids, NEW part \in xrays[j]
                 PROVE  <<j, part>> \in taken'
      BY <2>1 DEF XrayOwned
    <3>1. part \in Parts /\ Held(part) = j
      BY <2>1, <1>f DEF XrayOwned
    <3>2. taken' = {t \in Ids \X Parts : Held(t[2]) = t[1]}
      BY <1>2 DEF ClearXray
    <3>3. <<j, part>> \in Ids \X Parts
      BY <3>1
    <3> QED BY <3>1, <3>2, <3>3
  <2>3. Knows(i)'
    BY <2>1, <1>k, <1>s, <1>a DEF Knows, StartKnows, StopKnows, Undoing
  <2> QED BY <2>1, <2>2, <2>3, <1>s, <1>k, <1>u, Carried
<1>3. CASE CloseXray(i)
  <2>1. /\ pc[i] = "closeXray" /\ dns' = "off"
        /\ slots.instance = 0 /\ slots.gate = 0 /\ slots.full = 0
    BY <1>3, <1>f, <1>k DEF CloseXray
  <2>2. Bare'
    <3> SUFFICES ASSUME NEW j \in Ids, NEW part \in xrays'[j] PROVE FALSE
      BY DEF Bare
    <3>1. part \in xrays[j] /\ <<j, part>> \notin taken
      BY <1>3 DEF CloseXray
    <3>2. part \in Parts /\ Held(part) = j
      BY <3>1, <1>f DEF XrayOwned
    <3>3. Held(part) = 0
      BY <3>2, <2>1 DEF Held, Parts
    <3> QED BY <3>2, <3>3, <1>f
  <2>3. XrayOwned'
    BY <2>2 DEF XrayOwned, Bare
  <2>4. CASE Starts(i)
    <3>1. Goto(i, "defer") /\ pc'[i] = "defer" /\ "defer" \in Holding \ Answered
      BY <1>3, <2>4, <1>f DEF CloseXray, Goto, Holding, Answered
    <3>2. Knows(i)'
      BY <3>1, <2>4, <2>1, <2>2, <1>k, <1>s, <1>a DEF Knows, StartKnows, Undoing
    <3> QED BY <3>1, <3>2, <2>3, <2>4, <1>s, <1>k, <1>u, Carried
  <2>5. CASE ~Starts(i)
    <3>1. /\ Goto(i, "ok") /\ pc'[i] = "ok" /\ "ok" \in Answered \ Holding
          /\ slots'.mark = 0
      BY <1>3, <2>5, <1>f DEF CloseXray, Goto, Holding, Answered, Slots
    <3>2. Knows(i)'
      BY <3>1, <2>5, <1>a DEF Knows, StopKnows, Undoing
    <3>3. Rest'
      BY <3>1, <2>1, <2>2, <2>5, <1>k, <1>s, <1>a DEF Rest, Clean
    <3> QED BY <3>1, <3>2, <3>3, <2>3, <2>5, <1>s, <1>k, <1>u, Carried
  <2> QED BY <2>4, <2>5
<1> QED BY <1>1, <1>2, <1>3

\* The client: it does not give a Start up, and asks for one only when it takes
\* nothing for running.
LEMMA ClientKnows ==
  ASSUME "start" \notin TimesOut, IInv, KInv, Client
  PROVE  KInv'
<1>t. /\ slots \in Slots /\ pc \in [Ids -> Labels] /\ 0 \notin Ids
      /\ asked \in 0..MaxCalls /\ MaxCalls \in Nat
      /\ req \in [Ids -> Requests] /\ client \in [call : 0..MaxCalls, running : BOOLEAN]
      /\ Sent /\ client.call \in {0, asked} /\ (slots.box # 0 => slots.box \in Ids)
  BY CoreLifecycleAssumption DEF IInv, TypeOK, Sound, Believes, Labels, Ids, Slots
<1>u. UNCHANGED <<slots, dns, boxes, xrays, taken>>
  BY DEF Client, AskStart, AskStop, Ask, Answer, TimeOut
<1>x. XrayOwned'
  BY <1>u, StillOwned DEF KInv
<1>1. CASE Answer \/ TimeOut
  <2>1. UNCHANGED <<req, pc>> /\ client'.call = 0 /\ client.call # 0 /\ client.call = asked
        /\ asked \in Ids
    BY <1>1, <1>t DEF Answer, TimeOut, Ids
  <2>a. /\ \A o : Alone(o)' <=> Alone(o)
        /\ \A o : MarkOf(o)' = MarkOf(o)
        /\ \A o : Runs(o)' <=> Runs(o)
        /\ Bare' <=> Bare
        /\ Clean' <=> Clean
        /\ Rest' <=> Rest
        /\ \A o : Starts(o)' <=> Starts(o)
    BY <1>u, <2>1, Alike
  <2>2. \A i \in Ids : Knows(i)'
    <3> SUFFICES ASSUME NEW i \in Ids PROVE Knows(i)'
      OBVIOUS
    <3>1. Knows(i)
      BY DEF KInv
    <3> QED BY <3>1, <2>a, <1>u, <2>1 DEF Knows, StartKnows, StopKnows, Alone
  <2>3. (\A i \in Ids : pc'[i] \notin Holding) => Rest'
    BY <2>1, <2>a DEF KInv
  <2>4. ~(Starts(asked) /\ pc[asked] \in {"queued"} \cup Holding)
    <3>1. CASE Answer
      BY <3>1, <2>1 DEF Answer, Answered, Holding
    <3>2. CASE TimeOut
      BY <3>2, <2>1 DEF TimeOut, Starts
    <3> QED BY <1>1, <3>1, <3>2
  <2>5. Awaited'
    <3>1. \A i \in Ids : ~(Starts(i) /\ pc[i] \in {"queued"} \cup Holding)
      BY <2>1, <2>4 DEF KInv, Awaited
    <3> QED BY <3>1, <2>1, <2>a DEF Awaited
  <2>6. Wanted'
    <3> SUFFICES ASSUME slots.box # 0, pc[slots.box] = "ok"
                 PROVE  \/ client'.running
                        \/ \E k \in Ids : ~Starts(k) /\ pc[k] \in {"queued", "release", "unpublish"}
      BY <1>u, <2>1, <2>a DEF KInv, Wanted
    <3>1. Starts(slots.box)
      BY DEF KInv, Wanted
    <3>2. CASE client.call = slots.box
      <4>1. Answer
        BY <1>1, <3>2 DEF TimeOut, Answered
      <4> QED BY <4>1, <3>1, <3>2 DEF Answer, Starts
    <3>3. CASE client.call # slots.box
      BY <3>3, <2>1, <1>t DEF KInv, Wanted, Holding
    <3> QED BY <3>2, <3>3
  <2> QED BY <1>x, <2>2, <2>3, <2>5, <2>6 DEF KInv
<1>2. ASSUME NEW r \in Requests, Ask(r),
             r.kind = "start" => ~client.running,
             r.kind # "start" => client.running
      PROVE  KInv'
  <2>n. PICK n \in Ids : /\ n = asked + 1 /\ client.call = 0 /\ client'.call = n
                       /\ client'.running = client.running
    BY <1>2, <1>t DEF Ask, Ids
  <2>p. /\ pc[n] = "unsent" /\ pc'[n] = "queued" /\ req'[n] = r
        /\ \A j \in Ids \ {n} : pc'[j] = pc[j] /\ req'[j] = req[j]
    BY <1>2, <1>t, <2>n DEF Ask, Sent
  <2>s. \A j \in Ids \ {n} : Starts(j)' <=> Starts(j)
    BY <2>p DEF Starts
  <2>q. Starts(n)' <=> r.kind = "start"
    BY <2>p DEF Starts
  <2>w. \A i \in Ids : ~(Starts(i) /\ pc[i] \in {"queued"} \cup Holding)
    BY <2>n, <1>t DEF KInv, Awaited
  <2>b. slots.box # 0 => slots.box \in Ids \ {n}
    BY <1>t, <2>p DEF KInv, Wanted, Holding
  <2>r. \A b \in Ids \ {n} : /\ MarkOf(b)' = MarkOf(b)
                             /\ Runs(b)' <=> Runs(b)
    BY <1>u, <2>p DEF MarkOf, Marked, Runs, Alone
  <2>c. /\ \A o : Alone(o)' <=> Alone(o)
        /\ Bare' <=> Bare
        /\ Clean' <=> Clean
    BY <1>u DEF Alone, Bare, Clean
  <2>1. \A i \in Ids : Knows(i)'
    <3> SUFFICES ASSUME NEW i \in Ids PROVE Knows(i)'
      OBVIOUS
    <3>1. CASE i = n
      BY <3>1, <2>p DEF Knows, StartKnows, StopKnows, Undoing, Holding
    <3>2. CASE i # n /\ pc[i] \notin Holding
      <4>1. pc'[i] \notin Holding
        BY <3>2, <2>p
      <4> QED BY <4>1 DEF Knows, StartKnows, StopKnows, Undoing, Holding
    <3>3. CASE i # n /\ pc[i] \in Holding
      <4>1. ~Starts(i) /\ ~Starts(i)' /\ StopKnows(i) /\ pc'[i] = pc[i]
        BY <3>3, <2>w, <2>s, <2>p DEF KInv, Knows
      <4>2. StopKnows(i)'
        BY <4>1, <2>b, <2>r, <2>c, <1>u DEF StopKnows
      <4> QED BY <4>1, <4>2 DEF Knows
    <3> QED BY <3>1, <3>2, <3>3
  <2>2. (\A i \in Ids : pc'[i] \notin Holding) => Rest'
    <3> SUFFICES ASSUME \A i \in Ids : pc'[i] \notin Holding PROVE Rest'
      OBVIOUS
    <3>1. \A i \in Ids : pc[i] \notin Holding
      BY <2>p DEF Holding
    <3>2. Rest
      BY <3>1 DEF KInv
    <3> QED BY <3>2, <2>b, <2>r, <2>c, <1>u DEF Rest
  <2>3. Awaited'
    BY <2>w, <2>n, <2>p, <2>s DEF Awaited
  <2>4. Wanted'
    <3> SUFFICES ASSUME slots.box # 0
                 PROVE  /\ Starts(slots.box)'
                        /\ \/ pc'[slots.box] \in Holding
                           \/ /\ pc'[slots.box] = "ok"
                              /\ \E k \in Ids : /\ ~Starts(k)'
                                                /\ pc'[k] \in {"queued", "release", "unpublish"}
      BY <1>u DEF Wanted
    <3>1. /\ Starts(slots.box)' /\ Starts(slots.box) /\ pc'[slots.box] = pc[slots.box]
          /\ pc[slots.box] \in Holding \cup {"ok"}
      BY <2>b, <2>s, <2>p, <1>u DEF KInv, Wanted
    <3>2. CASE r.kind # "start"
      BY <3>1, <3>2, <2>q, <2>p, <2>n
    <3>3. CASE r.kind = "start" /\ pc[slots.box] = "ok"
      <4>1. client.call # slots.box /\ ~client.running
        BY <3>3, <1>2, <2>b, <2>n, <1>t
      <4>2. PICK k \in Ids : ~Starts(k) /\ pc[k] \in {"queued", "release", "unpublish"}
        BY <3>3, <4>1 DEF KInv, Wanted, Holding
      <4>3. k # n
        BY <4>2, <2>p
      <4> QED BY <4>2, <4>3, <3>1, <3>3, <2>s, <2>p
    <3> QED BY <3>1, <3>2, <3>3
  <2> QED BY <1>x, <2>1, <2>2, <2>3, <2>4 DEF KInv
<1>3. CASE AskStart
  <2>1. PICK p \in Offered : ~client.running /\ Ask([kind |-> "start", want |-> p])
    BY <1>3 DEF AskStart
  <2>2. [kind |-> "start", want |-> p] \in Requests
    BY CoreLifecycleAssumption DEF Offered, Profiles, Requests
  <2> QED BY <2>1, <2>2, <1>2
<1>4. CASE AskStop
  <2>1. StopRequest \in Requests /\ StopRequest.kind = "stop"
    BY DEF StopRequest, Requests, Profiles
  <2> QED BY <2>1, <1>4, <1>2 DEF AskStop
<1> QED BY <1>1, <1>3, <1>4 DEF Client

\* When building a box does not panic and the client waits for its Starts, at
\* most one profile has something that runs, and every step of Start, Stop and
\* their error paths knows which: KInv is an invariant on every platform.
THEOREM OneProfileRuns ==
  ASSUME MayPanic = FALSE, "start" \notin TimesOut
  PROVE  Spec => []KInv
<1>1. Init => KInv
  <2> SUFFICES ASSUME Init PROVE KInv
    OBVIOUS
  <2>1. slots.box = 0 /\ slots.mark = 0 /\ dns = "off"
        /\ \A i \in Ids : pc[i] = "unsent" /\ boxes[i] = "none" /\ xrays[i] = {}
    BY DEF Init
  <2>2. XrayOwned /\ Wanted /\ Awaited /\ Rest
    BY <2>1 DEF XrayOwned, Wanted, Awaited, Rest, Clean, Alone, Bare, Holding
  <2>3. \A i \in Ids : Knows(i)
    BY <2>1 DEF Knows, StartKnows, StopKnows, Undoing, Holding
  <2> QED BY <2>2, <2>3 DEF KInv
<1>2. IInv /\ KInv /\ [Next]_vars => KInv'
  <2> SUFFICES ASSUME IInv, KInv, [Next]_vars PROVE KInv'
    OBVIOUS
  <2>1. CASE Client
    BY <2>1, ClientKnows
  <2>2. ASSUME NEW i \in Ids, StartStep(i) PROVE KInv'
    <3>1. ~CreatePanics(i)
      BY DEF CreatePanics
    <3> QED BY <3>1, <2>2, MovesKnow, XrayKnows, FullKnows, BoxKnows, DeferKnows
            DEF StartStep
  <2>3. ASSUME NEW i \in Ids, StopStep(i) PROVE KInv'
    BY <2>3, MovesKnow, UnpublishKnows, CloseBoxKnows, UndoKnows DEF StopStep
  <2>4. CASE UNCHANGED <<client, asked, req, pc, slots, dns, boxes, xrays, taken>>
    <3>1. XrayOwned' /\ Awaited' /\ Wanted'
      BY <2>4 DEF KInv, XrayOwned, Held, Awaited, Wanted, Starts
    <3>2. \A i \in Ids : Knows(i)'
      BY <2>4 DEF KInv, Knows, StartKnows, StopKnows, Starts, Alone, Bare, Clean, Runs,
                  MarkOf, Marked
    <3>3. (\A i \in Ids : pc'[i] \notin Holding) => Rest'
      BY <2>4 DEF KInv, Rest, Alone, Bare, Clean, Runs, MarkOf, Marked
    <3> QED BY <3>1, <3>2, <3>3 DEF KInv
  <2>5. ASSUME NEW i \in Ids, ExtraEnds(i) \/ ExtraReaped(i) PROVE KInv'
    BY <2>4, <2>5 DEF ExtraEnds, ExtraReaped
  <2>6. CASE UNCHANGED vars
    BY <2>4, <2>6 DEF vars
  <2> QED BY <2>1, <2>2, <2>3, <2>5, <2>6 DEF Next
<1> QED BY <1>1, <1>2, Invariant, PTL DEF Spec

\* Without a published box no box, no Xray instance or gate, no system DNS and
\* no mark is left at rest: nothing that NothingLeftBehind excepts is there but
\* the extra process of a Start that failed at Xray or at the full gates.
THEOREM CleanAtRest ==
  ASSUME MayPanic = FALSE, "start" \notin TimesOut
  PROVE  Spec => [](AtRest /\ slots.box = 0 => Clean)
<1>1. KInv => (AtRest /\ slots.box = 0 => Clean)
  BY DEF AtRest, KInv, Rest
<1> QED BY <1>1, OneProfileRuns, PTL

\* While a Tun redirects, test boxes get its mark; without one, at rest, none:
\* the mark that WithMark sets is cleared on every way out.
THEOREM ProbesDoEscape ==
  ASSUME MayPanic = FALSE, "start" \notin TimesOut
  PROVE  Spec => []ProbesEscape
<1>1. IInv /\ KInv => ProbesEscape
  <2> SUFFICES ASSUME IInv, KInv PROVE ProbesEscape
    OBVIOUS
  <2>0. 0 \notin Ids /\ (slots.box # 0 => slots.box \in Ids)
    BY CoreLifecycleAssumption DEF Ids, IInv, TypeOK, Slots
  <2>1. ASSUME NEW i \in Ids, boxes[i] = "live", Marked(i) PROVE slots.mark = i
    <3>1. ~Alone(0)
      BY <2>1, <2>0 DEF Alone
    <3>2. \A b \in Ids : Alone(b) => b = i
      BY <2>1 DEF Alone
    <3>3. \A b \in Ids : Runs(b) => b = i /\ slots.mark = i
      BY <2>1, <3>2 DEF Runs, MarkOf
    <3>4. CASE \A k \in Ids : pc[k] \notin Holding
      BY <3>4, <3>1, <3>3, <2>0 DEF KInv, Rest, Clean
    <3>5. ASSUME NEW k \in Ids, pc[k] \in Holding PROVE slots.mark = i
      <4>1. CASE Starts(k)
        <5>1. StartKnows(k)
          BY <4>1 DEF KInv, Knows
        <5>2. pc[k] \in {"publish", "apply", "watch", "closeBox"}
          BY <5>1, <3>1, <3>5 DEF StartKnows, Clean, Undoing, Holding
        <5> QED BY <5>1, <5>2, <3>2, <3>3, <2>1 DEF StartKnows
      <4>2. CASE ~Starts(k)
        <5>1. StopKnows(k)
          BY <4>2 DEF KInv, Knows
        <5>2. pc[k] \in {"release", "unpublish", "closeBox"}
          BY <5>1, <3>1, <3>5 DEF StopKnows, Undoing, Holding
        <5> QED BY <5>1, <5>2, <3>2, <3>3, <2>0, <2>1 DEF StopKnows
      <4> QED BY <4>1, <4>2
    <3> QED BY <3>4, <3>5
  <2>2. ASSUME AtRest, slots.mark # 0 PROVE boxes[slots.mark] = "live"
    BY <2>2, <2>0 DEF AtRest, KInv, Rest, Clean, Runs, MarkOf
  <2> QED BY <2>1, <2>2 DEF ProbesEscape
<1> QED BY <1>1, OneProfileRuns, Invariant, PTL

\* Where the system DNS is not changed, the package variables tell what runs:
\* an Xray instance or gate is in its slot or about to be closed, no slot holds
\* a closed one, and the published box lives.
THEOREM SlotsAreTrue ==
  ASSUME MayPanic = FALSE, "start" \notin TimesOut, Platform # "darwin"
  PROVE  Spec => []SlotsTellTrue
<1>1. KInv /\ XraySlotsLive /\ PublishedIsLive => SlotsTellTrue
  BY DEF KInv, SlotsTellTrue
<1> QED BY <1>1, OneProfileRuns, SlotsLive, PollsSeeLive, PTL

=============================================================================
