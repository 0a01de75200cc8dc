---------------------- MODULE ConnectionManagerProofs ----------------------
(***************************************************************************)
(* Theorems about ConnectionManager, for every set of profiles, with and   *)
(* without the requirement of a Tun, and any number of requests and        *)
(* events.                                                                 *)
(*                                                                         *)
(* A handler of the main thread holds one request in its hand at most. So  *)
(* every request is in the hand, waits in one of four members, is in a     *)
(* call posted to the main thread or has its answer, and every step hands  *)
(* it from one of these to another.                                        *)
(***************************************************************************)
EXTENDS ConnectionManager, FiniteSetTheorems, SequenceTheorems, TLAPS

\* A request names a profile, but for the one that stands for none.
Real(r) == r = NoRequest \/ r.profile \in Profiles

\* The serials of the calls posted to the main thread.
Queued(q) == {q[i].req.serial : i \in DOMAIN q} \ {0}

\* The serials 1 to a: each is waiting for the kill switch, for the core or for
\* a ranking, with the start worker, in the hand, posted or answered, and only one
\* of these.
Apart(ks, core, rank, work, hand, posted, done, a) ==
  /\ ks \in 0 .. a /\ core \in 0 .. a /\ rank \in 0 .. a /\ work \in 0 .. a /\ hand \in 0 .. a
  /\ posted \subseteq 1 .. a /\ done \subseteq 1 .. a /\ posted \cap done = {}
  /\ ks # 0 => ks \notin {core, rank, work, hand} \cup posted \cup done
  /\ core # 0 => core \notin {rank, work, hand} \cup posted \cup done
  /\ rank # 0 => rank \notin {work, hand} \cup posted \cup done
  /\ work # 0 => work \notin {hand} \cup posted \cup done
  /\ hand # 0 => hand \notin posted \cup done
  /\ 1 .. a \subseteq {ks, core, rank, work, hand} \cup posted \cup done

\* The same of the state that a handler of the main thread has reached.
Where(x, hand, posted, a) ==
  Apart(x.cm.ksDeferred.serial, x.cm.coreReq.serial, x.ranking.serial,
        x.startW.req.serial, hand, posted, x.answered, a)

\* Only the calls that answer carry a serial, and no two the same.
Once ==
  /\ \A i \in DOMAIN ui : ui[i].op \notin {"started", "failed"} => ui[i].req.serial = 0
  /\ \A i, j \in DOMAIN ui :
       ui[i].req.serial = ui[j].req.serial /\ ui[i].req.serial # 0 => i = j

\* The start worker has a request of a profile from when mu_starting is taken to
\* when it posts the answer.
Carries(w) ==
  IF w.pc \in {"idle", "unlock"} THEN w.req = NoRequest ELSE w.req.profile \in Profiles

\* The remembered Tun is up, or the user turned it off.
TunSettled(m) == m.tun \/ ~m.remember

\* The boot's request left the core's waiting place with a settled Tun only; until
\* the first coreStarted m_bootSerial tells it from the others.
BootHeld(x) ==
  TunRequired =>
    /\ 1 \in {x.cm.ksDeferred.serial, x.ranking.serial, x.startW.req.serial} =>
         TunSettled(x.cm)
    /\ x.cm.coreReq.serial = 1 => TunSettled(x.cm) \/ x.cm.bootSerial = 1

\* What the start worker and the stop worker know of m_running: a stop under way
\* has a profile to stop, unless the start worker asked for it, and the start
\* worker comes to its RPC with nothing running.
StopsFirst ==
  /\ startW.pc = "wait" => running = NoProfile \/ stopW.pc \in {"rpc", "clear"}
  /\ startW.pc \in {"rpc", "land"} => running = NoProfile
  /\ startW.pc \in {"begin", "check", "lock"} /\ stopW.pc = "teardown" => running = NoProfile
  /\ stopW.pc = "rpc" /\ ~stopW.crash => running # NoProfile \/ startW.pc = "wait"

\* The states of a handler: types, and the requests are real.
Bundles ==
  [cm : Managers, env : Environments, answered : SUBSET (1 .. MaxSerial),
   ranking : Requests, startW : StartWorkers]
\* A state that a handler may be in.
Sane(x) ==
  x \in Bundles /\ Real(x.cm.ksDeferred) /\ Real(x.cm.coreReq) /\ Real(x.ranking)
  /\ Carries(x.startW)

\* The inductive invariant.
IInv ==
  /\ TypeOK
  /\ Sane(Now)
  /\ Where(Now, 0, Queued(ui), asked)
  /\ Once
  /\ BootHeld(Now)
  /\ StopsFirst
  /\ asked # 0

-----------------------------------------------------------------------------
(* Where the serials are.                                                  *)

\* What startFinished adds to the answered.
Told(r) == {r.serial} \ {0}

\* The request in the hand is answered.
LEMMA HandAnswered ==
  ASSUME NEW ks, NEW core, NEW rank, NEW work, NEW hand, NEW P, NEW D, NEW a \in Nat,
         Apart(ks, core, rank, work, hand, P, D, a)
  PROVE  Apart(ks, core, rank, work, 0, P, D \cup ({hand} \ {0}), a)
BY DEF Apart

\* It waits for the kill switch; the one that did is answered.
LEMMA HandToKs ==
  ASSUME NEW ks, NEW core, NEW rank, NEW work, NEW hand, NEW P, NEW D, NEW a \in Nat,
         Apart(ks, core, rank, work, hand, P, D, a)
  PROVE  Apart(hand, core, rank, work, 0, P, D \cup ({ks} \ {0}), a)
BY DEF Apart

\* It waits for the core; the one that did is answered.
LEMMA HandToCore ==
  ASSUME NEW ks, NEW core, NEW rank, NEW work, NEW hand, NEW P, NEW D, NEW a \in Nat,
         Apart(ks, core, rank, work, hand, P, D, a)
  PROVE  Apart(ks, hand, rank, work, 0, P, D \cup ({core} \ {0}), a)
BY DEF Apart

\* It waits for a ranking, or goes to the start worker: nothing is there.
LEMMA HandOn ==
  ASSUME NEW ks, NEW core, NEW rank, NEW work, NEW hand, NEW P, NEW D, NEW a \in Nat,
         Apart(ks, core, rank, work, hand, P, D, a)
  PROVE  /\ rank = 0 => Apart(ks, core, hand, work, 0, P, D, a)
         /\ work = 0 => Apart(ks, core, rank, hand, 0, P, D, a)
BY DEF Apart

\* A request is taken from where it waits, or is new.
LEMMA IntoHand ==
  ASSUME NEW ks, NEW core, NEW rank, NEW work, NEW P, NEW D, NEW a \in Nat,
         Apart(ks, core, rank, work, 0, P, D, a)
  PROVE  /\ Apart(0, core, rank, work, ks, P, D, a)
         /\ Apart(ks, 0, rank, work, core, P, D, a)
         /\ Apart(ks, core, 0, work, rank, P, D, a)
         /\ Apart(ks, core, rank, work, a + 1, P, D, a + 1)
<1>1. a + 1 \in Nat /\ a + 1 # 0 /\ a + 1 \notin 0 .. a /\ 1 .. a + 1 = 1 .. a \cup {a + 1}
      /\ 0 .. a \subseteq 0 .. a + 1 /\ 1 .. a \subseteq 1 .. a + 1 /\ 1 .. a \subseteq 0 .. a
  OBVIOUS
<1>2. Apart(ks, core, rank, work, a + 1, P, D, a + 1)
  BY <1>1 DEF Apart
<1> QED BY <1>2 DEF Apart

\* The start worker posts the answer.
LEMMA PostedOn ==
  ASSUME NEW ks, NEW core, NEW rank, NEW work, NEW P, NEW D, NEW a \in Nat,
         Apart(ks, core, rank, work, 0, P, D, a)
  PROVE  Apart(ks, core, rank, 0, 0, P \cup ({work} \ {0}), D, a)
BY DEF Apart

\* The main thread delivers it.
LEMMA PostedTaken ==
  ASSUME NEW ks, NEW core, NEW rank, NEW work, NEW P, NEW D, NEW a \in Nat,
         Apart(ks, core, rank, work, 0, P, D, a), NEW n \in P
  PROVE  Apart(ks, core, rank, work, 0, P \ {n}, D \cup {n}, a)
BY DEF Apart

-----------------------------------------------------------------------------
(* start(): a request in the hand goes to one of five places.              *)

\* What no handler that only starts changes.
Settings(x, y) ==
  y.cm.tun = x.cm.tun /\ y.cm.remember = x.cm.remember /\ y.cm.bootSerial = x.cm.bootSerial

\* From x to y, request r leaves the hand.
Goes(x, y, r) ==
  /\ Sane(y) /\ Settings(x, y)
  /\ \/ /\ y.cm.ksDeferred = x.cm.ksDeferred /\ y.cm.coreReq = x.cm.coreReq
        /\ y.ranking = x.ranking /\ y.startW = x.startW
        /\ y.answered = x.answered \cup Told(r)
     \/ /\ y.cm.ksDeferred = r /\ y.cm.coreReq = x.cm.coreReq
        /\ y.ranking = x.ranking /\ y.startW = x.startW
        /\ y.answered = x.answered \cup Told(x.cm.ksDeferred)
     \/ /\ y.cm.ksDeferred = x.cm.ksDeferred /\ y.cm.coreReq = r
        /\ y.ranking = x.ranking /\ y.startW = x.startW
        /\ y.answered = x.answered \cup Told(x.cm.coreReq)
     \/ /\ y.cm.ksDeferred = x.cm.ksDeferred /\ y.cm.coreReq = x.cm.coreReq
        /\ x.ranking = NoRequest /\ y.ranking = r /\ y.startW = x.startW
        /\ y.answered = x.answered
     \/ /\ y.cm.ksDeferred = x.cm.ksDeferred /\ y.cm.coreReq = x.cm.coreReq
        /\ y.ranking = x.ranking /\ x.startW.pc = "idle" /\ stopW.pc = "idle"
        /\ y.startW = [pc |-> "begin", req |-> r]
        /\ y.answered = x.answered

\* startFinished changes the answered only.
LEMMA AnswerFields ==
  ASSUME NEW x, Sane(x), NEW r \in Requests
  PROVE  /\ Sane(Answer(x, r))
         /\ Answer(x, r).answered = x.answered \cup Told(r)
         /\ Answer(x, r).cm = x.cm /\ Answer(x, r).env = x.env
         /\ Answer(x, r).ranking = x.ranking /\ Answer(x, r).startW = x.startW
<1>1. Told(r) \subseteq 1 .. MaxSerial
  BY BoundsAssumption DEF Told, Requests
<1> QED BY <1>1 DEF Sane, Bundles, Answer, Told

\* deferStartToCore answers the request that waited and keeps the new one.
LEMMA DeferFields ==
  ASSUME NEW x, Sane(x), NEW r \in Requests, Real(r)
  PROVE  LET y == deferStartToCore(x, r) IN
         /\ Goes(x, y, r)
         /\ y.cm.coreReq = r /\ y.env = x.env
         /\ y.cm.guardRestart = x.cm.guardRestart
         /\ y.cm.ksDeferred = x.cm.ksDeferred
         /\ y.ranking = x.ranking /\ y.startW = x.startW
         /\ y.answered = x.answered \cup Told(x.cm.coreReq)
<1> DEFINE z == Answer(x, x.cm.coreReq)
           y == deferStartToCore(x, r)
<1>t. x.cm.coreReq \in Requests /\ x.cm \in Managers
  BY DEF Sane, Bundles, Managers
<1>1. /\ Sane(z) /\ z.answered = x.answered \cup Told(x.cm.coreReq)
      /\ z.cm = x.cm /\ z.env = x.env /\ z.ranking = x.ranking /\ z.startW = x.startW
  BY <1>t, AnswerFields
<1>2. y = [z EXCEPT !.cm = [z.cm EXCEPT !.coreReq = r]]
  BY DEF deferStartToCore
<1> HIDE DEF z, y
<1>3. z \in Bundles
  BY <1>1 DEF Sane
<1>4. /\ y.cm = [z.cm EXCEPT !.coreReq = r] /\ y.env = z.env
      /\ y.answered = z.answered /\ y.ranking = z.ranking /\ y.startW = z.startW
  BY <1>2, <1>3 DEF Bundles
<1>5. /\ [x.cm EXCEPT !.coreReq = r] \in Managers
      /\ y.cm.coreReq = r /\ y.cm.guardRestart = x.cm.guardRestart
      /\ y.cm.ksDeferred = x.cm.ksDeferred /\ Settings(x, y)
  BY <1>1, <1>4, <1>t DEF Managers, Settings
<1>6. y \in Bundles
  BY <1>1, <1>2, <1>3, <1>5 DEF Bundles
<1>7. Sane(y)
  BY <1>1, <1>4, <1>5, <1>6 DEF Sane
<1>8. Goes(x, y, r)
  BY <1>1, <1>4, <1>5, <1>7 DEF Goes
<1> QED BY <1>1, <1>4, <1>5, <1>8 DEF y

\* Nothing above reads the environment.
LEMMA OtherEnv ==
  ASSUME NEW x, NEW r, NEW y, Goes(x, y, r), NEW e \in Environments
  PROVE  /\ Goes(x, [y EXCEPT !.env = e], r)
         /\ [y EXCEPT !.env = e].env = e
         /\ [y EXCEPT !.env = e].cm = y.cm
         /\ [y EXCEPT !.env = e].ranking = y.ranking
         /\ [y EXCEPT !.env = e].startW = y.startW
<1> DEFINE z == [y EXCEPT !.env = e]
<1>1. y \in Bundles /\ Sane(y)
  BY DEF Goes, Sane
<1>2. /\ z \in Bundles /\ z.env = e /\ z.cm = y.cm /\ z.ranking = y.ranking
      /\ z.startW = y.startW /\ z.answered = y.answered
  BY <1>1 DEF Bundles
<1> HIDE DEF z
<1>3. Sane(z) /\ Settings(x, z)
  BY <1>1, <1>2 DEF Sane, Goes, Settings
<1>4. Goes(x, z, r)
  BY <1>2, <1>3 DEF Goes
<1> QED BY <1>2, <1>4 DEF z

\* Answering is one way to leave the hand.
LEMMA AnswerGoes ==
  ASSUME NEW x, Sane(x), NEW r \in Requests
  PROVE  Goes(x, Answer(x, r), r)
BY AnswerFields DEF Goes, Settings

\* The environments that start() makes.
LEMMA EnvTyped ==
  ASSUME NEW e \in Environments, NEW p \in MaybeProfile
  PROVE  /\ [e EXCEPT !.startWhenUp = p] \in Environments
         /\ Restarting(e, p) \in Environments
         /\ Replacing(e, p) \in Environments
<1>1. [e EXCEPT !.startWhenUp = p] \in Environments
  BY DEF Environments
<1>2. Restarting(e, p) \in Environments
  BY DEF Environments, Restarting
<1>3. Replacing(e, p) \in Environments
  <2>1. e.ds \in {"none", "check", "lock", "wait"}
    BY DEF Environments
  <2> QED BY <2>1, <1>2 DEF Environments, Replacing
<1> QED BY <1>1, <1>2, <1>3

\* The places that restartCoreForGuard leaves alone.
Kept(x, y) ==
  y.cm.ksDeferred = x.cm.ksDeferred /\ y.ranking = x.ranking /\ y.startW = x.startW

\* restartCoreForGuard keeps the request for the core or, when none will come,
\* answers it.
LEMMA GuardGoes ==
  ASSUME NEW x, Sane(x), NEW r \in Requests, Real(r)
  PROVE  Goes(x, restartCoreForGuard(x, r), r) /\ Kept(x, restartCoreForGuard(x, r))
<1> DEFINE d == deferStartToCore(x, r)
           y == [d EXCEPT !.env.startWhenUp = r.profile]
<1>p. r.profile \in MaybeProfile /\ x.env \in Environments
  BY DEF Requests, Sane, Bundles
<1>1. Goes(x, d, r) /\ d.env = x.env /\ Kept(x, d)
  BY DeferFields DEF Kept
<1>2. y = [d EXCEPT !.env = [d.env EXCEPT !.startWhenUp = r.profile]]
  OBVIOUS
<1> HIDE DEF d
<1>3. [d.env EXCEPT !.startWhenUp = r.profile] \in Environments
  BY <1>1, <1>p, EnvTyped
<1>4. Goes(x, y, r) /\ y.env = [d.env EXCEPT !.startWhenUp = r.profile] /\ Kept(x, y)
  BY <1>1, <1>2, <1>3, OtherEnv DEF Kept
<1>5. CASE x.env.life = "refused"
  <2>1. restartCoreForGuard(x, r) = Answer(x, r)
    BY <1>5 DEF restartCoreForGuard
  <2> QED BY <2>1, AnswerGoes, AnswerFields DEF Kept
<1>6. CASE x.env.life # "refused" /\ x.cm.guardRestart
  BY <1>6, <1>4 DEF restartCoreForGuard, d
<1>7. CASE x.env.life # "refused" /\ ~x.cm.guardRestart
  <2> DEFINE e == Replacing(y.env, r.profile)
             g == [y EXCEPT !.cm = [y.cm EXCEPT !.guardRestart = TRUE]]
             z == [y EXCEPT !.cm.guardRestart = TRUE, !.env = Replacing(@, r.profile)]
  <2>1. restartCoreForGuard(x, r) = z
    BY <1>7 DEF restartCoreForGuard, d
  <2>2. z = [g EXCEPT !.env = e]
    <3>1. y \in Bundles
      BY <1>4 DEF Goes, Sane
    <3> HIDE DEF y
    <3>2. g.env = y.env
      BY <3>1 DEF Bundles
    <3> QED BY <3>2
  <2>3. e \in Environments
    BY <1>3, <1>4, <1>p, EnvTyped
  <2> HIDE DEF z, e, y
  <2>4. Goes(x, g, r) /\ Kept(x, g)
    <3>1. y \in Bundles /\ Sane(y) /\ y.cm \in Managers
      BY <1>4 DEF Goes, Sane, Bundles
    <3>2. [y.cm EXCEPT !.guardRestart = TRUE] \in Managers
      BY <3>1 DEF Managers
    <3>3. /\ g.cm = [y.cm EXCEPT !.guardRestart = TRUE] /\ g.env = y.env
          /\ g.answered = y.answered /\ g.ranking = y.ranking /\ g.startW = y.startW
      BY <3>1 DEF Bundles
    <3>4. g \in Bundles
      BY <3>1, <3>2 DEF Bundles
    <3>5. /\ g.cm.ksDeferred = y.cm.ksDeferred /\ g.cm.coreReq = y.cm.coreReq
          /\ Settings(y, g)
      BY <3>1, <3>3 DEF Managers, Settings
    <3> HIDE DEF g
    <3>6. Sane(g) /\ Settings(x, g)
      BY <3>1, <3>3, <3>4, <3>5, <1>4 DEF Sane, Settings, Goes
    <3>7. Goes(x, g, r)
      BY <3>3, <3>5, <3>6, <1>4 DEF Goes
    <3> QED BY <3>3, <3>5, <3>7, <1>4 DEF Kept
  <2> HIDE DEF g
  <2>5. Goes(x, [g EXCEPT !.env = e], r) /\ Kept(x, [g EXCEPT !.env = e])
    BY <2>3, <2>4, OtherEnv DEF Kept
  <2> QED BY <2>1, <2>2, <2>5
<1> QED BY <1>5, <1>6, <1>7 DEF Sane, Bundles, Managers

\* The locks, the core or the start worker.
LEMMA DispatchGoes ==
  ASSUME NEW x, Sane(x), NEW r \in Requests, r.profile \in Profiles, Dispatch(x, r)
  PROVE  \E y : Becomes(y) /\ Goes(x, y, r)
<1>r. Real(r) /\ r.profile \in MaybeProfile /\ x.env \in Environments
  BY DEF Real, MaybeProfile, Sane, Bundles
<1> DEFINE d == deferStartToCore(x, r)
<1>d. Goes(x, d, r) /\ d.env = x.env
  BY <1>r, DeferFields
<1>1. CASE Becomes(Answer(x, r))
  BY <1>1, AnswerGoes
<1>2. CASE Becomes([d EXCEPT !.env.startWhenUp = r.profile])
  <2>1. [d EXCEPT !.env.startWhenUp = r.profile]
          = [d EXCEPT !.env = [d.env EXCEPT !.startWhenUp = r.profile]]
    OBVIOUS
  <2> HIDE DEF d
  <2>2. [d.env EXCEPT !.startWhenUp = r.profile] \in Environments
    BY <1>d, <1>r, EnvTyped
  <2> QED BY <2>1, <2>2, <1>2, <1>d, OtherEnv
<1>3. CASE Becomes([d EXCEPT !.env = Restarting(@, r.profile)])
  <2>1. [d EXCEPT !.env = Restarting(@, r.profile)]
          = [d EXCEPT !.env = Restarting(d.env, r.profile)]
    OBVIOUS
  <2> HIDE DEF d
  <2>2. Restarting(d.env, r.profile) \in Environments
    BY <1>d, <1>r, EnvTyped
  <2> QED BY <2>1, <2>2, <1>3, <1>d, OtherEnv
<1>4. CASE /\ ~Locked(x)
           /\ Becomes([x EXCEPT !.startW = [pc |-> "begin", req |-> r], !.cm.connecting = TRUE])
  <2> DEFINE w == [pc |-> "begin", req |-> r]
             y == [x EXCEPT !.startW = w, !.cm.connecting = TRUE]
  <2>1. x \in Bundles /\ x.cm \in Managers
    BY DEF Sane, Bundles
  <2>2. w \in StartWorkers /\ Carries(w)
    BY DEF StartWorkers, Carries
  <2>3. y = [x EXCEPT !.startW = w, !.cm = [x.cm EXCEPT !.connecting = TRUE]]
    BY <2>1 DEF Bundles
  <2> HIDE DEF y, w
  <2>4. [x.cm EXCEPT !.connecting = TRUE] \in Managers
    BY <2>1 DEF Managers
  <2>5. /\ y.cm = [x.cm EXCEPT !.connecting = TRUE] /\ y.env = x.env
        /\ y.answered = x.answered /\ y.ranking = x.ranking /\ y.startW = w
    BY <2>1, <2>3 DEF Bundles
  <2>6. y \in Bundles
    BY <2>1, <2>2, <2>3, <2>4 DEF Bundles
  <2>7. /\ y.cm.ksDeferred = x.cm.ksDeferred /\ y.cm.coreReq = x.cm.coreReq
        /\ Settings(x, y)
    BY <2>1, <2>5 DEF Managers, Settings
  <2>8. Sane(y)
    BY <2>2, <2>5, <2>6, <2>7 DEF Sane
  <2>9. x.startW.pc = "idle" /\ stopW.pc = "idle"
    BY <1>4 DEF Locked
  <2>10. Goes(x, y, r)
    BY <2>5, <2>7, <2>8, <2>9 DEF Goes, w
  <2> QED BY <1>4, <2>10 DEF y, w
<1> QED BY <1>1, <1>2, <1>3, <1>4 DEF Dispatch

\* start() as a whole.
LEMMA StartGoes ==
  ASSUME NEW x, Sane(x), NEW r \in Requests, r.profile \in Profiles, NEW ranked,
         start(x, r, ranked)
  PROVE  geoFetch' = NoProfile /\ \E y : Becomes(y) /\ Goes(x, y, r)
<1>r. Real(r)
  BY DEF Real
<1>1. CASE Becomes(Answer(x, r))
  BY <1>1, AnswerGoes DEF start
<1>2. CASE Becomes([Answer(x, x.cm.ksDeferred) EXCEPT !.cm.ksDeferred = r])
  <2> DEFINE z == Answer(x, x.cm.ksDeferred)
             y == [z EXCEPT !.cm.ksDeferred = r]
  <2>t. x.cm.ksDeferred \in Requests /\ x.cm \in Managers
    BY DEF Sane, Bundles, Managers
  <2>1. /\ Sane(z) /\ z.answered = x.answered \cup Told(x.cm.ksDeferred)
        /\ z.cm = x.cm /\ z.env = x.env /\ z.ranking = x.ranking /\ z.startW = x.startW
    BY <2>t, AnswerFields
  <2>2. y = [z EXCEPT !.cm = [z.cm EXCEPT !.ksDeferred = r]]
    OBVIOUS
  <2> HIDE DEF z, y
  <2>3. z \in Bundles
    BY <2>1 DEF Sane
  <2>4. /\ y.cm = [z.cm EXCEPT !.ksDeferred = r] /\ y.env = z.env
        /\ y.answered = z.answered /\ y.ranking = z.ranking /\ y.startW = z.startW
    BY <2>2, <2>3 DEF Bundles
  <2>5. /\ [x.cm EXCEPT !.ksDeferred = r] \in Managers
        /\ y.cm.ksDeferred = r /\ y.cm.coreReq = x.cm.coreReq /\ Settings(x, y)
    BY <2>1, <2>4, <2>t DEF Managers, Settings
  <2>6. y \in Bundles
    BY <2>1, <2>2, <2>3, <2>5 DEF Bundles
  <2>7. Sane(y)
    BY <2>1, <2>4, <2>5, <2>6, <1>r DEF Sane
  <2>8. Goes(x, y, r)
    BY <2>1, <2>4, <2>5, <2>7 DEF Goes
  <2> QED BY <1>2, <2>8 DEF y, z, start
<1>3. CASE Becomes(restartCoreForGuard(x, r))
  BY <1>3, <1>r, GuardGoes DEF start
<1>4. CASE x.ranking = NoRequest /\ Becomes([x EXCEPT !.ranking = r])
  <2> DEFINE y == [x EXCEPT !.ranking = r]
  <2>1. x \in Bundles
    BY DEF Sane
  <2>2. /\ y \in Bundles /\ y.cm = x.cm /\ y.ranking = r /\ y.startW = x.startW
        /\ y.answered = x.answered
    BY <2>1 DEF Bundles
  <2> HIDE DEF y
  <2>3. Goes(x, y, r)
    BY <2>2, <1>4, <1>r DEF Goes, Sane, Settings
  <2> QED BY <1>4, <2>3 DEF y, start
<1>5. CASE Dispatch(x, r)
  BY <1>5, DispatchGoes DEF start
<1> QED BY <1>1, <1>2, <1>3, <1>4, <1>5 DEF start

-----------------------------------------------------------------------------
(* The handlers of the main thread.                                        *)

\* TypeOK without what a handler bundles.
Others ==
  /\ running \in MaybeProfile /\ startedId \in MaybeProfile /\ endpoints \in MaybeProfile
  /\ stopW \in StopWorkers /\ ui \in Seq(Calls)
  /\ geoFetch \in MaybeProfile /\ offers \in SUBSET Profiles
  /\ asked \in 0 .. MaxSerial /\ used \in 0 .. MaxEvents

\* What is used of the invariant everywhere below.
LEMMA Known ==
  ASSUME IInv
  PROVE  /\ Others /\ Sane(Now) /\ BootHeld(Now) /\ Where(Now, 0, Queued(ui), asked)
         /\ cm \in Managers /\ env \in Environments /\ startW \in StartWorkers
         /\ ranking \in Requests /\ answered \in SUBSET (1 .. MaxSerial)
         /\ Now.cm = cm /\ Now.env = env /\ Now.startW = startW
         /\ Now.ranking = ranking /\ Now.answered = answered
         /\ asked \in Nat /\ NoProfile \in MaybeProfile /\ Profiles \subseteq MaybeProfile
BY BoundsAssumption DEF IInv, Others, TypeOK, Now, MaybeProfile

\* A handler that ends in y, with its hand empty, preserves the invariant.
LEMMA Settled ==
  ASSUME IInv, NEW y, Becomes(y), Sane(y), Where(y, 0, Queued(ui), asked'), BootHeld(y),
         UNCHANGED <<running, stopW, ui>>, Others', asked' \in {asked, asked + 1},
         \/ y.startW = startW
         \/ startW.pc = "idle" /\ stopW.pc = "idle" /\ y.startW.pc = "begin"
  PROVE  IInv'
<1>1. /\ cm' = y.cm /\ env' = y.env /\ answered' = y.answered
      /\ ranking' = y.ranking /\ startW' = y.startW
  BY DEF Becomes
<1>2. /\ Now'.cm = y.cm /\ Now'.env = y.env /\ Now'.answered = y.answered
      /\ Now'.ranking = y.ranking /\ Now'.startW = y.startW
  BY <1>1 DEF Now
<1>3. y \in Bundles
  BY DEF Sane
<1>4. TypeOK'
  BY <1>1, <1>3 DEF TypeOK, Others, Bundles
<1>5. Now' \in Bundles
  BY <1>4 DEF Now, Bundles, TypeOK
<1>6. Sane(Now)'
  BY <1>2, <1>5 DEF Sane
<1>7. Where(Now, 0, Queued(ui), asked)'
  BY <1>2 DEF Where
<1>8. BootHeld(Now)'
  BY <1>2 DEF BootHeld
<1>9. Once'
  BY DEF Once, IInv
<1>10. StopsFirst'
  BY <1>1 DEF StopsFirst, IInv
<1>11. asked' # 0
  BY Known DEF IInv
<1> QED BY <1>4, <1>6, <1>7, <1>8, <1>9, <1>10, <1>11 DEF IInv

\* Wherever the request goes, the serials stay apart.
LEMMA GoesWhere ==
  ASSUME NEW x, NEW y, NEW r, Sane(x), Goes(x, y, r), NEW P, NEW a \in Nat,
         Where(x, r.serial, P, a)
  PROVE  Where(y, 0, P, a)
<1>1. CASE /\ y.cm.ksDeferred = x.cm.ksDeferred /\ y.cm.coreReq = x.cm.coreReq
           /\ y.ranking = x.ranking /\ y.startW = x.startW
           /\ y.answered = x.answered \cup Told(r)
  BY <1>1, HandAnswered DEF Where, Told
<1>2. CASE /\ y.cm.ksDeferred = r /\ y.cm.coreReq = x.cm.coreReq
           /\ y.ranking = x.ranking /\ y.startW = x.startW
           /\ y.answered = x.answered \cup Told(x.cm.ksDeferred)
  BY <1>2, HandToKs DEF Where, Told
<1>3. CASE /\ y.cm.ksDeferred = x.cm.ksDeferred /\ y.cm.coreReq = r
           /\ y.ranking = x.ranking /\ y.startW = x.startW
           /\ y.answered = x.answered \cup Told(x.cm.coreReq)
  BY <1>3, HandToCore DEF Where, Told
<1>4. CASE /\ y.cm.ksDeferred = x.cm.ksDeferred /\ y.cm.coreReq = x.cm.coreReq
           /\ x.ranking = NoRequest /\ y.ranking = r /\ y.startW = x.startW
           /\ y.answered = x.answered
  <2>1. x.ranking.serial = 0
    BY <1>4 DEF NoRequest, Request
  <2> QED BY <1>4, <2>1, HandOn DEF Where
<1>5. CASE /\ y.cm.ksDeferred = x.cm.ksDeferred /\ y.cm.coreReq = x.cm.coreReq
           /\ y.ranking = x.ranking /\ x.startW.pc = "idle"
           /\ y.startW = [pc |-> "begin", req |-> r]
           /\ y.answered = x.answered
  <2>1. x.startW.req.serial = 0 /\ y.startW.req = r
    BY <1>5 DEF Sane, Carries, NoRequest, Request
  <2> QED BY <1>5, <2>1, HandOn DEF Where
<1> QED BY <1>1, <1>2, <1>3, <1>4, <1>5 DEF Goes

\* A handler that starts request r from x, in whose hand it is.
LEMMA Handed ==
  ASSUME IInv, NEW x, Sane(x), x.startW = startW, BootHeld(x),
         NEW r \in Requests, r.profile \in Profiles, NEW ranked, start(x, r, ranked),
         Where(x, r.serial, Queued(ui), asked'),
         TunRequired /\ r.serial = 1 => TunSettled(x.cm),
         UNCHANGED <<running, stopW, ui>>, asked' \in {asked, asked + 1},
         geoFetch' = NoProfile => Others'
  PROVE  IInv'
<1>1. PICK y : Becomes(y) /\ Goes(x, y, r)
  BY StartGoes
<1>2. Others'
  BY StartGoes
<1>3. asked' \in Nat
  BY <1>2, BoundsAssumption DEF Others
<1>4. Sane(y) /\ Settings(x, y)
  BY <1>1 DEF Goes
<1>5. Where(y, 0, Queued(ui), asked')
  BY <1>1, <1>3, GoesWhere
<1>6. \/ y.startW = x.startW
      \/ /\ x.startW.pc = "idle" /\ stopW.pc = "idle"
         /\ y.startW.pc = "begin" /\ y.startW.req = r
  BY <1>1 DEF Goes
<1>7. BootHeld(y)
  BY <1>1, <1>4, <1>6 DEF BootHeld, Settings, TunSettled, Goes
<1> QED BY <1>1, <1>2, <1>4, <1>5, <1>6, <1>7, Settled

\* Requests are what they are made of.
LEMMA RequestFields ==
  ASSUME NEW p \in MaybeProfile, NEW n \in 0 .. MaxSerial
  PROVE  Request(p, n) \in Requests /\ Request(p, n).profile = p /\ Request(p, n).serial = n
BY DEF Request, Requests

\* A new request of a profile.
LEMMA StartRequestedStep ==
  ASSUME IInv, NEW p \in Profiles, StartRequested(p)
  PROVE  IInv'
<1>k. /\ Others /\ Sane(Now) /\ BootHeld(Now) /\ Where(Now, 0, Queued(ui), asked)
      /\ Now.startW = startW /\ asked \in Nat /\ NoProfile \in MaybeProfile
      /\ Profiles \subseteq MaybeProfile
  BY Known
<1>n. /\ asked' = asked + 1 /\ asked' \in 1 .. MaxSerial
      /\ UNCHANGED <<running, startedId, endpoints, stopW, offers, ui, used>>
  BY <1>k, BoundsAssumption DEF StartRequested, Others, untouched, profile
<1>s. start(Now, Request(p, asked + 1), FALSE)
  BY DEF StartRequested
<1>r. /\ Request(p, asked + 1) \in Requests /\ Request(p, asked + 1).profile = p
      /\ Request(p, asked + 1).serial = asked'
  BY <1>n, <1>k, RequestFields, BoundsAssumption
<1>1. Where(Now, asked', Queued(ui), asked')
  BY <1>k, <1>n, IntoHand DEF Where
<1>2. asked' # 1
  BY <1>k, <1>n DEF IInv
<1>3. geoFetch' = NoProfile => Others'
  BY <1>k, <1>n DEF Others
<1> QED BY <1>k, <1>n, <1>s, <1>r, <1>1, <1>2, <1>3, Handed

\* The ranking a request waited for is done.
LEMMA RankingDoneStep ==
  ASSUME IInv, RankingDone
  PROVE  IInv'
<1> DEFINE x == [Now EXCEPT !.ranking = NoRequest]
<1>k. /\ Others /\ Sane(Now) /\ BootHeld(Now) /\ Where(Now, 0, Queued(ui), asked)
      /\ Now.startW = startW /\ Now.ranking = ranking /\ Now.cm = cm
      /\ Now.answered = answered /\ ranking \in Requests
      /\ asked \in Nat /\ NoProfile \in MaybeProfile
  BY Known
<1>n. /\ ranking # NoRequest
      /\ UNCHANGED <<running, startedId, endpoints, stopW, offers, ui, asked, used>>
  BY DEF RankingDone, untouched, profile
<1>s. start(x, ranking, TRUE)
  BY DEF RankingDone
<1>0. /\ NoRequest \in Requests /\ NoRequest.serial = 0
  BY <1>k, RequestFields, BoundsAssumption DEF NoRequest
<1>x. /\ x \in Bundles /\ x.cm = cm /\ x.answered = answered /\ x.ranking = NoRequest
      /\ x.startW = startW
  BY <1>k, <1>0 DEF Sane, Bundles
<1> HIDE DEF x
<1>1. Sane(x)
  BY <1>k, <1>x DEF Sane, Real
<1>2. BootHeld(x) /\ (TunRequired /\ ranking.serial = 1 => TunSettled(x.cm))
  BY <1>k, <1>x, <1>0 DEF BootHeld
<1>3. Where(x, ranking.serial, Queued(ui), asked)
  BY <1>k, <1>x, <1>0, IntoHand DEF Where
<1>4. ranking.profile \in Profiles
  BY <1>k, <1>n DEF Sane, Real
<1>5. geoFetch' = NoProfile => Others'
  BY <1>k, <1>n DEF Others
<1> QED BY <1>k, <1>n, <1>s, <1>x, <1>1, <1>2, <1>3, <1>4, <1>5, Handed

\* A retry has no serial: it is a start of the application's own.
LEMMA RetryStep ==
  ASSUME IInv, NEW p \in Profiles, NEW q \in MaybeProfile,
         \/ start(Now, Request(p, 0), FALSE)
         \/ start([Now EXCEPT !.cm.geoRetried = q], Request(p, 0), FALSE),
         UNCHANGED <<running, startedId, endpoints, stopW, ui, asked, used>>,
         offers' \in SUBSET Profiles
  PROVE  IInv'
<1>k. /\ Others /\ Sane(Now) /\ BootHeld(Now) /\ Where(Now, 0, Queued(ui), asked)
      /\ Now.startW = startW /\ Now.cm = cm /\ Now.ranking = ranking
      /\ Now.answered = answered /\ cm \in Managers
      /\ asked \in Nat /\ NoProfile \in MaybeProfile /\ Profiles \subseteq MaybeProfile
  BY Known
<1>r. /\ Request(p, 0) \in Requests /\ Request(p, 0).profile = p /\ Request(p, 0).serial = 0
      /\ Request(p, 0).serial # 1 /\ asked' = asked
  BY <1>k, RequestFields, BoundsAssumption
<1>o. geoFetch' = NoProfile => Others'
  BY <1>k DEF Others
<1>1. CASE start(Now, Request(p, 0), FALSE)
  <2>1. Where(Now, Request(p, 0).serial, Queued(ui), asked')
    BY <1>k, <1>r
  <2> QED BY <1>1, <2>1, <1>k, <1>r, <1>o, Handed
<1>2. CASE start([Now EXCEPT !.cm.geoRetried = q], Request(p, 0), FALSE)
  <2> DEFINE x == [Now EXCEPT !.cm.geoRetried = q]
  <2>1. x = [Now EXCEPT !.cm = [cm EXCEPT !.geoRetried = q]]
    BY <1>k
  <2> HIDE DEF x
  <2>2. /\ [cm EXCEPT !.geoRetried = q] \in Managers
        /\ [cm EXCEPT !.geoRetried = q].ksDeferred = cm.ksDeferred
        /\ [cm EXCEPT !.geoRetried = q].coreReq = cm.coreReq
        /\ [cm EXCEPT !.geoRetried = q].tun = cm.tun
        /\ [cm EXCEPT !.geoRetried = q].remember = cm.remember
        /\ [cm EXCEPT !.geoRetried = q].bootSerial = cm.bootSerial
    BY <1>k DEF Managers
  <2>3. /\ x \in Bundles /\ x.cm = [cm EXCEPT !.geoRetried = q] /\ x.startW = startW
        /\ x.ranking = ranking /\ x.answered = answered
    BY <1>k, <2>1, <2>2 DEF Sane, Bundles
  <2>4. Sane(x) /\ BootHeld(x) /\ Where(x, 0, Queued(ui), asked)
    BY <1>k, <2>2, <2>3 DEF Sane, BootHeld, Where, TunSettled
  <2>5. start(x, Request(p, 0), FALSE)
    BY <1>2 DEF x
  <2>6. Where(x, Request(p, 0).serial, Queued(ui), asked')
    BY <2>4, <1>r
  <2> QED BY <2>3, <2>4, <2>5, <2>6, <1>k, <1>r, <1>o, Handed
<1> QED BY <1>1, <1>2

\* Nothing is started, and the members that the invariant does not read may change.
LEMMA Untouched ==
  ASSUME IInv, cm' \in Managers, env' \in Environments,
         cm'.ksDeferred = cm.ksDeferred, cm'.coreReq = cm.coreReq,
         cm'.bootSerial = cm.bootSerial, TunSettled(cm) => TunSettled(cm'),
         UNCHANGED <<answered, ranking, startW, asked>>, Others',
         Queued(ui)' = Queued(ui), Once', StopsFirst'
  PROVE  IInv'
<1>k. /\ Sane(Now) /\ BootHeld(Now) /\ Where(Now, 0, Queued(ui), asked) /\ Now.cm = cm
      /\ startW \in StartWorkers /\ ranking \in Requests
      /\ answered \in SUBSET (1 .. MaxSerial)
      /\ Now.startW = startW /\ Now.ranking = ranking /\ Now.answered = answered
  BY Known
<1>1. /\ Now'.cm = cm' /\ Now'.startW = startW /\ Now'.ranking = ranking
      /\ Now'.answered = answered
  BY DEF Now
<1>2. TypeOK' /\ asked' # 0
  BY <1>k DEF TypeOK, Others, IInv
<1>3. Now' \in Bundles
  BY <1>2 DEF TypeOK, Now, Bundles
<1>4. Sane(Now)'
  BY <1>1, <1>3, <1>k DEF Sane
<1>5. Where(Now, 0, Queued(ui), asked)'
  BY <1>1, <1>k DEF Where
<1>6. BootHeld(Now)'
  BY <1>1, <1>k DEF BootHeld
<1> QED BY <1>2, <1>4, <1>5, <1>6 DEF IInv

\* The offer of a retry, and the geo assets that arrive.
LEMMA RetriesStep ==
  ASSUME IInv, (\E p \in Profiles : OfferAnswered(p)) \/ GeoFetched
  PROVE  IInv'
<1>k. /\ Others /\ cm \in Managers /\ env \in Environments /\ Now.cm = cm /\ Now.env = env
      /\ Now.startW = startW /\ Now.ranking = ranking /\ Now.answered = answered
      /\ NoProfile \in MaybeProfile /\ Profiles \subseteq MaybeProfile
  BY Known
<1>i. Once /\ StopsFirst
  BY DEF IInv
<1>1. ASSUME NEW p \in Profiles, OfferAnswered(p) PROVE IInv'
  <2>u. /\ UNCHANGED <<running, startedId, endpoints, stopW, ui, asked, used>>
        /\ offers' \in SUBSET Profiles
    BY <1>1, <1>k DEF OfferAnswered, profile, Others
  <2>1. CASE start(Now, Request(p, 0), FALSE)
    BY <2>1, <2>u, <1>k, RetryStep
  <2>2. CASE Becomes(Now) /\ UNCHANGED geoFetch
    <3>1. UNCHANGED <<cm, env, answered, ranking, startW>>
      BY <2>2, <1>k DEF Becomes
    <3>2. Others' /\ Once' /\ StopsFirst' /\ Queued(ui)' = Queued(ui)
      BY <2>u, <2>2, <3>1, <1>k, <1>i DEF Others, Once, StopsFirst
    <3> QED BY <3>1, <3>2, <2>u, <1>k, Untouched
  <2> QED BY <2>1, <2>2, <1>1 DEF OfferAnswered
<1>2. CASE GeoFetched
  <2> DEFINE x == [Now EXCEPT !.cm.geoRetried = geoFetch]
  <2>u. /\ UNCHANGED <<running, startedId, endpoints, stopW, ui, asked, used, offers>>
        /\ geoFetch \in Profiles /\ offers \in SUBSET Profiles
    BY <1>2, <1>k DEF GeoFetched, untouched, profile, Others, MaybeProfile
  <2>1. CASE start(x, Request(geoFetch, 0), FALSE)
    BY <2>1, <2>u, <1>k, RetryStep
  <2>2. CASE Becomes(x) /\ geoFetch' = NoProfile
    <3>1. x = [Now EXCEPT !.cm = [cm EXCEPT !.geoRetried = geoFetch]]
      BY <1>k
    <3>2. /\ x.cm = [cm EXCEPT !.geoRetried = geoFetch] /\ x.env = env /\ x.startW = startW
          /\ x.ranking = ranking /\ x.answered = answered
      BY <3>1, <1>k DEF Now
    <3>3. /\ cm' = [cm EXCEPT !.geoRetried = geoFetch]
          /\ UNCHANGED <<env, answered, ranking, startW>>
      BY <2>2, <3>2 DEF Becomes
    <3>4. /\ cm' \in Managers /\ cm'.ksDeferred = cm.ksDeferred /\ cm'.coreReq = cm.coreReq
          /\ cm'.bootSerial = cm.bootSerial /\ cm'.tun = cm.tun /\ cm'.remember = cm.remember
      BY <3>3, <2>u, <1>k DEF Managers
    <3>5. Others' /\ Once' /\ StopsFirst' /\ Queued(ui)' = Queued(ui)
      BY <2>u, <2>2, <3>3, <1>k, <1>i DEF Others, Once, StopsFirst
    <3> QED BY <3>3, <3>4, <3>5, <2>u, <1>k, Untouched DEF TunSettled
  <2> QED BY <2>1, <2>2, <1>2 DEF GeoFetched
<1> QED BY <1>1, <1>2

\* coreStarted, from a state x whose Tun was restored or held.
LEMMA OnCoreStarted ==
  ASSUME IInv, NEW x, Sane(x), x.startW = startW, BootHeld(x),
         Where(x, 0, Queued(ui), asked),
         TunRequired /\ ~TunSettled(x.cm) => x.cm.held,
         NEW id \in MaybeProfile, onCoreStarted(x, id),
         UNCHANGED <<running, startedId, endpoints, stopW, offers, ui, asked, used>>
  PROVE  IInv'
<1> DEFINE req  == x.cm.coreReq
           boot == x.cm.bootSerial
           y == [x EXCEPT !.cm.guardRestart = FALSE, !.cm.coreReq = NoRequest,
                          !.cm.bootSerial = 0]
           z == IF req.profile = id THEN y ELSE Answer(y, req)
           next == IF req.profile = id THEN req ELSE Request(id, 0)
<1>k. Others /\ asked \in Nat /\ NoProfile \in MaybeProfile
  BY Known
<1>s. \/ id = NoProfile /\ Becomes(z) /\ UNCHANGED geoFetch
      \/ id # NoProfile /\ HeldBack(z, next, boot) /\ Becomes(Answer(z, next))
         /\ UNCHANGED geoFetch
      \/ id # NoProfile /\ ~HeldBack(z, next, boot) /\ start(z, next, FALSE)
  BY DEF onCoreStarted
<1>0. NoRequest \in Requests /\ NoRequest.serial = 0 /\ NoRequest.profile = NoProfile
      /\ Request(id, 0) \in Requests /\ Request(id, 0).serial = 0 /\ Request(id, 0).profile = id
      /\ 0 \in 0 .. MaxSerial
  BY <1>k, RequestFields, BoundsAssumption DEF NoRequest
<1>t. x \in Bundles /\ x.cm \in Managers /\ req \in Requests /\ Real(req)
  BY DEF Sane, Bundles, Managers
<1>m. /\ y.cm \in Managers /\ y.cm.ksDeferred = x.cm.ksDeferred /\ y.cm.coreReq = NoRequest
      /\ y.cm.tun = x.cm.tun /\ y.cm.remember = x.cm.remember /\ y.cm.held = x.cm.held
      /\ y \in Bundles /\ y.ranking = x.ranking /\ y.startW = x.startW
      /\ y.answered = x.answered
  <2> DEFINE m == [x.cm EXCEPT !.guardRestart = FALSE, !.coreReq = NoRequest, !.bootSerial = 0]
  <2>1. y = [x EXCEPT !.cm = m]
    BY <1>t DEF Bundles
  <2>2. /\ m \in Managers /\ m.ksDeferred = x.cm.ksDeferred /\ m.coreReq = NoRequest
        /\ m.tun = x.cm.tun /\ m.remember = x.cm.remember /\ m.held = x.cm.held
    BY <1>t, <1>0 DEF Managers
  <2> HIDE DEF m, y
  <2> QED BY <2>1, <2>2, <1>t DEF Bundles
<1> HIDE DEF y
<1>1. Sane(y) /\ BootHeld(y) /\ Where(y, req.serial, Queued(ui), asked)
  <2>1. Sane(y)
    BY <1>m DEF Sane, Real
  <2>2. BootHeld(y)
    BY <1>m, <1>0 DEF BootHeld, TunSettled
  <2>3. Where(y, req.serial, Queued(ui), asked)
    BY <1>m, <1>0, <1>k, IntoHand DEF Where
  <2> QED BY <2>1, <2>2, <2>3
<1>2. Goes(y, Answer(y, req), req) /\ Answer(y, req).cm = y.cm
      /\ Answer(y, req).startW = y.startW /\ Answer(y, req).ranking = y.ranking
      /\ Sane(Answer(y, req))
  BY <1>1, <1>t, AnswerGoes, AnswerFields
<1>3. Where(Answer(y, req), 0, Queued(ui), asked)
  BY <1>1, <1>2, <1>k, GoesWhere
<1>4. /\ Sane(z) /\ BootHeld(z) /\ z.startW = startW
      /\ z.cm.tun = x.cm.tun /\ z.cm.remember = x.cm.remember /\ z.cm.held = x.cm.held
  BY <1>1, <1>2, <1>m DEF BootHeld
<1>5. next \in Requests /\ next.profile = id
  BY <1>t, <1>0
<1>6. Where(z, next.serial, Queued(ui), asked)
  BY <1>1, <1>3, <1>0
<1>7. asked' \in {asked, asked + 1} /\ (geoFetch' \in {geoFetch, NoProfile} => Others')
  BY <1>k DEF Others
<1>8. CASE id = NoProfile /\ Becomes(z) /\ UNCHANGED geoFetch
  <2>1. Where(z, 0, Queued(ui), asked')
    <3>1. CASE req.profile = id
      <4>1. req = NoRequest
        BY <3>1, <1>8, <1>t, ProfilesAssumption DEF Real
      <4> QED BY <4>1, <3>1, <1>6, <1>0
    <3>2. CASE req.profile # id
      BY <3>2, <1>3
    <3> QED BY <3>1, <3>2
  <2> HIDE DEF z
  <2> QED BY <2>1, <1>8, <1>4, <1>7, Settled
<1>9. CASE Becomes(Answer(z, next)) /\ UNCHANGED geoFetch
  <2> HIDE DEF z, next
  <2>1. Goes(z, Answer(z, next), next) /\ Answer(z, next).cm = z.cm
        /\ Answer(z, next).startW = z.startW /\ Answer(z, next).ranking = z.ranking
        /\ Sane(Answer(z, next))
    BY <1>4, <1>5, AnswerGoes, AnswerFields
  <2>2. Where(Answer(z, next), 0, Queued(ui), asked')
    BY <2>1, <1>4, <1>6, <1>k, GoesWhere
  <2>3. BootHeld(Answer(z, next))
    BY <2>1, <1>4 DEF BootHeld
  <2> QED BY <2>1, <2>2, <2>3, <1>9, <1>4, <1>7, Settled
<1>10. CASE id # NoProfile /\ ~HeldBack(z, next, boot) /\ start(z, next, FALSE)
  <2>1. id \in Profiles
    BY <1>10 DEF MaybeProfile
  <2>2. ASSUME TunRequired, next.serial = 1 PROVE TunSettled(z.cm)
    <3>1. req.serial = 1
      BY <2>2, <1>0
    <3>2. TunSettled(x.cm) \/ (boot = 1 /\ x.cm.held)
      BY <2>2, <3>1 DEF BootHeld
    <3>3. ~(boot = 1 /\ x.cm.held)
      BY <2>2, <1>4, <1>10 DEF HeldBack
    <3> QED BY <3>2, <3>3, <1>4 DEF TunSettled
  <2>3. Where(z, next.serial, Queued(ui), asked')
    BY <1>6
  <2> HIDE DEF z, next
  <2> QED BY <2>1, <2>2, <2>3, <1>4, <1>5, <1>7, <1>10, Handed
<1> QED BY <1>s, <1>8, <1>9, <1>10

\* The core's report that it came up.
LEMMA CoreStartedStep ==
  ASSUME IInv, CoreStarted
  PROVE  IInv'
<1>k. /\ Others /\ Sane(Now) /\ BootHeld(Now) /\ Where(Now, 0, Queued(ui), asked)
      /\ cm \in Managers /\ env \in Environments
      /\ Now.startW = startW /\ Now.cm = cm /\ Now.ranking = ranking /\ Now.env = env
      /\ Now.answered = answered /\ NoProfile \in MaybeProfile
  BY Known
<1>1. PICK works \in BOOLEAN, k \in Rearmed(env.ks) :
        onCoreStarted([Now EXCEPT !.cm = RestoreTun(@, works),
                                  !.env = [@ EXCEPT !.probing = FALSE, !.ks = k,
                                                    !.startWhenUp = NoProfile]],
                      env.startWhenUp)
  BY DEF CoreStarted
<1> DEFINE m == RestoreTun(cm, works)
           e == [env EXCEPT !.probing = FALSE, !.ks = k, !.startWhenUp = NoProfile]
           x == [Now EXCEPT !.cm = RestoreTun(@, works),
                            !.env = [@ EXCEPT !.probing = FALSE, !.ks = k,
                                              !.startWhenUp = NoProfile]]
<1>2. x = [Now EXCEPT !.cm = m, !.env = e]
  BY <1>k
<1>3. /\ m \in Managers /\ m.ksDeferred = cm.ksDeferred /\ m.coreReq = cm.coreReq
      /\ m.bootSerial = cm.bootSerial /\ (TunSettled(cm) => TunSettled(m))
      /\ TunRequired /\ ~TunSettled(m) => m.held
  <2> DEFINE tun == cm.tun \/ (cm.remember /\ works)
             held == TunRequired /\ cm.remember /\ ~tun
  <2>1. tun \in BOOLEAN /\ held \in BOOLEAN /\ cm.remember \in BOOLEAN
    BY <1>k DEF Managers
  <2>2. m = [cm EXCEPT !.tun = tun, !.held = held]
    BY DEF RestoreTun
  <2> HIDE DEF m
  <2>3. /\ m.ksDeferred = cm.ksDeferred /\ m.coreReq = cm.coreReq
        /\ m.bootSerial = cm.bootSerial /\ m.remember = cm.remember
        /\ m.tun = tun /\ m.held = held
    BY <2>2, <1>k DEF Managers
  <2>4. m \in Managers
    <3> HIDE DEF tun, held
    <3> QED BY <2>1, <2>2, <1>k DEF Managers
  <2> QED BY <2>1, <2>3, <2>4 DEF TunSettled
<1>4. e \in Environments /\ env.startWhenUp \in MaybeProfile
  <2>1. k \in {"Disabled", "Arming", "Armed", "Failed"}
    BY <1>k DEF Rearmed, Environments
  <2> QED BY <2>1, <1>k DEF Environments
<1>5. onCoreStarted(x, env.startWhenUp)
  BY <1>1
<1> HIDE DEF m, e, x
<1>6. /\ x \in Bundles /\ x.cm = m /\ x.startW = startW /\ x.ranking = ranking
      /\ x.answered = answered
  BY <1>2, <1>3, <1>4, <1>k DEF Sane, Bundles
<1>7. Sane(x) /\ BootHeld(x) /\ Where(x, 0, Queued(ui), asked)
  BY <1>3, <1>6, <1>k DEF Sane, BootHeld, Where
<1>8. UNCHANGED <<running, startedId, endpoints, stopW, offers, ui, asked, used>>
  BY DEF CoreStarted, untouched, profile
<1> QED BY <1>3, <1>4, <1>5, <1>6, <1>7, <1>8, OnCoreStarted

\* A bundle whose environment alone changed.
LEMMA EnvOnly ==
  ASSUME NEW x, Sane(x), NEW e \in Environments
  PROVE  LET y == [x EXCEPT !.env = e] IN
         /\ Sane(y) /\ y.cm = x.cm /\ y.env = e /\ y.startW = x.startW
         /\ y.ranking = x.ranking /\ y.answered = x.answered
<1> DEFINE y == [x EXCEPT !.env = e]
<1>1. /\ y \in Bundles /\ y.cm = x.cm /\ y.env = e /\ y.startW = x.startW
      /\ y.ranking = x.ranking /\ y.answered = x.answered
  BY DEF Sane, Bundles
<1> HIDE DEF y
<1>2. Sane(y)
  BY <1>1 DEF Sane
<1> QED BY <1>1, <1>2 DEF y

\* A bundle from which the request waiting for the core, or the one waiting for
\* the kill switch, was taken.
LEMMA TakenOut ==
  ASSUME NEW x, Sane(x), BootHeld(x), NEW P, NEW a \in Nat, Where(x, 0, P, a),
         NoRequest \in Requests
  PROVE  /\ LET y == [x EXCEPT !.cm.coreReq = NoRequest] IN
              /\ Sane(y) /\ BootHeld(y) /\ Where(y, x.cm.coreReq.serial, P, a)
              /\ y.cm.ksDeferred = x.cm.ksDeferred /\ Settings(x, y)
              /\ y.startW = x.startW /\ y.ranking = x.ranking /\ y.env = x.env
         /\ LET y == [x EXCEPT !.cm.ksDeferred = NoRequest] IN
              /\ Sane(y) /\ BootHeld(y) /\ Where(y, x.cm.ksDeferred.serial, P, a)
              /\ Settings(x, y) /\ y.startW = x.startW
<1>0. NoRequest.serial = 0 /\ Real(NoRequest)
  BY DEF NoRequest, Request, Real
<1>t. x \in Bundles /\ x.cm \in Managers
  BY DEF Sane, Bundles
<1>1. ASSUME NEW y, NEW m \in Managers, y = [x EXCEPT !.cm = m]
      PROVE  /\ y \in Bundles /\ y.cm = m /\ y.env = x.env /\ y.startW = x.startW
             /\ y.ranking = x.ranking /\ y.answered = x.answered
  BY <1>1, <1>t DEF Bundles
<1>2. ASSUME NEW y, y = [x EXCEPT !.cm = [x.cm EXCEPT !.coreReq = NoRequest]]
      PROVE  /\ Sane(y) /\ BootHeld(y) /\ Where(y, x.cm.coreReq.serial, P, a)
             /\ y.cm.ksDeferred = x.cm.ksDeferred /\ Settings(x, y)
             /\ y.startW = x.startW /\ y.ranking = x.ranking /\ y.env = x.env
  <2> DEFINE m == [x.cm EXCEPT !.coreReq = NoRequest]
  <2>1. /\ m \in Managers /\ m.ksDeferred = x.cm.ksDeferred /\ m.coreReq = NoRequest
        /\ m.tun = x.cm.tun /\ m.remember = x.cm.remember /\ m.bootSerial = x.cm.bootSerial
    BY <1>t DEF Managers
  <2>2. y = [x EXCEPT !.cm = m]
    BY <1>2
  <2> HIDE DEF m
  <2>3. /\ y \in Bundles /\ y.cm = m /\ y.env = x.env /\ y.startW = x.startW
        /\ y.ranking = x.ranking /\ y.answered = x.answered
    BY <2>1, <2>2, <1>1
  <2>4. Sane(y) /\ BootHeld(y) /\ Settings(x, y)
    BY <2>1, <2>3, <1>0 DEF Sane, BootHeld, Settings, TunSettled
  <2>5. Where(y, x.cm.coreReq.serial, P, a)
    BY <2>1, <2>3, <1>0, IntoHand DEF Where
  <2> QED BY <2>1, <2>3, <2>4, <2>5
<1>3. ASSUME NEW y, y = [x EXCEPT !.cm = [x.cm EXCEPT !.ksDeferred = NoRequest]]
      PROVE  /\ Sane(y) /\ BootHeld(y) /\ Where(y, x.cm.ksDeferred.serial, P, a)
             /\ Settings(x, y) /\ y.startW = x.startW
  <2> DEFINE m == [x.cm EXCEPT !.ksDeferred = NoRequest]
  <2>1. /\ m \in Managers /\ m.ksDeferred = NoRequest /\ m.coreReq = x.cm.coreReq
        /\ m.tun = x.cm.tun /\ m.remember = x.cm.remember /\ m.bootSerial = x.cm.bootSerial
    BY <1>t DEF Managers
  <2>2. y = [x EXCEPT !.cm = m]
    BY <1>3
  <2> HIDE DEF m
  <2>3. /\ y \in Bundles /\ y.cm = m /\ y.env = x.env /\ y.startW = x.startW
        /\ y.ranking = x.ranking /\ y.answered = x.answered
    BY <2>1, <2>2, <1>1
  <2>4. Sane(y) /\ BootHeld(y) /\ Settings(x, y)
    BY <2>1, <2>3, <1>0 DEF Sane, BootHeld, Settings, TunSettled
  <2>5. Where(y, x.cm.ksDeferred.serial, P, a)
    BY <2>1, <2>3, <1>0, IntoHand DEF Where
  <2> QED BY <2>3, <2>4, <2>5
<1> QED BY <1>2, <1>3

\* The kill switch's change of state: a start that waited for the core still does,
\* or is answered.
LEMMA KillSwitchChanged ==
  ASSUME IInv, NEW x, Sane(x), BootHeld(x), Where(x, 0, Queued(ui), asked)
  PROVE  LET y == onKillSwitchStateChanged(x) IN
         /\ Sane(y) /\ BootHeld(y) /\ Where(y, 0, Queued(ui), asked)
         /\ y.cm.ksDeferred = x.cm.ksDeferred /\ y.startW = x.startW
         /\ Settings(x, y)
<1> DEFINE waits == x.env.probing /\ x.env.startWhenUp # NoProfile
           carried == CASE waits /\ x.cm.coreReq # NoRequest -> x.cm.coreReq
                        [] waits /\ x.cm.coreReq = NoRequest -> Request(x.env.startWhenUp, 0)
                        [] OTHER -> Request(startedId, 0)
           out == [x EXCEPT !.cm.coreReq = NoRequest]
           taken == IF waits THEN out ELSE x
           y == restartCoreForGuard(taken, carried)
<1>k. Others /\ asked \in Nat /\ NoProfile \in MaybeProfile /\ startedId \in MaybeProfile
  BY Known DEF Others
<1>0. NoRequest \in Requests /\ NoRequest.serial = 0 /\ Real(NoRequest) /\ 0 \in 0 .. MaxSerial
  BY <1>k, RequestFields, BoundsAssumption DEF NoRequest, Real
<1>t. /\ x \in Bundles /\ x.cm \in Managers /\ x.env \in Environments
      /\ x.cm.coreReq \in Requests /\ Real(x.cm.coreReq) /\ x.env.startWhenUp \in MaybeProfile
  BY DEF Sane, Bundles, Managers, Environments
<1>r. ASSUME NEW p \in MaybeProfile
      PROVE  Request(p, 0) \in Requests /\ Request(p, 0).serial = 0 /\ Real(Request(p, 0))
  <2>1. p = NoProfile \/ p \in Profiles
    BY DEF MaybeProfile
  <2> QED BY <2>1, <1>0, RequestFields DEF Real, NoRequest
<1>o. /\ Sane(out) /\ BootHeld(out) /\ Where(out, x.cm.coreReq.serial, Queued(ui), asked)
      /\ out.cm.ksDeferred = x.cm.ksDeferred /\ Settings(x, out)
      /\ out.startW = x.startW /\ out.ranking = x.ranking
  BY <1>k, <1>0, TakenOut
<1> HIDE DEF out
<1>1. /\ carried \in Requests /\ Real(carried)
      /\ carried.serial = IF waits THEN x.cm.coreReq.serial ELSE 0
      /\ carried.serial # 0 => carried = x.cm.coreReq
  <2>1. CASE waits /\ x.cm.coreReq # NoRequest
    <3>1. carried = x.cm.coreReq
      BY <2>1
    <3> QED BY <3>1, <2>1, <1>t
  <2>2. CASE waits /\ x.cm.coreReq = NoRequest
    <3>1. carried = Request(x.env.startWhenUp, 0)
      BY <2>2
    <3> QED BY <3>1, <2>2, <1>t, <1>r, <1>0
  <2>3. CASE ~waits
    <3>1. carried = Request(startedId, 0)
      BY <2>3
    <3> QED BY <3>1, <2>3, <1>k, <1>r
  <2> QED BY <2>1, <2>2, <2>3
<1>2. /\ Sane(taken) /\ BootHeld(taken) /\ Where(taken, carried.serial, Queued(ui), asked)
      /\ taken.cm.ksDeferred = x.cm.ksDeferred /\ Settings(x, taken)
      /\ taken.startW = x.startW /\ taken.ranking = x.ranking
  BY <1>1, <1>o DEF Settings
<1>3. onKillSwitchStateChanged(x) =
        IF x.env.ks = "Armed" /\ ~x.cm.guardRestart /\ runningWithoutGuardIdentity(x.env)
        THEN y ELSE x
  BY DEF onKillSwitchStateChanged, out
<1> HIDE DEF carried, taken
<1>4. Goes(taken, y, carried) /\ Kept(taken, y)
  BY <1>1, <1>2, GuardGoes
<1> HIDE DEF y
<1>5. Sane(y) /\ Settings(taken, y) /\ Where(y, 0, Queued(ui), asked)
  BY <1>2, <1>4, <1>k, GoesWhere DEF Goes
<1>6. y.cm.ksDeferred = x.cm.ksDeferred /\ y.startW = x.startW /\ y.ranking = x.ranking
      /\ Settings(x, y)
  BY <1>2, <1>4, <1>5 DEF Kept, Settings
<1>7. BootHeld(y)
  <2>1. y.cm.coreReq = taken.cm.coreReq \/ y.cm.coreReq = carried
    BY <1>4 DEF Goes
  <2>2. y.cm.coreReq.serial = 1 => 1 \in {taken.cm.coreReq.serial, x.cm.coreReq.serial}
    BY <2>1, <1>1
  <2> QED BY <2>2, <1>2, <1>6 DEF BootHeld, Settings, TunSettled
<1>8. /\ Settings(x, x) /\ x.startW = x.startW
  BY DEF Settings
<1> QED BY <1>3, <1>5, <1>6, <1>7, <1>8

\* The kill switch settles, and the request that waited for it is started.
LEMMA KillSwitchSettlesStep ==
  ASSUME IInv, KillSwitchSettles
  PROVE  IInv'
<1>k. /\ Others /\ Sane(Now) /\ BootHeld(Now) /\ Where(Now, 0, Queued(ui), asked)
      /\ cm \in Managers /\ env \in Environments
      /\ Now.startW = startW /\ Now.cm = cm /\ Now.ranking = ranking /\ Now.env = env
      /\ Now.answered = answered /\ NoProfile \in MaybeProfile /\ asked \in Nat
  BY Known
<1>u. UNCHANGED <<running, startedId, endpoints, stopW, offers, ui, asked, used>>
  BY DEF KillSwitchSettles, untouched, profile
<1>1. PICK k \in {"Armed", "Failed", "Disabled"} :
        LET x == onKillSwitchStateChanged([Now EXCEPT !.env.ks = k])
            y == [x EXCEPT !.cm.ksDeferred = NoRequest]
        IN \/ /\ cm.ksDeferred = NoRequest
              /\ Becomes(x) /\ UNCHANGED geoFetch
           \/ /\ cm.ksDeferred # NoRequest
              /\ start(y, cm.ksDeferred, FALSE)
  BY DEF KillSwitchSettles
<1> DEFINE n == [Now EXCEPT !.env.ks = k]
           x == onKillSwitchStateChanged(n)
           y == [x EXCEPT !.cm.ksDeferred = NoRequest]
<1>2. /\ Sane(n) /\ n.cm = cm /\ n.startW = startW /\ n.ranking = ranking
      /\ n.answered = answered
  <2>1. n = [Now EXCEPT !.env = [env EXCEPT !.ks = k]]
    BY <1>k
  <2>2. [env EXCEPT !.ks = k] \in Environments
    BY <1>k DEF Environments
  <2> QED BY <2>1, <2>2, <1>k, EnvOnly
<1>s. \/ cm.ksDeferred = NoRequest /\ Becomes(x) /\ UNCHANGED geoFetch
      \/ cm.ksDeferred # NoRequest /\ start(y, cm.ksDeferred, FALSE)
  BY <1>1
<1> HIDE DEF n
<1>3. BootHeld(n) /\ Where(n, 0, Queued(ui), asked)
  BY <1>2, <1>k DEF BootHeld, Where
<1>4. /\ Sane(x) /\ BootHeld(x) /\ Where(x, 0, Queued(ui), asked)
      /\ x.cm.ksDeferred = cm.ksDeferred /\ x.startW = startW
      /\ Settings(n, x)
  BY <1>2, <1>3, KillSwitchChanged
<1> HIDE DEF x
<1>o. asked' \in {asked, asked + 1} /\ (geoFetch' \in {geoFetch, NoProfile} => Others')
  BY <1>u, <1>k DEF Others
<1>5. CASE Becomes(x) /\ UNCHANGED geoFetch
  BY <1>5, <1>4, <1>u, <1>o, Settled
<1>6. CASE cm.ksDeferred # NoRequest /\ start(y, cm.ksDeferred, FALSE)
  <2>0. NoRequest \in Requests
    BY <1>k, RequestFields, BoundsAssumption DEF NoRequest
  <2>1. /\ Sane(y) /\ BootHeld(y) /\ Where(y, cm.ksDeferred.serial, Queued(ui), asked)
        /\ Settings(x, y) /\ y.startW = startW
    BY <2>0, <1>4, <1>k, TakenOut
  <2>2. cm.ksDeferred \in Requests /\ cm.ksDeferred.profile \in Profiles
    BY <1>6, <1>k DEF Sane, Real, Managers
  <2>3. TunRequired /\ cm.ksDeferred.serial = 1 => TunSettled(y.cm)
    BY <2>1, <1>4 DEF BootHeld, Settings, TunSettled
  <2>4. Where(y, cm.ksDeferred.serial, Queued(ui), asked')
    BY <2>1, <1>u
  <2> HIDE DEF y
  <2> QED BY <2>1, <2>2, <2>3, <2>4, <1>6, <1>u, <1>o, Handed
<1> QED BY <1>s, <1>5, <1>6

\* SetTun settles the Tun, and restarts the started profile.
LEMMA SetTunStep ==
  ASSUME IInv, NEW enable \in BOOLEAN, SetTun(enable)
  PROVE  IInv'
<1> DEFINE m == [cm EXCEPT !.tun = enable, !.remember = enable, !.held = FALSE]
           x == [Now EXCEPT !.cm = [@ EXCEPT !.tun = enable, !.remember = enable,
                                             !.held = FALSE]]
<1>k. /\ Others /\ Sane(Now) /\ BootHeld(Now) /\ Where(Now, 0, Queued(ui), asked)
      /\ cm \in Managers
      /\ Now.startW = startW /\ Now.cm = cm /\ Now.ranking = ranking /\ Now.env = env
      /\ Now.answered = answered /\ NoProfile \in MaybeProfile /\ asked \in Nat
      /\ Profiles \subseteq MaybeProfile
  BY Known
<1>u. UNCHANGED <<running, startedId, endpoints, stopW, offers, ui>> /\ used' \in 0 .. MaxEvents
  BY <1>k, BoundsAssumption DEF SetTun, untouched, profile, Event, Others
<1>s. \/ Becomes(x) /\ UNCHANGED <<asked, geoFetch>>
      \/ /\ startedId # NoProfile /\ asked < MaxSerial /\ asked' = asked + 1
         /\ start(x, Request(startedId, asked + 1), FALSE)
  BY DEF SetTun
<1>1. /\ m \in Managers /\ m.ksDeferred = cm.ksDeferred /\ m.coreReq = cm.coreReq
      /\ m.tun = enable /\ m.remember = enable
  BY <1>k DEF Managers
<1>2. x = [Now EXCEPT !.cm = m]
  BY <1>k
<1>3. TunSettled(m)
  BY <1>1 DEF TunSettled
<1> HIDE DEF m, x
<1>4. /\ x \in Bundles /\ x.cm = m /\ x.startW = startW /\ x.ranking = ranking
      /\ x.answered = answered
  BY <1>2, <1>1, <1>k DEF Sane, Bundles
<1>5. Sane(x) /\ BootHeld(x) /\ Where(x, 0, Queued(ui), asked)
  BY <1>1, <1>3, <1>4, <1>k DEF Sane, BootHeld, Where
<1>6. CASE Becomes(x) /\ UNCHANGED <<asked, geoFetch>>
  <2>1. Others'
    BY <1>6, <1>u, <1>k DEF Others
  <2>2. Where(x, 0, Queued(ui), asked') /\ asked' \in {asked, asked + 1}
    BY <1>5, <1>6
  <2> QED BY <2>1, <2>2, <1>4, <1>5, <1>6, <1>u, Settled
<1>7. CASE /\ startedId # NoProfile /\ asked < MaxSerial /\ asked' = asked + 1
           /\ start(x, Request(startedId, asked + 1), FALSE)
  <2>1. asked + 1 \in 1 .. MaxSerial /\ asked + 1 \in 0 .. MaxSerial /\ asked' = asked + 1
    BY <1>7, <1>k, BoundsAssumption
  <2>2. startedId \in Profiles
    BY <1>7, <1>k DEF Others, MaybeProfile
  <2>3. /\ Request(startedId, asked + 1) \in Requests
        /\ Request(startedId, asked + 1).profile = startedId
        /\ Request(startedId, asked + 1).serial = asked'
    BY <2>1, <2>2, <1>k, RequestFields
  <2>4. Where(x, asked', Queued(ui), asked')
    BY <2>1, <1>5, <1>k, IntoHand DEF Where
  <2>5. geoFetch' = NoProfile => Others'
    BY <2>1, <1>u, <1>k DEF Others
  <2>6. start(x, Request(startedId, asked + 1), FALSE)
    BY <1>7
  <2>7. TunRequired /\ Request(startedId, asked + 1).serial = 1 => TunSettled(x.cm)
    BY <1>3, <1>4
  <2>8. Where(x, Request(startedId, asked + 1).serial, Queued(ui), asked')
    BY <2>3, <2>4
  <2> QED BY <2>1, <2>2, <2>3, <2>5, <2>6, <2>7, <2>8, <1>4, <1>5, <1>u, Handed
<1> QED BY <1>s, <1>6, <1>7

\* The core's exit: the supervisor restarts it, or gives up and the request that
\* waited for it is answered.
LEMMA CoreExitedStep ==
  ASSUME IInv, CoreExited
  PROVE  IInv'
<1>k. /\ Others /\ Sane(Now) /\ BootHeld(Now) /\ Where(Now, 0, Queued(ui), asked)
      /\ cm \in Managers /\ env \in Environments
      /\ Now.startW = startW /\ Now.cm = cm /\ Now.ranking = ranking /\ Now.env = env
      /\ Now.answered = answered /\ NoProfile \in MaybeProfile /\ asked \in Nat
  BY Known
<1>u. UNCHANGED <<running, endpoints, stopW, ui, geoFetch, offers, asked, used>>
  BY DEF CoreExited
<1>1. ASSUME NEW p \in MaybeProfile,
             env' = [env EXCEPT !.life = "restarting", !.probing = FALSE, !.startWhenUp = p],
             startedId' \in MaybeProfile, UNCHANGED <<cm, answered, ranking, startW>>
      PROVE  IInv'
  <2>1. env' \in Environments
    BY <1>1, <1>k DEF Environments
  <2>2. Others' /\ Once' /\ StopsFirst' /\ Queued(ui)' = Queued(ui)
    BY <1>1, <1>u, <1>k DEF Others, IInv, Once, StopsFirst
  <2> QED BY <2>1, <2>2, <1>1, <1>u, <1>k, Untouched
<1>2. ASSUME Becomes([onCoreGaveUp(Now) EXCEPT
                        !.env = [@ EXCEPT !.life = "gone", !.probing = FALSE,
                                          !.startWhenUp = NoProfile]]),
             startedId' = NoProfile
      PROVE  IInv'
  <2> DEFINE a == Answer(Now, Now.cm.coreReq)
             g == onCoreGaveUp(Now)
             m == [cm EXCEPT !.coreReq = NoRequest, !.guardRestart = FALSE]
             e == [env EXCEPT !.life = "gone", !.probing = FALSE, !.startWhenUp = NoProfile]
             x == [g EXCEPT !.env = [@ EXCEPT !.life = "gone", !.probing = FALSE,
                                              !.startWhenUp = NoProfile]]
  <2>0. NoRequest \in Requests /\ NoRequest.serial = 0 /\ Real(NoRequest)
    BY <1>k, RequestFields, BoundsAssumption DEF NoRequest, Real
  <2>c. cm.coreReq \in Requests
    BY <1>k DEF Managers
  <2>1. /\ Sane(a) /\ a.answered = answered \cup Told(cm.coreReq)
        /\ a.cm = cm /\ a.env = env /\ a.ranking = ranking /\ a.startW = startW
    BY <2>c, <1>k, AnswerFields
  <2>b. Becomes(x)
    BY <1>2
  <2>g. g = [a EXCEPT !.cm.coreReq = NoRequest, !.cm.guardRestart = FALSE]
    BY DEF onCoreGaveUp
  <2> HIDE DEF a, g
  <2>2. g = [a EXCEPT !.cm = m]
    BY <2>g, <2>1 DEF Sane, Bundles
  <2>3. /\ m \in Managers /\ m.ksDeferred = cm.ksDeferred /\ m.coreReq = NoRequest
        /\ m.tun = cm.tun /\ m.remember = cm.remember
    BY <2>0, <1>k DEF Managers
  <2>4. e \in Environments
    BY <1>k DEF Environments
  <2> HIDE DEF m
  <2>5. g \in Bundles /\ g.cm = m /\ g.env = env /\ g.answered = a.answered
        /\ g.ranking = ranking /\ g.startW = startW
    BY <2>1, <2>2, <2>3 DEF Sane, Bundles
  <2>6. x = [g EXCEPT !.env = e]
    BY <2>5
  <2> HIDE DEF x, e
  <2>7. Sane(g)
    BY <2>0, <2>1, <2>3, <2>5, <1>k DEF Sane
  <2>8. /\ Sane(x) /\ x.cm = m /\ x.startW = startW /\ x.ranking = ranking
        /\ x.answered = answered \cup Told(cm.coreReq)
    BY <2>1, <2>4, <2>5, <2>6, <2>7, EnvOnly
  <2>9. BootHeld(x)
    BY <2>0, <2>3, <2>8, <1>k DEF BootHeld, TunSettled
  <2>10. Where(x, 0, Queued(ui), asked)
    BY <2>0, <2>3, <2>8, <1>k, HandToCore DEF Where, Told
  <2>11. Others'
    BY <1>2, <1>u, <1>k DEF Others
  <2>12. Where(x, 0, Queued(ui), asked') /\ asked' \in {asked, asked + 1}
    BY <2>10, <1>u
  <2> QED BY <2>b, <2>8, <2>9, <2>11, <2>12, <1>u, Settled
<1>3. startedId \in MaybeProfile /\ env.startWhenUp \in MaybeProfile
  BY <1>k DEF Others, Environments
<1> QED BY <1>1, <1>2, <1>3, <1>k DEF CoreExited

-----------------------------------------------------------------------------
(* Steps that start nothing: the core, the kill switch and the stops.      *)

\* A call is posted to the main thread, with no serial or with one of its own.
LEMMA Posting ==
  ASSUME IInv, NEW c \in Calls, ui' = ui \o <<c>>,
         c.op \in {"started", "failed"} \/ c.req.serial = 0,
         c.req.serial \notin Queued(ui)
  PROVE  /\ ui' \in Seq(Calls)
         /\ Queued(ui)' = Queued(ui) \cup Told(c.req)
         /\ Once'
<1>0. ui \in Seq(Calls) /\ Once
  BY Known DEF Others, IInv
<1>1. /\ ui' \in Seq(Calls) /\ Len(ui) \in Nat /\ DOMAIN ui = 1 .. Len(ui)
      /\ DOMAIN ui' = 1 .. Len(ui) + 1
      /\ \A i \in 1 .. Len(ui) : ui'[i] = ui[i]
      /\ ui'[Len(ui) + 1] = c
  BY <1>0
<1> DEFINE k == Len(ui) + 1
<1>2. k \notin DOMAIN ui /\ DOMAIN ui' = DOMAIN ui \cup {k} /\ ui'[k] = c
      /\ \A i \in DOMAIN ui : ui'[i] = ui[i]
  BY <1>1
<1> HIDE DEF k
<1>3. Queued(ui)' = Queued(ui) \cup Told(c.req)
  BY <1>2 DEF Queued, Told
<1>4. \A i \in DOMAIN ui : ui[i].req.serial # 0 => ui[i].req.serial \in Queued(ui)
  BY DEF Queued
<1>5. Once'
  BY <1>0, <1>2, <1>4 DEF Once
<1> QED BY <1>1, <1>3, <1>5

\* A call that carries no request.
LEMMA PostingPlain ==
  ASSUME IInv, NEW op \in {"disconnecting", "cancelResume", "connected"},
         \/ ui' = ui \o <<Call(op, NoRequest)>>
         \/ ui' = Append(ui, Call(op, NoRequest))
  PROVE  ui' \in Seq(Calls) /\ Queued(ui)' = Queued(ui) /\ Once'
<1>0. NoRequest \in Requests /\ NoRequest.serial = 0 /\ ui \in Seq(Calls)
  BY Known, RequestFields, BoundsAssumption DEF NoRequest, Others
<1>1. Call(op, NoRequest) \in Calls /\ Call(op, NoRequest).req.serial = 0
      /\ Told(Call(op, NoRequest).req) = {}
  BY <1>0 DEF Call, Calls, Told
<1> DEFINE c == Call(op, NoRequest)
<1>2. c \in Calls
  BY <1>1
<1> HIDE DEF c
<1>3. Append(ui, c) = ui \o <<c>>
  BY <1>0, <1>2, AppendIsConcat
<1>4. ui' = ui \o <<c>>
  BY <1>3 DEF c
<1>5. 0 \notin Queued(ui)
  BY DEF Queued
<1> QED BY <1>1, <1>2, <1>4, <1>5, Posting DEF c

\* The core and the kill switch, as far as the manager does not look.
LEMMA EnvSteps ==
  ASSUME IInv, \/ CoreConnects \/ CoreDies \/ CoreRestarts \/ SetKillSwitch
               \/ GuardWindowEnds
  PROVE  IInv'
<1>k. Others /\ cm \in Managers /\ env \in Environments
  BY Known
<1>1. /\ UNCHANGED <<running, startedId, endpoints, startW, stopW, ui, ranking, geoFetch,
                     offers, asked, answered>>
      /\ used' \in 0 .. MaxEvents
  BY <1>k, BoundsAssumption
     DEF CoreConnects, CoreDies, CoreRestarts, SetKillSwitch, GuardWindowEnds, profile,
         workers, Event, Others
<1>2. Others' /\ Once' /\ StopsFirst' /\ Queued(ui)' = Queued(ui)
  BY <1>1, <1>k DEF Others, IInv, Once, StopsFirst
<1>3. env' \in Environments
  <2>1. CASE CoreConnects
    BY <2>1, <1>k DEF CoreConnects, Environments
  <2>2. CASE CoreDies
    BY <2>2, <1>k DEF CoreDies, Environments
  <2>3. CASE CoreRestarts
    <3>1. (env.ks # "Disabled") \in BOOLEAN
      OBVIOUS
    <3> QED BY <3>1, <2>3, <1>k DEF CoreRestarts, Environments
  <2>4. CASE SetKillSwitch
    BY <2>4, <1>k DEF SetKillSwitch, Environments
  <2>5. CASE GuardWindowEnds
    BY <2>5, <1>k DEF GuardWindowEnds
  <2> QED BY <2>1, <2>2, <2>3, <2>4, <2>5
<1>4. cm' = cm \/ cm' = [cm EXCEPT !.guardRestart = FALSE]
  BY DEF CoreConnects, CoreDies, CoreRestarts, SetKillSwitch, GuardWindowEnds
<1>5. /\ cm' \in Managers /\ cm'.ksDeferred = cm.ksDeferred /\ cm'.coreReq = cm.coreReq
      /\ cm'.bootSerial = cm.bootSerial /\ cm'.tun = cm.tun /\ cm'.remember = cm.remember
  BY <1>4, <1>k DEF Managers
<1> QED BY <1>1, <1>2, <1>3, <1>5, Untouched DEF TunSettled

\* The stop of a profile, from the main thread or from DS_cores to its end.
LEMMA StopSteps ==
  ASSUME IInv, \/ \E b \in BOOLEAN : StopRequested(b)
               \/ DsCoresChecks \/ DsCoresLocks \/ StopRpc \/ StopClears \/ StopTeardown
  PROVE  IInv'
<1>k. /\ Others /\ cm \in Managers /\ env \in Environments /\ NoProfile \in MaybeProfile
      /\ startW \in StartWorkers
  BY Known
<1>i. Once /\ StopsFirst /\ stopW \in StopWorkers /\ running \in MaybeProfile
  BY <1>k DEF IInv, Others
<1>1. ASSUME NEW b \in BOOLEAN, StopRequested(b) PROVE IInv'
  <2>1. /\ UNCHANGED <<running, endpoints, startW, ui, ranking, offers, asked, answered>>
        /\ used' \in 0 .. MaxEvents /\ geoFetch' \in {geoFetch, NoProfile}
    BY <1>1, <1>k, BoundsAssumption DEF StopRequested, Event, Others
  <2>2. CASE cancelResume /\ UNCHANGED <<cm, stopW>>
    <3>1. env' \in Environments /\ startedId' = NoProfile
      BY <2>2, <1>k DEF cancelResume, Environments
    <3>2. Others' /\ Once' /\ StopsFirst' /\ Queued(ui)' = Queued(ui)
      BY <2>1, <2>2, <3>1, <1>k, <1>i DEF Others, Once, StopsFirst
    <3> QED BY <2>1, <2>2, <3>1, <3>2, <1>k, Untouched
  <2>3. CASE /\ running # NoProfile /\ stopW' = StopWorker(b, FALSE)
             /\ cm' = [cm EXCEPT !.disconnecting = TRUE]
             /\ UNCHANGED <<env, startedId>>
    <3>1. /\ cm' \in Managers /\ cm'.ksDeferred = cm.ksDeferred /\ cm'.coreReq = cm.coreReq
          /\ cm'.bootSerial = cm.bootSerial /\ cm'.tun = cm.tun /\ cm'.remember = cm.remember
      BY <2>3, <1>k DEF Managers
    <3>2. stopW' \in StopWorkers /\ stopW'.pc = "rpc"
      BY <2>3, <1>1 DEF StopWorker, StopWorkers
    <3>3. Others' /\ Once' /\ Queued(ui)' = Queued(ui)
      BY <2>1, <2>3, <3>2, <1>k, <1>i DEF Others, Once
    <3>4. StopsFirst'
      BY <2>1, <2>3, <3>2, <1>i DEF StopsFirst
    <3> QED BY <2>1, <2>3, <3>1, <3>3, <3>4, <1>k, Untouched DEF TunSettled
  <2> QED BY <1>1, <2>2, <2>3 DEF StopRequested
<1>2. CASE DsCoresChecks
  <2>1. UNCHANGED <<cm, startW, stopW, ui, geoFetch, running, startedId, endpoints, ranking,
                    offers, asked, answered, used>>
    BY <1>2 DEF DsCoresChecks, stopFrame, profile
  <2>2. env' \in Environments
    BY <1>2, <1>k DEF DsCoresChecks, Environments
  <2>3. Others' /\ Once' /\ StopsFirst' /\ Queued(ui)' = Queued(ui)
    BY <2>1, <1>k, <1>i DEF Others, Once, StopsFirst
  <2> QED BY <2>1, <2>2, <2>3, <1>k, Untouched
<1>3. CASE DsCoresLocks
  <2>1. UNCHANGED <<cm, startW, geoFetch, running, startedId, endpoints, ranking,
                    offers, asked, answered, used>>
    BY <1>3 DEF DsCoresLocks, stopFrame, profile
  <2>2. env' \in Environments
    BY <1>3, <1>k DEF DsCoresLocks, Environments
  <2>3. \/ stopW' = StopWorker(FALSE, TRUE) /\ ui' = Append(ui, Call("disconnecting", NoRequest))
        \/ UNCHANGED <<stopW, ui>>
    BY <1>3 DEF DsCoresLocks
  <2>4. ui' \in Seq(Calls) /\ Queued(ui)' = Queued(ui) /\ Once'
    <3>1. CASE UNCHANGED ui
      BY <3>1, <1>i, <1>k DEF Once, Others
    <3>2. CASE ui' = Append(ui, Call("disconnecting", NoRequest))
      BY <3>2, PostingPlain
    <3> QED BY <3>1, <3>2, <2>3
  <2>5. stopW' \in StopWorkers /\ (stopW' = stopW \/ (stopW'.pc = "rpc" /\ stopW'.crash))
    <3>1. CASE UNCHANGED stopW
      BY <3>1, <1>i
    <3>2. CASE stopW' = StopWorker(FALSE, TRUE)
      <4>1. StopWorker(FALSE, TRUE) \in StopWorkers
        BY DEF StopWorker, StopWorkers
      <4>2. StopWorker(FALSE, TRUE).pc = "rpc" /\ StopWorker(FALSE, TRUE).crash
        BY DEF StopWorker
      <4> QED BY <3>2, <4>1, <4>2
    <3> QED BY <3>1, <3>2, <2>3
  <2>6. Others' /\ StopsFirst'
    BY <2>1, <2>4, <2>5, <1>k, <1>i DEF Others, StopsFirst
  <2> QED BY <2>1, <2>2, <2>4, <2>6, <1>k, Untouched
<1>4. CASE StopRpc
  <2>1. UNCHANGED <<cm, env, startW, ui, geoFetch, running, startedId, endpoints, ranking,
                    offers, asked, answered, used>>
    BY <1>4 DEF StopRpc, stopFrame, profile
  <2>2. stopW' \in StopWorkers /\ stopW'.pc = "clear" /\ stopW.pc = "rpc"
    BY <1>4, <1>i DEF StopRpc, StopWorkers
  <2>3. Others' /\ Once' /\ StopsFirst' /\ Queued(ui)' = Queued(ui)
    BY <2>1, <2>2, <1>k, <1>i DEF Others, Once, StopsFirst
  <2> QED BY <2>1, <2>3, <1>k, Untouched
<1>5. CASE StopClears
  <2>1. /\ UNCHANGED <<cm, env, startW, ui, geoFetch, endpoints, ranking, offers, asked,
                       answered, used>>
        /\ running' = NoProfile /\ startedId' \in {NoProfile, startedId}
    BY <1>5 DEF StopClears
  <2>2. stopW' \in StopWorkers /\ stopW'.pc = "teardown"
    BY <1>5, <1>i DEF StopClears, StopWorkers
  <2>3. Others' /\ Once' /\ StopsFirst' /\ Queued(ui)' = Queued(ui)
    BY <2>1, <2>2, <1>k, <1>i DEF Others, Once, StopsFirst
  <2> QED BY <2>1, <2>3, <1>k, Untouched
<1>6. CASE StopTeardown
  <2>1. /\ UNCHANGED <<running, startedId, startW, ui, ranking, geoFetch, offers, asked,
                       answered, used>>
        /\ endpoints' = NoProfile
    BY <1>6 DEF StopTeardown
  <2>2. stopW.pc = "teardown" /\ stopW' \in StopWorkers /\ stopW'.pc = "idle"
    BY <1>6 DEF StopTeardown, StopWorkers, NoStop
  <2>3. env' \in Environments
    <3>1. env.ds \in {"none", "check", "lock", "wait"}
      BY <1>k DEF Environments
    <3> QED BY <3>1, <1>6, <1>k DEF StopTeardown, Environments
  <2>4. /\ cm' \in Managers /\ cm'.ksDeferred = cm.ksDeferred /\ cm'.coreReq = cm.coreReq
        /\ cm'.bootSerial = cm.bootSerial /\ cm'.tun = cm.tun /\ cm'.remember = cm.remember
    BY <1>6, <1>k DEF StopTeardown, Managers
  <2>5. Others' /\ Once' /\ StopsFirst' /\ Queued(ui)' = Queued(ui)
    BY <2>1, <2>2, <1>k, <1>i DEF Others, Once, StopsFirst
  <2> QED BY <2>1, <2>3, <2>4, <2>5, Untouched DEF TunSettled
<1> QED BY <1>1, <1>2, <1>3, <1>4, <1>5, <1>6

-----------------------------------------------------------------------------
(* The start worker.                                                       *)

\* The worker goes on with its request, or posts its answer.
LEMMA WorkerMoves ==
  ASSUME IInv, UNCHANGED <<cm, env, ranking, answered, asked>>,
         startW' \in StartWorkers, Carries(startW'),
         \/ startW'.req = startW.req /\ Queued(ui)' = Queued(ui)
         \/ startW'.req = NoRequest /\ Queued(ui)' = Queued(ui) \cup Told(startW.req),
         Others', Once', StopsFirst'
  PROVE  IInv'
<1>k. /\ Sane(Now) /\ BootHeld(Now) /\ Where(Now, 0, Queued(ui), asked) /\ Now.cm = cm
      /\ cm \in Managers /\ env \in Environments /\ ranking \in Requests
      /\ answered \in SUBSET (1 .. MaxSerial)
      /\ Now.startW = startW /\ Now.ranking = ranking /\ Now.answered = answered
      /\ asked \in Nat
  BY Known
<1>1. /\ Now'.cm = cm /\ Now'.startW = startW' /\ Now'.ranking = ranking
      /\ Now'.answered = answered
  BY DEF Now
<1>2. TypeOK' /\ asked' # 0
  BY <1>k DEF TypeOK, Others, IInv
<1>3. Now' \in Bundles
  BY <1>2 DEF TypeOK, Now, Bundles
<1>4. Sane(Now)'
  BY <1>1, <1>3, <1>k DEF Sane
<1>0. NoRequest.serial = 0
  BY DEF NoRequest, Request
<1>5. Where(Now, 0, Queued(ui), asked)'
  <2>1. Apart(cm.ksDeferred.serial, cm.coreReq.serial, ranking.serial, startW.req.serial, 0,
              Queued(ui), answered, asked)
    BY <1>k DEF Where
  <2>2. Apart(cm.ksDeferred.serial, cm.coreReq.serial, ranking.serial, 0, 0,
              Queued(ui) \cup Told(startW.req), answered, asked)
    BY <2>1, <1>k, PostedOn DEF Told
  <2>3. CASE startW'.req = startW.req /\ Queued(ui)' = Queued(ui)
    BY <2>1, <2>3, <1>1 DEF Where
  <2>4. CASE startW'.req = NoRequest /\ Queued(ui)' = Queued(ui) \cup Told(startW.req)
    BY <2>2, <2>4, <1>0, <1>1 DEF Where
  <2> QED BY <2>3, <2>4
<1>6. BootHeld(Now)'
  BY <1>0, <1>1, <1>k DEF BootHeld
<1> QED BY <1>2, <1>4, <1>5, <1>6 DEF IInv

\* The steps up to the answer of the Start RPC.
LEMMA WorkerSteps ==
  ASSUME IInv, \/ WorkerBegins \/ WorkerChecks \/ WorkerLocks \/ WorkerWaited \/ StartRpcOk
  PROVE  IInv'
<1>k. /\ Others /\ Sane(Now) /\ Now.startW = startW /\ NoProfile \in MaybeProfile
      /\ startW \in StartWorkers /\ cm \in Managers /\ env \in Environments
  BY Known
<1>i. Once /\ StopsFirst /\ stopW \in StopWorkers /\ running \in MaybeProfile
      /\ ui \in Seq(Calls)
  BY <1>k DEF IInv, Others
<1>g. ASSUME NEW pc \in {"check", "lock", "wait", "rpc", "land"}, Goto(pc),
             startW.pc \notin {"idle", "unlock"}
      PROVE  /\ startW' \in StartWorkers /\ Carries(startW') /\ startW'.req = startW.req
             /\ startW'.pc = pc /\ startW.req.profile \in Profiles
  <2>1. startW' \in StartWorkers /\ startW'.req = startW.req /\ startW'.pc = pc
    BY <1>g, <1>k DEF Goto, StartWorkers
  <2> QED BY <2>1, <1>g, <1>k DEF Sane, Carries
<1>1. CASE WorkerBegins
  <2>1. UNCHANGED <<cm, env, stopW, ui, geoFetch, running, startedId, endpoints, ranking,
                    offers, asked, answered, used>>
    BY <1>1 DEF WorkerBegins, stopFrame, profile
  <2>2. /\ startW' \in StartWorkers /\ Carries(startW') /\ startW'.req = startW.req
        /\ startW.pc = "begin"
        /\ startW'.pc = IF running = NoProfile THEN "rpc" ELSE "check"
    BY <1>1, <1>g DEF WorkerBegins, At
  <2>3. Others' /\ Once' /\ StopsFirst' /\ Queued(ui)' = Queued(ui)
    BY <2>1, <2>2, <1>k, <1>i DEF Others, Once, StopsFirst
  <2> QED BY <2>1, <2>2, <2>3, WorkerMoves
<1>2. CASE WorkerChecks
  <2>1. /\ UNCHANGED <<cm, env, stopW, running, startedId, endpoints, ranking,
                       offers, asked, answered, used>>
        /\ geoFetch' = NoProfile
    BY <1>2 DEF WorkerChecks, stopFrame, profile
  <2>2. /\ startW' \in StartWorkers /\ Carries(startW') /\ startW'.req = startW.req
        /\ startW.pc = "check"
        /\ startW'.pc = IF running = NoProfile THEN "wait" ELSE "lock"
    BY <1>2, <1>g DEF WorkerChecks, At
  <2>3. ui' \in Seq(Calls) /\ Queued(ui)' = Queued(ui) /\ Once'
    <3>1. CASE ui' = ui \o <<Call("cancelResume", NoRequest)>>
      BY <3>1, PostingPlain
    <3>2. CASE ui' = ui \o <<>>
      <4>1. ui' = ui
        BY <3>2, <1>i, ConcatEmptySeq
      <4> QED BY <4>1, <1>i DEF Once
    <3> QED BY <1>2, <3>1, <3>2 DEF WorkerChecks, Post
  <2>4. Others' /\ StopsFirst'
    BY <2>1, <2>2, <2>3, <1>k, <1>i DEF Others, StopsFirst
  <2> QED BY <2>1, <2>2, <2>3, <2>4, WorkerMoves
<1>3. CASE WorkerLocks
  <2>1. UNCHANGED <<cm, env, geoFetch, running, startedId, endpoints, ranking, offers, asked,
                    answered, used>>
    BY <1>3 DEF WorkerLocks, stopFrame, profile
  <2>2. /\ startW' \in StartWorkers /\ Carries(startW') /\ startW'.req = startW.req
        /\ startW.pc = "lock" /\ startW'.pc = "wait"
    BY <1>3, <1>g DEF WorkerLocks, At
  <2>3. \/ /\ stopW.pc = "idle" /\ stopW' = StopWorker(TRUE, FALSE)
           /\ ui' = ui \o <<Call("disconnecting", NoRequest)>>
        \/ stopW.pc # "idle" /\ UNCHANGED <<stopW, ui>>
    BY <1>3 DEF WorkerLocks, Post
  <2>4. ui' \in Seq(Calls) /\ Queued(ui)' = Queued(ui) /\ Once'
    <3>1. CASE UNCHANGED ui
      BY <3>1, <1>i DEF Once
    <3>2. CASE ui' = ui \o <<Call("disconnecting", NoRequest)>>
      BY <3>2, PostingPlain
    <3> QED BY <3>1, <3>2, <2>3
  <2>5. StopWorker(TRUE, FALSE) \in StopWorkers /\ StopWorker(TRUE, FALSE).pc = "rpc"
    BY DEF StopWorker, StopWorkers
  <2>6. Others' /\ StopsFirst'
    <3>1. stopW' \in StopWorkers
      BY <2>3, <2>5, <1>i
    <3>2. stopW.pc \in {"idle", "rpc", "clear", "teardown"}
      BY <1>i DEF StopWorkers
    <3>3. running = NoProfile \/ stopW'.pc \in {"rpc", "clear"}
      BY <2>2, <2>3, <2>5, <3>2, <1>i DEF StopsFirst
    <3>4. Others'
      BY <3>1, <2>1, <2>4, <1>k DEF Others
    <3>5. StopsFirst'
      BY <2>1, <2>2, <3>3 DEF StopsFirst
    <3> QED BY <3>4, <3>5
  <2> QED BY <2>1, <2>2, <2>4, <2>6, WorkerMoves
<1>4. CASE WorkerWaited
  <2>1. UNCHANGED <<cm, env, stopW, ui, geoFetch, running, startedId, endpoints, ranking,
                    offers, asked, answered, used>>
    BY <1>4 DEF WorkerWaited, stopFrame, profile
  <2>2. /\ startW' \in StartWorkers /\ Carries(startW') /\ startW'.req = startW.req
        /\ startW.pc = "wait" /\ startW'.pc = "rpc" /\ stopW.pc = "idle"
    BY <1>4, <1>g DEF WorkerWaited, At
  <2>3. Others' /\ Once' /\ StopsFirst' /\ Queued(ui)' = Queued(ui)
    BY <2>1, <2>2, <1>k, <1>i DEF Others, Once, StopsFirst
  <2> QED BY <2>1, <2>2, <2>3, WorkerMoves
<1>5. CASE StartRpcOk
  <2>1. /\ UNCHANGED <<cm, env, running, stopW, ui, ranking, geoFetch, offers, asked,
                       answered, used>>
        /\ startedId' = startW.req.profile /\ endpoints' = startW.req.profile
    BY <1>5 DEF StartRpcOk
  <2>2. /\ startW' \in StartWorkers /\ Carries(startW') /\ startW'.req = startW.req
        /\ startW.pc = "rpc" /\ startW'.pc = "land" /\ startW.req.profile \in MaybeProfile
    BY <1>5, <1>g DEF StartRpcOk, At, MaybeProfile
  <2>3. Others' /\ Once' /\ StopsFirst' /\ Queued(ui)' = Queued(ui)
    BY <2>1, <2>2, <1>k, <1>i DEF Others, Once, StopsFirst
  <2> QED BY <2>1, <2>2, <2>3, WorkerMoves
<1> QED BY <1>1, <1>2, <1>3, <1>4, <1>5

\* The answer of the start is posted, and then mu_starting is released.
LEMMA WorkerEnds ==
  ASSUME IInv, StartRpcFails \/ WorkerLands \/ WorkerUnlocks
  PROVE  IInv'
<1>k. /\ Others /\ Sane(Now) /\ Now.startW = startW /\ NoProfile \in MaybeProfile
      /\ startW \in StartWorkers /\ Where(Now, 0, Queued(ui), asked)
      /\ Now.ranking = ranking /\ Now.answered = answered /\ Now.cm = cm
      /\ Profiles \subseteq MaybeProfile
  BY Known
<1>i. Once /\ StopsFirst /\ stopW \in StopWorkers /\ running \in MaybeProfile
      /\ ui \in Seq(Calls)
  BY <1>k DEF IInv, Others
<1>0. NoRequest \in Requests
  BY <1>k, RequestFields, BoundsAssumption DEF NoRequest
<1>n. startW.req \in Requests /\ startW.req.serial \notin Queued(ui)
  BY <1>k DEF Where, Apart, Queued, StartWorkers
<1>e. ASSUME startW' = [pc |-> "unlock", req |-> NoRequest]
      PROVE  /\ startW' \in StartWorkers /\ Carries(startW') /\ startW'.req = NoRequest
             /\ startW'.pc = "unlock"
  BY <1>0, <1>e DEF StartWorkers, Carries
<1>p. ASSUME NEW op \in {"started", "failed"}, Post(<<Call(op, startW.req)>>)
      PROVE  /\ ui' \in Seq(Calls) /\ Once'
             /\ Queued(ui)' = Queued(ui) \cup Told(startW.req)
  <2> DEFINE c == Call(op, startW.req)
  <2>1. c \in Calls /\ c.op = op /\ c.req = startW.req
    BY <1>n DEF Call, Calls
  <2>2. ui' = ui \o <<c>>
    BY <1>p DEF Post
  <2> HIDE DEF c
  <2> QED BY <2>1, <2>2, <1>n, Posting
<1>c. ASSUME startW.pc \in {"rpc", "land"} PROVE startW.req.profile \in Profiles
  BY <1>c, <1>k DEF Sane, Carries
<1>1. CASE StartRpcFails
  <2>1. /\ UNCHANGED <<cm, env, running, startedId, endpoints, stopW, ranking, asked, answered>>
        /\ startW.pc = "rpc"
    BY <1>1 DEF StartRpcFails, profile, At
  <2>2. /\ startW' \in StartWorkers /\ Carries(startW') /\ startW'.req = NoRequest
        /\ startW'.pc = "unlock"
    BY <1>1, <1>e DEF StartRpcFails
  <2>3. ui' \in Seq(Calls) /\ Once' /\ Queued(ui)' = Queued(ui) \cup Told(startW.req)
    BY <1>1, <1>p DEF StartRpcFails
  <2>4. /\ geoFetch' \in MaybeProfile /\ offers' \in SUBSET Profiles
        /\ used' \in 0 .. MaxEvents
    BY <1>1, <1>c, <1>k, <2>1, BoundsAssumption DEF StartRpcFails, Others, Event
  <2>5. Others' /\ StopsFirst'
    BY <2>1, <2>2, <2>3, <2>4, <1>k, <1>i DEF Others, StopsFirst
  <2> QED BY <2>1, <2>2, <2>3, <2>5, WorkerMoves
<1>2. CASE WorkerLands
  <2>1. /\ UNCHANGED <<cm, env, startedId, endpoints, stopW, ranking, geoFetch, offers, asked,
                       answered, used>>
        /\ startW.pc = "land" /\ running' = startW.req.profile
    BY <1>2 DEF WorkerLands, At
  <2>2. /\ startW' \in StartWorkers /\ Carries(startW') /\ startW'.req = NoRequest
        /\ startW'.pc = "unlock"
    BY <1>2, <1>e DEF WorkerLands
  <2>3. ui' \in Seq(Calls) /\ Once' /\ Queued(ui)' = Queued(ui) \cup Told(startW.req)
    BY <1>2, <1>p DEF WorkerLands
  <2>4. startW.req.profile \in MaybeProfile /\ startW.req.profile # NoProfile
    BY <2>1, <1>c, <1>k, ProfilesAssumption
  <2>5. Others' /\ StopsFirst'
    BY <2>1, <2>2, <2>3, <2>4, <1>k, <1>i DEF Others, StopsFirst
  <2> QED BY <2>1, <2>2, <2>3, <2>5, WorkerMoves
<1>3. CASE WorkerUnlocks
  <2>1. /\ UNCHANGED <<cm, env, running, startedId, endpoints, stopW, ranking, geoFetch, offers,
                       asked, answered, used>>
        /\ startW.pc = "unlock" /\ startW' = Idle
    BY <1>3 DEF WorkerUnlocks, At, profile
  <2>2. /\ startW' \in StartWorkers /\ Carries(startW') /\ startW'.req = NoRequest
        /\ startW'.pc = "idle" /\ startW.req = NoRequest
    BY <2>1, <1>0, <1>k DEF Idle, StartWorkers, Carries, Sane
  <2>3. ui' \in Seq(Calls) /\ Queued(ui)' = Queued(ui) /\ Once'
    BY <1>3, PostingPlain DEF WorkerUnlocks, Post
  <2>4. Others' /\ StopsFirst'
    BY <2>1, <2>2, <2>3, <1>k, <1>i DEF Others, StopsFirst
  <2> QED BY <2>1, <2>2, <2>3, <2>4, WorkerMoves
<1> QED BY <1>1, <1>2, <1>3

-----------------------------------------------------------------------------
(* The calls posted to the main thread.                                    *)

\* The first call is taken: its serial, if any, is posted no more.
LEMMA Taking ==
  ASSUME IInv, ui # <<>>, ui' = Tail(ui)
  PROVE  /\ ui' \in Seq(Calls) /\ Once' /\ Head(ui) \in Calls
         /\ Told(Head(ui).req) \subseteq Queued(ui)
         /\ Queued(ui)' = Queued(ui) \ Told(Head(ui).req)
         /\ Head(ui).op \notin {"started", "failed"} => Head(ui).req.serial = 0
<1>0. ui \in Seq(Calls) /\ Once
  BY Known DEF Others, IInv
<1> DEFINE h == Head(ui)
<1>1. /\ ui' \in Seq(Calls) /\ h \in Calls /\ Len(ui) \in Nat \ {0} /\ h = ui[1]
      /\ DOMAIN ui = 1 .. Len(ui) /\ DOMAIN ui' = 1 .. Len(ui) - 1
      /\ \A i \in 1 .. Len(ui) - 1 : ui'[i] = ui[i + 1]
  BY <1>0
<1>2. 1 \in DOMAIN ui
  BY <1>1
<1>3. \A i \in DOMAIN ui' : i + 1 \in DOMAIN ui /\ i + 1 # 1 /\ ui'[i] = ui[i + 1]
  BY <1>1
<1>4. \A j \in DOMAIN ui : j # 1 => j - 1 \in DOMAIN ui' /\ ui'[j - 1] = ui[j]
  BY <1>1
<1>5. Once'
  <2>1. \A i \in DOMAIN ui' :
          ui'[i].op \notin {"started", "failed"} => ui'[i].req.serial = 0
    BY <1>0, <1>3 DEF Once
  <2>2. ASSUME NEW i \in DOMAIN ui', NEW j \in DOMAIN ui',
               ui'[i].req.serial = ui'[j].req.serial, ui'[i].req.serial # 0
        PROVE  i = j
    <3>1. i + 1 = j + 1
      BY <2>2, <1>0, <1>3 DEF Once
    <3> QED BY <3>1, <1>1
  <2> QED BY <2>1, <2>2 DEF Once
<1>6. Told(h.req) \subseteq Queued(ui)
  BY <1>1, <1>2 DEF Told, Queued
<1>7. Queued(ui)' = Queued(ui) \ Told(h.req)
  <2>1. ASSUME NEW n, n \in Queued(ui)' PROVE n \in Queued(ui) \ Told(h.req)
    <3>1. PICK i \in DOMAIN ui' : n = ui'[i].req.serial /\ n # 0
      BY <2>1 DEF Queued
    <3>2. i + 1 \in DOMAIN ui /\ i + 1 # 1 /\ n = ui[i + 1].req.serial
      BY <3>1, <1>3
    <3>3. n # ui[1].req.serial
      BY <3>1, <3>2, <1>0, <1>2 DEF Once
    <3> QED BY <3>1, <3>2, <3>3, <1>1 DEF Queued, Told
  <2>2. ASSUME NEW n, n \in Queued(ui) \ Told(h.req) PROVE n \in Queued(ui)'
    <3>1. PICK j \in DOMAIN ui : n = ui[j].req.serial /\ n # 0
      BY <2>2 DEF Queued
    <3>2. j # 1
      BY <2>2, <3>1, <1>1 DEF Told
    <3>3. j - 1 \in DOMAIN ui' /\ n = ui'[j - 1].req.serial
      BY <3>1, <3>2, <1>4
    <3> QED BY <3>1, <3>3 DEF Queued
  <2> QED BY <2>1, <2>2
<1>8. h.op \notin {"started", "failed"} => h.req.serial = 0
  BY <1>0, <1>1, <1>2 DEF Once
<1> QED BY <1>1, <1>5, <1>6, <1>7, <1>8

\* startFinished of a posted answer.
LEMMA Delivered ==
  ASSUME IInv, cm' \in Managers, env' \in Environments,
         cm'.ksDeferred = cm.ksDeferred, cm'.coreReq = cm.coreReq,
         cm'.bootSerial = cm.bootSerial, cm'.tun = cm.tun, cm'.remember = cm.remember,
         NEW r \in Requests, answered' = answered \cup Told(r),
         Told(r) \subseteq Queued(ui), Queued(ui)' = Queued(ui) \ Told(r),
         UNCHANGED <<ranking, startW, asked>>, Others', Once', StopsFirst'
  PROVE  IInv'
<1>k. /\ Sane(Now) /\ BootHeld(Now) /\ Where(Now, 0, Queued(ui), asked) /\ Now.cm = cm
      /\ startW \in StartWorkers /\ ranking \in Requests
      /\ answered \in SUBSET (1 .. MaxSerial) /\ asked \in Nat
      /\ Now.startW = startW /\ Now.ranking = ranking /\ Now.answered = answered
  BY Known
<1>1. /\ Now'.cm = cm' /\ Now'.startW = startW /\ Now'.ranking = ranking
      /\ Now'.answered = answered \cup Told(r)
  BY DEF Now
<1>2. Told(r) \subseteq 1 .. MaxSerial
  BY BoundsAssumption DEF Told, Requests
<1>3. TypeOK' /\ asked' # 0
  BY <1>k, <1>2 DEF TypeOK, Others, IInv
<1>4. Now' \in Bundles
  BY <1>3 DEF TypeOK, Now, Bundles
<1>5. Sane(Now)'
  BY <1>1, <1>4, <1>k DEF Sane
<1>6. Where(Now, 0, Queued(ui), asked)'
  <2>1. Apart(cm.ksDeferred.serial, cm.coreReq.serial, ranking.serial, startW.req.serial, 0,
              Queued(ui), answered, asked)
    BY <1>k DEF Where
  <2>2. Apart(cm.ksDeferred.serial, cm.coreReq.serial, ranking.serial, startW.req.serial, 0,
              Queued(ui) \ Told(r), answered \cup Told(r), asked)
    <3>1. CASE r.serial = 0
      <4>1. Queued(ui) \ Told(r) = Queued(ui) /\ answered \cup Told(r) = answered
        BY <3>1 DEF Told
      <4> QED BY <4>1, <2>1
    <3>2. CASE r.serial # 0
      <4>1. Told(r) = {r.serial} /\ r.serial \in Queued(ui)
        BY <3>2 DEF Told
      <4> QED BY <4>1, <2>1, <1>k, PostedTaken
    <3> QED BY <3>1, <3>2
  <2> QED BY <2>2, <1>1 DEF Where
<1>7. BootHeld(Now)'
  BY <1>1, <1>k DEF BootHeld, TunSettled
<1> QED BY <1>3, <1>5, <1>6, <1>7 DEF IInv

\* The first call runs on the main thread.
LEMMA TakeCallStep ==
  ASSUME IInv, TakeCall
  PROVE  IInv'
<1>k. /\ Others /\ Sane(Now) /\ Now.cm = cm /\ Now.env = env /\ Now.startW = startW
      /\ Now.ranking = ranking /\ Now.answered = answered /\ NoProfile \in MaybeProfile
      /\ cm \in Managers /\ env \in Environments
  BY Known
<1>i. StopsFirst
  BY DEF IInv
<1> DEFINE c == Head(ui)
<1>u. /\ ui # <<>> /\ ui' = Tail(ui)
      /\ UNCHANGED <<running, endpoints, stopW, offers, asked, used>>
  BY DEF TakeCall
<1>1. /\ ui' \in Seq(Calls) /\ Once' /\ c \in Calls /\ Told(c.req) \subseteq Queued(ui)
      /\ Queued(ui)' = Queued(ui) \ Told(c.req)
      /\ c.op \notin {"started", "failed"} => c.req.serial = 0
  BY <1>u, Taking
<1>s. \/ /\ c.op = "disconnecting" /\ cm' = [cm EXCEPT !.disconnecting = TRUE]
         /\ UNCHANGED <<env, startedId, answered, ranking, startW, geoFetch>>
      \/ /\ c.op = "cancelResume" /\ cancelResume
         /\ UNCHANGED <<cm, answered, ranking, startW, geoFetch>>
      \/ /\ c.op = "started"
         /\ Becomes([Answer(Now, c.req) EXCEPT !.cm.geoRetried = NoProfile])
         /\ UNCHANGED <<startedId, geoFetch>>
      \/ /\ c.op = "failed" /\ Becomes(Answer(Now, c.req))
         /\ UNCHANGED <<startedId, geoFetch>>
      \/ /\ c.op = "connected" /\ cm' = [cm EXCEPT !.connecting = FALSE]
         /\ UNCHANGED <<env, startedId, answered, ranking, startW, geoFetch>>
  BY DEF TakeCall
<1>2. c.req \in Requests
  BY <1>1 DEF Calls
<1> HIDE DEF c
<1>o. ASSUME startedId' \in MaybeProfile, UNCHANGED <<startW, geoFetch>>
      PROVE  Others' /\ StopsFirst'
  BY <1>o, <1>u, <1>1, <1>k, <1>i DEF Others, StopsFirst
<1>p. startedId \in MaybeProfile
  BY <1>k DEF Others
<1>z. c.req.serial = 0 => answered = answered \cup Told(c.req)
  BY DEF Told
<1>3. CASE /\ c.op \notin {"started", "failed"}
           /\ \/ cm' = [cm EXCEPT !.disconnecting = TRUE]
              \/ cm' = [cm EXCEPT !.connecting = FALSE]
           /\ UNCHANGED <<env, startedId, answered, ranking, startW, geoFetch>>
  <2>1. /\ cm' \in Managers /\ cm'.ksDeferred = cm.ksDeferred /\ cm'.coreReq = cm.coreReq
        /\ cm'.bootSerial = cm.bootSerial /\ cm'.tun = cm.tun /\ cm'.remember = cm.remember
    BY <1>3, <1>k DEF Managers
  <2> QED BY <2>1, <1>3, <1>o, <1>p, <1>z, <1>u, <1>1, <1>2, <1>k, Delivered
<1>4. CASE /\ c.op = "cancelResume" /\ cancelResume
           /\ UNCHANGED <<cm, answered, ranking, startW, geoFetch>>
  <2>1. env' \in Environments /\ startedId' = NoProfile
    BY <1>4, <1>k DEF cancelResume, Environments
  <2>2. answered' = answered \cup Told(c.req)
    BY <1>4, <1>1, <1>z
  <2> QED BY <2>1, <2>2, <1>4, <1>o, <1>u, <1>1, <1>2, <1>k, Delivered
<1> DEFINE a == Answer(Now, c.req)
<1>5. /\ Sane(a) /\ a.answered = answered \cup Told(c.req)
      /\ a.cm = cm /\ a.env = env /\ a.ranking = ranking /\ a.startW = startW
  BY <1>2, <1>k, AnswerFields
<1>6. CASE Becomes([a EXCEPT !.cm.geoRetried = NoProfile]) /\ UNCHANGED <<startedId, geoFetch>>
  <2> DEFINE x == [a EXCEPT !.cm.geoRetried = NoProfile]
             m == [cm EXCEPT !.geoRetried = NoProfile]
  <2>1. Becomes(x)
    BY <1>6
  <2> HIDE DEF a
  <2>2. x = [a EXCEPT !.cm = m]
    BY <1>5
  <2>3. /\ m \in Managers /\ m.ksDeferred = cm.ksDeferred /\ m.coreReq = cm.coreReq
        /\ m.bootSerial = cm.bootSerial /\ m.tun = cm.tun /\ m.remember = cm.remember
    BY <1>k DEF Managers
  <2> HIDE DEF x, m
  <2>4. /\ x.cm = m /\ x.env = env /\ x.ranking = ranking /\ x.startW = startW
        /\ x.answered = answered \cup Told(c.req)
    BY <2>2, <1>5 DEF Sane, Bundles
  <2>5. /\ cm' = m /\ answered' = answered \cup Told(c.req)
        /\ UNCHANGED <<env, ranking, startW>>
    BY <2>1, <2>4 DEF Becomes
  <2> QED BY <2>3, <2>5, <1>6, <1>o, <1>p, <1>u, <1>1, <1>2, <1>k, Delivered
<1>7. CASE Becomes(a) /\ UNCHANGED <<startedId, geoFetch>>
  <2> HIDE DEF a
  <2>1. /\ answered' = answered \cup Told(c.req)
        /\ UNCHANGED <<cm, env, ranking, startW>>
    BY <1>5, <1>7 DEF Becomes
  <2> QED BY <2>1, <1>7, <1>o, <1>p, <1>u, <1>1, <1>2, <1>k, Delivered
<1> QED BY <1>s, <1>3, <1>4, <1>6, <1>7

-----------------------------------------------------------------------------
(* The theorems.                                                           *)

\* The boot's request waits for the core, or no profile was remembered and its
\* serial counts as answered.
LEMMA Initially == Init => IInv
<1> SUFFICES ASSUME Init PROVE IInv
  OBVIOUS
<1>1. PICK p \in MaybeProfile, wantTun \in BOOLEAN, k \in {"Disabled", "Arming"},
           l \in {"coming", "refused"} :
        LET boot == IF p = NoProfile THEN NoRequest ELSE Request(p, 1) IN
        /\ cm = [ksDeferred |-> NoRequest, coreReq |-> boot, bootSerial |-> boot.serial,
                 guardRestart |-> FALSE, connecting |-> FALSE, disconnecting |-> FALSE,
                 geoRetried |-> NoProfile, tun |-> FALSE, remember |-> wantTun, held |-> FALSE]
        /\ env = [life |-> l, listening |-> FALSE, probing |-> FALSE, startWhenUp |-> p,
                  identity |-> FALSE, ks |-> k, ds |-> "none"]
        /\ answered = {1} \ {boot.serial}
  BY DEF Init
<1> DEFINE boot == IF p = NoProfile THEN NoRequest ELSE Request(p, 1)
<1>i. /\ running = NoProfile /\ startedId = NoProfile /\ endpoints = NoProfile
      /\ startW = Idle /\ stopW = NoStop /\ ui = <<>> /\ ranking = NoRequest
      /\ geoFetch = NoProfile /\ offers = {} /\ asked = 1 /\ used = 0
  BY DEF Init
<1>0. /\ NoProfile \in MaybeProfile /\ 0 \in 0 .. MaxSerial /\ 1 \in 0 .. MaxSerial
      /\ 1 \in 1 .. MaxSerial /\ 0 \in 0 .. MaxEvents
  BY BoundsAssumption DEF MaybeProfile
<1>n. NoRequest \in Requests /\ NoRequest.serial = 0 /\ Real(NoRequest)
  BY <1>0, RequestFields DEF NoRequest, Real
<1>b. boot \in Requests /\ boot.serial \in {0, 1} /\ Real(boot)
  BY <1>0, <1>n, RequestFields DEF Real, MaybeProfile
<1>c. /\ cm = [ksDeferred |-> NoRequest, coreReq |-> boot, bootSerial |-> boot.serial,
               guardRestart |-> FALSE, connecting |-> FALSE, disconnecting |-> FALSE,
               geoRetried |-> NoProfile, tun |-> FALSE, remember |-> wantTun, held |-> FALSE]
      /\ answered = {1} \ {boot.serial}
  BY <1>1
<1> HIDE DEF boot
<1>2. cm \in Managers
  BY <1>0, <1>n, <1>b, <1>c DEF Managers
<1>3. env \in Environments
  BY <1>1 DEF Environments
<1>4. startW \in StartWorkers /\ stopW \in StopWorkers /\ Carries(startW)
      /\ startW.req = NoRequest /\ startW.pc = "idle" /\ stopW.pc = "idle"
  BY <1>i, <1>n DEF Idle, NoStop, StartWorkers, StopWorkers, Carries
<1>5. answered \subseteq 1 .. MaxSerial
  BY <1>0, <1>c
<1>6. TypeOK
  BY <1>0, <1>n, <1>2, <1>3, <1>4, <1>5, <1>i, BoundsAssumption DEF TypeOK
<1>7. /\ Now \in Bundles /\ Now.cm = cm /\ Now.ranking = NoRequest /\ Now.startW = startW
      /\ Now.answered = answered
  BY <1>6, <1>i DEF TypeOK, Now, Bundles
<1>8. /\ cm.ksDeferred = NoRequest /\ cm.coreReq = boot /\ cm.bootSerial = boot.serial
  BY <1>c
<1>9. Sane(Now) /\ BootHeld(Now)
  BY <1>n, <1>b, <1>4, <1>7, <1>8 DEF Sane, BootHeld
<1>10. Queued(ui) = {} /\ Once
  BY <1>i DEF Queued, Once
<1>11. Where(Now, 0, Queued(ui), asked)
  <2>1. 1 .. 1 = {1} /\ 0 .. 1 = {0, 1}
    OBVIOUS
  <2> QED BY <2>1, <1>n, <1>b, <1>c, <1>i, <1>4, <1>7, <1>8, <1>10 DEF Where, Apart
<1>12. StopsFirst
  BY <1>4 DEF StopsFirst
<1> QED BY <1>6, <1>9, <1>10, <1>11, <1>12, <1>i DEF IInv

\* Every step preserves the invariant.
LEMMA Inductive == IInv /\ [Next]_vars => IInv'
<1> SUFFICES ASSUME IInv, [Next]_vars PROVE IInv'
  OBVIOUS
<1>1. CASE UNCHANGED vars
  <2>1. UNCHANGED <<cm, env, running, startedId, endpoints, startW, stopW, ui, ranking,
                    geoFetch, offers, asked, answered, used>>
    BY <1>1 DEF vars, profile, workers
  <2>2. Others' /\ Once' /\ StopsFirst' /\ Queued(ui)' = Queued(ui)
    BY <2>1, Known DEF Others, IInv, Once, StopsFirst
  <2> QED BY <2>1, <2>2, Known, Untouched
<1>2. CASE \E p \in Profiles : StartRequested(p)
  BY <1>2, StartRequestedStep
<1>3. CASE (\E p \in Profiles : OfferAnswered(p)) \/ GeoFetched
  BY <1>3, RetriesStep
<1>4. CASE \E b \in BOOLEAN : SetTun(b)
  BY <1>4, SetTunStep
<1>5. CASE \/ CoreConnects \/ CoreDies \/ CoreRestarts \/ SetKillSwitch \/ GuardWindowEnds
  BY <1>5, EnvSteps
<1>6. CASE \/ \E b \in BOOLEAN : StopRequested(b)
           \/ DsCoresChecks \/ DsCoresLocks \/ StopRpc \/ StopClears \/ StopTeardown
  BY <1>6, StopSteps
<1>7. CASE \/ WorkerBegins \/ WorkerChecks \/ WorkerLocks \/ WorkerWaited \/ StartRpcOk
  BY <1>7, WorkerSteps
<1>8. CASE StartRpcFails \/ WorkerLands \/ WorkerUnlocks
  BY <1>8, WorkerEnds
<1>9. CASE CoreStarted
  BY <1>9, CoreStartedStep
<1>10. CASE CoreExited
  BY <1>10, CoreExitedStep
<1>11. CASE KillSwitchSettles
  BY <1>11, KillSwitchSettlesStep
<1>12. CASE TakeCall
  BY <1>12, TakeCallStep
<1>13. CASE RankingDone
  BY <1>13, RankingDoneStep
<1> QED BY <1>1, <1>2, <1>3, <1>4, <1>5, <1>6, <1>7, <1>8, <1>9, <1>10, <1>11, <1>12, <1>13
        DEF Next

\* The inductive invariant holds in every state: the main thread, both workers and
\* DS_cores hand the requests on without losing or doubling one.
THEOREM Invariant == Spec => []IInv
BY Initially, Inductive, PTL DEF Spec

\* Every variable keeps its type.
THEOREM TypeCorrect == Spec => []TypeOK
<1>1. IInv => TypeOK
  BY DEF IInv
<1> QED BY <1>1, Invariant, PTL

\* A serial given out has one place: of the four members, the answered and the calls
\* posted to the main thread.
LEMMA OneOf ==
  ASSUME IInv, NEW n \in 1 .. asked
  PROVE  \E w : Places(n) = {w}
<1>k. /\ Where(Now, 0, Queued(ui), asked) /\ Now.cm = cm /\ Now.startW = startW
      /\ Now.ranking = ranking /\ Now.answered = answered /\ asked \in Nat /\ ui \in Seq(Calls)
  BY Known DEF Others
<1>d. DOMAIN ui = 1 .. Len(ui) /\ n # 0
  BY <1>k
<1> DEFINE Q == {i \in 1 .. Len(ui) : ui[i].req.serial = n}
           W == {w \in {"ks", "core", "ranking", "worker", "answered"} :
                   \/ w = "ks" /\ cm.ksDeferred.serial = n
                   \/ w = "core" /\ cm.coreReq.serial = n
                   \/ w = "ranking" /\ ranking.serial = n
                   \/ w = "worker" /\ startW.req.serial = n
                   \/ w = "answered" /\ n \in answered}
<1>1. Places(n) = W \cup Q
  BY DEF Places
<1>2. n \in Queued(ui) => \E i : Q = {i}
  <2> SUFFICES ASSUME n \in Queued(ui) PROVE \E i : Q = {i}
    OBVIOUS
  <2>1. PICK i \in DOMAIN ui : ui[i].req.serial = n
    BY DEF Queued
  <2>2. \A j \in DOMAIN ui : ui[j].req.serial = n => j = i
    BY <2>1, <1>d DEF IInv, Once
  <2>3. Q = {i}
    BY <2>1, <2>2, <1>d
  <2> QED BY <2>3
<1>3. n \notin Queued(ui) => Q = {}
  BY <1>d DEF Queued
<1>4. Apart(cm.ksDeferred.serial, cm.coreReq.serial, ranking.serial, startW.req.serial, 0,
            Queued(ui), answered, asked)
  BY <1>k DEF Where
<1> HIDE DEF Q
<1>5. CASE n \in Queued(ui)
  <2>1. W = {}
    BY <1>4, <1>5, <1>d DEF Apart
  <2> QED BY <2>1, <1>1, <1>2, <1>5
<1>6. CASE n \notin Queued(ui)
  <2>1. \/ W = {"ks"} \/ W = {"core"} \/ W = {"ranking"} \/ W = {"worker"} \/ W = {"answered"}
    <3>1. CASE cm.ksDeferred.serial = n
      BY <3>1, <1>4, <1>d DEF Apart
    <3>2. CASE cm.coreReq.serial = n
      BY <3>2, <1>4, <1>d DEF Apart
    <3>3. CASE ranking.serial = n
      BY <3>3, <1>4, <1>d DEF Apart
    <3>4. CASE startW.req.serial = n
      BY <3>4, <1>4, <1>d DEF Apart
    <3>5. CASE n \in answered
      BY <3>5, <1>4, <1>d DEF Apart
    <3> QED BY <3>1, <3>2, <3>3, <3>4, <3>5, <1>4, <1>6, <1>d DEF Apart
  <2> QED BY <2>1, <1>1, <1>3, <1>6
<1> QED BY <1>5, <1>6

\* "startFinished fires once per request": whatever the interleaving of the main
\* thread, the start worker, the stop worker and DS_cores, a request is never lost,
\* and never runs or is answered twice.
THEOREM EachInOnePlace == Spec => []OnePlace
<1>1. ASSUME IInv PROVE OnePlace
  <2> SUFFICES ASSUME NEW n \in 1 .. asked PROVE Cardinality(Places(n)) = 1
    BY DEF OnePlace
  <2>1. PICK w : Places(n) = {w}
    BY <1>1, OneOf
  <2> QED BY <2>1, FS_Singleton
<1> QED BY <1>1, Invariant, PTL

\* The start worker comes to its Start RPC with nothing running, and a Stop RPC is
\* only under way for a profile that runs, or while the start worker waits for it.
THEOREM OneCallAtATime == Spec => []OneCoreCall
<1>1. IInv => OneCoreCall
  BY DEF IInv, StopsFirst, OneCoreCall
<1> QED BY <1>1, Invariant, PTL

\* Where Tun is required, the boot profile is not started on the way through a held
\* Tun: not after it waited for the kill switch, a ranking or a second core.
THEOREM BootHasTun == Spec => []BootWantsTun
<1>1. IInv => BootWantsTun
  BY DEF IInv, BootHeld, Now, TunSettled, BootWantsTun
<1> QED BY <1>1, Invariant, PTL

=============================================================================
