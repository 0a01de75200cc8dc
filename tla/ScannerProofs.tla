--------------------------- MODULE ScannerProofs ----------------------------
(***************************************************************************)
(* Proofs about the data of the scanner.                                   *)
(*                                                                         *)
(* IpLists: what readers see implements IpListValue, a read by pages       *)
(* returns a list that was there, and a write that began before a restore  *)
(* leaves the restored list alone. All three rest on generations that only *)
(* grow, so they are conditional: each theorem assumes of the behaviour    *)
(* that a restore brings a generation above those in use (FreshRestores),  *)
(* which the code does not guarantee. The run lists_restore shows what     *)
(* happens without it.                                                     *)
(*                                                                         *)
(* ScanWorker: a scan that can be resumed has passed no target by, and a   *)
(* rescan removes only what failed all of its tries, for every number of   *)
(* targets, every size of chunks and batches and every number of retries.  *)
(***************************************************************************)
EXTENDS IpLists, ScanWorker, TLAPS, WellFoundedInduction, FiniteSetTheorems

\* Stages that hold the ListClaim, and stages that compare their generation with the live one.
Claimed == {"purge", "stage", "sweep", "undo", "header"}
Comparing == {"purge", "stage", "header", "rows"}

\* What a write o of thread t knows at each stage: its generation once it holds the claim
\* (c is the holder), and room for the chunk that comes next.
Phase(t, o, c) ==
  /\ o.at \in {"idle", "claim"} => o.cur = NoGen /\ o.part = 0
  /\ o.at \in Claimed => c = t /\ o.cur \in Gens
  /\ o.at = "purge" => o.part = 0
  /\ o.at = "stage" => o.kind = "replace"
  /\ o.at \in {"purge", "stage"} /\ o.kind = "replace" => o.cur < MaxGen
  /\ o.at \in {"stage", "rows"} => o.part < Parts

\* Every write is where its stage says.
Phases == \A t \in Threads : Phase(t, op[t], claim)

\* Nobody holds a generation above the live one, and a write overtaken by a restore
\* holds a lower one for good.
Behind ==
  /\ \A t \in Threads :
       /\ op[t].at \in Comparing /\ op[t].cur \in Gens => op[t].cur <= gen
       /\ t \in overtaken => op[t].cur \in Gens /\ (op[t].at \in Comparing => op[t].cur < gen)
  /\ read.at = "pages" => read.gen \in Gens /\ read.gen <= gen

\* The first n rows of a value.
Partial(v, n) == {Row(p, <<v, p>>) : p \in 1 .. n}

\* While the live generation is the one a staging write counted from, the next one holds
\* exactly the chunks it has staged.
Staged ==
  \A t \in Threads :
    op[t].at = "stage" /\ exists /\ gen = op[t].cur
      => rows[op[t].cur + 1] = Partial(op[t].value, op[t].part)

\* Rows are numbered from 1, and no number is given twice.
Numbered ==
  \A g \in Gens : \A r, s \in rows[g] : r.order # 0 /\ (r.order = s.order => r = s)

\* What the reader has so far is what the rows up to its place hold, but for what single
\* writes touched.
Seen ==
  read.at = "pages" /\ exists /\ gen = read.gen
    => /\ \A r \in rows[gen] : r.order <= read.after => r.entry \in read.got \cup read.changed
       /\ read.got \subseteq Shown(rows[gen]) \cup read.changed

\* The inductive invariant.
IInv == TypeOK /\ Phases /\ Behind /\ Staged /\ Numbered /\ Seen

-----------------------------------------------------------------------------
(* Numbers.                                                                *)

\* A set of numbers that is not empty has a least one.
LEMMA Least ==
  ASSUME NEW T \in SUBSET Nat, T # {}
  PROVE  \E x \in T : \A y \in T : x <= y
<1>1. PICK x \in T : \A y \in T : ~(<<y, x>> \in OpToRel(<, Nat))
  BY NatLessThanWellFounded, WFMin
<1>2. ASSUME NEW y \in T
      PROVE  ~(y < x)
  BY <1>1 DEF OpToRel
<1> QED
  BY <1>2

\* A set of numbers with a bound that is not empty has a greatest one.
LEMMA Greatest ==
  ASSUME NEW n \in Nat, NEW T \in SUBSET (0 .. n), T # {}
  PROVE  \E x \in T : \A y \in T : y <= x
<1> DEFINE Above == {m \in Nat : \A y \in T : y <= m}
<1>1. n \in Above
  OBVIOUS
<1>2. PICK m \in Above : \A k \in Above : m <= k
  <2>1. Above \in SUBSET Nat /\ Above # {}
    BY <1>1
  <2> HIDE DEF Above
  <2> QED
    BY <2>1, Least
<1>3. m \in T
  <2> SUFFICES ASSUME m \notin T
               PROVE  FALSE
    OBVIOUS
  <2>1. PICK y \in T : TRUE
    OBVIOUS
  <2>2. \A z \in T : z <= m /\ z # m /\ z \in Nat
    OBVIOUS
  <2>3. m - 1 \in Above
    BY <2>1, <2>2
  <2> QED
    BY <1>2, <2>3
<1> QED
  BY <1>3

\* The bounds of generations and orders.
LEMMA Bounds ==
  /\ MaxGen \in Nat /\ 2 <= MaxGen /\ NoGen \notin Gens
  /\ MaxOrders \in Nat /\ Parts \in Nat /\ 1 <= Parts /\ Parts <= MaxOrders
<1>1. MaxOps \in Nat /\ Parts \in Nat /\ 1 <= Parts
  BY IpListsAssumption
<1>2. ASSUME NEW a \in Nat, NEW b \in Nat
      PROVE  a * (b + 1) \in Nat /\ a <= a * (b + 1)
  <2>1. a * b \in Nat /\ a * (b + 1) = a * b + a
    OBVIOUS
  <2> QED
    BY <2>1
<1>3. MaxOrders \in Nat /\ Parts <= MaxOrders
  BY <1>1, <1>2 DEF MaxOrders
<1> QED
  BY <1>1, <1>3 DEF MaxGen, NoGen, Gens

\* A new generation is above the live one and above every one that has rows.
LEMMA Bumps ==
  ASSUME TypeOK
  PROVE  /\ BumpGeneration \in Nat /\ gen < BumpGeneration
         /\ \A g \in Gens : rows[g] # {} => g < BumpGeneration
<1> DEFINE used == {gen} \cup {g \in Gens : rows[g] # {}}
<1>1. used \in SUBSET (0 .. MaxGen) /\ used # {} /\ MaxGen \in Nat
  BY Bounds DEF TypeOK, Gens
<1>2. \E n \in used : \A m \in used : m <= n
  <2> HIDE DEF used
  <2> QED
    BY <1>1, Greatest
<1>3. /\ Bumped(used) \in Nat
      /\ \A m \in used : m < Bumped(used)
  <2> DEFINE top == CHOOSE n \in used : \A m \in used : m <= n
  <2>1. Bumped(used) = 1 + top
    BY DEF Bumped
  <2> HIDE DEF used
  <2>2. top \in used /\ \A m \in used : m <= top
    BY <1>2
  <2> HIDE DEF top
  <2>3. top \in Nat /\ \A m \in used : m \in Nat
    BY <1>1, <2>2
  <2> QED
    BY <2>1, <2>2, <2>3
<1> QED
  BY <1>3 DEF BumpGeneration

\* The highest order of a generation bounds the others.
LEMMA HighestOrder ==
  ASSUME NEW R \in SUBSET [order : Orders, entry : Entries]
  PROVE  MaxOrder(R) \in Orders /\ \A r \in R : r.order <= MaxOrder(R)
<1>1. CASE R = {}
  BY <1>1, Bounds DEF MaxOrder, Orders
<1>2. CASE R # {}
  <2> DEFINE T == {r.order : r \in R}
  <2>1. T \in SUBSET (0 .. MaxOrders) /\ T # {} /\ MaxOrders \in Nat
    BY <1>2, Bounds DEF Orders
  <2>2. \E x \in T : \A y \in T : y <= x
    <3> HIDE DEF T
    <3> QED
      BY <2>1, Greatest
  <2>3. \E n \in Orders : (\E r \in R : r.order = n) /\ \A r \in R : r.order <= n
    BY <2>1, <2>2 DEF Orders
  <2> QED
    BY <1>2, <2>3 DEF MaxOrder
<1> QED
  BY <1>1, <1>2

\* The next row of a page has the lowest order of those left.
LEMMA LowestRow ==
  ASSUME NEW R \in SUBSET [order : Orders, entry : Entries], R # {}
  PROVE  Lowest(R) \in R /\ \A s \in R : Lowest(R).order <= s.order
<1> DEFINE T == {r.order : r \in R}
<1>1. T \in SUBSET Nat /\ T # {}
  BY Bounds DEF Orders
<1>2. \E x \in T : \A y \in T : x <= y
  <2> HIDE DEF T
  <2> QED
    BY <1>1, Least
<1>3. \E r \in R : \A s \in R : r.order <= s.order
  BY <1>2
<1> QED
  BY <1>3 DEF Lowest

-----------------------------------------------------------------------------
(* What steps do to the state of a write.                                  *)

\* A step of thread t.
Step(t) ==
  \/ \E v \in Values, kind \in Kinds : Begin(t, kind, v)
  \/ Write(t) \/ Fail(t)

\* Between calls a thread holds nothing.
LEMMA Idle ==
  /\ NoOp \in Ops /\ NoRead \in Reads
  /\ NoOp.at = "idle" /\ NoOp.cur = NoGen /\ NoOp.part = 0 /\ NoOp.kind = "none"
  /\ NoRead.at = "idle" /\ NoRead.after = 0 /\ NoRead.got = {} /\ NoRead.changed = {}
<1>1. AnyValue \in Values
  BY IpListsAssumption DEF AnyValue
<1>2. 0 \in 0 .. Parts /\ 0 \in Orders
  BY Bounds DEF Orders
<1> QED
  BY <1>1, <1>2 DEF NoOp, NoRead, Ops, Reads, Stages

\* A step of a thread leaves the other threads and what they claimed alone.
LEMMA OthersKeep ==
  ASSUME TypeOK, NEW t \in Threads, Step(t), NEW u \in Threads, u # t
  PROVE  op'[u] = op[u] /\ (claim = u => claim' = u)
<1>1. op \in [Threads -> Ops] /\ NoThread \notin Threads
  BY IpListsAssumption DEF TypeOK
<1>2. ASSUME NEW o, Set(t, o)
      PROVE  op'[u] = op[u]
  BY <1>1, <1>2 DEF Set
<1>3. ASSUME Done(t)
      PROVE  op'[u] = op[u] /\ (claim = u => claim' = u)
  BY <1>2, <1>3 DEF Done
<1>4. ASSUME NEW o, Go(t, o)
      PROVE  op'[u] = op[u] /\ (claim = u => claim' = u)
  BY <1>2, <1>4 DEF Go
<1>5. ASSUME NEW v \in Values, NEW kind \in Kinds, Begin(t, kind, v)
      PROVE  op'[u] = op[u] /\ (claim = u => claim' = u)
  BY <1>2, <1>5 DEF Begin
<1>6. CASE Claim(t)
  BY <1>1, <1>2, <1>3, <1>6 DEF Claim
<1>7. CASE PurgeExcept(t)
  BY <1>3, <1>4, <1>7 DEF PurgeExcept, Purged
<1>8. CASE PurgeGeneration(t)
  BY <1>3, <1>4, <1>8 DEF PurgeGeneration
<1>9. CASE Stage(t)
  BY <1>4, <1>9 DEF Stage
<1>10. CASE DeleteHeader(t)
  BY <1>3, <1>10 DEF DeleteHeader
<1>11. CASE Change(t)
  BY <1>3, <1>4, <1>11 DEF Change
<1>12. CASE Fail(t)
  BY <1>3, <1>4, <1>12 DEF Fail
<1> QED
  BY <1>5, <1>6, <1>7, <1>8, <1>9, <1>10, <1>11, <1>12 DEF Step, Write

\* A step of a thread leaves its own write well-formed.
LEMMA OwnPhase ==
  ASSUME TypeOK, Phases, NEW t \in Threads, Step(t)
  PROVE  op' = [op EXCEPT ![t] = op'[t]] /\ op'[t] \in Ops /\ Phase(t, op'[t], claim')
<1>1. op \in [Threads -> Ops] /\ op[t] \in Ops /\ Phase(t, op[t], claim)
  BY DEF TypeOK, Phases
<1>2. ASSUME NEW o, Set(t, o)
      PROVE  op' = [op EXCEPT ![t] = op'[t]] /\ op'[t] = o
  BY <1>1, <1>2 DEF Set
<1>3. CASE Done(t)
  BY <1>2, <1>3, Idle DEF Done, Phase, Claimed
<1>4. ASSUME NEW o \in Ops, Go(t, o), Phase(t, o, claim)
      PROVE  op' = [op EXCEPT ![t] = op'[t]] /\ op'[t] \in Ops /\ Phase(t, op'[t], claim')
  BY <1>2, <1>4 DEF Go
<1>5. ASSUME NEW v \in Values, NEW kind \in Kinds, Begin(t, kind, v)
      PROVE  op' = [op EXCEPT ![t] = op'[t]] /\ op'[t] \in Ops /\ Phase(t, op'[t], claim')
  <2> DEFINE at == IF kind \in {"upsert", "remove"} THEN "rows" ELSE "claim"
             o == [NoOp EXCEPT !.kind = kind, !.value = v, !.at = at]
  <2>1. o \in Ops /\ Phase(t, o, claim')
    <3>1. o \in Ops /\ o.at = at /\ o.cur = NoGen /\ o.part = 0
      BY Idle DEF Ops, Stages
    <3> QED
      BY <3>1, Bounds DEF Phase, Claimed
  <2> QED
    BY <1>2, <1>5, <2>1 DEF Begin
<1>6. CASE Claim(t)
  <2> DEFINE o == [op[t] EXCEPT !.at = "purge", !.cur = gen']
  <2>1. CASE Done(t)
    BY <1>3, <2>1
  <2>2. CASE Set(t, o) /\ claim' = t /\ gen' \in Gens /\ (op[t].kind = "replace" => gen' < MaxGen)
    <3>1. op[t].part = 0
      BY <1>1, <1>6 DEF Claim, At, Phase
    <3>2. o \in Ops /\ o.at = "purge" /\ o.cur = gen' /\ o.part = 0 /\ o.kind = op[t].kind
      BY <1>1, <2>2, <3>1 DEF Ops, Stages
    <3>3. Phase(t, o, claim')
      BY <2>2, <3>2 DEF Phase, Claimed
    <3> QED
      BY <1>2, <2>2, <3>2, <3>3
  <2>3. ASSUME exists, op[t].kind = "replace", BumpGeneration \in Gens, UNCHANGED gen
        PROVE  gen' \in Gens /\ gen' < MaxGen
    BY <2>3, Bumps, Bounds DEF TypeOK, Gens
  <2> QED
    BY <1>6, <2>1, <2>2, <2>3 DEF Claim
<1>7. CASE PurgeExcept(t)
  <2>1. op[t].at = "purge"
    BY <1>7 DEF PurgeExcept, At
  <2>2. CASE Done(t)
    BY <1>3, <2>2
  <2>3. ASSUME NEW g \in Gens, Go(t, [op[t] EXCEPT !.victim = g])
        PROVE  op' = [op EXCEPT ![t] = op'[t]] /\ op'[t] \in Ops /\ Phase(t, op'[t], claim')
    BY <1>1, <1>4, <2>3 DEF Ops, Phase
  <2>4. CASE op[t].kind = "replace" /\ Go(t, [op[t] EXCEPT !.at = "stage", !.victim = NoGen])
    <3> DEFINE o == [op[t] EXCEPT !.at = "stage", !.victim = NoGen]
    <3>1. o \in Ops /\ o.at = "stage" /\ o.cur = op[t].cur /\ o.part = op[t].part /\ o.kind = op[t].kind
      BY <1>1 DEF Ops, Stages
    <3>2. op[t].part = 0 /\ claim = t /\ op[t].cur \in Gens /\ op[t].cur < MaxGen
      BY <1>1, <2>1, <2>4 DEF Phase, Claimed
    <3>3. 0 < Parts
      BY Bounds
    <3>4. Phase(t, o, claim)
      BY <2>4, <3>1, <3>2, <3>3 DEF Phase, Claimed
    <3> QED
      BY <1>4, <2>4, <3>1, <3>4
  <2>5. CASE Go(t, [op[t] EXCEPT !.at = "header", !.victim = NoGen])
    <3> DEFINE o == [op[t] EXCEPT !.at = "header", !.victim = NoGen]
    <3>1. o \in Ops /\ Phase(t, o, claim)
      BY <1>1, <2>1, Bounds DEF Ops, Stages, Phase, Claimed
    <3> QED
      BY <1>4, <2>5, <3>1
  <2> QED
    BY <1>7, <2>2, <2>3, <2>4, <2>5 DEF PurgeExcept, Purged
<1>8. CASE PurgeGeneration(t)
  <2>1. CASE Done(t)
    BY <1>3, <2>1
  <2>2. CASE Go(t, [op[t] EXCEPT !.victim = NoGen])
    BY <1>1, <1>4, <2>2 DEF Ops, Phase
  <2>3. CASE UNCHANGED <<op, claim>>
    BY <1>1, <2>3
  <2> QED
    BY <1>8, <2>1, <2>2, <2>3 DEF PurgeGeneration
<1>9. CASE Stage(t)
  <2>1. /\ op[t].at = "stage" /\ op[t].cur + 1 \in Gens /\ op[t].cur \in Gens
        /\ op[t].part + 1 \in 0 .. Parts /\ op[t].part + 1 \in Nat
    BY <1>1, <1>9, Bounds DEF Stage, At, Phase, Claimed, Ops, Gens
  <2>2. CASE Go(t, [op[t] EXCEPT !.at = "undo", !.victim = op[t].cur + 1])
    <3> DEFINE o == [op[t] EXCEPT !.at = "undo", !.victim = op[t].cur + 1]
    <3>1. o \in Ops /\ Phase(t, o, claim)
      BY <1>1, <2>1 DEF Ops, Stages, Phase, Claimed
    <3> QED
      BY <1>4, <2>2, <3>1
  <2>3. CASE op[t].part + 1 < Parts /\ Go(t, [op[t] EXCEPT !.part = op[t].part + 1])
    <3> DEFINE o == [op[t] EXCEPT !.part = op[t].part + 1]
    <3>1. o \in Ops /\ Phase(t, o, claim)
      BY <1>1, <2>1, <2>3 DEF Ops, Stages, Phase, Claimed
    <3> QED
      BY <1>4, <2>3, <3>1
  <2>4. CASE Go(t, [op[t] EXCEPT !.at = "sweep", !.victim = op[t].cur])
    <3> DEFINE o == [op[t] EXCEPT !.at = "sweep", !.victim = op[t].cur]
    <3>1. o \in Ops /\ Phase(t, o, claim)
      BY <1>1, <2>1 DEF Ops, Stages, Phase, Claimed
    <3> QED
      BY <1>4, <2>4, <3>1
  <2> QED
    BY <1>9, <2>2, <2>3, <2>4 DEF Stage
<1>10. CASE DeleteHeader(t)
  BY <1>3, <1>10 DEF DeleteHeader
<1>11. CASE Change(t)
  <2>1. op[t].at = "rows" /\ op[t].part + 1 \in 0 .. Parts /\ gen \in Gens
    BY <1>1, <1>11, Bounds DEF Change, At, Phase, Ops, TypeOK
  <2>2. CASE op[t].part + 1 < Parts /\ Go(t, [op[t] EXCEPT !.cur = gen, !.part = op[t].part + 1])
    <3> DEFINE o == [op[t] EXCEPT !.cur = gen, !.part = op[t].part + 1]
    <3>1. o \in Ops /\ Phase(t, o, claim)
      BY <1>1, <2>1, <2>2 DEF Ops, Stages, Phase, Claimed
    <3> QED
      BY <1>4, <2>2, <3>1
  <2> QED
    BY <1>3, <1>11, <2>2 DEF Change
<1>12. CASE Fail(t)
  <2>1. CASE op[t].at = "stage" /\ Go(t, [op[t] EXCEPT !.at = "undo", !.victim = op[t].cur + 1])
    <3> DEFINE o == [op[t] EXCEPT !.at = "undo", !.victim = op[t].cur + 1]
    <3>1. op[t].cur + 1 \in Gens
      BY <1>1, <2>1, Bounds DEF Phase, Claimed, Gens
    <3>2. o \in Ops /\ Phase(t, o, claim)
      BY <1>1, <2>1, <3>1 DEF Ops, Stages, Phase, Claimed
    <3> QED
      BY <1>4, <2>1, <3>2
  <2> QED
    BY <1>3, <1>12, <2>1 DEF Fail, At
<1> QED
  BY <1>5, <1>6, <1>7, <1>8, <1>9, <1>10, <1>11, <1>12 DEF Step, Write

-----------------------------------------------------------------------------
(* What steps do to the rows.                                              *)

\* Inserting keeps the rows that are there and adds at most the new one.
LEMMA Inserts ==
  ASSUME NEW R, NEW r
  PROVE  /\ Insert(R, r) \in {R, R \cup {r}} /\ R \subseteq Insert(R, r)
         /\ (\A s \in R : s.order # r.order /\ s.entry # r.entry) => Insert(R, r) = R \cup {r}
         /\ \A s \in Insert(R, r) \ R : s = r /\ \A q \in R : q.order # r.order
  BY DEF Insert

\* A row is its order and its entry.
LEMMA RowOf ==
  ASSUME NEW n, NEW e
  PROVE  Row(n, e).order = n /\ Row(n, e).entry = e
  BY DEF Row

\* The rows of a value, and what they show.
LEMMA FreshRows ==
  ASSUME NEW v \in Values
  PROVE  /\ Fresh(v) \in SUBSET [order : Orders, entry : Entries]
         /\ \A r, s \in Fresh(v) : r.order # 0 /\ (r.order = s.order => r = s)
         /\ Shown(Fresh(v)) = Whole(v)
<1>1. \A p \in 1 .. Parts : p \in Orders /\ p # 0 /\ <<v, p>> \in Entries
  BY Bounds DEF Orders, Entries
<1>2. \A r \in Fresh(v) : \E p \in 1 .. Parts : r = [order |-> p, entry |-> <<v, p>>]
  BY DEF Fresh, Row
<1>3. Shown(Fresh(v)) = {<<v, p>> : p \in 1 .. Parts}
  <2>1. \A e \in Shown(Fresh(v)) : \E p \in 1 .. Parts : e = <<v, p>>
    BY <1>2 DEF Shown
  <2>2. \A p \in 1 .. Parts : Row(p, <<v, p>>) \in Fresh(v) /\ Row(p, <<v, p>>).entry = <<v, p>>
    BY RowOf DEF Fresh
  <2>3. \A p \in 1 .. Parts : <<v, p>> \in Shown(Fresh(v))
    BY <2>2 DEF Shown
  <2> QED
    BY <2>1, <2>3
<1>4. Whole(v) = {<<v, p>> : p \in 1 .. Parts}
  BY DEF Whole
<1>5. Fresh(v) \in SUBSET [order : Orders, entry : Entries]
  BY <1>1, <1>2
<1>6. \A r, s \in Fresh(v) : r.order # 0 /\ (r.order = s.order => r = s)
  BY <1>1, <1>2
<1> QED
  BY <1>3, <1>4, <1>5, <1>6

\* What a thread may do to the rows: take some away from a generation that is not live,
\* add the next row of a value to the one it stages, drop all of them with the header,
\* or insert or remove an entry of the live one.
RowsStep(t) ==
  \/ UNCHANGED rows
  \/ \E g \in Gens : \E R \in SUBSET rows[g] :
       /\ ~(exists /\ gen = g) /\ op[t].at \in {"purge", "sweep", "undo"}
       /\ rows' = [rows EXCEPT ![g] = R] /\ UNCHANGED <<exists, gen>>
  \/ /\ Stage(t) /\ exists /\ gen = op[t].cur
     /\ rows' = [rows EXCEPT ![gen + 1] =
                   Insert(@, Row(op[t].part + 1, <<op[t].value, op[t].part + 1>>))]
     /\ UNCHANGED exists /\ gen' \in {gen, gen + 1}
  \/ op[t].at = "header" /\ rows' = [g \in Gens |-> {}] /\ exists /\ exists' = FALSE /\ UNCHANGED gen
  \/ \E R : /\ op[t].at = "rows" /\ exists /\ UNCHANGED <<exists, gen>>
            /\ LET entry == <<op[t].value, op[t].part + 1>>
               IN \/ /\ MaxOrder(rows[gen]) < MaxOrders
                     /\ R = Insert(rows[gen], Row(MaxOrder(rows[gen]) + 1, entry))
                  \/ R = {r \in rows[gen] : r.entry # entry}
            /\ rows' = [rows EXCEPT ![gen] = R]

\* The steps of a thread change the rows in no other way.
LEMMA RowsChange ==
  ASSUME TypeOK, Phases, NEW t \in Threads, Step(t)
  PROVE  RowsStep(t)
<1>1. CASE PurgeGeneration(t)
  <2>1. op[t].victim \in Gens
    BY <1>1 DEF PurgeGeneration, TypeOK, Ops
  <2>2. rows[op[t].victim] \ {Lowest(rows[op[t].victim])} \in SUBSET rows[op[t].victim]
    OBVIOUS
  <2> QED
    BY <1>1, <2>1, <2>2 DEF PurgeGeneration, RowsStep
<1>2. CASE Stage(t)
  BY <1>2 DEF Stage, RowsStep
<1>3. CASE DeleteHeader(t)
  BY <1>3 DEF DeleteHeader, RowsStep, At
<1>4. CASE Change(t)
  <2>1. CASE UNCHANGED rows
    BY <2>1 DEF RowsStep
  <2>2. CASE rows' # rows
    BY <1>4, <2>2 DEF Change, RowsStep, At
  <2> QED
    BY <2>1, <2>2
<1>5. CASE Claim(t) \/ PurgeExcept(t) \/ Fail(t) \/ \E v \in Values, kind \in Kinds : Begin(t, kind, v)
  BY <1>5 DEF Claim, PurgeExcept, Fail, Begin, database, RowsStep
<1> QED
  BY <1>1, <1>2, <1>3, <1>4, <1>5 DEF Step, Write

-----------------------------------------------------------------------------
(* Each part of the invariant is kept by every step.                       *)

\* Steps of the reader, which change nothing else.
ReaderStep == ReadBegins \/ ReadPage \/ ReadReturns \/ ReadHeld

\* A step is one of a thread, of the reader, a crash or a restore.
LEMMA Cases ==
  [Next]_vars => \/ \E t \in Threads : Step(t)
                 \/ ReaderStep \/ Crash \/ Restore \/ UNCHANGED vars
  BY DEF Next, Step, ReaderStep

\* A thread only moves the live generation up, within the bound.
LEMMA GenerationGrows ==
  ASSUME TypeOK, Phases, NEW t \in Threads, Step(t)
  PROVE  /\ gen' \in Gens /\ gen <= gen' /\ exists' \in BOOLEAN /\ detached' \in BOOLEAN
         /\ (exists' => exists) /\ overtaken' \subseteq overtaken
         /\ ops' \in 0 .. MaxOps /\ faults' \in 0 .. MaxFaults
<1> USE DEF TypeOK
<1>1. gen \in Gens /\ gen \in Nat /\ MaxOps \in Nat /\ MaxFaults \in Nat /\ ops \in Nat /\ faults \in Nat
  BY IpListsAssumption DEF Gens
<1>2. CASE Claim(t)
  <2>1. UNCHANGED gen \/ (gen' = BumpGeneration /\ BumpGeneration \in Gens)
    BY <1>2 DEF Claim
  <2>2. BumpGeneration \in Nat /\ gen < BumpGeneration
    BY Bumps
  <2>3. gen' \in Gens /\ gen <= gen'
    BY <1>1, <2>1, <2>2
  <2> QED
    BY <1>2, <2>3 DEF Claim, Done
<1>3. CASE PurgeExcept(t)
  <2>1. Purged(t) => overtaken' \subseteq overtaken
    BY DEF Purged, Done, Go
  <2>2. overtaken' \subseteq overtaken
    BY <1>3, <2>1 DEF PurgeExcept, Go
  <2> QED
    BY <1>1, <1>3, <2>2 DEF PurgeExcept, database
<1>4. CASE PurgeGeneration(t)
  BY <1>1, <1>4 DEF PurgeGeneration, Done, Go
<1>5. CASE Stage(t)
  <2>1. op[t].at = "stage" /\ op[t].cur \in Gens /\ op[t].cur < MaxGen
    BY <1>5 DEF Stage, At, Phases, Phase, Claimed
  <2>2. gen' \in Gens /\ gen <= gen'
    BY <1>1, <1>5, <2>1, Bounds DEF Stage, Gens
  <2> QED
    BY <1>5, <2>2 DEF Stage, Go
<1>6. CASE DeleteHeader(t)
  <2>1. gen' = gen /\ detached' = detached /\ ops' = ops /\ faults' = faults
    BY <1>6 DEF DeleteHeader
  <2>2. overtaken' \subseteq overtaken
    BY <1>6 DEF DeleteHeader, Done
  <2>3. CASE exists' = FALSE
    <3>1. exists' \in BOOLEAN /\ (exists' => exists)
      BY <2>3, Zenon
    <3> QED
      BY <1>1, <2>1, <2>2, <3>1
  <2>4. CASE exists' = exists
    BY <1>1, <2>1, <2>2, <2>4
  <2> QED
    BY <1>6, <2>3, <2>4 DEF DeleteHeader
<1>7. CASE Change(t)
  BY <1>1, <1>7 DEF Change, Done, Go
<1>8. CASE Fail(t)
  BY <1>1, <1>8 DEF Fail, Fault, Done, Go, database
<1>9. ASSUME NEW v \in Values, NEW kind \in Kinds, Begin(t, kind, v)
      PROVE  /\ gen' \in Gens /\ gen <= gen' /\ exists' \in BOOLEAN /\ detached' \in BOOLEAN
             /\ (exists' => exists) /\ overtaken' \subseteq overtaken
             /\ ops' \in 0 .. MaxOps /\ faults' \in 0 .. MaxFaults
  BY <1>1, <1>9 DEF Begin
<1> QED
  BY <1>2, <1>3, <1>4, <1>5, <1>6, <1>7, <1>8, <1>9 DEF Step, Write

\* The rows stay rows.
LEMMA RowsTyped ==
  ASSUME TypeOK, Phases, NEW t \in Threads, Step(t)
  PROVE  rows' \in [Gens -> SUBSET [order : Orders, entry : Entries]]
<1> DEFINE Table == [order : Orders, entry : Entries]
<1>1. rows \in [Gens -> SUBSET Table] /\ gen \in Gens /\ RowsStep(t) /\ op[t] \in Ops
  BY RowsChange DEF TypeOK
<1>2. ASSUME NEW g, NEW R \in SUBSET Table, rows' = [rows EXCEPT ![g] = R]
      PROVE  rows' \in [Gens -> SUBSET Table]
  BY <1>1, <1>2
<1>3. ASSUME NEW g \in Gens, NEW r \in Table
      PROVE  Insert(rows[g], r) \in SUBSET Table
  BY <1>1, Inserts
<1>4. ASSUME op[t].at \in {"stage", "rows"}
      PROVE  <<op[t].value, op[t].part + 1>> \in Entries /\ op[t].part + 1 \in Orders
  BY <1>1, <1>4, Bounds DEF Phases, Phase, Ops, Entries, Orders
<1>5. CASE UNCHANGED rows
  BY <1>1, <1>5
<1>6. ASSUME NEW g \in Gens, NEW R \in SUBSET rows[g], rows' = [rows EXCEPT ![g] = R]
      PROVE  rows' \in [Gens -> SUBSET Table]
  BY <1>1, <1>2, <1>6
<1>7. CASE Stage(t) /\ gen = op[t].cur /\
           rows' = [rows EXCEPT ![gen + 1] =
                     Insert(@, Row(op[t].part + 1, <<op[t].value, op[t].part + 1>>))]
  <2>1. op[t].at = "stage" /\ gen + 1 \in Gens
    BY <1>1, <1>7, Bounds DEF Stage, At, Phases, Phase, Gens
  <2>2. Row(op[t].part + 1, <<op[t].value, op[t].part + 1>>) \in Table
    BY <1>4, <2>1 DEF Row
  <2>3. Insert(rows[gen + 1], Row(op[t].part + 1, <<op[t].value, op[t].part + 1>>)) \in SUBSET Table
    BY <1>3, <2>1, <2>2
  <2> QED
    BY <1>1, <1>7, <2>1, <2>3
<1>8. CASE rows' = [g \in Gens |-> {}]
  BY <1>8
<1>9. ASSUME op[t].at = "rows",
             NEW R, rows' = [rows EXCEPT ![gen] = R],
             \/ /\ MaxOrder(rows[gen]) < MaxOrders
                /\ R = Insert(rows[gen], Row(MaxOrder(rows[gen]) + 1, <<op[t].value, op[t].part + 1>>))
             \/ R = {r \in rows[gen] : r.entry # <<op[t].value, op[t].part + 1>>}
      PROVE  rows' \in [Gens -> SUBSET Table]
  <2>1. CASE R = {r \in rows[gen] : r.entry # <<op[t].value, op[t].part + 1>>}
    BY <1>1, <1>2, <1>9, <2>1
  <2>2. CASE /\ MaxOrder(rows[gen]) < MaxOrders
             /\ R = Insert(rows[gen], Row(MaxOrder(rows[gen]) + 1, <<op[t].value, op[t].part + 1>>))
    <3>1. rows[gen] \in SUBSET Table
      BY <1>1
    <3>2. MaxOrder(rows[gen]) + 1 \in Orders
      BY <2>2, <3>1, HighestOrder, Bounds DEF Orders
    <3>3. Row(MaxOrder(rows[gen]) + 1, <<op[t].value, op[t].part + 1>>) \in Table
      BY <1>4, <1>9, <3>2 DEF Row
    <3> QED
      BY <1>1, <1>2, <1>3, <1>9, <2>2, <3>3
  <2> QED
    BY <1>9, <2>1, <2>2
<1> QED
  BY <1>1, <1>5, <1>6, <1>7, <1>8, <1>9 DEF RowsStep

\* What a reader has is made of entries.
LEMMA ReadTyped ==
  ASSUME TypeOK, Phases, [Next]_vars
  PROVE  read' \in Reads
<1>1. read \in Reads /\ gen \in Gens /\ rows \in [Gens -> SUBSET [order : Orders, entry : Entries]]
  BY DEF TypeOK
<1>2. CASE UNCHANGED read
  BY <1>1, <1>2
<1>3. CASE read' = NoRead
  BY <1>3, Idle
<1>4. CASE ReadBegins
  BY <1>1, <1>4, Idle DEF ReadBegins, Reads
<1>5. CASE ReadPage
  <2>1. CASE read' = [NoRead EXCEPT !.at = "hold"]
    BY <2>1, Idle DEF Reads
  <2>2. CASE /\ Pages /\ Unread # {}
             /\ read' = [read EXCEPT !.after = Lowest(Unread).order, !.got = @ \cup {Lowest(Unread).entry}]
    <3>1. Unread \in SUBSET [order : Orders, entry : Entries]
      BY <1>1, <2>2 DEF Unread, Pages
    <3>2. Lowest(Unread) \in [order : Orders, entry : Entries]
      BY <2>2, <3>1, LowestRow
    <3>3. Lowest(Unread).order \in Orders /\ Lowest(Unread).entry \in Entries
      BY <3>2
    <3> QED
      BY <1>1, <2>2, <3>3 DEF Reads
  <2> QED
    BY <1>5, <2>1, <2>2 DEF ReadPage
<1>6. ASSUME NEW t \in Threads, Change(t)
      PROVE  read' \in Reads
  <2>1. <<op[t].value, op[t].part + 1>> \in Entries
    BY <1>6, Bounds DEF Change, At, TypeOK, Phases, Phase, Ops, Entries
  <2> QED
    BY <1>1, <1>6, <2>1 DEF Change, Reads
<1>7. ASSUME NEW t \in Threads, Step(t), ~Change(t)
      PROVE  UNCHANGED read
  BY <1>7 DEF Step, Write, Begin, Claim, PurgeExcept, PurgeGeneration, Stage, DeleteHeader, Fail
<1> QED
  BY <1>2, <1>3, <1>4, <1>5, <1>6, <1>7, Cases DEF ReaderStep, ReadReturns, ReadHeld, Crash,
                                                   Restore, vars

\* The type invariant is kept.
LEMMA TypeStep ==
  ASSUME TypeOK, Phases, [Next]_vars
  PROVE  TypeOK'
<1>1. read' \in Reads
  BY ReadTyped
<1>2. ASSUME NEW t \in Threads, Step(t)
      PROVE  TypeOK'
  <2>1. claim' \in Threads \cup {NoThread}
    <3>1. Done(t) => claim' \in Threads \cup {NoThread}
      BY DEF Done, TypeOK
    <3>2. ASSUME NEW o, Go(t, o)
          PROVE  claim' \in Threads \cup {NoThread}
      BY <3>2 DEF Go, TypeOK
    <3>3. Purged(t) => claim' \in Threads \cup {NoThread}
      BY <3>1, <3>2 DEF Purged
    <3> HIDE DEF Step
    <3>4. CASE Claim(t)
      BY <3>1, <3>4 DEF Claim
    <3>5. CASE PurgeExcept(t)
      BY <3>2, <3>3, <3>5 DEF PurgeExcept
    <3>6. CASE PurgeGeneration(t) \/ Stage(t) \/ DeleteHeader(t) \/ Change(t) \/ Fail(t)
      BY <3>1, <3>2, <3>6 DEF PurgeGeneration, Stage, DeleteHeader, Change, Fail, TypeOK
    <3>7. CASE \E v \in Values, kind \in Kinds : Begin(t, kind, v)
      BY <3>7 DEF Begin, TypeOK
    <3> QED
      BY <1>2, <3>4, <3>5, <3>6, <3>7 DEF Step, Write
  <2>2. op' \in [Threads -> Ops]
    BY <1>2, OwnPhase DEF TypeOK
  <2>3. overtaken' \subseteq Threads
    BY <1>2, GenerationGrows DEF TypeOK
  <2> QED
    BY <1>1, <1>2, <2>1, <2>2, <2>3, GenerationGrows, RowsTyped DEF TypeOK
<1>3. CASE ReaderStep
  BY <1>1, <1>3 DEF ReaderStep, ReadBegins, ReadPage, ReadReturns, ReadHeld, reading, database,
                    TypeOK
<1>4. faults < MaxFaults /\ faults' = faults + 1 /\ TypeOK => faults' \in 0 .. MaxFaults
  BY IpListsAssumption DEF TypeOK
<1>5. CASE Crash
  <2>1. op' \in [Threads -> Ops]
    BY <1>5, Idle DEF Crash
  <2>2. rows' \in [Gens -> SUBSET [order : Orders, entry : Entries]]
    BY <1>5 DEF Crash, TypeOK
  <2> QED
    BY <1>1, <1>4, <1>5, <2>1, <2>2 DEF Crash, Fault, TypeOK
<1>6. CASE Restore
  <2>1. gen' \in Gens /\ rows' \in [Gens -> SUBSET [order : Orders, entry : Entries]]
    BY <1>6, FreshRows DEF Restore
  <2> QED
    BY <1>1, <1>4, <1>6, <2>1 DEF Restore, Fault, TypeOK
<1>7. CASE UNCHANGED vars
  BY <1>7 DEF vars, TypeOK
<1> QED
  BY <1>2, <1>3, <1>5, <1>6, <1>7, Cases

\* Every write stays where its stage says.
LEMMA PhasesStep ==
  ASSUME TypeOK, Phases, [Next]_vars
  PROVE  Phases'
<1>1. ASSUME NEW t \in Threads, Step(t)
      PROVE  Phases'
  <2>1. ASSUME NEW u \in Threads
        PROVE  Phase(u, op'[u], claim')
    <3>1. CASE u = t
      BY <1>1, <3>1, OwnPhase
    <3>2. CASE u # t
      <4>1. op'[u] = op[u] /\ (claim = u => claim' = u)
        BY <1>1, <3>2, OthersKeep
      <4>2. Phase(u, op[u], claim)
        BY DEF Phases
      <4> QED
        BY <4>1, <4>2 DEF Phase
    <3> QED
      BY <3>1, <3>2
  <2> QED
    BY <2>1 DEF Phases
<1>2. CASE ReaderStep
  BY <1>2 DEF ReaderStep, ReadBegins, ReadPage, ReadReturns, ReadHeld, reading, Phases
<1>3. CASE Crash
  <2>1. ASSUME NEW u \in Threads
        PROVE  Phase(u, op'[u], claim')
    BY <1>3, Idle DEF Crash, Phase, Claimed
  <2> QED
    BY <2>1 DEF Phases
<1>4. CASE Restore \/ UNCHANGED vars
  BY <1>4 DEF Restore, vars, Phases
<1> QED
  BY <1>1, <1>2, <1>3, <1>4, Cases

\* A write takes the live generation or keeps its own, and an overtaken one keeps its own.
Takes(t) ==
  /\ op'[t].at \in Comparing /\ op'[t].cur \in Gens
       => op'[t].cur = gen' \/ (op'[t].cur = op[t].cur /\ op[t].at \in Comparing)
  /\ t \in overtaken'
       => /\ t \in overtaken /\ op'[t].cur = op[t].cur
          /\ op'[t].at \in Comparing => op[t].at \in Comparing

\* So does every step of a thread.
LEMMA OwnGeneration ==
  ASSUME TypeOK, Phases, Behind, NEW t \in Threads, Step(t)
  PROVE  Takes(t)
<1>1. /\ op \in [Threads -> Ops] /\ op[t] \in Ops /\ Phase(t, op[t], claim) /\ gen \in Gens
      /\ NoGen \notin Gens
  BY Bounds DEF TypeOK, Phases
<1>2. ASSUME NEW o, Set(t, o)
      PROVE  op'[t] = o
  BY <1>1, <1>2 DEF Set
<1>3. CASE Done(t)
  <2>1. op'[t].at = "idle" /\ t \notin overtaken'
    BY <1>2, <1>3, Idle DEF Done
  <2> QED
    BY <2>1 DEF Takes, Comparing
<1>4. ASSUME NEW o, Go(t, o), o.cur = op[t].cur, o.at \in Comparing => op[t].at \in Comparing
      PROVE  Takes(t)
  BY <1>2, <1>4 DEF Go, Takes
<1>5. ASSUME NEW v \in Values, NEW kind \in Kinds, Begin(t, kind, v)
      PROVE  Takes(t)
  <2>1. op'[t].cur = NoGen /\ UNCHANGED overtaken /\ op[t].cur = NoGen
    BY <1>1, <1>2, <1>5, Idle DEF Begin, At, Phase, Ops
  <2>2. t \notin overtaken
    BY <1>1, <2>1 DEF Behind
  <2> QED
    BY <1>1, <2>1, <2>2 DEF Takes
<1>6. CASE Claim(t)
  <2>1. op[t].cur = NoGen
    BY <1>1, <1>6 DEF Claim, At, Phase
  <2>2. t \notin overtaken
    BY <1>1, <2>1 DEF Behind
  <2>3. CASE ~Done(t)
    <3>1. Set(t, [op[t] EXCEPT !.at = "purge", !.cur = gen']) /\ UNCHANGED overtaken
      BY <1>6, <2>3 DEF Claim
    <3>2. op'[t].cur = gen'
      BY <1>1, <1>2, <3>1 DEF Ops
    <3> QED
      BY <2>2, <3>1, <3>2 DEF Takes
  <2> QED
    BY <1>3, <2>3
<1>7. CASE PurgeExcept(t)
  <2>1. op[t].at = "purge"
    BY <1>7 DEF PurgeExcept, At
  <2>2. ASSUME NEW g \in Gens, Go(t, [op[t] EXCEPT !.victim = g])
        PROVE  Takes(t)
    BY <1>1, <1>4, <2>2 DEF Ops
  <2>3. CASE Go(t, [op[t] EXCEPT !.at = "stage", !.victim = NoGen])
    BY <1>1, <1>4, <2>1, <2>3 DEF Ops, Comparing
  <2>4. CASE Go(t, [op[t] EXCEPT !.at = "header", !.victim = NoGen])
    BY <1>1, <1>4, <2>1, <2>4 DEF Ops, Comparing
  <2> QED
    BY <1>3, <1>7, <2>2, <2>3, <2>4 DEF PurgeExcept, Purged
<1>8. CASE PurgeGeneration(t)
  <2>1. CASE Go(t, [op[t] EXCEPT !.victim = NoGen])
    BY <1>1, <1>4, <2>1 DEF Ops
  <2>2. CASE UNCHANGED <<op, claim, overtaken>>
    BY <2>2 DEF Takes
  <2> QED
    BY <1>3, <1>8, <2>1, <2>2 DEF PurgeGeneration
<1>9. CASE Stage(t)
  <2>1. op[t].at = "stage"
    BY <1>9 DEF Stage, At
  <2>2. CASE Go(t, [op[t] EXCEPT !.at = "undo", !.victim = op[t].cur + 1])
    BY <1>1, <1>4, <2>1, <2>2 DEF Ops, Comparing
  <2>3. CASE Go(t, [op[t] EXCEPT !.part = op[t].part + 1])
    BY <1>1, <1>4, <2>1, <2>3 DEF Ops, Comparing
  <2>4. CASE Go(t, [op[t] EXCEPT !.at = "sweep", !.victim = op[t].cur])
    BY <1>1, <1>4, <2>1, <2>4 DEF Ops, Comparing
  <2> QED
    BY <1>9, <2>2, <2>3, <2>4 DEF Stage
<1>10. CASE DeleteHeader(t)
  BY <1>3, <1>10 DEF DeleteHeader
<1>11. CASE Change(t)
  <2>1. CASE /\ op[t].cur = NoGen \/ gen = op[t].cur
             /\ Go(t, [op[t] EXCEPT !.cur = gen, !.part = op[t].part + 1])
    <3>1. op[t].at = "rows" /\ gen' = gen
      BY <1>11 DEF Change, At
    <3>2. op'[t].cur = gen' /\ UNCHANGED overtaken
      BY <1>1, <1>2, <2>1, <3>1 DEF Go, Ops
    <3>3. t \notin overtaken
      BY <1>1, <2>1, <3>1, Bounds DEF Behind, Comparing, Gens
    <3> QED
      BY <3>2, <3>3 DEF Takes
  <2> QED
    BY <1>3, <1>11, <2>1 DEF Change
<1>12. CASE Fail(t)
  <2>1. CASE op[t].at = "stage" /\ Go(t, [op[t] EXCEPT !.at = "undo", !.victim = op[t].cur + 1])
    BY <1>1, <1>4, <2>1 DEF Ops, Comparing
  <2> QED
    BY <1>3, <1>12, <2>1 DEF Fail, At
<1> QED
  BY <1>5, <1>6, <1>7, <1>8, <1>9, <1>10, <1>11, <1>12 DEF Step, Write

\* The order of numbers.
LEMMA Chain ==
  \A a, b, c \in Nat : /\ a <= b /\ b <= c => a <= c
                       /\ a < b /\ b <= c => a < c
                       /\ (a < b => a <= b) /\ (a > b <=> b < a)
  OBVIOUS

\* Generations in hand stay behind the live one, as long as a restore brings a higher one.
LEMMA BehindStep ==
  ASSUME RestoresFresh, TypeOK, Phases, Behind, [Next]_vars
  PROVE  Behind'
<1> DEFINE Own(t) ==
      /\ op[t].at \in Comparing /\ op[t].cur \in Gens => op[t].cur <= gen
      /\ t \in overtaken => op[t].cur \in Gens /\ (op[t].at \in Comparing => op[t].cur < gen)
<1>1. gen \in Nat /\ Gens \subseteq Nat /\ NoGen \notin Gens
  BY Bounds DEF TypeOK, Gens
<1>2. ASSUME NEW t \in Threads, Step(t)
      PROVE  Behind'
  <2>1. gen' \in Nat /\ gen <= gen' /\ overtaken' \subseteq overtaken
    BY <1>1, <1>2, GenerationGrows
  <2>2. ASSUME NEW u \in Threads
        PROVE  Own(u)'
    <3>1. /\ op[u].at \in Comparing /\ op[u].cur \in Gens => op[u].cur <= gen /\ op[u].cur <= gen'
          /\ u \in overtaken => /\ op[u].cur \in Gens
                                /\ op[u].at \in Comparing => op[u].cur < gen /\ op[u].cur < gen'
      BY <1>1, <2>1, Chain, Zenon DEF Behind
    <3>2. CASE u = t
      <4>1. Takes(u)
        BY <1>2, <3>2, OwnGeneration
      <4>2. gen' <= gen'
        BY <2>1
      <4> QED
        BY <3>1, <4>1, <4>2 DEF Takes
    <3>3. CASE u # t
      <4>1. op'[u] = op[u]
        BY <1>2, <3>3, OthersKeep
      <4> QED
        BY <2>1, <3>1, <4>1
    <3> QED
      BY <3>2, <3>3
  <2>3. read'.at = "pages" => read'.gen \in Gens /\ read'.gen <= gen'
    <3>1. read'.at = read.at /\ read'.gen = read.gen
      <4>1. CASE UNCHANGED read
        BY <4>1
      <4>2. CASE Change(t)
        BY <4>2 DEF Change, TypeOK, Reads
      <4> QED
        BY <1>2, <4>1, <4>2 DEF Step, Write, Begin, Claim, PurgeExcept, PurgeGeneration, Stage,
                                DeleteHeader, Fail
    <3>2. read.at = "pages" => read.gen \in Gens /\ read.gen <= gen
      BY DEF Behind
    <3> QED
      BY <1>1, <2>1, <3>1, <3>2, Chain, Zenon
  <2> QED
    BY <2>2, <2>3 DEF Behind
<1>3. CASE ReaderStep
  <2>1. UNCHANGED <<op, gen, overtaken>>
    BY <1>3 DEF ReaderStep, ReadBegins, ReadPage, ReadReturns, ReadHeld, reading, database
  <2>2. CASE ReadBegins
    <3>1. read'.gen = gen /\ gen <= gen /\ gen \in Gens
      BY <1>1, <2>2, Idle DEF ReadBegins, Reads, TypeOK
    <3> QED
      BY <2>1, <3>1 DEF Behind
  <2>3. CASE ReadPage
    <3>1. read'.at = "pages" => read.at = "pages" /\ read'.gen = read.gen
      BY <2>3, Idle DEF ReadPage, Reads, TypeOK
    <3> QED
      BY <2>1, <3>1 DEF Behind
  <2>4. CASE ReadReturns \/ ReadHeld
    <3>1. read'.at = "idle"
      BY <2>4, Idle DEF ReadReturns, ReadHeld
    <3> QED
      BY <2>1, <3>1 DEF Behind
  <2> QED
    BY <1>3, <2>2, <2>3, <2>4 DEF ReaderStep
<1>4. CASE Crash
  <2>1. read'.at = "idle" /\ overtaken' = {} /\ \A t \in Threads : op'[t].at = "idle"
    BY <1>4, Idle DEF Crash
  <2> QED
    BY <2>1 DEF Behind, Comparing
<1>5. CASE Restore
  <2>1. gen' \in Gens /\ \A h \in InUse : gen' > h
    BY <1>5 DEF Restore, RestoresFresh
  <2>2. UNCHANGED <<op, read>> /\ overtaken' = {t \in Threads : Taken(t)}
    BY <1>5 DEF Restore
  <2>3. ASSUME NEW t \in Threads, op[t].at \in Comparing, op[t].cur \in Gens
        PROVE  op[t].cur < gen'
    <3>1. op[t].cur \in InUse
      BY <1>1, <2>3 DEF InUse, Taken, Comparing
    <3> QED
      BY <1>1, <2>1, <2>3, <3>1
  <2>4. ASSUME NEW t \in Threads, op[t].at \in Comparing, op[t].cur \in Gens
        PROVE  op[t].cur <= gen'
    <3>1. op[t].cur \in Nat /\ gen' \in Nat /\ op[t].cur < gen'
      BY <1>1, <2>1, <2>3, <2>4
    <3> QED
      BY <3>1
  <2>5. \A t \in overtaken' : op[t].cur \in Gens
    BY <2>2 DEF Taken, TypeOK, Ops
  <2>6. read.at = "pages" => read.gen \in Gens /\ read.gen <= gen'
    <3>1. read.at = "pages" => read.gen \in InUse /\ read.gen \in Gens
      BY DEF InUse, Behind
    <3> QED
      BY <1>1, <2>1, <3>1, Chain, Zenon
  <2> QED
    BY <2>2, <2>3, <2>4, <2>5, <2>6 DEF Behind
<1>6. CASE UNCHANGED vars
  BY <1>6 DEF vars, Behind
<1> QED
  BY <1>2, <1>3, <1>4, <1>5, <1>6, Cases

\* The order of rows stays unambiguous.
LEMMA NumberedStep ==
  ASSUME TypeOK, Phases, Numbered, [Next]_vars
  PROVE  Numbered'
<1> DEFINE Table == [order : Orders, entry : Entries]
           Good(R) == \A r, s \in R : r.order # 0 /\ (r.order = s.order => r = s)
<1>1. rows \in [Gens -> SUBSET Table] /\ gen \in Gens /\ \A g \in Gens : Good(rows[g])
  BY DEF TypeOK, Numbered
<1>2. (\A g \in Gens : Good(rows'[g])) => Numbered'
  BY DEF Numbered
<1>3. ASSUME NEW h \in Gens, NEW R, Good(R), rows' = [rows EXCEPT ![h] = R]
      PROVE  Numbered'
  <2>1. \A g \in Gens : rows'[g] \in {rows[g], R}
    BY <1>1, <1>3
  <2> QED
    BY <1>1, <1>2, <1>3, <2>1
<1>4. ASSUME NEW g \in Gens, NEW r, r.order # 0
      PROVE  Good(Insert(rows[g], r))
  <2>1. /\ Insert(rows[g], r) \in {rows[g], rows[g] \cup {r}}
        /\ \A s \in Insert(rows[g], r) \ rows[g] : s = r /\ \A q \in rows[g] : q.order # r.order
    BY Inserts
  <2> QED
    BY <1>1, <1>4, <2>1
<1>5. ASSUME NEW t \in Threads, Step(t)
      PROVE  Numbered'
  <2>1. RowsStep(t) /\ op[t] \in Ops
    BY <1>5, RowsChange DEF TypeOK
  <2>2. CASE UNCHANGED rows
    BY <1>1, <1>2, <2>2
  <2>3. ASSUME NEW g \in Gens, NEW R \in SUBSET rows[g], rows' = [rows EXCEPT ![g] = R]
        PROVE  Numbered'
    <3>1. Good(R)
      BY <1>1, <2>3
    <3> HIDE DEF Good
    <3> QED
      BY <1>3, <2>3, <3>1
  <2>4. CASE Stage(t) /\ gen = op[t].cur /\
             rows' = [rows EXCEPT ![gen + 1] =
                       Insert(@, Row(op[t].part + 1, <<op[t].value, op[t].part + 1>>))]
    <3> DEFINE r == Row(op[t].part + 1, <<op[t].value, op[t].part + 1>>)
    <3>1. op[t].at = "stage" /\ gen + 1 \in Gens
      BY <1>1, <2>4, Bounds DEF Stage, At, Phases, Phase, Gens
    <3>2. r.order # 0
      BY <2>1, RowOf DEF Ops
    <3> HIDE DEF r
    <3>3. Good(Insert(rows[gen + 1], r))
      BY <1>4, <3>1, <3>2
    <3>4. rows' = [rows EXCEPT ![gen + 1] = Insert(rows[gen + 1], r)]
      BY <2>4 DEF r
    <3> QED
      BY <1>3, <3>1, <3>3, <3>4
  <2>5. CASE rows' = [g \in Gens |-> {}]
    BY <1>2, <2>5
  <2>6. ASSUME NEW R, rows' = [rows EXCEPT ![gen] = R],
               R = Insert(rows[gen], Row(MaxOrder(rows[gen]) + 1, <<op[t].value, op[t].part + 1>>))
        PROVE  Numbered'
    <3> DEFINE r == Row(MaxOrder(rows[gen]) + 1, <<op[t].value, op[t].part + 1>>)
    <3>1. MaxOrder(rows[gen]) \in Orders
      BY <1>1, HighestOrder
    <3>2. r.order # 0
      BY <3>1, RowOf DEF Orders
    <3> HIDE DEF r
    <3>3. Good(Insert(rows[gen], r))
      BY <1>1, <1>4, <3>2
    <3>4. R = Insert(rows[gen], r)
      BY <2>6 DEF r
    <3> HIDE DEF Good
    <3>5. Good(R)
      BY <3>3, <3>4
    <3> QED
      BY <1>1, <1>3, <2>6, <3>5
  <2>7. ASSUME NEW R, rows' = [rows EXCEPT ![gen] = R],
               R = {r \in rows[gen] : r.entry # <<op[t].value, op[t].part + 1>>}
        PROVE  Numbered'
    BY <1>1, <2>3, <2>7
  <2> QED
    BY <2>1, <2>2, <2>3, <2>4, <2>5, <2>6, <2>7 DEF RowsStep
<1>6. CASE Crash
  <2>1. \A g \in Gens : rows'[g] \in {rows[g], {}}
    BY <1>6 DEF Crash
  <2> QED
    BY <1>1, <1>2, <2>1
<1>7. CASE Restore
  <2>1. PICK v \in Values : \A g \in Gens : rows'[g] \in {Fresh(v), {}}
    BY <1>7 DEF Restore
  <2>2. Good(Fresh(v))
    BY FreshRows
  <2> QED
    BY <1>2, <2>1, <2>2
<1>8. CASE ReaderStep \/ UNCHANGED vars
  BY <1>8 DEF ReaderStep, ReadBegins, ReadPage, ReadReturns, ReadHeld, reading, database, vars,
              Numbered
<1> QED
  BY <1>5, <1>6, <1>7, <1>8, Cases

\* Staging begins after a purge, or goes on.
LEMMA Staging ==
  ASSUME TypeOK, Phases, NEW t \in Threads, Step(t), op'[t].at = "stage"
  PROVE  \/ /\ PurgeExcept(t) /\ op[t].at = "purge" /\ op[t].kind = "replace" /\ UNCHANGED rows
            /\ op'[t] = [op[t] EXCEPT !.at = "stage", !.victim = NoGen]
            /\ \A g \in Gens : g # op[t].cur => rows[g] = {}
         \/ /\ op[t].at = "stage" /\ exists /\ gen = op[t].cur
            /\ rows' = [rows EXCEPT ![gen + 1] =
                          Insert(@, Row(op[t].part + 1, <<op[t].value, op[t].part + 1>>))]
            /\ op'[t] = [op[t] EXCEPT !.part = op[t].part + 1]
<1>1. op \in [Threads -> Ops] /\ op[t] \in Ops
  BY DEF TypeOK
<1>2. ASSUME NEW o, Set(t, o)
      PROVE  op'[t] = o
  BY <1>1, <1>2 DEF Set
<1>3. ~Done(t)
  BY <1>2, Idle DEF Done
<1>4. CASE PurgeExcept(t)
  <2>1. op[t].at = "purge"
    BY <1>4 DEF PurgeExcept, At
  <2>2. \A g \in Gens : ~Go(t, [op[t] EXCEPT !.victim = g])
    BY <1>1, <1>2, <2>1 DEF Go, Ops
  <2>3. ~Go(t, [op[t] EXCEPT !.at = "header", !.victim = NoGen])
    BY <1>1, <1>2 DEF Go, Ops
  <2>4. {g \in Gens \ {op[t].cur} : rows[g] # {}} = {} /\ Purged(t) /\ UNCHANGED rows
    BY <1>4, <2>2 DEF PurgeExcept, database
  <2>5. op[t].kind = "replace" /\ Go(t, [op[t] EXCEPT !.at = "stage", !.victim = NoGen])
    BY <1>3, <2>3, <2>4 DEF Purged
  <2> QED
    BY <1>2, <1>4, <2>1, <2>4, <2>5 DEF Go
<1>5. CASE Stage(t)
  <2>1. op[t].at = "stage"
    BY <1>5 DEF Stage, At
  <2>2. ~Go(t, [op[t] EXCEPT !.at = "undo", !.victim = op[t].cur + 1])
    BY <1>1, <1>2 DEF Go, Ops
  <2>3. ~Go(t, [op[t] EXCEPT !.at = "sweep", !.victim = op[t].cur])
    BY <1>1, <1>2 DEF Go, Ops
  <2> QED
    BY <1>2, <1>5, <2>1, <2>2, <2>3 DEF Stage, Go
<1>6. CASE Claim(t)
  <2>1. Set(t, [op[t] EXCEPT !.at = "purge", !.cur = gen'])
    BY <1>3, <1>6 DEF Claim
  <2> QED
    BY <1>1, <1>2, <2>1 DEF Ops
<1>7. CASE PurgeGeneration(t)
  <2>1. op[t].at # "stage"
    BY <1>7 DEF PurgeGeneration
  <2>2. op' # op /\ ~Go(t, [op[t] EXCEPT !.victim = NoGen])
    BY <1>1, <1>2, <2>1 DEF Go, Ops
  <2> QED
    BY <1>3, <1>7, <2>2 DEF PurgeGeneration
<1>8. CASE Change(t)
  <2>1. op[t].at = "rows"
    BY <1>8 DEF Change, At
  <2>2. ~Go(t, [op[t] EXCEPT !.cur = gen, !.part = op[t].part + 1])
    BY <1>1, <1>2, <2>1 DEF Go, Ops
  <2> QED
    BY <1>3, <1>8, <2>2 DEF Change
<1>9. CASE Fail(t)
  <2>1. ~Go(t, [op[t] EXCEPT !.at = "undo", !.victim = op[t].cur + 1])
    BY <1>1, <1>2 DEF Go, Ops
  <2> QED
    BY <1>3, <1>9, <2>1 DEF Fail
<1>10. ~DeleteHeader(t)
  BY <1>3 DEF DeleteHeader
<1>11. ASSUME NEW v \in Values, NEW kind \in Kinds, Begin(t, kind, v)
       PROVE  FALSE
  BY <1>2, <1>11, Idle DEF Begin, Ops
<1> QED
  BY <1>4, <1>5, <1>6, <1>7, <1>8, <1>9, <1>10, <1>11 DEF Step, Write

\* The rows of the first n parts, and one more.
LEMMA PartialRows ==
  ASSUME NEW v, NEW n \in Nat
  PROVE  /\ Partial(v, 0) = {}
         /\ Insert(Partial(v, n), Row(n + 1, <<v, n + 1>>)) = Partial(v, n + 1)
<1>1. Partial(v, 0) = {}
  BY DEF Partial
<1>2. \A s \in Partial(v, n) : \E p \in 1 .. n : s.order = p /\ s.entry = <<v, p>>
  BY DEF Partial, Row
<1>3. \A s \in Partial(v, n) : s.order # n + 1 /\ s.entry # <<v, n + 1>>
  BY <1>2
<1>4. Insert(Partial(v, n), Row(n + 1, <<v, n + 1>>)) = Partial(v, n) \cup {Row(n + 1, <<v, n + 1>>)}
  BY <1>3, RowOf, Inserts
<1>5. 1 .. n + 1 = (1 .. n) \cup {n + 1}
  OBVIOUS
<1>6. Partial(v, n + 1) = Partial(v, n) \cup {Row(n + 1, <<v, n + 1>>)}
  BY <1>5 DEF Partial
<1> QED
  BY <1>1, <1>4, <1>6

\* What is staged stays as it was staged, and grows by its own chunks only.
LEMMA StagedStep ==
  ASSUME RestoresFresh, TypeOK, Phases, Behind, Staged, [Next]_vars
  PROVE  Staged'
<1> DEFINE Live(t) == op[t].at = "stage" /\ exists /\ gen = op[t].cur
           Kept(t) == rows[op[t].cur + 1] = Partial(op[t].value, op[t].part)
<1>1. \A t \in Threads : Live(t) => Kept(t)
  BY DEF Staged
<1>2. gen \in Gens /\ gen \in Nat /\ Gens \subseteq Nat /\ NoGen \notin Gens
  BY Bounds DEF TypeOK, Gens
<1>3. ASSUME NEW t \in Threads, Step(t), NEW u \in Threads, Live(u)'
      PROVE  Kept(u)'
  <2>1. RowsStep(t) /\ gen' \in Gens /\ gen <= gen' /\ (exists' => exists)
    BY <1>3, RowsChange, GenerationGrows
  <2>2. CASE u # t
    <3>1. op'[u] = op[u] /\ claim = u /\ op[u].cur \in Gens /\ op[u].cur < MaxGen /\ op[u].cur <= gen
      BY <1>3, <2>2, OthersKeep DEF Phases, Phase, Claimed, Behind, Comparing
    <3>2. gen = op[u].cur
      <4>1. gen' = op[u].cur
        BY <1>3, <3>1
      <4>2. op[u].cur \in Nat /\ gen \in Nat
        BY <1>2, <3>1
      <4>3. op[u].cur <= gen /\ gen <= op[u].cur
        BY <2>1, <3>1, <4>1
      <4> HIDE DEF Live, Kept
      <4> QED
        BY <4>2, <4>3
    <3>3. Kept(u)
      BY <1>1, <1>3, <2>1, <3>1, <3>2
    <3>4. op[t].at \notin Claimed
      BY <2>2, <3>1 DEF Phases, Phase
    <3>5. rows'[gen + 1] = rows[gen + 1]
      <4>1. ~Stage(t)
        BY <3>4 DEF Stage, At, Claimed
      <4>2. op[t].at \notin {"purge", "sweep", "undo", "header"}
        BY <3>4 DEF Claimed
      <4>3. \A R : rows' = [rows EXCEPT ![gen] = R] => rows'[gen + 1] = rows[gen + 1]
        BY <1>2, <3>1, <3>2, Bounds DEF TypeOK, Gens
      <4> QED
        BY <2>1, <4>1, <4>2, <4>3 DEF RowsStep
    <3> QED
      BY <3>1, <3>2, <3>3, <3>5
  <2>3. CASE u = t /\ PurgeExcept(t) /\ op[t].at = "purge"
    <3>1. /\ op[t].kind = "replace" /\ UNCHANGED rows
          /\ op'[t] = [op[t] EXCEPT !.at = "stage", !.victim = NoGen]
          /\ \A g \in Gens : g # op[t].cur => rows[g] = {}
      BY <1>3, <2>3, Staging
    <3>2. op[t] \in Ops /\ op[t].part = 0 /\ op[t].cur \in Gens /\ op[t].cur < MaxGen
      BY <2>3, <3>1 DEF Phases, Phase, Claimed, TypeOK
    <3>3. op[t].cur + 1 \in Gens /\ op[t].cur + 1 # op[t].cur
      BY <3>2, Bounds DEF Gens
    <3>4. rows[op[t].cur + 1] = {}
      BY <3>1, <3>3
    <3>5. op'[t].cur = op[t].cur /\ op'[t].part = 0
      BY <3>1, <3>2 DEF Ops
    <3> QED
      BY <2>3, <3>1, <3>4, <3>5, PartialRows
  <2>4. CASE u = t /\ op[t].at = "stage"
    <3>1. /\ exists /\ gen = op[t].cur
          /\ rows' = [rows EXCEPT ![gen + 1] =
                        Insert(@, Row(op[t].part + 1, <<op[t].value, op[t].part + 1>>))]
          /\ op'[t] = [op[t] EXCEPT !.part = op[t].part + 1]
      BY <1>3, <2>4, Staging
    <3>2. op[t] \in Ops /\ op[t].part \in Nat /\ op[t].cur \in Gens /\ op[t].cur < MaxGen
      BY <2>4 DEF Phases, Phase, Claimed, TypeOK, Ops
    <3>3. gen + 1 \in Gens
      BY <3>1, <3>2, Bounds DEF Gens
    <3>4. rows[gen + 1] = Partial(op[t].value, op[t].part)
      BY <1>1, <2>4, <3>1
    <3>5. rows'[gen + 1] = Insert(rows[gen + 1], Row(op[t].part + 1, <<op[t].value, op[t].part + 1>>))
      BY <3>1, <3>3 DEF TypeOK
    <3>6. rows'[gen + 1] = Partial(op[t].value, op[t].part + 1)
      BY <3>2, <3>4, <3>5, PartialRows
    <3>7. op'[t].cur = gen /\ op'[t].value = op[t].value /\ op'[t].part = op[t].part + 1
      BY <3>1, <3>2 DEF Ops
    <3> QED
      BY <2>4, <3>6, <3>7
  <2> QED
    BY <1>3, <2>2, <2>3, <2>4, Staging
<1>4. CASE \E t \in Threads : Step(t)
  BY <1>3, <1>4 DEF Staged
<1>5. CASE ReaderStep \/ UNCHANGED vars
  BY <1>5 DEF ReaderStep, ReadBegins, ReadPage, ReadReturns, ReadHeld, reading, database, vars,
              Staged
<1>6. CASE Crash
  <2>1. \A t \in Threads : op'[t].at = "idle"
    BY <1>6, Idle DEF Crash
  <2> QED
    BY <2>1 DEF Staged
<1>7. CASE Restore
  <2>1. gen' \in Gens /\ (\A h \in InUse : gen' > h) /\ UNCHANGED op
    BY <1>7 DEF Restore, RestoresFresh
  <2>2. ASSUME NEW t \in Threads, op[t].at = "stage"
        PROVE  gen' # op[t].cur
    <3>1. op[t].cur \in Gens
      BY <2>2 DEF Phases, Phase, Claimed
    <3>2. op[t].cur \in InUse
      BY <1>2, <2>2, <3>1 DEF InUse, Taken
    <3> QED
      BY <1>2, <2>1, <3>1, <3>2
  <2> QED
    BY <2>1, <2>2 DEF Staged
<1> QED
  BY <1>4, <1>5, <1>6, <1>7, Cases

\* A write beside a read leaves the read alone, but notes an entry it changes.
LEMMA ReadBeside ==
  ASSUME TypeOK, Phases, NEW t \in Threads, Step(t), read.at # "idle"
  PROVE  /\ read'.at = read.at /\ read'.gen = read.gen /\ read'.got = read.got
         /\ read'.after = read.after /\ read.changed \subseteq read'.changed
         /\ op[t].at = "rows" /\ rows' # rows => <<op[t].value, op[t].part + 1>> \in read'.changed
<1>1. read \in Reads
  BY DEF TypeOK
<1>2. CASE Change(t)
  BY <1>1, <1>2 DEF Change, Reads
<1>3. CASE ~Change(t)
  <2>1. UNCHANGED read
    BY <1>3 DEF Step, Write, Begin, Claim, PurgeExcept, PurgeGeneration, Stage, DeleteHeader, Fail
  <2>2. op[t].at = "rows" => rows' = rows
    BY <1>3 DEF Step, Write, At, Begin, Claim, PurgeExcept, PurgeGeneration, Stage, DeleteHeader,
                Fail, database
  <2> QED
    BY <2>1, <2>2
<1> QED
  BY <1>2, <1>3

\* What the reader has stays what the rows up to its place hold.
LEMMA SeenStep ==
  ASSUME RestoresFresh, TypeOK, Phases, Behind, Numbered, Seen, [Next]_vars
  PROVE  Seen'
<1> DEFINE Table == [order : Orders, entry : Entries]
           Have(R, after, got, changed) ==
             /\ \A r \in R : r.order <= after => r.entry \in got \cup changed
             /\ got \subseteq Shown(R) \cup changed
           Live == read.at = "pages" /\ exists /\ gen = read.gen
<1>1. Live => Have(rows[gen], read.after, read.got, read.changed)
  BY DEF Seen
<1>2. (Live' => Have(rows'[gen'], read'.after, read'.got, read'.changed)) => Seen'
  BY DEF Seen
<1>3. /\ gen \in Gens /\ gen \in Nat /\ Gens \subseteq Nat /\ NoGen \notin Gens
      /\ rows \in [Gens -> SUBSET Table] /\ read \in Reads
  BY Bounds DEF TypeOK, Gens
<1>4. ASSUME NEW t \in Threads, Step(t), Live'
      PROVE  Have(rows'[gen'], read'.after, read'.got, read'.changed)
  <2>1. RowsStep(t) /\ gen' \in Gens /\ gen <= gen' /\ (exists' => exists)
    BY <1>4, RowsChange, GenerationGrows
  <2>2. read.at = "pages"
    <3>1. read'.at = read.at \/ read.at = "idle"
      BY <1>4, ReadBeside
    <3>2. read.at = "idle" => UNCHANGED read
      BY <1>4 DEF Step, Write, Begin, Claim, PurgeExcept, PurgeGeneration, Stage, DeleteHeader,
                  Change, Fail
    <3> QED
      BY <1>4, <3>1, <3>2
  <2>3. /\ read'.at = read.at /\ read'.gen = read.gen /\ read'.got = read.got
        /\ read'.after = read.after /\ read.changed \subseteq read'.changed
        /\ op[t].at = "rows" /\ rows' # rows => <<op[t].value, op[t].part + 1>> \in read'.changed
    BY <1>4, <2>2, ReadBeside
  <2>4. gen' = gen /\ gen = read.gen /\ exists
    <3>1. gen' = read.gen /\ read.gen <= gen
      BY <1>4, <2>2, <2>3 DEF Behind
    <3>2. gen' \in Nat /\ gen \in Nat /\ gen <= gen' /\ gen' <= gen
      BY <1>3, <2>1, <3>1
    <3>3. gen' = gen
      BY <3>2
    <3> QED
      BY <1>4, <2>1, <3>1, <3>3
  <2>5. Have(rows[gen], read.after, read.got, read.changed)
    BY <1>1, <2>2, <2>4
  <2>6. CASE rows'[gen] = rows[gen]
    BY <2>3, <2>4, <2>5, <2>6
  <2>7. CASE rows'[gen] # rows[gen]
    <3> DEFINE entry == <<op[t].value, op[t].part + 1>>
    <3>1. op[t].at = "rows" /\ \/ rows'[gen] = Insert(rows[gen], Row(MaxOrder(rows[gen]) + 1, entry))
                               \/ rows'[gen] = {r \in rows[gen] : r.entry # entry}
      <4>1. ASSUME NEW g \in Gens, NEW R, rows' = [rows EXCEPT ![g] = R]
            PROVE  g = gen
        BY <1>3, <2>7, <4>1
      <4>2. ASSUME NEW R, rows' = [rows EXCEPT ![gen + 1] = R]
            PROVE  FALSE
        BY <1>3, <2>7, <4>2
      <4>3. ASSUME NEW R, rows' = [rows EXCEPT ![gen] = R]
            PROVE  rows'[gen] = R
        BY <1>3, <4>3
      <4> QED
        BY <1>4, <2>1, <2>4, <2>7, <4>1, <4>2, <4>3 DEF RowsStep
    <3>2. entry \in read'.changed
      BY <2>3, <2>7, <3>1
    <3>3. CASE rows'[gen] = {r \in rows[gen] : r.entry # entry}
      <4>1. Shown(rows[gen]) \subseteq Shown(rows'[gen]) \cup {entry}
        BY <3>3 DEF Shown
      <4> HIDE DEF entry
      <4> QED
        BY <2>3, <2>4, <2>5, <3>2, <3>3, <4>1
    <3>4. CASE rows'[gen] = Insert(rows[gen], Row(MaxOrder(rows[gen]) + 1, entry))
      <4>1. rows[gen] \subseteq rows'[gen] /\ \A s \in rows'[gen] \ rows[gen] : s.entry = entry
        BY <3>4, Inserts, RowOf
      <4>2. Shown(rows[gen]) \subseteq Shown(rows'[gen])
        BY <4>1 DEF Shown
      <4> HIDE DEF entry
      <4> QED
        BY <2>3, <2>4, <2>5, <3>2, <4>1, <4>2
    <3> QED
      BY <3>1, <3>3, <3>4
  <2> QED
    BY <2>6, <2>7
<1>5. CASE ReadBegins
  <2>1. read'.after = 0 /\ read'.got = {} /\ read'.changed = {} /\ UNCHANGED <<gen, rows>>
    BY <1>5, Idle DEF ReadBegins, Reads, reading, database
  <2>2. \A r \in rows[gen] : ~(r.order <= 0)
    BY <1>3 DEF Numbered, Orders
  <2> QED
    BY <1>2, <2>1, <2>2
<1>6. CASE ReadPage
  <2>1. UNCHANGED <<exists, gen, rows>>
    BY <1>6 DEF ReadPage, reading, database
  <2>2. CASE read' = [NoRead EXCEPT !.at = "hold"]
    <3>1. read'.at # "pages"
      BY <2>2, Idle DEF Reads
    <3> QED
      BY <1>2, <3>1
  <2>3. CASE /\ Pages /\ Unread # {}
             /\ read' = [read EXCEPT !.after = Lowest(Unread).order, !.got = @ \cup {Lowest(Unread).entry}]
    <3> DEFINE low == Lowest(Unread)
    <3>1. gen = read.gen /\ Live
      BY <1>6, <2>3 DEF ReadPage, Pages
    <3>2. Unread \in SUBSET Table /\ Unread = {r \in rows[gen] : r.order > read.after}
      BY <1>3, <3>1 DEF Unread
    <3>3. low \in rows[gen] /\ \A r \in Unread : low.order <= r.order
      BY <2>3, <3>2, LowestRow
    <3>4. read'.after = low.order /\ read'.got = read.got \cup {low.entry} /\ read'.changed = read.changed
      BY <1>3, <2>3 DEF Reads
    <3> HIDE DEF low
    <3>5. ASSUME NEW r \in rows[gen], r.order <= low.order
          PROVE  r.entry \in read.got \cup {low.entry} \cup read.changed
      <4>1. r.order \in Nat /\ low.order \in Nat /\ read.after \in Nat
        BY <1>3, <3>3 DEF Orders, Reads
      <4>2. CASE r.order <= read.after
        BY <1>1, <3>1, <4>2
      <4>3. CASE ~(r.order <= read.after)
        <5>1. r \in Unread
          BY <3>2, <4>1, <4>3
        <5>2. r.order = low.order
          BY <3>3, <3>5, <4>1, <5>1
        <5>3. r = low
          BY <1>3, <3>3, <5>2 DEF Numbered
        <5> QED
          BY <5>3
      <4> QED
        BY <4>2, <4>3
    <3>6. low.entry \in Shown(rows[gen])
      BY <3>3 DEF Shown
    <3>7. Have(rows[gen], low.order, read.got \cup {low.entry}, read.changed)
      BY <1>1, <3>1, <3>5, <3>6
    <3> QED
      BY <1>2, <2>1, <3>4, <3>7
  <2> QED
    BY <1>6, <2>2, <2>3 DEF ReadPage
<1>7. CASE ReadReturns \/ ReadHeld \/ Crash
  <2>1. read'.at # "pages"
    BY <1>7, Idle DEF ReadReturns, ReadHeld, Crash
  <2> QED
    BY <1>2, <2>1
<1>8. CASE Restore
  <2>1. gen' \in Gens /\ (\A h \in InUse : gen' > h) /\ UNCHANGED read
    BY <1>8 DEF Restore, RestoresFresh
  <2>2. read.at = "pages" => read.gen \in InUse /\ read.gen \in Gens
    BY DEF InUse, Behind
  <2>3. read.at = "pages" => gen' # read.gen
    BY <1>3, <2>1, <2>2
  <2> QED
    BY <1>2, <2>1, <2>3
<1>9. CASE UNCHANGED vars
  BY <1>9 DEF vars, Seen
<1>10. CASE \E t \in Threads : Step(t)
  BY <1>2, <1>4, <1>10
<1> QED
  BY <1>5, <1>6, <1>7, <1>8, <1>9, <1>10, Cases DEF ReaderStep

-----------------------------------------------------------------------------
(* The theorems.                                                           *)

\* The invariant holds of the table the repository opens.
LEMMA Initially == Init => IInv
<1> SUFFICES ASSUME Init
             PROVE  IInv
  OBVIOUS
<1>1. PICK v \in Values : rows = [g \in Gens |-> IF g = 0 THEN Fresh(v) ELSE {}]
  BY DEF Init
<1>2. 0 \in Gens /\ MaxOps \in Nat /\ MaxFaults \in Nat
  BY Bounds, IpListsAssumption DEF Gens
<1>3. /\ Fresh(v) \in SUBSET [order : Orders, entry : Entries]
      /\ \A r, s \in Fresh(v) : r.order # 0 /\ (r.order = s.order => r = s)
  BY FreshRows
<1>4. \A g \in Gens : rows[g] \in {Fresh(v), {}}
  BY <1>1
<1>5. rows \in [Gens -> SUBSET [order : Orders, entry : Entries]]
  BY <1>1, <1>3
<1>6. read = NoRead /\ read \in Reads /\ read.at = "idle"
  BY Idle DEF Init
<1>7. op \in [Threads -> Ops] /\ \A t \in Threads : op[t] = NoOp
  BY Idle DEF Init
<1>8. TypeOK
  <2>1. exists = TRUE /\ detached = FALSE /\ gen = 0 /\ claim = NoThread /\ overtaken = {}
    BY DEF Init
  <2>2. ops \in 0 .. MaxOps /\ faults \in 0 .. MaxFaults
    BY <1>2 DEF Init
  <2>3. exists \in BOOLEAN /\ detached \in BOOLEAN /\ gen \in Gens
    BY <1>2, <2>1
  <2> QED
    BY <1>5, <1>6, <1>7, <2>1, <2>2, <2>3 DEF TypeOK
<1>9. Phases
  BY <1>7, Idle DEF Phases, Phase, Claimed
<1>10. Behind /\ Staged /\ Seen
  BY <1>6, <1>7, Idle DEF Init, Behind, Comparing, Staged, Seen
<1>11. Numbered
  BY <1>3, <1>4 DEF Numbered
<1> QED
  BY <1>8, <1>9, <1>10, <1>11 DEF IInv

\* Every step keeps the invariant.
LEMMA Inductive ==
  ASSUME RestoresFresh, IInv, [Next]_vars
  PROVE  IInv'
  BY TypeStep, PhasesStep, BehindStep, StagedStep, NumberedStep, SeenStep DEF IInv

\* The inductive invariant of the repository, for any number of threads, rows and writes:
\* generations in hand are behind the live one, a staged generation holds what its write
\* staged, and a read has what the rows up to its place hold. It holds as long as
\* restores bring generations above those in use.
THEOREM Invariant ==
  Spec /\ FreshRestores => []IInv
<1>1. Init => IInv
  BY Initially
<1>2. IInv /\ [Next]_vars /\ [RestoresFresh]_vars => IInv'
  <2> SUFFICES ASSUME IInv, [Next]_vars, [RestoresFresh]_vars
               PROVE  IInv'
    OBVIOUS
  <2>1. Restore => faults' # faults
    BY IpListsAssumption DEF Restore, Fault, IInv, TypeOK
  <2>2. RestoresFresh
    BY <2>1 DEF RestoresFresh, vars
  <2> QED
    BY <2>2, Inductive
<1> QED
  BY <1>1, <1>2, PTL DEF Spec, FreshRestores

\* The type invariant, whatever generation a restore brings.
THEOREM TypeCorrect == Spec => []TypeOK
<1>1. Init => TypeOK /\ Phases
  BY Initially DEF IInv
<1>2. TypeOK /\ Phases /\ [Next]_vars => (TypeOK /\ Phases)'
  BY TypeStep, PhasesStep
<1> QED
  BY <1>1, <1>2, PTL DEF Spec

\* A list that exists shows a set of entries, which is not the absence of the list.
LEMMA ListShown ==
  ASSUME TypeOK, exists
  PROVE  visible = Shown(rows[gen]) /\ visible # NoList
<1>1. rows[gen] \in SUBSET [order : Orders, entry : Entries]
  BY DEF TypeOK
<1>2. Shown(rows[gen]) \in SUBSET (Values \X (1 .. Parts))
  BY <1>1 DEF Shown, Entries
<1> QED
  BY <1>2, IpListsAssumption DEF visible

\* Every step shows as a step of IpListValue, or not at all.
LEMMA Refines ==
  ASSUME IInv, [Next]_vars
  PROVE  [Shows!Next]_visible
<1> USE DEF IInv
<1>1. gen \in Gens /\ gen \in Nat /\ rows \in [Gens -> SUBSET [order : Orders, entry : Entries]]
  BY DEF TypeOK, Gens
<1>2. ASSUME exists' = exists, exists => gen' = gen /\ rows'[gen] = rows[gen]
      PROVE  UNCHANGED visible
  BY <1>2 DEF visible
<1>3. ASSUME NEW t \in Threads, Step(t)
      PROVE  [Shows!Next]_visible
  <2>1. op[t] \in Ops
    BY DEF TypeOK
  <2>2. CASE Claim(t)
    <3>1. CASE gen' = gen
      BY <1>2, <2>2, <3>1 DEF Claim
    <3>2. CASE gen' # gen
      <4>1. exists /\ exists' = exists /\ rows' = rows /\ gen' = BumpGeneration /\ BumpGeneration \in Gens
        BY <2>2, <3>2 DEF Claim
      <4>2. rows[gen'] = {}
        <5>1. ~(BumpGeneration < BumpGeneration)
          BY Bumps
        <5> QED
          BY <4>1, <5>1, Bumps
      <4>3. visible' = {}
        BY <4>1, <4>2 DEF visible, Shown
      <4> QED
        BY <4>1, <4>3, ListShown DEF Shows!Next, Shows!Clear
    <3> QED
      BY <3>1, <3>2
  <2>3. CASE PurgeGeneration(t)
    <3>1. exists' = exists /\ gen' = gen
      BY <2>3 DEF PurgeGeneration
    <3>2. exists => rows'[gen] = rows[gen]
      BY <1>1, <2>3 DEF PurgeGeneration
    <3> QED
      BY <1>2, <3>1, <3>2
  <2>4. CASE Stage(t)
    <3> DEFINE target == op[t].cur + 1
               part == op[t].part + 1
    <3>1. /\ op[t].at = "stage" /\ op[t].cur \in Gens /\ op[t].cur < MaxGen /\ op[t].part < Parts
          /\ op[t].part \in Nat /\ op[t].value \in Values
      BY <2>1, <2>4 DEF Stage, At, Phases, Phase, Claimed, Ops
    <3>2. target \in Gens /\ target # op[t].cur
      BY <3>1, Bounds DEF Gens
    <3>3. CASE UNCHANGED <<rows, gen>>
      BY <1>2, <2>4, <3>3 DEF Stage
    <3>4. CASE gen' = gen /\ gen = op[t].cur
      <4>1. rows'[gen] = rows[gen]
        BY <1>1, <2>4, <3>2, <3>4 DEF Stage
      <4> QED
        BY <1>2, <2>4, <3>4, <4>1 DEF Stage
    <3>5. CASE exists /\ gen = op[t].cur /\ gen' = target /\ ~(part < Parts)
      <4>1. rows' = [rows EXCEPT ![target] = Insert(@, Row(part, <<op[t].value, part>>))]
        BY <2>4, <3>5 DEF Stage
      <4>2. rows'[target] = Insert(rows[target], Row(part, <<op[t].value, part>>))
        BY <1>1, <3>2, <4>1
      <4>3. rows[target] = Partial(op[t].value, op[t].part)
        BY <3>1, <3>5 DEF Staged
      <4>4. rows'[target] = Partial(op[t].value, part)
        BY <3>1, <4>2, <4>3, PartialRows
      <4>5. part = Parts
        BY <3>1, <3>5, Bounds
      <4>6. rows'[target] = Fresh(op[t].value)
        BY <4>4, <4>5 DEF Partial, Fresh
      <4>7. visible' = Shown(rows'[gen']) /\ exists' = exists
        BY <2>4, <3>5 DEF Stage, visible
      <4>8. visible' = Whole(op[t].value)
        BY <3>1, <3>5, <4>6, <4>7, FreshRows
      <4> QED
        BY <3>1, <3>5, <4>8, ListShown DEF Shows!Next, Shows!Put, Shows!Whole, Whole
    <3> QED
      BY <2>4, <3>3, <3>4, <3>5 DEF Stage
  <2>5. CASE DeleteHeader(t)
    <3>1. CASE exists /\ exists' = FALSE
      <4>1. visible' = NoList
        BY <3>1 DEF visible
      <4> QED
        BY <3>1, <4>1, ListShown DEF Shows!Next, Shows!Vanish
    <3>2. CASE UNCHANGED <<exists, rows>>
      BY <1>2, <2>5, <3>2 DEF DeleteHeader
    <3> QED
      BY <2>5, <3>1, <3>2 DEF DeleteHeader
  <2>6. CASE Change(t)
    <3> DEFINE entry == <<op[t].value, op[t].part + 1>>
    <3>1. entry \in Shows!Entries
      BY <2>1, <2>6, Bounds DEF Change, At, Phases, Phase, Ops, Shows!Entries
    <3>2. exists' = exists /\ gen' = gen
      BY <2>6 DEF Change
    <3>3. CASE UNCHANGED rows
      BY <1>2, <3>2, <3>3
    <3>4. CASE exists /\ rows' = [rows EXCEPT ![gen] = Insert(@, Row(MaxOrder(@) + 1, entry))]
      <4> DEFINE r == Row(MaxOrder(rows[gen]) + 1, entry)
      <4>1. rows'[gen] = Insert(rows[gen], r)
        BY <1>1, <3>4
      <4>2. r.entry = entry
        BY RowOf
      <4> HIDE DEF r, entry
      <4>3. rows'[gen] \in {rows[gen], rows[gen] \cup {r}}
        BY <4>1, Inserts
      <4>4. Shown(rows'[gen]) \in {Shown(rows[gen]), Shown(rows[gen]) \cup {entry}}
        BY <4>2, <4>3 DEF Shown
      <4>5. visible' = Shown(rows'[gen]) /\ visible = Shown(rows[gen]) /\ visible # NoList
        BY <3>2, <3>4, ListShown DEF visible
      <4> QED
        BY <3>1, <4>4, <4>5 DEF Shows!Next, Shows!Append
    <3>5. CASE exists /\ rows' = [rows EXCEPT ![gen] = {r \in @ : r.entry # entry}]
      <4>1. rows'[gen] = {r \in rows[gen] : r.entry # entry}
        BY <1>1, <3>5
      <4> HIDE DEF entry
      <4>2. Shown(rows'[gen]) = Shown(rows[gen]) \ {entry}
        BY <4>1 DEF Shown
      <4>3. visible' = Shown(rows'[gen]) /\ visible = Shown(rows[gen]) /\ visible # NoList
        BY <3>2, <3>5, ListShown DEF visible
      <4> QED
        BY <3>1, <4>2, <4>3 DEF Shows!Next, Shows!Drop
    <3> QED
      BY <2>6, <3>3, <3>4, <3>5 DEF Change
  <2>7. CASE PurgeExcept(t) \/ Fail(t) \/ \E v \in Values, kind \in Kinds : Begin(t, kind, v)
    BY <1>2, <2>7 DEF PurgeExcept, Fail, Begin, database
  <2> QED
    BY <1>3, <2>2, <2>3, <2>4, <2>5, <2>6, <2>7 DEF Step, Write
<1>4. CASE Crash
  <2>1. exists => rows'[gen] = rows[gen]
    BY <1>1, <1>4 DEF Crash
  <2> QED
    BY <1>2, <1>4, <2>1 DEF Crash
<1>5. CASE Restore
  <2>1. PICK g \in Gens, v \in Values : gen' = g /\ rows' = [h \in Gens |-> IF h = g THEN Fresh(v) ELSE {}]
    BY <1>5 DEF Restore
  <2>2. visible' = Shown(rows'[gen'])
    BY <1>5 DEF Restore, visible
  <2>3. visible' = Whole(v)
    BY <2>1, <2>2, FreshRows
  <2> QED
    BY <2>3 DEF Shows!Next, Shows!Restore, Shows!Whole, Whole
<1>6. CASE ReaderStep \/ UNCHANGED vars
  BY <1>2, <1>6 DEF ReaderStep, ReadBegins, ReadPage, ReadReturns, ReadHeld, reading, database,
                    vars
<1> QED
  BY <1>3, <1>4, <1>5, <1>6, Cases

\* What readers of the list see implements IpListValue: through failures, deaths and any
\* interleaving of threads, ReplaceEntries and ClearEntries show as a whole or not at all,
\* as long as restores bring generations above those in use.
THEOREM Implementation ==
  Spec /\ FreshRestores => ShownWhole
<1>1. Init => Shows!Init
  <2> SUFFICES ASSUME Init
               PROVE  Shows!Init
    OBVIOUS
  <2>1. PICK v \in Values : rows = [g \in Gens |-> IF g = 0 THEN Fresh(v) ELSE {}]
    BY DEF Init
  <2>2. exists = TRUE /\ gen = 0 /\ 0 \in Gens
    BY Bounds DEF Init, Gens
  <2>3. visible = Shown(Fresh(v))
    BY <2>1, <2>2 DEF visible
  <2>4. visible = Whole(v)
    BY <2>3, FreshRows
  <2> QED
    BY <2>4 DEF Shows!Init, Shows!Whole, Whole
<1>2. IInv /\ [Next]_vars => [Shows!Next]_visible
  BY Refines
<1> QED
  BY <1>1, <1>2, Invariant, PTL DEF Spec, ShownWhole, Shows!Spec

\* GetEntries, reading page by page beside writers, returns the list as it is when the
\* read ends, but for entries that upserts and removals touched meanwhile, as long as
\* restores bring generations above those in use.
THEOREM ReadsAreWhole ==
  Spec /\ FreshRestores => ReadsWhole
<1>1. IInv /\ ReadReturns => (visible \ read.got) \cup (read.got \ visible) \subseteq read.changed
  <2> SUFFICES ASSUME IInv, ReadReturns
               PROVE  (visible \ read.got) \cup (read.got \ visible) \subseteq read.changed
    OBVIOUS
  <2>1. read.at = "pages" /\ exists /\ gen = read.gen /\ Unread = {}
    BY DEF ReadReturns, Pages
  <2>2. visible = Shown(rows[gen])
    BY <2>1, ListShown DEF IInv
  <2>3. \A r \in rows[gen] : r.order <= read.after
    <3>1. \A r \in rows[gen] : r.order \in Nat /\ read.after \in Nat
      BY DEF IInv, TypeOK, Reads, Orders
    <3> QED
      BY <2>1, <3>1 DEF Unread
  <2>4. Shown(rows[gen]) \subseteq read.got \cup read.changed
    BY <2>1, <2>3 DEF IInv, Seen, Shown
  <2>5. read.got \subseteq Shown(rows[gen]) \cup read.changed
    BY <2>1 DEF IInv, Seen
  <2> QED
    BY <2>2, <2>4, <2>5
<1>2. IInv /\ [Next]_vars
        => [ReadReturns => (visible \ read.got) \cup (read.got \ visible) \subseteq read.changed]_vars
  BY <1>1
<1> QED
  BY <1>2, Invariant, PTL DEF Spec, ReadsWhole

\* If every backup brings a generation above those in use, a write that took its own
\* before the restore changes nothing that readers of the restored list see. A backup with
\* the generation in use is the case the run lists_restore refutes.
THEOREM RestoresWin ==
  Spec /\ FreshRestores => RestoreWins
<1>1. ASSUME IInv, [Next]_vars, NEW t \in overtaken, Write(t)
      PROVE  visible' = visible
  <2> USE DEF IInv
  <2>1. /\ t \in Threads /\ op[t] \in Ops /\ op[t].cur \in Gens /\ NoGen \notin Gens
        /\ op[t].at \in Comparing => op[t].cur # gen
    BY <1>1, Bounds DEF TypeOK, Behind, Gens
  <2>2. ASSUME exists' = exists, gen' = gen, exists => rows'[gen] = rows[gen]
        PROVE  visible' = visible
    BY <2>2 DEF visible
  <2>3. op[t].at # "claim"
    <3>1. Phase(t, op[t], claim)
      BY <1>1, <2>1 DEF Phases
    <3> QED
      BY <2>1, <3>1 DEF Phase
  <2>4. CASE PurgeExcept(t)
    BY <2>2, <2>4 DEF PurgeExcept, database
  <2>5. CASE PurgeGeneration(t)
    <3>1. exists => rows'[gen] = rows[gen]
      <4>1. rows \in [Gens -> SUBSET [order : Orders, entry : Entries]] /\ gen \in Gens
        BY <1>1 DEF TypeOK
      <4> QED
        BY <2>5, <4>1 DEF PurgeGeneration
    <3> QED
      BY <2>2, <2>5, <3>1 DEF PurgeGeneration
  <2>6. CASE Stage(t)
    BY <2>1, <2>2, <2>6 DEF Stage, At, Comparing
  <2>7. CASE DeleteHeader(t)
    BY <2>1, <2>2, <2>7 DEF DeleteHeader, At, Comparing
  <2>8. CASE Change(t)
    BY <2>1, <2>2, <2>8 DEF Change, At, Comparing
  <2> QED
    BY <1>1, <2>3, <2>4, <2>5, <2>6, <2>7, <2>8 DEF Write, Claim, At
<1>2. IInv /\ [Next]_vars => [\A t \in overtaken : Write(t) => visible' = visible]_vars
  BY <1>1
<1> QED
  BY <1>2, Invariant, PTL DEF Spec, RestoreWins

-----------------------------------------------------------------------------
(* The worker of a scan. *)

\* Labels at which the worker has a chunk in hand.
Working == {"call", "ran", "delay", "check", "upsert", "remove", "save"}

\* The answers a chunk collects, the chunk itself, and the calls it is made of.
ResultRecords ==
  [hits : SUBSET Targets, fails : SUBSET Targets, locals : SUBSET Targets,
   error : BOOLEAN, aborted : BOOLEAN, next : Nat]
ChunkRecords ==
  [hits : SUBSET Targets, fails : SUBSET Targets, locals : SUBSET Targets,
   error : BOOLEAN, aborted : BOOLEAN, next : 0 .. N,
   start : 0 .. N, round : 0 .. Retries, unverified : BOOLEAN, gone : SUBSET Targets]
CallRecords ==
  [kind : {"none", "probe", "url"}, at : {"none", "sent", "running", "ok", "error", "stopped"},
   todo : SUBSET Targets, pass : SUBSET Targets, fails : SUBSET Targets,
   locals : SUBSET Targets, left : SUBSET Targets]

\* The types of what the worker has in memory, as the proof needs them.
FlagTypes ==
  /\ configPhase \in BOOLEAN /\ stop \in BOOLEAN /\ completed \in BOOLEAN
  /\ stopping \in BOOLEAN /\ wiping \in BOOLEAN
  /\ pc \in {"idle", "prepare", "clear", "dropSnap", "dropRescan", "copy", "count", "load", "loop",
             "call", "ran", "delay", "check", "upsert", "remove", "save", "finishDrop", "finish", "done"}
  /\ mode \in {"FromInitial", "RescanResults", "Resume"}
  /\ session \in {"none", "live", "stopped"}
CountTypes == runs \in 0 .. MaxRuns /\ scanFaults \in 0 .. MaxScanFaults
RowTypes == row \in Rows /\ mem \in Rows
ListTypes ==
  /\ results \subseteq Targets /\ {dead, stranded, unsaved} \subseteq SUBSET Targets
  /\ lists \in [1 .. MaxRuns -> SUBSET Targets]
CallTypes == call \in CallRecords /\ res \in ResultRecords /\ strikes \in [Targets -> 0 .. Retries + 1]
ChunkTypes == chunk \in ChunkRecords
ScanTypes == FlagTypes /\ CountTypes /\ RowTypes /\ ListTypes /\ CallTypes /\ ChunkTypes

\* What the worker holds at each label.
Holds ==
  /\ pc # "idle" => runs > 0
  /\ pc \notin Working => chunk = NoChunk
  /\ pc \notin {"call", "ran"} => res = NoResult
  /\ pc # "call" => call = NoCall
  /\ pc = "call" => call.at # "none" /\ call.kind # "none"
  /\ call.kind = "probe" => res = NoResult
  /\ call.kind = "url" => configPhase /\ call.locals = {}
  /\ pc = "delay" => mem.rescan /\ chunk.round < Retries
  /\ chunk.round > 0 => mem.rescan
  /\ (chunk.gone = {} /\ ~chunk.unverified) \/ pc \in {"upsert", "remove", "save"}
  /\ pc \in Working => chunk.start = ActiveCursor(mem)

\* Nothing is cut short but by a stop.
CutByStop ==
  /\ stopping => stop
  /\ session = "stopped" => stop \/ pc = "idle"
  /\ call.at = "stopped" => stop
  /\ call.at = "ok" /\ call.todo # {} => stop
  /\ res.aborted \/ chunk.aborted => stop

\* In round r of a chunk, what is still to be measured failed r times in a row, and what
\* failed in this round r + 1 times.
Tally ==
  /\ call.todo \cap (call.left \cup call.pass) = {}
  /\ \A t \in call.todo \cup call.left : strikes[t] = chunk.round
  /\ \A t \in call.pass : call.kind = "probe" /\ configPhase => strikes[t] = chunk.round
  /\ \A t \in call.fails \cup res.fails : strikes[t] = chunk.round + 1
  /\ pc = "delay" => \A t \in chunk.fails : strikes[t] = chunk.round + 1
  /\ pc = "check" /\ mem.rescan /\ ~chunk.error /\ ~stop
       => \A t \in chunk.fails : strikes[t] = Retries + 1
  /\ \A t \in chunk.gone : strikes[t] = Retries + 1 /\ t \in dead

\* A snapshot of a first pass holds every target, or was deleted; the database names the
\* snapshot that the worker uses.
Snapshots ==
  /\ EntriesOf(row.snap) \in {{}, Targets} /\ EntriesOf(mem.snap) \in {{}, Targets}
  /\ row.snap <= runs /\ mem.snap <= runs
  /\ pc \in {"prepare", "clear", "dropSnap", "dropRescan", "copy"} => row.snap < runs /\ mem.snap < runs
  /\ pc = "copy" /\ mode = "FromInitial" => mem = NewRow
  /\ pc \in Working \cup {"prepare", "clear", "dropSnap", "load", "loop"} => row.snap = mem.snap
  /\ pc \in Working \cup {"loop"} /\ ~mem.rescan => EntriesOf(mem.snap) = Targets

\* Why a target that is no result may lie behind the cursor.
PassedOver == dead \cup stranded \cup unsaved

\* Up to its cursor, a scan with a snapshot has passed nothing by.
Covered(scan) ==
  ~wiping /\ EntriesOf(scan.snap) # {} =>
    \A t \in Targets : t <= scan.cursor => t \in results \cup PassedOver

\* The targets from the chunk's first one to n.
Between(n) == {t \in Targets : chunk.start < t /\ t <= n}

\* The chunk goes back to its start: its outcome does not count.
Void == chunk.error \/ chunk.unverified \/ (chunk.aborted /\ configPhase)

\* Every target between the start of a chunk and the place it reached has an outcome.
Reached ==
  /\ pc = "call" /\ call.kind = "probe" /\ chunk.round = 0 /\ call.at \in {"sent", "running", "ok"}
       => Asked = Slice(EntriesOf(ActiveSnapshot(mem)), chunk.start, ChunkSize)
  /\ chunk.round = 0 => res.next <= N
  /\ pc = "call" /\ call.kind = "url" /\ ~mem.rescan /\ call.at \in {"sent", "running", "ok"} /\ ~res.aborted
       => Between(res.next) \subseteq res.hits \cup res.fails \cup res.locals \cup Asked \cup call.left
  /\ pc = "ran" /\ ~mem.rescan /\ ~res.error /\ ~(res.aborted /\ configPhase)
       => Between(res.next) \subseteq res.hits \cup res.fails \cup res.locals
  /\ pc = "check" /\ ~mem.rescan /\ ~Void
       => Between(chunk.next) \subseteq chunk.hits \cup chunk.fails \cup chunk.locals
  /\ pc = "upsert" /\ ~mem.rescan /\ ~Void => Between(chunk.next) \subseteq chunk.hits \cup PassedOver
  /\ pc \in {"remove", "save"} /\ ~mem.rescan /\ ~Void => Between(chunk.next) \subseteq results \cup PassedOver

\* The inductive invariant of a scan.
ScanInv ==
  /\ ScanTypes /\ Holds /\ CutByStop /\ Tally /\ Snapshots
  /\ Covered(row) /\ Covered(mem) /\ Reached

-----------------------------------------------------------------------------
(* Positions and slices.                                                   *)

\* Sets of targets are finite.
LEMMA FiniteTargets ==
  ASSUME NEW S \in SUBSET Targets
  PROVE  IsFiniteSet(S) /\ Cardinality(S) \in 0 .. N
<1>1. IsFiniteSet(Targets) /\ Cardinality(Targets) = N
  BY ScanAssumption, FS_Interval DEF Targets
<1>2. IsFiniteSet(S) /\ Cardinality(S) <= N
  BY <1>1, FS_Subset
<1> QED
  BY <1>2, FS_CardinalityType, ScanAssumption

\* A member of a set has a position in it, and later members have higher ones.
LEMMA Positions ==
  ASSUME NEW S \in SUBSET Targets, NEW t \in Targets
  PROVE  /\ Position(t, S) \in 0 .. Cardinality(S)
         /\ t \in S => 0 < Position(t, S)
         /\ \A u \in S : t < u => Position(t, S) < Position(u, S)
<1> DEFINE Upto(x) == {u \in S : u <= x}
<1>1. \A x : Upto(x) \in SUBSET S /\ Position(x, S) = Cardinality(Upto(x))
  BY DEF Position
<1>2. IsFiniteSet(S) /\ Cardinality(S) \in Nat
  BY FiniteTargets, ScanAssumption
<1>3. \A x : IsFiniteSet(Upto(x)) /\ Cardinality(Upto(x)) \in Nat /\ Cardinality(Upto(x)) <= Cardinality(S)
  BY <1>1, <1>2, FS_Subset, FS_CardinalityType
<1>4. t \in S => 0 < Cardinality(Upto(t))
  <2>1. t \in S => Upto(t) # {}
    BY ScanAssumption DEF Targets
  <2> QED
    BY <1>3, <2>1, FS_EmptySet
<1>5. ASSUME NEW u \in S, t < u
      PROVE  Cardinality(Upto(t)) < Cardinality(Upto(u))
  <2>1. (\A v \in S : v \in Nat) /\ t \in Nat /\ u \in Nat
    BY DEF Targets
  <2>2. \A v \in S : v <= t => v <= u
    BY <1>5, <2>1
  <2>3. Upto(t) \in SUBSET Upto(u)
    BY <2>2
  <2>4. u \in Upto(u) /\ u \notin Upto(t)
    BY <1>5, <2>1
  <2> HIDE DEF Upto
  <2>5. Cardinality(Upto(t)) <= Cardinality(Upto(u)) /\ Cardinality(Upto(t)) # Cardinality(Upto(u))
    BY <1>3, <2>3, <2>4, FS_Subset
  <2> QED
    BY <1>3, <2>5
<1> HIDE DEF Upto
<1>6. Position(t, S) \in 0 .. Cardinality(S)
  BY <1>1, <1>2, <1>3
<1> QED
  BY <1>1, <1>4, <1>5, <1>6

\* A slice is part of its set and does not reach past the last target.
LEMMA SliceFits ==
  ASSUME NEW S \in SUBSET Targets, NEW from \in 0 .. N, NEW count \in Nat
  PROVE  Slice(S, from, count) \in SUBSET S /\ from + Cardinality(Slice(S, from, count)) <= N
<1> DEFINE P == Slice(S, from, count)
           T == (from + 1) .. Cardinality(S)
           f == [t \in P |-> Position(t, S)]
<1>1. P \in SUBSET S
  BY DEF Slice
<1>2. Cardinality(S) \in 0 .. N /\ Cardinality(P) \in Nat /\ N \in Nat /\ from \in Nat
  BY <1>1, FiniteTargets, ScanAssumption
<1>3. \A t \in P : Position(t, S) \in T
  BY <1>1, <1>2, Positions DEF Slice
<1>4. \A t, u \in P : Position(t, S) = Position(u, S) => t = u
  <2>1. \A t \in P : t \in Nat /\ t \in Targets /\ t \in S
    <3> HIDE DEF P
    <3> QED
      BY <1>1 DEF Targets
  <2>2. \A t \in P : Position(t, S) \in Nat
    BY <1>2, <1>3
  <2>3. \A t, u \in P : t < u => Position(t, S) < Position(u, S)
    BY <2>1, Positions
  <2> QED
    BY <2>1, <2>2, <2>3
<1>5. f \in Injection(P, T)
  BY <1>3, <1>4 DEF Injection, IsInjective
<1>6. IsFiniteSet(T) /\ Cardinality(T) = IF from + 1 > Cardinality(S) THEN 0 ELSE Cardinality(S) - from
  <2>1. from + 1 \in Int /\ Cardinality(S) \in Int
    BY <1>2
  <2>2. Cardinality(T) = IF from + 1 > Cardinality(S) THEN 0 ELSE Cardinality(S) - (from + 1) + 1
    BY <2>1, FS_Interval
  <2>3. IsFiniteSet(T)
    BY <2>1, FS_Interval
  <2> QED
    BY <1>2, <2>2, <2>3
<1>7. Cardinality(P) <= Cardinality(T)
  BY <1>5, <1>6, FS_Injection
<1> QED
  BY <1>1, <1>2, <1>6, <1>7

\* In the list of all targets a target stands at its number.
LEMMA SliceOfAll ==
  ASSUME NEW from \in 0 .. N, NEW count \in Nat
  PROVE  Slice(Targets, from, count) = {t \in Targets : from < t /\ t <= from + count}
<1>1. ASSUME NEW t \in Targets
      PROVE  Position(t, Targets) = t
  <2>1. {u \in Targets : u <= t} = 1 .. t /\ t \in Nat /\ 1 <= t
    BY ScanAssumption DEF Targets
  <2>2. Cardinality(1 .. t) = t
    BY <2>1, FS_Interval
  <2> QED
    BY <2>1, <2>2 DEF Position
<1> QED
  BY <1>1 DEF Slice

\* The first target that did not finish.
LEMMA FirstUnfinished ==
  ASSUME NEW left \in SUBSET Targets, left # {}
  PROVE  LET x == CHOOSE t \in left : \A u \in left : t <= u
         IN  x \in left /\ \A u \in left : x <= u
<1>1. left \in SUBSET Nat
  BY DEF Targets
<1>2. \E t \in left : \A u \in left : t <= u
  BY <1>1, Least
<1> QED
  BY <1>2

\* The targets before the first unfinished one are at most all.
LEMMA UnfinishedFits ==
  ASSUME NEW S \in SUBSET Targets, NEW left \in SUBSET S
  PROVE  Unfinished(S, left) \in 0 .. Cardinality(S)
<1>1. Cardinality(S) \in Nat
  BY FiniteTargets, ScanAssumption
<1>2. CASE left = {}
  BY <1>1, <1>2 DEF Unfinished
<1>3. CASE left # {}
  <2> DEFINE x == CHOOSE t \in left : \A u \in left : t <= u
  <2>1. x \in left
    BY <1>3, FirstUnfinished
  <2>2. Unfinished(S, left) = Position(x, S) - 1
    BY <1>3 DEF Unfinished
  <2> HIDE DEF x
  <2>3. Position(x, S) \in 0 .. Cardinality(S) /\ 0 < Position(x, S)
    BY <2>1, Positions
  <2> QED
    BY <1>1, <2>2, <2>3
<1> QED
  BY <1>2, <1>3

\* In a chunk of a first pass, every target up to the place reached has finished.
LEMMA UnfinishedAll ==
  ASSUME NEW from \in 0 .. N, NEW count \in Nat,
         NEW S, S = {t \in Targets : from < t /\ t <= from + count}, NEW left \in SUBSET S
  PROVE  \A t \in Targets : from < t /\ t <= from + Unfinished(S, left) => t \in S \ left
<1>1. N \in Nat /\ from \in Nat /\ from <= N
  BY ScanAssumption
<1>2. CASE left = {}
  <2> DEFINE m == IF from + count <= N THEN from + count ELSE N
  <2>1. S = (from + 1) .. m /\ m \in Nat /\ from <= m
    BY <1>1 DEF Targets
  <2>2. Cardinality(S) = m - from
    <3> HIDE DEF m
    <3>1. from + 1 \in Int /\ m \in Int
      BY <1>1, <2>1
    <3>2. Cardinality(S) = IF from + 1 > m THEN 0 ELSE m - (from + 1) + 1
      BY <2>1, <3>1, FS_Interval
    <3> QED
      BY <1>1, <2>1, <3>2
  <2>3. Unfinished(S, left) = m - from
    BY <1>2, <2>2 DEF Unfinished
  <2> QED
    BY <1>1, <1>2, <2>1, <2>3 DEF Targets
<1>3. CASE left # {}
  <2> DEFINE x == CHOOSE t \in left : \A u \in left : t <= u
  <2>1. x \in left /\ \A u \in left : x <= u
    BY <1>3, FirstUnfinished
  <2>2. Unfinished(S, left) = Position(x, S) - 1
    BY <1>3 DEF Unfinished
  <2> HIDE DEF x
  <2>3. x \in Nat /\ from < x /\ x \in S /\ x <= N
    BY <2>1, <1>1 DEF Targets
  <2>4. {u \in S : u <= x} = (from + 1) .. x
    BY <1>1, <2>3 DEF Targets
  <2>5. Position(x, S) = x - from
    <3>1. from + 1 \in Int /\ x \in Int
      BY <1>1, <2>3
    <3>2. Cardinality((from + 1) .. x) = IF from + 1 > x THEN 0 ELSE x - (from + 1) + 1
      BY <3>1, FS_Interval
    <3>3. Position(x, S) = Cardinality((from + 1) .. x)
      BY <2>4, Zenon DEF Position
    <3> QED
      BY <1>1, <2>3, <3>2, <3>3
  <2> QED
    BY <1>1, <2>1, <2>2, <2>3, <2>5 DEF Targets
<1> QED
  BY <1>2, <1>3

-----------------------------------------------------------------------------
(* Records.                                                                *)

\* The records of a worker that has nothing in hand.
LEMMA Blank ==
  /\ NewRow \in Rows /\ NewRow.rescan = FALSE /\ NewRow.snap = 0 /\ NewRow.cursor = 0
  /\ NoResult \in ResultRecords /\ NoResult.fails = {} /\ NoResult.hits = {} /\ NoResult.locals = {}
  /\ NoResult.error = FALSE /\ NoResult.aborted = FALSE /\ NoResult.next = 0
  /\ NoChunk \in ChunkRecords /\ NoChunk.fails = {} /\ NoChunk.round = 0 /\ NoChunk.gone = {}
  /\ NoChunk.aborted = FALSE /\ NoChunk.start = 0 /\ NoChunk.error = FALSE /\ NoChunk.unverified = FALSE
  /\ NoCall \in CallRecords /\ NoCall.at = "none" /\ NoCall.kind = "none"
  /\ NoCall.todo = {} /\ NoCall.pass = {} /\ NoCall.fails = {} /\ NoCall.locals = {} /\ NoCall.left = {}
<1>1. 0 \in 0 .. N /\ 0 \in 0 .. MaxRuns /\ 0 \in 0 .. Retries /\ 0 \in Nat
  BY ScanAssumption
<1> QED
  BY <1>1 DEF NewRow, Rows, NoResult, ResultRecords, NoChunk, ChunkRecords, NoCall, CallRecords

\* A probe asks for all of its targets at once.
LEMMA Probes ==
  ASSUME NEW S \in SUBSET Targets
  PROVE  /\ ProbeCall(S) \in CallRecords /\ ProbeCall(S).at = "sent" /\ ProbeCall(S).kind = "probe"
         /\ ProbeCall(S).todo = S /\ ProbeCall(S).pass = {} /\ ProbeCall(S).fails = {}
         /\ ProbeCall(S).locals = {} /\ ProbeCall(S).left = {}
  BY Blank DEF ProbeCall, CallRecords

\* A config test asks for the first batch of them and leaves the rest.
LEMMA Urls ==
  ASSUME NEW S \in SUBSET Targets
  PROVE  /\ UrlCall(S) \in CallRecords /\ UrlCall(S).at = "sent" /\ UrlCall(S).kind = "url"
         /\ UrlCall(S).todo \cup UrlCall(S).left = S /\ UrlCall(S).todo \cap UrlCall(S).left = {}
         /\ UrlCall(S).pass = {} /\ UrlCall(S).fails = {} /\ UrlCall(S).locals = {}
<1> DEFINE B == Slice(S, 0, SubBatch)
<1>1. B \in SUBSET S
  BY DEF Slice
<1>2. B \in SUBSET Targets /\ S \ B \in SUBSET Targets
  BY <1>1
<1> HIDE DEF B
<1>3. UrlCall(S) = [NoCall EXCEPT !.kind = "url", !.at = "sent", !.todo = B, !.left = S \ B]
  BY DEF UrlCall, B
<1>4. /\ UrlCall(S) \in CallRecords /\ UrlCall(S).at = "sent" /\ UrlCall(S).kind = "url"
      /\ UrlCall(S).todo = B /\ UrlCall(S).left = S \ B /\ UrlCall(S).pass = {} /\ UrlCall(S).fails = {}
      /\ UrlCall(S).locals = {}
  BY <1>2, <1>3, Blank DEF CallRecords
<1> QED
  BY <1>1, <1>4

\* The fields of the records in hand.
LEMMA Fields ==
  ASSUME ScanTypes
  PROVE  /\ {row.rescan, mem.rescan} \subseteq BOOLEAN
         /\ {row.snap, mem.snap, row.rsnap, mem.rsnap} \subseteq 0 .. MaxRuns
         /\ {row.cursor, mem.cursor, row.rcursor, mem.rcursor, ActiveCursor(mem)} \subseteq 0 .. N
         /\ {row.total, mem.total, row.rtotal, mem.rtotal} \subseteq 0 .. N
         /\ {res.hits, res.fails, res.locals} \subseteq SUBSET Targets
         /\ {res.error, res.aborted} \subseteq BOOLEAN /\ res.next \in Nat
         /\ {chunk.hits, chunk.fails, chunk.locals, chunk.gone} \subseteq SUBSET Targets
         /\ {chunk.error, chunk.aborted, chunk.unverified} \subseteq BOOLEAN
         /\ {chunk.next, chunk.start} \subseteq 0 .. N /\ chunk.round \in 0 .. Retries
         /\ {call.todo, call.pass, call.fails, call.locals, call.left, Asked} \subseteq SUBSET Targets
  BY DEF ScanTypes, RowTypes, Rows, ActiveCursor, CallTypes, ResultRecords, ChunkTypes,
     ChunkRecords, CallRecords, Asked

\* Deleting a list empties it and leaves the others.
LEMMA Deletes ==
  ASSUME ListTypes, NEW id \in 1 .. MaxRuns, deleteList(id)
  PROVE  /\ lists' \in [1 .. MaxRuns -> SUBSET Targets] /\ lists'[id] = {}
         /\ \A i \in 1 .. MaxRuns : lists'[i] = {} \/ lists'[i] = lists[i]
  BY DEF ListTypes, deleteList
\* Flags and labels keep their types.
LEMMA FlagsKept ==
  ASSUME ScanInv, [ScanNext]_scanVars
  PROVE  FlagTypes'
<1> USE DEF FlagTypes
<1>1. ScanTypes /\ Holds /\ CutByStop /\ Tally /\ Snapshots /\ Covered(row) /\ Covered(mem) /\ Reached
  BY DEF ScanInv
<1>2. ASSUME NEW m \in {"FromInitial", "RescanResults", "Resume"}, Start(m)
      PROVE  FlagTypes'
  BY <1>2, <1>1 DEF Start, scanTables, history, ScanTypes, Effective, passes
<1>3. CASE Pause
  BY <1>3, <1>1 DEF Pause, scanTables, counts, history, ScanTypes, passes
<1>4. CASE onWorkerFinished
  BY <1>4, <1>1 DEF onWorkerFinished, scanTables, counts, history, ScanTypes, passes
<1>5. CASE preparePass
  BY <1>5, <1>1 DEF preparePass, history, prepared, core, counts, ScanTypes, passes
<1>6. CASE ClearEntries
  BY <1>6, <1>1 DEF ClearEntries, prepared, core, counts, ScanTypes
<1>7. CASE DropSnapshot
  BY <1>7, <1>1 DEF DropSnapshot, prepared, core, counts, ScanTypes, passes
<1>8. CASE DropRescanSnapshot
  BY <1>8, <1>1 DEF DropRescanSnapshot, history, prepared, core, counts, ScanTypes, passes
<1>9. CASE CopyList
  BY <1>9, <1>1 DEF CopyList, history, prepared, core, counts, ScanTypes, passes
<1>10. CASE countTargets
  BY <1>10, <1>1 DEF countTargets, history, prepared, core, counts, ScanTypes, passes
<1>11. CASE loadSpec
  BY <1>11, <1>1 DEF loadSpec, scanTables, history, prepared, core, counts, ScanTypes, passes
<1>12. CASE NextChunk
  BY <1>12, <1>1 DEF NextChunk, chunking, scanTables, counts, ScanTypes, passes
<1>13. CASE ProbeAnswered
  BY <1>13, <1>1 DEF ProbeAnswered, answered, chunking, scanTables, counts, history, ScanTypes,
                     passes
<1>14. CASE UrlAnswered
  BY <1>14, <1>1 DEF UrlAnswered, answered, chunking, scanTables, counts, history, ScanTypes,
                     passes
<1>15. CASE CallFailed
  BY <1>15, <1>1 DEF CallFailed, answered, chunking, scanTables, counts, history, ScanTypes,
                     passes
<1>16. CASE Ran
  BY <1>16, <1>1 DEF Ran, kept, chunking, scanTables, counts, history, ScanTypes, passes
<1>17. CASE Retry
  BY <1>17, <1>1 DEF Retry, kept, chunking, scanTables, counts, history, ScanTypes, passes
<1>18. CASE networkUp
  BY <1>18, <1>1 DEF networkUp, scanTables, counts, core, ScanTypes
<1>19. CASE UpsertEntries
  BY <1>19, <1>1 DEF UpsertEntries, committed, counts, core, history, ScanTypes, passes
<1>20. CASE RemoveEntries
  BY <1>20, <1>1 DEF RemoveEntries, committed, counts, core, history, ScanTypes, passes
<1>21. CASE saveProgress
  BY <1>21, <1>1 DEF saveProgress, committed, counts, core, history, ScanTypes, passes
<1>22. CASE FinishDrop
  BY <1>22, <1>1 DEF FinishDrop, finishing, core, counts, history, ScanTypes, passes
<1>23. CASE finishPass
  BY <1>23, <1>1 DEF finishPass, finishing, core, counts, history, ScanTypes, passes
<1>24. CASE Acquire
  BY <1>24, <1>1 DEF Acquire, outside, scanTables, history, ScanTypes, passes
<1>25. ASSUME NEW t \in Targets, Measured(t)
      PROVE  FlagTypes'
  BY <1>25, <1>1 DEF Measured, outside, scanTables, ScanTypes, passes
<1>26. CASE Answer
  BY <1>26, <1>1 DEF Answer, outside, scanTables, history, ScanTypes, passes
<1>27. CASE CallLost
  BY <1>27, <1>1 DEF CallLost, outside, scanTables, history, ScanTypes, passes
<1>28. CASE Stop
  BY <1>28, <1>1 DEF Stop, outside, scanTables, history, ScanTypes, passes
<1>29. CASE CoreRestarts
  BY <1>29, <1>1 DEF CoreRestarts, outside, scanTables, history, ScanTypes, passes
<1>30. CASE AppDies
  BY <1>30, <1>1 DEF AppDies, scanTables, history, ScanTypes, passes
<1>31. CASE UNCHANGED scanVars
  BY <1>31, <1>1 DEF scanVars, scanTables, core, history, ScanTypes, passes
<1> QED
  BY <1>2, <1>3, <1>4, <1>5, <1>6, <1>7, <1>8, <1>9, <1>10, <1>11, <1>12, <1>13, <1>14, <1>15, <1>16,
     <1>17, <1>18, <1>19, <1>20, <1>21, <1>22, <1>23, <1>24, <1>25, <1>26, <1>27, <1>28, <1>29,
     <1>30, <1>31 DEF ScanNext, Worker, Core

\* Runs and faults stay within their bounds.
LEMMA CountsKept ==
  ASSUME ScanInv, [ScanNext]_scanVars
  PROVE  CountTypes'
<1> USE DEF CountTypes
<1>1. ScanTypes /\ Holds /\ CutByStop /\ Tally /\ Snapshots /\ Covered(row) /\ Covered(mem) /\ Reached
  BY DEF ScanInv
<1>2. ASSUME NEW m \in {"FromInitial", "RescanResults", "Resume"}, Start(m)
      PROVE  CountTypes'
  BY <1>2, <1>1, ScanAssumption DEF Start, scanTables, history, ScanTypes, passes
<1>3. CASE Pause
  BY <1>3, <1>1, ScanAssumption DEF Pause, scanTables, counts, history, ScanTypes, passes
<1>4. CASE onWorkerFinished
  BY <1>4, <1>1, ScanAssumption DEF onWorkerFinished, scanTables, counts, history, ScanTypes,
                                    passes
<1>5. CASE preparePass
  BY <1>5, <1>1, ScanAssumption DEF preparePass, history, prepared, core, counts, ScanTypes,
                                    passes
<1>6. CASE ClearEntries
  BY <1>6, <1>1, ScanAssumption DEF ClearEntries, prepared, core, counts, ScanTypes
<1>7. CASE DropSnapshot
  BY <1>7, <1>1, ScanAssumption DEF DropSnapshot, prepared, core, counts, ScanTypes, passes
<1>8. CASE DropRescanSnapshot
  BY <1>8, <1>1, ScanAssumption DEF DropRescanSnapshot, history, prepared, core, counts,
                                    ScanTypes, passes
<1>9. CASE CopyList
  BY <1>9, <1>1, ScanAssumption DEF CopyList, history, prepared, core, counts, ScanTypes, passes
<1>10. CASE countTargets
  BY <1>10, <1>1, ScanAssumption DEF countTargets, history, prepared, core, counts, ScanTypes,
                                     passes
<1>11. CASE loadSpec
  BY <1>11, <1>1, ScanAssumption DEF loadSpec, scanTables, history, prepared, core, counts,
                                     ScanTypes, passes
<1>12. CASE NextChunk
  BY <1>12, <1>1, ScanAssumption DEF NextChunk, chunking, scanTables, counts, ScanTypes, passes
<1>13. CASE ProbeAnswered
  BY <1>13, <1>1, ScanAssumption DEF ProbeAnswered, answered, chunking, scanTables, counts,
     history, ScanTypes, passes
<1>14. CASE UrlAnswered
  BY <1>14, <1>1, ScanAssumption DEF UrlAnswered, answered, chunking, scanTables, counts,
     history, ScanTypes, passes
<1>15. CASE CallFailed
  BY <1>15, <1>1, ScanAssumption DEF CallFailed, answered, chunking, scanTables, counts, history,
     ScanTypes, passes
<1>16. CASE Ran
  BY <1>16, <1>1, ScanAssumption DEF Ran, kept, chunking, scanTables, counts, history, ScanTypes,
                                     passes
<1>17. CASE Retry
  BY <1>17, <1>1, ScanAssumption DEF Retry, kept, chunking, scanTables, counts, history,
                                     ScanTypes, passes
<1>18. CASE networkUp
  BY <1>18, <1>1, ScanAssumption DEF networkUp, scanTables, counts, core, ScanTypes
<1>19. CASE UpsertEntries
  BY <1>19, <1>1, ScanAssumption DEF UpsertEntries, committed, counts, core, history, ScanTypes,
                                     passes
<1>20. CASE RemoveEntries
  BY <1>20, <1>1, ScanAssumption DEF RemoveEntries, committed, counts, core, history, ScanTypes,
                                     passes
<1>21. CASE saveProgress
  BY <1>21, <1>1, ScanAssumption DEF saveProgress, committed, counts, core, history, ScanTypes,
                                     passes
<1>22. CASE FinishDrop
  BY <1>22, <1>1, ScanAssumption DEF FinishDrop, finishing, core, counts, history, ScanTypes,
                                     passes
<1>23. CASE finishPass
  BY <1>23, <1>1, ScanAssumption DEF finishPass, finishing, core, counts, history, ScanTypes,
                                     passes
<1>24. CASE Acquire
  BY <1>24, <1>1, ScanAssumption DEF Acquire, outside, scanTables, history, ScanTypes, passes
<1>25. ASSUME NEW t \in Targets, Measured(t)
      PROVE  CountTypes'
  BY <1>25, <1>1, ScanAssumption DEF Measured, outside, scanTables, ScanTypes, passes
<1>26. CASE Answer
  BY <1>26, <1>1, ScanAssumption DEF Answer, outside, scanTables, history, ScanTypes, passes
<1>27. CASE CallLost
  BY <1>27, <1>1, ScanAssumption DEF CallLost, outside, scanTables, history, ScanTypes, passes
<1>28. CASE Stop
  BY <1>28, <1>1, ScanAssumption DEF Stop, outside, scanTables, history, ScanTypes, passes
<1>29. CASE CoreRestarts
  BY <1>29, <1>1, ScanAssumption DEF CoreRestarts, outside, scanTables, history, ScanTypes, passes
<1>30. CASE AppDies
  BY <1>30, <1>1, ScanAssumption DEF AppDies, scanTables, history, ScanTypes, passes
<1>31. CASE UNCHANGED scanVars
  BY <1>31, <1>1, ScanAssumption DEF scanVars, scanTables, core, history, ScanTypes, passes
<1> QED
  BY <1>2, <1>3, <1>4, <1>5, <1>6, <1>7, <1>8, <1>9, <1>10, <1>11, <1>12, <1>13, <1>14, <1>15, <1>16,
     <1>17, <1>18, <1>19, <1>20, <1>21, <1>22, <1>23, <1>24, <1>25, <1>26, <1>27, <1>28, <1>29,
     <1>30, <1>31 DEF ScanNext, Worker, Core

\* Results, snapshots and what may be passed over are sets of targets.
LEMMA ListsKept ==
  ASSUME ScanInv, [ScanNext]_scanVars
  PROVE  ListTypes'
<1> USE DEF ListTypes
<1>1. ScanTypes /\ Holds /\ CutByStop /\ Tally /\ Snapshots /\ Covered(row) /\ Covered(mem) /\ Reached
  BY DEF ScanInv
<1>2. /\ ListTypes /\ mem.snap \in 0 .. MaxRuns /\ mem.rsnap \in 0 .. MaxRuns
      /\ chunk.hits \subseteq Targets /\ (pc # "idle" => runs \in 1 .. MaxRuns)
  <2>1. mem.snap \in 0 .. MaxRuns /\ mem.rsnap \in 0 .. MaxRuns /\ chunk.hits \subseteq Targets
    BY <1>1, Fields
  <2>2. pc # "idle" => runs \in 1 .. MaxRuns
    BY <1>1, ScanAssumption DEF ScanTypes, CountTypes, Holds
  <2> QED
    BY <1>1, <2>1, <2>2 DEF ScanTypes
<1>3. ASSUME NEW m \in {"FromInitial", "RescanResults", "Resume"}, Start(m)
      PROVE  ListTypes'
  BY <1>3, <1>1 DEF Start, scanTables, history, ScanTypes, passes
<1>4. CASE Pause
  BY <1>4, <1>1 DEF Pause, scanTables, counts, history, ScanTypes, passes
<1>5. CASE onWorkerFinished
  BY <1>5, <1>1 DEF onWorkerFinished, scanTables, counts, history, ScanTypes, passes
<1>6. CASE preparePass
  BY <1>6, <1>1, <1>2, Deletes DEF preparePass, history, prepared, core, counts, passes
<1>7. CASE ClearEntries
  BY <1>7, <1>1 DEF ClearEntries, prepared, core, counts, ScanTypes
<1>8. CASE DropSnapshot
  BY <1>8, <1>1, <1>2, Deletes DEF DropSnapshot, prepared, core, counts, passes
<1>9. CASE DropRescanSnapshot
  BY <1>9, <1>1, <1>2, Deletes DEF DropRescanSnapshot, history, prepared, core, counts, passes
<1>10. CASE CopyList
  BY <1>10, <1>1, <1>2 DEF CopyList, history, prepared, core, counts, passes
<1>11. CASE countTargets
  BY <1>11, <1>1 DEF countTargets, history, prepared, core, counts, ScanTypes, passes
<1>12. CASE loadSpec
  BY <1>12, <1>1 DEF loadSpec, scanTables, history, prepared, core, counts, ScanTypes, passes
<1>13. CASE NextChunk
  BY <1>13, <1>1 DEF NextChunk, chunking, scanTables, counts, ScanTypes, passes
<1>14. CASE ProbeAnswered
  BY <1>14, <1>1 DEF ProbeAnswered, answered, chunking, scanTables, counts, history, ScanTypes,
                     passes
<1>15. CASE UrlAnswered
  BY <1>15, <1>1 DEF UrlAnswered, answered, chunking, scanTables, counts, history, ScanTypes,
                     passes
<1>16. CASE CallFailed
  BY <1>16, <1>1 DEF CallFailed, answered, chunking, scanTables, counts, history, ScanTypes,
                     passes
<1>17. CASE Ran
  BY <1>17, <1>1 DEF Ran, kept, chunking, scanTables, counts, history, ScanTypes, passes
<1>18. CASE Retry
  BY <1>18, <1>1 DEF Retry, kept, chunking, scanTables, counts, history, ScanTypes, passes
<1>19. CASE networkUp
  BY <1>19, <1>1, <1>2, Fields DEF networkUp, scanTables, counts, core, Noted, Proven, Excused
<1>20. CASE UpsertEntries
  BY <1>20, <1>1, <1>2 DEF UpsertEntries, committed, counts, core, history, passes
<1>21. CASE RemoveEntries
  BY <1>21, <1>1 DEF RemoveEntries, committed, counts, core, history, ScanTypes, passes
<1>22. CASE saveProgress
  BY <1>22, <1>1 DEF saveProgress, committed, counts, core, history, ScanTypes, passes
<1>23. CASE FinishDrop
  BY <1>23, <1>1, <1>2, Deletes DEF FinishDrop, finishing, core, counts, history, ActiveSnapshot,
                                    passes
<1>24. CASE finishPass
  BY <1>24, <1>1 DEF finishPass, finishing, core, counts, history, ScanTypes, passes
<1>25. CASE Acquire
  BY <1>25, <1>1 DEF Acquire, outside, scanTables, history, ScanTypes, passes
<1>26. ASSUME NEW t \in Targets, Measured(t)
      PROVE  ListTypes'
  BY <1>26, <1>1 DEF Measured, outside, scanTables, ScanTypes, passes
<1>27. CASE Answer
  BY <1>27, <1>1 DEF Answer, outside, scanTables, history, ScanTypes, passes
<1>28. CASE CallLost
  BY <1>28, <1>1 DEF CallLost, outside, scanTables, history, ScanTypes, passes
<1>29. CASE Stop
  BY <1>29, <1>1 DEF Stop, outside, scanTables, history, ScanTypes, passes
<1>30. CASE CoreRestarts
  BY <1>30, <1>1 DEF CoreRestarts, outside, scanTables, history, ScanTypes, passes
<1>31. CASE AppDies
  BY <1>31, <1>1 DEF AppDies, scanTables, history, ScanTypes, passes
<1>32. CASE UNCHANGED scanVars
  BY <1>32, <1>1 DEF scanVars, scanTables, core, history, ScanTypes, passes
<1> QED
  BY <1>3, <1>4, <1>5, <1>6, <1>7, <1>8, <1>9, <1>10, <1>11, <1>12, <1>13, <1>14, <1>15, <1>16, <1>17,
     <1>18, <1>19, <1>20, <1>21, <1>22, <1>23, <1>24, <1>25, <1>26, <1>27, <1>28, <1>29, <1>30,
     <1>31, <1>32 DEF ScanNext, Worker, Core

\* The row in the database and the worker's copy keep their types.
LEMMA RowsKept ==
  ASSUME ScanInv, [ScanNext]_scanVars
  PROVE  RowTypes'
<1> USE DEF RowTypes
<1>1. ScanTypes /\ Holds /\ CutByStop /\ Tally /\ Snapshots /\ Covered(row) /\ Covered(mem) /\ Reached
  BY DEF ScanInv
<1>2. /\ row \in Rows /\ mem \in Rows /\ runs \in 0 .. MaxRuns /\ 0 \in 0 .. N /\ 0 \in 0 .. MaxRuns
      /\ mem.rtotal \in 0 .. N /\ mem.total \in 0 .. N /\ chunk.start \in 0 .. N /\ chunk.next \in 0 .. N
  BY <1>1, Fields, ScanAssumption DEF ScanTypes, RowTypes, CountTypes
<1>3. ASSUME NEW m \in {"FromInitial", "RescanResults", "Resume"}, Start(m)
      PROVE  RowTypes'
  BY <1>3, <1>2 DEF Start, scanTables, history, passes
<1>4. CASE Pause
  BY <1>4, <1>2 DEF Pause, scanTables, counts, history, passes
<1>5. CASE onWorkerFinished
  BY <1>5, <1>2 DEF onWorkerFinished, scanTables, counts, history, passes
<1>6. CASE preparePass
  BY <1>6, <1>2 DEF preparePass, history, prepared, core, counts, Rows, RescanResumable, passes
<1>7. CASE ClearEntries
  BY <1>7, <1>2 DEF ClearEntries, prepared, core, counts
<1>8. CASE DropSnapshot
  BY <1>8, <1>2 DEF DropSnapshot, prepared, core, counts, passes
<1>9. CASE DropRescanSnapshot
  BY <1>9, <1>2, Blank DEF DropRescanSnapshot, history, prepared, core, counts, passes
<1>10. CASE CopyList
  BY <1>10, <1>2 DEF CopyList, history, prepared, core, counts, Rows, passes
<1>11. CASE countTargets
  <2>1. Cardinality(EntriesOf(ActiveSnapshot(mem))) \in 0 .. N
    <3>1. EntriesOf(ActiveSnapshot(mem)) \in SUBSET Targets
      BY <1>1, Fields DEF ScanTypes, ListTypes, EntriesOf, ActiveSnapshot
    <3> QED
      BY <3>1, FiniteTargets
  <2> QED
    BY <1>2, <2>1, <1>11 DEF countTargets, Rows
<1>12. CASE loadSpec
  BY <1>12, <1>2 DEF loadSpec, scanTables, history, prepared, core, counts, Rows, passes
<1>13. CASE NextChunk
  BY <1>13, <1>2 DEF NextChunk, chunking, scanTables, counts, passes
<1>14. CASE ProbeAnswered
  BY <1>14, <1>2 DEF ProbeAnswered, answered, chunking, scanTables, counts, history, passes
<1>15. CASE UrlAnswered
  BY <1>15, <1>2 DEF UrlAnswered, answered, chunking, scanTables, counts, history, passes
<1>16. CASE CallFailed
  BY <1>16, <1>2 DEF CallFailed, answered, chunking, scanTables, counts, history, passes
<1>17. CASE Ran
  BY <1>17, <1>2 DEF Ran, kept, chunking, scanTables, counts, history, passes
<1>18. CASE Retry
  BY <1>18, <1>2 DEF Retry, kept, chunking, scanTables, counts, history, passes
<1>19. CASE networkUp
  BY <1>19, <1>2 DEF networkUp, scanTables, counts, core
<1>20. CASE UpsertEntries
  BY <1>20, <1>2 DEF UpsertEntries, committed, counts, core, history, passes
<1>21. CASE RemoveEntries
  BY <1>21, <1>2 DEF RemoveEntries, committed, counts, core, history, passes
<1>22. CASE saveProgress
  BY <1>22, <1>2 DEF saveProgress, committed, counts, core, history, Rows, passes
<1>23. CASE FinishDrop
  BY <1>23, <1>2 DEF FinishDrop, finishing, core, counts, history, Rows, passes
<1>24. CASE finishPass
  BY <1>24, <1>2 DEF finishPass, finishing, core, counts, history, Rows, passes
<1>25. CASE Acquire
  BY <1>25, <1>2 DEF Acquire, outside, scanTables, history, passes
<1>26. ASSUME NEW t \in Targets, Measured(t)
      PROVE  RowTypes'
  BY <1>26, <1>2 DEF Measured, outside, scanTables, passes
<1>27. CASE Answer
  BY <1>27, <1>2 DEF Answer, outside, scanTables, history, passes
<1>28. CASE CallLost
  BY <1>28, <1>2 DEF CallLost, outside, scanTables, history, passes
<1>29. CASE Stop
  BY <1>29, <1>2 DEF Stop, outside, scanTables, history, passes
<1>30. CASE CoreRestarts
  BY <1>30, <1>2 DEF CoreRestarts, outside, scanTables, history, passes
<1>31. CASE AppDies
  BY <1>31, <1>2, Blank DEF AppDies, scanTables, history, passes
<1>32. CASE UNCHANGED scanVars
  BY <1>32, <1>2 DEF scanVars, scanTables, core, history, passes
<1> QED
  BY <1>3, <1>4, <1>5, <1>6, <1>7, <1>8, <1>9, <1>10, <1>11, <1>12, <1>13, <1>14, <1>15, <1>16, <1>17,
     <1>18, <1>19, <1>20, <1>21, <1>22, <1>23, <1>24, <1>25, <1>26, <1>27, <1>28, <1>29, <1>30,
     <1>31, <1>32 DEF ScanNext, Worker, Core

\* The call under way, its answers and the counts of failures keep their types.
LEMMA CallsKept ==
  ASSUME ScanInv, [ScanNext]_scanVars
  PROVE  CallTypes'
<1> USE DEF CallTypes
<1>1. ScanTypes /\ Holds /\ CutByStop /\ Tally /\ Snapshots /\ Covered(row) /\ Covered(mem) /\ Reached
  BY DEF ScanInv
<1>2. /\ call \in CallRecords /\ res \in ResultRecords /\ strikes \in [Targets -> 0 .. Retries + 1]
      /\ Retries \in Nat /\ configPhase \in BOOLEAN
  BY <1>1, ScanAssumption DEF ScanTypes, CallTypes, FlagTypes
<1>3. ASSUME NEW m \in {"FromInitial", "RescanResults", "Resume"}, Start(m)
      PROVE  CallTypes'
  BY <1>3, <1>2 DEF Start, scanTables, history, passes
<1>4. CASE Pause
  BY <1>4, <1>2 DEF Pause, scanTables, counts, history, passes
<1>5. CASE onWorkerFinished
  BY <1>5, <1>2 DEF onWorkerFinished, scanTables, counts, history, passes
<1>6. CASE preparePass
  BY <1>6, <1>2 DEF preparePass, history, prepared, core, counts, passes
<1>7. CASE ClearEntries
  BY <1>7, <1>2 DEF ClearEntries, prepared, core, counts
<1>8. CASE DropSnapshot
  BY <1>8, <1>2 DEF DropSnapshot, prepared, core, counts, passes
<1>9. CASE DropRescanSnapshot
  BY <1>9, <1>2 DEF DropRescanSnapshot, history, prepared, core, counts, passes
<1>10. CASE CopyList
  BY <1>10, <1>2 DEF CopyList, history, prepared, core, counts, passes
<1>11. CASE countTargets
  BY <1>11, <1>2 DEF countTargets, history, prepared, core, counts, passes
<1>12. CASE loadSpec
  BY <1>12, <1>2 DEF loadSpec, scanTables, history, prepared, core, counts, passes
<1>13. CASE NextChunk
  <2>1. Slice(EntriesOf(ActiveSnapshot(mem)), ActiveCursor(mem), ChunkSize) \in SUBSET Targets
    <3>1. EntriesOf(ActiveSnapshot(mem)) \in SUBSET Targets
      BY <1>1, Fields DEF ScanTypes, ListTypes, EntriesOf, ActiveSnapshot
    <3> QED
      BY <3>1 DEF Slice
  <2>2. [t \in Targets |-> 0] \in [Targets -> 0 .. Retries + 1]
    BY <1>2
  <2> QED
    BY <1>2, <2>1, <2>2, <1>13, Probes, Blank DEF NextChunk, passes
<1>14. CASE ProbeAnswered
  <2> DEFINE got == [NoResult EXCEPT !.fails = call.fails, !.locals = call.locals, !.aborted = call.todo # {},
                                     !.next = chunk.start + Unfinished(Asked, call.todo)]
  <2>1. chunk.start + Unfinished(Asked, call.todo) \in Nat
    <3>1. call.todo \in SUBSET Asked /\ Asked \in SUBSET Targets /\ chunk.start \in Nat
      BY <1>1, Fields, ScanAssumption DEF Asked
    <3>2. Unfinished(Asked, call.todo) \in Nat
      BY <3>1, UnfinishedFits, FiniteTargets
    <3> QED
      BY <3>1, <3>2
  <2>2. call.fails \in SUBSET Targets /\ call.locals \in SUBSET Targets /\ call.pass \in SUBSET Targets
    BY <1>1, Fields
  <2>3. (call.todo # {}) \in BOOLEAN
    BY Zenon
  <2>4. got \in ResultRecords
    BY <2>1, <2>2, <2>3, Blank DEF ResultRecords
  <2> HIDE DEF got
  <2>5. [got EXCEPT !.hits = call.pass] \in ResultRecords
    BY <2>2, <2>4 DEF ResultRecords
  <2>6. \A b \in BOOLEAN : [got EXCEPT !.aborted = b] \in ResultRecords
    BY <2>4 DEF ResultRecords
  <2>7. (call.todo # {} \/ call.pass # {}) \in BOOLEAN
    BY Zenon
  <2>8. res' \in ResultRecords
    BY <2>4, <2>5, <2>6, <2>7, <1>14 DEF ProbeAnswered, got
  <2>9. call' \in CallRecords
    BY <2>2, <1>14, Blank, Urls DEF ProbeAnswered
  <2> QED
    BY <1>2, <2>8, <2>9, <1>14 DEF ProbeAnswered, answered, history, passes
<1>15. CASE UrlAnswered
  <2> DEFINE cut == call.todo # {} \/ (call.left # {} /\ stop)
  <2>1. call.fails \in SUBSET Targets /\ call.left \in SUBSET Targets /\ call.pass \in SUBSET Targets
    BY <1>1, Fields
  <2>2. (res.aborted \/ cut) \in BOOLEAN
    BY Zenon
  <2>3. res' = [res EXCEPT !.hits = @ \cup call.pass, !.fails = @ \cup call.fails, !.aborted = res.aborted \/ cut]
    BY <1>15 DEF UrlAnswered
  <2> HIDE DEF cut
  <2>4. res' \in ResultRecords
    BY <1>2, <2>1, <2>2, <2>3 DEF ResultRecords
  <2>5. call' \in CallRecords
    BY <2>1, <1>15, Blank, Urls DEF UrlAnswered
  <2> QED
    BY <1>2, <2>4, <2>5, <1>15 DEF UrlAnswered, answered, history, passes
<1>16. CASE CallFailed
  <2> DEFINE cut == IF stop' THEN [res EXCEPT !.aborted = TRUE] ELSE [res EXCEPT !.error = TRUE]
  <2>1. cut \in ResultRecords
    BY <1>2 DEF ResultRecords
  <2> HIDE DEF cut
  <2>2. call.pass \in SUBSET Targets /\ chunk.start \in Nat
    BY <1>1, Fields, ScanAssumption
  <2>3. \A S \in SUBSET Targets : [cut EXCEPT !.hits = S, !.next = chunk.start] \in ResultRecords
    BY <2>1, <2>2 DEF ResultRecords
  <2>4. res' \in ResultRecords
    BY <2>1, <2>2, <2>3, <1>16 DEF CallFailed, cut
  <2> QED
    BY <1>2, <2>4, <1>16, Blank DEF CallFailed, answered, history, passes
<1>17. CASE Ran
  BY <1>17, <1>2, Blank DEF Ran, kept, chunking, scanTables, counts, history, passes
<1>18. CASE Retry
  BY <1>18, <1>2, <1>1, Fields, Probes DEF Retry, kept, chunking, scanTables, counts, history,
                                           passes
<1>19. CASE networkUp
  BY <1>19, <1>2 DEF networkUp, scanTables, counts, core
<1>20. CASE UpsertEntries
  BY <1>20, <1>2 DEF UpsertEntries, committed, counts, core, history, passes
<1>21. CASE RemoveEntries
  BY <1>21, <1>2 DEF RemoveEntries, committed, counts, core, history, passes
<1>22. CASE saveProgress
  BY <1>22, <1>2 DEF saveProgress, committed, counts, core, history, passes
<1>23. CASE FinishDrop
  BY <1>23, <1>2 DEF FinishDrop, finishing, core, counts, history, passes
<1>24. CASE finishPass
  BY <1>24, <1>2 DEF finishPass, finishing, core, counts, history, passes
<1>25. CASE Acquire
  BY <1>25, <1>2 DEF Acquire, outside, scanTables, history, CallRecords, passes
<1>26. ASSUME NEW t \in Targets, Measured(t)
      PROVE  CallTypes'
  <2>1. strikes' \in [Targets -> 0 .. Retries + 1]
    BY <1>2, <1>26 DEF Measured, Strike, passes
  <2>2. /\ [call EXCEPT !.todo = call.todo \ {t}, !.pass = call.pass \cup {t}] \in CallRecords
        /\ [call EXCEPT !.todo = call.todo \ {t}, !.fails = call.fails \cup {t}] \in CallRecords
        /\ [call EXCEPT !.todo = call.todo \ {t}, !.locals = call.locals \cup {t}] \in CallRecords
    <3>1. /\ call.todo \ {t} \in SUBSET Targets /\ call.pass \cup {t} \in SUBSET Targets
          /\ call.fails \cup {t} \in SUBSET Targets /\ call.locals \cup {t} \in SUBSET Targets
      BY <1>1, Fields
    <3> QED
      BY <1>2, <3>1 DEF CallRecords
  <2> QED
    BY <1>2, <2>1, <2>2, <1>26 DEF Measured, outside, passes
<1>27. CASE Answer
  BY <1>27, <1>2 DEF Answer, outside, scanTables, history, CallRecords, passes
<1>28. CASE CallLost
  BY <1>28, <1>2, Blank DEF CallLost, outside, scanTables, history, CallRecords, passes
<1>29. CASE Stop
  BY <1>29, <1>2 DEF Stop, outside, scanTables, history, passes
<1>30. CASE CoreRestarts
  BY <1>30, <1>2, Blank DEF CoreRestarts, outside, scanTables, history, CallRecords, passes
<1>31. CASE AppDies
  BY <1>31, <1>2, Blank DEF AppDies, scanTables, history, passes
<1>32. CASE UNCHANGED scanVars
  BY <1>32, <1>2 DEF scanVars, scanTables, core, history, passes
<1> QED
  BY <1>3, <1>4, <1>5, <1>6, <1>7, <1>8, <1>9, <1>10, <1>11, <1>12, <1>13, <1>14, <1>15, <1>16, <1>17,
     <1>18, <1>19, <1>20, <1>21, <1>22, <1>23, <1>24, <1>25, <1>26, <1>27, <1>28, <1>29, <1>30,
     <1>31, <1>32 DEF ScanNext, Worker, Core

\* The chunk in hand keeps its type.
LEMMA ChunksKept ==
  ASSUME ScanInv, [ScanNext]_scanVars
  PROVE  ChunkTypes'
<1> USE DEF ChunkTypes
<1>1. ScanTypes /\ Holds /\ CutByStop /\ Tally /\ Snapshots /\ Covered(row) /\ Covered(mem) /\ Reached
  BY DEF ScanInv
<1>2. /\ chunk \in ChunkRecords /\ res \in ResultRecords /\ configPhase \in BOOLEAN
      /\ (chunk.round = 0 => res.next \in 0 .. N) /\ Retries \in Nat
      /\ (pc = "delay" => chunk.round + 1 \in 0 .. Retries)
  BY <1>1, Fields, ScanAssumption DEF ScanTypes, ChunkTypes, CallTypes, FlagTypes, Reached, Holds
<1>3. ASSUME NEW m \in {"FromInitial", "RescanResults", "Resume"}, Start(m)
      PROVE  ChunkTypes'
  BY <1>3, <1>2 DEF Start, scanTables, history, passes
<1>4. CASE Pause
  BY <1>4, <1>2 DEF Pause, scanTables, counts, history, passes
<1>5. CASE onWorkerFinished
  BY <1>5, <1>2 DEF onWorkerFinished, scanTables, counts, history, passes
<1>6. CASE preparePass
  BY <1>6, <1>2 DEF preparePass, history, prepared, core, counts, passes
<1>7. CASE ClearEntries
  BY <1>7, <1>2 DEF ClearEntries, prepared, core, counts
<1>8. CASE DropSnapshot
  BY <1>8, <1>2 DEF DropSnapshot, prepared, core, counts, passes
<1>9. CASE DropRescanSnapshot
  BY <1>9, <1>2 DEF DropRescanSnapshot, history, prepared, core, counts, passes
<1>10. CASE CopyList
  BY <1>10, <1>2 DEF CopyList, history, prepared, core, counts, passes
<1>11. CASE countTargets
  BY <1>11, <1>2 DEF countTargets, history, prepared, core, counts, passes
<1>12. CASE loadSpec
  BY <1>12, <1>2 DEF loadSpec, scanTables, history, prepared, core, counts, passes
<1>13. CASE NextChunk
  <2>1. ActiveCursor(mem) \in 0 .. N
    BY <1>1, Fields
  <2> QED
    BY <1>2, <2>1, <1>13, Blank DEF NextChunk, ChunkRecords, passes
<1>14. CASE ProbeAnswered
  BY <1>14, <1>2 DEF ProbeAnswered, answered, chunking, scanTables, counts, history, passes
<1>15. CASE UrlAnswered
  BY <1>15, <1>2 DEF UrlAnswered, answered, chunking, scanTables, counts, history, passes
<1>16. CASE CallFailed
  BY <1>16, <1>2 DEF CallFailed, answered, chunking, scanTables, counts, history, passes
<1>17. CASE Ran
  <2> DEFINE first == [chunk EXCEPT !.hits = res.hits, !.fails = res.fails, !.locals = res.locals,
                                    !.error = res.error, !.aborted = res.aborted, !.next = res.next]
             more == [chunk EXCEPT !.hits = chunk.hits \cup res.hits, !.locals = chunk.locals \cup res.locals,
                                   !.fails = res.fails]
  <2>1. chunk.round = 0 => first \in ChunkRecords
    BY <1>2 DEF ChunkRecords, ResultRecords
  <2>2. more \in ChunkRecords
    BY <1>2 DEF ChunkRecords, ResultRecords
  <2>3. Unconfirmed => chunk' \in ChunkRecords
    BY <1>2 DEF ChunkRecords, Unconfirmed
  <2> HIDE DEF first, more
  <2> QED
    BY <2>1, <2>2, <2>3, <1>17 DEF Ran, first, more
<1>18. CASE Retry
  BY <1>18, <1>2 DEF Retry, kept, chunking, scanTables, counts, history, ChunkRecords,
                     Unconfirmed, passes
<1>19. CASE networkUp
  <2>1. chunk.fails \in SUBSET Targets /\ chunk.gone \in SUBSET Targets
    BY <1>1, Fields
  <2>2. \A b \in BOOLEAN, S \in SUBSET Targets :
          [chunk EXCEPT !.unverified = b, !.gone = S] \in ChunkRecords
    BY <1>2 DEF ChunkRecords
  <2>3. [chunk EXCEPT !.unverified = TRUE] \in ChunkRecords
    BY <1>2 DEF ChunkRecords
  <2>4. \A up4, up6 \in BOOLEAN : Verified(up4, up6).unverified \in BOOLEAN
    BY Zenon DEF Verified
  <2>5. CASE Guarded /\ ~stop
    <3>1. PICK up4 \in BOOLEAN, up6 \in BOOLEAN :
            LET v == Verified(up4, up6)
            IN  chunk' = [chunk EXCEPT !.unverified = v.unverified,
                                       !.gone = IF mem.rescan /\ ~v.unverified
                                                THEN @ \cup (chunk.fails \cap v.up) ELSE {}]
      BY <2>5, <1>19 DEF networkUp
    <3>2. (IF mem.rescan /\ ~Verified(up4, up6).unverified
           THEN chunk.gone \cup (chunk.fails \cap Verified(up4, up6).up) ELSE {}) \in SUBSET Targets
      BY <2>1
    <3>3. Verified(up4, up6).unverified \in BOOLEAN
      BY <2>4
    <3> QED
      BY <2>2, <3>1, <3>2, <3>3
  <2> QED
    BY <1>2, <2>3, <2>5, <1>19 DEF networkUp
<1>20. CASE UpsertEntries
  BY <1>20, <1>2 DEF UpsertEntries, committed, counts, core, history, passes
<1>21. CASE RemoveEntries
  BY <1>21, <1>2 DEF RemoveEntries, committed, counts, core, history, passes
<1>22. CASE saveProgress
  BY <1>22, Blank DEF saveProgress, committed, counts, core, history, passes
<1>23. CASE FinishDrop
  BY <1>23, <1>2 DEF FinishDrop, finishing, core, counts, history, passes
<1>24. CASE finishPass
  BY <1>24, <1>2 DEF finishPass, finishing, core, counts, history, passes
<1>25. CASE Acquire
  BY <1>25, <1>2 DEF Acquire, outside, scanTables, history, passes
<1>26. ASSUME NEW t \in Targets, Measured(t)
      PROVE  ChunkTypes'
  BY <1>26, <1>2 DEF Measured, outside, scanTables, passes
<1>27. CASE Answer
  BY <1>27, <1>2 DEF Answer, outside, scanTables, history, passes
<1>28. CASE CallLost
  BY <1>28, <1>2 DEF CallLost, outside, scanTables, history, passes
<1>29. CASE Stop
  BY <1>29, <1>2 DEF Stop, outside, scanTables, history, passes
<1>30. CASE CoreRestarts
  BY <1>30, <1>2 DEF CoreRestarts, outside, scanTables, history, passes
<1>31. CASE AppDies
  BY <1>31, Blank DEF AppDies, scanTables, history, passes
<1>32. CASE UNCHANGED scanVars
  BY <1>32, <1>2 DEF scanVars, scanTables, core, history, passes
<1> QED
  BY <1>3, <1>4, <1>5, <1>6, <1>7, <1>8, <1>9, <1>10, <1>11, <1>12, <1>13, <1>14, <1>15, <1>16, <1>17,
     <1>18, <1>19, <1>20, <1>21, <1>22, <1>23, <1>24, <1>25, <1>26, <1>27, <1>28, <1>29, <1>30,
     <1>31, <1>32 DEF ScanNext, Worker, Core

-----------------------------------------------------------------------------
(* What the steps of a chunk do to its records.                            *)

\* A chunk begins: a probe of the next targets is sent.
LEMMA NextChunkDoes ==
  ASSUME ScanTypes, NextChunk
  PROVE  \/ pc' \in {"finishDrop", "finish"} /\ UNCHANGED <<res, chunk, call, strikes>>
         \/ /\ ~PassDone /\ pc' = "call" /\ res' = NoResult /\ strikes' = [t \in Targets |-> 0]
            /\ chunk'.start = ActiveCursor(mem) /\ chunk'.next = ActiveCursor(mem)
            /\ chunk'.round = 0 /\ chunk'.gone = {} /\ chunk'.fails = {}
            /\ chunk'.aborted = FALSE /\ chunk'.error = FALSE /\ chunk'.unverified = FALSE
            /\ call'.at = "sent" /\ call'.kind = "probe"
            /\ call'.todo = Slice(EntriesOf(ActiveSnapshot(mem)), ActiveCursor(mem), ChunkSize)
            /\ call'.pass = {} /\ call'.fails = {} /\ call'.locals = {} /\ call'.left = {}
<1> DEFINE S == Slice(EntriesOf(ActiveSnapshot(mem)), ActiveCursor(mem), ChunkSize)
<1>1. S \in SUBSET Targets
  <2>1. EntriesOf(ActiveSnapshot(mem)) \in SUBSET Targets
    BY Fields DEF ScanTypes, ListTypes, EntriesOf, ActiveSnapshot
  <2> QED
    BY <2>1 DEF Slice
<1>2. CASE ~PassDone /\ ~stop
  <2>1. chunk' = [NoChunk EXCEPT !.start = ActiveCursor(mem), !.next = ActiveCursor(mem)]
    BY <1>2 DEF NextChunk, passes
  <2>2. /\ chunk'.start = ActiveCursor(mem) /\ chunk'.next = ActiveCursor(mem)
        /\ chunk'.round = 0 /\ chunk'.gone = {} /\ chunk'.fails = {}
        /\ chunk'.aborted = FALSE /\ chunk'.error = FALSE /\ chunk'.unverified = FALSE
    BY <2>1 DEF NoChunk
  <2>3. call' = ProbeCall(S)
    BY <1>2 DEF NextChunk, passes
  <2> HIDE DEF S
  <2>4. /\ call'.at = "sent" /\ call'.kind = "probe" /\ call'.todo = S
        /\ call'.pass = {} /\ call'.fails = {} /\ call'.locals = {} /\ call'.left = {}
    BY <1>1, <2>3, Probes
  <2> QED
    BY <1>2, <2>2, <2>4 DEF NextChunk, S, passes
<1>3. CASE PassDone \/ stop
  BY <1>3 DEF NextChunk, passes
<1> QED
  BY <1>2, <1>3

\* A probe was answered: the chunk has its results, or its candidates go on to a config
\* test, which happens only when all finished.
LEMMA ProbeAnsweredDoes ==
  ASSUME ScanTypes, ProbeAnswered
  PROVE  /\ res'.fails = call.fails /\ res'.locals = call.locals /\ res'.error = FALSE
         /\ res'.next = chunk.start + Unfinished(Asked, call.todo)
         /\ \/ /\ pc' = "ran" /\ call' = NoCall
               /\ ~configPhase => res'.hits = call.pass
               /\ ~res'.aborted => call.todo = {} /\ (configPhase => call.pass = {})
               /\ res'.aborted => call.todo # {} \/ stop
            \/ /\ pc' = "call" /\ configPhase /\ call.todo = {} /\ res'.aborted = FALSE
               /\ call'.at = "sent" /\ call'.kind = "url" /\ call'.todo \cup call'.left = call.pass
               /\ call'.todo \cap call'.left = {}
               /\ call'.pass = {} /\ call'.fails = {} /\ call'.locals = {}
<1> DEFINE got == [NoResult EXCEPT !.fails = call.fails, !.locals = call.locals, !.aborted = call.todo # {},
                                   !.next = chunk.start + Unfinished(Asked, call.todo)]
<1>1. /\ got.fails = call.fails /\ got.locals = call.locals /\ got.error = FALSE
      /\ got.next = chunk.start + Unfinished(Asked, call.todo) /\ got.aborted = (call.todo # {})
  BY DEF NoResult
<1>2. /\ [got EXCEPT !.hits = call.pass].fails = call.fails /\ [got EXCEPT !.hits = call.pass].locals = call.locals
      /\ [got EXCEPT !.hits = call.pass].error = FALSE /\ [got EXCEPT !.hits = call.pass].hits = call.pass
      /\ [got EXCEPT !.hits = call.pass].next = chunk.start + Unfinished(Asked, call.todo)
      /\ [got EXCEPT !.hits = call.pass].aborted = (call.todo # {})
  BY DEF NoResult
<1>3. ASSUME NEW b
      PROVE  /\ [got EXCEPT !.aborted = b].fails = call.fails /\ [got EXCEPT !.aborted = b].locals = call.locals
             /\ [got EXCEPT !.aborted = b].error = FALSE /\ [got EXCEPT !.aborted = b].aborted = b
             /\ [got EXCEPT !.aborted = b].next = chunk.start + Unfinished(Asked, call.todo)
  BY DEF NoResult
<1> HIDE DEF got
<1>4. CASE ~configPhase
  <2>1. res' = [got EXCEPT !.hits = call.pass] /\ call' = NoCall /\ pc' = "ran"
    BY <1>4 DEF ProbeAnswered, got
  <2> QED
    BY <1>2, <1>4, <2>1
<1>5. CASE configPhase /\ (call.pass = {} \/ call.todo # {} \/ stop)
  <2>1. res' = [got EXCEPT !.aborted = call.todo # {} \/ call.pass # {}] /\ call' = NoCall /\ pc' = "ran"
    BY <1>5 DEF ProbeAnswered, got
  <2>2. res'.aborted = (call.todo # {} \/ call.pass # {})
    BY <1>3, <2>1
  <2>3. ~res'.aborted => call.todo = {} /\ call.pass = {}
    BY <2>2
  <2>4. res'.aborted => call.todo # {} \/ stop
    BY <1>5, <2>2
  <2> QED
    BY <1>3, <1>5, <2>1, <2>3, <2>4
<1>6. CASE configPhase /\ call.pass # {} /\ call.todo = {} /\ ~stop
  <2>1. res' = got /\ call' = UrlCall(call.pass) /\ pc' = "call"
    BY <1>6 DEF ProbeAnswered, got
  <2>2. call.pass \in SUBSET Targets
    BY Fields
  <2>3. got.aborted = FALSE
    BY <1>1, <1>6
  <2> QED
    BY <1>1, <1>6, <2>1, <2>2, <2>3, Urls
<1> QED
  BY <1>4, <1>5, <1>6 DEF ProbeAnswered

\* A config test was answered: its outcomes are added, and the next batch follows unless
\* the run is stopping.
LEMMA UrlAnsweredDoes ==
  ASSUME ScanTypes, UrlAnswered
  PROVE  /\ res'.hits = res.hits \cup call.pass /\ res'.fails = res.fails \cup call.fails
         /\ res'.locals = res.locals /\ res'.error = res.error /\ res'.next = res.next
         /\ ~res'.aborted => ~res.aborted /\ call.todo = {}
         /\ res'.aborted => res.aborted \/ call.todo # {} \/ stop
         /\ \/ pc' = "ran" /\ call' = NoCall /\ (~res'.aborted => call.left = {})
            \/ /\ pc' = "call" /\ call'.at = "sent" /\ call'.kind = "url" /\ call'.todo \cup call'.left = call.left
               /\ call'.todo \cap call'.left = {}
               /\ call'.pass = {} /\ call'.fails = {} /\ call'.locals = {}
<1> DEFINE cut == call.todo # {} \/ (call.left # {} /\ stop)
<1>1. res' = [res EXCEPT !.hits = res.hits \cup call.pass, !.fails = res.fails \cup call.fails,
                         !.aborted = res.aborted \/ cut]
  BY DEF UrlAnswered
<1>2. /\ res'.hits = res.hits \cup call.pass /\ res'.fails = res.fails \cup call.fails
      /\ res'.locals = res.locals /\ res'.error = res.error /\ res'.next = res.next
      /\ res'.aborted = (res.aborted \/ cut)
  <2> HIDE DEF cut
  <2>1. res \in ResultRecords
    BY DEF ScanTypes, CallTypes
  <2> QED
    BY <1>1, <2>1 DEF ResultRecords
<1>3. call.left \in SUBSET Targets
  BY Fields
<1>4. CASE call.left # {} /\ ~stop
  <2>1. call' = UrlCall(call.left) /\ pc' = "call"
    BY <1>4 DEF UrlAnswered
  <2>2. /\ call'.at = "sent" /\ call'.kind = "url" /\ call'.todo \cup call'.left = call.left
        /\ call'.todo \cap call'.left = {}
        /\ call'.pass = {} /\ call'.fails = {} /\ call'.locals = {}
    BY <1>3, <2>1, Urls
  <2> QED
    BY <1>2, <1>4, <2>1, <2>2
<1>5. CASE ~(call.left # {} /\ ~stop)
  BY <1>2, <1>5 DEF UrlAnswered
<1> QED
  BY <1>4, <1>5

\* A failed call ends the chunk, for a stop or with an error; a failed probe reached nothing.
LEMMA CallFailedDoes ==
  ASSUME ScanTypes, CallFailed
  PROVE  /\ pc' = "ran" /\ call' = NoCall /\ res'.fails = res.fails /\ res'.locals = res.locals
         /\ (stop' /\ res'.aborted /\ res'.error = res.error) \/ (~stop' /\ res'.error /\ res'.aborted = res.aborted)
         /\ IF call.kind = "url" THEN res'.next = res.next ELSE res'.next = chunk.start
<1> DEFINE cut == IF stop' THEN [res EXCEPT !.aborted = TRUE] ELSE [res EXCEPT !.error = TRUE]
<1>1. res \in ResultRecords
  BY DEF ScanTypes, CallTypes
<1>2. /\ cut \in ResultRecords /\ cut.fails = res.fails /\ cut.locals = res.locals /\ cut.next = res.next
      /\ stop' => cut.aborted = TRUE /\ cut.error = res.error
      /\ ~stop' => cut.error = TRUE /\ cut.aborted = res.aborted
  BY <1>1 DEF ResultRecords
<1> HIDE DEF cut
<1>3. ASSUME NEW S
      PROVE  /\ [cut EXCEPT !.hits = S, !.next = chunk.start].fails = cut.fails
             /\ [cut EXCEPT !.hits = S, !.next = chunk.start].locals = cut.locals
             /\ [cut EXCEPT !.hits = S, !.next = chunk.start].error = cut.error
             /\ [cut EXCEPT !.hits = S, !.next = chunk.start].aborted = cut.aborted
             /\ [cut EXCEPT !.hits = S, !.next = chunk.start].next = chunk.start
  BY <1>2 DEF ResultRecords
<1>4. res' = IF call.kind = "url" THEN cut
             ELSE [cut EXCEPT !.hits = IF configPhase THEN {} ELSE call.pass, !.next = chunk.start]
  BY DEF CallFailed, cut
<1>5. pc' = "ran" /\ call' = NoCall /\ stop' \in BOOLEAN
  BY DEF CallFailed, ScanTypes, FlagTypes
<1>6. CASE call.kind = "url"
  BY <1>2, <1>4, <1>5, <1>6
<1>7. CASE call.kind # "url"
  BY <1>2, <1>3, <1>4, <1>5, <1>7
<1> QED
  BY <1>6, <1>7

\* Nothing is confirmed: no failure stays, and a stop takes the chunk back to its start.
LEMMA UnconfirmedDoes ==
  ASSUME ScanTypes, Unconfirmed
  PROVE  /\ chunk'.start = chunk.start /\ chunk'.round = chunk.round /\ chunk'.gone = chunk.gone
         /\ chunk'.unverified = chunk.unverified /\ chunk'.fails = {}
         /\ chunk'.aborted = (stop \/ chunk.aborted)
<1>1. chunk \in ChunkRecords /\ stop \in BOOLEAN
  BY DEF ScanTypes, ChunkTypes, FlagTypes
<1>2. CASE stop
  BY <1>1, <1>2 DEF Unconfirmed, ChunkRecords
<1>3. CASE ~stop
  BY <1>1, <1>3 DEF Unconfirmed, ChunkRecords
<1> QED
  BY <1>2, <1>3

\* runChunk returned: the first time its result is the chunk's; a retry confirms failures
\* only if it was not cut short.
LEMMA RanDoes ==
  ASSUME ScanTypes, Ran
  PROVE  /\ chunk'.start = chunk.start /\ chunk'.round = chunk.round /\ chunk'.gone = chunk.gone
         /\ chunk'.unverified = chunk.unverified
         /\ \/ /\ chunk.round = 0
               /\ chunk'.hits = res.hits /\ chunk'.fails = res.fails /\ chunk'.locals = res.locals
               /\ chunk'.error = res.error /\ chunk'.aborted = res.aborted /\ chunk'.next = res.next
               /\ \/ pc' = "delay" /\ mem.rescan /\ Retries > 0
                  \/ pc' = "check" /\ (mem.rescan /\ ~res.error /\ ~res.aborted => res.fails = {} \/ Retries = 0)
            \/ /\ chunk.round > 0 /\ pc' = "check" /\ chunk'.fails = {}
               /\ chunk'.aborted = (stop \/ chunk.aborted)
            \/ /\ chunk.round > 0 /\ chunk'.fails = res.fails /\ chunk'.aborted = chunk.aborted
               /\ \/ pc' = "delay" /\ chunk.round < Retries
                  \/ pc' = "check" /\ (res.fails = {} \/ chunk.round = Retries)
<1>1. chunk \in ChunkRecords /\ chunk.round \in 0 .. Retries /\ Retries \in Nat
  BY Fields, ScanAssumption DEF ScanTypes, ChunkTypes
<1>2. CASE chunk.round = 0
  <2>1. chunk' = [chunk EXCEPT !.hits = res.hits, !.fails = res.fails, !.locals = res.locals,
                               !.error = res.error, !.aborted = res.aborted, !.next = res.next]
    BY <1>2 DEF Ran
  <2>2. /\ chunk'.start = chunk.start /\ chunk'.round = chunk.round /\ chunk'.gone = chunk.gone
        /\ chunk'.unverified = chunk.unverified
        /\ chunk'.hits = res.hits /\ chunk'.fails = res.fails /\ chunk'.locals = res.locals
        /\ chunk'.error = res.error /\ chunk'.aborted = res.aborted /\ chunk'.next = res.next
    BY <1>1, <2>1 DEF ChunkRecords
  <2>3. pc' = IF mem.rescan /\ ~res.error /\ ~res.aborted /\ res.fails # {} /\ Retries > 0
              THEN "delay" ELSE "check"
    BY <1>2 DEF Ran
  <2> QED
    BY <1>1, <1>2, <2>2, <2>3
<1>3. CASE chunk.round > 0 /\ (res.error \/ res.aborted)
  BY <1>1, <1>3, UnconfirmedDoes DEF Ran
<1>4. CASE chunk.round > 0 /\ ~res.error /\ ~res.aborted
  <2>1. chunk' = [chunk EXCEPT !.hits = chunk.hits \cup res.hits, !.locals = chunk.locals \cup res.locals,
                               !.fails = res.fails]
    BY <1>1, <1>4 DEF Ran
  <2>2. /\ chunk'.start = chunk.start /\ chunk'.round = chunk.round /\ chunk'.gone = chunk.gone
        /\ chunk'.unverified = chunk.unverified /\ chunk'.fails = res.fails /\ chunk'.aborted = chunk.aborted
    BY <1>1, <2>1 DEF ChunkRecords
  <2>3. pc' = IF res.fails # {} /\ chunk.round < Retries THEN "delay" ELSE "check"
    BY <1>1, <1>4 DEF Ran
  <2> QED
    BY <1>1, <1>4, <2>2, <2>3
<1> QED
  BY <1>1, <1>2, <1>3, <1>4

\* A round of retries begins, unless the run is stopping.
LEMMA RetryDoes ==
  ASSUME ScanTypes, Retry
  PROVE  /\ chunk'.start = chunk.start /\ chunk'.gone = chunk.gone /\ chunk'.unverified = chunk.unverified
         /\ \/ /\ stop /\ pc' = "check" /\ UNCHANGED call
               /\ chunk'.round = chunk.round /\ chunk'.fails = {}
            \/ /\ pc' = "call" /\ chunk'.round = chunk.round + 1 /\ chunk'.aborted = chunk.aborted
               /\ call'.at = "sent" /\ call'.kind = "probe" /\ call'.todo = chunk.fails
               /\ call'.pass = {} /\ call'.fails = {} /\ call'.locals = {} /\ call'.left = {}
<1>1. chunk \in ChunkRecords /\ chunk.fails \in SUBSET Targets
  BY Fields DEF ScanTypes, ChunkTypes
<1>2. CASE stop
  BY <1>2, UnconfirmedDoes DEF Retry
<1>3. CASE ~stop
  <2>1. /\ chunk'.start = chunk.start /\ chunk'.gone = chunk.gone /\ chunk'.unverified = chunk.unverified
        /\ chunk'.round = chunk.round + 1 /\ chunk'.aborted = chunk.aborted
    BY <1>1, <1>3 DEF Retry, ChunkRecords
  <2>2. pc' = "call" /\ call' = ProbeCall(chunk.fails)
    BY <1>3 DEF Retry
  <2> QED
    BY <1>1, <2>1, <2>2, Probes
<1> QED
  BY <1>2, <1>3

\* What the network checks let a first pass go on from was proven, and what they let a
\* rescan remove was noted as dead.
LEMMA VerifiedMeans ==
  ASSUME ScanTypes, NEW up4 \in BOOLEAN, NEW up6 \in BOOLEAN
  PROVE  /\ ~mem.rescan /\ ~Verified(up4, up6).unverified => chunk.fails \subseteq Proven(Verified(up4, up6).up)
         /\ chunk.fails \cap Verified(up4, up6).up \subseteq Proven(Verified(up4, up6).up)
         /\ ~mem.rescan /\ ~Verified(up4, up6).unverified => chunk.locals \subseteq Excused(Verified(up4, up6).online)
<1> DEFINE v == Verified(up4, up6)
<1>1. chunk.fails \in SUBSET Targets
  BY Fields
<1>2. ASSUME ~mem.rescan, ~v.unverified, NEW t \in chunk.fails
      PROVE  t \in v.up \/ HasFamily(chunk.hits, t \in Ipv6)
  <2>1. CASE t \in Ipv6
    <3>1. HasFamily(chunk.fails, TRUE)
      BY <2>1 DEF HasFamily
    <3> QED
      BY <1>1, <1>2, <2>1, <3>1 DEF Verified
  <2>2. CASE t \notin Ipv6
    <3>1. HasFamily(chunk.fails, FALSE)
      BY <2>2 DEF HasFamily
    <3> QED
      BY <1>1, <1>2, <2>2, <3>1 DEF Verified
  <2> QED
    BY <2>1, <2>2
<1>3. ~mem.rescan /\ ~v.unverified => v.online
  BY DEF Verified
<1> HIDE DEF v
<1> QED
  BY <1>2, <1>3 DEF Proven, Excused, v

\* A chunk that no check guards has a hit of each family that failed, or failed itself.
LEMMA UnguardedMeans ==
  ASSUME ScanTypes, ~Guarded, ~mem.rescan, ~chunk.error
  PROVE  chunk.fails \subseteq Proven({}) /\ chunk.locals \subseteq Excused(FALSE)
<1>1. CASE chunk.fails \cup chunk.locals = {}
  BY <1>1
<1>2. ASSUME ~FamilyUnproven
      PROVE  chunk.fails \subseteq Proven({})
  <2>1. ASSUME NEW t \in chunk.fails
        PROVE  HasFamily(chunk.hits, t \in Ipv6)
    <3>1. (t \in Ipv6) \in BOOLEAN /\ HasFamily(chunk.fails, t \in Ipv6)
      BY DEF HasFamily
    <3> QED
      BY <1>2, <3>1 DEF FamilyUnproven
  <2> QED
    BY <2>1 DEF Proven
<1>3. chunk.locals \subseteq Excused(FALSE)
  BY DEF Guarded, Excused
<1> QED
  BY <1>1, <1>2, <1>3 DEF Guarded

\* The check of the network only says whether the chunk is verified and what is gone.
LEMMA CheckDoes ==
  ASSUME ScanTypes, networkUp
  PROVE  /\ chunk'.start = chunk.start /\ chunk'.round = chunk.round /\ chunk'.next = chunk.next
         /\ chunk'.hits = chunk.hits /\ chunk'.error = chunk.error /\ chunk'.aborted = chunk.aborted
         /\ chunk'.unverified \in BOOLEAN /\ PassedOver \subseteq PassedOver' /\ dead \subseteq dead'
         /\ ~mem.rescan /\ ~chunk.error /\ ~chunk'.unverified => chunk.fails \cup chunk.locals \subseteq PassedOver'
         /\ \/ chunk'.gone \subseteq chunk.gone
            \/ /\ mem.rescan /\ ~chunk.error /\ ~stop
               /\ chunk'.gone \subseteq chunk.gone \cup (chunk.fails \cap dead')
<1>1. chunk \in ChunkRecords /\ chunk.unverified \in BOOLEAN
  BY Fields DEF ScanTypes, ChunkTypes
<1>2. ASSUME NEW b, NEW S, chunk' = [chunk EXCEPT !.unverified = b, !.gone = S]
      PROVE  /\ chunk'.start = chunk.start /\ chunk'.round = chunk.round /\ chunk'.next = chunk.next
             /\ chunk'.hits = chunk.hits /\ chunk'.error = chunk.error /\ chunk'.aborted = chunk.aborted
             /\ chunk'.unverified = b /\ chunk'.gone = S
  BY <1>1, <1>2 DEF ChunkRecords
<1>3. CASE Guarded /\ stop
  <2>1. chunk' = [chunk EXCEPT !.unverified = TRUE]
    BY <1>3 DEF networkUp
  <2>2. /\ chunk'.start = chunk.start /\ chunk'.round = chunk.round /\ chunk'.next = chunk.next
        /\ chunk'.hits = chunk.hits /\ chunk'.error = chunk.error /\ chunk'.aborted = chunk.aborted
        /\ chunk'.unverified = TRUE /\ chunk'.gone = chunk.gone
    BY <1>1, <2>1 DEF ChunkRecords
  <2>3. PassedOver \subseteq PassedOver' /\ dead \subseteq dead'
    BY <1>3 DEF networkUp, Noted, PassedOver
  <2> QED
    BY <2>2, <2>3
<1>4. CASE Guarded /\ ~stop
  <2>1. PICK up4 \in BOOLEAN, up6 \in BOOLEAN :
          LET v == Verified(up4, up6)
          IN  /\ chunk' = [chunk EXCEPT !.unverified = v.unverified,
                                        !.gone = IF mem.rescan /\ ~v.unverified
                                                 THEN chunk.gone \cup (chunk.fails \cap v.up) ELSE {}]
              /\ Noted(v.up, v.online)
    BY <1>1, <1>4 DEF networkUp
  <2> DEFINE v == Verified(up4, up6)
  <2>2. /\ ~mem.rescan /\ ~v.unverified => chunk.fails \subseteq Proven(v.up)
        /\ chunk.fails \cap v.up \subseteq Proven(v.up)
        /\ ~mem.rescan /\ ~v.unverified => chunk.locals \subseteq Excused(v.online)
    BY VerifiedMeans
  <2>3. v.unverified \in BOOLEAN
    BY Zenon DEF Verified
  <2> HIDE DEF v
  <2>4. /\ chunk' = [chunk EXCEPT !.unverified = v.unverified,
                                  !.gone = IF mem.rescan /\ ~v.unverified
                                           THEN chunk.gone \cup (chunk.fails \cap v.up) ELSE {}]
        /\ Noted(v.up, v.online)
    BY <2>1 DEF v
  <2>5. /\ chunk'.start = chunk.start /\ chunk'.round = chunk.round /\ chunk'.next = chunk.next
        /\ chunk'.hits = chunk.hits /\ chunk'.error = chunk.error /\ chunk'.aborted = chunk.aborted
        /\ chunk'.unverified = v.unverified
        /\ chunk'.gone = IF mem.rescan /\ ~v.unverified THEN chunk.gone \cup (chunk.fails \cap v.up) ELSE {}
    BY <1>2, <2>4
  <2>6. ~chunk.error
    BY <1>4 DEF Guarded
  <2>7. UNCHANGED unsaved
    BY DEF networkUp
  <2>8. PassedOver \subseteq PassedOver' /\ dead \subseteq dead' /\ Proven(v.up) \subseteq dead'
        /\ Excused(v.online) \subseteq PassedOver'
    BY <2>4, <2>7 DEF Noted, PassedOver
  <2>9. dead' \subseteq PassedOver'
    BY DEF PassedOver
  <2> QED
    BY <1>4, <2>2, <2>3, <2>5, <2>6, <2>8, <2>9
<1>5. CASE ~Guarded
  <2>1. UNCHANGED chunk /\ Noted({}, FALSE) /\ UNCHANGED unsaved
    BY <1>5 DEF networkUp
  <2>2. PassedOver \subseteq PassedOver' /\ dead \subseteq dead'
        /\ Proven({}) \cup Excused(FALSE) \subseteq PassedOver'
    BY <2>1 DEF Noted, PassedOver
  <2> QED
    BY <1>1, <1>5, <2>1, <2>2, UnguardedMeans
<1> QED
  BY <1>3, <1>4, <1>5

\* A call whose stage changes is still about the same targets.
SameTargets ==
  /\ call'.kind = call.kind /\ call'.todo = call.todo /\ call'.pass = call.pass
  /\ call'.fails = call.fails /\ call'.locals = call.locals /\ call'.left = call.left

\* The core takes a call up, or refuses it, and answers it.
LEMMA CoreDoes ==
  ASSUME ScanTypes
  PROVE  /\ Acquire => SameTargets /\ call'.at \in {"stopped", "running"}
         /\ Answer => SameTargets /\ call'.at = "ok"
<1>1. call \in CallRecords
  BY DEF ScanTypes, CallTypes
<1> QED
  BY <1>1 DEF Acquire, Answer, CallRecords, SameTargets

\* A call that is lost answers nothing, or in part.
LEMMA LostDoes ==
  ASSUME ScanTypes, CallLost \/ (CoreRestarts /\ call.at \in {"sent", "running"})
  PROVE  /\ call'.at = "error" /\ call'.kind = call.kind
         /\ \/ SameTargets
            \/ /\ call'.todo = {} /\ call'.pass = {} /\ call'.fails = {}
               /\ call'.locals = {} /\ call'.left = {}
<1>1. call \in CallRecords
  BY DEF ScanTypes, CallTypes
<1>2. call' = [NoCall EXCEPT !.kind = call.kind, !.at = "error"] \/ call' = [call EXCEPT !.at = "error"]
  BY DEF CallLost, CoreRestarts
<1>3. CASE call' = [NoCall EXCEPT !.kind = call.kind, !.at = "error"]
  BY <1>3 DEF NoCall
<1>4. CASE call' = [call EXCEPT !.at = "error"]
  BY <1>1, <1>4 DEF CallRecords, SameTargets
<1> QED
  BY <1>2, <1>3, <1>4

\* A target is measured: it passes, fails, or could not be tried here.
LEMMA MeasuredDoes ==
  ASSUME ScanTypes, NEW t \in Targets, Measured(t)
  PROVE  /\ call'.at = call.at /\ call'.kind = call.kind /\ call'.left = call.left
         /\ call'.todo = call.todo \ {t}
         /\ \A u \in Targets \ {t} : strikes'[u] = strikes[u]
         /\ \/ /\ call'.pass = call.pass \cup {t} /\ call'.fails = call.fails /\ call'.locals = call.locals
               /\ call.kind = "probe" /\ configPhase => strikes'[t] = strikes[t]
            \/ /\ call'.pass = call.pass /\ call'.fails = call.fails \cup {t} /\ call'.locals = call.locals
               /\ strikes[t] <= Retries => strikes'[t] = strikes[t] + 1
            \/ /\ call'.pass = call.pass /\ call'.fails = call.fails /\ call'.locals = call.locals \cup {t}
<1>1. call \in CallRecords /\ strikes \in [Targets -> 0 .. Retries + 1]
  BY DEF ScanTypes, CallTypes
<1>2. \A u \in Targets \ {t} : strikes'[u] = strikes[u]
  BY <1>1 DEF Measured, Strike, passes
<1>3. CASE /\ call' = [call EXCEPT !.todo = @ \ {t}, !.pass = @ \cup {t}]
           /\ strikes' = IF LastPhase THEN [strikes EXCEPT ![t] = 0] ELSE strikes
  <2>1. /\ call'.at = call.at /\ call'.kind = call.kind /\ call'.left = call.left
        /\ call'.todo = call.todo \ {t}
        /\ call'.pass = call.pass \cup {t} /\ call'.fails = call.fails /\ call'.locals = call.locals
    BY <1>1, <1>3 DEF CallRecords
  <2>2. call.kind = "probe" /\ configPhase => strikes'[t] = strikes[t]
    BY <1>3 DEF LastPhase
  <2> QED
    BY <1>2, <2>1, <2>2
<1>4. CASE call' = [call EXCEPT !.todo = @ \ {t}, !.fails = @ \cup {t}] /\ Strike(t)
  <2>1. /\ call'.at = call.at /\ call'.kind = call.kind /\ call'.left = call.left
        /\ call'.todo = call.todo \ {t}
        /\ call'.pass = call.pass /\ call'.fails = call.fails \cup {t} /\ call'.locals = call.locals
    BY <1>1, <1>4 DEF CallRecords
  <2>2. strikes[t] <= Retries => strikes'[t] = strikes[t] + 1
    BY <1>1, <1>4 DEF Strike
  <2> QED
    BY <1>2, <2>1, <2>2
<1>5. CASE call' = [call EXCEPT !.todo = @ \ {t}, !.locals = @ \cup {t}]
  <2>1. /\ call'.at = call.at /\ call'.kind = call.kind /\ call'.left = call.left
        /\ call'.todo = call.todo \ {t}
        /\ call'.pass = call.pass /\ call'.fails = call.fails /\ call'.locals = call.locals \cup {t}
    BY <1>1, <1>5 DEF CallRecords
  <2> QED
    BY <1>2, <2>1
<1> QED
  BY <1>3, <1>4, <1>5 DEF Measured, passes

\* Preparing and finishing a pass only deletes lists.
LEMMA Shrinks ==
  ASSUME ScanTypes, preparePass \/ DropSnapshot \/ DropRescanSnapshot \/ FinishDrop
  PROVE  /\ \A i \in 1 .. MaxRuns : lists'[i] = {} \/ lists'[i] = lists[i]
         /\ DropSnapshot => EntriesOf(mem.snap)' = {}
<1>1. ListTypes /\ mem.snap \in 0 .. MaxRuns /\ mem.rsnap \in 0 .. MaxRuns /\ MaxRuns \in Nat
  BY Fields, ScanAssumption DEF ScanTypes
<1>2. CASE preparePass
  BY <1>1, <1>2, Deletes DEF preparePass, DropSnapshot, passes
<1>3. CASE DropSnapshot
  BY <1>1, <1>3, Deletes DEF DropSnapshot, EntriesOf, passes
<1>4. CASE DropRescanSnapshot
  BY <1>1, <1>4, Deletes DEF DropRescanSnapshot, DropSnapshot, passes
<1>5. CASE FinishDrop
  BY <1>1, <1>5, Deletes DEF FinishDrop, ActiveSnapshot, DropSnapshot, passes
<1> QED
  BY <1>2, <1>3, <1>4, <1>5

\* What a step of the worker does to its copy of the row.
LEMMA MemDoes ==
  ASSUME ScanTypes
  PROVE  /\ preparePass => mem'.snap = mem.snap /\ mem'.cursor = mem.cursor
         /\ CopyList => /\ mem'.cursor = mem.cursor
                        /\ \/ mode = "FromInitial" /\ pc' = "count" /\ mem'.snap = runs
                              /\ lists' = [lists EXCEPT ![runs] = Targets]
                           \/ mode # "FromInitial" /\ mem'.snap = mem.snap
                              /\ lists' = [lists EXCEPT ![runs] = results]
                           \/ pc' = "finish" /\ mem' = mem /\ lists' = lists
         /\ countTargets => mem'.snap = mem.snap /\ mem'.cursor = mem.cursor /\ (pc' # "finish" => row' = mem')
                            /\ (row' = mem' \/ row' = row)
         /\ loadSpec => mem'.cursor = mem.cursor /\ mem'.snap \in {mem.snap, 0} /\ (pc' = "loop" => mem' = mem)
         /\ FinishDrop => mem'.cursor = mem.cursor /\ mem'.snap \in {mem.snap, 0}
         /\ finishPass => mem'.cursor = mem.cursor /\ mem'.snap = mem.snap /\ row' = mem'
<1>1. mem \in Rows
  BY DEF ScanTypes, RowTypes
<1>2. preparePass => mem'.snap = mem.snap /\ mem'.cursor = mem.cursor
  BY <1>1 DEF preparePass, Rows
<1>3. CopyList => /\ mem'.cursor = mem.cursor
                  /\ \/ mode = "FromInitial" /\ pc' = "count" /\ mem'.snap = runs
                        /\ lists' = [lists EXCEPT ![runs] = Targets]
                     \/ mode # "FromInitial" /\ mem'.snap = mem.snap
                        /\ lists' = [lists EXCEPT ![runs] = results]
                     \/ pc' = "finish" /\ mem' = mem /\ lists' = lists
  BY <1>1 DEF CopyList, Rows
<1>4. ASSUME countTargets
      PROVE  mem'.snap = mem.snap /\ mem'.cursor = mem.cursor /\ (pc' # "finish" => row' = mem')
             /\ (row' = mem' \/ row' = row)
  BY <1>1, <1>4 DEF countTargets, Rows
<1>5. loadSpec => mem'.cursor = mem.cursor /\ mem'.snap \in {mem.snap, 0} /\ (pc' = "loop" => mem' = mem)
  BY <1>1 DEF loadSpec, Rows
<1>6. FinishDrop => mem'.cursor = mem.cursor /\ mem'.snap \in {mem.snap, 0}
  BY <1>1 DEF FinishDrop, Rows
<1>7. finishPass => mem'.cursor = mem.cursor /\ mem'.snap = mem.snap /\ row' = mem'
  BY <1>1 DEF finishPass, Rows
<1> QED
  BY <1>2, <1>3, <1>4, <1>5, <1>6, <1>7

\* The cursor goes to the place the chunk reached, or back to its start.
LEMMA SaveDoes ==
  ASSUME ScanTypes, saveProgress
  PROVE  /\ row'.snap = row.snap /\ mem'.snap = mem.snap /\ mem'.rescan = mem.rescan
         /\ mem.rescan => row'.cursor = row.cursor /\ mem'.cursor = mem.cursor
         /\ ~mem.rescan => /\ mem'.cursor = IF Void THEN chunk.start ELSE chunk.next
                           /\ row'.cursor = mem'.cursor
<1>1. mem \in Rows /\ row \in Rows
  BY DEF ScanTypes, RowTypes
<1>2. CASE mem.rescan
  BY <1>1, <1>2 DEF saveProgress, Rows
<1>3. CASE ~mem.rescan
  <2> DEFINE to == IF Void THEN chunk.start ELSE chunk.next
  <2>1. mem' = [mem EXCEPT !.cursor = to] /\ row' = [row EXCEPT !.rescan = FALSE, !.cursor = to, !.total = mem.total]
    BY <1>3 DEF saveProgress, Void
  <2> HIDE DEF to
  <2>2. /\ row'.snap = row.snap /\ mem'.snap = mem.snap /\ mem'.rescan = mem.rescan
        /\ mem'.cursor = to /\ row'.cursor = to
    BY <1>1, <2>1 DEF Rows
  <2> QED
    BY <1>3, <2>2 DEF to
<1> QED
  BY <1>2, <1>3

-----------------------------------------------------------------------------
(* Each part of the invariant is kept by every step.                       *)

\* The worker holds what its label says.
LEMMA HoldsKept ==
  ASSUME ScanInv, [ScanNext]_scanVars
  PROVE  Holds'
<1> USE DEF Holds
<1>1. ScanTypes /\ Holds /\ CutByStop /\ Tally /\ Snapshots /\ Covered(row) /\ Covered(mem) /\ Reached
  BY DEF ScanInv
<1>2. /\ mem \in Rows /\ call \in CallRecords /\ chunk \in ChunkRecords /\ runs \in Nat
  BY <1>1, Fields, ScanAssumption DEF ScanTypes, RowTypes, CallTypes, ChunkTypes, CountTypes
<1>3. ASSUME NEW m \in {"FromInitial", "RescanResults", "Resume"}, Start(m)
      PROVE  Holds'
  BY <1>3, <1>1, <1>2, Blank DEF Start, scanTables, history, Working, Effective, passes
<1>4. CASE Pause
  BY <1>4, <1>1, <1>2, Blank DEF Pause, scanTables, counts, history, Working, passes
<1>5. CASE onWorkerFinished
  BY <1>5, <1>1, <1>2, Blank DEF onWorkerFinished, scanTables, counts, history, Working, passes
<1>6. CASE preparePass
  BY <1>6, <1>1, <1>2, Blank DEF preparePass, history, prepared, core, counts, Working, passes
<1>7. CASE ClearEntries
  BY <1>7, <1>1, <1>2, Blank DEF ClearEntries, prepared, core, counts, Working
<1>8. CASE DropSnapshot
  BY <1>8, <1>1, <1>2, Blank DEF DropSnapshot, prepared, core, counts, Working, passes
<1>9. CASE DropRescanSnapshot
  BY <1>9, <1>1, <1>2, Blank DEF DropRescanSnapshot, history, prepared, core, counts, Working,
                                 passes
<1>10. CASE CopyList
  BY <1>10, <1>1, <1>2, Blank DEF CopyList, history, prepared, core, counts, Working, passes
<1>11. CASE countTargets
  BY <1>11, <1>1, <1>2, Blank DEF countTargets, history, prepared, core, counts, Working, passes
<1>12. CASE loadSpec
  BY <1>12, <1>1, <1>2, Blank DEF loadSpec, scanTables, history, prepared, core, counts, Working,
                                  passes
<1>13. CASE NextChunk
  BY <1>13, <1>1, <1>2, Blank, NextChunkDoes DEF NextChunk, chunking, scanTables, counts,
     Working, ActiveCursor, passes
<1>14. CASE ProbeAnswered
  BY <1>14, <1>1, <1>2, Blank, ProbeAnsweredDoes DEF ProbeAnswered, answered, chunking,
     scanTables, counts, history, Working, passes
<1>15. CASE UrlAnswered
  BY <1>15, <1>1, <1>2, Blank, UrlAnsweredDoes DEF UrlAnswered, answered, chunking, scanTables,
     counts, history, Working, passes
<1>16. CASE CallFailed
  BY <1>16, <1>1, <1>2, Blank, CallFailedDoes DEF CallFailed, answered, chunking, scanTables,
     counts, history, Working, passes
<1>17. CASE Ran
  BY <1>17, <1>1, <1>2, Blank, RanDoes DEF Ran, kept, chunking, scanTables, counts, history,
                                           Working, passes
<1>18. CASE Retry
  BY <1>18, <1>1, <1>2, Blank, RetryDoes DEF Retry, kept, chunking, scanTables, counts, history,
                                             Working, passes
<1>19. CASE networkUp
  BY <1>19, <1>1, <1>2, Blank, CheckDoes DEF networkUp, scanTables, counts, core, Working
<1>20. CASE UpsertEntries
  BY <1>20, <1>1, <1>2, Blank DEF UpsertEntries, committed, counts, core, history, Working, passes
<1>21. CASE RemoveEntries
  BY <1>21, <1>1, <1>2, Blank DEF RemoveEntries, committed, counts, core, history, Working, passes
<1>22. CASE saveProgress
  BY <1>22, <1>1, <1>2, Blank DEF saveProgress, committed, counts, core, history, Working, passes
<1>23. CASE FinishDrop
  BY <1>23, <1>1, <1>2, Blank DEF FinishDrop, finishing, core, counts, history, Working, passes
<1>24. CASE finishPass
  BY <1>24, <1>1, <1>2, Blank DEF finishPass, finishing, core, counts, history, Working, passes
<1>25. CASE Acquire
  BY <1>25, <1>1, <1>2, Blank DEF Acquire, outside, scanTables, history, Working, CallRecords,
                                  passes
<1>26. ASSUME NEW t \in Targets, Measured(t)
      PROVE  Holds'
  BY <1>26, <1>1, <1>2, Blank DEF Measured, outside, scanTables, Working, CallRecords, passes
<1>27. CASE Answer
  BY <1>27, <1>1, <1>2, Blank DEF Answer, outside, scanTables, history, Working, CallRecords,
                                  passes
<1>28. CASE CallLost
  BY <1>28, <1>1, <1>2, Blank DEF CallLost, outside, scanTables, history, Working, CallRecords,
                                  passes
<1>29. CASE Stop
  BY <1>29, <1>1, <1>2, Blank DEF Stop, outside, scanTables, history, Working, passes
<1>30. CASE CoreRestarts
  BY <1>30, <1>1, <1>2, Blank DEF CoreRestarts, outside, scanTables, history, Working,
                                  CallRecords, passes
<1>31. CASE AppDies
  BY <1>31, <1>1, <1>2, Blank DEF AppDies, scanTables, history, Working, passes
<1>32. CASE UNCHANGED scanVars
  BY <1>32, <1>1, <1>2, Blank DEF scanVars, scanTables, core, history, Working, passes
<1> QED
  BY <1>3, <1>4, <1>5, <1>6, <1>7, <1>8, <1>9, <1>10, <1>11, <1>12, <1>13, <1>14, <1>15, <1>16, <1>17,
     <1>18, <1>19, <1>20, <1>21, <1>22, <1>23, <1>24, <1>25, <1>26, <1>27, <1>28, <1>29, <1>30,
     <1>31, <1>32 DEF ScanNext, Worker, Core

\* Nothing is cut short but by a stop.
LEMMA CutKept ==
  ASSUME ScanInv, [ScanNext]_scanVars
  PROVE  CutByStop'
<1> USE DEF CutByStop
<1>1. ScanTypes /\ Holds /\ CutByStop /\ Tally /\ Snapshots /\ Covered(row) /\ Covered(mem) /\ Reached
  BY DEF ScanInv
<1>2. /\ mem \in Rows /\ call \in CallRecords /\ chunk \in ChunkRecords /\ runs \in Nat
  BY <1>1, Fields, ScanAssumption DEF ScanTypes, RowTypes, CallTypes, ChunkTypes, CountTypes
<1>3. ASSUME NEW m \in {"FromInitial", "RescanResults", "Resume"}, Start(m)
      PROVE  CutByStop'
  BY <1>3, <1>1, <1>2, Blank DEF Start, scanTables, history, Holds, Working, passes
<1>4. CASE Pause
  BY <1>4, <1>1, <1>2 DEF Pause, scanTables, counts, history, passes
<1>5. CASE onWorkerFinished
  BY <1>5, <1>1, <1>2 DEF onWorkerFinished, scanTables, counts, history, passes
<1>6. CASE preparePass
  BY <1>6, <1>1, <1>2 DEF preparePass, history, prepared, core, counts, passes
<1>7. CASE ClearEntries
  BY <1>7, <1>1, <1>2 DEF ClearEntries, prepared, core, counts
<1>8. CASE DropSnapshot
  BY <1>8, <1>1, <1>2 DEF DropSnapshot, prepared, core, counts, passes
<1>9. CASE DropRescanSnapshot
  BY <1>9, <1>1, <1>2 DEF DropRescanSnapshot, history, prepared, core, counts, passes
<1>10. CASE CopyList
  BY <1>10, <1>1, <1>2 DEF CopyList, history, prepared, core, counts, passes
<1>11. CASE countTargets
  BY <1>11, <1>1, <1>2 DEF countTargets, history, prepared, core, counts, passes
<1>12. CASE loadSpec
  BY <1>12, <1>1, <1>2 DEF loadSpec, scanTables, history, prepared, core, counts, passes
<1>13. CASE NextChunk
  BY <1>13, <1>1, <1>2, Blank, NextChunkDoes DEF NextChunk, chunking, scanTables, counts, passes
<1>14. CASE ProbeAnswered
  BY <1>14, <1>1, <1>2, Blank, ProbeAnsweredDoes DEF ProbeAnswered, answered, chunking,
     scanTables, counts, history, passes
<1>15. CASE UrlAnswered
  BY <1>15, <1>1, <1>2, Blank, UrlAnsweredDoes DEF UrlAnswered, answered, chunking, scanTables,
     counts, history, passes
<1>16. CASE CallFailed
  BY <1>16, <1>1, <1>2, Blank, CallFailedDoes DEF CallFailed, answered, chunking, scanTables,
     counts, history, passes
<1>17. CASE Ran
  BY <1>17, <1>1, <1>2, Blank, RanDoes DEF Ran, kept, chunking, scanTables, counts, history,
                                           passes
<1>18. CASE Retry
  BY <1>18, <1>1, <1>2, Blank, RetryDoes, UnconfirmedDoes DEF Retry, kept, chunking, scanTables,
     counts, history, passes
<1>19. CASE networkUp
  BY <1>19, <1>1, <1>2, Blank, CheckDoes DEF networkUp, scanTables, counts, core
<1>20. CASE UpsertEntries
  BY <1>20, <1>1, <1>2 DEF UpsertEntries, committed, counts, core, history, passes
<1>21. CASE RemoveEntries
  BY <1>21, <1>1, <1>2 DEF RemoveEntries, committed, counts, core, history, passes
<1>22. CASE saveProgress
  BY <1>22, <1>1, <1>2, Blank DEF saveProgress, committed, counts, core, history, passes
<1>23. CASE FinishDrop
  BY <1>23, <1>1, <1>2 DEF FinishDrop, finishing, core, counts, history, passes
<1>24. CASE finishPass
  BY <1>24, <1>1, <1>2 DEF finishPass, finishing, core, counts, history, passes
<1>25. CASE Acquire
  BY <1>25, <1>1, <1>2 DEF Acquire, outside, scanTables, history, CallRecords, Holds, NoCall,
                           passes
<1>26. ASSUME NEW t \in Targets, Measured(t)
      PROVE  CutByStop'
  BY <1>26, <1>1, <1>2 DEF Measured, outside, scanTables, CallRecords, passes
<1>27. CASE Answer
  BY <1>27, <1>1, <1>2 DEF Answer, outside, scanTables, history, CallRecords, Holds, NoCall,
                           passes
<1>28. CASE CallLost
  BY <1>28, <1>1, <1>2, Blank DEF CallLost, outside, scanTables, history, CallRecords, passes
<1>29. CASE Stop
  BY <1>29, <1>1, <1>2 DEF Stop, outside, scanTables, history, passes
<1>30. CASE CoreRestarts
  BY <1>30, <1>1, <1>2, Blank DEF CoreRestarts, outside, scanTables, history, CallRecords, passes
<1>31. CASE AppDies
  BY <1>31, <1>1, <1>2, Blank DEF AppDies, scanTables, history, passes
<1>32. CASE UNCHANGED scanVars
  BY <1>32, <1>1, <1>2 DEF scanVars, scanTables, core, history, passes
<1> QED
  BY <1>3, <1>4, <1>5, <1>6, <1>7, <1>8, <1>9, <1>10, <1>11, <1>12, <1>13, <1>14, <1>15, <1>16, <1>17,
     <1>18, <1>19, <1>20, <1>21, <1>22, <1>23, <1>24, <1>25, <1>26, <1>27, <1>28, <1>29, <1>30,
     <1>31, <1>32 DEF ScanNext, Worker, Core

\* The counts of failures follow the rounds of a chunk.
LEMMA TallyKept ==
  ASSUME ScanInv, [ScanNext]_scanVars
  PROVE  Tally'
<1> USE DEF Tally
<1>1. ScanTypes /\ Holds /\ CutByStop /\ Tally /\ Snapshots /\ Covered(row) /\ Covered(mem) /\ Reached
  BY DEF ScanInv
<1>2. /\ strikes \in [Targets -> 0 .. Retries + 1] /\ Retries \in Nat /\ chunk.round \in 0 .. Retries
  BY <1>1, Fields, ScanAssumption DEF ScanTypes, CallTypes
<1>3. /\ call.todo \subseteq Targets /\ call.left \subseteq Targets /\ call.pass \subseteq Targets
      /\ call.fails \subseteq Targets /\ res.fails \subseteq Targets /\ chunk.fails \subseteq Targets
  BY <1>1, Fields
<1>4. ASSUME NEW m \in {"FromInitial", "RescanResults", "Resume"}, Start(m)
      PROVE  Tally'
  BY <1>4, <1>1 DEF Start, scanTables, history, passes
<1>5. CASE Pause
  BY <1>5, <1>1 DEF Pause, scanTables, counts, history, passes
<1>6. CASE onWorkerFinished
  BY <1>6, <1>1 DEF onWorkerFinished, scanTables, counts, history, passes
<1>7. CASE preparePass
  BY <1>7, <1>1 DEF preparePass, history, prepared, core, counts, passes
<1>8. CASE ClearEntries
  BY <1>8, <1>1, <1>2, <1>3, Blank DEF ClearEntries, prepared, core, counts, Holds, Working
<1>9. CASE DropSnapshot
  BY <1>9, <1>1 DEF DropSnapshot, prepared, core, counts, passes
<1>10. CASE DropRescanSnapshot
  BY <1>10, <1>1 DEF DropRescanSnapshot, history, prepared, core, counts, passes
<1>11. CASE CopyList
  BY <1>11, <1>1 DEF CopyList, history, prepared, core, counts, passes
<1>12. CASE countTargets
  BY <1>12, <1>1 DEF countTargets, history, prepared, core, counts, passes
<1>13. CASE loadSpec
  BY <1>13, <1>1 DEF loadSpec, scanTables, history, prepared, core, counts, passes
<1>14. CASE NextChunk
  <2>1. CASE pc' \in {"finishDrop", "finish"} /\ UNCHANGED <<res, chunk, call, strikes>>
    BY <1>1, <2>1, <1>14 DEF NextChunk, chunking, counts, Holds, passes
  <2>2. CASE pc' = "call" /\ res' = NoResult /\ strikes' = [t \in Targets |-> 0] /\ ~PassDone
    <3>1. /\ chunk'.round = 0 /\ chunk'.gone = {} /\ call'.todo \subseteq Targets
          /\ call'.pass = {} /\ call'.fails = {} /\ call'.left = {} /\ res'.fails = {}
      <4>1. call' \in CallRecords
        BY CallsKept DEF CallTypes
      <4> QED
        BY <1>1, <2>2, <4>1, <1>14, NextChunkDoes, Blank DEF CallRecords
    <3>2. \A t \in Targets : strikes'[t] = 0
      BY <2>2
    <3> QED
      BY <2>2, <3>1, <3>2
  <2> QED
    BY <1>1, <2>1, <2>2, <1>14, NextChunkDoes
<1>15. CASE ProbeAnswered
  BY <1>15, <1>1, <1>2, <1>3, Blank, ProbeAnsweredDoes DEF ProbeAnswered, answered, chunking,
     scanTables, counts, history, Holds, passes
<1>16. CASE UrlAnswered
  BY <1>16, <1>1, <1>2, <1>3, Blank, UrlAnsweredDoes DEF UrlAnswered, answered, chunking,
     scanTables, counts, history, Holds, passes
<1>17. CASE CallFailed
  BY <1>17, <1>1, <1>2, <1>3, Blank, CallFailedDoes DEF CallFailed, answered, chunking,
     scanTables, counts, history, Holds, passes
<1>18. CASE Ran
  BY <1>18, <1>1, <1>2, <1>3, Blank, RanDoes DEF Ran, kept, chunking, scanTables, counts,
     history, Holds, CutByStop, passes
<1>19. CASE Retry
  BY <1>19, <1>1, <1>2, <1>3, Blank, RetryDoes DEF Retry, kept, chunking, scanTables, counts,
     history, Holds, passes
<1>20. CASE networkUp
  BY <1>20, <1>1, <1>2, <1>3, Blank, CheckDoes DEF networkUp, scanTables, counts, core, Holds
<1>21. CASE UpsertEntries
  BY <1>21, <1>1 DEF UpsertEntries, committed, counts, core, history, passes
<1>22. CASE RemoveEntries
  BY <1>22, <1>1 DEF RemoveEntries, committed, counts, core, history, passes
<1>23. CASE saveProgress
  BY <1>23, <1>1, <1>2, <1>3, Blank DEF saveProgress, committed, counts, core, history, Holds,
                                        passes
<1>24. CASE FinishDrop
  BY <1>24, <1>1 DEF FinishDrop, finishing, core, counts, history, passes
<1>25. CASE finishPass
  BY <1>25, <1>1 DEF finishPass, finishing, core, counts, history, passes
<1>26. CASE Acquire
  BY <1>26, <1>1, <1>2, <1>3, CoreDoes DEF Acquire, outside, scanTables, history, SameTargets,
                                           Holds, passes
<1>27. ASSUME NEW t \in Targets, Measured(t)
      PROVE  Tally'
  <2>1. /\ UNCHANGED <<chunk, res, pc, configPhase, mem, stop, passes>> /\ t \in call.todo
        /\ pc = "call" /\ chunk.gone = {}
    BY <1>1, <1>27, Blank DEF Measured, outside, Holds, passes
  <2>2. strikes[t] = chunk.round /\ t \notin call.fails \cup res.fails \cup call.left \cup call.pass
    BY <1>1, <1>2, <2>1
  <2>3. /\ call'.left = call.left /\ call'.todo = call.todo \ {t} /\ call'.kind = call.kind
        /\ \A u \in Targets \ {t} : strikes'[u] = strikes[u]
    BY <1>1, <1>27, MeasuredDoes
  <2>4. call'.todo \cap (call'.left \cup call'.pass) = {}
    BY <1>1, <2>2, <2>3, <1>27, MeasuredDoes
  <2>5. \A u \in call'.todo \cup call'.left : strikes'[u] = chunk.round
    BY <1>1, <1>3, <2>2, <2>3
  <2>6. \A u \in res.fails : strikes'[u] = chunk.round + 1
    BY <1>1, <1>3, <2>2, <2>3
  <2>7. \A u \in call'.fails : strikes'[u] = chunk.round + 1
    BY <1>1, <1>2, <1>3, <2>2, <2>3, <1>27, MeasuredDoes
  <2>8. call.kind = "probe" /\ configPhase => \A u \in call'.pass : strikes'[u] = chunk.round
    BY <1>1, <1>2, <1>3, <2>2, <2>3, <1>27, MeasuredDoes
  <2> QED
    BY <2>1, <2>3, <2>4, <2>5, <2>6, <2>7, <2>8
<1>28. CASE Answer
  BY <1>28, <1>1, <1>2, <1>3, CoreDoes DEF Answer, outside, scanTables, history, SameTargets,
                                           Holds, passes
<1>29. CASE CallLost
  BY <1>29, <1>1, <1>2, <1>3, LostDoes DEF CallLost, outside, scanTables, history, SameTargets,
                                           Holds, passes
<1>30. CASE Stop
  BY <1>30, <1>1 DEF Stop, outside, scanTables, history, passes
<1>31. CASE CoreRestarts
  BY <1>31, <1>1, <1>2, <1>3, LostDoes DEF CoreRestarts, outside, scanTables, history,
     SameTargets, Holds, passes
<1>32. CASE AppDies
  BY <1>32, <1>1, <1>2, <1>3, Blank DEF AppDies, scanTables, history, Holds, passes
<1>33. CASE UNCHANGED scanVars
  BY <1>33, <1>1 DEF scanVars, scanTables, core, history, passes
<1> QED
  BY <1>4, <1>5, <1>6, <1>7, <1>8, <1>9, <1>10, <1>11, <1>12, <1>13, <1>14, <1>15, <1>16, <1>17,
     <1>18, <1>19, <1>20, <1>21, <1>22, <1>23, <1>24, <1>25, <1>26, <1>27, <1>28, <1>29, <1>30,
     <1>31, <1>32, <1>33 DEF ScanNext, Worker, Core

\* Snapshots of first passes stay whole, and the database names the one in use.
LEMMA SnapshotsKept ==
  ASSUME ScanInv, [ScanNext]_scanVars
  PROVE  Snapshots'
<1> USE DEF Snapshots
<1>1. ScanTypes /\ Holds /\ CutByStop /\ Tally /\ Snapshots /\ Covered(row) /\ Covered(mem) /\ Reached
  BY DEF ScanInv
<1>2. /\ runs \in Nat /\ row.snap \in 0 .. MaxRuns /\ mem.snap \in 0 .. MaxRuns /\ MaxRuns \in Nat
      /\ lists \in [1 .. MaxRuns -> SUBSET Targets] /\ results \subseteq Targets /\ runs <= MaxRuns
  <2>1. row.snap \in 0 .. MaxRuns /\ mem.snap \in 0 .. MaxRuns
    BY <1>1, Fields
  <2> QED
    BY <1>1, <2>1, ScanAssumption DEF ScanTypes, CountTypes, ListTypes
<1>3. ASSUME NEW m \in {"FromInitial", "RescanResults", "Resume"}, Start(m)
      PROVE  Snapshots'
  BY <1>3, <1>1, <1>2 DEF Start, scanTables, history, EntriesOf, Working, passes
<1>4. CASE Pause
  BY <1>4, <1>1, <1>2 DEF Pause, scanTables, counts, history, EntriesOf, Working, passes
<1>5. CASE onWorkerFinished
  BY <1>5, <1>1, <1>2 DEF onWorkerFinished, scanTables, counts, history, EntriesOf, Working,
                          passes
<1>6. CASE preparePass
  BY <1>6, <1>1, <1>2, Shrinks, MemDoes DEF preparePass, history, prepared, core, counts,
     EntriesOf, Working, passes
<1>7. CASE ClearEntries
  BY <1>7, <1>1, <1>2 DEF ClearEntries, prepared, core, counts, EntriesOf, Working
<1>8. CASE DropSnapshot
  BY <1>8, <1>1, <1>2, Shrinks DEF DropSnapshot, prepared, core, counts, EntriesOf, Working,
                                   passes
<1>9. CASE DropRescanSnapshot
  BY <1>9, <1>1, <1>2, Shrinks, Blank DEF DropRescanSnapshot, history, prepared, core, counts,
     EntriesOf, Working, passes
<1>10. CASE CopyList
  BY <1>10, <1>1, <1>2, MemDoes, Blank DEF CopyList, history, prepared, core, counts, EntriesOf,
     Working, Holds, passes
<1>11. CASE countTargets
  BY <1>11, <1>1, <1>2, MemDoes DEF countTargets, history, prepared, core, counts, EntriesOf,
                                    Working, passes
<1>12. CASE loadSpec
  BY <1>12, <1>1, <1>2, MemDoes DEF loadSpec, scanTables, history, prepared, core, counts,
     EntriesOf, Working, ActiveSnapshot, passes
<1>13. CASE NextChunk
  BY <1>13, <1>1, <1>2 DEF NextChunk, chunking, scanTables, counts, EntriesOf, Working, passes
<1>14. CASE ProbeAnswered
  BY <1>14, <1>1, <1>2 DEF ProbeAnswered, answered, chunking, scanTables, counts, history,
     EntriesOf, Working, passes
<1>15. CASE UrlAnswered
  BY <1>15, <1>1, <1>2 DEF UrlAnswered, answered, chunking, scanTables, counts, history,
     EntriesOf, Working, passes
<1>16. CASE CallFailed
  BY <1>16, <1>1, <1>2 DEF CallFailed, answered, chunking, scanTables, counts, history,
     EntriesOf, Working, passes
<1>17. CASE Ran
  BY <1>17, <1>1, <1>2 DEF Ran, kept, chunking, scanTables, counts, history, EntriesOf, Working,
                           passes
<1>18. CASE Retry
  BY <1>18, <1>1, <1>2 DEF Retry, kept, chunking, scanTables, counts, history, EntriesOf,
                           Working, passes
<1>19. CASE networkUp
  BY <1>19, <1>1, <1>2 DEF networkUp, scanTables, counts, core, EntriesOf, Working
<1>20. CASE UpsertEntries
  BY <1>20, <1>1, <1>2 DEF UpsertEntries, committed, counts, core, history, EntriesOf, Working,
                           passes
<1>21. CASE RemoveEntries
  BY <1>21, <1>1, <1>2 DEF RemoveEntries, committed, counts, core, history, EntriesOf, Working,
                           passes
<1>22. CASE saveProgress
  BY <1>22, <1>1, <1>2, SaveDoes DEF saveProgress, committed, counts, core, history, EntriesOf,
                                     Working, passes
<1>23. CASE FinishDrop
  BY <1>23, <1>1, <1>2, Shrinks, MemDoes DEF FinishDrop, finishing, core, counts, history,
     EntriesOf, Working, passes
<1>24. CASE finishPass
  BY <1>24, <1>1, <1>2, MemDoes DEF finishPass, finishing, core, counts, history, EntriesOf,
                                    Working, passes
<1>25. CASE Acquire
  BY <1>25, <1>1, <1>2 DEF Acquire, outside, scanTables, history, EntriesOf, Working, passes
<1>26. ASSUME NEW t \in Targets, Measured(t)
      PROVE  Snapshots'
  BY <1>26, <1>1, <1>2 DEF Measured, outside, scanTables, EntriesOf, Working, passes
<1>27. CASE Answer
  BY <1>27, <1>1, <1>2 DEF Answer, outside, scanTables, history, EntriesOf, Working, passes
<1>28. CASE CallLost
  BY <1>28, <1>1, <1>2 DEF CallLost, outside, scanTables, history, EntriesOf, Working, passes
<1>29. CASE Stop
  BY <1>29, <1>1, <1>2 DEF Stop, outside, scanTables, history, EntriesOf, Working, passes
<1>30. CASE CoreRestarts
  BY <1>30, <1>1, <1>2 DEF CoreRestarts, outside, scanTables, history, EntriesOf, Working, passes
<1>31. CASE AppDies
  BY <1>31, <1>1, <1>2, Blank DEF AppDies, scanTables, history, EntriesOf, Working, passes
<1>32. CASE UNCHANGED scanVars
  BY <1>32, <1>1, <1>2 DEF scanVars, scanTables, core, history, EntriesOf, Working, passes
<1> QED
  BY <1>3, <1>4, <1>5, <1>6, <1>7, <1>8, <1>9, <1>10, <1>11, <1>12, <1>13, <1>14, <1>15, <1>16, <1>17,
     <1>18, <1>19, <1>20, <1>21, <1>22, <1>23, <1>24, <1>25, <1>26, <1>27, <1>28, <1>29, <1>30,
     <1>31, <1>32 DEF ScanNext, Worker, Core

\* The row in the database has passed nothing by.
LEMMA RowCovered ==
  ASSUME ScanInv, [ScanNext]_scanVars
  PROVE  Covered(row)'
<1> USE DEF Covered, PassedOver, passes
<1>1. ScanTypes /\ Holds /\ CutByStop /\ Tally /\ Snapshots /\ Covered(row) /\ Covered(mem) /\ Reached
  BY DEF ScanInv
<1>2. /\ runs \in Nat /\ row.snap \in 0 .. MaxRuns /\ mem.snap \in 0 .. MaxRuns /\ MaxRuns \in Nat
      /\ lists \in [1 .. MaxRuns -> SUBSET Targets] /\ results \subseteq Targets /\ runs <= MaxRuns
  <2>1. row.snap \in 0 .. MaxRuns /\ mem.snap \in 0 .. MaxRuns
    BY <1>1, Fields
  <2> QED
    BY <1>1, <2>1, ScanAssumption DEF ScanTypes, CountTypes, ListTypes
<1>3. ASSUME NEW m \in {"FromInitial", "RescanResults", "Resume"}, Start(m)
      PROVE  Covered(row)'
  BY <1>3, <1>1, <1>2 DEF Start, scanTables, history, EntriesOf, passes
<1>4. CASE Pause
  BY <1>4, <1>1, <1>2 DEF Pause, scanTables, counts, history, EntriesOf, passes
<1>5. CASE onWorkerFinished
  BY <1>5, <1>1, <1>2 DEF onWorkerFinished, scanTables, counts, history, EntriesOf, passes
<1>6. CASE preparePass
  BY <1>6, <1>1, <1>2, Shrinks, MemDoes DEF preparePass, history, prepared, core, counts,
                                            EntriesOf, passes
<1>7. CASE ClearEntries
  BY <1>7, <1>1, <1>2 DEF ClearEntries, prepared, core, counts, EntriesOf
<1>8. CASE DropSnapshot
  BY <1>8, <1>1, <1>2, Shrinks DEF DropSnapshot, prepared, core, counts, EntriesOf, Snapshots,
                                   passes
<1>9. CASE DropRescanSnapshot
  BY <1>9, <1>1, <1>2, Shrinks, Blank DEF DropRescanSnapshot, history, prepared, core, counts,
                                          EntriesOf, passes
<1>10. CASE CopyList
  <2>1. /\ UNCHANGED <<results, wiping, passes>> /\ row.snap < runs /\ mem.snap < runs
        /\ (row' = row \/ row' = mem) /\ mem'.cursor = mem.cursor
    BY <1>1, <1>10, MemDoes DEF CopyList, history, Snapshots, passes
  <2>2. CASE mode = "FromInitial"
    <3>1. mem.cursor = 0 /\ row' = row
      BY <1>1, <2>2, <1>10, Blank DEF CopyList, Snapshots
    <3>2. \A t \in Targets : ~(t <= 0)
      BY DEF Targets
    <3>3. (lists' = lists /\ mem' = mem) \/ lists' = [lists EXCEPT ![runs] = Targets]
      BY <1>1, <2>2, <1>10, MemDoes
    <3> QED
      BY <1>1, <1>2, <2>1, <3>1, <3>2, <3>3 DEF EntriesOf
  <2>3. CASE mode # "FromInitial"
    <3>1. mem'.snap = mem.snap /\ (lists' = lists \/ lists' = [lists EXCEPT ![runs] = results])
      BY <1>1, <2>3, <1>10, MemDoes
    <3> QED
      BY <1>1, <1>2, <2>1, <3>1 DEF EntriesOf
  <2> QED
    BY <2>2, <2>3
<1>11. CASE countTargets
  BY <1>11, <1>1, <1>2, MemDoes DEF countTargets, history, prepared, core, counts, EntriesOf,
                                    passes
<1>12. CASE loadSpec
  BY <1>12, <1>1, <1>2, MemDoes DEF loadSpec, scanTables, history, prepared, core, counts,
                                    EntriesOf, passes
<1>13. CASE NextChunk
  BY <1>13, <1>1, <1>2 DEF NextChunk, chunking, scanTables, counts, EntriesOf, passes
<1>14. CASE ProbeAnswered
  BY <1>14, <1>1, <1>2 DEF ProbeAnswered, answered, chunking, scanTables, counts, history,
                           EntriesOf, passes
<1>15. CASE UrlAnswered
  BY <1>15, <1>1, <1>2 DEF UrlAnswered, answered, chunking, scanTables, counts, history,
                           EntriesOf, passes
<1>16. CASE CallFailed
  BY <1>16, <1>1, <1>2 DEF CallFailed, answered, chunking, scanTables, counts, history,
                           EntriesOf, passes
<1>17. CASE Ran
  BY <1>17, <1>1, <1>2 DEF Ran, kept, chunking, scanTables, counts, history, EntriesOf, passes
<1>18. CASE Retry
  BY <1>18, <1>1, <1>2 DEF Retry, kept, chunking, scanTables, counts, history, EntriesOf, passes
<1>19. CASE networkUp
  BY <1>19, <1>1, <1>2, CheckDoes DEF networkUp, scanTables, counts, core, EntriesOf
<1>20. CASE UpsertEntries
  BY <1>20, <1>1, <1>2 DEF UpsertEntries, committed, counts, core, history, EntriesOf, passes
<1>21. CASE RemoveEntries
  BY <1>21, <1>1, <1>2 DEF RemoveEntries, committed, counts, core, history, EntriesOf, Tally,
                           passes
<1>22. CASE saveProgress
  <2>1. CASE mem.rescan
    BY <1>1, <1>2, <2>1, <1>22, SaveDoes DEF saveProgress, committed, history, EntriesOf, passes
  <2>2. CASE ~mem.rescan
    <3>1. row.snap = mem.snap /\ chunk.start = mem.cursor
      BY <1>1, <2>2, <1>22 DEF saveProgress, Snapshots, Holds, Working, ActiveCursor
    <3>2. ~Void => Between(chunk.next) \subseteq results \cup PassedOver
      BY <1>1, <2>2, <1>22 DEF saveProgress, Reached
    <3>3. /\ row'.snap = mem.snap /\ mem'.snap = mem.snap /\ row'.cursor = mem'.cursor
          /\ mem'.cursor = IF Void THEN chunk.start ELSE chunk.next
          /\ UNCHANGED <<wiping, results, passes, lists>>
      BY <1>1, <2>2, <3>1, <1>22, SaveDoes DEF saveProgress, committed, history, passes
    <3>4. chunk.start \in Nat /\ chunk.next \in Nat /\ \A t \in Targets : t \in Nat
      BY <1>1, Fields, ScanAssumption DEF Targets
    <3>5. ASSUME NEW t \in Targets, t <= mem'.cursor, t \notin results \cup PassedOver
          PROVE  t <= mem.cursor
      BY <3>1, <3>2, <3>3, <3>4, <3>5 DEF Between
    <3> QED
      BY <1>1, <3>3, <3>5 DEF EntriesOf
  <2> QED
    BY <2>1, <2>2
<1>23. CASE FinishDrop
  BY <1>23, <1>1, <1>2, Shrinks, MemDoes DEF FinishDrop, finishing, core, counts, history,
                                             EntriesOf, passes
<1>24. CASE finishPass
  BY <1>24, <1>1, <1>2, MemDoes DEF finishPass, finishing, core, counts, history, EntriesOf,
                                    passes
<1>25. CASE Acquire
  BY <1>25, <1>1, <1>2 DEF Acquire, outside, scanTables, history, EntriesOf, passes
<1>26. ASSUME NEW t \in Targets, Measured(t)
      PROVE  Covered(row)'
  BY <1>26, <1>1, <1>2 DEF Measured, outside, scanTables, EntriesOf, passes
<1>27. CASE Answer
  BY <1>27, <1>1, <1>2 DEF Answer, outside, scanTables, history, EntriesOf, passes
<1>28. CASE CallLost
  BY <1>28, <1>1, <1>2 DEF CallLost, outside, scanTables, history, EntriesOf, passes
<1>29. CASE Stop
  BY <1>29, <1>1, <1>2 DEF Stop, outside, scanTables, history, EntriesOf, passes
<1>30. CASE CoreRestarts
  BY <1>30, <1>1, <1>2 DEF CoreRestarts, outside, scanTables, history, EntriesOf, passes
<1>31. CASE AppDies
  BY <1>31, <1>1, <1>2, Blank DEF AppDies, scanTables, history, EntriesOf, passes
<1>32. CASE UNCHANGED scanVars
  BY <1>32, <1>1, <1>2 DEF scanVars, scanTables, core, history, EntriesOf, passes
<1> QED
  BY <1>3, <1>4, <1>5, <1>6, <1>7, <1>8, <1>9, <1>10, <1>11, <1>12, <1>13, <1>14, <1>15, <1>16, <1>17,
     <1>18, <1>19, <1>20, <1>21, <1>22, <1>23, <1>24, <1>25, <1>26, <1>27, <1>28, <1>29, <1>30,
     <1>31, <1>32 DEF ScanNext, Worker, Core

\* Neither has the worker's copy.
LEMMA MemCovered ==
  ASSUME ScanInv, [ScanNext]_scanVars
  PROVE  Covered(mem)'
<1> USE DEF Covered, PassedOver, passes
<1>1. ScanTypes /\ Holds /\ CutByStop /\ Tally /\ Snapshots /\ Covered(row) /\ Covered(mem) /\ Reached
  BY DEF ScanInv
<1>2. /\ runs \in Nat /\ row.snap \in 0 .. MaxRuns /\ mem.snap \in 0 .. MaxRuns /\ MaxRuns \in Nat
      /\ lists \in [1 .. MaxRuns -> SUBSET Targets] /\ results \subseteq Targets /\ runs <= MaxRuns
  <2>1. row.snap \in 0 .. MaxRuns /\ mem.snap \in 0 .. MaxRuns
    BY <1>1, Fields
  <2> QED
    BY <1>1, <2>1, ScanAssumption DEF ScanTypes, CountTypes, ListTypes
<1>3. ASSUME NEW m \in {"FromInitial", "RescanResults", "Resume"}, Start(m)
      PROVE  Covered(mem)'
  BY <1>3, <1>1, <1>2 DEF Start, scanTables, history, EntriesOf, passes
<1>4. CASE Pause
  BY <1>4, <1>1, <1>2 DEF Pause, scanTables, counts, history, EntriesOf, passes
<1>5. CASE onWorkerFinished
  BY <1>5, <1>1, <1>2 DEF onWorkerFinished, scanTables, counts, history, EntriesOf, passes
<1>6. CASE preparePass
  BY <1>6, <1>1, <1>2, Shrinks, MemDoes DEF preparePass, history, prepared, core, counts,
                                            EntriesOf, passes
<1>7. CASE ClearEntries
  BY <1>7, <1>1, <1>2 DEF ClearEntries, prepared, core, counts, EntriesOf
<1>8. CASE DropSnapshot
  BY <1>8, <1>1, <1>2, Shrinks DEF DropSnapshot, prepared, core, counts, EntriesOf, Snapshots,
                                   passes
<1>9. CASE DropRescanSnapshot
  BY <1>9, <1>1, <1>2, Shrinks, Blank DEF DropRescanSnapshot, history, prepared, core, counts,
                                          EntriesOf, passes
<1>10. CASE CopyList
  <2>1. /\ UNCHANGED <<results, wiping, passes>> /\ row.snap < runs /\ mem.snap < runs
        /\ (row' = row \/ row' = mem) /\ mem'.cursor = mem.cursor
    BY <1>1, <1>10, MemDoes DEF CopyList, history, Snapshots, passes
  <2>2. CASE mode = "FromInitial"
    <3>1. mem.cursor = 0 /\ row' = row
      BY <1>1, <2>2, <1>10, Blank DEF CopyList, Snapshots
    <3>2. \A t \in Targets : ~(t <= 0)
      BY DEF Targets
    <3>3. (lists' = lists /\ mem' = mem) \/ lists' = [lists EXCEPT ![runs] = Targets]
      BY <1>1, <2>2, <1>10, MemDoes
    <3> QED
      BY <1>1, <1>2, <2>1, <3>1, <3>2, <3>3 DEF EntriesOf
  <2>3. CASE mode # "FromInitial"
    <3>1. mem'.snap = mem.snap /\ (lists' = lists \/ lists' = [lists EXCEPT ![runs] = results])
      BY <1>1, <2>3, <1>10, MemDoes
    <3> QED
      BY <1>1, <1>2, <2>1, <3>1 DEF EntriesOf
  <2> QED
    BY <2>2, <2>3
<1>11. CASE countTargets
  BY <1>11, <1>1, <1>2, MemDoes DEF countTargets, history, prepared, core, counts, EntriesOf,
                                    passes
<1>12. CASE loadSpec
  BY <1>12, <1>1, <1>2, MemDoes DEF loadSpec, scanTables, history, prepared, core, counts,
                                    EntriesOf, passes
<1>13. CASE NextChunk
  BY <1>13, <1>1, <1>2 DEF NextChunk, chunking, scanTables, counts, EntriesOf, passes
<1>14. CASE ProbeAnswered
  BY <1>14, <1>1, <1>2 DEF ProbeAnswered, answered, chunking, scanTables, counts, history,
                           EntriesOf, passes
<1>15. CASE UrlAnswered
  BY <1>15, <1>1, <1>2 DEF UrlAnswered, answered, chunking, scanTables, counts, history,
                           EntriesOf, passes
<1>16. CASE CallFailed
  BY <1>16, <1>1, <1>2 DEF CallFailed, answered, chunking, scanTables, counts, history,
                           EntriesOf, passes
<1>17. CASE Ran
  BY <1>17, <1>1, <1>2 DEF Ran, kept, chunking, scanTables, counts, history, EntriesOf, passes
<1>18. CASE Retry
  BY <1>18, <1>1, <1>2 DEF Retry, kept, chunking, scanTables, counts, history, EntriesOf, passes
<1>19. CASE networkUp
  BY <1>19, <1>1, <1>2, CheckDoes DEF networkUp, scanTables, counts, core, EntriesOf
<1>20. CASE UpsertEntries
  BY <1>20, <1>1, <1>2 DEF UpsertEntries, committed, counts, core, history, EntriesOf, passes
<1>21. CASE RemoveEntries
  BY <1>21, <1>1, <1>2 DEF RemoveEntries, committed, counts, core, history, EntriesOf, Tally,
                           passes
<1>22. CASE saveProgress
  <2>1. CASE mem.rescan
    BY <1>1, <1>2, <2>1, <1>22, SaveDoes DEF saveProgress, committed, history, EntriesOf, passes
  <2>2. CASE ~mem.rescan
    <3>1. row.snap = mem.snap /\ chunk.start = mem.cursor
      BY <1>1, <2>2, <1>22 DEF saveProgress, Snapshots, Holds, Working, ActiveCursor
    <3>2. ~Void => Between(chunk.next) \subseteq results \cup PassedOver
      BY <1>1, <2>2, <1>22 DEF saveProgress, Reached
    <3>3. /\ row'.snap = mem.snap /\ mem'.snap = mem.snap /\ row'.cursor = mem'.cursor
          /\ mem'.cursor = IF Void THEN chunk.start ELSE chunk.next
          /\ UNCHANGED <<wiping, results, passes, lists>>
      BY <1>1, <2>2, <3>1, <1>22, SaveDoes DEF saveProgress, committed, history, passes
    <3>4. chunk.start \in Nat /\ chunk.next \in Nat /\ \A t \in Targets : t \in Nat
      BY <1>1, Fields, ScanAssumption DEF Targets
    <3>5. ASSUME NEW t \in Targets, t <= mem'.cursor, t \notin results \cup PassedOver
          PROVE  t <= mem.cursor
      BY <3>1, <3>2, <3>3, <3>4, <3>5 DEF Between
    <3> QED
      BY <1>1, <3>3, <3>5 DEF EntriesOf
  <2> QED
    BY <2>1, <2>2
<1>23. CASE FinishDrop
  BY <1>23, <1>1, <1>2, Shrinks, MemDoes DEF FinishDrop, finishing, core, counts, history,
                                             EntriesOf, passes
<1>24. CASE finishPass
  BY <1>24, <1>1, <1>2, MemDoes DEF finishPass, finishing, core, counts, history, EntriesOf,
                                    passes
<1>25. CASE Acquire
  BY <1>25, <1>1, <1>2 DEF Acquire, outside, scanTables, history, EntriesOf, passes
<1>26. ASSUME NEW t \in Targets, Measured(t)
      PROVE  Covered(mem)'
  BY <1>26, <1>1, <1>2 DEF Measured, outside, scanTables, EntriesOf, passes
<1>27. CASE Answer
  BY <1>27, <1>1, <1>2 DEF Answer, outside, scanTables, history, EntriesOf, passes
<1>28. CASE CallLost
  BY <1>28, <1>1, <1>2 DEF CallLost, outside, scanTables, history, EntriesOf, passes
<1>29. CASE Stop
  BY <1>29, <1>1, <1>2 DEF Stop, outside, scanTables, history, EntriesOf, passes
<1>30. CASE CoreRestarts
  BY <1>30, <1>1, <1>2 DEF CoreRestarts, outside, scanTables, history, EntriesOf, passes
<1>31. CASE AppDies
  BY <1>31, <1>1, <1>2, Blank DEF AppDies, scanTables, history, EntriesOf, passes
<1>32. CASE UNCHANGED scanVars
  BY <1>32, <1>1, <1>2 DEF scanVars, scanTables, core, history, EntriesOf, passes
<1> QED
  BY <1>3, <1>4, <1>5, <1>6, <1>7, <1>8, <1>9, <1>10, <1>11, <1>12, <1>13, <1>14, <1>15, <1>16, <1>17,
     <1>18, <1>19, <1>20, <1>21, <1>22, <1>23, <1>24, <1>25, <1>26, <1>27, <1>28, <1>29, <1>30,
     <1>31, <1>32 DEF ScanNext, Worker, Core

\* A step that leaves the chunk and its call alone keeps what was reached.
LEMMA SameReach ==
  ASSUME Reached, UNCHANGED <<lists, mem, chunk, call, res, pc, configPhase, results, passes>>
  PROVE  Reached'
<1>1. UNCHANGED Slice(EntriesOf(ActiveSnapshot(mem)), chunk.start, ChunkSize)
  BY DEF Slice, Position, EntriesOf, ActiveSnapshot
<1>2. UNCHANGED <<Asked, Between(res.next), Between(chunk.next), Void>>
  BY DEF Asked, Between, Void
<1> QED
  BY <1>1, <1>2 DEF Reached, PassedOver, passes

\* Every target up to the place a chunk reached has an outcome.
LEMMA ReachedKept ==
  ASSUME ScanInv, [ScanNext]_scanVars
  PROVE  Reached'
<1> USE DEF Reached
<1>1. ScanTypes /\ Holds /\ CutByStop /\ Tally /\ Snapshots /\ Covered(row) /\ Covered(mem) /\ Reached
  BY DEF ScanInv
<1>2. N \in Nat /\ chunk.start \in 0 .. N /\ res.next \in Nat /\ configPhase \in BOOLEAN /\ mem.rescan \in BOOLEAN
  BY <1>1, Fields, ScanAssumption DEF ScanTypes, FlagTypes
<1>3. ASSUME NEW m \in {"FromInitial", "RescanResults", "Resume"}, Start(m)
      PROVE  Reached'
  BY <1>3, <1>1, <1>2 DEF Start, scanTables, history, Between, Void, Asked, Holds, passes
<1>4. CASE Pause
  BY <1>4, <1>1, <1>2, SameReach DEF Pause, scanTables, counts, history, passes
<1>5. CASE onWorkerFinished
  BY <1>5, <1>1, <1>2 DEF onWorkerFinished, scanTables, counts, history, Between, Void, Asked,
                          passes
<1>6. CASE preparePass
  BY <1>6, <1>1, <1>2, Blank DEF preparePass, history, prepared, core, counts, Between, Void,
     Asked, Holds, passes
<1>7. CASE ClearEntries
  BY <1>7, <1>1, <1>2 DEF ClearEntries, prepared, core, counts, Between, Void, Asked
<1>8. CASE DropSnapshot
  BY <1>8, <1>1, <1>2 DEF DropSnapshot, prepared, core, counts, Between, Void, Asked, passes
<1>9. CASE DropRescanSnapshot
  BY <1>9, <1>1, <1>2 DEF DropRescanSnapshot, history, prepared, core, counts, Between, Void,
                          Asked, passes
<1>10. CASE CopyList
  BY <1>10, <1>1, <1>2 DEF CopyList, history, prepared, core, counts, Between, Void, Asked, passes
<1>11. CASE countTargets
  BY <1>11, <1>1, <1>2 DEF countTargets, history, prepared, core, counts, Between, Void, Asked,
                           passes
<1>12. CASE loadSpec
  BY <1>12, <1>1, <1>2 DEF loadSpec, scanTables, history, prepared, core, counts, Between, Void,
                           Asked, passes
<1>13. CASE NextChunk
  <2>1. CASE pc' \in {"finishDrop", "finish"} /\ UNCHANGED <<res, chunk, call, strikes>>
    BY <1>1, <1>2, <2>1, <1>13
  <2>2. CASE ~PassDone /\ pc' = "call" /\ res' = NoResult
    <3>1. /\ UNCHANGED <<lists, mem>> /\ call'.kind = "probe" /\ chunk'.start = ActiveCursor(mem)
          /\ call'.todo = Slice(EntriesOf(ActiveSnapshot(mem)), ActiveCursor(mem), ChunkSize)
          /\ call'.pass = {} /\ call'.fails = {} /\ call'.locals = {}
      BY <1>1, <2>2, <1>13, NextChunkDoes DEF NextChunk, chunking, scanTables, passes
    <3>2. Asked' = call'.todo
      BY <3>1 DEF Asked
    <3>3. Slice(EntriesOf(ActiveSnapshot(mem)), chunk.start, ChunkSize)'
            = Slice(EntriesOf(ActiveSnapshot(mem)), ActiveCursor(mem), ChunkSize)
      BY <3>1 DEF Slice, EntriesOf, ActiveSnapshot, Position
    <3> QED
      BY <1>2, <2>2, <3>1, <3>2, <3>3, Blank
  <2> QED
    BY <1>1, <2>1, <2>2, <1>13, NextChunkDoes
<1>14. CASE ProbeAnswered
  <2> DEFINE S == Slice(EntriesOf(ActiveSnapshot(mem)), chunk.start, ChunkSize)
  <2>1. pc = "call" /\ call.kind = "probe" /\ call.at = "ok" /\ UNCHANGED <<chunk, mem, configPhase, lists>>
    BY <1>14 DEF ProbeAnswered, answered, chunking, counts, scanTables
  <2>2. call.todo \in SUBSET Asked /\ Asked \in SUBSET Targets
    BY <1>1, Fields DEF Asked
  <2>3. Unfinished(Asked, call.todo) \in 0 .. Cardinality(Asked) /\ Cardinality(Asked) \in Nat
    BY <2>2, UnfinishedFits, FiniteTargets, <1>2
  <2>4. EntriesOf(ActiveSnapshot(mem)) \in SUBSET Targets
    BY <1>1, Fields DEF ScanTypes, ListTypes, EntriesOf, ActiveSnapshot
  <2>5. chunk.round = 0 => Asked = S
    BY <1>1, <2>1
  <2>6. ChunkSize \in Nat
    BY ScanAssumption
  <2>7. chunk.round = 0 => res'.next <= N
    <3>1. chunk.start + Cardinality(S) <= N
      BY <1>2, <2>4, <2>6, SliceFits
    <3> HIDE DEF S
    <3>2. res'.next = chunk.start + Unfinished(Asked, call.todo)
      BY <1>1, <1>14, ProbeAnsweredDoes
    <3> QED
      BY <1>2, <2>3, <2>5, <3>1, <3>2
  <2>8. ASSUME ~mem.rescan
        PROVE  Between(res'.next) \subseteq Asked \ call.todo
    <3>1. chunk.round = 0 /\ EntriesOf(ActiveSnapshot(mem)) = Targets
      BY <1>1, <2>1, <2>8, Fields DEF Holds, Snapshots, Working, ActiveSnapshot
    <3>2. Asked = {t \in Targets : chunk.start < t /\ t <= chunk.start + ChunkSize}
      BY <1>2, <2>5, <2>6, <3>1, SliceOfAll
    <3>3. \A t \in Targets : chunk.start < t /\ t <= chunk.start + Unfinished(Asked, call.todo) =>
            t \in Asked \ call.todo
      BY <1>2, <2>2, <2>6, <3>2, UnfinishedAll
    <3>4. res'.next = chunk.start + Unfinished(Asked, call.todo)
      BY <1>1, <1>14, ProbeAnsweredDoes
    <3> QED
      BY <3>3, <3>4 DEF Between
  <2>9. Between(res.next)' = Between(res'.next)
    BY <2>1 DEF Between
  <2>10. CASE pc' = "ran"
    <3>1. /\ res'.fails = call.fails /\ res'.locals = call.locals
          /\ ~configPhase => res'.hits = call.pass
          /\ ~res'.aborted => call.todo = {} /\ (configPhase => call.pass = {})
      BY <1>1, <2>10, <1>14, ProbeAnsweredDoes
    <3>2. ~mem.rescan /\ ~(res'.aborted /\ configPhase) =>
            Between(res'.next) \subseteq res'.hits \cup res'.fails \cup res'.locals
      BY <1>2, <2>8, <3>1 DEF Asked
    <3> QED
      BY <2>1, <2>7, <2>9, <2>10, <3>2
  <2>11. CASE pc' = "call" /\ configPhase
    <3>1. /\ res'.fails = call.fails /\ res'.locals = call.locals /\ call.todo = {}
          /\ call'.kind = "url" /\ call'.todo \cup call'.left = call.pass
      BY <1>1, <2>11, <1>14, ProbeAnsweredDoes
    <3>2. ~mem.rescan => Between(res'.next) \subseteq res'.fails \cup res'.locals \cup call'.todo \cup call'.left
      BY <2>8, <3>1 DEF Asked
    <3>3. call'.todo \subseteq Asked'
      BY DEF Asked
    <3> QED
      BY <2>1, <2>7, <2>9, <2>11, <3>1, <3>2, <3>3
  <2> QED
    BY <1>1, <2>10, <2>11, <1>14, ProbeAnsweredDoes
<1>15. CASE UrlAnswered
  <2>1. pc = "call" /\ call.kind = "url" /\ call.at = "ok" /\ UNCHANGED <<chunk, mem, configPhase>>
    BY <1>15 DEF UrlAnswered, answered, chunking, counts
  <2>2. /\ res'.hits = res.hits \cup call.pass /\ res'.fails = res.fails \cup call.fails
        /\ res'.locals = res.locals /\ res'.next = res.next /\ res.hits \subseteq res'.hits
        /\ ~res'.aborted => ~res.aborted /\ call.todo = {}
    BY <1>1, <1>15, UrlAnsweredDoes
  <2>3. Between(res.next)' = Between(res.next)
    BY <2>1, <2>2 DEF Between
  <2>4. configPhase
    BY <1>1, <2>1 DEF Holds
  <2>5. call.locals = {}
    BY <1>1, <2>1 DEF Holds
  <2>6. ~mem.rescan /\ ~res'.aborted =>
          Between(res.next) \subseteq res'.hits \cup res'.fails \cup res'.locals \cup call.left
    BY <1>1, <2>1, <2>2, <2>5 DEF Asked
  <2>7. CASE pc' = "ran" /\ (~res'.aborted => call.left = {})
    BY <1>1, <2>1, <2>2, <2>3, <2>4, <2>6, <2>7
  <2>8. CASE pc' = "call" /\ call'.kind = "url" /\ call'.todo \cup call'.left = call.left
    BY <1>1, <2>1, <2>2, <2>3, <2>6, <2>8 DEF Asked
  <2> QED
    BY <1>1, <2>7, <2>8, <1>15, UrlAnsweredDoes
<1>16. CASE CallFailed
  <2>1. UNCHANGED <<chunk, mem, configPhase>> /\ pc' = "ran" /\ pc = "call"
    BY <1>1, <1>16, CallFailedDoes DEF CallFailed, answered, chunking, counts
  <2>2. CASE call.kind = "url"
    <3>1. configPhase /\ res'.next = res.next /\ (res'.error \/ res'.aborted)
      BY <1>1, <2>2, <1>16, CallFailedDoes DEF Holds
    <3> QED
      BY <1>1, <2>1, <3>1
  <2>3. CASE call.kind # "url"
    <3>1. res'.next = chunk.start
      BY <1>1, <2>3, <1>16, CallFailedDoes
    <3>2. Between(res.next)' = {}
      BY <1>2, <2>1, <3>1 DEF Between, Targets
    <3> QED
      BY <1>2, <2>1, <3>1, <3>2
  <2> QED
    BY <2>2, <2>3
<1>17. CASE Ran
  <2>1. pc = "ran" /\ UNCHANGED <<mem, configPhase>> /\ res' = NoResult /\ res'.next = 0
    BY <1>17, Blank DEF Ran, kept, chunking, counts
  <2>2. CASE mem.rescan
    BY <1>1, <1>2, <2>1, <2>2, <1>17, RanDoes
  <2>3. CASE ~mem.rescan
    <3>1. chunk.round = 0
      BY <1>1, <2>3, Fields, ScanAssumption DEF Holds
    <3>2. /\ chunk'.hits = res.hits /\ chunk'.fails = res.fails /\ chunk'.locals = res.locals
          /\ chunk'.error = res.error /\ chunk'.aborted = res.aborted /\ chunk'.next = res.next
          /\ pc' = "check" /\ chunk'.start = chunk.start
      BY <1>1, <2>3, <3>1, <1>17, RanDoes
    <3>3. Between(chunk.next)' = Between(res.next)
      BY <3>2 DEF Between
    <3> QED
      BY <1>1, <1>2, <2>1, <2>3, <3>2, <3>3 DEF Void
  <2> QED
    BY <2>2, <2>3
<1>18. CASE Retry
  <2>1. pc = "delay" /\ pc' \in {"check", "call"} /\ UNCHANGED <<mem, res>> /\ mem.rescan /\ res.next = 0
    BY <1>1, <1>18, RetryDoes, Blank DEF Retry, kept, chunking, Holds
  <2>2. pc' = "call" => call'.kind = "probe" /\ chunk'.round = chunk.round + 1 /\ chunk.round \in Nat
    BY <1>1, <2>1, <1>18, RetryDoes, Fields, ScanAssumption
  <2> QED
    BY <1>2, <2>1, <2>2
<1>19. CASE networkUp
  <2>1. pc = "check" /\ pc' = "upsert" /\ UNCHANGED <<mem, configPhase, res, call>>
    BY <1>19 DEF networkUp, counts, core
  <2>2. /\ chunk'.start = chunk.start /\ chunk'.round = chunk.round /\ chunk'.next = chunk.next
        /\ chunk'.hits = chunk.hits /\ chunk'.error = chunk.error /\ chunk'.aborted = chunk.aborted
        /\ ~mem.rescan /\ ~chunk.error /\ ~chunk'.unverified => chunk.fails \cup chunk.locals \subseteq PassedOver'
    BY <1>1, <1>19, CheckDoes
  <2>3. chunk.unverified = FALSE
    BY <1>1, <2>1, Fields DEF Holds
  <2>4. Between(chunk.next)' = Between(chunk.next)
    BY <2>2 DEF Between
  <2> QED
    BY <1>1, <2>1, <2>2, <2>3, <2>4 DEF Void
<1>20. CASE UpsertEntries
  BY <1>20, <1>1, <1>2 DEF UpsertEntries, committed, counts, core, PassedOver, Between, Void
<1>21. CASE RemoveEntries
  BY <1>21, <1>1, <1>2 DEF RemoveEntries, committed, counts, core, PassedOver, Between, Void, Tally
<1>22. CASE saveProgress
  BY <1>22, <1>1, <1>2, Blank DEF saveProgress, committed, counts, core, history, Holds, passes
<1>23. CASE FinishDrop
  BY <1>23, <1>1, <1>2 DEF FinishDrop, finishing, core, counts, history, Between, Void, Asked,
                           passes
<1>24. CASE finishPass
  BY <1>24, <1>1, <1>2 DEF finishPass, finishing, core, counts, history, Between, Void, Asked,
                           passes
<1>25. CASE Acquire
  <2>1. UNCHANGED <<lists, mem, chunk, res, pc, configPhase>> /\ call.at = "sent" /\ SameTargets
    BY <1>1, <1>25, CoreDoes DEF Acquire, outside, scanTables
  <2>2. UNCHANGED Slice(EntriesOf(ActiveSnapshot(mem)), chunk.start, ChunkSize)
    BY <2>1 DEF Slice, Position, EntriesOf, ActiveSnapshot
  <2>3. UNCHANGED <<Asked, Between(res.next)>>
    BY <2>1 DEF SameTargets, Asked, Between
  <2>4. pc = "call"
    BY <1>1, <2>1, Blank DEF Holds
  <2> QED
    BY <1>1, <2>1, <2>2, <2>3, <2>4 DEF SameTargets
<1>26. ASSUME NEW t \in Targets, Measured(t)
      PROVE  Reached'
  <2>1. /\ UNCHANGED <<lists, mem, chunk, res, pc, configPhase>> /\ call.at = "running"
        /\ t \in call.todo /\ call'.at = call.at /\ call'.kind = call.kind /\ call'.left = call.left
    BY <1>1, <1>26, MeasuredDoes DEF Measured, outside, scanTables, passes
  <2>2. UNCHANGED Slice(EntriesOf(ActiveSnapshot(mem)), chunk.start, ChunkSize)
    BY <2>1 DEF Slice, Position, EntriesOf, ActiveSnapshot
  <2>3. UNCHANGED Asked
    BY <1>1, <2>1, <1>26, MeasuredDoes DEF Asked
  <2>4. UNCHANGED Between(res.next)
    BY <2>1 DEF Between
  <2>5. pc = "call"
    BY <1>1, <2>1, Blank DEF Holds
  <2> QED
    BY <1>1, <2>1, <2>2, <2>3, <2>4, <2>5
<1>27. CASE Answer
  <2>1. UNCHANGED <<lists, mem, chunk, res, pc, configPhase>> /\ call.at = "running" /\ SameTargets
    BY <1>1, <1>27, CoreDoes DEF Answer, outside, scanTables
  <2>2. UNCHANGED Slice(EntriesOf(ActiveSnapshot(mem)), chunk.start, ChunkSize)
    BY <2>1 DEF Slice, Position, EntriesOf, ActiveSnapshot
  <2>3. UNCHANGED <<Asked, Between(res.next)>>
    BY <2>1 DEF SameTargets, Asked, Between
  <2>4. pc = "call"
    BY <1>1, <2>1, Blank DEF Holds
  <2> QED
    BY <1>1, <2>1, <2>2, <2>3, <2>4 DEF SameTargets
<1>28. CASE CallLost
  <2>1. UNCHANGED <<chunk, res, pc>> /\ call.at \in {"sent", "running"} /\ call'.at = "error"
    BY <1>1, <1>28, LostDoes DEF CallLost, outside
  <2>2. pc = "call"
    BY <1>1, <2>1, Blank DEF Holds
  <2> QED
    BY <1>1, <2>1, <2>2
<1>29. CASE Stop
  BY <1>29, <1>1, <1>2, SameReach DEF Stop, outside, scanTables, history, passes
<1>30. CASE CoreRestarts
  <2>1. UNCHANGED <<lists, mem, chunk, res, pc, configPhase, results, passes>>
    BY <1>30 DEF CoreRestarts, outside, scanTables, history, passes
  <2>2. CASE call.at \in {"sent", "running"}
    <3>1. pc = "call" /\ call'.at = "error"
      BY <1>1, <2>2, <1>30, LostDoes, Blank DEF Holds
    <3> QED
      BY <1>1, <2>1, <3>1
  <2>3. CASE call.at \notin {"sent", "running"}
    <3>1. call' = call
      BY <2>3, <1>30 DEF CoreRestarts
    <3> QED
      BY <1>1, <2>1, <3>1, SameReach
  <2> QED
    BY <2>2, <2>3
<1>31. CASE AppDies
  BY <1>31, <1>1, <1>2, Blank DEF AppDies, scanTables, history, Holds, passes
<1>32. CASE UNCHANGED scanVars
  BY <1>32, <1>1, <1>2, SameReach DEF scanVars, scanTables, core, history, passes
<1> QED
  BY <1>3, <1>4, <1>5, <1>6, <1>7, <1>8, <1>9, <1>10, <1>11, <1>12, <1>13, <1>14, <1>15, <1>16, <1>17,
     <1>18, <1>19, <1>20, <1>21, <1>22, <1>23, <1>24, <1>25, <1>26, <1>27, <1>28, <1>29, <1>30,
     <1>31, <1>32 DEF ScanNext, Worker, Core

-----------------------------------------------------------------------------
(* The theorems.                                                           *)

\* A new scan, and one whose first pass was completed, satisfy the invariant.
LEMMA ScanStarts ==
  ASSUME ScanInit
  PROVE  ScanInv
<1>1. N \in Nat /\ MaxRuns \in Nat /\ MaxScanFaults \in Nat /\ Retries \in Nat
  BY ScanAssumption
<1>2. ASSUME row = [NewRow EXCEPT !.cursor = N, !.total = N]
      PROVE  row \in Rows /\ row.snap = 0
  <2>1. 0 \in 0 .. N /\ N \in 0 .. N /\ 0 \in 0 .. MaxRuns /\ FALSE \in BOOLEAN
    BY <1>1
  <2>2. row = [rescan |-> FALSE, snap |-> 0, cursor |-> N, total |-> N, rsnap |-> 0, rcursor |-> 0, rtotal |-> 0]
    BY <1>2 DEF NewRow
  <2> QED
    BY <2>1, <2>2 DEF Rows
<1>3. row \in Rows /\ row.snap = 0 /\ mem = NewRow /\ results \subseteq Targets /\ dead \subseteq Targets
      /\ stranded = {} /\ unsaved = {}
  BY <1>2, Blank DEF ScanInit
<1>4. ScanTypes
  <2>1. lists \in [1 .. MaxRuns -> SUBSET Targets] /\ strikes \in [Targets -> 0 .. Retries + 1]
    BY <1>1 DEF ScanInit
  <2>2. CountTypes
    BY <1>1 DEF ScanInit, CountTypes
  <2>3. FlagTypes
    BY Zenon DEF ScanInit, FlagTypes
  <2> QED
    BY <1>3, <2>1, <2>2, <2>3, Blank DEF ScanInit, ScanTypes, RowTypes, ListTypes, CallTypes,
                                         ChunkTypes
<1>5. Holds /\ CutByStop /\ Tally
  BY <1>1, Blank DEF ScanInit, Holds, CutByStop, Tally, Working
<1>6. Snapshots /\ Covered(row) /\ Covered(mem)
  BY <1>3, Blank DEF ScanInit, Snapshots, Covered, EntriesOf, Working
<1>7. Reached
  BY <1>1, Blank DEF ScanInit, Reached
<1> QED
  BY <1>4, <1>5, <1>6, <1>7 DEF ScanInv

\* Every step keeps the invariant.
LEMMA ScanSteps ==
  ASSUME ScanInv, [ScanNext]_scanVars
  PROVE  ScanInv'
<1>1. ScanTypes'
  BY FlagsKept, CountsKept, RowsKept, ListsKept, CallsKept, ChunksKept DEF ScanTypes
<1> QED
  BY <1>1, HoldsKept, CutKept, TallyKept, SnapshotsKept, RowCovered, MemCovered,
  ReachedKept DEF ScanInv

\* The invariant holds of every run, of whatever size.
THEOREM ScanInvariant ==
  ScanSpec => []ScanInv
<1>1. ScanInit => ScanInv
  BY ScanStarts
<1>2. ScanInv /\ [ScanNext]_scanVars => ScanInv'
  BY ScanSteps
<1> QED
  BY <1>1, <1>2, PTL DEF ScanSpec

\* The worker's variables keep their types.
THEOREM ScanTypeCorrect ==
  ScanSpec => []ScanTypeOK
<1>1. ScanInv => ScanTypeOK
  <2> SUFFICES ASSUME ScanInv PROVE ScanTypeOK
    OBVIOUS
  <2>1. FlagTypes /\ CountTypes /\ RowTypes /\ ListTypes /\ CallTypes /\ ChunkTypes
    BY DEF ScanInv, ScanTypes
  <2>2. call.at \in {"none", "sent", "running", "ok", "error", "stopped"} /\ call.kind \in {"none", "probe", "url"}
    BY <2>1 DEF CallTypes, CallRecords
  <2>3. {res.hits, res.fails, res.locals, chunk.hits, chunk.fails, chunk.locals, chunk.gone} \subseteq SUBSET Targets
    BY Fields DEF ScanInv
  <2> QED
    BY <2>1, <2>2, <2>3 DEF ScanTypeOK, FlagTypes, CountTypes, RowTypes, ListTypes, CallTypes
<1> QED
  BY <1>1, ScanInvariant, PTL

\* However runs are paused, cut short, retried, resumed or killed, the cursor of a scan
\* that can be resumed passes no target by.
THEOREM NonePassedBy ==
  ScanSpec => []NothingSkipped
<1>1. ScanInv => NothingSkipped
  BY DEF ScanInv, Covered, NothingSkipped, PassedOver
<1> QED
  BY <1>1, ScanInvariant, PTL

\* A rescan removes only what failed every one of its tries in the chunk.
THEOREM RemovalsConfirmed ==
  ScanSpec => RemovalConfirmed
<1> DEFINE Confirmed == \A t \in results \ results' : pc = "clear" \/ strikes[t] = Retries + 1
<1>1. ASSUME ScanInv, ScanNext
      PROVE  Confirmed
  <2>1. UNCHANGED results \/ ClearEntries \/ UpsertEntries \/ RemoveEntries
    BY <1>1 DEF ScanNext, Worker, Core, Start, Pause, onWorkerFinished, preparePass,
       DropSnapshot, DropRescanSnapshot, CopyList, countTargets, loadSpec, NextChunk,
       ProbeAnswered,
       UrlAnswered, CallFailed, Ran, Retry, networkUp, saveProgress, FinishDrop, finishPass,
       Acquire, Measured, Answer, CallLost, Stop, CoreRestarts, AppDies, scanTables, chunking,
       answered, kept, committed, finishing, outside, passes
  <2>2. \A t \in chunk.gone : strikes[t] = Retries + 1
    BY <1>1 DEF ScanInv, Tally
  <2>3. CASE UNCHANGED results
    BY <2>3
  <2>4. CASE ClearEntries
    BY <2>4 DEF ClearEntries
  <2>5. CASE UpsertEntries
    BY <2>5 DEF UpsertEntries
  <2>6. CASE RemoveEntries
    BY <2>2, <2>6 DEF RemoveEntries
  <2> QED
    BY <2>1, <2>3, <2>4, <2>5, <2>6
<1>2. ScanInv /\ [ScanNext]_scanVars => [Confirmed]_scanVars
  BY <1>1
<1> QED
  BY <1>2, ScanInvariant, PTL DEF ScanSpec, RemovalConfirmed

=============================================================================
