------------------------------ MODULE IpLists -------------------------------
(***************************************************************************)
(* IpListsRepo: the entries of one IP list in the database, written and    *)
(* read by several threads.                                                *)
(*                                                                         *)
(* A bulk write stages its rows under a generation nobody reads, chunk by  *)
(* chunk, and flips to it with the last one; purges delete the rows of     *)
(* other generations chunk by chunk. Each action is one transaction under  *)
(* WriteMutex, and a chunk is one row. A transaction may fail, the         *)
(* application may die between two of them, and a backup may be restored   *)
(* over the table. Headers, latencies and paging limits are left out, and  *)
(* so are AddIpList and CopyAsUserList: they stage in the same way into a  *)
(* list no other thread knows yet.                                         *)
(***************************************************************************)
EXTENDS Naturals, FiniteSets

CONSTANTS
  Threads,       \* threads that write
  NoThread,      \* nobody holds the claim
  Values,        \* what bulk writes, upserts, removals and backups hold
  NoList,        \* the list does not exist
  Parts,         \* rows of a value
  AnyGeneration, \* a restored row may have any generation, or only one above those in use
  MaxOps,        \* bound: writes started
  MaxFaults      \* bound: failed transactions, deaths and restores

ASSUME IpListsAssumption ==
  /\ Parts \in Nat \ {0} /\ MaxOps \in Nat /\ MaxFaults \in Nat /\ AnyGeneration \in BOOLEAN
  /\ NoThread \notin Threads /\ Values # {}
  /\ \A S \in SUBSET (Values \X (1 .. Parts)) : S # NoList

VARIABLES
  exists,    \* the header is there
  detached,  \* DetachIpList hid it
  gen,       \* its entries_generation
  rows,      \* the entries of each generation, with their entry_order
  op,        \* the write each thread is in
  claim,     \* the thread that holds the ListClaim
  read,      \* a call of GetEntries (changed: what single writes touched meanwhile)
  ops, faults,
  overtaken  \* history: threads whose generation is from before a restore

vars == <<exists, detached, gen, rows, op, claim, read, ops, faults, overtaken>>
database == <<exists, detached, gen, rows>>

Whole(v) == {v} \X (1 .. Parts)
Entries == Values \X (1 .. Parts)
MaxGen == 2 * MaxOps + 2
Gens == 0 .. MaxGen
MaxOrders == Parts * (MaxOps + 1)
Orders == 0 .. MaxOrders
NoGen == MaxGen + 1
AnyValue == CHOOSE v \in Values : TRUE
NoOp == [kind |-> "none", at |-> "idle", value |-> AnyValue, cur |-> NoGen,
         victim |-> NoGen, part |-> 0]
NoRead == [at |-> "idle", gen |-> NoGen, after |-> 0, got |-> {}, changed |-> {}]

Row(order, entry) == [order |-> order, entry |-> entry]
Fresh(v) == {Row(p, <<v, p>>) : p \in 1 .. Parts}
\* INSERT OR IGNORE: a row whose order or entry is taken is not inserted.
Insert(R, r) == IF \E s \in R : s.order = r.order \/ s.entry = r.entry THEN R ELSE R \cup {r}
Shown(R) == {r.entry : r \in R}
visible == IF exists THEN Shown(rows[gen]) ELSE NoList

Kinds == {"replace", "upsert", "remove", "clear", "delete", "discard"}
Stages == {"idle", "claim", "purge", "stage", "sweep", "undo", "header", "rows"}
Ops == [kind : Kinds \cup {"none"}, at : Stages, value : Values, cur : Gens \cup {NoGen},
        victim : Gens \cup {NoGen}, part : 0 .. Parts]
Reads == [at : {"idle", "pages", "hold"}, gen : Gens \cup {NoGen}, after : Orders,
          got : SUBSET Entries, changed : SUBSET Entries]

TypeOK ==
  /\ exists \in BOOLEAN /\ detached \in BOOLEAN /\ gen \in Gens
  /\ rows \in [Gens -> SUBSET [order : Orders, entry : Entries]]
  /\ op \in [Threads -> Ops] /\ claim \in Threads \cup {NoThread} /\ read \in Reads
  /\ ops \in 0 .. MaxOps /\ faults \in 0 .. MaxFaults /\ overtaken \subseteq Threads

Init ==
  /\ exists = TRUE /\ detached = FALSE /\ gen = 0
  /\ \E v \in Values : rows = [g \in Gens |-> IF g = 0 THEN Fresh(v) ELSE {}]
  /\ op = [t \in Threads |-> NoOp] /\ claim = NoThread /\ read = NoRead
  /\ ops = 0 /\ faults = 0 /\ overtaken = {}

-----------------------------------------------------------------------------
(* Writes of several transactions.                                         *)

MaxOrder(R) == IF R = {} THEN 0 ELSE CHOOSE n \in Orders : (\E r \in R : r.order = n) /\ \A r \in R : r.order <= n
Lowest(R) == CHOOSE r \in R : \A s \in R : r.order <= s.order

At(t, at) == op[t].at = at
Set(t, o) == op' = [op EXCEPT ![t] = o]
\* The call returns, and its claim goes with it.
Done(t) ==
  /\ Set(t, NoOp)
  /\ claim' = IF claim = t THEN NoThread ELSE claim
  /\ overtaken' = overtaken \ {t}
Go(t, o) == Set(t, o) /\ UNCHANGED <<claim, overtaken>>

Begin(t, kind, v) ==
  /\ At(t, "idle") /\ ops < MaxOps /\ ops' = ops + 1
  /\ Set(t, [NoOp EXCEPT !.kind = kind, !.value = v,
                         !.at = IF kind \in {"upsert", "remove"} THEN "rows" ELSE "claim"])
  /\ detached' = (detached \/ (kind = "discard" /\ exists))
  /\ UNCHANGED <<exists, gen, rows, claim, read, faults, overtaken>>

Bumped(used) == 1 + CHOOSE n \in used : \A m \in used : m <= n
\* Mutated form of BumpGeneration: the rows of an interrupted write are not looked at.
BumpGeneration_Live == gen + 1
BumpGeneration == Bumped({gen} \cup {g \in Gens : rows[g] # {}})

\* The ListClaim, and the transaction that follows it (within the bound on generations).
Claim(t) ==
  /\ At(t, "claim") /\ claim = NoThread
  /\ \/ /\ ~exists \/ (op[t].kind = "discard" /\ ~detached)
        /\ Done(t) /\ UNCHANGED gen
     \/ /\ exists /\ op[t].kind = "replace" /\ BumpGeneration \in Gens
        /\ claim' = t /\ Set(t, [op[t] EXCEPT !.at = "purge", !.cur = gen])
        /\ UNCHANGED <<gen, overtaken>>
     \/ /\ exists /\ op[t].kind \in {"clear", "delete", "discard"}
        /\ (op[t].kind = "discard" => detached) /\ BumpGeneration \in Gens
        /\ claim' = t /\ gen' = BumpGeneration
        /\ Set(t, [op[t] EXCEPT !.at = "purge", !.cur = gen'])
        /\ UNCHANGED overtaken
  /\ UNCHANGED <<exists, detached, rows, read, ops, faults>>

\* What follows a purge that succeeded.
Purged(t) ==
  CASE At(t, "purge") /\ op[t].kind = "replace" -> Go(t, [op[t] EXCEPT !.at = "stage", !.victim = NoGen])
    [] At(t, "purge") /\ op[t].kind \in {"delete", "discard"} -> Go(t, [op[t] EXCEPT !.at = "header", !.victim = NoGen])
    [] OTHER -> Done(t)

\* ipListsRepoPurgeExcept looks for another generation that has rows.
PurgeExcept(t) ==
  /\ At(t, "purge") /\ op[t].victim = NoGen
  /\ LET stale == {g \in Gens \ {op[t].cur} : rows[g] # {}}
     IN \/ stale = {} /\ Purged(t)
        \/ \E g \in stale : Go(t, [op[t] EXCEPT !.victim = g])
  /\ UNCHANGED <<database, read, ops, faults>>

\* Mutated form of PurgeGeneration: a generation made live again is purged too.
PurgeGeneration_Blind(t) ==
  /\ op[t].at \in {"purge", "sweep", "undo"} /\ op[t].victim # NoGen
  /\ LET g == op[t].victim
     IN \/ /\ rows[g] # {}
           /\ rows' = [rows EXCEPT ![g] = @ \ {Lowest(@)}]
           /\ UNCHANGED <<op, claim, overtaken>>
        \/ /\ rows[g] = {} /\ UNCHANGED rows
           /\ IF At(t, "purge") THEN Go(t, [op[t] EXCEPT !.victim = NoGen]) ELSE Done(t)
  /\ UNCHANGED <<exists, detached, gen, read, ops, faults>>
\* A chunk of ipListsRepoPurgeGeneration.
PurgeGeneration(t) ==
  /\ op[t].at \in {"purge", "sweep", "undo"} /\ op[t].victim # NoGen
  /\ LET g == op[t].victim
         live == exists /\ gen = g
     IN \/ live /\ Done(t) /\ UNCHANGED rows
        \/ /\ ~live /\ rows[g] # {}
           /\ rows' = [rows EXCEPT ![g] = @ \ {Lowest(@)}]
           /\ UNCHANGED <<op, claim, overtaken>>
        \/ /\ ~live /\ rows[g] = {} /\ UNCHANGED rows
           /\ IF At(t, "purge") THEN Go(t, [op[t] EXCEPT !.victim = NoGen]) ELSE Done(t)
  /\ UNCHANGED <<exists, detached, gen, read, ops, faults>>

\* A chunk of ipListsRepoStage; the last one flips to the new generation.
Stage(t) ==
  /\ At(t, "stage")
  /\ LET o == op[t]
         target == o.cur + 1
         part == o.part + 1
     IN \/ /\ ~exists \/ gen # o.cur
           /\ Go(t, [o EXCEPT !.at = "undo", !.victim = target])
           /\ UNCHANGED <<rows, gen>>
        \/ /\ exists /\ gen = o.cur
           /\ rows' = [rows EXCEPT ![target] = Insert(@, Row(part, <<o.value, part>>))]
           /\ IF part < Parts
              THEN Go(t, [o EXCEPT !.part = part]) /\ UNCHANGED gen
              ELSE Go(t, [o EXCEPT !.at = "sweep", !.victim = o.cur]) /\ gen' = target
  /\ UNCHANGED <<exists, detached, read, ops, faults>>

\* The last step of ipListsRepoDiscard; what rows are left go with the header.
DeleteHeader(t) ==
  /\ At(t, "header")
  /\ \/ /\ exists /\ gen = op[t].cur
        /\ exists' = FALSE /\ rows' = [g \in Gens |-> {}]
     \/ /\ ~exists \/ gen # op[t].cur
        /\ UNCHANGED <<exists, rows>>
  /\ Done(t)
  /\ UNCHANGED <<detached, gen, read, ops, faults>>

\* A chunk of UpsertEntries or RemoveEntries, in the generation the first one found.
Change(t) ==
  /\ At(t, "rows")
  /\ LET o == op[t]
         part == o.part + 1
         entry == <<o.value, part>>
     IN \/ /\ ~exists \/ (o.cur # NoGen /\ gen # o.cur)
           /\ Done(t) /\ UNCHANGED <<rows, read>>
        \/ /\ exists /\ (o.cur = NoGen \/ gen = o.cur)
           /\ \/ /\ o.kind = "upsert" /\ MaxOrder(rows[gen]) < MaxOrders
                 /\ rows' = [rows EXCEPT ![gen] = Insert(@, Row(MaxOrder(@) + 1, entry))]
              \/ /\ o.kind = "remove"
                 /\ rows' = [rows EXCEPT ![gen] = {r \in @ : r.entry # entry}]
           /\ read' = IF read.at = "idle" THEN read ELSE [read EXCEPT !.changed = @ \cup {entry}]
           /\ IF part < Parts THEN Go(t, [o EXCEPT !.cur = gen, !.part = part]) ELSE Done(t)
  /\ UNCHANGED <<exists, detached, gen, ops, faults>>

-----------------------------------------------------------------------------
(* GetEntries.                                                             *)

reading == <<database, op, claim, ops, faults, overtaken>>

ReadBegins ==
  /\ read.at = "idle" /\ exists
  /\ read' = [NoRead EXCEPT !.at = "pages", !.gen = gen]
  /\ UNCHANGED reading

\* Mutated form of Pages: the generation is only read once.
Pages_Unchecked == TRUE
\* ipListsRepoReadGeneration checks the generation before every page.
Pages == exists /\ gen = read.gen

Unread == {r \in rows[read.gen] : r.order > read.after}

ReadPage ==
  /\ read.at = "pages"
  /\ \/ /\ ~Pages
        /\ read' = [NoRead EXCEPT !.at = "hold"]
     \/ /\ Pages /\ Unread # {}
        /\ read' = [read EXCEPT !.after = Lowest(Unread).order, !.got = @ \cup {Lowest(Unread).entry}]
  /\ UNCHANGED reading

\* The short page that ends the read.
ReadReturns ==
  /\ read.at = "pages" /\ Pages /\ Unread = {}
  /\ read' = NoRead
  /\ UNCHANGED reading

\* The second attempt, all of it under WriteMutex.
ReadHeld ==
  /\ read.at = "hold"
  /\ read' = NoRead
  /\ UNCHANGED reading

-----------------------------------------------------------------------------
(* Faults.                                                                 *)

Fault == faults < MaxFaults /\ faults' = faults + 1

\* A transaction fails: the call undoes its staging, or gives up.
Fail(t) ==
  /\ Fault /\ ~At(t, "idle")
  /\ IF At(t, "stage") THEN Go(t, [op[t] EXCEPT !.at = "undo", !.victim = op[t].cur + 1])
     ELSE Done(t)
  /\ UNCHANGED <<database, read, ops>>

\* The application dies; when it starts again it purges what is left over, if it can.
Crash ==
  /\ Fault
  /\ op' = [t \in Threads |-> NoOp] /\ claim' = NoThread /\ read' = NoRead /\ overtaken' = {}
  /\ \/ UNCHANGED rows
     \/ rows' = [g \in Gens |-> IF exists /\ g = gen THEN rows[g] ELSE {}]
  /\ UNCHANGED <<exists, detached, gen, ops>>

Taken(t) == op[t].cur # NoGen
\* Generations that a write or a read in flight compares the live one with.
InUse == {op[t].cur : t \in {u \in Threads : Taken(u) /\ op[u].at \in {"purge", "stage", "header", "rows"}}}
         \cup (IF read.at = "pages" THEN {read.gen} ELSE {})

\* restoreSelective replaces the tables by those of a backup, in one transaction.
Restore ==
  /\ Fault
  /\ \E g \in {h \in Gens : h <= 2}, v \in Values :
       /\ AnyGeneration \/ \A h \in InUse : g > h
       /\ gen' = g /\ rows' = [h \in Gens |-> IF h = g THEN Fresh(v) ELSE {}]
  /\ exists' = TRUE /\ detached' = FALSE
  /\ overtaken' = {t \in Threads : Taken(t)}
  /\ UNCHANGED <<op, claim, read, ops>>

Write(t) ==
  Claim(t) \/ PurgeExcept(t) \/ PurgeGeneration(t) \/ Stage(t) \/ DeleteHeader(t) \/ Change(t)

Next ==
  \/ \E t \in Threads :
       \/ \E v \in Values, kind \in Kinds : Begin(t, kind, v)
       \/ Write(t) \/ Fail(t)
  \/ ReadBegins \/ ReadPage \/ ReadReturns \/ ReadHeld
  \/ Crash \/ Restore

Spec == Init /\ [][Next]_vars

\* Each restore brings a generation above those that writes and reads in flight compare
\* with. Nothing in the code sees to it: the number is copied from the backup. Spec with
\* AnyGeneration = FALSE has only such restores.
RestoresFresh == Restore => \A h \in InUse : gen' > h
FreshRestores == [][RestoresFresh]_vars

-----------------------------------------------------------------------------
(* Properties.                                                             *)

Shows == INSTANCE IpListValue WITH list <- visible

\* What readers see implements IpListValue: whatever fails, dies or interleaves, a bulk
\* write shows as a whole or not at all, and rows of an interrupted one never show.
ShownWhole == Shows!Spec

\* A read that runs page by page beside writers returns the entries that are there when it
\* ends, up to those an upsert or a removal touched meanwhile: never a mix of two bulk
\* writes, and never a list that lost its rows to a purge.
ReadsWhole ==
  [][ReadReturns => (visible \ read.got) \cup (read.got \ visible) \subseteq read.changed]_vars

\* A write that took its generation before a backup was restored leaves the restored
\* list alone: it neither adds, removes nor deletes.
RestoreWins ==
  [][\A t \in overtaken : Write(t) => visible' = visible]_vars
=============================================================================
