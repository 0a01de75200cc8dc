----------------------------- MODULE ScanWorker -----------------------------
(***************************************************************************)
(* A scan: ScanManager starts and pauses a ScanWorker, which drives the    *)
(* probes of the core chunk by chunk and keeps the results and the row of  *)
(* the scan in the database, and the scan sessions of the core.            *)
(*                                                                         *)
(* Targets are numbered in the order of the scan. The worker's thread, the *)
(* core, the user's pause and the StopScan call it sends interleave; the   *)
(* core may restart and the application may die between any two writes to  *)
(* the database. Status, names, ports, latencies, live events and counters *)
(* are left out: no decision below reads them. So are edits of the scan's  *)
(* configuration, the idle pruning of sessions and StopAll(false).         *)
(* Writes of results and of snapshots may fail; writes of the scan's row,  *)
(* clearing the results and deleting a snapshot are taken to succeed.      *)
(***************************************************************************)
EXTENDS Naturals, FiniteSets

CONSTANTS
  N,           \* targets of the base list
  Ipv6,        \* those of them that are IPv6
  ChunkSize,   \* targets of a chunk
  SubBatch,    \* candidates of one config test
  Retries,     \* kScanWorkerRescanRetries
  StopAfter,   \* config.stopAfter, 0 for none
  MaxRuns,     \* bound: runs started
  MaxScanFaults  \* bound: faults of the core and deaths of the application

Targets == 1 .. N
ASSUME ScanAssumption ==
  /\ {N, ChunkSize, SubBatch} \subseteq Nat \ {0}
  /\ {Retries, StopAfter, MaxRuns, MaxScanFaults} \subseteq Nat
  /\ Ipv6 \subseteq Targets

VARIABLES
  configPhase, \* configPhase_: candidates are tested through a config
  row,         \* the pass columns of the scan in the database
  results,     \* entries of the result list
  lists,       \* entries of the snapshot each run made; {} once deleted
  pc,          \* the worker's thread; "idle" when no worker is registered
  mode,        \* startMode_
  mem,         \* scan_, the worker's copy of the row
  stop,        \* stop_
  completed,   \* completed, of run()
  res,         \* the ChunkResult of the runChunk under way
  chunk,       \* the ChunkResult of runChunks, with its start and retry round
  call,        \* the probe or config test the worker waits for
  session,     \* the session of the run in the core
  stopping,    \* a StopScan call is on its way
  runs, scanFaults,
  wiping,      \* history: the results are cleared, the snapshot is not deleted yet
  dead,        \* history: targets measured as failing with their family reachable
  stranded,    \* history: targets that failed on this machine while it was online
  unsaved,     \* history: hits whose write to the result list failed
  strikes      \* history: failed measurements in a row since the chunk began

scanTables == <<row, results, lists>>
counts == <<configPhase, runs, scanFaults>>
passes == <<dead, stranded, unsaved>>
history == <<wiping, passes, strikes>>
core == <<call, session, stopping>>
scanVars == <<configPhase, scanTables, pc, mode, mem, stop, completed, res, chunk, core,
              runs, scanFaults, history>>

Rows == [rescan : BOOLEAN, snap : 0 .. MaxRuns, cursor : 0 .. N, total : 0 .. N,
         rsnap : 0 .. MaxRuns, rcursor : 0 .. N, rtotal : 0 .. N]
NewRow == [rescan |-> FALSE, snap |-> 0, cursor |-> 0, total |-> 0,
           rsnap |-> 0, rcursor |-> 0, rtotal |-> 0]
NoResult == [hits |-> {}, fails |-> {}, locals |-> {}, error |-> FALSE, aborted |-> FALSE, next |-> 0]
NoChunk == [hits |-> {}, fails |-> {}, locals |-> {}, error |-> FALSE, aborted |-> FALSE, next |-> 0,
            start |-> 0, round |-> 0, unverified |-> FALSE, gone |-> {}]
NoCall == [kind |-> "none", at |-> "none", todo |-> {}, pass |-> {}, fails |-> {}, locals |-> {}, left |-> {}]

ScanTypeOK ==
  /\ configPhase \in BOOLEAN /\ row \in Rows /\ mem \in Rows
  /\ results \subseteq Targets /\ lists \in [1 .. MaxRuns -> SUBSET Targets]
  /\ pc \in {"idle", "prepare", "clear", "dropSnap", "dropRescan", "copy", "count", "load", "loop",
             "call", "ran", "delay", "check", "upsert", "remove", "save", "finishDrop", "finish", "done"}
  /\ mode \in {"FromInitial", "RescanResults", "Resume"} /\ stop \in BOOLEAN /\ completed \in BOOLEAN
  /\ {res.hits, res.fails, res.locals, chunk.hits, chunk.fails, chunk.locals, chunk.gone} \subseteq SUBSET Targets
  /\ call.at \in {"none", "sent", "running", "ok", "error", "stopped"}
  /\ call.kind \in {"none", "probe", "url"}
  /\ session \in {"none", "live", "stopped"} /\ stopping \in BOOLEAN /\ wiping \in BOOLEAN
  /\ runs \in 0 .. MaxRuns /\ scanFaults \in 0 .. MaxScanFaults
  /\ {dead, stranded, unsaved} \subseteq SUBSET Targets /\ strikes \in [Targets -> 0 .. Retries + 1]

\* Where the last chunk of a first pass starts.
LastChunk == ((N - 1) \div ChunkSize) * ChunkSize

\* A new scan, or one whose first pass an earlier run completed.
ScanInit ==
  /\ configPhase \in BOOLEAN
  /\ \/ row = NewRow /\ results = {} /\ dead = {}
     \/ /\ row = [NewRow EXCEPT !.cursor = N, !.total = N]
        /\ results \in SUBSET Targets \ {{}} /\ dead = Targets \ results
        /\ StopAfter > 0 => Cardinality({t \in results : t <= LastChunk}) < StopAfter
  /\ mem = NewRow /\ lists = [r \in 1 .. MaxRuns |-> {}]
  /\ pc = "idle" /\ mode = "Resume" /\ stop = FALSE /\ completed = FALSE
  /\ res = NoResult /\ chunk = NoChunk /\ call = NoCall /\ session = "none" /\ stopping = FALSE
  /\ runs = 0 /\ scanFaults = 0
  /\ wiping = FALSE /\ stranded = {} /\ unsaved = {} /\ strikes = [t \in Targets |-> 0]

-----------------------------------------------------------------------------
(* Rows, lists and chunks.                                                 *)

CanResumeInitial(scan) == scan.snap # 0 /\ scan.total > 0 /\ scan.cursor < scan.total
RescanResumable(scan) == scan.rescan /\ scan.rsnap # 0 /\ scan.rcursor < scan.rtotal
ActiveCursor(scan) == IF scan.rescan THEN scan.rcursor ELSE scan.cursor
ActiveTotal(scan) == IF scan.rescan THEN scan.rtotal ELSE scan.total
ActiveSnapshot(scan) == IF scan.rescan THEN scan.rsnap ELSE scan.snap

EntriesOf(id) == IF id = 0 THEN {} ELSE lists[id]
deleteList(id) == lists' = [lists EXCEPT ![id] = {}]

Position(t, S) == Cardinality({u \in S : u <= t})
Slice(S, from, count) == {t \in S : Position(t, S) > from /\ Position(t, S) <= from + count}
HasFamily(S, v6) == \E t \in S : (t \in Ipv6) = v6

-----------------------------------------------------------------------------
(* ScanManager, on the main thread.                                        *)

Effective(m) ==
  IF m = "Resume" /\ ~RescanResumable(row) /\ ~CanResumeInitial(row) THEN "FromInitial" ELSE m

Start(m) ==
  /\ pc = "idle" /\ runs < MaxRuns
  /\ m = "RescanResults" => results # {}
  /\ pc' = "prepare" /\ mode' = Effective(m) /\ mem' = row
  /\ runs' = runs + 1
  /\ stop' = FALSE /\ completed' = FALSE /\ session' = "none" /\ stopping' = FALSE
  /\ UNCHANGED <<configPhase, scanTables, res, chunk, call, scanFaults, history>>

\* Pause, and StopAll when the application exits.
Pause ==
  /\ pc # "idle" /\ ~stop
  /\ stop' = TRUE /\ stopping' = TRUE
  /\ UNCHANGED <<scanTables, pc, mode, mem, completed, res, chunk, call, session, counts, history>>

onWorkerFinished ==
  /\ pc = "done"
  /\ pc' = "idle" /\ session' = "stopped"
  /\ UNCHANGED <<scanTables, mode, mem, stop, completed, res, chunk, call, stopping, counts, history>>

-----------------------------------------------------------------------------
(* The worker prepares its pass.                                           *)

prepared == <<res, chunk, core, counts, stop, mode>>

\* execute and preparePass, up to their first write; without a result list to clear the
\* run ends.
preparePass ==
  /\ pc = "prepare"
  /\ \/ stop /\ pc' = "finish" /\ UNCHANGED <<mem, lists>>
     \/ ~stop /\ mode = "FromInitial" /\ pc' \in {"clear", "finish"} /\ UNCHANGED <<mem, lists>>
     \/ /\ ~stop /\ mode = "RescanResults"
        /\ pc' = "copy"
        /\ IF mem.rsnap = 0 THEN UNCHANGED lists ELSE deleteList(mem.rsnap)
        /\ mem' = [mem EXCEPT !.rsnap = 0, !.rcursor = 0, !.rtotal = 0]
     \/ /\ ~stop /\ mode = "Resume"
        /\ pc' = "load"
        /\ mem' = [mem EXCEPT !.rescan = RescanResumable(mem)]
        /\ UNCHANGED lists
  /\ UNCHANGED <<row, results, completed, history, prepared>>

ClearEntries ==
  /\ pc = "clear"
  /\ pc' = "dropSnap" /\ results' = {}
  /\ wiping' = TRUE /\ dead' = {} /\ stranded' = {} /\ unsaved' = {}
  /\ UNCHANGED <<row, lists, mem, completed, strikes, prepared>>

DropSnapshot ==
  /\ pc = "dropSnap"
  /\ pc' = "dropRescan" /\ wiping' = FALSE
  /\ IF mem.snap = 0 THEN UNCHANGED lists ELSE deleteList(mem.snap)
  /\ UNCHANGED <<row, results, mem, completed, passes, strikes, prepared>>

DropRescanSnapshot ==
  /\ pc = "dropRescan"
  /\ pc' = "copy"
  /\ IF mem.rsnap = 0 THEN UNCHANGED lists ELSE deleteList(mem.rsnap)
  /\ mem' = NewRow
  /\ UNCHANGED <<row, results, completed, history, prepared>>

\* The snapshot of a pass; a list that cannot be written ends the run.
CopyList ==
  /\ pc = "copy"
  /\ \/ /\ mode = "FromInitial"
        /\ lists' = [lists EXCEPT ![runs] = Targets]
        /\ mem' = [mem EXCEPT !.snap = runs]
        /\ pc' = "count" /\ UNCHANGED row
     \/ /\ mode = "RescanResults" /\ results # {}
        /\ lists' = [lists EXCEPT ![runs] = results]
        /\ mem' = [mem EXCEPT !.rsnap = runs, !.rescan = TRUE]
        /\ pc' = "count" /\ UNCHANGED row
     \/ /\ mode = "RescanResults" /\ results = {}
        /\ row' = mem
        /\ pc' = "finish" /\ UNCHANGED <<lists, mem>>
     \/ pc' = "finish" /\ UNCHANGED <<row, lists, mem>>
  /\ UNCHANGED <<results, completed, history, prepared>>

\* countTargets, which opens no session, and the persistPassState after it.
countTargets ==
  /\ pc = "count"
  /\ LET total == Cardinality(EntriesOf(ActiveSnapshot(mem)))
         counted == IF mem.rescan THEN [mem EXCEPT !.rtotal = total] ELSE [mem EXCEPT !.total = total]
     IN \/ row' = counted /\ mem' = counted /\ pc' = IF stop THEN "finish" ELSE "load"
        \/ pc' = "finish" /\ UNCHANGED <<row, mem>>
  /\ UNCHANGED <<results, lists, completed, history, prepared>>

loadSpec ==
  /\ pc = "load"
  /\ \/ stop /\ pc' = "finish" /\ UNCHANGED mem
     \/ /\ EntriesOf(ActiveSnapshot(mem)) = {}
        /\ mem' = IF mem.rescan THEN [mem EXCEPT !.rsnap = 0] ELSE [mem EXCEPT !.snap = 0]
        /\ pc' = "finish"
     \/ ~stop /\ EntriesOf(ActiveSnapshot(mem)) # {} /\ pc' = "loop" /\ UNCHANGED mem
  /\ UNCHANGED <<scanTables, completed, history, prepared>>

-----------------------------------------------------------------------------
(* runChunks and runChunk.                                                 *)

chunking == <<scanTables, mode, mem, counts>>

ProbeCall(S) == [NoCall EXCEPT !.kind = "probe", !.at = "sent", !.todo = S]
UrlCall(S) == [NoCall EXCEPT !.kind = "url", !.at = "sent", !.todo = Slice(S, 0, SubBatch),
                             !.left = S \ Slice(S, 0, SubBatch)]

EnoughFound == ~mem.rescan /\ StopAfter > 0 /\ Cardinality(results) >= StopAfter
PassDone == EnoughFound \/ ActiveCursor(mem) >= ActiveTotal(mem)

\* The top of the loop.
NextChunk ==
  /\ pc = "loop"
  /\ \/ /\ PassDone
        /\ pc' = "finishDrop" /\ completed' = TRUE
        /\ UNCHANGED <<res, chunk, call, strikes>>
     \/ /\ ~PassDone /\ stop
        /\ pc' = "finish"
        /\ UNCHANGED <<completed, res, chunk, call, strikes>>
     \/ /\ ~PassDone /\ ~stop
        /\ LET start == ActiveCursor(mem)
               targets == Slice(EntriesOf(ActiveSnapshot(mem)), start, ChunkSize)
           IN /\ chunk' = [NoChunk EXCEPT !.start = start, !.next = start]
              /\ call' = ProbeCall(targets)
        /\ res' = NoResult /\ strikes' = [t \in Targets |-> 0]
        /\ pc' = "call" /\ UNCHANGED completed
  /\ UNCHANGED <<chunking, stop, session, stopping, wiping, passes>>

answered == <<chunking, completed, chunk, session, stopping, history>>
Unfinished(S, left) == IF left = {} THEN Cardinality(S) ELSE Position(CHOOSE t \in left : \A u \in left : t <= u, S) - 1
Asked == call.todo \cup call.pass \cup call.fails \cup call.locals

\* A probe that ran; with a config phase its candidates are still to be tested.
ProbeAnswered ==
  /\ pc = "call" /\ call.kind = "probe" /\ call.at = "ok"
  /\ LET got == [NoResult EXCEPT !.fails = call.fails, !.locals = call.locals, !.aborted = call.todo # {},
                                 !.next = chunk.start + Unfinished(Asked, call.todo)]
     IN \/ ~configPhase /\ res' = [got EXCEPT !.hits = call.pass] /\ call' = NoCall /\ pc' = "ran"
        \/ /\ configPhase /\ (call.pass = {} \/ call.todo # {} \/ stop)
           /\ res' = [got EXCEPT !.aborted = call.todo # {} \/ call.pass # {}] /\ call' = NoCall /\ pc' = "ran"
        \/ /\ configPhase /\ call.pass # {} /\ call.todo = {} /\ ~stop
           /\ res' = got /\ call' = UrlCall(call.pass) /\ UNCHANGED pc
  /\ UNCHANGED <<answered, stop>>

\* A config test that ran: the next batch, unless the run is stopping.
UrlAnswered ==
  /\ pc = "call" /\ call.kind = "url" /\ call.at = "ok"
  /\ LET cut == call.todo # {} \/ (call.left # {} /\ stop)
     IN /\ res' = [res EXCEPT !.hits = @ \cup call.pass, !.fails = @ \cup call.fails, !.aborted = @ \/ cut]
        /\ IF call.left # {} /\ ~stop
           THEN call' = UrlCall(call.left) /\ UNCHANGED pc
           ELSE call' = NoCall /\ pc' = "ran"
  /\ UNCHANGED <<answered, stop>>

\* A call that failed. "scan stopped" tells the worker to stop, and the positions of a
\* probe cut short stay unfinished: of what it returned only the hits are kept.
CallFailed ==
  /\ pc = "call" /\ call.at \in {"error", "stopped"}
  /\ stop' = (stop \/ call.at = "stopped")
  /\ LET cut == IF stop' THEN [res EXCEPT !.aborted = TRUE] ELSE [res EXCEPT !.error = TRUE]
     IN res' = IF call.kind = "url" THEN cut
               ELSE [cut EXCEPT !.hits = IF configPhase THEN {} ELSE call.pass, !.next = chunk.start]
  /\ call' = NoCall /\ pc' = "ran"
  /\ UNCHANGED answered

kept == <<chunking, stop, completed, session, stopping, history>>

\* Mutated form of Unconfirmed: the failures of a retry that was cut short stay.
Unconfirmed_Kept ==
  chunk' = IF stop THEN [chunk EXCEPT !.aborted = TRUE, !.next = chunk.start] ELSE chunk
\* Nothing is removed; a pause runs the whole chunk again.
Unconfirmed ==
  chunk' = IF stop THEN [chunk EXCEPT !.fails = {}, !.aborted = TRUE, !.next = chunk.start]
           ELSE [chunk EXCEPT !.fails = {}]

\* runChunk returns, to runChunks or to confirmFailures.
Ran ==
  /\ pc = "ran"
  /\ \/ /\ chunk.round = 0
        /\ chunk' = [chunk EXCEPT !.hits = res.hits, !.fails = res.fails, !.locals = res.locals,
                                  !.error = res.error, !.aborted = res.aborted, !.next = res.next]
        /\ pc' = IF mem.rescan /\ ~res.error /\ ~res.aborted /\ res.fails # {} /\ Retries > 0
                 THEN "delay" ELSE "check"
     \/ /\ chunk.round > 0 /\ (res.error \/ res.aborted)
        /\ Unconfirmed
        /\ pc' = "check"
     \/ /\ chunk.round > 0 /\ ~res.error /\ ~res.aborted
        /\ chunk' = [chunk EXCEPT !.hits = @ \cup res.hits, !.locals = @ \cup res.locals, !.fails = res.fails]
        /\ pc' = IF res.fails # {} /\ chunk.round < Retries THEN "delay" ELSE "check"
  /\ res' = NoResult /\ UNCHANGED <<kept, call>>

\* A round of confirmFailures, after its delay.
Retry ==
  /\ pc = "delay"
  /\ \/ stop /\ Unconfirmed /\ pc' = "check" /\ UNCHANGED call
     \/ /\ ~stop
        /\ chunk' = [chunk EXCEPT !.round = @ + 1]
        /\ call' = ProbeCall(chunk.fails) /\ pc' = "call"
  /\ UNCHANGED <<kept, res>>

FamilyUnproven == \E v6 \in BOOLEAN : HasFamily(chunk.fails, v6) /\ ~HasFamily(chunk.hits, v6)
\* Mutated form of Guarded: any hit proves the network.
Guarded_ByAnyHit ==
  /\ ~chunk.error /\ chunk.fails \cup chunk.locals # {}
  /\ mem.rescan \/ chunk.hits = {}
Guarded ==
  /\ ~chunk.error /\ chunk.fails \cup chunk.locals # {}
  /\ mem.rescan \/ chunk.hits = {} \/ FamilyUnproven

\* What the two network checks, the second one not always made, let the chunk do.
Verified(up4, up6) ==
  LET ipv6Unproven == HasFamily(chunk.fails, TRUE) /\ ~HasFamily(chunk.hits, TRUE)
      ipv4Blocks == ~mem.rescan /\ ~up4 /\ HasFamily(chunk.fails, FALSE)
      asked6 == /\ ~ipv4Blocks
                /\ \/ IF mem.rescan THEN HasFamily(chunk.fails, TRUE) ELSE ipv6Unproven
                   \/ ~up4 /\ HasFamily(chunk.fails \cup chunk.locals, TRUE)
      ipv6Up == asked6 /\ up6
      ipv6Blocks == ~mem.rescan /\ ~ipv6Up /\ ipv6Unproven
      unverified == (~up4 /\ ~ipv6Up) \/ ipv4Blocks \/ ipv6Blocks
      up == {t \in Targets : IF t \in Ipv6 THEN ipv6Up ELSE up4}
  IN [unverified |-> unverified, up |-> up, online |-> up4 \/ ipv6Up]

\* What hits and network checks say of the failures: those of a reachable family were
\* measured; a failure of this machine itself says nothing of its target, only that it
\* came while the machine was online.
Proven(up) == {t \in chunk.fails : t \in up \/ HasFamily(chunk.hits, t \in Ipv6)}
Excused(online) == IF ~mem.rescan /\ (online \/ chunk.hits # {}) THEN chunk.locals ELSE {}
Noted(up, online) ==
  /\ dead' = dead \cup Proven(up)
  /\ stranded' = stranded \cup Excused(online)

\* Either network answers or not.
networkUp ==
  /\ pc = "check" /\ pc' = "upsert"
  /\ \/ /\ Guarded /\ stop
        /\ chunk' = [chunk EXCEPT !.unverified = TRUE]
        /\ Noted({}, FALSE)
     \/ /\ Guarded /\ ~stop
        /\ \E up4, up6 \in BOOLEAN :
             LET v == Verified(up4, up6)
             IN /\ chunk' = [chunk EXCEPT !.unverified = v.unverified,
                                          !.gone = IF mem.rescan /\ ~v.unverified THEN @ \cup (chunk.fails \cap v.up) ELSE {}]
                /\ Noted(v.up, v.online)
     \/ ~Guarded /\ UNCHANGED chunk /\ Noted({}, FALSE)
  /\ UNCHANGED <<scanTables, mode, mem, counts, stop, completed, res, core, wiping, unsaved, strikes>>

committed == <<lists, mode, counts, stop, completed, core, wiping, dead, stranded, strikes>>

\* The two writes to the result list; the worker does not look whether they succeeded.
UpsertEntries ==
  /\ pc = "upsert" /\ pc' = "remove"
  /\ \/ results' = results \cup chunk.hits /\ UNCHANGED unsaved
     \/ unsaved' = unsaved \cup (chunk.hits \ results) /\ UNCHANGED results
  /\ UNCHANGED <<row, mem, res, chunk, committed>>

RemoveEntries ==
  /\ pc = "remove" /\ pc' = "save"
  /\ results' \in {results, results \ chunk.gone}
  /\ UNCHANGED <<row, mem, res, chunk, unsaved, committed>>

\* Mutated form of Ends: a chunk that could not be verified is simply run again.
Ends_Unless(to) == chunk.error \/ (to < ActiveTotal(mem) /\ ~EnoughFound /\ (stop \/ chunk.aborted))
\* The run ends after this chunk, with an error or for a stop, its pass unfinished.
Ends(to) ==
  \/ chunk.error \/ chunk.unverified
  \/ to < ActiveTotal(mem) /\ ~EnoughFound /\ (stop \/ chunk.aborted \/ to = chunk.start)

saveProgress ==
  /\ pc = "save"
  /\ LET to == IF chunk.error \/ chunk.unverified \/ (chunk.aborted /\ configPhase)
               THEN chunk.start ELSE chunk.next
     IN /\ mem' = IF mem.rescan THEN [mem EXCEPT !.rcursor = to] ELSE [mem EXCEPT !.cursor = to]
        /\ row' = IF mem.rescan THEN [row EXCEPT !.rescan = TRUE, !.rcursor = to, !.rtotal = mem.rtotal]
                  ELSE [row EXCEPT !.rescan = FALSE, !.cursor = to, !.total = mem.total]
        /\ pc' = IF Ends(to) THEN "finish" ELSE "loop"
  /\ chunk' = NoChunk
  /\ UNCHANGED <<results, res, unsaved, committed>>

-----------------------------------------------------------------------------
(* finishPass.                                                             *)

finishing == <<results, mode, stop, completed, res, chunk, core, counts, history>>

FinishDrop ==
  /\ pc = "finishDrop" /\ pc' = "finish"
  /\ IF ActiveSnapshot(mem) = 0 THEN UNCHANGED lists ELSE deleteList(ActiveSnapshot(mem))
  /\ mem' = IF mem.rescan THEN [mem EXCEPT !.rsnap = 0] ELSE [mem EXCEPT !.snap = 0]
  /\ UNCHANGED <<row, finishing>>

finishPass ==
  /\ pc = "finish" /\ pc' = "done"
  /\ mem' = IF mem.rescan /\ ~RescanResumable(mem) /\ CanResumeInitial(mem)
            THEN [mem EXCEPT !.rescan = FALSE] ELSE mem
  /\ row' = mem'
  /\ UNCHANGED <<lists, finishing>>

-----------------------------------------------------------------------------
(* The core.                                                               *)

outside == <<configPhase, scanTables, pc, mode, mem, stop, completed, res, chunk, runs>>

Acquire ==
  /\ call.at = "sent"
  /\ \/ session = "stopped" /\ call' = [call EXCEPT !.at = "stopped"] /\ UNCHANGED session
     \/ session # "stopped" /\ call' = [call EXCEPT !.at = "running"] /\ session' = "live"
  /\ UNCHANGED <<outside, stopping, scanFaults, history>>

LastPhase == call.kind = "url" \/ ~configPhase
Strike(t) == strikes' = [strikes EXCEPT ![t] = IF @ <= Retries THEN @ + 1 ELSE @]

\* A target finishes. A failure of a cancelled run is no measurement.
Measured(t) ==
  /\ call.at = "running" /\ t \in call.todo
  /\ \/ /\ call' = [call EXCEPT !.todo = @ \ {t}, !.pass = @ \cup {t}]
        /\ strikes' = IF LastPhase THEN [strikes EXCEPT ![t] = 0] ELSE strikes
     \/ /\ session # "stopped"
        /\ call' = [call EXCEPT !.todo = @ \ {t}, !.fails = @ \cup {t}]
        /\ Strike(t)
     \/ /\ session # "stopped" /\ call.kind = "probe"
        /\ call' = [call EXCEPT !.todo = @ \ {t}, !.locals = @ \cup {t}]
        /\ UNCHANGED strikes
  /\ UNCHANGED <<outside, session, stopping, scanFaults, wiping, passes>>

\* The call returns: every target finished, or the session was stopped.
Answer ==
  /\ call.at = "running"
  /\ call.todo = {} \/ session = "stopped"
  /\ call' = [call EXCEPT !.at = "ok"]
  /\ UNCHANGED <<outside, session, stopping, scanFaults, history>>

\* The egress is lost, or the call times out in the application and returns nothing.
CallLost ==
  /\ call.at \in {"sent", "running"}
  /\ \/ call' = [NoCall EXCEPT !.kind = call.kind, !.at = "error"]
     \/ call.at = "running" /\ call' = [call EXCEPT !.at = "error"]
  /\ UNCHANGED <<outside, session, stopping, scanFaults, history>>

Stop ==
  /\ stopping
  /\ stopping' = FALSE /\ session' = "stopped"
  /\ UNCHANGED <<outside, call, scanFaults, history>>

\* The core dies and another one starts, without sessions; the calls in flight fail.
CoreRestarts ==
  /\ scanFaults < MaxScanFaults /\ scanFaults' = scanFaults + 1
  /\ session' = "none" /\ stopping' = FALSE
  /\ call' = IF call.at \in {"sent", "running"} THEN [NoCall EXCEPT !.kind = call.kind, !.at = "error"] ELSE call
  /\ UNCHANGED <<outside, history>>

\* The application dies and is started again; the database stays.
AppDies ==
  /\ scanFaults < MaxScanFaults /\ scanFaults' = scanFaults + 1
  /\ pc # "idle" /\ pc' = "idle"
  /\ mem' = NewRow /\ stop' = FALSE /\ completed' = FALSE
  /\ res' = NoResult /\ chunk' = NoChunk /\ call' = NoCall /\ session' = "none" /\ stopping' = FALSE
  /\ UNCHANGED <<configPhase, scanTables, mode, runs, history>>

Worker ==
  \/ preparePass \/ ClearEntries \/ DropSnapshot \/ DropRescanSnapshot \/ CopyList \/ countTargets \/ loadSpec
  \/ NextChunk \/ ProbeAnswered \/ UrlAnswered \/ CallFailed \/ Ran \/ Retry
  \/ networkUp \/ UpsertEntries \/ RemoveEntries \/ saveProgress \/ FinishDrop \/ finishPass
  \/ onWorkerFinished
Core == Acquire \/ Answer \/ \E t \in Targets : Measured(t)

ScanNext ==
  \/ \E m \in {"FromInitial", "RescanResults", "Resume"} : Start(m)
  \/ Pause \/ Worker \/ Core \/ CallLost \/ Stop \/ CoreRestarts \/ AppDies

ScanSpec == ScanInit /\ [][ScanNext]_scanVars

\* The worker's thread and the main loop run, and every probe ends: each phase of it has
\* a timeout.
FairSpec == ScanSpec /\ WF_scanVars(Worker) /\ WF_scanVars(Core)

-----------------------------------------------------------------------------
(* Properties.                                                             *)

\* However runs are paused, cut short, retried, resumed or killed, the cursor of a scan
\* that can be resumed passes a target by for one of four reasons only: it is a result, it
\* was measured as failing while its family was known to be reachable, it failed on this
\* machine itself (no route for its family, say) while some family was known to be up, or
\* it was found and the write of its chunk's results failed, which the worker does not
\* look at (ScanWorker.cpp:531). A target cut short or failing while the machine is
\* offline is always tried again. (Until the snapshot of a scan that starts over is
\* deleted, a crash leaves its old cursor over an empty result list: ScanWorker.cpp:337.)
NothingSkipped ==
  ~wiping /\ EntriesOf(row.snap) # {} =>
    \A t \in Targets : t <= row.cursor => t \in results \cup dead \cup stranded \cup unsaved

\* A rescan removes a result only when it failed every one of its tries in this chunk:
\* a pause, a dead core or a lost call in between never costs a result.
RemovalConfirmed ==
  [][\A t \in results \ results' : pc = "clear" \/ strikes[t] = Retries + 1]_scanVars

\* Every run ends and gives its scan back, whatever the core and the network do.
EveryRunEnds == pc # "idle" ~> pc = "idle"
=============================================================================
