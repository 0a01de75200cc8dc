----------------------------- MODULE RpcChannel -----------------------------
(***************************************************************************)
(* The RPC channel: API::Client::LocalSocketChannel in the application and *)
(* Serve in the core.                                                      *)
(*                                                                         *)
(* A thread registers its call in pending, queues the frame to the I/O     *)
(* thread and waits. The I/O thread owns the socket and its read buffer;   *)
(* the main thread swaps the socket of each new core. A frame is a header  *)
(* and its data, which arrive one after the other and are framed by their  *)
(* order alone. Bytes, names and payloads are abstracted to the call and   *)
(* the core that answers it. A response without data, its header alone, is *)
(* left out, and so are 2^32 calls of one process: request ids are unique. *)
(***************************************************************************)
EXTENDS Naturals, Sequences, FiniteSets

CONSTANTS
  Calls,    \* calls, each with the request id next_id gives it
  NoCall,   \* no call
  MaxCores, \* bound: cores the application starts one after the other
  MaxFails  \* bound: calls of FailInFlightCalls

ASSUME CallsAssumption == NoCall \notin Calls
ASSUME BoundsAssumption == MaxCores \in Nat \ {0} /\ MaxFails \in Nat

VARIABLES
  caller,    \* where the thread of a call is in Call()
  reply,     \* its PendingCall: the status and data once done
  ret,       \* what Call() returned
  pending,   \* calls with a slot in pending
  connected, \* connected_
  main,      \* the main thread in Reconnect, and the core whose socket it got
  accepted,  \* the core whose Reconnect returned last
  tasks,     \* calls queued to io_anchor
  sock,      \* the core whose socket sock is
  open,      \* whether that socket has not reported disconnected yet
  buf,       \* read_buf
  hand,      \* the frame processBuffer took its slot for
  failing,   \* the I/O thread is in wakeAllWithError
  core,      \* the last core started
  alive,     \* it runs
  inbox,     \* requests the core has received
  ready,     \* responses it has yet to write
  writer,    \* the call whose header the core has written and its data not
  out,       \* what each core has written
  result,    \* the core that ran a call
  since,     \* accepted when a call found the channel connected
  fails      \* calls of FailInFlightCalls so far

threads == <<caller, reply, ret, pending, since>>
io == <<sock, open, buf, hand, failing>>
cores == <<core, alive, inbox, ready, writer, out, result>>
vars == <<threads, connected, main, accepted, tasks, io, cores, fails>>

NoResult == 0
Failed == MaxCores + 1
Garbage == MaxCores + 2
Cores == 1 .. MaxCores
Outcomes == 0 .. MaxCores + 2

Chunk(part, c, value) == [part |-> part, call |-> c, value |-> value]
Chunks == [part : {"header", "data"}, call : Calls, value : Outcomes]
Frames == [call : Calls \cup {NoCall}, value : Outcomes]
NoFrame == [call |-> NoCall, value |-> NoResult]
Task(op, n) == [op |-> op, n |-> n]

TypeOK ==
  /\ caller \in [Calls -> {"idle", "checked", "registered", "waiting", "claimed", "done"}]
  /\ reply \in [Calls -> Outcomes] /\ ret \in [Calls -> Outcomes]
  /\ pending \in SUBSET Calls /\ connected \in BOOLEAN
  /\ main \in [pc : {"idle", "fail", "swap", "store"}, core : 0 .. MaxCores]
  /\ accepted \in 0 .. MaxCores
  /\ tasks \in Seq([op : {"write"}, n : Calls] \cup [op : {"swap"}, n : Cores])
  /\ sock \in 0 .. MaxCores /\ open \in BOOLEAN
  /\ buf \in Seq(Chunks) /\ hand \in Frames /\ failing \in BOOLEAN
  /\ core \in 0 .. MaxCores /\ alive \in BOOLEAN
  /\ inbox \in SUBSET Calls /\ ready \in SUBSET (Calls \X Outcomes)
  /\ writer \in Frames /\ out \in [Cores -> Seq(Chunks)]
  /\ result \in [Calls -> 0 .. MaxCores] /\ since \in [Calls -> 0 .. MaxCores]
  /\ fails \in 0 .. MaxFails

Init ==
  /\ caller = [c \in Calls |-> "idle"]
  /\ reply = [c \in Calls |-> NoResult] /\ ret = [c \in Calls |-> NoResult]
  /\ pending = {} /\ connected = FALSE /\ tasks = <<>>
  /\ main = [pc |-> "idle", core |-> 0] /\ accepted = 0
  /\ sock = 0 /\ open = FALSE /\ buf = <<>> /\ hand = NoFrame /\ failing = FALSE
  /\ core = 0 /\ alive = FALSE
  /\ inbox = {} /\ ready = {}
  /\ writer = NoFrame /\ out = [g \in Cores |-> <<>>]
  /\ result = [c \in Calls |-> NoResult] /\ since = [c \in Calls |-> 0] /\ fails = 0

-----------------------------------------------------------------------------
(* Call(), on any thread.                                                  *)

At(c, pc) == caller[c] = pc
Goto(c, pc) == caller' = [caller EXCEPT ![c] = pc]
Return(c, value) ==
  /\ Goto(c, "done")
  /\ ret' = [ret EXCEPT ![c] = value]

Call(c) ==
  /\ At(c, "idle")
  /\ \/ /\ ~connected
        /\ Return(c, Failed)
        /\ UNCHANGED since
     \/ /\ connected
        /\ Goto(c, "checked")
        /\ since' = [since EXCEPT ![c] = accepted]
        /\ UNCHANGED ret
  /\ UNCHANGED <<reply, pending, connected, main, accepted, tasks, io, cores, fails>>

Register(c) ==
  /\ At(c, "checked")
  /\ Goto(c, "registered")
  /\ pending' = pending \cup {c}
  /\ UNCHANGED <<reply, ret, since, connected, main, accepted, tasks, io, cores, fails>>

QueueWrite(c) ==
  /\ At(c, "registered")
  /\ Goto(c, "waiting")
  /\ tasks' = Append(tasks, Task("write", c))
  /\ UNCHANGED <<reply, ret, pending, since, connected, main, accepted, io, cores, fails>>

callFrame == <<since, connected, main, accepted, tasks, io, cores, fails>>
waitFrame == <<reply, callFrame>>

\* The call is done; only then are its status and data looked at.
Wake(c) ==
  /\ At(c, "waiting") \/ At(c, "claimed")
  /\ reply[c] # NoResult
  /\ Return(c, reply[c])
  /\ reply' = [reply EXCEPT ![c] = NoResult]
  /\ UNCHANGED <<pending, callFrame>>

\* Mutated form of Expire: the slot of a call that timed out stays.
Expire_Kept(c) ==
  /\ At(c, "waiting") /\ reply[c] = NoResult
  /\ \/ c \in pending /\ Return(c, Failed)
     \/ c \notin pending /\ Goto(c, "claimed") /\ UNCHANGED ret
  /\ UNCHANGED <<pending, waitFrame>>
\* Timed out: the slot is reclaimed, unless the reader has it. (A reader that takes it
\* between the end of the wait and the reclaim might as well have taken it before.)
Expire(c) ==
  /\ At(c, "waiting") /\ reply[c] = NoResult
  /\ pending' = pending \ {c}
  /\ \/ c \in pending /\ Return(c, Failed)
     \/ c \notin pending /\ Goto(c, "claimed") /\ UNCHANGED ret
  /\ UNCHANGED waitFrame

\* The reader did not finish within the second wait either.
GiveUp(c) ==
  /\ At(c, "claimed") /\ reply[c] = NoResult
  /\ Return(c, Failed)
  /\ UNCHANGED <<pending, waitFrame>>

-----------------------------------------------------------------------------
(* Reconnect, on the main thread, and FailInFlightCalls.                   *)

failPending ==
  /\ reply' = [c \in Calls |-> IF c \in pending THEN Failed ELSE reply[c]]
  /\ pending' = {}
  /\ UNCHANGED <<caller, ret, since>>

\* onNewConnection accepted the socket of the core that runs.
Reconnect ==
  /\ main.pc = "idle" /\ core > main.core
  /\ main' = [pc |-> "fail", core |-> core]
  /\ connected' = FALSE
  /\ UNCHANGED <<threads, accepted, tasks, io, cores, fails>>

\* Mutated form of ReconnectFails: connected_ is stored before the swap is queued.
ReconnectFails_Stored ==
  /\ main.pc = "fail"
  /\ main' = [main EXCEPT !.pc = "swap"]
  /\ failPending
  /\ connected' = TRUE /\ accepted' = main.core
  /\ UNCHANGED <<tasks, io, cores, fails>>
ReconnectFails ==
  /\ main.pc = "fail"
  /\ main' = [main EXCEPT !.pc = "swap"]
  /\ failPending
  /\ UNCHANGED <<connected, accepted, tasks, io, cores, fails>>

ReconnectSwaps ==
  /\ main.pc = "swap"
  /\ main' = [main EXCEPT !.pc = "store"]
  /\ tasks' = Append(tasks, Task("swap", main.core))
  /\ UNCHANGED <<threads, connected, accepted, io, cores, fails>>

ReconnectEnds ==
  /\ main.pc = "store"
  /\ main' = [main EXCEPT !.pc = "idle"]
  /\ connected' = TRUE /\ accepted' = main.core
  /\ UNCHANGED <<threads, tasks, io, cores, fails>>

\* The test runner gives up the calls in flight; without any this changes nothing.
FailInFlightCalls ==
  /\ fails < MaxFails /\ pending # {}
  /\ fails' = fails + 1
  /\ failPending
  /\ UNCHANGED <<connected, main, accepted, tasks, io, cores>>

-----------------------------------------------------------------------------
(* The I/O thread: one queued call or socket event at a time.              *)

\* It is not inside processBuffer or wakeAllWithError.
Free == hand = NoFrame /\ Len(buf) < 2 /\ ~failing

\* Mutated form of Swapped: bytes of the old socket stay in front of the new one's.
Swapped_Kept == UNCHANGED buf
Swapped == buf' = <<>>

TakeTask ==
  /\ Free /\ tasks # <<>>
  /\ tasks' = Tail(tasks)
  /\ LET t == Head(tasks) IN
       \/ /\ t.op = "swap"
          /\ sock' = t.n /\ open' = TRUE
          /\ Swapped
          /\ UNCHANGED <<since, inbox>>
       \/ /\ t.op = "write"
          /\ inbox' = IF sock = core /\ alive THEN inbox \cup {t.n} ELSE inbox
          /\ since' = [since EXCEPT ![t.n] = 0]
          /\ UNCHANGED <<sock, open, buf>>
  /\ UNCHANGED <<caller, reply, ret, pending, connected, main, accepted, hand, failing, core, alive, ready, writer,
                 out, result, fails>>

onReadyRead ==
  /\ Free /\ open
  /\ out[sock] # <<>>
  /\ buf' = Append(buf, Head(out[sock]))
  /\ out' = [out EXCEPT ![sock] = Tail(@)]
  /\ UNCHANGED <<threads, connected, main, accepted, tasks, sock, open, hand, failing, core, alive,
                 inbox, ready, writer, result, fails>>

\* What the first bytes of the buffer are taken for.
Frame ==
  [call |-> buf[1].call,
   value |-> CASE buf[1].part = "header" /\ buf[1].value = Failed -> Failed
               [] buf[1].part = "header" /\ buf[2].part = "data" /\ buf[1].call = buf[2].call -> buf[2].value
               [] OTHER -> Garbage]

\* processBuffer takes the slot of a complete frame; a frame without one is dropped.
TakeFrame ==
  /\ hand = NoFrame /\ Len(buf) >= 2
  /\ buf' = SubSeq(buf, 3, Len(buf))
  /\ pending' = pending \ {Frame.call}
  /\ hand' = IF Frame.call \in pending THEN Frame ELSE NoFrame
  /\ UNCHANGED <<caller, reply, ret, since, connected, main, accepted, tasks, sock, open, failing,
                 cores, fails>>

Deliver ==
  /\ hand # NoFrame
  /\ reply' = [reply EXCEPT ![hand.call] = hand.value]
  /\ hand' = NoFrame
  /\ UNCHANGED <<caller, ret, pending, since, connected, main, accepted, tasks, sock, open, buf,
                 failing, cores, fails>>

\* The socket reports its end once everything was read.
Disconnected ==
  /\ Free /\ open
  /\ ~(sock = core /\ alive) /\ out[sock] = <<>>
  /\ open' = FALSE /\ failing' = TRUE
  /\ connected' = FALSE
  /\ UNCHANGED <<threads, main, accepted, tasks, sock, buf, hand, cores, fails>>

DisconnectFails ==
  /\ failing
  /\ failing' = FALSE
  /\ failPending
  /\ UNCHANGED <<connected, main, accepted, tasks, sock, open, buf, hand, cores, fails>>

-----------------------------------------------------------------------------
(* Serve, in the core.                                                     *)

coreFrame == <<threads, connected, main, accepted, tasks, io, fails>>

CoreStarts ==
  /\ ~alive /\ core < MaxCores
  /\ core' = core + 1 /\ alive' = TRUE
  /\ UNCHANGED <<inbox, ready, writer, out, result, coreFrame>>

\* What it wrote stays readable; half a frame may be all there is.
CoreDies ==
  /\ alive
  /\ alive' = FALSE
  /\ inbox' = {} /\ ready' = {} /\ writer' = NoFrame
  /\ UNCHANGED <<core, out, result, coreFrame>>

\* A handler ran: it has a result, or an error or a panic for a response.
Handle(c) ==
  /\ alive /\ c \in inbox
  /\ inbox' = inbox \ {c}
  /\ result' = [result EXCEPT ![c] = core]
  /\ \E value \in {core, Failed} : ready' = ready \cup {<<c, value>>}
  /\ UNCHANGED <<core, alive, writer, out, coreFrame>>

\* writeResponse holds writeMu over both writes.
WriteHeader ==
  /\ alive /\ writer = NoFrame
  /\ \E r \in ready :
       /\ writer' = [call |-> r[1], value |-> r[2]]
       /\ ready' = ready \ {r}
       /\ out' = [out EXCEPT ![core] = Append(@, Chunk("header", r[1], r[2]))]
  /\ UNCHANGED <<core, alive, inbox, result, coreFrame>>

WriteData ==
  /\ alive /\ writer # NoFrame
  /\ out' = [out EXCEPT ![core] = Append(@, Chunk("data", writer.call, writer.value))]
  /\ writer' = NoFrame
  /\ UNCHANGED <<core, alive, inbox, ready, result, coreFrame>>

Caller(c) ==
  Call(c) \/ Register(c) \/ QueueWrite(c) \/ Wake(c) \/ Expire(c) \/ GiveUp(c)

Next ==
  \/ \E c \in Calls : Caller(c) \/ Handle(c)
  \/ Reconnect \/ ReconnectFails \/ ReconnectSwaps \/ ReconnectEnds \/ FailInFlightCalls
  \/ TakeTask \/ onReadyRead \/ TakeFrame \/ Deliver \/ Disconnected \/ DisconnectFails
  \/ CoreStarts \/ CoreDies \/ WriteHeader \/ WriteData

Spec == Init /\ [][Next]_vars

-----------------------------------------------------------------------------
(* Properties.                                                             *)

\* "a timed-out Call() cannot destroy it while io_thread notifies": a slot belongs to
\* a call that still waits, and a waiting call without a slot has its reply or will
\* get it from the frame in the I/O thread's hand.
SlotsAgree ==
  /\ \A c \in pending : caller[c] \in {"registered", "waiting"} /\ reply[c] = NoResult
  /\ \A c \in Calls \ pending :
       caller[c] \in {"registered", "waiting", "claimed"}
         => reply[c] # NoResult \/ hand.call = c

\* "writes issued after Reconnect always hit the new socket": when a call that was made
\* after a Reconnect returned is written, the socket is that one or a later one.
FreshSocket ==
  tasks # <<>> /\ Head(tasks).op = "write" => sock >= since[Head(tasks).n]

\* Every call is run at most once and returns its own result or an error, across
\* timeouts, deaths of cores, swaps of the socket and halves of frames.
Promise == INSTANCE RpcCalls
Implements == Promise!Spec
=============================================================================
