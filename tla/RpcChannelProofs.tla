-------------------------- MODULE RpcChannelProofs --------------------------
(***************************************************************************)
(* Proofs about the RPC channel, for any number of calls, cores and        *)
(* failures: slots and waiting calls agree, a frame is written to the      *)
(* socket its call counted on, and the channel implements RpcCalls.        *)
(***************************************************************************)
EXTENDS RpcChannel, SequenceTheorems, TLAPS

-----------------------------------------------------------------------------
(* The inductive invariant.                                                *)

\* The steps of a call before its frame is queued.
Early == {"idle", "checked", "registered"}

\* What the members of a call in Call() are at each of its steps.
Slots ==
  /\ SlotsAgree
  /\ \A c \in Calls :
       /\ caller[c] \in {"idle", "checked"} => reply[c] = NoResult /\ hand.call # c
       /\ caller[c] # "done" => ret[c] = NoResult
  /\ hand # NoFrame => hand.call \in Calls /\ hand.call \notin pending /\ hand.value # NoResult

\* The order of sockets: those still to be swapped in are newer than the current one.
IsSwap(i) == tasks[i].op = "swap"
\* The task writes the frame of a call.
IsWrite(i) == tasks[i].op = "write"
\* Sockets are swapped in the order of their cores.
Order ==
  /\ sock <= main.core /\ main.core <= core /\ accepted <= main.core
  /\ main.pc \in {"fail", "swap"} => sock < main.core
  /\ \A i \in DOMAIN tasks : IsSwap(i) =>
       /\ sock < tasks[i].n
       /\ tasks[i].n <= main.core
       /\ main.pc \in {"fail", "swap"} => tasks[i].n < main.core
  /\ \A i, j \in DOMAIN tasks : IsSwap(i) /\ IsSwap(j) /\ i < j => tasks[i].n < tasks[j].n

\* With socket s and tasks q, what is queued at position i finds the socket of core g or
\* of a later one.
Reach(s, q, g, i) ==
  g <= s \/ \E j \in DOMAIN q : j < i /\ q[j].op = "swap" /\ g <= q[j].n
\* Every write that is queued, and every one that will be, finds the socket its call counted on.
Fresh ==
  /\ Reach(sock, tasks, accepted, Len(tasks) + 1)
  /\ main.pc = "store" => Reach(sock, tasks, main.core, Len(tasks) + 1)
  /\ \A c \in Calls : since[c] <= accepted
  /\ \A i \in DOMAIN tasks : IsWrite(i) => Reach(sock, tasks, since[tasks[i].n], i)

\* A call is queued, received and run at most once, in this order.
Once ==
  /\ \A c \in Calls : caller[c] \in Early => c \notin inbox /\ result[c] = NoResult
  /\ \A i \in DOMAIN tasks : IsWrite(i) =>
       /\ caller[tasks[i].n] \notin Early
       /\ tasks[i].n \notin inbox /\ result[tasks[i].n] = NoResult
  /\ \A i, j \in DOMAIN tasks : IsWrite(i) /\ IsWrite(j) /\ tasks[i].n = tasks[j].n => i = j
  /\ \A c \in inbox : result[c] = NoResult

\* A value on its way back is an error or the result of the call it is for.
Right(results, c, value) ==
  /\ value # NoResult /\ value \in {Failed, results[c]}
  /\ results[c] # NoResult
\* So of every value in a sequence of chunks.
Sound(results, s) == \A i \in DOMAIN s : Right(results, s[i].call, s[i].value)
\* So wherever a value is: in a socket, the buffer, the core or the hand of the reader.
Genuine ==
  /\ \A g \in Cores : Sound(result, out[g])
  /\ Sound(result, buf)
  /\ \A r \in ready : Right(result, r[1], r[2])
  /\ writer # NoFrame => writer.call \in Calls /\ Right(result, writer.call, writer.value)
  /\ hand # NoFrame => Right(result, hand.call, hand.value)
  /\ \A c \in Calls : reply[c] \notin {NoResult, Failed} => Right(result, c, reply[c])

\* Headers and data alternate in what is to be read from the current socket and from
\* the sockets to come, across the border between the buffer and the socket.
Matches(x, y) ==
  IF x.part = "header" THEN y.part = "data" /\ y.call = x.call ELSE y.part = "header"
\* Headers and data take turns.
Alternates(s) == \A i \in 1 .. Len(s) - 1 : Matches(s[i], s[i + 1])
\* A frame begins with its header.
Starts(s) == s # <<>> => s[1].part = "header"
\* What was written last is the header of the frame under way, or all of a frame.
Ends(w, s) ==
  IF w = NoFrame THEN s[Len(s)].part = "data"
                 ELSE s[Len(s)].part = "header" /\ s[Len(s)].call = w.call
\* What is to be read is made of frames.
Framed ==
  /\ Len(buf) <= 2 /\ Alternates(buf) /\ Starts(buf)
  /\ \A g \in Cores : g >= sock => Alternates(out[g])
  /\ \A g \in Cores : g > sock => Starts(out[g])
  /\ sock # 0 /\ buf = <<>> => Starts(out[sock])
  /\ sock # 0 /\ buf # <<>> /\ out[sock] # <<>> => Matches(buf[Len(buf)], out[sock][1])
\* The core goes on with the frame that the other side has in part.
Closing ==
  alive =>
    /\ out[core] # <<>> => Ends(writer, out[core])
    /\ out[core] = <<>> /\ sock = core /\ buf # <<>> => Ends(writer, buf)
    /\ out[core] = <<>> /\ (sock # core \/ buf = <<>>) => writer = NoFrame

\* What a dead core leaves, and what the cores to come have written.
Quiet ==
  /\ alive => core # 0
  /\ ~alive => inbox = {} /\ ready = {} /\ writer = NoFrame
  /\ open => sock # 0
  /\ \A g \in Cores : g > core => out[g] = <<>>

\* The inductive invariant.
IInv ==
  /\ TypeOK /\ Slots /\ Order /\ Fresh /\ Once /\ Genuine /\ Framed /\ Closing /\ Quiet

-----------------------------------------------------------------------------
(* Lemmas about the values.                                                *)

\* Results, errors and what cannot be framed are told apart.
LEMMA Values ==
  /\ {NoResult, Failed, Garbage} \subseteq Outcomes
  /\ \A g \in 0 .. MaxCores : g \in Outcomes /\ g # Failed
  /\ Failed # NoResult /\ Garbage # NoResult
BY BoundsAssumption DEF Outcomes, NoResult, Failed, Garbage

\* A chunk is made of a call and a value, and so is a frame.
LEMMA Records ==
  /\ \A c \in Calls, v \in Outcomes :
       /\ Chunk("header", c, v) \in Chunks /\ Chunk("data", c, v) \in Chunks
       /\ [call |-> c, value |-> v] \in Frames
       /\ [call |-> c, value |-> v] # NoFrame
  /\ NoFrame \in Frames /\ NoFrame.call = NoCall
  /\ \A x \in Chunks : x.call \in Calls /\ x.value \in Outcomes /\ x.part \in {"header", "data"}
  /\ \A x \in Frames : x.value \in Outcomes /\ x.call \in Calls \cup {NoCall}
BY Values, CallsAssumption DEF Chunk, Chunks, Frames, NoFrame

\* What is appended comes last and moves nothing.
LEMMA Appended ==
  ASSUME NEW S, NEW s \in Seq(S), NEW e \in S
  PROVE  /\ Append(s, e) \in Seq(S) /\ Append(s, e) # <<>>
         /\ Len(s) \in Nat /\ Len(Append(s, e)) = Len(s) + 1
         /\ DOMAIN s = 1 .. Len(s) /\ DOMAIN Append(s, e) = 1 .. Len(s) + 1
         /\ Append(s, e)[Len(s) + 1] = e
         /\ \A i \in 1 .. Len(s) : Append(s, e)[i] = s[i] /\ s[i] \in S
BY AppendProperties, ElementOfSeq, LenProperties

\* Taking the first element moves the others by one.
LEMMA Taken ==
  ASSUME NEW S, NEW s \in Seq(S), s # <<>>
  PROVE  /\ Tail(s) \in Seq(S) /\ Head(s) \in S /\ Head(s) = s[1]
         /\ Len(s) \in Nat \ {0} /\ Len(Tail(s)) = Len(s) - 1
         /\ DOMAIN s = 1 .. Len(s) /\ DOMAIN Tail(s) = 1 .. Len(s) - 1
         /\ \A i \in 1 .. Len(s) - 1 : Tail(s)[i] = s[i + 1] /\ s[i + 1] \in S
BY HeadTailProperties, ElementOfSeq, LenProperties, EmptySeq

\* The frame at the front of the buffer.
LEMMA FrameFacts ==
  ASSUME TypeOK, Len(buf) >= 2
  PROVE  /\ Frame \in Frames /\ Frame.call = buf[1].call /\ Frame.call \in Calls
         /\ buf[1] \in Chunks /\ buf[2] \in Chunks
         /\ Frame.value \in {Failed, Garbage, buf[2].value}
         /\ buf[1].part = "header" /\ Matches(buf[1], buf[2])
              => Frame.value \in {Failed, buf[2].value}
<1>1. buf[1] \in Chunks /\ buf[2] \in Chunks
  BY ElementOfSeq, LenProperties DEF TypeOK
<1> QED
  BY <1>1, Values, Records DEF Frame, Frames, Matches

\* The tasks of the I/O thread.
Queue == [op : {"write"}, n : Calls] \cup [op : {"swap"}, n : Cores]

\* What is queued is a write for a call or the swap to the socket of a core.
LEMMA QueueFacts ==
  /\ TypeOK => tasks \in Seq(Queue)
  /\ \A t \in Queue : (t.op = "write" /\ t.n \in Calls) \/ (t.op = "swap" /\ t.n \in Cores)
  /\ \A c \in Calls : Task("write", c) \in Queue
  /\ \A g \in Cores : Task("swap", g) \in Queue
  /\ \A c \in Calls : Task("write", c).n = c /\ Task("write", c).op = "write"
  /\ \A g \in Cores : Task("swap", g).n = g /\ Task("swap", g).op = "swap"
<1>1. TypeOK => tasks \in Seq(Queue)
  BY DEF TypeOK, Queue
<1>2. \A t \in Queue : (t.op = "write" /\ t.n \in Calls) \/ (t.op = "swap" /\ t.n \in Cores)
  <2> TAKE t \in Queue
  <2>1. t \in [op : {"write"}, n : Calls] => t.op = "write" /\ t.n \in Calls
    OBVIOUS
  <2>2. t \in [op : {"swap"}, n : Cores] => t.op = "swap" /\ t.n \in Cores
    OBVIOUS
  <2>3. t \in [op : {"write"}, n : Calls] \/ t \in [op : {"swap"}, n : Cores]
    BY Zenon DEF Queue
  <2> QED
    BY <2>1, <2>2, <2>3
<1>3. \A c \in Calls : Task("write", c) \in Queue
  BY DEF Queue, Task
<1>4. \A g \in Cores : Task("swap", g) \in Queue
  BY DEF Queue, Task
<1>5. /\ \A c \in Calls : Task("write", c).n = c /\ Task("write", c).op = "write"
      /\ \A g \in Cores : Task("swap", g).n = g /\ Task("swap", g).op = "swap"
  BY DEF Task
<1> QED
  BY <1>1, <1>2, <1>3, <1>4, <1>5

\* A task is a write or a swap, and not both.
LEMMA TaskTyped ==
  ASSUME TypeOK, NEW i \in DOMAIN tasks
  PROVE  \/ IsWrite(i) /\ ~IsSwap(i) /\ tasks[i].n \in Calls
         \/ IsSwap(i) /\ ~IsWrite(i) /\ tasks[i].n \in Cores /\ tasks[i].n \in Nat
<1>1. tasks[i] \in Queue
  BY QueueFacts, ElementOfSeq, LenProperties
<1> QED
  BY <1>1, QueueFacts, BoundsAssumption DEF IsWrite, IsSwap, Cores

\* The first task: a swap or a write.
SwapNow ==
  /\ tasks[1].op = "swap" /\ tasks[1].n \in Cores
  /\ sock' = tasks[1].n /\ open' = TRUE /\ buf' = <<>> /\ UNCHANGED <<since, inbox>>
\* The write that TakeTask makes.
WriteNow ==
  /\ tasks[1].op = "write" /\ tasks[1].n \in Calls
  /\ inbox' = IF sock = core /\ alive THEN inbox \cup {tasks[1].n} ELSE inbox
  /\ since' = [since EXCEPT ![tasks[1].n] = 0] /\ UNCHANGED <<sock, open, buf>>
\* TakeTask swaps the socket or writes a frame.
LEMMA TakeTaskEffect ==
  ASSUME TypeOK, TakeTask
  PROVE  /\ tasks \in Seq(Queue) /\ tasks # <<>> /\ tasks' = Tail(tasks)
         /\ SwapNow \/ WriteNow
         /\ UNCHANGED <<caller, reply, ret, pending, connected, main, accepted, hand, failing,
                        core, alive, ready, writer, out, result, fails>>
<1>1. tasks \in Seq(Queue) /\ tasks # <<>>
  BY QueueFacts DEF TakeTask
<1>2. Head(tasks) \in Queue /\ Head(tasks) = tasks[1]
  BY <1>1, Taken
<1> QED
  BY <1>1, <1>2, QueueFacts DEF TakeTask, Swapped, SwapNow, WriteNow

\* A core that runs writes to its own stream.
LEMMA CoreWrites ==
  ASSUME TypeOK, Quiet, alive
  PROVE  core \in Cores /\ out[core] \in Seq(Chunks)
BY BoundsAssumption DEF TypeOK, Quiet, Cores

\* One socket of a core changes.
LEMMA OutTyped ==
  ASSUME TypeOK, NEW g \in Cores, NEW s \in Seq(Chunks)
  PROVE  [out EXCEPT ![g] = s] \in [Cores -> Seq(Chunks)]
BY DEF TypeOK

\* What is appended takes no socket away.
LEMMA ReachAppended ==
  ASSUME NEW q \in Seq(Queue), NEW e \in Queue, NEW s \in Nat, NEW g \in Nat,
         NEW i \in 1 .. Len(q) + 1, Reach(s, q, g, i)
  PROVE  Reach(s, Append(q, e), g, i) /\ Reach(s, Append(q, e), g, Len(q) + 2)
<1>1. /\ Len(q) \in Nat /\ DOMAIN q = 1 .. Len(q) /\ DOMAIN Append(q, e) = 1 .. Len(q) + 1
      /\ \A j \in DOMAIN q : Append(q, e)[j] = q[j]
  BY Appended
<1> QED
  BY <1>1 DEF Reach

\* Taking a task takes no socket away either: a swap that is taken is the new socket.
LEMMA ReachTaken ==
  ASSUME TypeOK, Order, TakeTask, NEW g \in Nat, NEW i \in DOMAIN tasks \cup {Len(tasks) + 1},
         i # 1, Reach(sock, tasks, g, i)
  PROVE  Reach(sock', tasks', g, i - 1)
<1>1. tasks \in Seq(Queue) /\ tasks # <<>> /\ tasks' = Tail(tasks)
  BY TakeTaskEffect
<1>2. /\ Len(tasks) \in Nat \ {0} /\ DOMAIN tasks = 1 .. Len(tasks) /\ DOMAIN tasks' = 1 .. Len(tasks) - 1
      /\ \A j \in DOMAIN tasks' : tasks'[j] = tasks[j + 1]
  BY <1>1, Taken
<1>3. 1 \in DOMAIN tasks
  BY <1>2
<1>4. sock \in Nat /\ sock' \in Nat /\ sock <= sock' /\ (IsSwap(1) => sock' = tasks[1].n)
  <2>1. SwapNow => sock' = tasks[1].n /\ IsSwap(1) /\ tasks[1].n \in Nat
    BY <1>3, TaskTyped DEF SwapNow, IsSwap, IsWrite
  <2>2. WriteNow => sock' = sock /\ ~IsSwap(1)
    BY DEF WriteNow, IsSwap
  <2>3. SwapNow \/ WriteNow
    BY TakeTaskEffect
  <2>4. IsSwap(1) => sock < tasks[1].n
    BY <1>3 DEF Order
  <2>5. sock \in Nat
    BY BoundsAssumption DEF TypeOK
  <2> QED
    BY <2>1, <2>2, <2>3, <2>4, <2>5
<1>5. CASE g <= sock
  BY <1>4, <1>5 DEF Reach
<1>6. ASSUME NEW j \in DOMAIN tasks, j < i, tasks[j].op = "swap", g <= tasks[j].n
      PROVE  Reach(sock', tasks', g, i - 1)
  <2>1. CASE j = 1
    BY <1>4, <1>6, <2>1 DEF Reach, IsSwap
  <2>2. CASE j # 1
    <3>1. j - 1 \in DOMAIN tasks' /\ tasks'[j - 1] = tasks[j] /\ j - 1 < i - 1
      BY <1>2, <1>6, <2>2
    <3> QED
      BY <1>6, <3>1 DEF Reach
  <2> QED
    BY <2>1, <2>2
<1> QED
  BY <1>5, <1>6 DEF Reach

-----------------------------------------------------------------------------
(* Every step keeps each part of the invariant.                            *)

\* The type invariant.
LEMMA TypeStep ==
  ASSUME TypeOK, Slots, Order, Genuine, Quiet, [Next]_vars
  PROVE  TypeOK'
<1> USE Values, Records DEF TypeOK
<1>1. ASSUME NEW c \in Calls, Call(c) PROVE TypeOK'
  <2>1. caller' \in [Calls -> {"idle", "checked", "registered", "waiting", "claimed", "done"}]
    BY <1>1 DEF Call, Return, Goto, At, io, cores
  <2>2. ret' \in [Calls -> Outcomes]
    BY <1>1 DEF Call, Return, Goto, At, io, cores
  <2>3. since' \in [Calls -> 0 .. MaxCores]
    BY <1>1 DEF Call, Return, Goto, At, io, cores
  <2> QED
    BY <1>1, <2>1, <2>2, <2>3 DEF Call, Return, Goto, At, io, cores
<1>2. ASSUME NEW c \in Calls, Register(c) PROVE TypeOK'
  BY <1>2 DEF Register, Goto, At, io, cores
<1>3. ASSUME NEW c \in Calls, QueueWrite(c) PROVE TypeOK'
  <2>1. caller' \in [Calls -> {"idle", "checked", "registered", "waiting", "claimed", "done"}]
    BY <1>3 DEF QueueWrite, Goto, At, io, cores, Task
  <2>2. tasks' \in Seq([op : {"write"}, n : Calls] \cup [op : {"swap"}, n : Cores])
    BY <1>3 DEF QueueWrite, Goto, At, io, cores, Task
  <2> QED
    BY <1>3, <2>1, <2>2 DEF QueueWrite, Goto, At, io, cores, Task
<1>4. ASSUME NEW c \in Calls, Wake(c) PROVE TypeOK'
  <2>1. caller' \in [Calls -> {"idle", "checked", "registered", "waiting", "claimed", "done"}]
    BY <1>4 DEF Wake, Return, Goto, At, callFrame, io, cores
  <2>2. ret' \in [Calls -> Outcomes]
    BY <1>4 DEF Wake, Return, Goto, At, callFrame, io, cores
  <2>3. reply' \in [Calls -> Outcomes]
    BY <1>4 DEF Wake, Return, Goto, At, callFrame, io, cores
  <2> QED
    BY <1>4, <2>1, <2>2, <2>3 DEF Wake, Return, Goto, At, callFrame, io, cores
<1>5. ASSUME NEW c \in Calls, Expire(c) PROVE TypeOK'
  <2>1. caller' \in [Calls -> {"idle", "checked", "registered", "waiting", "claimed", "done"}]
    BY <1>5 DEF Expire, Return, Goto, At, waitFrame, callFrame, io, cores
  <2>2. ret' \in [Calls -> Outcomes]
    BY <1>5 DEF Expire, Return, Goto, At, waitFrame, callFrame, io, cores
  <2> QED
    BY <1>5, <2>1, <2>2 DEF Expire, Return, Goto, At, waitFrame, callFrame, io, cores
<1>6. ASSUME NEW c \in Calls, GiveUp(c) PROVE TypeOK'
  <2>1. caller' \in [Calls -> {"idle", "checked", "registered", "waiting", "claimed", "done"}]
    BY <1>6 DEF GiveUp, Return, Goto, At, waitFrame, callFrame, io, cores
  <2>2. ret' \in [Calls -> Outcomes]
    BY <1>6 DEF GiveUp, Return, Goto, At, waitFrame, callFrame, io, cores
  <2> QED
    BY <1>6, <2>1, <2>2 DEF GiveUp, Return, Goto, At, waitFrame, callFrame, io, cores
<1>7. ASSUME NEW c \in Calls, Handle(c) PROVE TypeOK'
  <2>1. result' \in [Calls -> 0 .. MaxCores]
    BY <1>7 DEF Handle, coreFrame, threads, io
  <2>2. core \in Outcomes
    BY <1>7 DEF Handle, coreFrame, threads, io
  <2>3. ready' \in SUBSET (Calls \X Outcomes)
    BY <1>7, <2>2 DEF Handle, coreFrame, threads, io
  <2> QED
    BY <1>7, <2>1, <2>2, <2>3 DEF Handle, coreFrame, threads, io
<1>8. ASSUME Reconnect PROVE TypeOK'
  BY <1>8 DEF Reconnect, threads, io, cores
<1>9. ASSUME ReconnectFails PROVE TypeOK'
  <2>1. reply' \in [Calls -> Outcomes]
    BY <1>9 DEF ReconnectFails, failPending, io, cores
  <2> QED
    BY <1>9, <2>1 DEF ReconnectFails, failPending, io, cores
<1>10. ASSUME ReconnectSwaps PROVE TypeOK'
  <2>1. main.core \in Cores
    BY <1>10, BoundsAssumption DEF ReconnectSwaps, Order, Cores
  <2>2. tasks' \in Seq(Queue)
    BY <1>10, <2>1, QueueFacts DEF ReconnectSwaps
  <2>3. main' \in [pc : {"idle", "fail", "swap", "store"}, core : 0 .. MaxCores]
    BY <1>10 DEF ReconnectSwaps
  <2> QED
    BY <1>10, <2>2, <2>3 DEF ReconnectSwaps, threads, io, cores, Queue
<1>11. ASSUME ReconnectEnds PROVE TypeOK'
  BY <1>11 DEF ReconnectEnds, threads, io, cores
<1>12. ASSUME FailInFlightCalls PROVE TypeOK'
  <2>1. reply' \in [Calls -> Outcomes]
    BY <1>12 DEF FailInFlightCalls, failPending, io, cores
  <2> QED
    BY <1>12, <2>1, BoundsAssumption DEF FailInFlightCalls, failPending, io, cores
<1>13. ASSUME TakeTask PROVE TypeOK'
  <2>0. tasks \in Seq(Queue) /\ tasks # <<>> /\ tasks' = Tail(tasks)
    BY <1>13, TakeTaskEffect
  <2>1. tasks' \in Seq(Queue)
    BY <2>0, Taken
  <2>2. CASE SwapNow
    <3>1. sock' \in 0 .. MaxCores
      BY <2>2, BoundsAssumption DEF SwapNow, Cores
    <3>2. buf' \in Seq(Chunks)
      BY <2>2, EmptySeq DEF SwapNow
    <3> QED
      BY <1>13, <2>1, <2>2, <3>1, <3>2, TakeTaskEffect DEF SwapNow, Queue
  <2>3. CASE WriteNow
    <3>1. since' \in [Calls -> 0 .. MaxCores]
      BY <2>3, BoundsAssumption DEF WriteNow
    <3>2. inbox' \in SUBSET Calls
      BY <2>3 DEF WriteNow
    <3> QED
      BY <1>13, <2>1, <2>3, <3>1, <3>2, TakeTaskEffect DEF WriteNow, Queue
  <2> QED
    BY <1>13, <2>2, <2>3, TakeTaskEffect
<1>14. ASSUME onReadyRead PROVE TypeOK'
  <2>0. sock \in Cores
    BY <1>14, BoundsAssumption DEF onReadyRead, Quiet, Cores
  <2>1. out[sock] \in Seq(Chunks)
    BY <2>0
  <2>2. Head(out[sock]) \in Chunks /\ Tail(out[sock]) \in Seq(Chunks)
    BY <1>14, <2>1, Taken DEF onReadyRead, Free, threads
  <2>3. buf' \in Seq(Chunks)
    BY <1>14, <2>2 DEF onReadyRead, Free, threads
  <2>4. out' \in [Cores -> Seq(Chunks)]
    BY <1>14, <2>2 DEF onReadyRead, Free, threads
  <2> QED
    BY <1>14, <2>1, <2>2, <2>3, <2>4 DEF onReadyRead, Free, threads
<1>15. ASSUME TakeFrame PROVE TypeOK'
  <2>1. buf' \in Seq(Chunks)
    BY <1>15, SubSeqProperties DEF TakeFrame, Frame, cores
  <2>2. hand' \in Frames
    BY <1>15, FrameFacts DEF TakeFrame, Frame, cores
  <2> QED
    BY <1>15, <2>1, <2>2 DEF TakeFrame, Frame, cores
<1>16. ASSUME Deliver PROVE TypeOK'
  <2>1. reply' \in [Calls -> Outcomes]
    BY <1>16 DEF Deliver, cores
  <2>2. hand' \in Frames
    BY <1>16 DEF Deliver, cores
  <2> QED
    BY <1>16, <2>1, <2>2 DEF Deliver, cores
<1>17. ASSUME Disconnected PROVE TypeOK'
  BY <1>17 DEF Disconnected, Free, threads, cores
<1>18. ASSUME DisconnectFails PROVE TypeOK'
  <2>1. reply' \in [Calls -> Outcomes]
    BY <1>18 DEF DisconnectFails, failPending, cores
  <2> QED
    BY <1>18, <2>1 DEF DisconnectFails, failPending, cores
<1>19. ASSUME CoreStarts PROVE TypeOK'
  <2>1. core' \in 0 .. MaxCores
    BY <1>19, BoundsAssumption DEF CoreStarts, coreFrame, threads, io
  <2> QED
    BY <1>19, <2>1 DEF CoreStarts, coreFrame, threads, io
<1>20. ASSUME CoreDies PROVE TypeOK'
  <2>1. writer' \in Frames
    BY <1>20 DEF CoreDies, coreFrame, threads, io
  <2> QED
    BY <1>20, <2>1 DEF CoreDies, coreFrame, threads, io
<1>21. ASSUME WriteHeader PROVE TypeOK'
  <2>1. PICK r \in ready :
          /\ writer' = [call |-> r[1], value |-> r[2]] /\ ready' = ready \ {r}
          /\ out' = [out EXCEPT ![core] = Append(out[core], Chunk("header", r[1], r[2]))]
    BY <1>21 DEF WriteHeader
  <2>2. r[1] \in Calls /\ r[2] \in Outcomes
    OBVIOUS
  <2>3. writer' \in Frames /\ Chunk("header", r[1], r[2]) \in Chunks
    BY <2>1, <2>2
  <2>4. core \in Cores /\ Append(out[core], Chunk("header", r[1], r[2])) \in Seq(Chunks)
    BY <1>21, <2>3, CoreWrites, Appended DEF WriteHeader
  <2>5. out' \in [Cores -> Seq(Chunks)]
    BY <2>1, <2>4, OutTyped
  <2> QED
    BY <1>21, <2>1, <2>3, <2>5 DEF WriteHeader, coreFrame, threads, io
<1>22. ASSUME WriteData PROVE TypeOK'
  <2>1. Chunk("data", writer.call, writer.value) \in Chunks
    BY <1>22 DEF WriteData, Genuine
  <2>2. core \in Cores /\ Append(out[core], Chunk("data", writer.call, writer.value)) \in Seq(Chunks)
    BY <1>22, <2>1, CoreWrites, Appended DEF WriteData
  <2>3. out' \in [Cores -> Seq(Chunks)]
    BY <1>22, <2>2, OutTyped DEF WriteData
  <2> QED
    BY <1>22, <2>3 DEF WriteData, coreFrame, threads, io
<1>23. CASE UNCHANGED vars
  BY <1>23 DEF vars, threads, io, cores
<1> QED
  BY <1>1, <1>2, <1>3, <1>4, <1>5, <1>6, <1>7, <1>8, <1>9, <1>10, <1>11, <1>12, <1>13, <1>14, <1>15, <1>16, <1>17, <1>18, <1>19, <1>20, <1>21, <1>22, <1>23 DEF Next, Caller

\* failPending wakes every call that has a slot, with an error.
LEMMA FailsSlots ==
  ASSUME TypeOK, Slots, failPending, UNCHANGED hand
  PROVE  Slots'
<1>1. \A c \in Calls : reply'[c] = IF c \in pending THEN Failed ELSE reply[c]
  BY DEF failPending
<1>2. pending' = {} /\ UNCHANGED <<caller, ret>>
  BY DEF failPending
<1> QED
  BY <1>1, <1>2, Values DEF Slots, SlotsAgree, TypeOK

\* Slots, replies and the frame in hand go on agreeing with where the callers are.
LEMMA SlotsStep ==
  ASSUME TypeOK, Slots, Genuine, [Next]_vars
  PROVE  Slots'
<1>1. ASSUME NEW c \in Calls, Call(c) PROVE Slots'
  <2>1. /\ caller[c] = "idle" /\ caller'[c] \in {"done", "checked"}
        /\ \A d \in Calls : d # c => caller'[d] = caller[d] /\ ret'[d] = ret[d]
        /\ caller'[c] = "checked" => ret' = ret
        /\ UNCHANGED <<reply, pending, hand>>
    BY <1>1 DEF Call, Return, Goto, At, io, cores, TypeOK
  <2> QED
    BY <2>1 DEF Slots, SlotsAgree, TypeOK
<1>2. ASSUME NEW c \in Calls, Register(c) PROVE Slots'
  BY <1>2 DEF Register, Goto, At, io, cores, Slots, SlotsAgree, TypeOK
<1>3. ASSUME NEW c \in Calls, QueueWrite(c) PROVE Slots'
  BY <1>3 DEF QueueWrite, Goto, At, io, cores, Task, Slots, SlotsAgree, TypeOK
<1>4. ASSUME NEW c \in Calls, Wake(c) PROVE Slots'
  BY <1>4 DEF Wake, Return, Goto, At, callFrame, io, cores, Slots, SlotsAgree, TypeOK
<1>5. ASSUME NEW c \in Calls, Expire(c) PROVE Slots'
  BY <1>5 DEF Expire, Return, Goto, At, waitFrame, callFrame, io, cores, Slots, SlotsAgree, TypeOK
<1>6. ASSUME NEW c \in Calls, GiveUp(c) PROVE Slots'
  BY <1>6 DEF GiveUp, Return, Goto, At, waitFrame, callFrame, io, cores, Slots, SlotsAgree, TypeOK
<1>7. ASSUME ReconnectFails PROVE Slots'
  BY <1>7, FailsSlots DEF ReconnectFails, io
<1>8. ASSUME FailInFlightCalls PROVE Slots'
  BY <1>8, FailsSlots DEF FailInFlightCalls, io
<1>9. ASSUME TakeFrame PROVE Slots'
  <2>1. /\ Frame \in Frames /\ Frame.call \in Calls /\ buf[2] \in Chunks
        /\ Frame.value \in {Failed, Garbage, buf[2].value}
    BY <1>9, FrameFacts DEF TakeFrame
  <2>2. 2 \in DOMAIN buf
    BY <1>9, LenProperties DEF TakeFrame, TypeOK
  <2>3. Frame.value # NoResult
    BY <2>1, <2>2, Values DEF Genuine, Sound, Right
  <2>4. Frame # NoFrame
    BY <2>1, CallsAssumption, Records
  <2>5. CASE Frame.call \in pending
    <3>1. hand' = Frame /\ pending' = pending \ {Frame.call} /\ UNCHANGED <<caller, reply, ret>>
      BY <1>9, <2>5 DEF TakeFrame
    <3>2. hand = NoFrame /\ NoFrame.call \notin Calls
      BY <1>9, CallsAssumption, Records DEF TakeFrame
    <3> QED
      BY <2>1, <2>3, <2>5, <3>1, <3>2 DEF Slots, SlotsAgree, TypeOK
  <2>6. CASE Frame.call \notin pending
    <3>1. UNCHANGED <<hand, pending, caller, reply, ret>>
      BY <1>9, <2>6 DEF TakeFrame
    <3> QED
      BY <3>1 DEF Slots, SlotsAgree
  <2> QED
    BY <2>5, <2>6
<1>10. ASSUME Deliver PROVE Slots'
  <2>1. hand.call \in Calls /\ hand.value # NoResult /\ hand.call \notin pending
    BY <1>10 DEF Deliver, Slots
  <2>2. NoFrame.call \notin Calls
    BY CallsAssumption, Records
  <2>3. /\ reply'[hand.call] = hand.value
        /\ \A d \in Calls : d # hand.call => reply'[d] = reply[d]
        /\ hand' = NoFrame /\ UNCHANGED <<caller, ret, pending>>
    BY <1>10, <2>1 DEF Deliver, TypeOK
  <2> QED
    BY <2>1, <2>2, <2>3 DEF Slots, SlotsAgree, TypeOK
<1>11. ASSUME DisconnectFails PROVE Slots'
  BY <1>11, FailsSlots DEF DisconnectFails
<1>12. CASE UNCHANGED <<caller, reply, ret, pending, hand>>
  BY <1>12 DEF Slots, SlotsAgree
<1>13. ASSUME
         \/ \E c \in Calls : Handle(c)
         \/ Reconnect \/ ReconnectSwaps \/ ReconnectEnds \/ TakeTask \/ onReadyRead \/
            Disconnected \/ CoreStarts \/ CoreDies \/ WriteHeader \/ WriteData
         \/ UNCHANGED vars
      PROVE  UNCHANGED <<caller, reply, ret, pending, hand>>
  BY <1>13 DEF Handle, coreFrame, threads, io, Reconnect, cores, ReconnectSwaps, ReconnectEnds,
         TakeTask, onReadyRead, Disconnected, CoreStarts, CoreDies, WriteHeader, WriteData,
         vars
<1> QED
  BY <1>1, <1>2, <1>3, <1>4, <1>5, <1>6, <1>7, <1>8, <1>9, <1>10, <1>11, <1>12, <1>13 DEF Next, Caller

\* The order of sockets is kept: only Reconnect, with a newer core, adds to it.
LEMMA OrderStep ==
  ASSUME TypeOK, Order, [Next]_vars
  PROVE  Order'
<1>1. ASSUME NEW c \in Calls, QueueWrite(c) PROVE Order'
  <2>1. tasks \in Seq(Queue) /\ Task("write", c) \in Queue /\ Task("write", c).op = "write"
    BY QueueFacts
  <2>2. \A i \in DOMAIN tasks' : IsSwap(i)' => i \in DOMAIN tasks /\ tasks'[i] = tasks[i]
    BY <1>1, <2>1, Appended DEF QueueWrite, IsSwap
  <2> QED
    BY <1>1, <2>2 DEF QueueWrite, io, cores, Order, IsSwap
<1>2. ASSUME Reconnect PROVE Order'
  <2>1. \A i \in DOMAIN tasks : IsSwap(i) => tasks[i].n \in Nat
    BY TaskTyped
  <2>2. /\ main'.pc = "fail" /\ main'.core = core /\ main.core < core
        /\ UNCHANGED <<tasks, sock, accepted, core>>
    BY <1>2 DEF Reconnect, io, cores
  <2> QED
    BY <2>1, <2>2 DEF Order, IsSwap, TypeOK
<1>3. ASSUME ReconnectFails PROVE Order'
  BY <1>3 DEF ReconnectFails, io, cores, Order, IsSwap, TypeOK
<1>4. ASSUME ReconnectSwaps PROVE Order'
  <2>1. main.core \in Cores /\ tasks \in Seq(Queue)
    BY <1>4, BoundsAssumption, QueueFacts DEF ReconnectSwaps, Order, Cores, TypeOK
  <2>2. /\ Task("swap", main.core) \in Queue
        /\ Task("swap", main.core).op = "swap" /\ Task("swap", main.core).n = main.core
    BY <2>1, QueueFacts
  <2>3. /\ main.pc = "swap" /\ main'.pc = "store" /\ main'.core = main.core
        /\ tasks' = Append(tasks, Task("swap", main.core)) /\ UNCHANGED <<sock, accepted, core>>
    BY <1>4 DEF ReconnectSwaps, io, cores, TypeOK
  <2>4. /\ Len(tasks) \in Nat /\ DOMAIN tasks = 1 .. Len(tasks) /\ DOMAIN tasks' = 1 .. Len(tasks) + 1
        /\ \A i \in DOMAIN tasks : tasks'[i] = tasks[i]
        /\ tasks'[Len(tasks) + 1].n = main.core
    BY <2>1, <2>2, <2>3, Appended
  <2>5. \A i \in DOMAIN tasks : IsSwap(i) => tasks[i].n \in Nat
    BY TaskTyped
  <2> HIDE DEF IsSwap
  <2>6. \A i \in DOMAIN tasks : IsSwap(i)' <=> IsSwap(i)
    BY <2>4 DEF IsSwap
  <2>7. \A i \in DOMAIN tasks' : i \in DOMAIN tasks \/ i = Len(tasks) + 1
    BY <2>4
  <2>8. \A i \in DOMAIN tasks' : IsSwap(i)' => sock < tasks'[i].n /\ tasks'[i].n <= main.core
    BY <2>1, <2>3, <2>4, <2>5, <2>6, <2>7 DEF Order, TypeOK, Cores
  <2>9. \A i, j \in DOMAIN tasks' : IsSwap(i)' /\ IsSwap(j)' /\ i < j => tasks'[i].n < tasks'[j].n
    BY <2>3, <2>4, <2>5, <2>6, <2>7 DEF Order
  <2> QED
    BY <2>3, <2>8, <2>9 DEF Order
<1>5. ASSUME ReconnectEnds PROVE Order'
  BY <1>5 DEF ReconnectEnds, io, cores, Order, IsSwap, TypeOK
<1>6. ASSUME TakeTask PROVE Order'
  <2>1. tasks \in Seq(Queue) /\ tasks # <<>> /\ tasks' = Tail(tasks) /\ UNCHANGED <<main, accepted, core>>
    BY <1>6, TakeTaskEffect
  <2>2. /\ Len(tasks) \in Nat \ {0} /\ DOMAIN tasks = 1 .. Len(tasks) /\ DOMAIN tasks' = 1 .. Len(tasks) - 1
        /\ \A i \in DOMAIN tasks' : tasks'[i] = tasks[i + 1]
    BY <2>1, Taken
  <2>3. \A i \in DOMAIN tasks' : i + 1 \in DOMAIN tasks /\ 1 < i + 1 /\ (IsSwap(i)' <=> IsSwap(i + 1))
    BY <2>2 DEF IsSwap
  <2>4. 1 \in DOMAIN tasks
    BY <2>2
  <2>5. sock' = sock \/ (IsSwap(1) /\ sock' = tasks[1].n)
    <3>1. SwapNow => IsSwap(1) /\ sock' = tasks[1].n
      BY DEF SwapNow, IsSwap
    <3>2. WriteNow => sock' = sock
      BY DEF WriteNow
    <3>3. SwapNow \/ WriteNow
      BY <1>6, TakeTaskEffect
    <3> QED
      BY <3>1, <3>2, <3>3
  <2>6. \A i \in DOMAIN tasks' : IsSwap(i)' => sock' < tasks'[i].n
    BY <2>2, <2>3, <2>4, <2>5 DEF Order
  <2>7. sock' <= main.core /\ (main.pc \in {"fail", "swap"} => sock' < main.core)
    BY <2>4, <2>5 DEF Order
  <2>8. \A i, j \in DOMAIN tasks' : IsSwap(i)' /\ IsSwap(j)' /\ i < j => tasks'[i].n < tasks'[j].n
    <3> SUFFICES ASSUME NEW i \in DOMAIN tasks', NEW j \in DOMAIN tasks', IsSwap(i)', IsSwap(j)', i < j
                 PROVE  tasks'[i].n < tasks'[j].n
      OBVIOUS
    <3>1. i + 1 \in DOMAIN tasks /\ j + 1 \in DOMAIN tasks /\ i + 1 < j + 1
      BY <2>2
    <3> QED
      BY <2>2, <2>3, <3>1 DEF Order
  <2>9. \A i \in DOMAIN tasks' : IsSwap(i)' =>
          /\ tasks'[i].n <= main.core
          /\ main.pc \in {"fail", "swap"} => tasks'[i].n < main.core
    BY <2>2, <2>3 DEF Order
  <2> QED
    BY <2>1, <2>6, <2>7, <2>8, <2>9 DEF Order
<1>7. ASSUME CoreStarts PROVE Order'
  BY <1>7 DEF CoreStarts, coreFrame, io, Order, IsSwap, TypeOK
<1>8. CASE UNCHANGED <<sock, main, core, accepted, tasks>>
  BY <1>8 DEF Order, IsSwap
<1>9. ASSUME
         \/ \E c \in Calls : Call(c) \/ Register(c) \/ Wake(c) \/ Expire(c) \/ GiveUp(c) \/
            Handle(c)
         \/ FailInFlightCalls \/ onReadyRead \/ TakeFrame \/ Deliver \/ Disconnected \/
            DisconnectFails \/ CoreDies \/ WriteHeader \/ WriteData
         \/ UNCHANGED vars
      PROVE  UNCHANGED <<sock, main, core, accepted, tasks>>
  BY <1>9 DEF Call, Return, Goto, io, cores, Register, Wake, callFrame, Expire, waitFrame, GiveUp,
         Handle, coreFrame, threads, FailInFlightCalls, failPending, onReadyRead, TakeFrame,
         Deliver, Disconnected, DisconnectFails, CoreDies, WriteHeader, WriteData, vars
<1> QED
  BY <1>1, <1>2, <1>3, <1>4, <1>5, <1>6, <1>7, <1>8, <1>9 DEF Next, Caller

\* Every queued write still finds the socket its call counted on.
LEMMA FreshStep ==
  ASSUME TypeOK, TypeOK', Order, Fresh, Once, [Next]_vars
  PROVE  Fresh'
<1>1. ASSUME NEW c \in Calls, Call(c) PROVE Fresh'
  <2>1. UNCHANGED <<sock, main, accepted, tasks>>
    BY <1>1 DEF Call, io
  <2>2. CASE UNCHANGED since
    BY <2>1, <2>2 DEF Fresh, IsWrite
  <2>3. CASE since' = [since EXCEPT ![c] = accepted]
    <3>1. \A d \in Calls : since'[d] = since[d] \/ since'[d] = accepted
      BY <2>3 DEF TypeOK
    <3>2. accepted <= accepted
      BY DEF TypeOK
    <3>3. \A d \in Calls : since'[d] <= accepted
      BY <3>1, <3>2 DEF Fresh
    <3>4. ASSUME NEW i \in DOMAIN tasks, IsWrite(i)
          PROVE  since'[tasks[i].n] = since[tasks[i].n]
      <4>1. tasks[i].n \in Calls /\ caller[tasks[i].n] \notin Early
        BY <3>4, TaskTyped DEF Once, IsSwap, IsWrite
      <4>2. tasks[i].n # c
        BY <1>1, <4>1 DEF Call, At, Early
      <4> QED
        BY <2>3, <4>1, <4>2 DEF TypeOK
    <3> QED
      BY <2>1, <3>3, <3>4 DEF Fresh, IsWrite
  <2> QED
    BY <1>1, <2>2, <2>3 DEF Call
<1>2. ASSUME NEW c \in Calls, QueueWrite(c) PROVE Fresh'
  <2>1. /\ tasks \in Seq(Queue) /\ Task("write", c) \in Queue /\ Task("write", c).n = c
        /\ tasks' = Append(tasks, Task("write", c)) /\ UNCHANGED <<sock, main, accepted, since>>
    BY <1>2, QueueFacts DEF QueueWrite, io
  <2>2. /\ Len(tasks) \in Nat /\ Len(tasks') = Len(tasks) + 1
        /\ DOMAIN tasks = 1 .. Len(tasks) /\ DOMAIN tasks' = 1 .. Len(tasks) + 1
        /\ \A i \in DOMAIN tasks : tasks'[i] = tasks[i]
        /\ tasks'[Len(tasks) + 1].n = c
    BY <2>1, Appended
  <2>3. \A d \in Calls : since[d] \in Nat /\ since[d] <= accepted
    BY DEF Fresh, TypeOK
  <2>4. sock \in Nat /\ accepted \in Nat /\ main.core \in Nat
    BY DEF TypeOK
  <2>5. Reach(sock, tasks, since[c], Len(tasks) + 1)
    BY <2>2, <2>3, <2>4, TaskTyped DEF Fresh, Reach, IsSwap, IsWrite
  <2>6. ASSUME NEW g \in Nat, NEW i \in 1 .. Len(tasks) + 1, Reach(sock, tasks, g, i)
        PROVE  Reach(sock, tasks', g, i) /\ Reach(sock, tasks', g, Len(tasks) + 2)
    BY <2>1, <2>4, <2>6, ReachAppended
  <2>7. ASSUME NEW i \in DOMAIN tasks', IsWrite(i)'
        PROVE  Reach(sock, tasks', since[tasks'[i].n], i)
    <3>1. CASE i \in DOMAIN tasks
      <4>1. IsWrite(i) /\ tasks[i].n \in Calls /\ tasks'[i] = tasks[i]
        BY <2>2, <2>7, <3>1, TaskTyped DEF IsWrite, IsSwap
      <4>2. Reach(sock, tasks, since[tasks[i].n], i) /\ since[tasks[i].n] \in Nat
        BY <2>3, <3>1, <4>1 DEF Fresh
      <4> QED
        BY <2>2, <2>6, <3>1, <4>1, <4>2
    <3>2. CASE i = Len(tasks) + 1
      BY <2>2, <2>3, <2>5, <2>6, <3>2
    <3> QED
      BY <2>2, <2>7, <3>1, <3>2
  <2>8. /\ Reach(sock, tasks', accepted, Len(tasks) + 2)
        /\ main.pc = "store" => Reach(sock, tasks', main.core, Len(tasks) + 2)
    BY <2>2, <2>4, <2>6 DEF Fresh
  <2> QED
    BY <2>1, <2>2, <2>3, <2>7, <2>8 DEF Fresh
<1>3. ASSUME Reconnect PROVE Fresh'
  BY <1>3 DEF Reconnect, threads, io, cores, Fresh, IsWrite
<1>4. ASSUME ReconnectFails PROVE Fresh'
  BY <1>4 DEF ReconnectFails, failPending, io, cores, Fresh, IsWrite, TypeOK
<1>5. ASSUME ReconnectSwaps PROVE Fresh'
  <2>1. /\ main.core \in Cores /\ tasks \in Seq(Queue) /\ Task("swap", main.core) \in Queue
        /\ Task("swap", main.core).n = main.core /\ Task("swap", main.core).op = "swap"
    <3>1. main.core \in Cores
      BY <1>5, BoundsAssumption DEF ReconnectSwaps, Order, Cores, TypeOK
    <3> QED
      BY <3>1, QueueFacts
  <2>2. /\ tasks' = Append(tasks, Task("swap", main.core)) /\ main'.core = main.core
        /\ UNCHANGED <<sock, accepted, since>>
    BY <1>5 DEF ReconnectSwaps, io, threads, TypeOK
  <2>3. /\ Len(tasks) \in Nat /\ Len(tasks') = Len(tasks) + 1
        /\ DOMAIN tasks = 1 .. Len(tasks) /\ DOMAIN tasks' = 1 .. Len(tasks) + 1
        /\ \A i \in DOMAIN tasks : tasks'[i] = tasks[i]
        /\ tasks'[Len(tasks) + 1] = Task("swap", main.core)
    BY <2>1, <2>2, Appended
  <2>4. sock \in Nat /\ accepted \in Nat /\ main.core \in Nat /\ \A d \in Calls : since[d] \in Nat
    BY DEF TypeOK
  <2>5. ASSUME NEW g \in Nat, NEW i \in 1 .. Len(tasks) + 1, Reach(sock, tasks, g, i)
        PROVE  Reach(sock, tasks', g, i) /\ Reach(sock, tasks', g, Len(tasks) + 2)
    BY <2>1, <2>2, <2>4, <2>5, ReachAppended
  <2>6. ASSUME NEW i \in DOMAIN tasks', IsWrite(i)'
        PROVE  Reach(sock, tasks', since[tasks'[i].n], i)
    <3>1. i \in DOMAIN tasks
      BY <2>1, <2>3, <2>6 DEF IsWrite
    <3>2. IsWrite(i) /\ tasks[i].n \in Calls /\ tasks'[i] = tasks[i]
      BY <2>3, <2>6, <3>1, TaskTyped DEF IsWrite, IsSwap
    <3>3. Reach(sock, tasks, since[tasks[i].n], i) /\ since[tasks[i].n] \in Nat
      BY <2>4, <3>1, <3>2 DEF Fresh
    <3> QED
      BY <2>3, <2>5, <3>1, <3>2, <3>3
  <2>7. Reach(sock, tasks', accepted, Len(tasks) + 2)
    BY <2>3, <2>4, <2>5 DEF Fresh
  <2>8. Reach(sock, tasks', main.core, Len(tasks) + 2)
    BY <2>1, <2>3, <2>4 DEF Reach
  <2> QED
    BY <2>2, <2>3, <2>6, <2>7, <2>8 DEF Fresh
<1>6. ASSUME ReconnectEnds PROVE Fresh'
  BY <1>6 DEF ReconnectEnds, threads, io, cores, Fresh, IsWrite, TypeOK, Order
<1>7. ASSUME TakeTask PROVE Fresh'
  <2>1. tasks \in Seq(Queue) /\ tasks # <<>> /\ tasks' = Tail(tasks) /\ UNCHANGED <<main, accepted>>
    BY <1>7, TakeTaskEffect
  <2>2. /\ Len(tasks) \in Nat \ {0} /\ Len(tasks') = Len(tasks) - 1
        /\ DOMAIN tasks = 1 .. Len(tasks) /\ DOMAIN tasks' = 1 .. Len(tasks) - 1
        /\ \A i \in DOMAIN tasks' : tasks'[i] = tasks[i + 1]
    BY <2>1, Taken
  <2>3. accepted \in Nat /\ main.core \in Nat /\ \A d \in Calls : since[d] \in Nat
    BY DEF TypeOK
  <2>4. \A d \in Calls : since'[d] = since[d] \/ since'[d] = 0
    <3>1. SwapNow => UNCHANGED since
      BY DEF SwapNow
    <3>2. WriteNow => since' = [since EXCEPT ![tasks[1].n] = 0]
      BY DEF WriteNow
    <3> QED
      BY <1>7, <3>1, <3>2, TakeTaskEffect DEF TypeOK
  <2>5. ASSUME NEW i \in DOMAIN tasks', IsWrite(i)'
        PROVE  Reach(sock', tasks', since'[tasks'[i].n], i)
    <3>1. i + 1 \in DOMAIN tasks /\ IsWrite(i + 1) /\ tasks'[i] = tasks[i + 1]
      BY <2>2, <2>5 DEF IsWrite
    <3>2. tasks[i + 1].n \in Calls
      BY <3>1, TaskTyped DEF IsWrite, IsSwap
    <3>3. Reach(sock, tasks, since[tasks[i + 1].n], i + 1)
      BY <3>1 DEF Fresh
    <3>4. i + 1 # 1 /\ (i + 1) - 1 = i
      BY <2>2, <3>1
    <3>5. Reach(sock', tasks', since[tasks[i + 1].n], i)
      BY <1>7, <2>3, <3>1, <3>2, <3>3, <3>4, ReachTaken
    <3>6. 0 <= sock'
      BY DEF TypeOK
    <3> QED
      BY <2>4, <3>1, <3>2, <3>5, <3>6 DEF Reach
  <2>6. Len(tasks) + 1 # 1 /\ (Len(tasks) + 1) - 1 = Len(tasks') + 1
    BY <2>2
  <2>7. /\ Reach(sock', tasks', accepted, Len(tasks') + 1)
        /\ main.pc = "store" => Reach(sock', tasks', main.core, Len(tasks') + 1)
    BY <1>7, <2>3, <2>6, ReachTaken DEF Fresh
  <2>8. \A d \in Calls : since'[d] <= accepted
    BY <2>3, <2>4 DEF Fresh
  <2> QED
    BY <2>1, <2>5, <2>7, <2>8 DEF Fresh
<1>8. CASE UNCHANGED <<sock, main, accepted, since, tasks>>
  BY <1>8 DEF Fresh, IsWrite
<1>9. ASSUME
         \/ \E c \in Calls : Register(c) \/ Wake(c) \/ Expire(c) \/ GiveUp(c) \/ Handle(c)
         \/ FailInFlightCalls \/ onReadyRead \/ TakeFrame \/ Deliver \/ Disconnected \/
            DisconnectFails \/ CoreStarts \/ CoreDies \/ WriteHeader \/ WriteData
         \/ UNCHANGED vars
      PROVE  UNCHANGED <<sock, main, accepted, since, tasks>>
  BY <1>9 DEF Register, Goto, io, cores, Wake, Return, callFrame, Expire, waitFrame, GiveUp,
         Handle, coreFrame, threads, FailInFlightCalls, failPending, onReadyRead, TakeFrame,
         Deliver, Disconnected, DisconnectFails, CoreStarts, CoreDies, WriteHeader,
         WriteData, vars
<1> QED
  BY <1>1, <1>2, <1>3, <1>4, <1>5, <1>6, <1>7, <1>8, <1>9 DEF Next, Caller

\* No call is queued, received or run a second time.
LEMMA OnceStep ==
  ASSUME TypeOK, Order, Once, [Next]_vars
  PROVE  Once'
<1>1. ASSUME NEW c \in Calls, Call(c) PROVE Once'
  BY <1>1, TaskTyped DEF Call, Return, Goto, At, io, cores, Once, IsWrite, IsSwap, Early, TypeOK
<1>2. ASSUME NEW c \in Calls, Register(c) PROVE Once'
  BY <1>2, TaskTyped DEF Register, Goto, At, io, cores, Once, IsWrite, IsSwap, Early, TypeOK
<1>3. ASSUME NEW c \in Calls, QueueWrite(c) PROVE Once'
  <2>1. /\ tasks \in Seq(Queue) /\ Task("write", c) \in Queue /\ Task("write", c).n = c
        /\ tasks' = Append(tasks, Task("write", c)) /\ UNCHANGED <<inbox, result>>
    BY <1>3, QueueFacts DEF QueueWrite, cores
  <2>2. /\ Len(tasks) \in Nat /\ DOMAIN tasks = 1 .. Len(tasks) /\ DOMAIN tasks' = 1 .. Len(tasks) + 1
        /\ \A i \in DOMAIN tasks : tasks'[i] = tasks[i]
        /\ tasks'[Len(tasks) + 1].n = c
    BY <2>1, Appended
  <2>3. /\ caller[c] \in Early /\ caller'[c] \notin Early
        /\ \A d \in Calls : d # c => caller'[d] = caller[d]
    BY <1>3 DEF QueueWrite, At, Goto, Early, TypeOK
  <2>4. c \notin inbox /\ result[c] = NoResult
    BY <2>3 DEF Once
  <2>5. \A i \in DOMAIN tasks : IsWrite(i) => tasks[i].n \in Calls /\ tasks[i].n # c
    BY <2>3, TaskTyped DEF Once, IsWrite, IsSwap
  <2>6. \A i \in DOMAIN tasks' : i \in DOMAIN tasks \/ i = Len(tasks) + 1
    BY <2>2
  <2>7. \A i \in DOMAIN tasks' : IsWrite(i)' =>
          /\ caller'[tasks'[i].n] \notin Early
          /\ tasks'[i].n \notin inbox /\ result[tasks'[i].n] = NoResult
    BY <2>2, <2>3, <2>4, <2>5, <2>6 DEF Once, IsWrite
  <2>8. \A i, j \in DOMAIN tasks' : IsWrite(i)' /\ IsWrite(j)' /\ tasks'[i].n = tasks'[j].n => i = j
    BY <2>2, <2>5, <2>6 DEF Once, IsWrite
  <2> QED
    BY <2>1, <2>3, <2>7, <2>8 DEF Once
<1>4. ASSUME NEW c \in Calls, Wake(c) PROVE Once'
  BY <1>4, TaskTyped DEF Wake, Return, Goto, At, callFrame, io, cores, Once, IsWrite, IsSwap, Early, TypeOK
<1>5. ASSUME NEW c \in Calls, Expire(c) PROVE Once'
  BY <1>5, TaskTyped DEF Expire, Return, Goto, At, waitFrame, callFrame, io, cores, Once, IsWrite, IsSwap, Early, TypeOK
<1>6. ASSUME NEW c \in Calls, GiveUp(c) PROVE Once'
  BY <1>6, TaskTyped DEF GiveUp, Return, Goto, At, waitFrame, callFrame, io, cores, Once, IsWrite, IsSwap, Early, TypeOK
<1>7. ASSUME NEW c \in Calls, Handle(c) PROVE Once'
  BY <1>7, TaskTyped DEF Handle, coreFrame, threads, io, Once, IsWrite, IsSwap, Early, TypeOK
<1>8. ASSUME ReconnectSwaps PROVE Once'
  <2>1. /\ tasks \in Seq(Queue) /\ Task("swap", main.core) \in Queue
        /\ Task("swap", main.core).op = "swap"
        /\ tasks' = Append(tasks, Task("swap", main.core)) /\ UNCHANGED <<caller, inbox, result>>
    <3>1. main.core \in Cores
      BY <1>8, BoundsAssumption DEF ReconnectSwaps, Order, Cores, TypeOK
    <3> QED
      BY <1>8, <3>1, QueueFacts DEF ReconnectSwaps, cores, threads
  <2>2. /\ Len(tasks) \in Nat /\ DOMAIN tasks = 1 .. Len(tasks) /\ DOMAIN tasks' = 1 .. Len(tasks) + 1
        /\ \A i \in DOMAIN tasks : tasks'[i] = tasks[i]
        /\ tasks'[Len(tasks) + 1].op = "swap"
    BY <2>1, Appended
  <2>3. \A i \in DOMAIN tasks' : IsWrite(i)' => i \in DOMAIN tasks /\ IsWrite(i) /\ tasks'[i] = tasks[i]
    BY <2>2 DEF IsWrite
  <2> QED
    BY <2>1, <2>3 DEF Once
<1>9. ASSUME TakeTask PROVE Once'
  <2>1. tasks \in Seq(Queue) /\ tasks # <<>> /\ tasks' = Tail(tasks) /\ UNCHANGED <<caller, result>>
    BY <1>9, TakeTaskEffect
  <2>2. /\ Len(tasks) \in Nat \ {0} /\ DOMAIN tasks = 1 .. Len(tasks) /\ DOMAIN tasks' = 1 .. Len(tasks) - 1
        /\ \A i \in DOMAIN tasks' : tasks'[i] = tasks[i + 1]
    BY <2>1, Taken
  <2>3. /\ 1 \in DOMAIN tasks
        /\ \A i \in DOMAIN tasks' : i + 1 \in DOMAIN tasks /\ i + 1 # 1 /\ (IsWrite(i)' <=> IsWrite(i + 1))
    BY <2>2 DEF IsWrite
  <2>4. inbox' = inbox \/ (IsWrite(1) /\ inbox' = inbox \cup {tasks[1].n})
    <3>1. SwapNow => inbox' = inbox
      BY DEF SwapNow
    <3>2. WriteNow => IsWrite(1) /\ inbox' \in {inbox, inbox \cup {tasks[1].n}}
      BY DEF WriteNow, IsWrite
    <3> QED
      BY <1>9, <3>1, <3>2, TakeTaskEffect
  <2>5. \A i \in DOMAIN tasks' : IsWrite(i)' =>
          /\ caller[tasks'[i].n] \notin Early
          /\ tasks'[i].n \notin inbox' /\ result[tasks'[i].n] = NoResult
    BY <2>2, <2>3, <2>4 DEF Once
  <2>6. \A i, j \in DOMAIN tasks' : IsWrite(i)' /\ IsWrite(j)' /\ tasks'[i].n = tasks'[j].n => i = j
    <3> SUFFICES ASSUME NEW i \in DOMAIN tasks', NEW j \in DOMAIN tasks', IsWrite(i)', IsWrite(j)',
                        tasks'[i].n = tasks'[j].n
                 PROVE  i = j
      OBVIOUS
    <3>1. i + 1 = j + 1
      BY <2>2, <2>3 DEF Once
    <3> QED
      BY <2>2, <3>1
  <2>7. \A d \in Calls : caller[d] \in Early => d \notin inbox'
    BY <2>3, <2>4 DEF Once
  <2>8. \A d \in inbox' : result[d] = NoResult
    BY <2>3, <2>4 DEF Once
  <2> QED
    BY <2>1, <2>5, <2>6, <2>7, <2>8 DEF Once
<1>10. ASSUME CoreDies PROVE Once'
  BY <1>10 DEF CoreDies, coreFrame, threads, io, Once, IsWrite
<1>11. CASE UNCHANGED <<caller, tasks, inbox, result>>
  BY <1>11 DEF Once, IsWrite
<1>12. ASSUME
         \/ Reconnect \/ ReconnectFails \/ ReconnectEnds \/ FailInFlightCalls \/ onReadyRead
            \/ TakeFrame \/ Deliver \/ Disconnected \/ DisconnectFails \/ CoreStarts \/
            WriteHeader \/ WriteData
         \/ UNCHANGED vars
      PROVE  UNCHANGED <<caller, tasks, inbox, result>>
  BY <1>12 DEF Reconnect, threads, io, cores, ReconnectFails, failPending, ReconnectEnds,
         FailInFlightCalls, onReadyRead, TakeFrame, Deliver, Disconnected, DisconnectFails,
         CoreStarts, coreFrame, WriteHeader, WriteData, vars
<1> QED
  BY <1>1, <1>2, <1>3, <1>4, <1>5, <1>6, <1>7, <1>8, <1>9, <1>10, <1>11, <1>12 DEF Next, Caller

\* A sequence of genuine values stays one when such a value is appended or taken.
LEMMA SoundAppended ==
  ASSUME NEW r, NEW s \in Seq(Chunks), NEW x \in Chunks, Sound(r, s), Right(r, x.call, x.value)
  PROVE  Sound(r, Append(s, x))
BY Appended DEF Sound

\* The first chunk is read.
LEMMA SoundTaken ==
  ASSUME NEW r, NEW s \in Seq(Chunks), s # <<>>, Sound(r, s)
  PROVE  Sound(r, Tail(s)) /\ Right(r, Head(s).call, Head(s).value)
<1>1. /\ Len(s) \in Nat \ {0} /\ DOMAIN s = 1 .. Len(s) /\ DOMAIN Tail(s) = 1 .. Len(s) - 1
      /\ \A i \in DOMAIN Tail(s) : Tail(s)[i] = s[i + 1]
      /\ Head(s) = s[1]
  BY Taken
<1>2. 1 \in DOMAIN s /\ \A i \in DOMAIN Tail(s) : i + 1 \in DOMAIN s
  BY <1>1
<1> QED
  BY <1>1, <1>2 DEF Sound

\* An error is a genuine reply to any call.
LEMMA FailsGenuine ==
  ASSUME TypeOK, Genuine, failPending, UNCHANGED <<result, out, buf, ready, writer, hand>>
  PROVE  Genuine'
<1>1. \A c \in Calls : reply'[c] \in {Failed, reply[c]}
  BY DEF failPending
<1> QED
  BY <1>1 DEF Genuine

\* Nothing on its way back becomes a value that its call did not produce.
LEMMA GenuineStep ==
  ASSUME TypeOK, Slots, Once, Genuine, Framed, Quiet, [Next]_vars
  PROVE  Genuine'
<1>1. ASSUME NEW c \in Calls, Wake(c) PROVE Genuine'
  <2>1. \A d \in Calls : reply'[d] \in {reply[d], NoResult}
    BY <1>1 DEF Wake, TypeOK
  <2> QED
    BY <1>1, <2>1 DEF Wake, Return, Goto, At, callFrame, io, cores, Genuine
<1>2. ASSUME NEW c \in Calls, Handle(c) PROVE Genuine'
  <2>1. result[c] = NoResult /\ core # NoResult /\ core \in 0 .. MaxCores
    BY <1>2 DEF Handle, Once, Quiet, NoResult, TypeOK
  <2>2. PICK v \in {core, Failed} : ready' = ready \cup {<<c, v>>}
    BY <1>2 DEF Handle
  <2>3. /\ result' = [result EXCEPT ![c] = core]
        /\ UNCHANGED <<out, buf, writer, hand, reply>>
    BY <1>2 DEF Handle, coreFrame, threads, io
  <2>4. result'[c] = core /\ \A d \in Calls : d # c => result'[d] = result[d]
    BY <2>3 DEF TypeOK
  <2>5. \A d \in Calls : \A w : Right(result, d, w) => Right(result', d, w)
    BY <2>1, <2>4 DEF Right
  <2>6. Right(result', c, v)
    BY <2>1, <2>4, Values DEF Right
  <2>7. ASSUME NEW s \in Seq(Chunks), Sound(result, s) PROVE Sound(result', s)
    <3>1. \A i \in DOMAIN s : s[i].call \in Calls
      BY ElementOfSeq, LenProperties, Records
    <3> QED
      BY <2>5, <2>7, <3>1 DEF Sound
  <2>8. \A r \in ready' : Right(result', r[1], r[2])
    <3>1. \A r \in ready : r[1] \in Calls
      BY DEF TypeOK
    <3> QED
      BY <2>2, <2>5, <2>6, <3>1 DEF Genuine
  <2>9. Sound(result', buf) /\ \A g \in Cores : Sound(result', out[g])
    BY <2>7 DEF Genuine, TypeOK
  <2>10. hand # NoFrame => Right(result', hand.call, hand.value)
    BY <2>5 DEF Genuine, Slots
  <2>11. writer # NoFrame => writer.call \in Calls /\ Right(result', writer.call, writer.value)
    BY <2>5 DEF Genuine
  <2> QED
    BY <2>3, <2>5, <2>8, <2>9, <2>10, <2>11 DEF Genuine
<1>3. ASSUME ReconnectFails PROVE Genuine'
  BY <1>3, FailsGenuine DEF ReconnectFails, failPending, io, cores
<1>4. ASSUME FailInFlightCalls PROVE Genuine'
  BY <1>4, FailsGenuine DEF FailInFlightCalls, failPending, io, cores
<1>5. ASSUME TakeTask PROVE Genuine'
  <2>1. buf' = buf \/ buf' = <<>>
    BY <1>5, TakeTaskEffect DEF SwapNow, WriteNow
  <2>2. Sound(result, <<>>)
    BY DEF Sound
  <2> QED
    BY <1>5, <2>1, <2>2, TakeTaskEffect DEF Genuine
<1>6. ASSUME onReadyRead PROVE Genuine'
  <2>1. sock \in Cores /\ out[sock] \in Seq(Chunks) /\ out[sock] # <<>>
    <3>1. sock \in Cores
      BY <1>6, BoundsAssumption DEF onReadyRead, Quiet, TypeOK, Cores
    <3> QED
      BY <1>6, <3>1 DEF onReadyRead, TypeOK
  <2>2. Sound(result, Tail(out[sock])) /\ Right(result, Head(out[sock]).call, Head(out[sock]).value)
    BY <2>1, SoundTaken DEF Genuine
  <2>3. Sound(result, buf') /\ buf' = Append(buf, Head(out[sock]))
    BY <1>6, <2>1, <2>2, Taken, SoundAppended DEF onReadyRead, Genuine, TypeOK
  <2>4. \A g \in Cores : Sound(result, out'[g])
    BY <1>6, <2>1, <2>2 DEF onReadyRead, Genuine, TypeOK
  <2> QED
    BY <1>6, <2>3, <2>4 DEF onReadyRead, threads, Genuine
<1>7. ASSUME TakeFrame PROVE Genuine'
  <2>1. 1 \in DOMAIN buf /\ 2 \in DOMAIN buf /\ Len(buf) = 2 /\ buf[1] \in Chunks /\ buf[2] \in Chunks
    <3>1. buf \in Seq(Chunks) /\ Len(buf) \in Nat /\ DOMAIN buf = 1 .. Len(buf)
      BY LenProperties DEF TypeOK
    <3>2. Len(buf) = 2
      BY <1>7, <3>1 DEF TakeFrame, Framed
    <3> QED
      BY <3>1, <3>2, ElementOfSeq
  <2>2. buf[1].part = "header" /\ Matches(buf[1], buf[2])
    BY <1>7, <2>1 DEF TakeFrame, Framed, Starts, Alternates
  <2>3. Frame.call = buf[1].call /\ Frame.value \in {Failed, buf[2].value}
    BY <1>7, <2>2, FrameFacts DEF TakeFrame
  <2>4. Frame.call = buf[2].call
    BY <2>2, <2>3 DEF Matches
  <2>5. Right(result, Frame.call, Frame.value)
    BY <2>1, <2>3, <2>4, Values DEF Genuine, Sound, Right
  <2>6. buf' = <<>> /\ Sound(result, <<>>)
    BY <1>7, <2>1, SubSeqEmpty DEF TakeFrame, Sound, TypeOK
  <2>7. hand' \in {Frame, NoFrame} /\ UNCHANGED <<result, out, ready, writer, reply>>
    BY <1>7 DEF TakeFrame, cores
  <2> QED
    BY <2>5, <2>6, <2>7 DEF Genuine
<1>8. ASSUME Deliver PROVE Genuine'
  <2>1. hand.call \in Calls /\ Right(result, hand.call, hand.value)
    BY <1>8 DEF Deliver, Slots, Genuine
  <2>2. \A d \in Calls : reply'[d] = reply[d] \/ (d = hand.call /\ reply'[d] = hand.value)
    BY <1>8, <2>1 DEF Deliver, TypeOK
  <2> QED
    BY <1>8, <2>1, <2>2 DEF Deliver, cores, Genuine
<1>9. ASSUME DisconnectFails PROVE Genuine'
  BY <1>9, FailsGenuine DEF DisconnectFails, failPending, cores
<1>10. ASSUME CoreDies PROVE Genuine'
  BY <1>10 DEF CoreDies, coreFrame, threads, io, Genuine
<1>11. ASSUME WriteHeader PROVE Genuine'
  <2>1. PICK r \in ready :
          /\ writer' = [call |-> r[1], value |-> r[2]] /\ ready' = ready \ {r}
          /\ out' = [out EXCEPT ![core] = Append(out[core], Chunk("header", r[1], r[2]))]
    BY <1>11 DEF WriteHeader
  <2>2. r[1] \in Calls /\ r[2] \in Outcomes /\ Right(result, r[1], r[2])
    BY DEF TypeOK, Genuine
  <2>3. core \in Cores /\ out[core] \in Seq(Chunks) /\ Chunk("header", r[1], r[2]) \in Chunks
    BY <1>11, <2>2, CoreWrites, Records DEF WriteHeader
  <2>4. Sound(result, Append(out[core], Chunk("header", r[1], r[2])))
    BY <2>2, <2>3, SoundAppended DEF Genuine, Chunk
  <2>5. \A g \in Cores : Sound(result, out'[g])
    BY <2>1, <2>3, <2>4 DEF Genuine, TypeOK
  <2>6. writer'.call = r[1] /\ writer'.value = r[2]
    BY <2>1
  <2> QED
    BY <1>11, <2>1, <2>2, <2>5, <2>6 DEF WriteHeader, coreFrame, threads, io, Genuine
<1>12. ASSUME WriteData PROVE Genuine'
  <2>1. writer.call \in Calls /\ writer.value \in Outcomes /\ Right(result, writer.call, writer.value)
    BY <1>12, Records DEF WriteData, Genuine, TypeOK
  <2>2. /\ core \in Cores /\ out[core] \in Seq(Chunks)
        /\ Chunk("data", writer.call, writer.value) \in Chunks
    BY <1>12, <2>1, CoreWrites, Records DEF WriteData
  <2>3. Sound(result, Append(out[core], Chunk("data", writer.call, writer.value)))
    BY <2>1, <2>2, SoundAppended DEF Genuine, Chunk
  <2>4. \A g \in Cores : Sound(result, out'[g])
    BY <1>12, <2>2, <2>3 DEF WriteData, Genuine, TypeOK
  <2> QED
    BY <1>12, <2>4 DEF WriteData, coreFrame, threads, io, Genuine
<1>13. CASE UNCHANGED <<result, out, buf, ready, writer, hand, reply>>
  BY <1>13 DEF Genuine
<1>14. ASSUME
         \/ \E c \in Calls : Call(c) \/ Register(c) \/ QueueWrite(c) \/ Expire(c) \/
            GiveUp(c)
         \/ Reconnect \/ ReconnectSwaps \/ ReconnectEnds \/ Disconnected \/ CoreStarts
         \/ UNCHANGED vars
      PROVE  UNCHANGED <<result, out, buf, ready, writer, hand, reply>>
  BY <1>14 DEF Call, Return, Goto, io, cores, Register, QueueWrite, Expire, waitFrame, callFrame,
         GiveUp, Reconnect, threads, ReconnectSwaps, ReconnectEnds, Disconnected, CoreStarts,
         coreFrame, vars
<1> QED
  BY <1>1, <1>2, <1>3, <1>4, <1>5, <1>6, <1>7, <1>8, <1>9, <1>10, <1>11, <1>12, <1>13, <1>14 DEF Next, Caller

\* Headers and data go on alternating when a chunk that matches the last is appended,
\* and when the first is taken.
LEMMA AlternatesAppended ==
  ASSUME NEW s \in Seq(Chunks), NEW x \in Chunks, Alternates(s),
         s # <<>> => Matches(s[Len(s)], x)
  PROVE  /\ Alternates(Append(s, x))
         /\ Append(s, x)[Len(Append(s, x))] = x
         /\ s # <<>> => Append(s, x)[1] = s[1]
         /\ s = <<>> => Append(s, x)[1] = x
<1>1. /\ Len(s) \in Nat /\ Len(Append(s, x)) = Len(s) + 1 /\ Append(s, x)[Len(s) + 1] = x
      /\ \A i \in 1 .. Len(s) : Append(s, x)[i] = s[i]
  BY Appended
<1>2. s = <<>> <=> Len(s) = 0
  BY EmptySeq
<1>3. ASSUME NEW i \in 1 .. Len(Append(s, x)) - 1
      PROVE  Matches(Append(s, x)[i], Append(s, x)[i + 1])
  <2>1. CASE i = Len(s)
    BY <1>1, <1>2, <2>1
  <2>2. CASE i # Len(s)
    <3>1. i \in 1 .. Len(s) - 1 /\ i \in 1 .. Len(s) /\ i + 1 \in 1 .. Len(s)
      BY <1>1, <2>2
    <3> QED
      BY <1>1, <3>1 DEF Alternates
  <2> QED
    BY <2>1, <2>2
<1> QED
  BY <1>1, <1>2, <1>3 DEF Alternates

\* Taking the first chunk keeps the turns.
LEMMA AlternatesTaken ==
  ASSUME NEW s \in Seq(Chunks), s # <<>>, Alternates(s)
  PROVE  /\ Alternates(Tail(s)) /\ Tail(s) \in Seq(Chunks)
         /\ Head(s) = s[1] /\ Head(s) \in Chunks
         /\ Tail(s) # <<>> => Matches(s[1], Tail(s)[1]) /\ Tail(s)[Len(Tail(s))] = s[Len(s)]
         /\ Tail(s) = <<>> => s[Len(s)] = s[1]
<1>1. /\ Tail(s) \in Seq(Chunks) /\ Head(s) = s[1] /\ Head(s) \in Chunks
      /\ Len(s) \in Nat \ {0} /\ Len(Tail(s)) = Len(s) - 1
      /\ \A i \in 1 .. Len(s) - 1 : Tail(s)[i] = s[i + 1]
  BY Taken
<1>2. Tail(s) = <<>> <=> Len(s) = 1
  <2>1. Tail(s) = <<>> <=> Len(Tail(s)) = 0
    BY <1>1, EmptySeq
  <2> QED
    BY <1>1, <2>1
<1>3. ASSUME NEW i \in 1 .. Len(Tail(s)) - 1 PROVE Matches(Tail(s)[i], Tail(s)[i + 1])
  <2>1. i \in 1 .. Len(s) - 1 /\ i + 1 \in 1 .. Len(s) - 1
    BY <1>1
  <2> QED
    BY <1>1, <2>1 DEF Alternates
<1>4. Tail(s) # <<>> => Matches(s[1], Tail(s)[1]) /\ Tail(s)[Len(Tail(s))] = s[Len(s)]
  <2> SUFFICES ASSUME Tail(s) # <<>> PROVE Matches(s[1], Tail(s)[1]) /\ Tail(s)[Len(s) - 1] = s[Len(s)]
    BY <1>1
  <2>1. 1 \in 1 .. Len(s) - 1 /\ Len(s) - 1 \in 1 .. Len(s) - 1
    BY <1>1, <1>2
  <2> QED
    BY <1>1, <2>1 DEF Alternates
<1> QED
  BY <1>1, <1>2, <1>3, <1>4 DEF Alternates

\* A core writes what matches the end of its stream.
Continues(x) ==
  /\ out[core] # <<>> => Matches(out[core][Len(out[core])], x)
  /\ out[core] = <<>> /\ sock = core /\ buf # <<>> => Matches(buf[Len(buf)], x)
  /\ out[core] = <<>> /\ (sock # core \/ buf = <<>>) => x.part = "header"
\* The core writes the chunk that is due.
LEMMA FramedAppended ==
  ASSUME TypeOK, Framed, Order, core \in Cores, NEW x \in Chunks, Continues(x),
         out' = [out EXCEPT ![core] = Append(out[core], x)], UNCHANGED <<buf, sock>>
  PROVE  Framed'
<1>1. out[core] \in Seq(Chunks) /\ sock <= core /\ sock \in Nat /\ core \in Nat
  BY DEF TypeOK, Order
<1>2. /\ out'[core] = Append(out[core], x)
      /\ \A g \in Cores : g # core => out'[g] = out[g]
  BY DEF TypeOK
<1>3. Alternates(out[core])
  BY <1>1 DEF Framed
<1>4. /\ Alternates(out'[core])
      /\ out[core] # <<>> => out'[core][1] = out[core][1]
      /\ out[core] = <<>> => out'[core][1] = x
  BY <1>1, <1>2, <1>3, AlternatesAppended DEF Continues
<1>5. sock # core => Starts(out'[core])
  BY <1>1, <1>4 DEF Framed, Starts, Continues
<1>6. \A g \in Cores : g > sock => Starts(out'[g])
  BY <1>2, <1>5 DEF Framed
<1>7. sock # 0 /\ buf = <<>> => Starts(out'[sock])
  <2>1. CASE sock = core
    BY <1>4, <2>1 DEF Framed, Starts, Continues
  <2>2. CASE sock # core
    BY <1>1, <1>2, <2>2, BoundsAssumption DEF Framed, TypeOK, Cores
  <2> QED
    BY <2>1, <2>2
<1>8. sock # 0 /\ buf # <<>> /\ out'[sock] # <<>> => Matches(buf[Len(buf)], out'[sock][1])
  <2>1. CASE sock = core
    BY <1>4, <2>1 DEF Framed, Continues
  <2>2. CASE sock # core
    BY <1>1, <1>2, <2>2, BoundsAssumption DEF Framed, TypeOK, Cores
  <2> QED
    BY <2>1, <2>2
<1> QED
  BY <1>2, <1>4, <1>6, <1>7, <1>8 DEF Framed

\* Frames stay framed across the border between socket and buffer, and a swap starts with
\* an empty buffer at the beginning of a stream.
LEMMA FramedStep ==
  ASSUME TypeOK, Order, Framed, Closing, Genuine, Quiet, [Next]_vars
  PROVE  Framed'
<1>1. ASSUME TakeTask PROVE Framed'
  <2>1. UNCHANGED out
    BY <1>1, TakeTaskEffect
  <2>2. CASE WriteNow
    BY <2>1, <2>2 DEF WriteNow, Framed
  <2>3. CASE SwapNow
    <3>1. sock' \in Cores /\ sock < sock' /\ buf' = <<>> /\ sock \in Nat
      <4>1. 1 \in DOMAIN tasks
        BY <1>1, TakeTaskEffect, Taken
      <4> QED
        BY <2>3, <4>1 DEF SwapNow, Order, IsSwap, TypeOK
    <3>2. Len(buf') <= 2 /\ Alternates(buf') /\ Starts(buf')
      BY <3>1 DEF Alternates, Starts
    <3>3. sock' \in Nat /\ Cores \subseteq Nat
      BY <3>1, BoundsAssumption DEF Cores
    <3>4. \A g \in Cores : g >= sock' => Alternates(out[g]) /\ Starts(out[g])
      <4>1. ASSUME NEW g \in Cores, g >= sock'
            PROVE  g > sock /\ g >= sock
        <5>1. g \in Nat /\ sock \in Nat
          BY <3>3 DEF TypeOK
        <5> QED
          BY <3>1, <3>3, <4>1, <5>1
      <4> QED
        BY <4>1 DEF Framed
    <3>5. Starts(out[sock'])
      BY <3>1, <3>3, <3>4
    <3> QED
      BY <2>1, <3>1, <3>2, <3>3, <3>4, <3>5 DEF Framed
  <2> QED
    BY <1>1, <2>2, <2>3, TakeTaskEffect
<1>2. ASSUME onReadyRead PROVE Framed'
  <2>1. sock \in Cores /\ out[sock] \in Seq(Chunks) /\ out[sock] # <<>> /\ buf \in Seq(Chunks)
    <3>1. sock \in Cores
      BY <1>2, BoundsAssumption DEF onReadyRead, Quiet, TypeOK, Cores
    <3> QED
      BY <1>2, <3>1 DEF onReadyRead, TypeOK
  <2>2. /\ buf' = Append(buf, Head(out[sock])) /\ UNCHANGED sock
        /\ out'[sock] = Tail(out[sock]) /\ \A g \in Cores : g # sock => out'[g] = out[g]
    BY <1>2, <2>1 DEF onReadyRead, TypeOK
  <2>3. sock \in Nat /\ sock # 0 /\ Alternates(out[sock])
    BY <2>1, BoundsAssumption DEF Cores, Framed
  <2>4. /\ Alternates(Tail(out[sock])) /\ Head(out[sock]) = out[sock][1] /\ Head(out[sock]) \in Chunks
        /\ Tail(out[sock]) # <<>> => Matches(out[sock][1], Tail(out[sock])[1])
    BY <2>1, <2>3, AlternatesTaken
  <2>5. buf # <<>> => Matches(buf[Len(buf)], Head(out[sock]))
    BY <2>1, <2>3, <2>4 DEF Framed
  <2>6. /\ Alternates(buf') /\ buf'[Len(buf')] = Head(out[sock])
        /\ buf # <<>> => buf'[1] = buf[1]
        /\ buf = <<>> => buf'[1] = Head(out[sock])
    BY <2>1, <2>2, <2>4, <2>5, AlternatesAppended DEF Framed
  <2>7. Starts(buf')
    BY <2>1, <2>3, <2>4, <2>6 DEF Framed, Starts
  <2>8. Len(buf') <= 2 /\ buf' # <<>>
    BY <1>2, <2>1, <2>2, <2>4, Appended DEF onReadyRead, Free
  <2>9. \A g \in Cores : (g >= sock => Alternates(out'[g])) /\ (g > sock => Starts(out'[g]))
    BY <2>2, <2>3, <2>4 DEF Framed
  <2> QED
    BY <2>2, <2>4, <2>6, <2>7, <2>8, <2>9 DEF Framed
<1>3. ASSUME TakeFrame PROVE Framed'
  <2>1. Len(buf) = 2 /\ buf \in Seq(Chunks)
    <3>1. buf \in Seq(Chunks) /\ Len(buf) \in Nat
      BY LenProperties DEF TypeOK
    <3>2. Len(buf) <= 2
      BY DEF Framed
    <3>3. Len(buf) >= 2
      BY <1>3 DEF TakeFrame
    <3>4. ASSUME NEW n \in Nat, n <= 2, n >= 2
          PROVE  n = 2
      BY <3>4
    <3>5. Len(buf) = 2
      BY <3>1, <3>2, <3>3, <3>4
    <3> QED
      BY <3>1, <3>5
  <2>2. buf # <<>> /\ buf[1].part = "header" /\ Matches(buf[1], buf[2])
    BY <2>1, EmptySeq DEF Framed, Starts, Alternates
  <2>3. buf[2].part = "data" /\ buf[Len(buf)] = buf[2]
    BY <2>1, <2>2 DEF Matches
  <2>4. sock # 0 => Starts(out[sock])
    BY <2>2, <2>3 DEF Framed, Starts, Matches
  <2>5. buf' = <<>> /\ Len(buf') <= 2 /\ Alternates(buf') /\ Starts(buf')
    BY <1>3, <2>1, SubSeqEmpty DEF TakeFrame, Alternates, Starts
  <2> QED
    BY <1>3, <2>4, <2>5 DEF TakeFrame, cores, Framed
<1>4. ASSUME WriteHeader PROVE Framed'
  <2>1. PICK r \in ready : out' = [out EXCEPT ![core] = Append(out[core], Chunk("header", r[1], r[2]))]
    BY <1>4 DEF WriteHeader
  <2>2. core \in Cores /\ Chunk("header", r[1], r[2]) \in Chunks
    BY <1>4, CoreWrites, Records DEF WriteHeader, TypeOK
  <2>3. Continues(Chunk("header", r[1], r[2]))
    BY <1>4 DEF WriteHeader, Closing, Ends, Continues, Matches, Chunk
  <2> QED
    BY <1>4, <2>1, <2>2, <2>3, FramedAppended DEF WriteHeader, coreFrame, io
<1>5. ASSUME WriteData PROVE Framed'
  <2>1. out' = [out EXCEPT ![core] = Append(out[core], Chunk("data", writer.call, writer.value))]
    BY <1>5 DEF WriteData
  <2>2. core \in Cores /\ Chunk("data", writer.call, writer.value) \in Chunks
    BY <1>5, CoreWrites, Records DEF WriteData, TypeOK, Genuine
  <2>3. Continues(Chunk("data", writer.call, writer.value))
    BY <1>5 DEF WriteData, Closing, Ends, Continues, Matches, Chunk
  <2> QED
    BY <1>5, <2>1, <2>2, <2>3, FramedAppended DEF WriteData, coreFrame, io
<1>6. CASE UNCHANGED <<buf, out, sock>>
  BY <1>6 DEF Framed
<1>7. ASSUME
         \/ \E c \in Calls : Call(c) \/ Register(c) \/ QueueWrite(c) \/ Wake(c) \/ Expire(c)
            \/ GiveUp(c) \/ Handle(c)
         \/ Reconnect \/ ReconnectFails \/ ReconnectSwaps \/ ReconnectEnds \/
            FailInFlightCalls \/ Deliver \/ Disconnected \/ DisconnectFails \/ CoreStarts \/
            CoreDies
         \/ UNCHANGED vars
      PROVE  UNCHANGED <<buf, out, sock>>
  BY <1>7 DEF Call, Return, Goto, io, cores, Register, QueueWrite, Wake, callFrame, Expire,
         waitFrame, GiveUp, Handle, coreFrame, threads, Reconnect, ReconnectFails,
         failPending, ReconnectSwaps, ReconnectEnds, FailInFlightCalls, Deliver,
         Disconnected, DisconnectFails, CoreStarts, CoreDies, vars
<1> QED
  BY <1>1, <1>2, <1>3, <1>4, <1>5, <1>6, <1>7 DEF Next, Caller

\* What the core is about to write still matches the end of its stream.
LEMMA ClosingStep ==
  ASSUME TypeOK, Order, Framed, Closing, Genuine, Quiet, [Next]_vars
  PROVE  Closing'
<1>1. ASSUME TakeTask PROVE Closing'
  <2>1. UNCHANGED <<alive, core, out, writer>>
    BY <1>1, TakeTaskEffect
  <2>2. CASE WriteNow
    BY <2>1, <2>2 DEF WriteNow, Closing
  <2>3. CASE SwapNow
    <3>1. sock # core /\ buf' = <<>>
      <4>1. 1 \in DOMAIN tasks /\ tasks[1].n \in Nat
        BY <1>1, <2>3, TakeTaskEffect, Taken, BoundsAssumption DEF SwapNow, Cores
      <4> QED
        BY <2>3, <4>1 DEF SwapNow, Order, IsSwap, TypeOK
    <3> QED
      BY <2>1, <3>1 DEF Closing
  <2> QED
    BY <1>1, <2>2, <2>3, TakeTaskEffect
<1>2. ASSUME onReadyRead PROVE Closing'
  <2>1. sock \in Cores /\ out[sock] \in Seq(Chunks) /\ out[sock] # <<>> /\ buf \in Seq(Chunks)
    <3>1. sock \in Cores
      BY <1>2, BoundsAssumption DEF onReadyRead, Quiet, TypeOK, Cores
    <3> QED
      BY <1>2, <3>1 DEF onReadyRead, TypeOK
  <2>2. /\ buf' = Append(buf, Head(out[sock])) /\ UNCHANGED <<alive, core, sock, writer>>
        /\ out'[sock] = Tail(out[sock]) /\ \A g \in Cores : g # sock => out'[g] = out[g]
    BY <1>2, <2>1 DEF onReadyRead, TypeOK
  <2>3. Alternates(out[sock])
    BY <2>1, BoundsAssumption DEF Cores, Framed
  <2>4. /\ Head(out[sock]) = out[sock][1] /\ Head(out[sock]) \in Chunks
        /\ Tail(out[sock]) # <<>> =>
             Tail(out[sock])[Len(Tail(out[sock]))] = out[sock][Len(out[sock])]
        /\ Tail(out[sock]) = <<>> => out[sock][Len(out[sock])] = out[sock][1]
    BY <2>1, <2>3, AlternatesTaken
  <2>5. buf'[Len(buf')] = Head(out[sock]) /\ buf' # <<>>
    BY <2>1, <2>2, <2>4, Appended
  <2>6. CASE sock = core
    BY <2>1, <2>2, <2>4, <2>5, <2>6 DEF Closing, Ends
  <2>7. CASE sock # core
    <3>1. alive => out'[core] = out[core]
      BY <2>2, <2>7, CoreWrites
    <3> QED
      BY <2>2, <2>7, <3>1 DEF Closing
  <2> QED
    BY <2>6, <2>7
<1>3. ASSUME TakeFrame PROVE Closing'
  <2>1. Len(buf) = 2 /\ buf \in Seq(Chunks)
    <3>1. buf \in Seq(Chunks) /\ Len(buf) \in Nat
      BY LenProperties DEF TypeOK
    <3>2. Len(buf) <= 2
      BY DEF Framed
    <3>3. Len(buf) >= 2
      BY <1>3 DEF TakeFrame
    <3>4. ASSUME NEW n \in Nat, n <= 2, n >= 2
          PROVE  n = 2
      BY <3>4
    <3>5. Len(buf) = 2
      BY <3>1, <3>2, <3>3, <3>4
    <3> QED
      BY <3>1, <3>5
  <2>2. buf # <<>> /\ buf[1].part = "header" /\ Matches(buf[1], buf[2])
    BY <2>1, EmptySeq DEF Framed, Starts, Alternates
  <2>3. buf[Len(buf)].part = "data"
    BY <2>1, <2>2 DEF Matches
  <2>4. buf' = <<>>
    BY <1>3, <2>1, SubSeqEmpty DEF TakeFrame
  <2> QED
    BY <1>3, <2>2, <2>3, <2>4 DEF TakeFrame, cores, Closing, Ends
<1>4. ASSUME CoreStarts PROVE Closing'
  <2>1. /\ core' \in Cores /\ core' > core /\ sock # core'
        /\ writer = NoFrame /\ UNCHANGED <<out, sock, buf, writer>>
    BY <1>4, BoundsAssumption DEF CoreStarts, coreFrame, io, Cores, TypeOK, Order, Quiet
  <2>2. out[core'] = <<>>
    BY <2>1 DEF Quiet
  <2> QED
    BY <2>1, <2>2 DEF Closing
<1>5. ASSUME CoreDies PROVE Closing'
  BY <1>5 DEF CoreDies, Closing
<1>6. ASSUME WriteHeader PROVE Closing'
  <2>1. PICK r \in ready : /\ out' = [out EXCEPT ![core] = Append(out[core], Chunk("header", r[1], r[2]))]
                           /\ writer' = [call |-> r[1], value |-> r[2]]
    BY <1>6 DEF WriteHeader
  <2>2. /\ core \in Cores /\ out[core] \in Seq(Chunks) /\ Chunk("header", r[1], r[2]) \in Chunks
        /\ writer' # NoFrame
    BY <1>6, <2>1, CoreWrites, Records DEF WriteHeader, TypeOK
  <2>3. out'[core] = Append(out[core], Chunk("header", r[1], r[2]))
    BY <2>1, <2>2 DEF TypeOK
  <2>4. out'[core] # <<>> /\ out'[core][Len(out'[core])] = Chunk("header", r[1], r[2])
    BY <2>2, <2>3, Appended
  <2>5. Ends(writer', out'[core])
    BY <2>1, <2>2, <2>4 DEF Ends, Chunk
  <2> QED
    BY <1>6, <2>4, <2>5 DEF WriteHeader, coreFrame, io, Closing
<1>7. ASSUME WriteData PROVE Closing'
  <2>1. /\ core \in Cores /\ out[core] \in Seq(Chunks)
        /\ Chunk("data", writer.call, writer.value) \in Chunks
    BY <1>7, CoreWrites, Records DEF WriteData, TypeOK, Genuine
  <2>2. out'[core] = Append(out[core], Chunk("data", writer.call, writer.value)) /\ writer' = NoFrame
    BY <1>7, <2>1 DEF WriteData, TypeOK
  <2>3. out'[core] # <<>> /\ out'[core][Len(out'[core])] = Chunk("data", writer.call, writer.value)
    BY <2>1, <2>2, Appended
  <2>4. Ends(writer', out'[core])
    BY <2>2, <2>3 DEF Ends, Chunk
  <2> QED
    BY <1>7, <2>3, <2>4 DEF WriteData, coreFrame, io, Closing
<1>8. CASE UNCHANGED <<alive, core, out, sock, buf, writer>>
  BY <1>8 DEF Closing
<1>9. ASSUME
         \/ \E c \in Calls : Call(c) \/ Register(c) \/ QueueWrite(c) \/ Wake(c) \/ Expire(c)
            \/ GiveUp(c) \/ Handle(c)
         \/ Reconnect \/ ReconnectFails \/ ReconnectSwaps \/ ReconnectEnds \/
            FailInFlightCalls \/ Deliver \/ Disconnected \/ DisconnectFails
         \/ UNCHANGED vars
      PROVE  UNCHANGED <<alive, core, out, sock, buf, writer>>
  BY <1>9 DEF Call, Return, Goto, io, cores, Register, QueueWrite, Wake, callFrame, Expire,
         waitFrame, GiveUp, Handle, coreFrame, threads, Reconnect, ReconnectFails,
         failPending, ReconnectSwaps, ReconnectEnds, FailInFlightCalls, Deliver,
         Disconnected, DisconnectFails, vars
<1> QED
  BY <1>1, <1>2, <1>3, <1>4, <1>5, <1>6, <1>7, <1>8, <1>9 DEF Next, Caller

\* A dead core has nothing to say, and one to come has said nothing.
LEMMA QuietStep ==
  ASSUME TypeOK, Order, Quiet, [Next]_vars
  PROVE  Quiet'
<1>1. ASSUME NEW c \in Calls, Handle(c) PROVE Quiet'
  BY <1>1 DEF Handle, coreFrame, threads, io, Quiet
<1>2. ASSUME TakeTask PROVE Quiet'
  <2>1. SwapNow => sock' # 0 /\ UNCHANGED inbox
    BY BoundsAssumption DEF SwapNow, Cores
  <2>2. WriteNow => UNCHANGED <<open, sock>> /\ (alive \/ UNCHANGED inbox)
    BY DEF WriteNow
  <2> QED
    BY <1>2, <2>1, <2>2, TakeTaskEffect DEF Quiet
<1>3. ASSUME onReadyRead PROVE Quiet'
  <2>1. \A g \in Cores : g > core => out'[g] = out[g]
    BY <1>3 DEF onReadyRead, Order, TypeOK, Cores
  <2> QED
    BY <1>3, <2>1 DEF onReadyRead, Free, threads, Quiet
<1>4. ASSUME Disconnected PROVE Quiet'
  BY <1>4 DEF Disconnected, Free, threads, cores, Quiet
<1>5. ASSUME CoreStarts PROVE Quiet'
  BY <1>5 DEF CoreStarts, coreFrame, threads, io, Quiet, TypeOK, Cores
<1>6. ASSUME CoreDies PROVE Quiet'
  BY <1>6 DEF CoreDies, coreFrame, threads, io, Quiet
<1>7. ASSUME WriteHeader PROVE Quiet'
  <2>1. \A g \in Cores : g > core => out'[g] = out[g]
    BY <1>7 DEF WriteHeader, TypeOK, Cores
  <2> QED
    BY <1>7, <2>1 DEF WriteHeader, coreFrame, threads, io, Chunk, Quiet
<1>8. ASSUME WriteData PROVE Quiet'
  <2>1. \A g \in Cores : g > core => out'[g] = out[g]
    BY <1>8 DEF WriteData, TypeOK, Cores
  <2> QED
    BY <1>8, <2>1 DEF WriteData, coreFrame, threads, io, Chunk, Quiet
<1>9. CASE UNCHANGED <<alive, core, inbox, ready, writer, open, sock, out>>
  BY <1>9 DEF Quiet
<1>10. ASSUME
         \/ \E c \in Calls : Call(c) \/ Register(c) \/ QueueWrite(c) \/ Wake(c) \/ Expire(c)
            \/ GiveUp(c)
         \/ Reconnect \/ ReconnectFails \/ ReconnectSwaps \/ ReconnectEnds \/
            FailInFlightCalls \/ TakeFrame \/ Deliver \/ DisconnectFails
         \/ UNCHANGED vars
      PROVE  UNCHANGED <<alive, core, inbox, ready, writer, open, sock, out>>
  BY <1>10 DEF Call, Return, Goto, io, cores, Register, QueueWrite, Wake, callFrame, Expire,
         waitFrame, GiveUp, Reconnect, threads, ReconnectFails, failPending, ReconnectSwaps,
         ReconnectEnds, FailInFlightCalls, TakeFrame, Deliver, DisconnectFails, vars
<1> QED
  BY <1>1, <1>2, <1>3, <1>4, <1>5, <1>6, <1>7, <1>8, <1>9, <1>10 DEF Next, Caller

-----------------------------------------------------------------------------
(* The invariant and the theorems.                                         *)

\* Nothing is under way at first.
LEMMA Initially == Init => IInv
<1> SUFFICES ASSUME Init PROVE IInv
  OBVIOUS
<1>1. TypeOK
  <2>1. tasks \in Seq([op : {"write"}, n : Calls] \cup [op : {"swap"}, n : Cores])
    BY EmptySeq DEF Init
  <2>2. buf \in Seq(Chunks) /\ out \in [Cores -> Seq(Chunks)]
    BY EmptySeq DEF Init
  <2>3. hand \in Frames /\ writer \in Frames
    BY Records DEF Init
  <2>4. reply \in [Calls -> Outcomes] /\ ret \in [Calls -> Outcomes]
    BY Values DEF Init
  <2>5. /\ result \in [Calls -> 0 .. MaxCores] /\ since \in [Calls -> 0 .. MaxCores]
        /\ 0 \in 0 .. MaxCores /\ fails \in 0 .. MaxFails
    BY BoundsAssumption DEF Init, NoResult
  <2>6. main \in [pc : {"idle", "fail", "swap", "store"}, core : 0 .. MaxCores]
    BY <2>5 DEF Init
  <2> QED
    BY <2>1, <2>2, <2>3, <2>4, <2>5, <2>6 DEF Init, TypeOK
<1>2. tasks = <<>> /\ DOMAIN tasks = {} /\ Len(tasks) = 0
  BY DEF Init
<1>3. Slots /\ Once
  BY <1>2, CallsAssumption, Records DEF Init, Slots, SlotsAgree, Once, Early
<1>4. Order /\ Fresh
  BY <1>2 DEF Init, Order, Fresh, Reach
<1>5. Genuine
  <2>1. Sound(result, <<>>)
    BY DEF Sound
  <2> QED
    BY <2>1 DEF Init, Genuine
<1>6. Framed
  <2>1. Alternates(<<>>) /\ Starts(<<>>)
    BY DEF Alternates, Starts
  <2> QED
    BY <2>1 DEF Init, Framed
<1>7. Closing /\ Quiet
  BY DEF Init, Closing, Quiet
<1> QED
  BY <1>1, <1>3, <1>4, <1>5, <1>6, <1>7 DEF IInv

\* Every step preserves the invariant.
LEMMA Inductive == IInv /\ [Next]_vars => IInv'
<1> SUFFICES ASSUME IInv, [Next]_vars PROVE IInv'
  OBVIOUS
<1>1. TypeOK'
  BY TypeStep DEF IInv
<1> QED
  BY <1>1, SlotsStep, OrderStep, FreshStep, OnceStep, GenuineStep, FramedStep, ClosingStep,
     QuietStep DEF IInv

\* Everything the proofs below rest on holds in every reachable state of the channel.
THEOREM Invariant == Spec => []IInv
BY Initially, Inductive, PTL DEF Spec

\* The type invariant of LocalSocketChannel and Serve.
THEOREM TypeCorrect == Spec => []TypeOK
BY Invariant, PTL DEF IInv

\* Call() and the I/O thread never disagree about a slot: a slot belongs to a call that
\* waits, and a call that waits without a slot has its reply or will get it.
THEOREM SlotsRight == Spec => []SlotsAgree
<1>1. IInv => SlotsAgree
  BY DEF IInv, Slots
<1> QED
  BY <1>1, Invariant, PTL

\* A call made after Reconnect returned is written to that socket or to a later one.
THEOREM SocketFresh == Spec => []FreshSocket
<1>1. IInv => FreshSocket
  <2> SUFFICES ASSUME IInv, tasks # <<>>, Head(tasks).op = "write"
               PROVE  sock >= since[Head(tasks).n]
    BY DEF FreshSocket
  <2>1. tasks \in Seq(Queue)
    BY QueueFacts DEF IInv
  <2>2. Head(tasks) = tasks[1] /\ DOMAIN tasks = 1 .. Len(tasks) /\ Len(tasks) \in Nat \ {0}
    BY <2>1, Taken
  <2>3. 1 \in DOMAIN tasks /\ IsWrite(1) /\ \A j \in DOMAIN tasks : ~(j < 1)
    BY <2>2 DEF IsWrite
  <2>4. tasks[1].n \in Calls
    BY <2>3, TaskTyped DEF IInv, IsWrite, IsSwap
  <2>5. since[tasks[1].n] <= sock
    BY <2>3 DEF IInv, Fresh, Reach
  <2>6. since[tasks[1].n] \in Nat /\ sock \in Nat
    BY <2>4 DEF IInv, TypeOK
  <2> QED
    BY <2>2, <2>5, <2>6
<1> QED
  BY <1>1, Invariant, PTL

-----------------------------------------------------------------------------
(* The channel implements RpcCalls.                                        *)

\* A call that ends ends with an error or with its own result.
LEMMA ReturnStep ==
  ASSUME IInv, NEW c \in Calls, NEW value, caller[c] # "done", Return(c, value),
         value = Failed \/ Right(result, c, value), UNCHANGED result
  PROVE  Promise!Next
<1>1. ret[c] = NoResult
  BY DEF IInv, Slots
<1>2. ret' = [ret EXCEPT ![c] = value]
  BY DEF Return
<1>3. value = Failed \/ (value = result[c] /\ result[c] # NoResult)
  BY DEF Right
<1>4. Promise!Return(c)
  BY <1>1, <1>2, <1>3 DEF Promise!Return, Promise!NoResult, Promise!Failed, NoResult, Failed
<1> QED
  BY <1>4 DEF Promise!Next

\* Every step is a step of RpcCalls, or changes none of its variables.
LEMMA Refines == IInv /\ [Next]_vars => [Promise!Next]_<<result, ret>>
<1> SUFFICES ASSUME IInv, [Next]_vars PROVE [Promise!Next]_<<result, ret>>
  OBVIOUS
<1>1. ASSUME NEW c \in Calls, Call(c) PROVE [Promise!Next]_<<result, ret>>
  <2>1. UNCHANGED result /\ caller[c] = "idle"
    BY <1>1 DEF Call, cores, At
  <2>2. Return(c, Failed) \/ UNCHANGED ret
    BY <1>1 DEF Call
  <2> QED
    BY <2>1, <2>2, ReturnStep
<1>2. ASSUME NEW c \in Calls, Wake(c) PROVE [Promise!Next]_<<result, ret>>
  <2>1. /\ UNCHANGED result /\ caller[c] # "done" /\ reply[c] # NoResult
        /\ Return(c, reply[c])
    BY <1>2 DEF Wake, callFrame, cores, At
  <2>2. reply[c] = Failed \/ Right(result, c, reply[c])
    BY <2>1 DEF IInv, Genuine
  <2> QED
    BY <2>1, <2>2, ReturnStep
<1>3. ASSUME NEW c \in Calls, Expire(c) PROVE [Promise!Next]_<<result, ret>>
  <2>1. UNCHANGED result /\ caller[c] # "done" /\ (Return(c, Failed) \/ UNCHANGED ret)
    BY <1>3 DEF Expire, waitFrame, callFrame, cores, At
  <2> QED
    BY <2>1, ReturnStep
<1>4. ASSUME NEW c \in Calls, GiveUp(c) PROVE [Promise!Next]_<<result, ret>>
  <2>1. UNCHANGED result /\ caller[c] # "done" /\ Return(c, Failed)
    BY <1>4 DEF GiveUp, waitFrame, callFrame, cores, At
  <2> QED
    BY <2>1, ReturnStep
<1>5. ASSUME NEW c \in Calls, Handle(c) PROVE [Promise!Next]_<<result, ret>>
  <2>1. result[c] = NoResult /\ core \in 1 .. MaxCores
    BY <1>5, CoreWrites DEF Handle, IInv, Once, Cores
  <2>2. result' = [result EXCEPT ![c] = core] /\ UNCHANGED ret
    BY <1>5 DEF Handle, coreFrame, threads
  <2>3. Promise!Execute(c)
    BY <2>1, <2>2 DEF Promise!Execute, Promise!NoResult, NoResult
  <2> QED
    BY <2>3 DEF Promise!Next
<1>6. CASE UNCHANGED <<result, ret>>
  BY <1>6
<1>7. ASSUME
         \/ \E c \in Calls : Register(c) \/ QueueWrite(c)
         \/ Reconnect \/ ReconnectFails \/ ReconnectSwaps \/ ReconnectEnds \/ FailInFlightCalls
         \/ TakeTask \/ onReadyRead \/ TakeFrame \/ Deliver \/ Disconnected \/ DisconnectFails
         \/ CoreStarts \/ CoreDies \/ WriteHeader \/ WriteData \/ UNCHANGED vars
      PROVE  UNCHANGED <<result, ret>>
  BY <1>7 DEF Register, QueueWrite, cores, Reconnect, threads, ReconnectFails, failPending,
         ReconnectSwaps, ReconnectEnds, FailInFlightCalls, TakeTask, onReadyRead, TakeFrame,
         Deliver, Disconnected, DisconnectFails, CoreStarts, coreFrame, CoreDies, WriteHeader,
         WriteData, vars
<1> QED
  BY <1>1, <1>2, <1>3, <1>4, <1>5, <1>6, <1>7 DEF Next, Caller

\* API::Client keeps its promise: whatever dies, times out or is cut in two, a core runs
\* a call at most once, and the call returns its own result or an error.
THEOREM Implementation == Spec => Implements
<1>1. Init => Promise!Init
  BY DEF Init, Promise!Init, NoResult, Promise!NoResult
<1>2. Spec => Promise!Spec
  BY <1>1, Refines, Invariant, PTL DEF Spec, Promise!Spec
<1> QED
  BY <1>2 DEF Implements
=============================================================================
