------------------------------ MODULE RpcCalls ------------------------------
(***************************************************************************)
(* What API::Client promises the threads of the application: a call may    *)
(* fail at any moment, whether or not the core ran it, but a core runs it  *)
(* at most once, and what a successful call returns is what that core      *)
(* computed for this very call. RpcChannel implements it.                  *)
(***************************************************************************)
EXTENDS Naturals

CONSTANTS
  Calls,    \* calls, each with the request id next_id gives it
  MaxCores  \* bound: cores the application starts one after the other

\* A core stands for the result it computes; 0 is none, and a call that failed has one
\* of its own.
NoResult == 0
Failed == MaxCores + 1

VARIABLES
  result,  \* the core that ran a call, which is the result it computed
  ret      \* what a call returned to its caller

Init ==
  /\ result = [c \in Calls |-> NoResult]
  /\ ret = [c \in Calls |-> NoResult]

Execute(c) ==
  /\ result[c] = NoResult
  /\ \E g \in 1 .. MaxCores : result' = [result EXCEPT ![c] = g]
  /\ UNCHANGED ret

Return(c) ==
  /\ ret[c] = NoResult
  /\ \/ result[c] # NoResult /\ ret' = [ret EXCEPT ![c] = result[c]]
     \/ ret' = [ret EXCEPT ![c] = Failed]
  /\ UNCHANGED result

Next == \E c \in Calls : Execute(c) \/ Return(c)

Spec == Init /\ [][Next]_<<result, ret>>
=============================================================================
