------------------------------ MODULE VerbCalls ------------------------------
(***************************************************************************)
(* What the data path promises to an application, without the shared       *)
(* memory and the router in between: a verb that a thread calls is         *)
(* performed by the NIC exactly once between its call and its return, and  *)
(* the calls on one queue are serialised, as they are on a native device   *)
(* whose provider library locks the queue.                                 *)
(***************************************************************************)
EXTENDS VerbRsp

CONSTANTS Threads, Queues, CompletionQueues, MaxWr, CqDepth, None

VARIABLES phase, call, outcome, cqe
vars == <<phase, call, outcome, cqe>>

Init ==
  /\ phase = [t \in Threads |-> "out"]
  /\ call = [t \in Threads |-> None]
  /\ outcome = [t \in Threads |-> <<>>]
  /\ cqe = [c \in CompletionQueues |-> 0]

Invoke(t) ==
  /\ phase[t] = "out"
  /\ phase' = [phase EXCEPT ![t] = "called"]
  /\ \E q \in Queues, n \in 1..MaxWr :
       call' = [call EXCEPT ![t] = [by |-> t, piece |-> q, n |-> n]]
  /\ UNCHANGED <<outcome, cqe>>

(* No call on the same queue is between its execution and its return.      *)
QueueFree(t) ==
  \A u \in Threads \ {t} : phase[u] = "done" => call[u].piece # call[t].piece

Post(t) ==
  /\ call[t].piece \notin CompletionQueues
  /\ \E accepted \in 0..call[t].n :
       outcome' = [outcome EXCEPT ![t] = <<PostRsp(call[t].n, accepted)>>]
  /\ UNCHANGED cqe

Poll(t) ==
  /\ call[t].piece \in CompletionQueues
  /\ LET c == call[t].piece
         count == IF cqe[c] < call[t].n THEN cqe[c] ELSE call[t].n
     IN  /\ outcome' = [outcome EXCEPT ![t] = <<PollRsp(count)>>]
         /\ cqe' = [cqe EXCEPT ![c] = @ - count]

Perform(t) ==
  /\ phase[t] = "called" /\ QueueFree(t)
  /\ phase' = [phase EXCEPT ![t] = "done"]
  /\ Post(t) \/ Poll(t)
  /\ UNCHANGED call

Return(t) ==
  /\ phase[t] = "done"
  /\ phase' = [phase EXCEPT ![t] = "out"]
  /\ call' = [call EXCEPT ![t] = None]
  /\ outcome' = [outcome EXCEPT ![t] = <<>>]
  /\ UNCHANGED cqe

Complete(c) ==
  /\ cqe[c] < CqDepth
  /\ cqe' = [cqe EXCEPT ![c] = @ + 1]
  /\ UNCHANGED <<phase, call, outcome>>

Next ==
  \/ \E t \in Threads : Invoke(t) \/ Perform(t) \/ Return(t)
  \/ \E c \in CompletionQueues : Complete(c)

Spec == Init /\ [][Next]_vars
=============================================================================
