---------------------------- MODULE MCCtrlChannel ----------------------------
(* Instances of CtrlChannel for TLC.                                       *)
EXTENDS CtrlChannel

CONSTANTS t1, t2, q1, q2, c1, c2, s1

MCThreads == {t1, t2}
(* Two queue pairs and one completion queue.                               *)
TwoQpsAndCq == [qp |-> <<q1, q2>>, cq |-> <<c1>>, srq |-> <<>>]
(* Two completion queues.                                                  *)
PollOnly == [qp |-> <<>>, cq |-> <<c1, c2>>, srq |-> <<>>]
=============================================================================
