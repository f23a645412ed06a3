----------------------------- MODULE MCRecvQueue -----------------------------
(* Instances of RecvQueue for TLC.                                         *)
EXTENDS RecvQueue, TLC

CONSTANTS t1, t2, c1, c2, q1, q2, s1, b1, b2, b3

MCThreads == {t1, t2}
MCBufs == {b1, b2, b3}

(* A queue pair with receives of its own, and one with a shared receive    *)
(* queue to itself.                                                        *)
Private == [cq |-> q1 :> c1, srq |-> q1 :> None]
PrivateSrq == [cq |-> q1 :> c1, srq |-> q1 :> s1]
(* Two queue pairs with a completion queue each that receive from one      *)
(* shared receive queue.                                                   *)
SharedSrq == [cq |-> (q1 :> c1) @@ (q2 :> c2), srq |-> (q1 :> s1) @@ (q2 :> s1)]

Supported == {Private, PrivateSrq, SharedSrq}

Symmetry == Permutations(MCThreads) \cup Permutations(MCBufs)
=============================================================================
