--------------------------- MODULE MCQueueLifecycle ---------------------------
(* Instances of QueueLifecycle for TLC.                                    *)
EXTENDS QueueLifecycle, TLC

CONSTANTS r1, r2, h1, h2, o1, o2, o3, o4, o5, s1, s2, s3, s4

AllKinds == {"qp", "cq", "srq"}
TwoHandlers == {r1, r2}
TwoHandles == {h1, h2}
(* Enough for one object per entry of the map, per handler and for the     *)
(* loop, and for the segments that they and the clients map.               *)
MCObjs == {o1, o2, o3, o4, o5}
MCSegs == {s1, s2, s3, s4}
=============================================================================
