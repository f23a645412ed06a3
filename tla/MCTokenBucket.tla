---------------------------- MODULE MCTokenBucket ----------------------------
(* Instances of TokenBucket for TLC.                                       *)
EXTENDS TokenBucket

CONSTANTS t1, t2

TwoThreads == {t1, t2}
(* Lengths up to the burst of 3.                                           *)
Fitting == {1, 3}
=============================================================================
