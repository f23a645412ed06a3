----------------------------- MODULE MCDirectory -----------------------------
(* Instances of Directory for TLC.                                         *)
EXTENDS Directory

CONSTANTS v1, v2, h1, h2

TwoVips == {v1, v2}
TwoHosts == {h1, h2}
=============================================================================
