----------------------------- MODULE MCMrMapping -----------------------------
(* Instances of MrMapping for TLC.                                         *)
EXTENDS MrMapping, TLC

CONSTANTS a, b, t1, t2, k1, k2, r1, r2

TwoHosts == {a, b}
TwoThreads == {t1, t2}
HostSame == t1 :> a @@ t2 :> a
TwoRegions == {r1, r2}

(* The keys of the adapter of each host.                                   *)
KeysTwo == a :> {k1, k2} @@ b :> {k2}

(* HOST_LIST with addresses, and with an entry that is a key of etcd.      *)
Listed == {[host |-> a, bare |-> TRUE], [host |-> b, bare |-> TRUE]}
WithEtcdKey == Listed \cup {[host |-> b, bare |-> FALSE]}

Lossy == {0, 1}
=============================================================================
