------------------------------ MODULE ByteStream ------------------------------
(***************************************************************************)
(* What a connected stream promises to its two ends: each end receives the *)
(* bytes the other one has sent, once and in order, and a sender is never  *)
(* more than Capacity bytes ahead of its receiver.                         *)
(***************************************************************************)
EXTENDS Integers, Sequences

CONSTANTS Ends, Peer(_), Capacity

VARIABLES
  sent,   \* how many bytes an end has sent; byte number i is the value i
  got     \* the bytes an end has received

StreamInit == sent = [e \in Ends |-> 0] /\ got = [e \in Ends |-> <<>>]

(* An end hands n bytes to the stream.                                     *)
Send(e, n) ==
  /\ sent[e] + n - Len(got[Peer(e)]) <= Capacity
  /\ sent' = [sent EXCEPT ![e] = @ + n] /\ UNCHANGED got

(* An end takes the next n bytes.                                          *)
Receive(e, n) ==
  /\ Len(got[e]) + n <= sent[Peer(e)]
  /\ got' = [got EXCEPT ![e] = @ \o [i \in 1..n |-> Len(@) + i]]
  /\ UNCHANGED sent

StreamNext == \E e \in Ends, n \in 1..Capacity : Send(e, n) \/ Receive(e, n)

StreamSpec == StreamInit /\ [][StreamNext]_<<sent, got>>
=============================================================================
