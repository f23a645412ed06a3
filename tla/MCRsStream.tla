----------------------------- MODULE MCRsStream -----------------------------
(* The uses the runs make of RsStream: one end sends and the other reads,  *)
(* and then one thing more at a time.                                      *)
EXTENDS RsStream

CONSTANTS e1, e2

OneWay == [senders |-> {e1}, nonblock |-> {FALSE}, sendLens |-> {3}, bytes |-> 6,
           recvLens |-> {3}, flags |-> {"none"}, polls |-> FALSE,
           hows |-> [e \in Ends |-> {}], closers |-> {},
           keepalives |-> [e \in Ends |-> 0], lateAcks |-> FALSE]

Short(n) == [OneWay EXCEPT !.sendLens = {2}, !.bytes = n]

Late == [OneWay EXCEPT !.bytes = 3, !.lateAcks = TRUE]
Polled == [Short(4) EXCEPT !.polls = TRUE, !.flags = {"dontwait"}, !.recvLens = {2}]
Flags == [Short(4) EXCEPT !.flags = {"peek", "waitall"}]
Alive == [Short(2) EXCEPT !.keepalives = [e \in Ends |-> IF e = e1 THEN 2 ELSE 1]]
TwoWay == [Short(1) EXCEPT !.sendLens = {1}, !.senders = Ends, !.nonblock = {TRUE}, !.recvLens = {2}]
HalfClosed == [Short(2) EXCEPT !.hows = [e \in Ends |-> IF e = e1 THEN {"wr"} ELSE {}]]
Crossed == [Short(1) EXCEPT !.sendLens = {1}, !.hows = [e \in Ends |-> {"wr"}]]
Unread == [Short(2) EXCEPT !.hows = [e \in Ends |-> IF e = e1 THEN {"rd"} ELSE {"rdwr"}]]
Closed == [Short(2) EXCEPT !.closers = Ends]

SafetyUses == {OneWay, Late, Polled, Flags, Alive, TwoWay, Crossed, Unread, Closed}
LiveUses == {Short(6), [Polled EXCEPT !.sendLens = {1}, !.bytes = 2], HalfClosed, Unread}
=============================================================================
