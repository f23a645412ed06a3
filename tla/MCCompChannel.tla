--------------------------- MODULE MCCompChannel ---------------------------
(***************************************************************************)
(* Instances of CompChannel: up to three threads in two processes, two     *)
(* completion queues on one handle, so that the handle of a queue is       *)
(* reused by the next.                                                     *)
(***************************************************************************)
EXTENDS CompChannel, TLC

CONSTANTS p1, p2, t1, t2, t3

OneProc == t1 :> p1 @@ t2 :> p1 @@ t3 :> p1

\* A thread follows the man page's example; another makes the channel, destroys
\* queues under it and tries to destroy the channel.
Example ==
    [procOf |-> OneProc, nonBlocking |-> {},
     does |-> t1 :> {"loop"} @@ t2 :> {"channel", "destroy", "unchannel"} @@ t3 :> {}]

\* Threads of one process create, wait, acknowledge and destroy in any order.
Race ==
    [procOf |-> OneProc, nonBlocking |-> {},
     does |-> t1 :> {"create", "destroy"} @@ t2 :> {"channel", "get", "ack"}
              @@ t3 :> {"create", "destroy", "notify"}]

\* Two processes share the router, its handles and its descriptors; the channel
\* of the second does not block.
TwoProcs ==
    [procOf |-> t1 :> p1 @@ t2 :> p2 @@ t3 :> p2, nonBlocking |-> {p2},
     does |-> t1 :> {"channel", "unchannel", "create", "destroy"}
              @@ t2 :> {"channel", "unchannel", "create", "destroy", "notify"}
              @@ t3 :> {"get", "ack"}]

AllUses == {Example, Race, TwoProcs}
ExampleUse == {Example}
=============================================================================
