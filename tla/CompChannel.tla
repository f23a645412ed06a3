---------------------------- MODULE CompChannel ----------------------------
(***************************************************************************)
(* Completion channels and completion events.                              *)
(*                                                                         *)
(* A client creates a completion channel and completion queues on it, asks *)
(* for a notification (ibv_req_notify_cq), waits for an event              *)
(* (ibv_get_cq_event) and acknowledges it (ibv_ack_cq_events).  Each call  *)
(* is a request to the router, served by a handler thread that looks the   *)
(* object up in channel_map or cq_map and calls the verb of the host.  A   *)
(* handler that does not find the object leaves through `goto end': it     *)
(* reads the next request and sends no response, so the client's thread    *)
(* stays in request_router for ever, with the mutexes it holds ("hung").   *)
(*                                                                         *)
(* Threads of several client processes share the router.  The host's       *)
(* library is external: its ibv_destroy_cq waits, under the context's      *)
(* mutex, until every event the channel has handed out for the queue is    *)
(* acknowledged.  Of its counters the model keeps the difference, the      *)
(* number of events handed out and not acknowledged; the copy the client   *)
(* keeps in comp_events_completed is read by nobody and left out.  The     *)
(* pieces of the fast path are in QueueLifecycle; a poll takes all         *)
(* completions in one step.  A thread of the application runs calls from   *)
(* Does[t]; one that may do "loop" follows the example of the man page:    *)
(* get, acknowledge, ask again, empty the queue.                           *)
(***************************************************************************)
EXTENDS Integers, Sequences, FiniteSets

CONSTANTS
    Procs,       \* client processes
    Threads,     \* their threads
    Uses,        \* who the threads are: the process of each (procOf), the calls it
                 \* makes (does), the processes that set O_NONBLOCK on their
                 \* channel (nonBlocking)
    Cqs,         \* completion queues, told apart even when a handle is reused
    Handles,     \* handles the kernel gives to completion queues
    Fds,         \* descriptors the router's channels may have
    MaxEvents,   \* bound: events waiting in a channel, or got of one queue and
                 \* not acknowledged
    NULL

ASSUME CompChannelAssumption ==
    /\ \A u \in Uses : /\ u.procOf \in [Threads -> Procs]
                        /\ u.nonBlocking \subseteq Procs
    /\ IsFiniteSet(Threads) /\ MaxEvents \in Nat \ {0}
    /\ NULL \notin Cqs \cup Threads \cup Procs \cup Fds

VARIABLES
    use,         \* the use of this behaviour
    channel_map, \* router: the process whose channel a descriptor is, or NULL
    cq_map,      \* router: the queue of a handle, or NULL
    rctx,        \* router: holder of the mutex of the host's context
    open,        \* kernel: the process whose channel is open under a descriptor
    cq,          \* kernel and router's library: the completion queues
    armed,       \* kernel: queues that are to put an event into their channel
    pending,     \* kernel: queues with completions that were not polled
    events,      \* kernel: events waiting in the channel of a process
    fd,          \* client: comp_channel_map of its channel
    client_map,  \* client: cq_map of verbs.c
    ctx,         \* client: holder of the mutex of its context
    sock,        \* client: holder of the socket of its channel
    held,        \* application: events got and not yet acknowledged
    owned,       \* application: queues created and not given to ibv_destroy_cq
    thr,         \* the call each thread is in
    cut,         \* history: processes whose channel was refused destruction
    late,        \* history: queues destroyed before their last acknowledgement
    overtaken    \* history: queues whose entry another destruction cleared

router == <<channel_map, cq_map, rctx>>
flags  == <<armed, pending>>
kernel == <<open, cq, events, flags>>
client == <<fd, client_map, ctx, sock>>
app    == <<held, owned>>
history == <<cut, late, overtaken>>
vars == <<use, router, kernel, client, app, thr, history>>

ProcOf == use.procOf
Does == use.does
NonBlocking == use.nonBlocking

NoCq == [st |-> "none", handle |-> NULL, owner |-> NULL, out |-> 0]
Idle == [op |-> "none", pc |-> "idle", cq |-> NULL, handle |-> NULL, n |-> 0,
         duty |-> "none"]

Init ==
    /\ use \in Uses
    /\ channel_map = [f \in Fds |-> NULL]
    /\ cq_map = [h \in Handles |-> NULL]
    /\ rctx = NULL
    /\ open = [f \in Fds |-> NULL]
    /\ cq = [c \in Cqs |-> NoCq] /\ armed = {} /\ pending = {}
    /\ events = [p \in Procs |-> <<>>]
    /\ fd = [p \in Procs |-> NULL]
    /\ client_map = [p \in Procs |-> [h \in Handles |-> NULL]]
    /\ ctx = [p \in Procs |-> NULL]
    /\ sock = [p \in Procs |-> NULL]
    /\ held = [c \in Cqs |-> 0]
    /\ owned = {}
    /\ thr = [t \in Threads |->
                IF "loop" \in Does[t] THEN [Idle EXCEPT !.duty = "create"] ELSE Idle]
    /\ cut = {} /\ late = {} /\ overtaken = {}

-----------------------------------------------------------------------------
\* What the application does between the calls.

\* The duties of a thread that follows the man page's example, in their order;
\* it asks for no notification of a queue that is being destroyed.
After(op, c) ==
    CASE op = "create" -> "notify" [] op = "notify" -> "poll"
      [] op = "poll" -> "get" [] op = "get" -> "ack"
      [] op = "ack" -> IF c \in owned THEN "notify" ELSE "get"
      [] OTHER -> "none"

\* Thread t is free to call op on queue c: any call it makes, or its duty.
May(t, op, c) ==
    /\ thr[t].pc = "idle"
    /\ \/ op \in Does[t]
       \/ /\ "loop" \in Does[t]
          /\ thr[t].duty = op
          /\ op \in {"notify", "poll", "ack"} => thr[t].cq = c

\* A thread is in, or about to make, a call on c that an application must not
\* race with the destruction of c; getting and acknowledging events may.
InUse(c) ==
    \E t \in Threads :
        /\ thr[t].cq = c
        /\ \/ thr[t].op = "notify"
           \/ thr[t].pc = "idle" /\ thr[t].duty \in {"notify", "poll"}

\* The handle a call on c sends, and what a thread does after its call: one
\* that follows the example goes on with the queue it has.
HandleOf(c) == IF c = NULL THEN NULL ELSE cq[c].handle
Keeps(t, c) == IF "loop" \in Does[t] THEN c ELSE NULL
NextDuty(t, c) == IF "loop" \in Does[t] THEN After(thr[t].op, c) ELSE "none"

\* Thread t is in the call op, at pc.
In(t, op, pc, c, h) ==
    thr' = [thr EXCEPT ![t] = [op |-> op, pc |-> pc, cq |-> c, handle |-> h,
                               n |-> thr[t].n, duty |-> thr[t].duty]]

Start(t, op, c, pc) == In(t, op, pc, c, HandleOf(c))
Goto(t, pc) == In(t, thr[t].op, pc, thr[t].cq, thr[t].handle)
\* `goto end': the handler reads the next request, the thread waits for ever.
Hung(t) == Goto(t, "hung")
\* The call of t returns to the application.
Done(t, c) ==
    thr' = [thr EXCEPT ![t] = [op |-> "none", pc |-> "idle", cq |-> Keeps(t, c),
                               handle |-> NULL, n |-> 0, duty |-> NextDuty(t, c)]]

-----------------------------------------------------------------------------
\* ibv_create_comp_channel, ibv_destroy_comp_channel

\* IBV_CREATE_COMP_CHANNEL: the host's verb takes the lowest free descriptor.
CreateChannel(t) ==
    /\ May(t, "channel", NULL)
    /\ fd[ProcOf[t]] = NULL
    /\ \A u \in Threads : ProcOf[u] = ProcOf[t] => thr[u].op # "channel"
    /\ \E f \in Fds :
          /\ open[f] = NULL /\ \A g \in Fds : open[g] = NULL => f <= g
          /\ open' = [open EXCEPT ![f] = ProcOf[t]]
          /\ In(t, "channel", "store", thr[t].cq, f)
    /\ UNCHANGED <<router, cq, events, flags, client, app, history>>

\* channel_map is filled, the descriptor passed, the response sent, and
\* request_router notes the router's descriptor in comp_channel_map.
StoreChannel(t) ==
    /\ thr[t].op = "channel" /\ thr[t].pc = "store"
    /\ channel_map' = [channel_map EXCEPT ![thr[t].handle] = ProcOf[t]]
    /\ fd' = [fd EXCEPT ![ProcOf[t]] = thr[t].handle]
    /\ In(t, "none", "idle", thr[t].cq, NULL)
    /\ UNCHANGED <<cq_map, rctx, kernel, client_map, ctx, sock, app, history>>

\* A caller that destroys its channel does not wait for events of it meanwhile.
ChannelQuiet(p) ==
    \A u \in Threads : ProcOf[u] = p => thr[u].op \notin {"get", "create", "unchannel"}

DestroyChannelCall(t) ==
    /\ May(t, "unchannel", NULL)
    /\ fd[ProcOf[t]] # NULL
    /\ ChannelQuiet(ProcOf[t])
    /\ Start(t, "unchannel", NULL, "find")
    /\ UNCHANGED <<router, kernel, client, app, history>>

\* Mutant: the entry is never cleared.
DestroyChannelFindKeeps(t) ==
    /\ thr[t].op = "unchannel" /\ thr[t].pc = "find"
    /\ IF channel_map[fd[ProcOf[t]]] = NULL THEN Hung(t) ELSE Goto(t, "verb")
    /\ UNCHANGED <<router, kernel, client, app, history>>

\* IBV_DESTROY_COMP_CHANNEL: the entry is cleared before the verb is called.
DestroyChannelFind(t) ==
    /\ thr[t].op = "unchannel" /\ thr[t].pc = "find"
    /\ IF channel_map[fd[ProcOf[t]]] = NULL
       THEN Hung(t) /\ UNCHANGED channel_map
       ELSE /\ channel_map' = [channel_map EXCEPT ![fd[ProcOf[t]]] = NULL]
            /\ Goto(t, "verb")
    /\ UNCHANGED <<cq_map, rctx, kernel, client, app, history>>

\* The host's ibv_destroy_comp_channel refuses while a queue uses the channel;
\* the client returns its answer and keeps its own table as it is.
DestroyChannelVerb(t) ==
    LET p == ProcOf[t]
        busy == \E c \in Cqs : cq[c].st # "none" /\ cq[c].owner = p
    IN  /\ thr[t].op = "unchannel" /\ thr[t].pc = "verb"
        /\ rctx = NULL
        /\ cut' = IF busy THEN cut \cup {p} ELSE cut
        /\ open' = IF busy THEN open ELSE [open EXCEPT ![fd[p]] = NULL]
        /\ fd' = IF busy THEN fd ELSE [fd EXCEPT ![p] = NULL]
        /\ In(t, "none", "idle", thr[t].cq, NULL)
        /\ UNCHANGED <<router, cq, events, flags, client_map, ctx, sock, app, late, overtaken>>

-----------------------------------------------------------------------------
\* ibv_create_cq, ibv_destroy_cq

\* A queue that nothing refers to any more, so that its name is free again.
Fresh(c) ==
    /\ cq[c].st = "none" /\ c \notin owned /\ held[c] = 0
    /\ \A t \in Threads : thr[t].cq # c
    /\ \A p \in Procs, h \in Handles : client_map[p][h] # c

\* __ibv_create_cq takes the mutex of the client's context for the whole call.
CreateCall(t) ==
    /\ May(t, "create", NULL)
    /\ fd[ProcOf[t]] # NULL /\ ctx[ProcOf[t]] = NULL
    /\ \A u \in Threads : ProcOf[u] = ProcOf[t] => thr[u].op # "unchannel"
    /\ ctx' = [ctx EXCEPT ![ProcOf[t]] = t]
    /\ Start(t, "create", NULL, "verb")
    /\ UNCHANGED <<router, kernel, fd, client_map, sock, app, history>>

\* IBV_CREATE_CQ: the channel is looked up and the host's verb creates the queue.
CreateVerb(t) ==
    /\ thr[t].op = "create" /\ thr[t].pc = "verb"
    /\ \/ /\ channel_map[fd[ProcOf[t]]] = NULL
          /\ Hung(t) /\ UNCHANGED <<cq, late, overtaken>>
       \/ /\ channel_map[fd[ProcOf[t]]] # NULL
          /\ rctx = NULL
          /\ \E c \in Cqs, h \in Handles :
                /\ Fresh(c)
                /\ \A d \in Cqs : cq[d].st = "live" => cq[d].handle # h
                /\ cq' = [cq EXCEPT ![c] = [st |-> "live", handle |-> h, out |-> 0,
                                            owner |-> channel_map[fd[ProcOf[t]]]]]
                /\ In(t, "create", "store", c, h)
                /\ late' = late \ {c} /\ overtaken' = overtaken \ {c}
    /\ UNCHANGED <<router, open, events, flags, client, app, cut>>

\* Mutant: the queue is not stored.
CreateStoreForgotten(t) ==
    /\ thr[t].op = "create" /\ thr[t].pc = "store"
    /\ Goto(t, "return")
    /\ UNCHANGED <<router, kernel, client, app, history>>

\* The router's cq_map is filled and the response sent.
CreateStore(t) ==
    /\ thr[t].op = "create" /\ thr[t].pc = "store"
    /\ cq_map' = [cq_map EXCEPT ![thr[t].handle] = thr[t].cq]
    /\ Goto(t, "return")
    /\ UNCHANGED <<channel_map, rctx, kernel, client, app, history>>

\* The client notes the queue in its own cq_map and returns it.
CreateReturn(t) ==
    /\ thr[t].op = "create" /\ thr[t].pc = "return"
    /\ client_map' = [client_map EXCEPT ![ProcOf[t]][thr[t].handle] = thr[t].cq]
    /\ ctx' = [ctx EXCEPT ![ProcOf[t]] = NULL]
    /\ owned' = owned \cup {thr[t].cq}
    /\ Done(t, thr[t].cq)
    /\ UNCHANGED <<router, kernel, fd, sock, held, history>>

\* Events of c that a get is about to return.
InFlight(c) == {t \in Threads : thr[t].op = "get" /\ thr[t].cq = c}
\* Threads with an acknowledgement of c that their handler has not counted, and
\* the events they acknowledge.
Acking(c) == {t \in Threads : thr[t].op = "ack" /\ thr[t].cq = c}
Acks(c) == UNION {{t} \X (1 .. thr[t].n) : t \in Acking(c)}

\* Mutant: the client clears its entry before it asks the router.
DestroyCallClears(t) ==
    \E c \in owned :
        /\ cq[c].owner = ProcOf[t] /\ May(t, "destroy", c) /\ ~InUse(c)
        /\ ctx[ProcOf[t]] = NULL /\ ctx' = [ctx EXCEPT ![ProcOf[t]] = t]
        /\ owned' = owned \ {c}
        /\ client_map' = [client_map EXCEPT ![ProcOf[t]][cq[c].handle] = NULL]
        /\ Start(t, "destroy", c, "find")
        /\ UNCHANGED <<router, kernel, fd, sock, held, history>>

\* __ibv_destroy_cq takes the mutex of the client's context.
DestroyCall(t) ==
    \E c \in owned :
        /\ cq[c].owner = ProcOf[t] /\ May(t, "destroy", c) /\ ~InUse(c)
        /\ ctx[ProcOf[t]] = NULL /\ ctx' = [ctx EXCEPT ![ProcOf[t]] = t]
        /\ owned' = owned \ {c}
        /\ Start(t, "destroy", c, "find")
        /\ UNCHANGED <<router, kernel, fd, client_map, sock, held, history>>

\* IBV_DESTROY_CQ: the entry of cq_map is cleared before the verb.
DestroyFind(t) ==
    LET c == thr[t].cq
    IN  /\ thr[t].op = "destroy" /\ thr[t].pc = "find"
        /\ IF cq_map[thr[t].handle] = NULL
           THEN Hung(t) /\ UNCHANGED <<cq_map, late>>
           ELSE /\ cq_map' = [cq_map EXCEPT ![thr[t].handle] = NULL]
                /\ late' = IF held[c] > 0 \/ InFlight(c) \cup Acking(c) # {}
                           THEN late \cup {c} ELSE late
                /\ Goto(t, "verb")
        /\ UNCHANGED <<channel_map, rctx, kernel, client, app, cut, overtaken>>

\* The events of a channel without those of queue c, in their order: the i-th is
\* the one that has i - 1 of them before it.
Left(s, c) == {k \in 1 .. Len(s) : s[k] # c}
Rank(K, k) == Cardinality({j \in K : j <= k})
Without(s, c) ==
    [i \in 1 .. Cardinality(Left(s, c)) |->
        s[CHOOSE k \in Left(s, c) : Rank(Left(s, c), k) = i]]

\* The host's ibv_destroy_cq: the kernel frees the handle and drops the queue's
\* events that nobody has read.
DestroyVerb(t) ==
    LET c == thr[t].cq
    IN  /\ thr[t].op = "destroy" /\ thr[t].pc = "verb"
        /\ rctx = NULL /\ rctx' = t
        /\ cq' = [cq EXCEPT ![c].st = "dying"]
        /\ armed' = armed \ {c} /\ pending' = pending \ {c}
        /\ events' = [p \in Procs |-> Without(events[p], c)]
        /\ Goto(t, "wait")
        /\ UNCHANGED <<channel_map, cq_map, open, client, app, history>>

\* It returns when every event the channel has handed out is acknowledged.
DestroyWait(t) ==
    /\ thr[t].op = "destroy" /\ thr[t].pc = "wait"
    /\ cq[thr[t].cq].out = 0
    /\ cq' = [cq EXCEPT ![thr[t].cq] = NoCq]
    /\ rctx' = NULL
    /\ Goto(t, "unlock")
    /\ UNCHANGED <<channel_map, cq_map, open, events, flags, client, app, history>>

\* The client has the response and lets go of the mutex of its context.
DestroyUnlock(t) ==
    /\ thr[t].op = "destroy" /\ thr[t].pc = "unlock"
    /\ ctx' = [ctx EXCEPT ![ProcOf[t]] = NULL]
    /\ Goto(t, "clear")
    /\ UNCHANGED <<router, kernel, fd, client_map, sock, app, history>>

\* After that it clears its own entry for the handle.
DestroyClear(t) ==
    LET now == client_map[ProcOf[t]][thr[t].handle]
    IN  /\ thr[t].op = "destroy" /\ thr[t].pc = "clear"
        /\ client_map' = [client_map EXCEPT ![ProcOf[t]][thr[t].handle] = NULL]
        /\ overtaken' = IF now \in {NULL, thr[t].cq} THEN overtaken ELSE overtaken \cup {now}
        /\ Done(t, NULL)
        /\ UNCHANGED <<router, kernel, fd, ctx, sock, app, cut, late>>

-----------------------------------------------------------------------------
\* ibv_req_notify_cq, ibv_poll_cq

NotifyCall(t) ==
    \E c \in owned :
        /\ cq[c].owner = ProcOf[t] /\ May(t, "notify", c)
        /\ Start(t, "notify", c, "serve")
        /\ UNCHANGED <<router, kernel, client, app, history>>

\* IBV_REQ_NOTIFY_CQ
NotifyServe(t) ==
    LET found == cq_map[thr[t].handle]
    IN  /\ thr[t].op = "notify" /\ thr[t].pc = "serve"
        /\ IF found = NULL
           THEN Hung(t) /\ UNCHANGED armed
           ELSE armed' = armed \cup {found} /\ Done(t, thr[t].cq)
        /\ UNCHANGED <<router, open, cq, events, pending, client, app, history>>

\* The application empties the queue over the fast path.
Poll(t) ==
    \E c \in owned :
        /\ cq[c].owner = ProcOf[t] /\ May(t, "poll", c)
        /\ pending' = pending \ {c}
        /\ thr' = [thr EXCEPT ![t].duty = IF "loop" \in Does[t] THEN "get" ELSE "none"]
        /\ UNCHANGED <<router, open, cq, events, armed, client, app, history>>

\* The adapter completes a work request; an armed queue puts one event into its
\* channel and is disarmed.  A queue that is being destroyed has no queue pair
\* left that could complete anything.
Complete(c) ==
    /\ cq[c].st = "live" /\ c \in owned
    /\ c \notin pending \/ c \in armed
    /\ c \in armed => Len(events[cq[c].owner]) < MaxEvents
    /\ pending' = pending \cup {c} /\ armed' = armed \ {c}
    /\ events' = IF c \in armed THEN [events EXCEPT ![cq[c].owner] = Append(@, c)]
                                ELSE events
    /\ UNCHANGED <<router, open, cq, client, app, thr, history>>

-----------------------------------------------------------------------------
\* ibv_get_cq_event, ibv_ack_cq_events

\* All waits of one channel use one socket, under its mutex.
GetCall(t) ==
    LET p == ProcOf[t]
    IN  /\ May(t, "get", NULL)
        /\ fd[p] # NULL /\ sock[p] = NULL
        /\ \A c \in Cqs : cq[c].owner = p => held[c] < MaxEvents
        /\ \A u \in Threads : ProcOf[u] = p => thr[u].op # "unchannel"
        /\ sock' = [sock EXCEPT ![p] = t]
        /\ Start(t, "get", NULL, "serve")
        /\ UNCHANGED <<router, kernel, fd, client_map, ctx, app, history>>

\* Mutant: the handler acknowledges the event on behalf of the client.
GetServeAcks(t) ==
    LET p == ProcOf[t]
    IN  /\ thr[t].op = "get" /\ thr[t].pc = "serve"
        /\ events[p] # <<>>
        /\ events' = [events EXCEPT ![p] = Tail(@)]
        /\ In(t, "get", "gotten", Head(events[p]), thr[t].handle)
        /\ UNCHANGED <<router, open, cq, flags, client, app, history>>

\* IBV_GET_CQ_EVENT: the host's ibv_get_cq_event takes the next event, waits for
\* one, or fails at once on a channel that does not block; its result is ignored,
\* and without a queue the handler leaves through `goto end'.
GetServe(t) ==
    LET p == ProcOf[t]
        c == Head(events[p])
    IN  /\ thr[t].op = "get" /\ thr[t].pc = "serve"
        /\ \/ /\ \/ channel_map[fd[p]] = NULL
                 \/ p \in NonBlocking /\ events[p] = <<>>
              /\ Hung(t)
              /\ UNCHANGED <<cq, events, late>>
           \/ /\ channel_map[fd[p]] # NULL /\ events[p] # <<>>
              /\ events' = [events EXCEPT ![p] = Tail(@)]
              /\ cq' = [cq EXCEPT ![c].out = @ + 1]
              /\ late' = IF cq_map[cq[c].handle] = c THEN late ELSE late \cup {c}
              /\ In(t, "get", "gotten", c, thr[t].handle)
        /\ UNCHANGED <<router, open, flags, client, app, cut, overtaken>>

\* The handler reads the handle of the queue for its response.
GetReply(t) ==
    /\ thr[t].op = "get" /\ thr[t].pc = "gotten"
    /\ In(t, "get", "replied", thr[t].cq, cq[thr[t].cq].handle)
    /\ UNCHANGED <<router, kernel, client, app, history>>

\* Mutant: the mutex of the channel's socket stays locked.
GetReturnKeepsSocket(t) ==
    LET c == client_map[ProcOf[t]][thr[t].handle]
    IN  /\ thr[t].op = "get" /\ thr[t].pc = "replied"
        /\ IF c = NULL THEN Hung(t) /\ UNCHANGED held
                       ELSE held' = [held EXCEPT ![c] = @ + 1] /\ Done(t, c)
        /\ UNCHANGED <<router, kernel, client, owned, history>>

\* The client has the response, frees the socket and finds the queue in its own
\* cq_map; a cleared entry is dereferenced, and the thread gets no further.
GetReturn(t) ==
    LET p == ProcOf[t]
        c == client_map[p][thr[t].handle]
    IN  /\ thr[t].op = "get" /\ thr[t].pc = "replied"
        /\ sock' = [sock EXCEPT ![p] = NULL]
        /\ IF c = NULL THEN Hung(t) /\ UNCHANGED held
                       ELSE held' = [held EXCEPT ![c] = @ + 1] /\ Done(t, c)
        /\ UNCHANGED <<router, kernel, fd, client_map, ctx, owned, history>>

\* The application acknowledges one or more of the events it has got.
AckCall(t) ==
    \E c \in Cqs : \E n \in 1 .. held[c] :
        /\ cq[c].owner = ProcOf[t] /\ May(t, "ack", c)
        /\ held' = [held EXCEPT ![c] = @ - n]
        /\ thr' = [thr EXCEPT ![t] = [op |-> "ack", pc |-> "serve", cq |-> c,
                                      handle |-> cq[c].handle, n |-> n, duty |-> thr[t].duty]]
        /\ UNCHANGED <<router, kernel, client, owned, history>>

\* Mutant: one event is counted whatever the request says.
AckServeOne(t) ==
    LET found == cq_map[thr[t].handle]
    IN  /\ thr[t].op = "ack" /\ thr[t].pc = "serve"
        /\ IF found = NULL
           THEN Hung(t) /\ UNCHANGED cq
           ELSE cq' = [cq EXCEPT ![found].out = @ - 1] /\ Done(t, thr[t].cq)
        /\ UNCHANGED <<router, open, events, flags, client, app, history>>

\* Mutant: the handler answers without acknowledging.
AckServeForgets(t) ==
    /\ thr[t].op = "ack" /\ thr[t].pc = "serve"
    /\ IF cq_map[thr[t].handle] = NULL THEN Hung(t) ELSE Done(t, thr[t].cq)
    /\ UNCHANGED <<router, kernel, client, app, history>>

\* IBV_ACK_CQ_EVENT
AckServe(t) ==
    LET found == cq_map[thr[t].handle]
    IN  /\ thr[t].op = "ack" /\ thr[t].pc = "serve"
        /\ IF found = NULL
           THEN Hung(t) /\ UNCHANGED cq
           ELSE cq' = [cq EXCEPT ![found].out = @ - thr[t].n] /\ Done(t, thr[t].cq)
        /\ UNCHANGED <<router, open, events, flags, client, app, history>>

-----------------------------------------------------------------------------
ChannelStep(t) ==
    \/ CreateChannel(t) \/ StoreChannel(t)
    \/ DestroyChannelCall(t) \/ DestroyChannelFind(t) \/ DestroyChannelVerb(t)

CqStep(t) ==
    \/ CreateCall(t) \/ CreateVerb(t) \/ CreateStore(t) \/ CreateReturn(t)
    \/ DestroyCall(t) \/ DestroyFind(t) \/ DestroyVerb(t) \/ DestroyWait(t)
    \/ DestroyUnlock(t) \/ DestroyClear(t)

EventStep(t) ==
    \/ NotifyCall(t) \/ NotifyServe(t) \/ Poll(t)
    \/ GetCall(t) \/ GetServe(t) \/ GetReply(t) \/ GetReturn(t)
    \/ AckCall(t) \/ AckServe(t)

Next ==
    /\ UNCHANGED use
    /\ \/ \E t \in Threads : ChannelStep(t) \/ CqStep(t) \/ EventStep(t)
       \/ \E c \in Cqs : Complete(c)

\* A call that was made goes on, and a thread that follows the example makes the
\* next call of it.
Progress(t) ==
  /\ UNCHANGED use
  /\ \/ StoreChannel(t) \/ DestroyChannelFind(t) \/ DestroyChannelVerb(t)
     \/ CreateVerb(t) \/ CreateStore(t) \/ CreateReturn(t)
     \/ DestroyFind(t) \/ DestroyVerb(t) \/ DestroyWait(t)
     \/ DestroyUnlock(t) \/ DestroyClear(t)
     \/ NotifyServe(t) \/ GetServe(t) \/ GetReply(t) \/ GetReturn(t) \/ AckServe(t)
     \/ "loop" \in Does[t] /\ (NotifyCall(t) \/ Poll(t) \/ GetCall(t) \/ AckCall(t))

Fairness ==
    \A t \in Threads : SF_vars(Progress(t))

Spec == Init /\ [][Next]_vars /\ Fairness

-----------------------------------------------------------------------------
\* Properties

Ops == {"none", "channel", "unchannel", "create", "destroy", "notify", "get", "ack"}
Pcs == {"idle", "hung", "store", "find", "verb", "return", "wait", "unlock", "clear",
        "serve", "gotten", "replied"}
Duties == {"none", "create", "notify", "poll", "get", "ack"}
Calls == [op : Ops, pc : Pcs, cq : Cqs \cup {NULL}, handle : Handles \cup Fds \cup {NULL},
          n : Nat, duty : Duties]
Queues == [st : {"none", "live", "dying"}, handle : Handles \cup {NULL}, owner : Procs \cup {NULL},
           out : Nat]

\* Every variable keeps its type: a queue has at most as many unacknowledged
\* events as there are holders of them, and never fewer than none, so the
\* counters that ibv_destroy_cq compares meet.
TypeOK ==
    /\ channel_map \in [Fds -> Procs \cup {NULL}]
    /\ cq_map \in [Handles -> Cqs \cup {NULL}]
    /\ rctx \in Threads \cup {NULL}
    /\ open \in [Fds -> Procs \cup {NULL}]
    /\ cq \in [Cqs -> Queues] /\ armed \subseteq Cqs /\ pending \subseteq Cqs
    /\ events \in [Procs -> Seq(Cqs)] /\ \A p \in Procs : Len(events[p]) <= MaxEvents
    /\ fd \in [Procs -> Fds \cup {NULL}]
    /\ client_map \in [Procs -> [Handles -> Cqs \cup {NULL}]]
    /\ ctx \in [Procs -> Threads \cup {NULL}] /\ sock \in [Procs -> Threads \cup {NULL}]
    /\ held \in [Cqs -> Nat] /\ owned \subseteq Cqs
    /\ thr \in [Threads -> Calls]
    /\ cut \subseteq Procs /\ late \subseteq Cqs /\ overtaken \subseteq Cqs

\* The two tables of channels agree: a descriptor in the router's channel_map is
\* the open channel of the process it was created for, although descriptors are
\* reused by other processes; and the channel a process has is in channel_map,
\* unless its destruction was refused or is under way.
ChannelKnown ==
    /\ \A f \in Fds : channel_map[f] # NULL => open[f] = channel_map[f]
    /\ \A p \in Procs :
          fd[p] # NULL /\ p \notin cut =>
              \/ channel_map[fd[p]] = p
              \/ \E t \in Threads : ProcOf[t] = p /\ thr[t].op = "unchannel"

\* An event reaches the queue it is of.  The queue is still there when the
\* handler of IBV_GET_CQ_EVENT reads its handle, after the verb has returned and
\* whatever destruction runs meanwhile; and the client finds it under the handle
\* of the response: no destruction clears the entry and no creation reuses the
\* handle before.  Excepted is a queue whose entry was cleared by the
\* destruction of its predecessor, which clears it without the mutex.
EventFindsCq ==
    \A t \in Threads :
        thr[t].op = "get" =>
            /\ thr[t].pc = "gotten" => cq[thr[t].cq].st # "none"
            /\ thr[t].pc = "replied" /\ thr[t].cq \notin overtaken =>
                  client_map[ProcOf[t]][thr[t].handle] = thr[t].cq

\* "a one-to-one correspondence between acks and successful gets": what the host
\* counts as handed out and not acknowledged is what clients are about to get,
\* hold, or are acknowledging, without an answer or with one to come.
OneAckPerGet ==
    \A c \in Cqs :
        cq[c].out = held[c] + Cardinality(InFlight(c)) + Cardinality(Acks(c))

\* A call stays without an answer (`goto end') in four cases only: its channel was
\* refused destruction before; an event is acknowledged after the destruction of
\* its queue began; a channel that does not block had no event; or a get was
\* answered and finds the entry of its queue cleared by another destruction.
AnsweredUnless ==
    \A t \in Threads :
        thr[t].pc = "hung" =>
            \/ thr[t].op \in {"get", "create", "unchannel"} /\ ProcOf[t] \in cut
            \/ thr[t].op = "ack" /\ thr[t].cq \in late
            \/ thr[t].op = "get" /\ ProcOf[t] \in NonBlocking
            \/ thr[t].op = "get" /\ thr[t].cq \in overtaken

\* ibv_destroy_cq returns, unless an event of the queue was still to be
\* acknowledged, or a destruction of another queue was stuck on that already.
DestroyReturnsUnlessLate ==
    \A t \in Threads :
        thr[t].op = "destroy" /\ thr[t].pc # "hung" ~>
            thr[t].op # "destroy" \/ \E u \in Threads : thr[u].op = "destroy" /\ thr[u].cq \in late

\* "destroying a CQ will wait for all completion events to be acknowledged": with
\* an application that acknowledges every event, ibv_destroy_cq returns.
DestroyReturns ==
    \A t \in Threads : thr[t].op = "destroy" ~> thr[t].op # "destroy"

\* No completion is slept through: on a queue of an application that follows the
\* example of the man page, every completion is polled or its queue destroyed,
\* unless a thread of the process is stuck.
Follows(p) ==
    /\ \E t \in Threads : ProcOf[t] = p /\ "loop" \in Does[t]
    /\ \A t \in Threads : ProcOf[t] = p => Does[t] \cap {"create", "get"} = {}
Stuck(p) == \E t \in Threads : ProcOf[t] = p /\ thr[t].pc = "hung"
CompletionSeen ==
    \A c \in Cqs :
        c \in pending /\ Follows(cq[c].owner) ~> c \notin pending \/ Stuck(cq[c].owner)
=============================================================================
