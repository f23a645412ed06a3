------------------------------ MODULE CmEvents ------------------------------
(***************************************************************************)
(* The connection manager: rdma_cm ids, event channels and the handshake   *)
(* of a connection.                                                        *)
(*                                                                         *)
(* Every call of librdmacm is a request to the router, whose handler runs  *)
(* it on the kernel's ucma device and sends the answer.  An id is a block  *)
(* of the client's memory and a context of the kernel; the kernel counts   *)
(* the events it has reported for a context, the client those the          *)
(* application has acknowledged, and rdma_destroy_id frees the block when  *)
(* the second number has reached the first.  The client looks at no        *)
(* ret_errno but that of a bind: a call the kernel refuses goes on as if   *)
(* it had succeeded, and on a synchronous id waits for an event that does  *)
(* not come ("refused").                                                   *)
(*                                                                         *)
(* Two connected ends share nothing in the client, so one process plays    *)
(* both; the connection is between contexts of the kernel, which is        *)
(* external, as is the IB connection protocol.  The queue pair of an id    *)
(* exists as soon as the id has a device.  rdma_create_ep, rdma_destroy_ep *)
(* and the application make the calls below one after the other.  After a  *)
(* get on an empty channel that does not block, the router answers with    *)
(* the previous event again; behaviours are followed up to that answer     *)
(* ("replayed").                                                           *)
(***************************************************************************)
EXTENDS Integers, FiniteSetsExt, SequencesExt

CONSTANTS
    Ids,         \* blocks of memory for ids (id_priv), a range of numbers
    Handles,     \* handles the kernel gives to contexts, a range of numbers
    MaxFd,       \* bound: event channels the router has opened
    MaxEvents,   \* bound: events of one id
    Threads,
    Uses,        \* how the library is used: synchronous ids (sync), af_ib_support
                 \* (afib), channels that do not block (nonblock), the number of
                 \* channels at the start (chans), threads that get events (loops),
                 \* threads that make calls (callers), the calls they make (does),
                 \* whether it starts with a listener and a resolved id (routed)
    Nil

ASSUME CmEventsAssumption ==
    /\ MaxFd \in Nat /\ MaxEvents \in Nat
    /\ Nil \notin Ids \cup Handles \cup Threads \cup 1..MaxFd
    /\ \A u \in Uses : u.chans \in 0..MaxFd

VARIABLES
    use,         \* the use of this behaviour
    id,          \* client: the ids
    kern,        \* kernel: contexts, event lists of the channels, messages under way
    th,          \* the call each thread is in
    fds,         \* router: event channels opened
    hung,        \* a pooled socket waits for an answer that is never sent
    replayed     \* a get was answered with the previous event

vars == <<use, id, kern, th, fds, hung, replayed>>

Channels == 1..MaxFd

NoId == [st |-> "free", role |-> "", app |-> "", handle |-> Nil, chan |-> Nil,
         sync |-> FALSE, completed |-> 0, qp |-> "none", connect_error |-> FALSE,
         event |-> Nil]

NoCtx == [st |-> "none", uid |-> Nil, file |-> Nil, reported |-> 0, peer |-> Nil]

Idle == [pc |-> "idle", op |-> "", id |-> Nil, ch |-> Nil, evt |-> Nil,
         need |-> 0, refused |-> FALSE]

\* ucma_abi_event_resp: own is the context the kernel counts the event on, id the
\* context the event is about.
CmEvent(kind, uid, own, k) == [kind |-> kind, uid |-> uid, own |-> own, id |-> k]

-----------------------------------------------------------------------------
(* The kernel: functions from a state of kern to the next.  KernCreate to  *)
(* KernDisconnect are the commands the handlers of the router run on the   *)
(* descriptor of an event channel, with their effect.                      *)

\* An event of a context without a uid is ignored.
Post(K, k, kind) ==
    IF K.ctx[k].uid = Nil THEN K
    ELSE [K EXCEPT !.queue[K.ctx[k].file] =
              Append(@, CmEvent(kind, K.ctx[k].uid, k, k))]

Tell(K, k, msg) ==
    IF K.ctx[k].peer = Nil THEN K
    ELSE [K EXCEPT !.net[K.ctx[k].peer] = Append(@, msg)]

Enter(K, k, st) == [K EXCEPT !.ctx[k].st = st]

FreeHandles == {k \in Handles : kern.ctx[k].st = "none"}

KernCreate(K, k, uid, ch) ==
    [K EXCEPT !.ctx[k] = [NoCtx EXCEPT !.st = "idle", !.uid = uid, !.file = ch]]

\* The contexts that go with k: requests that wait in its channel and that no get
\* has handed out.
Goes(K, k) ==
    {k} \cup {e.id : e \in {x \in ToSet(K.queue[K.ctx[k].file]) : x.own = k}}

KernDestroy(K, k) ==
    LET gone == Goes(K, k)
        Farewell(p) == IF K.ctx[p].peer \in gone
                       THEN <<IF K.ctx[K.ctx[p].peer].st = "est" THEN "DREQ" ELSE "REJ">>
                       ELSE <<>>
    IN  IF K.ctx[k].st = "none" THEN K
        ELSE [ctx   |-> [p \in Handles |->
                            IF p \in gone THEN NoCtx
                            ELSE IF K.ctx[p].peer \in gone
                                 THEN [K.ctx[p] EXCEPT !.peer = Nil] ELSE K.ctx[p]],
              queue |-> [c \in Channels |->
                            SelectSeq(K.queue[c], LAMBDA e : e.own \notin gone)],
              net   |-> [p \in Handles |->
                            IF p \in gone THEN <<>> ELSE K.net[p] \o Farewell(p)]]

\* Queued events move with the context.
KernMigrate(K, k, ch) ==
    LET old == K.ctx[k].file
        mine(e) == e.own = k
        rest(e) == e.own # k
    IN  IF K.ctx[k].st = "none" THEN K
        ELSE [K EXCEPT !.ctx[k].file = ch,
                       !.queue[ch] = @ \o SelectSeq(K.queue[old], mine),
                       !.queue[old] = SelectSeq(@, rest)]

KernAccept(K, k, u) ==
    Tell([K EXCEPT !.ctx[k].st = "accepted", !.ctx[k].uid = u], k, "REP")

KernAcceptResp(K, k) == Tell(Enter(K, k, "est"), k, "RTU")

KernDisconnect(K, k) ==
    IF K.ctx[k].st = "est" THEN Tell(Enter(K, k, "closing"), k, "DREQ") ELSE K

-----------------------------------------------------------------------------
(* The kernel's own steps. *)

\* An address or a route is resolved, or is not.
KResolved(k) ==
    \/ /\ kern.ctx[k].st = "addrq"
       /\ \/ kern' = Post(Enter(kern, k, "addr"), k, "ADDR_RESOLVED")
          \/ kern' = Post(Enter(kern, k, "idle"), k, "ADDR_ERROR")
    \/ /\ kern.ctx[k].st = "routeq"
       /\ \/ kern' = Post(Enter(kern, k, "route"), k, "ROUTE_RESOLVED")
          \/ kern' = Post(Enter(kern, k, "addr"), k, "ROUTE_ERROR")

\* A request reaches a listener, or is refused.  The handle of the new context
\* is given here; the client sees it with the event, and the channel it is got
\* from is the channel of the context.
KRequest(k) ==
    /\ kern.ctx[k].st = "connect"
    /\ \/ \E l \in Handles : \E new \in {Min(FreeHandles \cup {Max(Handles)})} :
            /\ kern.ctx[l].st = "listen" /\ new \in FreeHandles
            /\ kern' = [kern EXCEPT
                   !.ctx[k].st = "sent", !.ctx[k].peer = new,
                   !.ctx[new] = [NoCtx EXCEPT !.st = "reqd", !.peer = k],
                   !.queue[kern.ctx[l].file] =
                       Append(@, CmEvent("CONNECT_REQUEST", kern.ctx[l].uid, l, new))]
       \/ kern' = Post(Enter(kern, k, "dead"), k, "REJECTED")

\* A message of the peer arrives; one the state does not expect is dropped.
KMessage(k) ==
    LET m == Head(kern.net[k])
        K == [kern EXCEPT !.net[k] = Tail(@)]
        Is(msg, sts) == m = msg /\ kern.ctx[k].st \in sts
    IN  /\ kern.net[k] # <<>>
        /\ kern' =
             CASE Is("REP", {"sent"}) ->
                    Post(Enter(K, k, "rep"), k, "CONNECT_RESPONSE")
               [] Is("RTU", {"accepted"}) -> Post(Enter(K, k, "est"), k, "ESTABLISHED")
               [] Is("REJ", {"sent", "reqd", "accepted", "rep", "est"}) ->
                    Post(Enter(K, k, "dead"), k, "REJECTED")
               [] Is("DREQ", {"est"}) -> Post(Enter(K, k, "dead"), k, "DISCONNECTED")
               [] OTHER -> K

\* The peer does not answer the request or the reply in time.
KTimeout(k) ==
    LET p == kern.ctx[k].peer
    IN  /\ p # Nil
        /\ \/ kern.ctx[k].st = "sent" /\ kern.ctx[p].st = "reqd"
           \/ kern.ctx[k].st = "accepted" /\ kern.ctx[p].st # "est"
        /\ kern' = Post(Tell(Enter(kern, k, "dead"), k, "REJ"), k, "UNREACHABLE")

KDisconnected(k) ==
    /\ kern.ctx[k].st = "closing"
    /\ kern' = Post(Enter(kern, k, "dead"), k, "DISCONNECTED")

KStep(k) ==
    /\ \/ KResolved(k) \/ KRequest(k) \/ KMessage(k) \/ KTimeout(k) \/ KDisconnected(k)
    /\ ~replayed
    /\ UNCHANGED <<use, id, th, fds, hung, replayed>>

-----------------------------------------------------------------------------
(* Calls of the application. *)

FreeIds == {u \in Ids : id[u].st = "free"}

Busy(u) == \E t \in Threads : th[t].op # "" /\ th[t].id = u

\* A thread that makes calls may start one on id u, whose previous call is over.
MayCall(t, u, op, app) ==
    /\ ~replayed /\ t \in use.callers /\ op \in use.does /\ th[t].pc = "idle"
    /\ id[u].st = "live" /\ id[u].app = app /\ ~Busy(u)

\* ucma_complete_event for the id whose event is acknowledged.
CompleteEvent(I, u) ==
    IF u = Nil THEN I
    ELSE [I EXCEPT ![u].completed = IF @ < MaxEvents THEN @ + 1 ELSE @]

\* Mutant: the previous event of a synchronous id is forgotten, not acknowledged.
UcmaCompleteForgets(t, u, op, I, refused) ==
    IF ~id[u].sync THEN id' = I /\ th' = [th EXCEPT ![t] = Idle]
    ELSE /\ id' = [I EXCEPT ![u].event = Nil]
         /\ th' = [th EXCEPT ![t] = [Idle EXCEPT !.pc = "lock", !.op = op, !.id = u,
                                         !.ch = id[u].chan, !.refused = refused]]

\* The end of a call: on a synchronous id the previous event is acknowledged and
\* the next awaited.
UcmaComplete(t, u, op, I, refused) ==
    IF ~id[u].sync THEN id' = I /\ th' = [th EXCEPT ![t] = Idle]
    ELSE /\ id' = [CompleteEvent(I, I[u].event) EXCEPT ![u].event = Nil]
         /\ th' = [th EXCEPT ![t] = [Idle EXCEPT !.pc = "lock", !.op = op, !.id = u,
                                         !.ch = id[u].chan, !.refused = refused]]

\* A request whose effect in the kernel is K if the context is in one of sts.
Request(t, u, op, app, sts, K) ==
    LET ok == kern.ctx[id[u].handle].st \in sts
    IN  /\ kern' = IF ok THEN K ELSE kern
        /\ UcmaComplete(t, u, op, [id EXCEPT ![u].app = app], ~ok)

\* rdma_create_event_channel: the router opens a channel and passes its descriptor.
NewChannel == fds + 1

CreateId(t, role) ==
    /\ ~replayed /\ t \in use.callers /\ "create" \in use.does /\ th[t].pc = "idle"
    /\ FreeIds # {} /\ FreeHandles # {}
    /\ \A v \in Ids : id[v].role # role
    /\ \E u \in {Min(FreeIds)}, k \in {Min(FreeHandles)} :
         \E ch \in IF use.sync THEN {NewChannel} \cap Channels ELSE 1..use.chans :
           /\ id' = [id EXCEPT ![u] = [NoId EXCEPT !.st = "live", !.role = role,
                         !.app = "new", !.handle = k, !.chan = ch, !.sync = use.sync]]
           /\ kern' = KernCreate(kern, k, u, ch)
    /\ fds' = IF use.sync THEN NewChannel ELSE fds
    /\ UNCHANGED <<use, th, hung, replayed>>

\* Without af_ib_support the request is CM_BIND_IP, and the router sends no answer.
\* With it the caller is told of success whatever the kernel says: ret_errno is -1
\* when the command fails, and rdma_bind_addr2 returns ret_errno >= 0.
BindAddr(t, u) ==
    /\ MayCall(t, u, "bind", "new") /\ id[u].role = "listen"
    /\ IF use.afib
       THEN id' = [id EXCEPT ![u].app = "bound"] /\ UNCHANGED <<th, hung>>
       ELSE /\ th' = [th EXCEPT ![t] = [Idle EXCEPT !.pc = "hung", !.op = "bind", !.id = u]]
            /\ hung' = TRUE /\ UNCHANGED id
    /\ UNCHANGED <<use, kern, fds, replayed>>

\* The kernel may refuse; the client does not look.
Listen(t, u) ==
    /\ MayCall(t, u, "listen", "bound")
    /\ id' = [id EXCEPT ![u].app = "listening"]
    /\ \/ kern' = Enter(kern, id[u].handle, "listen")
       \/ UNCHANGED kern
    /\ UNCHANGED <<use, th, fds, hung, replayed>>

ResolveAddr(t, u) ==
    /\ MayCall(t, u, "resolve_addr", "new") /\ id[u].role = "active"
    /\ \E sts \in {{"idle"}, {}} :
         Request(t, u, "resolve_addr", "wait", sts, Enter(kern, id[u].handle, "addrq"))
    /\ UNCHANGED <<use, fds, hung, replayed>>

ResolveRoute(t, u) ==
    /\ MayCall(t, u, "resolve_route", "addr")
    /\ Request(t, u, "resolve_route", "wait", {"addr"}, Enter(kern, id[u].handle, "routeq"))
    /\ UNCHANGED <<use, fds, hung, replayed>>

Connect(t, u) ==
    /\ MayCall(t, u, "connect", "route")
    /\ Request(t, u, "connect", "wait", {"route"}, Enter(kern, id[u].handle, "connect"))
    /\ UNCHANGED <<use, fds, hung, replayed>>

\* ucma_modify_qp_rtr and ucma_modify_qp_rts
ModifyToRts(u) == [id EXCEPT ![u].qp = "rts"]

\* Mutant: the reply is sent with the queue pair still in INIT.
AcceptModifyLater(t, u) ==
    /\ MayCall(t, u, "accept", "req")
    /\ th' = [th EXCEPT ![t] = [Idle EXCEPT !.pc = "accept", !.op = "accept", !.id = u]]
    /\ UNCHANGED <<use, id, kern, fds, hung, replayed>>

\* rdma_accept moves the queue pair to RTS before it sends the reply; if the queue
\* pair cannot be moved it returns.
AcceptModify(t, u) ==
    /\ MayCall(t, u, "accept", "req")
    /\ \/ /\ id' = ModifyToRts(u)
          /\ th' = [th EXCEPT ![t] = [Idle EXCEPT !.pc = "accept", !.op = "accept", !.id = u]]
       \/ UNCHANGED <<id, th>>
    /\ UNCHANGED <<use, kern, fds, hung, replayed>>

AcceptSend(t) ==
    /\ ~replayed /\ th[t].pc = "accept"
    /\ Request(t, th[t].id, "accept", "wait", {"reqd"},
               KernAccept(kern, id[th[t].id].handle, th[t].id))
    /\ UNCHANGED <<use, fds, hung, replayed>>

\* rdma_reject writes to the descriptor itself.
Reject(t, u) ==
    /\ MayCall(t, u, "reject", "req")
    /\ id' = [id EXCEPT ![u].app = "over"]
    /\ LET k == id[u].handle
       IN  kern' = IF kern.ctx[k].st = "reqd" THEN Tell(Enter(kern, k, "dead"), k, "REJ")
                   ELSE kern
    /\ UNCHANGED <<use, th, fds, hung, replayed>>

Disconnect(t, u) ==
    /\ MayCall(t, u, "disconnect", "est")
    /\ kern' = KernDisconnect(kern, id[u].handle)
    /\ UcmaComplete(t, u, "disconnect", [id EXCEPT ![u].app = "wait", ![u].qp = "err"], FALSE)
    /\ UNCHANGED <<use, fds, hung, replayed>>

\* rdma_get_request, on a synchronous listener.
GetRequest(t, u) ==
    /\ MayCall(t, u, "get_request", "listening") /\ id[u].sync
    /\ UcmaComplete(t, u, "get_request", id, FALSE)
    /\ UNCHANGED <<use, kern, fds, hung, replayed>>

\* rdma_destroy_id: the kernel's context goes and its events with it; the kernel
\* says how many events it has reported.
DestroyId(t, u) ==
    /\ MayCall(t, u, "destroy", id[u].app)
    /\ LET k == id[u].handle
       IN  /\ kern' = KernDestroy(kern, k)
           /\ id' = [CompleteEvent(id, id[u].event) EXCEPT ![u].event = Nil]
           /\ th' = [th EXCEPT ![t] = [Idle EXCEPT !.pc = "destroy", !.op = "destroy",
                                           !.id = u, !.need = kern.ctx[k].reported]]
    /\ UNCHANGED <<use, fds, hung, replayed>>

\* rdma_destroy_event_channel sends CM_CREATE_EVENT_CHANNEL: the router opens one
\* channel more and closes none.
DestroyChannel == IF fds < MaxFd THEN NewChannel ELSE fds

\* Mutant: the block is freed without waiting for acknowledgements.
DestroyFreeAtOnce(t) ==
    /\ ~replayed /\ th[t].pc = "destroy"
    /\ id' = [id EXCEPT ![th[t].id] = NoId]
    /\ fds' = IF id[th[t].id].sync THEN DestroyChannel ELSE fds
    /\ th' = [th EXCEPT ![t] = Idle]
    /\ UNCHANGED <<use, kern, hung, replayed>>

\* The block is freed, and the channel of a synchronous id destroyed.
DestroyFree(t) ==
    /\ ~replayed /\ th[t].pc = "destroy"
    /\ id[th[t].id].completed >= th[t].need
    /\ id' = [id EXCEPT ![th[t].id] = NoId]
    /\ fds' = IF id[th[t].id].sync THEN DestroyChannel ELSE fds
    /\ th' = [th EXCEPT ![t] = Idle]
    /\ UNCHANGED <<use, kern, hung, replayed>>

\* rdma_migrate_id: "Users should not poll for events on the rdma_cm_id's current
\* event channel" meanwhile.
MigrateId(t, u, ch) ==
    /\ MayCall(t, u, "migrate", id[u].app) /\ ch \in (1..use.chans) \ {id[u].chan}
    /\ \A s \in Threads : th[s].pc \in {"lock", "get", "process", "resp"} => th[s].ch # id[u].chan
    /\ kern' = KernMigrate(kern, id[u].handle, ch)
    /\ id' = [id EXCEPT ![u].chan = ch]
    /\ th' = [th EXCEPT ![t] = [Idle EXCEPT !.pc = "migrate", !.op = "migrate", !.id = u,
                                    !.need = kern.ctx[id[u].handle].reported]]
    /\ UNCHANGED <<use, fds, hung, replayed>>

MigrateReturn(t) ==
    /\ ~replayed /\ th[t].pc = "migrate"
    /\ id[th[t].id].completed >= th[t].need
    /\ th' = [th EXCEPT ![t] = Idle]
    /\ UNCHANGED <<use, id, kern, fds, hung, replayed>>

\* A thread that is about to send a request takes the pooled socket whose mutex
\* the unanswered CM_BIND_IP holds.
QueueBehind(t) ==
    /\ hung /\ ~replayed
    /\ \/ th[t].pc = "idle" /\ t \in use.callers
       \/ th[t].pc = "process"
    /\ th' = [th EXCEPT ![t].pc = "hung"]
    /\ UNCHANGED <<use, id, kern, fds, hung, replayed>>

-----------------------------------------------------------------------------
(* rdma_get_cm_event. *)

GetCall(t, ch) ==
    /\ ~replayed /\ t \in use.loops /\ th[t].pc = "idle"
    /\ use.nonblock => kern.queue[ch] # <<>>  \* the application has called poll()
    /\ th' = [th EXCEPT ![t] = [Idle EXCEPT !.pc = "lock", !.ch = ch]]
    /\ UNCHANGED <<use, id, kern, fds, hung, replayed>>

\* The socket of the channel is locked for the whole exchange.
GetLock(t) ==
    /\ ~replayed /\ th[t].pc = "lock"
    /\ \A s \in Threads : th[s].pc = "get" => th[s].ch # th[t].ch
    /\ th' = [th EXCEPT ![t].pc = "get"]
    /\ UNCHANGED <<use, id, kern, fds, hung, replayed>>

\* CM_GET_EVENT at the router: the kernel takes the first event of the channel,
\* and waits for one if the channel blocks.  If it does not, the kernel returns
\* an error, the handler leaves the previous event in its buffer and sends it.
GetEvent(t) ==
    LET q == kern.queue[th[t].ch]
    IN  /\ ~replayed /\ th[t].pc = "get"
        /\ \/ /\ q # <<>>
              /\ th' = [th EXCEPT ![t].pc = "process", ![t].evt = Head(q)]
              /\ kern' = [kern EXCEPT !.queue[th[t].ch] = Tail(@),
                                      !.ctx[Head(q).own].reported = @ + 1,
                                      !.ctx[Head(q).id].file = th[t].ch]
              /\ UNCHANGED replayed
           \/ /\ q = <<>> /\ use.nonblock
              /\ replayed' = TRUE
              /\ UNCHANGED <<kern, th>>
        /\ UNCHANGED <<use, id, fds, hung>>

\* Thread t, in state th[t], processes an event of one of kinds.
Processing(t, kinds) ==
    /\ ~replayed /\ th[t].pc = "process" /\ th[t].evt.kind \in kinds

\* What the application may do with an id after an event.
AppAfter(kind) ==
    CASE kind = "ADDR_RESOLVED" -> "addr"
      [] kind = "ROUTE_RESOLVED" -> "route"
      [] kind = "CONNECT_REQUEST" -> "req"
      [] kind = "ESTABLISHED" -> "est"
      [] OTHER -> "over"

\* The event is returned for id u: to the application, or to the synchronous call,
\* which keeps it in the id (rdma_get_request: in the new id).
Return(t, I, u, kind) ==
    LET told == [I EXCEPT ![u].app = AppAfter(kind)]
    IN  IF th[t].op = ""
        THEN id' = told /\ th' = [th EXCEPT ![t].pc = "have"]
        ELSE /\ id' = [told EXCEPT ![u].event = th[t].evt.uid]
             /\ th' = [th EXCEPT ![t] = Idle]

\* goto retry
Retry(t, I) == id' = I /\ th' = [th EXCEPT ![t].pc = "lock", ![t].evt = Nil]

\* The address, or the path, is read from the router; if that fails the event
\* becomes an error.
ProcessResolved(t) ==
    /\ Processing(t, {"ADDR_RESOLVED", "ROUTE_RESOLVED"})
    /\ LET u == th[t].evt.uid
           I == [id EXCEPT ![u].qp = IF @ = "none" THEN "init" ELSE @]
       IN  \/ Return(t, I, u, th[t].evt.kind)
           \/ Return(t, id, u, "ADDR_ERROR")
    /\ UNCHANGED <<use, kern, fds, hung, replayed>>

\* ucma_process_conn_req.  The new id of a synchronous listener gets a channel of
\* its own.  If there is no memory, or the router cannot be asked about the
\* connection, the context is destroyed and the event completed; the id that was
\* allocated, and its channel, are destroyed.
ProcessConnReq(t) ==
    LET l == th[t].evt.uid
        k == th[t].evt.id
        sync == id[l].sync
        ch == IF sync THEN NewChannel ELSE id[l].chan
    IN  /\ Processing(t, {"CONNECT_REQUEST"})
        /\ \/ /\ FreeIds # {} /\ ch \in Channels
              /\ \E u \in {Min(FreeIds)} :
                   Return(t, [id EXCEPT ![u] = [NoId EXCEPT !.st = "live",
                                  !.role = "passive", !.handle = k, !.chan = ch,
                                  !.sync = sync, !.qp = "init"]], u, "CONNECT_REQUEST")
              /\ kern' = IF sync THEN KernMigrate(kern, k, ch) ELSE kern
              /\ fds' = IF sync THEN ch ELSE fds
           \/ /\ kern' = KernDestroy(kern, k)
              /\ Retry(t, CompleteEvent(id, l))
              /\ fds' \in {fds} \cup IF sync THEN {Min({fds + 2, MaxFd})} ELSE {}
        /\ UNCHANGED <<use, hung, replayed>>

\* ucma_process_conn_resp: the queue pair goes to RTS, then the kernel is asked to
\* send the last message of the handshake.
ProcessConnResp(t) ==
    /\ Processing(t, {"CONNECT_RESPONSE"})
    /\ LET u == th[t].evt.uid
       IN  \/ /\ id' = ModifyToRts(u)
              /\ th' = [th EXCEPT ![t].pc = "resp"]
           \/ Return(t, [id EXCEPT ![u].qp = "err", ![u].connect_error = TRUE], u,
                     "CONNECT_ERROR")
    /\ UNCHANGED <<use, kern, fds, hung, replayed>>

ConnRespSend(t) ==
    /\ ~replayed /\ th[t].pc = "resp"
    /\ LET k == th[t].evt.id
       IN  kern' = IF kern.ctx[k].st = "rep" THEN KernAcceptResp(kern, k) ELSE kern
    /\ Return(t, id, th[t].evt.uid, "ESTABLISHED")
    /\ UNCHANGED <<use, fds, hung, replayed>>

\* Mutant: a dropped event is not completed.
ProcessEndForgets(t) ==
    /\ Processing(t, {"REJECTED", "DISCONNECTED"})
    /\ LET u == th[t].evt.uid
           kind == th[t].evt.kind
       IN  IF id[u].connect_error THEN Retry(t, id)
           ELSE Return(t, [id EXCEPT ![u].qp = IF kind = "REJECTED" THEN "err" ELSE @],
                       u, kind)
    /\ UNCHANGED <<use, kern, fds, hung, replayed>>

\* After a connection error the kernel's events about the end are dropped.
ProcessEnd(t) ==
    /\ Processing(t, {"REJECTED", "DISCONNECTED"})
    /\ LET u == th[t].evt.uid
           kind == th[t].evt.kind
       IN  IF id[u].connect_error THEN Retry(t, CompleteEvent(id, u))
           ELSE Return(t, [id EXCEPT ![u].qp = IF kind = "REJECTED" THEN "err" ELSE @],
                       u, kind)
    /\ UNCHANGED <<use, kern, fds, hung, replayed>>

ProcessOther(t) ==
    /\ Processing(t, {"ESTABLISHED", "ADDR_ERROR", "ROUTE_ERROR", "UNREACHABLE"})
    /\ Return(t, id, th[t].evt.uid, th[t].evt.kind)
    /\ UNCHANGED <<use, kern, fds, hung, replayed>>

\* rdma_ack_cm_event
AckEvent(t) ==
    /\ ~replayed /\ th[t].pc = "have"
    /\ id' = CompleteEvent(id, th[t].evt.uid)
    /\ th' = [th EXCEPT ![t] = Idle]
    /\ UNCHANGED <<use, kern, fds, hung, replayed>>

-----------------------------------------------------------------------------
\* A listener, and an id whose route is resolved: the application, or the
\* synchronous call, has the second of its two events or has acknowledged it.
RoutedIds ==
    LET own(n) == IF use.sync THEN n ELSE 1
        l == [NoId EXCEPT !.st = "live", !.role = "listen", !.app = "listening",
                  !.handle = 0, !.chan = 1, !.sync = use.sync]
        a == [l EXCEPT !.role = "active", !.app = "route", !.handle = 1,
                  !.chan = own(2), !.qp = "init", !.completed = IF use.sync THEN 1 ELSE 2,
                  !.event = IF use.sync THEN 2 ELSE Nil]
    IN  [u \in Ids |-> IF u = 1 THEN l ELSE IF u = 2 THEN a ELSE NoId]

RoutedCtx(k) ==
    IF k = 0 THEN [NoCtx EXCEPT !.st = "listen", !.uid = 1, !.file = 1]
    ELSE IF k = 1 THEN [NoCtx EXCEPT !.st = "route", !.uid = 2, !.reported = 2,
                            !.file = IF use.sync THEN 2 ELSE 1]
    ELSE NoCtx

Init ==
    /\ use \in Uses
    /\ id = IF use.routed THEN RoutedIds ELSE [u \in Ids |-> NoId]
    /\ kern = [ctx |-> [k \in Handles |-> IF use.routed THEN RoutedCtx(k) ELSE NoCtx],
               queue |-> [c \in Channels |-> <<>>], net |-> [k \in Handles |-> <<>>]]
    /\ th = [t \in Threads |-> Idle]
    /\ fds = use.chans
    /\ hung = FALSE /\ replayed = FALSE

\* Calls the application need not make.
Call(t) ==
    \/ \E role \in {"active", "listen"} : CreateId(t, role)
    \/ \E u \in Ids : \/ BindAddr(t, u) \/ Listen(t, u) \/ ResolveAddr(t, u)
                      \/ ResolveRoute(t, u) \/ Connect(t, u) \/ AcceptModify(t, u)
                      \/ Reject(t, u) \/ Disconnect(t, u) \/ GetRequest(t, u)
                      \/ DestroyId(t, u) \/ \E ch \in Channels : MigrateId(t, u, ch)
    \/ \E ch \in 1..use.chans : GetCall(t, ch)
    \/ QueueBehind(t)

\* Steps of a call that has begun, and the acknowledgement it is owed.
Proceed(t) ==
    \/ AcceptSend(t) \/ DestroyFree(t) \/ MigrateReturn(t) \/ GetLock(t) \/ GetEvent(t)
    \/ ProcessResolved(t) \/ ProcessConnReq(t) \/ ProcessConnResp(t) \/ ConnRespSend(t)
    \/ ProcessEnd(t) \/ ProcessOther(t) \/ AckEvent(t)

Next ==
    \/ \E t \in Threads : Call(t) \/ Proceed(t)
    \/ \E k \in Handles : KStep(k)

Fairness ==
    /\ \A t \in Threads : WF_vars(Proceed(t))
    /\ \A k \in Handles : WF_vars(KStep(k))

Spec == Init /\ [][Next]_vars /\ Fairness

-----------------------------------------------------------------------------
(* Properties *)

\* A thread that has an event, in rdma_get_cm_event or until rdma_ack_cm_event.
Holds(t, u) == th[t].evt # Nil /\ th[t].evt.uid = u

\* rdma_get_cm_event uses the uid of the event as a pointer: the id is allocated,
\* it is the id the kernel reported the event for and it is on the channel the
\* event came from or was migrated from it, until the event is acknowledged.
EventFindsId ==
    \A t \in Threads : th[t].evt # Nil =>
        LET u == th[t].evt.uid
        IN  /\ id[u].st = "live" /\ id[u].handle = th[t].evt.own
            /\ \/ id[u].chan = th[t].ch
               \/ \E s \in Threads : th[s].op = "migrate" /\ th[s].id = u

\* The events the kernel has reported for an id are those the application has
\* acknowledged and those it, or a call, still has: rdma_destroy_id and
\* rdma_migrate_id neither return early nor wait for an event nobody has.
Leaving(u) == \E t \in Threads : th[t].op = "destroy" /\ th[t].id = u

Reported(u) ==
    IF Leaving(u)
    THEN (CHOOSE n \in 0..MaxEvents : \E t \in Threads :
             th[t].op = "destroy" /\ th[t].id = u /\ th[t].need = n)
    ELSE kern.ctx[id[u].handle].reported

OneAckPerEvent ==
    \A u \in Ids : id[u].st = "live" =>
        Reported(u) = id[u].completed
                      + Cardinality({t \in Threads : Holds(t, u)})
                      + Cardinality({v \in Ids : id[v].event = u})

\* An end that is told ESTABLISHED may send: the queue pair of the other end has
\* left INIT, and its own too.
EstablishedMeansReady ==
    \A u \in Ids : id[u].app = "est" /\ ~Leaving(u) =>
        /\ id[u].qp \in {"rts", "err"}
        /\ \A v \in Ids :
             /\ id[v].st = "live" /\ ~Leaving(v)
             /\ kern.ctx[id[u].handle].peer = id[v].handle
             => id[v].qp \in {"rts", "err"}

\* A call that waits for the kernel or for acknowledgements.
Waiting(t) == th[t].op \notin {"", "get_request"}

\* A synchronous listener cannot go while an id from rdma_get_request keeps the
\* event of its request.
Pinned(t) ==
    th[t].op = "destroy" /\ \E v \in Ids \ {th[t].id} : id[v].event = th[t].id

\* Every call returns if the application acknowledges its events, unless the kernel
\* has refused the request, a CM_BIND_IP has taken a socket of the pool or the
\* destroyed id is pinned.
CallsReturnUnless ==
    \A t \in Threads :
        Waiting(t) ~> \/ ~Waiting(t) \/ th[t].refused \/ hung \/ Pinned(t) \/ replayed
=============================================================================
