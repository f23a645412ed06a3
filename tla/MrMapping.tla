------------------------------ MODULE MrMapping ------------------------------
(***************************************************************************)
(* Registration of memory regions, and the tables that translate their     *)
(* addresses: map_lkey_to_mrshm of the client library, lkey_ptr of its     *)
(* router, and rkey_mr_shm of every router, which REG_MR_MAPPING fills by  *)
(* a datagram to each host of HOST_LIST and an acknowledgement from it.    *)
(*                                                                         *)
(* A region stands for the two addresses of a registered buffer, mr_ptr in *)
(* the application and shm_ptr in the router.  On this adapter the lkey    *)
(* and the rkey of a region are equal, and the code relies on it: REG_MR_- *)
(* MAPPING is keyed by the lkey and posts look the rkey up.  ibv_dereg_mr  *)
(* fails only for bound memory windows, which the router does not offer.   *)
(***************************************************************************)
EXTENDS Integers

CONSTANTS
  Hosts, Threads,  \* routers, and threads of applications
  HostOf,          \* the host of a thread
  KeysOf,          \* the keys the adapter of a host hands out
  Regions,
  HOST_LIST,       \* entries [host, bare]; inet_aton takes the bare ones only
  Copies,          \* how often a datagram may arrive
  CanFail,         \* whether REG_MR may fail
  MaxFds,          \* bound of a router's descriptors for REG_MR_MAPPING
  None

Keys == UNION {KeysOf[h] : h \in Hosts}

ASSUME MappingAssumption ==
  /\ HostOf \in [Threads -> Hosts] /\ HOST_LIST \subseteq [host : Hosts, bare : BOOLEAN]
  /\ Copies \subseteq 0..2 /\ CanFail \in BOOLEAN /\ MaxFds \in Nat \ {0}
  /\ None \notin Regions

VARIABLES
  kernel,     \* the adapter of a host: key to region
  lkey_ptr, rkey_mr_shm,      \* the tables of a router
  map_lkey_to_mrshm,          \* the table of a client library
  fds,        \* descriptors a router has open for REG_MR_MAPPING
  net,        \* datagrams under way
  pc, mr, todo, at, acked,    \* a thread's call, and the handler that serves it
  owned,      \* the regions a thread has registered, as <<key, region>>
  overtaken   \* history: see RegMr

tables == <<kernel, lkey_ptr, rkey_mr_shm, map_lkey_to_mrshm>>
callVars == <<pc, mr, todo, at, acked, owned, overtaken>>
vars == <<tables, fds, net, callVars>>

Init ==
  /\ kernel = [h \in Hosts |-> [k \in Keys |-> None]]
  /\ lkey_ptr = [h \in Hosts |-> [k \in Keys |-> None]]
  /\ map_lkey_to_mrshm = [h \in Hosts |-> [k \in Keys |-> None]]
  /\ rkey_mr_shm = [h \in Hosts |-> [k \in Keys |-> None]]
  /\ fds = [h \in Hosts |-> 0] /\ net = {}
  /\ pc = [t \in Threads |-> "idle"] /\ mr = [t \in Threads |-> None]
  /\ todo = [t \in Threads |-> {}] /\ at = [t \in Threads |-> None]
  /\ acked = [t \in Threads |-> FALSE] /\ owned = [t \in Threads |-> {}]
  /\ overtaken = {}

Goto(t, l) == pc' = [pc EXCEPT ![t] = l]
HostRegions(h) == {kernel[h][k] : k \in Keys} \ {None}

(* REG_MR: a shared memory piece, the verb, shmr_map, mr_map and lkey_ptr. *)
(* They are entries of a key nobody else has, so one step.  A key is       *)
(* overtaken when it is handed out while another thread's ibv_dereg_mr of  *)
(* it has yet to clean up the client's table.                              *)
RegMr(t, k, r) ==
  LET h == HostOf[t] IN
  /\ pc[t] = "idle" /\ k \in KeysOf[h] /\ kernel[h][k] = None /\ r \notin HostRegions(h)
  /\ kernel' = [kernel EXCEPT ![h][k] = r]
  /\ lkey_ptr' = [lkey_ptr EXCEPT ![h][k] = r]
  /\ mr' = [mr EXCEPT ![t] = <<k, r>>] /\ Goto(t, "registered")
  /\ overtaken' = IF \E u \in Threads : HostOf[u] = h /\ pc[u] = "deregistered" /\ mr[u][1] = k
                  THEN overtaken \cup {<<h, k>>} ELSE overtaken \ {<<h, k>>}
  /\ UNCHANGED <<rkey_mr_shm, map_lkey_to_mrshm, fds, net, todo, at, acked, owned>>

(* REG_MR fails (the piece, the domain or the verb): `goto end' without a  *)
(* response.                                                               *)
RegMrFails(t) ==
  /\ CanFail /\ pc[t] = "idle" /\ Goto(t, "unanswered")
  /\ UNCHANGED <<tables, fds, net, mr, todo, at, acked, owned, overtaken>>

(* The client has mapped the segment and asks for REG_MR_MAPPING.          *)
StartMapping(t) ==
  /\ pc[t] = "registered" /\ Goto(t, "hosts")
  /\ todo' = [todo EXCEPT ![t] = HOST_LIST]
  /\ UNCHANGED <<tables, fds, net, mr, at, acked, owned, overtaken>>

(* An entry inet_aton refuses: `continue', and the socket stays open.      *)
SkipHost(t, e) ==
  LET h == HostOf[t] IN
  /\ pc[t] = "hosts" /\ e \in todo[t] /\ ~e.bare /\ fds[h] < MaxFds
  /\ fds' = [fds EXCEPT ![h] = @ + 1]
  /\ todo' = [todo EXCEPT ![t] = @ \ {e}]
  /\ UNCHANGED <<tables, net, pc, mr, at, acked, owned, overtaken>>

(* socket() fails: the handler returns, without a response.                *)
NoSocket(t) ==
  /\ pc[t] = "hosts" /\ todo[t] # {} /\ fds[HostOf[t]] = MaxFds
  /\ Goto(t, "unanswered")
  /\ UNCHANGED <<tables, fds, net, mr, todo, at, acked, owned, overtaken>>

(* The mapping of a region as REG_MR_MAPPING sends it.                     *)
Datagram(t, h, c) ==
  [from |-> t, to |-> h, copy |-> c, key |-> mr[t][1], mr_ptr |-> mr[t][2],
   shm_ptr |-> lkey_ptr[HostOf[t]][mr[t][1]]]

(* Mutant of Send: the acknowledgement is not awaited.                     *)
SendNoWait(t, e, n) ==
  /\ pc[t] = "hosts" /\ e \in todo[t] /\ e.bare /\ fds[HostOf[t]] < MaxFds
  /\ net' = net \cup {Datagram(t, e.host, c) : c \in 1..n}
  /\ todo' = [todo EXCEPT ![t] = @ \ {e}]
  /\ UNCHANGED <<tables, fds, pc, mr, at, acked, owned, overtaken>>

(* sendto: n copies of the datagram will arrive.                           *)
Send(t, e, n) ==
  LET h == HostOf[t] IN
  /\ pc[t] = "hosts" /\ e \in todo[t] /\ e.bare /\ fds[h] < MaxFds
  /\ fds' = [fds EXCEPT ![h] = @ + 1]
  /\ net' = net \cup {Datagram(t, e.host, c) : c \in 1..n}
  /\ at' = [at EXCEPT ![t] = e] /\ acked' = [acked EXCEPT ![t] = FALSE]
  /\ Goto(t, "ack")
  /\ UNCHANGED <<tables, mr, todo, owned, overtaken>>

(* The socket the acknowledgement of d goes to is still open.              *)
Awaited(d) ==
  LET t == d.from IN
  pc[t] = "ack" /\ at[t].host = d.to /\ mr[t] = <<d.key, d.mr_ptr>>

(* UDPServer: the mapping is stored and acknowledged.                      *)
Deliver(d, answered) ==
  /\ d \in net /\ net' = net \ {d}
  /\ rkey_mr_shm' = [rkey_mr_shm EXCEPT ![d.to][d.key] =
                      [mr_ptr |-> d.mr_ptr, shm_ptr |-> d.shm_ptr]]
  /\ acked' = [acked EXCEPT ![d.from] = @ \/ (answered /\ Awaited(d))]
  /\ UNCHANGED <<kernel, lkey_ptr, map_lkey_to_mrshm, fds, pc, mr, todo, at, owned, overtaken>>

(* Mutant of Acked: the loop stays at the host it has served.              *)
AckedSameHost(t) ==
  /\ pc[t] = "ack" /\ acked[t] /\ Goto(t, "hosts")
  /\ fds' = [fds EXCEPT ![HostOf[t]] = @ - 1] /\ at' = [at EXCEPT ![t] = None]
  /\ acked' = [acked EXCEPT ![t] = FALSE]
  /\ UNCHANGED <<tables, net, mr, todo, owned, overtaken>>

(* recvfrom returns, and the socket is closed.                             *)
Acked(t) ==
  /\ pc[t] = "ack" /\ acked[t] /\ Goto(t, "hosts")
  /\ fds' = [fds EXCEPT ![HostOf[t]] = @ - 1]
  /\ todo' = [todo EXCEPT ![t] = @ \ {at[t]}] /\ at' = [at EXCEPT ![t] = None]
  /\ acked' = [acked EXCEPT ![t] = FALSE]
  /\ UNCHANGED <<tables, net, mr, owned, overtaken>>

(* The response of REG_MR_MAPPING; the client inserts the region into its  *)
(* table, and ibv_reg_mr returns.                                          *)
Insert(t) ==
  /\ pc[t] = "hosts" /\ todo[t] = {} /\ Goto(t, "idle")
  /\ map_lkey_to_mrshm' = [map_lkey_to_mrshm EXCEPT ![HostOf[t]][mr[t][1]] = mr[t][2]]
  /\ owned' = [owned EXCEPT ![t] = @ \cup {mr[t]}] /\ mr' = [mr EXCEPT ![t] = None]
  /\ UNCHANGED <<kernel, lkey_ptr, rkey_mr_shm, fds, net, todo, at, acked, overtaken>>

(* DEREG_MR: shmr_map and mr_map, the verb, and the shared memory piece.   *)
DeregMr(t, m) ==
  /\ pc[t] = "idle" /\ m \in owned[t] /\ Goto(t, "deregistered")
  /\ kernel' = [kernel EXCEPT ![HostOf[t]][m[1]] = None]
  /\ owned' = [owned EXCEPT ![t] = @ \ {m}] /\ mr' = [mr EXCEPT ![t] = m]
  /\ UNCHANGED <<lkey_ptr, rkey_mr_shm, map_lkey_to_mrshm, fds, net, todo, at, acked, overtaken>>

(* The end of ibv_cmd_dereg_mr: mempool_del.                               *)
Delete(t) ==
  /\ pc[t] = "deregistered" /\ Goto(t, "idle")
  /\ map_lkey_to_mrshm' = [map_lkey_to_mrshm EXCEPT ![HostOf[t]][mr[t][1]] = None]
  /\ mr' = [mr EXCEPT ![t] = None]
  /\ UNCHANGED <<kernel, lkey_ptr, rkey_mr_shm, fds, net, todo, at, acked, owned, overtaken>>

Answer(t) == StartMapping(t) \/ Acked(t) \/ Insert(t) \/ Delete(t)
SendStep(t) == \E e \in HOST_LIST : SkipHost(t, e) \/ \E n \in Copies : Send(t, e, n)
DeliverStep(t) == \E d \in net, n \in Copies : d.from = t /\ Deliver(d, n > 0)

Next ==
  \/ \E t \in Threads :
       \/ \E k \in Keys, r \in Regions : RegMr(t, k, r)
       \/ \E m \in owned[t] : DeregMr(t, m)
       \/ RegMrFails(t) \/ NoSocket(t) \/ SendStep(t) \/ Answer(t)
       \/ DeliverStep(t)

Spec == Init /\ [][Next]_vars

(* The handlers and the library run, and a datagram that arrives does so   *)
(* in the end; applications need not call.                                 *)
FairSpec ==
  /\ Spec
  /\ \A t \in Threads : /\ WF_vars(Answer(t)) /\ WF_vars(SendStep(t))
                        /\ WF_vars(NoSocket(t)) /\ WF_vars(DeliverStep(t))
----------------------------------------------------------------------------
(* The region by which router h translates the remote address of a         *)
(* one-sided post for key k; None when the key is not found, and the       *)
(* address is posted as it is.                                             *)
Translate(h, k) == rkey_mr_shm[h][k]

(* Properties.                                                             *)

(* Every region an application has got from ibv_reg_mr is translated       *)
(* rightly by its own router, by its client library and by every router    *)
(* that is in HOST_LIST under its address, so a one-sided operation        *)
(* reaches the buffer, with keys used again by other threads.  The entry   *)
(* of the client library is excepted for a key that was overtaken.         *)
TranslatedEverywhere ==
  \A t \in Threads : \A m \in owned[t] :
    /\ lkey_ptr[HostOf[t]][m[1]] = m[2]
    /\ <<HostOf[t], m[1]>> \notin overtaken => map_lkey_to_mrshm[HostOf[t]][m[1]] = m[2]
    /\ \A e \in HOST_LIST :
         e.bare => Translate(e.host, m[1]) = [mr_ptr |-> m[2], shm_ptr |-> m[2]]

(* A call that nothing will answer: the router left it without a response, *)
(* or the datagram or the acknowledgement its handler waits for was lost.  *)
Abandoned(t) ==
  \/ pc[t] = "unanswered"
  \/ pc[t] = "ack" /\ ~acked[t] /\ \A d \in net : d.from # t

(* ibv_reg_mr and ibv_dereg_mr return, unless they fail in one of these    *)
(* ways: the loop over HOST_LIST ends, whatever the entries are and        *)
(* however the handlers of a router compete for descriptors.               *)
ReturnsUnlessAbandoned ==
  \A t \in Threads : pc[t] # "idle" ~> pc[t] = "idle" \/ Abandoned(t)
=============================================================================
