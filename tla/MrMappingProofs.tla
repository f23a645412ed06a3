--------------------------- MODULE MrMappingProofs ---------------------------
(***************************************************************************)
(* The translation tables of MrMapping, for any hosts, threads, keys,      *)
(* regions and HOST_LIST.                                                  *)
(***************************************************************************)
EXTENDS MrMapping, TLAPS

(* What the theorem supposes.  No datagram is duplicated, and adapters of  *)
(* different hosts that register memory hand out different keys: a router  *)
(* has one entry of rkey_mr_shm for a key, whoever sent the mapping.       *)
AtMostOnce == Copies \subseteq {0, 1}
KeysApart ==
  \A t, u \in Threads :
    HostOf[t] # HostOf[u] => KeysOf[HostOf[t]] \cap KeysOf[HostOf[u]] = {}

Registering == {"registered", "hosts", "ack"}
Pairs == Keys \X Regions
Right(m) == [mr_ptr |-> m[2], shm_ptr |-> m[2]]

Typed ==
  /\ kernel \in [Hosts -> [Keys -> Regions \cup {None}]]
  /\ lkey_ptr \in [Hosts -> [Keys -> Regions \cup {None}]]
  /\ map_lkey_to_mrshm \in [Hosts -> [Keys -> Regions \cup {None}]]
  /\ rkey_mr_shm \in [Hosts -> [Keys -> [mr_ptr : Regions, shm_ptr : Regions] \cup {None}]]
  /\ pc \in [Threads -> {"idle", "unanswered", "deregistered"} \cup Registering]
  /\ mr \in [Threads -> Pairs \cup {None}] /\ owned \in [Threads -> SUBSET Pairs]
  /\ todo \in [Threads -> SUBSET HOST_LIST] /\ at \in [Threads -> HOST_LIST \cup {None}]
  /\ acked \in [Threads -> BOOLEAN]
  /\ net \subseteq [from : Threads, to : Hosts, copy : Int, key : Keys, mr_ptr : Regions, shm_ptr : Regions]
  /\ overtaken \subseteq Hosts \X Keys
  /\ \A t \in Threads : pc[t] \in Registering \cup {"deregistered"} => mr[t] \in Pairs

(* The regions a thread has, the one it is registering included.           *)
Held(t) == owned[t] \cup (IF pc[t] \in Registering THEN {mr[t]} ELSE {})

(* The adapter and the router know every region that is held, and a key is *)
(* held once.                                                              *)
HeldKnown ==
  \A t \in Threads : \A m \in Held(t) :
    /\ m[1] \in KeysOf[HostOf[t]]
    /\ kernel[HostOf[t]][m[1]] = m[2] /\ lkey_ptr[HostOf[t]][m[1]] = m[2]
HeldOnce ==
  \A t, u \in Threads : \A m \in Held(t), n \in Held(u) :
    HostOf[t] = HostOf[u] /\ m[1] = n[1] => t = u /\ m = n

(* A key that is held while its last ibv_dereg_mr cleans up is overtaken;  *)
(* the client's table is right for the others.                             *)
CleanUp ==
  \A t, u \in Threads : \A m \in Held(t) :
    pc[u] = "deregistered" /\ HostOf[u] = HostOf[t] /\ mr[u][1] = m[1]
      => <<HostOf[t], m[1]>> \in overtaken
ClientKnows ==
  \A t \in Threads : \A m \in owned[t] :
    <<HostOf[t], m[1]>> \notin overtaken => map_lkey_to_mrshm[HostOf[t]][m[1]] = m[2]

(* A datagram under way is the one whose sender waits for it.              *)
NetAwaited ==
  /\ \A d \in net :
       /\ pc[d.from] = "ack" /\ ~acked[d.from] /\ at[d.from].host = d.to
       /\ mr[d.from] = <<d.key, d.mr_ptr>> /\ d.shm_ptr = d.mr_ptr
  /\ \A d, e \in net : d.from = e.from => d = e

(* The routers the handler has been at have the mapping.                   *)
HostsKnow ==
  \A t \in Threads :
    /\ \A m \in owned[t], e \in HOST_LIST : e.bare => rkey_mr_shm[e.host][m[1]] = Right(m)
    /\ pc[t] \in {"hosts", "ack"} =>
         \A e \in HOST_LIST \ todo[t] : e.bare => rkey_mr_shm[e.host][mr[t][1]] = Right(mr[t])
    /\ pc[t] = "ack" => at[t] \in HOST_LIST
    /\ pc[t] = "ack" /\ acked[t] => rkey_mr_shm[at[t].host][mr[t][1]] = Right(mr[t])

Inv == Typed /\ HeldKnown /\ HeldOnce /\ CleanUp /\ ClientKnows /\ NetAwaited /\ HostsKnow

LEMMA KeysOfHosts == \A t \in Threads : HostOf[t] \in Hosts /\ KeysOf[HostOf[t]] \subseteq Keys
BY Zenon, MappingAssumption DEF Keys

LEMMA InitInv == Init => Inv
<1> SUFFICES ASSUME Init PROVE Inv
  BY Zenon
<1>1. Typed
  BY Zenon, MappingAssumption DEF Init, Typed, Registering
<1>2. \A t \in Threads : Held(t) = {} /\ owned[t] = {} /\ pc[t] = "idle"
  BY Zenon DEF Init, Held, Registering
<1>3. net = {}
  BY Zenon DEF Init
<1> QED
  BY Zenon, <1>1, <1>2, <1>3
     DEF Inv, HeldKnown, HeldOnce, CleanUp, ClientKnows, NetAwaited, HostsKnow

LEMMA RegMrStep ==
  ASSUME Inv, NEW t \in Threads, NEW k \in Keys, NEW r \in Regions, RegMr(t, k, r)
  PROVE  Inv'
<1> DEFINE h == HostOf[t]
<1> USE KeysOfHosts
<1>1. /\ Typed /\ h \in Hosts /\ k \in KeysOf[h] /\ kernel[h][k] = None /\ r # None
      /\ pc[t] = "idle" /\ None \notin Regions
  BY Zenon, MappingAssumption DEF Inv, RegMr
<1>2. /\ pc' = [pc EXCEPT ![t] = "registered"] /\ mr' = [mr EXCEPT ![t] = <<k, r>>]
      /\ kernel' = [kernel EXCEPT ![h][k] = r] /\ lkey_ptr' = [lkey_ptr EXCEPT ![h][k] = r]
      /\ UNCHANGED <<rkey_mr_shm, map_lkey_to_mrshm, net, todo, at, acked, owned>>
      /\ overtaken' = IF \E u \in Threads : HostOf[u] = h /\ pc[u] = "deregistered" /\ mr[u][1] = k
                      THEN overtaken \cup {<<h, k>>} ELSE overtaken \ {<<h, k>>}
  BY Zenon DEF RegMr, Goto
<1> HIDE DEF h
<1>h. h = HostOf[t]
  BY Zenon DEF h
<1>3. /\ pc'[t] = "registered" /\ mr'[t] = <<k, r>> /\ <<k, r>> \in Pairs
      /\ \A u \in Threads \ {t} : pc'[u] = pc[u] /\ mr'[u] = mr[u]
      /\ overtaken' \subseteq Hosts \X Keys
      /\ \A g \in Hosts, l \in Keys : <<g, l>> # <<h, k>> => (<<g, l>> \in overtaken' <=> <<g, l>> \in overtaken)
  BY <1>1, <1>2 DEF Typed, Pairs
<1>4. /\ kernel' \in [Hosts -> [Keys -> Regions \cup {None}]]
      /\ lkey_ptr' \in [Hosts -> [Keys -> Regions \cup {None}]]
      /\ kernel'[h][k] = r /\ lkey_ptr'[h][k] = r
      /\ \A g \in Hosts, l \in Keys : <<g, l>> # <<h, k>> =>
           kernel'[g][l] = kernel[g][l] /\ lkey_ptr'[g][l] = lkey_ptr[g][l]
  BY <1>1, <1>2 DEF Typed
<1>5. Typed'
  <2>1. /\ pc' \in [Threads -> {"idle", "unanswered", "deregistered"} \cup Registering]
        /\ mr' \in [Threads -> Pairs \cup {None}]
    BY Zenon, <1>1, <1>2, <1>3 DEF Typed, Registering
  <2>2. \A u \in Threads : pc'[u] \in Registering \cup {"deregistered"} => mr'[u] \in Pairs
    BY Zenon, <1>1, <1>3 DEF Typed
  <2>3. overtaken' \subseteq Hosts \X Keys
    BY Zenon, <1>3
  <2> QED
    BY Zenon, <2>1, <2>2, <2>3, <1>1, <1>2, <1>4 DEF Typed
<1>6. /\ Held(t)' = Held(t) \cup {<<k, r>>}
      /\ \A u \in Threads \ {t} : Held(u)' = Held(u)
  BY Zenon, <1>1, <1>2, <1>3 DEF Held, Registering
<1>7. \A u \in Threads : \A m \in Held(u) : m \in Pairs /\ <<HostOf[u], m[1]>> # <<h, k>>
  BY <1>1 DEF Inv, HeldKnown, Held, Typed, Pairs
<1>8. HeldKnown'
  <2> SUFFICES ASSUME NEW u \in Threads, NEW m \in Held(u)'
               PROVE  /\ m[1] \in KeysOf[HostOf[u]]
                      /\ kernel'[HostOf[u]][m[1]] = m[2] /\ lkey_ptr'[HostOf[u]][m[1]] = m[2]
    BY Zenon DEF HeldKnown
  <2>1. CASE m \in Held(u)
    BY <2>1, <1>4, <1>7 DEF Inv, HeldKnown, Pairs
  <2>2. CASE u = t /\ m = <<k, r>>
    BY Zenon, <2>2, <1>1, <1>4, <1>h
  <2> QED
    BY Zenon, <2>1, <2>2, <1>6
<1>9. HeldOnce'
  <2> SUFFICES ASSUME NEW u \in Threads, NEW v \in Threads, NEW m \in Held(u)', NEW n \in Held(v)',
                      HostOf[u] = HostOf[v], m[1] = n[1]
               PROVE  u = v /\ m = n
    BY Zenon DEF HeldOnce
  <2>1. m \in Held(u) \/ (u = t /\ m = <<k, r>>)
    BY Zenon, <1>6
  <2>2. n \in Held(v) \/ (v = t /\ n = <<k, r>>)
    BY Zenon, <1>6
  <2> QED
    BY <2>1, <2>2, <1>7, <1>h DEF Inv, HeldOnce
<1>10. CleanUp'
  <2> SUFFICES ASSUME NEW u \in Threads, NEW v \in Threads, NEW m \in Held(u)',
                      pc'[v] = "deregistered", HostOf[v] = HostOf[u], mr'[v][1] = m[1]
               PROVE  <<HostOf[u], m[1]>> \in overtaken'
    BY Zenon DEF CleanUp
  <2>1. v # t /\ pc[v] = "deregistered" /\ mr[v] = mr'[v]
    BY Zenon, <1>3
  <2>2. CASE m \in Held(u)
    BY <2>1, <2>2, <1>3, <1>7 DEF Inv, CleanUp, Pairs
  <2>3. CASE u = t /\ m = <<k, r>>
    BY Zenon, <2>1, <2>3, <1>2, <1>h
  <2> QED
    BY Zenon, <2>2, <2>3, <1>6
<1>11. ClientKnows'
  <2> SUFFICES ASSUME NEW u \in Threads, NEW m \in owned[u],
                      <<HostOf[u], m[1]>> \notin overtaken'
               PROVE  map_lkey_to_mrshm[HostOf[u]][m[1]] = m[2]
    BY Zenon, <1>2 DEF ClientKnows
  <2>1. m \in Held(u)
    BY Zenon DEF Held
  <2>2. <<HostOf[u], m[1]>> \notin overtaken
    BY Zenon, <2>1, <1>7, <1>3 DEF Pairs
  <2> QED
    BY Zenon, <2>2 DEF Inv, ClientKnows
<1>12. NetAwaited'
  BY <1>1, <1>2, <1>3 DEF Inv, NetAwaited, Typed
<1>13. HostsKnow'
  BY <1>2, <1>3 DEF Inv, HostsKnow
<1> QED
  BY Zenon, <1>5, <1>8, <1>9, <1>10, <1>11, <1>12, <1>13 DEF Inv

(* A step that registers and deregisters nothing.                          *)
LEMMA HeldStep ==
  ASSUME Inv, UNCHANGED <<kernel, lkey_ptr, map_lkey_to_mrshm, overtaken, owned>>,
         \A u \in Threads :
           /\ Held(u)' \subseteq Held(u)
           /\ pc'[u] = "deregistered" => pc[u] = "deregistered" /\ mr'[u] = mr[u]
  PROVE  HeldKnown' /\ HeldOnce' /\ CleanUp' /\ ClientKnows'
<1>1. HeldKnown'
  BY Zenon DEF Inv, HeldKnown
<1>2. HeldOnce'
  BY DEF Inv, HeldOnce
<1>3. CleanUp'
  BY DEF Inv, CleanUp
<1>4. ClientKnows'
  BY Zenon DEF Inv, ClientKnows
<1> QED
  BY Zenon, <1>1, <1>2, <1>3, <1>4

(* A step that leaves the routers' tables alone and gives no region away.  *)
LEMMA HostsKnowStep ==
  ASSUME HostsKnow, UNCHANGED <<rkey_mr_shm, todo, at, acked>>,
         \A u \in Threads :
           /\ owned'[u] \subseteq owned[u]
           /\ pc'[u] \in {"hosts", "ack"} => pc'[u] = pc[u] /\ mr'[u] = mr[u]
  PROVE  HostsKnow'
<1> SUFFICES ASSUME NEW u \in Threads
             PROVE  /\ \A m \in owned'[u], e \in HOST_LIST : e.bare => rkey_mr_shm[e.host][m[1]] = Right(m)
                    /\ pc'[u] \in {"hosts", "ack"} =>
                         \A e \in HOST_LIST \ todo[u] : e.bare => rkey_mr_shm[e.host][mr'[u][1]] = Right(mr'[u])
                    /\ pc'[u] = "ack" => at[u] \in HOST_LIST
                    /\ pc'[u] = "ack" /\ acked[u] => rkey_mr_shm[at[u].host][mr'[u][1]] = Right(mr'[u])
  BY DEF HostsKnow, Right
<1>1. \A m \in owned'[u], e \in HOST_LIST : e.bare => rkey_mr_shm[e.host][m[1]] = Right(m)
  BY DEF HostsKnow
<1>2. CASE pc'[u] \in {"hosts", "ack"}
  <2>1. pc'[u] = pc[u] /\ mr'[u] = mr[u]
    BY Zenon, <1>2
  <2> QED
    BY <1>1, <2>1 DEF HostsKnow
<1> QED
  BY Zenon, <1>1, <1>2

(* The steps of a handler of REG_MR_MAPPING, and of a call that fails.     *)
LEMMA HandlerStep ==
  ASSUME Inv, AtMostOnce, NEW t \in Threads,
         \/ RegMrFails(t) \/ NoSocket(t) \/ StartMapping(t) \/ Acked(t)
         \/ \E e \in HOST_LIST : SkipHost(t, e) \/ \E n \in Copies : Send(t, e, n)
  PROVE  Inv'
<1>t. Typed /\ HostOf[t] \in Hosts /\ None \notin Regions
  BY Zenon, MappingAssumption DEF Inv
<1>n. ASSUME pc[t] # "ack" PROVE \A d \in net : d.from # t
  BY Zenon, <1>n DEF Inv, NetAwaited
<1>1. CASE RegMrFails(t)
  <2>1. /\ UNCHANGED <<tables, net, mr, todo, at, acked, owned, overtaken>>
        /\ pc[t] = "idle" /\ pc' = [pc EXCEPT ![t] = "unanswered"]
    BY Zenon, <1>1 DEF RegMrFails, Goto
  <2>2. Typed' /\ pc'[t] = "unanswered" /\ \A u \in Threads \ {t} : pc'[u] = pc[u]
    BY Zenon, <2>1, <1>t DEF Typed, tables, Registering
  <2>3. \A u \in Threads : Held(u)' \subseteq Held(u)
    BY Zenon, <2>1, <2>2 DEF Held, Registering
  <2>4. HeldKnown' /\ HeldOnce' /\ CleanUp' /\ ClientKnows'
    BY Zenon, <2>1, <2>2, <2>3, HeldStep DEF tables
  <2>5. NetAwaited'
    BY <2>1, <2>2, <1>t, <1>n DEF Inv, NetAwaited, Typed
  <2>6. HostsKnow'
    BY <2>1, <2>2 DEF Inv, HostsKnow, tables
  <2> QED
    BY Zenon, <2>2, <2>4, <2>5, <2>6 DEF Inv
<1>2. CASE NoSocket(t)
  <2>1. /\ UNCHANGED <<tables, net, mr, todo, at, acked, owned, overtaken>>
        /\ pc[t] = "hosts" /\ pc' = [pc EXCEPT ![t] = "unanswered"]
    BY Zenon, <1>2 DEF NoSocket, Goto
  <2>2. Typed' /\ pc'[t] = "unanswered" /\ \A u \in Threads \ {t} : pc'[u] = pc[u]
    BY Zenon, <2>1, <1>t DEF Typed, tables, Registering
  <2>3. \A u \in Threads : Held(u)' \subseteq Held(u)
    BY Zenon, <2>1, <2>2 DEF Held, Registering
  <2>4. HeldKnown' /\ HeldOnce' /\ CleanUp' /\ ClientKnows'
    BY Zenon, <2>1, <2>2, <2>3, HeldStep DEF tables
  <2>5. NetAwaited'
    BY <2>1, <2>2, <1>t, <1>n DEF Inv, NetAwaited, Typed
  <2>6. HostsKnow'
    BY <2>1, <2>2 DEF Inv, HostsKnow, tables
  <2> QED
    BY Zenon, <2>2, <2>4, <2>5, <2>6 DEF Inv
<1>3. CASE StartMapping(t)
  <2>1. /\ UNCHANGED <<tables, net, mr, at, acked, owned, overtaken>>
        /\ pc[t] = "registered" /\ pc' = [pc EXCEPT ![t] = "hosts"]
        /\ todo' = [todo EXCEPT ![t] = HOST_LIST]
    BY Zenon, <1>3 DEF StartMapping, Goto
  <2>2. /\ pc'[t] = "hosts" /\ todo'[t] = HOST_LIST
        /\ \A u \in Threads \ {t} : pc'[u] = pc[u] /\ todo'[u] = todo[u]
        /\ todo' \in [Threads -> SUBSET HOST_LIST]
    BY Zenon, <2>1, <1>t DEF Typed
  <2>t. Typed'
    BY Zenon, <2>1, <2>2, <1>t DEF Typed, tables, Registering
  <2>3. \A u \in Threads : Held(u)' \subseteq Held(u)
    BY Zenon, <2>1, <2>2 DEF Held, Registering
  <2>4. HeldKnown' /\ HeldOnce' /\ CleanUp' /\ ClientKnows'
    BY Zenon, <2>1, <2>2, <2>3, HeldStep DEF tables
  <2>5. NetAwaited'
    BY <2>1, <2>2, <1>t, <1>n DEF Inv, NetAwaited, Typed
  <2>6. HostsKnow'
    BY <2>1, <2>2 DEF Inv, HostsKnow, tables
  <2> QED
    BY Zenon, <2>t, <2>4, <2>5, <2>6 DEF Inv
<1>4. CASE Acked(t)
  <2>1. /\ UNCHANGED <<tables, net, mr, owned, overtaken>>
        /\ pc[t] = "ack" /\ acked[t] /\ pc' = [pc EXCEPT ![t] = "hosts"]
        /\ todo' = [todo EXCEPT ![t] = @ \ {at[t]}] /\ at' = [at EXCEPT ![t] = None]
        /\ acked' = [acked EXCEPT ![t] = FALSE]
    BY Zenon, <1>4 DEF Acked, Goto
  <2>2. /\ pc'[t] = "hosts" /\ todo'[t] = todo[t] \ {at[t]}
        /\ \A u \in Threads \ {t} :
             pc'[u] = pc[u] /\ todo'[u] = todo[u] /\ at'[u] = at[u] /\ acked'[u] = acked[u]
        /\ todo' \in [Threads -> SUBSET HOST_LIST] /\ at' \in [Threads -> HOST_LIST \cup {None}]
        /\ acked' \in [Threads -> BOOLEAN]
    BY Zenon, <2>1, <1>t DEF Typed
  <2>t. Typed'
    BY Zenon, <2>1, <2>2, <1>t DEF Typed, tables, Registering
  <2>3. \A u \in Threads : Held(u)' \subseteq Held(u)
    BY Zenon, <2>1, <2>2 DEF Held, Registering
  <2>4. HeldKnown' /\ HeldOnce' /\ CleanUp' /\ ClientKnows'
    BY Zenon, <2>1, <2>2, <2>3, HeldStep DEF tables
  <2>5. NetAwaited'
    <3>1. \A d \in net : d.from \in Threads \ {t}
      BY <2>1, <1>t DEF Inv, NetAwaited, Typed
    <3> QED
      BY <2>1, <2>2, <3>1 DEF Inv, NetAwaited
  <2>6. HostsKnow'
    BY <2>1, <2>2 DEF Inv, HostsKnow, tables
  <2> QED
    BY Zenon, <2>t, <2>4, <2>5, <2>6 DEF Inv
<1>5. ASSUME NEW e \in HOST_LIST, SkipHost(t, e) PROVE Inv'
  <2>1. /\ UNCHANGED <<tables, net, pc, mr, at, acked, owned, overtaken>>
        /\ ~e.bare /\ todo' = [todo EXCEPT ![t] = @ \ {e}]
    BY Zenon, <1>5 DEF SkipHost
  <2>2. /\ todo'[t] = todo[t] \ {e} /\ \A u \in Threads \ {t} : todo'[u] = todo[u]
        /\ todo' \in [Threads -> SUBSET HOST_LIST]
    BY Zenon, <2>1, <1>t DEF Typed
  <2>t. Typed'
    BY Zenon, <2>1, <2>2, <1>t DEF Typed, tables
  <2>3. \A u \in Threads : Held(u)' \subseteq Held(u)
    BY Zenon, <2>1, <2>2 DEF Held
  <2>4. HeldKnown' /\ HeldOnce' /\ CleanUp' /\ ClientKnows'
    BY Zenon, <2>1, <2>2, <2>3, HeldStep DEF tables
  <2>5. NetAwaited'
    BY Zenon, <2>1 DEF Inv, NetAwaited
  <2>6. HostsKnow'
    BY <2>1, <2>2 DEF Inv, HostsKnow, tables
  <2> QED
    BY Zenon, <2>t, <2>4, <2>5, <2>6 DEF Inv
<1>6. ASSUME NEW e \in HOST_LIST, NEW n \in Copies, Send(t, e, n) PROVE Inv'
  <2>1. /\ UNCHANGED <<tables, mr, todo, owned, overtaken>>
        /\ pc[t] = "hosts" /\ pc' = [pc EXCEPT ![t] = "ack"]
        /\ net' = net \cup {Datagram(t, e.host, c) : c \in 1..n}
        /\ at' = [at EXCEPT ![t] = e] /\ acked' = [acked EXCEPT ![t] = FALSE]
    BY Zenon, <1>6 DEF Send, Goto
  <2>2. /\ pc'[t] = "ack" /\ at'[t] = e /\ acked'[t] = FALSE /\ e.host \in Hosts
        /\ \A u \in Threads \ {t} : pc'[u] = pc[u] /\ at'[u] = at[u] /\ acked'[u] = acked[u]
        /\ at' \in [Threads -> HOST_LIST \cup {None}] /\ acked' \in [Threads -> BOOLEAN]
        /\ pc' \in [Threads -> {"idle", "unanswered", "deregistered"} \cup Registering]
    BY Zenon, <2>1, <1>t, MappingAssumption DEF Typed, Registering
  <2>3. \A u \in Threads : Held(u)' \subseteq Held(u)
    BY Zenon, <2>1, <2>2 DEF Held, Registering
  <2>4. HeldKnown' /\ HeldOnce' /\ CleanUp' /\ ClientKnows'
    BY Zenon, <2>1, <2>2, <2>3, HeldStep DEF tables
  <2>5. mr[t] \in Pairs /\ mr[t] \in Held(t)
    BY Zenon, <2>1, <1>t DEF Typed, Held, Registering
  <2>6. lkey_ptr[HostOf[t]][mr[t][1]] = mr[t][2]
    BY Zenon, <2>5 DEF Inv, HeldKnown
  <2>7. n = 0 \/ n = 1
    BY Zenon DEF AtMostOnce
  <2>d. \A d \in net' : d \in net \/ d = Datagram(t, e.host, 1)
    BY <2>1, <2>7
  <2> DEFINE D == Datagram(t, e.host, 1)
  <2>8. /\ D = [from |-> t, to |-> e.host, copy |-> 1, key |-> mr[t][1], mr_ptr |-> mr[t][2], shm_ptr |-> mr[t][2]]
        /\ mr[t] = <<mr[t][1], mr[t][2]>> /\ mr[t][1] \in Keys /\ mr[t][2] \in Regions
    BY <2>5, <2>6 DEF Datagram, Pairs
  <2>9. D \in [from : Threads, to : Hosts, copy : Int, key : Keys, mr_ptr : Regions, shm_ptr : Regions]
        /\ D.from = t /\ D.to = e.host /\ D.key = mr[t][1] /\ D.mr_ptr = mr[t][2] /\ D.shm_ptr = mr[t][2]
    BY <2>8, <2>2
  <2> HIDE DEF D
  <2>10. \A d \in net' : d \in net \/ d = D
    BY Zenon, <2>d DEF D
  <2>t. Typed'
    <3>1. net' \subseteq [from : Threads, to : Hosts, copy : Int, key : Keys, mr_ptr : Regions, shm_ptr : Regions]
      BY Zenon, <2>9, <2>10, <1>t DEF Typed
    <3> QED
      BY Zenon, <2>1, <2>2, <3>1, <2>5, <1>t DEF Typed, tables
  <2>11. NetAwaited'
    <3>1. \A d \in net : d.from \in Threads \ {t}
      BY Zenon, <2>1, <1>t, <1>n DEF Typed
    <3>2. \A d \in net' :
            /\ pc'[d.from] = "ack" /\ ~acked'[d.from] /\ at'[d.from].host = d.to
            /\ mr[d.from] = <<d.key, d.mr_ptr>> /\ d.shm_ptr = d.mr_ptr
      <4> TAKE d \in net'
      <4>1. CASE d \in net
        BY Zenon, <2>2, <3>1, <4>1 DEF Inv, NetAwaited
      <4>2. CASE d = D
        BY Zenon, <2>2, <2>8, <2>9, <4>2
      <4> QED
        BY Zenon, <2>10, <4>1, <4>2
    <3>3. \A d, f \in net' : d.from = f.from => d = f
      BY Zenon, <2>9, <2>10, <3>1 DEF Inv, NetAwaited
    <3> QED
      BY Zenon, <2>1, <3>2, <3>3 DEF NetAwaited
  <2>12. HostsKnow'
    <3>1. /\ UNCHANGED <<rkey_mr_shm, mr, todo, owned>> /\ HostsKnow
          /\ pc'[t] = "ack" /\ at'[t] = e /\ acked'[t] = FALSE /\ pc[t] = "hosts"
      BY Zenon, <2>1, <2>2 DEF Inv, tables
    <3> SUFFICES ASSUME NEW u \in Threads
                 PROVE  /\ \A m \in owned[u], f \in HOST_LIST : f.bare => rkey_mr_shm[f.host][m[1]] = Right(m)
                        /\ pc'[u] \in {"hosts", "ack"} =>
                             \A f \in HOST_LIST \ todo[u] : f.bare => rkey_mr_shm[f.host][mr[u][1]] = Right(mr[u])
                        /\ pc'[u] = "ack" => at'[u] \in HOST_LIST
                        /\ pc'[u] = "ack" /\ acked'[u] => rkey_mr_shm[at'[u].host][mr[u][1]] = Right(mr[u])
      BY <3>1 DEF HostsKnow, Right
    <3>3. CASE u = t
      BY Zenon, <3>1, <3>3 DEF HostsKnow
    <3>4. CASE u # t
      BY Zenon, <2>2, <3>1, <3>4 DEF HostsKnow
    <3> QED
      BY Zenon, <3>3, <3>4
  <2> QED
    BY Zenon, <2>t, <2>4, <2>11, <2>12 DEF Inv
<1> QED
  BY Zenon, <1>1, <1>2, <1>3, <1>4, <1>5, <1>6

(* UDPServer stores a mapping: for the key of a region that is held, only  *)
(* the mapping of that region can be under way.                            *)
LEMMA DeliverStepInv ==
  ASSUME Inv, KeysApart, NEW d \in net, NEW answered \in BOOLEAN, Deliver(d, answered)
  PROVE  Inv'
<1> DEFINE s == d.from
<1>1. /\ Typed /\ s \in Threads /\ d.to \in Hosts /\ d.key \in Keys
      /\ d.mr_ptr \in Regions /\ d.shm_ptr \in Regions
  BY Zenon DEF Inv, Typed
<1>2. /\ pc[s] = "ack" /\ at[s].host = d.to /\ mr[s] = <<d.key, d.mr_ptr>> /\ d.shm_ptr = d.mr_ptr
      /\ \A e \in net : e.from = s => e = d
  BY Zenon DEF Inv, NetAwaited
<1>3. /\ UNCHANGED <<kernel, lkey_ptr, map_lkey_to_mrshm, pc, mr, todo, at, owned, overtaken>>
      /\ net' = net \ {d}
      /\ rkey_mr_shm' = [rkey_mr_shm EXCEPT ![d.to][d.key] = [mr_ptr |-> d.mr_ptr, shm_ptr |-> d.shm_ptr]]
      /\ acked' = [acked EXCEPT ![s] = @ \/ (answered /\ Awaited(d))]
  BY Zenon DEF Deliver
<1> HIDE DEF s
<1>s. d.from = s
  BY Zenon DEF s
<1>4. /\ acked' \in [Threads -> BOOLEAN] /\ \A u \in Threads \ {s} : acked'[u] = acked[u]
  <2>1. (acked[s] \/ (answered /\ Awaited(d))) \in BOOLEAN
    BY Zenon, <1>1 DEF Typed, Awaited
  <2> QED
    BY Zenon, <2>1, <1>1, <1>3 DEF Typed
<1>5. /\ rkey_mr_shm' \in [Hosts -> [Keys -> [mr_ptr : Regions, shm_ptr : Regions] \cup {None}]]
      /\ rkey_mr_shm'[d.to][d.key] = Right(mr[s])
      /\ \A g \in Hosts, l \in Keys : <<g, l>> # <<d.to, d.key>> => rkey_mr_shm'[g][l] = rkey_mr_shm[g][l]
  <2> DEFINE x == [mr_ptr |-> d.mr_ptr, shm_ptr |-> d.shm_ptr]
  <2>1. x \in [mr_ptr : Regions, shm_ptr : Regions] /\ x = Right(mr[s])
    BY <1>1, <1>2 DEF Right
  <2>2. /\ rkey_mr_shm \in [Hosts -> [Keys -> [mr_ptr : Regions, shm_ptr : Regions] \cup {None}]]
        /\ rkey_mr_shm' = [rkey_mr_shm EXCEPT ![d.to][d.key] = x]
    BY Zenon, <1>1, <1>3 DEF Typed
  <2> HIDE DEF x
  <2> QED
    BY Zenon, <2>1, <2>2, <1>1
<1>6. Typed'
  BY Zenon, <1>1, <1>3, <1>4, <1>5 DEF Typed
<1>7. \A u \in Threads : Held(u)' \subseteq Held(u)
  BY Zenon, <1>3 DEF Held
<1>8. HeldKnown' /\ HeldOnce' /\ CleanUp' /\ ClientKnows'
  BY Zenon, <1>3, <1>7, HeldStep
<1>9. NetAwaited'
  <2>1. \A e \in net' : e \in net /\ e.from \in Threads \ {s}
    BY Zenon, <1>1, <1>2, <1>3 DEF Typed
  <2> QED
    BY <2>1, <1>3, <1>4 DEF Inv, NetAwaited
<1>10. ASSUME NEW u \in Threads, NEW m \in Held(u), m[1] = d.key
       PROVE  u = s /\ m = mr[s]
  <2>1. mr[s] \in Held(s) /\ mr[s][1] = d.key
    BY <1>1, <1>2 DEF Held, Registering
  <2>2. m[1] \in KeysOf[HostOf[u]] /\ m[1] \in KeysOf[HostOf[s]]
    BY <1>1, <1>10, <2>1 DEF Inv, HeldKnown
  <2>3. HostOf[u] = HostOf[s]
    BY Zenon, <2>2, <1>1 DEF KeysApart
  <2> QED
    BY <2>1, <2>3, <1>1, <1>10 DEF Inv, HeldOnce
<1>11. ASSUME NEW u \in Threads, NEW m \in Held(u), NEW g \in Hosts, rkey_mr_shm[g][m[1]] = Right(m)
       PROVE  rkey_mr_shm'[g][m[1]] = Right(m)
  <2>1. m[1] \in Keys
    BY <1>1 DEF Held, Typed, Registering, Pairs
  <2>2. CASE m[1] = d.key /\ g = d.to
    BY Zenon, <2>2, <1>5, <1>10
  <2>3. CASE ~(m[1] = d.key /\ g = d.to)
    BY Zenon, <2>1, <2>3, <1>5, <1>11
  <2> QED
    BY Zenon, <2>2, <2>3
<1>h. \A e \in HOST_LIST : e.host \in Hosts
  BY Zenon, MappingAssumption
<1>12. HostsKnow'
  <2> SUFFICES ASSUME NEW u \in Threads
               PROVE  /\ \A m \in owned[u], e \in HOST_LIST : e.bare => rkey_mr_shm'[e.host][m[1]] = Right(m)
                      /\ pc[u] \in {"hosts", "ack"} =>
                           \A e \in HOST_LIST \ todo[u] : e.bare => rkey_mr_shm'[e.host][mr[u][1]] = Right(mr[u])
                      /\ pc[u] = "ack" => at[u] \in HOST_LIST
                      /\ pc[u] = "ack" /\ acked'[u] => rkey_mr_shm'[at[u].host][mr[u][1]] = Right(mr[u])
    BY <1>3 DEF HostsKnow, Right
  <2>1. \A m \in owned[u] : m \in Held(u)
    BY Zenon DEF Held
  <2>2. pc[u] \in {"hosts", "ack"} => mr[u] \in Held(u)
    BY Zenon DEF Held, Registering
  <2>3. \A m \in owned[u], e \in HOST_LIST : e.bare => rkey_mr_shm'[e.host][m[1]] = Right(m)
    BY Zenon, <2>1, <1>11, <1>h DEF Inv, HostsKnow
  <2>4. pc[u] \in {"hosts", "ack"} =>
          \A e \in HOST_LIST \ todo[u] : e.bare => rkey_mr_shm'[e.host][mr[u][1]] = Right(mr[u])
    BY Zenon, <2>2, <1>11, <1>h DEF Inv, HostsKnow
  <2>5. pc[u] = "ack" => at[u] \in HOST_LIST
    BY Zenon DEF Inv, HostsKnow
  <2>6. ASSUME pc[u] = "ack", acked'[u] PROVE rkey_mr_shm'[at[u].host][mr[u][1]] = Right(mr[u])
    <3>1. CASE u = s
      BY <3>1, <1>2, <1>5
    <3>2. CASE u # s
      BY <3>2, <2>2, <2>5, <2>6, <1>4, <1>11, <1>h DEF Inv, HostsKnow
    <3> QED
      BY Zenon, <3>1, <3>2
  <2> QED
    BY Zenon, <2>3, <2>4, <2>5, <2>6
<1> QED
  BY Zenon, <1>6, <1>8, <1>9, <1>12 DEF Inv

(* ibv_reg_mr returns: every host of HOST_LIST has been served.            *)
LEMMA InsertStep ==
  ASSUME Inv, NEW t \in Threads, Insert(t)
  PROVE  Inv'
<1>1. /\ Typed /\ pc[t] = "hosts" /\ todo[t] = {} /\ pc' = [pc EXCEPT ![t] = "idle"]
      /\ map_lkey_to_mrshm' = [map_lkey_to_mrshm EXCEPT ![HostOf[t]][mr[t][1]] = mr[t][2]]
      /\ owned' = [owned EXCEPT ![t] = @ \cup {mr[t]}] /\ mr' = [mr EXCEPT ![t] = None]
      /\ UNCHANGED <<kernel, lkey_ptr, rkey_mr_shm, net, todo, at, acked, overtaken>>
  BY Zenon DEF Inv, Insert, Goto
<1>2. mr[t] \in Pairs /\ mr[t] \in Held(t) /\ mr[t][1] \in Keys /\ mr[t][2] \in Regions
  BY Zenon, <1>1 DEF Typed, Held, Registering, Pairs
<1>3. /\ pc'[t] = "idle" /\ mr'[t] = None /\ owned'[t] = owned[t] \cup {mr[t]}
      /\ \A u \in Threads \ {t} : pc'[u] = pc[u] /\ mr'[u] = mr[u] /\ owned'[u] = owned[u]
      /\ mr' \in [Threads -> Pairs \cup {None}] /\ owned' \in [Threads -> SUBSET Pairs]
      /\ pc' \in [Threads -> {"idle", "unanswered", "deregistered"} \cup Registering]
  BY Zenon, <1>1, <1>2 DEF Typed, Registering
<1>4. /\ map_lkey_to_mrshm' \in [Hosts -> [Keys -> Regions \cup {None}]]
      /\ map_lkey_to_mrshm'[HostOf[t]][mr[t][1]] = mr[t][2]
      /\ \A g \in Hosts, l \in Keys : <<g, l>> # <<HostOf[t], mr[t][1]>> =>
           map_lkey_to_mrshm'[g][l] = map_lkey_to_mrshm[g][l]
  BY Zenon, <1>1, <1>2, KeysOfHosts DEF Typed
<1>5. \A u \in Threads : pc'[u] \in Registering \cup {"deregistered"} => mr'[u] \in Pairs
  BY Zenon, <1>1, <1>3 DEF Typed, Registering
<1>6. Typed'
  BY Zenon, <1>1, <1>3, <1>4, <1>5 DEF Typed
<1>7. \A u \in Threads : Held(u)' = Held(u)
  BY <1>1, <1>3 DEF Held, Registering
<1>8. HeldKnown' /\ HeldOnce'
  <2>1. HeldKnown'
    BY <1>1, <1>7 DEF Inv, HeldKnown
  <2>2. HeldOnce'
    BY <1>7 DEF Inv, HeldOnce
  <2> QED
    BY Zenon, <2>1, <2>2
<1>9. CleanUp'
  <2>1. \A u \in Threads : pc'[u] = "deregistered" => pc[u] = "deregistered" /\ mr'[u] = mr[u]
    BY Zenon, <1>3
  <2>2. overtaken' = overtaken
    BY Zenon, <1>1
  <2> QED
    BY <2>1, <2>2, <1>7 DEF Inv, CleanUp
<1>10. ClientKnows'
  <2> SUFFICES ASSUME NEW u \in Threads, NEW m \in owned'[u], <<HostOf[u], m[1]>> \notin overtaken
               PROVE  map_lkey_to_mrshm'[HostOf[u]][m[1]] = m[2]
    BY Zenon, <1>1 DEF ClientKnows
  <2>1. CASE u = t /\ m = mr[t]
    BY Zenon, <2>1, <1>4
  <2>2. CASE m \in owned[u]
    <3>1. m \in Held(u) /\ m[1] \in Keys
      BY <2>2, <1>1 DEF Held, Typed, Pairs
    <3>2. CASE HostOf[u] = HostOf[t] /\ m[1] = mr[t][1]
      <4>1. m = mr[t]
        BY <3>1, <3>2, <1>2 DEF Inv, HeldOnce
      <4> QED
        BY Zenon, <4>1, <3>2, <1>4
    <3>3. CASE ~(HostOf[u] = HostOf[t] /\ m[1] = mr[t][1])
      BY <2>2, <3>1, <3>3, <1>4, KeysOfHosts DEF Inv, ClientKnows
    <3> QED
      BY Zenon, <3>2, <3>3
  <2> QED
    BY <2>1, <2>2, <1>3
<1>11. NetAwaited'
  <2>1. \A d \in net : d.from \in Threads \ {t}
    BY Zenon, <1>1 DEF Inv, NetAwaited, Typed
  <2> QED
    BY <2>1, <1>1, <1>3 DEF Inv, NetAwaited
<1>12. HostsKnow'
  <2>1. \A e \in HOST_LIST : e.bare => rkey_mr_shm[e.host][mr[t][1]] = Right(mr[t])
    BY Zenon, <1>1 DEF Inv, HostsKnow
  <2>2. \A u \in Threads : \A m \in owned'[u], e \in HOST_LIST :
          e.bare => rkey_mr_shm[e.host][m[1]] = Right(m)
    BY <2>1, <1>3 DEF Inv, HostsKnow
  <2>3. \A u \in Threads : pc'[u] \in {"hosts", "ack"} => u # t /\ pc'[u] = pc[u] /\ mr'[u] = mr[u]
    BY Zenon, <1>3
  <2> QED
    BY <1>1, <2>2, <2>3 DEF Inv, HostsKnow, Right
<1> QED
  BY Zenon, <1>6, <1>8, <1>9, <1>10, <1>11, <1>12 DEF Inv

(* DEREG_MR: the key is nobody's until it is handed out again.             *)
LEMMA DeregMrStep ==
  ASSUME Inv, NEW t \in Threads, NEW m \in owned[t], DeregMr(t, m)
  PROVE  Inv'
<1>1. /\ Typed /\ pc[t] = "idle" /\ pc' = [pc EXCEPT ![t] = "deregistered"]
      /\ kernel' = [kernel EXCEPT ![HostOf[t]][m[1]] = None]
      /\ owned' = [owned EXCEPT ![t] = @ \ {m}] /\ mr' = [mr EXCEPT ![t] = m]
      /\ UNCHANGED <<lkey_ptr, rkey_mr_shm, map_lkey_to_mrshm, net, todo, at, acked, overtaken>>
  BY Zenon DEF Inv, DeregMr, Goto
<1>2. m \in Pairs /\ m[1] \in Keys /\ m \in Held(t)
  BY <1>1 DEF Typed, Held, Pairs
<1>3. /\ pc'[t] = "deregistered" /\ mr'[t] = m /\ owned'[t] = owned[t] \ {m}
      /\ \A u \in Threads \ {t} : pc'[u] = pc[u] /\ mr'[u] = mr[u] /\ owned'[u] = owned[u]
      /\ mr' \in [Threads -> Pairs \cup {None}] /\ owned' \in [Threads -> SUBSET Pairs]
      /\ pc' \in [Threads -> {"idle", "unanswered", "deregistered"} \cup Registering]
  BY Zenon, <1>1, <1>2 DEF Typed
<1>4. /\ kernel' \in [Hosts -> [Keys -> Regions \cup {None}]]
      /\ \A g \in Hosts, l \in Keys : <<g, l>> # <<HostOf[t], m[1]>> => kernel'[g][l] = kernel[g][l]
  BY Zenon, <1>1, <1>2, KeysOfHosts DEF Typed
<1>5. \A u \in Threads : pc'[u] \in Registering \cup {"deregistered"} => mr'[u] \in Pairs
  BY Zenon, <1>1, <1>2, <1>3 DEF Typed
<1>6. Typed'
  BY Zenon, <1>1, <1>3, <1>4, <1>5 DEF Typed
<1>7. Held(t)' = Held(t) \ {m} /\ \A u \in Threads \ {t} : Held(u)' = Held(u)
  BY Zenon, <1>1, <1>3 DEF Held, Registering
<1>8. \A u \in Threads : \A n \in Held(u)' :
        n \in Held(u) /\ n[1] \in Keys /\ ~(HostOf[u] = HostOf[t] /\ n[1] = m[1])
  <2> TAKE u \in Threads
  <2> TAKE n \in Held(u)'
  <2>1. n \in Held(u) /\ (u = t => n # m)
    BY Zenon, <1>7
  <2>2. n[1] \in Keys
    BY Zenon, <2>1, KeysOfHosts DEF Inv, HeldKnown
  <2> QED
    BY Zenon, <2>1, <2>2, <1>2 DEF Inv, HeldOnce
<1>9. HeldKnown' /\ HeldOnce'
  <2>1. HeldKnown'
    BY <1>1, <1>4, <1>8, KeysOfHosts DEF Inv, HeldKnown
  <2>2. HeldOnce'
    BY <1>8 DEF Inv, HeldOnce
  <2> QED
    BY Zenon, <2>1, <2>2
<1>10. CleanUp'
  <2> SUFFICES ASSUME NEW u \in Threads, NEW v \in Threads, NEW n \in Held(u)',
                      pc'[v] = "deregistered", HostOf[v] = HostOf[u], mr'[v][1] = n[1]
               PROVE  <<HostOf[u], n[1]>> \in overtaken
    BY Zenon, <1>1 DEF CleanUp
  <2>1. v # t
    BY <1>3, <1>8
  <2> QED
    BY <2>1, <1>3, <1>8 DEF Inv, CleanUp
<1>11. ClientKnows'
  BY <1>1, <1>3 DEF Inv, ClientKnows
<1>12. NetAwaited'
  <2>1. \A d \in net : d.from \in Threads \ {t}
    BY Zenon, <1>1 DEF Inv, NetAwaited, Typed
  <2> QED
    BY <2>1, <1>1, <1>3 DEF Inv, NetAwaited
<1>13. HostsKnow'
  BY Zenon, <1>1, <1>3, HostsKnowStep DEF Inv
<1> QED
  BY Zenon, <1>6, <1>9, <1>10, <1>11, <1>12, <1>13 DEF Inv

(* ibv_cmd_dereg_mr cleans up: the entry of a key that is in use again was *)
(* overtaken.                                                              *)
LEMMA DeleteStep ==
  ASSUME Inv, NEW t \in Threads, Delete(t)
  PROVE  Inv'
<1>1. /\ Typed /\ pc[t] = "deregistered" /\ pc' = [pc EXCEPT ![t] = "idle"]
      /\ map_lkey_to_mrshm' = [map_lkey_to_mrshm EXCEPT ![HostOf[t]][mr[t][1]] = None]
      /\ mr' = [mr EXCEPT ![t] = None]
      /\ UNCHANGED <<kernel, lkey_ptr, rkey_mr_shm, net, todo, at, acked, owned, overtaken>>
  BY Zenon DEF Inv, Delete, Goto
<1>2. mr[t] \in Pairs /\ mr[t][1] \in Keys
  BY Zenon, <1>1 DEF Typed, Pairs
<1>3. /\ pc'[t] = "idle" /\ mr'[t] = None
      /\ \A u \in Threads \ {t} : pc'[u] = pc[u] /\ mr'[u] = mr[u]
      /\ mr' \in [Threads -> Pairs \cup {None}]
      /\ pc' \in [Threads -> {"idle", "unanswered", "deregistered"} \cup Registering]
  BY Zenon, <1>1 DEF Typed
<1>4. /\ map_lkey_to_mrshm' \in [Hosts -> [Keys -> Regions \cup {None}]]
      /\ \A g \in Hosts, l \in Keys : <<g, l>> # <<HostOf[t], mr[t][1]>> =>
           map_lkey_to_mrshm'[g][l] = map_lkey_to_mrshm[g][l]
  BY Zenon, <1>1, <1>2, KeysOfHosts DEF Typed
<1>5. \A u \in Threads : pc'[u] \in Registering \cup {"deregistered"} => mr'[u] \in Pairs
  BY Zenon, <1>1, <1>3 DEF Typed, Registering
<1>6. Typed'
  BY Zenon, <1>1, <1>3, <1>4, <1>5 DEF Typed
<1>7. \A u \in Threads : Held(u)' = Held(u)
  BY Zenon, <1>1, <1>3 DEF Held, Registering
<1>8. HeldKnown' /\ HeldOnce'
  <2>1. HeldKnown'
    BY Zenon, <1>1, <1>7 DEF Inv, HeldKnown
  <2>2. HeldOnce'
    BY <1>7 DEF Inv, HeldOnce
  <2> QED
    BY Zenon, <2>1, <2>2
<1>9. CleanUp'
  <2>1. \A u \in Threads : pc'[u] = "deregistered" => pc[u] = "deregistered" /\ mr'[u] = mr[u]
    BY Zenon, <1>3
  <2>2. overtaken' = overtaken
    BY Zenon, <1>1
  <2> QED
    BY <2>1, <2>2, <1>7 DEF Inv, CleanUp
<1>10. ClientKnows'
  <2> SUFFICES ASSUME NEW u \in Threads, NEW m \in owned[u], <<HostOf[u], m[1]>> \notin overtaken
               PROVE  map_lkey_to_mrshm'[HostOf[u]][m[1]] = m[2]
    BY Zenon, <1>1 DEF ClientKnows
  <2>1. m \in Held(u) /\ m[1] \in Keys
    <3>1. m \in Held(u)
      BY Zenon DEF Held
    <3> QED
      BY Zenon, <3>1, KeysOfHosts DEF Inv, HeldKnown
  <2>2. ~(HostOf[u] = HostOf[t] /\ m[1] = mr[t][1])
    BY Zenon, <2>1, <1>1 DEF Inv, CleanUp
  <2> QED
    BY <2>1, <2>2, <1>4, KeysOfHosts DEF Inv, ClientKnows
<1>11. NetAwaited'
  <2>1. \A d \in net : d.from \in Threads \ {t}
    BY Zenon, <1>1 DEF Inv, NetAwaited, Typed
  <2> QED
    BY <2>1, <1>1, <1>3 DEF Inv, NetAwaited
<1>12. HostsKnow'
  BY Zenon, <1>1, <1>3, HostsKnowStep DEF Inv
<1> QED
  BY Zenon, <1>6, <1>8, <1>9, <1>10, <1>11, <1>12 DEF Inv

LEMMA StutterStep ==
  ASSUME Inv, UNCHANGED vars
  PROVE  Inv'
<1>1. UNCHANGED <<kernel, lkey_ptr, rkey_mr_shm, map_lkey_to_mrshm, net, pc, mr, todo, at, acked, owned, overtaken>>
  BY Zenon DEF vars, tables, callVars
<1>2. \A u \in Threads : Held(u)' \subseteq Held(u)
  BY Zenon, <1>1 DEF Held
<1>3. HeldKnown' /\ HeldOnce' /\ CleanUp' /\ ClientKnows'
  BY Zenon, <1>1, <1>2, HeldStep
<1>4. Typed'
  BY Zenon, <1>1 DEF Inv, Typed
<1>5. NetAwaited'
  BY Zenon, <1>1 DEF Inv, NetAwaited
<1>6. HostsKnow'
  BY Zenon, <1>1, HostsKnowStep DEF Inv
<1> QED
  BY Zenon, <1>3, <1>4, <1>5, <1>6 DEF Inv

LEMMA NextInv ==
  ASSUME AtMostOnce, KeysApart, Inv, [Next]_vars
  PROVE  Inv'
<1>1. CASE UNCHANGED vars
  BY Zenon, <1>1, StutterStep
<1>2. CASE Next
  <2>1. PICK t \in Threads :
          \/ \E k \in Keys, r \in Regions : RegMr(t, k, r)
          \/ \E m \in owned[t] : DeregMr(t, m)
          \/ RegMrFails(t) \/ NoSocket(t) \/ SendStep(t) \/ Answer(t) \/ DeliverStep(t)
    BY Zenon, <1>2 DEF Next
  <2>2. CASE RegMrFails(t) \/ NoSocket(t) \/ SendStep(t) \/ StartMapping(t) \/ Acked(t)
    BY Zenon, <2>2, HandlerStep DEF SendStep
  <2>3. CASE DeliverStep(t)
    <3>1. PICK d \in net, n \in Copies : Deliver(d, n > 0)
      BY Zenon, <2>3 DEF DeliverStep
    <3>2. (n > 0) \in BOOLEAN
      OBVIOUS
    <3> QED
      BY Zenon, <3>1, <3>2, DeliverStepInv
  <2>4. CASE \E k \in Keys, r \in Regions : RegMr(t, k, r)
    BY Zenon, <2>4, RegMrStep
  <2>5. CASE \E m \in owned[t] : DeregMr(t, m)
    BY Zenon, <2>5, DeregMrStep
  <2>6. CASE Insert(t) \/ Delete(t)
    BY Zenon, <2>6, InsertStep, DeleteStep
  <2> QED
    BY Zenon, <2>1, <2>2, <2>3, <2>4, <2>5, <2>6 DEF Answer
<1> QED
  BY Zenon, <1>1, <1>2

(* For any hosts, threads, keys and HOST_LIST, with datagrams and          *)
(* acknowledgements of REG_MR_MAPPING lost at will: a region that          *)
(* ibv_reg_mr has returned is translated rightly by its client library,    *)
(* its router and every router that HOST_LIST names by address, until it   *)
(* is deregistered.                                                        *)
THEOREM AlwaysTranslatedEverywhere ==
  ASSUME AtMostOnce, KeysApart PROVE Spec => []TranslatedEverywhere
<1>1. Inv => TranslatedEverywhere
  <2> SUFFICES ASSUME Inv, NEW t \in Threads, NEW m \in owned[t]
               PROVE  /\ lkey_ptr[HostOf[t]][m[1]] = m[2]
                      /\ <<HostOf[t], m[1]>> \notin overtaken => map_lkey_to_mrshm[HostOf[t]][m[1]] = m[2]
                      /\ \A e \in HOST_LIST :
                           e.bare => Translate(e.host, m[1]) = [mr_ptr |-> m[2], shm_ptr |-> m[2]]
    BY Zenon DEF TranslatedEverywhere
  <2>1. m \in Held(t)
    BY Zenon DEF Held
  <2> QED
    BY Zenon, <2>1 DEF Inv, HeldKnown, ClientKnows, HostsKnow, Translate, Right
<1>2. Inv /\ [Next]_vars => Inv'
  BY Zenon, NextInv
<1> QED
  BY <1>1, <1>2, InitInv, PTL DEF Spec
=============================================================================
