------------------------------ MODULE Directory ------------------------------
(***************************************************************************)
(* How a router learns on which host a container's address is: IP Hunter   *)
(* (ip2etcd.go) copies the pods of Kubernetes to etcd round by round, and  *)
(* the router (ffrouter.cpp) watches etcd and keeps vip_map.  The list of  *)
(* nodes goes the same way.                                                *)
(*                                                                         *)
(* IP Hunter panics on an error and is started again; then it empties its  *)
(* directory of etcd in one request, which etcd reports to a watcher as    *)
(* one response with several events.  A watch reports what happens after   *)
(* it was created.                                                         *)
(***************************************************************************)
EXTENDS Integers, Sequences

CONSTANTS
  VIPs, Hosts,
  MaxChanges,   \* bound on changes of the pods
  MaxCrashes,   \* bound on crashes of IP Hunter
  None

ASSUME DirectoryAssumption ==
  /\ MaxChanges \in Nat /\ MaxCrashes \in Nat
  /\ None \notin Hosts

VARIABLES
  pods,                        \* Kubernetes: the host of every pod address
  store,                       \* etcd: what is under ipMapKeyDir
  pc, precede, current, changed, expired,  \* IP Hunter
  watching, responses,         \* the router's watch, and its responses under way
  vip_map,                     \* a std::map, hence a function on the keys it has
  missed,                      \* history: addresses whose last event it was not given
  changes, crashes             \* for the bounds

hunterVars == <<pc, precede, current, changed, expired>>
routerVars == <<watching, responses, vip_map, missed>>
vars == <<pods, store, hunterVars, routerVars, changes, crashes>>

NoHost == [v \in VIPs |-> None]
(* The key of etcd for an address, ipMapKeyDir+k.                          *)
Key(v) == <<"ipMapKeyDir", v>>
(* An event of etcd; the host is None for a DELETE.                        *)
Event(v, h) == [vip |-> v, key |-> Key(v), host |-> h]

Init ==
  /\ pods \in [VIPs -> Hosts \cup {None}] /\ store = NoHost
  /\ pc = "start" /\ precede = NoHost /\ current = NoHost
  /\ changed = {} /\ expired = {}
  /\ watching = FALSE /\ responses = <<>> /\ vip_map = <<>> /\ missed = {}
  /\ changes = 0 /\ crashes = 0

(* A pod starts, stops or moves.                                           *)
PodChanges(v, h) ==
  /\ changes < MaxChanges /\ changes' = changes + 1
  /\ pods[v] # h /\ pods' = [pods EXCEPT ![v] = h]
  /\ UNCHANGED <<store, hunterVars, routerVars, crashes>>

(* etcd sends the events of one request, if any, to the watcher, if any.   *)
Notify(events) ==
  responses' = IF watching /\ events # {} THEN Append(responses, events) ELSE responses

(* ip2Etcd deletes the whole directory when the program starts.            *)
Clean ==
  /\ pc = "start" /\ pc' = "list"
  /\ store' = NoHost
  /\ Notify({Event(v, None) : v \in {w \in VIPs : store[w] # None}})
  /\ UNCHANGED <<pods, precede, current, changed, expired, watching, vip_map, missed, changes, crashes>>

(* Mutant of List: the pods are listed once, before the loop.              *)
ListOnce ==
  LET listed == IF precede = NoHost THEN pods ELSE precede IN
  /\ pc = "list" /\ pc' = "write" /\ current' = listed
  /\ changed' = {v \in VIPs : listed[v] # None /\ precede[v] # listed[v]}
  /\ expired' = {}
  /\ UNCHANGED <<pods, store, precede, routerVars, changes, crashes>>

(* A round begins: the pods are listed and compared with the last round.   *)
List ==
  /\ pc = "list" /\ pc' = "write" /\ current' = pods
  /\ changed' = {v \in VIPs : pods[v] # None /\ precede[v] # pods[v]}
  /\ expired' = {v \in VIPs : pods[v] = None /\ precede[v] # None}
  /\ UNCHANGED <<pods, store, precede, routerVars, changes, crashes>>

(* A changed address is put; Go ranges over a map in any order.            *)
PutChanged(v) ==
  /\ pc = "write" /\ v \in changed /\ changed' = changed \ {v}
  /\ store' = [store EXCEPT ![v] = current[v]]
  /\ Notify({Event(v, current[v])})
  /\ UNCHANGED <<pods, pc, precede, current, expired, watching, vip_map, missed, changes, crashes>>

(* Then the expired addresses are deleted.                                 *)
DeleteExpired(v) ==
  /\ pc = "write" /\ changed = {} /\ v \in expired /\ expired' = expired \ {v}
  /\ store' = [store EXCEPT ![v] = None]
  /\ Notify({Event(v, None)})
  /\ UNCHANGED <<pods, pc, precede, current, changed, watching, vip_map, missed, changes, crashes>>

(* Mutant of EndRound: the pods of the last round are not forgotten.       *)
EndRoundMerges ==
  /\ pc = "write" /\ changed = {} /\ expired = {} /\ pc' = "list"
  /\ precede' = [v \in VIPs |-> IF current[v] = None THEN precede[v] ELSE current[v]]
  /\ UNCHANGED <<pods, store, current, changed, expired, routerVars, changes, crashes>>

EndRound ==
  /\ pc = "write" /\ changed = {} /\ expired = {} /\ pc' = "list"
  /\ precede' = current
  /\ UNCHANGED <<pods, store, current, changed, expired, routerVars, changes, crashes>>

(* IP Hunter panics, anywhere, and is started again.                       *)
Crash ==
  /\ pc # "start" /\ crashes < MaxCrashes /\ crashes' = crashes + 1 /\ pc' = "start"
  /\ precede' = NoHost /\ current' = NoHost /\ changed' = {} /\ expired' = {}
  /\ UNCHANGED <<pods, store, routerVars, changes>>

(* watch_etcd_kv: the watch is created, and not told what is there.        *)
Watch ==
  /\ ~watching /\ watching' = TRUE
  /\ missed' = {v \in VIPs : store[v] # None}
  /\ UNCHANGED <<pods, store, hunterVars, responses, vip_map, changes, crashes>>

(* The history: the event that is handled brings its address up to date,   *)
(* the others of the response are missed.                                  *)
Heard(e) == missed' = (missed \ {e.vip}) \cup {f.vip : f \in Head(responses) \ {e}}

(* vip_map[key] = host, and vip_map.erase(key).                            *)
Assign(k, h) == [l \in DOMAIN vip_map \cup {k} |-> IF l = k THEN h ELSE vip_map[l]]
Erase(k) == [l \in DOMAIN vip_map \ {k} |-> vip_map[l]]

(* Mutant of process_vip_map: a DELETE is not told from a PUT.             *)
ProcessPutsOnly(e) ==
  /\ responses # <<>> /\ e \in Head(responses) /\ responses' = Tail(responses)
  /\ vip_map' = IF e.host = None THEN vip_map ELSE Assign(e.key, e.host)
  /\ Heard(e)
  /\ UNCHANGED <<pods, store, hunterVars, watching, changes, crashes>>

(* A response arrives; only its event kv[0] is looked at.                  *)
process_vip_map(e) ==
  /\ responses # <<>> /\ e \in Head(responses) /\ responses' = Tail(responses)
  /\ vip_map' = IF e.host # None THEN Assign(e.key, e.host) ELSE Erase(e.key)
  /\ Heard(e)
  /\ UNCHANGED <<pods, store, hunterVars, watching, changes, crashes>>

HunterStep ==
  \/ Clean \/ List \/ EndRound
  \/ \E v \in VIPs : PutChanged(v) \/ DeleteExpired(v)
RouterStep == responses # <<>> /\ \E e \in Head(responses) : process_vip_map(e)

Next ==
  \/ \E v \in VIPs, h \in Hosts \cup {None} : PodChanges(v, h)
  \/ HunterStep \/ Crash \/ Watch \/ RouterStep

Spec == Init /\ [][Next]_vars
(* IP Hunter's loop and the thread of the watch go on, and the router      *)
(* starts in the end.                                                      *)
FairSpec == Spec /\ WF_vars(HunterStep) /\ WF_vars(RouterStep) /\ WF_vars(Watch)
----------------------------------------------------------------------------
(* The host the router has for a key of etcd, or None.                     *)
Entry(k) == IF k \in DOMAIN vip_map THEN vip_map[k] ELSE None

(* Properties.                                                             *)

(* Between two rounds IP Hunter's memory of the last round, from which it  *)
(* computes what to write, is what etcd holds, whenever it crashed.        *)
MemoryIsStore == pc = "list" => precede = store

(* A router that has handled every response of its watch has in vip_map    *)
(* what etcd holds, for every address whose last event it was given: only  *)
(* the events before its watch, and those after the first of a response,   *)
(* are missed, and the next event of an address repairs it.                *)
CaughtUp ==
  watching /\ responses = <<>> =>
    \A v \in VIPs \ missed : Entry(Key(v)) = store[v]

(* Once the pods no longer change, vip_map comes to say where they are,    *)
(* through crashes of IP Hunter, but for the addresses that were missed.   *)
ConvergesUnlessMissed == <>[](\A v \in VIPs \ missed : Entry(Key(v)) = pods[v])
=============================================================================
