--------------------------- MODULE DirectoryProofs ---------------------------
(***************************************************************************)
(* Proofs about Directory, for any addresses and hosts and any number of   *)
(* changes and crashes.  Two arguments: what IP Hunter remembers follows   *)
(* etcd through a round, and the responses under way to the router end, for *)
(* each address they are about, with what etcd holds.                      *)
(***************************************************************************)
EXTENDS Directory, TLAPS

MaybeHost == Hosts \cup {None}
Events == {Event(v, h) : v \in VIPs, h \in MaybeHost}

Typed ==
  /\ pods \in [VIPs -> MaybeHost] /\ store \in [VIPs -> MaybeHost]
  /\ precede \in [VIPs -> MaybeHost] /\ current \in [VIPs -> MaybeHost]
  /\ pc \in {"start", "list", "write"}
  /\ changed \in SUBSET VIPs /\ expired \in SUBSET VIPs
  /\ watching \in BOOLEAN /\ responses \in Seq(SUBSET Events)

(* While a round is written, etcd holds the listed host of every address   *)
(* that is not still to be written.                                        *)
RoundWritten ==
  pc = "write" =>
    /\ \A v \in VIPs \ (changed \cup expired) : store[v] = current[v]
    /\ \A v \in expired : current[v] = None

(* An IP Hunter that starts remembers nothing, and empties etcd first.     *)
StartsEmpty == pc = "start" => precede = NoHost

HunterInv == MemoryIsStore /\ RoundWritten /\ StartsEmpty

(* Nothing is under way to a router that does not watch.                   *)
Unwatched == ~watching => responses = <<>> /\ \A v \in VIPs : Entry(Key(v)) = None

(* A response has one event of an address.                                 *)
OneEventEach ==
  \A i \in DOMAIN responses : \A e, f \in responses[i] : e.vip = f.vip => e = f

(* The last event under way of an address says what etcd holds.            *)
LastIsStore ==
  \A i \in DOMAIN responses : \A e \in responses[i] :
    (\A j \in DOMAIN responses : j > i => \A f \in responses[j] : f.vip # e.vip)
      => e.host = store[e.vip]

(* With no event of an address under way, vip_map has what etcd holds.     *)
QuietIsStore ==
  watching =>
    \A v \in VIPs \ missed :
      (\A i \in DOMAIN responses : \A e \in responses[i] : e.vip # v)
        => Entry(Key(v)) = store[v]

RouterInv == Unwatched /\ OneEventEach /\ LastIsStore /\ QuietIsStore

LEMMA EventFields ==
  \A e \in Events : e.vip \in VIPs /\ e.host \in MaybeHost /\ e.key = Key(e.vip)
BY DEF Events, Event

LEMMA KeyInjective == \A v, w \in VIPs : Key(v) = Key(w) => v = w
BY Zenon DEF Key

LEMMA InitInv == Init => Typed /\ HunterInv /\ RouterInv
<1> SUFFICES ASSUME Init PROVE Typed /\ HunterInv /\ RouterInv
  BY Zenon
<1>1. Typed
  <2>1. <<>> \in Seq(SUBSET Events)
    OBVIOUS
  <2> QED
    BY Zenon, <2>1 DEF Init, Typed, NoHost, MaybeHost
<1>2. HunterInv
  BY Zenon DEF Init, HunterInv, MemoryIsStore, RoundWritten, StartsEmpty
<1>3. DOMAIN responses = {} /\ DOMAIN vip_map = {}
  BY DEF Init
<1>4. RouterInv
  BY Zenon, <1>3 DEF Init, RouterInv, Unwatched, OneEventEach, LastIsStore, QuietIsStore, Entry
<1> QED
  BY Zenon, <1>1, <1>2, <1>4

(* etcd tells the watcher of every address that a request changes.         *)
LEMMA NotifyStep ==
  ASSUME Typed, RouterInv, NEW S \in SUBSET Events, Notify(S),
         UNCHANGED <<watching, vip_map, missed>>,
         store' \in [VIPs -> MaybeHost],
         \A e \in S : e.host = store'[e.vip],
         \A v \in VIPs : store'[v] # store[v] => \E e \in S : e.vip = v,
         \A e, f \in S : e.vip = f.vip => e = f
  PROVE  RouterInv' /\ responses' \in Seq(SUBSET Events)
<1>1. CASE watching /\ S # {}
  <2> DEFINE n == Len(responses)
  <2>1. /\ responses' = Append(responses, S) /\ responses \in Seq(SUBSET Events)
        /\ n \in Nat /\ DOMAIN responses = 1..n /\ DOMAIN responses' = 1..n + 1
        /\ responses'[n + 1] = S /\ \A i \in 1..n : responses'[i] = responses[i]
    BY <1>1 DEF Notify, Typed
  <2>2. responses' \in Seq(SUBSET Events)
    BY <2>1
  <2> HIDE DEF n
  <2>3. Unwatched'
    BY Zenon, <1>1 DEF Unwatched
  <2>4. OneEventEach'
    BY <2>1 DEF RouterInv, OneEventEach
  <2>5. LastIsStore'
    <3> SUFFICES ASSUME NEW i \in 1..n + 1, NEW e \in responses'[i],
                        \A j \in 1..n + 1 : j > i => \A f \in responses'[j] : f.vip # e.vip
                 PROVE  e.host = store'[e.vip]
      BY <2>1 DEF LastIsStore
    <3>1. CASE i = n + 1
      BY Zenon, <3>1, <2>1
    <3>2. CASE i # n + 1
      <4>1. i \in 1..n /\ e \in responses[i] /\ e \in Events
        BY <3>2, <2>1
      <4>2. \A f \in S : f.vip # e.vip
        BY <4>1, <2>1
      <4>3. store'[e.vip] = store[e.vip]
        BY Zenon, <4>1, <4>2, EventFields
      <4>4. \A j \in 1..n : j > i => \A f \in responses[j] : f.vip # e.vip
        BY <2>1
      <4>5. e.host = store[e.vip]
        BY <4>1, <4>4, <2>1 DEF RouterInv, LastIsStore
      <4> QED
        BY Zenon, <4>3, <4>5
    <3> QED
      BY Zenon, <3>1, <3>2
  <2>6. QuietIsStore'
    <3> SUFFICES ASSUME NEW v \in VIPs \ missed,
                        \A i \in 1..n + 1 : \A e \in responses'[i] : e.vip # v
                 PROVE  Entry(Key(v))' = store'[v]
      BY Zenon, <2>1 DEF QuietIsStore
    <3>1. \A e \in S : e.vip # v
      BY <2>1
    <3>2. \A i \in 1..n : \A e \in responses[i] : e.vip # v
      BY <2>1
    <3>3. Entry(Key(v)) = store[v]
      BY Zenon, <1>1, <3>2, <2>1 DEF RouterInv, QuietIsStore
    <3> QED
      BY Zenon, <3>1, <3>3 DEF Entry
  <2> QED
    BY Zenon, <2>2, <2>3, <2>4, <2>5, <2>6 DEF RouterInv
<1>2. CASE ~watching
  <2>1. responses' = responses /\ responses = <<>> /\ DOMAIN responses = {}
    BY <1>2 DEF Notify, RouterInv, Unwatched
  <2> QED
    BY Zenon, <1>2, <2>1 DEF Typed, RouterInv, Unwatched, OneEventEach, LastIsStore, QuietIsStore, Entry
<1>3. CASE S = {}
  <2>1. responses' = responses /\ store' = store
    BY <1>3 DEF Notify, Typed
  <2> QED
    BY <2>1 DEF Typed, RouterInv, Unwatched, OneEventEach, LastIsStore, QuietIsStore, Entry
<1> QED
  BY Zenon, <1>1, <1>2, <1>3

(* The router handles one event of the oldest response.                    *)
LEMMA ProcessStep ==
  ASSUME Typed, RouterInv, NEW e \in Head(responses), process_vip_map(e)
  PROVE  RouterInv' /\ responses' \in Seq(SUBSET Events)
<1> DEFINE n == Len(responses)
           R == responses[1]
<1>1. /\ responses \in Seq(SUBSET Events) /\ responses # <<>> /\ responses' = Tail(responses)
      /\ Head(responses) = R
    BY DEF process_vip_map, Typed
<1>2. /\ n \in Nat /\ n >= 1 /\ DOMAIN responses = 1..n /\ DOMAIN responses' = 1..n - 1
      /\ \A i \in 1..n - 1 : responses'[i] = responses[i + 1]
      /\ responses' \in Seq(SUBSET Events)
  BY <1>1
<1>3. e \in R /\ R \in SUBSET Events /\ e \in Events /\ watching
  BY <1>1, <1>2 DEF RouterInv, Unwatched, Typed
<1>u. UNCHANGED <<store, watching>> /\ missed' = (missed \ {e.vip}) \cup {f.vip : f \in R \ {e}}
  BY Zenon, <1>1 DEF process_vip_map, Heard
<1> HIDE DEF n, R
<1>4. Entry(Key(e.vip))' = e.host
  BY Zenon, <1>3, EventFields DEF process_vip_map, Entry, Assign, Erase
<1>5. \A v \in VIPs : v # e.vip => Entry(Key(v))' = Entry(Key(v))
  <2> TAKE v \in VIPs
  <2> HAVE v # e.vip
  <2>1. Key(v) # e.key
    BY Zenon, <1>3, EventFields, KeyInjective
  <2> QED
    BY Zenon, <2>1 DEF process_vip_map, Entry, Assign, Erase
<1>6. Unwatched'
  BY Zenon, <1>3, <1>u DEF Unwatched
<1>7. OneEventEach'
  BY <1>2 DEF RouterInv, OneEventEach
<1>8. LastIsStore'
  <2> SUFFICES ASSUME NEW i \in 1..n - 1, NEW f \in responses'[i],
                      \A j \in 1..n - 1 : j > i => \A g \in responses'[j] : g.vip # f.vip
               PROVE  f.host = store[f.vip]
    BY Zenon, <1>2, <1>u DEF LastIsStore
  <2>1. i + 1 \in 1..n /\ f \in responses[i + 1]
    BY <1>2
  <2>2. ASSUME NEW j \in 1..n, j > i + 1, NEW g \in responses[j] PROVE g.vip # f.vip
    <3>1. j - 1 \in 1..n - 1 /\ j - 1 > i /\ responses'[j - 1] = responses[j]
      BY <2>2, <1>2
    <3> QED
      BY Zenon, <3>1, <2>2
  <2> QED
    BY <2>1, <2>2, <1>2 DEF RouterInv, LastIsStore
<1>9. QuietIsStore'
  <2> SUFFICES ASSUME NEW v \in VIPs \ missed',
                      \A i \in 1..n - 1 : \A f \in responses'[i] : f.vip # v
               PROVE  Entry(Key(v))' = store[v]
    BY Zenon, <1>2, <1>u DEF QuietIsStore
  <2>1. \A i \in 1..n : i > 1 => \A f \in responses[i] : f.vip # v
    <3> TAKE i \in 1..n
    <3> HAVE i > 1
    <3>1. i - 1 \in 1..n - 1 /\ responses'[i - 1] = responses[i]
      BY <1>2
    <3> QED
      BY Zenon, <3>1
  <2>2. CASE v = e.vip
    <3>1. e.host = store[v]
      BY <2>1, <2>2, <1>2, <1>3 DEF RouterInv, LastIsStore, R
    <3> QED
      BY Zenon, <3>1, <2>2, <1>4
  <2>3. CASE v # e.vip
    <3>1. v \notin missed /\ \A f \in R : f.vip # v
      BY Zenon, <2>3, <1>u
    <3>2. \A i \in 1..n : \A f \in responses[i] : f.vip # v
      BY <3>1, <2>1, <1>2 DEF R
    <3>3. Entry(Key(v)) = store[v]
      BY Zenon, <3>1, <3>2, <1>2, <1>3 DEF RouterInv, QuietIsStore
    <3> QED
      BY Zenon, <3>3, <1>5, <2>3
  <2> QED
    BY Zenon, <2>2, <2>3
<1> QED
  BY Zenon, <1>2, <1>6, <1>7, <1>8, <1>9 DEF RouterInv

(* One request of IP Hunter writes the host of one address.                *)
LEMMA WriteStep ==
  ASSUME Typed, RouterInv, NEW v \in VIPs, NEW h \in MaybeHost,
         store' = [store EXCEPT ![v] = h], Notify({Event(v, h)}),
         UNCHANGED <<watching, vip_map, missed>>
  PROVE  RouterInv' /\ responses' \in Seq(SUBSET Events)
<1>1. {Event(v, h)} \in SUBSET Events
  BY DEF Events
<1>2. Event(v, h).vip = v /\ Event(v, h).host = h
  BY Zenon DEF Event
<1>3. store' \in [VIPs -> MaybeHost] /\ store'[v] = h
      /\ \A w \in VIPs : store'[w] # store[w] => w = v
  BY Zenon DEF Typed
<1> HIDE DEF Event
<1> QED
  BY Zenon, <1>1, <1>2, <1>3, NotifyStep

LEMMA CleanStep ==
  ASSUME Typed, RouterInv, Clean
  PROVE  RouterInv' /\ responses' \in Seq(SUBSET Events)
<1> DEFINE S == {Event(v, None) : v \in {w \in VIPs : store[w] # None}}
<1>1. S \in SUBSET Events
  BY DEF Events, MaybeHost
<1>f. \A v \in VIPs : Event(v, None).vip = v /\ Event(v, None).host = None
  BY Zenon DEF Event
<1>2. /\ \A e \in S : e.vip \in VIPs /\ e.host = None /\ e = Event(e.vip, None)
      /\ \A v \in VIPs : store[v] # None => \E e \in S : e.vip = v
  BY Zenon, <1>f
<1>3. Notify(S) /\ UNCHANGED <<watching, vip_map, missed>>
  BY Zenon DEF Clean
<1> HIDE DEF S
<1>4. store' \in [VIPs -> MaybeHost] /\ \A v \in VIPs : store'[v] = None
  BY Zenon DEF Clean, NoHost, MaybeHost
<1>5. \A e, f \in S : e.vip = f.vip => e = f
  BY Zenon, <1>2
<1> QED
  BY Zenon, <1>1, <1>2, <1>3, <1>4, <1>5, NotifyStep

LEMMA NextInv ==
  ASSUME Typed, HunterInv, RouterInv, [Next]_vars
  PROVE  Typed' /\ HunterInv' /\ RouterInv'
<1>s. ASSUME UNCHANGED <<store, watching, responses, vip_map, missed>>
      PROVE  RouterInv'
  BY <1>s DEF RouterInv, Unwatched, OneEventEach, LastIsStore, QuietIsStore, Entry
<1>h. ASSUME UNCHANGED <<store, hunterVars>>
      PROVE  HunterInv'
  BY Zenon, <1>h DEF HunterInv, MemoryIsStore, RoundWritten, StartsEmpty, hunterVars
<1>1. CASE Clean
  <2>1. RouterInv' /\ responses' \in Seq(SUBSET Events)
    BY Zenon, <1>1, CleanStep
  <2>2. Typed' /\ HunterInv'
    BY Zenon, <1>1, <2>1 DEF Clean, Typed, NoHost, MaybeHost, HunterInv, MemoryIsStore, RoundWritten, StartsEmpty
  <2> QED
    BY Zenon, <2>1, <2>2
<1>2. CASE List
  <2>1. RouterInv'
    BY Zenon, <1>2, <1>s DEF List, routerVars
  <2>2. Typed'
    BY Zenon, <1>2 DEF List, Typed, routerVars
  <2>3. HunterInv'
    BY Zenon, <1>2 DEF List, Typed, HunterInv, MemoryIsStore, RoundWritten, StartsEmpty
  <2> QED
    BY Zenon, <2>1, <2>2, <2>3
<1>3. CASE EndRound
  <2>1. RouterInv'
    BY Zenon, <1>3, <1>s DEF EndRound, routerVars
  <2>2. Typed'
    BY Zenon, <1>3 DEF EndRound, Typed, routerVars
  <2>3. HunterInv'
    BY <1>3 DEF EndRound, Typed, HunterInv, MemoryIsStore, RoundWritten, StartsEmpty
  <2> QED
    BY Zenon, <2>1, <2>2, <2>3
<1>4. ASSUME NEW v \in VIPs, PutChanged(v)
      PROVE  Typed' /\ HunterInv' /\ RouterInv'
  <2>1. RouterInv' /\ responses' \in Seq(SUBSET Events)
    BY Zenon, <1>4, WriteStep DEF PutChanged, Typed
  <2>2. Typed'
    BY Zenon, <1>4, <2>1 DEF PutChanged, Typed
  <2>3. HunterInv'
    BY Zenon, <1>4 DEF PutChanged, Typed, HunterInv, MemoryIsStore, RoundWritten, StartsEmpty
  <2> QED
    BY Zenon, <2>1, <2>2, <2>3
<1>5. ASSUME NEW v \in VIPs, DeleteExpired(v)
      PROVE  Typed' /\ HunterInv' /\ RouterInv'
  <2>1. RouterInv' /\ responses' \in Seq(SUBSET Events)
    BY Zenon, <1>5, WriteStep DEF DeleteExpired, Typed, MaybeHost
  <2>2. Typed'
    BY Zenon, <1>5, <2>1 DEF DeleteExpired, Typed, MaybeHost
  <2>3. HunterInv'
    BY <1>5 DEF DeleteExpired, Typed, HunterInv, MemoryIsStore, RoundWritten, StartsEmpty
  <2> QED
    BY Zenon, <2>1, <2>2, <2>3
<1>6. CASE Crash
  <2>1. RouterInv'
    BY Zenon, <1>6, <1>s DEF Crash, routerVars
  <2> QED
    BY Zenon, <1>6, <2>1 DEF Crash, Typed, NoHost, MaybeHost, routerVars, HunterInv, MemoryIsStore, RoundWritten, StartsEmpty
<1>7. CASE Watch
  <2>1. responses = <<>> /\ DOMAIN responses = {} /\ responses' = responses
    BY <1>7 DEF Watch, RouterInv, Unwatched
  <2>2. RouterInv'
    BY Zenon, <1>7, <2>1 DEF Watch, RouterInv, Unwatched, OneEventEach, LastIsStore, QuietIsStore, Entry
  <2>3. Typed' /\ HunterInv'
    BY Zenon, <1>7, <1>h DEF Watch, Typed, hunterVars
  <2> QED
    BY Zenon, <2>2, <2>3
<1>8. CASE RouterStep
  <2>1. PICK e \in Head(responses) : process_vip_map(e)
    BY Zenon, <1>8 DEF RouterStep
  <2>2. RouterInv' /\ responses' \in Seq(SUBSET Events)
    BY Zenon, <2>1, ProcessStep
  <2>3. Typed' /\ HunterInv'
    BY Zenon, <2>1, <2>2, <1>h DEF process_vip_map, Typed, hunterVars
  <2> QED
    BY Zenon, <2>2, <2>3
<1>9. ASSUME NEW v \in VIPs, NEW h \in Hosts \cup {None}, PodChanges(v, h)
      PROVE  Typed' /\ HunterInv' /\ RouterInv'
  BY Zenon, <1>9, <1>s, <1>h DEF PodChanges, Typed, MaybeHost, hunterVars, routerVars
<1>10. CASE UNCHANGED vars
  BY Zenon, <1>10, <1>s, <1>h DEF vars, Typed, hunterVars, routerVars
<1> QED
  BY Zenon, <1>1, <1>2, <1>3, <1>4, <1>5, <1>6, <1>7, <1>8, <1>9, <1>10 DEF Next, HunterStep

LEMMA SpecInv == Spec => [](Typed /\ HunterInv /\ RouterInv)
BY InitInv, NextInv, PTL DEF Spec

(* IP Hunter computes what to write from what etcd holds (ipMap2Etcd and   *)
(* ip2Etcd of ip2etcd.go), for any pods, in any order of the writes, and   *)
(* whenever it crashed.                                                    *)
THEOREM MemoryIsStoreAlways == Spec => []MemoryIsStore
BY SpecInv, PTL DEF HunterInv

(* A router that has handled the responses of its watch (watch_etcd_kv and *)
(* process_vip_map of ffrouter.cpp) has in vip_map what etcd holds, for    *)
(* every address of which it has not missed the last event.                *)
THEOREM CaughtUpAlways == Spec => []CaughtUp
<1>1. RouterInv => CaughtUp
  <2> SUFFICES ASSUME RouterInv, watching, responses = <<>>, NEW v \in VIPs \ missed
               PROVE  Entry(Key(v)) = store[v]
    BY Zenon DEF CaughtUp
  <2>1. DOMAIN responses = {}
    OBVIOUS
  <2> QED
    BY Zenon, <2>1 DEF RouterInv, QuietIsStore
<1> QED
  BY <1>1, SpecInv, PTL
=============================================================================
