------------------------ MODULE QueueLifecycleProofs ------------------------
(***************************************************************************)
(* CtrlChannelLoop never follows the null pointer of a queue pair that is  *)
(* not in qp_map, for any number of handlers, handles and queues.  The     *)
(* argument: a handle of the kernel has one holder, the handler that       *)
(* creates the queue, then its client, then the handler that destroys it,  *)
(* and while the client has it nobody else takes it from qp_map.           *)
(***************************************************************************)
EXTENDS QueueLifecycle, TLAPS

Making == {"store", "init", "piece", "push", "map"}
Holding == Making \cup {"verb"}
Ending == {"erase", "delete", "clear"}
Pcs == Holding \cup Ending \cup {"read"}
Has == {"yes", "waiting"}

Typed ==
  /\ kind \in Kinds
  /\ pc \in [Handlers -> Pcs]
  /\ h \in [Handlers -> Handles \cup {None}]
  /\ \A r \in Handlers : pc[r] # "read" <=> h[r] \in Handles
  /\ \A r \in Handlers : ret[r] = 0 \/ pc[r] \in Ending
  /\ ret \in [Handlers -> {0, EBUSY}]
  /\ owned \in [Handles -> Has \cup {"no", "no response"}]
  /\ DOMAIN csp = Handles
  /\ live \subseteq Handles /\ cq_map \subseteq Handles

(* A handler holds the handle of a queue that it creates, or destroys and  *)
(* has not freed: when the verb failed it is given back to the client.     *)
Holds(r) == pc[r] \in Holding \/ ret[r] # 0

(* One holder of a handle.                                                 *)
OneHolder ==
  /\ \A r \in Handlers : Holds(r) => h[r] \in live /\ owned[h[r]] = "no"
  /\ \A x \in Handles : owned[x] # "no" => x \in live
  /\ \A r, q \in Handlers : Holds(r) /\ Holds(q) /\ h[r] = h[q] => r = q

(* The destruction of a queue pair succeeds.                               *)
Succeeds == \A r \in Handlers : ret[r] = 0

(* The queue pairs that are in qp_map.                                     *)
InMap ==
  /\ \A x \in Handles : owned[x] \in Has => x \in cq_map
  /\ \A r \in Handlers : pc[r] \in Making \ {"store"} => h[r] \in cq_map

(* A request is that of a client that waits at its segment.                *)
RequestHasClient ==
  \A s \in DOMAIN state :
    state[s] = "REQ_DONE" => \E x \in Handles : owned[x] = "waiting" /\ csp[x] = s

QpInv == Succeeds /\ InMap /\ RequestHasClient
Inv == Typed /\ OneHolder /\ (kind = "qp" => QpInv)

LEMMA InitInv == Init => Inv
BY NoneAssumption
   DEF Init, Inv, Typed, Pcs, QpInv, OneHolder, Holds, Succeeds, InMap, RequestHasClient, Holding, Making, Ending, Has

LEMMA PcNames ==
  /\ Making \subseteq Holding /\ Holding \cap Ending = {} /\ "read" \notin Holding \cup Ending
  /\ "verb" \in Holding \ Making /\ \A p \in {"store", "init", "piece", "push", "map"} : p \in Making
  /\ \A p \in {"erase", "delete", "clear"} : p \in Ending
BY Zenon DEF Making, Holding, Ending

(* A step of handler r that keeps its handle and takes nothing from the    *)
(* map.                                                                    *)
LEMMA HandlerGoesOn ==
  ASSUME Inv, NEW r \in Handlers, NEW from, NEW to, At(r, from, to), from # "read", to # "read",
         to \in Holding \cup Ending, to \in Holding <=> from \in Holding,
         to \in Making \ {"store"} => from \in Making \ {"store"} \/ h[r] \in cq_map',
         cq_map \subseteq cq_map', cq_map' \subseteq Handles,
         UNCHANGED <<kind, live, h, owned, csp, ret>>,
         DOMAIN state' = DOMAIN state,
         \A s \in DOMAIN state : state'[s] = "REQ_DONE" => state[s] = "REQ_DONE"
  PROVE  Inv'
<1>1. /\ pc'[r] = to /\ pc[r] = from /\ \A q \in Handlers \ {r} : pc'[q] = pc[q]
      /\ pc' \in [Handlers -> Pcs]
  BY Zenon DEF At, Inv, Typed, Pcs
<1>2. Typed'
  <2>1. \A q \in Handlers : ret[q] = 0 \/ pc'[q] \in Ending
    BY Zenon, <1>1, PcNames DEF Inv, Typed
  <2>2. \A q \in Handlers : pc'[q] # "read" <=> h[q] \in Handles
    BY Zenon, <1>1 DEF Inv, Typed
  <2> QED
    BY Zenon, <1>1, <2>1, <2>2 DEF Inv, Typed
<1>3. OneHolder'
  <2>1. \A q \in Handlers : Holds(q)' => Holds(q)
    BY Zenon, <1>1 DEF Holds
  <2> QED
    BY Zenon, <2>1 DEF Inv, OneHolder
<1>4. ASSUME kind = "qp" PROVE QpInv'
  BY Zenon, <1>1, <1>4 DEF Inv, QpInv, Succeeds, InMap, RequestHasClient
<1> QED
  BY Zenon, <1>2, <1>3, <1>4 DEF Inv

(* A step of a client or of the loop, which leaves handlers and maps alone. *)
LEMMA OthersStep ==
  ASSUME Inv, UNCHANGED <<kind, live, pc, h, ret, cq_map, csp>>,
         owned' \in [Handles -> Has \cup {"no", "no response"}],
         \A x \in Handles : owned'[x] # owned[x] => owned'[x] \in Has /\ owned[x] \in Has,
         DOMAIN state' = DOMAIN state,
         kind = "qp" => RequestHasClient'
  PROVE  Inv'
<1>1. Typed'
  BY Zenon DEF Inv, Typed
<1>2. OneHolder'
  <2>1. \A x \in Handles : owned'[x] = "no" <=> owned[x] = "no"
    BY Zenon DEF Has
  <2>2. \A r \in Handlers : Holds(r)' <=> Holds(r)
    BY Zenon DEF Holds
  <2>3. \A r \in Handlers : Holds(r) => h[r] \in Handles
    BY PcNames DEF Inv, Typed, Holds
  <2> QED
    BY Zenon, <2>1, <2>2, <2>3 DEF Inv, OneHolder
<1>3. ASSUME kind = "qp" PROVE Succeeds' /\ InMap'
  BY Zenon, <1>3 DEF Inv, QpInv, Succeeds, InMap
<1> QED
  BY Zenon, <1>1, <1>2, <1>3 DEF Inv, QpInv

LEMMA CreateStep ==
  ASSUME Inv, NEW r \in Handlers, NEW x \in Handles, CreateVerb(r, x)
  PROVE  Inv'
<1>1. /\ pc'[r] = "store" /\ pc[r] = "read" /\ h'[r] = x /\ x \notin live /\ live' = live \cup {x}
      /\ \A q \in Handlers \ {r} : pc'[q] = pc[q] /\ h'[q] = h[q]
      /\ pc' \in [Handlers -> Pcs]
      /\ h' \in [Handlers -> Handles \cup {None}]
      /\ UNCHANGED <<kind, cq_map, owned, csp, ret, state>>
  BY PcNames DEF CreateVerb, At, Inv, Typed, Pcs, mapVars, pieceVars, clientVars
<1>2. Typed'
  BY <1>1, PcNames DEF Inv, Typed
<1>3. OneHolder'
  <2>1. \A q \in Handlers \ {r} : Holds(q)' <=> Holds(q)
    BY Zenon, <1>1 DEF Holds
  <2>2. \A q \in Handlers : Holds(q) => h[q] # x
    BY Zenon, <1>1 DEF Inv, OneHolder
  <2>3. owned[x] = "no"
    BY Zenon, <1>1 DEF Inv, OneHolder
  <2> QED
    BY <1>1, <2>1, <2>2, <2>3 DEF Inv, OneHolder
<1>4. ASSUME kind = "qp" PROVE QpInv'
  BY <1>1, <1>4 DEF Inv, QpInv, Succeeds, InMap, RequestHasClient
<1> QED
  BY Zenon, <1>1, <1>2, <1>3, <1>4 DEF Inv

LEMMA MapStep ==
  ASSUME Inv, NEW r \in Handlers, ClientMap(r)
  PROVE  Inv'
<1> DEFINE x == h[r]
           s == ShmOpen(h[r])
<1>1. /\ pc[r] = "map" /\ pc' = [pc EXCEPT ![r] = "read"]
      /\ csp' = [csp EXCEPT ![x] = s] /\ owned' = [owned EXCEPT ![x] = "yes"]
      /\ h' = [h EXCEPT ![r] = None]
      /\ state' = state \/ state' = [state EXCEPT ![s] = "IDLE"]
      /\ UNCHANGED <<kind, live, cq_map, ret>>
  BY Zenon DEF ClientMap, At, mapVars
<1>2. Typed /\ x \in Handles /\ ret[r] = 0
  BY Zenon, <1>1, PcNames DEF Inv, Typed
<1>x. x = h[r]
  BY Zenon
<1> HIDE DEF x, s
<1>3. /\ pc'[r] = "read" /\ h'[r] = None /\ \A q \in Handlers \ {r} : pc'[q] = pc[q] /\ h'[q] = h[q]
      /\ pc' \in [Handlers -> Pcs]
      /\ h' \in [Handlers -> Handles \cup {None}]
      /\ owned'[x] = "yes" /\ \A y \in Handles \ {x} : owned'[y] = owned[y] /\ csp'[y] = csp[y]
      /\ owned' \in [Handles -> Has \cup {"no", "no response"}]
      /\ DOMAIN csp' = Handles /\ DOMAIN state' = DOMAIN state
      /\ \A u \in DOMAIN state : state'[u] = "REQ_DONE" => state[u] = "REQ_DONE"
  BY Zenon, <1>1, <1>2 DEF Typed, Pcs, Has
<1>4. Typed'
  <2>1. \A q \in Handlers : pc'[q] # "read" <=> h'[q] \in Handles
    BY <1>2, <1>3, NoneAssumption DEF Typed
  <2>2. \A q \in Handlers : ret[q] = 0 \/ pc'[q] \in Ending
    BY Zenon, <1>2, <1>3 DEF Typed
  <2>3. UNCHANGED <<kind, live, cq_map, ret>>
    BY Zenon, <1>1
  <2> QED
    BY Zenon, <1>2, <1>3, <2>1, <2>2, <2>3 DEF Typed
<1>5. ASSUME NEW q \in Handlers, Holds(q)'
      PROVE  q # r /\ pc'[q] = pc[q] /\ h'[q] = h[q] /\ h[q] # x /\ h[q] \in Handles /\ Holds(q)
  <2>1. q # r
    BY <1>1, <1>2, <1>3, <1>5, PcNames DEF Holds
  <2>2. pc'[q] = pc[q] /\ h'[q] = h[q] /\ Holds(q)
    BY <1>1, <1>3, <1>5, <2>1 DEF Holds
  <2>3. Holds(r)
    BY Zenon, <1>1, PcNames DEF Holds
  <2>4. h[q] # x
    BY Zenon, <1>x, <2>1, <2>2, <2>3 DEF Inv, OneHolder
  <2>5. h[q] \in Handles
    BY Zenon, <2>2, <1>2, PcNames DEF Typed, Holds
  <2> QED
    BY Zenon, <2>1, <2>2, <2>4, <2>5
<1>6. x \in live
  BY Zenon, <1>1, <1>x, PcNames DEF Inv, OneHolder, Holds
<1>7. OneHolder'
  <2>1. ASSUME NEW q \in Handlers, Holds(q)'
        PROVE  h'[q] \in live' /\ owned'[h'[q]] = "no"
    <3>1. h'[q] = h[q] /\ h[q] # x /\ h[q] \in Handles /\ Holds(q)
      BY Zenon, <2>1, <1>5
    <3>2. h[q] \in live /\ owned[h[q]] = "no"
      BY Zenon, <3>1 DEF Inv, OneHolder
    <3>3. live' = live /\ owned'[h[q]] = owned[h[q]]
      BY Zenon, <3>1, <1>1, <1>3
    <3> QED
      BY Zenon, <3>1, <3>2, <3>3
  <2>2. \A y \in Handles : owned'[y] # "no" => y \in live'
    BY <1>1, <1>3, <1>6 DEF Inv, OneHolder
  <2>3. \A p, q \in Handlers : Holds(p)' /\ Holds(q)' /\ h'[p] = h'[q] => p = q
    BY Zenon, <1>5 DEF Inv, OneHolder
  <2> QED
    BY Zenon, <2>1, <2>2, <2>3 DEF OneHolder
<1>8. ASSUME kind = "qp" PROVE QpInv'
  <2>1. x \in cq_map /\ owned[x] = "no"
    BY Zenon, <1>1, <1>8, <1>x, PcNames DEF Inv, QpInv, OneHolder, InMap, Holds
  <2>2. \A q \in Handlers : pc'[q] \in Making \ {"store"} => h'[q] \in cq_map'
    BY <1>1, <1>3, <1>8, PcNames DEF Inv, QpInv, InMap
  <2>3. \A y \in Handles : owned'[y] \in Has => y \in cq_map'
    BY <1>1, <1>3, <1>8, <2>1 DEF Inv, QpInv, InMap
  <2>4. RequestHasClient'
    <3> SUFFICES ASSUME NEW u \in DOMAIN state, state'[u] = "REQ_DONE"
                 PROVE  \E y \in Handles : owned'[y] = "waiting" /\ csp'[y] = u
      BY Zenon, <1>3 DEF RequestHasClient
    <3>1. PICK y \in Handles : owned[y] = "waiting" /\ csp[y] = u
      BY Zenon, <1>3, <1>8 DEF Inv, QpInv, RequestHasClient
    <3> QED
      BY Zenon, <3>1, <2>1, <1>3
  <2> QED
    BY Zenon, <1>1, <1>8, <2>2, <2>3, <2>4 DEF Inv, QpInv, InMap, Succeeds
<1> QED
  BY Zenon, <1>1, <1>4, <1>7, <1>8 DEF Inv

LEMMA FindStep ==
  ASSUME Inv, NEW r \in Handlers, NEW x \in Handles, DestroyFind(r, x)
  PROVE  Inv'
<1>1. /\ Typed /\ pc[r] = "read" /\ owned[x] = "yes"
      /\ UNCHANGED <<kind, live, state, ret, csp>>
  BY Zenon DEF DestroyFind, Inv, kernelVars, pieceVars
<1>a. \A q \in Handlers : Holds(q) => h[q] # x /\ h[q] \in Handles
  BY Zenon, <1>1, PcNames DEF Inv, OneHolder, Typed, Holds
<1>b. x \in live
  BY Zenon, <1>1 DEF Inv, OneHolder
<1>2. CASE x \in cq_map
  <2>1. /\ pc' = [pc EXCEPT ![r] = "verb"] /\ h' = [h EXCEPT ![r] = x]
        /\ cq_map' = cq_map \ {x} /\ owned' = [owned EXCEPT ![x] = "no"]
    BY Zenon, <1>2 DEF DestroyFind
  <2>2. /\ pc'[r] = "verb" /\ h'[r] = x
        /\ \A q \in Handlers \ {r} : pc'[q] = pc[q] /\ h'[q] = h[q]
        /\ pc' \in [Handlers -> Pcs]
        /\ h' \in [Handlers -> Handles \cup {None}]
        /\ owned'[x] = "no" /\ \A y \in Handles \ {x} : owned'[y] = owned[y]
        /\ owned' \in [Handles -> Has \cup {"no", "no response"}]
    BY <1>1, <2>1, PcNames DEF Typed, Pcs
  <2>3. Typed'
    <3>1. \A q \in Handlers : pc'[q] # "read" <=> h'[q] \in Handles
      BY <1>1, <2>2 DEF Typed
    <3>2. \A q \in Handlers : ret[q] = 0 \/ pc'[q] \in Ending
      <4>1. ret[r] = 0
        BY <1>1, PcNames DEF Typed
      <4> QED
        BY Zenon, <1>1, <2>2, <4>1 DEF Typed
    <3> QED
      BY Zenon, <1>1, <2>1, <2>2, <3>1, <3>2 DEF Typed
  <2>h. \A q \in Handlers \ {r} : Holds(q)' <=> Holds(q)
    BY Zenon, <1>1, <2>2 DEF Holds
  <2>4. OneHolder'
    <3>1. ASSUME NEW q \in Handlers, Holds(q)'
          PROVE  h'[q] \in live /\ owned'[h'[q]] = "no"
      <4>1. CASE q = r
        BY Zenon, <4>1, <2>2, <1>b
      <4>2. CASE q # r
        <5>1. Holds(q) /\ h'[q] = h[q]
          BY Zenon, <4>2, <3>1, <2>2, <2>h
        <5>2. h[q] # x /\ h[q] \in Handles /\ h[q] \in live /\ owned[h[q]] = "no"
          BY Zenon, <5>1, <1>a DEF Inv, OneHolder
        <5> QED
          BY <5>1, <5>2, <2>2
      <4> QED
        BY Zenon, <4>1, <4>2
    <3>2. \A y \in Handles : owned'[y] # "no" => y \in live
      BY Zenon, <2>2 DEF Inv, OneHolder
    <3>3. ASSUME NEW p \in Handlers, NEW q \in Handlers, Holds(p)', Holds(q)', h'[p] = h'[q]
          PROVE  p = q
      BY <3>3, <2>2, <2>h, <1>a DEF Inv, OneHolder
    <3> QED
      BY Zenon, <1>1, <3>1, <3>2, <3>3 DEF OneHolder
  <2>5. ASSUME kind = "qp" PROVE QpInv'
    <3>1. InMap'
      <4>1. \A q \in Handlers : pc'[q] \in Making \ {"store"} => q # r /\ pc[q] \in Making \ {"store"} /\ h'[q] = h[q]
        BY Zenon, <2>2 DEF Making
      <4>2. \A q \in Handlers : pc[q] \in Making => h[q] # x
        BY Zenon, <1>a, PcNames DEF Holds
      <4>3. \A q \in Handlers : pc'[q] \in Making \ {"store"} => h'[q] \in cq_map'
        BY <2>1, <2>5, <4>1, <4>2 DEF Inv, QpInv, InMap
      <4> QED
        BY Zenon, <2>1, <2>2, <2>5, <4>3 DEF Inv, QpInv, InMap, Has
    <3>2. RequestHasClient' /\ Succeeds'
      <4>1. \A y \in Handles : owned[y] = "waiting" => owned'[y] = "waiting"
        BY Zenon, <1>1, <2>2
      <4> QED
        BY Zenon, <1>1, <2>5, <4>1 DEF Inv, QpInv, RequestHasClient, Succeeds
    <3> QED
      BY Zenon, <3>1, <3>2 DEF QpInv
  <2> QED
    BY Zenon, <1>1, <2>3, <2>4, <2>5 DEF Inv
<1>3. CASE x \notin cq_map
  <2>1. kind # "qp"
    BY Zenon, <1>1, <1>3 DEF Inv, QpInv, InMap, Has
  <2>2. /\ UNCHANGED <<pc, h, cq_map>> /\ owned' = [owned EXCEPT ![x] = "no response"]
    BY Zenon, <1>3 DEF DestroyFind
  <2>3. /\ owned' \in [Handles -> Has \cup {"no", "no response"}]
        /\ \A y \in Handles \ {x} : owned'[y] = owned[y]
    BY Zenon, <2>2, <1>1 DEF Typed
  <2>4. Typed'
    BY Zenon, <1>1, <2>2, <2>3 DEF Typed
  <2>5. \A q \in Handlers : Holds(q)' <=> Holds(q)
    BY Zenon, <1>1, <2>2 DEF Holds
  <2>6. OneHolder'
    BY Zenon, <1>1, <1>a, <1>b, <2>2, <2>3, <2>5 DEF Inv, OneHolder
  <2> QED
    BY Zenon, <1>1, <2>1, <2>4, <2>6 DEF Inv
<1> QED
  BY Zenon, <1>2, <1>3

(* ibv_destroy_qp, by which the handle becomes free.                       *)
LEMMA VerbStep ==
  ASSUME Inv, NEW r \in Handlers, NEW result \in {0, EBUSY}, DestroyVerb(r, result)
  PROVE  Inv'
<1>1. /\ Typed /\ pc[r] = "verb" /\ pc' = [pc EXCEPT ![r] = "erase"] /\ (kind = "qp" => result = 0)
      /\ ret' = [ret EXCEPT ![r] = result]
      /\ live' = IF result = 0 THEN live \ {h[r]} ELSE live
      /\ csp' = IF result = 0 THEN [csp EXCEPT ![h[r]] = None] ELSE csp
      /\ UNCHANGED <<kind, state, cq_map, h, owned>>
  BY Zenon DEF Inv, DestroyVerb, At, pieceVars, mapVars
<1>2. /\ pc'[r] = "erase" /\ \A q \in Handlers \ {r} : pc'[q] = pc[q] /\ ret'[q] = ret[q]
      /\ pc' \in [Handlers -> Pcs] /\ ret'[r] = result
      /\ ret' \in [Handlers -> {0, EBUSY}] /\ h[r] \in Handles /\ DOMAIN csp' = Handles
      /\ \A y \in Handles \ {h[r]} : csp'[y] = csp[y]
  BY Zenon, <1>1, PcNames DEF Typed, Pcs
<1>3. Typed'
  <2>1. \A q \in Handlers : pc'[q] # "read" <=> h'[q] \in Handles
    BY <1>1, <1>2 DEF Typed
  <2>2. \A q \in Handlers : ret'[q] = 0 \/ pc'[q] \in Ending
    BY Zenon, <1>1, <1>2, PcNames DEF Typed
  <2> QED
    BY Zenon, <1>1, <1>2, <2>1, <2>2 DEF Typed
<1>a. Holds(r) /\ owned[h[r]] = "no" /\ h[r] \in live
  BY Zenon, <1>1, PcNames DEF Inv, OneHolder, Holds
<1>b. \A q \in Handlers : Holds(q)' => Holds(q) /\ (q = r => result # 0)
  BY Zenon, <1>1, <1>2, <1>a, PcNames DEF Holds
<1>c. \A q \in Handlers \ {r} : Holds(q) => h[q] # h[r]
  BY Zenon, <1>a DEF Inv, OneHolder
<1>4. OneHolder'
  <2>1. \A q \in Handlers : Holds(q)' => h[q] \in live'
    BY Zenon, <1>1, <1>a, <1>b, <1>c DEF Inv, OneHolder
  <2>2. \A q \in Handlers : Holds(q)' => owned[h[q]] = "no"
    BY Zenon, <1>b DEF Inv, OneHolder
  <2>3. \A x \in Handles : owned[x] # "no" => x \in live'
    BY Zenon, <1>1, <1>a DEF Inv, OneHolder
  <2>4. \A p, q \in Handlers : Holds(p)' /\ Holds(q)' /\ h[p] = h[q] => p = q
    BY Zenon, <1>b DEF Inv, OneHolder
  <2> QED
    BY Zenon, <1>1, <2>1, <2>2, <2>3, <2>4 DEF OneHolder
<1>5. ASSUME kind = "qp" PROVE QpInv'
  <2>1. InMap'
    BY <1>1, <1>2, <1>5, PcNames DEF Inv, QpInv, InMap
  <2>2. Succeeds'
    BY Zenon, <1>1, <1>2, <1>5 DEF Inv, QpInv, Succeeds
  <2>3. RequestHasClient'
    BY Zenon, <1>1, <1>2, <1>5, <1>a DEF Inv, QpInv, RequestHasClient
  <2> QED
    BY Zenon, <2>1, <2>2, <2>3 DEF QpInv
<1> QED
  BY Zenon, <1>1, <1>3, <1>4, <1>5 DEF Inv

LEMMA ClearStep ==
  ASSUME Inv, NEW r \in Handlers, ClearPiece(r)
  PROVE  Inv'
<1>1. /\ Typed /\ pc[r] = "clear" /\ pc' = [pc EXCEPT ![r] = "read"]
      /\ owned' = IF ret[r] = 0 THEN owned ELSE [owned EXCEPT ![h[r]] = "yes"]
      /\ h' = [h EXCEPT ![r] = None] /\ ret' = [ret EXCEPT ![r] = 0]
      /\ UNCHANGED <<kind, live, state, cq_map, csp>>
  BY Zenon DEF Inv, ClearPiece, At, kernelVars, pieceVars
<1>2. /\ pc'[r] = "read" /\ h'[r] = None /\ ret'[r] = 0
      /\ \A q \in Handlers \ {r} : pc'[q] = pc[q] /\ h'[q] = h[q] /\ ret'[q] = ret[q]
      /\ pc' \in [Handlers -> Pcs]
      /\ h' \in [Handlers -> Handles \cup {None}] /\ ret' \in [Handlers -> {0, EBUSY}]
      /\ owned' \in [Handles -> Has \cup {"no", "no response"}] /\ h[r] \in Handles
  BY Zenon, <1>1 DEF Typed, Pcs, Has
<1>3. Typed'
  BY <1>1, <1>2, NoneAssumption DEF Typed
<1>4. ASSUME NEW q \in Handlers, Holds(q)'
      PROVE  q # r /\ h'[q] = h[q] /\ Holds(q) /\ h[q] \in Handles /\ (ret[r] # 0 => h[q] # h[r])
  <2>1. q # r
    BY Zenon, <1>2, <1>4, PcNames DEF Holds
  <2>2. h'[q] = h[q] /\ Holds(q)
    BY Zenon, <1>2, <1>4, <2>1 DEF Holds
  <2>3. ret[r] # 0 => Holds(r)
    BY Zenon DEF Holds
  <2>4. h[q] \in Handles
    BY Zenon, <1>1, <2>2, PcNames DEF Typed, Holds
  <2> QED
    BY Zenon, <2>1, <2>2, <2>3, <2>4 DEF Inv, OneHolder
<1>5. OneHolder'
  <2>1. \A q \in Handlers : Holds(q)' => h'[q] \in live
    BY Zenon, <1>4 DEF Inv, OneHolder
  <2>2. \A q \in Handlers : Holds(q)' => owned'[h'[q]] = "no"
    <3> TAKE q \in Handlers
    <3> HAVE Holds(q)'
    <3>1. h'[q] = h[q] /\ h[q] \in Handles /\ owned[h[q]] = "no" /\ (ret[r] # 0 => h[q] # h[r])
      BY Zenon, <1>4 DEF Inv, OneHolder
    <3> QED
      BY Zenon, <1>1, <1>2, <3>1 DEF Typed
  <2>3. \A x \in Handles : owned'[x] # "no" => x \in live
    <3>1. ret[r] # 0 => h[r] \in live
      BY Zenon DEF Inv, OneHolder, Holds
    <3> QED
      BY <1>1, <1>2, <3>1 DEF Inv, OneHolder, Typed
  <2>4. \A p, q \in Handlers : Holds(p)' /\ Holds(q)' /\ h'[p] = h'[q] => p = q
    BY Zenon, <1>4 DEF Inv, OneHolder
  <2> QED
    BY Zenon, <1>1, <2>1, <2>2, <2>3, <2>4 DEF OneHolder
<1>6. ASSUME kind = "qp" PROVE QpInv'
  <2>1. owned' = owned
    BY Zenon, <1>1, <1>6 DEF Inv, QpInv, Succeeds
  <2>2. \A q \in Handlers : pc'[q] \in Making => q # r /\ pc'[q] = pc[q] /\ h'[q] = h[q]
    BY Zenon, <1>2, PcNames
  <2>3. InMap'
    BY <1>1, <1>6, <2>1, <2>2 DEF Inv, QpInv, InMap
  <2>4. Succeeds'
    BY Zenon, <1>2, <1>6 DEF Inv, QpInv, Succeeds
  <2>5. RequestHasClient'
    BY <1>1, <1>6, <2>1 DEF Inv, QpInv, RequestHasClient
  <2> QED
    BY Zenon, <2>3, <2>4, <2>5 DEF QpInv
<1> QED
  BY Zenon, <1>1, <1>3, <1>5, <1>6 DEF Inv

(* The steps of a creation and a destruction that hold on to the handle.   *)
LEMMA MiddleStep ==
  ASSUME Inv, NEW r \in Handlers,
         StoreObject(r) \/ InitCtrlShm(r) \/ StorePiece(r) \/ PushVec(r) \/ EraseVec(r) \/ DeletePiece(r)
  PROVE  Inv'
<1>0. cq_map \subseteq Handles /\ (pc[r] # "read" => h[r] \in Handles)
  BY Zenon DEF Inv, Typed
<1>1. CASE StoreObject(r)
  <2>1. /\ At(r, "store", "init") /\ cq_map' = cq_map \cup {h[r]}
        /\ UNCHANGED <<kind, live, h, owned, csp, ret, state>>
    BY Zenon, <1>1 DEF StoreObject, kernelVars, pieceVars, clientVars
  <2>2. h[r] \in Handles
    BY Zenon, <2>1, <1>0 DEF At
  <2> QED
    BY Zenon, <2>1, <2>2, <1>0, PcNames, HandlerGoesOn
<1>2. CASE InitCtrlShm(r)
  <2>1. /\ At(r, "init", "piece") /\ UNCHANGED <<kind, live, cq_map, h, owned, csp, ret>>
        /\ state' = [state EXCEPT ![ShmOpen(h[r])] = "IDLE"]
    BY Zenon, <1>2 DEF InitCtrlShm, mapVars, clientVars
  <2>2. DOMAIN state' = DOMAIN state /\ \A s \in DOMAIN state : state'[s] = "REQ_DONE" => state[s] = "REQ_DONE"
    BY Zenon, <2>1
  <2> QED
    BY Zenon, <2>1, <2>2, <1>0, PcNames, HandlerGoesOn
<1>3. CASE StorePiece(r)
  <2>1. At(r, "piece", "push") /\ UNCHANGED <<kind, live, cq_map, h, owned, csp, ret, state>>
    BY Zenon, <1>3 DEF StorePiece, kernelVars, pieceVars, clientVars
  <2> QED
    BY Zenon, <2>1, <1>0, PcNames, HandlerGoesOn
<1>4. CASE PushVec(r)
  <2>1. At(r, "push", "map") /\ UNCHANGED <<kind, live, cq_map, h, owned, csp, ret, state>>
    BY Zenon, <1>4 DEF PushVec, kernelVars, pieceVars, clientVars
  <2> QED
    BY Zenon, <2>1, <1>0, PcNames, HandlerGoesOn
<1>5. CASE EraseVec(r)
  <2>1. At(r, "erase", "delete") /\ UNCHANGED <<kind, live, cq_map, h, owned, csp, ret, state>>
    BY Zenon, <1>5 DEF EraseVec, kernelVars, pieceVars, clientVars
  <2> QED
    BY Zenon, <2>1, <1>0, PcNames, HandlerGoesOn
<1>6. CASE DeletePiece(r)
  <2>1. At(r, "delete", "clear") /\ UNCHANGED <<kind, live, cq_map, h, owned, csp, ret, state>>
    BY Zenon, <1>6 DEF DeletePiece, mapVars, clientVars
  <2> QED
    BY Zenon, <2>1, <1>0, PcNames, HandlerGoesOn
<1> QED
  BY Zenon, <1>1, <1>2, <1>3, <1>4, <1>5, <1>6

(* A client asks and returns, and CtrlChannelLoop answers.                 *)
LEMMA ClientAndLoopStep ==
  ASSUME Inv,
         (\E x \in Handles : Request(x) \/ Return(x)) \/ LoopStep \/ UNCHANGED vars
  PROVE  Inv'
<1>0. Typed
  BY Zenon DEF Inv
<1>1. ASSUME NEW x \in Handles, Request(x) PROVE Inv'
  <2>1. /\ owned[x] = "yes" /\ owned' = [owned EXCEPT ![x] = "waiting"]
        /\ state' = [state EXCEPT ![csp[x]] = "REQ_DONE"]
        /\ UNCHANGED <<kind, live, pc, h, ret, cq_map, csp>>
    BY Zenon, <1>1 DEF Request, kernelVars, mapVars, handlerVars
  <2>2. /\ owned' \in [Handles -> Has \cup {"no", "no response"}]
        /\ owned'[x] = "waiting" /\ \A y \in Handles \ {x} : owned'[y] = owned[y]
    BY Zenon, <1>0, <2>1 DEF Typed, Has
  <2>3. ASSUME kind = "qp" PROVE RequestHasClient'
    <3>1. \A s \in DOMAIN state : s # csp[x] => state'[s] = state[s]
      BY Zenon, <2>1
    <3>2. \A y \in Handles : owned[y] = "waiting" => owned'[y] = "waiting"
      BY Zenon, <2>1, <2>2
    <3> QED
      BY <2>1, <2>2, <2>3, <3>1, <3>2 DEF Inv, QpInv, RequestHasClient
  <2> QED
    BY Zenon, <2>1, <2>2, <2>3, OthersStep DEF Has
<1>2. ASSUME NEW x \in Handles, Return(x) PROVE Inv'
  <2>1. /\ owned[x] = "waiting" /\ owned' = [owned EXCEPT ![x] = "yes"]
        /\ state[csp[x]] = "RSP_DONE" /\ state' = [state EXCEPT ![csp[x]] = "IDLE"]
        /\ UNCHANGED <<kind, live, pc, h, ret, cq_map, csp>>
    BY Zenon, <1>2 DEF Return, kernelVars, mapVars, handlerVars
  <2>2. /\ owned' \in [Handles -> Has \cup {"no", "no response"}]
        /\ owned'[x] = "yes" /\ \A y \in Handles \ {x} : owned'[y] = owned[y]
    BY Zenon, <1>0, <2>1 DEF Typed, Has
  <2>3. ASSUME kind = "qp" PROVE RequestHasClient'
    <3> SUFFICES ASSUME NEW s \in DOMAIN state, state'[s] = "REQ_DONE"
                 PROVE  \E y \in Handles : owned'[y] = "waiting" /\ csp[y] = s
      BY <2>1 DEF RequestHasClient
    <3>1. state[s] = "REQ_DONE" /\ s # csp[x]
      BY Zenon, <2>1
    <3>2. PICK y \in Handles : owned[y] = "waiting" /\ csp[y] = s
      BY Zenon, <3>1, <2>3 DEF Inv, QpInv, RequestHasClient
    <3> QED
      BY Zenon, <3>1, <3>2, <2>2
  <2> QED
    BY Zenon, <2>1, <2>2, <2>3, OthersStep DEF Has
<1>3. ASSUME UNCHANGED <<kind, live, pc, h, ret, cq_map, csp, owned>>, DOMAIN state' = DOMAIN state,
             \A s \in DOMAIN state : state'[s] = "REQ_DONE" => state[s] = "REQ_DONE"
      PROVE  Inv'
  <2>1. kind = "qp" => RequestHasClient'
    BY Zenon, <1>3 DEF Inv, QpInv, RequestHasClient
  <2>2. owned' \in [Handles -> Has \cup {"no", "no response"}]
    BY Zenon, <1>3, <1>0 DEF Typed
  <2> QED
    BY Zenon, <1>3, <2>1, <2>2, OthersStep
<1>4. CASE LoopStep
  <2>1. UNCHANGED <<kind, live, pc, h, ret, cq_map, csp, owned>>
    BY Zenon, <1>4 DEF LoopStep, LoopLock, LoopLook, LoopUnlock, LoopServe, kernelVars, mapVars, handlerVars, clientVars
  <2>2. state' = state \/ \E s : state' = [state EXCEPT ![s] = "RSP_DONE"]
    BY Zenon, <1>4 DEF LoopStep, LoopLock, LoopLook, LoopUnlock, LoopServe, pieceVars
  <2> QED
    BY Zenon, <2>1, <2>2, <1>3
<1>5. CASE UNCHANGED vars
  BY Zenon, <1>3, <1>5 DEF vars, kernelVars, pieceVars, mapVars, handlerVars, clientVars
<1> QED
  BY Zenon, <1>1, <1>2, <1>4, <1>5

LEMMA NextInv == Inv /\ [Next]_vars => Inv'
BY Zenon, CreateStep, FindStep, MiddleStep, MapStep, VerbStep, ClearStep, ClientAndLoopStep DEF Next, HandlerStep

(* What the loop looks into is a ShmPiece with a segment.                  *)
Opened(o) == o \in Objs /\ ptr[o] \in Segs
PieceInv ==
  /\ DOMAIN state = Segs /\ DOMAIN ptr = Objs /\ name \in [Handles -> Segs \cup {None}]
  /\ cq_shm_vec \in Seq(Handles) /\ i \in Nat
  /\ DOMAIN cq_shm_map = Handles /\ \A x \in Handles : cq_shm_map[x] = None \/ Opened(cq_shm_map[x])
  /\ DOMAIN sp = Handlers /\ \A r \in Handlers : sp[r] = None \/ Opened(sp[r])
  /\ lpc = "at" => Opened(cur)

LEMMA InitPieces == Init => PieceInv
<1> SUFFICES ASSUME Init PROVE PieceInv
  BY Zenon
<1>1. cq_shm_vec \in Seq(Handles)
  BY DEF Init
<1> QED
  BY Zenon, <1>1 DEF Init, PieceInv

(* A piece is given a segment when it is made, and never loses it.         *)
LEMMA NextPieces ==
  ASSUME Typed, PieceInv, [Next]_vars
  PROVE  PieceInv'
<1> USE NoneAssumption
<1>s. ASSUME NEW x \in Handles, SegLeft(x) PROVE ShmOpen(x) \in Segs
  BY Zenon, <1>s DEF SegLeft, ShmOpen, PieceInv
<1>1. ASSUME NEW r \in Handlers, InitCtrlShm(r) PROVE PieceInv'
  <2>1. h[r] \in Handles /\ ShmOpen(h[r]) \in Segs /\ NewPiece \in Objs
    BY Zenon, <1>1, <1>s DEF InitCtrlShm, At, Typed, ObjLeft, NewPiece
  <2> DEFINE s == ShmOpen(h[r])
             o == NewPiece
  <2>2. /\ name' = [name EXCEPT ![h[r]] = s] /\ ptr' = [ptr EXCEPT ![o] = s]
        /\ state' = [state EXCEPT ![s] = "IDLE"] /\ sp' = [sp EXCEPT ![r] = o]
        /\ UNCHANGED <<cq_shm_map, cq_shm_vec, lpc, i, cur>>
    BY Zenon, <1>1 DEF InitCtrlShm, mapVars, loopVars
  <2>3. s \in Segs /\ o \in Objs
    BY Zenon, <2>1
  <2> HIDE DEF s, o
  <2>4. \A p : Opened(p) => Opened(p)'
    BY Zenon, <2>2, <2>3 DEF Opened, PieceInv
  <2>5. ptr'[o] \in Segs
    BY Zenon, <2>2, <2>3 DEF PieceInv
  <2>6. DOMAIN state' = Segs /\ DOMAIN ptr' = Objs /\ name' \in [Handles -> Segs \cup {None}]
    BY Zenon, <2>1, <2>2, <2>3 DEF PieceInv
  <2>7. DOMAIN sp' = Handlers /\ sp'[r] = o /\ \A q \in Handlers \ {r} : sp'[q] = sp[q]
    BY Zenon, <2>2 DEF PieceInv
  <2>8. \A q \in Handlers : sp'[q] = None \/ (sp'[q] \in Objs /\ ptr'[sp'[q]] \in Segs)
    <3> TAKE q \in Handlers
    <3>1. CASE q = r
      BY Zenon, <3>1, <2>3, <2>5, <2>7
    <3>2. CASE q # r
      BY Zenon, <3>2, <2>4, <2>7 DEF PieceInv, Opened
    <3> QED
      BY Zenon, <3>1, <3>2
  <2>9. \A x \in Handles : cq_shm_map[x] = None \/ Opened(cq_shm_map[x])'
    BY Zenon, <2>2, <2>4 DEF PieceInv, Opened
  <2> QED
    BY Zenon, <2>2, <2>4, <2>6, <2>7, <2>8, <2>9 DEF PieceInv, Opened
<1>2. ASSUME NEW r \in Handlers, ClientMap(r) PROVE PieceInv'
  <2>1. h[r] \in Handles /\ ShmOpen(h[r]) \in Segs
    BY Zenon, <1>2, <1>s DEF ClientMap, At, Typed
  <2>2. /\ name' = [name EXCEPT ![h[r]] = ShmOpen(h[r])] /\ DOMAIN state' = DOMAIN state
        /\ UNCHANGED <<ptr, cq_shm_map, cq_shm_vec, sp, lpc, i, cur>>
    BY Zenon, <1>2 DEF ClientMap, mapVars, loopVars
  <2>3. name' \in [Handles -> Segs \cup {None}]
    BY Zenon, <2>1, <2>2 DEF PieceInv
  <2> QED
    BY Zenon, <2>2, <2>3 DEF PieceInv, Opened
<1>3. ASSUME NEW r \in Handlers, StorePiece(r) PROVE PieceInv'
  <2>1. cq_shm_map' = [cq_shm_map EXCEPT ![h[r]] = sp[r]]
        /\ UNCHANGED <<name, ptr, state, cq_shm_vec, sp, lpc, i, cur>>
    BY Zenon, <1>3 DEF StorePiece, kernelVars, pieceVars, loopVars
  <2> QED
    BY Zenon, <2>1 DEF PieceInv, Opened
<1>4. ASSUME NEW r \in Handlers, PushVec(r) PROVE PieceInv'
  <2>1. h[r] \in Handles /\ cq_shm_vec' = Append(cq_shm_vec, h[r]) /\ sp' = [sp EXCEPT ![r] = None]
        /\ UNCHANGED <<name, ptr, state, cq_shm_map, lpc, i, cur>>
    BY Zenon, <1>4 DEF PushVec, At, Typed, kernelVars, pieceVars, loopVars
  <2>2. cq_shm_vec' \in Seq(Handles)
    BY <2>1 DEF PieceInv
  <2> QED
    BY Zenon, <2>1, <2>2 DEF PieceInv, Opened
<1>5. ASSUME NEW r \in Handlers, EraseVec(r) PROVE PieceInv'
  <2>1. UNCHANGED <<name, ptr, state, cq_shm_map, sp, lpc, i, cur>>
    BY Zenon, <1>5 DEF EraseVec, kernelVars, pieceVars, loopVars
  <2>2. \/ cq_shm_vec' = cq_shm_vec
        \/ \E k \in DOMAIN cq_shm_vec :
             cq_shm_vec' = SubSeq(cq_shm_vec, 1, k - 1) \o SubSeq(cq_shm_vec, k + 1, Len(cq_shm_vec))
    BY Zenon, <1>5 DEF EraseVec, Erased, Found
  <2>3. ASSUME NEW k \in DOMAIN cq_shm_vec
        PROVE  SubSeq(cq_shm_vec, 1, k - 1) \o SubSeq(cq_shm_vec, k + 1, Len(cq_shm_vec)) \in Seq(Handles)
    <3>1. cq_shm_vec \in Seq(Handles) /\ k \in 1..Len(cq_shm_vec)
      BY DEF PieceInv
    <3>2. SubSeq(cq_shm_vec, 1, k - 1) \in Seq(Handles) /\ SubSeq(cq_shm_vec, k + 1, Len(cq_shm_vec)) \in Seq(Handles)
      BY <3>1
    <3> QED
      BY <3>2
  <2>4. cq_shm_vec' \in Seq(Handles)
    BY <2>2, <2>3 DEF PieceInv
  <2> QED
    BY Zenon, <2>1, <2>4 DEF PieceInv, Opened
<1>6. ASSUME NEW r \in Handlers, DeletePiece(r) PROVE PieceInv'
  <2>1. name' = name \/ name' = [name EXCEPT ![h[r]] = None]
    BY Zenon, <1>6 DEF DeletePiece
  <2>2. UNCHANGED <<ptr, state, cq_shm_map, cq_shm_vec, sp, lpc, i, cur>>
    BY Zenon, <1>6 DEF DeletePiece, mapVars, loopVars
  <2> QED
    BY Zenon, <2>1, <2>2 DEF PieceInv, Opened
<1>7. ASSUME NEW r \in Handlers, ClearPiece(r) PROVE PieceInv'
  <2>1. cq_shm_map' = [cq_shm_map EXCEPT ![h[r]] = None]
        /\ UNCHANGED <<name, ptr, state, cq_shm_vec, sp, lpc, i, cur>>
    BY Zenon, <1>7 DEF ClearPiece, kernelVars, pieceVars, loopVars
  <2> QED
    BY Zenon, <2>1 DEF PieceInv, Opened
<1>8. CASE LoopLook
  <2>1. UNCHANGED <<name, ptr, state, cq_shm_map, cq_shm_vec, sp>>
    BY Zenon, <1>8 DEF LoopLook, kernelVars, pieceVars, mapVars, handlerVars
  <2> DEFINE o == cq_shm_map[cq_shm_vec[i + 1]]
  <2>2. cq_shm_vec[i + 1] \in Handles
    BY <1>8 DEF LoopLook, PieceInv
  <2>3. o = None \/ Opened(o)
    BY Zenon, <2>2 DEF PieceInv
  <2>4. lpc = "look" /\ IF o = None THEN i' = i + 1 /\ lpc' = lpc ELSE cur' = o /\ i' = i
    BY Zenon, <1>8 DEF LoopLook
  <2> HIDE DEF o
  <2>5. i' \in Nat /\ (lpc' = "at" => Opened(cur)')
    BY <2>1, <2>3, <2>4 DEF PieceInv, Opened
  <2> QED
    BY Zenon, <2>1, <2>5 DEF PieceInv, Opened
<1>9. CASE LoopLock \/ LoopUnlock
  BY <1>9 DEF LoopLock, LoopUnlock, PieceInv, Opened, kernelVars, pieceVars, mapVars, handlerVars
<1>10. ASSUME NEW count \in 0..MaxCount, LoopServe(count) PROVE PieceInv'
  <2>1. /\ lpc' = "look" /\ i' \in {count + 1, i + 1}
        /\ UNCHANGED <<name, ptr, cq_shm_map, cq_shm_vec, sp>>
    BY Zenon, <1>10 DEF LoopServe, kernelVars, mapVars, handlerVars
  <2>2. DOMAIN state' = DOMAIN state
    BY Zenon, <1>10 DEF LoopServe
  <2> QED
    BY <2>1, <2>2 DEF PieceInv, Opened
<1>11. ASSUME UNCHANGED <<name, ptr, cq_shm_map, cq_shm_vec, sp, lpc, i, cur>>, DOMAIN state' = DOMAIN state
       PROVE  PieceInv'
  BY Zenon, <1>11 DEF PieceInv, Opened
<1>12. ASSUME NEW x \in Handles, Request(x) \/ Return(x) PROVE PieceInv'
  BY Zenon, <1>11, <1>12 DEF Request, Return, kernelVars, mapVars, handlerVars, loopVars
<1>13. ASSUME NEW r \in Handlers, StoreObject(r) \/ \E result \in {0, EBUSY} : DestroyVerb(r, result)
       PROVE  PieceInv'
  BY Zenon, <1>11, <1>13 DEF StoreObject, DestroyVerb, kernelVars, pieceVars, mapVars, loopVars
<1>14. ASSUME NEW r \in Handlers, NEW x \in Handles, CreateVerb(r, x) \/ DestroyFind(r, x)
       PROVE  PieceInv'
  BY Zenon, <1>11, <1>14 DEF CreateVerb, DestroyFind, kernelVars, pieceVars, mapVars, loopVars
<1>15. CASE UNCHANGED vars
  BY Zenon, <1>11, <1>15 DEF vars, kernelVars, pieceVars, mapVars, handlerVars, loopVars
<1> QED
  BY Zenon, <1>1, <1>2, <1>3, <1>4, <1>5, <1>6, <1>7, <1>8, <1>9, <1>10, <1>12, <1>13, <1>14, <1>15
     DEF Next, HandlerStep, LoopStep

(* For any number of handlers, handles and queue pairs: a request that     *)
(* CtrlChannelLoop finds in the piece it looks at is that of a client      *)
(* whose queue pair is in qp_map, so the lookup is not NULL, even when the *)
(* handle was used again before its last destruction had ended.            *)
THEOREM ServedQueueAlwaysKnown == Spec => []ServedQueueKnown
<1>1. Inv /\ PieceInv => ServedQueueKnown
  <2> SUFFICES ASSUME Inv, PieceInv, kind = "qp", lpc = "at", state[ptr[cur]] = "REQ_DONE"
               PROVE  Known(ptr[cur])
    BY Zenon DEF ServedQueueKnown
  <2>1. ptr[cur] \in DOMAIN state
    BY Zenon DEF PieceInv, Opened
  <2>2. PICK x \in Handles : owned[x] = "waiting" /\ csp[x] = ptr[cur]
    BY Zenon, <2>1 DEF Inv, QpInv, RequestHasClient
  <2> QED
    BY Zenon, <2>2 DEF Inv, QpInv, InMap, Known, Has
<1>2. Inv /\ PieceInv /\ [Next]_vars => Inv' /\ PieceInv'
  BY Zenon, NextInv, NextPieces DEF Inv
<1> QED
  BY <1>1, <1>2, InitInv, InitPieces, PTL DEF Spec
=============================================================================
