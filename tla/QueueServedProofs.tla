------------------------- MODULE QueueServedProofs -------------------------
(***************************************************************************)
(* A queue that a client has is served, and CtrlChannelLoop looks into no  *)
(* ShmPiece that was deleted, for any number of handlers and queues.       *)
(***************************************************************************)
EXTENDS QueueLifecycleProofs

----------------------------------------------------------------------------
(* Sequences from which an entry is erased.                                *)

Places(s, x) == {k \in 1..Len(s) : s[k] = x}
Without(s, k) == SubSeq(s, 1, k - 1) \o SubSeq(s, k + 1, Len(s))

LEMMA WithoutEntry ==
  ASSUME NEW S, NEW s \in Seq(S), NEW k \in 1..Len(s)
  PROVE  /\ Without(s, k) \in Seq(S) /\ Len(Without(s, k)) = Len(s) - 1
         /\ \A l \in 1..Len(s) - 1 : Without(s, k)[l] = IF l < k THEN s[l] ELSE s[l + 1]
<1> DEFINE a == SubSeq(s, 1, k - 1)
           b == SubSeq(s, k + 1, Len(s))
<1>0. k \in Nat /\ Len(s) \in Nat /\ 1 <= k /\ k <= Len(s) /\ \A l \in 1..Len(s) : s[l] \in S
  OBVIOUS
<1>a. a \in Seq(S) /\ Len(a) = k - 1 /\ \A l \in 1..k - 1 : a[l] = s[l]
  BY <1>0
<1>b. b \in Seq(S) /\ Len(b) = Len(s) - k
  BY <1>0
<1>c. ASSUME NEW l \in 1..Len(s) - k PROVE b[l] = s[l + k]
  <2>1. b[l] = s[k + 1 + l - 1]
    BY <1>0
  <2>2. k + 1 + l - 1 = l + k
    BY <1>0
  <2> QED
    BY Zenon, <2>1, <2>2
<1>2. Without(s, k) = a \o b
  BY Zenon DEF Without
<1> HIDE DEF a, b
<1>d. a \in Seq(S) /\ b \in Seq(S)
  BY Zenon, <1>a, <1>b
<1>3. a \o b \in Seq(S) /\ Len(a \o b) = Len(s) - 1
  <2>1. a \o b \in Seq(S) /\ Len(a \o b) = Len(a) + Len(b)
    BY <1>d
  <2> QED
    BY <2>1, <1>0, <1>a, <1>b
<1>4. ASSUME NEW l \in 1..Len(s) - 1
      PROVE  (a \o b)[l] = IF l < k THEN s[l] ELSE s[l + 1]
  <2>1. CASE l < k
    <3>1. l \in 1..Len(a)
      BY <2>1, <1>0, <1>a
    <3> QED
      BY <2>1, <3>1, <1>a, <1>b
  <2>2. CASE ~(l < k)
    <3>1. l - Len(a) \in 1..Len(b) /\ l - Len(a) + k = l + 1
      BY <2>2, <1>0, <1>a, <1>b
    <3>2. (a \o b)[l] = b[l - Len(a)]
      BY <3>1, <1>a, <1>b
    <3>3. b[l - Len(a)] = s[l - Len(a) + k]
      BY Zenon, <3>1, <1>b, <1>c
    <3> QED
      BY Zenon, <2>2, <3>1, <3>2, <3>3
  <2> QED
    BY Zenon, <2>1, <2>2
<1> QED
  BY Zenon, <1>2, <1>3, <1>4

LEMMA PlacesWithout ==
  ASSUME NEW S, NEW s \in Seq(S), NEW k \in 1..Len(s), NEW x
  PROVE  \E g \in [Places(Without(s, k), x) -> Places(s, x) \ {k}] :
           \A l, m \in Places(Without(s, k), x) : g[l] = g[m] => l = m
<1> DEFINE Q == Places(Without(s, k), x)
           g == [l \in Q |-> IF l < k THEN l ELSE l + 1]
<1>1. \A l \in Q : l \in 1..Len(s) - 1 /\ x = IF l < k THEN s[l] ELSE s[l + 1]
  BY Zenon, WithoutEntry DEF Places
<1>2. g \in [Q -> Places(s, x) \ {k}]
  BY <1>1 DEF Places
<1>3. \A l, m \in Q : g[l] = g[m] => l = m
  BY <1>1
<1> QED
  BY Zenon, <1>2, <1>3

(* There are no more elements in P than in T.                              *)
Fits(P, T) == \E f \in [P -> T] : \A k, l \in P : f[k] = f[l] => k = l

LEMMA FitsMore ==
  ASSUME NEW P, NEW T, NEW U, T \subseteq U, Fits(P, T)
  PROVE  Fits(P, U)
BY Zenon DEF Fits

LEMMA FitsFewer ==
  ASSUME NEW P, NEW T, NEW Q, Fits(Q, P), Fits(P, T)
  PROVE  Fits(Q, T)
<1>1. PICK f \in [P -> T] : \A k, l \in P : f[k] = f[l] => k = l
  BY Zenon DEF Fits
<1>2. PICK g \in [Q -> P] : \A k, l \in Q : g[k] = g[l] => k = l
  BY Zenon DEF Fits
<1> DEFINE e == [k \in Q |-> f[g[k]]]
<1>3. e \in [Q -> T] /\ \A k, l \in Q : e[k] = e[l] => k = l
  BY Zenon, <1>1, <1>2
<1> QED
  BY Zenon, <1>3 DEF Fits

LEMMA FitsMoved ==
  ASSUME NEW P, NEW T, NEW a, NEW b, b \notin T, Fits(P, T)
  PROVE  Fits(P, (T \ {a}) \cup {b})
<1>1. PICK f \in [P -> T] : \A k, l \in P : f[k] = f[l] => k = l
  BY Zenon DEF Fits
<1> DEFINE e == [k \in P |-> IF f[k] = a THEN b ELSE f[k]]
<1>2. e \in [P -> (T \ {a}) \cup {b}] /\ \A k, l \in P : e[k] = e[l] => k = l
  BY <1>1
<1> QED
  BY Zenon, <1>2 DEF Fits

LEMMA FitsAdded ==
  ASSUME NEW P, NEW T, NEW n, NEW r, n \notin P, r \notin T, Fits(P, T)
  PROVE  Fits(P \cup {n}, T \cup {r})
<1>1. PICK f \in [P -> T] : \A k, l \in P : f[k] = f[l] => k = l
  BY Zenon DEF Fits
<1> DEFINE e == [k \in P \cup {n} |-> IF k = n THEN r ELSE f[k]]
<1>2. e \in [P \cup {n} -> T \cup {r}] /\ \A k, l \in P \cup {n} : e[k] = e[l] => k = l
  BY <1>1
<1> QED
  BY Zenon, <1>2 DEF Fits

LEMMA FitsRemoved ==
  ASSUME NEW P, NEW T, NEW n \in P, NEW r, Fits(P, T)
  PROVE  Fits(P \ {n}, T \ {r})
<1>1. PICK f \in [P -> T] : \A k, l \in P : f[k] = f[l] => k = l
  BY Zenon DEF Fits
<1> DEFINE e == [k \in P \ {n} |-> IF f[k] = r THEN f[n] ELSE f[k]]
<1>2. e \in [P \ {n} -> T \ {r}] /\ \A k, l \in P \ {n} : e[k] = e[l] => k = l
  BY Zenon, <1>1
<1> QED
  BY Zenon, <1>2 DEF Fits

LEMMA FitsNone ==
  ASSUME NEW T
  PROVE  Fits({}, T)
<1> DEFINE e == [k \in {} |-> k]
<1>1. e \in [{} -> T]
  BY Zenon
<1> QED
  BY Zenon, <1>1 DEF Fits

----------------------------------------------------------------------------
(* What a step of a handler does.  A handler works on one handle at a      *)
(* time, y: it leaves the other handlers and the other handles alone.      *)

Frame(r, y) ==
  /\ \A q \in Handlers \ {r} : pc'[q] = pc[q] /\ h'[q] = h[q] /\ sp'[q] = sp[q] /\ ret'[q] = ret[q]
  /\ h[r] \in {y, None} /\ h'[r] \in {y, None}
  /\ \A x \in Handles \ {y} :
       /\ owned'[x] = owned[x] /\ csp'[x] = csp[x] /\ name'[x] = name[x] /\ cq_shm_map'[x] = cq_shm_map[x]
       /\ x \in cq_map' <=> x \in cq_map
       /\ x \in disturbed' <=> x \in disturbed

(* A step of handler r on the handle y.                                    *)
StepOn(r, y) == (HandlerStep(r) /\ y = h[r]) \/ CreateVerb(r, y) \/ DestroyFind(r, y)

LEMMA HandlerHasHandle ==
  ASSUME Inv, NEW r \in Handlers, HandlerStep(r)
  PROVE  h[r] \in Handles /\ StepOn(r, h[r])
<1>1. pc[r] # "read"
  BY Zenon DEF HandlerStep, StoreObject, InitCtrlShm, StorePiece, PushVec, ClientMap, DestroyVerb, EraseVec,
         DeletePiece, ClearPiece, At
<1> QED
  BY Zenon, <1>1 DEF Inv, Typed, StepOn

LEMMA FrameStep ==
  ASSUME Inv, PieceInv, NEW r \in Handlers, NEW y \in Handles, StepOn(r, y)
  PROVE  Frame(r, y)
<1> DEFINE Changed(f, g, k) == g = f \/ \E v : g = [f EXCEPT ![k] = v]
<1>1. /\ DOMAIN pc = Handlers /\ DOMAIN h = Handlers /\ DOMAIN ret = Handlers /\ DOMAIN sp = Handlers
      /\ DOMAIN owned = Handles /\ DOMAIN csp = Handles /\ DOMAIN name = Handles /\ DOMAIN cq_shm_map = Handles
      /\ pc[r] = "read" => h[r] = None
  BY Zenon DEF Inv, Typed, PieceInv
<1>2. ASSUME StepOn(r, y)
      PROVE  /\ Changed(pc, pc', r) /\ Changed(h, h', r) /\ Changed(sp, sp', r) /\ Changed(ret, ret', r)
             /\ Changed(owned, owned', y) /\ Changed(csp, csp', y) /\ Changed(name, name', y)
             /\ Changed(cq_shm_map, cq_shm_map', y)
             /\ \A x : x # y => (x \in cq_map' <=> x \in cq_map) /\ (x \in disturbed' <=> x \in disturbed)
             /\ h[r] \in {y, None} /\ h'[r] \in {y, None}
  <2>1. CASE CreateVerb(r, y)
    BY Zenon, <2>1, <1>1 DEF CreateVerb, At, mapVars, clientVars
  <2>2. CASE DestroyFind(r, y)
    BY Zenon, <2>2, <1>1 DEF DestroyFind, kernelVars, history
  <2>3. CASE y = h[r] /\ StoreObject(r)
    BY Zenon, <2>3, <1>1 DEF StoreObject, At, kernelVars, clientVars, history
  <2>4. CASE y = h[r] /\ InitCtrlShm(r)
    BY Zenon, <2>4, <1>1 DEF InitCtrlShm, At, mapVars, clientVars, history
  <2>5. CASE y = h[r] /\ StorePiece(r)
    BY Zenon, <2>5, <1>1 DEF StorePiece, At, kernelVars, clientVars, history
  <2>6. CASE y = h[r] /\ PushVec(r)
    BY Zenon, <2>6, <1>1 DEF PushVec, At, kernelVars, clientVars, history
  <2>7. CASE y = h[r] /\ ClientMap(r)
    BY Zenon, <2>7, <1>1 DEF ClientMap, At, mapVars, history
  <2>8. CASE y = h[r] /\ \E result \in {0, EBUSY} : DestroyVerb(r, result)
    BY Zenon, <2>8, <1>1 DEF DestroyVerb, At, mapVars
  <2>9. CASE y = h[r] /\ EraseVec(r)
    BY Zenon, <2>9, <1>1 DEF EraseVec, At, kernelVars, clientVars, history
  <2>10. CASE y = h[r] /\ DeletePiece(r)
    BY Zenon, <2>10, <1>1 DEF DeletePiece, At, mapVars, clientVars, history
  <2>11. CASE y = h[r] /\ ClearPiece(r)
    BY Zenon, <2>11, <1>1 DEF ClearPiece, At, kernelVars, history
  <2> QED
    BY Zenon, <1>2, <2>1, <2>2, <2>3, <2>4, <2>5, <2>6, <2>7, <2>8, <2>9, <2>10, <2>11 DEF StepOn, HandlerStep
<1>3. \A q \in Handlers \ {r} : pc'[q] = pc[q] /\ h'[q] = h[q] /\ sp'[q] = sp[q] /\ ret'[q] = ret[q]
  BY Zenon, <1>1, <1>2
<1>4. \A x \in Handles \ {y} : owned'[x] = owned[x] /\ csp'[x] = csp[x] /\ name'[x] = name[x]
                               /\ cq_shm_map'[x] = cq_shm_map[x]
  BY <1>1, <1>2
<1> QED
  BY Zenon, <1>2, <1>3, <1>4 DEF Frame

LEMMA CreateFacts ==
  ASSUME Inv, NEW r \in Handlers, NEW x \in Handles, CreateVerb(r, x)
  PROVE  /\ pc[r] = "read" /\ pc'[r] = "store" /\ h'[r] = x /\ x \notin live
         /\ disturbed' = IF BeingDestroyed(x) THEN disturbed \cup {x} ELSE disturbed \ {x}
         /\ UNCHANGED <<name, ptr, deleted, cq_map, cq_shm_map, cq_shm_vec, sp, ret, owned, csp, lpc, i, cur>>
BY Zenon DEF CreateVerb, At, Inv, Typed, pieceVars, mapVars, clientVars, loopVars

LEMMA StoreFacts ==
  ASSUME Inv, NEW r \in Handlers, StoreObject(r)
  PROVE  /\ pc[r] = "store" /\ pc'[r] = "init" /\ cq_map' = cq_map \cup {h[r]}
         /\ UNCHANGED <<name, ptr, deleted, cq_shm_map, cq_shm_vec, h, sp, ret, owned, csp, lpc, i, cur, disturbed>>
BY Zenon DEF StoreObject, At, Inv, Typed, kernelVars, pieceVars, clientVars, loopVars, history

LEMMA InitFacts ==
  ASSUME Inv, PieceInv, NEW r \in Handlers, InitCtrlShm(r)
  PROVE  \E o \in Objs, s \in Segs :
           /\ pc[r] = "init" /\ pc'[r] = "piece" /\ sp'[r] = o
           /\ \A x \in Handles : cq_shm_map[x] # o
           /\ \A q \in Handlers : sp[q] # o
           /\ name'[h[r]] = s
           /\ ptr'[o] = s /\ \A p \in Objs \ {o} : ptr'[p] = ptr[p]
           /\ deleted' = deleted \ {o}
           /\ UNCHANGED <<cq_map, cq_shm_map, cq_shm_vec, h, ret, owned, csp, lpc, i, cur, disturbed>>
<1> DEFINE o == NewPiece
           s == ShmOpen(h[r])
<1>1. /\ pc[r] = "init" /\ pc' = [pc EXCEPT ![r] = "piece"] /\ sp' = [sp EXCEPT ![r] = o]
      /\ name' = [name EXCEPT ![h[r]] = s] /\ ptr' = [ptr EXCEPT ![o] = s] /\ deleted' = deleted \ {o}
      /\ UNCHANGED <<cq_map, cq_shm_map, cq_shm_vec, h, ret, owned, csp, lpc, i, cur, disturbed>>
  BY Zenon DEF InitCtrlShm, At, mapVars, clientVars, loopVars, history
<1>2. o \in Objs /\ o \notin UsedObjs
  BY Zenon DEF InitCtrlShm, ObjLeft, NewPiece
<1>3. h[r] \in Handles
  BY Zenon, <1>1 DEF Inv, Typed
<1>4. s \in Segs
  BY Zenon, <1>3, NoneAssumption DEF InitCtrlShm, SegLeft, ShmOpen, PieceInv
<1>5. (\A x \in Handles : cq_shm_map[x] # o) /\ (\A q \in Handlers : sp[q] # o)
  BY Zenon, <1>2 DEF UsedObjs, Range, PieceInv
<1> HIDE DEF o, s
<1>6. pc'[r] = "piece" /\ sp'[r] = o
  BY Zenon, <1>1 DEF Inv, Typed, PieceInv
<1>7. /\ name'[h[r]] = s
      /\ ptr'[o] = s /\ \A p \in Objs \ {o} : ptr'[p] = ptr[p]
  BY Zenon, <1>1, <1>2, <1>3 DEF PieceInv
<1> QED
  BY Zenon, <1>1, <1>2, <1>4, <1>5, <1>6, <1>7

LEMMA StorePieceFacts ==
  ASSUME Inv, PieceInv, NEW r \in Handlers, StorePiece(r)
  PROVE  /\ pc[r] = "piece" /\ pc'[r] = "push" /\ cq_shm_map'[h[r]] = sp[r]
         /\ UNCHANGED <<name, ptr, deleted, cq_map, cq_shm_vec, h, sp, ret, owned, csp, lpc, i, cur, disturbed>>
<1>1. h[r] \in Handles
  BY Zenon DEF StorePiece, At, Inv, Typed
<1> QED
  BY Zenon, <1>1 DEF StorePiece, At, Inv, Typed, PieceInv, kernelVars, pieceVars, clientVars, loopVars, history

LEMMA PushFacts ==
  ASSUME Inv, PieceInv, NEW r \in Handlers, PushVec(r)
  PROVE  /\ pc[r] = "push" /\ pc'[r] = "map" /\ sp'[r] = None /\ lpc = "lock"
         /\ cq_shm_vec' = Append(cq_shm_vec, h[r])
         /\ UNCHANGED <<name, ptr, deleted, cq_map, cq_shm_map, h, ret, owned, csp, lpc, i, cur, disturbed>>
BY Zenon DEF PushVec, At, VecFree, Inv, Typed, PieceInv, kernelVars, pieceVars, clientVars, loopVars, history

LEMMA MapFacts ==
  ASSUME Inv, PieceInv, NEW r \in Handlers, ClientMap(r)
  PROVE  /\ pc[r] = "map" /\ pc'[r] = "read" /\ h'[r] = None
         /\ owned'[h[r]] = "yes" /\ csp'[h[r]] = name'[h[r]]
         /\ name[h[r]] # None => name'[h[r]] = name[h[r]]
         /\ UNCHANGED <<ptr, deleted, cq_map, cq_shm_map, cq_shm_vec, sp, ret, lpc, i, cur, disturbed>>
<1> DEFINE s == ShmOpen(h[r])
<1>1. /\ pc[r] = "map" /\ pc' = [pc EXCEPT ![r] = "read"] /\ h' = [h EXCEPT ![r] = None]
      /\ owned' = [owned EXCEPT ![h[r]] = "yes"] /\ csp' = [csp EXCEPT ![h[r]] = s]
      /\ name' = [name EXCEPT ![h[r]] = s]
      /\ UNCHANGED <<ptr, deleted, cq_map, cq_shm_map, cq_shm_vec, sp, ret, lpc, i, cur, disturbed>>
  BY Zenon DEF ClientMap, At, mapVars, loopVars, history
<1>2. h[r] \in Handles
  BY Zenon, <1>1 DEF Inv, Typed
<1>3. name[h[r]] # None => s = name[h[r]]
  BY Zenon DEF ShmOpen
<1> HIDE DEF s
<1>4. pc'[r] = "read" /\ h'[r] = None
  BY Zenon, <1>1 DEF Inv, Typed
<1> QED
  BY Zenon, <1>1, <1>2, <1>3, <1>4 DEF Inv, Typed, PieceInv

LEMMA FindFacts ==
  ASSUME Inv, NEW r \in Handlers, NEW x \in Handles, DestroyFind(r, x), x \in cq_map
  PROVE  /\ pc[r] = "read" /\ pc'[r] = "verb" /\ h'[r] = x /\ owned[x] = "yes" /\ owned'[x] = "no"
         /\ cq_map' = cq_map \ {x}
         /\ UNCHANGED <<name, ptr, deleted, cq_shm_map, cq_shm_vec, sp, ret, csp, lpc, i, cur, disturbed>>
BY Zenon DEF DestroyFind, Inv, Typed, kernelVars, pieceVars, loopVars, history

LEMMA NotFoundFacts ==
  ASSUME Inv, NEW r \in Handlers, NEW x \in Handles, DestroyFind(r, x), x \notin cq_map
  PROVE  /\ owned[x] = "yes" /\ owned'[x] = "no response"
         /\ UNCHANGED <<name, ptr, deleted, cq_map, cq_shm_map, cq_shm_vec, pc, h, sp, ret, csp, lpc, i, cur, disturbed>>
BY Zenon DEF DestroyFind, Inv, Typed, kernelVars, pieceVars, loopVars, history

LEMMA VerbFacts ==
  ASSUME Inv, NEW r \in Handlers, NEW result \in {0, EBUSY}, DestroyVerb(r, result)
  PROVE  /\ pc[r] = "verb" /\ pc'[r] = "erase" /\ ret'[r] = result
         /\ disturbed' = IF result = 0 THEN disturbed ELSE disturbed \cup {h[r]}
         /\ UNCHANGED <<name, ptr, deleted, cq_map, cq_shm_map, cq_shm_vec, h, sp, owned, lpc, i, cur>>
BY Zenon DEF DestroyVerb, At, Inv, Typed, pieceVars, mapVars, loopVars

LEMMA EraseFacts ==
  ASSUME Inv, PieceInv, NEW r \in Handlers, EraseVec(r)
  PROVE  /\ pc[r] = "erase" /\ pc'[r] = "delete" /\ lpc = "lock"
         /\ \/ cq_shm_vec' = cq_shm_vec /\ \A k \in 1..Len(cq_shm_vec) : cq_shm_vec[k] # h[r]
            \/ \E k \in 1..Len(cq_shm_vec) : cq_shm_vec[k] = h[r] /\ cq_shm_vec' = Without(cq_shm_vec, k)
         /\ UNCHANGED <<name, ptr, deleted, cq_map, cq_shm_map, h, sp, ret, owned, csp, lpc, i, cur, disturbed>>
<1>1. /\ pc[r] = "erase" /\ pc'[r] = "delete" /\ lpc = "lock"
      /\ UNCHANGED <<name, ptr, deleted, cq_map, cq_shm_map, h, sp, ret, owned, csp, lpc, i, cur, disturbed>>
  BY Zenon DEF EraseVec, At, VecFree, Inv, Typed, kernelVars, pieceVars, clientVars, loopVars, history
<1>2. cq_shm_vec' \in Erased(h[r]) /\ DOMAIN cq_shm_vec = 1..Len(cq_shm_vec) /\ Len(cq_shm_vec) \in Nat
  BY DEF EraseVec, PieceInv
<1>3. CASE h[r] \notin Range(cq_shm_vec)
  BY Zenon, <1>1, <1>2, <1>3 DEF Erased, Range
<1>4. CASE h[r] \in Range(cq_shm_vec)
  BY Zenon, <1>1, <1>2, <1>4 DEF Erased, Found, Without
<1> QED
  BY Zenon, <1>3, <1>4

LEMMA DeleteFacts ==
  ASSUME Inv, PieceInv, NEW r \in Handlers, DeletePiece(r)
  PROVE  /\ pc[r] = "delete" /\ pc'[r] = "clear"
         /\ \/ deleted' = deleted
            \/ cq_shm_map[h[r]] # None /\ deleted' = deleted \cup {cq_shm_map[h[r]]}
         /\ UNCHANGED <<ptr, cq_map, cq_shm_map, cq_shm_vec, h, sp, ret, owned, csp, lpc, i, cur, disturbed>>
<1> DEFINE o == cq_shm_map[h[r]]
<1>1. /\ pc[r] = "delete" /\ pc' = [pc EXCEPT ![r] = "clear"]
      /\ \/ UNCHANGED <<deleted, name>>
         \/ o # None /\ deleted' = deleted \cup {o} /\ name' = [name EXCEPT ![h[r]] = None]
      /\ UNCHANGED <<ptr, cq_map, cq_shm_map, cq_shm_vec, h, sp, ret, owned, csp, lpc, i, cur, disturbed>>
  BY Zenon DEF DeletePiece, At, mapVars, clientVars, loopVars, history
<1> HIDE DEF o
<1>2. pc'[r] = "clear"
  BY Zenon, <1>1 DEF Inv, Typed
<1>3. o = cq_shm_map[h[r]]
  BY Zenon DEF o
<1> QED
  BY Zenon, <1>1, <1>2, <1>3

LEMMA ClearFacts ==
  ASSUME Inv, PieceInv, NEW r \in Handlers, ClearPiece(r)
  PROVE  /\ pc[r] = "clear" /\ pc'[r] = "read" /\ h'[r] = None /\ ret'[r] = 0
         /\ cq_shm_map'[h[r]] = None
         /\ (ret[r] = 0 => owned'[h[r]] = owned[h[r]]) /\ (ret[r] # 0 => owned'[h[r]] = "yes")
         /\ UNCHANGED <<name, ptr, deleted, cq_map, cq_shm_vec, sp, csp, lpc, i, cur, disturbed>>
<1>1. h[r] \in Handles
  BY Zenon DEF ClearPiece, At, Inv, Typed
<1> QED
  BY Zenon, <1>1 DEF ClearPiece, At, Inv, Typed, PieceInv, kernelVars, pieceVars, loopVars, history

----------------------------------------------------------------------------
(* The invariant.                                                          *)

(* No two entries, or handlers that are about to store one, have the same  *)
(* ShmPiece.                                                               *)
Stored1 == \A x, y \in Handles : cq_shm_map[x] = cq_shm_map[y] /\ cq_shm_map[x] # None => x = y
Made1 == \A r, q \in Handlers : sp[r] = sp[q] /\ sp[r] # None => r = q
MadeAt == \A r \in Handlers : sp[r] # None => pc[r] \in {"piece", "push"}
MadeStored ==
  \A r \in Handlers, x \in Handles :
    sp[r] = cq_shm_map[x] /\ sp[r] # None => pc[r] = "push" /\ x = h[r]
Pieces == Stored1 /\ Made1 /\ MadeAt /\ MadeStored

(* cq_shm_vec has a handle no more often than there are queues, or         *)
(* handlers about to erase one, to account for it, disturbed or not.       *)
Scanned == {"map", "verb", "erase"}
Tokens(x) == {r \in Handlers : h[r] = x /\ pc[r] \in Scanned} \cup {n \in {None} : owned[x] # "no"}
Counted == \A x \in Handles : Fits(Places(cq_shm_vec, x), Tokens(x))

(* A handle that is not disturbed has one user, handler or client, even    *)
(* after the kernel has freed it, and how far the creation of its queue,   *)
(* or the destruction, has come.                                           *)
Alive(o) == o \in Objs /\ o \notin deleted
Scans(x) == \E k \in 1..Len(cq_shm_vec) : cq_shm_vec[k] = x
OnlyUser(r, x) == ret[r] = 0 /\ owned[x] = "no" /\ \A q \in Handlers : h[q] = x => q = r
HandlerStage(r, x) ==
  /\ pc[r] \in Making \ {"store"} => x \in cq_map
  /\ pc[r] = "piece" => Alive(sp[r]) /\ ptr[sp[r]] = name[x]
  /\ pc[r] = "push" => cq_shm_map[x] = sp[r]
  /\ pc[r] \in {"push", "map"} => ptr[cq_shm_map[x]] = name[x]
  /\ pc[r] \in {"piece", "push", "map"} => name[x] # None
  /\ pc[r] \in {"push"} \cup Scanned => Alive(cq_shm_map[x])
  /\ pc[r] \in Scanned => Scans(x)
ClientStage(x) ==
  /\ owned[x] # "no response"
  /\ owned[x] # "no" => x \in cq_map /\ Scans(x) /\ Alive(cq_shm_map[x]) /\ ptr[cq_shm_map[x]] = csp[x]
Stage(x) == ClientStage(x) /\ \A r \in Handlers : h[r] = x => OnlyUser(r, x) /\ HandlerStage(r, x)
Stages == \A x \in Handles \ disturbed : Stage(x)

(* The piece that CtrlChannelLoop looks at is that of its entry.           *)
LoopAt ==
  lpc = "at" =>
    /\ i < Len(cq_shm_vec)
    /\ cq_shm_vec[i + 1] \notin disturbed => cur = cq_shm_map[cq_shm_vec[i + 1]]

ServedInv == Pieces /\ Counted /\ Stages /\ LoopAt

----------------------------------------------------------------------------
(* The pieces.                                                             *)

LEMMA PiecesSame ==
  ASSUME Pieces, NEW r \in Handlers, UNCHANGED <<cq_shm_map, sp>>, pc[r] \notin {"piece", "push"},
         \A q \in Handlers \ {r} : pc'[q] = pc[q] /\ h'[q] = h[q]
  PROVE  Pieces'
<1>1. sp[r] = None
  BY Zenon DEF Pieces, MadeAt
<1>2. Stored1' /\ Made1'
  BY Zenon DEF Pieces, Stored1, Made1
<1>3. MadeAt'
  BY Zenon, <1>1 DEF Pieces, MadeAt
<1>4. MadeStored'
  BY Zenon, <1>1 DEF Pieces, MadeStored
<1> QED
  BY Zenon, <1>2, <1>3, <1>4 DEF Pieces

LEMMA PiecesStep ==
  ASSUME Inv, PieceInv, Pieces, [Next]_vars
  PROVE  Pieces'
<1> USE NoneAssumption
<1>1. ASSUME NEW r \in Handlers, InitCtrlShm(r) PROVE Pieces'
  <2>1. PICK o \in Objs : /\ pc'[r] = "piece" /\ sp'[r] = o /\ UNCHANGED <<cq_shm_map, h>>
                          /\ \A x \in Handles : cq_shm_map[x] # o
                          /\ \A q \in Handlers : sp[q] # o
    BY <1>1, InitFacts
  <2>2. \A q \in Handlers \ {r} : pc'[q] = pc[q] /\ sp'[q] = sp[q]
    BY Zenon, <1>1, HandlerHasHandle, FrameStep DEF HandlerStep, Frame
  <2>3. Stored1' /\ Made1'
    BY <2>1, <2>2 DEF Pieces, Stored1, Made1
  <2>4. MadeAt' /\ MadeStored'
    BY <2>1, <2>2 DEF Pieces, MadeAt, MadeStored
  <2> QED
    BY Zenon, <2>3, <2>4 DEF Pieces
<1>2. ASSUME NEW r \in Handlers, StorePiece(r) PROVE Pieces'
  <2>1. pc[r] = "piece" /\ pc'[r] = "push" /\ cq_shm_map'[h[r]] = sp[r] /\ UNCHANGED <<sp, h>>
    BY Zenon, <1>2, StorePieceFacts
  <2>2. /\ \A q \in Handlers \ {r} : pc'[q] = pc[q]
        /\ \A x \in Handles \ {h[r]} : cq_shm_map'[x] = cq_shm_map[x]
    BY <1>2, HandlerHasHandle, FrameStep DEF HandlerStep, Frame
  <2>3. sp[r] # None => \A x \in Handles : cq_shm_map[x] # sp[r]
    BY Zenon, <2>1 DEF Pieces, MadeStored
  <2>4. Stored1'
    BY <2>1, <2>2, <2>3 DEF Pieces, Stored1
  <2>5. Made1' /\ MadeAt'
    BY Zenon, <2>1, <2>2 DEF Pieces, Made1, MadeAt
  <2>6. MadeStored'
    BY <2>1, <2>2 DEF Pieces, Made1, MadeStored
  <2> QED
    BY Zenon, <2>4, <2>5, <2>6 DEF Pieces
<1>3. ASSUME NEW r \in Handlers, PushVec(r) PROVE Pieces'
  <2>1. sp'[r] = None /\ UNCHANGED <<cq_shm_map, h>>
    BY Zenon, <1>3, PushFacts
  <2>2. \A q \in Handlers \ {r} : pc'[q] = pc[q] /\ sp'[q] = sp[q]
    BY Zenon, <1>3, HandlerHasHandle, FrameStep DEF HandlerStep, Frame
  <2>3. Stored1' /\ Made1'
    BY Zenon, <2>1, <2>2 DEF Pieces, Stored1, Made1
  <2>4. MadeAt' /\ MadeStored'
    BY <2>1, <2>2 DEF Pieces, MadeAt, MadeStored
  <2> QED
    BY Zenon, <2>3, <2>4 DEF Pieces
<1>4. ASSUME NEW r \in Handlers, ClearPiece(r) PROVE Pieces'
  <2>1. pc[r] = "clear" /\ cq_shm_map'[h[r]] = None /\ UNCHANGED sp
    BY Zenon, <1>4, ClearFacts
  <2>2. /\ \A q \in Handlers \ {r} : pc'[q] = pc[q] /\ h'[q] = h[q]
        /\ \A x \in Handles \ {h[r]} : cq_shm_map'[x] = cq_shm_map[x]
    BY <1>4, HandlerHasHandle, FrameStep DEF HandlerStep, Frame
  <2>3. sp[r] = None
    BY Zenon, <2>1 DEF Pieces, MadeAt
  <2>4. Stored1' /\ Made1'
    BY <2>1, <2>2 DEF Pieces, Stored1, Made1
  <2>5. MadeAt' /\ MadeStored'
    BY <2>1, <2>2, <2>3 DEF Pieces, MadeAt, MadeStored
  <2> QED
    BY Zenon, <2>4, <2>5 DEF Pieces
<1>5. ASSUME NEW r \in Handlers, NEW x \in Handles, CreateVerb(r, x) PROVE Pieces'
  BY <1>5, CreateFacts, FrameStep, PiecesSame DEF StepOn, Frame
<1>6. ASSUME NEW r \in Handlers, NEW x \in Handles, DestroyFind(r, x) PROVE Pieces'
  <2>1. pc[r] = "read" /\ UNCHANGED <<cq_shm_map, sp>>
    BY Zenon, <1>6 DEF DestroyFind
  <2> QED
    BY <1>6, <2>1, FrameStep, PiecesSame DEF StepOn, Frame
<1>7. ASSUME NEW r \in Handlers,
             \/ StoreObject(r) \/ ClientMap(r) \/ EraseVec(r) \/ DeletePiece(r)
             \/ \E result \in {0, EBUSY} : DestroyVerb(r, result)
      PROVE  Pieces'
  <2>1. pc[r] \notin {"piece", "push"} /\ UNCHANGED <<cq_shm_map, sp>>
    BY Zenon, <1>7, StoreFacts, MapFacts, EraseFacts, DeleteFacts, VerbFacts
  <2>2. \A q \in Handlers \ {r} : pc'[q] = pc[q] /\ h'[q] = h[q]
    BY <1>7, HandlerHasHandle, FrameStep DEF HandlerStep, Frame
  <2> QED
    BY Zenon, <2>1, <2>2, PiecesSame
<1>8. CASE (\E x \in Handles : Request(x) \/ Return(x)) \/ LoopStep \/ UNCHANGED vars
  <2>1. UNCHANGED <<cq_shm_map, sp, pc, h>>
    BY Zenon, <1>8 DEF Request, Return, LoopStep, LoopLock, LoopLook, LoopUnlock, LoopServe, mapVars, handlerVars, vars
  <2> QED
    BY Zenon, <2>1 DEF Pieces, Stored1, Made1, MadeAt, MadeStored
<1> QED
  BY Zenon, <1>1, <1>2, <1>3, <1>4, <1>5, <1>6, <1>7, <1>8 DEF Next, HandlerStep

----------------------------------------------------------------------------
(* The entries of cq_shm_vec.                                              *)

LEMMA TokensGrow ==
  ASSUME NEW x, owned[x] # "no" => owned'[x] # "no",
         \A q \in Handlers : h[q] = x /\ pc[q] \in Scanned => h'[q] = x /\ pc'[q] \in Scanned
  PROVE  Tokens(x) \subseteq Tokens(x)'
BY Zenon DEF Tokens

LEMMA TokensSame ==
  ASSUME NEW r \in Handlers, NEW y \in Handles, Frame(r, y), NEW x \in Handles \ {y}
  PROVE  Tokens(x)' = Tokens(x)
BY NoneAssumption DEF Frame, Tokens

Erasers(x) == {r \in Handlers : h[r] = x /\ pc[r] \in Scanned}

LEMMA TokensAre ==
  ASSUME NEW x
  PROVE  /\ owned[x] = "no" => Tokens(x) = Erasers(x)
         /\ owned[x] # "no" => Tokens(x) = Erasers(x) \cup {None}
         /\ owned'[x] = "no" => Tokens(x)' = Erasers(x)'
         /\ owned'[x] # "no" => Tokens(x)' = Erasers(x)' \cup {None}
BY Zenon DEF Tokens, Erasers

(* It suffices to look at the handle that the handler works on.            *)
LEMMA CountOwn ==
  ASSUME Counted, NEW r \in Handlers, NEW y \in Handles, Frame(r, y),
         \A x \in Handles \ {y} : Fits(Places(cq_shm_vec', x), Places(cq_shm_vec, x)),
         Fits(Places(cq_shm_vec', y), Tokens(y)')
  PROVE  Counted'
<1>1. \A x \in Handles \ {y} : Fits(Places(cq_shm_vec', x), Tokens(x)')
  BY Zenon, TokensSame, FitsFewer DEF Counted
<1> QED
  BY Zenon, <1>1 DEF Counted

LEMMA CountStep ==
  ASSUME Inv, PieceInv, Counted, [Next]_vars
  PROVE  Counted'
<1> USE NoneAssumption
<1>a. ASSUME NEW x PROVE Fits(Places(cq_shm_vec, x), Places(cq_shm_vec, x))
  <2> DEFINE e == [k \in Places(cq_shm_vec, x) |-> k]
  <2>1. e \in [Places(cq_shm_vec, x) -> Places(cq_shm_vec, x)]
    BY Zenon
  <2> QED
    BY Zenon, <2>1 DEF Fits
<1>1. ASSUME NEW r \in Handlers, NEW y \in Handles, StepOn(r, y), UNCHANGED cq_shm_vec,
             Tokens(y) \subseteq Tokens(y)'
      PROVE  Counted'
  <2>1. Fits(Places(cq_shm_vec, y), Tokens(y)')
    BY Zenon, <1>1, FitsMore DEF Counted
  <2> QED
    BY Zenon, <1>1, <1>a, <2>1, FrameStep, CountOwn
<1>2. ASSUME NEW r \in Handlers, NEW x \in Handles, CreateVerb(r, x) PROVE Counted'
  <2>1. pc[r] = "read" /\ UNCHANGED <<cq_shm_vec, owned>>
    BY Zenon, <1>2, CreateFacts
  <2>2. \A q \in Handlers \ {r} : pc'[q] = pc[q] /\ h'[q] = h[q]
    BY <1>2, FrameStep DEF StepOn, Frame
  <2>3. Tokens(x) \subseteq Tokens(x)'
    BY Zenon, <2>1, <2>2, TokensGrow DEF Scanned
  <2> QED
    BY Zenon, <1>2, <2>1, <2>3, <1>1 DEF StepOn
<1>3. ASSUME NEW r \in Handlers,
             \/ StoreObject(r) \/ InitCtrlShm(r) \/ StorePiece(r) \/ DeletePiece(r)
             \/ \E result \in {0, EBUSY} : DestroyVerb(r, result)
      PROVE  Counted'
  <2>1. UNCHANGED <<cq_shm_vec, owned, h>> /\ (pc[r] \in Scanned => pc'[r] \in Scanned)
    BY <1>3, StoreFacts, InitFacts, StorePieceFacts, DeleteFacts, VerbFacts DEF Scanned
  <2>2. h[r] \in Handles /\ StepOn(r, h[r]) /\ \A q \in Handlers \ {r} : pc'[q] = pc[q]
    BY Zenon, <1>3, HandlerHasHandle, FrameStep DEF HandlerStep, Frame
  <2>3. \A x \in Handles : Tokens(x) \subseteq Tokens(x)'
    BY Zenon, <2>1, <2>2, TokensGrow
  <2> QED
    BY Zenon, <2>1, <2>2, <2>3, <1>1
<1>4. ASSUME NEW r \in Handlers, PushVec(r) PROVE Counted'
  <2>1. /\ pc[r] = "push" /\ pc'[r] = "map" /\ UNCHANGED <<h, owned>>
        /\ cq_shm_vec' = Append(cq_shm_vec, h[r])
    BY Zenon, <1>4, PushFacts
  <2>2. PICK y \in Handles : y = h[r] /\ Frame(r, y)
    BY Zenon, <1>4, HandlerHasHandle, FrameStep DEF HandlerStep
  <2>3. /\ Len(cq_shm_vec) \in Nat /\ Len(cq_shm_vec') = Len(cq_shm_vec) + 1
        /\ cq_shm_vec'[Len(cq_shm_vec) + 1] = y
        /\ \A k \in 1..Len(cq_shm_vec) : cq_shm_vec'[k] = cq_shm_vec[k]
    BY <2>1, <2>2 DEF PieceInv
  <2>4. \A x \in Handles \ {y} : Places(cq_shm_vec', x) = Places(cq_shm_vec, x)
    BY <2>3 DEF Places
  <2> DEFINE k == Len(cq_shm_vec) + 1
  <2>5. Places(cq_shm_vec', y) = Places(cq_shm_vec, y) \cup {k} /\ k \notin Places(cq_shm_vec, y)
    BY <2>3 DEF Places
  <2>6. Tokens(y)' = Tokens(y) \cup {r} /\ r \notin Tokens(y)
    BY <2>1, <2>2 DEF Frame, Tokens, Scanned
  <2> HIDE DEF k
  <2>7. Fits(Places(cq_shm_vec', y), Tokens(y)')
    BY <2>5, <2>6, FitsAdded DEF Counted
  <2> QED
    BY Zenon, <1>a, <2>2, <2>4, <2>7, CountOwn
<1>5. ASSUME NEW r \in Handlers, ClientMap(r) PROVE Counted'
  <2>1. PICK y \in Handles : y = h[r] /\ Frame(r, y)
    BY Zenon, <1>5, HandlerHasHandle, FrameStep DEF HandlerStep
  <2>2. pc[r] = "map" /\ pc'[r] = "read" /\ h'[r] = None /\ owned'[y] = "yes" /\ UNCHANGED cq_shm_vec
    BY Zenon, <1>5, <2>1, MapFacts
  <2>3. Holds(r)
    BY Zenon, <2>2, PcNames DEF Holds
  <2>4. owned[y] = "no"
    BY Zenon, <2>1, <2>3 DEF Inv, OneHolder
  <2>5. Erasers(y)' = Erasers(y) \ {r} /\ None \notin Erasers(y)
    BY <2>1, <2>2 DEF Frame, Erasers
  <2>a. None \notin Tokens(y) /\ Tokens(y)' = (Tokens(y) \ {r}) \cup {None}
    BY Zenon, <2>2, <2>4, <2>5, TokensAre
  <2>6. Fits(Places(cq_shm_vec', y), Tokens(y)')
    <3>1. Fits(Places(cq_shm_vec, y), Tokens(y))
      BY Zenon DEF Counted
    <3>2. Fits(Places(cq_shm_vec, y), (Tokens(y) \ {r}) \cup {None})
      BY Zenon, <2>a, <3>1, FitsMoved
    <3> QED
      BY Zenon, <2>2, <2>a, <3>2
  <2> QED
    BY Zenon, <1>a, <2>1, <2>2, <2>6, CountOwn
<1>6. ASSUME NEW r \in Handlers, NEW x \in Handles, DestroyFind(r, x) PROVE Counted'
  <2>1. Frame(r, x)
    BY Zenon, <1>6, FrameStep DEF StepOn
  <2>2. CASE x \notin cq_map
    <3>1. UNCHANGED <<cq_shm_vec, pc, h>> /\ owned'[x] = "no response"
      BY Zenon, <1>6, <2>2, NotFoundFacts
    <3>2. Tokens(x) \subseteq Tokens(x)'
      BY Zenon, <3>1, TokensGrow
    <3> QED
      BY Zenon, <1>6, <3>1, <3>2, <1>1 DEF StepOn
  <2>3. CASE x \in cq_map
    <3>1. /\ pc[r] = "read" /\ pc'[r] = "verb" /\ h'[r] = x /\ owned[x] = "yes" /\ owned'[x] = "no"
          /\ UNCHANGED cq_shm_vec
      BY Zenon, <1>6, <2>3, FindFacts
    <3>a. Erasers(x)' = Erasers(x) \cup {r} /\ r \notin Erasers(x) /\ None \notin Erasers(x)
      BY <2>1, <3>1 DEF Frame, Erasers, Scanned
    <3>2. r \notin Tokens(x) /\ Tokens(x)' = (Tokens(x) \ {None}) \cup {r}
      BY <3>1, <3>a, TokensAre
    <3>3. Fits(Places(cq_shm_vec', x), Tokens(x)')
      <4>1. Fits(Places(cq_shm_vec, x), Tokens(x))
        BY Zenon DEF Counted
      <4>2. Fits(Places(cq_shm_vec, x), (Tokens(x) \ {None}) \cup {r})
        BY Zenon, <3>2, <4>1, FitsMoved
      <4> QED
        BY Zenon, <3>1, <3>2, <4>2
    <3> QED
      BY Zenon, <1>a, <2>1, <3>1, <3>3, CountOwn
  <2> QED
    BY Zenon, <2>2, <2>3
<1>7. ASSUME NEW r \in Handlers, EraseVec(r) PROVE Counted'
  <2>1. /\ pc[r] = "erase" /\ pc'[r] = "delete" /\ UNCHANGED <<h, owned>>
        /\ \/ cq_shm_vec' = cq_shm_vec /\ \A k \in 1..Len(cq_shm_vec) : cq_shm_vec[k] # h[r]
           \/ \E k \in 1..Len(cq_shm_vec) : cq_shm_vec[k] = h[r] /\ cq_shm_vec' = Without(cq_shm_vec, k)
    BY Zenon, <1>7, EraseFacts
  <2>2. PICK y \in Handles : y = h[r] /\ Frame(r, y)
    BY Zenon, <1>7, HandlerHasHandle, FrameStep DEF HandlerStep
  <2>3. Tokens(y)' = Tokens(y) \ {r}
    BY Zenon, <2>1, <2>2 DEF Frame, Tokens, Scanned
  <2>4. CASE cq_shm_vec' = cq_shm_vec /\ \A k \in 1..Len(cq_shm_vec) : cq_shm_vec[k] # h[r]
    <3>1. Places(cq_shm_vec', y) = {}
      BY Zenon, <2>2, <2>4 DEF Places
    <3>2. Fits(Places(cq_shm_vec', y), Tokens(y)')
      BY Zenon, <3>1, FitsNone
    <3> QED
      BY Zenon, <1>a, <2>2, <2>4, <3>2, CountOwn
  <2>5. CASE \E k \in 1..Len(cq_shm_vec) : cq_shm_vec[k] = h[r] /\ cq_shm_vec' = Without(cq_shm_vec, k)
    <3>1. PICK k \in 1..Len(cq_shm_vec) : cq_shm_vec[k] = y /\ cq_shm_vec' = Without(cq_shm_vec, k)
      BY Zenon, <2>2, <2>5
    <3>2. \A x : Fits(Places(cq_shm_vec', x), Places(cq_shm_vec, x) \ {k})
      BY <3>1, PlacesWithout DEF Fits, PieceInv
    <3>3. \A x : Fits(Places(cq_shm_vec', x), Places(cq_shm_vec, x))
      BY Zenon, <3>2, FitsMore
    <3>4. k \in Places(cq_shm_vec, y)
      BY Zenon, <3>1 DEF Places
    <3>5. Fits(Places(cq_shm_vec, y) \ {k}, Tokens(y) \ {r})
      BY Zenon, <3>4, FitsRemoved DEF Counted
    <3>6. Fits(Places(cq_shm_vec', y), Tokens(y)')
      BY Zenon, <2>3, <3>2, <3>5, FitsFewer
    <3> QED
      BY Zenon, <2>2, <3>3, <3>6, CountOwn
  <2> QED
    BY Zenon, <2>1, <2>4, <2>5
<1>8. ASSUME NEW r \in Handlers, ClearPiece(r) PROVE Counted'
  <2>1. PICK y \in Handles : y = h[r] /\ Frame(r, y) /\ StepOn(r, y)
    BY Zenon, <1>8, HandlerHasHandle, FrameStep DEF HandlerStep
  <2>2. /\ pc[r] = "clear" /\ UNCHANGED cq_shm_vec
        /\ (ret[r] = 0 => owned'[y] = owned[y]) /\ (ret[r] # 0 => owned'[y] = "yes")
    BY Zenon, <1>8, <2>1, ClearFacts
  <2>3. Tokens(y) \subseteq Tokens(y)'
    BY Zenon, <2>1, <2>2, TokensGrow DEF Frame, Scanned
  <2> QED
    BY Zenon, <2>1, <2>2, <2>3, <1>1
<1>9. CASE (\E x \in Handles : Request(x) \/ Return(x)) \/ LoopStep \/ UNCHANGED vars
  <2>1. UNCHANGED <<cq_shm_vec, pc, h>>
    BY Zenon, <1>9 DEF Request, Return, LoopStep, LoopLock, LoopLook, LoopUnlock, LoopServe, mapVars, handlerVars, vars
  <2>2. \A x \in Handles : owned[x] # "no" => owned'[x] # "no"
    BY Zenon, <1>9 DEF Request, Return, LoopStep, LoopLock, LoopLook, LoopUnlock, LoopServe, clientVars, vars, Inv, Typed
  <2>3. \A x \in Handles : Tokens(x) \subseteq Tokens(x)'
    BY Zenon, <2>1, <2>2, TokensGrow
  <2> QED
    BY Zenon, <2>1, <2>3, FitsMore DEF Counted
<1> QED
  BY Zenon, <1>2, <1>3, <1>4, <1>5, <1>6, <1>7, <1>8, <1>9 DEF Next, HandlerStep

----------------------------------------------------------------------------
(* The stage of a queue that is not disturbed: the steps on other handles  *)
(* leave it alone, and the one user of its own handle takes it further.    *)

Untouched(x) ==
  /\ \A q \in Handlers : h'[q] = x <=> h[q] = x
  /\ \A q \in Handlers : h[q] = x => pc'[q] = pc[q] /\ sp'[q] = sp[q] /\ ret'[q] = ret[q]
  /\ owned'[x] = owned[x] \/ {owned[x], owned'[x]} \subseteq Has
  /\ csp'[x] = csp[x] /\ name'[x] = name[x] /\ cq_shm_map'[x] = cq_shm_map[x]
  /\ x \in cq_map => x \in cq_map'
  /\ Scans(x) => Scans(x)'

(* The pieces of the queue of a handle, stored or about to be.             *)
PieceOf(o, x) == o \in Objs /\ (o = cq_shm_map[x] \/ \E q \in Handlers : h[q] = x /\ o = sp[q])
Kept(x) == \A o : PieceOf(o, x) /\ o \notin deleted => o \notin deleted' /\ ptr'[o] = ptr[o]

LEMMA UntouchedStage ==
  ASSUME NEW x \in Handles, Stage(x), Untouched(x), Kept(x)
  PROVE  Stage(x)'
<1>0. /\ owned'[x] # "no response" /\ (owned'[x] = "no" <=> owned[x] = "no")
      /\ csp'[x] = csp[x] /\ name'[x] = name[x] /\ cq_shm_map'[x] = cq_shm_map[x]
      /\ (x \in cq_map => x \in cq_map') /\ (Scans(x) => Scans(x)')
  BY Zenon DEF Stage, ClientStage, Untouched, Has
<1>1. ClientStage(x)'
  BY Zenon, <1>0 DEF Stage, ClientStage, Kept, PieceOf, Alive
<1>2. ASSUME NEW q \in Handlers, h'[q] = x PROVE OnlyUser(q, x)' /\ HandlerStage(q, x)'
  <2>1. /\ OnlyUser(q, x) /\ HandlerStage(q, x) /\ h[q] = x
        /\ pc'[q] = pc[q] /\ sp'[q] = sp[q] /\ ret'[q] = ret[q]
    BY Zenon, <1>2 DEF Stage, Untouched
  <2>2. \A o \in Objs : o \notin deleted /\ (o = cq_shm_map[x] \/ o = sp[q]) => o \notin deleted' /\ ptr'[o] = ptr[o]
    BY Zenon, <2>1 DEF Kept, PieceOf
  <2>3. OnlyUser(q, x)'
    BY Zenon, <1>0, <2>1 DEF OnlyUser, Untouched
  <2>4. pc[q] = "piece" => /\ sp[q] \in Objs /\ sp[q] \notin deleted' /\ ptr'[sp[q]] = name[x]
    BY Zenon, <2>1, <2>2 DEF HandlerStage, Alive
  <2>5. pc[q] \in {"push"} \cup Scanned => cq_shm_map[x] \in Objs /\ cq_shm_map[x] \notin deleted'
    BY Zenon, <2>1, <2>2 DEF HandlerStage, Alive
  <2>6. pc[q] \in {"push", "map"} => ptr'[cq_shm_map[x]] = name[x]
    BY Zenon, <2>1, <2>2 DEF HandlerStage, Alive, Scanned
  <2>7. /\ pc[q] \in Making \ {"store"} => x \in cq_map'
        /\ pc[q] = "push" => cq_shm_map[x] = sp[q]
        /\ pc[q] \in {"piece", "push", "map"} => name[x] # None
        /\ pc[q] \in Scanned => Scans(x)'
    BY Zenon, <1>0, <2>1 DEF HandlerStage
  <2>8. HandlerStage(q, x)'
    BY Zenon, <1>0, <2>1, <2>4, <2>5, <2>6, <2>7 DEF HandlerStage, Alive
  <2> QED
    BY Zenon, <2>3, <2>8
<1> QED
  BY Zenon, <1>1, <1>2 DEF Stage

LEMMA ScansKept ==
  ASSUME Inv, PieceInv, NEW r \in Handlers, NEW y \in Handles, StepOn(r, y), NEW x \in Handles \ {y}, Scans(x)
  PROVE  Scans(x)'
<1> DEFINE v == cq_shm_vec
<1>0. v \in Seq(Handles) /\ Len(v) \in Nat
  BY DEF PieceInv
<1>1. PICK m \in 1..Len(v) : v[m] = x
  BY Zenon DEF Scans
<1>2. CASE PushVec(r) /\ y = h[r]
  <2>1. m \in 1..Len(v') /\ v'[m] = x
    BY <1>0, <1>1, <1>2, PushFacts
  <2> QED
    BY Zenon, <2>1 DEF Scans
<1>3. CASE EraseVec(r) /\ y = h[r]
  <2>1. CASE v' = v
    BY Zenon, <1>1, <2>1 DEF Scans
  <2>2. ASSUME NEW k \in 1..Len(v), v[k] = y, v' = Without(v, k) PROVE Scans(x)'
    <3>1. /\ Len(v') = Len(v) - 1
          /\ \A l \in 1..Len(v) - 1 : v'[l] = IF l < k THEN v[l] ELSE v[l + 1]
      BY Zenon, <1>0, <2>2, WithoutEntry
    <3>2. CASE m < k
      <4>1. m \in 1..Len(v) - 1 /\ v'[m] = x
        BY <1>0, <1>1, <3>1, <3>2
      <4> QED
        BY Zenon, <4>1, <3>1 DEF Scans
    <3>3. CASE m > k
      <4>1. m - 1 \in 1..Len(v) - 1 /\ ~(m - 1 < k) /\ m - 1 + 1 = m
        BY <1>0, <3>3
      <4>2. v'[m - 1] = x
        BY Zenon, <4>1, <3>1, <1>1
      <4> QED
        BY Zenon, <4>1, <4>2, <3>1 DEF Scans
    <3> QED
      BY <1>0, <1>1, <2>2, <3>2, <3>3
  <2> QED
    BY Zenon, <1>3, <2>1, <2>2, EraseFacts
<1>4. CASE ~PushVec(r) /\ ~EraseVec(r)
  <2>1. UNCHANGED cq_shm_vec
    BY Zenon, <1>4 DEF StepOn, CreateVerb, DestroyFind, HandlerStep, StoreObject, InitCtrlShm, StorePiece, ClientMap,
                DestroyVerb, DeletePiece, ClearPiece, mapVars
  <2> QED
    BY Zenon, <2>1, <1>1 DEF Scans
<1>5. PushVec(r) \/ EraseVec(r) => y = h[r]
  <2>1. PushVec(r) \/ EraseVec(r) => pc[r] # "read"
    BY Zenon DEF PushVec, EraseVec, At
  <2>2. CreateVerb(r, y) \/ DestroyFind(r, y) => pc[r] = "read"
    BY Zenon DEF CreateVerb, DestroyFind, At
  <2> QED
    BY Zenon, <2>1, <2>2 DEF StepOn
<1> QED
  BY Zenon, <1>2, <1>3, <1>4, <1>5

LEMMA PiecesKept ==
  ASSUME Inv, PieceInv, Pieces, NEW r \in Handlers, NEW y \in Handles, StepOn(r, y), NEW x \in Handles \ {y}
  PROVE  Kept(x)
<1> USE NoneAssumption
<1>1. CASE InitCtrlShm(r)
  BY <1>1, InitFacts DEF Kept, PieceOf
<1>2. CASE DeletePiece(r) /\ y = h[r]
  <2>1. /\ \/ deleted' = deleted
           \/ cq_shm_map[y] # None /\ deleted' = deleted \cup {cq_shm_map[y]}
        /\ UNCHANGED ptr
    BY Zenon, <1>2, DeleteFacts
  <2>2. cq_shm_map[y] # None => cq_shm_map[x] # cq_shm_map[y]
    BY Zenon DEF Pieces, Stored1
  <2>3. cq_shm_map[y] # None => \A q \in Handlers : h[q] = x => sp[q] # cq_shm_map[y]
    BY Zenon DEF Pieces, MadeStored
  <2> QED
    BY Zenon, <2>1, <2>2, <2>3 DEF Kept, PieceOf
<1>3. CASE ~InitCtrlShm(r) /\ ~(DeletePiece(r) /\ y = h[r])
  <2>1. UNCHANGED <<ptr, deleted>>
    BY Zenon, <1>3 DEF StepOn, CreateVerb, DestroyFind, HandlerStep, StoreObject, StorePiece, PushVec, ClientMap,
                DestroyVerb, EraseVec, ClearPiece, pieceVars
  <2> QED
    BY Zenon, <2>1 DEF Kept
<1> QED
  BY Zenon, <1>1, <1>2, <1>3

LEMMA OtherStages ==
  ASSUME Inv, PieceInv, Pieces, Stages, NEW r \in Handlers, NEW y \in Handles, StepOn(r, y),
         NEW x \in Handles \ {y}, x \notin disturbed'
  PROVE  Stage(x)'
<1>1. Frame(r, y)
  BY Zenon, FrameStep
<1>2. Stage(x)
  BY Zenon, <1>1 DEF Frame, Stages
<1>3. Untouched(x)
  BY <1>1, ScansKept, NoneAssumption DEF Frame, Untouched
<1> QED
  BY Zenon, <1>2, <1>3, PiecesKept, UntouchedStage

(* The stage of a handle that handler r works on, and goes on to.          *)
LEMMA OwnStage ==
  ASSUME NEW r \in Handlers, NEW y \in Handles, Frame(r, y), \A q \in Handlers \ {r} : h[q] # y,
         h'[r] = y, ret'[r] = 0, owned'[y] = "no", HandlerStage(r, y)'
  PROVE  Stage(y)'
<1>1. \A q \in Handlers : h'[q] = y => q = r
  BY Zenon DEF Frame
<1>2. OnlyUser(r, y)'
  BY Zenon, <1>1 DEF OnlyUser
<1> QED
  BY Zenon, <1>1, <1>2 DEF Stage, ClientStage

(* The stage of a handle that handler r has given up.                      *)
LEMMA LeftStage ==
  ASSUME NEW r \in Handlers, NEW y \in Handles, Frame(r, y), \A q \in Handlers \ {r} : h[q] # y,
         h'[r] = None, ClientStage(y)'
  PROVE  Stage(y)'
<1>1. \A q \in Handlers : h'[q] # y
  BY NoneAssumption DEF Frame
<1> QED
  BY Zenon, <1>1 DEF Stage

(* A queue that is not disturbed gets a handle that nobody uses.           *)
LEMMA CleanCreate ==
  ASSUME Inv, NEW r \in Handlers, NEW x \in Handles, CreateVerb(r, x), x \notin disturbed'
  PROVE  owned[x] = "no" /\ ret[r] = 0 /\ \A q \in Handlers : h[q] # x
<1>1. pc[r] = "read" /\ x \notin live /\ ~BeingDestroyed(x)
  BY Zenon, CreateFacts
<1>a. owned[x] = "no"
  BY Zenon, <1>1 DEF Inv, OneHolder
<1>b. ret[r] = 0
  BY <1>1, PcNames DEF Inv, Typed
<1>3. ASSUME NEW q \in Handlers, h[q] = x PROVE FALSE
  <2>1. pc[q] \in Holding \cup Ending
    BY Zenon, <1>3 DEF Inv, Typed, Pcs
  <2>2. pc[q] \notin Ending
    BY Zenon, <1>1, <1>3 DEF BeingDestroyed, Ending
  <2>3. Holds(q)
    BY Zenon, <2>1, <2>2 DEF Holds
  <2> QED
    BY Zenon, <1>1, <1>3, <2>3 DEF Inv, OneHolder
<1> QED
  BY Zenon, <1>a, <1>b, <1>3

LEMMA StageStep ==
  ASSUME Inv, PieceInv, Pieces, Stages, [Next]_vars
  PROVE  Stages'
<1> USE NoneAssumption
<1>1. ASSUME NEW r \in Handlers, NEW y \in Handles, StepOn(r, y), y \notin disturbed' => Stage(y)'
      PROVE  Stages'
  BY Zenon, <1>1, OtherStages DEF Stages
<1>2. ASSUME NEW r \in Handlers, HandlerStep(r), disturbed \subseteq disturbed',
             \A y \in Handles :
               y = h[r] /\ Frame(r, y) /\ ret[r] = 0 /\ owned[y] = "no" /\ HandlerStage(r, y)
                 /\ (\A q \in Handlers \ {r} : h[q] # y) /\ y \notin disturbed' => Stage(y)'
      PROVE  Stages'
  <2>1. h[r] \in Handles /\ StepOn(r, h[r])
    BY Zenon, <1>2, HandlerHasHandle
  <2>2. PICK y \in Handles : y = h[r]
    BY Zenon, <2>1
  <2>3. y \notin disturbed' => Stage(y)
    BY Zenon, <1>2 DEF Stages
  <2>4. y \notin disturbed' => ret[r] = 0 /\ owned[y] = "no" /\ HandlerStage(r, y) /\ \A q \in Handlers \ {r} : h[q] # y
    BY Zenon, <2>2, <2>3 DEF Stage, OnlyUser
  <2> QED
    BY Zenon, <1>1, <1>2, <2>1, <2>2, <2>4, FrameStep
<1>3. ASSUME NEW r \in Handlers, HandlerStep(r), disturbed \subseteq disturbed', h' = h, owned' = owned,
             h[r] \in disturbed' \/ ret'[r] = ret[r],
             \A y \in Handles : y = h[r] /\ Frame(r, y) /\ HandlerStage(r, y) => HandlerStage(r, y)'
      PROVE  Stages'
  BY Zenon, <1>2, <1>3, OwnStage
<1>4. ASSUME NEW r \in Handlers, NEW y \in Handles, CreateVerb(r, y) PROVE Stages'
  <2> SUFFICES ASSUME y \notin disturbed' PROVE Stage(y)'
    BY Zenon, <1>1, <1>4 DEF StepOn
  <2>1. Frame(r, y) /\ owned[y] = "no" /\ ret[r] = 0 /\ \A q \in Handlers : h[q] # y
    BY Zenon, <1>4, FrameStep, CleanCreate DEF StepOn
  <2>2. pc'[r] = "store" /\ h'[r] = y /\ UNCHANGED <<owned, ret>>
    BY Zenon, <1>4, CreateFacts
  <2>3. HandlerStage(r, y)'
    BY Zenon, <2>2 DEF HandlerStage, Scanned, Making
  <2> QED
    BY Zenon, <2>1, <2>2, <2>3, OwnStage
<1>5. ASSUME NEW r \in Handlers, StoreObject(r) PROVE Stages'
  <2>1. pc'[r] = "init" /\ cq_map' = cq_map \cup {h[r]} /\ UNCHANGED <<h, ret, owned, disturbed>>
    BY Zenon, <1>5, StoreFacts
  <2>2. \A y : y = h[r] => HandlerStage(r, y)'
    BY Zenon, <2>1 DEF HandlerStage, Scanned
  <2> QED
    BY Zenon, <1>3, <1>5, <2>1, <2>2 DEF HandlerStep
<1>6. ASSUME NEW r \in Handlers, InitCtrlShm(r) PROVE Stages'
  <2>1. PICK o \in Objs, s \in Segs :
           /\ pc[r] = "init" /\ pc'[r] = "piece" /\ sp'[r] = o /\ name'[h[r]] = s /\ ptr'[o] = s
           /\ deleted' = deleted \ {o} /\ UNCHANGED <<cq_map, h, ret, owned, disturbed>>
    BY Zenon, <1>6, InitFacts
  <2>2. ASSUME NEW y \in Handles, y = h[r], HandlerStage(r, y) PROVE HandlerStage(r, y)'
    <3>1. y \in cq_map
      BY Zenon, <2>1, <2>2, PcNames DEF HandlerStage
    <3> QED
      BY Zenon, <2>1, <2>2, <3>1 DEF HandlerStage, Scanned, Alive
  <2> QED
    BY Zenon, <1>3, <1>6, <2>1, <2>2 DEF HandlerStep
<1>7. ASSUME NEW r \in Handlers, StorePiece(r) PROVE Stages'
  <2>1. /\ pc[r] = "piece" /\ pc'[r] = "push" /\ cq_shm_map'[h[r]] = sp[r]
        /\ UNCHANGED <<name, ptr, deleted, cq_map, h, sp, ret, owned, disturbed>>
    BY Zenon, <1>7, StorePieceFacts
  <2>2. ASSUME NEW y \in Handles, y = h[r], HandlerStage(r, y) PROVE HandlerStage(r, y)'
    <3>1. y \in cq_map /\ Alive(sp[r]) /\ ptr[sp[r]] = name[y] /\ name[y] # None
      BY Zenon, <2>1, <2>2, PcNames DEF HandlerStage
    <3> QED
      BY Zenon, <2>1, <2>2, <3>1 DEF HandlerStage, Scanned, Alive
  <2> QED
    BY Zenon, <1>3, <1>7, <2>1, <2>2 DEF HandlerStep
<1>8. ASSUME NEW r \in Handlers, PushVec(r) PROVE Stages'
  <2>1. /\ pc[r] = "push" /\ pc'[r] = "map" /\ cq_shm_vec' = Append(cq_shm_vec, h[r])
        /\ UNCHANGED <<name, ptr, deleted, cq_map, cq_shm_map, h, ret, owned, disturbed>>
    BY Zenon, <1>8, PushFacts
  <2>2. ASSUME NEW y \in Handles, y = h[r], HandlerStage(r, y) PROVE HandlerStage(r, y)'
    <3>1. y \in cq_map /\ Alive(cq_shm_map[y]) /\ ptr[cq_shm_map[y]] = name[y] /\ name[y] # None
      BY Zenon, <2>1, <2>2, PcNames DEF HandlerStage
    <3>2. Len(cq_shm_vec) \in Nat /\ Len(cq_shm_vec') = Len(cq_shm_vec) + 1 /\ cq_shm_vec'[Len(cq_shm_vec) + 1] = y
      <4>1. cq_shm_vec' = Append(cq_shm_vec, y) /\ cq_shm_vec \in Seq(Handles)
        BY Zenon, <2>1, <2>2 DEF PieceInv
      <4> QED
        BY <4>1
    <3>3. Scans(y)'
      BY <3>2 DEF Scans
    <3> QED
      BY Zenon, <2>1, <2>2, <3>1, <3>3 DEF HandlerStage, Scanned, Alive
  <2> QED
    BY Zenon, <1>3, <1>8, <2>1, <2>2 DEF HandlerStep
<1>9. ASSUME NEW r \in Handlers, ClientMap(r) PROVE Stages'
  <2>1. /\ pc[r] = "map" /\ h'[r] = None /\ owned'[h[r]] = "yes"
        /\ csp'[h[r]] = name'[h[r]] /\ (name[h[r]] # None => name'[h[r]] = name[h[r]])
        /\ UNCHANGED <<ptr, deleted, cq_map, cq_shm_map, cq_shm_vec, disturbed>>
    BY Zenon, <1>9, MapFacts
  <2>2. ASSUME NEW y \in Handles, y = h[r], Frame(r, y), HandlerStage(r, y), \A q \in Handlers \ {r} : h[q] # y
        PROVE  Stage(y)'
    <3>1. y \in cq_map /\ Alive(cq_shm_map[y]) /\ ptr[cq_shm_map[y]] = name[y] /\ name[y] # None /\ Scans(y)
      BY Zenon, <2>1, <2>2, PcNames DEF HandlerStage, Scanned
    <3>2. ClientStage(y)'
      BY Zenon, <2>1, <2>2, <3>1 DEF ClientStage, Scans, Alive
    <3> QED
      BY Zenon, <2>1, <2>2, <3>2, LeftStage
  <2> QED
    BY Zenon, <1>2, <1>9, <2>1, <2>2 DEF HandlerStep
<1>10. ASSUME NEW r \in Handlers, NEW y \in Handles, DestroyFind(r, y) PROVE Stages'
  <2> SUFFICES ASSUME y \notin disturbed' PROVE Stage(y)'
    BY Zenon, <1>1, <1>10 DEF StepOn
  <2>1. pc[r] = "read" /\ owned[y] = "yes" /\ disturbed' = disturbed /\ Frame(r, y)
    BY Zenon, <1>10, FrameStep DEF StepOn, DestroyFind, history
  <2>2. ClientStage(y) /\ \A q \in Handlers : h[q] # y
    BY Zenon, <2>1 DEF Stages, Stage, OnlyUser
  <2>3. y \in cq_map /\ Scans(y) /\ Alive(cq_shm_map[y])
    BY Zenon, <2>1, <2>2 DEF ClientStage
  <2>4. /\ pc'[r] = "verb" /\ h'[r] = y /\ owned'[y] = "no" /\ UNCHANGED <<deleted, cq_shm_map, cq_shm_vec, ret>>
    BY Zenon, <1>10, <2>3, FindFacts
  <2>5. ret[r] = 0
    BY <2>1, PcNames DEF Inv, Typed
  <2>6. HandlerStage(r, y)'
    BY Zenon, <2>3, <2>4 DEF HandlerStage, Making, Alive, Scans
  <2> QED
    BY Zenon, <2>1, <2>2, <2>4, <2>5, <2>6, OwnStage
<1>11. ASSUME NEW r \in Handlers, NEW result \in {0, EBUSY}, DestroyVerb(r, result) PROVE Stages'
  <2>1. /\ pc[r] = "verb" /\ pc'[r] = "erase" /\ disturbed' = IF result = 0 THEN disturbed ELSE disturbed \cup {h[r]}
        /\ ret'[r] = result /\ UNCHANGED <<deleted, cq_shm_map, cq_shm_vec, h, owned>>
    BY Zenon, <1>11, VerbFacts
  <2>2. ASSUME NEW y \in Handles, y = h[r], Frame(r, y), HandlerStage(r, y), owned[y] = "no",
               \A q \in Handlers \ {r} : h[q] # y, y \notin disturbed'
        PROVE  Stage(y)'
    <3>1. Scans(y) /\ Alive(cq_shm_map[y]) /\ ret'[r] = 0
      BY Zenon, <2>1, <2>2 DEF HandlerStage, Scanned
    <3>2. HandlerStage(r, y)'
      BY Zenon, <2>1, <3>1 DEF HandlerStage, Making, Alive, Scans
    <3> QED
      BY Zenon, <2>1, <2>2, <3>1, <3>2, OwnStage
  <2> QED
    BY Zenon, <1>2, <1>11, <2>1, <2>2 DEF HandlerStep
<1>12. ASSUME NEW r \in Handlers, EraseVec(r) \/ DeletePiece(r) PROVE Stages'
  <2>1. pc'[r] \in {"delete", "clear"} /\ UNCHANGED <<h, ret, owned, disturbed>>
    BY Zenon, <1>12, EraseFacts, DeleteFacts
  <2>2. \A y : HandlerStage(r, y)'
    BY Zenon, <2>1 DEF HandlerStage, Making, Scanned
  <2> QED
    BY Zenon, <1>3, <1>12, <2>1, <2>2 DEF HandlerStep
<1>13. ASSUME NEW r \in Handlers, ClearPiece(r) PROVE Stages'
  <2>1. h'[r] = None /\ disturbed' = disturbed /\ (ret[r] = 0 => owned'[h[r]] = owned[h[r]])
    BY Zenon, <1>13, ClearFacts
  <2>2. \A y : owned'[y] = "no" => ClientStage(y)'
    BY Zenon DEF ClientStage
  <2> QED
    BY Zenon, <1>2, <1>13, <2>1, <2>2, LeftStage DEF HandlerStep
<1>14. CASE (\E y \in Handles : Request(y) \/ Return(y)) \/ LoopStep \/ UNCHANGED vars
  <2>1. UNCHANGED <<name, ptr, deleted, cq_map, cq_shm_map, cq_shm_vec, pc, h, sp, ret, csp, disturbed>>
    BY Zenon, <1>14 DEF Request, Return, LoopStep, LoopLock, LoopLook, LoopUnlock, LoopServe, kernelVars, pieceVars,
                 mapVars, handlerVars, clientVars, history, vars
  <2>2. \A x \in Handles : owned'[x] = owned[x] \/ {owned[x], owned'[x]} \subseteq Has
    BY <1>14 DEF Request, Return, LoopStep, LoopLock, LoopLook, LoopUnlock, LoopServe, clientVars, vars, Inv, Typed, Has
  <2>3. \A x \in Handles : Untouched(x) /\ Kept(x)
    BY Zenon, <2>1, <2>2 DEF Untouched, Scans, Kept
  <2> QED
    BY Zenon, <2>1, <2>3, UntouchedStage DEF Stages
<1> QED
  BY Zenon, <1>4, <1>5, <1>6, <1>7, <1>8, <1>9, <1>10, <1>11, <1>12, <1>13, <1>14 DEF Next, HandlerStep

----------------------------------------------------------------------------
(* CtrlChannelLoop.                                                        *)

LEMMA EntryHasToken ==
  ASSUME Counted, NEW x \in Handles, NEW k \in 1..Len(cq_shm_vec), cq_shm_vec[k] = x
  PROVE  Tokens(x) # {}
BY Zenon DEF Counted, Fits, Places

(* The entry that the loop is at keeps its piece as long as it is not      *)
(* disturbed: whoever would replace the piece or clear it is the one user  *)
(* of a handle that the loop does not scan yet, or no longer.              *)
LEMMA EntryKept ==
  ASSUME Inv, PieceInv, Counted, Stages, [Next]_vars,
         NEW z \in Handles, NEW k \in 1..Len(cq_shm_vec), cq_shm_vec[k] = z, z \notin disturbed'
  PROVE  z \notin disturbed /\ cq_shm_map'[z] = cq_shm_map[z]
<1> USE NoneAssumption
<1>t. Tokens(z) # {}
  BY Zenon, EntryHasToken
<1>1. ASSUME NEW r \in Handlers, NEW y \in Handles, StepOn(r, y), y # z
      PROVE  z \notin disturbed /\ cq_shm_map'[z] = cq_shm_map[z]
  BY <1>1, FrameStep DEF Frame
<1>2. ASSUME NEW r \in Handlers, CreateVerb(r, z) PROVE FALSE
  BY <1>2, <1>t, CleanCreate DEF Tokens
<1>3. ASSUME NEW r \in Handlers, disturbed' = disturbed, pc[r] \in {"piece", "clear"}, h[r] = z
      PROVE  FALSE
  <2>1. owned[z] = "no" /\ \A q \in Handlers : h[q] = z => q = r
    BY Zenon, <1>3 DEF Stages, Stage, OnlyUser
  <2>2. Tokens(z) = {}
    BY Zenon, <2>1, <1>3 DEF Tokens, Scanned
  <2> QED
    BY Zenon, <1>t, <2>2
<1>4. ASSUME NEW r \in Handlers, HandlerStep(r), h[r] = z
      PROVE  z \notin disturbed /\ cq_shm_map'[z] = cq_shm_map[z]
  <2>1. ~StorePiece(r) /\ ~ClearPiece(r)
    BY Zenon, <1>3, <1>4, StorePieceFacts, ClearFacts
  <2>2. CASE \E result \in {0, EBUSY} : DestroyVerb(r, result)
    BY Zenon, <2>2, VerbFacts
  <2>3. CASE StoreObject(r) \/ InitCtrlShm(r) \/ PushVec(r) \/ ClientMap(r) \/ EraseVec(r) \/ DeletePiece(r)
    BY Zenon, <2>3, StoreFacts, InitFacts, PushFacts, MapFacts, EraseFacts, DeleteFacts
  <2> QED
    BY Zenon, <1>4, <2>1, <2>2, <2>3 DEF HandlerStep
<1>5. ASSUME NEW r \in Handlers, DestroyFind(r, z)
      PROVE  z \notin disturbed /\ cq_shm_map'[z] = cq_shm_map[z]
  BY Zenon, <1>5 DEF DestroyFind, history
<1>6. CASE (\E x \in Handles : Request(x) \/ Return(x)) \/ LoopStep \/ UNCHANGED vars
  BY Zenon, <1>6 DEF Request, Return, LoopStep, LoopLock, LoopLook, LoopUnlock, LoopServe, mapVars, history, vars
<1>7. ASSUME NEW r \in Handlers, HandlerStep(r)
      PROVE  z \notin disturbed /\ cq_shm_map'[z] = cq_shm_map[z]
  BY Zenon, <1>1, <1>4, <1>7, HandlerHasHandle
<1>8. ASSUME NEW r \in Handlers, NEW y \in Handles, CreateVerb(r, y) \/ DestroyFind(r, y)
      PROVE  z \notin disturbed /\ cq_shm_map'[z] = cq_shm_map[z]
  BY Zenon, <1>1, <1>2, <1>5, <1>8 DEF StepOn
<1> QED
  BY Zenon, <1>6, <1>7, <1>8 DEF Next

LEMMA LoopAtStep ==
  ASSUME Inv, PieceInv, Counted, Stages, LoopAt, [Next]_vars
  PROVE  LoopAt'
<1>1. CASE LoopLook
  <2>1. /\ UNCHANGED <<cq_shm_map, cq_shm_vec>>
        /\ \/ UNCHANGED lpc
           \/ i' = i /\ cur' = cq_shm_map[cq_shm_vec[i + 1]]
        /\ lpc = "look" /\ i < Len(cq_shm_vec)
    BY Zenon, <1>1 DEF LoopLook, mapVars
  <2> QED
    BY Zenon, <2>1 DEF LoopAt
<1>2. CASE LoopLock \/ LoopUnlock \/ \E count \in 0..MaxCount : LoopServe(count)
  <2>1. lpc' # "at"
    BY Zenon, <1>2 DEF LoopLock, LoopUnlock, LoopServe
  <2> QED
    BY Zenon, <2>1 DEF LoopAt
<1>3. CASE ~LoopStep
  <2>1. UNCHANGED <<lpc, i, cur>>
    BY <1>3 DEF Next, vars, loopVars, CreateVerb, DestroyFind, HandlerStep, StoreObject, InitCtrlShm, StorePiece,
                PushVec, ClientMap, DestroyVerb, EraseVec, DeletePiece, ClearPiece, Request, Return
  <2>2. lpc # "lock" => UNCHANGED cq_shm_vec
    BY <1>3 DEF Next, vars, mapVars, CreateVerb, DestroyFind, HandlerStep, StoreObject, InitCtrlShm, StorePiece,
                PushVec, ClientMap, DestroyVerb, EraseVec, DeletePiece, ClearPiece, Request, Return, VecFree
  <2> SUFFICES ASSUME lpc = "at"
               PROVE  /\ i < Len(cq_shm_vec)
                      /\ cq_shm_vec[i + 1] \notin disturbed' => cur = cq_shm_map'[cq_shm_vec[i + 1]]
    BY Zenon, <2>1, <2>2 DEF LoopAt
  <2>3. i + 1 \in 1..Len(cq_shm_vec) /\ i < Len(cq_shm_vec)
    BY DEF LoopAt, PieceInv
  <2>4. cq_shm_vec[i + 1] \in Handles
    BY <2>3 DEF PieceInv
  <2>5. cq_shm_vec[i + 1] \notin disturbed' =>
          /\ cq_shm_vec[i + 1] \notin disturbed
          /\ cq_shm_map'[cq_shm_vec[i + 1]] = cq_shm_map[cq_shm_vec[i + 1]]
    BY Zenon, <2>3, <2>4, EntryKept
  <2> QED
    BY Zenon, <2>3, <2>5 DEF LoopAt
<1> QED
  BY Zenon, <1>1, <1>2, <1>3 DEF LoopStep

----------------------------------------------------------------------------
LEMMA InitServed == Init => ServedInv
<1> SUFFICES ASSUME Init PROVE ServedInv
  BY Zenon
<1> USE NoneAssumption DEF Init
<1>0. \A r \in Handlers : h[r] \notin Handles
  BY Zenon
<1>b. Stages
  BY Zenon, <1>0 DEF Stages, Stage, ClientStage
<1>1. LoopAt
  BY Zenon DEF LoopAt
<1>2. Pieces
  BY Zenon DEF Pieces, Stored1, Made1, MadeAt, MadeStored
<1>3. Counted
  <2>1. \A x : Places(cq_shm_vec, x) = {}
    BY DEF Places
  <2> QED
    BY Zenon, <2>1, FitsNone DEF Counted
<1> QED
  BY Zenon, <1>1, <1>2, <1>3, <1>b DEF ServedInv

LEMMA NextServed == Inv /\ PieceInv /\ ServedInv /\ [Next]_vars => ServedInv'
BY Zenon, PiecesStep, CountStep, StageStep, LoopAtStep DEF ServedInv

LEMMA AlwaysServed == Spec => [](Inv /\ PieceInv /\ ServedInv)
<1>1. Init => Inv /\ PieceInv /\ ServedInv
  BY Zenon, InitInv, InitPieces, InitServed
<1>2. Inv /\ PieceInv /\ ServedInv /\ [Next]_vars => Inv' /\ PieceInv' /\ ServedInv'
  BY Zenon, NextInv, NextPieces, NextServed DEF Inv
<1> QED
  BY <1>1, <1>2, PTL DEF Spec

(* A queue that HandleRequest has created for a client, and neither lost   *)
(* to a destruction that failed nor built on a handle whose destruction    *)
(* had not ended, is in cq_map, is scanned by CtrlChannelLoop, and its     *)
(* ShmPiece is not deleted and maps the segment that the client mapped.    *)
THEOREM OwnedAlwaysServed == Spec => []OwnedIsServed
<1>1. Inv /\ PieceInv /\ ServedInv => OwnedIsServed
  <2> SUFFICES ASSUME Inv, PieceInv, ServedInv, NEW x \in Handles, x \notin disturbed,
                      owned[x] \in {"yes", "waiting"}
               PROVE  /\ x \in cq_map /\ x \in Range(cq_shm_vec)
                      /\ cq_shm_map[x] \notin deleted \cup {None}
                      /\ ptr[cq_shm_map[x]] = csp[x]
    BY Zenon DEF OwnedIsServed
  <2>1. x \in cq_map /\ Scans(x) /\ Alive(cq_shm_map[x]) /\ ptr[cq_shm_map[x]] = csp[x]
    BY Zenon DEF ServedInv, Stages, Stage, ClientStage
  <2>2. x \in Range(cq_shm_vec)
    BY <2>1 DEF Scans, Range, PieceInv
  <2> QED
    BY Zenon, <2>1, <2>2, NoneAssumption DEF Alive
<1> QED
  BY <1>1, AlwaysServed, PTL

(* HandleRequest deletes a ShmPiece without cq_shm_vec_mtx; it is not the  *)
(* one that CtrlChannelLoop looks into, but for a queue that was disturbed:*)
(* the entry of cq_shm_vec is erased first, under the mutex, and no other  *)
(* entry of that handle is left.                                           *)
THEOREM LoopPieceAlwaysAlive == Spec => []LoopPieceAlive
<1>1. Inv /\ PieceInv /\ ServedInv => LoopPieceAlive
  <2> SUFFICES ASSUME Inv, PieceInv, ServedInv, lpc = "at", cur \in deleted
               PROVE  i < Len(cq_shm_vec) /\ cq_shm_vec[i + 1] \in disturbed
    BY Zenon DEF LoopPieceAlive
  <2>1. i < Len(cq_shm_vec) /\ i + 1 \in 1..Len(cq_shm_vec)
    BY DEF ServedInv, LoopAt, PieceInv
  <2>2. PICK z \in Handles : cq_shm_vec[i + 1] = z
    BY <2>1 DEF PieceInv
  <2>3. Tokens(z) # {}
    BY Zenon, <2>1, <2>2, EntryHasToken DEF ServedInv
  <2>4. ASSUME z \notin disturbed PROVE FALSE
    <3>1. cur = cq_shm_map[z] /\ Stage(z)
      BY Zenon, <2>2, <2>4 DEF ServedInv, LoopAt, Stages
    <3>2. ~Alive(cq_shm_map[z])
      BY Zenon, <3>1 DEF Alive
    <3>3. owned[z] = "no"
      BY Zenon, <3>1, <3>2 DEF Stage, ClientStage
    <3>4. PICK r \in Handlers : h[r] = z /\ pc[r] \in Scanned
      BY Zenon, <2>3, <3>3 DEF Tokens
    <3>5. HandlerStage(r, z)
      BY Zenon, <3>1, <3>4 DEF Stage
    <3> QED
      BY Zenon, <3>2, <3>4, <3>5 DEF HandlerStage
  <2> QED
    BY Zenon, <2>1, <2>2, <2>4
<1> QED
  BY <1>1, AlwaysServed, PTL
====
