--------------------------- MODULE QueueLifecycle ---------------------------
(***************************************************************************)
(* Creation and destruction of the queues that the control channel serves. *)
(* A client asks for them over a socket, and the router runs HandleRequest *)
(* in a thread of its own for every connection, so that the handlers run   *)
(* beside each other and beside CtrlChannelLoop.  Queue pairs, completion  *)
(* queues and shared receive queues are created and destroyed by the same  *)
(* statements on maps of their own; kind says which of them a behaviour is *)
(* about, and the names are those of the completion queue.                 *)
(*                                                                         *)
(* The mailbox of a queue is a segment of shared memory that is named      *)
(* after the queue's handle (`ctrlshm-cq5'), and handles are used again.   *)
(***************************************************************************)
EXTENDS Integers, Sequences, Functions

CONSTANTS
  Handlers,    \* threads that run HandleRequest
  Handles,     \* handles that the kernel gives to queues
  Objs,        \* ShmPiece objects of the router
  Segs,        \* shared memory segments
  Kinds,       \* of "qp", "cq" and "srq"
  MaxCreates,  \* bound on the queues created
  MaxCount,    \* completions one poll may return
  None

ASSUME KindAssumption == Kinds \subseteq {"qp", "cq", "srq"} /\ MaxCreates \in Nat
ASSUME NoneAssumption == None \notin Handlers \cup Handles \cup Objs \cup Segs

VARIABLES
  kind,            \* the kind of the queues, from the start
  live,            \* the kernel: handles in use
  cq_map,          \* handles whose entry of cq_map is not NULL
  cq_shm_map,      \* the ShmPiece of a handle, or None (NULL)
  cq_shm_vec,      \* handles that CtrlChannelLoop scans
  name,            \* the segment linked under the name of a handle, or None
  ptr, deleted,    \* ShmPiece objects: the segment each maps; those deleted
  state,           \* the state word of each segment
  pc, h, sp, ret,  \* handlers: where each is, and its local variables
  owned, csp,      \* clients: what they do with a handle; the segment mapped
  lpc, i, cur,     \* CtrlChannelLoop: where it is, its index, its piece
  disturbed,       \* history: see CreateVerb and DestroyVerb
  created          \* for the bound

kernelVars == <<kind, live, name>>
pieceVars == <<ptr, deleted, state>>
mapVars == <<cq_map, cq_shm_map, cq_shm_vec>>
handlerVars == <<pc, h, sp, ret>>
clientVars == <<owned, csp>>
loopVars == <<lpc, i, cur>>
history == <<disturbed, created>>
vars == <<kernelVars, pieceVars, mapVars, handlerVars, clientVars, loopVars, history>>

Init ==
  /\ kind \in Kinds /\ disturbed = {} /\ created = 0
  /\ live = {} /\ name = [x \in Handles |-> None]
  /\ ptr = [o \in Objs |-> None] /\ deleted = {} /\ state = [s \in Segs |-> "IDLE"]
  /\ cq_map = {} /\ cq_shm_map = [x \in Handles |-> None] /\ cq_shm_vec = <<>>
  /\ pc = [r \in Handlers |-> "read"] /\ h = [r \in Handlers |-> None]
  /\ sp = [r \in Handlers |-> None] /\ ret = [r \in Handlers |-> 0]
  /\ owned = [x \in Handles |-> "no"] /\ csp = [x \in Handles |-> None]
  /\ lpc = "lock" /\ i = 0 /\ cur = None

At(r, from, to) == pc[r] = from /\ pc' = [pc EXCEPT ![r] = to]

(* CtrlChannelLoop holds cq_shm_vec_mtx during a pass.                     *)
VecFree == lpc = "lock"

(* A new ShmPiece is an object that nothing refers to.                     *)
UsedObjs == Range(cq_shm_map) \cup Range(sp) \cup {cur}
NewPiece == CHOOSE o \in Objs : o \notin UsedObjs

(* shm_open with O_CREAT: the segment linked under the name, or a new one. *)
UsedSegs == Range(name) \cup Range(csp) \cup {ptr[o] : o \in UsedObjs \ {None}}
ShmOpen(x) ==
  IF name[x] = None THEN CHOOSE s \in Segs : s \notin UsedSegs ELSE name[x]

(* The bounds: there is an object, and a segment if one is to be made.     *)
ObjLeft == \E o \in Objs : o \notin UsedObjs
SegLeft(x) == name[x] = None => \E s \in Segs : s \notin UsedSegs

----------------------------------------------------------------------------
(* IBV_CREATE_CQ, IBV_CREATE_QP, IBV_CREATE_SRQ.                           *)

(* The end of a destruction of handle x is still to come.                  *)
BeingDestroyed(x) ==
  \E r \in Handlers : h[r] = x /\ pc[r] \in {"erase", "delete", "clear"}

(* ibv_create_cq.  The kernel gives a handle that is not in use.  A queue  *)
(* is disturbed when it got the handle of one whose destruction has freed  *)
(* it but has not ended.                                                   *)
CreateVerb(r, x) ==
  /\ At(r, "read", "store") /\ x \notin live
  /\ created < MaxCreates /\ created' = created + 1
  /\ live' = live \cup {x} /\ h' = [h EXCEPT ![r] = x]
  /\ disturbed' = IF BeingDestroyed(x) THEN disturbed \cup {x} ELSE disturbed \ {x}
  /\ UNCHANGED <<kind, name, pieceVars, mapVars, sp, ret, clientVars, loopVars>>

StoreObject(r) ==
  /\ At(r, "store", "init")
  /\ cq_map' = cq_map \cup {h[r]}
  /\ UNCHANGED <<kernelVars, pieceVars, cq_shm_map, cq_shm_vec, h, sp, ret, clientVars, loopVars, history>>

(* initCtrlShm: a new ShmPiece is opened, cleared and set IDLE.            *)
InitCtrlShm(r) ==
  /\ At(r, "init", "piece") /\ ObjLeft /\ SegLeft(h[r])
  /\ LET s == ShmOpen(h[r]) IN
       /\ name' = [name EXCEPT ![h[r]] = s]
       /\ ptr' = [ptr EXCEPT ![NewPiece] = s] /\ deleted' = deleted \ {NewPiece}
       /\ state' = [state EXCEPT ![s] = "IDLE"]
  /\ sp' = [sp EXCEPT ![r] = NewPiece]
  /\ UNCHANGED <<kind, live, mapVars, h, ret, clientVars, loopVars, history>>

StorePiece(r) ==
  /\ At(r, "piece", "push")
  /\ cq_shm_map' = [cq_shm_map EXCEPT ![h[r]] = sp[r]]
  /\ UNCHANGED <<kernelVars, pieceVars, cq_map, cq_shm_vec, h, sp, ret, clientVars, loopVars, history>>

PushVec(r) ==
  /\ At(r, "push", "map") /\ VecFree
  /\ cq_shm_vec' = Append(cq_shm_vec, h[r])
  /\ sp' = [sp EXCEPT ![r] = None]
  /\ UNCHANGED <<kernelVars, pieceVars, cq_map, cq_shm_map, h, ret, clientVars, loopVars, history>>

(* The response arrives and the client maps the segment of that name.      *)
ClientMap(r) ==
  /\ At(r, "map", "read") /\ SegLeft(h[r])
  /\ LET s == ShmOpen(h[r]) IN
       /\ name' = [name EXCEPT ![h[r]] = s]
       /\ state' = IF name[h[r]] = None THEN [state EXCEPT ![s] = "IDLE"] ELSE state
       /\ csp' = [csp EXCEPT ![h[r]] = s]
  /\ owned' = [owned EXCEPT ![h[r]] = "yes"]
  /\ h' = [h EXCEPT ![r] = None]
  /\ UNCHANGED <<kind, live, ptr, deleted, mapVars, sp, ret, loopVars, history>>

----------------------------------------------------------------------------
(* IBV_DESTROY_CQ, IBV_DESTROY_QP, IBV_DESTROY_SRQ.                        *)

(* The client destroys a queue that it is not using.  The router looks it  *)
(* up; without an entry it goes to `end' and sends no response.            *)
DestroyFind(r, x) ==
  /\ pc[r] = "read" /\ owned[x] = "yes"
  /\ IF x \in cq_map
       THEN /\ pc' = [pc EXCEPT ![r] = "verb"] /\ h' = [h EXCEPT ![r] = x]
            /\ cq_map' = cq_map \ {x}
            /\ owned' = [owned EXCEPT ![x] = "no"]
       ELSE /\ owned' = [owned EXCEPT ![x] = "no response"]
            /\ UNCHANGED <<pc, h, cq_map>>
  /\ UNCHANGED <<kernelVars, pieceVars, cq_shm_map, cq_shm_vec, sp, ret, csp, loopVars, history>>

(* The error of a destruction the host refuses, the queue being in use.    *)
EBUSY == 16

(* ibv_destroy_cq.  It fails for a completion queue, or a shared receive   *)
(* queue, that a queue pair still uses, and the queue is disturbed.        *)
DestroyVerb(r, result) ==
  /\ At(r, "verb", "erase") /\ (kind = "qp" => result = 0)
  /\ disturbed' = IF result = 0 THEN disturbed ELSE disturbed \cup {h[r]}
  /\ ret' = [ret EXCEPT ![r] = result]
  /\ live' = IF result = 0 THEN live \ {h[r]} ELSE live
  /\ csp' = IF result = 0 THEN [csp EXCEPT ![h[r]] = None] ELSE csp
  /\ UNCHANGED <<kind, name, pieceVars, mapVars, h, sp, owned, loopVars, created>>

(* vec.erase(std::find(x)): cq_shm_vec without the first x, if any.        *)
Found(x) ==
  {k \in DOMAIN cq_shm_vec :
     cq_shm_vec[k] = x /\ \A l \in 1..k - 1 : cq_shm_vec[l] # x}
Erased(x) ==
  IF x \notin Range(cq_shm_vec) THEN {cq_shm_vec}
  ELSE {SubSeq(cq_shm_vec, 1, k - 1) \o SubSeq(cq_shm_vec, k + 1, Len(cq_shm_vec)) : k \in Found(x)}

(* Mutant of EraseVec: the first entry is erased, whatever it is.          *)
EraseVecFirst(r) ==
  /\ At(r, "erase", "delete") /\ VecFree
  /\ cq_shm_vec' = Tail(cq_shm_vec)
  /\ UNCHANGED <<kernelVars, pieceVars, cq_map, cq_shm_map, h, sp, ret, clientVars, loopVars, history>>

(* Mutant of EraseVec: erases without cq_shm_vec_mtx.                      *)
EraseVecUnlocked(r) ==
  /\ At(r, "erase", "delete")
  /\ cq_shm_vec' \in Erased(h[r])
  /\ UNCHANGED <<kernelVars, pieceVars, cq_map, cq_shm_map, h, sp, ret, clientVars, loopVars, history>>

(* Mutant of EraseVec: cq_map is cleared here, after ibv_destroy_cq.       *)
EraseVecAndMap(r) ==
  /\ At(r, "erase", "delete") /\ VecFree
  /\ cq_shm_vec' \in Erased(h[r]) /\ cq_map' = cq_map \ {h[r]}
  /\ UNCHANGED <<kernelVars, pieceVars, cq_shm_map, h, sp, ret, clientVars, loopVars, history>>

(* std::find and erase, under the mutex.                                   *)
EraseVec(r) ==
  /\ At(r, "erase", "delete") /\ VecFree
  /\ cq_shm_vec' \in Erased(h[r])
  /\ UNCHANGED <<kernelVars, pieceVars, cq_map, cq_shm_map, h, sp, ret, clientVars, loopVars, history>>

(* `if (sp) delete sp', which unlinks the name.                            *)
DeletePiece(r) ==
  LET o == cq_shm_map[h[r]] IN
  /\ At(r, "delete", "clear")
  /\ IF o = None THEN UNCHANGED <<deleted, name>>
       ELSE /\ deleted' = deleted \cup {o} /\ name' = [name EXCEPT ![h[r]] = None]
  /\ UNCHANGED <<kind, live, ptr, state, mapVars, h, sp, ret, clientVars, loopVars, history>>

(* The entry is set to NULL and the response is sent; when the verb failed *)
(* the client still has its queue.                                         *)
ClearPiece(r) ==
  /\ At(r, "clear", "read")
  /\ cq_shm_map' = [cq_shm_map EXCEPT ![h[r]] = None]
  /\ owned' = IF ret[r] = 0 THEN owned ELSE [owned EXCEPT ![h[r]] = "yes"]
  /\ h' = [h EXCEPT ![r] = None] /\ ret' = [ret EXCEPT ![r] = 0]
  /\ UNCHANGED <<kernelVars, pieceVars, cq_map, cq_shm_vec, sp, csp, loopVars, history>>

----------------------------------------------------------------------------
(* A client uses a queue that it has: one request at a time, as in         *)
(* CtrlChannel.                                                            *)
Request(x) ==
  /\ owned[x] = "yes" /\ state[csp[x]] = "IDLE"
  /\ owned' = [owned EXCEPT ![x] = "waiting"]
  /\ state' = [state EXCEPT ![csp[x]] = "REQ_DONE"]
  /\ UNCHANGED <<kernelVars, ptr, deleted, mapVars, handlerVars, csp, loopVars, history>>

Return(x) ==
  /\ owned[x] = "waiting" /\ state[csp[x]] = "RSP_DONE"
  /\ owned' = [owned EXCEPT ![x] = "yes"]
  /\ state' = [state EXCEPT ![csp[x]] = "IDLE"]
  /\ UNCHANGED <<kernelVars, ptr, deleted, mapVars, handlerVars, csp, loopVars, history>>

----------------------------------------------------------------------------
(* CtrlChannelLoop, the pass over the queues of this kind.                 *)

LoopLock ==
  /\ lpc = "lock" /\ lpc' = "look" /\ i' = 0
  /\ UNCHANGED <<kernelVars, pieceVars, mapVars, handlerVars, clientVars, cur, history>>

(* sp = cq_shm_map[cq_shm_vec[i]]; `if (sp)'.                              *)
LoopLook ==
  LET o == cq_shm_map[cq_shm_vec[i + 1]] IN
  /\ lpc = "look" /\ i < Len(cq_shm_vec)
  /\ IF o = None THEN i' = i + 1 /\ UNCHANGED <<lpc, cur>>
                 ELSE lpc' = "at" /\ cur' = o /\ UNCHANGED i
  /\ UNCHANGED <<kernelVars, pieceVars, mapVars, handlerVars, clientVars, history>>

(* The queue that the request in segment s names is in cq_map.             *)
Known(s) == \E x \in cq_map : owned[x] = "waiting" /\ csp[x] = s

(* The queue named in the request is looked up, the verb is performed and  *)
(* answered.  A poll of a queue that is not in the map is not answered,    *)
(* and the loop over the completions of a poll leaves their count in i.    *)
(* A post to a queue pair that is not in the map would follow a null       *)
(* pointer; ServedQueueKnown says that it does not happen.                 *)
LoopServe(count) ==
  LET s == ptr[cur]
      hit == state[s] = "REQ_DONE"
      poll == kind = "cq" /\ hit
      known == Known(s)
  IN
  /\ lpc = "at" /\ lpc' = "look" /\ cur' = None
  /\ (poll /\ known) \/ count = 0
  /\ state' = IF hit /\ (known \/ ~poll) THEN [state EXCEPT ![s] = "RSP_DONE"] ELSE state
  /\ i' = IF poll /\ known THEN count + 1 ELSE i + 1
  /\ UNCHANGED <<kernelVars, ptr, deleted, mapVars, handlerVars, clientVars, history>>

(* Mutant of LoopUnlock: the pass ends one entry early.                    *)
LoopUnlockEarly ==
  /\ lpc = "look" /\ i >= Len(cq_shm_vec) - 1 /\ lpc' = "lock" /\ i' = 0
  /\ UNCHANGED <<kernelVars, pieceVars, mapVars, handlerVars, clientVars, cur, history>>

LoopUnlock ==
  /\ lpc = "look" /\ i >= Len(cq_shm_vec) /\ lpc' = "lock" /\ i' = 0
  /\ UNCHANGED <<kernelVars, pieceVars, mapVars, handlerVars, clientVars, cur, history>>

----------------------------------------------------------------------------
HandlerStep(r) ==
  \/ StoreObject(r) \/ InitCtrlShm(r) \/ StorePiece(r) \/ PushVec(r) \/ ClientMap(r)
  \/ \E result \in {0, EBUSY} : DestroyVerb(r, result)
  \/ EraseVec(r) \/ DeletePiece(r) \/ ClearPiece(r)

LoopStep ==
  LoopLock \/ LoopLook \/ LoopUnlock \/ \E count \in 0..MaxCount : LoopServe(count)

Next ==
  \/ \E r \in Handlers, x \in Handles : CreateVerb(r, x) \/ DestroyFind(r, x)
  \/ \E r \in Handlers : HandlerStep(r)
  \/ \E x \in Handles : Request(x) \/ Return(x)
  \/ LoopStep

Spec == Init /\ [][Next]_vars

(* CtrlChannelLoop and a client inside a verb do not stop; the handlers    *)
(* need no fairness.                                                       *)
FairSpec == Spec /\ WF_vars(LoopStep) /\ \A x \in Handles : WF_vars(Return(x))

----------------------------------------------------------------------------
(* Properties.                                                             *)

(* A queue that a client has is one that the router serves: the router     *)
(* knows it, scans it, and looks at the segment that the client mapped.    *)
(* The exceptions are a queue whose destruction failed, and one that got   *)
(* its handle before the destruction of the handle's last queue had ended. *)
OwnedIsServed ==
  \A x \in Handles \ disturbed : owned[x] \in {"yes", "waiting"} =>
    /\ x \in cq_map /\ x \in Range(cq_shm_vec)
    /\ cq_shm_map[x] \notin deleted \cup {None}
    /\ ptr[cq_shm_map[x]] = csp[x]

(* CtrlChannelLoop never looks into a ShmPiece that HandleRequest has      *)
(* deleted, although the deletion is not under cq_shm_vec_mtx, but for a   *)
(* queue that was disturbed.                                               *)
LoopPieceAlive ==
  lpc = "at" /\ cur \in deleted =>
    i < Len(cq_shm_vec) /\ cq_shm_vec[i + 1] \in disturbed

(* A post that CtrlChannelLoop finds names a queue pair that is in qp_map, *)
(* whatever handlers are creating and destroying, disturbed or not: qp is  *)
(* not NULL.                                                               *)
ServedQueueKnown ==
  kind = "qp" /\ lpc = "at" /\ state[ptr[cur]] = "REQ_DONE" => Known(ptr[cur])

(* A request on a queue pair or a shared receive queue that the client has *)
(* is answered, with the same exceptions, whatever queues are created and  *)
(* destroyed meanwhile.                                                    *)
RequestAnswered ==
  \A x \in Handles :
    owned[x] = "waiting" /\ kind # "cq" ~> owned[x] = "yes" \/ x \in disturbed
=============================================================================
