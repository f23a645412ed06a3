----------------------------- MODULE CtrlChannel -----------------------------
(***************************************************************************)
(* The fast data path of FreeFlow: threads of a client process forward a   *)
(* verb to the router through a control piece of shared memory (struct     *)
(* CtrlShmPiece), and the one router thread that runs CtrlChannelLoop      *)
(* scans the pieces of all queue pairs, completion queues and shared       *)
(* receive queues, performs the verb on the NIC, and answers in place.     *)
(*                                                                         *)
(* A piece is a one-slot mailbox whose `state' word alternates             *)
(*     IDLE -> REQ_DONE (client) -> RSP_DONE (router) -> IDLE (client).    *)
(* The client side is ibv_cmd_post_send, ibv_cmd_post_recv,                *)
(* ibv_cmd_post_srq_recv and ibv_cmd_poll_cq (libibverbs src/cmd.c), which *)
(* share one shape: lock the piece, fill the request, call                 *)
(* request_router_shm, read the response, set IDLE, unlock.                *)
(* The set of pieces is fixed here; QueueLifecycle creates and destroys    *)
(* them.                                                                   *)
(***************************************************************************)
EXTENDS VerbRsp, Sequences, Functions

CONSTANTS
  Threads,   \* client threads, of one or of several client processes
  ShmVec,    \* qp_shm_vec, cq_shm_vec, srq_shm_vec: a sequence of pieces per kind
  MaxWr,     \* longest list of work requests posted, largest ne polled for
  CqDepth,   \* completions a completion queue holds
  None       \* no thread

Kinds == {"qp", "cq", "srq"}
Pieces == UNION {Range(ShmVec[k]) : k \in Kinds}
PiecesOf(k) == Range(ShmVec[k])

ASSUME PieceAssumption ==
  /\ ShmVec \in [Kinds -> Seq(Pieces)]
  /\ \A k, l \in Kinds : \A i \in DOMAIN ShmVec[k], j \in DOMAIN ShmVec[l] :
       ShmVec[k][i] = ShmVec[l][j] => k = l /\ i = j
ASSUME BoundAssumption == MaxWr \in Nat \ {0} /\ CqDepth \in Nat

VARIABLES
  \* shared memory, one mailbox per piece
  state, req, rsp,
  \* the client threads: where each is, what it was called with, what it returned
  mtx, pc, call, ret,
  \* the router thread: its pass, its loop index i, the piece it is at
  pass, i, rpc, cur,
  \* the NIC: completions waiting in each completion queue
  cqe,
  \* history: what the NIC did for the thread's call, one entry per execution
  outcome,
  \* history: pieces that were REQ_DONE when the pass began, not answered yet
  due

shmVars == <<state, req, rsp>>
clientVars == <<mtx, pc, call, ret>>
routerVars == <<pass, i, rpc, cur, due>>
nicVars == <<cqe, outcome>>
vars == <<shmVars, clientVars, routerVars, nicVars>>

Calls == [by : Threads, piece : Pieces, n : 1..MaxWr]
ASSUME NoneAssumption == None \notin Threads \cup Calls

Responses == [ret_errno : {0, 1}, bad_wr : 0..MaxWr, rsp_size : 0..MaxWr]

Init ==
  /\ state = [p \in Pieces |-> "IDLE"]
  /\ req = [p \in Pieces |-> None]
  /\ rsp = [p \in Pieces |-> PollRsp(0)]
  /\ mtx = [p \in Pieces |-> None]
  /\ pc = [t \in Threads |-> "out"]
  /\ call = [t \in Threads |-> None]
  /\ ret = [t \in Threads |-> 0]
  /\ pass = "qp" /\ i = 0 /\ rpc = "scan" /\ cur = None /\ due = {}
  /\ cqe = [p \in PiecesOf("cq") |-> 0]
  /\ outcome = [t \in Threads |-> <<>>]

----------------------------------------------------------------------------
(* Client threads.                                                         *)

At(t, from, to) == pc[t] = from /\ pc' = [pc EXCEPT ![t] = to]

(* The application calls a verb on the queue that piece p belongs to, with *)
(* a list of n work requests (post) or room for n completions (poll).      *)
Call(t, p, n) ==
  /\ At(t, "out", "lock")
  /\ call' = [call EXCEPT ![t] = [by |-> t, piece |-> p, n |-> n]]
  /\ UNCHANGED <<mtx, ret, shmVars, routerVars, nicVars>>

(* Mutant of Lock: the piece's mutex is not taken.                         *)
LockMissing(t) ==
  /\ At(t, "lock", "fill")
  /\ mtx' = [mtx EXCEPT ![call[t].piece] = t]
  /\ UNCHANGED <<call, ret, shmVars, routerVars, nicVars>>

(* pthread_mutex_lock of the piece's mutex; pthread_spin_lock of head_lock *)
(* for a shared receive queue.                                             *)
Lock(t) ==
  /\ At(t, "lock", "fill")
  /\ mtx[call[t].piece] = None
  /\ mtx' = [mtx EXCEPT ![call[t].piece] = t]
  /\ UNCHANGED <<call, ret, shmVars, routerVars, nicVars>>

(* The request is written into csp->req.                                   *)
FillRequest(t) ==
  /\ At(t, "fill", "shm")
  /\ req' = [req EXCEPT ![call[t].piece] = call[t]]
  /\ UNCHANGED <<state, rsp, mtx, call, ret, routerVars, nicVars>>

(* request_router_shm, `case IDLE': hand the request to the router.        *)
ShmIdle(t) ==
  /\ pc[t] = "shm"
  /\ state[call[t].piece] = "IDLE"
  /\ state' = [state EXCEPT ![call[t].piece] = "REQ_DONE"]
  /\ UNCHANGED <<req, rsp, clientVars, routerVars, nicVars>>

(* request_router_shm, `case RSP_DONE': return to the verb.  In            *)
(* `case REQ_DONE' the thread spins, which is no step.                     *)
ShmRspDone(t) ==
  /\ At(t, "shm", "read")
  /\ state[call[t].piece] = "RSP_DONE"
  /\ UNCHANGED <<mtx, call, ret, shmVars, routerVars, nicVars>>

(* The verb reads the response out of csp->rsp: bad_wr for a post, the     *)
(* number of completions for a poll.                                       *)
ReadResponse(t) ==
  LET p == call[t].piece IN
  /\ At(t, "read", "reset")
  /\ ret' = [ret EXCEPT ![t] = IF p \in PiecesOf("cq") THEN rsp[p].rsp_size
                                                       ELSE DecodeBadWr(rsp[p])]
  /\ UNCHANGED <<mtx, call, shmVars, routerVars, nicVars>>

(* Mutant of ResetIdle: the verb forgets to reset the state.               *)
ResetForgotten(t) ==
  /\ At(t, "reset", "unlock")
  /\ UNCHANGED <<mtx, call, ret, shmVars, routerVars, nicVars>>

(* csp->state = IDLE, which request_router_shm leaves to its caller.       *)
ResetIdle(t) ==
  /\ At(t, "reset", "unlock")
  /\ state' = [state EXCEPT ![call[t].piece] = "IDLE"]
  /\ UNCHANGED <<req, rsp, mtx, call, ret, routerVars, nicVars>>

(* Unlock the piece and return to the application; the call is over.       *)
Unlock(t) ==
  /\ At(t, "unlock", "out")
  /\ mtx' = [mtx EXCEPT ![call[t].piece] = None]
  /\ call' = [call EXCEPT ![t] = None]
  /\ ret' = [ret EXCEPT ![t] = 0]
  /\ outcome' = [outcome EXCEPT ![t] = <<>>]
  /\ UNCHANGED <<cqe, shmVars, routerVars>>

----------------------------------------------------------------------------
(* The router thread, CtrlChannelLoop.  The loop takes the three passes in *)
(* turn; i is the C loop index, from 0.                                    *)

(* Mutant of NextPass: the completion queues are left out.                 *)
NextPassNoCq == [qp |-> "srq", cq |-> "srq", srq |-> "qp"]
NextPass == [qp |-> "cq", cq |-> "srq", srq |-> "qp"]
Waiting(k) == {p \in PiecesOf(k) : state[p] = "REQ_DONE"}

(* The test of the piece's state at index i: go on, or serve it.           *)
ScanSkip ==
  /\ rpc = "scan" /\ i < Len(ShmVec[pass])
  /\ state[ShmVec[pass][i + 1]] # "REQ_DONE"
  /\ i' = i + 1
  /\ UNCHANGED <<pass, rpc, cur, due, shmVars, clientVars, nicVars>>

ScanHit ==
  /\ rpc = "scan" /\ i < Len(ShmVec[pass])
  /\ state[ShmVec[pass][i + 1]] = "REQ_DONE"
  /\ rpc' = "serve" /\ cur' = ShmVec[pass][i + 1]
  /\ UNCHANGED <<pass, i, due, shmVars, clientVars, nicVars>>

(* Perform the verb and write csp->rsp.                                    *)
Answer(r) ==
  /\ rpc' = "reply"
  /\ rsp' = [rsp EXCEPT ![cur] = r]
  /\ outcome' = [outcome EXCEPT ![req[cur].by] = Append(@, r)]
  /\ UNCHANGED <<state, req, pass, cur, due, clientVars>>

(* Mutant of ServePost: a loop over the work requests reuses the index i.  *)
ServePostReusesIndex(accepted) ==
  /\ rpc = "serve" /\ pass # "cq"
  /\ accepted \in 0..req[cur].n
  /\ Answer(PostRsp(req[cur].n, accepted))
  /\ i' = accepted
  /\ UNCHANGED cqe

(* ibv_post_send, ibv_post_recv or ibv_post_srq_recv: the NIC takes the    *)
(* work requests in order and stops at the first one it refuses.           *)
ServePost(accepted) ==
  /\ rpc = "serve" /\ pass # "cq"
  /\ accepted \in 0..req[cur].n
  /\ Answer(PostRsp(req[cur].n, accepted))
  /\ UNCHANGED <<i, cqe>>

(* ibv_poll_cq.  The loop that logs the completions runs on the index of   *)
(* the enclosing loop, so i is `count' when it ends.                       *)
ServePoll ==
  /\ rpc = "serve" /\ pass = "cq"
  /\ LET count == IF cqe[cur] < req[cur].n THEN cqe[cur] ELSE req[cur].n IN
       /\ Answer(PollRsp(count))
       /\ cqe' = [cqe EXCEPT ![cur] = @ - count]
       /\ i' = count

(* Mutant of Reply: the piece stays REQ_DONE.                              *)
ReplyForgotten ==
  /\ rpc = "reply"
  /\ rpc' = "scan" /\ cur' = None /\ i' = i + 1 /\ due' = due \ {cur}
  /\ UNCHANGED <<pass, shmVars, clientVars, nicVars>>

(* csp->state = RSP_DONE, then the loop increment.                         *)
Reply ==
  /\ rpc = "reply"
  /\ state' = [state EXCEPT ![cur] = "RSP_DONE"]
  /\ rpc' = "scan" /\ cur' = None /\ i' = i + 1 /\ due' = due \ {cur}
  /\ UNCHANGED <<req, rsp, pass, clientVars, nicVars>>

(* The end of one pass and the beginning of the next.                      *)
EndPass ==
  /\ rpc = "scan" /\ i >= Len(ShmVec[pass])
  /\ pass' = NextPass[pass] /\ i' = 0
  /\ due' = Waiting(NextPass[pass])
  /\ UNCHANGED <<rpc, cur, shmVars, clientVars, nicVars>>

(* The NIC adds a completion to completion queue c.                        *)
Complete(c) ==
  /\ cqe[c] < CqDepth
  /\ cqe' = [cqe EXCEPT ![c] = @ + 1]
  /\ UNCHANGED <<outcome, shmVars, clientVars, routerVars>>

----------------------------------------------------------------------------
ThreadStep(t) ==
  \/ Lock(t) \/ FillRequest(t) \/ ShmIdle(t) \/ ShmRspDone(t)
  \/ ReadResponse(t) \/ ResetIdle(t) \/ Unlock(t)

RouterStep ==
  \/ ScanSkip \/ ScanHit \/ ServePoll \/ Reply \/ EndPass
  \/ \E accepted \in 0..MaxWr : ServePost(accepted)

Next ==
  \/ \E t \in Threads, p \in Pieces, n \in 1..MaxWr : Call(t, p, n)
  \/ \E t \in Threads : ThreadStep(t)
  \/ RouterStep
  \/ \E c \in PiecesOf("cq") : Complete(c)

Spec == Init /\ [][Next]_vars

(* The router thread never exits its loop, and a thread inside a verb does *)
(* not stop; nothing makes the application call or the NIC complete.       *)
FairSpec == Spec /\ WF_vars(RouterStep) /\ \A t \in Threads : WF_vars(ThreadStep(t))

----------------------------------------------------------------------------
(* Properties.                                                             *)

(* Every variable keeps its type.                                          *)
TypeOK ==
  /\ state \in [Pieces -> {"IDLE", "REQ_DONE", "RSP_DONE"}]
  /\ req \in [Pieces -> Calls \cup {None}]
  /\ rsp \in [Pieces -> Responses]
  /\ mtx \in [Pieces -> Threads \cup {None}]
  /\ pc \in [Threads -> {"out", "lock", "fill", "shm", "read", "reset", "unlock"}]
  /\ call \in [Threads -> Calls \cup {None}]
  /\ ret \in [Threads -> 0..MaxWr]
  /\ pass \in Kinds /\ i \in Nat
  /\ rpc \in {"scan", "serve", "reply"} /\ cur \in Pieces \cup {None}
  /\ due \in SUBSET Pieces
  /\ cqe \in [PiecesOf("cq") -> 0..CqDepth]
  /\ outcome \in [Threads -> Seq(Responses)]

(* When a verb reads the response, the router has performed that call      *)
(* exactly once and the response in the piece is the one it gave to that   *)
(* call, not to an earlier call or another thread's.                       *)
OwnResponse ==
  \A t \in Threads :
    pc[t] \in {"read", "reset"} => outcome[t] = <<rsp[call[t].piece]>>

(* While the router works on a piece, the client that owns it is spinning  *)
(* in request_router_shm and the request in the piece is that client's:    *)
(* nobody writes the request, or reads the response, under the router.     *)
RouterOwnsPiece ==
  rpc \in {"serve", "reply"} =>
    LET t == mtx[cur] IN
      /\ t \in Threads
      /\ pc[t] = "shm" /\ req[cur] = call[t] /\ call[t].piece = cur
      /\ state[cur] = "REQ_DONE"

(* A pass over the queue pairs or the shared receive queues answers every  *)
(* request that was there when the pass began.                             *)
PassAnswersAll ==
  rpc = "scan" /\ pass \in {"qp", "srq"} /\ i >= Len(ShmVec[pass]) => due = {}

(* The data path behaves as VerbCalls promises: each call is performed     *)
(* once, on a queue no other call is using, between its call and return.   *)
Phase(t) == IF call[t] = None THEN "out" ELSE IF outcome[t] = <<>> THEN "called" ELSE "done"
Verbs == INSTANCE VerbCalls WITH
           Queues <- Pieces, CompletionQueues <- PiecesOf("cq"),
           phase <- [t \in Threads |-> Phase(t)]
ImplementsVerbCalls == Verbs!Spec

(* Every request handed to the router is answered and its verb returns:    *)
(* request_router_shm does not spin forever.                               *)
RequestAnswered == \A t \in Threads : pc[t] = "shm" ~> pc[t] = "out"
=============================================================================
