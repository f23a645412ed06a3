-------------------------- MODULE CtrlChannelProofs --------------------------
(***************************************************************************)
(* Proofs about CtrlChannel, for any number of threads, pieces and work    *)
(* requests.  The inductive invariant ties three things together for each  *)
(* piece: who holds its mutex, where that thread is in its verb, and the   *)
(* state word that the router reads.                                       *)
(***************************************************************************)
EXTENDS CtrlChannel, TLAPS

Holding == {"fill", "shm", "read", "reset", "unlock"}

(* A thread outside a verb has no call, and none performed for it.         *)
ThreadInv ==
  \A t \in Threads :
    /\ pc[t] = "out" => call[t] = None
    /\ pc[t] # "out" => call[t] \in Calls /\ call[t].by = t
    /\ pc[t] \in {"out", "lock", "fill"} => outcome[t] = <<>>
    /\ pc[t] = "unlock" => outcome[t] # <<>>

(* The mutex of a piece belongs to the thread that is inside a verb on it. *)
MutexInv ==
  \A t \in Threads, p \in Pieces :
    mtx[p] = t <=> pc[t] \in Holding /\ call[t].piece = p

(* What each value of the state word says about the thread that holds the  *)
(* piece, the request in it and whether it has been performed.             *)
PieceInv ==
  \A p \in Pieces :
    LET t == mtx[p] IN
    /\ state[p] = "IDLE" /\ t # None =>
         /\ pc[t] \in {"fill", "shm", "unlock"}
         /\ pc[t] = "shm" => req[p] = call[t] /\ outcome[t] = <<>>
    /\ state[p] = "REQ_DONE" =>
         /\ t # None /\ pc[t] = "shm" /\ req[p] = call[t]
         /\ outcome[t] = IF rpc = "reply" /\ cur = p THEN <<rsp[p]>> ELSE <<>>
    /\ state[p] = "RSP_DONE" =>
         /\ t # None /\ pc[t] \in {"shm", "read", "reset"}
         /\ outcome[t] = <<rsp[p]>>

(* The router works only on a piece that is REQ_DONE.                      *)
RouterInv ==
  rpc \in {"serve", "reply"} => cur \in PiecesOf(pass) /\ state[cur] = "REQ_DONE"

ChannelInv == TypeOK /\ ThreadInv /\ MutexInv /\ PieceInv /\ RouterInv

LEMMA PiecesOfKind == \A k \in Kinds : PiecesOf(k) \subseteq Pieces
  BY Zenon DEF Pieces, PiecesOf

LEMMA InitChannelInv == Init => ChannelInv
  BY PiecesOfKind, NoneAssumption, BoundAssumption
     DEF Init, ChannelInv, TypeOK, ThreadInv, MutexInv, PieceInv, RouterInv, Holding,
         Kinds, Responses, PollRsp

(* What the router finds when it is at a piece.                            *)
LEMMA RouterAtPiece ==
  ASSUME ChannelInv, rpc \in {"serve", "reply"}
  PROVE  /\ cur \in Pieces /\ mtx[cur] \in Threads /\ state[cur] = "REQ_DONE"
         /\ req[cur] = call[mtx[cur]] /\ req[cur] \in Calls
         /\ req[cur].by = mtx[cur] /\ req[cur].piece = cur /\ req[cur].n \in 1..MaxWr
         /\ pc[mtx[cur]] = "shm"
         /\ outcome[mtx[cur]] = IF rpc = "reply" THEN <<rsp[cur]>> ELSE <<>>
<1>1. cur \in Pieces /\ state[cur] = "REQ_DONE"
  BY Zenon, PiecesOfKind DEF ChannelInv, TypeOK, RouterInv
<1>2. /\ mtx[cur] \in Threads /\ pc[mtx[cur]] = "shm" /\ req[cur] = call[mtx[cur]]
      /\ outcome[mtx[cur]] = IF rpc = "reply" THEN <<rsp[cur]>> ELSE <<>>
  BY <1>1 DEF ChannelInv, PieceInv, TypeOK
<1>3. req[cur] \in Calls /\ req[cur].by = mtx[cur] /\ req[cur].piece = cur
  BY <1>1, <1>2 DEF ChannelInv, ThreadInv, MutexInv
<1> QED
  BY Zenon, <1>1, <1>2, <1>3 DEF Calls

(* What a thread finds when request_router_shm has returned to it.         *)
LEMMA ThreadAtResponse ==
  ASSUME ChannelInv, NEW t \in Threads, pc[t] \in {"read", "reset"}
  PROVE  /\ call[t].piece \in Pieces /\ mtx[call[t].piece] = t
         /\ state[call[t].piece] = "RSP_DONE" /\ outcome[t] = <<rsp[call[t].piece]>>
<1> DEFINE p == call[t].piece
<1>1. p \in Pieces /\ mtx[p] = t
  BY DEF ChannelInv, ThreadInv, MutexInv, Holding, Calls
<1>2. state[p] = "RSP_DONE"
  <2> DEFINE ps == pc[t]
  <2>1. ps \notin {"fill", "shm", "unlock"} /\ ps # "shm" /\ t # None
    BY Zenon, NoneAssumption
  <2>2. state[p] = "IDLE" => ps \in {"fill", "shm", "unlock"}
    BY Zenon, <1>1, <2>1 DEF ChannelInv, PieceInv
  <2>3. state[p] = "REQ_DONE" => ps = "shm"
    BY Zenon, <1>1 DEF ChannelInv, PieceInv
  <2>4. state[p] \in {"IDLE", "REQ_DONE", "RSP_DONE"}
    BY Zenon, <1>1 DEF ChannelInv, TypeOK
  <2> HIDE DEF ps
  <2> QED BY <2>1, <2>2, <2>3, <2>4
<1> QED
  BY Zenon, <1>1, <1>2 DEF ChannelInv, PieceInv

LEMMA InvRouterOwnsPiece == ChannelInv => RouterOwnsPiece
  BY Zenon, RouterAtPiece DEF RouterOwnsPiece

LEMMA InvOwnResponse == ChannelInv => OwnResponse
  BY Zenon, ThreadAtResponse DEF OwnResponse

(* The step that performs a verb, for any response r.                      *)
LEMMA AnswerChannelInv ==
  ASSUME ChannelInv, rpc = "serve", NEW r \in Responses, Answer(r),
         i' \in Nat, cqe' \in [PiecesOf("cq") -> 0..CqDepth]
  PROVE  ChannelInv'
<1> DEFINE u == mtx[cur]
<1>1. /\ cur \in Pieces /\ u \in Threads /\ pc[u] = "shm"
      /\ req[cur].by = u /\ outcome[u] = <<>>
  BY Zenon, RouterAtPiece
<1>2. outcome' = [outcome EXCEPT ![u] = <<r>>] /\ rsp' = [rsp EXCEPT ![cur] = r]
  BY <1>1 DEF Answer, ChannelInv, TypeOK
<1>3. TypeOK'
  BY <1>1, <1>2 DEF ChannelInv, TypeOK, Answer, clientVars
<1>4. ThreadInv'
  BY <1>1, <1>2 DEF ChannelInv, TypeOK, ThreadInv, Answer, clientVars
<1>5. MutexInv' /\ RouterInv'
  BY DEF ChannelInv, MutexInv, RouterInv, Answer, clientVars
<1>6. PieceInv'
  <2> SUFFICES ASSUME NEW p \in Pieces
               PROVE  PieceInv!(p)'
    BY Zenon DEF PieceInv
  <2>1. CASE p = cur
    <3>1. state'[p] = "REQ_DONE" /\ mtx'[p] = u /\ req'[p] = call'[u] /\ pc'[u] = "shm"
      BY Zenon, <1>1, <2>1, RouterAtPiece DEF Answer, clientVars
    <3>2. outcome'[u] = <<rsp'[p]>> /\ rpc' = "reply" /\ cur' = p /\ u # None
      BY <1>1, <1>2, <2>1, NoneAssumption DEF ChannelInv, TypeOK, Answer
    <3> QED BY <3>1, <3>2
  <2>2. CASE p # cur
    <3>1. mtx[p] # u
      BY <1>1, <2>2 DEF ChannelInv, MutexInv, Holding
    <3> QED
      BY <1>1, <1>2, <2>2, <3>1 DEF ChannelInv, TypeOK, PieceInv, Answer, clientVars
  <2> QED BY <2>1, <2>2
<1> QED
  BY Zenon, <1>3, <1>4, <1>5, <1>6 DEF ChannelInv

LEMMA NextChannelInv == ChannelInv /\ [Next]_vars => ChannelInv'
<1> SUFFICES ASSUME ChannelInv, [Next]_vars PROVE ChannelInv'
  BY Zenon
<1> USE DEF ChannelInv
<1>1. ASSUME NEW t \in Threads, NEW p \in Pieces, NEW n \in 1..MaxWr, Call(t, p, n) PROVE ChannelInv'
  <2>1. TypeOK'
    BY Zenon, <1>1, PiecesOfKind, NoneAssumption, BoundAssumption DEF TypeOK, Call, At, shmVars, routerVars, nicVars, Calls
  <2>2. ThreadInv'
    BY Zenon, <1>1, PiecesOfKind, NoneAssumption, BoundAssumption DEF ThreadInv, TypeOK, Call, At, shmVars, routerVars, nicVars, Calls
  <2>3. MutexInv'
    BY <1>1, PiecesOfKind, NoneAssumption, BoundAssumption DEF MutexInv, ThreadInv, TypeOK, Holding, Call, At, shmVars, routerVars, nicVars, Calls
  <2>4. PieceInv'
    BY <1>1, PiecesOfKind, NoneAssumption, BoundAssumption DEF PieceInv, MutexInv, ThreadInv, RouterInv, TypeOK, Holding, Call, At, shmVars, routerVars, nicVars, Calls
  <2>5. RouterInv'
    BY Zenon, <1>1, PiecesOfKind, NoneAssumption, BoundAssumption DEF RouterInv, PieceInv, MutexInv, TypeOK, Holding, Call, At, shmVars, routerVars, nicVars, Calls
  <2> QED BY <2>1, <2>2, <2>3, <2>4, <2>5
<1>2. ASSUME NEW t \in Threads, Lock(t) PROVE ChannelInv'
  <2>1. TypeOK'
    BY Zenon, <1>2, PiecesOfKind, NoneAssumption, BoundAssumption DEF TypeOK, Lock, At, shmVars, routerVars, nicVars, Calls
  <2>2. ThreadInv'
    BY <1>2, PiecesOfKind, NoneAssumption, BoundAssumption DEF ThreadInv, TypeOK, Lock, At, shmVars, routerVars, nicVars, Calls
  <2>3. MutexInv'
    BY <1>2, PiecesOfKind, NoneAssumption, BoundAssumption DEF MutexInv, ThreadInv, TypeOK, Holding, Lock, At, shmVars, routerVars, nicVars, Calls
  <2>4. PieceInv'
    BY <1>2, PiecesOfKind, NoneAssumption, BoundAssumption DEF PieceInv, MutexInv, ThreadInv, RouterInv, TypeOK, Holding, Lock, At, shmVars, routerVars, nicVars, Calls
  <2>5. RouterInv'
    BY Zenon, <1>2, PiecesOfKind, NoneAssumption, BoundAssumption DEF RouterInv, PieceInv, MutexInv, TypeOK, Holding, Lock, At, shmVars, routerVars, nicVars, Calls
  <2> QED BY <2>1, <2>2, <2>3, <2>4, <2>5
<1>3. ASSUME NEW t \in Threads, FillRequest(t) PROVE ChannelInv'
  <2>1. TypeOK'
    BY Zenon, <1>3, PiecesOfKind, NoneAssumption, BoundAssumption DEF TypeOK, FillRequest, At, routerVars, nicVars, Calls
  <2>2. ThreadInv'
    BY Zenon, <1>3, PiecesOfKind, NoneAssumption, BoundAssumption DEF ThreadInv, TypeOK, FillRequest, At, routerVars, nicVars, Calls
  <2>3. MutexInv'
    BY <1>3, PiecesOfKind, NoneAssumption, BoundAssumption DEF MutexInv, ThreadInv, TypeOK, Holding, FillRequest, At, routerVars, nicVars, Calls
  <2>4. PieceInv'
    BY <1>3, PiecesOfKind, NoneAssumption, BoundAssumption DEF PieceInv, MutexInv, ThreadInv, RouterInv, TypeOK, Holding, FillRequest, At, routerVars, nicVars, Calls
  <2>5. RouterInv'
    BY Zenon, <1>3, PiecesOfKind, NoneAssumption, BoundAssumption DEF RouterInv, PieceInv, MutexInv, TypeOK, Holding, FillRequest, At, routerVars, nicVars, Calls
  <2> QED BY <2>1, <2>2, <2>3, <2>4, <2>5
<1>4. ASSUME NEW t \in Threads, ShmIdle(t) PROVE ChannelInv'
  <2>1. TypeOK'
    BY Zenon, <1>4, PiecesOfKind, NoneAssumption, BoundAssumption DEF TypeOK, ShmIdle, clientVars, routerVars, nicVars, Calls
  <2>2. ThreadInv'
    BY Zenon, <1>4, PiecesOfKind, NoneAssumption, BoundAssumption DEF ThreadInv, TypeOK, ShmIdle, clientVars, routerVars, nicVars, Calls
  <2>3. MutexInv'
    BY <1>4, PiecesOfKind, NoneAssumption, BoundAssumption DEF MutexInv, ThreadInv, TypeOK, Holding, ShmIdle, clientVars, routerVars, nicVars, Calls
  <2>4. PieceInv'
    BY <1>4, PiecesOfKind, NoneAssumption, BoundAssumption DEF PieceInv, MutexInv, ThreadInv, RouterInv, TypeOK, Holding, ShmIdle, clientVars, routerVars, nicVars, Calls
  <2>5. RouterInv'
    BY Zenon, <1>4, PiecesOfKind, NoneAssumption, BoundAssumption DEF RouterInv, PieceInv, MutexInv, TypeOK, Holding, ShmIdle, clientVars, routerVars, nicVars, Calls
  <2> QED BY <2>1, <2>2, <2>3, <2>4, <2>5
<1>5. ASSUME NEW t \in Threads, ShmRspDone(t) PROVE ChannelInv'
  <2>1. TypeOK'
    BY Zenon, <1>5, PiecesOfKind, NoneAssumption, BoundAssumption DEF TypeOK, ShmRspDone, At, shmVars, routerVars, nicVars, Calls
  <2>2. ThreadInv'
    BY Zenon, <1>5, PiecesOfKind, NoneAssumption, BoundAssumption DEF ThreadInv, TypeOK, ShmRspDone, At, shmVars, routerVars, nicVars, Calls
  <2>3. MutexInv'
    BY <1>5, PiecesOfKind, NoneAssumption, BoundAssumption DEF MutexInv, ThreadInv, TypeOK, Holding, ShmRspDone, At, shmVars, routerVars, nicVars, Calls
  <2>4. PieceInv'
    BY <1>5, PiecesOfKind, NoneAssumption, BoundAssumption DEF PieceInv, MutexInv, ThreadInv, RouterInv, TypeOK, Holding, ShmRspDone, At, shmVars, routerVars, nicVars, Calls
  <2>5. RouterInv'
    BY Zenon, <1>5, PiecesOfKind, NoneAssumption, BoundAssumption DEF RouterInv, PieceInv, MutexInv, TypeOK, Holding, ShmRspDone, At, shmVars, routerVars, nicVars, Calls
  <2> QED BY <2>1, <2>2, <2>3, <2>4, <2>5
<1>6. ASSUME NEW t \in Threads, ReadResponse(t) PROVE ChannelInv'
  <2>1. TypeOK'
    <3>1. call[t].piece \in Pieces /\ rsp[call[t].piece] \in Responses
      BY Zenon, <1>6, ThreadAtResponse DEF ReadResponse, At, TypeOK
    <3>2. DecodeBadWr(rsp[call[t].piece]) \in 0..MaxWr /\ rsp[call[t].piece].rsp_size \in 0..MaxWr
      BY <3>1, BoundAssumption DEF DecodeBadWr, Responses
    <3> QED
      BY Zenon, <1>6, <3>2 DEF TypeOK, ReadResponse, At, shmVars, routerVars, nicVars
  <2>2. ThreadInv'
    BY Zenon, <1>6, PiecesOfKind, NoneAssumption, BoundAssumption DEF ThreadInv, TypeOK, ReadResponse, At, shmVars, routerVars, nicVars, Calls, Responses, DecodeBadWr
  <2>3. MutexInv'
    BY <1>6, PiecesOfKind, NoneAssumption, BoundAssumption DEF MutexInv, ThreadInv, TypeOK, Holding, ReadResponse, At, shmVars, routerVars, nicVars, Calls, Responses, DecodeBadWr
  <2>4. PieceInv'
    BY <1>6, PiecesOfKind, NoneAssumption, BoundAssumption DEF PieceInv, MutexInv, ThreadInv, RouterInv, TypeOK, Holding, ReadResponse, At, shmVars, routerVars, nicVars, Calls, Responses, DecodeBadWr
  <2>5. RouterInv'
    BY Zenon, <1>6, PiecesOfKind, NoneAssumption, BoundAssumption DEF RouterInv, PieceInv, MutexInv, TypeOK, Holding, ReadResponse, At, shmVars, routerVars, nicVars, Calls, Responses, DecodeBadWr
  <2> QED BY <2>1, <2>2, <2>3, <2>4, <2>5
<1>7. ASSUME NEW t \in Threads, ResetIdle(t) PROVE ChannelInv'
  <2>1. TypeOK'
    BY Zenon, <1>7, PiecesOfKind, NoneAssumption, BoundAssumption DEF TypeOK, ResetIdle, At, routerVars, nicVars, Calls
  <2>2. ThreadInv'
    <3>1. outcome[t] = <<rsp[call[t].piece]>>
      BY Zenon, <1>7, ThreadAtResponse DEF ResetIdle, At
    <3>2. outcome[t] # <<>>
      BY <3>1
    <3> QED
      BY Zenon, <1>7, <3>2 DEF ThreadInv, TypeOK, ResetIdle, At, routerVars, nicVars
  <2>3. MutexInv'
    BY <1>7, PiecesOfKind, NoneAssumption, BoundAssumption DEF MutexInv, ThreadInv, TypeOK, Holding, ResetIdle, At, routerVars, nicVars, Calls
  <2>4. PieceInv'
    BY <1>7, PiecesOfKind, NoneAssumption, BoundAssumption DEF PieceInv, MutexInv, ThreadInv, RouterInv, TypeOK, Holding, ResetIdle, At, routerVars, nicVars, Calls
  <2>5. RouterInv'
    <3>1. state[call[t].piece] = "RSP_DONE"
      BY Zenon, <1>7, ThreadAtResponse DEF ResetIdle, At
    <3> QED
      BY Zenon, <1>7, <3>1, PiecesOfKind DEF RouterInv, TypeOK, ResetIdle, routerVars
  <2> QED BY <2>1, <2>2, <2>3, <2>4, <2>5
<1>8. ASSUME NEW t \in Threads, Unlock(t) PROVE ChannelInv'
  <2>1. TypeOK'
    BY <1>8, PiecesOfKind, NoneAssumption, BoundAssumption DEF TypeOK, ThreadInv, Unlock, At, shmVars, routerVars, Calls
  <2>2. ThreadInv'
    BY Zenon, <1>8, PiecesOfKind, NoneAssumption, BoundAssumption DEF ThreadInv, TypeOK, Unlock, At, shmVars, routerVars, Calls
  <2>3. MutexInv'
    BY <1>8, PiecesOfKind, NoneAssumption, BoundAssumption DEF MutexInv, ThreadInv, TypeOK, Holding, Unlock, At, shmVars, routerVars, Calls
  <2>4. PieceInv'
    BY <1>8, PiecesOfKind, NoneAssumption, BoundAssumption DEF PieceInv, MutexInv, ThreadInv, RouterInv, TypeOK, Holding, Unlock, At, shmVars, routerVars, Calls
  <2>5. RouterInv'
    BY Zenon, <1>8, PiecesOfKind, NoneAssumption, BoundAssumption DEF RouterInv, PieceInv, MutexInv, TypeOK, Holding, Unlock, At, shmVars, routerVars, Calls
  <2> QED BY <2>1, <2>2, <2>3, <2>4, <2>5
<1>9. ASSUME ScanSkip PROVE ChannelInv'
  <2>1. TypeOK'
    BY <1>9, PiecesOfKind, NoneAssumption, BoundAssumption DEF TypeOK, ScanSkip, shmVars, clientVars, nicVars
  <2>2. ThreadInv'
    BY Zenon, <1>9, PiecesOfKind, NoneAssumption, BoundAssumption DEF ThreadInv, TypeOK, ScanSkip, shmVars, clientVars, nicVars
  <2>3. MutexInv'
    BY <1>9, PiecesOfKind, NoneAssumption, BoundAssumption DEF MutexInv, ThreadInv, TypeOK, Holding, ScanSkip, shmVars, clientVars, nicVars
  <2>4. PieceInv'
    BY Zenon, <1>9, PiecesOfKind, NoneAssumption, BoundAssumption DEF PieceInv, MutexInv, ThreadInv, RouterInv, TypeOK, Holding, ScanSkip, shmVars, clientVars, nicVars
  <2>5. RouterInv'
    BY Zenon, <1>9, PiecesOfKind, NoneAssumption, BoundAssumption DEF RouterInv, PieceInv, MutexInv, TypeOK, Holding, ScanSkip, shmVars, clientVars, nicVars
  <2> QED BY <2>1, <2>2, <2>3, <2>4, <2>5
<1>10. ASSUME ScanHit PROVE ChannelInv'
  <2>1. TypeOK'
    BY <1>10, PiecesOfKind, NoneAssumption, BoundAssumption DEF TypeOK, ScanHit, shmVars, clientVars, nicVars, PiecesOf, Range
  <2>2. ThreadInv'
    BY Zenon, <1>10, PiecesOfKind, NoneAssumption, BoundAssumption DEF ThreadInv, TypeOK, ScanHit, shmVars, clientVars, nicVars, PiecesOf, Range
  <2>3. MutexInv'
    BY <1>10, PiecesOfKind, NoneAssumption, BoundAssumption DEF MutexInv, ThreadInv, TypeOK, Holding, ScanHit, shmVars, clientVars, nicVars, PiecesOf, Range
  <2>4. PieceInv'
    BY Zenon, <1>10, PiecesOfKind, NoneAssumption, BoundAssumption DEF PieceInv, MutexInv, ThreadInv, RouterInv, TypeOK, Holding, ScanHit, shmVars, clientVars, nicVars, PiecesOf, Range
  <2>5. RouterInv'
    BY <1>10, PiecesOfKind, NoneAssumption, BoundAssumption DEF RouterInv, PieceInv, MutexInv, TypeOK, Holding, ScanHit, shmVars, clientVars, nicVars, PiecesOf, Range
  <2> QED BY <2>1, <2>2, <2>3, <2>4, <2>5
<1>11. ASSUME NEW accepted \in 0..MaxWr, ServePost(accepted) PROVE ChannelInv'
  <2>1. PostRsp(req[cur].n, accepted) \in Responses
    BY <1>11, BoundAssumption DEF PostRsp, Responses
  <2>2. cqe' \in [PiecesOf("cq") -> 0..CqDepth] /\ i' \in Nat
    BY Zenon, <1>11 DEF ServePost, TypeOK
  <2> QED
    BY Zenon, <1>11, <2>1, <2>2, AnswerChannelInv DEF ServePost
<1>12. ASSUME ServePoll PROVE ChannelInv'
  <2> DEFINE count == IF cqe[cur] < req[cur].n THEN cqe[cur] ELSE req[cur].n
  <2>1. cur \in PiecesOf("cq") /\ req[cur].n \in 1..MaxWr
    BY Zenon, <1>12, RouterAtPiece DEF ServePoll, RouterInv
  <2>2. cqe[cur] \in 0..CqDepth
    BY Zenon, <2>1 DEF TypeOK
  <2>3. count \in 0..MaxWr /\ cqe[cur] - count \in 0..CqDepth /\ count \in Nat
    BY <2>1, <2>2, BoundAssumption
  <2>4. PollRsp(count) \in Responses
    BY <2>3, BoundAssumption DEF PollRsp, Responses
  <2>5. cqe' \in [PiecesOf("cq") -> 0..CqDepth] /\ i' \in Nat /\ Answer(PollRsp(count))
    BY Zenon, <1>12, <2>3 DEF ServePoll, TypeOK
  <2> QED
    BY Zenon, <1>12, <2>4, <2>5, AnswerChannelInv DEF ServePoll
<1>13. ASSUME Reply PROVE ChannelInv'
  <2>1. TypeOK'
    BY <1>13, RouterAtPiece, PiecesOfKind, NoneAssumption, BoundAssumption DEF TypeOK, Reply, clientVars, nicVars
  <2>2. ThreadInv'
    BY Zenon, <1>13, PiecesOfKind, NoneAssumption, BoundAssumption DEF ThreadInv, TypeOK, Reply, clientVars, nicVars
  <2>3. MutexInv'
    BY <1>13, PiecesOfKind, NoneAssumption, BoundAssumption DEF MutexInv, ThreadInv, TypeOK, Holding, Reply, clientVars, nicVars
  <2>4. PieceInv'
    <3> SUFFICES ASSUME NEW p \in Pieces
                 PROVE  PieceInv!(p)'
      BY Zenon DEF PieceInv
    <3>1. CASE p = cur
      <4>1. /\ state'[p] = "RSP_DONE" /\ mtx'[p] # None /\ pc'[mtx'[p]] = "shm"
            /\ outcome'[mtx'[p]] = <<rsp'[p]>>
        BY Zenon, <1>13, <3>1, RouterAtPiece, NoneAssumption DEF Reply, TypeOK, clientVars, nicVars
      <4> QED BY <4>1
    <3>2. CASE p # cur
      BY Zenon, <1>13, <3>2 DEF PieceInv, TypeOK, Reply, clientVars, nicVars
    <3> QED BY <3>1, <3>2
  <2>5. RouterInv'
    BY Zenon, <1>13, PiecesOfKind, NoneAssumption, BoundAssumption DEF RouterInv, PieceInv, MutexInv, TypeOK, Holding, Reply, clientVars, nicVars
  <2> QED BY <2>1, <2>2, <2>3, <2>4, <2>5
<1>14. ASSUME EndPass PROVE ChannelInv'
  <2>1. TypeOK'
    BY <1>14, PiecesOfKind, NoneAssumption, BoundAssumption DEF TypeOK, EndPass, shmVars, clientVars, nicVars, NextPass, Waiting, Kinds
  <2>2. ThreadInv'
    BY Zenon, <1>14, PiecesOfKind, NoneAssumption, BoundAssumption DEF ThreadInv, TypeOK, EndPass, shmVars, clientVars, nicVars, NextPass, Waiting, Kinds
  <2>3. MutexInv'
    BY <1>14, PiecesOfKind, NoneAssumption, BoundAssumption DEF MutexInv, ThreadInv, TypeOK, Holding, EndPass, shmVars, clientVars, nicVars, NextPass, Waiting, Kinds
  <2>4. PieceInv'
    BY <1>14, PiecesOfKind, NoneAssumption, BoundAssumption DEF PieceInv, MutexInv, ThreadInv, RouterInv, TypeOK, Holding, EndPass, shmVars, clientVars, nicVars, NextPass, Waiting, Kinds
  <2>5. RouterInv'
    BY Zenon, <1>14, PiecesOfKind, NoneAssumption, BoundAssumption DEF RouterInv, PieceInv, MutexInv, TypeOK, Holding, EndPass, shmVars, clientVars, nicVars, NextPass, Waiting, Kinds
  <2> QED BY <2>1, <2>2, <2>3, <2>4, <2>5
<1>15. ASSUME NEW c \in PiecesOf("cq"), Complete(c) PROVE ChannelInv'
  <2>1. TypeOK'
    BY <1>15, PiecesOfKind, NoneAssumption, BoundAssumption DEF TypeOK, Complete, shmVars, clientVars, routerVars
  <2>2. ThreadInv'
    BY Zenon, <1>15, PiecesOfKind, NoneAssumption, BoundAssumption DEF ThreadInv, TypeOK, Complete, shmVars, clientVars, routerVars
  <2>3. MutexInv'
    BY <1>15, PiecesOfKind, NoneAssumption, BoundAssumption DEF MutexInv, ThreadInv, TypeOK, Holding, Complete, shmVars, clientVars, routerVars
  <2>4. PieceInv'
    BY <1>15, PiecesOfKind, NoneAssumption, BoundAssumption DEF PieceInv, MutexInv, ThreadInv, RouterInv, TypeOK, Holding, Complete, shmVars, clientVars, routerVars
  <2>5. RouterInv'
    BY Zenon, <1>15, PiecesOfKind, NoneAssumption, BoundAssumption DEF RouterInv, PieceInv, MutexInv, TypeOK, Holding, Complete, shmVars, clientVars, routerVars
  <2> QED BY <2>1, <2>2, <2>3, <2>4, <2>5
<1>16. CASE UNCHANGED vars
  BY <1>16 DEF vars, shmVars, clientVars, routerVars, nicVars, TypeOK, ThreadInv, MutexInv, PieceInv, RouterInv, Holding
<1> QED
  BY Zenon, <1>1, <1>2, <1>3, <1>4, <1>5, <1>6, <1>7, <1>8, <1>9, <1>10, <1>11, <1>12, <1>13, <1>14, <1>15, <1>16 DEF Next, ThreadStep, RouterStep

(* Every variable keeps its type, whatever the threads and the router do.  *)
THEOREM TypeCorrect == Spec => []TypeOK
<1>1. ChannelInv => TypeOK
  BY Zenon DEF ChannelInv
<1> QED
  BY <1>1, InitChannelInv, NextChannelInv, PTL DEF Spec

(* request_router_shm returns only with the response to the caller's own   *)
(* request, and the router has performed that request exactly once.        *)
THEOREM OwnResponseHolds == Spec => []OwnResponse
  BY InitChannelInv, NextChannelInv, InvOwnResponse, PTL DEF Spec

(* CtrlChannelLoop never works on a piece that a client is reading from or *)
(* writing to.                                                             *)
THEOREM RouterOwnsPieceHolds == Spec => []RouterOwnsPiece
  BY InitChannelInv, NextChannelInv, InvRouterOwnsPiece, PTL DEF Spec

----------------------------------------------------------------------------
(* The passes over queue pairs and shared receive queues.                  *)

Ahead(p) == \E j \in DOMAIN ShmVec[pass] : j > i /\ ShmVec[pass][j] = p

(* A request that was there when the pass began is still ahead of the loop *)
(* index, unless it has been answered.                                     *)
PassInv ==
  pass \in {"qp", "srq"} =>
    /\ \A p \in due : p \in Pieces /\ state[p] = "REQ_DONE" /\ Ahead(p)
    /\ rpc # "scan" => i + 1 \in DOMAIN ShmVec[pass] /\ cur = ShmVec[pass][i + 1]

LEMMA NextPassInv == ChannelInv /\ PassInv /\ [Next]_vars => PassInv'
<1> SUFFICES ASSUME ChannelInv, PassInv, [Next]_vars PROVE PassInv'
  BY Zenon
<1>0. /\ \A k \in Kinds : ShmVec[k] \in Seq(Pieces)
      /\ pass \in Kinds /\ i \in Nat /\ due \in SUBSET Pieces
      /\ state \in [Pieces -> {"IDLE", "REQ_DONE", "RSP_DONE"}]
      /\ rpc \in {"scan", "serve", "reply"}
  BY Zenon, PieceAssumption DEF ChannelInv, TypeOK
<1>1. ASSUME NEW t \in Threads, ShmIdle(t) PROVE PassInv'
  BY Zenon, <1>0, <1>1 DEF PassInv, Ahead, ShmIdle, routerVars
<1>2. ASSUME NEW t \in Threads, ResetIdle(t) PROVE PassInv'
  <2>1. state[call[t].piece] = "RSP_DONE"
    BY Zenon, <1>2, ThreadAtResponse DEF ResetIdle, At
  <2> QED
    BY Zenon, <1>0, <1>2, <2>1 DEF PassInv, Ahead, ResetIdle, routerVars
<1>3. CASE ScanSkip
  <2>1. \A p \in due : Ahead(p) /\ state[p] = "REQ_DONE" => Ahead(p)'
    BY <1>0, <1>3 DEF Ahead, ScanSkip, Kinds
  <2> QED
    BY Zenon, <1>3, <2>1 DEF PassInv, ScanSkip, shmVars
<1>4. CASE ScanHit
  BY <1>0, <1>4 DEF PassInv, Ahead, ScanHit, shmVars
<1>5. ASSUME NEW accepted \in 0..MaxWr, ServePost(accepted) PROVE PassInv'
  BY Zenon, <1>5 DEF PassInv, Ahead, ServePost, Answer
<1>6. CASE ServePoll
  BY Zenon, <1>6 DEF PassInv, ServePoll, Answer
<1>7. CASE Reply
  <2> SUFFICES ASSUME pass \in {"qp", "srq"}
               PROVE  \A p \in due \ {cur} : p \in Pieces /\ state'[p] = "REQ_DONE" /\ Ahead(p)'
    BY Zenon, <1>7 DEF PassInv, Reply
  <2>1. cur = ShmVec[pass][i + 1]
    BY Zenon, <1>7 DEF PassInv, Reply
  <2>2. \A p \in due \ {cur} : Ahead(p) => Ahead(p)'
    BY <1>0, <1>7, <2>1 DEF Ahead, Reply
  <2> QED
    BY Zenon, <1>0, <1>7, <2>2 DEF PassInv, Reply
<1>8. CASE EndPass
  <2> DEFINE k == NextPass[pass]
  <2>1. k \in Kinds /\ pass' = k /\ i' = 0 /\ rpc' = "scan" /\ state' = state
    BY <1>0, <1>8 DEF EndPass, NextPass, Kinds, shmVars
  <2>2. \A p \in PiecesOf(k) : p \in Pieces /\ \E j \in DOMAIN ShmVec[k] : j > 0 /\ ShmVec[k][j] = p
    BY <1>0, <2>1, PiecesOfKind DEF PiecesOf, Range
  <2>3. due' = {p \in PiecesOf(k) : state[p] = "REQ_DONE"}
    BY Zenon, <1>8 DEF EndPass, Waiting
  <2> HIDE DEF k
  <2> QED
    BY Zenon, <2>1, <2>2, <2>3 DEF PassInv, Ahead
<1>9. CASE UNCHANGED <<state, routerVars>>
  BY Zenon, <1>9 DEF PassInv, Ahead, routerVars
<1> QED
  <2>1. ASSUME NEW t \in Threads, ThreadStep(t) PROVE PassInv'
    BY Zenon, <1>1, <1>2, <1>9, <2>1
       DEF ThreadStep, Lock, FillRequest, ShmRspDone, ReadResponse, Unlock, shmVars
  <2>2. CASE RouterStep
    BY Zenon, <1>3, <1>4, <1>5, <1>6, <1>7, <1>8, <2>2 DEF RouterStep
  <2>3. CASE UNCHANGED vars
    BY Zenon, <1>9, <2>3 DEF vars, shmVars
  <2> QED
    BY Zenon, <1>9, <2>1, <2>2, <2>3 DEF Next, Call, Complete, shmVars

(* A pass of CtrlChannelLoop over the queue pairs or the shared receive    *)
(* queues leaves no request behind that was there when it began.           *)
THEOREM PassAnswersAllHolds == Spec => []PassAnswersAll
<1>1. Init => PassInv
  BY Zenon DEF Init, PassInv
<1>2. ChannelInv /\ PassInv => PassAnswersAll
  <2> SUFFICES ASSUME ChannelInv, PassInv, pass \in {"qp", "srq"}, i >= Len(ShmVec[pass])
               PROVE  due = {}
    BY Zenon DEF PassAnswersAll
  <2>1. ShmVec[pass] \in Seq(Pieces) /\ i \in Nat
    BY Zenon, PieceAssumption DEF ChannelInv, TypeOK
  <2>2. \A p \in due : Ahead(p)
    BY Zenon DEF PassInv
  <2> QED
    BY <2>1, <2>2 DEF Ahead
<1> QED
  BY <1>1, <1>2, InitChannelInv, NextChannelInv, NextPassInv, PTL DEF Spec

----------------------------------------------------------------------------
(* CtrlChannel implements VerbCalls.                                       *)

VerbPhase == [t \in Threads |-> Phase(t)]

LEMMA InitRefines == Init => Verbs!Init
  BY Zenon DEF Init, Verbs!Init, Phase

LEMMA CallRefines ==
  ASSUME ChannelInv, NEW t \in Threads, NEW p \in Pieces, NEW n \in 1..MaxWr, Call(t, p, n)
  PROVE  Verbs!Invoke(t)
<1>1. call[t] = None /\ outcome[t] = <<>>
  BY Zenon DEF ChannelInv, ThreadInv, Call, At
<1>2. [by |-> t, piece |-> p, n |-> n] # None
  BY NoneAssumption DEF Calls
<1>3. call' = [call EXCEPT ![t] = [by |-> t, piece |-> p, n |-> n]] /\ UNCHANGED <<outcome, cqe>>
  BY Zenon DEF Call, nicVars
<1>4. VerbPhase' = [VerbPhase EXCEPT ![t] = "called"] /\ VerbPhase[t] = "out"
  <2>1. call'[t] # None /\ \A v \in Threads \ {t} : call'[v] = call[v]
    BY Zenon, <1>2, <1>3 DEF ChannelInv, TypeOK
  <2> QED
    BY Zenon, <1>1, <1>3, <2>1 DEF VerbPhase, Phase
<1> QED
  BY Zenon, <1>3, <1>4 DEF Verbs!Invoke, VerbPhase

(* The router's step is the execution of the verb that the owner of the    *)
(* piece called; no other thread has an executed call on that piece.       *)
LEMMA AnswerRefines ==
  ASSUME ChannelInv, rpc = "serve", NEW r \in Responses, Answer(r)
  PROVE  LET u == mtx[cur] IN
         /\ u \in Threads /\ req[cur] = call[u] /\ call[u].piece = cur
         /\ outcome' = [outcome EXCEPT ![u] = <<r>>] /\ call' = call
         /\ VerbPhase[u] = "called" /\ VerbPhase' = [VerbPhase EXCEPT ![u] = "done"]
         /\ Verbs!QueueFree(u)
<1> DEFINE u == mtx[cur]
<1>1. /\ cur \in Pieces /\ u \in Threads /\ pc[u] = "shm" /\ req[cur] = call[u]
      /\ req[cur].by = u /\ call[u].piece = cur /\ outcome[u] = <<>> /\ call[u] # None
  BY Zenon, RouterAtPiece, NoneAssumption
<1>2. outcome' = [outcome EXCEPT ![u] = <<r>>] /\ call' = call
  BY <1>1 DEF Answer, clientVars, ChannelInv, TypeOK
<1>3. VerbPhase[u] = "called" /\ VerbPhase' = [VerbPhase EXCEPT ![u] = "done"]
  BY Zenon, <1>1, <1>2 DEF VerbPhase, Phase, ChannelInv, TypeOK
<1>4. ASSUME NEW v \in Threads \ {u}, VerbPhase[v] = "done" PROVE call[v].piece # cur
  <2>1. pc[v] \in Holding
    BY Zenon, <1>4 DEF VerbPhase, Phase, ChannelInv, ThreadInv, TypeOK, Holding
  <2> QED
    BY Zenon, <1>1, <1>4, <2>1 DEF ChannelInv, MutexInv
<1> QED
  BY Zenon, <1>1, <1>2, <1>3, <1>4 DEF Verbs!QueueFree, VerbPhase

LEMMA NextRefines == ChannelInv /\ [Next]_vars => [Verbs!Next]_Verbs!vars
<1> SUFFICES ASSUME ChannelInv, [Next]_vars PROVE [Verbs!Next]_Verbs!vars
  BY Zenon
<1>1. ASSUME NEW t \in Threads, NEW p \in Pieces, NEW n \in 1..MaxWr, Call(t, p, n)
      PROVE  Verbs!Next
  BY Zenon, <1>1, CallRefines DEF Verbs!Next
<1>2. ASSUME NEW accepted \in 0..MaxWr, ServePost(accepted) PROVE Verbs!Next
  <2> DEFINE r == PostRsp(req[cur].n, accepted)
             u == mtx[cur]
  <2>1. rpc = "serve" /\ Answer(r) /\ cqe' = cqe /\ accepted \in 0..req[cur].n
    BY Zenon, <1>2 DEF ServePost
  <2>2. r \in Responses
    BY <1>2, BoundAssumption DEF PostRsp, Responses
  <2>3. cur \notin PiecesOf("cq")
    <3>1. cur \in PiecesOf(pass) /\ pass \in Kinds \ {"cq"}
      BY Zenon, <1>2 DEF ServePost, ChannelInv, RouterInv, TypeOK
    <3> QED
      BY <3>1, PieceAssumption DEF PiecesOf, Range, Kinds
  <2> HIDE DEF r
  <2>4. /\ u \in Threads /\ req[cur] = call[u] /\ call[u].piece = cur
        /\ outcome' = [outcome EXCEPT ![u] = <<r>>] /\ call' = call
        /\ VerbPhase[u] = "called" /\ VerbPhase' = [VerbPhase EXCEPT ![u] = "done"]
        /\ Verbs!QueueFree(u)
    BY Zenon, <2>1, <2>2, AnswerRefines
  <2>5. Verbs!Post(u)
    BY Zenon, <2>1, <2>3, <2>4 DEF Verbs!Post, r, Verbs!PostRsp, PostRsp
  <2> QED
    BY Zenon, <2>4, <2>5 DEF Verbs!Next, Verbs!Perform, VerbPhase
<1>3. ASSUME ServePoll PROVE Verbs!Next
  <2> DEFINE u == mtx[cur]
             count == IF cqe[cur] < req[cur].n THEN cqe[cur] ELSE req[cur].n
  <2>1. /\ rpc = "serve" /\ Answer(PollRsp(count)) /\ cur \in PiecesOf("cq")
        /\ cqe' = [cqe EXCEPT ![cur] = @ - count]
    BY Zenon, <1>3 DEF ServePoll, ChannelInv, RouterInv
  <2>2. PollRsp(count) \in Responses
    <3>1. req[cur].n \in 1..MaxWr /\ cqe[cur] \in 0..CqDepth
      BY Zenon, <2>1, RouterAtPiece DEF ChannelInv, TypeOK
    <3>2. count \in 0..MaxWr
      BY <3>1, BoundAssumption
    <3> QED BY <3>2, BoundAssumption DEF PollRsp, Responses
  <2>3. /\ u \in Threads /\ req[cur] = call[u] /\ call[u].piece = cur
        /\ outcome' = [outcome EXCEPT ![u] = <<PollRsp(count)>>] /\ call' = call
        /\ VerbPhase[u] = "called" /\ VerbPhase' = [VerbPhase EXCEPT ![u] = "done"]
        /\ Verbs!QueueFree(u)
    BY Zenon, <2>1, <2>2, AnswerRefines
  <2>4. Verbs!Poll(u)
    BY Zenon, <2>1, <2>3 DEF Verbs!Poll, Verbs!PollRsp, PollRsp
  <2> QED
    BY Zenon, <2>3, <2>4 DEF Verbs!Next, Verbs!Perform, VerbPhase
<1>4. ASSUME NEW t \in Threads, Unlock(t) PROVE Verbs!Next
  <2>1. call[t] # None /\ outcome[t] # <<>>
    BY Zenon, <1>4, NoneAssumption DEF Unlock, At, ChannelInv, ThreadInv
  <2>2. VerbPhase[t] = "done" /\ VerbPhase' = [VerbPhase EXCEPT ![t] = "out"]
    BY Zenon, <1>4, <2>1 DEF Unlock, VerbPhase, Phase, ChannelInv, TypeOK
  <2> QED
    BY Zenon, <1>4, <2>2 DEF Verbs!Next, Verbs!Return, Unlock, VerbPhase
<1>5. ASSUME NEW c \in PiecesOf("cq"), Complete(c) PROVE Verbs!Next
  BY Zenon, <1>5 DEF Complete, clientVars, Verbs!Next, Verbs!Complete, Phase
<1>6. ASSUME UNCHANGED <<call, outcome, cqe>> PROVE UNCHANGED Verbs!vars
  BY Zenon, <1>6 DEF Verbs!vars, Phase
<1> QED
  <2>1. ASSUME NEW t \in Threads, ThreadStep(t) PROVE [Verbs!Next]_Verbs!vars
    BY Zenon, <1>4, <1>6, <2>1 DEF ThreadStep, Lock, FillRequest, ShmIdle, ShmRspDone, ReadResponse,
                            ResetIdle, clientVars, nicVars
  <2>2. ASSUME RouterStep PROVE [Verbs!Next]_Verbs!vars
    BY Zenon, <1>2, <1>3, <1>6, <2>2 DEF RouterStep, ScanSkip, ScanHit, Reply, EndPass,
                                  clientVars, nicVars
  <2>3. CASE UNCHANGED vars
    BY Zenon, <1>6, <2>3 DEF vars, clientVars, nicVars
  <2> QED
    BY Zenon, <1>1, <1>5, <2>1, <2>2, <2>3 DEF Next

(* The shared-memory channel is a correct implementation of direct calls:  *)
(* to the application it is as if each verb were performed once, on a      *)
(* queue that no other thread is using, between its call and its return.   *)
THEOREM ChannelImplementsVerbCalls == Spec => ImplementsVerbCalls
  BY InitChannelInv, NextChannelInv, InitRefines, NextRefines, PTL
     DEF Spec, ImplementsVerbCalls, Verbs!Spec
=============================================================================
