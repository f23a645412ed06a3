------------------------------ MODULE RecvQueue ------------------------------
(***************************************************************************)
(* How received data reaches the application.  The NIC writes it into      *)
(* shared memory; ibv_cmd_poll_cq must copy it into the buffer that the    *)
(* application posted.  The client library therefore keeps, for each       *)
(* completion queue and for each shared receive queue, a ring of records   *)
(* (struct wr_queue): ibv_cmd_post_recv and ibv_cmd_post_srq_recv append   *)
(* the addresses of a posted buffer at `head', and ibv_cmd_poll_cq takes   *)
(* one record from `tail' for each receive completion it is given.         *)
(*                                                                         *)
(* The call to the router is one step here: CtrlChannel implements         *)
(* VerbCalls, where a verb is performed at one instant.                    *)
(***************************************************************************)
EXTENDS Integers, Sequences, Functions

CONSTANTS
  Threads,
  Layouts,     \* [cq, srq]: the receive CQ, and the SRQ or None, of each queue pair
  Bufs,        \* receive buffers of the application
  MaxWr,       \* work requests in one post, completions in one poll
  RqDepth,     \* work requests a receive queue of the NIC holds
  MaxSends,    \* send completions waiting in a completion queue
  IndexMod,    \* the range of a uint16_t index
  QueueSize,   \* WR_QUEUE_SIZE
  None

ASSUME {MaxWr, RqDepth, MaxSends, IndexMod, QueueSize} \subseteq Nat
(* Completion queues and shared receive queues have names of their own.    *)
ASSUME LayoutAssumption ==
  \A l \in Layouts :
    /\ DOMAIN l.cq = DOMAIN l.srq
    /\ Range(l.cq) \cap Range(l.srq) = {} /\ None \notin Range(l.cq)
ASSUME NoneIsNoThread == None \notin Threads

VARIABLES
  layout,            \* the queues that were created, before the first post
  head, tail, recs,  \* the rings; recs[w][x] is the buffer record x is for
  lock,              \* csp mutex of QPs and CQs, head_lock of SRQs
  tail_lock,         \* tail_lock of each SRQ's ring
  pc, job,           \* threads: where each is, and its local variables
  rq, inflight, cq,  \* the NIC: posted buffers, those being filled, completions
  idle               \* buffers the application may post

nicVars == <<rq, inflight, cq>>
ringVars == <<layout, head, tail, recs>>
vars == <<ringVars, lock, tail_lock, pc, job, nicVars, idle>>

CqOf == layout.cq
SrqOf == layout.srq
QPs == DOMAIN CqOf
CQs == Range(CqOf)
SRQs == Range(SrqOf) \ {None}

(* The receive queues that the NIC has, and the ring of records in which a *)
(* post to each of them is noted.                                          *)
Rqs == {q \in QPs : SrqOf[q] = None} \cup SRQs
RqOf(q) == IF SrqOf[q] = None THEN q ELSE SrqOf[q]
Rings == CQs \cup SRQs
PostRing(r) == IF r \in SRQs THEN r ELSE CqOf[r]

(* map_cq_to_srq, and the ring that ibv_cmd_poll_cq takes records from.    *)
MapCqToSrq(c) ==
  LET S == {SrqOf[q] : q \in {x \in QPs : CqOf[x] = c}} \ {None}
  IN  IF S = {} THEN None ELSE CHOOSE s \in S : TRUE
PollRing(c) == IF MapCqToSrq(c) = None THEN c ELSE MapCqToSrq(c)

NoJob == [at |-> None, list |-> <<>>, done |-> 0, idx |-> 0]
SendWc == [recv |-> FALSE, buf |-> None]
RecvWc(b) == [recv |-> TRUE, buf |-> b]

Init ==
  /\ layout \in Layouts
  /\ head = [w \in Rings |-> 0] /\ tail = [w \in Rings |-> 0]
  /\ recs = [w \in Rings |-> [x \in 0..QueueSize - 1 |-> None]]
  /\ lock = [q \in QPs \cup CQs \cup SRQs |-> None]
  /\ tail_lock = [s \in SRQs |-> None]
  /\ pc = [t \in Threads |-> "out"] /\ job = [t \in Threads |-> NoJob]
  /\ rq = [r \in Rqs |-> <<>>] /\ inflight = [q \in QPs |-> <<>>]
  /\ cq = [c \in CQs |-> <<>>]
  /\ idle = Bufs

(* `head++; if (head >= WR_QUEUE_SIZE) head = 0;' on a uint16_t.           *)
Advance(x) == LET y == (x + 1) % IndexMod IN IF y >= QueueSize THEN 0 ELSE y

At(t, from, to) == pc[t] = from /\ pc' = [pc EXCEPT ![t] = to]
----------------------------------------------------------------------------
(* ibv_cmd_post_recv, ibv_cmd_post_srq_recv.                               *)

(* Entering the critical section, with a list of buffers to post.          *)
PostLock(t, r, list) ==
  /\ At(t, "out", "index") /\ lock[r] = None
  /\ lock' = [lock EXCEPT ![r] = t]
  /\ job' = [job EXCEPT ![t] = [at |-> r, list |-> list, done |-> 0, idx |-> 0]]
  /\ idle' = idle \ Range(list)
  /\ UNCHANGED <<ringVars, tail_lock, nicVars>>

(* wr_index = wr_queue->head, for the next work request of the list.       *)
ReadHead(t) ==
  /\ At(t, "index", "record") /\ job[t].done < Len(job[t].list)
  /\ job' = [job EXCEPT ![t].idx = head[PostRing(job[t].at)]]
  /\ UNCHANGED <<ringVars, lock, tail_lock, nicVars, idle>>

(* Mutant of WriteRecord: the new head is not stored.                      *)
WriteRecordNoHead(t) ==
  /\ At(t, "record", "index")
  /\ recs' = [recs EXCEPT ![PostRing(job[t].at)][job[t].idx] = job[t].list[job[t].done + 1]]
  /\ job' = [job EXCEPT ![t].done = @ + 1]
  /\ UNCHANGED <<layout, head, tail, lock, tail_lock, nicVars, idle>>

(* The new head is stored and the record is written.                       *)
WriteRecord(t) ==
  LET w == PostRing(job[t].at) IN
  /\ At(t, "record", "index")
  /\ head' = [head EXCEPT ![w] = Advance(job[t].idx)]
  /\ recs' = [recs EXCEPT ![w][job[t].idx] = job[t].list[job[t].done + 1]]
  /\ job' = [job EXCEPT ![t].done = @ + 1]
  /\ UNCHANGED <<layout, tail, lock, tail_lock, nicVars, idle>>

(* The router posts the list; the NIC takes work requests while its queue  *)
(* has room.  The buffers it refused belong to the application again.      *)
PostVerb(t) ==
  LET r == job[t].at
      list == job[t].list
      room == RqDepth - Len(rq[r])
      taken == IF Len(list) < room THEN Len(list) ELSE room
  IN
  /\ At(t, "index", "post-unlock") /\ job[t].done = Len(list)
  /\ rq' = [rq EXCEPT ![r] = @ \o SubSeq(list, 1, taken)]
  /\ idle' = idle \cup Range(SubSeq(list, taken + 1, Len(list)))
  /\ UNCHANGED <<ringVars, lock, tail_lock, job, inflight, cq>>

PostUnlock(t) ==
  /\ At(t, "post-unlock", "out")
  /\ lock' = [lock EXCEPT ![job[t].at] = None]
  /\ job' = [job EXCEPT ![t] = NoJob]
  /\ UNCHANGED <<ringVars, tail_lock, nicVars, idle>>

----------------------------------------------------------------------------
(* ibv_cmd_poll_cq.                                                        *)

PollLock(t, c) ==
  /\ At(t, "out", "poll-srq") /\ lock[c] = None
  /\ lock' = [lock EXCEPT ![c] = t]
  /\ job' = [job EXCEPT ![t] = [NoJob EXCEPT !.at = c]]
  /\ UNCHANGED <<ringVars, tail_lock, nicVars, idle>>

(* Mutant of PollSrqLock: the spin lock of the ring is not taken.          *)
PollSrqLockMissing(t) ==
  /\ At(t, "poll-srq", "poll")
  /\ UNCHANGED <<ringVars, lock, tail_lock, job, nicVars, idle>>

(* The spin lock of the SRQ's ring is taken when the CQ serves an SRQ.     *)
PollSrqLock(t) ==
  LET s == MapCqToSrq(job[t].at) IN
  /\ At(t, "poll-srq", "poll")
  /\ \/ s = None /\ UNCHANGED tail_lock
     \/ s # None /\ tail_lock[s] = None /\ tail_lock' = [tail_lock EXCEPT ![s] = t]
  /\ UNCHANGED <<ringVars, lock, job, nicVars, idle>>

(* The router polls; up to ne completions come back.                       *)
PollVerb(t, ne) ==
  LET c == job[t].at
      count == IF Len(cq[c]) < ne THEN Len(cq[c]) ELSE ne
  IN
  /\ At(t, "poll", "copy")
  /\ job' = [job EXCEPT ![t].list = SubSeq(cq[c], 1, count)]
  /\ cq' = [cq EXCEPT ![c] = SubSeq(@, count + 1, Len(@))]
  /\ UNCHANGED <<ringVars, lock, tail_lock, rq, inflight, idle>>

(* Mutant of CopyOne: a send completion takes a record too.                *)
CopyOneAlways(t) ==
  LET w == PollRing(job[t].at) IN
  /\ At(t, "copy", "copy") /\ job[t].done < Len(job[t].list)
  /\ job' = [job EXCEPT ![t].done = @ + 1]
  /\ tail' = [tail EXCEPT ![w] = Advance(@)]
  /\ recs' = [recs EXCEPT ![w][tail[w]] = None]
  /\ UNCHANGED <<layout, head, lock, tail_lock, nicVars, idle>>

(* One completion of the loop: a receive completion takes the record at    *)
(* tail, copies shared memory to the buffer of that record and frees it.   *)
CopyOne(t) ==
  LET w == PollRing(job[t].at)
      wc == job[t].list[job[t].done + 1]
  IN
  /\ At(t, "copy", "copy") /\ job[t].done < Len(job[t].list)
  /\ job' = [job EXCEPT ![t].done = @ + 1]
  /\ \/ /\ wc.recv
        /\ tail' = [tail EXCEPT ![w] = Advance(@)]
        /\ recs' = [recs EXCEPT ![w][tail[w]] = None]
     \/ ~wc.recv /\ UNCHANGED <<tail, recs>>
  /\ UNCHANGED <<layout, head, lock, tail_lock, nicVars, idle>>

(* The SRQ's lock and the mutex are released; the completed buffers belong *)
(* to the application again.                                               *)
PollUnlock(t) ==
  LET s == MapCqToSrq(job[t].at) IN
  /\ At(t, "copy", "out") /\ job[t].done = Len(job[t].list)
  /\ lock' = [lock EXCEPT ![job[t].at] = None]
  /\ tail_lock' = IF s = None THEN tail_lock ELSE [tail_lock EXCEPT ![s] = None]
  /\ job' = [job EXCEPT ![t] = NoJob]
  /\ idle' = idle \cup ({wc.buf : wc \in Range(job[t].list)} \ {None})
  /\ UNCHANGED <<ringVars, nicVars>>

----------------------------------------------------------------------------
(* The NIC.  A message for queue pair q takes the oldest buffer of q's     *)
(* receive queue; the messages of one queue pair complete in order, those  *)
(* of different queue pairs in any order.                                  *)

Arrive(q) ==
  /\ rq[RqOf(q)] # <<>>
  /\ inflight' = [inflight EXCEPT ![q] = Append(@, Head(rq[RqOf(q)]))]
  /\ rq' = [rq EXCEPT ![RqOf(q)] = Tail(@)]
  /\ UNCHANGED <<ringVars, lock, tail_lock, pc, job, cq, idle>>

CompleteRecv(q) ==
  /\ inflight[q] # <<>>
  /\ cq' = [cq EXCEPT ![CqOf[q]] = Append(@, RecvWc(Head(inflight[q])))]
  /\ inflight' = [inflight EXCEPT ![q] = Tail(@)]
  /\ UNCHANGED <<ringVars, lock, tail_lock, pc, job, rq, idle>>

CompleteSend(c) ==
  /\ Len(SelectSeq(cq[c], LAMBDA wc : ~wc.recv)) < MaxSends
  /\ cq' = [cq EXCEPT ![c] = Append(@, SendWc)]
  /\ UNCHANGED <<ringVars, lock, tail_lock, pc, job, rq, inflight, idle>>

----------------------------------------------------------------------------
(* The lists of one to MaxWr different idle buffers.                       *)
Lists == UNION {{l \in [1..n -> idle] : IsInjective(l)} : n \in 1..MaxWr}

Next ==
  \/ \E t \in Threads :
       \/ \E r \in Rqs : \E list \in Lists : PostLock(t, r, list)
       \/ ReadHead(t) \/ WriteRecord(t) \/ PostVerb(t) \/ PostUnlock(t)
       \/ \E c \in CQs : PollLock(t, c)
       \/ PollSrqLock(t)
       \/ \E ne \in 1..MaxWr : PollVerb(t, ne)
       \/ CopyOne(t) \/ PollUnlock(t)
  \/ \E q \in QPs : Arrive(q) \/ CompleteRecv(q)
  \/ \E c \in CQs : CompleteSend(c)

Spec == Init /\ [][Next]_vars

----------------------------------------------------------------------------
(* Properties.                                                             *)

(* The record that ibv_cmd_poll_cq takes for a receive completion is the   *)
(* one of the buffer that was completed: the data is copied to where the   *)
(* application expects it.  This needs that no two queue pairs have one    *)
(* ring, as completions of different queue pairs come in any order.        *)
OneQpPerRing ==
  \A p, q \in QPs : PostRing(RqOf(p)) = PostRing(RqOf(q)) => p = q
CopiesCompletedBuffer ==
  \A t \in Threads :
    OneQpPerRing /\ pc[t] = "copy" /\ job[t].done < Len(job[t].list) =>
      LET w == PollRing(job[t].at)
          wc == job[t].list[job[t].done + 1]
      IN  wc.recv => recs[w][tail[w]] = wc.buf

(* A record that has not been copied from yet is never overwritten.        *)
NoRecordOverwritten ==
  [][\A w \in Rings, x \in 0..QueueSize - 1 :
       recs[w][x] # None => recs'[w][x] \in {recs[w][x], None}]_vars

(* "We are already in critical section" where ibv_cmd_post_recv and        *)
(* ibv_cmd_post_srq_recv update head, and the same of tail in              *)
(* ibv_cmd_poll_cq: no two threads add records to one ring, or take them   *)
(* from it, at a time, even through the completion queues of different     *)
(* queue pairs that share a receive queue.  The head is safe only when the *)
(* posts that use it take one lock: two queue pairs with receives of their *)
(* own and one completion queue share a ring and lock different mutexes.   *)
OneLockPerHead ==
  \A r, s \in Rqs : PostRing(r) = PostRing(s) => r = s
RingInCriticalSection ==
  \A t, u \in Threads :
    /\ OneLockPerHead /\ pc[t] = "record" /\ pc[u] = "record"
         /\ PostRing(job[t].at) = PostRing(job[u].at) => t = u
    /\ pc[t] = "copy" /\ pc[u] = "copy"
         /\ PollRing(job[t].at) = PollRing(job[u].at) => t = u
=============================================================================
