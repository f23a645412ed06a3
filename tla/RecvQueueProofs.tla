--------------------------- MODULE RecvQueueProofs ---------------------------
(***************************************************************************)
(* The critical sections of RecvQueue, for any layout of queue pairs,      *)
(* completion queues and shared receive queues, and any number of threads. *)
(***************************************************************************)
EXTENDS RecvQueue, TLAPS

Posting == {"index", "record", "post-unlock"}
Polling == {"poll-srq", "poll", "copy"}
Locks == QPs \cup CQs \cup SRQs

Typed ==
  /\ layout \in Layouts
  /\ pc \in [Threads -> {"out"} \cup Posting \cup Polling]
  /\ lock \in [Locks -> Threads \cup {None}]
  /\ tail_lock \in [SRQs -> Threads \cup {None}]
  /\ job = [t \in Threads |-> job[t]]
  /\ \A t \in Threads :
       job[t] = [at |-> job[t].at, list |-> job[t].list, done |-> job[t].done, idx |-> job[t].idx]

(* The mutex of the queue a thread posts to, or polls, is the thread's.    *)
MutexHeld ==
  \A t \in Threads :
    /\ pc[t] \in Posting => job[t].at \in Rqs /\ lock[job[t].at] = t
    /\ pc[t] \in Polling => job[t].at \in CQs /\ lock[job[t].at] = t

(* So is the spin lock of the ring, when a shared receive queue has it.    *)
SpinLockHeld ==
  \A t \in Threads :
    pc[t] \in {"poll", "copy"} /\ MapCqToSrq(job[t].at) # None =>
      tail_lock[MapCqToSrq(job[t].at)] = t

LockInv == Typed /\ MutexHeld /\ SpinLockHeld

LEMMA Names ==
  ASSUME layout \in Layouts
  PROVE  /\ Rqs \subseteq Locks /\ CQs \subseteq Locks /\ SRQs \subseteq Locks
         /\ CQs \cap SRQs = {} /\ None \notin CQs
         /\ \A c : MapCqToSrq(c) \in SRQs \cup {None}
<1>1. DOMAIN CqOf = DOMAIN SrqOf /\ CQs \cap SRQs = {} /\ None \notin CQs
  BY Zenon, LayoutAssumption DEF CqOf, SrqOf, CQs, SRQs
<1>2. ASSUME NEW c PROVE MapCqToSrq(c) \in SRQs \cup {None}
  <2> DEFINE S == {SrqOf[q] : q \in {x \in QPs : CqOf[x] = c}} \ {None}
  <2>1. S \subseteq SRQs
    BY Zenon, <1>1 DEF QPs, SRQs, Range
  <2>2. MapCqToSrq(c) = IF S = {} THEN None ELSE CHOOSE s \in S : TRUE
    BY Zenon DEF MapCqToSrq
  <2>3. S # {} => (CHOOSE s \in S : TRUE) \in S
    BY Zenon
  <2> HIDE DEF S
  <2> QED
    BY Zenon, <2>1, <2>2, <2>3
<1> QED
  BY Zenon, <1>1, <1>2 DEF Rqs, Locks

LEMMA SameLayout ==
  ASSUME layout' = layout
  PROVE  /\ Rqs' = Rqs /\ CQs' = CQs /\ SRQs' = SRQs /\ Locks' = Locks
         /\ \A c : MapCqToSrq(c)' = MapCqToSrq(c)
BY DEF Rqs, CQs, SRQs, Locks, QPs, CqOf, SrqOf, MapCqToSrq

LEMMA InitLocks == Init => LockInv
<1> SUFFICES ASSUME Init PROVE LockInv
  BY Zenon
<1>1. Typed
  BY Zenon DEF Init, Typed, Locks, NoJob
<1>2. MutexHeld /\ SpinLockHeld
  BY Zenon DEF Init, MutexHeld, SpinLockHeld, Posting, Polling
<1> QED
  BY Zenon, <1>1, <1>2 DEF LockInv

(* A step that takes and releases nothing, and by which at most thread t   *)
(* goes on in the same section.                                            *)
LEMMA SectionStep ==
  ASSUME LockInv, UNCHANGED <<layout, lock, tail_lock>>, Typed',
         \A t \in Threads :
           /\ job'[t].at = job[t].at
           /\ pc[t] \in Posting <=> pc'[t] \in Posting
           /\ pc[t] \in Polling <=> pc'[t] \in Polling
           /\ pc'[t] \in {"poll", "copy"} => pc[t] \in {"poll", "copy"}
  PROVE  LockInv'
<1>1. MutexHeld'
  BY Zenon, SameLayout DEF LockInv, MutexHeld
<1>2. SpinLockHeld'
  BY Zenon, SameLayout DEF LockInv, SpinLockHeld
<1> QED
  BY Zenon, <1>1, <1>2 DEF LockInv

(* Types after a step of thread t that leaves the layout and the shape of  *)
(* the jobs alone.                                                         *)
LEMMA JobShape ==
  ASSUME NEW t \in Threads, Typed, NEW a, NEW l, NEW d, NEW x,
         job' = [job EXCEPT ![t] = [at |-> a, list |-> l, done |-> d, idx |-> x]]
  PROVE  /\ job' = [u \in Threads |-> job'[u]]
         /\ job'[t].at = a /\ \A u \in Threads \ {t} : job'[u] = job[u]
         /\ \A u \in Threads :
              job'[u] = [at |-> job'[u].at, list |-> job'[u].list, done |-> job'[u].done, idx |-> job'[u].idx]
<1>1. DOMAIN job = Threads /\ DOMAIN job' = Threads
  BY Zenon DEF Typed
<1>2. job'[t] = [at |-> a, list |-> l, done |-> d, idx |-> x]
  BY Zenon, <1>1
<1>3. \A u \in Threads \ {t} : job'[u] = job[u]
  BY Zenon, <1>1
<1>4. job' = [u \in Threads |-> job'[u]]
  BY Zenon, <1>1
<1> QED
  BY Zenon, <1>2, <1>3, <1>4 DEF Typed

(* A thread that updates its own list, count or index stays at its queue.  *)
LEMMA WithinSection ==
  ASSUME LockInv, NEW t \in Threads, NEW from, NEW to \in Posting \cup Polling,
         At(t, from, to), UNCHANGED <<layout, lock, tail_lock>>,
         \/ from \in Posting /\ to \in Posting
         \/ from \in {"poll", "copy"} /\ to \in {"poll", "copy"},
         \/ UNCHANGED job
         \/ \E l, d, x :
              job' = [job EXCEPT ![t] = [at |-> job[t].at, list |-> l, done |-> d, idx |-> x]]
  PROVE  LockInv'
<1>1. pc' = [pc EXCEPT ![t] = to] /\ pc[t] = from /\ pc' \in [Threads -> {"out"} \cup Posting \cup Polling]
  BY Zenon DEF At, LockInv, Typed
<1>2. Typed' /\ \A u \in Threads : job'[u].at = job[u].at
  <2>1. CASE UNCHANGED job
    BY Zenon, <2>1, <1>1, SameLayout DEF LockInv, Typed
  <2>2. ASSUME NEW l, NEW d, NEW x,
               job' = [job EXCEPT ![t] = [at |-> job[t].at, list |-> l, done |-> d, idx |-> x]]
        PROVE  Typed' /\ \A u \in Threads : job'[u].at = job[u].at
    <3>1. Typed
      BY Zenon DEF LockInv
    <3>2. /\ job' = [u \in Threads |-> job'[u]]
          /\ job'[t].at = job[t].at /\ \A u \in Threads \ {t} : job'[u] = job[u]
          /\ \A u \in Threads :
              job'[u] = [at |-> job'[u].at, list |-> job'[u].list, done |-> job'[u].done, idx |-> job'[u].idx]
      BY Zenon, <2>2, <3>1, JobShape
    <3> QED
      BY Zenon, <3>1, <3>2, <1>1, SameLayout DEF Typed
  <2> QED
    BY Zenon, <2>1, <2>2
<1>3. \A u \in Threads :
        /\ pc[u] \in Posting <=> pc'[u] \in Posting
        /\ pc[u] \in Polling <=> pc'[u] \in Polling
        /\ pc'[u] \in {"poll", "copy"} => pc[u] \in {"poll", "copy"}
  BY Zenon, <1>1 DEF LockInv, Typed, Posting, Polling
<1> QED
  BY Zenon, <1>2, <1>3, SectionStep

(* Entering a section: the mutex was free.                                 *)
LEMMA EnterSection ==
  ASSUME LockInv, NEW t \in Threads, NEW r, NEW l, NEW to,
         \/ to = "index" /\ r \in Rqs
         \/ to = "poll-srq" /\ r \in CQs,
         At(t, "out", to), lock[r] = None, lock' = [lock EXCEPT ![r] = t],
         job' = [job EXCEPT ![t] = [at |-> r, list |-> l, done |-> 0, idx |-> 0]],
         UNCHANGED <<layout, tail_lock>>
  PROVE  LockInv'
<1>1. Typed /\ r \in Locks
  BY Zenon, Names DEF LockInv, Typed
<1>2. /\ job' = [u \in Threads |-> job'[u]]
      /\ job'[t].at = r /\ \A u \in Threads \ {t} : job'[u] = job[u]
      /\ \A u \in Threads :
           job'[u] = [at |-> job'[u].at, list |-> job'[u].list, done |-> job'[u].done, idx |-> job'[u].idx]
  BY Zenon, <1>1, JobShape
<1>3. /\ pc' \in [Threads -> {"out"} \cup Posting \cup Polling]
      /\ pc'[t] = to /\ \A u \in Threads \ {t} : pc'[u] = pc[u]
  BY Zenon, <1>1 DEF At, Typed, Posting, Polling
<1>4. /\ lock' \in [Locks -> Threads \cup {None}]
      /\ lock'[r] = t /\ \A s \in Locks \ {r} : lock'[s] = lock[s]
  BY Zenon, <1>1 DEF Typed
<1>5. Typed'
  BY Zenon, <1>1, <1>2, <1>3, <1>4, SameLayout DEF Typed
<1>6. MutexHeld'
  <2>1. ASSUME NEW u \in Threads \ {t}
        PROVE  /\ pc[u] \in Posting => job[u].at \in Rqs /\ lock'[job[u].at] = u
               /\ pc[u] \in Polling => job[u].at \in CQs /\ lock'[job[u].at] = u
    BY <1>1, <1>4, Names, NoneIsNoThread DEF LockInv, MutexHeld, Typed
  <2>2. /\ pc'[t] \in Posting => r \in Rqs
        /\ pc'[t] \in Polling => r \in CQs
    BY Zenon, <1>3 DEF Posting, Polling
  <2> QED
    BY <1>2, <1>3, <1>4, <2>1, <2>2, SameLayout DEF MutexHeld
<1>7. SpinLockHeld'
  BY <1>2, <1>3, SameLayout DEF LockInv, SpinLockHeld
<1> QED
  BY Zenon, <1>5, <1>6, <1>7 DEF LockInv

(* Leaving a section: the locks that are released were the thread's own.   *)
LEMMA LeaveSection ==
  ASSUME LockInv, NEW t \in Threads, NEW from \in Posting \cup Polling, At(t, from, "out"),
         lock' = [lock EXCEPT ![job[t].at] = None], job' = [job EXCEPT ![t] = NoJob],
         UNCHANGED layout,
         \/ UNCHANGED tail_lock
         \/ /\ from = "copy" /\ MapCqToSrq(job[t].at) # None
            /\ tail_lock' = [tail_lock EXCEPT ![MapCqToSrq(job[t].at)] = None]
  PROVE  LockInv'
<1> DEFINE a == job[t].at
           s == MapCqToSrq(a)
<1>1. Typed /\ a \in Locks /\ lock[a] = t /\ pc[t] = from
  BY Zenon, Names DEF LockInv, Typed, MutexHeld, At
<1>2. /\ job' = [u \in Threads |-> job'[u]]
      /\ \A u \in Threads \ {t} : job'[u] = job[u]
      /\ \A u \in Threads :
           job'[u] = [at |-> job'[u].at, list |-> job'[u].list, done |-> job'[u].done, idx |-> job'[u].idx]
  BY Zenon, <1>1, JobShape DEF NoJob
<1>3. /\ pc' \in [Threads -> {"out"} \cup Posting \cup Polling]
      /\ pc'[t] = "out" /\ \A u \in Threads \ {t} : pc'[u] = pc[u]
  BY Zenon, <1>1 DEF At, Typed
<1>4. /\ lock' \in [Locks -> Threads \cup {None}]
      /\ \A r \in Locks \ {a} : lock'[r] = lock[r]
  BY Zenon, <1>1 DEF Typed
<1>5. /\ tail_lock' \in [SRQs -> Threads \cup {None}]
      /\ \A r \in SRQs : tail_lock[r] # t => tail_lock'[r] = tail_lock[r]
  <2>1. CASE UNCHANGED tail_lock
    BY Zenon, <2>1, <1>1 DEF Typed
  <2>2. CASE from = "copy" /\ s # None /\ tail_lock' = [tail_lock EXCEPT ![s] = None]
    <3>1. tail_lock[s] = t
      BY Zenon, <2>2, <1>1 DEF LockInv, SpinLockHeld
    <3> HIDE DEF s
    <3> QED
      BY Zenon, <3>1, <2>2, <1>1 DEF Typed
  <2> QED
    BY Zenon, <2>1, <2>2
<1> HIDE DEF a, s
<1>6. Typed'
  BY Zenon, <1>1, <1>2, <1>3, <1>4, <1>5, SameLayout DEF Typed
<1>7. MutexHeld'
  <2>1. ASSUME NEW u \in Threads \ {t}
        PROVE  /\ pc[u] \in Posting => job[u].at \in Rqs /\ lock'[job[u].at] = u
               /\ pc[u] \in Polling => job[u].at \in CQs /\ lock'[job[u].at] = u
    BY Zenon, <1>1, <1>4, Names DEF LockInv, MutexHeld, Typed
  <2> QED
    BY Zenon, <1>2, <1>3, <2>1, SameLayout DEF MutexHeld, Posting, Polling
<1>8. SpinLockHeld'
  <2> SUFFICES ASSUME NEW u \in Threads, pc'[u] \in {"poll", "copy"},
                      MapCqToSrq(job'[u].at) # None
               PROVE  tail_lock'[MapCqToSrq(job'[u].at)] = u
    BY SameLayout DEF SpinLockHeld
  <2>1. u # t /\ job'[u] = job[u] /\ pc'[u] = pc[u]
    BY Zenon, <1>2, <1>3
  <2>2. MapCqToSrq(job[u].at) \in SRQs /\ tail_lock[MapCqToSrq(job[u].at)] = u
    BY Zenon, <1>1, <2>1, Names DEF LockInv, SpinLockHeld, Typed
  <2> QED
    BY Zenon, <2>1, <2>2, <1>5
<1> QED
  BY Zenon, <1>6, <1>7, <1>8 DEF LockInv

(* ibv_cmd_poll_cq takes the spin lock when it is free.                    *)
LEMMA SpinStep ==
  ASSUME LockInv, NEW t \in Threads, PollSrqLock(t)
  PROVE  LockInv'
<1> DEFINE s == MapCqToSrq(job[t].at)
<1>1. /\ Typed /\ pc[t] = "poll-srq" /\ UNCHANGED <<layout, lock, job>>
      /\ pc' \in [Threads -> {"out"} \cup Posting \cup Polling]
      /\ pc'[t] = "poll" /\ \A u \in Threads \ {t} : pc'[u] = pc[u]
  BY Zenon DEF LockInv, Typed, PollSrqLock, At, ringVars, Polling
<1>2. s \in SRQs \cup {None}
  BY Zenon, <1>1, Names DEF Typed
<1>3. /\ tail_lock' \in [SRQs -> Threads \cup {None}]
      /\ s # None => tail_lock'[s] = t
      /\ \A r \in SRQs : tail_lock[r] \in Threads => tail_lock'[r] = tail_lock[r]
  <2>1. \/ s = None /\ UNCHANGED tail_lock
        \/ s # None /\ tail_lock[s] = None /\ tail_lock' = [tail_lock EXCEPT ![s] = t]
    BY Zenon DEF PollSrqLock
  <2> HIDE DEF s
  <2> QED
    BY <2>1, <1>1, <1>2, NoneIsNoThread DEF Typed
<1>4. Typed'
  BY Zenon, <1>1, <1>3, SameLayout DEF Typed
<1>5. MutexHeld'
  BY Zenon, <1>1, SameLayout DEF LockInv, MutexHeld, Posting, Polling
<1>6. SpinLockHeld'
  <2> SUFFICES ASSUME NEW u \in Threads, pc'[u] \in {"poll", "copy"},
                      MapCqToSrq(job[u].at) # None
               PROVE  tail_lock'[MapCqToSrq(job[u].at)] = u
    BY Zenon, <1>1, SameLayout DEF SpinLockHeld
  <2>1. CASE u = t
    BY Zenon, <2>1, <1>3
  <2>2. CASE u # t
    <3>1. MapCqToSrq(job[u].at) \in SRQs /\ tail_lock[MapCqToSrq(job[u].at)] = u
      BY Zenon, <2>2, <1>1, Names DEF LockInv, SpinLockHeld, Typed
    <3> QED
      BY Zenon, <3>1, <1>3
  <2> QED
    BY Zenon, <2>1, <2>2
<1> QED
  BY Zenon, <1>4, <1>5, <1>6 DEF LockInv

(* An update of one field other than the queue.                            *)
LEMMA JobUpdates ==
  ASSUME Typed, NEW t \in Threads, NEW y,
         \/ job' = [job EXCEPT ![t].idx = y]
         \/ job' = [job EXCEPT ![t].done = y]
         \/ job' = [job EXCEPT ![t].list = y]
  PROVE  \E l, d, x :
           job' = [job EXCEPT ![t] = [at |-> job[t].at, list |-> l, done |-> d, idx |-> x]]
<1> DEFINE Job(l, d, x) == [at |-> job[t].at, list |-> l, done |-> d, idx |-> x]
<1>1. /\ [job[t] EXCEPT !.idx = y] = Job(job[t].list, job[t].done, y)
      /\ [job[t] EXCEPT !.done = y] = Job(job[t].list, y, job[t].idx)
      /\ [job[t] EXCEPT !.list = y] = Job(y, job[t].done, job[t].idx)
  BY DEF Typed
<1>2. CASE job' = [job EXCEPT ![t].idx = y]
  <2>1. job' = [job EXCEPT ![t] = Job(job[t].list, job[t].done, y)]
    BY Zenon, <1>1, <1>2
  <2> QED
    BY Zenon, <2>1
<1>3. CASE job' = [job EXCEPT ![t].done = y]
  <2>1. job' = [job EXCEPT ![t] = Job(job[t].list, y, job[t].idx)]
    BY Zenon, <1>1, <1>3
  <2> QED
    BY Zenon, <2>1
<1>4. CASE job' = [job EXCEPT ![t].list = y]
  <2>1. job' = [job EXCEPT ![t] = Job(y, job[t].done, job[t].idx)]
    BY Zenon, <1>1, <1>4
  <2> QED
    BY Zenon, <2>1
<1> QED
  BY Zenon, <1>2, <1>3, <1>4

LEMMA NextLocks ==
  ASSUME LockInv, [Next]_vars
  PROVE  LockInv'
<1>t. Typed
  BY Zenon DEF LockInv
<1>1. ASSUME NEW t \in Threads, NEW r \in Rqs, NEW list, PostLock(t, r, list)
      PROVE  LockInv'
  <2>1. job' = [job EXCEPT ![t] = [at |-> r, list |-> list, done |-> 0, idx |-> 0]]
    BY Zenon, <1>1 DEF PostLock
  <2> QED
    BY Zenon, <1>1, <2>1, EnterSection DEF PostLock, ringVars
<1>2. ASSUME NEW t \in Threads, NEW c \in CQs, PollLock(t, c)
      PROVE  LockInv'
  <2>1. job' = [job EXCEPT ![t] = [at |-> c, list |-> <<>>, done |-> 0, idx |-> 0]]
    <3>1. [NoJob EXCEPT !.at = c] = [at |-> c, list |-> <<>>, done |-> 0, idx |-> 0]
      BY DEF NoJob
    <3> QED
      BY Zenon, <1>2, <3>1 DEF PollLock
  <2> QED
    BY Zenon, <1>2, <2>1, EnterSection DEF PollLock, ringVars
<1>3. ASSUME NEW t \in Threads, ReadHead(t)
      PROVE  LockInv'
  <2>1. At(t, "index", "record") /\ UNCHANGED <<layout, lock, tail_lock>>
    BY Zenon, <1>3 DEF ReadHead, ringVars
  <2>2. job' = [job EXCEPT ![t].idx = head[PostRing(job[t].at)]]
    BY Zenon, <1>3 DEF ReadHead
  <2>3. \E l, d, x : job' = [job EXCEPT ![t] = [at |-> job[t].at, list |-> l, done |-> d, idx |-> x]]
    BY Zenon, <2>2, <1>t, JobUpdates
  <2>4. "index" \in Posting /\ "record" \in Posting
    BY Zenon DEF Posting
  <2> QED
    BY Zenon, <2>1, <2>3, <2>4, WithinSection
<1>4. ASSUME NEW t \in Threads, WriteRecord(t)
      PROVE  LockInv'
  <2>1. At(t, "record", "index") /\ UNCHANGED <<layout, lock, tail_lock>>
    BY Zenon, <1>4 DEF WriteRecord
  <2>2. job' = [job EXCEPT ![t].done = job[t].done + 1]
    BY Zenon, <1>4 DEF WriteRecord
  <2>3. \E l, d, x : job' = [job EXCEPT ![t] = [at |-> job[t].at, list |-> l, done |-> d, idx |-> x]]
    BY Zenon, <2>2, <1>t, JobUpdates
  <2>4. "index" \in Posting /\ "record" \in Posting
    BY Zenon DEF Posting
  <2> QED
    BY Zenon, <2>1, <2>3, <2>4, WithinSection
<1>5. ASSUME NEW t \in Threads, PostVerb(t)
      PROVE  LockInv'
  <2>1. At(t, "index", "post-unlock") /\ UNCHANGED <<layout, lock, tail_lock, job>>
    BY Zenon, <1>5 DEF PostVerb, ringVars
  <2>2. "index" \in Posting /\ "post-unlock" \in Posting
    BY Zenon DEF Posting
  <2> QED
    BY Zenon, <2>1, <2>2, WithinSection
<1>6. ASSUME NEW t \in Threads, PostUnlock(t)
      PROVE  LockInv'
  BY Zenon, <1>6, LeaveSection DEF PostUnlock, ringVars, Posting
<1>7. ASSUME NEW t \in Threads, PollSrqLock(t)
      PROVE  LockInv'
  BY Zenon, <1>7, SpinStep
<1>8. ASSUME NEW t \in Threads, NEW ne \in 1..MaxWr, PollVerb(t, ne)
      PROVE  LockInv'
  <2>1. At(t, "poll", "copy") /\ UNCHANGED <<layout, lock, tail_lock>>
    BY Zenon, <1>8 DEF PollVerb, ringVars
  <2>2. \E y : job' = [job EXCEPT ![t].list = y]
    BY Zenon, <1>8 DEF PollVerb
  <2>3. \E l, d, x : job' = [job EXCEPT ![t] = [at |-> job[t].at, list |-> l, done |-> d, idx |-> x]]
    BY Zenon, <2>2, <1>t, JobUpdates
  <2>4. "copy" \in Polling
    BY Zenon DEF Polling
  <2> QED
    BY Zenon, <2>1, <2>3, <2>4, WithinSection
<1>9. ASSUME NEW t \in Threads, CopyOne(t)
      PROVE  LockInv'
  <2>1. At(t, "copy", "copy") /\ UNCHANGED <<layout, lock, tail_lock>>
    BY Zenon, <1>9 DEF CopyOne
  <2>2. job' = [job EXCEPT ![t].done = job[t].done + 1]
    BY Zenon, <1>9 DEF CopyOne
  <2>3. \E l, d, x : job' = [job EXCEPT ![t] = [at |-> job[t].at, list |-> l, done |-> d, idx |-> x]]
    BY Zenon, <2>2, <1>t, JobUpdates
  <2>4. "copy" \in Polling
    BY Zenon DEF Polling
  <2> QED
    BY Zenon, <2>1, <2>3, <2>4, WithinSection
<1>10. ASSUME NEW t \in Threads, PollUnlock(t)
       PROVE  LockInv'
  <2>1. /\ At(t, "copy", "out") /\ UNCHANGED layout
        /\ lock' = [lock EXCEPT ![job[t].at] = None] /\ job' = [job EXCEPT ![t] = NoJob]
        /\ \/ UNCHANGED tail_lock
           \/ /\ MapCqToSrq(job[t].at) # None
              /\ tail_lock' = [tail_lock EXCEPT ![MapCqToSrq(job[t].at)] = None]
    BY Zenon, <1>10 DEF PollUnlock, ringVars
  <2>2. "copy" \in Polling
    BY Zenon DEF Polling
  <2> QED
    BY Zenon, <2>1, <2>2, LeaveSection
<1>11. ASSUME UNCHANGED <<layout, lock, tail_lock, pc, job>>
       PROVE  LockInv'
  BY <1>11, SameLayout DEF LockInv, Typed, MutexHeld, SpinLockHeld
<1>12. CASE (\E q \in QPs : Arrive(q) \/ CompleteRecv(q)) \/ (\E c \in CQs : CompleteSend(c))
  BY Zenon, <1>12, <1>11 DEF Arrive, CompleteRecv, CompleteSend, ringVars
<1>13. CASE UNCHANGED vars
  BY Zenon, <1>13, <1>11 DEF vars, ringVars
<1> QED
  BY Zenon, <1>1, <1>2, <1>3, <1>4, <1>5, <1>6, <1>7, <1>8, <1>9, <1>10, <1>12, <1>13 DEF Next

(* "We are already in critical section" where ibv_cmd_post_recv and        *)
(* ibv_cmd_post_srq_recv store a record and where ibv_cmd_poll_cq takes    *)
(* one: for every layout and number of threads, no two of them are at one  *)
(* ring's tail at a time, nor at its head when the ring has one lock.      *)
THEOREM RingAlwaysInCriticalSection == Spec => []RingInCriticalSection
<1>1. LockInv => RingInCriticalSection
  <2> SUFFICES ASSUME LockInv, NEW t \in Threads, NEW u \in Threads
               PROVE  /\ OneLockPerHead /\ pc[t] = "record" /\ pc[u] = "record"
                           /\ PostRing(job[t].at) = PostRing(job[u].at) => t = u
                      /\ pc[t] = "copy" /\ pc[u] = "copy"
                           /\ PollRing(job[t].at) = PollRing(job[u].at) => t = u
    BY Zenon DEF RingInCriticalSection
  <2>1. ASSUME OneLockPerHead, pc[t] = "record", pc[u] = "record",
               PostRing(job[t].at) = PostRing(job[u].at)
        PROVE  t = u
    <3>1. /\ job[t].at \in Rqs /\ lock[job[t].at] = t
          /\ job[u].at \in Rqs /\ lock[job[u].at] = u
      BY Zenon, <2>1 DEF LockInv, MutexHeld, Posting
    <3> QED
      BY Zenon, <2>1, <3>1 DEF OneLockPerHead
  <2>2. ASSUME pc[t] = "copy", pc[u] = "copy", PollRing(job[t].at) = PollRing(job[u].at)
        PROVE  t = u
    <3>1. /\ job[t].at \in CQs /\ lock[job[t].at] = t
          /\ job[u].at \in CQs /\ lock[job[u].at] = u
      BY Zenon, <2>2 DEF LockInv, MutexHeld, Polling
    <3>2. /\ MapCqToSrq(job[t].at) # None => tail_lock[MapCqToSrq(job[t].at)] = t
          /\ MapCqToSrq(job[u].at) # None => tail_lock[MapCqToSrq(job[u].at)] = u
      BY Zenon, <2>2 DEF LockInv, SpinLockHeld
    <3>3. /\ CQs \cap SRQs = {} /\ MapCqToSrq(job[t].at) \in SRQs \cup {None}
          /\ MapCqToSrq(job[u].at) \in SRQs \cup {None}
      BY Zenon, Names DEF LockInv, Typed
    <3> QED
      BY Zenon, <2>2, <3>1, <3>2, <3>3 DEF PollRing
  <2> QED
    BY Zenon, <2>1, <2>2
<1> QED
  BY <1>1, InitLocks, NextLocks, PTL DEF Spec
=============================================================================
