-------------------------- MODULE CompChannelProofs --------------------------
(***************************************************************************)
(* Completion channels and events, for any processes, threads, queues,     *)
(* handles and descriptors.                                                *)
(***************************************************************************)
EXTENDS CompChannel, TLAPS

(* Zenon proves the leaves that do not name another prover.                *)
USE Zenon

----------------------------------------------------------------------------
(* The channels.  A process has one descriptor; who destroys a channel is  *)
(* alone, and clears channel_map before the descriptor is closed.          *)

Same(t, u) == ProcOf[t] = ProcOf[u]

ChannelOf ==
  /\ \A f \in Fds : channel_map[f] # NULL => open[f] = channel_map[f]
  /\ \A p \in Procs : fd[p] # NULL => open[fd[p]] = p
Opening ==
  \A t \in Threads : thr[t].op = "channel" =>
    /\ thr[t].pc = "store" /\ thr[t].handle \in Fds /\ open[thr[t].handle] = ProcOf[t]
    /\ channel_map[thr[t].handle] = NULL /\ fd[ProcOf[t]] = NULL
Using == {"get", "create", "unchannel"}
HasChannel == \A t \in Threads : thr[t].op \in Using => fd[ProcOf[t]] # NULL
Alone ==
  \A t, u \in Threads : Same(t, u) =>
    /\ thr[t].op = "channel" /\ thr[u].op = "channel" => t = u
    /\ thr[t].op = "unchannel" /\ thr[u].op \in Using => t = u
Closing ==
  /\ \A t \in Threads : thr[t].op = "unchannel" =>
       /\ thr[t].pc \in {"find", "verb", "hung"}
       /\ thr[t].pc = "verb" => channel_map[fd[ProcOf[t]]] = NULL
  /\ \A p \in Procs : fd[p] # NULL /\ p \notin cut =>
       \/ channel_map[fd[p]] = p
       \/ \E t \in Threads : ProcOf[t] = p /\ thr[t].op = "unchannel" /\ thr[t].pc = "verb"
ChannelInv == ChannelOf /\ Opening /\ HasChannel /\ Alone /\ Closing

(* The queues.  The handle of a queue is its own until the host's verb has *)
(* returned, which waits for the last acknowledgement.                     *)
Exists(c) == cq[c].st # "none"
Creating(c) == \E t \in Threads : thr[t].op = "create" /\ thr[t].cq = c

Handle ==
  /\ \A c \in Cqs : IF Exists(c) THEN cq[c].handle \in Handles /\ cq[c].owner \in Procs ELSE cq[c].out = 0
  /\ \A c, d \in Cqs : Exists(c) /\ Exists(d) /\ cq[c].handle = cq[d].handle => c = d
  /\ \A h \in Handles : cq_map[h] # NULL => cq[cq_map[h]].st = "live" /\ cq[cq_map[h]].handle = h
Owned == \A c \in owned : cq[c].st = "live" /\ cq_map[cq[c].handle] = c
Dying ==
  \A c \in Cqs : cq[c].st = "dying" =>
    /\ rctx # NULL
    /\ \E t \in Threads : rctx = t /\ thr[t].op = "destroy" /\ thr[t].pc = "wait" /\ thr[t].cq = c
Waiting ==
  \A p \in Procs : \A k \in 1..Len(events[p]) :
    LET c == events[p][k] IN cq[c].st = "live" /\ cq[c].owner = p /\ ~Creating(c)
Entry ==
  \A c \in Cqs : Exists(c) /\ ~Creating(c) =>
    \/ client_map[cq[c].owner][cq[c].handle] = c
    \/ client_map[cq[c].owner][cq[c].handle] = NULL /\ c \in overtaken
Late == \A c \in Cqs : cq[c].out > 0 /\ c \notin late => cq_map[cq[c].handle] = c
Apart ==
  \A t, u \in Threads :
    {thr[t].op, thr[u].op} \subseteq {"create", "destroy"} /\ thr[t].cq = thr[u].cq =>
      t = u \/ thr[t].cq = NULL
Mine(t) == thr[t].cq \in Cqs /\ thr[t].handle = cq[thr[t].cq].handle /\ cq[thr[t].cq].owner = ProcOf[t]

Create(t) ==
  IF thr[t].pc \in {"verb", "hung"}
  THEN thr[t].cq = NULL /\ (thr[t].pc = "hung" => ProcOf[t] \in cut)
  ELSE /\ thr[t].pc \in {"store", "return"} /\ Mine(t) /\ cq[thr[t].cq].st = "live"
       /\ cq[thr[t].cq].out = 0 /\ thr[t].cq \notin owned
       /\ thr[t].pc = "return" => cq_map[thr[t].handle] = thr[t].cq
Destroy(t) ==
  /\ thr[t].cq \in Cqs /\ thr[t].handle \in Handles /\ thr[t].cq \notin owned
  /\ \/ thr[t].pc = "find" /\ Mine(t) /\ cq[thr[t].cq].st = "live" /\ cq_map[thr[t].handle] = thr[t].cq
     \/ thr[t].pc = "verb" /\ Mine(t) /\ cq[thr[t].cq].st = "live" /\ cq_map[thr[t].handle] # thr[t].cq
     \/ thr[t].pc = "wait" /\ Mine(t) /\ cq[thr[t].cq].st = "dying" /\ rctx = t
     \/ thr[t].pc \in {"unlock", "clear"} /\ ~Exists(thr[t].cq)
Notify(t) == thr[t].pc = "serve" /\ thr[t].cq \in owned /\ thr[t].handle = cq[thr[t].cq].handle
Get(t) ==
  \/ thr[t].pc = "serve" /\ thr[t].cq = NULL
  \/ thr[t].pc = "gotten" /\ thr[t].cq \in Cqs /\ cq[thr[t].cq].owner = ProcOf[t]
  \/ thr[t].pc = "replied" /\ Mine(t)
  \/ thr[t].pc = "hung" /\ (ProcOf[t] \in cut \cup NonBlocking \/ thr[t].cq \in overtaken)
Ack(t) ==
  /\ thr[t].cq \in Cqs /\ thr[t].handle = cq[thr[t].cq].handle /\ thr[t].n > 0
  /\ thr[t].pc \in {"serve", "hung"} /\ (thr[t].pc = "hung" => thr[t].cq \in late)
Call(t) ==
  /\ thr[t].op = "none" <=> thr[t].pc = "idle"
  /\ thr[t].op = "unchannel" /\ thr[t].pc = "hung" => ProcOf[t] \in cut
  /\ thr[t].op = "create" => Create(t)
  /\ thr[t].op = "destroy" => Destroy(t)
  /\ thr[t].op = "notify" => Notify(t)
  /\ thr[t].op = "get" => Get(t)
  /\ thr[t].op = "ack" => Ack(t)
CqInv ==
  /\ Handle /\ Owned /\ Dying /\ Waiting /\ Entry /\ Late /\ Apart
  /\ \A t \in Threads : Call(t)

(* What the removal of a destroyed queue's events leaves of those that     *)
(* wait: events that were there, of other queues.                          *)
Shortened(s, c) ==
  /\ Without(s, c) \in Seq(Cqs) /\ Len(Without(s, c)) <= Len(s)
  /\ \A i \in 1..Len(Without(s, c)) : \E k \in 1..Len(s) : s[k] # c /\ Without(s, c)[i] = s[k]

(* What the host counts, and that the acknowledgements can be counted.     *)
Counted == OneAckPerGet /\ \A c \in Cqs : IsFiniteSet(Acks(c))

Inv == use \in Uses /\ TypeOK /\ ChannelInv /\ CqInv /\ Counted

(* The facts about finite sets that the steps count with.  They follow from *)
(* the theorems of FiniteSetTheorems: lemma CountingHolds.                  *)
Counting ==
  /\ IsFiniteSet({}) /\ \A A, B : IsFiniteSet(A) /\ B \subseteq A => IsFiniteSet(B)
  /\ \A A : IsFiniteSet(A) => Cardinality(A) \in Nat /\ (Cardinality(A) = 0 <=> A = {})
  /\ \A A, t : IsFiniteSet(A) /\ t \notin A => Cardinality(A \cup {t}) = Cardinality(A) + 1
  /\ \A A, t : \A n \in Nat : IsFiniteSet(A) /\ (\A k : <<t, k>> \notin A) =>
       /\ IsFiniteSet(A \cup ({t} \X (1..n)))
       /\ Cardinality(A \cup ({t} \X (1..n))) = Cardinality(A) + n
  /\ \A s \in Seq(Cqs), c \in Cqs : Shortened(s, c)

----------------------------------------------------------------------------
(* What a step does to the call of its thread.                             *)

Only(t) == thr' \in [Threads -> Calls] /\ \A u \in Threads \ {t} : thr'[u] = thr[u]
Becomes(t, op, pc, c, h) ==
  thr'[t].op = op /\ thr'[t].pc = pc /\ thr'[t].cq = c /\ thr'[t].handle = h

(* What a step does to the queues: it changes at most queue c.             *)
Queued(c, st, h, p, out) ==
  /\ cq' \in [Cqs -> Queues] /\ \A d \in Cqs \ {c} : cq'[d] = cq[d]
  /\ cq'[c].st = st /\ cq'[c].handle = h /\ cq'[c].owner = p /\ cq'[c].out = out

LEMMA InFacts ==
  ASSUME TypeOK, NEW t \in Threads, NEW op \in Ops, NEW l \in Pcs, NEW c \in Cqs \cup {NULL},
         NEW h \in Handles \cup Fds \cup {NULL}, In(t, op, l, c, h)
  PROVE  Only(t) /\ Becomes(t, op, l, c, h) /\ thr'[t].n = thr[t].n
BY SMT DEF In, Only, Becomes, TypeOK, Calls

LEMMA GotoFacts ==
  ASSUME TypeOK, NEW t \in Threads, NEW l \in Pcs, Goto(t, l)
  PROVE  Only(t) /\ Becomes(t, thr[t].op, l, thr[t].cq, thr[t].handle) /\ thr'[t].n = thr[t].n
<1>1. /\ thr[t].op \in Ops /\ thr[t].cq \in Cqs \cup {NULL}
      /\ thr[t].handle \in Handles \cup Fds \cup {NULL}
  BY SMT DEF TypeOK, Calls
<1> QED
  BY SMT, <1>1, InFacts DEF Goto

LEMMA StartFacts ==
  ASSUME TypeOK, NEW t \in Threads, NEW op \in Ops, NEW c \in Cqs \cup {NULL}, NEW l \in Pcs,
         Start(t, op, c, l)
  PROVE  Only(t) /\ Becomes(t, op, l, c, HandleOf(c)) /\ thr'[t].n = thr[t].n
<1>1. HandleOf(c) \in Handles \cup Fds \cup {NULL}
  BY SMT DEF TypeOK, Queues, HandleOf
<1> QED
  BY SMT, <1>1, InFacts DEF Start

LEMMA DoneFacts ==
  ASSUME TypeOK, NEW t \in Threads, NEW c \in Cqs \cup {NULL}, Done(t, c)
  PROVE  Only(t) /\ thr'[t].op = "none" /\ thr'[t].pc = "idle"
<1>1. NextDuty(t, c) \in Duties
  BY DEF NextDuty, After, Duties
<1>2. Keeps(t, c) \in Cqs \cup {NULL}
  BY SMT DEF Keeps
<1> QED
  BY SMT, <1>1, <1>2 DEF Done, Only, TypeOK, Calls, Ops, Pcs

LEMMA Typing ==
  ASSUME Inv, NEW t \in Threads
  PROVE  /\ ProcOf[t] \in Procs /\ thr[t].op \in Ops /\ thr[t].pc \in Pcs /\ thr[t].n \in Nat
         /\ thr[t].cq \in Cqs \cup {NULL} /\ thr[t].handle \in Handles \cup Fds \cup {NULL}
         /\ fd[ProcOf[t]] \in Fds \cup {NULL} /\ Call(t) /\ NULL \notin Cqs \cup Procs \cup Fds
<1>1. ProcOf[t] \in Procs
  BY SMT, CompChannelAssumption DEF Inv, ProcOf
<1>2. thr[t] \in Calls /\ fd[ProcOf[t]] \in Fds \cup {NULL}
  BY <1>1 DEF Inv, TypeOK
<1>3. Call(t) /\ NULL \notin Cqs \cup Procs \cup Fds
  BY CompChannelAssumption DEF Inv, CqInv
<1> QED
  BY SMT, <1>1, <1>2, <1>3 DEF Calls

(* An idle thread starts a call.                                           *)
LEMMA IdleFacts ==
  ASSUME Inv, NEW t \in Threads,
         \/ CreateChannel(t) \/ DestroyChannelCall(t) \/ CreateCall(t) \/ DestroyCall(t)
         \/ NotifyCall(t) \/ GetCall(t) \/ AckCall(t)
  PROVE  thr[t].pc = "idle" /\ thr[t].op = "none"
<1>1. thr[t].pc = "idle"
  BY DEF CreateChannel, DestroyChannelCall, CreateCall, DestroyCall, NotifyCall, GetCall, AckCall, May
<1> QED
  BY <1>1, Typing DEF Call

LEMMA Updated ==
  \A S, T, f, x, v : f \in [S -> T] /\ v \in T => [f EXCEPT ![x] = v] \in [S -> T]
OBVIOUS

----------------------------------------------------------------------------
(* What the steps have in common.                                          *)

(* Most steps leave the channels alone; a call that needs one starts only  *)
(* on a channel that nobody destroys.                                      *)
LEMMA ChannelKept ==
  ASSUME Inv, UNCHANGED <<use, channel_map, open, fd, cut>>, NEW t \in Threads, Only(t),
         thr[t].op \notin {"channel", "unchannel"}, thr'[t].op \notin {"channel", "unchannel"},
         thr'[t].op \in Using =>
           \/ thr[t].op \in Using
           \/ fd[ProcOf[t]] # NULL /\ \A u \in Threads : Same(u, t) => thr[u].op # "unchannel"
  PROVE  ChannelInv'
<1>1. ProcOf' = ProcOf /\ \A u, v : Same(u, v)' <=> Same(u, v)
  BY SMT DEF ProcOf, Same
<1>2. \A u \in Threads : u # t => thr'[u] = thr[u]
  BY DEF Only
<1>3. ChannelOf' /\ Opening'
  BY <1>1, <1>2 DEF Inv, ChannelInv, ChannelOf, Opening
<1>4. HasChannel'
  BY <1>1, <1>2 DEF Inv, ChannelInv, HasChannel
<1>5. Alone'
  <2>1. \A u, v \in Threads : Same(u, v) /\ thr'[u].op = "channel" /\ thr'[v].op = "channel" => u = v
    BY <1>2 DEF Inv, ChannelInv, Alone
  <2>2. ASSUME NEW u \in Threads, NEW v \in Threads, Same(u, v), thr'[u].op = "unchannel", thr'[v].op \in Using
        PROVE  u = v
    <3>1. u # t /\ thr[u].op = "unchannel"
      BY <1>2, <2>2
    <3>2. v = t => thr[t].op \in Using
      BY <2>2, <3>1
    <3>3. thr[v].op \in Using
      BY <1>2, <2>2, <3>2
    <3> QED
      BY <2>2, <3>1, <3>3 DEF Inv, ChannelInv, Alone
  <2> QED
    BY <1>1, <2>1, <2>2 DEF Alone
<1>6. Closing'
  <2>1. \A u \in Threads : thr'[u].op = "unchannel" => thr'[u] = thr[u]
    BY <1>2
  <2>2. \A u \in Threads : thr[u].op = "unchannel" => thr'[u] = thr[u]
    BY <1>2
  <2>3. \A u \in Threads : thr'[u].op = "unchannel" =>
          /\ thr'[u].pc \in {"find", "verb", "hung"}
          /\ thr'[u].pc = "verb" => channel_map[fd[ProcOf[u]]] = NULL
    BY <2>1 DEF Inv, ChannelInv, Closing
  <2>4. ASSUME NEW p \in Procs, fd[p] # NULL, p \notin cut, channel_map[fd[p]] # p
        PROVE  \E u \in Threads : ProcOf[u] = p /\ thr'[u].op = "unchannel" /\ thr'[u].pc = "verb"
    <3>1. PICK u \in Threads : ProcOf[u] = p /\ thr[u].op = "unchannel" /\ thr[u].pc = "verb"
      BY <2>4 DEF Inv, ChannelInv, Closing
    <3> QED
      BY <2>2, <3>1
  <2> QED
    BY <1>1, <2>3, <2>4 DEF Closing
<1> QED
  BY <1>3, <1>4, <1>5, <1>6 DEF ChannelInv

Balanced(c) ==
  /\ cq[c].out = held[c] + Cardinality(InFlight(c)) + Cardinality(Acks(c))
  /\ IsFiniteSet(Acks(c))

LEMMA CountedBalanced == (Counted <=> \A c \in Cqs : Balanced(c)) /\ (Counted' <=> \A c \in Cqs : Balanced(c)')
BY DEF Counted, OneAckPerGet, Balanced

(* The acknowledgements of threads other than t stay.                      *)
LEMMA AcksKept ==
  ASSUME NEW c, \A u \in Threads :
           /\ (thr'[u].op = "ack" /\ thr'[u].cq = c) <=> (thr[u].op = "ack" /\ thr[u].cq = c)
           /\ thr'[u].op = "ack" /\ thr'[u].cq = c => thr'[u].n = thr[u].n
  PROVE  Acks(c)' = Acks(c)
<1>1. ASSUME NEW x \in Acks(c) PROVE x \in Acks(c)'
  <2>1. PICK u \in Threads : thr[u].op = "ack" /\ thr[u].cq = c /\ x \in {u} \X (1..thr[u].n)
    BY DEF Acks, Acking
  <2>2. thr'[u].op = "ack" /\ thr'[u].cq = c /\ x \in {u} \X (1..thr'[u].n)
    BY <2>1
  <2> QED
    BY <2>2 DEF Acks, Acking
<1>2. ASSUME NEW x \in Acks(c)' PROVE x \in Acks(c)
  <2>1. PICK u \in Threads : thr'[u].op = "ack" /\ thr'[u].cq = c /\ x \in {u} \X (1..thr'[u].n)
    BY DEF Acks, Acking
  <2>2. thr[u].op = "ack" /\ thr[u].cq = c /\ x \in {u} \X (1..thr[u].n)
    BY <2>1
  <2> QED
    BY <2>2 DEF Acks, Acking
<1> QED
  BY <1>1, <1>2

(* A queue whose counters and whose events t leaves alone.                 *)
LEMMA BalanceKept ==
  ASSUME Inv, NEW t \in Threads, Only(t), NEW c \in Cqs, cq'[c].out = cq[c].out, held'[c] = held[c],
         (thr'[t].op = "get" /\ thr'[t].cq = c) <=> (thr[t].op = "get" /\ thr[t].cq = c),
         (thr'[t].op = "ack" /\ thr'[t].cq = c) <=> (thr[t].op = "ack" /\ thr[t].cq = c),
         thr'[t].op = "ack" /\ thr'[t].cq = c => thr'[t].n = thr[t].n
  PROVE  Balanced(c)'
<1>1. \A u \in Threads : u # t => thr'[u] = thr[u]
  BY DEF Only
<1>2. InFlight(c)' = InFlight(c)
  BY <1>1 DEF InFlight
<1>3. Acks(c)' = Acks(c)
  <2>1. \A u \in Threads :
           /\ (thr'[u].op = "ack" /\ thr'[u].cq = c) <=> (thr[u].op = "ack" /\ thr[u].cq = c)
           /\ thr'[u].op = "ack" /\ thr'[u].cq = c => thr'[u].n = thr[u].n
    BY <1>1
  <2> QED
    BY <2>1, AcksKept
<1>4. Balanced(c)
  BY CountedBalanced DEF Inv
<1> QED
  BY <1>2, <1>3, <1>4 DEF Balanced

LEMMA CountedKept ==
  ASSUME Inv, NEW t \in Threads, Only(t), held' = held, \A c \in Cqs : cq'[c].out = cq[c].out,
         thr[t].op \notin {"get", "ack"}, thr'[t].op \notin {"get", "ack"}
  PROVE  Counted'
BY BalanceKept, CountedBalanced

(* The call of a thread is not disturbed by a step of another one that     *)
(* leaves the queue of the call as the call needs it.                      *)
LEMMA CallKept ==
  ASSUME Inv, UNCHANGED use, NEW u \in Threads, thr'[u] = thr[u], cut \subseteq cut',
         thr[u].op \in {"create", "destroy", "notify", "get", "ack"} /\ thr[u].cq \in Cqs =>
           /\ cq'[thr[u].cq].handle = cq[thr[u].cq].handle /\ cq'[thr[u].cq].owner = cq[thr[u].cq].owner
           /\ thr[u].cq \in late => thr[u].cq \in late'
           /\ thr[u].cq \in overtaken => thr[u].cq \in overtaken',
         thr[u].op \in {"create", "destroy"} /\ thr[u].cq \in Cqs =>
           /\ cq'[thr[u].cq].st = cq[thr[u].cq].st /\ (thr[u].cq \in owned' => thr[u].cq \in owned)
           /\ cq_map'[thr[u].handle] = thr[u].cq <=> cq_map[thr[u].handle] = thr[u].cq,
         thr[u].op = "create" /\ thr[u].cq \in Cqs => (cq[thr[u].cq].out = 0 => cq'[thr[u].cq].out = 0),
         thr[u].op = "destroy" /\ rctx = u => rctx' = u,
         thr[u].op = "notify" => thr[u].cq \in owned'
  PROVE  Call(u)'
<1>1. ProcOf' = ProcOf /\ NonBlocking' = NonBlocking
  BY SMT DEF ProcOf, NonBlocking
<1>2. Call(u) /\ owned \subseteq Cqs /\ overtaken \subseteq Cqs
  BY Typing DEF Inv, TypeOK
<1>3. CASE thr[u].op = "create"
  <2>1. Create(u)'
    BY <1>1, <1>2, <1>3 DEF Call, Create, Mine
  <2> QED
    BY <1>2, <1>3, <2>1 DEF Call
<1>4. CASE thr[u].op = "destroy"
  <2>1. Destroy(u)'
    BY <1>1, <1>2, <1>4 DEF Call, Destroy, Mine, Exists
  <2> QED
    BY <1>2, <1>4, <2>1 DEF Call
<1>5. CASE thr[u].op = "notify"
  <2>1. Notify(u)'
    BY <1>1, <1>2, <1>5 DEF Call, Notify
  <2> QED
    BY <1>2, <1>5, <2>1 DEF Call
<1>6. CASE thr[u].op = "get"
  <2>1. Get(u)'
    BY <1>1, <1>2, <1>6 DEF Call, Get, Mine
  <2> QED
    BY <1>2, <1>6, <2>1 DEF Call
<1>7. CASE thr[u].op = "ack"
  <2>1. Ack(u)'
    BY <1>1, <1>2, <1>7 DEF Call, Ack
  <2> QED
    BY <1>2, <1>7, <2>1 DEF Call
<1>8. CASE thr[u].op \notin {"create", "destroy", "notify", "get", "ack"}
  BY <1>1, <1>2, <1>8 DEF Call
<1> QED
  BY <1>3, <1>4, <1>5, <1>6, <1>7, <1>8

QueuesStay ==
  /\ UNCHANGED <<use, cq_map, rctx, client_map, owned>>
  /\ \A c \in Cqs : cq'[c].st = cq[c].st /\ cq'[c].handle = cq[c].handle /\ cq'[c].owner = cq[c].owner
HistoryGrows == cut \subseteq cut' /\ late \subseteq late' /\ overtaken \subseteq overtaken'
EventsFrom ==
  \A p \in Procs : \A k \in 1..Len(events'[p]) :
    \/ \E j \in 1..Len(events[p]) : events'[p][k] = events[p][j]
    \/ events'[p][k] \in owned /\ cq[events'[p][k]].owner = p
OutsFrom ==
  \A c \in Cqs :
    /\ cq[c].out = 0 => cq'[c].out = 0 \/ (cq[c].st = "live" /\ ~Creating(c))
    /\ cq'[c].out > 0 => cq[c].out > 0 \/ c \in late' \/ cq_map[cq[c].handle] = c
(* A thread that neither creates nor destroys a queue that it has.         *)
Aside(call) == call.op # "destroy" /\ (call.op = "create" => call.cq = NULL)

(* A step that creates and destroys no queue keeps the tables of the       *)
(* queues in order.                                                        *)
LEMMA QueuesKept ==
  ASSUME Inv, QueuesStay, HistoryGrows, EventsFrom, OutsFrom,
         \A u \in Threads : thr'[u] # thr[u] => Aside(thr[u]) /\ Aside(thr'[u]) /\ Call(u)'
  PROVE  CqInv'
<1>1. /\ \A c \in Cqs : cq'[c].st = cq[c].st /\ cq'[c].handle = cq[c].handle /\ cq'[c].owner = cq[c].owner
      /\ cq_map' = cq_map /\ rctx' = rctx /\ client_map' = client_map /\ owned' = owned
      /\ NULL \notin Cqs /\ owned \subseteq Cqs
  BY CompChannelAssumption DEF QueuesStay, Inv, TypeOK
<1>2. \A c \in Cqs : Exists(c)' <=> Exists(c)
  BY <1>1 DEF Exists
<1>3. \A c \in Cqs : Creating(c)' <=> Creating(c)
  BY <1>1 DEF Creating, Aside
<1>4. Handle'
  <2>1. \A c \in Cqs : cq[c].st # "none" \/ cq'[c].out = 0
    BY DEF OutsFrom, Inv, CqInv, Handle, Exists
  <2>2. \A c \in Cqs : IF Exists(c)' THEN cq'[c].handle \in Handles /\ cq'[c].owner \in Procs ELSE cq'[c].out = 0
    BY <1>1, <1>2, <2>1 DEF Inv, CqInv, Handle, Exists
  <2>3. \A c, d \in Cqs : Exists(c)' /\ Exists(d)' /\ cq'[c].handle = cq'[d].handle => c = d
    BY <1>1, <1>2 DEF Inv, CqInv, Handle
  <2>4. \A h \in Handles : cq_map[h] # NULL => cq_map[h] \in Cqs
    BY DEF Inv, TypeOK
  <2>5. \A h \in Handles : cq_map[h] # NULL => cq'[cq_map[h]].st = "live" /\ cq'[cq_map[h]].handle = h
    BY <1>1, <2>4 DEF Inv, CqInv, Handle
  <2> QED
    BY <1>1, <2>2, <2>3, <2>5 DEF Handle
<1>5. Owned'
  BY <1>1 DEF Inv, CqInv, Owned
<1>6. Dying'
  <2>1. ASSUME NEW c \in Cqs, cq[c].st = "dying"
        PROVE  rctx # NULL /\ \E u \in Threads : rctx = u /\ thr'[u].op = "destroy" /\ thr'[u].pc = "wait" /\ thr'[u].cq = c
    <3>1. rctx # NULL /\ \E u \in Threads : rctx = u /\ thr[u].op = "destroy" /\ thr[u].pc = "wait" /\ thr[u].cq = c
      BY <2>1 DEF Inv, CqInv, Dying
    <3>2. \A u \in Threads : thr[u].op = "destroy" => thr'[u] = thr[u]
      BY <1>1 DEF Aside
    <3> QED
      BY <3>1, <3>2
  <2> QED
    BY <1>1, <2>1 DEF Dying
<1>7. Waiting'
  <2>1. ASSUME NEW p \in Procs, NEW k \in 1..Len(events'[p])
        PROVE  \E c \in Cqs : c = events'[p][k] /\ cq[c].st = "live" /\ cq[c].owner = p /\ ~Creating(c)
    <3>1. CASE \E j \in 1..Len(events[p]) : events'[p][k] = events[p][j]
      <4>1. PICK j \in 1..Len(events[p]) : events'[p][k] = events[p][j]
        BY <3>1
      <4>2. events[p] \in Seq(Cqs)
        BY DEF Inv, TypeOK
      <4>3. events[p][j] \in Cqs
        BY SMT, <4>2
      <4>4. cq[events[p][j]].st = "live" /\ cq[events[p][j]].owner = p /\ ~Creating(events[p][j])
        BY DEF Inv, CqInv, Waiting
      <4> QED
        BY <4>1, <4>3, <4>4
    <3>2. CASE events'[p][k] \in owned /\ cq[events'[p][k]].owner = p
      <4>1. \A u \in Threads : thr[u].op = "create" => Create(u)
        BY Typing DEF Call
      <4>2. ~Creating(events'[p][k])
        BY <1>1, <3>2, <4>1 DEF Creating, Create
      <4> QED
        BY <1>1, <3>2, <4>2 DEF Inv, CqInv, Owned
    <3> QED
      BY <3>1, <3>2 DEF EventsFrom
  <2>2. ASSUME NEW p \in Procs, NEW k \in 1..Len(events'[p])
        PROVE  /\ cq'[events'[p][k]].st = "live" /\ cq'[events'[p][k]].owner = p
               /\ ~Creating(events[p][k])'
    <3>1. PICK c \in Cqs : c = events'[p][k] /\ cq[c].st = "live" /\ cq[c].owner = p /\ ~Creating(c)
      BY SMT, <2>1
    <3>2. cq'[c].st = "live" /\ cq'[c].owner = p /\ ~Creating(c)'
      BY <1>1, <1>3, <3>1
    <3> QED
      BY <3>1, <3>2 DEF Creating
  <2> QED
    BY <2>2 DEF Waiting
<1>8. Entry'
  BY <1>1, <1>2, <1>3 DEF Inv, CqInv, Entry, HistoryGrows
<1>9. Late'
  BY <1>1 DEF Inv, CqInv, Late, OutsFrom, HistoryGrows
<1>10. Apart'
  <2>1. ASSUME NEW u \in Threads, NEW v \in Threads, {thr'[u].op, thr'[v].op} \subseteq {"create", "destroy"},
               thr'[u].cq = thr'[v].cq, thr'[u].cq # NULL
        PROVE  u = v
    <3>2. thr'[u] = thr[u] /\ thr'[v] = thr[v]
      BY <2>1 DEF Aside
    <3>3. {thr[u].op, thr[v].op} \subseteq {"create", "destroy"} /\ thr[u].cq = thr[v].cq /\ thr[u].cq # NULL
      BY <2>1, <3>2
    <3> QED
      BY <3>3 DEF Inv, CqInv, Apart
  <2> QED
    BY <2>1 DEF Apart
<1>11. ASSUME NEW u \in Threads, thr'[u] = thr[u] PROVE Call(u)'
  <2>1. thr[u].op = "create" /\ thr[u].cq \in Cqs => (cq[thr[u].cq].out = 0 => cq'[thr[u].cq].out = 0)
    BY DEF OutsFrom, Creating
  <2>2. thr[u].op = "notify" => thr[u].cq \in owned'
    BY <1>1, Typing DEF Call, Notify
  <2> QED
    BY <1>1, <1>11, <2>1, <2>2, CallKept DEF HistoryGrows, QueuesStay
<1> QED
  BY <1>4, <1>5, <1>6, <1>7, <1>8, <1>9, <1>10, <1>11 DEF CqInv

LEMMA QuietStep ==
  ASSUME Inv, NEW t \in Threads, Only(t), HistoryGrows,
         UNCHANGED <<use, cq_map, rctx, cq, events, client_map, owned>>,
         Aside(thr[t]), Aside(thr'[t]), Call(t)'
  PROVE  CqInv'
<1>1. EventsFrom
  BY DEF EventsFrom
<1>2. QueuesStay /\ OutsFrom
  BY DEF QueuesStay, OutsFrom
<1>3. \A u \in Threads : thr'[u] # thr[u] => Aside(thr[u]) /\ Aside(thr'[u]) /\ Call(u)'
  BY DEF Only
<1> QED
  BY <1>1, <1>2, <1>3, QueuesKept

----------------------------------------------------------------------------
(* The steps that leave the queues alone.                                  *)

LEMMA CreateChannelInv ==
  ASSUME Inv, UNCHANGED use, NEW t \in Threads, CreateChannel(t)
  PROVE  Inv'
<1>f. /\ Only(t) /\ fd[ProcOf[t]] = NULL
      /\ \A u \in Threads : Same(u, t) => thr[u].op # "channel"
      /\ \E f \in Fds : /\ open[f] = NULL /\ open' = [open EXCEPT ![f] = ProcOf[t]]
                        /\ Becomes(t, "channel", "store", thr[t].cq, f)
      /\ UNCHANGED <<router, cq, events, flags, client, app, history>>
  <2>1. /\ fd[ProcOf[t]] = NULL /\ \A u \in Threads : ProcOf[u] = ProcOf[t] => thr[u].op # "channel"
        /\ UNCHANGED <<router, cq, events, flags, client, app, history>>
    BY DEF CreateChannel
  <2>2. PICK f \in Fds : /\ open[f] = NULL /\ open' = [open EXCEPT ![f] = ProcOf[t]]
                         /\ In(t, "channel", "store", thr[t].cq, f)
    BY DEF CreateChannel
  <2>3. Only(t) /\ Becomes(t, "channel", "store", thr[t].cq, f)
    BY SMT, <2>2, InFacts, Typing DEF Inv, Ops, Pcs
  <2> QED
    BY <2>1, <2>2, <2>3 DEF Same
<1>t. TypeOK'
  <2>1. open' \in [Fds -> Procs \cup {NULL}]
    BY Updated, <1>f, Typing DEF CreateChannel, Inv, TypeOK, Queued
  <2> QED
    BY <2>1, <1>f DEF Inv, TypeOK, Only, router, kernel, flags, client, app, history
<1>c. ChannelInv'
  <2>1. ProcOf' = ProcOf /\ \A u, v : Same(u, v)' <=> Same(u, v)
    BY SMT DEF ProcOf, Same
  <2>2. PICK f \in Fds : /\ open[f] = NULL /\ open' = [open EXCEPT ![f] = ProcOf[t]]
                         /\ thr'[t].op = "channel" /\ thr'[t].pc = "store" /\ thr'[t].handle = f
    BY <1>f DEF Becomes
  <2>3. /\ \A u \in Threads : u # t => thr'[u] = thr[u]
        /\ channel_map' = channel_map /\ fd' = fd /\ cut' = cut /\ fd[ProcOf[t]] = NULL
        /\ \A u \in Threads : Same(u, t) => thr[u].op # "channel"
    BY <1>f DEF Only, router, client, history
  <2>4. thr[t].op = "none"
    BY IdleFacts
  <2>5. /\ ProcOf[t] \in Procs /\ NULL \notin Procs /\ open' \in [Fds -> Procs \cup {NULL}]
        /\ \A g \in Fds : open'[g] = IF g = f THEN ProcOf[t] ELSE open[g]
    BY SMT, <2>2, Typing DEF Inv, TypeOK
  <2>6. channel_map[f] = NULL
    BY <2>2, <2>5 DEF Inv, ChannelInv, ChannelOf
  <2>7. \A p \in Procs : fd[p] # NULL => fd[p] \in Fds /\ open[fd[p]] = p
    BY DEF Inv, TypeOK, ChannelInv, ChannelOf
  <2>8. ChannelOf'
    <3>1. \A g \in Fds : channel_map[g] # NULL => open'[g] = channel_map[g]
      BY <2>5, <2>6 DEF Inv, ChannelInv, ChannelOf
    <3>2. \A p \in Procs : fd[p] # NULL => open'[fd[p]] = p
      <4>1. \A p \in Procs : fd[p] # NULL => fd[p] # f
        BY SMT, <2>2, <2>5, <2>7
      <4> QED
        BY <2>5, <2>7, <4>1
    <3> QED
      BY <2>3, <3>1, <3>2 DEF ChannelOf
  <2>9. Opening'
    <3>1. ASSUME NEW u \in Threads, u # t, thr[u].op = "channel"
          PROVE  thr[u].handle \in Fds /\ open'[thr[u].handle] = ProcOf[u]
      <4>1. thr[u].handle \in Fds /\ open[thr[u].handle] = ProcOf[u] /\ ProcOf[u] \in Procs
        BY <3>1, Typing DEF Inv, ChannelInv, Opening
      <4> QED
        BY <2>2, <2>5, <4>1
    <3>2. \A u \in Threads : u # t /\ thr[u].op = "channel" =>
            thr[u].pc = "store" /\ channel_map[thr[u].handle] = NULL /\ fd[ProcOf[u]] = NULL
      BY DEF Inv, ChannelInv, Opening
    <3>3. open'[f] = ProcOf[t]
      BY <2>5
    <3>4. \A u \in Threads : thr'[u].op = "channel" =>
            /\ thr'[u].pc = "store" /\ thr'[u].handle \in Fds /\ open'[thr'[u].handle] = ProcOf[u]
            /\ channel_map[thr'[u].handle] = NULL /\ fd[ProcOf[u]] = NULL
      BY <2>2, <2>3, <2>6, <3>1, <3>2, <3>3
    <3> QED
      BY <2>1, <2>3, <3>4 DEF Opening
  <2>10. "channel" \notin Using /\ "unchannel" # "channel" /\ "none" \notin Using
    BY SMT DEF Using
  <2>11. HasChannel'
    BY <2>1, <2>2, <2>3, <2>10 DEF Inv, ChannelInv, HasChannel
  <2>12. Alone'
    BY <2>1, <2>2, <2>3, <2>10 DEF Inv, ChannelInv, Alone, Same
  <2>13. Closing'
    <3>1. \A u \in Threads : thr'[u].op = "unchannel" \/ thr[u].op = "unchannel" => thr'[u] = thr[u]
      BY <2>2, <2>3, <2>4
    <3>2. \A u \in Threads : thr'[u].op = "unchannel" =>
            /\ thr'[u].pc \in {"find", "verb", "hung"}
            /\ thr'[u].pc = "verb" => channel_map[fd[ProcOf[u]]] = NULL
      BY <3>1 DEF Inv, ChannelInv, Closing
    <3>3. ASSUME NEW p \in Procs, fd[p] # NULL, p \notin cut, channel_map[fd[p]] # p
          PROVE  \E u \in Threads : ProcOf[u] = p /\ thr'[u].op = "unchannel" /\ thr'[u].pc = "verb"
      <4>1. PICK u \in Threads : ProcOf[u] = p /\ thr[u].op = "unchannel" /\ thr[u].pc = "verb"
        BY <3>3 DEF Inv, ChannelInv, Closing
      <4> QED
        BY <3>1, <4>1
    <3> QED
      BY <2>1, <2>3, <3>2, <3>3 DEF Closing
  <2> QED
    BY <2>8, <2>9, <2>11, <2>12, <2>13 DEF ChannelInv
<1>q. CqInv'
  <2>1. thr[t].op = "none" /\ thr'[t].op = "channel" /\ thr'[t].pc = "store" /\ Only(t)
    BY IdleFacts, <1>f DEF Becomes
  <2>2. UNCHANGED <<cq_map, rctx, cq, events, client_map, owned>> /\ HistoryGrows
    BY <1>f DEF router, client, app, history, HistoryGrows
  <2>3. Call(t)' /\ Aside(thr[t]) /\ Aside(thr'[t])
    BY <2>1 DEF Call, Aside
  <2> QED
    BY <2>1, <2>2, <2>3, QuietStep
<1>1. Only(t) /\ thr[t].op = "none" /\ thr'[t].op = "channel" /\ UNCHANGED <<cq, held>>
  BY <1>f, IdleFacts DEF Becomes, router, kernel, client, app, history
<1>2. Counted'
  BY <1>1, CountedKept
<1> QED
  BY <1>2, <1>t, <1>c, <1>q DEF Inv

LEMMA StoreChannelInv ==
  ASSUME Inv, UNCHANGED use, NEW t \in Threads, StoreChannel(t)
  PROVE  Inv'
<1>f. /\ Only(t) /\ thr[t].op = "channel" /\ thr[t].handle \in Fds
      /\ channel_map' = [channel_map EXCEPT ![thr[t].handle] = ProcOf[t]]
      /\ fd' = [fd EXCEPT ![ProcOf[t]] = thr[t].handle]
      /\ Becomes(t, "none", "idle", thr[t].cq, NULL)
      /\ UNCHANGED <<cq_map, rctx, kernel, client_map, ctx, sock, app, history>>
  <2>1. In(t, "none", "idle", thr[t].cq, NULL) /\ thr[t].op = "channel"
    BY DEF StoreChannel
  <2>2. thr[t].handle \in Fds
    BY <2>1 DEF Inv, ChannelInv, Opening
  <2>3. Only(t) /\ Becomes(t, "none", "idle", thr[t].cq, NULL)
    BY SMT, <2>1, InFacts, Typing DEF Inv, Ops, Pcs
  <2> QED
    BY <2>1, <2>2, <2>3 DEF StoreChannel
<1>t. TypeOK'
  <2>1. channel_map' \in [Fds -> Procs \cup {NULL}]
    BY Updated, <1>f, Typing DEF Inv, TypeOK
  <2>2. fd' \in [Procs -> Fds \cup {NULL}]
    BY Updated, <1>f, Typing DEF StoreChannel, Inv, TypeOK, Queued
  <2> QED
    BY <2>1, <2>2, <1>f DEF Inv, TypeOK, Only, router, kernel, flags, client, app, history
<1>c. ChannelInv'
  <2> DEFINE p == ProcOf[t]
             h == thr[t].handle
  <2>1. ProcOf' = ProcOf /\ \A u, v : Same(u, v)' <=> Same(u, v)
    BY SMT DEF ProcOf, Same
  <2>2. /\ thr[t].op = "channel" /\ h \in Fds /\ open[h] = p /\ fd[p] = NULL
        /\ p \in Procs /\ NULL \notin Procs /\ NULL \notin Fds
    BY <1>f, Typing DEF Inv, ChannelInv, Opening
  <2>3. /\ \A u \in Threads : u # t => thr'[u] = thr[u]
        /\ thr'[t].op = "none" /\ open' = open /\ cut' = cut
    BY <1>f DEF Only, Becomes, kernel, history
  <2>4. /\ channel_map' = [channel_map EXCEPT ![h] = p] /\ channel_map \in [Fds -> Procs \cup {NULL}]
        /\ fd' = [fd EXCEPT ![p] = h] /\ fd \in [Procs -> Fds \cup {NULL}]
    BY <1>f DEF Inv, TypeOK
  <2> HIDE DEF p, h
  <2>5. /\ channel_map'[h] = p /\ \A f \in Fds : f # h => channel_map'[f] = channel_map[f]
        /\ fd'[p] = h /\ \A q \in Procs : q # p => fd'[q] = fd[q]
    BY <2>2, <2>4
  <2>6. \A q \in Procs : fd[q] # NULL => q # p /\ fd[q] \in Fds /\ fd[q] # h /\ open[fd[q]] = q
    <3>1. \A q \in Procs : fd[q] # NULL => q # p /\ fd[q] \in Fds /\ open[fd[q]] = q
      BY <2>2, <2>4 DEF Inv, ChannelInv, ChannelOf
    <3> QED
      BY SMT, <2>2, <3>1
  <2>7. \A u \in Threads : ProcOf[u] \in Procs
    BY Typing
  <2>8. ChannelOf'
    <3>1. \A f \in Fds : channel_map'[f] # NULL => open[f] = channel_map'[f]
      BY <2>2, <2>5 DEF Inv, ChannelInv, ChannelOf
    <3>2. \A q \in Procs : fd'[q] # NULL => open[fd'[q]] = q
      BY <2>2, <2>5, <2>6
    <3> QED
      BY <2>3, <3>1, <3>2 DEF ChannelOf
  <2>9. Opening'
    <3>1. ASSUME NEW u \in Threads, thr'[u].op = "channel"
          PROVE  /\ thr'[u].pc = "store" /\ thr'[u].handle \in Fds /\ open[thr'[u].handle] = ProcOf[u]
                 /\ channel_map'[thr'[u].handle] = NULL /\ fd'[ProcOf[u]] = NULL
      <4>1. u # t /\ thr'[u] = thr[u]
        BY <2>3, <3>1
      <4>2. /\ thr[u].pc = "store" /\ thr[u].handle \in Fds /\ open[thr[u].handle] = ProcOf[u]
            /\ channel_map[thr[u].handle] = NULL /\ fd[ProcOf[u]] = NULL
        BY <3>1, <4>1 DEF Inv, ChannelInv, Opening
      <4>3. ProcOf[u] # p
        BY <2>2, <3>1, <4>1 DEF Inv, ChannelInv, Alone, Same, p
      <4>4. thr[u].handle # h
        BY <2>2, <4>2, <4>3
      <4> QED
        BY <2>5, <2>7, <4>1, <4>2, <4>3, <4>4
    <3> QED
      BY <2>1, <2>3, <3>1 DEF Opening
  <2>10. \A u \in Threads : thr'[u].op \in Using \/ thr[u].op \in Using \/ thr[u].op = "unchannel" \/ thr'[u].op = "unchannel" =>
           u # t /\ thr'[u] = thr[u]
    <3>1. "none" \notin Using /\ "channel" \notin Using
      BY SMT DEF Using
    <3> QED
      BY <2>2, <2>3, <3>1
  <2>11. \A u \in Threads : thr[u].op \in Using => fd[ProcOf[u]] # NULL
    BY DEF Inv, ChannelInv, HasChannel
  <2>12. HasChannel'
    <3>1. \A u \in Threads : thr'[u].op \in Using => fd'[ProcOf[u]] # NULL
      BY <2>5, <2>6, <2>7, <2>10, <2>11
    <3> QED
      BY <2>1, <3>1 DEF HasChannel
  <2>13. Alone'
    <3>1. \A u, v \in Threads : Same(u, v) /\ thr'[u].op = "channel" /\ thr'[v].op = "channel" => u = v
      BY <2>3 DEF Inv, ChannelInv, Alone
    <3>2. \A u, v \in Threads : Same(u, v) /\ thr'[u].op = "unchannel" /\ thr'[v].op \in Using => u = v
      BY <2>10 DEF Inv, ChannelInv, Alone
    <3> QED
      BY <2>1, <3>1, <3>2 DEF Alone
  <2>14. Closing'
    <3>1. ASSUME NEW u \in Threads, thr'[u].op = "unchannel"
          PROVE  /\ thr'[u].pc \in {"find", "verb", "hung"}
                 /\ thr'[u].pc = "verb" => channel_map'[fd'[ProcOf[u]]] = NULL
      <4>1. thr'[u] = thr[u] /\ thr[u].op \in Using
        BY <2>10, <3>1 DEF Using
      <4>2. fd'[ProcOf[u]] = fd[ProcOf[u]] /\ channel_map'[fd[ProcOf[u]]] = channel_map[fd[ProcOf[u]]]
        BY <2>5, <2>6, <2>7, <2>11, <4>1
      <4> QED
        BY <3>1, <4>1, <4>2 DEF Inv, ChannelInv, Closing
    <3>2. ASSUME NEW q \in Procs, fd'[q] # NULL, q \notin cut, channel_map'[fd'[q]] # q
          PROVE  \E u \in Threads : ProcOf[u] = q /\ thr'[u].op = "unchannel" /\ thr'[u].pc = "verb"
      <4>1. q # p /\ fd[q] # NULL /\ channel_map[fd[q]] # q
        BY <2>5, <2>6, <3>2
      <4>2. PICK u \in Threads : ProcOf[u] = q /\ thr[u].op = "unchannel" /\ thr[u].pc = "verb"
        BY <3>2, <4>1 DEF Inv, ChannelInv, Closing
      <4> QED
        BY <2>10, <4>2
    <3> QED
      BY <2>1, <2>3, <3>1, <3>2 DEF Closing
  <2> QED
    BY <2>8, <2>9, <2>12, <2>13, <2>14 DEF ChannelInv
<1>q. CqInv'
  <2>1. thr[t].op = "channel" /\ thr'[t].op = "none" /\ thr'[t].pc = "idle" /\ Only(t)
    BY <1>f DEF Becomes
  <2>2. UNCHANGED <<cq_map, rctx, cq, events, client_map, owned>> /\ HistoryGrows
    BY <1>f DEF kernel, app, history, HistoryGrows
  <2>3. Call(t)' /\ Aside(thr[t]) /\ Aside(thr'[t])
    BY <2>1 DEF Call, Aside
  <2> QED
    BY <2>1, <2>2, <2>3, QuietStep
<1>1. Only(t) /\ thr[t].op = "channel" /\ thr'[t].op = "none" /\ UNCHANGED <<cq, held>>
  BY <1>f DEF Becomes, router, kernel, client, app, history
<1>2. Counted'
  BY <1>1, CountedKept
<1> QED
  BY <1>2, <1>t, <1>c, <1>q DEF Inv

LEMMA DestroyChannelCallInv ==
  ASSUME Inv, UNCHANGED use, NEW t \in Threads, DestroyChannelCall(t)
  PROVE  Inv'
<1>f. /\ Only(t) /\ fd[ProcOf[t]] # NULL
      /\ \A u \in Threads : Same(u, t) => thr[u].op \notin Using
      /\ Becomes(t, "unchannel", "find", NULL, NULL)
      /\ UNCHANGED <<router, kernel, client, app, history>>
  <2>1. HandleOf(NULL) = NULL
    BY DEF HandleOf
  <2>2. Only(t) /\ Becomes(t, "unchannel", "find", NULL, NULL)
    BY SMT, <2>1, StartFacts DEF DestroyChannelCall, Inv, Ops, Pcs
  <2> QED
    BY <2>2 DEF DestroyChannelCall, ChannelQuiet, Same, Using
<1>t. TypeOK'
  BY <1>f DEF Inv, TypeOK, Only, router, kernel, flags, client, app, history
<1>c. ChannelInv'
  <2>1. ProcOf' = ProcOf /\ \A u, v : Same(u, v)' <=> Same(u, v)
    BY SMT DEF ProcOf, Same
  <2>2. /\ \A u \in Threads : u # t => thr'[u] = thr[u]
        /\ thr'[t].op = "unchannel" /\ thr'[t].pc = "find" /\ fd[ProcOf[t]] # NULL
        /\ \A u \in Threads : Same(u, t) => thr[u].op \notin Using
    BY <1>f DEF Only, Becomes
  <2>3. channel_map' = channel_map /\ open' = open /\ fd' = fd /\ cut' = cut
    BY <1>f DEF router, kernel, client, history
  <2>4. thr[t].op = "none"
    BY IdleFacts
  <2>5. ChannelOf' /\ Opening' /\ HasChannel'
    <3>1. ChannelOf'
      BY <2>3 DEF Inv, ChannelInv, ChannelOf
    <3>2. Opening'
      BY <2>1, <2>2, <2>3 DEF Inv, ChannelInv, Opening
    <3>3. HasChannel'
      BY <2>1, <2>2, <2>3 DEF Inv, ChannelInv, HasChannel
    <3> QED
      BY <3>1, <3>2, <3>3
  <2>6. Alone'
    <3>1. \A u, v \in Threads : Same(u, v) /\ thr'[u].op = "channel" /\ thr'[v].op = "channel" => u = v
      BY <2>2 DEF Inv, ChannelInv, Alone
    <3>2. ASSUME NEW u \in Threads, NEW v \in Threads, Same(u, v), thr'[u].op = "unchannel", thr'[v].op \in Using, u # v
          PROVE  FALSE
      <4>1. Same(v, u) /\ "unchannel" \in Using
        BY <3>2 DEF Same, Using
      <4>2. CASE u = t
        BY <2>2, <3>2, <4>1, <4>2
      <4>3. CASE v = t
        BY <2>2, <3>2, <4>1, <4>3
      <4> QED
        BY <2>2, <3>2, <4>2, <4>3 DEF Inv, ChannelInv, Alone
    <3> QED
      BY <2>1, <3>1, <3>2 DEF Alone
  <2>7. Closing'
    <3>1. \A u \in Threads : thr'[u].op = "unchannel" =>
            /\ thr'[u].pc \in {"find", "verb", "hung"}
            /\ thr'[u].pc = "verb" => channel_map[fd[ProcOf[u]]] = NULL
      BY <2>2 DEF Inv, ChannelInv, Closing
    <3>2. ASSUME NEW p \in Procs, fd[p] # NULL, p \notin cut, channel_map[fd[p]] # p
          PROVE  \E u \in Threads : ProcOf[u] = p /\ thr'[u].op = "unchannel" /\ thr'[u].pc = "verb"
      <4>1. PICK u \in Threads : ProcOf[u] = p /\ thr[u].op = "unchannel" /\ thr[u].pc = "verb"
        BY <3>2 DEF Inv, ChannelInv, Closing
      <4> QED
        BY <2>2, <2>4, <4>1
    <3> QED
      BY <2>1, <2>3, <3>1, <3>2 DEF Closing
  <2> QED
    BY <2>5, <2>6, <2>7 DEF ChannelInv
<1>q. CqInv'
  <2>1. thr[t].op = "none" /\ thr'[t].op = "unchannel" /\ thr'[t].pc = "find" /\ Only(t)
    BY IdleFacts, <1>f DEF Becomes
  <2>2. UNCHANGED <<cq_map, rctx, cq, events, client_map, owned>> /\ HistoryGrows
    BY <1>f DEF router, kernel, client, app, history, HistoryGrows
  <2>3. Call(t)' /\ Aside(thr[t]) /\ Aside(thr'[t])
    BY <2>1 DEF Call, Aside
  <2> QED
    BY <2>1, <2>2, <2>3, QuietStep
<1>1. Only(t) /\ thr[t].op = "none" /\ thr'[t].op = "unchannel" /\ UNCHANGED <<cq, held>>
  BY <1>f, IdleFacts DEF Becomes, router, kernel, client, app, history
<1>2. Counted'
  BY <1>1, CountedKept
<1> QED
  BY <1>2, <1>t, <1>c, <1>q DEF Inv

LEMMA DestroyChannelVerbInv ==
  ASSUME Inv, UNCHANGED use, NEW t \in Threads, DestroyChannelVerb(t)
  PROVE  Inv'
<1>f. /\ Only(t) /\ thr[t].op = "unchannel" /\ thr[t].pc = "verb" /\ fd[ProcOf[t]] \in Fds
      /\ Becomes(t, "none", "idle", thr[t].cq, NULL)
      /\ \/ cut' = cut \cup {ProcOf[t]} /\ UNCHANGED <<open, fd>>
         \/ /\ open' = [open EXCEPT ![fd[ProcOf[t]]] = NULL]
            /\ fd' = [fd EXCEPT ![ProcOf[t]] = NULL] /\ UNCHANGED cut
      /\ UNCHANGED <<router, cq, events, flags, client_map, ctx, sock, app, late, overtaken>>
  <2>1. In(t, "none", "idle", thr[t].cq, NULL) /\ thr[t].op = "unchannel" /\ thr[t].pc = "verb"
    BY DEF DestroyChannelVerb
  <2>2. fd[ProcOf[t]] \in Fds
    BY SMT, <2>1, Typing DEF Inv, ChannelInv, HasChannel, Using
  <2>3. Only(t) /\ Becomes(t, "none", "idle", thr[t].cq, NULL)
    BY SMT, <2>1, InFacts, Typing DEF Inv, Ops, Pcs
  <2> QED
    BY <2>1, <2>2, <2>3 DEF DestroyChannelVerb
<1>t. TypeOK'
  <2>1. cut' \subseteq cut \cup {ProcOf[t]}
    BY <1>f
  <2>2. cut' \subseteq Procs
    BY <2>1, Typing DEF Inv, TypeOK
  <2>3. open' \in [Fds -> Procs \cup {NULL}]
    BY Updated DEF DestroyChannelVerb, Inv, TypeOK
  <2>4. fd' \in [Procs -> Fds \cup {NULL}]
    BY Updated DEF DestroyChannelVerb, Inv, TypeOK
  <2> QED
    BY <2>2, <2>3, <2>4, <1>f DEF Inv, TypeOK, Only, router, kernel, flags, client, app, history
<1>c. ChannelInv'
  <2> DEFINE p == ProcOf[t]
             f == fd[p]
  <2>1. ProcOf' = ProcOf /\ \A u, v : Same(u, v)' <=> Same(u, v)
    BY SMT DEF ProcOf, Same
  <2>2. /\ \A u \in Threads : u # t => thr'[u] = thr[u]
        /\ thr[t].op = "unchannel" /\ thr[t].pc = "verb" /\ thr'[t].op = "none" /\ channel_map' = channel_map
        /\ p \in Procs /\ f \in Fds /\ NULL \notin Procs /\ NULL \notin Fds
    BY <1>f, Typing DEF Only, Becomes, router
  <2>3. channel_map[f] = NULL /\ open[f] = p
    BY <2>2 DEF Inv, ChannelInv, Closing, ChannelOf
  <2>4. \/ cut' = cut \cup {p} /\ open' = open /\ fd' = fd
        \/ open' = [open EXCEPT ![f] = NULL] /\ fd' = [fd EXCEPT ![p] = NULL] /\ cut' = cut
    BY <1>f
  <2>5. \A u \in Threads : thr[u].op \in Using /\ ProcOf[u] = p => u = t
    BY <2>2 DEF Inv, ChannelInv, Alone, Same
  <2>6. \A q \in Procs : fd[q] # NULL => fd[q] \in Fds /\ open[fd[q]] = q
    BY DEF Inv, TypeOK, ChannelInv, ChannelOf
  <2> HIDE DEF p, f
  <2>7. /\ \A g \in Fds : g # f => open'[g] = open[g]
        /\ \A q \in Procs : q # p => fd'[q] = fd[q]
        /\ \A q \in Procs : fd'[q] # NULL => fd'[q] = fd[q]
        /\ \A q \in Procs : fd[q] = NULL => fd'[q] = NULL
        /\ open'[f] = p \/ fd'[p] = NULL
        /\ \A q \in Procs : q \notin cut' => q \notin cut /\ (q = p => fd'[q] = NULL)
    <3>1. open \in [Fds -> Procs \cup {NULL}] /\ fd \in [Procs -> Fds \cup {NULL}]
      BY DEF Inv, TypeOK
    <3>2. CASE cut' = cut \cup {p} /\ open' = open /\ fd' = fd
      BY <2>3, <3>2
    <3>3. CASE open' = [open EXCEPT ![f] = NULL] /\ fd' = [fd EXCEPT ![p] = NULL] /\ cut' = cut
      BY <2>2, <3>1, <3>3
    <3> QED
      BY <2>4, <3>2, <3>3
  <2>8. \A q \in Procs : fd[q] # NULL /\ q # p => fd[q] # f
    BY <2>3, <2>6
  <2>9. ChannelOf'
    <3>1. \A g \in Fds : channel_map[g] # NULL => open'[g] = channel_map[g]
      BY <2>3, <2>7 DEF Inv, ChannelInv, ChannelOf
    <3>2. \A q \in Procs : fd'[q] # NULL => open'[fd'[q]] = q
      <4>1. ASSUME NEW q \in Procs, fd'[q] # NULL, q = p PROVE open'[fd'[q]] = q
        BY <2>7, <4>1 DEF f
      <4>2. ASSUME NEW q \in Procs, fd'[q] # NULL, q # p PROVE open'[fd'[q]] = q
        BY <2>6, <2>7, <2>8, <4>2
      <4> QED
        BY <4>1, <4>2
    <3> QED
      BY <2>2, <3>1, <3>2 DEF ChannelOf
  <2>10. \A u \in Threads : ProcOf[u] \in Procs
    BY Typing
  <2>11. Opening'
    <3>1. ASSUME NEW u \in Threads, thr'[u].op = "channel"
          PROVE  /\ thr'[u].pc = "store" /\ thr'[u].handle \in Fds /\ open'[thr'[u].handle] = ProcOf[u]
                 /\ channel_map[thr'[u].handle] = NULL /\ fd'[ProcOf[u]] = NULL
      <4>1. thr'[u] = thr[u]
        BY <2>2, <3>1
      <4>2. /\ thr[u].pc = "store" /\ thr[u].handle \in Fds /\ open[thr[u].handle] = ProcOf[u]
            /\ channel_map[thr[u].handle] = NULL /\ fd[ProcOf[u]] = NULL
        BY <3>1, <4>1 DEF Inv, ChannelInv, Opening
      <4>3. thr[u].handle # f
        BY <2>2, <2>3, <4>2 DEF f
      <4> QED
        BY <2>7, <2>10, <4>1, <4>2, <4>3
    <3> QED
      BY <2>1, <2>2, <3>1 DEF Opening
  <2>12. \A u \in Threads : thr'[u].op \in Using => u # t /\ thr'[u] = thr[u] /\ fd'[ProcOf[u]] = fd[ProcOf[u]]
    <3>1. "none" \notin Using
      BY SMT DEF Using
    <3> QED
      BY <2>2, <2>5, <2>7, <2>10, <3>1
  <2>13. HasChannel'
    BY <2>1, <2>12 DEF Inv, ChannelInv, HasChannel
  <2>14. Alone'
    <3>1. \A u, v \in Threads : Same(u, v) /\ thr'[u].op = "channel" /\ thr'[v].op = "channel" => u = v
      BY <2>2 DEF Inv, ChannelInv, Alone
    <3>2. \A u, v \in Threads : Same(u, v) /\ thr'[u].op = "unchannel" /\ thr'[v].op \in Using => u = v
      BY <2>2, <2>12 DEF Inv, ChannelInv, Alone
    <3> QED
      BY <2>1, <3>1, <3>2 DEF Alone
  <2>15. Closing'
    <3>1. ASSUME NEW u \in Threads, thr'[u].op = "unchannel"
          PROVE  /\ thr'[u].pc \in {"find", "verb", "hung"}
                 /\ thr'[u].pc = "verb" => channel_map[fd'[ProcOf[u]]] = NULL
      <4>1. thr'[u] = thr[u] /\ fd'[ProcOf[u]] = fd[ProcOf[u]]
        BY <2>12, <3>1 DEF Using
      <4> QED
        BY <3>1, <4>1 DEF Inv, ChannelInv, Closing
    <3>2. ASSUME NEW q \in Procs, fd'[q] # NULL, q \notin cut', channel_map[fd'[q]] # q
          PROVE  \E u \in Threads : ProcOf[u] = q /\ thr'[u].op = "unchannel" /\ thr'[u].pc = "verb"
      <4>1. q # p /\ q \notin cut /\ fd[q] # NULL /\ channel_map[fd[q]] # q
        BY <2>7, <3>2
      <4>2. PICK u \in Threads : ProcOf[u] = q /\ thr[u].op = "unchannel" /\ thr[u].pc = "verb"
        BY <4>1 DEF Inv, ChannelInv, Closing
      <4> QED
        BY <2>2, <4>1, <4>2 DEF p
    <3> QED
      BY <2>1, <2>2, <3>1, <3>2 DEF Closing
  <2> QED
    BY <2>9, <2>11, <2>13, <2>14, <2>15 DEF ChannelInv
<1>q. CqInv'
  <2>1. thr[t].op = "unchannel" /\ thr'[t].op = "none" /\ thr'[t].pc = "idle" /\ Only(t)
    BY <1>f DEF Becomes
  <2>2. UNCHANGED <<cq_map, rctx, cq, events, client_map, owned>> /\ HistoryGrows
    BY <1>f DEF router, app, HistoryGrows
  <2>3. Call(t)' /\ Aside(thr[t]) /\ Aside(thr'[t])
    BY <2>1 DEF Call, Aside
  <2> QED
    BY <2>1, <2>2, <2>3, QuietStep
<1>1. Only(t) /\ thr[t].op = "unchannel" /\ thr'[t].op = "none" /\ UNCHANGED <<cq, held>>
  BY <1>f DEF Becomes, router, kernel, client, app, history
<1>2. Counted'
  BY <1>1, CountedKept
<1> QED
  BY <1>2, <1>t, <1>c, <1>q DEF Inv

LEMMA CreateCallInv ==
  ASSUME Inv, UNCHANGED use, NEW t \in Threads, CreateCall(t)
  PROVE  Inv'
<1>f. /\ Only(t) /\ fd[ProcOf[t]] # NULL /\ Becomes(t, "create", "verb", NULL, NULL)
      /\ \A u \in Threads : Same(u, t) => thr[u].op # "unchannel"
      /\ ctx' = [ctx EXCEPT ![ProcOf[t]] = t]
      /\ UNCHANGED <<router, kernel, fd, client_map, sock, app, history>>
  <2>1. HandleOf(NULL) = NULL
    BY DEF HandleOf
  <2>2. Only(t) /\ Becomes(t, "create", "verb", NULL, NULL)
    BY SMT, <2>1, StartFacts DEF CreateCall, Inv, Ops, Pcs
  <2> QED
    BY <2>2 DEF CreateCall, Same
<1>t. TypeOK'
  <2>1. ctx' \in [Procs -> Threads \cup {NULL}]
    BY Updated, Typing DEF CreateCall, Inv, TypeOK
  <2> QED
    BY <2>1, <1>f DEF Inv, TypeOK, Only, router, kernel, flags, client, app, history
<1>q. CqInv'
  <2>1. /\ thr[t].op = "none" /\ thr'[t].op = "create" /\ thr'[t].pc = "verb" /\ thr'[t].cq = NULL /\ Only(t)
    BY IdleFacts, <1>f DEF Becomes
  <2>2. UNCHANGED <<cq_map, rctx, cq, events, client_map, owned>> /\ HistoryGrows
    BY <1>f DEF router, kernel, app, history, HistoryGrows
  <2>3. Call(t)' /\ Aside(thr[t]) /\ Aside(thr'[t])
    BY <2>1 DEF Call, Aside, Create
  <2> QED
    BY <2>1, <2>2, <2>3, QuietStep
<1>1. /\ Only(t) /\ thr[t].op = "none" /\ thr'[t].op = "create"
      /\ UNCHANGED <<channel_map, open, fd, cut, cq, held>>
  BY <1>f, IdleFacts DEF Becomes, router, kernel, client, app, history
<1>2. ChannelInv'
  BY <1>1, <1>f, ChannelKept
<1>3. Counted'
  BY <1>1, CountedKept
<1> QED
  BY <1>2, <1>3, <1>t, <1>q DEF Inv

LEMMA NotifyCallInv ==
  ASSUME Inv, UNCHANGED use, NEW t \in Threads, NotifyCall(t)
  PROVE  Inv'
<1>f. \E c \in owned : /\ Only(t) /\ Becomes(t, "notify", "serve", c, cq[c].handle)
                       /\ UNCHANGED <<router, kernel, client, app, history>>
  <2>1. PICK c \in owned : /\ Start(t, "notify", c, "serve")
                           /\ UNCHANGED <<router, kernel, client, app, history>>
    BY DEF NotifyCall
  <2>2. c \in Cqs /\ HandleOf(c) = cq[c].handle
    BY CompChannelAssumption DEF Inv, TypeOK, HandleOf
  <2>3. Only(t) /\ Becomes(t, "notify", "serve", c, cq[c].handle)
    BY SMT, <2>1, <2>2, StartFacts DEF Inv, Ops, Pcs
  <2> QED
    BY <2>1, <2>3
<1>t. TypeOK'
  BY <1>f DEF Inv, TypeOK, Only, router, kernel, flags, client, app, history
<1>q. CqInv'
  <2>1. PICK c \in owned : /\ thr'[t].op = "notify" /\ thr'[t].pc = "serve" /\ thr'[t].cq = c
                           /\ thr'[t].handle = cq[c].handle /\ Only(t)
    BY <1>f DEF Becomes
  <2>2. UNCHANGED <<cq_map, rctx, cq, events, client_map, owned>> /\ HistoryGrows
    BY <1>f DEF router, kernel, client, app, history, HistoryGrows
  <2>3. thr[t].op = "none"
    BY IdleFacts
  <2>4. Call(t)' /\ Aside(thr[t]) /\ Aside(thr'[t])
    BY <2>1, <2>2, <2>3 DEF Call, Aside, Notify
  <2> QED
    BY <2>1, <2>2, <2>4, QuietStep
<1>1. /\ Only(t) /\ thr[t].op = "none" /\ thr'[t].op = "notify"
      /\ UNCHANGED <<channel_map, open, fd, cut, cq, held>>
  BY <1>f, IdleFacts DEF Becomes, router, kernel, client, app, history
<1>2. ChannelInv'
  BY <1>1, ChannelKept DEF Using
<1>3. Counted'
  BY <1>1, CountedKept
<1> QED
  BY <1>2, <1>3, <1>t, <1>q DEF Inv

LEMMA NotifyServeInv ==
  ASSUME Inv, UNCHANGED use, NEW t \in Threads, NotifyServe(t)
  PROVE  Inv'
<1>f. /\ Only(t) /\ thr[t].op = "notify" /\ thr'[t].op = "none" /\ thr'[t].pc = "idle"
      /\ armed' \subseteq Cqs
      /\ UNCHANGED <<router, open, cq, events, pending, client, app, history>>
  <2>1. thr[t].op = "notify"
    BY DEF NotifyServe
  <2>2. thr[t].cq \in owned /\ thr[t].handle = cq[thr[t].cq].handle
    BY <2>1, Typing DEF Call, Notify
  <2>3. cq_map[thr[t].handle] = thr[t].cq
    BY <2>2 DEF Inv, CqInv, Owned
  <2>4. thr[t].cq \in Cqs /\ armed \subseteq Cqs /\ thr[t].cq # NULL
    BY <2>2, CompChannelAssumption DEF Inv, TypeOK
  <2>5. Done(t, thr[t].cq) /\ armed' = armed \cup {thr[t].cq}
    BY <2>3, <2>4 DEF NotifyServe
  <2>6. Only(t) /\ thr'[t].op = "none" /\ thr'[t].pc = "idle"
    BY <2>4, <2>5, DoneFacts DEF Inv
  <2> QED
    BY <2>1, <2>4, <2>5, <2>6 DEF NotifyServe
<1>t. TypeOK'
  <2>1. armed' \subseteq Cqs
    BY <1>f DEF Queued, Inv, TypeOK
  <2> QED
    BY <2>1, <1>f DEF Inv, TypeOK, Only, router, kernel, flags, client, app, history
<1>q. CqInv'
  <2>1. thr[t].op = "notify" /\ thr'[t].op = "none" /\ thr'[t].pc = "idle" /\ Only(t)
    BY <1>f
  <2>2. UNCHANGED <<cq_map, rctx, cq, events, client_map, owned>> /\ HistoryGrows
    BY <1>f DEF router, client, app, history, HistoryGrows
  <2>3. Call(t)' /\ Aside(thr[t]) /\ Aside(thr'[t])
    BY <2>1 DEF Call, Aside
  <2> QED
    BY <2>1, <2>2, <2>3, QuietStep
<1>1. /\ Only(t) /\ thr[t].op = "notify" /\ thr'[t].op = "none"
      /\ UNCHANGED <<channel_map, open, fd, cut, cq, held>>
  BY <1>f DEF Becomes, router, kernel, client, app, history
<1>2. ChannelInv'
  BY <1>1, ChannelKept DEF Using
<1>3. Counted'
  BY <1>1, CountedKept
<1> QED
  BY <1>2, <1>3, <1>t, <1>q DEF Inv

LEMMA PollInv ==
  ASSUME Inv, UNCHANGED use, NEW t \in Threads, Poll(t)
  PROVE  Inv'
<1>f. /\ Only(t) /\ thr[t].pc = "idle" /\ thr'[t].op = thr[t].op /\ thr'[t].pc = thr[t].pc
      /\ pending' \subseteq pending
      /\ UNCHANGED <<router, open, cq, events, armed, client, app, history>>
  <2>1. PICK d \in Duties : thr' = [thr EXCEPT ![t].duty = d]
    <3>1. "get" \in Duties /\ "none" \in Duties
      BY SMT DEF Duties
    <3>2. CASE "loop" \in Does[t]
      BY <3>1, <3>2 DEF Poll
    <3>3. CASE "loop" \notin Does[t]
      BY <3>1, <3>3 DEF Poll
    <3> QED
      BY SMT, <3>2, <3>3
  <2>2. Only(t) /\ thr'[t].op = thr[t].op /\ thr'[t].pc = thr[t].pc
    BY <2>1 DEF Inv, TypeOK, Calls, Only
  <2> QED
    BY <2>2 DEF Poll, May
<1>t. TypeOK'
  <2>1. pending' \subseteq Cqs
    BY <1>f DEF Queued, Inv, TypeOK
  <2> QED
    BY <2>1, <1>f DEF Inv, TypeOK, Only, router, kernel, flags, client, app, history
<1>q. CqInv'
  <2>1. thr[t].pc = "idle" /\ thr'[t].op = thr[t].op /\ thr'[t].pc = thr[t].pc /\ Only(t)
    BY <1>f
  <2>2. UNCHANGED <<cq_map, rctx, cq, events, client_map, owned>> /\ HistoryGrows
    BY <1>f DEF router, client, app, history, HistoryGrows
  <2>3. thr[t].op = "none"
    BY <2>1, Typing DEF Call
  <2>4. Call(t)' /\ Aside(thr[t]) /\ Aside(thr'[t])
    BY <2>1, <2>3 DEF Call, Aside
  <2> QED
    BY <2>1, <2>2, <2>4, QuietStep
<1>1. /\ Only(t) /\ thr[t].op = "none" /\ thr'[t].op = "none"
      /\ UNCHANGED <<channel_map, open, fd, cut, cq, held>>
  BY <1>f, Typing DEF Becomes, router, kernel, client, app, history, Call
<1>2. ChannelInv'
  BY <1>1, ChannelKept DEF Using
<1>3. Counted'
  BY <1>1, CountedKept
<1> QED
  BY <1>2, <1>3, <1>t, <1>q DEF Inv

LEMMA GetCallInv ==
  ASSUME Inv, UNCHANGED use, NEW t \in Threads, GetCall(t)
  PROVE  Inv'
<1>f. /\ Only(t) /\ fd[ProcOf[t]] # NULL /\ Becomes(t, "get", "serve", NULL, NULL)
      /\ \A u \in Threads : Same(u, t) => thr[u].op # "unchannel"
      /\ sock' = [sock EXCEPT ![ProcOf[t]] = t]
      /\ UNCHANGED <<router, kernel, fd, client_map, ctx, app, history>>
  <2>1. HandleOf(NULL) = NULL
    BY DEF HandleOf
  <2>2. Only(t) /\ Becomes(t, "get", "serve", NULL, NULL)
    BY SMT, <2>1, StartFacts DEF GetCall, Inv, Ops, Pcs
  <2> QED
    BY <2>2 DEF GetCall, Same
<1>t. TypeOK'
  <2>1. sock' \in [Procs -> Threads \cup {NULL}]
    BY Updated, Typing DEF GetCall, Inv, TypeOK
  <2> QED
    BY <2>1, <1>f DEF Inv, TypeOK, Only, router, kernel, flags, client, app, history
<1>q. CqInv'
  <2>1. /\ thr[t].op = "none" /\ thr'[t].op = "get" /\ thr'[t].pc = "serve" /\ thr'[t].cq = NULL /\ Only(t)
    BY IdleFacts, <1>f DEF Becomes
  <2>2. UNCHANGED <<cq_map, rctx, cq, events, client_map, owned>> /\ HistoryGrows
    BY <1>f DEF router, kernel, app, history, HistoryGrows
  <2>3. Call(t)' /\ Aside(thr[t]) /\ Aside(thr'[t])
    BY <2>1 DEF Call, Aside, Get
  <2> QED
    BY <2>1, <2>2, <2>3, QuietStep
<1>1. /\ Only(t) /\ thr[t].op = "none" /\ thr'[t].op = "get" /\ thr'[t].cq = NULL
      /\ UNCHANGED <<channel_map, open, fd, cut, cq, held>>
  BY <1>f, IdleFacts DEF Becomes, router, kernel, app, history
<1>2. ChannelInv'
  BY <1>1, <1>f, ChannelKept
<1>3. \A c \in Cqs : Balanced(c)'
  BY <1>1, BalanceKept, CompChannelAssumption
<1> QED
  BY <1>2, <1>3, CountedBalanced, <1>t, <1>q DEF Inv

LEMMA GetReplyInv ==
  ASSUME Inv, UNCHANGED use, NEW t \in Threads, GetReply(t)
  PROVE  Inv'
<1>f. /\ Only(t) /\ thr[t].op = "get" /\ thr[t].pc = "gotten" /\ thr[t].cq \in Cqs
      /\ Becomes(t, "get", "replied", thr[t].cq, cq[thr[t].cq].handle)
      /\ UNCHANGED <<router, kernel, client, app, history>>
  <2>1. thr[t].op = "get" /\ thr[t].pc = "gotten"
    BY DEF GetReply
  <2>2. thr[t].cq \in Cqs
    BY SMT, <2>1, Typing DEF Call, Get
  <2>3. cq[thr[t].cq].handle \in Handles \cup Fds \cup {NULL}
    BY SMT, <2>2 DEF Inv, TypeOK, Queues
  <2>4. Only(t) /\ Becomes(t, "get", "replied", thr[t].cq, cq[thr[t].cq].handle)
    BY SMT, <2>2, <2>3, InFacts DEF GetReply, Inv, Ops, Pcs
  <2> QED
    BY <2>1, <2>2, <2>4 DEF GetReply
<1>t. TypeOK'
  BY <1>f DEF Inv, TypeOK, Only, router, kernel, flags, client, app, history
<1>q. CqInv'
  <2>1. /\ thr[t].op = "get" /\ thr[t].pc = "gotten" /\ thr[t].cq \in Cqs /\ Only(t)
        /\ thr'[t].op = "get" /\ thr'[t].pc = "replied" /\ thr'[t].cq = thr[t].cq
        /\ thr'[t].handle = cq[thr[t].cq].handle
    BY <1>f DEF Becomes
  <2>2. UNCHANGED <<cq_map, rctx, cq, events, client_map, owned>> /\ HistoryGrows
    BY <1>f DEF router, kernel, client, app, history, HistoryGrows
  <2>3. cq[thr[t].cq].owner = ProcOf[t] /\ ProcOf' = ProcOf
    <3>1. ProcOf' = ProcOf
      BY SMT DEF ProcOf
    <3> QED
      BY <2>1, <3>1, Typing DEF Call, Get
  <2>4. Call(t)' /\ Aside(thr[t]) /\ Aside(thr'[t])
    BY <2>1, <2>2, <2>3 DEF Call, Aside, Get, Mine
  <2> QED
    BY <2>1, <2>2, <2>4, QuietStep
<1>1. /\ Only(t) /\ thr[t].op = "get" /\ thr'[t].op = "get" /\ thr'[t].cq = thr[t].cq
      /\ UNCHANGED <<channel_map, open, fd, cut, cq, held>>
  BY <1>f DEF Becomes, router, kernel, client, app, history
<1>2. ChannelInv'
  BY <1>1, ChannelKept DEF Using
<1>3. \A c \in Cqs : Balanced(c)'
  BY <1>1, BalanceKept
<1> QED
  BY <1>2, <1>3, CountedBalanced, <1>t, <1>q DEF Inv

(* A process that has lost its channel is one that was refused its         *)
(* destruction, or one that destroys it at this moment.                    *)
LEMMA CutOff ==
  ASSUME Inv, NEW t \in Threads, thr[t].op \in Using, thr[t].op # "unchannel" \/ thr[t].pc # "verb",
         channel_map[fd[ProcOf[t]]] = NULL
  PROVE  ProcOf[t] \in cut
<1>1. ProcOf[t] \in Procs /\ fd[ProcOf[t]] # NULL /\ NULL \notin Procs
  BY Typing DEF Inv, ChannelInv, HasChannel
<1>2. \A u \in Threads : ProcOf[u] = ProcOf[t] /\ thr[u].op = "unchannel" => u = t
  BY DEF Inv, ChannelInv, Alone, Same
<1> QED
  BY <1>1, <1>2 DEF Inv, ChannelInv, Closing

LEMMA DestroyChannelFindInv ==
  ASSUME Inv, UNCHANGED use, NEW t \in Threads, DestroyChannelFind(t)
  PROVE  Inv'
<1>f. /\ Only(t) /\ thr[t].op = "unchannel" /\ thr[t].pc = "find" /\ fd[ProcOf[t]] \in Fds
      /\ thr'[t].op = "unchannel"
      /\ \/ /\ channel_map[fd[ProcOf[t]]] = NULL /\ thr'[t].pc = "hung"
            /\ UNCHANGED channel_map
         \/ /\ channel_map' = [channel_map EXCEPT ![fd[ProcOf[t]]] = NULL]
            /\ thr'[t].pc = "verb"
      /\ UNCHANGED <<cq_map, rctx, kernel, client, app, history>>
  <2>1. thr[t].op = "unchannel" /\ thr[t].pc = "find"
    BY DEF DestroyChannelFind
  <2>2. fd[ProcOf[t]] \in Fds
    BY SMT, <2>1, Typing DEF Inv, ChannelInv, HasChannel, Using
  <2>3. ASSUME NEW l \in Pcs, Goto(t, l) PROVE Only(t) /\ thr'[t].op = "unchannel" /\ thr'[t].pc = l
    BY <2>1, <2>3, GotoFacts DEF Inv, Becomes
  <2>4. "hung" \in Pcs /\ "verb" \in Pcs
    BY SMT DEF Pcs
  <2> QED
    BY <2>1, <2>2, <2>3, <2>4 DEF DestroyChannelFind, Hung
<1>t. TypeOK'
  <2>1. UNCHANGED channel_map \/ channel_map' = [channel_map EXCEPT ![fd[ProcOf[t]]] = NULL]
    BY <1>f
  <2>2. channel_map' \in [Fds -> Procs \cup {NULL}]
    BY <2>1, Updated DEF Inv, TypeOK
  <2> QED
    BY <2>2, <1>f DEF Inv, TypeOK, Only, router, kernel, flags, client, app, history
<1>c. ChannelInv'
  <2> DEFINE p == ProcOf[t]
  <2>1. ProcOf' = ProcOf /\ \A u, v : Same(u, v)' <=> Same(u, v)
    BY SMT DEF ProcOf, Same
  <2>2. /\ \A u \in Threads : u # t => thr'[u] = thr[u]
        /\ thr[t].op = "unchannel" /\ thr[t].pc = "find" /\ thr'[t].op = "unchannel"
        /\ p \in Procs /\ fd[p] \in Fds /\ NULL \notin Procs /\ NULL \notin Fds
    BY <1>f, Typing DEF Only
  <2>3. open' = open /\ fd' = fd /\ cut' = cut
    BY <1>f DEF kernel, client, history
  <2>4. \/ p \in cut /\ thr'[t].pc = "hung" /\ channel_map' = channel_map
        \/ thr'[t].pc = "verb" /\ channel_map' = [channel_map EXCEPT ![fd[p]] = NULL]
    <3>1. channel_map[fd[p]] = NULL => p \in cut
      BY <2>2, CutOff DEF Using
    <3> QED
      BY <3>1, <1>f
  <2> HIDE DEF p
  <2>5. /\ \A f \in Fds : f # fd[p] => channel_map'[f] = channel_map[f]
        /\ \A f \in Fds : channel_map[f] = NULL => channel_map'[f] = NULL
        /\ \A f \in Fds : channel_map'[f] # NULL => channel_map'[f] = channel_map[f]
        /\ thr'[t].pc = "verb" => channel_map'[fd[p]] = NULL
    <3>1. channel_map \in [Fds -> Procs \cup {NULL}]
      BY DEF Inv, TypeOK
    <3> QED
      BY <2>2, <2>4, <3>1
  <2>6. \A u \in Threads : ProcOf[u] \in Procs /\ (thr[u].op \in Using => fd[ProcOf[u]] \in Fds)
    BY SMT, Typing DEF Inv, ChannelInv, HasChannel
  <2>7. ChannelOf'
    BY <2>3, <2>5 DEF Inv, ChannelInv, ChannelOf
  <2>8. Opening'
    <3>1. \A u \in Threads : thr'[u].op = "channel" => u # t /\ thr'[u] = thr[u]
      BY <2>2
    <3>2. ASSUME NEW u \in Threads, thr'[u].op = "channel"
          PROVE  /\ thr'[u].pc = "store" /\ thr'[u].handle \in Fds /\ open'[thr'[u].handle] = ProcOf[u]
                 /\ channel_map'[thr'[u].handle] = NULL /\ fd'[ProcOf[u]] = NULL
      <4>1. thr'[u] = thr[u] /\ thr[u].op = "channel"
        BY <3>1, <3>2
      <4>2. /\ thr[u].pc = "store" /\ thr[u].handle \in Fds /\ open[thr[u].handle] = ProcOf[u]
            /\ channel_map[thr[u].handle] = NULL /\ fd[ProcOf[u]] = NULL
        BY <4>1 DEF Inv, ChannelInv, Opening
      <4> QED
        BY <2>3, <2>5, <4>1, <4>2
    <3> QED
      BY <2>1, <3>2 DEF Opening
  <2>9. HasChannel'
    BY <2>1, <2>2, <2>3 DEF Inv, ChannelInv, HasChannel
  <2>10. Alone'
    <3>1. \A u \in Threads : thr'[u].op = thr[u].op
      BY <2>2
    <3> QED
      BY <2>1, <3>1 DEF Inv, ChannelInv, Alone
  <2>11. Closing'
    <3>1. ASSUME NEW u \in Threads, thr'[u].op = "unchannel"
          PROVE  /\ thr'[u].pc \in {"find", "verb", "hung"}
                 /\ thr'[u].pc = "verb" => channel_map'[fd[ProcOf[u]]] = NULL
      <4>1. CASE u = t
        BY <2>4, <2>5, <4>1 DEF p
      <4>2. CASE u # t
        <5>1. thr'[u] = thr[u] /\ thr[u].op \in Using
          BY <2>2, <3>1, <4>2 DEF Using
        <5> QED
          BY <2>5, <2>6, <3>1, <5>1 DEF Inv, ChannelInv, Closing
      <4> QED
        BY <4>1, <4>2
    <3>2. ASSUME NEW q \in Procs, fd[q] # NULL, q \notin cut, channel_map'[fd[q]] # q
          PROVE  \E u \in Threads : ProcOf[u] = q /\ thr'[u].op = "unchannel" /\ thr'[u].pc = "verb"
      <4>1. CASE q = p
        BY <2>2, <2>4, <3>2, <4>1 DEF p
      <4>2. CASE q # p
        <5>1. fd[q] \in Fds /\ open[fd[q]] = q /\ open[fd[p]] = p
          BY SMT, <2>2, <3>2 DEF Inv, TypeOK, ChannelInv, ChannelOf
        <5>2. fd[q] # fd[p]
          BY <4>2, <5>1
        <5>3. channel_map[fd[q]] # q
          BY <2>5, <3>2, <5>1, <5>2
        <5>4. PICK u \in Threads : ProcOf[u] = q /\ thr[u].op = "unchannel" /\ thr[u].pc = "verb"
          BY <3>2, <5>3 DEF Inv, ChannelInv, Closing
        <5> QED
          BY <2>2, <5>4
      <4> QED
        BY <4>1, <4>2
    <3> QED
      BY <2>1, <2>3, <3>1, <3>2 DEF Closing
  <2> QED
    BY <2>7, <2>8, <2>9, <2>10, <2>11 DEF ChannelInv
<1>q. CqInv'
  <2>1. thr[t].op = "unchannel" /\ thr[t].pc = "find" /\ thr'[t].op = "unchannel" /\ Only(t)
    BY <1>f
  <2>2. UNCHANGED <<cq_map, rctx, cq, events, client_map, owned, cut>> /\ HistoryGrows
    BY <1>f DEF kernel, client, app, history, HistoryGrows
  <2>3. thr'[t].pc = "verb" \/ (thr'[t].pc = "hung" /\ ProcOf[t] \in cut)
    BY <2>1, CutOff, <1>f DEF Using
  <2>4. ProcOf' = ProcOf
    BY SMT DEF ProcOf
  <2>5. Call(t)' /\ Aside(thr[t]) /\ Aside(thr'[t])
    BY <2>1, <2>2, <2>3, <2>4 DEF Call, Aside
  <2> QED
    BY <2>1, <2>2, <2>5, QuietStep
<1>1. Only(t) /\ thr[t].op = "unchannel" /\ thr'[t].op = "unchannel" /\ UNCHANGED <<cq, held>>
  BY <1>f DEF Becomes, router, kernel, client, app, history
<1>2. Counted'
  BY <1>1, CountedKept
<1> QED
  BY <1>2, <1>t, <1>c, <1>q DEF Inv

(* A step of no thread.                                                    *)
LEMMA NoCallStep ==
  ASSUME Inv, UNCHANGED <<use, channel_map, open, fd, cut, cq, held, thr>>
  PROVE  ChannelInv' /\ Counted'
<1>1. ProcOf' = ProcOf /\ \A u, v : Same(u, v)' <=> Same(u, v)
  BY SMT DEF ProcOf, Same
<1>2. ChannelOf' /\ Opening' /\ HasChannel'
  BY <1>1 DEF Inv, ChannelInv, ChannelOf, Opening, HasChannel
<1>3. Alone'
  BY <1>1 DEF Inv, ChannelInv, Alone
<1>4. Closing'
  BY <1>1 DEF Inv, ChannelInv, Closing
<1>5. ASSUME NEW c \in Cqs PROVE Balanced(c)'
  <2>1. Acks(c)' = Acks(c)
    BY AcksKept
  <2>2. InFlight(c)' = InFlight(c)
    BY DEF InFlight
  <2>3. Balanced(c)
    BY CountedBalanced DEF Inv
  <2> QED
    BY <2>1, <2>2, <2>3 DEF Balanced
<1> QED
  BY <1>2, <1>3, <1>4, <1>5, CountedBalanced DEF ChannelInv

LEMMA CompleteInv ==
  ASSUME Inv, UNCHANGED use, NEW c \in Cqs, Complete(c)
  PROVE  Inv'
<1>f. /\ c \in owned /\ cq[c].st = "live" /\ cq[c].owner \in Procs
      /\ UNCHANGED <<router, open, cq, client, app, thr, history>>
      /\ armed' \subseteq Cqs /\ pending' \subseteq Cqs
      /\ \/ UNCHANGED events
         \/ /\ events' = [events EXCEPT ![cq[c].owner] = Append(events[cq[c].owner], c)]
            /\ Len(events[cq[c].owner]) < MaxEvents
  <2>1. c \in owned /\ cq[c].st = "live" /\ UNCHANGED <<router, open, cq, client, app, thr, history>>
    BY DEF Complete
  <2>2. cq[c].owner \in Procs
    BY SMT, <2>1 DEF Inv, CqInv, Handle, Exists
  <2>3. armed' \subseteq Cqs /\ pending' \subseteq Cqs
    BY DEF Complete, Inv, TypeOK
  <2>4. CASE c \in armed
    BY <2>1, <2>2, <2>3, <2>4 DEF Complete
  <2>5. CASE c \notin armed
    BY <2>1, <2>2, <2>3, <2>5 DEF Complete
  <2> QED
    BY <2>4, <2>5
<1>t. TypeOK'
  <2> DEFINE p == cq[c].owner
             s == Append(events[p], c)
  <2>1. /\ p \in Procs
        /\ UNCHANGED events \/ (events' = [events EXCEPT ![p] = s] /\ Len(events[p]) < MaxEvents)
    BY <1>f
  <2>2. events \in [Procs -> Seq(Cqs)] /\ \A q \in Procs : Len(events[q]) <= MaxEvents
    BY DEF Inv, TypeOK
  <2>3. s \in Seq(Cqs) /\ (Len(events[p]) < MaxEvents => Len(s) <= MaxEvents)
    BY SMT, <2>1, <2>2, CompChannelAssumption
  <2> HIDE DEF p, s
  <2>4. events' \in [Procs -> Seq(Cqs)] /\ \A q \in Procs : Len(events'[q]) <= MaxEvents
    BY <2>1, <2>2, <2>3
  <2> QED
    BY <2>4, <1>f DEF Inv, TypeOK, Only, router, kernel, flags, client, app, history
<1>q. CqInv'
  <2>1. /\ c \in owned /\ cq[c].owner \in Procs
        /\ UNCHANGED <<use, cq_map, rctx, cq, client_map, owned, thr, cut, late, overtaken>>
    BY <1>f DEF router, client, app, history
  <2>2. QueuesStay /\ HistoryGrows /\ OutsFrom
    BY <2>1 DEF QueuesStay, HistoryGrows, OutsFrom
  <2>3. EventsFrom
    <3>1. CASE UNCHANGED events
      BY <3>1 DEF EventsFrom
    <3>2. CASE events' = [events EXCEPT ![cq[c].owner] = Append(events[cq[c].owner], c)]
      <4> DEFINE q == cq[c].owner
      <4>1. events \in [Procs -> Seq(Cqs)]
        BY DEF Inv, TypeOK
      <4>2. events[q] \in Seq(Cqs) /\ events'[q] = Append(events[q], c) /\ \A p \in Procs : p # q => events'[p] = events[p]
        BY <2>1, <3>2, <4>1
      <4>3. \A s \in Seq(Cqs) : \A k \in 1..Len(Append(s, c)) :
              (k \in 1..Len(s) /\ Append(s, c)[k] = s[k]) \/ Append(s, c)[k] = c
        BY SMT
      <4> HIDE DEF q
      <4>4. ASSUME NEW p \in Procs, NEW k \in 1..Len(events'[p])
            PROVE  \/ \E j \in 1..Len(events[p]) : events'[p][k] = events[p][j]
                   \/ events'[p][k] \in owned /\ cq[events'[p][k]].owner = p
        <5>1. CASE p = q
          <6>1. k \in 1..Len(Append(events[q], c)) /\ events'[p][k] = Append(events[q], c)[k]
            BY <4>2, <5>1
          <6>2. CASE k \in 1..Len(events[q]) /\ Append(events[q], c)[k] = events[q][k]
            BY <5>1, <6>1, <6>2
          <6>3. CASE Append(events[q], c)[k] = c
            <7>1. events'[p][k] = c
              BY <6>1, <6>3
            <7> QED
              BY <2>1, <5>1, <7>1 DEF q
          <6> QED
            BY <4>2, <4>3, <6>1, <6>2, <6>3
        <5>2. CASE p # q
          BY <4>2, <5>2
        <5> QED
          BY <5>1, <5>2
      <4> QED
        BY <4>4 DEF EventsFrom
    <3> QED
      BY <3>1, <3>2, <1>f
  <2> QED
    BY <2>1, <2>2, <2>3, QueuesKept
<1>1. UNCHANGED <<channel_map, open, fd, cut, cq, held, thr>>
  BY <1>f DEF router, client, app, history
<1> QED
  BY <1>1, NoCallStep, <1>t, <1>q DEF Inv

----------------------------------------------------------------------------
(* The steps of a creation, and those of a destruction that count no event. *)

(* A thread that returns to its application is in no call.                 *)
LEMMA CallDone ==
  ASSUME NEW t \in Threads, thr'[t].op = "none", thr'[t].pc = "idle"
  PROVE  Call(t)'
BY DEF Call

LEMMA DyingKept ==
  ASSUME Inv, NEW t \in Threads, Only(t), rctx' = rctx, thr[t].op # "destroy" \/ thr[t].pc # "wait",
         \A d \in Cqs : cq'[d].st = "dying" => cq[d].st = "dying"
  PROVE  Dying'
<1>1. ASSUME NEW d \in Cqs, cq'[d].st = "dying"
      PROVE  rctx # NULL /\ \E u \in Threads : rctx = u /\ thr'[u].op = "destroy" /\ thr'[u].pc = "wait" /\ thr'[u].cq = d
  <2>1. rctx # NULL /\ \E u \in Threads : rctx = u /\ thr[u].op = "destroy" /\ thr[u].pc = "wait" /\ thr[u].cq = d
    BY <1>1 DEF Inv, CqInv, Dying
  <2>2. \A u \in Threads : thr[u].op = "destroy" /\ thr[u].pc = "wait" => thr'[u] = thr[u]
    BY DEF Only
  <2> QED
    BY <2>1, <2>2
<1> QED
  BY <1>1 DEF Dying

(* The events that wait are events of queues in S.                         *)
LEMMA WaitingKept ==
  ASSUME Inv, NEW S \in SUBSET Cqs,
         \A p \in Procs : \A k \in 1..Len(events'[p]) :
           \E j \in 1..Len(events[p]) : events'[p][k] = events[p][j] /\ events[p][j] \in S,
         \A d \in S : cq[d].st = "live" /\ ~Creating(d) =>
           cq'[d].st = "live" /\ cq'[d].owner = cq[d].owner /\ ~Creating(d)'
  PROVE  Waiting'
<1>1. ASSUME NEW p \in Procs, NEW k \in 1..Len(events'[p])
      PROVE  /\ cq'[events'[p][k]].st = "live" /\ cq'[events'[p][k]].owner = p
             /\ ~Creating(events[p][k])'
  <2>1. PICK j \in 1..Len(events[p]) : events'[p][k] = events[p][j] /\ events[p][j] \in S
    BY SMT
  <2>2. cq[events[p][j]].st = "live" /\ cq[events[p][j]].owner = p /\ ~Creating(events[p][j])
    BY DEF Inv, CqInv, Waiting
  <2>3. PICK d \in S : d = events'[p][k] /\ cq[d].st = "live" /\ cq[d].owner = p /\ ~Creating(d)
    BY <2>1, <2>2
  <2>4. cq'[d].st = "live" /\ cq'[d].owner = p /\ ~Creating(d)'
    BY <2>3
  <2> QED
    BY <2>3, <2>4 DEF Creating
<1> QED
  BY <1>1 DEF Waiting

LEMMA SameEvents ==
  ASSUME Inv, events' = events
  PROVE  \A p \in Procs : \A k \in 1..Len(events'[p]) :
           \E j \in 1..Len(events[p]) : events'[p][k] = events[p][j] /\ events[p][j] \in Cqs
<1>1. ASSUME NEW p \in Procs, NEW k \in 1..Len(events[p]) PROVE events[p][k] \in Cqs
  <2>1. events[p] \in Seq(Cqs)
    BY DEF Inv, TypeOK
  <2> QED
    BY SMT, <2>1
<1> QED
  BY <1>1

LEMMA HandleFacts ==
  ASSUME Inv
  PROVE  /\ \A d \in Cqs : Exists(d) => cq[d].handle \in Handles /\ cq[d].owner \in Procs
         /\ \A d \in Cqs : ~Exists(d) => cq[d].out = 0
         /\ \A d, e \in Cqs : Exists(d) /\ Exists(e) /\ cq[d].handle = cq[e].handle => d = e
         /\ \A g \in Handles : cq_map[g] # NULL =>
              cq_map[g] \in Cqs /\ cq[cq_map[g]].st = "live" /\ cq[cq_map[g]].handle = g
<1>1. \A g \in Handles : cq_map[g] # NULL => cq_map[g] \in Cqs
  BY DEF Inv, TypeOK
<1>2. Handle
  BY DEF Inv, CqInv
<1> QED
  BY <1>1, <1>2 DEF Handle

(* A queue that is created or destroyed, and not owned: what other threads *)
(* may do with it.                                                         *)
LEMMA OtherCalls ==
  ASSUME Inv, NEW u \in Threads
  PROVE  /\ thr[u].op = "notify" => thr[u].cq \in owned
         /\ thr[u].op \in {"create", "destroy"} /\ thr[u].cq \in Cqs => thr[u].cq \notin owned /\ thr[u].handle \in Handles
         /\ owned \subseteq Cqs
<1>1. owned \subseteq Cqs /\ NULL \notin Cqs /\ Call(u)
  BY CompChannelAssumption, Typing DEF Inv, TypeOK
<1>2. thr[u].op = "notify" => thr[u].cq \in owned
  BY <1>1 DEF Call, Notify
<1>3. thr[u].op = "destroy" => thr[u].cq \notin owned /\ thr[u].handle \in Handles
  BY <1>1 DEF Call, Destroy
<1>4. ASSUME thr[u].op = "create", thr[u].cq \in Cqs PROVE thr[u].cq \notin owned /\ thr[u].handle \in Handles
  <2>1. thr[u].cq \notin owned /\ Mine(u) /\ cq[thr[u].cq].st = "live"
    BY <1>1, <1>4 DEF Call, Create
  <2>2. Exists(thr[u].cq)
    BY SMT, <2>1 DEF Exists
  <2> QED
    BY <1>4, <2>1, <2>2 DEF Mine, Inv, CqInv, Handle
<1> QED
  BY <1>1, <1>2, <1>3, <1>4

LEMMA DestroyCallInv ==
  ASSUME Inv, UNCHANGED use, NEW t \in Threads, DestroyCall(t)
  PROVE  Inv'
<1>f. \E c \in owned :
        /\ cq[c].owner = ProcOf[t] /\ Only(t) /\ Becomes(t, "destroy", "find", c, cq[c].handle)
        /\ \A u \in Threads : thr[u].cq = c => thr[u].op # "notify"
        /\ ctx' = [ctx EXCEPT ![ProcOf[t]] = t] /\ owned' = owned \ {c}
        /\ UNCHANGED <<router, kernel, fd, client_map, sock, held, history>>
  <2>1. PICK c \in owned :
             /\ cq[c].owner = ProcOf[t] /\ ~InUse(c) /\ Start(t, "destroy", c, "find")
             /\ ctx' = [ctx EXCEPT ![ProcOf[t]] = t] /\ owned' = owned \ {c}
             /\ UNCHANGED <<router, kernel, fd, client_map, sock, held, history>>
    BY DEF DestroyCall
  <2>2. c \in Cqs /\ HandleOf(c) = cq[c].handle
    BY CompChannelAssumption DEF Inv, TypeOK, HandleOf
  <2>3. Only(t) /\ Becomes(t, "destroy", "find", c, cq[c].handle)
    BY SMT, <2>1, <2>2, StartFacts DEF Inv, Ops, Pcs
  <2>4. \A u \in Threads : thr[u].cq = c => thr[u].op # "notify"
    BY <2>1 DEF InUse
  <2> QED
    BY <2>1, <2>3, <2>4
<1>t. TypeOK'
  <2>1. ctx' = [ctx EXCEPT ![ProcOf[t]] = t] /\ owned' \subseteq owned
    BY <1>f
  <2>2. ctx' \in [Procs -> Threads \cup {NULL}]
    BY <2>1, Updated DEF Inv, TypeOK
  <2>3. owned' \subseteq Cqs
    BY <2>1 DEF Inv, TypeOK
  <2> QED
    BY <2>2, <2>3, <1>f DEF Inv, TypeOK, Only, router, kernel, flags, client, app, history
<1>q. CqInv'
  <2>1. PICK c \in owned :
          /\ cq[c].owner = ProcOf[t] /\ Only(t) /\ Becomes(t, "destroy", "find", c, cq[c].handle)
          /\ \A u \in Threads : thr[u].cq = c => thr[u].op # "notify"
          /\ ctx' = [ctx EXCEPT ![ProcOf[t]] = t] /\ owned' = owned \ {c}
          /\ UNCHANGED <<router, kernel, fd, client_map, sock, held, history>>
    BY <1>f
  <2>2. /\ \A u \in Threads : u # t => thr'[u] = thr[u]
        /\ thr'[t].op = "destroy" /\ thr'[t].pc = "find" /\ thr'[t].cq = c /\ thr'[t].handle = cq[c].handle
        /\ UNCHANGED <<cq_map, rctx, cq, events, client_map, cut, late, overtaken>>
    BY <2>1 DEF Only, Becomes, router, kernel, history
  <2>3. /\ c \in Cqs /\ thr[t].op = "none" /\ ProcOf' = ProcOf
        /\ cq[c].st = "live" /\ cq_map[cq[c].handle] = c
    <3>1. ProcOf' = ProcOf
      BY SMT DEF ProcOf
    <3> QED
      BY <3>1, IdleFacts DEF Inv, TypeOK, CqInv, Owned
  <2>4. cq[c].handle \in Handles
    <3>1. Exists(c)
      BY SMT, <2>3 DEF Exists
    <3> QED
      BY <2>3, <3>1, HandleFacts
  <2>5. \A d \in Cqs : (Creating(d)' <=> Creating(d)) /\ (Exists(d)' <=> Exists(d))
    <3>1. \A d \in Cqs : Creating(d)' <=> Creating(d)
      BY <2>2, <2>3 DEF Creating
    <3> QED
      BY <2>2, <3>1 DEF Exists
  <2>6. Handle' /\ Late'
    BY <2>2, <2>5 DEF Inv, CqInv, Handle, Late
  <2>7. Owned'
    BY <2>1, <2>2 DEF Inv, CqInv, Owned
  <2>8. Dying'
    <3>1. thr[t].op # "destroy"
      BY SMT, <2>3
    <3> QED
      BY <2>1, <2>2, <3>1, DyingKept
  <2>9. Waiting'
    BY <2>2, <2>5, SameEvents, WaitingKept
  <2>10. Entry'
    BY <2>2, <2>5 DEF Inv, CqInv, Entry
  <2>11. Apart'
    <3>0. \A u \in Threads : u # t /\ thr'[u].op \in {"create", "destroy"} => thr'[u].cq # c
      BY <2>2, <2>3, OtherCalls
    <3>1. ASSUME NEW u \in Threads, NEW v \in Threads, {thr'[u].op, thr'[v].op} \subseteq {"create", "destroy"},
                 thr'[u].cq = thr'[v].cq, u # v
          PROVE  thr'[u].cq = NULL
      <4>1. u # t /\ v # t
        BY <2>2, <3>0, <3>1
      <4>2. thr'[u] = thr[u] /\ thr'[v] = thr[v]
        BY <2>2, <4>1
      <4>3. {thr[u].op, thr[v].op} \subseteq {"create", "destroy"} /\ thr[u].cq = thr[v].cq
        BY <3>1, <4>2
      <4> QED
        BY <3>1, <4>2, <4>3 DEF Inv, CqInv, Apart
    <3> QED
      BY <3>1 DEF Apart
  <2>12. ASSUME NEW u \in Threads PROVE Call(u)'
    <3>1. CASE u = t
      <4>1. Destroy(t)'
        BY <2>1, <2>2, <2>3, <2>4 DEF Destroy, Mine
      <4> QED
        BY <2>2, <3>1, <4>1 DEF Call
    <3>2. CASE u # t
      <4>1. thr'[u] = thr[u] /\ (thr[u].op = "notify" => thr[u].cq \in owned')
        BY <2>1, <2>2, <3>2, OtherCalls
      <4> QED
        BY <2>1, <2>2, <4>1, CallKept
    <3> QED
      BY <3>1, <3>2
  <2> QED
    BY <2>6, <2>7, <2>8, <2>9, <2>10, <2>11, <2>12 DEF CqInv
<1>1. /\ Only(t) /\ thr[t].op = "none" /\ thr'[t].op = "destroy"
      /\ UNCHANGED <<channel_map, open, fd, cut, cq, held>>
  BY <1>f, IdleFacts DEF Becomes, router, kernel, client, app, history
<1>2. ChannelInv'
  BY <1>1, ChannelKept DEF Using
<1>3. Counted'
  BY <1>1, CountedKept
<1> QED
  BY <1>2, <1>3, <1>t, <1>q DEF Inv

LEMMA ApartKept ==
  ASSUME Inv, NEW t \in Threads, Only(t),
         thr'[t].op \in {"create", "destroy"} => thr[t].op \in {"create", "destroy"} /\ thr'[t].cq = thr[t].cq
  PROVE  Apart'
<1>1. \A u \in Threads : thr'[u].op \in {"create", "destroy"} => thr[u].op \in {"create", "destroy"} /\ thr'[u].cq = thr[u].cq
  BY DEF Only
<1>2. ASSUME NEW u \in Threads, NEW v \in Threads, {thr'[u].op, thr'[v].op} \subseteq {"create", "destroy"},
             thr'[u].cq = thr'[v].cq
      PROVE  u = v \/ thr'[u].cq = NULL
  <2>1. {thr[u].op, thr[v].op} \subseteq {"create", "destroy"} /\ thr[u].cq = thr[v].cq /\ thr'[u].cq = thr[u].cq
    BY <1>1, <1>2
  <2> QED
    BY <2>1 DEF Inv, CqInv, Apart
<1> QED
  BY <1>2 DEF Apart

LEMMA DestroyUnlockInv ==
  ASSUME Inv, UNCHANGED use, NEW t \in Threads, DestroyUnlock(t)
  PROVE  Inv'
<1>f. /\ Only(t) /\ thr[t].op = "destroy" /\ thr[t].pc = "unlock"
      /\ ctx' = [ctx EXCEPT ![ProcOf[t]] = NULL]
      /\ Becomes(t, "destroy", "clear", thr[t].cq, thr[t].handle)
      /\ UNCHANGED <<router, kernel, fd, client_map, sock, app, history>>
  <2>1. Only(t) /\ Becomes(t, thr[t].op, "clear", thr[t].cq, thr[t].handle)
    BY SMT, GotoFacts DEF DestroyUnlock, Inv, Pcs
  <2> QED
    BY <2>1 DEF DestroyUnlock
<1>t. TypeOK'
  <2>1. ctx' \in [Procs -> Threads \cup {NULL}]
    BY Updated, <1>f, Typing DEF DestroyUnlock, Inv, TypeOK, Queued
  <2> QED
    BY <2>1, <1>f DEF Inv, TypeOK, Only, router, kernel, flags, client, app, history
<1>q. CqInv'
  <2>1. /\ Only(t) /\ thr[t].op = "destroy" /\ thr[t].pc = "unlock"
        /\ thr'[t].op = "destroy" /\ thr'[t].pc = "clear" /\ thr'[t].cq = thr[t].cq /\ thr'[t].handle = thr[t].handle
        /\ UNCHANGED <<cq_map, rctx, cq, events, client_map, owned, cut, late, overtaken>>
        /\ \A u \in Threads : u # t => thr'[u] = thr[u]
    BY <1>f DEF Only, Becomes, router, kernel, app, history
  <2>2. \A d \in Cqs : (Creating(d)' <=> Creating(d)) /\ (Exists(d)' <=> Exists(d))
    <3>1. \A d \in Cqs : Creating(d)' <=> Creating(d)
      BY <2>1 DEF Creating
    <3> QED
      BY <2>1, <3>1 DEF Exists
  <2>3. Handle' /\ Late' /\ Owned'
    BY <2>1, <2>2 DEF Inv, CqInv, Handle, Late, Owned
  <2>4. Dying'
    <3>1. thr[t].pc # "wait"
      BY SMT, <2>1
    <3> QED
      BY <2>1, <3>1, DyingKept
  <2>5. Waiting'
    BY <2>1, <2>2, SameEvents, WaitingKept
  <2>6. Entry'
    BY <2>1, <2>2 DEF Inv, CqInv, Entry
  <2>7. Apart'
    BY <2>1, ApartKept
  <2>8. ASSUME NEW u \in Threads PROVE Call(u)'
    <3>1. CASE u = t
      <4>1. Destroy(t)
        BY <2>1, Typing DEF Call
      <4>2. ~Exists(thr[t].cq)
        BY SMT, <2>1, <4>1 DEF Destroy
      <4>3. Destroy(t)'
        BY <2>1, <2>2, <4>1, <4>2 DEF Destroy
      <4>4. thr'[t].pc # "idle"
        BY SMT, <2>1
      <4> QED
        BY <2>1, <3>1, <4>3, <4>4 DEF Call
    <3>2. CASE u # t
      <4>1. thr'[u] = thr[u] /\ (thr[u].op = "notify" => thr[u].cq \in owned')
        BY <2>1, <3>2, OtherCalls
      <4> QED
        BY <2>1, <4>1, CallKept
    <3> QED
      BY <3>1, <3>2
  <2> QED
    BY <2>3, <2>4, <2>5, <2>6, <2>7, <2>8 DEF CqInv
<1>1. /\ Only(t) /\ thr[t].op = "destroy" /\ thr'[t].op = "destroy"
      /\ UNCHANGED <<channel_map, open, fd, cut, cq, held>>
  BY <1>f DEF Becomes, router, kernel, client, app, history
<1>2. ChannelInv'
  BY <1>1, ChannelKept DEF Using
<1>3. Counted'
  BY <1>1, CountedKept
<1> QED
  BY <1>2, <1>3, <1>t, <1>q DEF Inv

LEMMA UpdatedTwice ==
  ASSUME NEW R, NEW S, NEW T, NEW f \in [R -> [S -> T]], NEW x \in R, NEW y, NEW v \in T
  PROVE  [f EXCEPT ![x][y] = v] \in [R -> [S -> T]]
OBVIOUS

LEMMA DestroyClearInv ==
  ASSUME Inv, UNCHANGED use, NEW t \in Threads, DestroyClear(t)
  PROVE  Inv'
<1>f. /\ Only(t) /\ thr[t].op = "destroy" /\ thr[t].pc = "clear"
      /\ client_map' = [client_map EXCEPT ![ProcOf[t]][thr[t].handle] = NULL]
      /\ LET now == client_map[ProcOf[t]][thr[t].handle]
         IN  overtaken' = IF now \in {NULL, thr[t].cq} THEN overtaken ELSE overtaken \cup {now}
      /\ thr'[t].op = "none" /\ thr'[t].pc = "idle"
      /\ UNCHANGED <<router, kernel, fd, ctx, sock, app, cut, late>>
  <2>1. Only(t) /\ thr'[t].op = "none" /\ thr'[t].pc = "idle"
    BY DoneFacts DEF DestroyClear, Inv
  <2> QED
    BY <2>1 DEF DestroyClear
<1>t. TypeOK'
  <2>1. ProcOf[t] \in Procs /\ thr[t].handle \in Handles
    BY <1>f, Typing DEF Call, Destroy
  <2>2. client_map[ProcOf[t]][thr[t].handle] \in Cqs \cup {NULL}
    BY SMT, <2>1 DEF Inv, TypeOK
  <2>3. client_map' \in [Procs -> [Handles -> Cqs \cup {NULL}]]
    BY <2>1, UpdatedTwice DEF DestroyClear, Inv, TypeOK
  <2>4. overtaken' \subseteq Cqs
    BY <2>2 DEF DestroyClear, Inv, TypeOK
  <2> QED
    BY <2>3, <2>4, <1>f DEF Inv, TypeOK, Only, router, kernel, flags, client, app, history
<1>q. CqInv'
  <2>1. PICK c \in Cqs, h \in Handles :
          /\ c = thr[t].cq /\ h = thr[t].handle /\ Only(t) /\ thr[t].op = "destroy" /\ thr[t].pc = "clear"
          /\ ~Exists(c)
    <3>1. Only(t) /\ thr[t].op = "destroy" /\ thr[t].pc = "clear"
      BY <1>f
    <3>2. Destroy(t)
      BY <3>1, Typing DEF Call
    <3>3. ~Exists(thr[t].cq)
      BY SMT, <3>1, <3>2 DEF Destroy
    <3> QED
      BY <3>1, <3>2, <3>3 DEF Destroy
  <2>2. PICK p \in Procs :
          /\ p = ProcOf[t] /\ client_map' = [client_map EXCEPT ![p][h] = NULL]
          /\ overtaken' = IF client_map[p][h] \in {NULL, c} THEN overtaken ELSE overtaken \cup {client_map[p][h]}
          /\ thr'[t].op = "none" /\ thr'[t].pc = "idle"
          /\ UNCHANGED <<cq_map, rctx, cq, events, owned, cut, late>>
    BY <2>1, <1>f, Typing DEF router, kernel, app
  <2>3. /\ \A u \in Threads : u # t => thr'[u] = thr[u]
        /\ overtaken \subseteq overtaken'
        /\ client_map[p][h] # NULL /\ client_map[p][h] # c => client_map[p][h] \in overtaken'
    BY <2>1, <2>2 DEF Only
  <2>4. /\ client_map'[p][h] = NULL
        /\ \A q \in Procs, g \in Handles : q # p \/ g # h => client_map'[q][g] = client_map[q][g]
    BY SMT, <2>2 DEF Inv, TypeOK
  <2>5. \A d \in Cqs : (Creating(d)' <=> Creating(d)) /\ (Exists(d)' <=> Exists(d))
    <3>1. \A d \in Cqs : Creating(d)' <=> Creating(d)
      BY <2>1, <2>2, <2>3 DEF Creating
    <3> QED
      BY <2>2, <3>1 DEF Exists
  <2>6. Handle' /\ Late' /\ Owned'
    BY <2>2, <2>5 DEF Inv, CqInv, Handle, Late, Owned
  <2>7. Dying'
    <3>1. thr[t].pc # "wait"
      BY SMT, <2>1
    <3> QED
      BY <2>1, <2>2, <3>1, DyingKept
  <2>8. Waiting'
    BY <2>2, <2>5, SameEvents, WaitingKept
  <2>9. Entry'
    <3>1. ASSUME NEW d \in Cqs, Exists(d), ~Creating(d)
          PROVE  \/ client_map'[cq[d].owner][cq[d].handle] = d
                 \/ client_map'[cq[d].owner][cq[d].handle] = NULL /\ d \in overtaken'
      <4>1. /\ cq[d].handle \in Handles /\ cq[d].owner \in Procs /\ d # c /\ NULL \notin Cqs
            /\ \/ client_map[cq[d].owner][cq[d].handle] = d
               \/ client_map[cq[d].owner][cq[d].handle] = NULL /\ d \in overtaken
        BY <2>1, <3>1, HandleFacts, CompChannelAssumption DEF Inv, CqInv, Entry
      <4>2. CASE cq[d].owner = p /\ cq[d].handle = h
        BY <2>3, <2>4, <4>1, <4>2
      <4>3. CASE cq[d].owner # p \/ cq[d].handle # h
        BY <2>3, <2>4, <4>1, <4>3
      <4> QED
        BY <4>2, <4>3
    <3> QED
      BY <2>2, <2>5, <3>1 DEF Entry
  <2>10. Apart'
    BY <2>1, <2>2, ApartKept
  <2>11. ASSUME NEW u \in Threads PROVE Call(u)'
    <3>1. CASE u = t
      BY <2>2, <3>1, CallDone
    <3>2. CASE u # t
      <4>1. thr'[u] = thr[u] /\ (thr[u].op = "notify" => thr[u].cq \in owned')
        BY <2>2, <2>3, <3>2, OtherCalls
      <4> QED
        BY <2>2, <2>3, <4>1, CallKept
    <3> QED
      BY <3>1, <3>2
  <2> QED
    BY <2>6, <2>7, <2>8, <2>9, <2>10, <2>11 DEF CqInv
<1>1. /\ Only(t) /\ thr[t].op = "destroy" /\ thr'[t].op = "none"
      /\ UNCHANGED <<channel_map, open, fd, cut, cq, held>>
  BY <1>f DEF Becomes, router, kernel, client, app, history
<1>2. ChannelInv'
  BY <1>1, ChannelKept DEF Using
<1>3. Counted'
  BY <1>1, CountedKept
<1> QED
  BY <1>2, <1>3, <1>t, <1>q DEF Inv

(* No two threads create or destroy the same queue.                        *)
LEMMA OthersApart ==
  ASSUME Inv, NEW t \in Threads, thr[t].op \in {"create", "destroy"}, thr[t].cq \in Cqs,
         NEW u \in Threads, u # t, thr[u].op \in {"create", "destroy"}
  PROVE  thr[u].cq # thr[t].cq
<1>1. {thr[t].op, thr[u].op} \subseteq {"create", "destroy"} /\ thr[t].cq # NULL
  BY CompChannelAssumption
<1> QED
  BY <1>1 DEF Inv, CqInv, Apart

LEMMA CreateReturnInv ==
  ASSUME Inv, UNCHANGED use, NEW t \in Threads, CreateReturn(t)
  PROVE  Inv'
<1>f. /\ Only(t) /\ thr[t].op = "create" /\ thr[t].pc = "return"
      /\ client_map' = [client_map EXCEPT ![ProcOf[t]][thr[t].handle] = thr[t].cq]
      /\ ctx' = [ctx EXCEPT ![ProcOf[t]] = NULL] /\ owned' = owned \cup {thr[t].cq}
      /\ thr'[t].op = "none" /\ thr'[t].pc = "idle"
      /\ UNCHANGED <<router, kernel, fd, sock, held, history>>
  <2>1. Only(t) /\ thr'[t].op = "none" /\ thr'[t].pc = "idle"
    BY DoneFacts, Typing DEF CreateReturn, Inv
  <2> QED
    BY <2>1 DEF CreateReturn
<1>t. TypeOK'
  <2>1. thr[t].cq \in Cqs /\ ProcOf[t] \in Procs
    BY SMT, <1>f, Typing DEF Call, Create, Mine
  <2>2. client_map' \in [Procs -> [Handles -> Cqs \cup {NULL}]]
    BY <2>1, UpdatedTwice DEF CreateReturn, Inv, TypeOK
  <2>3. ctx' \in [Procs -> Threads \cup {NULL}]
    BY Updated DEF CreateReturn, Inv, TypeOK
  <2>4. owned' \subseteq Cqs
    BY <2>1 DEF CreateReturn, Inv, TypeOK
  <2> QED
    BY <2>2, <2>3, <2>4, <1>f DEF Inv, TypeOK, Only, router, kernel, flags, client, app, history
<1>q. CqInv'
  <2>1. PICK c \in Cqs, h \in Handles :
          /\ c = thr[t].cq /\ h = thr[t].handle /\ Only(t) /\ thr[t].op = "create" /\ Mine(t)
          /\ cq[c].st = "live" /\ c \notin owned /\ cq_map[h] = c
    <3>1. Only(t) /\ thr[t].op = "create" /\ thr[t].pc = "return"
      BY <1>f
    <3>2. Mine(t) /\ cq[thr[t].cq].st = "live" /\ thr[t].cq \notin owned /\ cq_map[thr[t].handle] = thr[t].cq
      BY <3>1, Typing DEF Call, Create
    <3> QED
      BY <3>1, <3>2, OtherCalls DEF Mine
  <2>2. /\ client_map' = [client_map EXCEPT ![ProcOf[t]][h] = c] /\ owned' = owned \cup {c}
        /\ thr'[t].op = "none" /\ thr'[t].pc = "idle"
        /\ UNCHANGED <<cq_map, rctx, cq, events, cut, late, overtaken>>
    BY <2>1, <1>f DEF router, kernel, history
  <2>3. /\ \A u \in Threads : u # t => thr'[u] = thr[u]
        /\ ProcOf[t] \in Procs /\ cq[c].handle = h /\ cq[c].owner = ProcOf[t]
    BY <2>1, Typing DEF Only, Mine
  <2>4. /\ client_map'[ProcOf[t]][h] = c
        /\ \A q \in Procs, g \in Handles : q # ProcOf[t] \/ g # h => client_map'[q][g] = client_map[q][g]
    BY SMT, <2>2, <2>3 DEF Inv, TypeOK
  <2>5. \A d \in Cqs : d # c /\ Creating(d) => Creating(d)'
    BY <2>1, <2>3 DEF Creating
  <2>6. \A d \in Cqs : Creating(d)' => Creating(d)
    BY <2>2, <2>3 DEF Creating
  <2>7. \A d \in Cqs : Exists(d)' <=> Exists(d)
    BY <2>2 DEF Exists
  <2>8. Handle' /\ Late'
    BY <2>2, <2>7 DEF Inv, CqInv, Handle, Late
  <2>9. Owned'
    BY <2>1, <2>2, <2>3 DEF Inv, CqInv, Owned
  <2>10. Dying'
    <3>1. thr[t].op # "destroy"
      BY SMT, <2>1
    <3> QED
      BY <2>1, <2>2, <3>1, DyingKept
  <2>11. Waiting'
    BY <2>2, <2>6, SameEvents, WaitingKept
  <2>12. Entry'
    <3>1. ASSUME NEW d \in Cqs, Exists(d), d # c, ~Creating(d)
          PROVE  \/ client_map'[cq[d].owner][cq[d].handle] = d
                 \/ client_map'[cq[d].owner][cq[d].handle] = NULL /\ d \in overtaken
      <4>1. Exists(c)
        BY SMT, <2>1 DEF Exists
      <4>2. cq[d].handle \in Handles /\ cq[d].owner \in Procs /\ cq[d].handle # h
        BY <2>3, <3>1, <4>1, HandleFacts
      <4>3. client_map'[cq[d].owner][cq[d].handle] = client_map[cq[d].owner][cq[d].handle]
        BY <2>4, <4>2
      <4> QED
        BY <3>1, <4>3 DEF Inv, CqInv, Entry
    <3>2. client_map'[cq[c].owner][cq[c].handle] = c
      BY <2>3, <2>4
    <3> QED
      BY <2>2, <2>5, <2>7, <3>1, <3>2 DEF Entry
  <2>13. Apart'
    BY <2>1, <2>2, ApartKept
  <2>14. ASSUME NEW u \in Threads PROVE Call(u)'
    <3>1. CASE u = t
      BY <2>2, <3>1, CallDone
    <3>2. CASE u # t
      <4>1. thr'[u] = thr[u] /\ (thr[u].op = "notify" => thr[u].cq \in owned')
        BY <2>2, <2>3, <3>2, OtherCalls
      <4>2. thr[u].op \in {"create", "destroy"} /\ thr[u].cq \in Cqs => thr[u].cq # c
        BY <2>1, <3>2, OthersApart
      <4> QED
        BY <2>2, <4>1, <4>2, CallKept
    <3> QED
      BY <3>1, <3>2
  <2> QED
    BY <2>8, <2>9, <2>10, <2>11, <2>12, <2>13, <2>14 DEF CqInv
<1>1. /\ Only(t) /\ thr[t].op = "create" /\ thr'[t].op = "none"
      /\ UNCHANGED <<channel_map, open, fd, cut, cq, held>>
  BY <1>f DEF Becomes, router, kernel, client, app, history
<1>2. ChannelInv'
  BY <1>1, ChannelKept DEF Using
<1>3. Counted'
  BY <1>1, CountedKept
<1> QED
  BY <1>2, <1>3, <1>t, <1>q DEF Inv

LEMMA CreateStoreInv ==
  ASSUME Inv, UNCHANGED use, NEW t \in Threads, CreateStore(t)
  PROVE  Inv'
<1>f. /\ Only(t) /\ thr[t].op = "create" /\ thr[t].pc = "store"
      /\ cq_map' = [cq_map EXCEPT ![thr[t].handle] = thr[t].cq]
      /\ Becomes(t, "create", "return", thr[t].cq, thr[t].handle)
      /\ UNCHANGED <<channel_map, rctx, kernel, client, app, history>>
  <2>1. Only(t) /\ Becomes(t, thr[t].op, "return", thr[t].cq, thr[t].handle)
    BY SMT, GotoFacts DEF CreateStore, Inv, Pcs
  <2> QED
    BY <2>1 DEF CreateStore
<1>t. TypeOK'
  <2>1. cq_map' \in [Handles -> Cqs \cup {NULL}]
    BY Updated, <1>f, Typing DEF CreateStore, Inv, TypeOK, Queued
  <2> QED
    BY <2>1, <1>f DEF Inv, TypeOK, Only, router, kernel, flags, client, app, history
<1>q. CqInv'
  <2>1. PICK c \in Cqs, h \in Handles :
          /\ c = thr[t].cq /\ h = thr[t].handle /\ Only(t) /\ thr[t].op = "create" /\ Mine(t)
          /\ cq[c].st = "live" /\ cq[c].out = 0 /\ c \notin owned
    <3>1. Only(t) /\ thr[t].op = "create" /\ thr[t].pc = "store"
      BY <1>f
    <3>2. Mine(t) /\ cq[thr[t].cq].st = "live" /\ cq[thr[t].cq].out = 0 /\ thr[t].cq \notin owned
      BY <3>1, Typing DEF Call, Create
    <3> QED
      BY <3>1, <3>2, OtherCalls DEF Mine
  <2>2. /\ cq_map' = [cq_map EXCEPT ![h] = c]
        /\ thr'[t].op = "create" /\ thr'[t].pc = "return" /\ thr'[t].cq = c /\ thr'[t].handle = h
        /\ UNCHANGED <<rctx, cq, events, client_map, owned, cut, late, overtaken>>
    BY <2>1, <1>f DEF Becomes, kernel, client, app, history
  <2>3. /\ \A u \in Threads : u # t => thr'[u] = thr[u]
        /\ \A g \in Handles : g # h => cq_map'[g] = cq_map[g]
        /\ cq_map'[h] = c /\ cq[c].handle = h /\ cq[c].owner = ProcOf[t] /\ ProcOf' = ProcOf
    <3>1. ProcOf' = ProcOf
      BY SMT DEF ProcOf
    <3> QED
      BY <2>1, <2>2, <3>1 DEF Only, Mine, Inv, TypeOK
  <2>4. \A d \in Cqs : Exists(d) /\ d # c => cq[d].handle \in Handles /\ cq[d].handle # h
    <3>1. Exists(c)
      BY SMT, <2>1 DEF Exists
    <3> QED
      BY <2>3, <3>1 DEF Inv, CqInv, Handle
  <2>5. \A d \in Cqs : Creating(d)' <=> Creating(d)
    BY <2>1, <2>2, <2>3 DEF Creating
  <2>6. \A d \in Cqs : Exists(d)' <=> Exists(d)
    BY <2>2 DEF Exists
  <2>7. Handle'
    <3>1. \A g \in Handles : cq_map'[g] # NULL => cq[cq_map'[g]].st = "live" /\ cq[cq_map'[g]].handle = g
      BY <2>1, <2>3 DEF Inv, CqInv, Handle
    <3> QED
      BY <2>2, <2>6, <3>1 DEF Inv, CqInv, Handle
  <2>8. Owned'
    <3>1. \A d \in owned : d \in Cqs /\ d # c /\ cq[d].st = "live" /\ cq_map[cq[d].handle] = d
      BY <2>1 DEF Inv, TypeOK, CqInv, Owned
    <3>2. \A d \in owned : Exists(d)
      BY SMT, <3>1 DEF Exists
    <3>3. \A d \in owned : cq_map'[cq[d].handle] = d
      BY <2>3, <2>4, <3>1, <3>2
    <3> QED
      BY <2>2, <3>1, <3>3 DEF Owned
  <2>9. Dying'
    <3>1. thr[t].op # "destroy"
      BY SMT, <2>1
    <3> QED
      BY <2>1, <2>2, <3>1, DyingKept
  <2>10. Waiting'
    BY <2>2, <2>5, SameEvents, WaitingKept
  <2>11. Entry'
    BY <2>2, <2>5, <2>6 DEF Inv, CqInv, Entry
  <2>12. Late'
    <3>1. \A d \in Cqs : cq[d].out > 0 => d # c /\ cq[d].out # 0
      BY SMT, <2>1
    <3>2. \A d \in Cqs : cq[d].out > 0 => Exists(d)
      BY <3>1 DEF Inv, CqInv, Handle
    <3>3. \A d \in Cqs : cq[d].out > 0 /\ d \notin late => cq_map'[cq[d].handle] = d
      BY <2>3, <2>4, <3>1, <3>2 DEF Inv, CqInv, Late
    <3> QED
      BY <2>2, <3>3 DEF Late
  <2>13. Apart'
    BY <2>1, <2>2, ApartKept
  <2>14. ASSUME NEW u \in Threads PROVE Call(u)'
    <3>1. CASE u = t
      BY <2>1, <2>2, <2>3, <3>1 DEF Call, Create, Mine
    <3>2. CASE u # t
      <4>1. thr'[u] = thr[u] /\ (thr[u].op = "notify" => thr[u].cq \in owned')
        BY <2>2, <2>3, <3>2, OtherCalls
      <4>2. ASSUME thr[u].op \in {"create", "destroy"}, thr[u].cq \in Cqs
            PROVE  cq_map'[thr[u].handle] = thr[u].cq <=> cq_map[thr[u].handle] = thr[u].cq
        <5>1. thr[u].cq # c /\ thr[u].handle \in Handles
          BY <2>1, <3>2, <4>2, OthersApart, OtherCalls
        <5>2. CASE thr[u].handle = h
          <6>1. cq_map'[h] # thr[u].cq
            BY <2>3, <5>1
          <6>2. cq_map[h] # thr[u].cq
            <7>1. SUFFICES ASSUME cq_map[h] = thr[u].cq PROVE FALSE
              BY SMT
            <7>2. cq[thr[u].cq].st = "live" /\ cq[thr[u].cq].handle = h
              <8>1. cq_map[h] # NULL
                BY <4>2, <7>1, CompChannelAssumption
              <8>2. cq[cq_map[h]].st = "live" /\ cq[cq_map[h]].handle = h
                BY <8>1, HandleFacts
              <8> QED
                BY <7>1, <8>2
            <7>3. Exists(thr[u].cq)
              BY SMT, <7>2 DEF Exists
            <7> QED
              BY <2>4, <4>2, <5>1, <7>2, <7>3
          <6> QED
            BY <5>2, <6>1, <6>2
        <5>3. CASE thr[u].handle # h
          BY <2>3, <5>1, <5>3
        <5> QED
          BY <5>2, <5>3
      <4> QED
        BY <2>2, <4>1, <4>2, CallKept
    <3> QED
      BY <3>1, <3>2
  <2> QED
    BY <2>7, <2>8, <2>9, <2>10, <2>11, <2>12, <2>13, <2>14 DEF CqInv
<1>1. /\ Only(t) /\ thr[t].op = "create" /\ thr'[t].op = "create"
      /\ UNCHANGED <<channel_map, open, fd, cut, cq, held>>
  BY <1>f DEF Becomes, router, kernel, client, app, history
<1>2. ChannelInv'
  BY <1>1, ChannelKept DEF Using
<1>3. Counted'
  BY <1>1, CountedKept
<1> QED
  BY <1>2, <1>3, <1>t, <1>q DEF Inv

LEMMA QueueFacts ==
  ASSUME TypeOK, NEW c \in Cqs, NEW h \in Handles \cup {NULL}, NEW p \in Procs \cup {NULL},
         NEW st \in {"none", "live", "dying"},
         cq' = [cq EXCEPT ![c] = [st |-> st, handle |-> h, out |-> 0, owner |-> p]]
  PROVE  Queued(c, st, h, p, 0)
BY SMT DEF TypeOK, Queues, Queued

(* While the mutex of the host's context is free, no destruction waits.    *)
LEMMA NoneDying ==
  ASSUME Inv, rctx = NULL
  PROVE  \A d \in Cqs : cq[d].st = "none" \/ cq[d].st = "live"
<1>1. \A d \in Cqs : cq[d].st \in {"none", "live", "dying"}
  BY SMT DEF Inv, TypeOK, Queues
<1> QED
  BY <1>1 DEF Inv, CqInv, Dying

(* ibv_create_cq creates a queue of the caller's process, or the channel   *)
(* of the process was cut off.                                             *)
LEMMA CreateVerbInv ==
  ASSUME Inv, UNCHANGED use, NEW t \in Threads, CreateVerb(t)
  PROVE  Inv'
<1>f. /\ Only(t) /\ thr[t].op = "create" /\ thr[t].pc = "verb" /\ thr[t].cq = NULL
      /\ UNCHANGED <<router, open, events, flags, client, app, cut>>
      /\ \/ /\ channel_map[fd[ProcOf[t]]] = NULL /\ Becomes(t, "create", "hung", NULL, thr[t].handle)
            /\ UNCHANGED <<cq, late, overtaken>>
         \/ /\ rctx = NULL
            /\ \E c \in Cqs, h \in Handles :
                  /\ Fresh(c) /\ \A d \in Cqs : cq[d].st = "live" => cq[d].handle # h
                  /\ Queued(c, "live", h, ProcOf[t], 0) /\ Becomes(t, "create", "store", c, h)
                  /\ late' = late \ {c} /\ overtaken' = overtaken \ {c}
  <2>1. /\ thr[t].op = "create" /\ thr[t].pc = "verb"
        /\ UNCHANGED <<router, open, events, flags, client, app, cut>>
    BY DEF CreateVerb
  <2>2. thr[t].cq = NULL /\ fd[ProcOf[t]] \in Fds
    BY SMT, <2>1, Typing DEF Inv, ChannelInv, HasChannel, Using, Call, Create
  <2>3. CASE channel_map[fd[ProcOf[t]]] = NULL /\ Hung(t) /\ UNCHANGED <<cq, late, overtaken>>
    <3>1. Only(t) /\ Becomes(t, "create", "hung", NULL, thr[t].handle)
      BY SMT, <2>1, <2>2, <2>3, GotoFacts DEF Inv, Hung, Pcs, Becomes
    <3> QED
      BY <2>1, <2>2, <2>3, <3>1
  <2>4. CASE channel_map[fd[ProcOf[t]]] # NULL
    <3>1. channel_map[fd[ProcOf[t]]] = ProcOf[t] /\ ProcOf[t] \in Procs
      BY <2>2, <2>4, Typing DEF Inv, ChannelInv, ChannelOf
    <3>2. rctx = NULL
      BY <2>4 DEF CreateVerb
    <3>3. PICK c \in Cqs, h \in Handles :
             /\ Fresh(c) /\ \A d \in Cqs : cq[d].st = "live" => cq[d].handle # h
             /\ cq' = [cq EXCEPT ![c] = [st |-> "live", handle |-> h, out |-> 0, owner |-> ProcOf[t]]]
             /\ In(t, "create", "store", c, h)
             /\ late' = late \ {c} /\ overtaken' = overtaken \ {c}
      BY <2>4, <3>1 DEF CreateVerb
    <3>4. Queued(c, "live", h, ProcOf[t], 0)
      BY <3>1, <3>3, QueueFacts DEF Inv
    <3>5. Only(t) /\ Becomes(t, "create", "store", c, h)
      BY SMT, <3>3, InFacts DEF Inv, Ops, Pcs
    <3> QED
      BY <2>1, <2>2, <3>2, <3>3, <3>4, <3>5
  <2> QED
    BY <2>3, <2>4 DEF CreateVerb
<1>t. TypeOK'
  <2>1. cq' \in [Cqs -> Queues]
    BY <1>f DEF Queued, Inv, TypeOK
  <2>2. late' \subseteq late /\ overtaken' \subseteq overtaken
    BY <1>f
  <2>3. late' \subseteq Cqs /\ overtaken' \subseteq Cqs
    BY <2>2 DEF Inv, TypeOK
  <2> QED
    BY <2>1, <2>3, <1>f DEF Inv, TypeOK, Only, router, kernel, flags, client, app, history
<1>h. thr'[t].pc = "hung" =>  CqInv'
  <2> SUFFICES ASSUME thr'[t].pc = "hung" PROVE  CqInv'
    BY SMT
  <2>1. /\ thr[t].op = "create" /\ thr[t].pc = "verb" /\ thr[t].cq = NULL /\ Only(t)
        /\ UNCHANGED <<router, open, events, flags, client, app, cut>>
    BY <1>f
  <2>2. /\ channel_map[fd[ProcOf[t]]] = NULL /\ thr'[t].op = "create" /\ thr'[t].cq = NULL
        /\ UNCHANGED <<cq, late, overtaken>>
    BY <1>f DEF Becomes
  <2>3. UNCHANGED <<cq_map, rctx, cq, events, client_map, owned, cut>> /\ HistoryGrows
    BY <2>1, <2>2 DEF router, client, app, HistoryGrows
  <2>4. ProcOf[t] \in cut /\ ProcOf' = ProcOf
    <3>1. ProcOf' = ProcOf
      BY SMT DEF ProcOf
    <3> QED
      BY <2>1, <2>2, <3>1, CutOff DEF Using
  <2>5. Call(t)' /\ Aside(thr[t]) /\ Aside(thr'[t])
    BY <2>1, <2>2, <2>3, <2>4 DEF Call, Aside, Create
  <2> QED
    BY <2>1, <2>3, <2>5, QuietStep
<1>q. thr'[t].pc # "hung" =>  CqInv'
  <2> SUFFICES ASSUME thr'[t].pc # "hung" PROVE  CqInv'
    BY SMT
  <2>1. /\ Only(t) /\ thr[t].op = "create" /\ thr[t].cq = NULL /\ rctx = NULL
        /\ UNCHANGED <<cq_map, rctx, events, client_map, owned, cut>>
    BY <1>f DEF router, client, app, Becomes
  <2>2. PICK c \in Cqs, h \in Handles :
          /\ Fresh(c) /\ \A d \in Cqs : cq[d].st = "live" => cq[d].handle # h
          /\ Queued(c, "live", h, ProcOf[t], 0) /\ Becomes(t, "create", "store", c, h)
          /\ late' = late \ {c} /\ overtaken' = overtaken \ {c}
    BY <1>f DEF Becomes
  <2>3. /\ \A u \in Threads : u # t => thr'[u] = thr[u]
        /\ thr'[t].op = "create" /\ thr'[t].pc = "store" /\ thr'[t].cq = c /\ thr'[t].handle = h
        /\ \A d \in Cqs : d # c => cq'[d] = cq[d]
        /\ cq'[c].st = "live" /\ cq'[c].handle = h /\ cq'[c].owner = ProcOf[t] /\ cq'[c].out = 0
    BY <2>1, <2>2 DEF Only, Becomes, Queued
  <2>4. /\ cq[c].st = "none" /\ c \notin owned /\ \A u \in Threads : thr[u].cq # c
        /\ NULL \notin Cqs /\ ProcOf[t] \in Procs /\ ProcOf' = ProcOf /\ owned \subseteq Cqs
    <3>1. ProcOf' = ProcOf
      BY SMT DEF ProcOf
    <3> QED
      BY <2>2, <3>1, Typing DEF Fresh, Inv, TypeOK
  <2>5. \A d \in Cqs : cq[d].st = "none" \/ cq[d].st = "live"
    BY <2>1, NoneDying
  <2>6. /\ \A d \in Cqs : d # c => (Exists(d)' <=> Exists(d)) /\ (Creating(d)' <=> Creating(d))
        /\ Exists(c)' /\ Creating(c)'
    <3>1. \A d \in Cqs : d # c => (Exists(d)' <=> Exists(d))
      BY <2>3 DEF Exists
    <3>2. \A d \in Cqs : d # c => (Creating(d)' <=> Creating(d))
      BY <2>1, <2>3, <2>4 DEF Creating
    <3>3. Exists(c)' /\ Creating(c)'
      BY SMT, <2>3 DEF Exists, Creating
    <3> QED
      BY <3>1, <3>2, <3>3
  <2>7. Handle'
    <3>1. \A d \in Cqs : IF Exists(d)' THEN cq'[d].handle \in Handles /\ cq'[d].owner \in Procs ELSE cq'[d].out = 0
      <4>1. ASSUME NEW d \in Cqs, d # c
            PROVE  IF Exists(d)' THEN cq'[d].handle \in Handles /\ cq'[d].owner \in Procs ELSE cq'[d].out = 0
        <5>1. IF Exists(d) THEN cq[d].handle \in Handles /\ cq[d].owner \in Procs ELSE cq[d].out = 0
          BY <4>1 DEF Inv, CqInv, Handle
        <5>2. Exists(d)' <=> Exists(d)
          BY <2>6, <4>1
        <5>3. cq'[d] = cq[d]
          BY <2>3, <4>1
        <5> QED
          BY <5>1, <5>2, <5>3
      <4> QED
        BY <2>3, <2>4, <2>6, <4>1
    <3>2. \A d \in Cqs : d # c /\ Exists(d) => cq[d].handle # h
      BY <2>2, <2>5 DEF Exists
    <3>3. \A d, e \in Cqs : Exists(d)' /\ Exists(e)' /\ cq'[d].handle = cq'[e].handle => d = e
      <4>1. ASSUME NEW d \in Cqs, Exists(d)', d # c PROVE Exists(d) /\ cq'[d].handle = cq[d].handle /\ cq[d].handle # h
        BY <2>3, <2>6, <3>2, <4>1
      <4>2. ASSUME NEW d \in Cqs, NEW e \in Cqs, Exists(d)', Exists(e)', cq'[d].handle = cq'[e].handle, d # e
            PROVE  FALSE
        <5>1. d # c
          BY <2>3, <4>1, <4>2
        <5>2. e # c
          BY <2>3, <4>1, <4>2
        <5> QED
          BY <4>1, <4>2, <5>1, <5>2, HandleFacts
      <4> QED
        BY <4>2
    <3>4. \A g \in Handles : cq_map[g] # NULL => cq_map[g] \in Cqs /\ cq_map[g] # c
      <4>1. \A g \in Handles : cq_map[g] # NULL => cq_map[g] \in Cqs /\ cq[cq_map[g]].st = "live"
        BY HandleFacts
      <4>2. "live" # "none"
        BY SMT
      <4> QED
        BY <2>4, <4>1, <4>2
    <3>5. \A g \in Handles : cq_map[g] # NULL => cq'[cq_map[g]].st = "live" /\ cq'[cq_map[g]].handle = g
      BY <2>3, <3>4 DEF Inv, CqInv, Handle
    <3> QED
      BY <2>1, <3>1, <3>3, <3>5 DEF Handle
  <2>8. Owned'
    BY <2>1, <2>3, <2>4 DEF Inv, CqInv, Owned
  <2>9. Dying'
    BY <2>3, <2>5 DEF Dying
  <2>10. Waiting'
    <3>1. \A d \in Cqs : cq[d].st = "live" /\ ~Creating(d) =>
            cq'[d].st = "live" /\ cq'[d].owner = cq[d].owner /\ ~Creating(d)'
      BY <2>3, <2>4, <2>6
    <3> QED
      BY <2>1, <3>1, SameEvents, WaitingKept
  <2>11. Entry'
    BY <2>1, <2>2, <2>3, <2>6 DEF Inv, CqInv, Entry
  <2>12. Late'
    <3>1. ~(0 > 0)
      BY SMT
    <3> QED
      BY <2>1, <2>2, <2>3, <3>1 DEF Inv, CqInv, Late
  <2>13. Apart'
    <3>1. ASSUME NEW u \in Threads, NEW v \in Threads, {thr'[u].op, thr'[v].op} \subseteq {"create", "destroy"},
                 thr'[u].cq = thr'[v].cq, u # v
          PROVE  thr'[u].cq = NULL
      <4>1. u # t /\ v # t
        BY <2>3, <2>4, <3>1
      <4>2. thr'[u] = thr[u] /\ thr'[v] = thr[v]
        BY <2>3, <4>1
      <4>3. {thr[u].op, thr[v].op} \subseteq {"create", "destroy"} /\ thr[u].cq = thr[v].cq
        BY <3>1, <4>2
      <4> QED
        BY <3>1, <4>2, <4>3 DEF Inv, CqInv, Apart
    <3> QED
      BY <3>1 DEF Apart
  <2>14. ASSUME NEW u \in Threads PROVE Call(u)'
    <3>1. CASE u = t
      BY <2>1, <2>3, <2>4, <3>1 DEF Call, Create, Mine
    <3>2. CASE u # t
      <4>1. thr'[u] = thr[u] /\ thr[u].cq # c /\ (thr[u].op = "notify" => thr[u].cq \in owned')
        BY <2>1, <2>3, <2>4, <3>2, OtherCalls
      <4>2. thr[u].cq \in Cqs =>
              /\ cq'[thr[u].cq] = cq[thr[u].cq]
              /\ thr[u].cq \in late => thr[u].cq \in late'
              /\ thr[u].cq \in overtaken => thr[u].cq \in overtaken'
        BY <2>2, <2>3, <4>1
      <4> QED
        BY <2>1, <4>1, <4>2, CallKept
    <3> QED
      BY <3>1, <3>2
  <2> QED
    BY <2>7, <2>8, <2>9, <2>10, <2>11, <2>12, <2>13, <2>14 DEF CqInv
<1>1. /\ Only(t) /\ thr[t].op = "create" /\ thr'[t].op = "create"
      /\ UNCHANGED <<channel_map, open, fd, cut, held>>
  BY <1>f DEF Becomes, router, client, app
<1>2. ChannelInv'
  BY <1>1, ChannelKept DEF Using
<1>3. \A d \in Cqs : cq'[d].out = cq[d].out
  <2>1. ASSUME NEW c \in Cqs, Fresh(c) PROVE cq[c].out = 0
    <3>1. ~Exists(c)
      BY <2>1 DEF Fresh, Exists
    <3> QED
      BY <3>1, HandleFacts
  <2> QED
    BY <2>1, <1>f DEF Queued
<1>4. Counted'
  BY <1>1, <1>3, CountedKept
<1>5. CqInv'
  BY <1>h, <1>q
<1> QED
  BY <1>2, <1>4, <1>5, <1>t DEF Inv

(* A queue of which no event is handed out has none held, and none on its  *)
(* way to or from an application.                                          *)
LEMMA NoneOut ==
  ASSUME Counting, TypeOK, Counted, NEW c \in Cqs
  PROVE  /\ cq[c].out = 0 => held[c] = 0 /\ InFlight(c) = {} /\ Acks(c) = {}
         /\ cq[c].out > 0 => held[c] > 0 \/ InFlight(c) # {} \/ Acks(c) # {}
         /\ Cardinality(InFlight(c)) \in Nat /\ Cardinality(Acks(c)) \in Nat
<1>1. IsFiniteSet(InFlight(c)) /\ IsFiniteSet(Acks(c))
  BY CompChannelAssumption DEF InFlight, Counted, Counting
<1>2. /\ Cardinality(InFlight(c)) \in Nat /\ Cardinality(Acks(c)) \in Nat
      /\ Cardinality(InFlight(c)) = 0 <=> InFlight(c) = {}
      /\ Cardinality(Acks(c)) = 0 <=> Acks(c) = {}
  BY <1>1 DEF Counting
<1>3. cq[c].out = held[c] + Cardinality(InFlight(c)) + Cardinality(Acks(c))
  BY SMT DEF Counted, OneAckPerGet
<1>4. held[c] \in Nat
  BY SMT DEF TypeOK
<1> DEFINE f == Cardinality(InFlight(c))
           a == Cardinality(Acks(c))
<1>5. f \in Nat /\ a \in Nat /\ cq[c].out = held[c] + f + a
  BY <1>2, <1>3
<1> HIDE DEF f, a
<1>6. /\ cq[c].out = 0 => held[c] = 0 /\ f = 0 /\ a = 0
      /\ cq[c].out > 0 => held[c] > 0 \/ f # 0 \/ a # 0
  BY SMT, <1>4, <1>5
<1> QED
  BY <1>2, <1>6 DEF f, a

LEMMA DestroyFindInv ==
  ASSUME Counting, Inv, UNCHANGED use, NEW t \in Threads, DestroyFind(t)
  PROVE  Inv'
<1>f. /\ Only(t) /\ thr[t].op = "destroy" /\ thr[t].pc = "find"
      /\ cq_map' = [cq_map EXCEPT ![thr[t].handle] = NULL]
      /\ Becomes(t, "destroy", "verb", thr[t].cq, thr[t].handle)
      /\ late' = IF held[thr[t].cq] > 0 \/ InFlight(thr[t].cq) \cup Acking(thr[t].cq) # {}
                 THEN late \cup {thr[t].cq} ELSE late
      /\ UNCHANGED <<channel_map, rctx, kernel, client, app, cut, overtaken>>
  <2>1. thr[t].op = "destroy" /\ thr[t].pc = "find"
    BY DEF DestroyFind
  <2>2. cq_map[thr[t].handle] # NULL
    BY SMT, <2>1, Typing DEF Call, Destroy
  <2>3. Only(t) /\ Becomes(t, thr[t].op, "verb", thr[t].cq, thr[t].handle)
    BY SMT, <2>2, GotoFacts DEF DestroyFind, Inv, Pcs
  <2> QED
    BY <2>1, <2>2, <2>3 DEF DestroyFind
<1>t. TypeOK'
  <2>1. cq_map' = [cq_map EXCEPT ![thr[t].handle] = NULL] /\ late' \subseteq late \cup {thr[t].cq} /\ thr[t].cq \in Cqs
    BY <1>f, Typing DEF Call, Destroy
  <2>2. cq_map' \in [Handles -> Cqs \cup {NULL}]
    BY <2>1, Updated DEF Inv, TypeOK
  <2>3. late' \subseteq Cqs
    BY <2>1 DEF Inv, TypeOK
  <2> QED
    BY <2>2, <2>3, <1>f DEF Inv, TypeOK, Only, router, kernel, flags, client, app, history
<1>q. CqInv'
  <2>1. PICK c \in Cqs, h \in Handles :
          /\ c = thr[t].cq /\ h = thr[t].handle /\ Only(t) /\ thr[t].op = "destroy" /\ thr[t].pc = "find" /\ Mine(t)
          /\ cq[c].st = "live" /\ c \notin owned /\ cq_map[h] = c
    <3>1. Only(t) /\ thr[t].op = "destroy" /\ thr[t].pc = "find"
      BY <1>f
    <3>2. Destroy(t)
      BY <3>1, Typing DEF Call
    <3>3. Mine(t) /\ cq[thr[t].cq].st = "live" /\ cq_map[thr[t].handle] = thr[t].cq
      BY SMT, <3>1, <3>2 DEF Destroy
    <3> QED
      BY <3>1, <3>2, <3>3 DEF Destroy
  <2>2. /\ \A u \in Threads : u # t => thr'[u] = thr[u]
        /\ thr'[t].op = "destroy" /\ thr'[t].pc = "verb" /\ thr'[t].cq = c /\ thr'[t].handle = h
        /\ cq_map' = [cq_map EXCEPT ![h] = NULL]
        /\ late' = IF held[c] > 0 \/ InFlight(c) \cup Acking(c) # {} THEN late \cup {c} ELSE late
        /\ UNCHANGED <<rctx, cq, events, client_map, owned, cut, overtaken>>
    BY <2>1, <1>f DEF Only, Becomes, kernel, client, app
  <2>3. /\ late \subseteq late'
        /\ held[c] > 0 \/ InFlight(c) # {} \/ Acking(c) # {} => c \in late'
    BY <2>2
  <2>4. /\ cq_map'[h] = NULL /\ \A g \in Handles : g # h => cq_map'[g] = cq_map[g]
    BY SMT, <2>2 DEF Inv, TypeOK
  <2>5. cq[c].handle = h /\ NULL \notin Cqs /\ ProcOf' = ProcOf
    <3>1. ProcOf' = ProcOf
      BY SMT DEF ProcOf
    <3> QED
      BY <2>1, <3>1, Typing DEF Mine
  <2>6. \A d \in Cqs : d # c /\ Exists(d) => cq[d].handle \in Handles /\ cq[d].handle # h
    <3>1. Exists(c)
      BY SMT, <2>1 DEF Exists
    <3> QED
      BY <2>5, <3>1, HandleFacts
  <2>7. \A d \in Cqs : (Creating(d)' <=> Creating(d)) /\ (Exists(d)' <=> Exists(d))
    <3>1. \A d \in Cqs : Creating(d)' <=> Creating(d)
      BY <2>1, <2>2 DEF Creating
    <3> QED
      BY <2>2, <3>1 DEF Exists
  <2>8. Handle'
    <3>1. \A g \in Handles : cq_map'[g] # NULL => cq[cq_map'[g]].st = "live" /\ cq[cq_map'[g]].handle = g
      BY <2>4, HandleFacts
    <3> QED
      BY <2>2, <2>7, <3>1 DEF Inv, CqInv, Handle
  <2>9. Owned'
    <3>1. \A d \in owned : d \in Cqs /\ d # c /\ cq[d].st = "live" /\ cq_map[cq[d].handle] = d
      BY <2>1 DEF Inv, TypeOK, CqInv, Owned
    <3>2. \A d \in owned : Exists(d)
      BY SMT, <3>1 DEF Exists
    <3>3. \A d \in owned : cq_map'[cq[d].handle] = d
      BY <2>4, <2>6, <3>1, <3>2
    <3> QED
      BY <2>2, <3>1, <3>3 DEF Owned
  <2>10. Dying'
    <3>1. thr[t].pc # "wait"
      BY SMT, <2>1
    <3> QED
      BY <2>1, <2>2, <3>1, DyingKept
  <2>11. Waiting'
    BY <2>2, <2>7, SameEvents, WaitingKept
  <2>12. Entry'
    BY <2>2, <2>7 DEF Inv, CqInv, Entry
  <2>13. Late'
    <3>1. cq[c].out > 0 => c \in late'
      <4>1. Acks(c) # {} => Acking(c) # {}
        BY SMT DEF Acks
      <4> QED
        BY <2>3, <4>1, NoneOut DEF Inv
    <3>2. ASSUME NEW d \in Cqs, d # c, cq[d].out > 0, d \notin late PROVE cq_map'[cq[d].handle] = d
      <4>1. Exists(d)
        <5>1. cq[d].out # 0
          BY SMT, <3>2
        <5> QED
          BY <5>1, HandleFacts
      <4>2. cq_map[cq[d].handle] = d
        BY <3>2 DEF Inv, CqInv, Late
      <4> QED
        BY <2>4, <2>6, <3>2, <4>1, <4>2
    <3> QED
      BY <2>2, <2>3, <3>1, <3>2 DEF Late
  <2>14. Apart'
    BY <2>1, <2>2, ApartKept
  <2>15. ASSUME NEW u \in Threads PROVE Call(u)'
    <3>1. CASE u = t
      <4>1. Destroy(t)'
        BY <2>1, <2>2, <2>4, <2>5 DEF Destroy, Mine
      <4>2. thr'[t].pc # "idle" /\ thr'[t].pc # "hung"
        BY SMT, <2>2
      <4> QED
        BY <2>2, <3>1, <4>1, <4>2 DEF Call
    <3>2. CASE u # t
      <4>1. thr'[u] = thr[u] /\ (thr[u].op = "notify" => thr[u].cq \in owned')
        BY <2>2, <3>2, OtherCalls
      <4>2. ASSUME thr[u].op \in {"create", "destroy"}, thr[u].cq \in Cqs
            PROVE  cq_map'[thr[u].handle] = thr[u].cq <=> cq_map[thr[u].handle] = thr[u].cq
        <5>1. thr[u].cq # c /\ thr[u].cq # NULL /\ thr[u].handle \in Handles
          BY <2>1, <2>5, <3>2, <4>2, OthersApart, OtherCalls
        <5> QED
          BY <2>1, <2>4, <5>1
      <4> QED
        BY <2>2, <2>3, <4>1, <4>2, CallKept
    <3> QED
      BY <3>1, <3>2
  <2> QED
    BY <2>8, <2>9, <2>10, <2>11, <2>12, <2>13, <2>14, <2>15 DEF CqInv
<1>1. /\ Only(t) /\ thr[t].op = "destroy" /\ thr'[t].op = "destroy"
      /\ UNCHANGED <<channel_map, open, fd, cut, cq, held>>
  BY <1>f DEF Becomes, router, kernel, client, app, history
<1>2. ChannelInv'
  BY <1>1, ChannelKept DEF Using
<1>3. Counted'
  BY <1>1, CountedKept
<1> QED
  BY <1>2, <1>3, <1>t, <1>q DEF Inv

(* An event on its way, or its acknowledgement, keeps the queue there.     *)
LEMMA OutExists ==
  ASSUME Counting, Inv, NEW c \in Cqs, held[c] # 0 \/ InFlight(c) # {} \/ Acks(c) # {}
  PROVE  Exists(c) /\ cq[c].out # 0
<1>1. cq[c].out # 0
  BY NoneOut DEF Inv
<1> QED
  BY <1>1 DEF Inv, CqInv, Handle

LEMMA GetExists ==
  ASSUME Counting, Inv, NEW t \in Threads, thr[t].op = "get", thr[t].cq \in Cqs
  PROVE  Exists(thr[t].cq) /\ cq[thr[t].cq].out # 0
<1>1. InFlight(thr[t].cq) # {}
  BY DEF InFlight
<1> QED
  BY <1>1, OutExists

LEMMA AckExists ==
  ASSUME Counting, Inv, NEW t \in Threads, thr[t].op = "ack"
  PROVE  /\ thr[t].cq \in Cqs /\ Exists(thr[t].cq) /\ cq[thr[t].cq].out # 0
         /\ thr[t].handle \in Handles /\ thr[t].n \in Nat
         /\ {t} \X (1..thr[t].n) \in SUBSET Acks(thr[t].cq)
<1>1. /\ thr[t].cq \in Cqs /\ thr[t].handle = cq[thr[t].cq].handle /\ thr[t].n > 0 /\ thr[t].n \in Nat
  BY Typing DEF Call, Ack
<1>2. {t} \X (1..thr[t].n) \in SUBSET Acks(thr[t].cq)
  BY DEF Acks, Acking
<1>3. 1 \in 1..thr[t].n
  BY SMT, <1>1
<1>4. <<t, 1>> \in {t} \X (1..thr[t].n)
  BY SMT, <1>3
<1>a. Acks(thr[t].cq) # {}
  BY <1>2, <1>4
<1>5. Exists(thr[t].cq) /\ cq[thr[t].cq].out # 0
  BY <1>1, <1>a, OutExists
<1> QED
  BY <1>1, <1>2, <1>5 DEF Inv, CqInv, Handle

LEMMA DestroyWaitInv ==
  ASSUME Counting, Inv, UNCHANGED use, NEW t \in Threads, DestroyWait(t)
  PROVE  Inv'
<1>f. /\ Only(t) /\ thr[t].op = "destroy" /\ thr[t].pc = "wait" /\ rctx' = NULL
      /\ thr[t].cq \in Cqs /\ Becomes(t, "destroy", "unlock", thr[t].cq, thr[t].handle)
      /\ cq[thr[t].cq].out = 0 /\ Queued(thr[t].cq, "none", NULL, NULL, 0)
      /\ UNCHANGED <<channel_map, cq_map, open, events, flags, client, app, history>>
  <2>1. thr[t].op = "destroy" /\ thr[t].pc = "wait"
    BY DEF DestroyWait
  <2>2. thr[t].cq \in Cqs
    BY <2>1, Typing DEF Call, Destroy
  <2>3. Only(t) /\ Becomes(t, thr[t].op, "unlock", thr[t].cq, thr[t].handle)
    BY SMT, GotoFacts DEF DestroyWait, Inv, Pcs
  <2>4. cq' = [cq EXCEPT ![thr[t].cq] = [st |-> "none", handle |-> NULL, out |-> 0, owner |-> NULL]]
    BY SMT DEF DestroyWait, NoCq
  <2>5. Queued(thr[t].cq, "none", NULL, NULL, 0)
    BY <2>2, <2>4, QueueFacts DEF Inv
  <2> QED
    BY <2>1, <2>2, <2>3, <2>5 DEF DestroyWait
<1>t. TypeOK'
  <2>1. rctx' \in Threads \cup {NULL}
    BY <1>f DEF Queued, Inv, TypeOK
  <2>2. cq' \in [Cqs -> Queues]
    BY <1>f DEF Queued, Inv, TypeOK
  <2> QED
    BY <2>1, <2>2, <1>f DEF Inv, TypeOK, Only, router, kernel, flags, client, app, history
<1>q. CqInv'
  <2>1. PICK c \in Cqs :
          /\ c = thr[t].cq /\ Only(t) /\ thr[t].op = "destroy" /\ thr[t].pc = "wait"
          /\ cq[c].st = "dying" /\ c \notin owned /\ rctx = t /\ rctx' = NULL /\ thr[t].handle \in Handles
    <3>1. Only(t) /\ thr[t].op = "destroy" /\ thr[t].pc = "wait" /\ rctx' = NULL
      BY <1>f
    <3>2. Destroy(t)
      BY <3>1, Typing DEF Call
    <3>3. cq[thr[t].cq].st = "dying" /\ rctx = t
      BY SMT, <3>1, <3>2 DEF Destroy
    <3> QED
      BY <3>1, <3>2, <3>3 DEF Destroy
  <2>2. /\ \A u \in Threads : u # t => thr'[u] = thr[u]
        /\ thr'[t].op = "destroy" /\ thr'[t].pc = "unlock" /\ thr'[t].cq = c /\ thr'[t].handle = thr[t].handle
        /\ \A d \in Cqs : d # c => cq'[d] = cq[d]
        /\ cq'[c].st = "none" /\ cq'[c].out = 0 /\ cq[c].out = 0
        /\ UNCHANGED <<cq_map, events, client_map, owned, cut, late, overtaken>>
    BY <2>1, <1>f DEF Only, Becomes, Queued, client, app, history
  <2>3. \A d \in Cqs : cq[d].st = "live" => d # c
    <3>1. cq[c].st # "live"
      BY SMT, <2>1
    <3> QED
      BY <3>1
  <2>4. /\ ~Exists(c)' /\ \A d \in Cqs : d # c => (Exists(d)' <=> Exists(d))
        /\ \A d \in Cqs : Creating(d)' <=> Creating(d)
    <3>1. \A d \in Cqs : Creating(d)' <=> Creating(d)
      BY <2>1, <2>2 DEF Creating
    <3> QED
      BY <2>2, <3>1 DEF Exists
  <2>5. Handle'
    <3>1. ASSUME NEW g \in Handles, cq_map[g] # NULL
          PROVE  cq'[cq_map[g]].st = "live" /\ cq'[cq_map[g]].handle = g
      <4>1. cq_map[g] \in Cqs /\ cq[cq_map[g]].st = "live" /\ cq[cq_map[g]].handle = g
        BY <3>1, HandleFacts
      <4> QED
        BY <2>2, <2>3, <4>1
    <3>2. ASSUME NEW d \in Cqs
          PROVE  IF Exists(d)' THEN cq'[d].handle \in Handles /\ cq'[d].owner \in Procs ELSE cq'[d].out = 0
      <4>1. IF Exists(d) THEN cq[d].handle \in Handles /\ cq[d].owner \in Procs ELSE cq[d].out = 0
        BY DEF Inv, CqInv, Handle
      <4>2. CASE d = c
        BY <2>2, <2>4, <4>2
      <4>3. CASE d # c
        BY <2>2, <2>4, <4>1, <4>3
      <4> QED
        BY <4>2, <4>3
    <3>3. ASSUME NEW d \in Cqs, NEW e \in Cqs, Exists(d)', Exists(e)', cq'[d].handle = cq'[e].handle
          PROVE  d = e
      <4>1. d # c /\ e # c
        BY <2>4, <3>3
      <4>2. Exists(d) /\ Exists(e) /\ cq[d].handle = cq[e].handle
        BY <2>2, <2>4, <3>3, <4>1
      <4> QED
        BY <4>2, HandleFacts
    <3> QED
      BY <2>2, <3>1, <3>2, <3>3 DEF Handle
  <2>6. Owned'
    <3>1. \A d \in owned : cq[d].st = "live" /\ cq_map[cq[d].handle] = d /\ d \in Cqs
      BY DEF Inv, TypeOK, CqInv, Owned
    <3>2. \A d \in owned : cq'[d] = cq[d]
      BY <2>2, <2>3, <3>1
    <3> QED
      BY <2>2, <3>1, <3>2 DEF Owned
  <2>7. Dying'
    <3>1. ASSUME NEW d \in Cqs, cq'[d].st = "dying" PROVE FALSE
      <4>1. d # c
        BY SMT, <2>2, <3>1
      <4>2. cq[d].st = "dying"
        BY <2>2, <3>1, <4>1
      <4>3. \E u \in Threads : rctx = u /\ thr[u].cq = d
        BY <4>2 DEF Inv, CqInv, Dying
      <4> QED
        BY <2>1, <4>1, <4>3
    <3> QED
      BY <3>1 DEF Dying
  <2>8. Waiting'
    <3>1. \A d \in Cqs : cq[d].st = "live" /\ ~Creating(d) =>
            cq'[d].st = "live" /\ cq'[d].owner = cq[d].owner /\ ~Creating(d)'
      BY <2>2, <2>3, <2>4
    <3> QED
      BY <2>2, <3>1, SameEvents, WaitingKept
  <2>9. Entry'
    <3>1. ASSUME NEW d \in Cqs, Exists(d)', ~Creating(d)'
          PROVE  Exists(d) /\ ~Creating(d) /\ cq'[d] = cq[d]
      BY <2>2, <2>4, <3>1
    <3> QED
      BY <2>2, <3>1 DEF Inv, CqInv, Entry
  <2>10. Late'
    <3>1. ASSUME NEW d \in Cqs, cq'[d].out > 0 PROVE cq'[d] = cq[d]
      <4>1. d # c
        BY SMT, <2>2, <3>1
      <4> QED
        BY <2>2, <4>1
    <3> QED
      BY <2>2, <3>1 DEF Inv, CqInv, Late
  <2>11. Apart'
    BY <2>1, <2>2, ApartKept
  <2>12. ASSUME NEW u \in Threads PROVE Call(u)'
    <3>1. CASE u = t
      <4>1. Destroy(t)'
        BY <2>1, <2>2, <2>4 DEF Destroy
      <4>2. thr'[t].pc # "idle"
        BY SMT, <2>2
      <4> QED
        BY <2>2, <3>1, <4>1, <4>2 DEF Call
    <3>2. CASE u # t
      <4>1. thr'[u] = thr[u] /\ (thr[u].op = "notify" => thr[u].cq \in owned') /\ rctx # u
        BY <2>1, <2>2, <3>2, OtherCalls
      <4>2. ASSUME thr[u].op \in {"create", "destroy", "notify", "get", "ack"}, thr[u].cq \in Cqs
            PROVE  cq'[thr[u].cq] = cq[thr[u].cq]
        <5>1. thr[u].op \in {"create", "destroy"} => thr[u].cq # c
          BY <2>1, <3>2, OthersApart
        <5>2. thr[u].op = "notify" => thr[u].cq # c
          BY <2>1, OtherCalls
        <5>3. thr[u].op \in {"get", "ack"} => thr[u].cq # c
          BY <2>2, <4>2, GetExists, AckExists
        <5> QED
          BY <2>2, <4>2, <5>1, <5>2, <5>3
      <4> QED
        BY <2>2, <4>1, <4>2, CallKept
    <3> QED
      BY <3>1, <3>2
  <2> QED
    BY <2>5, <2>6, <2>7, <2>8, <2>9, <2>10, <2>11, <2>12 DEF CqInv
<1>1. /\ Only(t) /\ thr[t].op = "destroy" /\ thr'[t].op = "destroy"
      /\ UNCHANGED <<channel_map, open, fd, cut, held>>
  BY <1>f DEF Becomes, router, kernel, client, app, history
<1>2. ChannelInv'
  BY <1>1, ChannelKept DEF Using
<1>3. \A d \in Cqs : cq'[d].out = cq[d].out
  BY <1>f DEF Queued
<1>4. Counted'
  BY <1>1, <1>3, CountedKept
<1> QED
  BY <1>2, <1>4, <1>t, <1>q DEF Inv

LEMMA WithoutKeeps ==
  ASSUME Counting, NEW s \in Seq(Cqs), NEW c \in Cqs
  PROVE  Shortened(s, c)
BY DEF Counting

LEMMA DyingFacts ==
  ASSUME TypeOK, NEW c \in Cqs, cq' = [cq EXCEPT ![c].st = "dying"]
  PROVE  Queued(c, "dying", cq[c].handle, cq[c].owner, cq[c].out)
BY DEF TypeOK, Queues, Queued

LEMMA DestroyVerbInv ==
  ASSUME Counting, Inv, UNCHANGED use, NEW t \in Threads, DestroyVerb(t)
  PROVE  Inv'
<1>f. /\ Only(t) /\ thr[t].op = "destroy" /\ thr[t].pc = "verb" /\ rctx = NULL /\ rctx' = t
      /\ thr[t].cq \in Cqs /\ Becomes(t, "destroy", "wait", thr[t].cq, thr[t].handle)
      /\ Queued(thr[t].cq, "dying", cq[thr[t].cq].handle, cq[thr[t].cq].owner, cq[thr[t].cq].out)
      /\ armed' = armed \ {thr[t].cq} /\ pending' = pending \ {thr[t].cq}
      /\ events' = [p \in Procs |-> Without(events[p], thr[t].cq)]
      /\ UNCHANGED <<channel_map, cq_map, open, client, app, history>>
  <2>1. thr[t].op = "destroy" /\ thr[t].pc = "verb"
    BY DEF DestroyVerb
  <2>2. thr[t].cq \in Cqs
    BY <2>1, Typing DEF Call, Destroy
  <2>3. Only(t) /\ Becomes(t, thr[t].op, "wait", thr[t].cq, thr[t].handle)
    BY SMT, GotoFacts DEF DestroyVerb, Inv, Pcs
  <2>4. Queued(thr[t].cq, "dying", cq[thr[t].cq].handle, cq[thr[t].cq].owner, cq[thr[t].cq].out)
    BY <2>2, DyingFacts DEF DestroyVerb, Inv
  <2> QED
    BY <2>1, <2>2, <2>3, <2>4 DEF DestroyVerb
<1>t. TypeOK'
  <2>1. \A p \in Procs : events[p] \in Seq(Cqs) /\ Len(events[p]) <= MaxEvents /\ Len(events[p]) \in Nat
    BY SMT DEF Inv, TypeOK
  <2>2. \A p \in Procs : /\ Without(events[p], thr[t].cq) \in Seq(Cqs)
                         /\ Len(Without(events[p], thr[t].cq)) \in Nat
                         /\ Len(Without(events[p], thr[t].cq)) <= Len(events[p])
    <3>1. \A p \in Procs : Shortened(events[p], thr[t].cq)
      BY <1>f, <2>1, WithoutKeeps
    <3>2. \A s \in Seq(Cqs) : Len(s) \in Nat
      BY SMT
    <3> QED
      BY <3>1, <3>2 DEF Shortened
  <2>3. \A p \in Procs : Len(Without(events[p], thr[t].cq)) <= MaxEvents
    BY SMT, <2>1, <2>2, CompChannelAssumption
  <2>4. events' \in [Procs -> Seq(Cqs)] /\ \A p \in Procs : Len(events'[p]) <= MaxEvents
    BY <2>2, <2>3, <1>f
  <2>5. rctx' \in Threads \cup {NULL} /\ cq' \in [Cqs -> Queues] /\ armed' \subseteq Cqs /\ pending' \subseteq Cqs
    BY <1>f DEF Inv, TypeOK, Queued
  <2> QED
    BY <2>4, <2>5, <1>f DEF Inv, TypeOK, Only, router, kernel, flags, client, app, history
<1>q. CqInv'
  <2>1. PICK c \in Cqs, h \in Handles :
          /\ c = thr[t].cq /\ h = thr[t].handle /\ Only(t) /\ thr[t].op = "destroy" /\ thr[t].pc = "verb" /\ Mine(t)
          /\ cq[c].st = "live" /\ c \notin owned /\ cq_map[h] # c /\ rctx = NULL /\ rctx' = t
    <3>1. Only(t) /\ thr[t].op = "destroy" /\ thr[t].pc = "verb" /\ rctx = NULL /\ rctx' = t
      BY <1>f
    <3>2. Destroy(t)
      BY <3>1, Typing DEF Call
    <3>3. Mine(t) /\ cq[thr[t].cq].st = "live" /\ cq_map[thr[t].handle] # thr[t].cq
      BY SMT, <3>1, <3>2 DEF Destroy
    <3> QED
      BY <3>1, <3>2, <3>3 DEF Destroy
  <2>2. /\ \A u \in Threads : u # t => thr'[u] = thr[u]
        /\ thr'[t].op = "destroy" /\ thr'[t].pc = "wait" /\ thr'[t].cq = c /\ thr'[t].handle = h
        /\ \A d \in Cqs : d # c => cq'[d] = cq[d]
        /\ cq'[c].st = "dying" /\ cq'[c].handle = cq[c].handle /\ cq'[c].owner = cq[c].owner /\ cq'[c].out = cq[c].out
        /\ events' = [p \in Procs |-> Without(events[p], c)]
        /\ UNCHANGED <<cq_map, client_map, owned, cut, late, overtaken>>
    BY <2>1, <1>f DEF Only, Becomes, Queued, client, app, history
  <2>3. cq[c].handle = h /\ NULL \notin Cqs /\ ProcOf' = ProcOf
    <3>1. ProcOf' = ProcOf
      BY SMT DEF ProcOf
    <3> QED
      BY <2>1, <3>1, Typing DEF Mine
  <2>4. \A d \in Cqs : (Creating(d)' <=> Creating(d)) /\ (Exists(d)' <=> Exists(d))
    <3>1. \A d \in Cqs : Creating(d)' <=> Creating(d)
      BY <2>1, <2>2 DEF Creating
    <3>2. Exists(c) /\ Exists(c)'
      BY SMT, <2>1, <2>2 DEF Exists
    <3>3. \A d \in Cqs : d # c => (Exists(d)' <=> Exists(d))
      BY <2>2 DEF Exists
    <3> QED
      BY <3>1, <3>2, <3>3
  <2>5. \A d \in Cqs : cq'[d].handle = cq[d].handle /\ cq'[d].owner = cq[d].owner /\ cq'[d].out = cq[d].out
    BY <2>2
  <2>6. Handle'
    <3>1. ASSUME NEW g \in Handles, cq_map[g] # NULL
          PROVE  cq'[cq_map[g]].st = "live" /\ cq'[cq_map[g]].handle = g
      <4>1. cq_map[g] \in Cqs /\ cq[cq_map[g]].st = "live" /\ cq[cq_map[g]].handle = g
        BY <3>1, HandleFacts
      <4>2. cq_map[g] # c
        BY <2>1, <2>3, <4>1
      <4> QED
        BY <2>2, <4>1, <4>2
    <3>2. ASSUME NEW d \in Cqs
          PROVE  IF Exists(d)' THEN cq'[d].handle \in Handles /\ cq'[d].owner \in Procs ELSE cq'[d].out = 0
      <4>1. IF Exists(d) THEN cq[d].handle \in Handles /\ cq[d].owner \in Procs ELSE cq[d].out = 0
        BY DEF Inv, CqInv, Handle
      <4> QED
        BY <2>4, <2>5, <4>1
    <3>3. \A d, e \in Cqs : Exists(d)' /\ Exists(e)' /\ cq'[d].handle = cq'[e].handle => d = e
      BY <2>4, <2>5, HandleFacts
    <3> QED
      BY <2>2, <3>1, <3>2, <3>3 DEF Handle
  <2>7. Owned'
    <3>1. \A d \in owned : cq'[d] = cq[d]
      BY <2>1, <2>2 DEF Inv, TypeOK
    <3>2. \A d \in owned : cq[d].st = "live" /\ cq_map[cq[d].handle] = d
      BY DEF Inv, CqInv, Owned
    <3> QED
      BY <2>2, <3>1, <3>2 DEF Owned
  <2>8. Dying'
    <3>1. t # NULL
      BY CompChannelAssumption
    <3>2. \A d \in Cqs : d # c => cq'[d].st # "dying"
      <4>1. \A d \in Cqs : cq[d].st # "dying"
        <5>1. \A d \in Cqs : cq[d].st = "none" \/ cq[d].st = "live"
          BY <2>1, NoneDying
        <5> QED
          BY SMT, <5>1
      <4> QED
        BY <2>2, <4>1
    <3> QED
      BY <2>1, <2>2, <3>1, <3>2 DEF Dying
  <2>9. Waiting'
    <3>1. ASSUME NEW p \in Procs, NEW k \in 1..Len(events'[p])
          PROVE  \E j \in 1..Len(events[p]) : events'[p][k] = events[p][j] /\ events[p][j] \in Cqs \ {c}
      <4>1. events[p] \in Seq(Cqs) /\ events'[p] = Without(events[p], c)
        BY <2>2 DEF Inv, TypeOK
      <4>2. \A i \in 1..Len(Without(events[p], c)) :
              \E j \in 1..Len(events[p]) : events[p][j] # c /\ Without(events[p], c)[i] = events[p][j]
        BY <4>1, WithoutKeeps DEF Shortened
      <4>4. \E j \in 1..Len(events[p]) : events[p][j] # c /\ events'[p][k] = events[p][j]
        BY <4>1, <4>2
      <4>3. \A j \in 1..Len(events[p]) : events[p][j] \in Cqs
        BY SMT, <4>1
      <4> QED
        BY <4>4, <4>3
    <3>2. \A d \in Cqs \ {c} : cq[d].st = "live" /\ ~Creating(d) =>
            cq'[d].st = "live" /\ cq'[d].owner = cq[d].owner /\ ~Creating(d)'
      BY <2>2, <2>4
    <3>3. Cqs \ {c} \in SUBSET Cqs
      BY SMT
    <3> QED
      BY <3>1, <3>2, <3>3, WaitingKept
  <2>10. Entry' /\ Late'
    BY <2>2, <2>4, <2>5 DEF Inv, CqInv, Entry, Late
  <2>11. Apart'
    BY <2>1, <2>2, ApartKept
  <2>12. ASSUME NEW u \in Threads PROVE Call(u)'
    <3>1. CASE u = t
      <4>1. Destroy(t)'
        BY <2>1, <2>2, <2>3 DEF Destroy, Mine
      <4>2. thr'[t].pc # "idle"
        BY SMT, <2>2
      <4> QED
        BY <2>2, <3>1, <4>1, <4>2 DEF Call
    <3>2. CASE u # t
      <4>1. thr'[u] = thr[u] /\ (thr[u].op = "notify" => thr[u].cq \in owned') /\ rctx # u
        BY <2>1, <2>2, <3>2, OtherCalls, CompChannelAssumption
      <4>2. thr[u].op \in {"create", "destroy"} /\ thr[u].cq \in Cqs => cq'[thr[u].cq].st = cq[thr[u].cq].st
        BY <2>1, <2>2, <3>2, OthersApart
      <4> QED
        BY <2>2, <2>5, <4>1, <4>2, CallKept
    <3> QED
      BY <3>1, <3>2
  <2> QED
    BY <2>6, <2>7, <2>8, <2>9, <2>10, <2>11, <2>12 DEF CqInv
<1>1. /\ Only(t) /\ thr[t].op = "destroy" /\ thr'[t].op = "destroy"
      /\ UNCHANGED <<channel_map, open, fd, cut, held>>
  BY <1>f DEF Becomes, router, kernel, client, app, history
<1>2. ChannelInv'
  BY <1>1, ChannelKept DEF Using
<1>3. \A d \in Cqs : cq'[d].out = cq[d].out
  BY <1>f DEF Queued
<1>4. Counted'
  BY <1>1, <1>3, CountedKept
<1> QED
  BY <1>2, <1>4, <1>t, <1>q DEF Inv

----------------------------------------------------------------------------
(* The steps that hand out and acknowledge events.                         *)

LEMMA OutFacts ==
  ASSUME TypeOK, NEW c \in Cqs, NEW n \in Nat, cq' = [cq EXCEPT ![c].out = n]
  PROVE  Queued(c, cq[c].st, cq[c].handle, cq[c].owner, n)
BY DEF TypeOK, Queues, Queued

LEMMA OneMoreThread ==
  ASSUME Counting, NEW S \in SUBSET Threads, NEW t \in Threads \ S
  PROVE  Cardinality(S) \in Nat /\ Cardinality(S \cup {t}) = Cardinality(S) + 1
<1>1. IsFiniteSet(S)
  BY CompChannelAssumption DEF Counting
<1> QED
  BY <1>1 DEF Counting

(* The event that ibv_get_cq_event takes is one of a queue of the caller's *)
(* process that is there.                                                  *)
LEMMA GetServeInv ==
  ASSUME Counting, Inv, UNCHANGED use, NEW t \in Threads, GetServe(t)
  PROVE  Inv'
<1>f. /\ Only(t) /\ thr[t].op = "get" /\ thr[t].pc = "serve" /\ thr[t].cq = NULL /\ thr'[t].op = "get"
      /\ \/ /\ thr'[t].pc = "hung" /\ thr'[t].cq = NULL /\ ProcOf[t] \in cut \cup NonBlocking
            /\ UNCHANGED <<cq, events, late>>
         \/ \E c \in Cqs :
              /\ events[ProcOf[t]] # <<>> /\ c = events[ProcOf[t]][1]
              /\ cq[c].st = "live" /\ cq[c].owner = ProcOf[t] /\ ~Creating(c)
              /\ thr'[t].pc = "gotten" /\ thr'[t].cq = c
              /\ Queued(c, cq[c].st, cq[c].handle, cq[c].owner, cq[c].out + 1)
              /\ events' = [events EXCEPT ![ProcOf[t]] = Tail(events[ProcOf[t]])]
              /\ late' = IF cq_map[cq[c].handle] = c THEN late ELSE late \cup {c}
      /\ UNCHANGED <<router, open, flags, client, app, cut, overtaken>>
  <2> DEFINE p == ProcOf[t]
             c == Head(events[p])
  <2>1. /\ thr[t].op = "get" /\ thr[t].pc = "serve"
        /\ UNCHANGED <<router, open, flags, client, app, cut, overtaken>>
    BY DEF GetServe
  <2>2. thr[t].cq = NULL /\ p \in Procs /\ thr[t].handle \in Handles \cup Fds \cup {NULL}
    BY SMT, <2>1, Typing DEF Call, Get
  <2>3. CASE /\ channel_map[fd[p]] = NULL \/ (p \in NonBlocking /\ events[p] = <<>>)
             /\ Hung(t) /\ UNCHANGED <<cq, events, late>>
    <3>1. p \in cut \cup NonBlocking
      BY SMT, <2>1, <2>3, CutOff DEF Using
    <3>2. Only(t) /\ thr'[t].op = "get" /\ thr'[t].pc = "hung" /\ thr'[t].cq = NULL
      BY SMT, <2>1, <2>2, <2>3, GotoFacts DEF Inv, Hung, Pcs, Becomes
    <3> QED
      BY <2>1, <2>2, <2>3, <3>1, <3>2
  <2>4. CASE /\ events[p] # <<>> /\ events' = [events EXCEPT ![p] = Tail(events[p])]
             /\ cq' = [cq EXCEPT ![c].out = cq[c].out + 1]
             /\ late' = IF cq_map[cq[c].handle] = c THEN late ELSE late \cup {c}
             /\ In(t, "get", "gotten", c, thr[t].handle)
    <3>0. events[p] \in Seq(Cqs)
      BY <2>2 DEF Inv, TypeOK
    <3>1. c \in Cqs /\ c = events[p][1] /\ 1 \in 1..Len(events[p])
      BY SMT, <2>4, <3>0
    <3>a. In(t, "get", "gotten", c, thr[t].handle)
      BY <2>4
    <3> HIDE DEF c
    <3>2. cq[c].st = "live" /\ cq[c].owner = p /\ ~Creating(c)
      BY <2>2, <3>1 DEF Inv, CqInv, Waiting
    <3>3. cq[c].out + 1 \in Nat
      BY SMT, <3>1 DEF Inv, TypeOK, Queues
    <3>4. Queued(c, cq[c].st, cq[c].handle, cq[c].owner, cq[c].out + 1)
      BY <2>4, <3>1, <3>3, OutFacts DEF Inv
    <3>5. Only(t) /\ thr'[t].op = "get" /\ thr'[t].pc = "gotten" /\ thr'[t].cq = c
      <4>1. "get" \in Ops /\ "gotten" \in Pcs
        BY SMT DEF Ops, Pcs
      <4> QED
        BY SMT, <2>2, <3>1, <3>a, <4>1, InFacts DEF Inv, Becomes
    <3> QED
      BY <2>1, <2>2, <2>4, <3>1, <3>2, <3>4, <3>5
  <2>5. CASE events[p] # <<>> /\ channel_map[fd[p]] # NULL
    <3>1. /\ events' = [events EXCEPT ![p] = Tail(events[p])]
          /\ cq' = [cq EXCEPT ![c].out = cq[c].out + 1]
      BY <2>5 DEF GetServe
    <3>2. /\ late' = IF cq_map[cq[c].handle] = c THEN late ELSE late \cup {c}
          /\ In(t, "get", "gotten", c, thr[t].handle)
      BY <2>5 DEF GetServe
    <3> QED
      BY <2>4, <2>5, <3>1, <3>2
  <2>6. CASE ~(events[p] # <<>> /\ channel_map[fd[p]] # NULL)
    <3>1. channel_map[fd[p]] = NULL \/ (p \in NonBlocking /\ events[p] = <<>>)
      BY <2>6 DEF GetServe
    <3>2. Hung(t) /\ UNCHANGED <<cq, events, late>>
      BY <2>6 DEF GetServe
    <3> QED
      BY <2>3, <3>1, <3>2
  <2> QED
    BY <2>5, <2>6
<1>t. TypeOK'
  <2> DEFINE p == ProcOf[t]
             s == Tail(events[p])
  <2>0. Only(t) /\ UNCHANGED <<router, open, flags, client, app, cut, overtaken>>
    BY <1>f
  <2>1. CASE UNCHANGED <<cq, events, late>>
    BY <2>0, <2>1 DEF Inv, TypeOK, Only, router, kernel, flags, client, app, history
  <2>2. ASSUME NEW c \in Cqs, events[p] # <<>>, events' = [events EXCEPT ![p] = s], cq' \in [Cqs -> Queues],
               late' = IF cq_map[cq[c].handle] = c THEN late ELSE late \cup {c}
        PROVE  TypeOK'
    <3>1. p \in Procs /\ events \in [Procs -> Seq(Cqs)] /\ \A q \in Procs : Len(events[q]) <= MaxEvents
      BY Typing DEF Inv, TypeOK
    <3>2. s \in Seq(Cqs) /\ Len(s) <= MaxEvents
      BY SMT, <2>2, <3>1, CompChannelAssumption
    <3>3. late' \subseteq Cqs
      BY <2>2 DEF Inv, TypeOK
    <3> HIDE DEF s
    <3>4. events' \in [Procs -> Seq(Cqs)] /\ \A q \in Procs : Len(events'[q]) <= MaxEvents
      BY <2>2, <3>1, <3>2
    <3> QED
      BY <2>0, <2>2, <3>3, <3>4 DEF Inv, TypeOK, Only, router, kernel, flags, client, app, history
  <2> QED
    BY <2>1, <2>2, <1>f DEF Queued
<1>n. Counted'
  <2>1. /\ Only(t) /\ thr[t].op = "get" /\ thr[t].cq = NULL /\ thr'[t].op = "get" /\ held' = held
    BY <1>f DEF app
  <2>2. NULL \notin Cqs
    BY Typing
  <2>3. CASE thr'[t].cq = NULL /\ cq' = cq
    BY <2>1, <2>2, <2>3, BalanceKept, CountedBalanced
  <2>4. ASSUME NEW c \in Cqs, thr'[t].cq = c, Queued(c, cq[c].st, cq[c].handle, cq[c].owner, cq[c].out + 1)
        PROVE  Counted'
    <3>1. cq'[c].out = cq[c].out + 1 /\ \A d \in Cqs : d # c => cq'[d] = cq[d]
      BY <2>4 DEF Queued
    <3>2. \A d \in Cqs : d # c => Balanced(d)'
      BY <2>1, <2>2, <2>4, <3>1, BalanceKept
    <3>3. InFlight(c)' = InFlight(c) \cup {t} /\ t \notin InFlight(c) /\ InFlight(c) \in SUBSET Threads
      <4>1. \A u \in Threads : u # t => thr'[u] = thr[u]
        BY <2>1 DEF Only
      <4> QED
        BY <2>1, <2>2, <2>4, <4>1 DEF InFlight
    <3>4. Acks(c)' = Acks(c)
      <4>1. \A u \in Threads : u # t => thr'[u] = thr[u]
        BY <2>1 DEF Only
      <4>2. \A u \in Threads : (thr'[u].op = "ack" \/ thr[u].op = "ack") => thr'[u] = thr[u]
        BY <2>1, <4>1
      <4> QED
        BY <4>2, AcksKept
    <3>5. Cardinality(InFlight(c)) \in Nat /\ Cardinality(InFlight(c)') = Cardinality(InFlight(c)) + 1
      BY <3>3, OneMoreThread
    <3>6. Balanced(c) /\ held[c] \in Nat /\ Cardinality(Acks(c)) \in Nat
      BY CountedBalanced, NoneOut DEF Inv, TypeOK
    <3>a. Cardinality(InFlight(c)') \in Nat
      BY SMT, <3>5
    <3> DEFINE o == cq[c].out
               h == held[c]
               i == Cardinality(InFlight(c))
               j == Cardinality(InFlight(c)')
               a == Cardinality(Acks(c))
               b == Cardinality(Acks(c)')
               o2 == cq'[c].out
               h2 == held'[c]
    <3>7. o = h + i + a /\ h \in Nat /\ i \in Nat /\ j \in Nat /\ a \in Nat /\ b \in Nat /\ o2 = o + 1 /\ h2 = h /\ j = i + 1 /\ b = a
      BY <2>1, <3>1, <3>4, <3>5, <3>6, <3>a DEF Balanced
    <3> HIDE DEF o, h, i, j, a, b, o2, h2
    <3>8. o2 = h2 + j + b
      BY SMT, <3>7
    <3>9. Balanced(c)'
      BY <3>8, <3>4, <3>6 DEF Balanced, o2, h2, j, b
    <3> QED
      BY <3>2, <3>9, CountedBalanced
  <2> QED
    BY <2>3, <2>4, <1>f
<1>q. CqInv'
  <2>1. /\ thr[t].op = "get" /\ thr[t].pc = "serve" /\ thr[t].cq = NULL /\ thr'[t].op = "get" /\ Only(t)
        /\ UNCHANGED <<use, cq_map, rctx, client_map, owned, cut, overtaken>>
    BY <1>f DEF router, client, app
  <2>2. ProcOf' = ProcOf /\ NonBlocking' = NonBlocking
    BY SMT DEF ProcOf, NonBlocking
  <2>3. CASE thr'[t].pc = "hung" /\ ProcOf[t] \in cut \cup NonBlocking /\ UNCHANGED <<cq, events, late>>
    <3>1. HistoryGrows
      BY <2>1, <2>3 DEF HistoryGrows
    <3>2. Call(t)' /\ Aside(thr[t]) /\ Aside(thr'[t])
      BY <2>1, <2>2, <2>3 DEF Call, Aside, Get
    <3> QED
      BY <2>1, <2>3, <3>1, <3>2, QuietStep
  <2>4. ASSUME NEW c \in Cqs, events[ProcOf[t]] # <<>>, cq[c].st = "live", cq[c].owner = ProcOf[t], ~Creating(c),
               thr'[t].pc = "gotten", thr'[t].cq = c,
               Queued(c, cq[c].st, cq[c].handle, cq[c].owner, cq[c].out + 1),
               events' = [events EXCEPT ![ProcOf[t]] = Tail(events[ProcOf[t]])],
               late' = IF cq_map[cq[c].handle] = c THEN late ELSE late \cup {c}
        PROVE  CqInv'
    <3>1. HistoryGrows /\ (c \in late' \/ cq_map[cq[c].handle] = c)
      BY <2>1, <2>4 DEF HistoryGrows
    <3>2. Call(t)' /\ Aside(thr[t]) /\ Aside(thr'[t])
      BY <2>1, <2>2, <2>4 DEF Call, Aside, Get, Queued
    <3>3. QueuesStay
      BY <2>1, <2>4 DEF QueuesStay, Queued
    <3>4. OutsFrom
      <4>1. \A d \in Cqs : d # c => cq'[d] = cq[d]
        BY <2>4 DEF Queued
      <4>2. ASSUME NEW d \in Cqs
            PROVE  /\ cq[d].out = 0 => cq'[d].out = 0 \/ (cq[d].st = "live" /\ ~Creating(d))
                   /\ cq'[d].out > 0 => cq[d].out > 0 \/ d \in late' \/ cq_map[cq[d].handle] = d
        BY <2>4, <3>1, <4>1
      <4> QED
        BY <4>2 DEF OutsFrom
    <3>5. EventsFrom
      <4> DEFINE q == ProcOf[t]
      <4>1. q \in Procs /\ events \in [Procs -> Seq(Cqs)]
        BY Typing DEF Inv, TypeOK
      <4>2. events[q] \in Seq(Cqs) /\ events'[q] = Tail(events[q]) /\ \A p \in Procs : p # q => events'[p] = events[p]
        BY <2>4, <4>1
      <4>3. \A s \in Seq(Cqs) : s # <<>> => \A k \in 1..Len(Tail(s)) : k + 1 \in 1..Len(s) /\ Tail(s)[k] = s[k + 1]
        BY SMT
      <4> HIDE DEF q
      <4>4. ASSUME NEW p \in Procs, NEW k \in 1..Len(events'[p])
            PROVE  \E j \in 1..Len(events[p]) : events'[p][k] = events[p][j]
        <5>1. CASE p = q
          <6>1. k \in 1..Len(Tail(events[q])) /\ events'[p][k] = Tail(events[q])[k]
            BY <4>2, <5>1
          <6>2. k + 1 \in 1..Len(events[q]) /\ Tail(events[q])[k] = events[q][k + 1]
            BY <2>4, <4>2, <4>3, <6>1 DEF q
          <6> QED
            BY <5>1, <6>1, <6>2
        <5>2. CASE p # q
          BY <4>2, <5>2
        <5> QED
          BY <5>1, <5>2
      <4> QED
        BY <4>4 DEF EventsFrom
    <3>6. \A u \in Threads : thr'[u] # thr[u] => Aside(thr[u]) /\ Aside(thr'[u]) /\ Call(u)'
      BY <2>1, <3>2 DEF Only
    <3> QED
      BY <3>1, <3>3, <3>4, <3>5, <3>6, QueuesKept
  <2> QED
    BY <2>3, <2>4, <1>f
<1>1. /\ Only(t) /\ thr[t].op = "get" /\ thr'[t].op = "get"
      /\ UNCHANGED <<channel_map, open, fd, cut>>
  BY <1>f DEF Becomes, router, kernel, client, history
<1>2. ChannelInv'
  BY <1>1, ChannelKept DEF Using
<1> QED
  BY <1>2, <1>n, <1>t, <1>q DEF Inv

(* A queue with an event on its way is not one that is being created, so   *)
(* the client has an entry for it, or another destruction cleared it.      *)
LEMMA GetEntry ==
  ASSUME Counting, Inv, NEW t \in Threads, thr[t].op = "get", thr[t].pc = "replied"
  PROVE  /\ thr[t].cq \in Cqs
         /\ \/ client_map[ProcOf[t]][thr[t].handle] = thr[t].cq
            \/ client_map[ProcOf[t]][thr[t].handle] = NULL /\ thr[t].cq \in overtaken
<1>1. Mine(t) /\ NULL \notin Cqs
  BY SMT, Typing DEF Call, Get
<1>2. Exists(thr[t].cq) /\ cq[thr[t].cq].out # 0
  BY SMT, <1>1, GetExists DEF Mine
<1>3. ~Creating(thr[t].cq)
  <2> SUFFICES ASSUME NEW u \in Threads, thr[u].op = "create", thr[u].cq = thr[t].cq PROVE FALSE
    BY DEF Creating
  <2>1. Create(u)
    BY Typing DEF Call
  <2> QED
    BY <1>1, <1>2, <2>1 DEF Create, Mine
<1> QED
  BY <1>1, <1>2, <1>3 DEF Mine, Inv, CqInv, Entry

LEMMA GetReturnInv ==
  ASSUME Counting, Inv, UNCHANGED use, NEW t \in Threads, GetReturn(t)
  PROVE  Inv'
<1>f. /\ Only(t) /\ thr[t].op = "get" /\ thr[t].pc = "replied" /\ thr[t].cq \in Cqs
      /\ sock' = [sock EXCEPT ![ProcOf[t]] = NULL]
      /\ \/ /\ thr'[t].op = "get" /\ thr'[t].pc = "hung" /\ thr'[t].cq = thr[t].cq
            /\ thr[t].cq \in overtaken /\ UNCHANGED held
         \/ /\ thr'[t].op = "none" /\ thr'[t].pc = "idle"
            /\ held' = [held EXCEPT ![thr[t].cq] = held[thr[t].cq] + 1]
      /\ UNCHANGED <<router, kernel, fd, client_map, ctx, owned, history>>
  <2>1. thr[t].op = "get" /\ thr[t].pc = "replied"
    BY DEF GetReturn
  <2>2. /\ thr[t].cq \in Cqs
        /\ \/ client_map[ProcOf[t]][thr[t].handle] = thr[t].cq
           \/ client_map[ProcOf[t]][thr[t].handle] = NULL /\ thr[t].cq \in overtaken
    BY <2>1, GetEntry
  <2>3. thr[t].cq # NULL
    BY <2>2, Typing
  <2>4. CASE client_map[ProcOf[t]][thr[t].handle] = NULL
    <3>1. Only(t) /\ thr'[t].op = "get" /\ thr'[t].pc = "hung" /\ thr'[t].cq = thr[t].cq
      BY SMT, <2>1, <2>4, GotoFacts DEF GetReturn, Inv, Hung, Pcs, Becomes
    <3> QED
      BY <2>1, <2>2, <2>3, <2>4, <3>1 DEF GetReturn
  <2>5. CASE client_map[ProcOf[t]][thr[t].handle] = thr[t].cq
    <3>1. Only(t) /\ thr'[t].op = "none" /\ thr'[t].pc = "idle"
      BY <2>2, <2>3, <2>5, DoneFacts DEF GetReturn, Inv
    <3> QED
      BY <2>1, <2>2, <2>3, <2>5, <3>1 DEF GetReturn
  <2> QED
    BY <2>2, <2>4, <2>5
<1>t. TypeOK'
  <2>1. /\ thr[t].cq \in Cqs /\ sock' = [sock EXCEPT ![ProcOf[t]] = NULL]
        /\ UNCHANGED held \/ held' = [held EXCEPT ![thr[t].cq] = held[thr[t].cq] + 1]
    BY <1>f
  <2>2. sock' \in [Procs -> Threads \cup {NULL}]
    BY <2>1, Updated DEF Inv, TypeOK
  <2>3. held[thr[t].cq] + 1 \in Nat
    BY SMT, <2>1 DEF Inv, TypeOK
  <2>4. held' \in [Cqs -> Nat]
    BY <2>1, <2>3, Updated DEF Inv, TypeOK
  <2> QED
    BY <2>2, <2>4, <1>f DEF Inv, TypeOK, Only, router, kernel, flags, client, app, history
<1>n. Counted'
  <2>1. PICK c \in Cqs : c = thr[t].cq /\ Only(t) /\ thr[t].op = "get" /\ cq' = cq
    BY <1>f DEF kernel
  <2>2. \A u \in Threads : u # t => thr'[u] = thr[u]
    BY <2>1 DEF Only
  <2>3. CASE thr'[t].op = "get" /\ thr'[t].cq = c /\ held' = held
    BY <2>1, <2>3, BalanceKept, CountedBalanced
  <2>4. CASE thr'[t].op = "none" /\ held' = [held EXCEPT ![c] = held[c] + 1]
    <3>1. /\ held[c] \in Nat /\ held'[c] = held[c] + 1
          /\ \A d \in Cqs : d # c => held'[d] = held[d]
      BY <2>1, <2>4 DEF Inv, TypeOK
    <3>2. \A d \in Cqs : d # c => Balanced(d)'
      BY <2>1, <2>4, <3>1, BalanceKept
    <3>3. InFlight(c) = InFlight(c)' \cup {t} /\ t \notin InFlight(c)' /\ InFlight(c)' \in SUBSET Threads
      BY <2>1, <2>2, <2>4 DEF InFlight
    <3>4. Acks(c)' = Acks(c)
      <4>2. \A u \in Threads : (thr'[u].op = "ack" \/ thr[u].op = "ack") => thr'[u] = thr[u]
        BY <2>1, <2>2, <2>4
      <4> QED
        BY <4>2, AcksKept
    <3>5. Cardinality(InFlight(c)') \in Nat /\ Cardinality(InFlight(c)) = Cardinality(InFlight(c)') + 1
      BY <3>3, OneMoreThread
    <3>6. Balanced(c) /\ Cardinality(Acks(c)) \in Nat
      BY <2>1, CountedBalanced, NoneOut DEF Inv
    <3>a. Cardinality(InFlight(c)) \in Nat
      BY SMT, <3>5
    <3> DEFINE o == cq[c].out
               h == held[c]
               i == Cardinality(InFlight(c))
               j == Cardinality(InFlight(c)')
               a == Cardinality(Acks(c))
               b == Cardinality(Acks(c)')
               o2 == cq'[c].out
               h2 == held'[c]
    <3>7. o = h + i + a /\ h \in Nat /\ i \in Nat /\ j \in Nat /\ a \in Nat /\ b \in Nat /\ o2 = o /\ h2 = h + 1 /\ i = j + 1 /\ b = a
      BY <2>1, <3>1, <3>4, <3>5, <3>6, <3>a DEF Balanced
    <3> HIDE DEF o, h, i, j, a, b, o2, h2
    <3>8. o2 = h2 + j + b
      BY SMT, <3>7
    <3>9. Balanced(c)'
      BY <3>8, <3>4, <3>6 DEF Balanced, o2, h2, j, b
    <3> QED
      BY <3>2, <3>9, CountedBalanced
  <2> QED
    BY <2>1, <2>3, <2>4, <1>f
<1>q. CqInv'
  <2>1. /\ thr[t].op = "get" /\ thr[t].cq \in Cqs /\ Only(t)
        /\ \/ thr'[t].op = "get" /\ thr'[t].pc = "hung" /\ thr'[t].cq = thr[t].cq /\ thr[t].cq \in overtaken
           \/ thr'[t].op = "none" /\ thr'[t].pc = "idle"
    BY <1>f
  <2>2. UNCHANGED <<cq_map, rctx, cq, events, client_map, owned, overtaken>> /\ HistoryGrows
    BY <1>f DEF router, kernel, history, HistoryGrows
  <2>3. Call(t)' /\ Aside(thr[t]) /\ Aside(thr'[t])
    BY <2>1, <2>2 DEF Call, Aside, Get
  <2> QED
    BY <2>1, <2>2, <2>3, QuietStep
<1>1. /\ Only(t) /\ thr[t].op = "get" /\ (thr'[t].op = "get" \/ thr'[t].op = "none")
      /\ UNCHANGED <<channel_map, open, fd, cut>>
  BY <1>f DEF Becomes, router, kernel, client, history
<1>2. ChannelInv'
  BY <1>1, ChannelKept DEF Using
<1> QED
  BY <1>2, <1>n, <1>t, <1>q DEF Inv

LEMMA MoreAcks ==
  ASSUME Counting, NEW A, IsFiniteSet(A), NEW t, NEW n \in Nat, \A k : <<t, k>> \notin A
  PROVE  /\ IsFiniteSet(A \cup ({t} \X (1..n))) /\ Cardinality(A) \in Nat
         /\ Cardinality(A \cup ({t} \X (1..n))) = Cardinality(A) + n
BY DEF Counting

(* Thread t begins to acknowledge n events, or has acknowledged them.      *)
LEMMA AcksMore ==
  ASSUME NEW c, NEW n, NEW t \in Threads, \A u \in Threads : u # t => thr'[u] = thr[u],
         thr[t].op # "ack", thr'[t].op = "ack", thr'[t].cq = c, thr'[t].n = n
  PROVE  Acks(c)' = Acks(c) \cup ({t} \X (1..n))
<1>1. ASSUME NEW x \in Acks(c) PROVE x \in Acks(c)'
  <2>1. PICK u \in Threads : thr[u].op = "ack" /\ thr[u].cq = c /\ x \in {u} \X (1..thr[u].n)
    BY DEF Acks, Acking
  <2>2. thr'[u].op = "ack" /\ thr'[u].cq = c /\ x \in {u} \X (1..thr'[u].n)
    BY <2>1
  <2> QED
    BY <2>2 DEF Acks, Acking
<1>2. ASSUME NEW x \in {t} \X (1..n) PROVE x \in Acks(c)'
  BY <1>2 DEF Acks, Acking
<1>3. ASSUME NEW x \in Acks(c)', x \notin {t} \X (1..n) PROVE x \in Acks(c)
  <2>1. PICK u \in Threads : thr'[u].op = "ack" /\ thr'[u].cq = c /\ x \in {u} \X (1..thr'[u].n)
    BY DEF Acks, Acking
  <2>2. thr[u].op = "ack" /\ thr[u].cq = c /\ x \in {u} \X (1..thr[u].n)
    BY <1>3, <2>1
  <2> QED
    BY <2>2 DEF Acks, Acking
<1> QED
  BY <1>1, <1>2, <1>3

LEMMA AckCallInv ==
  ASSUME Counting, Inv, UNCHANGED use, NEW t \in Threads, AckCall(t)
  PROVE  Inv'
<1>f. \E c \in Cqs : \E n \in 1..held[c] :
        /\ Only(t) /\ Becomes(t, "ack", "serve", c, cq[c].handle) /\ thr'[t].n = n
        /\ held' = [held EXCEPT ![c] = held[c] - n]
        /\ UNCHANGED <<router, kernel, client, owned, history>>
  <2>0. PICK c \in Cqs : \E n \in 1..held[c] :
             /\ held' = [held EXCEPT ![c] = held[c] - n]
             /\ thr' = [thr EXCEPT ![t] = [op |-> "ack", pc |-> "serve", cq |-> c,
                                           handle |-> cq[c].handle, n |-> n, duty |-> thr[t].duty]]
             /\ UNCHANGED <<router, kernel, client, owned, history>>
    BY DEF AckCall
  <2>1. PICK n \in 1..held[c] :
             /\ held' = [held EXCEPT ![c] = held[c] - n]
             /\ thr' = [thr EXCEPT ![t] = [op |-> "ack", pc |-> "serve", cq |-> c,
                                           handle |-> cq[c].handle, n |-> n, duty |-> thr[t].duty]]
             /\ UNCHANGED <<router, kernel, client, owned, history>>
    BY <2>0
  <2>2. n \in Nat /\ cq[c].handle \in Handles \cup {NULL}
    BY SMT DEF Inv, TypeOK, Queues
  <2>3. Only(t) /\ Becomes(t, "ack", "serve", c, cq[c].handle) /\ thr'[t].n = n
    BY SMT, <2>1, <2>2 DEF Inv, TypeOK, Calls, Ops, Pcs, Only, Becomes
  <2> QED
    BY <2>1, <2>3
<1>t. TypeOK'
  <2>1. PICK c \in Cqs : \E n \in 1..held[c] : held' = [held EXCEPT ![c] = held[c] - n]
    BY <1>f
  <2>2. \A n \in 1..held[c] : held[c] - n \in Nat
    BY SMT DEF Inv, TypeOK
  <2>3. PICK m \in Nat : held' = [held EXCEPT ![c] = m]
    BY <2>1, <2>2
  <2>4. held' \in [Cqs -> Nat]
    BY <2>3, Updated DEF Inv, TypeOK
  <2> QED
    BY <2>4, <1>f DEF Inv, TypeOK, Only, router, kernel, flags, client, app, history
<1>n. Counted'
  <2>1. PICK c \in Cqs : \E n \in 1..held[c] :
          /\ Only(t) /\ thr'[t].op = "ack" /\ thr'[t].cq = c /\ thr'[t].n = n
          /\ held' = [held EXCEPT ![c] = held[c] - n] /\ cq' = cq
    BY <1>f DEF Becomes, kernel
  <2>2. PICK n \in 1..held[c] :
          /\ Only(t) /\ thr'[t].op = "ack" /\ thr'[t].cq = c /\ thr'[t].n = n
          /\ held' = [held EXCEPT ![c] = held[c] - n] /\ cq' = cq
    BY <2>1
  <2>3. thr[t].op = "none" /\ \A u \in Threads : u # t => thr'[u] = thr[u]
    BY <2>2, IdleFacts DEF Only
  <2>4. held[c] \in Nat /\ n \in Nat
    BY SMT DEF Inv, TypeOK
  <2>5. held'[c] = held[c] - n /\ \A d \in Cqs : d # c => held'[d] = held[d]
    BY <2>2 DEF Inv, TypeOK
  <2>6. \A d \in Cqs : d # c => Balanced(d)'
    BY <2>2, <2>3, <2>5, BalanceKept
  <2>7. InFlight(c)' = InFlight(c)
    BY <2>2, <2>3 DEF InFlight
  <2>8. Acks(c)' = Acks(c) \cup ({t} \X (1..n))
    BY <2>2, <2>3, AcksMore
  <2>9. \A k : <<t, k>> \notin Acks(c)
    BY SMT, <2>3 DEF Acks, Acking
  <2>10. Balanced(c) /\ Cardinality(InFlight(c)) \in Nat
    BY CountedBalanced, NoneOut DEF Inv
  <2>11. /\ IsFiniteSet(Acks(c)') /\ Cardinality(Acks(c)) \in Nat
         /\ Cardinality(Acks(c)') = Cardinality(Acks(c)) + n
    <3>1. IsFiniteSet(Acks(c))
      BY <2>10 DEF Balanced
    <3>2. /\ IsFiniteSet(Acks(c) \cup ({t} \X (1..n))) /\ Cardinality(Acks(c)) \in Nat
          /\ Cardinality(Acks(c) \cup ({t} \X (1..n))) = Cardinality(Acks(c)) + n
      BY <2>4, <2>9, <3>1, MoreAcks
    <3> QED
      BY <2>8, <3>2
  <2>12. Cardinality(Acks(c)') \in Nat
    BY SMT, <2>4, <2>11
  <2> DEFINE o == cq[c].out
             h == held[c]
             i == Cardinality(InFlight(c))
             j == Cardinality(InFlight(c)')
             a == Cardinality(Acks(c))
             b == Cardinality(Acks(c)')
             o2 == cq'[c].out
             h2 == held'[c]
  <2>13. o = h + i + a /\ h \in Nat /\ i \in Nat /\ j \in Nat /\ a \in Nat /\ b \in Nat /\ o2 = o /\ h2 = h - n /\ j = i /\ b = a + n
    BY <2>2, <2>4, <2>5, <2>7, <2>10, <2>11, <2>12 DEF Balanced
  <2> HIDE DEF o, h, i, j, a, b, o2, h2
  <2>14. o2 = h2 + j + b
    BY SMT, <2>13, <2>4
  <2>15. Balanced(c)'
    BY <2>14, <2>11 DEF Balanced, o2, h2, j, b
  <2> QED
    BY <2>6, <2>15, CountedBalanced
<1>q. CqInv'
  <2>1. PICK c \in Cqs : \E n \in 1..held[c] :
          /\ thr'[t].op = "ack" /\ thr'[t].pc = "serve" /\ thr'[t].cq = c /\ thr'[t].handle = cq[c].handle
          /\ thr'[t].n = n /\ Only(t)
    BY <1>f DEF Becomes
  <2>2. UNCHANGED <<cq_map, rctx, cq, events, client_map, owned>> /\ HistoryGrows
    BY <1>f DEF router, kernel, client, history, HistoryGrows
  <2>3. thr[t].op = "none"
    BY IdleFacts
  <2>4. \A n \in 1..held[c] : n > 0
    BY SMT DEF Inv, TypeOK
  <2>5. Call(t)' /\ Aside(thr[t]) /\ Aside(thr'[t])
    BY <2>1, <2>2, <2>3, <2>4 DEF Call, Aside, Ack
  <2> QED
    BY <2>1, <2>2, <2>5, QuietStep
<1>1. /\ Only(t) /\ thr[t].op = "none" /\ thr'[t].op = "ack"
      /\ UNCHANGED <<channel_map, open, fd, cut>>
  BY <1>f, IdleFacts DEF Becomes, router, kernel, client, history
<1>2. ChannelInv'
  BY <1>1, ChannelKept DEF Using
<1> QED
  BY <1>2, <1>n, <1>t, <1>q DEF Inv

LEMMA AcksLess ==
  ASSUME NEW c, NEW n, NEW t \in Threads, \A u \in Threads : u # t => thr'[u] = thr[u],
         thr[t].op = "ack", thr[t].cq = c, thr[t].n = n, thr'[t].op # "ack"
  PROVE  Acks(c)' = Acks(c) \ ({t} \X (1..n))
<1>1. \A u, x, m : u # t /\ x \in {u} \X (1..m) => x \notin {t} \X (1..n)
  BY SMT
<1>2. ASSUME NEW x \in Acks(c), x \notin {t} \X (1..n) PROVE x \in Acks(c)'
  <2>1. PICK u \in Threads : thr[u].op = "ack" /\ thr[u].cq = c /\ x \in {u} \X (1..thr[u].n)
    BY DEF Acks, Acking
  <2>2. thr'[u].op = "ack" /\ thr'[u].cq = c /\ x \in {u} \X (1..thr'[u].n)
    BY <1>2, <2>1
  <2> QED
    BY <2>2 DEF Acks, Acking
<1>3. ASSUME NEW x \in Acks(c)' PROVE x \in Acks(c) /\ x \notin {t} \X (1..n)
  <2>1. PICK u \in Threads : thr'[u].op = "ack" /\ thr'[u].cq = c /\ x \in {u} \X (1..thr'[u].n)
    BY DEF Acks, Acking
  <2>2. u # t /\ thr[u].op = "ack" /\ thr[u].cq = c /\ x \in {u} \X (1..thr[u].n)
    BY <2>1
  <2>3. x \in Acks(c)
    BY <2>2 DEF Acks, Acking
  <2> QED
    BY <1>1, <2>2, <2>3
<1> QED
  BY <1>2, <1>3

(* The handler acknowledges the events of the queue the client meant.      *)
LEMMA AckFound ==
  ASSUME Counting, Inv, NEW t \in Threads, thr[t].op = "ack", cq_map[thr[t].handle] # NULL
  PROVE  cq_map[thr[t].handle] = thr[t].cq
<1> DEFINE d == cq_map[thr[t].handle]
<1>1. thr[t].cq \in Cqs /\ Exists(thr[t].cq) /\ thr[t].handle \in Handles
  BY AckExists
<1>2. thr[t].handle = cq[thr[t].cq].handle
  BY Typing DEF Call, Ack
<1>3. d \in Cqs
  BY SMT, <1>1 DEF Inv, TypeOK
<1>4. cq[d].st = "live" /\ cq[d].handle = thr[t].handle
  BY <1>1 DEF Inv, CqInv, Handle
<1>5. Exists(d)
  BY SMT, <1>4 DEF Exists
<1>6. \A a, b \in Cqs : Exists(a) /\ Exists(b) /\ cq[a].handle = cq[b].handle => a = b
  BY DEF Inv, CqInv, Handle
<1> HIDE DEF d
<1>7. d = thr[t].cq
  BY <1>1, <1>2, <1>3, <1>4, <1>5, <1>6
<1> QED
  BY SMT, <1>7 DEF d

LEMMA AckCovered ==
  ASSUME Counting, Inv, NEW t \in Threads, thr[t].op = "ack"
  PROVE  LET A == Acks(thr[t].cq) \ ({t} \X (1..thr[t].n))
         IN  /\ IsFiniteSet(A) /\ Cardinality(A) \in Nat
             /\ Cardinality(Acks(thr[t].cq)) = Cardinality(A) + thr[t].n
<1> DEFINE B == {t} \X (1..thr[t].n)
           A == Acks(thr[t].cq) \ B
<1>1. thr[t].cq \in Cqs /\ thr[t].n \in Nat /\ B \in SUBSET Acks(thr[t].cq)
  BY AckExists
<1>2. A \in SUBSET Acks(thr[t].cq) /\ Acks(thr[t].cq) = A \cup B
  BY <1>1
<1>3. IsFiniteSet(A)
  <2>1. IsFiniteSet(Acks(thr[t].cq)) /\ A \subseteq Acks(thr[t].cq)
    BY <1>1, <1>2 DEF Inv, Counted
  <2>2. \A S, T : IsFiniteSet(S) /\ T \subseteq S => IsFiniteSet(T)
    BY DEF Counting
  <2> HIDE DEF A
  <2> QED
    BY <2>1, <2>2
<1>4. \A k : <<t, k>> \notin A
  BY SMT DEF Acks, Acking
<1>5. Cardinality(A) \in Nat /\ Cardinality(A \cup B) = Cardinality(A) + thr[t].n
  BY <1>1, <1>3, <1>4, MoreAcks
<1> QED
  BY <1>2, <1>3, <1>5

LEMMA AckServeInv ==
  ASSUME Counting, Inv, UNCHANGED use, NEW t \in Threads, AckServe(t)
  PROVE  Inv'
<1>f. /\ Only(t) /\ thr[t].op = "ack" /\ thr[t].pc = "serve" /\ thr[t].cq \in Cqs
      /\ \/ /\ cq_map[thr[t].handle] = NULL /\ Becomes(t, "ack", "hung", thr[t].cq, thr[t].handle)
            /\ thr'[t].n = thr[t].n /\ UNCHANGED cq
         \/ /\ cq_map[thr[t].handle] = thr[t].cq /\ thr'[t].op = "none" /\ thr'[t].pc = "idle"
            /\ Queued(thr[t].cq, cq[thr[t].cq].st, cq[thr[t].cq].handle, cq[thr[t].cq].owner,
                      cq[thr[t].cq].out - thr[t].n)
      /\ UNCHANGED <<router, open, events, flags, client, app, history>>
  <2>1. thr[t].op = "ack" /\ thr[t].pc = "serve" /\ UNCHANGED <<router, open, events, flags, client, app, history>>
    BY DEF AckServe
  <2>2. thr[t].cq \in Cqs /\ thr[t].n \in Nat
    BY <2>1, AckExists
  <2>3. CASE cq_map[thr[t].handle] = NULL
    <3>1. Only(t) /\ Becomes(t, "ack", "hung", thr[t].cq, thr[t].handle) /\ thr'[t].n = thr[t].n
      BY SMT, <2>1, <2>3, GotoFacts DEF AckServe, Inv, Hung, Pcs
    <3> QED
      BY <2>1, <2>2, <2>3, <3>1 DEF AckServe
  <2>4. CASE cq_map[thr[t].handle] # NULL
    <3> DEFINE c == thr[t].cq
               A == Acks(c) \ ({t} \X (1..thr[t].n))
    <3>1. cq_map[thr[t].handle] = c
      BY <2>1, <2>4, AckFound
    <3>2. cq' = [cq EXCEPT ![c].out = cq[c].out - thr[t].n] /\ Done(t, c)
      BY <2>4, <3>1 DEF AckServe
    <3>3. Cardinality(A) \in Nat /\ Cardinality(Acks(c)) = Cardinality(A) + thr[t].n
      BY <2>1, AckCovered
    <3>4. /\ cq[c].out = held[c] + Cardinality(InFlight(c)) + Cardinality(Acks(c))
          /\ held[c] \in Nat /\ Cardinality(InFlight(c)) \in Nat
      BY SMT, <2>2, NoneOut DEF Inv, Counted, OneAckPerGet, TypeOK
    <3>5. \A a, b, h, i, o, n : a \in Nat /\ h \in Nat /\ i \in Nat /\ n \in Nat /\ b = a + n /\ o = h + i + b => o - n \in Nat
      BY SMT
    <3> HIDE DEF A
    <3>6. cq[c].out - thr[t].n \in Nat
      BY <2>2, <3>3, <3>4, <3>5
    <3> HIDE DEF c
    <3>7. Queued(c, cq[c].st, cq[c].handle, cq[c].owner, cq[c].out - thr[t].n)
      BY <2>2, <3>2, <3>6, OutFacts DEF Inv, c
    <3>8. Only(t) /\ thr'[t].op = "none" /\ thr'[t].pc = "idle"
      BY <2>2, <3>2, DoneFacts DEF Inv, c
    <3> QED
      BY <2>1, <2>2, <3>1, <3>7, <3>8 DEF c
  <2> QED
    BY <2>3, <2>4
<1>t. TypeOK'
  <2>1. cq' \in [Cqs -> Queues]
    BY <1>f DEF Queued, Inv, TypeOK
  <2> QED
    BY <2>1, <1>f DEF Inv, TypeOK, Only, router, kernel, flags, client, app, history
<1>n. Counted'
  <2>0. PICK n \in Nat : n = thr[t].n
    BY Typing
  <2>1. PICK c \in Cqs : c = thr[t].cq /\ Only(t) /\ thr[t].op = "ack" /\ held' = held
    BY <1>f DEF app
  <2>2. \A u \in Threads : u # t => thr'[u] = thr[u]
    BY <2>1 DEF Only
  <2>3. CASE thr'[t].op = "ack" /\ thr'[t].cq = c /\ thr'[t].n = n /\ cq' = cq
    BY <2>0, <2>1, <2>3, BalanceKept, CountedBalanced
  <2>4. CASE thr'[t].op = "none" /\ Queued(c, cq[c].st, cq[c].handle, cq[c].owner, cq[c].out - n)
    <3>1. cq'[c].out = cq[c].out - n /\ \A d \in Cqs : d # c => cq'[d] = cq[d]
      BY <2>4 DEF Queued
    <3>2. \A d \in Cqs : d # c => Balanced(d)'
      BY <2>1, <2>4, <3>1, BalanceKept
    <3>3. InFlight(c)' = InFlight(c)
      BY <2>1, <2>2, <2>4 DEF InFlight
    <3>4. Acks(c)' = Acks(c) \ ({t} \X (1..n))
      BY <2>0, <2>1, <2>2, <2>4, AcksLess
    <3>5. /\ IsFiniteSet(Acks(c)') /\ Cardinality(Acks(c)') \in Nat
          /\ Cardinality(Acks(c)) = Cardinality(Acks(c)') + n
      BY <2>0, <2>1, <3>4, AckCovered
    <3>6. Balanced(c) /\ Cardinality(InFlight(c)) \in Nat /\ held[c] \in Nat /\ n \in Nat
      BY <2>1, CountedBalanced, NoneOut, Typing DEF Inv, TypeOK
    <3>a. Cardinality(Acks(c)) \in Nat
      BY SMT, <3>5, <3>6
    <3> DEFINE o == cq[c].out
               h == held[c]
               i == Cardinality(InFlight(c))
               j == Cardinality(InFlight(c)')
               a == Cardinality(Acks(c))
               b == Cardinality(Acks(c)')
               o2 == cq'[c].out
               h2 == held'[c]
    <3>7. o = h + i + a /\ h \in Nat /\ i \in Nat /\ j \in Nat /\ a \in Nat /\ b \in Nat /\ o2 = o - n /\ h2 = h /\ j = i /\ a = b + n /\ n \in Nat
      BY <2>1, <3>1, <3>3, <3>5, <3>6, <3>a DEF Balanced
    <3> HIDE DEF o, h, i, j, a, b, o2, h2
    <3>8. o2 = h2 + j + b
      BY SMT, <3>7
    <3>9. Balanced(c)'
      BY <3>8, <3>5 DEF Balanced, o2, h2, j, b
    <3> QED
      BY <3>2, <3>9, CountedBalanced
  <2> QED
    BY <2>0, <2>1, <2>3, <2>4, <1>f DEF Becomes
<1>q. CqInv'
  <2>1. PICK c \in Cqs : /\ c = thr[t].cq /\ thr[t].op = "ack" /\ thr[t].handle = cq[c].handle /\ Only(t)
                         /\ cq[c].out # 0 /\ thr[t].n > 0
    BY <1>f, AckExists, Typing DEF Call, Ack
  <2>2. UNCHANGED <<use, cq_map, rctx, events, client_map, owned, late>> /\ HistoryGrows
    BY <1>f DEF router, client, app, history, HistoryGrows
  <2>3. CASE /\ cq_map[thr[t].handle] = NULL /\ Becomes(t, "ack", "hung", thr[t].cq, thr[t].handle)
             /\ thr'[t].n = thr[t].n /\ UNCHANGED cq
    <3>1. cq[c].out > 0 /\ NULL \notin Cqs
      BY SMT, <2>1, CompChannelAssumption DEF Inv, TypeOK, Queues
    <3>2. c \in late
      BY <2>1, <2>3, <3>1 DEF Inv, CqInv, Late
    <3>3. Call(t)' /\ Aside(thr[t]) /\ Aside(thr'[t])
      BY <2>1, <2>2, <2>3, <3>2 DEF Call, Aside, Ack, Becomes
    <3> QED
      BY <2>1, <2>2, <2>3, <3>3, QuietStep
  <2>4. CASE /\ thr'[t].op = "none" /\ thr'[t].pc = "idle"
             /\ Queued(c, cq[c].st, cq[c].handle, cq[c].owner, cq[c].out - thr[t].n)
    <3>1. Call(t)' /\ Aside(thr[t]) /\ Aside(thr'[t])
      BY <2>1, <2>4, CallDone DEF Aside
    <3>2. QueuesStay
      BY <2>2, <2>4 DEF QueuesStay, Queued
    <3>3. EventsFrom
      BY <2>2 DEF EventsFrom
    <3>4. OutsFrom
      <4>1. \A d \in Cqs : d # c => cq'[d] = cq[d]
        BY <2>4 DEF Queued
      <4>2. cq[c].out > 0
        BY SMT, <2>1 DEF Inv, TypeOK, Queues
      <4> QED
        BY <2>1, <4>1, <4>2 DEF OutsFrom
    <3>5. \A u \in Threads : thr'[u] # thr[u] => Aside(thr[u]) /\ Aside(thr'[u]) /\ Call(u)'
      BY <2>1, <3>1 DEF Only
    <3> QED
      BY <2>2, <3>2, <3>3, <3>4, <3>5, QueuesKept
  <2> QED
    BY <2>1, <2>3, <2>4, <1>f
<1>1. /\ Only(t) /\ thr[t].op = "ack" /\ (thr'[t].op = "ack" \/ thr'[t].op = "none")
      /\ UNCHANGED <<channel_map, open, fd, cut>>
  BY <1>f DEF Becomes, router, kernel, client, history
<1>2. ChannelInv'
  BY <1>1, ChannelKept DEF Using
<1> QED
  BY <1>2, <1>n, <1>t, <1>q DEF Inv

----------------------------------------------------------------------------
(* Every step keeps the invariant.                                         *)

LEMMA NextInv ==
  ASSUME Counting, Inv, [Next]_vars
  PROVE  Inv'
<1>1. ASSUME UNCHANGED use, NEW t \in Threads, ChannelStep(t) PROVE Inv'
  BY <1>1, CreateChannelInv, StoreChannelInv, DestroyChannelCallInv, DestroyChannelFindInv, DestroyChannelVerbInv DEF ChannelStep
<1>2. ASSUME UNCHANGED use, NEW t \in Threads, CqStep(t) PROVE Inv'
  <2>1. CASE CreateCall(t) \/ CreateVerb(t) \/ CreateStore(t) \/ CreateReturn(t)
    BY <1>2, <2>1, CreateCallInv, CreateVerbInv, CreateStoreInv, CreateReturnInv
  <2>2. CASE DestroyCall(t) \/ DestroyFind(t) \/ DestroyVerb(t)
    BY <1>2, <2>2, DestroyCallInv, DestroyFindInv, DestroyVerbInv
  <2>3. CASE DestroyWait(t) \/ DestroyUnlock(t) \/ DestroyClear(t)
    BY <1>2, <2>3, DestroyWaitInv, DestroyUnlockInv, DestroyClearInv
  <2> QED
    BY <1>2, <2>1, <2>2, <2>3 DEF CqStep
<1>3. ASSUME UNCHANGED use, NEW t \in Threads, EventStep(t) PROVE Inv'
  <2>1. CASE NotifyCall(t) \/ NotifyServe(t) \/ Poll(t)
    BY <1>3, <2>1, NotifyCallInv, NotifyServeInv, PollInv
  <2>2. CASE GetCall(t) \/ GetServe(t) \/ GetReply(t) \/ GetReturn(t)
    BY <1>3, <2>2, GetCallInv, GetServeInv, GetReplyInv, GetReturnInv
  <2>3. CASE AckCall(t) \/ AckServe(t)
    BY <1>3, <2>3, AckCallInv, AckServeInv
  <2> QED
    BY <1>3, <2>1, <2>2, <2>3 DEF EventStep
<1>4. CASE UNCHANGED vars
  <2>1. /\ UNCHANGED <<use, channel_map, cq_map, rctx, open, cq, armed, pending, events, fd, client_map>>
        /\ UNCHANGED <<ctx, sock, held, owned, thr, cut, late, overtaken>>
    BY <1>4 DEF vars, router, kernel, flags, client, app, history
  <2>3. TypeOK'
    BY <2>1 DEF Inv, TypeOK
  <2>4. ChannelInv' /\ Counted'
    BY <2>1, NoCallStep
  <2>5. EventsFrom
    BY <2>1 DEF EventsFrom
  <2>6. QueuesStay /\ OutsFrom /\ HistoryGrows
    BY <2>1 DEF QueuesStay, OutsFrom, HistoryGrows
  <2>7. CqInv'
    BY <2>1, <2>5, <2>6, QueuesKept
  <2> QED
    BY <2>1, <2>3, <2>4, <2>7 DEF Inv
<1> QED
  BY <1>1, <1>2, <1>3, <1>4, CompleteInv DEF Next

LEMMA InitInv ==
  ASSUME Counting, Init
  PROVE  Inv
<1>1. \A t \in Threads : /\ thr[t] \in Calls /\ thr[t].op = "none" /\ thr[t].pc = "idle"
  BY SMT, CompChannelAssumption DEF Init, Idle, Calls, Ops, Pcs, Duties
<1>2. thr \in [Threads -> Calls]
  BY <1>1 DEF Init
<1>3. cq \in [Cqs -> Queues] /\ \A c \in Cqs : cq[c].st = "none" /\ cq[c].out = 0 /\ held[c] = 0
  BY SMT DEF Init, NoCq, Queues
<1>4. events \in [Procs -> Seq(Cqs)] /\ \A p \in Procs : Len(events[p]) = 0
  BY SMT DEF Init
<1>5. TypeOK
  <2>1. \A p \in Procs : Len(events[p]) <= MaxEvents
    <3>1. MaxEvents \in Nat
      BY CompChannelAssumption
    <3> QED
      BY SMT, <1>4, <3>1
  <2>2. held \in [Cqs -> Nat]
    BY SMT DEF Init
  <2>3. client_map \in [Procs -> [Handles -> Cqs \cup {NULL}]]
    BY DEF Init
  <2> QED
    BY <1>2, <1>3, <1>4, <2>1, <2>2, <2>3 DEF TypeOK, Init
<1>6. ChannelInv
  <2>1. \A f \in Fds : channel_map[f] = NULL
    BY DEF Init
  <2>2. \A p \in Procs : fd[p] = NULL
    BY DEF Init
  <2>3. \A t \in Threads : thr[t].op \notin {"channel", "get", "create", "unchannel"}
    BY SMT, <1>1
  <2> QED
    BY <2>1, <2>2, <2>3 DEF ChannelInv, ChannelOf, Opening, HasChannel, Using, Alone, Closing
<1>7. CqInv
  <2>1. \A h \in Handles : cq_map[h] = NULL
    BY DEF Init
  <2>2. \A t \in Threads : thr[t].op \notin {"create", "destroy", "notify", "get", "ack", "unchannel"}
    BY SMT, <1>1
  <2>3. \A c \in Cqs : ~Exists(c) /\ cq[c].st # "dying" /\ ~(cq[c].out > 0)
    BY SMT, <1>3 DEF Exists
  <2>4. Handle /\ Owned /\ Dying /\ Entry /\ Late
    BY <1>3, <2>1, <2>3 DEF Handle, Owned, Dying, Entry, Late, Init
  <2>5. Waiting
    BY SMT, <1>4 DEF Waiting
  <2>6. Apart
    BY <2>2 DEF Apart
  <2>7. \A t \in Threads : Call(t)
    BY <1>1, <2>2 DEF Call
  <2> QED
    BY <2>4, <2>5, <2>6, <2>7 DEF CqInv
<1>8. Counted
  <2>1. \A c \in Cqs : InFlight(c) = {} /\ Acks(c) = {}
    BY SMT, <1>1 DEF InFlight, Acks, Acking
  <2>2. IsFiniteSet({}) /\ Cardinality({}) = 0
    BY DEF Counting
  <2>3. \A c \in Cqs : /\ Cardinality(InFlight(c)) = 0 /\ Cardinality(Acks(c)) = 0
                       /\ IsFiniteSet(Acks(c))
    BY <2>1, <2>2
  <2>4. \A c \in Cqs : cq[c].out = held[c] + 0 + 0
    BY SMT, <1>3
  <2> QED
    BY <2>3, <2>4 DEF Counted, OneAckPerGet
<1>9. use \in Uses
  BY DEF Init
<1> QED
  BY <1>5, <1>6, <1>7, <1>8, <1>9 DEF Inv

LEMMA EventFound ==
  ASSUME Counting, Inv
  PROVE  EventFindsCq
<1>1. ASSUME NEW t \in Threads, thr[t].op = "get"
      PROVE  /\ thr[t].pc = "gotten" => cq[thr[t].cq].st # "none"
             /\ thr[t].pc = "replied" /\ thr[t].cq \notin overtaken =>
                  client_map[ProcOf[t]][thr[t].handle] = thr[t].cq
  <2>1. Get(t)
    BY <1>1, Typing DEF Call
  <2>2. ASSUME thr[t].pc = "gotten" PROVE cq[thr[t].cq].st # "none"
    <3>1. thr[t].cq \in Cqs
      BY SMT, <2>1, <2>2 DEF Get
    <3> QED
      BY <1>1, <3>1, GetExists DEF Exists
  <2>3. ASSUME thr[t].pc = "replied", thr[t].cq \notin overtaken
        PROVE  client_map[ProcOf[t]][thr[t].handle] = thr[t].cq
    BY <1>1, <2>3, GetEntry
  <2> QED
    BY <2>2, <2>3
<1> QED
  BY <1>1 DEF EventFindsCq

LEMMA Answered ==
  ASSUME Counting, Inv
  PROVE  AnsweredUnless
<1>1. ASSUME NEW t \in Threads, thr[t].pc = "hung"
      PROVE  \/ thr[t].op \in {"get", "create", "unchannel"} /\ ProcOf[t] \in cut
             \/ thr[t].op = "ack" /\ thr[t].cq \in late
             \/ thr[t].op = "get" /\ ProcOf[t] \in NonBlocking
             \/ thr[t].op = "get" /\ thr[t].cq \in overtaken
  <2>1. Call(t) /\ thr[t].op \in Ops
    BY <1>1, Typing
  <2>2. thr[t].op # "none" /\ thr[t].op # "channel" /\ thr[t].op # "notify" /\ thr[t].op # "destroy"
    BY SMT, <1>1, <2>1 DEF Call, Notify, Destroy, Inv, ChannelInv, Opening
  <2>3. thr[t].op \in {"unchannel", "create", "get", "ack"}
    BY SMT, <2>1, <2>2 DEF Ops
  <2>4. thr[t].op \in {"unchannel", "create"} => ProcOf[t] \in cut
    BY <1>1, <2>1 DEF Call, Create
  <2>5. thr[t].op = "get" => ProcOf[t] \in cut \cup NonBlocking \/ thr[t].cq \in overtaken
    BY <1>1, <2>1 DEF Call, Get
  <2>6. thr[t].op = "ack" => thr[t].cq \in late
    BY SMT, <1>1, <2>1 DEF Call, Ack
  <2> QED
    BY <2>3, <2>4, <2>5, <2>6
<1> QED
  BY <1>1 DEF AnsweredUnless

----------------------------------------------------------------------------
(* Counting.                                                               *)

INSTANCE FiniteSetTheorems

LEMMA PairsOfThread ==
  ASSUME NEW t, NEW n \in Nat
  PROVE  IsFiniteSet({t} \X (1..n)) /\ Cardinality({t} \X (1..n)) = n
<1>1. IsFiniteSet({t}) /\ Cardinality({t}) = 1
  BY SMT, FS_Singleton
<1>2. IsFiniteSet(1..n) /\ Cardinality(1..n) = n
  BY SMT, FS_Interval
<1>3. \A S, T : IsFiniteSet(S) /\ IsFiniteSet(T) =>
        IsFiniteSet(S \X T) /\ Cardinality(S \X T) = Cardinality(S) * Cardinality(T)
  BY SMT, FS_Product
<1>4. IsFiniteSet({t} \X (1..n)) /\ Cardinality({t} \X (1..n)) = Cardinality({t}) * Cardinality(1..n)
  BY <1>1, <1>2, <1>3
<1>5. Cardinality({t}) * Cardinality(1..n) = n
  BY SMT, <1>1, <1>2
<1> QED
  BY <1>4, <1>5

LEMMA RankOnto ==
  ASSUME NEW m \in Nat, NEW K \in SUBSET (1..m)
  PROVE  /\ Cardinality(K) \in Nat /\ Cardinality(K) <= m
         /\ \A i \in 1..Cardinality(K) : \E k \in K : Rank(K, k) = i
<1>0. \A j \in K : j \in Nat
  BY SMT
<1>1. IsFiniteSet(1..m) /\ Cardinality(1..m) = m
  BY SMT, FS_Interval
<1>2. IsFiniteSet(K) /\ Cardinality(K) <= m
  BY <1>1, FS_Subset
<1>3. Cardinality(K) \in Nat
  BY SMT, <1>2, FS_CardinalityType
<1> DEFINE n == Cardinality(K)
           Upto(k) == {j \in K : j <= k}
           f == [k \in K |-> Rank(K, k)]
<1>4. \A k \in K : Upto(k) \in SUBSET K /\ Upto(k) # {} /\ k \in Upto(k)
  BY SMT
<1>5. \A k \in K : IsFiniteSet(Upto(k)) /\ Rank(K, k) = Cardinality(Upto(k)) /\ Rank(K, k) <= n
  BY SMT, <1>2, <1>4, FS_Subset DEF Rank
<1>6. \A k \in K : Rank(K, k) \in Nat /\ Rank(K, k) # 0
  BY <1>4, <1>5, FS_CardinalityType, FS_EmptySet
<1>7. ASSUME NEW k \in K, NEW l \in K, k < l PROVE Rank(K, k) # Rank(K, l)
  <2>0. k \in Nat /\ l \in Nat /\ ~(l <= k) /\ l <= l /\ \A j \in K : j <= k => j <= l
    BY SMT, <1>0, <1>7
  <2>1. Upto(k) \in SUBSET Upto(l) /\ l \in Upto(l) /\ l \notin Upto(k)
    BY <2>0
  <2>2. \A T, U : IsFiniteSet(U) /\ T \in SUBSET U /\ T # U => Cardinality(T) # Cardinality(U)
    BY SMT, FS_Subset
  <2>3. Upto(k) # Upto(l)
    BY <2>1
  <2> HIDE DEF Upto
  <2>4. Cardinality(Upto(k)) # Cardinality(Upto(l))
    BY <1>5, <2>1, <2>2, <2>3
  <2> QED
    BY <1>5, <2>4
<1> HIDE DEF n
<1>8. \A k \in K : Rank(K, k) \in 1..n
  <2>1. n \in Nat /\ \A k \in K : Rank(K, k) \in Nat /\ Rank(K, k) # 0 /\ Rank(K, k) <= n
    BY <1>3, <1>5, <1>6 DEF n
  <2> QED
    BY SMT, <2>1
<1>a. f \in [K -> 1..n]
  BY <1>8
<1>9. \A k, l \in K : f[k] = f[l] => k = l
  <2>1. \A k, l \in K : k < l \/ l < k \/ k = l
    BY SMT
  <2> QED
    BY <1>7, <2>1
<1>10. f \in Injection(K, 1..n)
  BY <1>a, <1>9 DEF Injection, IsInjective
<1>11. IsFiniteSet(1..n) /\ Cardinality(1..n) = n
  BY SMT, <1>3, FS_Interval DEF n
<1>12. f \in Surjection(K, 1..n)
  BY <1>10, <1>11, FS_Injection DEF n
<1>13. \A i \in 1..n : \E k \in K : f[k] = i
  BY <1>12 DEF Surjection
<1> QED
  BY <1>2, <1>3, <1>13 DEF n

LEMMA PairsCounted ==
  ASSUME NEW A, IsFiniteSet(A), NEW t, NEW n \in Nat, \A k : <<t, k>> \notin A
  PROVE  /\ IsFiniteSet(A \cup ({t} \X (1..n))) /\ Cardinality(A) \in Nat
         /\ Cardinality(A \cup ({t} \X (1..n))) = Cardinality(A) + n
<1> DEFINE B == {t} \X (1..n)
<1>1. A \cap B = {}
  BY SMT
<1>2. IsFiniteSet(B) /\ Cardinality(B) = n
  BY PairsOfThread
<1>3. Cardinality(A) \in Nat
  BY SMT, FS_CardinalityType
<1>4. Cardinality({}) = 0
  BY SMT, FS_EmptySet
<1> HIDE DEF B
<1>5. IsFiniteSet(A \cup B) /\ Cardinality(A \cup B) = Cardinality(A) + Cardinality(B) - Cardinality(A \cap B)
  BY SMT, <1>2, FS_Union
<1>a. Cardinality(A \cup B) = Cardinality(A) + n - 0
  BY <1>1, <1>2, <1>4, <1>5
<1>6. Cardinality(A \cup B) = Cardinality(A) + n
  BY SMT, <1>3, <1>a
<1> QED
  BY SMT, <1>3, <1>5, <1>6 DEF B

LEMMA WithoutShortens ==
  ASSUME NEW s \in Seq(Cqs), NEW c
  PROVE  Shortened(s, c)
<1> DEFINE K == Left(s, c)
           n == Cardinality(K)
<1>1. Len(s) \in Nat /\ K \in SUBSET (1..Len(s)) /\ \A k \in K : s[k] # c /\ s[k] \in Cqs
  BY SMT DEF Left
<1> HIDE DEF K
<1>2. n \in Nat /\ n <= Len(s) /\ \A i \in 1..n : \E k \in K : Rank(K, k) = i
  BY SMT, <1>1, RankOnto
<1>3. Without(s, c) = [i \in 1..n |-> s[CHOOSE k \in K : Rank(K, k) = i]]
  BY SMT DEF Without, K
<1>4. \A i \in 1..n : (CHOOSE k \in K : Rank(K, k) = i) \in K
  BY <1>2
<1> HIDE DEF n
<1>5. \A i \in 1..n : \E k \in K : Without(s, c)[i] = s[k]
  BY <1>3, <1>4
<1>6. Without(s, c) \in Seq(Cqs) /\ Len(Without(s, c)) = n
  BY SMT, <1>1, <1>2, <1>3, <1>4, <1>5
<1>7. \A i \in 1..n : \E k \in 1..Len(s) : s[k] # c /\ Without(s, c)[i] = s[k]
  BY <1>1, <1>5
<1> QED
  BY <1>2, <1>6, <1>7 DEF Shortened

LEMMA CountingHolds == Counting
<1>1. IsFiniteSet({}) /\ \A A, B : IsFiniteSet(A) /\ B \subseteq A => IsFiniteSet(B)
  BY SMT, FS_EmptySet, FS_Subset
<1>2. \A A : IsFiniteSet(A) => Cardinality(A) \in Nat /\ (Cardinality(A) = 0 <=> A = {})
  BY SMT, FS_CardinalityType, FS_EmptySet
<1>3. \A A, t : IsFiniteSet(A) /\ t \notin A => Cardinality(A \cup {t}) = Cardinality(A) + 1
  BY SMT, FS_AddElement
<1>4. ASSUME NEW s \in Seq(Cqs), NEW c \in Cqs PROVE Shortened(s, c)
  BY WithoutShortens
<1> QED
  BY <1>1, <1>2, <1>3, <1>4, PairsCounted DEF Counting

LEMMA InvAlways == Spec => []Inv
<1>1. Init => Inv
  BY InitInv, CountingHolds
<1>2. Inv /\ [Next]_vars => Inv'
  BY NextInv, CountingHolds
<1> QED
  BY PTL, <1>1, <1>2 DEF Spec

(* Every variable keeps its type whatever the processes do: the difference *)
(* of the counters that the host's ibv_destroy_cq compares stays a natural *)
(* number, although AckServe subtracts what a client says it acknowledges. *)
THEOREM TypeCorrect == Spec => []TypeOK
<1>1. Inv => TypeOK
  BY DEF Inv
<1> QED
  BY PTL, <1>1, InvAlways

(* The channel_map of the router agrees with the kernel and the client,    *)
(* although IBV_DESTROY_COMP_CHANNEL clears its entry before the verb and  *)
(* the kernel gives the descriptor to another process.                     *)
THEOREM ChannelAlwaysKnown == Spec => []ChannelKnown
<1>1. Inv => ChannelKnown
  BY DEF Inv, ChannelInv, ChannelOf, Closing, ChannelKnown
<1> QED
  BY PTL, <1>1, InvAlways

(* The event that IBV_GET_CQ_EVENT got is of a queue that is still there   *)
(* when its handle is read, and the client finds that queue in its cq_map. *)
THEOREM EventAlwaysFindsCq == Spec => []EventFindsCq
<1>1. Inv => EventFindsCq
  BY EventFound, CountingHolds
<1> QED
  BY PTL, <1>1, InvAlways

(* Acknowledgements and successful gets correspond one to one: what the    *)
(* host counts as handed out by ibv_get_cq_event is held by a client, on   *)
(* its way to it, or on its way back with ibv_ack_cq_events.               *)
THEOREM OneAckPerGetAlways == Spec => []OneAckPerGet
<1>1. Inv => OneAckPerGet
  BY DEF Inv, Counted
<1> QED
  BY PTL, <1>1, InvAlways

(* No handler leaves through `goto end' without a response except in the   *)
(* cases AnsweredUnless names.                                             *)
THEOREM AlwaysAnsweredUnless == Spec => []AnsweredUnless
<1>1. Inv => AnsweredUnless
  BY Answered, CountingHolds
<1> QED
  BY PTL, <1>1, InvAlways

==============================================================================
