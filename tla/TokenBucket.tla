----------------------------- MODULE TokenBucket -----------------------------
(***************************************************************************)
(* The rate limiter of a queue pair (class TokenBucket) and the loop of    *)
(* HandleRequest that waits for it, `while (!tb->consume(length)) usleep'. *)
(*                                                                         *)
(* time_ is the instant up to which the rate has been used: a caller moves *)
(* it forward by the time its tokens take, may not move it beyond the      *)
(* clock, and first moves it up to timePerBurst_ before the clock.  The    *)
(* arithmetic is that of uint64_t, in a word of Word values.               *)
(*                                                                         *)
(* HandleRequest calls consume with lkey_ptr_mtx held, hence one call at a *)
(* time; the class itself is written for several callers, and the model    *)
(* has a set of them.  compare_exchange_weak does not fail spuriously on   *)
(* the processors (x86) the router is built for.                           *)
(***************************************************************************)
EXTENDS Integers

CONSTANTS
  Threads,
  Lengths,       \* lengths of the scatter/gather elements that are sent
  BurstSize,     \* burstSize, BURST_PER_QP
  TimePerToken,  \* timePerToken_, 5000000000 / rate
  Word,          \* 2^64
  Boot,          \* the clock when the queue pair is created
  MaxNow,        \* bound of the clock
  None

timePerBurst == BurstSize * TimePerToken

ASSUME TimeAssumption ==
  /\ Lengths \subseteq Nat /\ TimePerToken \in Nat /\ BurstSize \in Nat
  /\ Boot \in Nat /\ MaxNow \in Nat /\ Word \in Nat /\ Boot <= MaxNow
  /\ timePerBurst \in 0..Word - 1 /\ MaxNow < Word
  /\ \A l \in Lengths : l * TimePerToken \in 0..Word - 1 - MaxNow
ASSUME ClockNotNone == None \notin Nat

(* Addition and subtraction of uint64_t.                                   *)
Plus(a, b) == IF a + b < Word THEN a + b ELSE a + b - Word
Minus(a, b) == IF b <= a THEN a - b ELSE a - b + Word

VARIABLES
  now,                        \* steady_clock
  time,                       \* time_
  pc, clock, need, old, new,  \* consume: its local variables
  start, spent                \* history: a window of time, and what was granted in it

localVars == <<pc, clock, need, old, new>>
vars == <<now, time, localVars, start, spent>>

Init ==
  /\ now = Boot /\ time = 0
  /\ pc = [t \in Threads |-> "idle"]
  /\ clock = [t \in Threads |-> 0] /\ need = [t \in Threads |-> 0]
  /\ old = [t \in Threads |-> 0] /\ new = [t \in Threads |-> 0]
  /\ start = None /\ spent = 0

Tick ==
  /\ now < MaxNow /\ now' = now + 1
  /\ UNCHANGED <<time, localVars, start, spent>>

(* consume is called, and reads the clock.                                 *)
Consume(t, length) ==
  /\ pc[t] = "idle"
  /\ pc' = [pc EXCEPT ![t] = "load"]
  /\ clock' = [clock EXCEPT ![t] = now]
  /\ need' = [need EXCEPT ![t] = length * TimePerToken]
  /\ UNCHANGED <<now, time, old, new, start, spent>>

(* Mutant of Load: the credit of an idle bucket is not limited.            *)
LoadUnclamped(t) ==
  /\ pc[t] = "load"
  /\ pc' = [pc EXCEPT ![t] = "try"]
  /\ old' = [old EXCEPT ![t] = time] /\ new' = [new EXCEPT ![t] = time]
  /\ UNCHANGED <<now, time, clock, need, start, spent>>

(* oldTime is loaded, and newTime starts from minTime or from it.          *)
Load(t) ==
  LET minTime == Minus(clock[t], timePerBurst) IN
  /\ pc[t] = "load"
  /\ pc' = [pc EXCEPT ![t] = "try"]
  /\ old' = [old EXCEPT ![t] = time]
  /\ new' = [new EXCEPT ![t] = IF minTime > time THEN minTime ELSE time]
  /\ UNCHANGED <<now, time, clock, need, start, spent>>

(* Mutant of Refuse: off by one.                                           *)
RefuseEarly(t) ==
  /\ pc[t] = "try" /\ Plus(new[t], need[t]) >= clock[t]
  /\ pc' = [pc EXCEPT ![t] = "refused"]
  /\ UNCHANGED <<now, time, clock, need, old, new, start, spent>>

(* newTime > now: consume returns false.                                   *)
Refuse(t) ==
  /\ pc[t] = "try" /\ Plus(new[t], need[t]) > clock[t]
  /\ pc' = [pc EXCEPT ![t] = "refused"]
  /\ UNCHANGED <<now, time, clock, need, old, new, start, spent>>

(* After usleep, HandleRequest calls consume again for the same tokens.    *)
Again(t) ==
  /\ pc[t] = "refused"
  /\ pc' = [pc EXCEPT ![t] = "load"]
  /\ clock' = [clock EXCEPT ![t] = now]
  /\ UNCHANGED <<now, time, need, old, new, start, spent>>

(* Mutant of Exchange: time_ is stored whatever it has become.             *)
StoreTime(t) ==
  /\ pc[t] = "try" /\ Plus(new[t], need[t]) <= clock[t]
  /\ time' = Plus(new[t], need[t]) /\ pc' = [pc EXCEPT ![t] = "idle"]
  /\ spent' = IF start = None THEN spent ELSE spent + need[t]
  /\ UNCHANGED <<now, clock, need, old, new, start>>

(* compare_exchange succeeds and consume returns true.                     *)
Exchange(t) ==
  /\ pc[t] = "try" /\ Plus(new[t], need[t]) <= clock[t] /\ time = old[t]
  /\ time' = Plus(new[t], need[t]) /\ pc' = [pc EXCEPT ![t] = "idle"]
  /\ spent' = IF start = None THEN spent ELSE spent + need[t]
  /\ UNCHANGED <<now, clock, need, old, new, start>>

(* compare_exchange fails and loads oldTime; newTime starts from it.       *)
ExchangeFails(t) ==
  /\ pc[t] = "try" /\ Plus(new[t], need[t]) <= clock[t] /\ time # old[t]
  /\ old' = [old EXCEPT ![t] = time] /\ new' = [new EXCEPT ![t] = time]
  /\ UNCHANGED <<now, time, pc, clock, need, start, spent>>

(* A window begins to be watched, at any moment at which no call of        *)
(* consume is under way (a caller that was refused sleeps).                *)
OpenWindow ==
  /\ start = None /\ start' = now
  /\ \A t \in Threads : pc[t] \in {"idle", "refused"}
  /\ UNCHANGED <<now, time, localVars, spent>>

ThreadStep(t) ==
  \/ \E length \in Lengths : Consume(t, length)
  \/ Load(t) \/ Refuse(t) \/ Again(t) \/ Exchange(t) \/ ExchangeFails(t)

Next == Tick \/ OpenWindow \/ \E t \in Threads : ThreadStep(t)

Spec == Init /\ [][Next]_vars
----------------------------------------------------------------------------
(* Properties.                                                             *)

(* Every variable keeps its type; time_ and the clocks read are never      *)
(* ahead of the clock.                                                     *)
TypeOK ==
  /\ now \in 0..MaxNow /\ time \in 0..now
  /\ pc \in [Threads -> {"idle", "load", "try", "refused"}]
  /\ clock \in [Threads -> 0..now]
  /\ need \in [Threads -> 0..Word - 1 - MaxNow]
  /\ old \in [Threads -> 0..now] /\ new \in [Threads -> 0..now]
  /\ start \in (0..now) \cup {None} /\ spent \in Nat

(* The rate limit: in any window of time that begins between two calls of  *)
(* consume a queue pair is granted at most the burst and what the rate     *)
(* gives in that time, however many callers race in compare_exchange.      *)
RateBound == start # None => spent <= timePerBurst + (now - start)

(* No grant is lost by another one: time_ never goes back, and every grant *)
(* moves it forward by the tokens that were granted.                       *)
GrantsAccounted ==
  [][/\ time' >= time
     /\ \A t \in Threads : pc[t] = "try" /\ pc'[t] = "idle" => time' >= time + need[t]]_vars

(* The wait of HandleRequest ends: a caller is not refused by a bucket     *)
(* that was full when it looked.                                           *)
FullBucketGrants ==
  \A t \in Threads : pc[t] = "refused" => old[t] + timePerBurst > clock[t]
=============================================================================
