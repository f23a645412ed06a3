-------------------------- MODULE TokenBucketProofs --------------------------
(***************************************************************************)
(* The rate limit of TokenBucket, for every rate, burst and length.        *)
(***************************************************************************)
EXTENDS TokenBucket, TLAPS

(* What the theorems suppose of the program: the machine has been up for   *)
(* a burst's time when the queue pair is created, so that minTime does not *)
(* wrap.                                                                   *)
UpLongEnough == timePerBurst <= Boot

(* The types, and that the clocks in use were read since the creation.     *)
Typed ==
  /\ TypeOK /\ now >= Boot
  /\ \A t \in Threads : pc[t] # "idle" => clock[t] >= Boot

(* A caller that is about to exchange starts from the time_ it loaded or   *)
(* from a later instant.                                                   *)
Loaded == \A t \in Threads : pc[t] = "try" => new[t] >= old[t]

(* The calls under way began in the window, so they start from no earlier  *)
(* than the burst before it.  A caller whose compare_exchange failed is no *)
(* exception, although it has not looked at its minTime again.             *)
InWindow ==
  start # None =>
    \A t \in Threads :
      /\ pc[t] \in {"load", "try"} => clock[t] >= start
      /\ pc[t] = "try" => new[t] >= start - timePerBurst

(* The argument for the rate: the grants of the window have moved time_    *)
(* from the burst before the window to behind the clock.  Until there is   *)
(* one, time_ is what every caller has loaded.                             *)
Credit ==
  start # None =>
    \/ time >= start - timePerBurst + spent
    \/ spent = 0 /\ \A t \in Threads : pc[t] = "try" => time = old[t]
NotYet == start = None => spent = 0

LEMMA Constants ==
  /\ timePerBurst \in Nat /\ Boot \in Nat /\ MaxNow \in Nat /\ Word \in Nat
  /\ timePerBurst < Word /\ MaxNow < Word /\ Boot <= MaxNow
  /\ \A l \in Lengths : l * TimePerToken \in 0..Word - 1 - MaxNow
BY TimeAssumption

(* No uint64_t of consume wraps once the machine is up long enough.        *)
LEMMA InitTyped == Init => Typed /\ Loaded
BY Constants DEF Init, TypeOK, Typed, Loaded

LEMMA NextTyped ==
  ASSUME UpLongEnough, Typed, [Next]_vars
  PROVE  Typed'
<1> USE Constants, ClockNotNone
<1>1. CASE Tick
  BY <1>1 DEF Tick, Typed, TypeOK, localVars
<1>2. CASE OpenWindow
  BY <1>2 DEF OpenWindow, Typed, TypeOK, localVars
<1>3. CASE \E t \in Threads : ThreadStep(t)
  <2>1. PICK t \in Threads : ThreadStep(t)
    BY Zenon, <1>3
  <2>2. CASE \E length \in Lengths : Consume(t, length)
    <3>1. PICK length \in Lengths : Consume(t, length)
      BY Zenon, <2>2
    <3>2. length * TimePerToken \in 0..Word - 1 - MaxNow
      BY Zenon
    <3> QED
      BY <3>1, <3>2 DEF Consume, Typed, TypeOK
  <2>3. CASE Load(t)
    <3>1. clock[t] >= Boot /\ clock[t] \in 0..now /\ now \in Nat
      BY <2>3 DEF Load, Typed, TypeOK
    <3>2. Minus(clock[t], timePerBurst) \in 0..now
      BY <3>1 DEF Minus, UpLongEnough
    <3> QED
      BY Zenon, <2>3, <3>2 DEF Load, Typed, TypeOK
  <2>4. CASE Refuse(t)
    BY Zenon, <2>4 DEF Refuse, Typed, TypeOK
  <2>5. CASE Again(t)
    BY <2>5 DEF Again, Typed, TypeOK
  <2>6. CASE Exchange(t)
    <3>1. Plus(new[t], need[t]) = new[t] + need[t]
      BY DEF Plus, Typed, TypeOK
    <3>2. time' \in 0..now /\ spent' \in Nat
      BY <2>6, <3>1 DEF Exchange, Typed, TypeOK
    <3> QED
      BY Zenon, <2>6, <3>2 DEF Exchange, Typed, TypeOK
  <2>7. CASE ExchangeFails(t)
    BY Zenon, <2>7 DEF ExchangeFails, Typed, TypeOK
  <2> QED
    BY Zenon, <2>1, <2>2, <2>3, <2>4, <2>5, <2>6, <2>7 DEF ThreadStep
<1>4. CASE UNCHANGED vars
  BY Zenon, <1>4 DEF vars, localVars, Typed, TypeOK
<1> QED
  BY Zenon, <1>1, <1>2, <1>3, <1>4 DEF Next

LEMMA NextLoaded ==
  ASSUME Typed, Loaded, [Next]_vars
  PROVE  Loaded'
<1> USE Constants
<1>1. CASE Tick \/ OpenWindow \/ UNCHANGED vars
  BY Zenon, <1>1 DEF Tick, OpenWindow, vars, localVars, Loaded
<1>2. CASE \E t \in Threads : ThreadStep(t)
  <2>1. PICK t \in Threads : ThreadStep(t)
    BY Zenon, <1>2
  <2>2. CASE Load(t)
    <3>1. time \in Nat /\ Minus(clock[t], timePerBurst) \in Int
      BY DEF Minus, Typed, TypeOK
    <3> QED
      BY <2>2, <3>1 DEF Load, Loaded, Typed, TypeOK
  <2>3. CASE ExchangeFails(t)
    BY <2>3 DEF ExchangeFails, Loaded, Typed, TypeOK
  <2>4. CASE Refuse(t) \/ Again(t) \/ Exchange(t)
    BY Zenon, <2>4 DEF Refuse, Again, Exchange, Loaded, Typed, TypeOK
  <2>5. CASE \E length \in Lengths : Consume(t, length)
    BY Zenon, <2>5 DEF Consume, Loaded, Typed, TypeOK
  <2> QED
    BY Zenon, <2>1, <2>2, <2>3, <2>4, <2>5 DEF ThreadStep
<1> QED
  BY Zenon, <1>1, <1>2 DEF Next

(* For any number of callers: the types, with time_ never ahead of the     *)
(* clock, whichever compare_exchange of consume succeeds.                  *)
THEOREM TypeCorrect == ASSUME UpLongEnough PROVE Spec => []TypeOK
<1>1. Init => Typed
  BY Zenon, InitTyped
<1>2. Typed /\ [Next]_vars => Typed'
  BY Zenon, NextTyped
<1>3. Typed => TypeOK
  BY Zenon DEF Typed
<1> QED
  BY <1>1, <1>2, <1>3, PTL DEF Spec

(* For any number of callers: no grant of consume is lost by another one.  *)
THEOREM NoGrantLost == ASSUME UpLongEnough PROVE Spec => GrantsAccounted
<1> DEFINE A == /\ time' >= time
                /\ \A t \in Threads : pc[t] = "try" /\ pc'[t] = "idle" => time' >= time + need[t]
<1>1. Init => Typed /\ Loaded
  BY Zenon, InitTyped
<1>2. Typed /\ Loaded /\ [Next]_vars => Typed' /\ Loaded'
  BY Zenon, NextTyped, NextLoaded
<1>3. Typed /\ Loaded /\ [Next]_vars => [A]_vars
  <2> SUFFICES ASSUME Typed, Loaded, Next PROVE A
    BY Zenon
  <2> USE Constants
  <2>1. CASE Tick \/ OpenWindow
    BY <2>1 DEF Tick, OpenWindow, localVars, Typed, TypeOK
  <2>2. CASE \E t \in Threads : ThreadStep(t)
    <3>1. PICK t \in Threads : ThreadStep(t)
      BY Zenon, <2>2
    <3>2. CASE Exchange(t)
      <4>1. time' = new[t] + need[t] /\ new[t] >= time
        BY <3>2 DEF Exchange, Plus, Loaded, Typed, TypeOK
      <4> QED
        BY <3>2, <4>1 DEF Exchange, Typed, TypeOK
    <3>3. CASE \E length \in Lengths : Consume(t, length)
      BY <3>3 DEF Consume, Typed, TypeOK
    <3>4. CASE Load(t) \/ Refuse(t) \/ Again(t) \/ ExchangeFails(t)
      BY <3>4 DEF Load, Refuse, Again, ExchangeFails, Typed, TypeOK
    <3> QED
      BY Zenon, <3>1, <3>2, <3>3, <3>4 DEF ThreadStep
  <2> QED
    BY Zenon, <2>1, <2>2 DEF Next
<1> QED
  BY <1>1, <1>2, <1>3, PTL DEF Spec, GrantsAccounted

LEMMA NextInWindow ==
  ASSUME UpLongEnough, Typed, InWindow, Credit, [Next]_vars
  PROVE  InWindow'
<1> USE Constants, ClockNotNone
<1>1. CASE Tick \/ UNCHANGED vars
  BY Zenon, <1>1 DEF Tick, vars, localVars, InWindow
<1>2. CASE OpenWindow
  BY Zenon, <1>2 DEF OpenWindow, localVars, InWindow
<1>3. CASE \E t \in Threads : ThreadStep(t)
  <2>1. PICK t \in Threads : ThreadStep(t)
    BY Zenon, <1>3
  <2>2. CASE Load(t)
    <3>1. Minus(clock[t], timePerBurst) = clock[t] - timePerBurst
      BY <2>2 DEF Load, Minus, UpLongEnough, Typed, TypeOK
    <3> QED
      BY <2>2, <3>1 DEF Load, InWindow, Typed, TypeOK
  <2>3. CASE ExchangeFails(t)
    <3>1. start # None => time >= start - timePerBurst
      BY <2>3 DEF ExchangeFails, Credit, Typed, TypeOK
    <3> QED
      BY Zenon, <2>3, <3>1 DEF ExchangeFails, InWindow, Typed, TypeOK
  <2>4. CASE Refuse(t) \/ Again(t) \/ Exchange(t)
    BY <2>4 DEF Refuse, Again, Exchange, InWindow, Typed, TypeOK
  <2>5. CASE \E length \in Lengths : Consume(t, length)
    BY <2>5 DEF Consume, InWindow, Typed, TypeOK
  <2> QED
    BY Zenon, <2>1, <2>2, <2>3, <2>4, <2>5 DEF ThreadStep
<1> QED
  BY Zenon, <1>1, <1>2, <1>3 DEF Next

LEMMA NextCredit ==
  ASSUME Typed, Loaded, InWindow, Credit, NotYet, [Next]_vars
  PROVE  Credit' /\ NotYet'
<1> USE Constants, ClockNotNone
<1>1. CASE Tick \/ UNCHANGED vars
  BY Zenon, <1>1 DEF Tick, vars, localVars, Credit, NotYet
<1>2. CASE OpenWindow
  BY Zenon, <1>2 DEF OpenWindow, localVars, Credit, NotYet, Typed, TypeOK
<1>3. CASE \E t \in Threads : ThreadStep(t)
  <2>1. PICK t \in Threads : ThreadStep(t)
    BY Zenon, <1>3
  <2>2. CASE Exchange(t)
    <3>1. time' = new[t] + need[t] /\ new[t] >= time /\ start' = start
      BY <2>2 DEF Exchange, Plus, Loaded, Typed, TypeOK
    <3>2. CASE start = None
      BY Zenon, <2>2, <3>1, <3>2 DEF Exchange, Credit, NotYet
    <3>3. CASE start # None
      <4>1. spent' = spent + need[t] /\ new[t] >= start - timePerBurst
        BY Zenon, <2>2, <3>3 DEF Exchange, InWindow
      <4>2. time' >= start - timePerBurst + spent'
        BY <3>1, <3>3, <4>1 DEF Credit, Typed, TypeOK
      <4> QED
        BY Zenon, <3>1, <3>3, <4>2 DEF Credit, NotYet
    <3> QED
      BY Zenon, <3>2, <3>3
  <2>3. CASE \E length \in Lengths : Consume(t, length)
    BY Zenon, <2>3 DEF Consume, Credit, NotYet, Typed, TypeOK
  <2>4. CASE Load(t) \/ Refuse(t) \/ Again(t) \/ ExchangeFails(t)
    BY Zenon, <2>4 DEF Load, Refuse, Again, ExchangeFails, Credit, NotYet, Typed, TypeOK
  <2> QED
    BY Zenon, <2>1, <2>2, <2>3, <2>4 DEF ThreadStep
<1> QED
  BY Zenon, <1>1, <1>2, <1>3 DEF Next

(* The rate limit of a queue pair, for every rate, burst, length and       *)
(* number of callers: in any window that begins between calls consume      *)
(* grants at most the burst and what the rate gives.                       *)
THEOREM RateLimited == ASSUME UpLongEnough PROVE Spec => []RateBound
<1> DEFINE Inv == Typed /\ Loaded /\ InWindow /\ Credit /\ NotYet
<1>1. Init => Inv
  BY Zenon, InitTyped, ClockNotNone DEF Init, InWindow, Credit, NotYet
<1>2. Inv /\ [Next]_vars => Inv'
  BY Zenon, NextTyped, NextLoaded, NextInWindow, NextCredit
<1>3. Inv => RateBound
  BY Constants DEF RateBound, Credit, Typed, TypeOK
<1> QED
  BY <1>1, <1>2, <1>3, PTL DEF Spec

(* The lengths that HandleRequest asks for fit the burst.                  *)
FitsBurst == \A l \in Lengths : l * TimePerToken <= timePerBurst

(* A caller that is about to compare starts from the time_ it loaded or    *)
(* from a burst before its clock, and asks for no more than a burst.       *)
StartsFrom ==
  \A t \in Threads :
    /\ pc[t] # "idle" => need[t] <= timePerBurst
    /\ pc[t] = "try" => new[t] = old[t] \/ new[t] = clock[t] - timePerBurst

LEMMA NextStartsFrom ==
  ASSUME UpLongEnough, FitsBurst, Typed, StartsFrom, FullBucketGrants, [Next]_vars
  PROVE  StartsFrom' /\ FullBucketGrants'
<1> USE Constants
<1>1. CASE Tick \/ OpenWindow \/ UNCHANGED vars
  BY Zenon, <1>1 DEF Tick, OpenWindow, vars, localVars, StartsFrom, FullBucketGrants
<1>2. CASE \E t \in Threads : ThreadStep(t)
  <2>1. PICK t \in Threads : ThreadStep(t)
    BY Zenon, <1>2
  <2>2. CASE \E length \in Lengths : Consume(t, length)
    <3>1. PICK length \in Lengths : Consume(t, length)
      BY Zenon, <2>2
    <3>2. length * TimePerToken \in Nat /\ length * TimePerToken <= timePerBurst
      BY DEF FitsBurst
    <3> QED
      BY Zenon, <3>1, <3>2 DEF Consume, StartsFrom, FullBucketGrants, Typed, TypeOK
  <2>3. CASE Load(t)
    <3>1. Minus(clock[t], timePerBurst) = clock[t] - timePerBurst
      BY <2>3 DEF Load, Minus, UpLongEnough, Typed, TypeOK
    <3> QED
      BY Zenon, <2>3, <3>1 DEF Load, StartsFrom, FullBucketGrants, Typed, TypeOK
  <2>4. CASE Refuse(t)
    <3>1. new[t] + need[t] > clock[t]
      BY <2>4 DEF Refuse, Plus, Typed, TypeOK
    <3>2. old[t] + timePerBurst > clock[t]
      BY <2>4, <3>1 DEF Refuse, StartsFrom, Typed, TypeOK
    <3> QED
      BY Zenon, <2>4, <3>2 DEF Refuse, StartsFrom, FullBucketGrants, Typed, TypeOK
  <2>5. CASE Again(t) \/ Exchange(t) \/ ExchangeFails(t)
    BY <2>5 DEF Again, Exchange, ExchangeFails, StartsFrom, FullBucketGrants, Typed, TypeOK
  <2> QED
    BY Zenon, <2>1, <2>2, <2>3, <2>4, <2>5 DEF ThreadStep
<1> QED
  BY Zenon, <1>1, <1>2 DEF Next

(* For any number of callers and lengths up to the burst: consume does not *)
(* refuse a caller that found the bucket full, whatever the other callers  *)
(* of HandleRequest do meanwhile.                                          *)
THEOREM FullBucketAlwaysGrants ==
  ASSUME UpLongEnough, FitsBurst PROVE Spec => []FullBucketGrants
<1> DEFINE Inv == Typed /\ StartsFrom /\ FullBucketGrants
<1>1. Init => Inv
  BY Zenon, InitTyped DEF Init, StartsFrom, FullBucketGrants
<1>2. Inv /\ [Next]_vars => Inv'
  BY Zenon, NextTyped, NextStartsFrom
<1> QED
  BY <1>1, <1>2, PTL DEF Spec
=============================================================================
