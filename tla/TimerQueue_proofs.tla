-------------------------- MODULE TimerQueue_proofs --------------------------
(***************************************************************************)
(* Proofs about TimerQueue, for any delays and any number of timers.       *)
(***************************************************************************)
EXTENDS TimerQueue, TLAPS

(* What is known of the key under which a timer waits: it is the timer's   *)
(* next_timeout_, except for a timer added with a zero delay, and it lies  *)
(* at least the delay after the timer was last armed.                      *)
Keys ==
    \A e \in events :
        /\ e[1] = next[e[2]] \/ msec[e[2]] = 0
        /\ e[1] >= base[e[2]] + msec[e[2]]

(* A removed timer is gone from timers_, and from events_ as well unless   *)
(* its delay was zero.                                                     *)
Gone ==
    /\ \A i \in removed : i \notin timers
    /\ \A e \in events : e[2] \in removed => msec[e[2]] = 0

(* A timer fired in this pass waits beyond it. *)
Pass ==
    pc = "fire" =>
        /\ point <= now
        /\ \A e \in events : e[2] \in passed => e[1] > point

IInv == TypeOK /\ QueuesAgree /\ Keys /\ Gone /\ Pass

-----------------------------------------------------------------------------
(* An entry of events_ is a pair of a time and a known identifier. *)
LEMMA EventShape ==
  ASSUME TypeOK, NEW e \in events
  PROVE  e[1] \in Nat /\ e[2] \in 1..last /\ e[2] \in Id /\ e = <<e[1], e[2]>>
BY BoundAssumption DEF TypeOK, Id

(* The interval is positive and no shorter than the delay. *)
LEMMA IntervalFacts ==
  ASSUME NEW ms \in Nat
  PROVE  Interval(ms) \in Nat /\ Interval(ms) > 0 /\ Interval(ms) >= ms
         /\ (ms # 0 => Interval(ms) = ms)
BY DEF Interval

(* AddTimer preserves the invariant. *)
LEMMA AddTimerIInv ==
  ASSUME IInv, NEW ms \in Delay, AddTimer(ms) PROVE IInv'
<1> USE DEF AddTimer, FirstKey, queueVars, loopVars, Unlocked
<1> DEFINE i == last + 1
           g == <<now + ms, i>>
<1>1. TypeOK /\ QueuesAgree /\ Keys /\ Gone /\ Pass /\ ms \in Nat
  BY DelayAssumption DEF IInv
<1>2. /\ i \in Id /\ i \notin 1..last /\ last' = i /\ now \in Nat
      /\ 1..last \subseteq 1..last' /\ i \in 1..last'
  BY <1>1, BoundAssumption DEF TypeOK, Id
<1>3. Interval(ms) \in Nat /\ (ms # 0 => Interval(ms) = ms)
  BY <1>1, IntervalFacts
<1>4. \A e \in events : e[1] \in Nat /\ e[2] \in 1..last /\ e[2] \in Id /\ e[2] # i
  BY <1>1, <1>2, EventShape
<1>5. g[1] = now + ms /\ g[2] = i /\ events' = events \cup {g}
  BY <1>2
<1>6. /\ \A j \in Id \ {i} : msec'[j] = msec[j] /\ next'[j] = next[j] /\ base'[j] = base[j]
      /\ msec'[i] = ms /\ next'[i] = now + Interval(ms) /\ base'[i] = now
  BY <1>1, <1>2 DEF TypeOK
<1>7. TypeOK'
  <2>1. msec' \in [Id -> Nat] /\ next' \in [Id -> Nat] /\ base' \in [Id -> Nat]
    BY <1>1, <1>2, <1>3 DEF TypeOK
  <2>2. events' \subseteq Nat \X (1..last')
    BY <1>1, <1>2, <1>5 DEF TypeOK
  <2>3. /\ timers' \subseteq 1..last' /\ removed' \subseteq 1..last'
        /\ passed' \subseteq 1..last'
    BY <1>1, <1>2 DEF TypeOK
  <2>4. now' \in 0..MaxTime /\ last' \in 0..MaxTimers
    BY <1>1, <1>2, BoundAssumption DEF TypeOK, Id
  <2> QED
    BY <1>1, <2>1, <2>2, <2>3, <2>4 DEF TypeOK
<1>8. QueuesAgree'
  <2>1. \A j \in timers' : \E e \in events' : e[2] = j
    BY <1>1, <1>2, <1>5 DEF QueuesAgree
  <2>2. \A e, f \in events' : e[2] = f[2] => e = f
    BY <1>1, <1>4, <1>5 DEF QueuesAgree
  <2>3. \A e \in events' : e[2] \in timers' \/ (msec'[e[2]] = 0 /\ e[2] \in removed')
    BY <1>1, <1>2, <1>4, <1>5, <1>6 DEF QueuesAgree
  <2> QED
    BY <2>1, <2>2, <2>3 DEF QueuesAgree
<1>9. Keys'
  BY <1>1, <1>2, <1>3, <1>4, <1>5, <1>6 DEF Keys
<1>10. Gone'
  BY <1>1, <1>2, <1>4, <1>5, <1>6 DEF Gone, TypeOK
<1>11. Pass'
  BY DEF Pass
<1> QED
  BY <1>7, <1>8, <1>9, <1>10, <1>11 DEF IInv

(* RemoveTimer preserves the invariant. *)
LEMMA RemoveTimerIInv ==
  ASSUME IInv, NEW i \in Id, RemoveTimer(i) PROVE IInv'
<1> USE DEF RemoveTimer, EventsWithout, queueVars, loopVars, Unlocked
<1>1. TypeOK /\ QueuesAgree /\ Keys /\ Gone /\ Pass
  BY DEF IInv
<1>2. \A e \in events : e[1] \in Nat /\ e[2] \in 1..last /\ e = <<e[1], e[2]>>
  BY <1>1, EventShape
<1>3. events' \subseteq events /\ i \in 1..last
  BY <1>1 DEF Id, TypeOK
<1>4. TypeOK'
  BY <1>1, <1>3 DEF TypeOK
<1>5. \A e \in events' : e[2] = i => msec[i] = 0
  BY <1>1, <1>2 DEF Keys, QueuesAgree
<1>6. QueuesAgree'
  <2>1. \A j \in timers' : \E e \in events' : e[2] = j
    <3> SUFFICES ASSUME NEW j \in timers' PROVE \E e \in events' : e[2] = j
      OBVIOUS
    <3>1. j \in timers /\ j # i
      OBVIOUS
    <3>2. PICK e \in events : e[2] = j
      BY <1>1, <3>1 DEF QueuesAgree
    <3>3. e # <<next[i], i>>
      BY <3>1, <3>2
    <3> QED
      BY <3>2, <3>3
  <2>2. \A e, f \in events' : e[2] = f[2] => e = f
    BY <1>1, <1>3 DEF QueuesAgree
  <2>3. \A e \in events' : e[2] \in timers' \/ (msec'[e[2]] = 0 /\ e[2] \in removed')
    BY <1>1, <1>3, <1>5 DEF QueuesAgree
  <2> QED
    BY <2>1, <2>2, <2>3 DEF QueuesAgree
<1>7. Keys'
  BY <1>1, <1>3 DEF Keys
<1>8. Gone'
  BY <1>1, <1>3, <1>5 DEF Gone
<1>9. Pass'
  BY <1>1, <1>3 DEF Pass
<1> QED
  BY <1>4, <1>6, <1>7, <1>8, <1>9 DEF IInv

(* Running a callback that returns true preserves the invariant. *)
LEMMA FireAgainIInv ==
  ASSUME IInv, NEW e \in events, FireAgain(e) PROVE IInv'
<1> USE DEF FireAgain, Due, IsFirst, queueVars, loopVars
<1> DEFINE i == e[2]
           t == point + Interval(msec[i])
           g == <<t, i>>
<1>1. TypeOK /\ QueuesAgree /\ Keys /\ Gone /\ Pass
  BY DEF IInv
<1>2. i \in Id /\ i \in 1..last /\ e[1] \in Nat /\ point \in Nat /\ msec[i] \in Nat
  BY <1>1, EventShape DEF TypeOK
<1>3. t \in Nat /\ t > point /\ t >= point + msec[i]
  BY <1>2, IntervalFacts
<1>4. \A f \in events : f[1] \in Nat /\ f[2] \in Id /\ f[2] \in 1..last
  BY <1>1, EventShape
<1>5. /\ \A j \in Id \ {i} : next'[j] = next[j] /\ base'[j] = base[j]
      /\ next'[i] = t /\ base'[i] = point
  BY <1>1, <1>2 DEF TypeOK
<1>6. events' = (events \ {e}) \cup {g} /\ g[1] = t /\ g[2] = i
  BY <1>5
<1>7. \A f \in events \ {e} : f[2] # i
  BY <1>1 DEF QueuesAgree
<1>8. TypeOK'
  <2>1. next' \in [Id -> Nat] /\ base' \in [Id -> Nat]
    BY <1>1, <1>2, <1>3 DEF TypeOK
  <2>2. events' \subseteq Nat \X (1..last)
    BY <1>1, <1>2, <1>3, <1>6 DEF TypeOK
  <2>3. passed' \subseteq 1..last
    BY <1>1, <1>2 DEF TypeOK
  <2> QED
    BY <1>1, <2>1, <2>2, <2>3 DEF TypeOK
<1>9. QueuesAgree'
  <2>1. \A j \in timers' : \E f \in events' : f[2] = j
    BY <1>1, <1>6 DEF QueuesAgree
  <2>2. \A f, k \in events' : f[2] = k[2] => f = k
    BY <1>1, <1>6, <1>7 DEF QueuesAgree
  <2>3. \A f \in events' : f[2] \in timers' \/ (msec'[f[2]] = 0 /\ f[2] \in removed')
    BY <1>1, <1>6 DEF QueuesAgree
  <2> QED
    BY <2>1, <2>2, <2>3 DEF QueuesAgree
<1>10. Keys'
  BY <1>1, <1>2, <1>3, <1>4, <1>5, <1>6, <1>7 DEF Keys
<1>11. Gone'
  BY <1>1, <1>6 DEF Gone
<1>12. Pass'
  BY <1>1, <1>3, <1>6, <1>7 DEF Pass
<1> QED
  BY <1>8, <1>9, <1>10, <1>11, <1>12 DEF IInv

(* Running a callback that returns false preserves the invariant. *)
LEMMA FireLastIInv ==
  ASSUME IInv, NEW e \in events, FireLast(e) PROVE IInv'
<1> USE DEF FireLast, TimersWithout, Due, IsFirst, queueVars, loopVars
<1>1. TypeOK /\ QueuesAgree /\ Keys /\ Gone /\ Pass
  BY DEF IInv
<1>2. e[2] \in 1..last
  BY <1>1, EventShape
<1>3. \A f \in events' : f \in events /\ f[2] # e[2]
  BY <1>1 DEF QueuesAgree
<1>4. TypeOK'
  BY <1>1, <1>2 DEF TypeOK
<1>5. QueuesAgree'
  BY <1>1, <1>3 DEF QueuesAgree
<1>6. Keys' /\ Gone' /\ Pass'
  BY <1>1, <1>3 DEF Keys, Gone, Pass
<1> QED
  BY <1>4, <1>5, <1>6 DEF IInv

(* The steps that leave the two maps alone preserve the invariant. *)
LEMMA OtherIInv ==
  ASSUME IInv,
         \/ Tick \/ CheckTimers \/ LockQueue \/ FireEnd \/ GetTimeRemaining
         \/ Sleep \/ Timeout \/ Wakeup \/ UNCHANGED vars
  PROVE  IInv'
<1> USE DEF queueVars, loopVars
<1>1. TypeOK /\ QueuesAgree /\ Keys /\ Gone /\ Pass
  BY DEF IInv
<1>2. UNCHANGED <<queueVars, base, removed>>
  BY DEF Tick, CheckTimers, LockQueue, FireEnd, GetTimeRemaining, Sleep, Timeout,
     Wakeup, vars
<1>3. TypeOK'
  <2>1. wait' \in Nat \cup {Forever}
    <3>1. CASE GetTimeRemaining
      BY <1>1, <3>1, EventShape DEF GetTimeRemaining, Clamp, TypeOK
    <3>2. CASE ~ GetTimeRemaining
      BY <1>1, <3>2 DEF TypeOK, Tick, CheckTimers, LockQueue, FireEnd, Sleep,
         Timeout, Wakeup, vars
    <3> QED
      BY <3>1, <3>2
  <2>2. until' \in Nat \cup {Forever}
    BY <1>1 DEF TypeOK, Tick, CheckTimers, LockQueue, FireEnd, GetTimeRemaining,
       Sleep, Timeout, Wakeup, vars
  <2>3. now' \in 0..MaxTime /\ point' \in Nat
    BY <1>1, BoundAssumption DEF TypeOK, Tick, CheckTimers, LockQueue, FireEnd,
       GetTimeRemaining, Sleep, Timeout, Wakeup, vars
  <2>4. /\ pc' \in {"check", "lock", "fire", "remaining", "sleep", "epoll"}
        /\ passed' \subseteq 1..last
    BY <1>1 DEF TypeOK, Tick, CheckTimers, LockQueue, FireEnd, GetTimeRemaining,
       Sleep, Timeout, Wakeup, vars
  <2> QED
    BY <1>1, <1>2, <2>1, <2>2, <2>3, <2>4 DEF TypeOK
<1>4. QueuesAgree' /\ Keys' /\ Gone'
  BY <1>1, <1>2 DEF QueuesAgree, Keys, Gone
<1>5. Pass'
  BY <1>1, <1>2 DEF TypeOK, Pass, Tick, CheckTimers, LockQueue, FireEnd,
     GetTimeRemaining, Sleep, Timeout, Wakeup, vars
<1> QED
  BY <1>3, <1>4, <1>5 DEF IInv

-----------------------------------------------------------------------------
(* The strengthened invariant holds in every reachable state. *)
LEMMA Invariance == Spec => []IInv
<1>1. Init => IInv
  BY BoundAssumption
  DEF Init, IInv, TypeOK, QueuesAgree, Keys, Gone, Pass, Forever
<1>2. IInv /\ [Next]_vars => IInv'
  BY AddTimerIInv, RemoveTimerIInv, FireAgainIInv, FireLastIInv, OtherIInv
  DEF Next, Loop, Fire
<1> QED
  BY <1>1, <1>2, PTL DEF Spec

(* The queue's maps, clock and counters stay in range.                     *)
THEOREM TypeCorrect == Spec => []TypeOK
<1>1. IInv => TypeOK
  BY DEF IInv
<1> QED
  BY <1>1, Invariance, PTL

(* timers_ and events_ never drift apart, so events_.begin() is always     *)
(* there when HandleTimerEvent and GetTimeRemaining dereference it.        *)
THEOREM Agreement == Spec => []QueuesAgree
<1>1. IInv => QueuesAgree
  BY DEF IInv
<1> QED
  BY <1>1, Invariance, PTL

(* Which step runs a callback, and of which timer. *)
LEMMA WhoFires ==
  ASSUME IInv, [Next]_vars, NEW i \in Id, Fires(i)
  PROVE  \E e \in events : e[2] = i /\ e[1] <= point /\ pc = "fire"
<1>1. PICK e \in events : e[2] = i /\ e \notin events' /\ pc = "fire"
  BY DEF Fires
<1>2. CASE Fire
  <2>1. PICK f \in events : FireAgain(f) \/ FireLast(f)
    BY <1>2 DEF Fire
  <2>2. f = e
    BY <1>1, <2>1 DEF FireAgain, FireLast
  <2> QED
    BY <1>1, <2>1, <2>2 DEF FireAgain, FireLast, Due
<1>3. CASE ~ Fire
  BY <1>1, <1>3
  DEF Next, Loop, Tick, AddTimer, RemoveTimer, Unlocked, CheckTimers, LockQueue,
      FireEnd, GetTimeRemaining, Sleep, Timeout, Wakeup, vars, queueVars
<1> QED
  BY <1>2, <1>3

(* What holds of a timer whose callback runs.                              *)
LEMMA FiringFacts ==
  ASSUME IInv, [Next]_vars, NEW i \in Id, Fires(i)
  PROVE  /\ now >= base[i] + msec[i]
         /\ i \in removed => msec[i] = 0
         /\ i \notin passed
<1>1. PICK e \in events : e[2] = i /\ e[1] <= point /\ pc = "fire"
  BY WhoFires
<1>2. /\ e[1] \in Nat /\ point \in Nat /\ now \in Nat
      /\ base[i] \in Nat /\ msec[i] \in Nat
  BY EventShape, BoundAssumption DEF IInv, TypeOK
<1>3. e[1] >= base[i] + msec[i] /\ point <= now
  BY <1>1 DEF IInv, Keys, Pass
<1>4. i \in removed => msec[i] = 0
  BY <1>1 DEF IInv, Gone
<1>5. i \notin passed
  BY <1>1, <1>2 DEF IInv, Pass
<1> QED
  BY <1>1, <1>2, <1>3, <1>4, <1>5

(* A callback never runs before its delay has passed.                      *)
THEOREM FiresInTime == Spec => NeverEarly
<1>1. IInv /\ [Next]_vars => [\A i \in Id : Fires(i) => now >= base[i] + msec[i]]_vars
  BY FiringFacts
<1> QED
  BY <1>1, Invariance, PTL DEF Spec, NeverEarly

(* A callback does not run once RemoveTimer has returned, unless the delay *)
(* was zero.                                                               *)
THEOREM RemovedIsQuiet == Spec => RemovedStaysQuiet
<1>1. IInv /\ [Next]_vars => [\A i \in Id : Fires(i) /\ i \in removed => msec[i] = 0]_vars
  BY FiringFacts
<1> QED
  BY <1>1, Invariance, PTL DEF Spec, RemovedStaysQuiet

(* A callback runs at most once in a pass of HandleTimerEvent.             *)
THEOREM FiresOnce == Spec => OncePerPass
<1>1. IInv /\ [Next]_vars => [\A i \in Id : Fires(i) => i \notin passed]_vars
  BY FiringFacts
<1> QED
  BY <1>1, Invariance, PTL DEF Spec, OncePerPass

(* The timeout that GetTimeRemaining gives to epoll_wait ends no later     *)
(* than the first timer is due, and is never the one that means forever    *)
(* while there is a timer.                                                 *)
THEOREM ShortSleep == Spec => SleepIsShort
<1> DEFINE Short == pc = "remaining" /\ pc' = "sleep" =>
                      \A e \in events : e[2] \in timers =>
                         wait' # Forever /\ (wait' = 0 \/ now + wait' <= e[1])
<1>1. IInv /\ [Next]_vars => [Short]_vars
  <2> SUFFICES ASSUME IInv, [Next]_vars, pc = "remaining", pc' = "sleep",
                      NEW f \in events, f[2] \in timers
               PROVE  wait' # Forever /\ (wait' = 0 \/ now + wait' <= f[1])
    OBVIOUS
  <2>1. GetTimeRemaining
    BY DEF Next, Loop, Tick, AddTimer, RemoveTimer, CheckTimers, LockQueue, Fire, FireAgain,
           FireLast, FireEnd, Sleep, Timeout, Wakeup, vars, loopVars
  <2>2. PICK e \in events : IsFirst(e) /\ wait' = Clamp(e[1] - now)
    BY <2>1 DEF GetTimeRemaining
  <2>3. e[1] \in Nat /\ f[1] \in Nat /\ now \in Nat
    BY EventShape, BoundAssumption DEF IInv, TypeOK
  <2>4. e[1] <= f[1]
    BY <2>2, <2>3 DEF IsFirst
  <2> QED
    BY <2>2, <2>3, <2>4 DEF Clamp, Forever
<1> QED
  BY <1>1, Invariance, PTL DEF Spec, SleepIsShort
=============================================================================
