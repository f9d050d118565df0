------------------------------ MODULE TimerQueue ------------------------------
(***************************************************************************)
(* xop::TimerQueue and the part of TaskScheduler::Start that drives it.    *)
(* Any thread adds and removes timers under the queue's mutex; the         *)
(* scheduler's thread looks whether there are timers without the mutex,    *)
(* then runs the due callbacks while it holds it, then computes how long   *)
(* epoll_wait may sleep.  Callbacks do not touch the queue: they would     *)
(* wait for the mutex that their own thread holds.                         *)
(***************************************************************************)
EXTENDS Integers, FiniteSets

CONSTANTS Delay,     \* values of msec that AddTimer is called with
          MaxTimers, \* bound: calls of AddTimer
          MaxTime    \* bound: the clock, in milliseconds

ASSUME DelayAssumption == Delay \subseteq Nat
ASSUME BoundAssumption == MaxTimers \in Nat /\ MaxTime \in Nat

Id == 1..MaxTimers

VARIABLES
    now,      \* steady_clock, in milliseconds
    last,     \* last_timer_id_
    timers,   \* keys of timers_
    events,   \* keys of events_: pairs <<timeout, id>>
    msec,     \* per id: the delay AddTimer was given
    next,     \* per id: Timer::next_timeout_
    pc,       \* the scheduler's thread; it holds the mutex at "fire"
    point,    \* timePoint of HandleTimerEvent
    wait,     \* the result of GetTimeRemaining
    until,    \* when epoll_wait returns at the latest
    base,     \* history: when each timer was added or last fired
    passed,   \* history: the timers fired since the mutex was taken
    removed   \* history: the timers RemoveTimer has been called for

vars == <<now, last, timers, events, msec, next, pc, point, wait, until, base,
          passed, removed>>
queueVars == <<last, timers, events, msec, next>>
loopVars == <<pc, point, wait, until, passed>>

Forever == -1

Init ==
    /\ now = 0 /\ last = 0 /\ timers = {} /\ events = {}
    /\ msec = [i \in Id |-> 0] /\ next = [i \in Id |-> 0]
    /\ pc = "check" /\ point = 0 /\ wait = Forever /\ until = Forever
    /\ base = [i \in Id |-> 0] /\ passed = {} /\ removed = {}

Tick == now < MaxTime /\ now' = now + 1 /\ UNCHANGED <<queueVars, loopVars, base, removed>>

-----------------------------------------------------------------------------
(* Faulty variant: a zero delay is kept as the interval.                   *)
BadInterval(ms) == ms

(* The Timer's constructor: interval_ is never zero.                       *)
Interval(ms) == IF ms = 0 THEN 1 ELSE ms

(* The mutex is free. *)
Unlocked == pc # "fire"

(* The first key in events_ uses ms, next_timeout_ uses the interval.      *)
FirstKey(ms) == now + ms

AddTimer(ms) ==
    /\ Unlocked /\ last < MaxTimers
    /\ last' = last + 1
    /\ timers' = timers \cup {last'}
    /\ msec' = [msec EXCEPT ![last'] = ms]
    /\ next' = [next EXCEPT ![last'] = now + Interval(ms)]
    /\ events' = events \cup {<<FirstKey(ms), last'>>}
    /\ base' = [base EXCEPT ![last'] = now]
    /\ UNCHANGED <<now, loopVars, removed>>

(* Faulty variant: the event stays behind.                                 *)
BadEventsWithout(i) == events

(* The event is erased by its next_timeout_, if the id is still known.     *)
EventsWithout(i) == IF i \in timers THEN events \ {<<next[i], i>>} ELSE events

RemoveTimer(i) ==
    /\ Unlocked /\ i <= last
    /\ events' = EventsWithout(i)
    /\ timers' = timers \ {i}
    /\ removed' = removed \cup {i}
    /\ UNCHANGED <<now, last, msec, next, loopVars, base>>

-----------------------------------------------------------------------------
(* The scheduler's thread *)

(* events_.begin(): the least timeout, then the least id.                  *)
IsFirst(e) ==
    /\ e \in events
    /\ \A f \in events : e[1] < f[1] \/ (e[1] = f[1] /\ e[2] <= f[2])

(* HandleTimerEvent: timers_.empty() is read without the mutex.            *)
CheckTimers ==
    /\ pc = "check"
    /\ pc' = IF timers = {} THEN "remaining" ELSE "lock"
    /\ UNCHANGED <<now, queueVars, point, wait, until, passed, base, removed>>

LockQueue ==
    /\ pc = "lock"
    /\ pc' = "fire" /\ point' = now /\ passed' = {}
    /\ UNCHANGED <<now, queueVars, wait, until, base, removed>>

Due(e) == pc = "fire" /\ timers # {} /\ IsFirst(e) /\ e[1] <= point

(* The callback returns true: the timer is armed again.                    *)
FireAgain(e) ==
    /\ Due(e)
    /\ next' = [next EXCEPT ![e[2]] = point + Interval(msec[e[2]])]
    /\ events' = (events \ {e}) \cup {<<next'[e[2]], e[2]>>}
    /\ base' = [base EXCEPT ![e[2]] = point]
    /\ passed' = passed \cup {e[2]}
    /\ UNCHANGED <<now, last, timers, msec, pc, point, wait, until, removed>>

(* Faulty variant: the timer stays in timers_.                             *)
BadTimersWithout(i) == timers

TimersWithout(i) == timers \ {i}

(* The callback returns false: the timer is gone.                          *)
FireLast(e) ==
    /\ Due(e)
    /\ events' = events \ {e}
    /\ timers' = TimersWithout(e[2])
    /\ passed' = passed \cup {e[2]}
    /\ UNCHANGED <<now, last, msec, next, pc, point, wait, until, base, removed>>

FireEnd ==
    /\ pc = "fire" /\ ~ \E e \in events : Due(e)
    /\ pc' = "remaining"
    /\ UNCHANGED <<now, queueVars, point, wait, until, passed, base, removed>>

(* Faulty variant: a negative remainder reaches epoll_wait, which takes it *)
(* for no timeout at all.                                                  *)
BadClamp(ms) == IF ms < 0 THEN Forever ELSE ms

Clamp(ms) == IF ms < 0 THEN 0 ELSE ms

GetTimeRemaining ==
    /\ pc = "remaining"
    /\ pc' = "sleep"
    /\ IF timers = {} THEN wait' = Forever
       ELSE \E e \in events : IsFirst(e) /\ wait' = Clamp(e[1] - now)
    /\ UNCHANGED <<now, queueVars, point, until, passed, base, removed>>

(* HandleEvent enters epoll_wait with that timeout ...                     *)
Sleep ==
    /\ pc = "sleep"
    /\ pc' = "epoll"
    /\ until' = IF wait = Forever THEN Forever ELSE now + wait
    /\ UNCHANGED <<now, queueVars, point, wait, passed, base, removed>>

(* ... which ends in time (the bounded clock stands still at MaxTime), ... *)
Timeout ==
    /\ pc = "epoll" /\ until # Forever /\ (now >= until \/ now = MaxTime)
    /\ pc' = "check"
    /\ UNCHANGED <<now, queueVars, point, wait, until, passed, base, removed>>

(* ... or earlier, for a socket or the wake-up pipe.                       *)
Wakeup ==
    /\ pc = "epoll"
    /\ pc' = "check"
    /\ UNCHANGED <<now, queueVars, point, wait, until, passed, base, removed>>

Fire == \E e \in events : FireAgain(e) \/ FireLast(e)
Loop == CheckTimers \/ LockQueue \/ Fire \/ FireEnd \/ GetTimeRemaining \/ Sleep \/ Timeout

Next ==
    \/ Tick
    \/ \E ms \in Delay : AddTimer(ms)
    \/ \E i \in Id : RemoveTimer(i)
    \/ Loop \/ Wakeup

Spec == Init /\ [][Next]_vars

(* The scheduler's thread runs, and time passes.                           *)
FairSpec == Spec /\ WF_vars(Loop) /\ WF_vars(Tick)

-----------------------------------------------------------------------------
(* Properties *)

(* Identifiers, times and program points stay in range.                    *)
TypeOK ==
    /\ now \in 0..MaxTime /\ last \in 0..MaxTimers
    /\ timers \subseteq 1..last /\ removed \subseteq 1..last /\ passed \subseteq 1..last
    /\ events \subseteq Nat \X (1..last)
    /\ msec \in [Id -> Nat] /\ next \in [Id -> Nat] /\ base \in [Id -> Nat]
    /\ pc \in {"check", "lock", "fire", "remaining", "sleep", "epoll"}
    /\ point \in Nat /\ wait \in Nat \cup {Forever} /\ until \in Nat \cup {Forever}

(* A timer in timers_ has exactly one event, so that events_.begin() is    *)
(* there whenever timers_ is not empty.  An event without its timer can    *)
(* only stem from a zero delay: RemoveTimer looks for it one millisecond   *)
(* too late.                                                               *)
QueuesAgree ==
    /\ \A i \in timers : \E e \in events : e[2] = i
    /\ \A e, f \in events : e[2] = f[2] => e = f
    /\ \A e \in events : e[2] \in timers \/ (msec[e[2]] = 0 /\ e[2] \in removed)

Fires(i) ==
    /\ pc = "fire" /\ pc' = "fire"
    /\ \E e \in events : e[2] = i /\ e \notin events'

(* A callback never runs before its delay has passed, counted from         *)
(* AddTimer or from its last run.                                          *)
NeverEarly == [][\A i \in Id : Fires(i) => now >= base[i] + msec[i]]_vars

(* Once RemoveTimer has returned, the callback does not run again, unless  *)
(* the delay was zero.                                                     *)
RemovedStaysQuiet ==
    [][\A i \in Id : Fires(i) /\ i \in removed => msec[i] = 0]_vars

(* HandleTimerEvent runs a callback at most once while it holds the mutex, *)
(* so that its loop ends even for periodic timers with a zero delay.       *)
OncePerPass == [][\A i \in Id : Fires(i) => i \notin passed]_vars

(* The sleep the scheduler is about to begin ends before any timer is due, *)
(* except for those added after GetTimeRemaining.                          *)
SleepIsShort ==
    [][pc = "remaining" /\ pc' = "sleep" =>
         \A e \in events : e[2] \in timers =>
            wait' # Forever /\ (wait' = 0 \/ now + wait' <= e[1])]_vars

(* A timer that is in the queue when the scheduler begins a pass fires in  *)
(* the end, unless it is removed.  One that another thread adds during     *)
(* epoll_wait has to wait for the next wake-up: AddTimer writes no byte to *)
(* the pipe.                                                               *)
QueuedTimersFire ==
    \A i \in Id :
        (i \in timers /\ pc = "check" /\ base[i] + Interval(msec[i]) <= MaxTime)
          ~> (i \notin timers \/ base[i] + Interval(msec[i]) > MaxTime)
=============================================================================
