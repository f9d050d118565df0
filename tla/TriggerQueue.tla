----------------------------- MODULE TriggerQueue -----------------------------
(***************************************************************************)
(* The trigger events of xop::TaskScheduler: any thread may post a         *)
(* callback with AddTriggerEvent, the scheduler's own thread runs them.    *)
(* Callbacks travel through a RingBuffer; a byte in a non-blocking pipe    *)
(* wakes the scheduler out of epoll_wait.  The size test of                *)
(* AddTriggerEvent is made before its mutex is taken, the consumer takes   *)
(* no mutex at all, and the only shared counter is the atomic num_datas_.  *)
(***************************************************************************)
EXTENDS Integers, Sequences, FiniteSets

CONSTANTS Producer,   \* threads that call AddTriggerEvent
          Capacity,   \* kMaxTriggetEvents, also the ring's capacity_
          PipeSize,   \* bytes the pipe holds; write fails beyond
          MaxAdds,    \* bound: calls of AddTriggerEvent per thread
          None

ASSUME CapacityAssumption == Capacity \in Nat \ {0}
ASSUME PipeAssumption == PipeSize \in Nat \ {0}
ASSUME AddsAssumption == MaxAdds \in Nat
ASSUME NoneAssumption == None \notin Producer

VARIABLES
    num,       \* num_datas_
    put, get,  \* put_pos_, get_pos_
    buf,       \* buffer_
    lock,      \* holder of TaskScheduler::mutex_, or None
    pipe,      \* bytes in wakeup_pipe_
    shut,      \* is_shutdown_
    stop,      \* the thread that calls Stop: "idle", "pipe", "done"
    ppc,       \* per producer: where AddTriggerEvent stands
    adds,      \* per producer: events it has tried to post
    cpc,       \* where the scheduler's thread stands
    cur,       \* the callback HandleTriggerEvent holds
    pushed,    \* history: events stored in the ring, in order
    taken,     \* history: how many of them have been popped
    lost       \* history: events whose Push failed although true is returned

ringVars == <<num, put, get, buf>>
prodVars == <<lock, ppc, adds, pushed, lost>>
consVars == <<cpc, cur, taken>>
vars == <<num, put, get, buf, lock, pipe, shut, stop, ppc, adds, cpc, cur,
          pushed, taken, lost>>

Event == Producer \X (1..MaxAdds)
NoEvent == <<None, 0>>

Init ==
    /\ num = 0 /\ put = 0 /\ get = 0
    /\ buf = [i \in 0..(Capacity - 1) |-> NoEvent]
    /\ lock = None /\ pipe = 0 /\ shut = FALSE /\ stop = "idle"
    /\ ppc = [p \in Producer |-> "idle"]
    /\ adds = [p \in Producer |-> 0]
    /\ cpc = "start" /\ cur = NoEvent
    /\ pushed = <<>> /\ taken = 0 /\ lost = {}

(* RingBuffer::Add *)
Add(pos) == IF pos + 1 = Capacity THEN 0 ELSE pos + 1

(* Pipe::Write of one byte: fails when the pipe is full.                   *)
PipeAfterWrite == IF pipe < PipeSize THEN pipe + 1 ELSE pipe

MyEvent(p) == <<p, adds[p]>>

-----------------------------------------------------------------------------
(* TaskScheduler::AddTriggerEvent *)

(* Faulty variant: off by one at the limit.                                *)
BadHasRoom == num <= Capacity

HasRoom == num < Capacity

(* trigger_events_->Size() < kMaxTriggetEvents, read without the mutex;    *)
(* otherwise false is returned.                                            *)
SizeCheck(p) ==
    /\ ppc[p] = "idle" /\ adds[p] < MaxAdds
    /\ adds' = [adds EXCEPT ![p] = @ + 1]
    /\ ppc' = [ppc EXCEPT ![p] = IF HasRoom THEN "lock" ELSE "idle"]
    /\ UNCHANGED <<ringVars, lock, pipe, shut, stop, consVars, pushed, lost>>

(* Faulty variant: no mutual exclusion.                                    *)
BadMutexFree == TRUE

MutexFree == lock = None

Lock(p) ==
    /\ ppc[p] = "lock" /\ MutexFree
    /\ lock' = p
    /\ ppc' = [ppc EXCEPT ![p] = "test"]
    /\ UNCHANGED <<ringVars, pipe, shut, stop, adds, consVars, pushed, lost>>

(* Faulty variant: the ring trusts the test made before the lock.          *)
BadPushFits == TRUE

PushFits == num < Capacity

(* PushData: num_datas_ < capacity_.  A failed Push goes unnoticed.        *)
PushTest(p) ==
    /\ ppc[p] = "test"
    /\ ppc' = [ppc EXCEPT ![p] = IF PushFits THEN "write" ELSE "pipe"]
    /\ lost' = IF PushFits THEN lost ELSE lost \cup {MyEvent(p)}
    /\ UNCHANGED <<ringVars, lock, pipe, shut, stop, adds, consVars, pushed>>

PushWrite(p) ==
    /\ ppc[p] = "write"
    /\ ppc' = [ppc EXCEPT ![p] = "inc"]
    /\ buf' = [buf EXCEPT ![put] = MyEvent(p)]
    /\ put' = Add(put)
    /\ pushed' = Append(pushed, MyEvent(p))
    /\ UNCHANGED <<num, get, lock, pipe, shut, stop, adds, consVars, lost>>

PushCount(p) ==
    /\ ppc[p] = "inc"
    /\ ppc' = [ppc EXCEPT ![p] = "pipe"]
    /\ num' = num + 1
    /\ UNCHANGED <<put, get, buf, lock, pipe, shut, stop, adds, consVars, pushed, lost>>

(* Faulty variant: a wake-up only for an empty ring, tested after Push.    *)
BadPipeAfterAdd == IF num = 0 THEN PipeAfterWrite ELSE pipe

PipeAfterAdd == PipeAfterWrite

(* wakeup_pipe_->Write, its result ignored; return true and unlock.        *)
WriteWakeup(p) ==
    /\ ppc[p] = "pipe"
    /\ ppc' = [ppc EXCEPT ![p] = "idle"]
    /\ pipe' = PipeAfterAdd
    /\ lock' = None
    /\ UNCHANGED <<ringVars, shut, stop, adds, consVars, pushed, lost>>

-----------------------------------------------------------------------------
(* TaskScheduler::Start, the scheduler's thread *)

(* is_shutdown_ = false: a Stop that came earlier is forgotten.            *)
Begin ==
    /\ cpc = "start"
    /\ shut' = FALSE
    /\ cpc' = "loop"
    /\ UNCHANGED <<ringVars, pipe, stop, prodVars, cur, taken>>

LoopTest ==
    /\ cpc = "loop"
    /\ cpc' = IF shut THEN "done" ELSE "pop"
    /\ UNCHANGED <<ringVars, pipe, shut, stop, prodVars, cur, taken>>

(* RingBuffer::Pop: num_datas_ > 0 *)
PopTest ==
    /\ cpc = "pop"
    /\ cpc' = IF num > 0 THEN "take" ELSE "again"
    /\ UNCHANGED <<ringVars, pipe, shut, stop, prodVars, cur, taken>>

PopTake ==
    /\ cpc = "take"
    /\ cur' = buf[get]
    /\ buf' = [buf EXCEPT ![get] = NoEvent]
    /\ get' = Add(get)
    /\ taken' = taken + 1
    /\ cpc' = "dec"
    /\ UNCHANGED <<num, put, pipe, shut, stop, prodVars>>

PopCount ==
    /\ cpc = "dec"
    /\ num' = num - 1
    /\ cpc' = "run"
    /\ UNCHANGED <<put, get, buf, pipe, shut, stop, prodVars, cur, taken>>

(* callback() *)
RunCallback ==
    /\ cpc = "run"
    /\ cur' = NoEvent
    /\ cpc' = "again"
    /\ UNCHANGED <<ringVars, pipe, shut, stop, prodVars, taken>>

(* Faulty variant: the pipe is emptied before sleeping, not after waking.  *)
BadPipeAfterRun == IF num > 0 THEN pipe ELSE 0

PipeAfterRun == pipe

(* while (trigger_events_->Size() > 0), then the timers, then epoll_wait   *)
Again ==
    /\ cpc = "again"
    /\ cpc' = IF num > 0 THEN "pop" ELSE "wait"
    /\ pipe' = PipeAfterRun
    /\ UNCHANGED <<ringVars, shut, stop, prodVars, cur, taken>>

(* epoll_wait reports the pipe; Wake reads it until it is empty.           *)
Wake ==
    /\ cpc = "wait" /\ pipe > 0
    /\ pipe' = 0
    /\ cpc' = "loop"
    /\ UNCHANGED <<ringVars, shut, stop, prodVars, cur, taken>>

(* epoll_wait returns for a timer, another channel or a signal.            *)
OtherWakeup ==
    /\ cpc = "wait"
    /\ cpc' = "loop"
    /\ UNCHANGED <<ringVars, pipe, shut, stop, prodVars, cur, taken>>

-----------------------------------------------------------------------------
(* TaskScheduler::Stop, from another thread *)
StopFlag ==
    /\ stop = "idle"
    /\ stop' = "pipe" /\ shut' = TRUE
    /\ UNCHANGED <<ringVars, pipe, prodVars, consVars>>

(* Faulty variant: Stop does not wake the scheduler.                       *)
BadPipeAfterStop == pipe

PipeAfterStop == PipeAfterWrite

StopWakeup ==
    /\ stop = "pipe"
    /\ stop' = "done" /\ pipe' = PipeAfterStop
    /\ UNCHANGED <<ringVars, shut, prodVars, consVars>>

-----------------------------------------------------------------------------
Produce(p) ==
    \/ SizeCheck(p) \/ Lock(p) \/ PushTest(p) \/ PushWrite(p) \/ PushCount(p)
    \/ WriteWakeup(p)

Consume ==
    \/ Begin \/ LoopTest \/ PopTest \/ PopTake \/ PopCount \/ RunCallback
    \/ Again \/ Wake

Next ==
    \/ \E p \in Producer : Produce(p)
    \/ Consume \/ OtherWakeup
    \/ StopFlag \/ StopWakeup

Spec == Init /\ [][Next]_vars

(* The operating system schedules every thread, and a mutex that stays     *)
(* free is taken.  Nothing makes a thread post events or call Stop, and no *)
(* timer or other channel has to wake the scheduler.                       *)
Fairness ==
    /\ \A p \in Producer :
         /\ WF_vars(PushTest(p)) /\ WF_vars(PushWrite(p)) /\ WF_vars(PushCount(p))
         /\ WF_vars(WriteWakeup(p)) /\ WF_vars(Lock(p))
    /\ WF_vars(Consume)
    /\ WF_vars(StopWakeup)

FairSpec == Spec /\ Fairness

-----------------------------------------------------------------------------
(* Properties *)

Holding == {"test", "write", "inc", "pipe"}

(* Ring positions, counters and program points stay in range.              *)
TypeOK ==
    /\ num \in 0..Capacity
    /\ put \in 0..(Capacity - 1) /\ get \in 0..(Capacity - 1)
    /\ buf \in [0..(Capacity - 1) -> Event \cup {NoEvent}]
    /\ lock \in Producer \cup {None} /\ pipe \in 0..PipeSize
    /\ shut \in BOOLEAN /\ stop \in {"idle", "pipe", "done"}
    /\ ppc \in [Producer -> {"idle", "lock"} \cup Holding]
    /\ adds \in [Producer -> 0..MaxAdds]
    /\ cpc \in {"start", "loop", "pop", "take", "dec", "run", "again", "wait", "done"}
    /\ cur \in Event \cup {NoEvent}
    /\ pushed \in Seq(Event) /\ taken \in Nat
    /\ lost \subseteq Event

(* How many slots of the ring hold a callback: num_datas_ lags behind the  *)
(* producer that has written and the consumer that has taken one.          *)
Live ==
    num + (IF \E p \in Producer : ppc[p] = "inc" THEN 1 ELSE 0)
        - (IF cpc = "dec" THEN 1 ELSE 0)

(* PushData never overwrites a callback that has not been popped, and Pop  *)
(* never moves out of a slot that has not been written.                    *)
NoOverwrite ==
    /\ \A p \in Producer : ppc[p] = "write" => buf[put] = NoEvent
    /\ cpc = "take" => buf[get] # NoEvent

(* A position counted from the ring's start, wrapped around once.          *)
Wrap(i) == IF i >= Capacity THEN i - Capacity ELSE i

(* The callbacks in the ring, from get_pos_ on.                            *)
Waiting == [i \in 1..Live |-> buf[Wrap(get + i - 1)]]

Fifo == INSTANCE EventQueue WITH queue <- Waiting, running <- cur

(* The ring, its two positions and the counter that lags behind them are a *)
(* bounded first-in-first-out queue: a callback enters it when PushData    *)
(* has written it, leaves it when Pop moves it out, and runs before the    *)
(* next one is taken, whatever the threads do in between.                  *)
ImplementsEventQueue == Fifo!Spec

(* At most one thread has posted events so far. *)
OnePosts == \A p, q \in Producer : adds[p] > 0 /\ adds[q] > 0 => p = q

(* While only one thread posts events, an event for which AddTriggerEvent  *)
(* returns true is never dropped: the unprotected size test is enough.     *)
SoleProducerLosesNothing == OnePosts => lost = {}

(* The scheduler never sleeps on an empty pipe while a callback is waiting *)
(* or Stop was called, unless the thread responsible is about to write its *)
(* byte; a byte refused by a full pipe does no harm.                       *)
NoLostWakeup ==
    cpc = "wait" /\ pipe = 0 =>
        /\ num > 0 => \E p \in Producer : ppc[p] = "pipe"
        /\ shut => stop = "pipe"

(* The scheduler catches up with the callbacks stored in the ring, unless  *)
(* the loop is shut down.                                                  *)
EventsRun == (taken < Len(pushed)) ~> (taken = Len(pushed) \/ cpc = "done")

(* A Stop that comes after Start has begun ends the loop, provided the     *)
(* producers post finitely many events: HandleTriggerEvent leaves its own  *)
(* loop only when it finds the ring empty.                                 *)
StopEndsLoop == (shut /\ cpc # "start") ~> (cpc = "done")
=============================================================================
