------------------------- MODULE TriggerQueue_proofs -------------------------
(***************************************************************************)
(* Proofs about TriggerQueue, for any number of producers, any capacity    *)
(* and any size of the pipe.                                               *)
(***************************************************************************)
EXTENDS TriggerQueue, TLAPS

(* The mutex protects the body of AddTriggerEvent; a thread inside it is   *)
(* posting an event of its own.                                            *)
Mutex ==
    \A p \in Producer :
        /\ ppc[p] \in Holding <=> lock = p
        /\ ppc[p] # "idle" => adds[p] > 0

(* The occupied slots are the Live ones from get_pos_ on, up to put_pos_.  *)
Ring ==
    /\ Live \in 0..Capacity
    /\ put = get + Live \/ put = get + Live - Capacity
    /\ \A p \in Producer : ppc[p] \in {"write", "inc"} => num < Capacity
    /\ cpc \in {"take", "dec"} => num > 0

(* They hold the events pushed and not yet taken, oldest first; the other  *)
(* slots are empty.                                                        *)
Contents ==
    /\ Len(pushed) = taken + Live
    /\ \A i \in 0..(Capacity - 1) :
         buf[Wrap(get + i)] = IF i < Live THEN pushed[taken + i + 1] ELSE NoEvent
    /\ cpc \in {"dec", "run"} => taken > 0 /\ cur = pushed[taken]

(* Who still owes a byte to the pipe. *)
Wakeups ==
    /\ NoLostWakeup
    /\ shut => stop # "idle"
    /\ shut /\ stop = "done" /\ cpc \in {"pop", "take", "dec", "run", "again", "wait"}
         => pipe > 0

(* With one producer the room found by the size test stays. *)
Room ==
    OnePosts =>
        /\ lost = {}
        /\ \A p \in Producer : ppc[p] \in {"lock", "test"} => num < Capacity

IInv == TypeOK /\ Mutex /\ Ring /\ Contents /\ Wakeups /\ Room

-----------------------------------------------------------------------------
(* The initial state satisfies the invariant. *)
LEMMA InitIInv == Init => IInv
<1> SUFFICES ASSUME Init PROVE IInv
  OBVIOUS
<1> USE CapacityAssumption, PipeAssumption, AddsAssumption, NoneAssumption DEF Init
<1>1. TypeOK
  <2>1. pushed \in Seq(Event)
    OBVIOUS
  <2>2. buf \in [0..(Capacity - 1) -> Event \cup {NoEvent}]
    OBVIOUS
  <2>3. ppc \in [Producer -> {"idle", "lock"} \cup Holding]
    OBVIOUS
  <2>4. adds \in [Producer -> 0..MaxAdds]
    OBVIOUS
  <2>5. /\ num \in 0..Capacity
        /\ put \in 0..(Capacity - 1) /\ get \in 0..(Capacity - 1)
        /\ pipe \in 0..PipeSize /\ taken \in Nat
    OBVIOUS
  <2>6. /\ lock \in Producer \cup {None} /\ shut \in BOOLEAN
        /\ stop \in {"idle", "pipe", "done"}
        /\ cur \in Event \cup {NoEvent} /\ lost \subseteq Event
        /\ cpc \in {"start", "loop", "pop", "take", "dec", "run", "again", "wait", "done"}
    OBVIOUS
  <2> QED
    BY <2>1, <2>2, <2>3, <2>4, <2>5, <2>6 DEF TypeOK
<1>2. Mutex
  BY DEF Mutex, Holding
<1>3. Live = 0
  BY DEF Live
<1>4. Ring
  BY <1>3 DEF Ring
<1>5. Contents
  BY <1>3 DEF Contents, Wrap
<1>6. Wakeups /\ Room
  BY DEF Wakeups, NoLostWakeup, Room
<1> QED
  BY <1>1, <1>2, <1>4, <1>5, <1>6 DEF IInv

(* SizeCheck preserves the invariant. *)
LEMMA SizeCheckIInv ==
  ASSUME IInv, NEW p \in Producer, SizeCheck(p) PROVE IInv'
<1> USE CapacityAssumption, PipeAssumption, AddsAssumption, NoneAssumption
<1> USE DEF SizeCheck, HasRoom, ringVars, prodVars, consVars
<1> TypeOK /\ Mutex /\ Ring /\ Contents /\ Wakeups /\ Room
  BY DEF IInv
<1>1. TypeOK'
  BY DEF TypeOK, Holding, Event, MyEvent, PipeAfterWrite, Add, Ring
<1>2. Mutex'
  BY DEF TypeOK, Mutex, Holding
<1>3. Live' = Live
  BY DEF TypeOK, Live, Mutex, Holding
<1>4. Ring'
  BY <1>3 DEF TypeOK, Ring, Live, Mutex, Holding, Add
<1>5. Contents'
  BY <1>3 DEF TypeOK, Contents
<1>6. Wakeups'
  BY DEF TypeOK, Wakeups, NoLostWakeup, PipeAfterWrite
<1>7. Room'
  BY DEF TypeOK, Mutex, Room, OnePosts
<1> QED
  BY <1>1, <1>2, <1>4, <1>5, <1>6, <1>7 DEF IInv

(* Lock preserves the invariant. *)
LEMMA LockIInv ==
  ASSUME IInv, NEW p \in Producer, Lock(p) PROVE IInv'
<1> USE CapacityAssumption, PipeAssumption, AddsAssumption, NoneAssumption
<1> USE DEF Lock, MutexFree, ringVars, prodVars, consVars
<1> TypeOK /\ Mutex /\ Ring /\ Contents /\ Wakeups /\ Room
  BY DEF IInv
<1>1. TypeOK'
  BY DEF TypeOK, Holding, Event, MyEvent, PipeAfterWrite, Add, Ring
<1>2. Mutex'
  BY DEF TypeOK, Mutex, Holding
<1>3. Live' = Live
  BY DEF TypeOK, Live, Mutex, Holding
<1>4. Ring'
  BY <1>3 DEF TypeOK, Ring, Live, Mutex, Holding, Add
<1>5. Contents'
  BY <1>3 DEF TypeOK, Contents
<1>6. Wakeups'
  BY DEF TypeOK, Wakeups, NoLostWakeup, PipeAfterWrite
<1>7. Room'
  BY DEF TypeOK, Mutex, Room, OnePosts
<1> QED
  BY <1>1, <1>2, <1>4, <1>5, <1>6, <1>7 DEF IInv

(* PushTest preserves the invariant. *)
LEMMA PushTestIInv ==
  ASSUME IInv, NEW p \in Producer, PushTest(p) PROVE IInv'
<1> USE CapacityAssumption, PipeAssumption, AddsAssumption, NoneAssumption
<1> USE DEF PushTest, PushFits, ringVars, prodVars, consVars
<1> TypeOK /\ Mutex /\ Ring /\ Contents /\ Wakeups /\ Room
  BY DEF IInv
<1>1. TypeOK'
  <2>1. MyEvent(p) \in Event
    BY DEF TypeOK, Mutex, Event, MyEvent
  <2> QED
    BY <2>1 DEF TypeOK, Holding, Add
<1>2. Mutex'
  BY DEF TypeOK, Mutex, Holding
<1>3. Live' = Live
  BY DEF TypeOK, Live, Mutex, Holding
<1>4. Ring'
  BY <1>3 DEF TypeOK, Ring, Live, Mutex, Holding, Add
<1>5. Contents'
  BY <1>3 DEF TypeOK, Contents
<1>6. Wakeups'
  BY DEF TypeOK, Wakeups, NoLostWakeup, PipeAfterWrite
<1>7. Room'
  BY DEF TypeOK, Mutex, Room, OnePosts
<1> QED
  BY <1>1, <1>2, <1>4, <1>5, <1>6, <1>7 DEF IInv

(* PushWrite preserves the invariant. *)
LEMMA PushWriteIInv ==
  ASSUME IInv, NEW p \in Producer, PushWrite(p) PROVE IInv'
<1> USE CapacityAssumption, PipeAssumption, AddsAssumption, NoneAssumption
<1> USE DEF PushWrite, ringVars, prodVars, consVars
<1> TypeOK /\ Mutex /\ Ring /\ Contents /\ Wakeups /\ Room
  BY DEF IInv
<1>0. MyEvent(p) \in Event
  <2>1. adds[p] \in 1..MaxAdds
    BY DEF TypeOK, Mutex
  <2> QED
    BY <2>1 DEF Event, MyEvent
<1>1. TypeOK'
  <2>1. pushed' \in Seq(Event)
    BY <1>0 DEF TypeOK
  <2>2. buf' \in [0..(Capacity - 1) -> Event \cup {NoEvent}]
    BY <1>0 DEF TypeOK
  <2> QED
    BY <2>1, <2>2 DEF TypeOK, Holding, Add
<1>2. Mutex'
  BY DEF TypeOK, Mutex, Holding
<1>3. Live' = Live + 1
  BY DEF TypeOK, Live, Mutex, Holding
<1>4. Ring'
  BY <1>3 DEF TypeOK, Ring, Live, Mutex, Holding, Add
<1>5. Contents'
  <2>1. Live \in 0..(Capacity - 1)
    BY <1>3, <1>4 DEF TypeOK, Ring
  <2>2. /\ Len(pushed') = taken + Live + 1
        /\ pushed'[taken + Live + 1] = MyEvent(p)
        /\ \A n \in 1..Len(pushed) : pushed'[n] = pushed[n]
    BY <1>0, <2>1 DEF TypeOK, Contents
  <2>3. put = Wrap(get + Live)
    BY <2>1 DEF TypeOK, Ring, Wrap
  <2>4. ASSUME NEW i \in 0..(Capacity - 1)
        PROVE  buf'[Wrap(get + i)] =
                 IF i < Live + 1 THEN pushed'[taken + i + 1] ELSE NoEvent
    <3>1. Wrap(get + i) \in 0..(Capacity - 1)
      BY DEF TypeOK, Wrap
    <3>2. CASE i = Live
      BY <2>1, <2>2, <2>3, <3>1, <3>2 DEF TypeOK
    <3>3. CASE i # Live
      <4>1. Wrap(get + i) # put
        BY <2>1, <2>3, <3>3 DEF TypeOK, Wrap
      <4>2. buf'[Wrap(get + i)] = buf[Wrap(get + i)]
        BY <3>1, <4>1 DEF TypeOK
      <4>3. CASE i < Live
        <5>1. taken + i + 1 \in 1..Len(pushed)
          BY <2>1, <4>3 DEF TypeOK, Contents
        <5> QED
          BY <2>1, <2>2, <4>2, <4>3, <5>1 DEF Contents
      <4>4. CASE ~ (i < Live)
        BY <2>1, <3>3, <4>2, <4>4 DEF Contents
      <4> QED
        BY <4>3, <4>4
    <3> QED
      BY <3>2, <3>3
  <2>5. cpc \in {"dec", "run"} => taken \in 1..Len(pushed)
    BY <2>1 DEF TypeOK, Contents
  <2>6. get' = get /\ taken' = taken /\ cpc' = cpc /\ cur' = cur
    OBVIOUS
  <2>7. cpc' \in {"dec", "run"} => taken' > 0 /\ cur' = pushed'[taken']
    BY <2>2, <2>5, <2>6 DEF Contents
  <2>8. Len(pushed') = taken' + Live'
    BY <1>3, <2>1, <2>2, <2>6 DEF TypeOK
  <2>9. \A i \in 0..(Capacity - 1) :
          buf'[Wrap(get' + i)] =
            IF i < Live' THEN pushed'[taken' + i + 1] ELSE NoEvent
    BY <1>3, <2>4, <2>6
  <2> QED
    BY <2>7, <2>8, <2>9 DEF Contents
<1>6. Wakeups'
  BY DEF TypeOK, Wakeups, NoLostWakeup, PipeAfterWrite
<1>7. Room'
  BY DEF TypeOK, Mutex, Room, OnePosts
<1> QED
  BY <1>1, <1>2, <1>4, <1>5, <1>6, <1>7 DEF IInv

(* PushCount preserves the invariant. *)
LEMMA PushCountIInv ==
  ASSUME IInv, NEW p \in Producer, PushCount(p) PROVE IInv'
<1> USE CapacityAssumption, PipeAssumption, AddsAssumption, NoneAssumption
<1> USE DEF PushCount, ringVars, prodVars, consVars
<1> TypeOK /\ Mutex /\ Ring /\ Contents /\ Wakeups /\ Room
  BY DEF IInv
<1>1. TypeOK'
  BY DEF TypeOK, Holding, Event, MyEvent, PipeAfterWrite, Add, Ring
<1>2. Mutex'
  BY DEF TypeOK, Mutex, Holding
<1>3. Live' = Live
  BY DEF TypeOK, Live, Mutex, Holding
<1>4. Ring'
  BY <1>3 DEF TypeOK, Ring, Live, Mutex, Holding, Add
<1>5. Contents'
  BY <1>3 DEF TypeOK, Contents
<1>6. Wakeups'
  BY DEF TypeOK, Wakeups, NoLostWakeup, PipeAfterWrite
<1>7. Room'
  BY DEF TypeOK, Mutex, Room, OnePosts
<1> QED
  BY <1>1, <1>2, <1>4, <1>5, <1>6, <1>7 DEF IInv

(* WriteWakeup preserves the invariant. *)
LEMMA WriteWakeupIInv ==
  ASSUME IInv, NEW p \in Producer, WriteWakeup(p) PROVE IInv'
<1> USE CapacityAssumption, PipeAssumption, AddsAssumption, NoneAssumption
<1> USE DEF WriteWakeup, PipeAfterAdd, ringVars, prodVars, consVars
<1> TypeOK /\ Mutex /\ Ring /\ Contents /\ Wakeups /\ Room
  BY DEF IInv
<1>1. TypeOK'
  BY DEF TypeOK, Holding, Event, MyEvent, PipeAfterWrite, Add, Ring
<1>2. Mutex'
  BY DEF TypeOK, Mutex, Holding
<1>3. Live' = Live
  BY DEF TypeOK, Live, Mutex, Holding
<1>4. Ring'
  BY <1>3 DEF TypeOK, Ring, Live, Mutex, Holding, Add
<1>5. Contents'
  BY <1>3 DEF TypeOK, Contents
<1>6. Wakeups'
  BY DEF TypeOK, Wakeups, NoLostWakeup, PipeAfterWrite
<1>7. Room'
  BY DEF TypeOK, Mutex, Room, OnePosts
<1> QED
  BY <1>1, <1>2, <1>4, <1>5, <1>6, <1>7 DEF IInv

(* PopTest preserves the invariant. *)
LEMMA PopTestIInv ==
  ASSUME IInv, PopTest PROVE IInv'
<1> USE CapacityAssumption, PipeAssumption, AddsAssumption, NoneAssumption
<1> USE DEF PopTest, ringVars, prodVars, consVars
<1> TypeOK /\ Mutex /\ Ring /\ Contents /\ Wakeups /\ Room
  BY DEF IInv
<1>1. TypeOK'
  BY DEF TypeOK, Holding, Event, MyEvent, PipeAfterWrite, Add, Ring
<1>2. Mutex'
  BY DEF TypeOK, Mutex, Holding
<1>3. Live' = Live
  BY DEF TypeOK, Live, Mutex, Holding
<1>4. Ring'
  BY <1>3 DEF TypeOK, Ring, Live, Mutex, Holding, Add
<1>5. Contents'
  BY <1>3 DEF TypeOK, Contents
<1>6. Wakeups'
  BY DEF TypeOK, Wakeups, NoLostWakeup, PipeAfterWrite
<1>7. Room'
  BY DEF TypeOK, Mutex, Room, OnePosts
<1> QED
  BY <1>1, <1>2, <1>4, <1>5, <1>6, <1>7 DEF IInv

(* PopTake preserves the invariant. *)
LEMMA PopTakeIInv ==
  ASSUME IInv, PopTake PROVE IInv'
<1> USE CapacityAssumption, PipeAssumption, AddsAssumption, NoneAssumption
<1> USE DEF PopTake, ringVars, prodVars, consVars
<1> TypeOK /\ Mutex /\ Ring /\ Contents /\ Wakeups /\ Room
  BY DEF IInv
<1>1. TypeOK'
  BY DEF TypeOK, Holding, Event, MyEvent, PipeAfterWrite, Add, Ring
<1>2. Mutex'
  BY DEF TypeOK, Mutex, Holding
<1>3. Live' = Live - 1
  BY DEF TypeOK, Live, Mutex, Holding
<1>4. Ring'
  BY <1>3 DEF TypeOK, Ring, Live, Mutex, Holding, Add
<1>5. Contents'
  <2>1. Live \in 1..Capacity
    BY <1>3, <1>4 DEF TypeOK, Ring
  <2>2. /\ get' = Wrap(get + 1) /\ pushed' = pushed /\ taken' = taken + 1
        /\ get = Wrap(get + 0)
    BY DEF TypeOK, Wrap, Add
  <2>3. cur' = pushed[taken + 1]
    <3>1. 0 \in 0..(Capacity - 1) /\ 0 < Live
      BY <2>1
    <3>2. buf[Wrap(get + 0)] = pushed[taken + 0 + 1]
      BY <3>1 DEF Contents
    <3>3. taken + 0 + 1 = taken + 1
      BY DEF TypeOK
    <3> QED
      BY <2>2, <3>2, <3>3
  <2>4. ASSUME NEW i \in 0..(Capacity - 1)
        PROVE  buf'[Wrap(get' + i)] =
                 IF i < Live - 1 THEN pushed[taken + 1 + i + 1] ELSE NoEvent
    <3>1. CASE i = Capacity - 1
      <4>1. Wrap(get' + i) = get
        BY <2>2, <3>1 DEF TypeOK, Wrap
      <4> QED
        BY <2>1, <3>1, <4>1 DEF TypeOK
    <3>2. CASE i < Capacity - 1
      <4>1. /\ Wrap(get' + i) = Wrap(get + (i + 1))
            /\ Wrap(get + (i + 1)) # get
            /\ Wrap(get + (i + 1)) \in 0..(Capacity - 1)
            /\ i + 1 \in 0..(Capacity - 1)
        BY <2>2, <3>2 DEF TypeOK, Wrap
      <4>2. buf'[Wrap(get' + i)] = buf[Wrap(get + (i + 1))]
        BY <4>1 DEF TypeOK
      <4>3. buf[Wrap(get + (i + 1))] =
              IF i + 1 < Live THEN pushed[taken + (i + 1) + 1] ELSE NoEvent
        BY <4>1 DEF Contents
      <4>4. taken + (i + 1) + 1 = taken + 1 + i + 1 /\ (i + 1 < Live <=> i < Live - 1)
        BY <2>1 DEF TypeOK
      <4> QED
        BY <4>2, <4>3, <4>4
    <3> QED
      BY <3>1, <3>2
  <2>5. Len(pushed) = (taken + 1) + (Live - 1) /\ taken + 1 > 0
    BY <2>1 DEF TypeOK, Contents
  <2> QED
    BY <1>3, <2>2, <2>3, <2>4, <2>5 DEF Contents, Wrap
<1>6. Wakeups'
  BY DEF TypeOK, Wakeups, NoLostWakeup, PipeAfterWrite
<1>7. Room'
  BY DEF TypeOK, Mutex, Room, OnePosts
<1> QED
  BY <1>1, <1>2, <1>4, <1>5, <1>6, <1>7 DEF IInv

(* PopCount preserves the invariant. *)
LEMMA PopCountIInv ==
  ASSUME IInv, PopCount PROVE IInv'
<1> USE CapacityAssumption, PipeAssumption, AddsAssumption, NoneAssumption
<1> USE DEF PopCount, ringVars, prodVars, consVars
<1> TypeOK /\ Mutex /\ Ring /\ Contents /\ Wakeups /\ Room
  BY DEF IInv
<1>1. TypeOK'
  BY DEF TypeOK, Holding, Event, MyEvent, PipeAfterWrite, Add, Ring
<1>2. Mutex'
  BY DEF TypeOK, Mutex, Holding
<1>3. Live' = Live
  BY DEF TypeOK, Live, Mutex, Holding
<1>4. Ring'
  BY <1>3 DEF TypeOK, Ring, Live, Mutex, Holding, Add
<1>5. Contents'
  BY <1>3 DEF TypeOK, Contents
<1>6. Wakeups'
  BY DEF TypeOK, Wakeups, NoLostWakeup, PipeAfterWrite
<1>7. Room'
  BY DEF TypeOK, Mutex, Room, OnePosts
<1> QED
  BY <1>1, <1>2, <1>4, <1>5, <1>6, <1>7 DEF IInv

(* The scheduler's steps outside the ring, and those of Stop, preserve the *)
(* invariant.                                                              *)
LEMMA QuietIInv ==
  ASSUME IInv,
         \/ Begin \/ LoopTest \/ RunCallback \/ Again \/ Wake \/ OtherWakeup
         \/ StopFlag \/ StopWakeup
  PROVE  IInv'
<1> USE CapacityAssumption, PipeAssumption, AddsAssumption, NoneAssumption
<1> USE DEF Begin, LoopTest, RunCallback, Again, Wake, OtherWakeup, StopFlag,
        StopWakeup, PipeAfterRun, PipeAfterStop, PipeAfterWrite, ringVars, prodVars,
        consVars
<1> TypeOK /\ Mutex /\ Ring /\ Contents /\ Wakeups /\ Room
  BY DEF IInv
<1>1. UNCHANGED <<num, put, get, buf, lock, ppc, adds, pushed, lost, taken>>
  OBVIOUS
<1>2. TypeOK'
  <2>1. pipe' \in 0..PipeSize
    BY DEF TypeOK
  <2>2. shut' \in BOOLEAN /\ stop' \in {"idle", "pipe", "done"}
    BY DEF TypeOK
  <2>3. cpc' \in {"start", "loop", "pop", "take", "dec", "run", "again", "wait", "done"}
    BY DEF TypeOK
  <2>4. cur' \in Event \cup {NoEvent}
    BY DEF TypeOK
  <2> QED
    BY <1>1, <2>1, <2>2, <2>3, <2>4 DEF TypeOK
<1>3. /\ cpc' = "dec" <=> cpc = "dec"
      /\ cpc' = "take" => cpc = "take"
      /\ cpc' \in {"dec", "run"} => cpc' = cpc /\ cur' = cur
  OBVIOUS
<1>4. Live' = Live
  BY <1>1, <1>3 DEF Live
<1>5. Mutex' /\ Room' /\ Ring' /\ Contents'
  <2>1. Mutex' /\ Room'
    BY <1>1 DEF Mutex, Room, OnePosts
  <2>2. Ring'
    BY <1>1, <1>3, <1>4 DEF Ring
  <2>3. Contents'
    BY <1>1, <1>3, <1>4 DEF Contents
  <2> QED
    BY <2>1, <2>2, <2>3
<1>6. Wakeups'
  BY DEF TypeOK, Wakeups, NoLostWakeup
<1> QED
  BY <1>2, <1>5, <1>6 DEF IInv

-----------------------------------------------------------------------------
(* Every step preserves the invariant. *)
LEMMA NextIInv == IInv /\ [Next]_vars => IInv'
<1> SUFFICES ASSUME IInv, [Next]_vars PROVE IInv'
  OBVIOUS
<1>1. CASE \E p \in Producer : Produce(p)
  <2>1. PICK p \in Producer : Produce(p)
    BY <1>1
  <2> QED
    BY <2>1, SizeCheckIInv, LockIInv, PushTestIInv, PushWriteIInv,
       PushCountIInv, WriteWakeupIInv
    DEF Produce
<1>2. CASE Consume \/ OtherWakeup \/ StopFlag \/ StopWakeup
  BY <1>2, QuietIInv, PopTestIInv, PopTakeIInv, PopCountIInv
  DEF Consume
<1>3. CASE UNCHANGED vars
  <2> USE <1>3 DEF vars
  <2>1. Live' = Live
    BY DEF Live
  <2>2. TypeOK' /\ Mutex'
    BY DEF IInv, TypeOK, Mutex
  <2>3. Ring' /\ Contents'
    BY <2>1 DEF IInv, Ring, Contents
  <2>4. Wakeups' /\ Room'
    BY DEF IInv, Wakeups, NoLostWakeup, Room, OnePosts
  <2> QED
    BY <2>2, <2>3, <2>4 DEF IInv
<1> QED
  BY <1>1, <1>2, <1>3 DEF Next

(* The strengthened invariant holds in every reachable state. *)
LEMMA Invariance == Spec => []IInv
<1> QED
  BY InitIInv, NextIInv, PTL DEF Spec

(* The ring's positions and counter stay in range, whatever the           *)
(* interleaving of producers, scheduler and Stop.                          *)
THEOREM TypeCorrect == Spec => []TypeOK
<1>1. IInv => TypeOK
  BY DEF IInv
<1> QED
  BY <1>1, Invariance, PTL

(* RingBuffer is safe with one lock-free consumer and producers that share *)
(* the mutex: no slot is overwritten while it holds a callback, and none   *)
(* is popped before it was written.                                        *)
THEOREM RingSafe == Spec => []NoOverwrite
<1>1. IInv => NoOverwrite
  <2> SUFFICES ASSUME IInv PROVE NoOverwrite
    OBVIOUS
  <2> USE CapacityAssumption
  <2>1. TypeOK /\ Mutex /\ Ring /\ Contents
    BY DEF IInv
  <2>2. get = Wrap(get + 0) /\ get \in 0..(Capacity - 1)
    BY <2>1 DEF TypeOK, Wrap
  <2>3. ASSUME NEW p \in Producer, ppc[p] = "write"
        PROVE  buf[put] = NoEvent
    <3>1. Live \in 0..(Capacity - 1)
      BY <2>1, <2>3 DEF TypeOK, Mutex, Holding, Ring, Live
    <3>2. put = Wrap(get + Live)
      BY <2>1, <3>1 DEF TypeOK, Ring, Wrap
    <3> QED
      BY <2>1, <3>1, <3>2 DEF Contents
  <2>4. ASSUME cpc = "take" PROVE buf[get] # NoEvent
    <3>1. Live \in 1..Capacity
      BY <2>1, <2>4 DEF TypeOK, Ring, Live
    <3>2. buf[get] = pushed[taken + 0 + 1] /\ taken + 0 + 1 \in 1..Len(pushed)
      <4>1. 0 \in 0..(Capacity - 1) /\ 0 < Live
        BY <3>1
      <4>2. buf[Wrap(get + 0)] = pushed[taken + 0 + 1]
        BY <2>1, <4>1 DEF Contents
      <4> QED
        BY <2>1, <2>2, <3>1, <4>2 DEF TypeOK, Contents
    <3>3. pushed[taken + 0 + 1] \in Event
      BY <2>1, <3>2 DEF TypeOK
    <3> QED
      BY <3>2, <3>3, NoneAssumption DEF Event, NoEvent
  <2> QED
    BY <2>3, <2>4 DEF NoOverwrite
<1> QED
  BY <1>1, Invariance, PTL

-----------------------------------------------------------------------------
(* The abstract queue.  The scheduler holds a callback exactly between Pop *)
(* and the end of its run.                                                 *)
Hand == cpc \in {"dec", "run"} <=> cur # NoEvent

LEMMA TakesEvent ==
  ASSUME IInv, PopTake
  PROVE  /\ buf[get] = pushed[taken + 1] /\ buf[get] \in Event /\ buf[get] # NoEvent
         /\ Live \in 1..Capacity
<1> USE CapacityAssumption
<1>1. TypeOK /\ Mutex /\ Ring /\ Contents
  BY DEF IInv
<1>2. get = Wrap(get + 0) /\ Live \in 1..Capacity /\ 0 \in 0..(Capacity - 1)
  BY <1>1 DEF TypeOK, Wrap, Ring, Live, PopTake
<1>3. buf[Wrap(get + 0)] = pushed[taken + 0 + 1]
  BY <1>1, <1>2 DEF Contents
<1>4. taken + 0 + 1 = taken + 1 /\ taken + 1 \in 1..Len(pushed)
  BY <1>1, <1>2 DEF TypeOK, Contents
<1>5. pushed[taken + 1] \in Event
  BY <1>1, <1>4 DEF TypeOK
<1>6. \A e \in Event : e # NoEvent
  BY NoneAssumption DEF Event, NoEvent
<1> QED
  BY <1>2, <1>3, <1>4, <1>5, <1>6

LEMMA HandStep == IInv /\ Hand /\ [Next]_vars => Hand'
<1> SUFFICES ASSUME IInv, Hand, [Next]_vars PROVE Hand'
  OBVIOUS
<1>1. CASE PopTake
  BY <1>1, TakesEvent DEF PopTake, Hand
<1>2. CASE cpc' = cpc /\ cur' = cur
  BY <1>2 DEF Hand
<1>3. ASSUME NEW p \in Producer, Produce(p) PROVE cpc' = cpc /\ cur' = cur
  BY <1>3 DEF Produce, SizeCheck, Lock, PushTest, PushWrite, PushCount, WriteWakeup, consVars
<1>4. CASE Begin \/ LoopTest \/ PopTest \/ PopCount \/ RunCallback \/ Again \/ Wake \/ OtherWakeup
  BY <1>4 DEF Hand, Begin, LoopTest, PopTest, PopCount, RunCallback, Again, Wake, OtherWakeup
<1>5. CASE StopFlag \/ StopWakeup \/ UNCHANGED vars
  BY <1>2, <1>5 DEF StopFlag, StopWakeup, consVars, vars
<1> QED
  BY <1>1, <1>2, <1>3, <1>4, <1>5 DEF Next, Consume

(* The ring holds what was pushed and not yet taken.                       *)
Unread == [i \in 1..Live |-> pushed[taken + i]]

RingIsQueue ==
    /\ Waiting = Unread /\ Live \in 0..Capacity /\ Waiting \in Seq(Event) /\ Len(Waiting) = Live
    /\ Len(pushed) = taken + Live /\ taken \in Nat /\ pushed \in Seq(Event)

LEMMA WaitingIs == IInv => RingIsQueue
<1> SUFFICES ASSUME IInv PROVE RingIsQueue
  OBVIOUS
<1> USE CapacityAssumption
<1>1. TypeOK /\ Ring /\ Contents
  BY DEF IInv
<1>2. Live \in 0..Capacity /\ Len(pushed) = taken + Live /\ taken \in Nat /\ pushed \in Seq(Event)
  BY <1>1 DEF TypeOK, Ring, Contents
<1>3. ASSUME NEW i \in 1..Live PROVE buf[Wrap(get + i - 1)] = pushed[taken + i] /\ pushed[taken + i] \in Event
  <2>1. i - 1 \in 0..(Capacity - 1) /\ i - 1 < Live /\ get + (i - 1) = get + i - 1
        /\ taken + (i - 1) + 1 = taken + i /\ taken + i \in 1..Len(pushed)
    BY <1>1, <1>2 DEF TypeOK
  <2>2. buf[Wrap(get + (i - 1))] = pushed[taken + (i - 1) + 1]
    BY <1>1, <2>1 DEF Contents
  <2> QED
    BY <1>2, <2>1, <2>2
<1>4. Waiting = Unread
  BY <1>3 DEF Waiting, Unread
<1>5. Unread \in [1..Live -> Event]
  BY <1>3 DEF Unread
<1>6. Unread \in Seq(Event) /\ Len(Unread) = Live
  BY <1>2, <1>5
<1> QED
  BY <1>2, <1>4, <1>6 DEF RingIsQueue

LEMMA WaitingIsNext == (IInv => RingIsQueue)'
BY WaitingIs, PTL

(* Sequences as functions.                                                 *)
LEMMA SequenceIs ==
  ASSUME NEW S, NEW s \in Seq(S), NEW n, Len(s) = n
  PROVE  s \in [1..n -> S]
OBVIOUS

LEMMA AppendIs ==
  ASSUME NEW S, NEW s \in Seq(S), NEW e \in S, NEW n \in Nat, Len(s) = n
  PROVE  /\ Append(s, e) = [i \in 1..(n + 1) |-> IF i <= n THEN s[i] ELSE e]
         /\ Append(s, e)[n + 1] = e
<1>1. Append(s, e) \in Seq(S) /\ Len(Append(s, e)) = n + 1
  OBVIOUS
<1>2. \A i \in 1..(n + 1) : Append(s, e)[i] = IF i <= n THEN s[i] ELSE e
  OBVIOUS
<1>3. Append(s, e) \in [1..(n + 1) -> S]
  BY <1>1, SequenceIs
<1>4. Append(s, e) = [i \in 1..(n + 1) |-> IF i <= n THEN s[i] ELSE e]
  BY <1>2, <1>3
<1> QED
  BY <1>2, <1>4

LEMMA TailIs ==
  ASSUME NEW S, NEW s \in Seq(S), NEW n \in Nat, Len(s) = n, n > 0
  PROVE  s # <<>> /\ Head(s) = s[1] /\ Tail(s) = [i \in 1..(n - 1) |-> s[i + 1]]
<1>1. s # <<>> /\ Head(s) = s[1]
  OBVIOUS
<1>2. Tail(s) \in Seq(S) /\ Len(Tail(s)) = n - 1
  BY <1>1
<1>3. \A i \in 1..(n - 1) : Tail(s)[i] = s[i + 1]
  BY <1>1
<1>4. Tail(s) \in [1..(n - 1) -> S]
  BY <1>2, SequenceIs
<1>5. Tail(s) = [i \in 1..(n - 1) |-> s[i + 1]]
  BY <1>3, <1>4
<1> QED
  BY <1>1, <1>5

(* PushWrite is where an event enters the queue, and a step is a Take      *)
(* exactly at PopTake.                                                     *)
LEMMA Posts ==
  ASSUME IInv, IInv', NEW p \in Producer, PushWrite(p)
  PROVE  Fifo!Post
<1> USE CapacityAssumption
<1> DEFINE e == MyEvent(p)
<1>1. RingIsQueue /\ RingIsQueue'
  BY WaitingIs, WaitingIsNext
<1>2. e \in Event
  <2>1. adds[p] \in 1..MaxAdds
    BY AddsAssumption DEF IInv, TypeOK, Mutex, PushWrite
  <2> QED
    BY <2>1 DEF Event, MyEvent
<1>3. pushed' = Append(pushed, e) /\ taken' = taken /\ cur' = cur
  BY DEF PushWrite, consVars
<1> HIDE DEF e
<1>4. Live' = Live + 1 /\ Len(Waiting) < Capacity
  BY <1>1, <1>2, <1>3 DEF RingIsQueue
<1>5. Waiting' = Append(Waiting, e)
  <2>1. Waiting' = [i \in 1..(Live + 1) |-> pushed'[taken + i]]
    BY <1>1, <1>3, <1>4 DEF RingIsQueue, Unread
  <2>2. \A i \in 1..Live : pushed'[taken + i] = Waiting[i]
    BY <1>1, <1>2, <1>3 DEF RingIsQueue, Unread
  <2>3. pushed'[taken + (Live + 1)] = e
    <3>1. Len(pushed) \in Nat /\ Len(pushed) + 1 = taken + (Live + 1)
      BY <1>1 DEF RingIsQueue
    <3>2. Append(pushed, e)[Len(pushed) + 1] = e
      BY <1>1, <1>2, <3>1, AppendIs DEF RingIsQueue
    <3> QED
      BY <1>3, <3>1, <3>2
  <2>4. Append(Waiting, e) = [i \in 1..(Live + 1) |-> IF i <= Live THEN Waiting[i] ELSE e]
    <3>1. Live \in Nat /\ Len(Waiting) = Live /\ Waiting \in Seq(Event)
      BY <1>1 DEF RingIsQueue
    <3> QED
      BY <1>2, <3>1, AppendIs
  <2>5. \A i \in 1..(Live + 1) : pushed'[taken + i] = IF i <= Live THEN Waiting[i] ELSE e
    <3> TAKE i \in 1..(Live + 1)
    <3>1. (i \in 1..Live /\ i <= Live) \/ (i = Live + 1 /\ ~(i <= Live))
      BY <1>1 DEF RingIsQueue
    <3> QED
      BY <2>2, <2>3, <3>1
  <2> QED
    BY <2>1, <2>4, <2>5
<1> QED
  BY <1>2, <1>3, <1>4, <1>5 DEF Fifo!Post

LEMMA TakesHead ==
  ASSUME IInv, IInv', Hand, PopTake
  PROVE  Fifo!Take
<1> USE CapacityAssumption
<1>1. RingIsQueue /\ RingIsQueue'
  BY WaitingIs, WaitingIsNext
<1>2. pushed' = pushed /\ taken' = taken + 1 /\ cur' = buf[get] /\ cur = NoEvent
  BY DEF PopTake, prodVars, Hand
<1>3. buf[get] = pushed[taken + 1] /\ Live \in 1..Capacity
  BY TakesEvent
<1>4. Live' = Live - 1
  BY <1>1, <1>2, <1>3 DEF RingIsQueue
<1>5. Waiting # <<>> /\ Head(Waiting) = pushed[taken + 1]
  <2>1. Live \in Nat /\ Live > 0 /\ Len(Waiting) = Live /\ Waiting \in Seq(Event)
    BY <1>1, <1>3 DEF RingIsQueue
  <2>2. Waiting # <<>> /\ Head(Waiting) = Waiting[1]
    BY <2>1, TailIs
  <2>3. Waiting = Unread /\ 1 \in 1..Live
    BY <1>1, <2>1 DEF RingIsQueue
  <2>4. Unread[1] = pushed[taken + 1]
    BY <2>3 DEF Unread
  <2> QED
    BY <2>2, <2>3, <2>4
<1>6. Waiting' = Tail(Waiting)
  <2>1. Waiting' = [i \in 1..(Live - 1) |-> pushed[taken + 1 + i]]
    BY <1>1, <1>2, <1>4 DEF RingIsQueue, Unread
  <2>2. Tail(Waiting) = [i \in 1..(Live - 1) |-> Waiting[i + 1]]
    <3>1. Live \in Nat /\ Live > 0 /\ Len(Waiting) = Live /\ Waiting \in Seq(Event)
      BY <1>1, <1>3 DEF RingIsQueue
    <3> QED
      BY <3>1, TailIs
  <2>3. \A i \in 1..(Live - 1) : Waiting[i + 1] = pushed[taken + 1 + i]
    <3> TAKE i \in 1..(Live - 1)
    <3>1. i + 1 \in 1..Live /\ taken + (i + 1) = taken + 1 + i
      BY <1>1, <1>3 DEF RingIsQueue
    <3> QED
      BY <1>1, <3>1 DEF RingIsQueue, Unread
  <2> QED
    BY <2>1, <2>2, <2>3
<1> QED
  BY <1>2, <1>3, <1>5, <1>6 DEF Fifo!Take

LEMMA QueueKept ==
  ASSUME IInv, IInv', pushed' = pushed, taken' = taken
  PROVE  Waiting' = Waiting
<1>1. RingIsQueue /\ RingIsQueue'
  BY WaitingIs, WaitingIsNext
<1>2. Live' = Live
  BY <1>1 DEF RingIsQueue
<1> QED
  BY <1>1, <1>2 DEF RingIsQueue, Unread

(* TaskScheduler's ring is a bounded queue, first in, first out, for any   *)
(* number of producers and any capacity: no interleaving of its unlocked   *)
(* accesses loses, repeats or reorders a callback that has entered it.     *)
THEOREM Refinement == Spec => ImplementsEventQueue
<1>1. Init => Fifo!Init /\ Hand
  <2> SUFFICES ASSUME Init PROVE Fifo!Init /\ Hand
    OBVIOUS
  <2>1. cur = NoEvent /\ pushed = <<>> /\ taken = 0 /\ cpc = "start"
    BY DEF Init
  <2>2. RingIsQueue
    BY InitIInv, WaitingIs
  <2>3. Waiting = <<>>
    BY <2>1, <2>2 DEF RingIsQueue
  <2> QED
    BY <2>1, <2>3 DEF Fifo!Init, Hand
<1>2. IInv /\ IInv' /\ Hand /\ [Next]_vars => [Fifo!Next]_<<Waiting, cur>>
  <2> SUFFICES ASSUME IInv, IInv', Hand, [Next]_vars PROVE [Fifo!Next]_<<Waiting, cur>>
    OBVIOUS
  <2>1. ASSUME NEW p \in Producer, PushWrite(p) PROVE Fifo!Post
    BY <2>1, Posts
  <2>2. CASE PopTake
    BY <2>2, TakesHead DEF Fifo!Next
  <2>3. CASE RunCallback
    <3>1. pushed' = pushed /\ taken' = taken /\ cur # NoEvent /\ cur' = NoEvent
      BY <2>3 DEF RunCallback, prodVars, Hand
    <3> QED
      BY <3>1, QueueKept DEF Fifo!Next, Fifo!Return
  <2>4. CASE pushed' = pushed /\ taken' = taken /\ cur' = cur
    BY <2>4, QueueKept
  <2>5. ASSUME NEW p \in Producer, Produce(p), ~PushWrite(p)
        PROVE  pushed' = pushed /\ taken' = taken /\ cur' = cur
    BY <2>5 DEF Produce, SizeCheck, Lock, PushTest, PushCount, WriteWakeup, consVars
  <2>6. CASE Begin \/ LoopTest \/ PopTest \/ PopCount \/ Again \/ Wake \/ OtherWakeup
    BY <2>4, <2>6 DEF Begin, LoopTest, PopTest, PopCount, Again, Wake, OtherWakeup, prodVars
  <2>7. CASE StopFlag \/ StopWakeup \/ UNCHANGED vars
    BY <2>4, <2>7 DEF StopFlag, StopWakeup, prodVars, consVars, vars
  <2> QED
    BY <2>1, <2>2, <2>3, <2>4, <2>5, <2>6, <2>7 DEF Next, Consume, Fifo!Next
<1> QED
  BY <1>1, <1>2, Invariance, HandStep, PTL DEF Spec, ImplementsEventQueue, Fifo!Spec

(* The scheduler never sleeps through a posted event or a Stop.            *)
THEOREM Wakeup == Spec => []NoLostWakeup
<1>1. IInv => NoLostWakeup
  BY DEF IInv, Wakeups
<1> QED
  BY <1>1, Invariance, PTL

(* With a single posting thread, AddTriggerEvent never reports success for *)
(* an event that the ring refused.                                         *)
THEOREM SoleProducer == Spec => []SoleProducerLosesNothing
<1>1. IInv => SoleProducerLosesNothing
  BY DEF IInv, Room, SoleProducerLosesNothing
<1> QED
  BY <1>1, Invariance, PTL
=============================================================================
