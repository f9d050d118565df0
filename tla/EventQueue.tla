----------------------------- MODULE EventQueue -----------------------------
(***************************************************************************)
(* What TaskScheduler promises of its trigger events, seen from outside:   *)
(* a bounded queue, first in, first out, of which the scheduler's thread   *)
(* takes one callback at a time and runs it before it takes the next.      *)
(***************************************************************************)
EXTENDS Naturals, Sequences

CONSTANTS Event, NoEvent, Capacity

VARIABLES queue,  \* events posted and not yet taken, the oldest first
          running \* the event whose callback is being run, or NoEvent

Init == queue = <<>> /\ running = NoEvent

Post ==
    /\ Len(queue) < Capacity
    /\ \E e \in Event : queue' = Append(queue, e)
    /\ UNCHANGED running

Take ==
    /\ queue # <<>> /\ running = NoEvent
    /\ running' = Head(queue) /\ queue' = Tail(queue)

Return == running # NoEvent /\ running' = NoEvent /\ UNCHANGED queue

Next == Post \/ Take \/ Return

Spec == Init /\ [][Next]_<<queue, running>>
=============================================================================
