------------------------------ MODULE TcpServer ------------------------------
(***************************************************************************)
(* The life of a TcpConnection in xop::TcpServer.  The acceptor's thread   *)
(* builds a connection, stores it under its descriptor and then installs   *)
(* the disconnect callback; the connection's own scheduler thread runs     *)
(* trigger events, timers and the epoll batch; any other thread may call   *)
(* Stop and Start.  An object lives while connections_, a pending trigger  *)
(* event or the accept callback holds a shared_ptr to it; its destructor   *)
(* closes the descriptor, which the system may then hand out again.        *)
(*                                                                         *)
(* With one event-loop thread (single) accepting is part of the epoll      *)
(* batch; otherwise the acceptor runs on scheduler 0 and the connections   *)
(* modelled here share another one.                                        *)
(***************************************************************************)
EXTENDS Integers, Sequences, FiniteSets

CONSTANTS Fd,         \* descriptors the system hands out
          MaxConn,    \* bound: connections accepted
          MaxTrigger, \* kMaxTriggetEvents
          None

ASSUME ConnAssumption == MaxConn \in Nat /\ MaxTrigger \in Nat
ASSUME NoneAssumption == None \notin Fd /\ None \notin 0..MaxConn

Conn == 1..MaxConn

VARIABLES
    single,   \* EventLoop's num_threads is 1; does not change
    count,    \* connections accepted so far
    fd,       \* channel_->GetSocket() of each connection
    stored,   \* connections_: the connection stored under each descriptor
    closed,   \* connections with is_closed_
    hascb,    \* connections with disconnect_cb_ set
    reg,      \* connections whose channel is in epoll
    trig,     \* trigger events: <<"close", conn>> or <<"remove", fd>>
    timers,   \* descriptors with a fallback timer that has not fired
    rem,      \* the descriptor RemoveConnection has just erased, with mutex_
              \* (and a fired timer's entry) still held, or None
    loop,     \* phase of the scheduler's thread
    batch,    \* channels epoll_wait has returned and not yet handled
    acc,      \* the connection the accept callback is working on, or None
    step,     \* what it has done: "built", "added"
    listen,   \* the acceptor's socket is open
    sto,      \* the thread in Stop: "run", "disconnect", "acceptor",
              \* "wait", "stopped"
    todo,     \* connections Stop has still to disconnect
    missed,   \* history: accepted too late for Stop, its Close not stored,
              \* or closed without a disconnect callback
    lost      \* history: the removal was dropped by a call that returned true

vars == <<single, count, fd, stored, closed, hascb, reg, trig, timers, rem, loop, batch,
          acc, step, listen, sto, todo, missed, lost>>
accVars == <<single, count, fd, hascb, acc, step, listen>>
stopVars == <<sto, todo, missed, lost>>

(* The channel of the listening socket. *)
Listen == 0

Init ==
    /\ single \in BOOLEAN
    /\ count = 0 /\ fd = [c \in Conn |-> None] /\ stored = [f \in Fd |-> None]
    /\ closed = {} /\ hascb = {} /\ reg = {}
    /\ trig = <<>> /\ timers = {} /\ rem = None /\ loop = "trigger" /\ batch = {}
    /\ acc = None /\ step = "built" /\ listen = TRUE
    /\ sto = "run" /\ todo = {} /\ missed = {} /\ lost = {}

(* Who holds a shared_ptr to connection c. *)
Alive(c) ==
    \/ \E f \in Fd : stored[f] = c
    \/ \E n \in 1..Len(trig) : trig[n] = <<"close", c>>
    \/ acc = c

(* Faulty variant: Close closes the socket.                                *)
BadOpenFds == {fd[c] : c \in {x \in 1..count : Alive(x) /\ x \notin closed}}

(* The descriptors in use: the destructor closes the socket.               *)
OpenFds == {fd[c] : c \in {x \in 1..count : Alive(x)}}

(* TcpServer::mutex_ is free: Stop holds it while it disconnects, and      *)
(* RemoveConnection until it returns.                                      *)
ServerUnlocked == sto # "disconnect" /\ rem = None

-----------------------------------------------------------------------------
(* Acceptor::OnAccept, with the acceptor's mutex held to the end           *)

(* accept, then OnConnect: the constructor registers the channel.          *)
AcceptConnection(f) ==
    /\ listen /\ acc = None /\ count < MaxConn
    /\ f \in Fd \ OpenFds
    /\ IF single THEN loop = "dispatch" /\ Listen \in batch ELSE TRUE
    /\ batch' = batch \ {Listen}
    /\ count' = count + 1
    /\ fd' = [fd EXCEPT ![count'] = f]
    /\ acc' = count' /\ step' = "built"
    /\ reg' = reg \cup {count'}
    /\ UNCHANGED <<single, stored, closed, hascb, trig, timers, rem, loop, listen, stopVars>>

(* connections_.emplace leaves an entry that is already there.             *)
Emplace(f, c) == IF stored[f] = None THEN [stored EXCEPT ![f] = c] ELSE stored

AddConnection ==
    /\ acc # None /\ step = "built" /\ ServerUnlocked
    /\ step' = "added"
    /\ stored' = Emplace(fd[acc], acc)
    /\ missed' = IF sto # "run" THEN missed \cup {acc} ELSE missed
    /\ UNCHANGED <<single, count, fd, closed, hascb, reg, trig, timers, rem, loop, batch,
                   acc, listen, sto, todo, lost>>

SetDisconnectCallback ==
    /\ acc # None /\ step = "added"
    /\ hascb' = hascb \cup {acc}
    /\ acc' = None
    /\ UNCHANGED <<single, count, fd, stored, closed, reg, trig, timers, rem, loop, batch,
                   step, listen, stopVars>>

-----------------------------------------------------------------------------
(* The scheduler's thread; with one thread it is busy while accepting, and *)
(* RemoveConnection has to return before it goes on.                       *)
LoopFree == rem = None /\ (single => acc = None)

(* What comes of AddTriggerEvent: "refused" returns false; "dropped"       *)
(* returns true, although the queue that had room when its size was tested *)
(* was full when Push came to it.                                          *)
Outcome == {"stored", "refused", "dropped"}

(* AddTriggerEvent: the queue is also used for RTP packets, which another  *)
(* thread posts, so that it may be full at any time.                       *)
Post(q, e, out) ==
    /\ out = "stored" => Len(q) < MaxTrigger
    /\ trig' = IF out = "stored" THEN Append(q, e) ELSE q

(* Faulty variant: the connection is erased at once.                       *)
EagerRemoval(c, q, out) ==
    /\ stored' = [stored EXCEPT ![fd[c]] = None]
    /\ trig' = q
    /\ UNCHANGED <<timers, lost>>

(* Faulty variant: without the timer.                                      *)
BadRemoval(c, q, out) ==
    /\ Post(q, <<"remove", fd[c]>>, out)
    /\ lost' = IF out = "dropped" THEN lost \cup {c} ELSE lost
    /\ UNCHANGED <<stored, timers>>

(* The disconnect callback: RemoveConnection is posted, or put on a timer  *)
(* when AddTriggerEvent returns false.                                     *)
Removal(c, q, out) ==
    /\ Post(q, <<"remove", fd[c]>>, out)
    /\ timers' = IF out = "refused" THEN timers \cup {fd[c]} ELSE timers
    /\ lost' = IF out = "dropped" THEN lost \cup {c} ELSE lost
    /\ UNCHANGED stored

(* Faulty variant: a second Close runs the callbacks again.                *)
BadMayClose(c) == TRUE

(* if (!is_closed_) *)
MayClose(c) == c \notin closed

(* TcpConnection::Close, with q the pending trigger events.                *)
Close(c, q, out) ==
    IF MayClose(c)
      THEN /\ closed' = closed \cup {c}
           /\ reg' = reg \ {c}
           /\ IF c \in hascb
                THEN Removal(c, q, out) /\ UNCHANGED missed
                ELSE trig' = q /\ missed' = missed \cup {c} /\ UNCHANGED <<stored, timers, lost>>
      ELSE trig' = q /\ UNCHANGED <<closed, reg, stored, timers, missed, lost>>

(* HandleTriggerEvent: conn->Close(), posted by Disconnect.  The event is  *)
(* popped before it runs.                                                  *)
RunClose(out) ==
    /\ loop = "trigger" /\ LoopFree /\ trig # <<>> /\ Head(trig)[1] = "close"
    /\ Close(Head(trig)[2], Tail(trig), out)
    /\ UNCHANGED <<accVars, rem, loop, batch, sto, todo>>

(* RemoveConnection takes the mutex and erases the entry, whose destructor *)
(* runs; Stop, which polls the map without the mutex, sees this at once.   *)
Erase(f) ==
    /\ ServerUnlocked
    /\ stored' = [stored EXCEPT ![f] = None]
    /\ rem' = f

RunRemove ==
    /\ loop = "trigger" /\ LoopFree /\ trig # <<>> /\ Head(trig)[1] = "remove"
    /\ Erase(Head(trig)[2])
    /\ trig' = Tail(trig)
    /\ UNCHANGED <<accVars, closed, reg, timers, loop, batch, stopVars>>

(* ~lock_guard; after a timer its entry is erased too.                     *)
RemoveReturns ==
    /\ rem # None
    /\ rem' = None
    /\ UNCHANGED <<accVars, stored, closed, reg, trig, timers, loop, batch, stopVars>>

TriggersDone ==
    /\ loop = "trigger" /\ LoopFree /\ trig = <<>>
    /\ loop' = "timers"
    /\ UNCHANGED <<accVars, stored, closed, reg, trig, timers, rem, batch, stopVars>>

(* HandleTimerEvent: the 100 ms have passed, and RemoveConnection runs.    *)
RunTimer(f) ==
    /\ loop = "timers" /\ LoopFree /\ f \in timers
    /\ timers' = timers \ {f}
    /\ Erase(f)
    /\ UNCHANGED <<accVars, closed, reg, trig, loop, batch, stopVars>>

(* epoll_wait returns some channels: any that has input, a hang-up or room *)
(* to write, and the listening socket.                                     *)
EpollWait(b) ==
    /\ loop = "timers" /\ LoopFree
    /\ b \subseteq reg \cup (IF single /\ listen THEN {Listen} ELSE {})
    /\ loop' = "dispatch" /\ batch' = b
    /\ UNCHANGED <<accVars, stored, closed, reg, trig, timers, rem, stopVars>>

(* Channel::HandleEvent calls up to three of HandleRead, HandleWrite,      *)
(* HandleClose and HandleError; this one ends in Close or leaves the       *)
(* connection as it is, and more may follow.                               *)
Dispatch(c, close, more, out) ==
    /\ loop = "dispatch" /\ LoopFree /\ c \in batch \ {Listen}
    /\ batch' = IF more THEN batch ELSE batch \ {c}
    /\ IF close THEN Close(c, trig, out)
                ELSE UNCHANGED <<closed, reg, stored, trig, timers, missed, lost>>
    /\ UNCHANGED <<accVars, rem, loop, sto, todo>>

(* OnAccept when the socket is closed or nobody waits.                     *)
AcceptNothing ==
    /\ loop = "dispatch" /\ LoopFree /\ Listen \in batch
    /\ batch' = batch \ {Listen}
    /\ UNCHANGED <<accVars, stored, closed, reg, trig, timers, rem, loop, stopVars>>

DispatchDone ==
    /\ loop = "dispatch" /\ LoopFree /\ batch = {}
    /\ loop' = "trigger"
    /\ UNCHANGED <<accVars, stored, closed, reg, trig, timers, rem, batch, stopVars>>

-----------------------------------------------------------------------------
(* TcpServer::Stop and TcpServer::Start *)

StopBegin ==
    /\ sto = "run" /\ ServerUnlocked
    /\ sto' = "disconnect"
    /\ todo' = {stored[f] : f \in Fd} \ {None}
    /\ UNCHANGED <<accVars, stored, closed, reg, trig, timers, rem, loop, batch, missed, lost>>

(* TcpConnection::Disconnect; a Close that is not stored goes unnoticed.   *)
Disconnect(c, out) ==
    /\ sto = "disconnect" /\ c \in todo
    /\ todo' = todo \ {c}
    /\ Post(trig, <<"close", c>>, out)
    /\ missed' = IF out = "stored" THEN missed ELSE missed \cup {c}
    /\ UNCHANGED <<accVars, stored, closed, reg, timers, rem, loop, batch, sto, lost>>

StopUnlock ==
    /\ sto = "disconnect" /\ todo = {}
    /\ sto' = "acceptor"
    /\ UNCHANGED <<accVars, stored, closed, reg, trig, timers, rem, loop, batch, todo, missed,
                   lost>>

(* Acceptor::Close waits for an OnAccept in progress.                      *)
CloseAcceptor ==
    /\ sto = "acceptor" /\ acc = None
    /\ sto' = "wait" /\ listen' = FALSE
    /\ UNCHANGED <<single, count, fd, hascb, acc, step, stored, closed, reg, trig, timers,
                   rem, loop, batch, todo, missed, lost>>

(* Faulty variant: Stop does not wait for the connections.                 *)
BadDrained == TRUE

(* connections_.empty(), polled without the mutex.                         *)
Drained == \A f \in Fd : stored[f] = None

StopReturns ==
    /\ sto = "wait" /\ Drained
    /\ sto' = "stopped" /\ missed' = {}
    /\ UNCHANGED <<accVars, stored, closed, reg, trig, timers, rem, loop, batch, todo, lost>>

Start ==
    /\ sto = "stopped"
    /\ sto' = "run" /\ listen' = TRUE
    /\ UNCHANGED <<single, count, fd, hascb, acc, step, stored, closed, reg, trig, timers,
                   rem, loop, batch, todo, missed, lost>>

-----------------------------------------------------------------------------
Acceptor ==
    \/ AddConnection \/ SetDisconnectCallback

Scheduler ==
    \/ (\E out \in Outcome : RunClose(out)) \/ RunRemove \/ RemoveReturns \/ TriggersDone
    \/ (\E f \in Fd : RunTimer(f))
    \/ (\E c \in Conn, close, more \in BOOLEAN, out \in Outcome : Dispatch(c, close, more, out))
    \/ AcceptNothing \/ DispatchDone
    \/ (\E b \in SUBSET (Conn \cup {Listen}) : EpollWait(b))

Stop ==
    \/ (\E c \in Conn, out \in Outcome : Disconnect(c, out))
    \/ StopUnlock \/ CloseAcceptor \/ StopReturns

Next ==
    \/ (\E f \in Fd : AcceptConnection(f)) \/ Acceptor
    \/ Scheduler
    \/ StopBegin \/ Stop \/ Start

Spec == Init /\ [][Next]_vars

(* The three threads run; clients connect and hang up as they like.  A     *)
(* timer is looked at in every pass, and due after 100 ms.                 *)
FairSpec ==
    /\ Spec /\ WF_vars(Acceptor) /\ WF_vars(Scheduler) /\ WF_vars(Stop)
    /\ \A f \in Fd : SF_vars(RunTimer(f))

-----------------------------------------------------------------------------
(* Properties *)

(* The maps relate connections that exist.                                 *)
TypeOK ==
    /\ single \in BOOLEAN
    /\ count \in 0..MaxConn
    /\ fd \in [Conn -> Fd \cup {None}]
    /\ stored \in [Fd -> 1..count \cup {None}]
    /\ closed \subseteq 1..count /\ hascb \subseteq 1..count
    /\ reg \subseteq 1..count
    /\ trig \in Seq(({"close"} \X (1..count)) \cup ({"remove"} \X Fd))
    /\ timers \subseteq Fd /\ rem \in Fd \cup {None}
    /\ loop \in {"trigger", "timers", "dispatch"} /\ batch \subseteq 0..count
    /\ acc \in 1..count \cup {None} /\ step \in {"built", "added"}
    /\ listen \in BOOLEAN
    /\ sto \in {"run", "disconnect", "acceptor", "wait", "stopped"}
    /\ todo \subseteq 1..count /\ missed \subseteq 1..count /\ lost \subseteq 1..count

(* The raw Channel pointers of an epoll batch stay valid until they are    *)
(* dispatched: a connection closed by an earlier event of the batch, or by *)
(* a trigger event, is destroyed only by a later trigger event or timer.   *)
NoDanglingChannel == \A c \in (batch \cup reg) \ {Listen} : Alive(c)

(* AddConnection finds its descriptor free: an entry under the same number *)
(* would keep the new connection out of the map and destroy it.            *)
DescriptorFree == acc # None /\ step = "built" => stored[fd[acc]] = None

(* A trigger event of q removes what is stored under f.                    *)
Posted(q, f) == \E n \in 1..Len(q) : q[n] = <<"remove", f>>

(* RemoveConnection, which names a connection by its descriptor only, hits *)
(* the connection it was posted for: one that is closed, and not a later   *)
(* one that was given the same descriptor.                                 *)
RemovesOnlyClosed ==
    \A f \in Fd : f \in timers \/ Posted(trig, f) => stored[f] \in closed

(* A closed connection does not stay in the map: its removal is pending,   *)
(* unless the trigger queue dropped it behind a true return.  This needs   *)
(* the disconnect callback to be there before the first event, which holds *)
(* when the acceptor and the connections share one thread.                 *)
ClosedIsRemoved ==
    single => \A f \in Fd : stored[f] \in closed \ lost => f \in timers \/ Posted(trig, f)

(* From the return of Stop to the next Start every connection is closed,   *)
(* no channel of a connection is registered, and no event or timer will    *)
(* call RemoveConnection: at most the call that emptied the map, which     *)
(* Stop does not wait for, has still to unlock mutex_ (rem).               *)
StopLeavesNothing ==
    sto = "stopped" =>
        /\ closed = 1..count /\ reg = {} /\ timers = {}
        /\ \A f \in Fd : ~ Posted(trig, f)

(* Stop returns, unless a connection was accepted after it had gone        *)
(* through the list, the trigger queue refused or dropped the Close that   *)
(* Disconnect posts, a connection was closed before it had its disconnect  *)
(* callback, or the queue dropped a removal behind a true return.          *)
StopTerminates == (sto = "disconnect") ~> (sto = "stopped" \/ missed # {} \/ lost # {})
=============================================================================
