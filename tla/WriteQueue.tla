----------------------------- MODULE WriteQueue -----------------------------
(***************************************************************************)
(* The write side of one TcpConnection: the queue of BufferWriter, partial *)
(* sends, the channel's interest in EPOLLOUT, and the mutex that the       *)
(* loop's thread only tries to take in HandleWrite.  All packets are sent  *)
(* by the loop's thread; another thread may be in Disconnect.              *)
(*                                                                         *)
(* A packet is a number and a size in bytes; wire is the last piece the    *)
(* socket has taken.                                                       *)
(***************************************************************************)
EXTENDS Integers, Sequences

CONSTANTS Sizes,   \* sizes of packets
          MaxQueue \* max_queue_length_ (500)

ASSUME QueueAssumption == Sizes \subseteq Nat \ {0} /\ MaxQueue \in Nat \ {0}

VARIABLES
    wq,      \* buffer_: packets, with writeIndex as at
    wire,    \* the last piece sent: bytes from + 1 to to of packet id
    writing, \* channel_->IsWriting()
    closed,  \* is_closed_
    mutex,   \* mutex_: "free", "loop" or "disconnect"
    lpc,     \* loop's thread: "idle", "write" (HandleWrite called), "send", "sent"
    sent,    \* packets handed to Send so far
    disc     \* Disconnect: "no", "locked", "posted", "refused", "done"

qVars == <<wq, wire, writing, sent>>
wqVars == <<qVars, closed, mutex, lpc, disc>>

WqInit ==
    /\ wq = <<>> /\ wire = [id |-> 0, from |-> 0, to |-> 0, size |-> 0]
    /\ writing = FALSE /\ closed = FALSE /\ mutex = "free" /\ lpc = "idle"
    /\ sent = 0 /\ disc = "no"

(* BufferWriter::Append; a full queue drops the packet and nobody is told. *)
Queued(s) == IF Len(wq) >= MaxQueue THEN wq
                                    ELSE Append(wq, [id |-> sent + 1, size |-> s, at |-> 0])

(* TcpConnection::Send up to the call of HandleWrite, on the loop's thread.*)
Send(s) ==
    /\ mutex = "free"
    /\ wq' = Queued(s)
    /\ sent' = sent + 1
    /\ lpc' = "write"
    /\ UNCHANGED <<wire, writing, closed, mutex, disc>>

(* A packet that a trigger event sends: RTP over TCP.                      *)
SendEvent(s) == lpc = "idle" /\ ~closed /\ Send(s)

(* EPOLLOUT: HandleWrite is called.                                        *)
Writable ==
    /\ lpc = "idle" /\ ~closed /\ writing
    /\ lpc' = "write"
    /\ UNCHANGED <<qVars, closed, mutex, disc>>

(* HandleWrite gives up when the mutex is taken.                           *)
TryLock ==
    /\ lpc = "write"
    /\ IF mutex = "free" THEN mutex' = "loop" /\ lpc' = "send"
                         ELSE lpc' = "idle" /\ UNCHANGED mutex
    /\ UNCHANGED <<qVars, closed, disc>>

(* Faulty variant: a packet is popped although only part of it was sent.   *)
BadAdvance(p, k) == Tail(wq)

(* writeIndex moves on; a packet that is sent is popped.                   *)
Advance(p, k) == IF p.at + k = p.size THEN Tail(wq) ELSE [wq EXCEPT ![1].at = p.at + k]

(* One ::send of BufferWriter::Send takes k bytes; the loop goes on after  *)
(* a packet that is sent whole.                                            *)
SendSome ==
    /\ lpc = "send" /\ wq # <<>>
    /\ LET p == Head(wq) IN
       \E k \in 1..(p.size - p.at) :
          /\ wire' = [id |-> p.id, from |-> p.at, to |-> p.at + k, size |-> p.size]
          /\ wq' = Advance(p, k)
          /\ lpc' = IF p.at + k = p.size THEN "send" ELSE "sent"
    /\ UNCHANGED <<writing, sent, closed, mutex, disc>>

(* EAGAIN *)
SendStalls ==
    /\ lpc = "send" /\ wq # <<>>
    /\ lpc' = "sent"
    /\ UNCHANGED <<qVars, closed, mutex, disc>>

(* Any other error closes the connection.                                  *)
SendFails ==
    /\ lpc = "send" /\ wq # <<>>
    /\ closed' = TRUE /\ mutex' = "free" /\ lpc' = "idle"
    /\ UNCHANGED <<qVars, disc>>

(* Faulty variant: the interest in EPOLLOUT is not raised again.           *)
BadInterest == FALSE

(* EnableWriting or DisableWriting, by IsEmpty.                            *)
Interest == wq # <<>>

UpdateWriting ==
    /\ lpc = "sent" \/ (lpc = "send" /\ wq = <<>>)
    /\ writing' = Interest
    /\ mutex' = "free" /\ lpc' = "idle"
    /\ UNCHANGED <<wq, wire, sent, closed, disc>>

(* Disconnect on another thread: the mutex is held while the event is      *)
(* posted, and the event may be refused.                                   *)
DisconnectLock ==
    /\ disc = "no" /\ mutex = "free"
    /\ mutex' = "disconnect" /\ disc' = "locked"
    /\ UNCHANGED <<qVars, closed, lpc>>

DisconnectPost(ok) ==
    /\ disc = "locked"
    /\ disc' = IF ok THEN "posted" ELSE "refused"
    /\ mutex' = "free"
    /\ UNCHANGED <<qVars, closed, lpc>>

(* The event runs Close without the mutex.                                 *)
RunClose ==
    /\ lpc = "idle" /\ disc = "posted"
    /\ closed' = TRUE /\ disc' = "done"
    /\ UNCHANGED <<qVars, mutex, lpc>>

(* HandleClose or HandleError of the channel, or an empty read.            *)
HangUp ==
    /\ lpc = "idle" /\ ~closed /\ mutex = "free"
    /\ closed' = TRUE
    /\ UNCHANGED <<qVars, mutex, lpc, disc>>

HandleWrite == TryLock \/ SendSome \/ SendStalls \/ SendFails \/ UpdateWriting

Disconnect == DisconnectLock \/ (\E ok \in BOOLEAN : DisconnectPost(ok))

(* The steps of the write side that depend on nothing else.                *)
WqStep == Writable \/ HandleWrite \/ Disconnect \/ RunClose \/ HangUp

(* On its own, the write side may be handed a packet at any time.          *)
WqNext == WqStep \/ (\E s \in Sizes : SendEvent(s))

WqSpec == WqInit /\ [][WqNext]_wqVars

-----------------------------------------------------------------------------
Packet == [id : Nat \ {0}, size : Sizes, at : Nat]

(* Type correctness of the write side (TcpConnection.h, BufferWriter.h).   *)
WqTypeOK ==
    /\ wq \in Seq(Packet)
    /\ wire \in [id : Nat, from : Nat, to : Nat, size : Nat]
    /\ writing \in BOOLEAN /\ closed \in BOOLEAN
    /\ mutex \in {"free", "loop", "disconnect"}
    /\ lpc \in {"idle", "write", "send", "sent"}
    /\ sent \in Nat
    /\ disc \in {"no", "locked", "posted", "refused", "done"}

(* The peer sees whole packets, in the order of Send: whatever the socket  *)
(* takes continues the last piece, or starts a later packet after the last *)
(* one is complete.  Only whole packets are missing (a full queue).        *)
WireInOrder ==
    [][IF wire'.id = wire.id
       THEN wire'.from = wire.to /\ wire'.size = wire.size
       ELSE wire.to = wire.size /\ wire'.from = 0 /\ wire'.id > wire.id]_wire

(* HandleWrite only tries the mutex, and its caller is not told that it    *)
(* gave up.  Data left in the queue of an open connection still has an     *)
(* EPOLLOUT to wait for, unless Disconnect was at work: then Close follows,*)
(* or, with the trigger event refused, the data waits for the next Send.   *)
NoStuckData ==
    lpc = "idle" /\ ~closed /\ wq # <<>> => writing \/ disc \in {"locked", "posted", "refused"}
=============================================================================
