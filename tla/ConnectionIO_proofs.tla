------------------------- MODULE ConnectionIO_proofs -------------------------
(***************************************************************************)
(* Proofs about ConnectionIO: whatever it reads, the connection writes     *)
(* through its WriteQueue and in no other way, the pusher's handshake      *)
(* stays in step with the server, replies match their requests, and no     *)
(* whole message is lost.                                                  *)
(***************************************************************************)
EXTENDS ConnectionIO, FiniteSetTheorems, WellFoundedInduction, SequenceTheorems, TLAPS

-----------------------------------------------------------------------------
(* The write side of a connection, for packets of any sizes and any limit  *)
(* of the queue.                                                           *)

(* Queued packets are numbered in the order of Send; only the first one    *)
(* can be on the wire in part, and none is there in full.                  *)
Ordered ==
    /\ \A i \in 1..Len(wq) : wq[i].id <= sent /\ wq[i].at < wq[i].size /\ (i > 1 => wq[i].at = 0)
    /\ \A i, j \in 1..Len(wq) : i < j => wq[i].id < wq[j].id

(* What the wire has seen ends where the first packet goes on.             *)
Continues ==
    /\ wire.id <= sent
    /\ wq = <<>> => wire.to = wire.size
    /\ wq # <<>> => IF wq[1].at > 0
                    THEN wire.id = wq[1].id /\ wire.to = wq[1].at /\ wire.size = wq[1].size
                    ELSE wire.id < wq[1].id /\ wire.to = wire.size

(* Who holds the mutex.                                                    *)
Holder ==
    /\ mutex = "loop" <=> lpc \in {"send", "sent"}
    /\ mutex = "disconnect" <=> disc = "locked"

IInv == WqTypeOK /\ Ordered /\ Continues /\ Holder /\ NoStuckData

-----------------------------------------------------------------------------
(* The initial states satisfy the invariant.                               *)
LEMMA InitInv == WqInit => IInv
  <1> SUFFICES ASSUME WqInit PROVE IInv
    OBVIOUS
  <1>1. wq = <<>> /\ Len(wq) = 0 /\ wq \in Seq(Packet)
    BY DEF WqInit
  <1>2. wire.id = 0 /\ wire.to = 0 /\ wire.size = 0 /\ sent = 0
        /\ wire \in [id : Nat, from : Nat, to : Nat, size : Nat]
    BY DEF WqInit
  <1>3. WqTypeOK
    BY <1>1, <1>2 DEF WqInit, WqTypeOK
  <1>4. Ordered
    BY <1>1 DEF Ordered
  <1>5. Continues
    BY <1>1, <1>2 DEF Continues
  <1>6. Holder /\ NoStuckData
    BY <1>1 DEF WqInit, Holder, NoStuckData
  <1> QED BY <1>3, <1>4, <1>5, <1>6 DEF IInv

(* The fields of a queued packet.                                          *)
LEMMA Fields ==
  ASSUME NEW q \in Seq(Packet)
  PROVE  \A i \in 1..Len(q) : /\ q[i] \in Packet /\ q[i].id \in Nat \ {0}
                              /\ q[i].size \in Sizes /\ q[i].size \in Nat \ {0} /\ q[i].at \in Nat
  <1> TAKE i \in 1..Len(q)
  <1>1. q[i] \in Packet
    OBVIOUS
  <1> QED BY <1>1, QueueAssumption DEF Packet

(* A packet that is appended is the newest (BufferWriter::Append).         *)
LEMMA SendInv ==
  ASSUME IInv, NEW s \in Sizes, SendEvent(s)
  PROVE  IInv'
  <1> USE DEF IInv, WqTypeOK
  <1> DEFINE p == [id |-> sent + 1, size |-> s, at |-> 0]
  <1>1. p \in Packet /\ p.id = sent + 1 /\ p.size = s /\ p.at = 0 /\ s \in Nat \ {0}
    BY QueueAssumption DEF Packet
  <1>2. CASE Len(wq) >= MaxQueue
    <2>1. wq' = wq /\ sent' = sent + 1 /\ wire' = wire /\ lpc' = "write"
          /\ UNCHANGED <<writing, closed, mutex, disc>> /\ mutex = "free"
      BY <1>2 DEF SendEvent, Send, Queued
    <2>2. WqTypeOK'
      BY <2>1
    <2>3. Ordered'
      BY <2>1, Fields DEF Ordered
    <2>4. Continues'
      BY <2>1 DEF Continues
    <2>5. Holder' /\ NoStuckData'
      BY <2>1 DEF Holder, NoStuckData
    <2> QED BY <2>2, <2>3, <2>4, <2>5
  <1>3. CASE ~(Len(wq) >= MaxQueue)
    <2>1. wq' = Append(wq, p) /\ sent' = sent + 1 /\ wire' = wire /\ lpc' = "write"
          /\ UNCHANGED <<writing, closed, mutex, disc>> /\ mutex = "free"
      BY <1>3 DEF SendEvent, Send, Queued
    <2>2. WqTypeOK'
      BY <1>1, <2>1
    <2>3. /\ Len(wq') = Len(wq) + 1 /\ Len(wq) \in Nat /\ wq'[Len(wq) + 1] = p
          /\ \A i \in 1..Len(wq) : wq'[i] = wq[i] /\ wq[i] \in Packet
      BY <1>1, <2>1
    <2>4. Ordered'
      <3>1. ASSUME NEW i \in 1..Len(wq')
            PROVE  wq'[i].id <= sent' /\ wq'[i].at < wq'[i].size /\ (i > 1 => wq'[i].at = 0)
        <4>1. CASE i = Len(wq) + 1
          BY <1>1, <2>1, <2>3, <4>1
        <4>2. CASE i \in 1..Len(wq)
          BY <2>1, <2>3, <4>2, Fields DEF Ordered
        <4> QED BY <2>3, <4>1, <4>2
      <3>2. ASSUME NEW i \in 1..Len(wq'), NEW j \in 1..Len(wq'), i < j
            PROVE  wq'[i].id < wq'[j].id
        <4>1. i \in 1..Len(wq) /\ wq[i].id \in Nat /\ wq[i].id <= sent /\ wq'[i] = wq[i]
          BY <2>3, <3>2, Fields DEF Ordered
        <4>2. CASE j = Len(wq) + 1
          BY <1>1, <2>1, <2>3, <4>1, <4>2
        <4>3. CASE j \in 1..Len(wq)
          BY <2>3, <3>2, <4>1, <4>3 DEF Ordered
        <4> QED BY <2>3, <4>2, <4>3
      <3> QED BY <3>1, <3>2 DEF Ordered
    <2>5. Continues'
      <3>1. CASE wq = <<>>
        BY <1>1, <2>1, <2>3, <3>1 DEF Continues
      <3>2. CASE wq # <<>>
        <4>1. Len(wq) >= 1 /\ wq'[1] = wq[1] /\ wq' # <<>>
          BY <2>3, <3>2
        <4> QED BY <2>1, <3>2, <4>1 DEF Continues
      <3> QED BY <3>1, <3>2
    <2>6. Holder' /\ NoStuckData'
      BY <2>1 DEF Holder, NoStuckData
    <2> QED BY <2>2, <2>4, <2>5, <2>6
  <1> QED BY <1>2, <1>3

(* One ::send moves the first packet on or pops it, and what goes out      *)
(* continues the wire.                                                     *)
LEMMA SendSomeInv ==
  ASSUME IInv, SendSome
  PROVE  /\ IInv'
         /\ IF wire'.id = wire.id THEN wire'.from = wire.to /\ wire'.size = wire.size
            ELSE wire.to = wire.size /\ wire'.from = 0 /\ wire'.id > wire.id
  <1> USE DEF IInv, WqTypeOK
  <1> DEFINE p == Head(wq)
  <1>1. /\ lpc = "send" /\ wq # <<>> /\ p = Head(wq) /\ p = wq[1] /\ p \in Packet
        /\ Len(wq) \in Nat /\ Len(wq) >= 1 /\ \A i \in 1..Len(wq) : wq[i] \in Packet
    BY DEF SendSome
  <1> HIDE DEF p
  <1>2. /\ p.id \in Nat \ {0} /\ p.size \in Nat /\ p.size \in Sizes /\ p.at \in Nat
        /\ p.at < p.size /\ p.id <= sent
    <2>1. 1 \in 1..Len(wq)
      BY <1>1
    <2> QED BY <1>1, <2>1, Fields DEF Ordered
  <1>3. PICK k \in 1..(p.size - p.at) :
          /\ wire' = [id |-> p.id, from |-> p.at, to |-> p.at + k, size |-> p.size]
          /\ wq' = Advance(p, k)
          /\ lpc' = IF p.at + k = p.size THEN "send" ELSE "sent"
    BY <1>1 DEF SendSome
  <1>4. UNCHANGED <<writing, sent, closed, mutex, disc>>
    BY DEF SendSome
  <1>5. IF wire'.id = wire.id THEN wire'.from = wire.to /\ wire'.size = wire.size
        ELSE wire.to = wire.size /\ wire'.from = 0 /\ wire'.id > wire.id
    BY <1>1, <1>2, <1>3 DEF Continues
  <1>6. wire' \in [id : Nat, from : Nat, to : Nat, size : Nat]
    BY <1>2, <1>3
  <1>7. Holder' /\ NoStuckData'
    BY <1>1, <1>3, <1>4 DEF Holder, NoStuckData
  <1>8. CASE p.at + k = p.size
    <2>1. wq' = Tail(wq) /\ wire'.to = wire'.size /\ wire'.id = p.id
      BY <1>2, <1>3, <1>8 DEF Advance
    <2>2. /\ wq' \in Seq(Packet) /\ Len(wq') = Len(wq) - 1
          /\ \A i \in 1..Len(wq') : wq'[i] = wq[i + 1] /\ i + 1 \in 1..Len(wq)
      BY <1>1, <2>1
    <2>3. Ordered'
      <3>1. ASSUME NEW i \in 1..Len(wq')
            PROVE  wq'[i].id <= sent' /\ wq'[i].at < wq'[i].size /\ (i > 1 => wq'[i].at = 0)
        <4>1. wq'[i] = wq[i + 1] /\ i + 1 \in 1..Len(wq) /\ i + 1 > 1
          BY <1>1, <2>2
        <4> QED BY <1>4, <4>1 DEF Ordered
      <3>2. ASSUME NEW i \in 1..Len(wq'), NEW j \in 1..Len(wq'), i < j
            PROVE  wq'[i].id < wq'[j].id
        <4>1. /\ wq'[i] = wq[i + 1] /\ i + 1 \in 1..Len(wq)
              /\ wq'[j] = wq[j + 1] /\ j + 1 \in 1..Len(wq) /\ i + 1 < j + 1
          BY <1>1, <2>2, <3>2
        <4> QED BY <4>1 DEF Ordered
      <3> QED BY <3>1, <3>2 DEF Ordered
    <2>4. Continues'
      <3>1. CASE wq' = <<>>
        BY <1>2, <1>4, <2>1, <3>1 DEF Continues
      <3>2. CASE wq' # <<>>
        <4>1. Len(wq') >= 1 /\ wq'[1] = wq[2] /\ 2 \in 1..Len(wq)
          BY <2>2, <3>2
        <4>2. wq'[1].at = 0 /\ p.id < wq'[1].id
          BY <1>1, <4>1 DEF Ordered
        <4> QED BY <1>2, <1>4, <2>1, <3>2, <4>2 DEF Continues
      <3> QED BY <3>1, <3>2
    <2> QED BY <1>3, <1>4, <1>5, <1>6, <1>7, <2>2, <2>3, <2>4
  <1>9. CASE p.at + k # p.size
    <2>1. wq' = [wq EXCEPT ![1].at = p.at + k] /\ wire'.id = p.id /\ wire'.to = p.at + k
          /\ wire'.size = p.size
      BY <1>2, <1>3, <1>9 DEF Advance
    <2>2. /\ Len(wq') = Len(wq) /\ wq' # <<>> /\ \A i \in 2..Len(wq) : wq'[i] = wq[i]
          /\ wq'[1] = [p EXCEPT !.at = p.at + k] /\ DOMAIN wq' = 1..Len(wq)
      <3>1. DOMAIN wq = 1..Len(wq) /\ 1 \in DOMAIN wq
        BY <1>1
      <3>2. wq' = [wq EXCEPT ![1] = [p EXCEPT !.at = p.at + k]]
        BY <1>1, <2>1
      <3>3. DOMAIN wq' = DOMAIN wq /\ wq'[1] = [p EXCEPT !.at = p.at + k]
            /\ \A i \in 2..Len(wq) : wq'[i] = wq[i]
        BY <1>1, <3>1, <3>2
      <3>4. wq' = [i \in 1..Len(wq) |-> wq'[i]]
        BY <3>1, <3>2, <3>3
      <3>5. Len(wq') = Len(wq)
        BY <1>1, <3>4
      <3> QED BY <1>1, <3>1, <3>3, <3>5
    <2>3. wq'[1].id = p.id /\ wq'[1].size = p.size /\ wq'[1].at = p.at + k /\ wq'[1] \in Packet
      <3>1. k \in Nat /\ p.at + k \in Nat
        BY <1>2, <1>3
      <3>2. p = [id |-> p.id, size |-> p.size, at |-> p.at]
        BY <1>1 DEF Packet
      <3>3. wq'[1] = [id |-> p.id, size |-> p.size, at |-> p.at + k]
        BY <2>2, <3>2
      <3> QED BY <1>2, <3>1, <3>3 DEF Packet
    <2>4. wq' \in Seq(Packet)
      <3>1. ASSUME NEW i \in 1..Len(wq) PROVE wq'[i] \in Packet
        <4>1. CASE i = 1
          BY <2>3, <4>1
        <4>2. CASE i # 1
          BY <1>1, <2>2, <4>2
        <4> QED BY <4>1, <4>2
      <3>2. wq' = [i \in 1..Len(wq) |-> wq'[i]]
        BY <2>1, <2>2
      <3>3. [i \in 1..Len(wq) |-> wq'[i]] \in Seq(Packet)
        BY <1>1, <3>1
      <3> QED BY <3>2, <3>3
    <2>5. p.at + k < p.size /\ p.at + k > 0
      <3>1. k \in 1..(p.size - p.at)
        BY <1>3
      <3>2. p.size \in Nat /\ p.at \in Nat /\ k \in Nat /\ k >= 1 /\ k <= p.size - p.at
        BY <1>2, <3>1
      <3>3. \A a, b, c \in Nat : c >= 1 /\ c <= b - a /\ a + c # b => a + c < b /\ a + c > 0
        OBVIOUS
      <3> QED BY <1>9, <3>2, <3>3
    <2>6. Ordered'
      <3>1. ASSUME NEW i \in 1..Len(wq')
            PROVE  /\ wq'[i].id = wq[i].id /\ wq'[i].size = wq[i].size
                   /\ wq'[i].id <= sent' /\ wq'[i].at < wq'[i].size /\ (i > 1 => wq'[i].at = 0)
        <4>1. CASE i = 1
          <5>1. wq[i] = p /\ sent' = sent
            BY <1>1, <1>4, <4>1
          <5> QED BY <1>2, <2>3, <2>5, <4>1, <5>1
        <4>2. CASE i \in 2..Len(wq)
          BY <1>1, <1>4, <2>2, <4>2 DEF Ordered
        <4> QED BY <1>1, <2>2, <4>1, <4>2
      <3>2. \A i, j \in 1..Len(wq') : i < j => wq'[i].id < wq'[j].id
        BY <2>2, <3>1 DEF Ordered
      <3> QED BY <3>1, <3>2 DEF Ordered
    <2>7. Continues'
      BY <1>2, <1>4, <2>1, <2>2, <2>3, <2>5 DEF Continues
    <2> QED BY <1>3, <1>4, <1>5, <1>6, <1>7, <2>4, <2>6, <2>7
  <1> QED BY <1>8, <1>9

(* The other steps leave queue and wire alone.                             *)
LEMMA QuietInv ==
  ASSUME IInv,
         \/ Writable \/ TryLock \/ SendStalls \/ SendFails \/ UpdateWriting
         \/ DisconnectLock \/ (\E ok \in BOOLEAN : DisconnectPost(ok)) \/ RunClose \/ HangUp
  PROVE  IInv' /\ wire' = wire
  <1>1. UNCHANGED <<wq, wire, sent>>
    BY DEF Writable, TryLock, SendStalls, SendFails, UpdateWriting, DisconnectLock,
           DisconnectPost, RunClose, HangUp, qVars
  <1>2. Ordered' /\ Continues'
    BY <1>1 DEF IInv, Ordered, Continues
  <1>3. WqTypeOK'
    BY <1>1 DEF IInv, WqTypeOK, Writable, TryLock, SendStalls, SendFails, UpdateWriting,
                DisconnectLock, DisconnectPost, RunClose, HangUp, qVars, Interest
  <1>4. Holder'
    BY DEF IInv, WqTypeOK, Holder, Writable, TryLock, SendStalls, SendFails, UpdateWriting,
           DisconnectLock, DisconnectPost, RunClose, HangUp
  <1>5. NoStuckData'
    BY <1>1 DEF IInv, WqTypeOK, Holder, NoStuckData, Writable, TryLock, SendStalls, SendFails,
           UpdateWriting, DisconnectLock, DisconnectPost, RunClose, HangUp, qVars, Interest
  <1> QED BY <1>1, <1>2, <1>3, <1>4, <1>5 DEF IInv

(* Every step keeps the invariant, and what it sends continues the wire.   *)
LEMMA StepInv ==
  ASSUME IInv, [WqNext]_wqVars
  PROVE  /\ IInv'
         /\ wire' # wire => IF wire'.id = wire.id
                            THEN wire'.from = wire.to /\ wire'.size = wire.size
                            ELSE wire.to = wire.size /\ wire'.from = 0 /\ wire'.id > wire.id
  <1>1. CASE UNCHANGED wqVars
    BY <1>1 DEF IInv, WqTypeOK, Ordered, Continues, Holder, NoStuckData, wqVars, qVars
  <1>2. ASSUME NEW s \in Sizes, SendEvent(s) PROVE IInv' /\ wire' = wire
    BY <1>2, SendInv DEF SendEvent, Send
  <1>3. CASE SendSome
    BY <1>3, SendSomeInv
  <1>4. CASE \/ Writable \/ TryLock \/ SendStalls \/ SendFails \/ UpdateWriting
             \/ DisconnectLock \/ (\E ok \in BOOLEAN : DisconnectPost(ok)) \/ RunClose \/ HangUp
    BY <1>4, QuietInv
  <1> QED BY <1>1, <1>2, <1>3, <1>4 DEF WqNext, WqStep, HandleWrite, Disconnect

(* The invariant holds throughout.                                         *)
THEOREM Invariance == WqSpec => []IInv
  BY InitInv, StepInv, PTL DEF WqSpec

(* Type correctness of the write side.                                     *)
THEOREM TypeCorrect == WqSpec => []WqTypeOK
  BY Invariance, PTL DEF IInv

(* The peer of a TcpConnection sees whole packets in the order of Send,    *)
(* whatever the socket takes at a time and whatever the queue drops.       *)
THEOREM InOrderOnTheWire == WqSpec => WireInOrder
  <1>1. IInv /\ [WqNext]_wqVars =>
          [IF wire'.id = wire.id THEN wire'.from = wire.to /\ wire'.size = wire.size
           ELSE wire.to = wire.size /\ wire'.from = 0 /\ wire'.id > wire.id]_wire
    BY StepInv
  <1> QED BY <1>1, Invariance, PTL DEF WqSpec, WireInOrder

(* HandleWrite never leaves data behind without an EPOLLOUT to come,       *)
(* unless Disconnect took the mutex.                                       *)
THEOREM NothingStuck == WqSpec => []NoStuckData
  BY Invariance, PTL DEF IInv

-----------------------------------------------------------------------------
(* The connection as a whole.                                              *)

Methods == {"OPTIONS", "ANNOUNCE", "SETUP", "RECORD"}
Tokens == {"ok", "error", "tail"}
ReqRec == [method : Methods, cseq : Nat, id : Nat]

PusherTypeOK ==
    /\ method \in Methods \cup {"NONE"} /\ cseq \in Nat /\ oks \in Nat
    /\ setup \subseteq Channels /\ push \in BOOLEAN /\ whole \in BOOLEAN
    /\ reqs \in Seq(ReqRec) /\ answered \in 0..Len(reqs)
    /\ resp \in Seq(Tokens) /\ rbuf \in Seq(Tokens)
    /\ events \in Seq({"options", "disconnect", "close"})

(* Nothing has happened before the posted event sends OPTIONS, which it    *)
(* does once.                                                              *)
Fresh ==
    /\ method = "NONE" => /\ reqs = <<>> /\ cseq = 0 /\ oks = 0 /\ sent = 0 /\ setup = {}
                          /\ push = FALSE
    /\ answered = 0 => resp = <<>>
    /\ \A i \in 1..Len(events) : events[i] = "options" => i = 1 /\ method = "NONE"

(* How far the handshake has come, by the method of the last request.      *)
Phase ==
    /\ method = "OPTIONS" => Len(reqs) = 1 /\ setup = {}
    /\ method = "ANNOUNCE" => Len(reqs) = 2 /\ setup = {}
    /\ method = "SETUP" => Len(reqs) = 2 + Cardinality(setup) /\ setup # {}
    /\ method = "RECORD" => Len(reqs) = 3 + Cardinality(Channels)

(* The wire has seen the whole of packet n, or a later one.                *)
Reached(n) == wire.id > n \/ (wire.id = n /\ wire.to = wire.size)

(* At most one response is on its way, and whole; requests that were       *)
(* answered have left the queue.                                           *)
Awaiting ==
    /\ cseq = oks
    /\ \/ resp = <<>> /\ answered = oks
       \/ Len(resp) = 2 /\ resp[1] # "tail" /\ resp[2] = "tail" /\ answered = oks + 1
    /\ answered > 0 => Reached(answered)

(* HandshakeInStep, made inductive: until the server records, all packets  *)
(* are requests and none is dropped.                                       *)
InStep ==
    whole =>
      /\ Len(reqs) <= oks + 1
      /\ \A n \in 1..Len(reqs) : reqs[n].method = Order(n) /\ reqs[n].cseq = n /\ reqs[n].id = n
      /\ push => oks = 3 + Cardinality(Channels) /\ Len(reqs) = oks
      /\ ~push => sent = Len(reqs)
      /\ ~closed => Phase /\ Awaiting

(* The part of the invariant that is not about the write queue alone; a    *)
(* pusher's connection has no Disconnect from outside.                     *)
ConnInv ==
    /\ PusherTypeOK
    /\ mode \in {"server", "pusher"}
    /\ mode = "server" => reqs = <<>> /\ push = FALSE
    /\ mode = "pusher" => disc = "no" /\ Fresh /\ InStep

-----------------------------------------------------------------------------
(* The initial states satisfy the invariant.                               *)
LEMMA ConnInitInv == Init => IInv /\ ConnInv
<1> SUFFICES ASSUME Init PROVE IInv /\ ConnInv
  OBVIOUS
<1>1. IInv
  BY InitInv DEF Init
<1>2. /\ method = "NONE" /\ cseq = 0 /\ setup = {} /\ push = FALSE /\ reqs = <<>>
      /\ answered = 0 /\ resp = <<>> /\ rbuf = <<>> /\ oks = 0 /\ whole = TRUE
      /\ events = <<"options">> /\ sent = 0 /\ disc = "no" /\ mode \in {"server", "pusher"}
      /\ Len(reqs) = 0 /\ Len(resp) = 0 /\ Len(events) = 1 /\ events[1] = "options"
  BY DEF Init, PusherInit, WqInit
<1>3. PusherTypeOK
  <2>1. /\ reqs \in Seq(ReqRec) /\ resp \in Seq(Tokens) /\ rbuf \in Seq(Tokens)
        /\ events \in Seq({"options", "disconnect", "close"})
    BY <1>2
  <2>2. cseq \in Nat /\ oks \in Nat /\ answered \in 0..Len(reqs)
    BY <1>2
  <2>3. method \in Methods \cup {"NONE"} /\ setup \subseteq Channels
    BY <1>2
  <2>4. push \in BOOLEAN /\ whole \in BOOLEAN
    BY <1>2
  <2> QED
    BY <2>1, <2>2, <2>3, <2>4 DEF PusherTypeOK
<1>4. Fresh
  BY <1>2 DEF Fresh
<1>5. InStep
  BY <1>2 DEF InStep, Phase, Awaiting
<1> QED
  BY <1>1, <1>2, <1>3, <1>4, <1>5 DEF ConnInv

(* The channel that SendSetup picks is one that is not set up.             *)
LEMMA LeastChannel ==
  ASSUME NEW left, left \subseteq Channels, left # {}
  PROVE  (CHOOSE x \in left : \A y \in left : x <= y) \in left
<1>1. left \subseteq {0, 1}
  BY PusherAssumption
<1>2. \E x \in left : \A y \in left : x <= y
  <2>1. CASE 0 \in left
    <3>1. \A y \in left : 0 <= y
      BY <1>1
    <3> QED
      BY <2>1, <3>1
  <2>2. CASE 0 \notin left
    <3>1. left = {1}
      BY <1>1, <2>2
    <3> QED
      BY <3>1
  <2> QED
    BY <2>1, <2>2
<1> QED
  BY <1>2

(* What HandleRtspResponse does, by the method of the last request.        *)
LEMMA ResponseCases ==
  ASSUME method \in Methods, NEW c, HandleResponse(c)
  PROVE  \/ /\ method = "OPTIONS" /\ SendReq("ANNOUNCE", c) /\ UNCHANGED <<setup, push>>
         \/ /\ method = "OPTIONS" /\ HandleClose /\ UNCHANGED <<method, reqs, setup, push>>
         \/ /\ method \in {"ANNOUNCE", "SETUP"} /\ Channels \ setup = {}
            /\ SendReq("RECORD", c) /\ UNCHANGED <<setup, push>>
         \/ /\ method \in {"ANNOUNCE", "SETUP"}
            /\ \E ch \in Channels \ setup : setup' = setup \cup {ch}
            /\ SendReq("SETUP", c) /\ UNCHANGED push
         \/ /\ method = "RECORD" /\ push' = TRUE /\ UNCHANGED <<method, setup, reqs, wqVars>>
<1>1. CASE method = "OPTIONS"
  <2>1. SendAnnounce(c)
    BY <1>1 DEF HandleResponse
  <2> QED
    BY <1>1, <2>1 DEF SendAnnounce
<1>2. CASE method \in {"ANNOUNCE", "SETUP"}
  <2>1. SendSetup(c)
    BY <1>2 DEF HandleResponse
  <2>2. CASE Channels \ setup = {}
    BY <1>2, <2>1, <2>2 DEF SendSetup
  <2>3. CASE Channels \ setup # {}
    <3> DEFINE left == Channels \ setup
               ch == CHOOSE x \in left : \A y \in left : x <= y
    <3>1. ch \in left
      BY <2>3, LeastChannel
    <3>2. SendReq("SETUP", c) /\ setup' = setup \cup {ch} /\ UNCHANGED push
      BY <2>1, <2>3 DEF SendSetup
    <3> QED
      BY <1>2, <3>1, <3>2
  <2> QED
    BY <2>2, <2>3
<1>3. CASE method = "RECORD"
  <2>1. HandleRecord
    BY <1>3 DEF HandleResponse
  <2> QED
    BY <1>3, <2>1 DEF HandleRecord
<1> QED
  BY <1>1, <1>2, <1>3 DEF Methods

(* The responses that OnResponse reads are for a request that was sent.    *)
LEMMA SomethingSent ==
  ASSUME ConnInv, mode = "pusher", NEW k \in 1..Len(resp)
  PROVE  method \in Methods /\ answered > 0 /\ Len(reqs) > 0
<1>1. resp # <<>> /\ resp \in Seq(Tokens) /\ answered \in 0..Len(reqs) /\ reqs \in Seq(ReqRec)
  BY DEF ConnInv, PusherTypeOK
<1>2. answered > 0 /\ Len(reqs) > 0 /\ reqs # <<>>
  BY <1>1 DEF ConnInv, Fresh
<1> QED
  BY <1>2 DEF ConnInv, Fresh, PusherTypeOK

-----------------------------------------------------------------------------
(* Writing *)

(* What OnResponse does to the write side is a step of it.                 *)
LEMMA ResponseWrites ==
  ASSUME ConnInv, mode = "pusher", NEW k \in 1..Len(resp), OnResponse(k)
  PROVE  [WqNext]_wqVars
<1>1. lpc = "idle" /\ ~closed /\ mutex = "free" /\ method \in Methods
  BY SomethingSent DEF OnResponse
<1>2. ASSUME HandleClose PROVE WqNext
  BY <1>1, <1>2 DEF HandleClose, WqNext, WqStep, HangUp
<1>3. ASSUME NEW m, NEW c, SendReq(m, c) PROVE WqNext
  BY <1>1, <1>3 DEF SendReq, WqNext, SendEvent
<1>4. ASSUME NEW c, HandleResponse(c) PROVE WqNext \/ UNCHANGED wqVars
  BY <1>1, <1>2, <1>3, <1>4, ResponseCases
<1>5. HandleClose \/ \E c \in {cseq, cseq + 1} : HandleResponse(c)
  BY DEF OnResponse
<1> QED
  BY <1>2, <1>4, <1>5

(* So is what the posted events do to it.                                  *)
LEMMA EventWrites ==
  ASSUME IInv, ConnInv, mode = "pusher", RunEvent
  PROVE  [WqNext]_wqVars
<1>1. lpc = "idle" /\ disc = "no" /\ mutex = "free" /\ closed \in BOOLEAN
  BY DEF RunEvent, IInv, Holder, WqTypeOK, ConnInv
<1>2. ASSUME HandleClose PROVE WqNext \/ UNCHANGED wqVars
  <2>1. CASE closed
    BY <1>1, <1>2, <2>1 DEF HandleClose, wqVars
  <2>2. CASE ~closed
    BY <1>1, <1>2, <2>2 DEF HandleClose, WqNext, WqStep, HangUp
  <2> QED
    BY <2>1, <2>2
<1>3. ASSUME ~closed, SendReq("OPTIONS", cseq) PROVE WqNext
  BY <1>1, <1>3 DEF SendReq, WqNext, SendEvent
<1>4. HandleClose \/ UNCHANGED wqVars \/ (~closed /\ SendReq("OPTIONS", cseq))
  BY DEF RunEvent
<1> QED
  BY <1>2, <1>3, <1>4

(* So is what OnRead does to it for a server.                              *)
LEMMA ReadWrites ==
  ASSUME NEW k, OnRead(k) PROVE [WqNext]_wqVars
<1>1. lpc = "idle" /\ ~closed /\ mutex = "free"
  BY DEF OnRead
<1>2. PICK o : \/ Handle(o)
               \/ UNCHANGED wqVars
               \/ closed' = TRUE /\ UNCHANGED <<qVars, mutex, lpc, disc>>
  BY DEF OnRead
<1>3. CASE Handle(o)
  BY <1>1, <1>3 DEF Handle, WqNext, SendEvent
<1>4. CASE closed' = TRUE /\ UNCHANGED <<qVars, mutex, lpc, disc>>
  BY <1>1, <1>4 DEF WqNext, WqStep, HangUp
<1> QED
  BY <1>2, <1>3, <1>4

(* Every step of the connection is one of its write side, or leaves it.    *)
LEMMA WriteSide ==
  ASSUME IInv, ConnInv, [Next]_vars PROVE [WqNext]_wqVars
<1>1. CASE UNCHANGED vars
  BY <1>1 DEF vars, wqVars
<1>2. CASE mode = "server" /\ StreamNext
  <2>1. CASE ClientSends
    BY <2>1 DEF ClientSends
  <2>2. CASE \E k \in 1..Len(flow) : OnRead(k)
    BY <2>2, ReadWrites
  <2>3. CASE SendRtp \/ WqStep
    BY <2>3 DEF SendRtp, WqNext
  <2> QED
    BY <1>2, <2>1, <2>2, <2>3 DEF StreamNext
<1>3. CASE mode = "pusher" /\ PusherNext
  <2>1. CASE UserStep
    BY <2>1 DEF UserStep
  <2>2. CASE RunEvent
    BY <1>3, <2>2, EventWrites
  <2>3. CASE \E ok \in BOOLEAN : ServerAnswers(ok)
    BY <2>3 DEF ServerAnswers
  <2>4. CASE \E k \in 1..Len(resp) : OnResponse(k)
    BY <1>3, <2>4, ResponseWrites
  <2>5. CASE PushRtp \/ PusherWrite
    BY <2>5 DEF PushRtp, PusherWrite, WqNext, WqStep
  <2> QED
    BY <1>3, <2>1, <2>2, <2>3, <2>4, <2>5 DEF PusherNext
<1> QED
  BY <1>1, <1>2, <1>3 DEF Next

-----------------------------------------------------------------------------
(* The wire goes on *)

(* What the wire has seen, it has seen for good.                           *)
LEMMA ReachedStays ==
  ASSUME IInv, [WqNext]_wqVars, NEW n \in Nat, Reached(n) PROVE Reached(n)'
<1>1. wire.id \in Nat /\ wire.to \in Nat /\ wire.size \in Nat /\ wq \in Seq(Packet)
  BY DEF IInv, WqTypeOK
<1>2. CASE wire' = wire
  BY <1>2 DEF Reached
<1>3. CASE wire' # wire
  <2>1. SendSome
    BY <1>3 DEF WqNext, WqStep, SendEvent, Send, Writable, HandleWrite, TryLock, SendStalls,
                SendFails, UpdateWriting, Disconnect, DisconnectLock, DisconnectPost, RunClose,
                HangUp, wqVars, qVars
  <2>2. wire'.id = wq[1].id /\ wq # <<>> /\ 1 \in 1..Len(wq)
    BY <1>1, <2>1 DEF SendSome
  <2>3. wq[1].id \in Nat /\ wq[1].at \in Nat /\ wq[1].size \in Nat /\ wq[1].at < wq[1].size
    BY <1>1, <2>2, Fields DEF IInv, Ordered
  <2>4. wire'.id > n
    BY <1>1, <2>2, <2>3 DEF IInv, Continues, Reached
  <2> QED
    BY <2>4 DEF Reached
<1> QED
  BY <1>2, <1>3

(* The queue is empty once the last packet has been seen.                  *)
LEMMA Drained ==
  ASSUME IInv, sent = 0 \/ Reached(sent) PROVE wq = <<>> /\ Len(wq) = 0
<1> SUFFICES ASSUME wq # <<>> PROVE FALSE
  OBVIOUS
<1>1. wq \in Seq(Packet) /\ 1 \in 1..Len(wq) /\ sent \in Nat
  BY DEF IInv, WqTypeOK
<1>2. /\ wq[1].id \in Nat \ {0} /\ wq[1].at \in Nat /\ wq[1].size \in Nat
      /\ wq[1].at < wq[1].size /\ wq[1].id <= sent
  BY <1>1, Fields DEF IInv, Ordered
<1>3. wire.id \in Nat /\ wire.to \in Nat /\ wire.size \in Nat
  BY DEF IInv, WqTypeOK
<1> QED
  BY <1>1, <1>2, <1>3 DEF IInv, Continues, Reached

-----------------------------------------------------------------------------
(* The handshake *)

(* There are finitely many channels.                                       *)
LEMMA ChannelsFinite == IsFiniteSet(Channels)
<1>1. Channels \in SUBSET (0..1)
  BY PusherAssumption
<1>2. IsFiniteSet(0..1)
  BY 0 \in Int, 1 \in Int, FS_Interval
<1> QED
  BY <1>1, <1>2, FS_Subset

(* The fixed order of the requests.                                        *)
LEMMA OrderIs ==
  /\ Cardinality(Channels) \in Nat
  /\ Order(1) = "OPTIONS" /\ Order(2) = "ANNOUNCE"
  /\ \A n \in 3..(2 + Cardinality(Channels)) : Order(n) = "SETUP"
  /\ Order(3 + Cardinality(Channels)) = "RECORD"
<1>1. Cardinality(Channels) \in Nat
  BY ChannelsFinite, FS_CardinalityType
<1> QED
  BY <1>1 DEF Order

(* One more channel is set up.                                             *)
LEMMA OneMore ==
  ASSUME NEW s, s \subseteq Channels, NEW c \in Channels \ s
  PROVE  /\ Cardinality(s) \in Nat /\ Cardinality(s \cup {c}) = Cardinality(s) + 1
         /\ Cardinality(s \cup {c}) <= Cardinality(Channels)
<1>1. IsFiniteSet(s) /\ s \cup {c} \subseteq Channels
  BY ChannelsFinite, FS_Subset
<1> QED
  BY <1>1, ChannelsFinite, FS_CardinalityType, FS_AddElement, FS_Subset

(* SendReq numbers the request; the queue takes it unless it is full.      *)
LEMMA SendReqFacts ==
  ASSUME IInv, PusherTypeOK, NEW m \in Methods, NEW c \in Nat, SendReq(m, c)
  PROVE  /\ method' = m /\ sent' = sent + 1 /\ UNCHANGED <<wire, closed, disc>>
         /\ reqs' \in Seq(ReqRec) /\ Len(reqs') >= Len(reqs)
         /\ wq = <<>> => /\ Len(reqs') = Len(reqs) + 1
                         /\ reqs'[Len(reqs) + 1] = [method |-> m, cseq |-> c + 1, id |-> sent + 1]
                         /\ \A n \in 1..Len(reqs) : reqs'[n] = reqs[n]
<1> DEFINE r == BuildReq(m, c)
<1>1. sent \in Nat /\ reqs \in Seq(ReqRec)
  BY DEF IInv, WqTypeOK, PusherTypeOK
<1>2. r = [method |-> m, cseq |-> c + 1, id |-> sent + 1] /\ r \in ReqRec
  BY <1>1 DEF BuildReq, ReqRec
<1>3. reqs' = IF Len(wq) < MaxQueue THEN Append(reqs, r) ELSE reqs
  BY DEF SendReq
<1> HIDE DEF r
<1>4. wq = <<>> => Len(wq) < MaxQueue
  BY QueueAssumption
<1>5. method' = m /\ sent' = sent + 1 /\ UNCHANGED <<wire, closed, disc>>
  BY DEF SendReq, Send
<1> QED
  BY <1>1, <1>2, <1>3, <1>4, <1>5

(* A step that leaves the pusher's own state alone.                        *)
LEMMA WriteOnlyInv ==
  ASSUME IInv, ConnInv, [WqNext]_wqVars, UNCHANGED <<mode, pusherVars>>,
         mode = "pusher" => disc' = disc /\ (sent' = sent \/ push) /\ (closed => closed')
  PROVE  ConnInv'
<1>1. UNCHANGED <<method, cseq, setup, push, reqs, answered, resp, rbuf, oks, whole, events, mode>>
  BY DEF pusherVars
<1>2. PusherTypeOK'
  BY <1>1 DEF ConnInv, PusherTypeOK
<1>3. ASSUME mode = "pusher" PROVE disc' = "no" /\ Fresh' /\ InStep'
  <2>0. disc = "no" /\ Fresh /\ InStep /\ disc' = disc /\ (sent' = sent \/ push)
        /\ (closed => closed')
    BY <1>3 DEF ConnInv
  <2>1. Fresh'
    BY <1>1, <2>0 DEF Fresh
  <2>2. ASSUME Awaiting PROVE Awaiting'
    <3>1. answered > 0 => Reached(answered)'
      <4> SUFFICES ASSUME answered > 0 PROVE Reached(answered)'
        OBVIOUS
      <4>1. answered \in Nat /\ Reached(answered)
        BY <2>2 DEF ConnInv, PusherTypeOK, Awaiting
      <4>2. \A n \in Nat : Reached(n) => Reached(n)'
        BY ReachedStays
      <4> QED
        BY <1>1, <4>1, <4>2 DEF Reached
    <3> QED
      BY <1>1, <2>2, <3>1 DEF Awaiting
  <2>3. Phase => Phase'
    BY <1>1 DEF Phase
  <2>4. InStep'
    BY <1>1, <2>0, <2>2, <2>3 DEF InStep
  <2> QED
    BY <2>0, <2>1, <2>4
<1> QED
  BY <1>1, <1>2, <1>3 DEF ConnInv

(* The user's thread posts at most a disconnect.                           *)
LEMMA UserInv ==
  ASSUME ConnInv, mode = "pusher", UNCHANGED mode, UserStep PROVE ConnInv'
<1>1. /\ UNCHANGED <<method, cseq, setup, push, reqs, answered, resp, rbuf, oks, whole, mode>>
      /\ UNCHANGED <<sent, wire, closed, disc>>
      /\ events' = events \/ events' = Append(events, "disconnect")
  BY DEF UserStep, OpenUrlReturns, OpenUrlTimesOut, Close, handshake, received, wqVars, qVars
<1>2. events \in Seq({"options", "disconnect", "close"}) /\ Fresh /\ InStep
  BY DEF ConnInv, PusherTypeOK
<1>3. /\ events' \in Seq({"options", "disconnect", "close"})
      /\ \A i \in 1..Len(events') : events'[i] = "options" => i = 1 /\ method = "NONE"
  <2>1. CASE events' = events
    BY <1>2, <2>1 DEF Fresh
  <2>2. CASE events' = Append(events, "disconnect")
    BY <1>2, <2>2 DEF Fresh
  <2> QED
    BY <1>1, <2>1, <2>2
<1>4. PusherTypeOK'
  BY <1>1, <1>3 DEF ConnInv, PusherTypeOK
<1>5. Fresh'
  BY <1>1, <1>2, <1>3 DEF Fresh
<1>6. InStep'
  BY <1>1, <1>2 DEF InStep, Phase, Awaiting, Reached
<1> QED
  BY <1>1, <1>4, <1>5, <1>6 DEF ConnInv

(* The server answers a request that has reached it; while responses are   *)
(* whole, it has answered all the earlier ones.                            *)
LEMMA AnswersInv ==
  ASSUME IInv, ConnInv, mode = "pusher", UNCHANGED mode, NEW ok \in BOOLEAN, ServerAnswers(ok)
  PROVE  ConnInv'
<1> DEFINE new == <<IF ok THEN "ok" ELSE "error", "tail">>
<1>1. /\ UNCHANGED <<method, cseq, setup, push, reqs, rbuf, oks, whole, mode, events>>
      /\ UNCHANGED <<sent, wire, closed, disc>>
      /\ answered < Len(reqs) /\ Reached(reqs[answered + 1].id)
      /\ answered' = answered + 1 /\ resp' = resp \o new
  BY DEF ServerAnswers, handshake, wqVars, qVars, Reached
<1>2. PusherTypeOK /\ Fresh /\ InStep
  BY DEF ConnInv
<1>3. /\ new \in Seq(Tokens) /\ Len(new) = 2 /\ new[1] # "tail" /\ new[2] = "tail"
  BY DEF Tokens
<1> HIDE DEF new
<1>4. resp' \in Seq(Tokens) /\ answered' \in 0..Len(reqs) /\ answered \in Nat /\ Len(reqs) \in Nat
  BY <1>1, <1>2, <1>3 DEF PusherTypeOK
<1>5. PusherTypeOK'
  BY <1>1, <1>2, <1>4 DEF PusherTypeOK
<1>6. Fresh'
  BY <1>1, <1>2, <1>4 DEF Fresh
<1>7. InStep'
  <2>1. ASSUME whole, ~closed PROVE Awaiting'
    <3>1. /\ Len(reqs) <= oks + 1 /\ oks \in Nat /\ Awaiting
          /\ reqs[answered + 1].id = answered + 1
      BY <1>1, <1>2, <1>4, <2>1 DEF InStep, PusherTypeOK
    <3>2. resp = <<>> /\ answered = oks
      BY <1>1, <1>4, <3>1 DEF Awaiting
    <3>3. resp' = new
      BY <1>1, <1>3, <3>2
    <3>4. Reached(answered + 1)
      BY <1>1, <3>1
    <3>5. Reached(answered)'
      BY <1>1, <3>4 DEF Reached
    <3> QED
      BY <1>1, <1>3, <3>1, <3>2, <3>3, <3>5 DEF Awaiting
  <2>2. Phase => Phase'
    BY <1>1 DEF Phase
  <2> QED
    BY <1>1, <1>2, <2>1, <2>2 DEF InStep
<1> QED
  BY <1>1, <1>5, <1>6, <1>7 DEF ConnInv

(* The posted events: OPTIONS is the first request, if it is sent at all.  *)
LEMMA EventInv ==
  ASSUME IInv, ConnInv, mode = "pusher", UNCHANGED mode, RunEvent PROVE ConnInv'
<1> DEFINE e == Head(events)
<1>0. PusherTypeOK /\ Fresh /\ InStep /\ disc = "no"
  BY DEF ConnInv
<1>1. /\ UNCHANGED <<cseq, setup, push, answered, resp, rbuf, oks, whole, mode>>
      /\ events # <<>>
      /\ events' = IF e = "disconnect" THEN Append(Tail(events), "close") ELSE Tail(events)
  BY DEF RunEvent, received
<1>2. /\ events' \in Seq({"options", "disconnect", "close"})
      /\ \A i \in 1..Len(events') : events'[i] # "options"
      /\ e = "options" => method = "NONE"
  <2>1. events \in Seq({"options", "disconnect", "close"}) /\ e = events[1] /\ 1 \in 1..Len(events)
    BY <1>0, <1>1 DEF PusherTypeOK
  <2>2. \A i \in 2..Len(events) : events[i] # "options"
    BY <1>0, <2>1 DEF Fresh
  <2>3. e = "options" => method = "NONE"
    BY <1>0, <2>1 DEF Fresh
  <2>4. CASE e = "disconnect"
    BY <1>1, <2>1, <2>2, <2>3, <2>4
  <2>5. CASE e # "disconnect"
    BY <1>1, <2>1, <2>2, <2>3, <2>5
  <2> QED
    BY <2>4, <2>5
<1>3. \/ e = "options" /\ ~closed /\ SendReq("OPTIONS", cseq)
      \/ e = "options" /\ closed /\ method' = "OPTIONS" /\ UNCHANGED <<reqs, wqVars>>
      \/ UNCHANGED <<method, reqs, wqVars>>
      \/ HandleClose /\ UNCHANGED <<method, reqs>>
  BY DEF RunEvent
<1>4. CASE e = "options" /\ ~closed /\ SendReq("OPTIONS", cseq)
  <2>1. /\ method = "NONE" /\ reqs = <<>> /\ cseq = 0 /\ oks = 0 /\ sent = 0 /\ setup = {}
        /\ push = FALSE /\ Len(reqs) = 0
    BY <1>0, <1>2, <1>4 DEF Fresh
  <2>2. answered = 0 /\ resp = <<>> /\ resp \in Seq(Tokens)
    BY <1>0, <2>1 DEF PusherTypeOK, Fresh
  <2>3. wq = <<>>
    BY <2>1, Drained
  <2> DEFINE r == [method |-> "OPTIONS", cseq |-> 1, id |-> 1]
  <2>4. /\ method' = "OPTIONS" /\ sent' = 1 /\ disc' = disc /\ closed' = closed
        /\ reqs' \in Seq(ReqRec) /\ Len(reqs') = 1 /\ reqs'[1] = r
    BY <1>0, <1>4, <2>1, <2>3, SendReqFacts DEF Methods
  <2>5. r.method = Order(1) /\ r.cseq = 1 /\ r.id = 1
    BY OrderIs
  <2> HIDE DEF r
  <2>6. PusherTypeOK'
    <3>1. method' \in Methods \cup {"NONE"} /\ answered' \in 0..Len(reqs')
      BY <1>1, <2>2, <2>4 DEF Methods
    <3> QED
      BY <1>0, <1>1, <1>2, <2>4, <3>1 DEF PusherTypeOK
  <2>7. Fresh'
    BY <1>1, <1>2, <2>2, <2>4 DEF Fresh
  <2>8. Phase'
    BY <1>1, <2>1, <2>4 DEF Phase
  <2>9. Awaiting'
    BY <1>1, <2>1, <2>2 DEF Awaiting
  <2>10. \A n \in 1..Len(reqs') : reqs'[n].method = Order(n) /\ reqs'[n].cseq = n /\ reqs'[n].id = n
    BY <2>4, <2>5
  <2>11. InStep'
    BY <1>1, <2>1, <2>4, <2>8, <2>9, <2>10 DEF InStep
  <2> QED
    BY <1>0, <1>1, <2>4, <2>6, <2>7, <2>11 DEF ConnInv
<1>5. CASE e = "options" /\ closed /\ method' = "OPTIONS" /\ UNCHANGED <<reqs, wqVars>>
  <2>1. UNCHANGED <<reqs, sent, wire, closed, disc>> /\ closed'
    BY <1>5 DEF wqVars, qVars
  <2>2. PusherTypeOK'
    BY <1>0, <1>1, <1>2, <1>5, <2>1 DEF PusherTypeOK, Methods
  <2>3. Fresh'
    BY <1>0, <1>1, <1>2, <1>5, <2>1 DEF Fresh
  <2>4. InStep'
    BY <1>0, <1>1, <2>1 DEF InStep
  <2> QED
    BY <1>0, <1>1, <2>1, <2>2, <2>3, <2>4 DEF ConnInv
<1>6. CASE UNCHANGED <<method, reqs, wqVars>> \/ (HandleClose /\ UNCHANGED <<method, reqs>>)
  <2>1. UNCHANGED <<method, reqs, sent, wire, disc>> /\ (closed' = closed \/ closed' = TRUE)
    BY <1>6 DEF wqVars, qVars, HandleClose
  <2>2. PusherTypeOK'
    BY <1>0, <1>1, <1>2, <2>1 DEF PusherTypeOK
  <2>3. Fresh'
    BY <1>0, <1>1, <1>2, <2>1 DEF Fresh
  <2>4. (Phase => Phase') /\ (Awaiting => Awaiting')
    BY <1>1, <2>1 DEF Phase, Awaiting, Reached
  <2>5. InStep'
    BY <1>0, <1>1, <2>1, <2>4 DEF InStep
  <2> QED
    BY <1>0, <1>1, <2>1, <2>2, <2>3, <2>5 DEF ConnInv
<1> QED
  BY <1>3, <1>4, <1>5, <1>6

(* What HandleRtspResponse leaves is of its type.                          *)
LEMMA ResponseTypes ==
  ASSUME IInv, PusherTypeOK, method \in Methods, NEW c \in Nat, HandleResponse(c)
  PROVE  /\ method' \in Methods /\ reqs' \in Seq(ReqRec) /\ Len(reqs') >= Len(reqs)
         /\ setup' \subseteq Channels /\ push' \in BOOLEAN /\ disc' = disc
<1>1. /\ reqs \in Seq(ReqRec) /\ Len(reqs) >= Len(reqs) /\ setup \subseteq Channels
      /\ push \in BOOLEAN
  BY DEF PusherTypeOK
<1>2. ASSUME NEW m \in Methods, SendReq(m, c)
      PROVE  /\ method' \in Methods /\ reqs' \in Seq(ReqRec) /\ Len(reqs') >= Len(reqs)
             /\ disc' = disc
  BY <1>2, SendReqFacts
<1>3. {"ANNOUNCE", "SETUP", "RECORD"} \subseteq Methods
  BY DEF Methods
<1>4. CASE SendReq("ANNOUNCE", c) /\ UNCHANGED <<setup, push>>
  BY <1>1, <1>2, <1>3, <1>4
<1>5. CASE HandleClose /\ UNCHANGED <<method, reqs, setup, push>>
  BY <1>1, <1>5 DEF HandleClose
<1>6. CASE SendReq("RECORD", c) /\ UNCHANGED <<setup, push>>
  BY <1>1, <1>2, <1>3, <1>6
<1>7. CASE /\ \E ch \in Channels \ setup : setup' = setup \cup {ch}
           /\ SendReq("SETUP", c) /\ UNCHANGED push
  BY <1>1, <1>2, <1>3, <1>7
<1>8. CASE push' = TRUE /\ UNCHANGED <<method, setup, reqs, wqVars>>
  BY <1>1, <1>8 DEF wqVars
<1> QED
  BY <1>4, <1>5, <1>6, <1>7, <1>8, ResponseCases

(* HandleRtspResponse takes the handshake one step further, all requests   *)
(* so far being answered.                                                  *)
LEMMA NextRequest ==
  ASSUME IInv, PusherTypeOK, InStep, whole, ~closed, ~push, method \in Methods, wq = <<>>,
         Len(reqs) = cseq + 1, HandleResponse(cseq + 1)
  PROVE  /\ \A n \in 1..Len(reqs') :
              reqs'[n].method = Order(n) /\ reqs'[n].cseq = n /\ reqs'[n].id = n
         /\ Len(reqs') <= Len(reqs) + 1
         /\ push' => Len(reqs) = 3 + Cardinality(Channels) /\ Len(reqs') = Len(reqs)
         /\ ~push' => sent' = Len(reqs')
         /\ ~closed' => Phase'
         /\ wire' = wire
<1>0. /\ Phase /\ sent = Len(reqs) /\ reqs \in Seq(ReqRec) /\ cseq \in Nat /\ Len(reqs) \in Nat
      /\ setup \subseteq Channels
      /\ \A n \in 1..Len(reqs) : reqs[n].method = Order(n) /\ reqs[n].cseq = n /\ reqs[n].id = n
  BY DEF InStep, PusherTypeOK
<1>1. ASSUME NEW m \in Methods, m = Order(Len(reqs) + 1), SendReq(m, cseq + 1)
      PROVE  /\ method' = m /\ Len(reqs') = Len(reqs) + 1 /\ sent' = Len(reqs') /\ wire' = wire
             /\ closed' = closed
             /\ \A n \in 1..Len(reqs') :
                  reqs'[n].method = Order(n) /\ reqs'[n].cseq = n /\ reqs'[n].id = n
  <2> DEFINE b == Len(reqs) + 1
             r == [method |-> m, cseq |-> cseq + 1 + 1, id |-> sent + 1]
  <2>1. /\ method' = m /\ sent' = sent + 1 /\ wire' = wire /\ closed' = closed
        /\ Len(reqs') = b /\ reqs'[b] = r /\ \A n \in 1..Len(reqs) : reqs'[n] = reqs[n]
    BY <1>0, <1>1, SendReqFacts
  <2>2. r.method = Order(b) /\ r.cseq = b /\ r.id = b
    BY <1>0, <1>1
  <2> HIDE DEF r
  <2>3. ASSUME NEW n \in 1..Len(reqs')
        PROVE  reqs'[n].method = Order(n) /\ reqs'[n].cseq = n /\ reqs'[n].id = n
    <3>1. CASE n \in 1..Len(reqs)
      BY <1>0, <2>1, <3>1
    <3>2. CASE n = b
      BY <2>1, <2>2, <3>2
    <3> QED
      BY <1>0, <2>1, <3>1, <3>2
  <2> QED
    BY <1>0, <2>1, <2>3
<1>2. CASE method = "OPTIONS" /\ SendReq("ANNOUNCE", cseq + 1) /\ UNCHANGED <<setup, push>>
  <2>1. Len(reqs) = 1 /\ setup = {} /\ Order(Len(reqs) + 1) = "ANNOUNCE" /\ "ANNOUNCE" \in Methods
    BY <1>0, <1>2, OrderIs DEF Phase, Methods
  <2>2. /\ method' = "ANNOUNCE" /\ Len(reqs') = Len(reqs) + 1 /\ sent' = Len(reqs') /\ wire' = wire
        /\ \A n \in 1..Len(reqs') :
             reqs'[n].method = Order(n) /\ reqs'[n].cseq = n /\ reqs'[n].id = n
    BY <1>1, <1>2, <2>1
  <2>3. Phase'
    BY <1>2, <2>1, <2>2 DEF Phase
  <2> QED
    BY <1>0, <1>2, <2>2, <2>3
<1>3. CASE method = "OPTIONS" /\ HandleClose /\ UNCHANGED <<method, reqs, setup, push>>
  <2>1. closed' /\ UNCHANGED <<sent, wire>>
    BY <1>3 DEF HandleClose, qVars
  <2> QED
    BY <1>0, <1>3, <2>1
<1>4. CASE /\ method \in {"ANNOUNCE", "SETUP"} /\ Channels \ setup = {}
           /\ SendReq("RECORD", cseq + 1) /\ UNCHANGED <<setup, push>>
  <2>1. setup = Channels /\ Len(reqs) = 2 + Cardinality(Channels)
    <3>1. setup = Channels
      BY <1>0, <1>4
    <3>2. setup = {} => Cardinality(setup) = 0
      BY FS_EmptySet
    <3> QED
      BY <1>0, <1>4, <3>1, <3>2 DEF Phase
  <2>2. Len(reqs) + 1 = 3 + Cardinality(Channels) /\ Cardinality(Channels) \in Nat
    BY <2>1, OrderIs
  <2>3. Order(Len(reqs) + 1) = "RECORD" /\ "RECORD" \in Methods
    BY <2>2, OrderIs DEF Methods
  <2>4. /\ method' = "RECORD" /\ Len(reqs') = Len(reqs) + 1 /\ sent' = Len(reqs') /\ wire' = wire
        /\ \A n \in 1..Len(reqs') :
             reqs'[n].method = Order(n) /\ reqs'[n].cseq = n /\ reqs'[n].id = n
    BY <1>1, <1>4, <2>3
  <2>5. Phase'
    BY <1>4, <2>2, <2>4 DEF Phase
  <2> QED
    BY <1>0, <1>4, <2>4, <2>5
<1>5. CASE /\ method \in {"ANNOUNCE", "SETUP"}
           /\ \E ch \in Channels \ setup : setup' = setup \cup {ch}
           /\ SendReq("SETUP", cseq + 1) /\ UNCHANGED push
  <2>1. PICK ch \in Channels \ setup : setup' = setup \cup {ch}
    BY <1>5
  <2>2. /\ Cardinality(setup) \in Nat /\ Cardinality(setup') = Cardinality(setup) + 1
        /\ Cardinality(setup') <= Cardinality(Channels) /\ setup' # {}
    BY <1>0, <2>1, OneMore
  <2>3. Len(reqs) = 2 + Cardinality(setup)
    <3>1. setup = {} => Cardinality(setup) = 0
      BY FS_EmptySet
    <3> QED
      BY <1>0, <1>5, <3>1 DEF Phase
  <2>4. Order(Len(reqs) + 1) = "SETUP" /\ "SETUP" \in Methods
    <3>1. Len(reqs) + 1 \in 3..(2 + Cardinality(Channels))
      BY <2>2, <2>3, OrderIs
    <3> QED
      BY <3>1, OrderIs DEF Methods
  <2>5. /\ method' = "SETUP" /\ Len(reqs') = Len(reqs) + 1 /\ sent' = Len(reqs') /\ wire' = wire
        /\ \A n \in 1..Len(reqs') :
             reqs'[n].method = Order(n) /\ reqs'[n].cseq = n /\ reqs'[n].id = n
    BY <1>1, <1>5, <2>4
  <2>6. Phase'
    BY <2>2, <2>3, <2>5 DEF Phase
  <2> QED
    BY <1>0, <1>5, <2>5, <2>6
<1>6. CASE method = "RECORD" /\ push' = TRUE /\ UNCHANGED <<method, setup, reqs, wqVars>>
  <2>1. Len(reqs) = 3 + Cardinality(Channels) /\ wire' = wire
    BY <1>0, <1>6 DEF Phase, wqVars, qVars
  <2>2. Phase'
    BY <1>0, <1>6 DEF Phase
  <2> QED
    BY <1>0, <1>6, <2>1, <2>2
<1> QED
  BY <1>2, <1>3, <1>4, <1>5, <1>6, ResponseCases

(* OnResponse: a response that comes whole and is OK takes the handshake   *)
(* one step further; any other closes the connection, or ends what is      *)
(* claimed.                                                                *)
LEMMA ResponseInv ==
  ASSUME IInv, ConnInv, mode = "pusher", UNCHANGED mode, NEW k \in 1..Len(resp), OnResponse(k)
  PROVE  ConnInv'
<1> DEFINE b == rbuf \o SubSeq(resp, 1, k)
<1>0. PusherTypeOK /\ Fresh /\ InStep /\ disc = "no"
  BY DEF ConnInv
<1>1. /\ ~closed /\ UNCHANGED <<events, answered, mode>>
      /\ resp' = SubSeq(resp, k + 1, Len(resp))
      /\ whole' = (whole /\ rbuf = <<>> /\ k = 2)
  BY DEF OnResponse
<1>2. PICK end \in FindsEnd(b) :
       \/ /\ end /\ FALSE \in FindsOk(b)
          /\ HandleClose /\ rbuf' = b
          /\ UNCHANGED <<handshake, dirty, oks>>
       \/ /\ end /\ TRUE \in FindsOk(b)
          /\ cseq' = cseq + 1 /\ rbuf' = <<>> /\ dirty' = TRUE
          /\ oks' = oks + (IF Has(b, "ok") /\ Has(b, "tail") THEN 1 ELSE 0)
          /\ HandleResponse(cseq + 1)
       \/ /\ ~end
          /\ rbuf' = b /\ UNCHANGED <<cseq, dirty, oks>>
          /\ HandleResponse(cseq)
  BY DEF OnResponse
<1>3. method \in Methods /\ answered > 0 /\ Len(reqs) > 0
  BY SomethingSent
<1>4. /\ resp \in Seq(Tokens) /\ rbuf \in Seq(Tokens) /\ cseq \in Nat /\ oks \in Nat
      /\ reqs \in Seq(ReqRec) /\ answered \in 0..Len(reqs) /\ Len(resp) \in Nat /\ k <= Len(resp)
      /\ resp' \in Seq(Tokens) /\ b \in Seq(Tokens)
  BY <1>0, <1>1 DEF PusherTypeOK
<1>5. /\ method' \in Methods /\ reqs' \in Seq(ReqRec) /\ Len(reqs') >= Len(reqs)
      /\ setup' \subseteq Channels /\ push' \in BOOLEAN /\ disc' = disc
      /\ cseq' \in Nat /\ oks' \in Nat /\ rbuf' \in Seq(Tokens)
  <2>1. CASE HandleClose /\ rbuf' = b /\ UNCHANGED <<handshake, dirty, oks>>
    BY <1>0, <1>3, <1>4, <2>1 DEF HandleClose, handshake, PusherTypeOK
  <2>2. CASE /\ cseq' = cseq + 1 /\ rbuf' = <<>>
             /\ oks' = oks + (IF Has(b, "ok") /\ Has(b, "tail") THEN 1 ELSE 0)
             /\ HandleResponse(cseq + 1)
    <3>1. cseq' \in Nat /\ oks' \in Nat /\ rbuf' \in Seq(Tokens) /\ cseq + 1 \in Nat
      BY <1>4, <2>2
    <3> QED
      BY <1>0, <1>3, <2>2, <3>1, ResponseTypes
  <2>3. CASE rbuf' = b /\ UNCHANGED <<cseq, dirty, oks>> /\ HandleResponse(cseq)
    BY <1>0, <1>3, <1>4, <2>3, ResponseTypes
  <2> QED
    BY <1>2, <2>1, <2>2, <2>3
<1>6. PusherTypeOK'
  <2>1. whole' \in BOOLEAN
    BY <1>1
  <2>2. answered' \in 0..Len(reqs')
    BY <1>1, <1>4, <1>5
  <2> QED
    BY <1>0, <1>1, <1>4, <1>5, <2>1, <2>2 DEF PusherTypeOK
<1>7. Fresh'
  BY <1>0, <1>1, <1>3, <1>5 DEF Fresh, Methods
<1>8. InStep'
  <2> SUFFICES ASSUME whole'
               PROVE  /\ Len(reqs') <= oks' + 1
                      /\ \A n \in 1..Len(reqs') :
                           reqs'[n].method = Order(n) /\ reqs'[n].cseq = n /\ reqs'[n].id = n
                      /\ push' => oks' = 3 + Cardinality(Channels) /\ Len(reqs') = oks'
                      /\ ~push' => sent' = Len(reqs')
                      /\ ~closed' => Phase' /\ Awaiting'
    BY DEF InStep
  <2>1. whole /\ rbuf = <<>> /\ k = 2
    BY <1>1
  <2>2. /\ Len(resp) = 2 /\ resp[1] # "tail" /\ resp[2] = "tail" /\ answered = oks + 1
        /\ cseq = oks /\ Len(reqs) <= oks + 1 /\ Reached(answered)
    BY <1>0, <1>1, <1>3, <1>4, <2>1 DEF InStep, Awaiting
  <2>3. Len(reqs) = cseq + 1 /\ answered = Len(reqs)
    BY <1>4, <2>2
  <2>4. ~push /\ sent = Len(reqs)
    BY <1>0, <1>4, <2>1, <2>2, <2>3 DEF InStep
  <2>5. wq = <<>>
    BY <2>2, <2>3, <2>4, Drained
  <2>6. /\ Len(b) = 2 /\ b[1] # "tail" /\ b[2] = "tail" /\ Has(b, "tail")
        /\ resp' = <<>>
    <3>1. SubSeq(resp, 1, 2) = resp
      BY <1>4, <2>2, SubSeqFull
    <3>2. b = resp
      BY <1>4, <2>1, <3>1
    <3>3. Has(b, "tail")
      <4>1. DOMAIN resp = 1..2 /\ 2 \in 1..2
        BY <1>4, <2>2
      <4>2. Has(resp, "tail")
        BY <2>2, <4>1 DEF Has
      <4> QED
        BY <3>2, <4>2
    <3>4. resp' = <<>>
      BY <1>1, <1>4, <2>1, <2>2
    <3> QED
      BY <2>2, <3>1, <3>2, <3>3, <3>4
  <2>7. end = TRUE /\ FindsOk(b) = {Has(b, "ok")}
    BY <1>2, <2>6 DEF FindsEnd, FindsOk
  <2> HIDE DEF b
  <2>8. CASE HandleClose /\ UNCHANGED <<handshake, dirty, oks>>
    <3>1. closed' /\ UNCHANGED <<reqs, push, sent, oks>>
      BY <2>8 DEF HandleClose, handshake, qVars
    <3> QED
      BY <1>0, <2>1, <3>1 DEF InStep
  <2>9. CASE /\ TRUE \in FindsOk(b) /\ cseq' = cseq + 1
             /\ oks' = oks + (IF Has(b, "ok") /\ Has(b, "tail") THEN 1 ELSE 0)
             /\ HandleResponse(cseq + 1)
    <3>1. oks' = oks + 1 /\ cseq' = oks'
      BY <2>2, <2>6, <2>7, <2>9
    <3>2. /\ \A n \in 1..Len(reqs') :
               reqs'[n].method = Order(n) /\ reqs'[n].cseq = n /\ reqs'[n].id = n
          /\ Len(reqs') <= Len(reqs) + 1
          /\ push' => Len(reqs) = 3 + Cardinality(Channels) /\ Len(reqs') = Len(reqs)
          /\ ~push' => sent' = Len(reqs')
          /\ ~closed' => Phase'
          /\ wire' = wire
      BY <1>0, <1>1, <1>3, <2>1, <2>3, <2>4, <2>5, <2>9, NextRequest
    <3>3. Awaiting'
      <4>1. Reached(answered)'
        BY <1>1, <2>2, <3>2 DEF Reached
      <4> QED
        BY <1>1, <2>2, <2>6, <3>1, <4>1 DEF Awaiting
    <3> QED
      BY <1>4, <2>2, <2>3, <3>1, <3>2, <3>3
  <2> QED
    BY <1>2, <2>7, <2>8, <2>9
<1> QED
  BY <1>0, <1>1, <1>5, <1>6, <1>7, <1>8 DEF ConnInv

-----------------------------------------------------------------------------
(* Every step preserves the invariant.                                     *)
LEMMA ConnStepInv ==
  ASSUME IInv, ConnInv, [Next]_vars PROVE IInv' /\ ConnInv'
<1>1. [WqNext]_wqVars
  BY WriteSide
<1>2. IInv'
  BY <1>1, StepInv
<1>3. CASE UNCHANGED vars
  <2>1. UNCHANGED <<mode, pusherVars>> /\ disc' = disc /\ sent' = sent /\ closed' = closed
    BY <1>3 DEF vars, wqVars, qVars
  <2>2. ConnInv'
    BY <1>1, <2>1, WriteOnlyInv
  <2> QED
    BY <1>2, <2>2
<1>4. CASE mode = "server" /\ UNCHANGED <<mode, pusherVars>>
  <2>1. ConnInv'
    BY <1>1, <1>4, WriteOnlyInv
  <2> QED
    BY <1>2, <2>1
<1>5. CASE mode = "pusher" /\ UNCHANGED mode /\ PusherNext
  <2> SUFFICES ConnInv'
    BY <1>2
  <2>1. CASE UserStep
    BY <1>5, <2>1, UserInv
  <2>2. CASE RunEvent
    BY <1>5, <2>2, EventInv
  <2>3. CASE \E ok \in BOOLEAN : ServerAnswers(ok)
    <3>1. PICK ok \in BOOLEAN : ServerAnswers(ok)
      BY <2>3
    <3> QED
      BY <1>5, <3>1, AnswersInv
  <2>4. CASE \E k \in 1..Len(resp) : OnResponse(k)
    <3>1. PICK k \in 1..Len(resp) : OnResponse(k)
      BY <2>4
    <3> QED
      BY <1>5, <3>1, ResponseInv
  <2>5. CASE PushRtp
    <3>1. UNCHANGED <<pusherVars, disc, closed>> /\ push
      BY <2>5 DEF PushRtp, SendEvent, Send
    <3> QED
      BY <1>1, <1>5, <3>1, WriteOnlyInv
  <2>6. CASE PusherWrite
    <3>1. UNCHANGED <<pusherVars, disc, sent>> /\ (closed => closed')
      BY <2>6 DEF PusherWrite, Writable, HandleWrite, TryLock, SendSome, SendStalls, SendFails,
                  UpdateWriting, HangUp, qVars
    <3> QED
      BY <1>1, <1>5, <3>1, WriteOnlyInv
  <2> QED
    BY <1>5, <2>1, <2>2, <2>3, <2>4, <2>5, <2>6 DEF PusherNext
<1> QED
  BY <1>2, <1>3, <1>4, <1>5 DEF Next

(* The invariant holds throughout.                                         *)
LEMMA ConnInvariance == Spec => [](IInv /\ ConnInv)
<1>1. IInv /\ ConnInv /\ [Next]_vars => (IInv /\ ConnInv)'
  BY ConnStepInv
<1> QED
  BY <1>1, ConnInitInv, PTL DEF Spec

(* The connection implements its write side: requests, replies, closing    *)
(* and the posted events touch queue, mutex and EPOLLOUT only in the steps *)
(* of WriteQueue.                                                          *)
THEOREM ImplementsWriteQueue == Spec => WqSpec
<1>1. Init => WqInit
  BY DEF Init
<1>2. IInv /\ ConnInv /\ [Next]_vars => [WqNext]_wqVars
  BY WriteSide
<1> QED
  BY <1>1, <1>2, ConnInvariance, PTL DEF Spec, WqSpec

(* So its peer sees whole packets in the order of Send ...                 *)
THEOREM ConnectionInOrder == Spec => WireInOrder
BY ImplementsWriteQueue, InOrderOnTheWire, PTL

(* ... and data is not left without an EPOLLOUT to come.                   *)
THEOREM ConnectionNotStuck == Spec => []NoStuckData
BY ImplementsWriteQueue, NothingStuck, PTL

(* While recv returns whole responses, the pusher's requests follow the    *)
(* fixed order with their own CSeq, each after the one before it was       *)
(* accepted, and frames are pushed only after RECORD was.                  *)
THEOREM Handshake == Spec => []HandshakeInStep
<1>1. ConnInv => HandshakeInStep
  <2> SUFFICES ASSUME ConnInv, whole PROVE HandshakeInStep
    BY DEF HandshakeInStep
  <2>1. reqs \in Seq(ReqRec) /\ DOMAIN reqs = 1..Len(reqs) /\ oks \in Nat
    BY DEF ConnInv, PusherTypeOK
  <2>2. CASE mode = "server"
    BY <2>1, <2>2 DEF ConnInv, HandshakeInStep
  <2>3. CASE mode = "pusher"
    BY <2>1, <2>3 DEF ConnInv, InStep, HandshakeInStep
  <2> QED
    BY <2>2, <2>3 DEF ConnInv
<1> QED
  BY <1>1, ConnInvariance, PTL

-----------------------------------------------------------------------------
(* The server's read side *)

Text == {"line", "cseq", "need", "agent"}
Token == [t : Text \cup {"crlf", "frame", "body"}, m : DOMAIN Layout \cup {"RTCP"}, n : Nat \ {0}]
Stored == [m : DOMAIN Layout \cup {"RTCP", "NONE"}, n : Nat, cseq : Nat]
Answer == [n : Nat, cseq : Nat, ok : BOOLEAN]

(* A piece from some token on of the first N messages of a client.         *)
Framed(s, N) ==
    /\ s \in Seq(Token)
    /\ \A i \in 1..Len(s) : s[i].n <= N
    /\ \A i, j \in 1..Len(s) : i < j => s[i].n <= s[j].n
    /\ \A i, j \in 1..Len(s) : i < j /\ s[j].t = "line" => s[i].n < s[j].n
    /\ \A i \in 1..Len(s) : s[i].t = "line" =>
          \E j \in 1..Len(s) : i < j /\ s[j].t = "cseq" /\ s[j].n = s[i].n
    /\ \A i \in 1..Len(s) : s[i].t \in Text => i < Len(s) /\ s[i + 1].t = "crlf"
    /\ \A i, j \in 1..Len(s) : s[i].n = s[j].n /\ s[i].t \in Text => s[j].t \in Text \cup {"crlf"}

(* What the parser has not consumed yet.                                   *)
Unread == buf \o flow

(* The CSeq of message n is still to come, before any other one's.         *)
CSeqAhead(s, n) ==
    /\ \A i \in 1..Len(s) : s[i].n >= n
    /\ \E i \in 1..Len(s) : s[i].t = "cseq" /\ s[i].n = n

(* All request lines in s are of messages after n.                         *)
LinesAfter(s, n) == \A i \in 1..Len(s) : s[i].t = "line" => n < s[i].n

(* With r stored and s unread: the CSeq of r is known, or the next one.    *)
Knows(r, s) == IF r.cseq = 0 THEN CSeqAhead(s, r.n) ELSE r.cseq = r.n

(* In state "headers" the request of the line is the newest one that was   *)
(* seen, and has not been answered.                                        *)
InHeaders(r, s) ==
    /\ r.n > 0 /\ LinesAfter(s, r.n) /\ Knows(r, s)
    /\ \A i \in 1..Len(replies) : replies[i].n < r.n

InLine(r, s) ==
    /\ r.cseq = 0
    /\ \A i \in 1..Len(replies) : LinesAfter(s, replies[i].n)

Parsing ==
    /\ req \in Stored /\ req.n <= Len(items)
    /\ \A i \in 1..Len(replies) : replies[i].n <= Len(items)
    /\ \/ state = "line" /\ InLine(req, Unread)
       \/ state = "headers" /\ InHeaders(req, Unread)

StreamInv ==
    /\ replies \in Seq(Answer) /\ items \in Seq(DOMAIN Layout \cup {"RTCP"})
    /\ flow \in Seq(Token) /\ buf \in Seq(Token)
    /\ ReplyMatchesRequest
    /\ ~closed => Framed(Unread, Len(items)) /\ Parsing

(* A message of the client: a request, or a packet without any text.       *)
Message(u, n) ==
    /\ u \in Seq(Token)
    /\ \A i \in 1..Len(u) : u[i].n = n
    /\ \A i \in 1..Len(u) : u[i].t = "line" => i = 1
    /\ \A i \in 1..Len(u) : u[i].t = "line" => \E j \in 1..Len(u) : i < j /\ u[j].t = "cseq"
    /\ \A i \in 1..Len(u) : u[i].t \in Text => i < Len(u) /\ u[i + 1].t = "crlf"
    /\ \A i, j \in 1..Len(u) : u[i].t \in Text => u[j].t \in Text \cup {"crlf"}

(* The tokens of a request.                                                *)
LEMMA RequestTokens ==
  ASSUME NEW m \in DOMAIN Layout, NEW n \in Nat \ {0}
  PROVE  /\ Layout[m] \in Seq({"cseq", "need", "agent"}) /\ Len(Layout[m]) \in Nat
         /\ Request(m, n) \in Seq(Token) /\ Len(Request(m, n)) = 2 * Len(Layout[m]) + 3
         /\ Request(m, n)[1] = Tok("line", m, n)
         /\ \A i \in 1..(Len(Layout[m]) + 1) : Request(m, n)[2 * i] = Tok("crlf", m, n)
         /\ \A i \in 1..Len(Layout[m]) : Request(m, n)[2 * i + 1] = Tok(Layout[m][i], m, n)
         /\ Request(m, n)[2 * Len(Layout[m]) + 3] = Tok("crlf", m, n)
<1> DEFINE h == Layout[m]
           lines == <<"line">> \o h
           last == 2 * Len(lines) + 1
           text(i) == IF i % 2 = 1 /\ i < last THEN lines[(i + 1) \div 2] ELSE "crlf"
<1>1. h \in Seq({"cseq", "need", "agent"}) /\ Len(h) \in Nat
  BY StreamAssumption
<1>2. /\ Len(lines) = Len(h) + 1 /\ lines[1] = "line"
      /\ \A i \in 1..Len(h) : lines[i + 1] = h[i]
      /\ lines \in Seq(Text)
  <2>1. h \in Seq(Text)
    BY <1>1 DEF Text
  <2>2. <<"line">> \in Seq(Text) /\ Len(<<"line">>) = 1
    BY DEF Text
  <2> QED
    BY <2>1, <2>2
<1>3. last = 2 * Len(h) + 3 /\ last \in Nat
  BY <1>1, <1>2
<1>4. Request(m, n) = [i \in 1..last |-> Tok(text(i), m, n)]
  BY DEF Request
<1> HIDE DEF h, lines, last
<1>5. \A i \in 1..last : text(i) \in Text \cup {"crlf"}
  <2> TAKE i \in 1..last
  <2>1. CASE i % 2 = 1 /\ i < last
    <3>1. (i + 1) \div 2 \in 1..Len(lines)
      BY <1>1, <1>2, <1>3, <2>1
    <3>2. lines[(i + 1) \div 2] \in Text
      BY <1>2, <3>1
    <3> QED
      BY <2>1, <3>2
  <2> QED
    BY <2>1
<1>6. \A i \in 1..last : Tok(text(i), m, n) \in Token
  <2> TAKE i \in 1..last
  <2>1. text(i) \in Text \cup {"crlf"}
    BY <1>5
  <2> HIDE DEF text
  <2> QED
    BY <2>1 DEF Tok, Token
<1>7. Request(m, n) \in Seq(Token) /\ Len(Request(m, n)) = last
  <2> HIDE DEF text
  <2> QED
    BY <1>3, <1>4, <1>6
<1>8. text(1) = "line"
  BY <1>1, <1>2, <1>3
<1>9. ASSUME NEW i \in 1..(Len(h) + 1) PROVE text(2 * i) = "crlf"
  BY <1>1, <1>3, <1>9
<1>10. ASSUME NEW i \in 1..Len(h) PROVE text(2 * i + 1) = h[i]
  <2>1. i \in Nat /\ (2 * i + 1) % 2 = 1 /\ 2 * i + 1 < last /\ (2 * i + 1 + 1) \div 2 = i + 1
    BY <1>1, <1>3
  <2> QED
    BY <1>2, <2>1
<1>11. text(last) = "crlf"
  BY <1>3
<1> HIDE DEF text
<1>12. /\ 1 \in 1..last /\ last \in 1..last
       /\ \A i \in 1..(Len(h) + 1) : 2 * i \in 1..last
       /\ \A i \in 1..Len(h) : 2 * i + 1 \in 1..last
  BY <1>1, <1>3
<1>13. \A i \in 1..last : Request(m, n)[i] = Tok(text(i), m, n)
  BY <1>4
<1>14. Request(m, n)[1] = Tok("line", m, n) /\ Request(m, n)[last] = Tok("crlf", m, n)
  BY <1>8, <1>11, <1>12, <1>13
<1>15. \A i \in 1..(Len(h) + 1) : Request(m, n)[2 * i] = Tok("crlf", m, n)
  BY <1>9, <1>12, <1>13
<1>16. \A i \in 1..Len(h) : Request(m, n)[2 * i + 1] = Tok(h[i], m, n)
  BY <1>10, <1>12, <1>13
<1> QED
  BY <1>1, <1>3, <1>7, <1>14, <1>15, <1>16 DEF h

(* Every place of a request is that of a line, or of a line's end.         *)
LEMMA RequestPlaces ==
  ASSUME NEW m \in DOMAIN Layout, NEW k \in 1..(2 * Len(Layout[m]) + 3), Len(Layout[m]) \in Nat
  PROVE  \/ k = 1
         \/ \E i \in 1..(Len(Layout[m]) + 1) : k = 2 * i
         \/ \E i \in 1..Len(Layout[m]) : k = 2 * i + 1
         \/ k = 2 * Len(Layout[m]) + 3
<1>1. CASE k % 2 = 0
  <2>1. k = 2 * (k \div 2) /\ k \div 2 \in 1..(Len(Layout[m]) + 1)
    BY <1>1
  <2> QED
    BY <2>1
<1>2. CASE k % 2 = 1 /\ k # 1 /\ k # 2 * Len(Layout[m]) + 3
  <2>1. k = 2 * (k \div 2) + 1 /\ k \div 2 \in 1..Len(Layout[m])
    BY <1>2
  <2> QED
    BY <2>1
<1>3. k % 2 \in {0, 1}
  OBVIOUS
<1> QED
  BY <1>1, <1>2, <1>3

(* What ClientSends appends is a message.                                  *)
LEMMA RequestIsMessage ==
  ASSUME NEW m \in DOMAIN Layout, NEW n \in Nat \ {0} PROVE Message(Request(m, n), n)
<1> DEFINE u == Request(m, n)
           L == Len(Layout[m])
<1>1. /\ Layout[m] \in Seq({"cseq", "need", "agent"}) /\ L \in Nat
      /\ u \in Seq(Token) /\ Len(u) = 2 * L + 3
      /\ u[1] = Tok("line", m, n) /\ u[2 * L + 3] = Tok("crlf", m, n)
      /\ \A i \in 1..(L + 1) : u[2 * i] = Tok("crlf", m, n)
      /\ \A i \in 1..L : u[2 * i + 1] = Tok(Layout[m][i], m, n)
  BY RequestTokens
<1>2. \A i \in 1..L : Layout[m][i] \in {"cseq", "need", "agent"}
  BY <1>1
<1>3. \A k \in 1..(2 * L + 3) :
         \/ k = 1
         \/ \E i \in 1..(L + 1) : k = 2 * i
         \/ \E i \in 1..L : k = 2 * i + 1
         \/ k = 2 * L + 3
  BY <1>1, RequestPlaces
<1> HIDE DEF u, L
<1>4. \A t : Tok(t, m, n).t = t /\ Tok(t, m, n).n = n
  BY DEF Tok
<1>5. ASSUME NEW k \in 1..Len(u)
      PROVE  /\ u[k].n = n /\ u[k].t \in Text \cup {"crlf"}
             /\ u[k].t = "line" => k = 1
             /\ u[k].t \in Text => k < Len(u) /\ u[k + 1].t = "crlf"
  <2>1. CASE k = 1
    <3>1. u[2 * 1].t = "crlf"
      BY <1>1, <1>4
    <3> QED
      BY <1>1, <1>4, <2>1, <3>1 DEF Text
  <2>2. CASE \E i \in 1..(L + 1) : k = 2 * i
    BY <1>1, <1>4, <2>2 DEF Text
  <2>3. ASSUME NEW i \in 1..L, k = 2 * i + 1
        PROVE  /\ u[k].n = n /\ u[k].t \in Text \cup {"crlf"}
               /\ u[k].t = "line" => k = 1
               /\ u[k].t \in Text => k < Len(u) /\ u[k + 1].t = "crlf"
    <3>1. i + 1 \in 1..(L + 1) /\ 2 * (i + 1) = k + 1 /\ k < Len(u)
      BY <1>1, <2>3
    <3>2. u[k + 1].t = "crlf"
      BY <1>1, <1>4, <3>1
    <3>3. u[k].n = n /\ u[k].t \in {"cseq", "need", "agent"}
      <4>1. u[k] = Tok(Layout[m][i], m, n)
        BY <1>1, <2>3
      <4>2. Layout[m][i] \in {"cseq", "need", "agent"}
        BY <1>2
      <4> QED
        BY <4>1, <4>2 DEF Tok
    <3> QED
      BY <3>1, <3>2, <3>3 DEF Text
  <2>4. CASE k = 2 * L + 3
    BY <1>1, <1>4, <2>4 DEF Text
  <2> QED
    BY <1>1, <1>3, <2>1, <2>2, <2>3, <2>4
<1>6. \E j \in 1..Len(u) : 1 < j /\ u[j].t = "cseq"
  <2>1. PICK i \in 1..L : Layout[m][i] = "cseq"
    BY <1>1, StreamAssumption DEF L
  <2>2. 2 * i + 1 \in 1..Len(u) /\ 1 < 2 * i + 1 /\ u[2 * i + 1].t = "cseq"
    BY <1>1, <1>4, <2>1
  <2> QED
    BY <2>2
<1> QED
  BY <1>1, <1>5, <1>6 DEF Message, u

LEMMA RtcpIsMessage == ASSUME NEW n \in Nat \ {0} PROVE Message(Rtcp(n), n) /\ Len(Rtcp(n)) = 3
<1>1. Tok("frame", "RTCP", n) \in Token /\ Tok("body", "RTCP", n) \in Token
  BY DEF Tok, Token
<1>2. /\ Rtcp(n) \in Seq(Token) /\ Len(Rtcp(n)) = 3
      /\ Rtcp(n)[1] = Tok("frame", "RTCP", n) /\ Rtcp(n)[2] = Tok("body", "RTCP", n)
      /\ Rtcp(n)[3] = Tok("body", "RTCP", n)
  BY <1>1 DEF Rtcp
<1>3. \A i \in 1..3 : Rtcp(n)[i].n = n /\ Rtcp(n)[i].t \in {"frame", "body"}
  BY <1>2 DEF Tok
<1> QED
  BY <1>2, <1>3 DEF Message, Text

(* One more message, sent behind what is on its way.                       *)
LEMMA FramedAppend ==
  ASSUME NEW s, NEW N \in Nat, NEW u, Framed(s, N), Message(u, N + 1)
  PROVE  /\ Framed(s \o u, N + 1) /\ Len(s \o u) = Len(s) + Len(u) /\ Len(s) \in Nat
         /\ \A i \in 1..Len(s) : (s \o u)[i] = s[i]
         /\ \A i \in 1..Len(u) : (s \o u)[Len(s) + i] = u[i]
<1> DEFINE v == s \o u
<1>1. s \in Seq(Token) /\ u \in Seq(Token) /\ Len(s) \in Nat /\ Len(u) \in Nat
  BY DEF Framed, Message
<1>2. /\ v \in Seq(Token) /\ Len(v) = Len(s) + Len(u)
      /\ \A i \in 1..Len(s) : v[i] = s[i]
      /\ \A i \in 1..Len(u) : v[Len(s) + i] = u[i]
  BY <1>1
<1>3. \A i \in (Len(s) + 1)..Len(v) : i - Len(s) \in 1..Len(u) /\ v[i] = u[i - Len(s)]
  BY <1>1, <1>2
<1>4. \A i \in 1..Len(v) : i \in 1..Len(s) \/ i \in (Len(s) + 1)..Len(v)
  BY <1>1, <1>2
<1>5. /\ \A i \in 1..Len(s) : s[i].n \in Nat /\ s[i].n <= N
      /\ \A i \in 1..Len(u) : u[i].n = N + 1
  <2>1. \A i \in 1..Len(s) : s[i] \in Token
    BY <1>1
  <2> QED
    BY <2>1 DEF Framed, Message, Token
<1> HIDE DEF v
<1>0. /\ \A i \in 1..Len(s) : v[i].n \in Nat /\ v[i].n <= N
      /\ \A i \in (Len(s) + 1)..Len(v) : v[i].n = N + 1
  <2>1. ASSUME NEW i \in (Len(s) + 1)..Len(v) PROVE v[i].n = N + 1
    BY <1>3, <1>5
  <2> QED
    BY <1>2, <1>5, <2>1
<1>6. \A i \in 1..Len(v) : v[i].n <= N + 1
  <2> TAKE i \in 1..Len(v)
  <2>1. CASE i \in 1..Len(s)
    <3>1. v[i].n \in Nat /\ v[i].n <= N
      BY <1>0, <2>1
    <3> QED
      BY <3>1
  <2>2. CASE i \in (Len(s) + 1)..Len(v)
    BY <1>0, <2>2
  <2> QED
    BY <1>4, <2>1, <2>2
<1>7. \A i, j \in 1..Len(v) : i < j => v[i].n <= v[j].n
  <2> SUFFICES ASSUME NEW i \in 1..Len(v), NEW j \in 1..Len(v), i < j PROVE v[i].n <= v[j].n
    OBVIOUS
  <2>1. CASE j \in 1..Len(s)
    BY <1>1, <1>2, <2>1 DEF Framed
  <2>2. CASE j \in (Len(s) + 1)..Len(v)
    BY <1>0, <1>6, <2>2
  <2> QED
    BY <1>4, <2>1, <2>2
<1>8. \A i, j \in 1..Len(v) : i < j /\ v[j].t = "line" => v[i].n < v[j].n
  <2> SUFFICES ASSUME NEW i \in 1..Len(v), NEW j \in 1..Len(v), i < j, v[j].t = "line"
               PROVE  v[i].n < v[j].n
    OBVIOUS
  <2>1. CASE j \in 1..Len(s)
    BY <1>1, <1>2, <2>1 DEF Framed
  <2>2. CASE j \in (Len(s) + 1)..Len(v)
    <3>1. j - Len(s) = 1 /\ i \in 1..Len(s) /\ v[j].n = N + 1
      <4>1. j - Len(s) \in 1..Len(u) /\ v[j] = u[j - Len(s)]
        BY <1>3, <2>2
      <4>2. j - Len(s) = 1
        BY <4>1 DEF Message
      <4> QED
        BY <1>0, <1>1, <2>2, <4>2
    <3>2. v[i].n \in Nat /\ v[i].n <= N
      BY <1>0, <3>1
    <3> QED
      BY <3>1, <3>2
  <2> QED
    BY <1>4, <2>1, <2>2
<1>9. ASSUME NEW i \in 1..Len(v), v[i].t = "line"
      PROVE  \E j \in 1..Len(v) : i < j /\ v[j].t = "cseq" /\ v[j].n = v[i].n
  <2>1. CASE i \in 1..Len(s)
    <3>1. PICK j \in 1..Len(s) : i < j /\ s[j].t = "cseq" /\ s[j].n = s[i].n
      BY <1>2, <1>9, <2>1 DEF Framed
    <3>2. j \in 1..Len(v) /\ v[j] = s[j] /\ v[i] = s[i]
      BY <1>1, <1>2, <2>1
    <3> QED
      BY <3>1, <3>2
  <2>2. CASE i \in (Len(s) + 1)..Len(v)
    <3>1. i - Len(s) \in 1..Len(u) /\ v[i] = u[i - Len(s)]
      BY <1>3, <2>2
    <3>2. PICK j \in 1..Len(u) : i - Len(s) < j /\ u[j].t = "cseq"
      BY <1>9, <3>1 DEF Message
    <3>3. Len(s) + j \in 1..Len(v) /\ v[Len(s) + j] = u[j] /\ i < Len(s) + j
      BY <1>1, <1>2, <2>2, <3>2
    <3> QED
      BY <1>5, <3>1, <3>2, <3>3
  <2> QED
    BY <1>4, <2>1, <2>2
<1>10. ASSUME NEW i \in 1..Len(v), v[i].t \in Text
       PROVE  i < Len(v) /\ v[i + 1].t = "crlf"
  <2>1. CASE i \in 1..Len(s)
    <3>1. i < Len(s) /\ s[i + 1].t = "crlf" /\ i + 1 \in 1..Len(s)
      BY <1>1, <1>2, <1>10, <2>1 DEF Framed
    <3> QED
      BY <1>1, <1>2, <3>1
  <2>2. CASE i \in (Len(s) + 1)..Len(v)
    <3>1. i - Len(s) \in 1..Len(u) /\ v[i] = u[i - Len(s)]
      BY <1>3, <2>2
    <3>2. i - Len(s) < Len(u) /\ u[i - Len(s) + 1].t = "crlf"
      BY <1>10, <3>1 DEF Message
    <3>3. i + 1 \in (Len(s) + 1)..Len(v) /\ (i + 1) - Len(s) = i - Len(s) + 1
      BY <1>1, <1>2, <2>2, <3>2
    <3>4. v[i + 1] = u[i - Len(s) + 1]
      BY <1>3, <3>3
    <3>5. i < Len(v)
      BY <1>1, <1>2, <3>3
    <3> QED
      BY <3>2, <3>4, <3>5
  <2> QED
    BY <1>4, <2>1, <2>2
<1>11. ASSUME NEW i \in 1..Len(v), NEW j \in 1..Len(v), v[i].n = v[j].n, v[i].t \in Text
       PROVE  v[j].t \in Text \cup {"crlf"}
  <2>1. CASE i \in 1..Len(s) /\ j \in 1..Len(s)
    BY <1>2, <1>11, <2>1 DEF Framed
  <2>2. CASE i \in (Len(s) + 1)..Len(v) /\ j \in (Len(s) + 1)..Len(v)
    <3>1. /\ i - Len(s) \in 1..Len(u) /\ v[i] = u[i - Len(s)]
          /\ j - Len(s) \in 1..Len(u) /\ v[j] = u[j - Len(s)]
      BY <1>3, <2>2
    <3> QED
      BY <1>11, <3>1 DEF Message
  <2>3. CASE i \in 1..Len(s) /\ j \in (Len(s) + 1)..Len(v)
    BY <1>0, <1>11, <2>3
  <2>4. CASE i \in (Len(s) + 1)..Len(v) /\ j \in 1..Len(s)
    BY <1>0, <1>11, <2>4
  <2> QED
    BY <1>4, <2>1, <2>2, <2>3, <2>4
<1>12. Framed(v, N + 1)
  BY <1>2, <1>6, <1>7, <1>8, <1>9, <1>10, <1>11 DEF Framed
<1> QED
  BY <1>1, <1>2, <1>12 DEF v

(* What is left when the parser has consumed d tokens.                     *)
LEMMA FramedSuffix ==
  ASSUME NEW s, NEW N \in Nat, Framed(s, N), NEW d \in 0..Len(s)
  PROVE  /\ Framed(SubSeq(s, d + 1, Len(s)), N)
         /\ Len(SubSeq(s, d + 1, Len(s))) = Len(s) - d
         /\ \A i \in 1..(Len(s) - d) : d + i \in 1..Len(s) /\ SubSeq(s, d + 1, Len(s))[i] = s[d + i]
<1> DEFINE v == SubSeq(s, d + 1, Len(s))
<1>1. s \in Seq(Token) /\ Len(s) \in Nat /\ d \in Nat /\ d <= Len(s)
  BY DEF Framed
<1>2. v \in Seq(Token) /\ Len(v) = Len(s) - d
  BY <1>1
<1>3. \A i \in 1..(Len(s) - d) : d + i \in 1..Len(s) /\ v[i] = s[d + i]
  BY <1>1
<1> HIDE DEF v
<1>4. \A j \in 1..Len(s) : j > d => j - d \in 1..Len(v) /\ v[j - d] = s[j]
  BY <1>1, <1>2, <1>3
<1>5. \A i \in 1..Len(v) : v[i].n <= N
  BY <1>2, <1>3 DEF Framed
<1>6. \A i, j \in 1..Len(v) : i < j => v[i].n <= v[j].n
  <2> SUFFICES ASSUME NEW i \in 1..Len(v), NEW j \in 1..Len(v), i < j PROVE v[i].n <= v[j].n
    OBVIOUS
  <2>1. d + i \in 1..Len(s) /\ d + j \in 1..Len(s) /\ d + i < d + j
    BY <1>1, <1>2, <1>3
  <2> QED
    BY <1>2, <1>3, <2>1 DEF Framed
<1>7. \A i, j \in 1..Len(v) : i < j /\ v[j].t = "line" => v[i].n < v[j].n
  <2> SUFFICES ASSUME NEW i \in 1..Len(v), NEW j \in 1..Len(v), i < j, v[j].t = "line"
               PROVE  v[i].n < v[j].n
    OBVIOUS
  <2>1. d + i \in 1..Len(s) /\ d + j \in 1..Len(s) /\ d + i < d + j
    BY <1>1, <1>2, <1>3
  <2>2. v[i] = s[d + i] /\ v[j] = s[d + j]
    BY <1>2, <1>3
  <2> QED
    BY <2>1, <2>2 DEF Framed
<1>8. ASSUME NEW i \in 1..Len(v), v[i].t = "line"
      PROVE  \E j \in 1..Len(v) : i < j /\ v[j].t = "cseq" /\ v[j].n = v[i].n
  <2>1. d + i \in 1..Len(s) /\ v[i] = s[d + i]
    BY <1>2, <1>3
  <2>2. PICK j \in 1..Len(s) : d + i < j /\ s[j].t = "cseq" /\ s[j].n = s[d + i].n
    BY <1>8, <2>1 DEF Framed
  <2>3. j > d /\ i < j - d
    BY <1>1, <1>2, <2>2
  <2> QED
    BY <1>4, <2>1, <2>2, <2>3
<1>9. ASSUME NEW i \in 1..Len(v), v[i].t \in Text
      PROVE  i < Len(v) /\ v[i + 1].t = "crlf"
  <2>1. d + i \in 1..Len(s) /\ v[i] = s[d + i]
    BY <1>2, <1>3
  <2>2. d + i < Len(s) /\ s[(d + i) + 1].t = "crlf"
    BY <1>9, <2>1 DEF Framed
  <2>3. i < Len(v) /\ i + 1 \in 1..(Len(s) - d) /\ d + (i + 1) = (d + i) + 1
    BY <1>1, <1>2, <2>2
  <2> QED
    BY <1>3, <2>2, <2>3
<1>10. \A i, j \in 1..Len(v) : v[i].n = v[j].n /\ v[i].t \in Text => v[j].t \in Text \cup {"crlf"}
  <2> SUFFICES ASSUME NEW i \in 1..Len(v), NEW j \in 1..Len(v), v[i].n = v[j].n, v[i].t \in Text
               PROVE  v[j].t \in Text \cup {"crlf"}
    OBVIOUS
  <2>1. d + i \in 1..Len(s) /\ d + j \in 1..Len(s) /\ v[i] = s[d + i] /\ v[j] = s[d + j]
    BY <1>2, <1>3
  <2> QED
    BY <2>1 DEF Framed
<1>11. Framed(v, N)
  BY <1>2, <1>5, <1>6, <1>7, <1>8, <1>9, <1>10 DEF Framed
<1> QED
  BY <1>2, <1>3, <1>11 DEF v

(* The naturals are well-ordered, and so are bounded sets of them, seen    *)
(* from above.                                                             *)
LEMMA LeastNatural ==
  ASSUME NEW X, X \subseteq Nat, X # {} PROVE \E i \in X : \A j \in X : i <= j
<1> DEFINE R == OpToRel(<, Nat)
<1>1. IsWellFoundedOn(R, Nat)
  BY NatLessThanWellFounded, Zenon
<1>2. R = {ss \in Nat \X Nat : ss[1] < ss[2]}
  BY DEF OpToRel
<1> HIDE DEF R
<1>3. PICK i \in X : \A j \in X : ~(<<j, i>> \in R)
  BY <1>1, WFMin
<1>4. \A j \in X : ~(j < i)
  BY <1>2, <1>3
<1> QED
  BY <1>4

LEMMA GreatestNatural ==
  ASSUME NEW n \in Nat, NEW X, X \subseteq 1..n, X # {} PROVE \E i \in X : \A j \in X : i >= j
<1> DEFINE Y == {n - j : j \in X}
<1>1. Y \subseteq Nat /\ Y # {}
  <2>1. \A j \in X : n - j \in Nat
    OBVIOUS
  <2>2. PICK j \in X : TRUE
    OBVIOUS
  <2>3. n - j \in Y
    OBVIOUS
  <2> QED
    BY <2>1, <2>3
<1>2. PICK y \in Y : \A z \in Y : y <= z
  <2> HIDE DEF Y
  <2> QED
    BY <1>1, LeastNatural
<1>3. PICK i \in X : y = n - i
  OBVIOUS
<1>4. \A j \in X : n - i <= n - j
  BY <1>2, <1>3
<1> QED
  BY <1>4

(* FindFirstCrlf and FindLastCrlf.                                         *)
LEMMA CrlfPlaces ==
  ASSUME NEW b \in Seq(Token), Crlfs(b) # {}
  PROVE  /\ FirstCrlf(b) \in 1..Len(b) /\ b[FirstCrlf(b)].t = "crlf"
         /\ \A i \in 1..Len(b) : b[i].t = "crlf" => FirstCrlf(b) <= i
         /\ LastCrlf(b) \in 1..Len(b) /\ b[LastCrlf(b)].t = "crlf"
         /\ \A i \in 1..Len(b) : b[i].t = "crlf" => LastCrlf(b) >= i
<1> DEFINE X == Crlfs(b)
<1>1. X = {i \in 1..Len(b) : b[i].t = "crlf"} /\ Len(b) \in Nat
  BY DEF Crlfs
<1>2. X \subseteq Nat /\ X \subseteq 1..Len(b) /\ X # {}
  BY <1>1
<1> HIDE DEF X
<1>3. \E i \in X : \A j \in X : i <= j
  BY <1>2, LeastNatural
<1>4. \E i \in X : \A j \in X : i >= j
  BY <1>1, <1>2, GreatestNatural
<1>5. FirstCrlf(b) \in X /\ \A j \in X : FirstCrlf(b) <= j
  BY <1>3 DEF FirstCrlf, X
<1>6. LastCrlf(b) \in X /\ \A j \in X : LastCrlf(b) >= j
  BY <1>4 DEF LastCrlf, X
<1> QED
  BY <1>1, <1>5, <1>6

(* Taking tokens off the buffer takes them off what is unread.             *)
LEMMA Consumed ==
  ASSUME NEW b \in Seq(Token), NEW f \in Seq(Token), NEW d \in 0..Len(b)
  PROVE  /\ SubSeq(b, d + 1, Len(b)) \in Seq(Token) /\ Len(SubSeq(b, d + 1, Len(b))) = Len(b) - d
         /\ SubSeq(b, d + 1, Len(b)) \o f = SubSeq(b \o f, d + 1, Len(b \o f))
         /\ Len(b \o f) = Len(b) + Len(f) /\ d \in 0..Len(b \o f) /\ b \o f \in Seq(Token)
         /\ \A i \in 1..Len(b) : i \in 1..Len(b \o f) /\ (b \o f)[i] = b[i]
<1> DEFINE c == SubSeq(b, d + 1, Len(b))
           s == b \o f
           t == SubSeq(s, d + 1, Len(s))
<1>1. /\ Len(b) \in Nat /\ Len(f) \in Nat /\ d \in Nat /\ d <= Len(b)
      /\ s \in Seq(Token) /\ Len(s) = Len(b) + Len(f)
  OBVIOUS
<1>2. c \in Seq(Token) /\ Len(c) = Len(b) - d /\ \A i \in 1..(Len(b) - d) : c[i] = b[d + i]
  BY <1>1
<1>3. /\ \A i \in 1..Len(b) : s[i] = b[i]
      /\ \A i \in 1..Len(f) : s[Len(b) + i] = f[i]
  BY <1>1
<1> HIDE DEF s
<1>4. t \in Seq(Token) /\ Len(t) = Len(s) - d /\ \A i \in 1..(Len(s) - d) : t[i] = s[d + i]
  BY <1>1
<1> HIDE DEF c, t
<1>5. /\ c \o f \in Seq(Token) /\ Len(c \o f) = Len(t)
      /\ \A i \in 1..(Len(b) - d) : (c \o f)[i] = c[i]
      /\ \A i \in 1..Len(f) : (c \o f)[(Len(b) - d) + i] = f[i]
  <2>1. /\ c \o f \in Seq(Token) /\ Len(c \o f) = Len(c) + Len(f)
        /\ \A i \in 1..(Len(c) + Len(f)) :
              (c \o f)[i] = IF i <= Len(c) THEN c[i] ELSE f[i - Len(c)]
    BY <1>2, ConcatProperties
  <2>2. ASSUME NEW i \in 1..Len(f) PROVE (c \o f)[(Len(b) - d) + i] = f[i]
    <3>1. /\ (Len(b) - d) + i \in 1..(Len(c) + Len(f)) /\ ~((Len(b) - d) + i <= Len(c))
          /\ ((Len(b) - d) + i) - Len(c) = i
      BY <1>1, <1>2
    <3> QED
      BY <2>1, <3>1
  <2>3. ASSUME NEW i \in 1..(Len(b) - d) PROVE (c \o f)[i] = c[i]
    <3>1. i \in 1..(Len(c) + Len(f)) /\ i <= Len(c)
      BY <1>1, <1>2
    <3> QED
      BY <2>1, <3>1
  <2> QED
    BY <1>1, <1>2, <1>4, <2>1, <2>2, <2>3
<1>6. ASSUME NEW i \in 1..Len(t) PROVE (c \o f)[i] = t[i]
  <2>1. CASE i <= Len(b) - d
    <3>1. i \in 1..(Len(b) - d) /\ i \in 1..(Len(s) - d) /\ d + i \in 1..Len(b)
      BY <1>1, <1>4, <2>1
    <3> QED
      BY <1>2, <1>3, <1>4, <1>5, <3>1
  <2>2. CASE i > Len(b) - d
    <3> DEFINE j == i - (Len(b) - d)
    <3>1. j \in 1..Len(f) /\ i = (Len(b) - d) + j /\ d + i = Len(b) + j /\ i \in 1..(Len(s) - d)
      BY <1>1, <1>4, <2>2
    <3> HIDE DEF j
    <3>2. (c \o f)[i] = f[j] /\ s[d + i] = f[j]
      BY <1>3, <1>5, <3>1
    <3> QED
      BY <1>4, <3>1, <3>2
  <2>3. i <= Len(b) - d \/ i > Len(b) - d
    BY <1>1, <1>4
  <2> QED
    BY <2>1, <2>2, <2>3
<1>7. c \o f = t
  BY <1>4, <1>5, <1>6, SeqEqual
<1>8. d \in 0..Len(s) /\ \A i \in 1..Len(b) : i \in 1..Len(s)
  BY <1>1
<1> QED
  BY <1>1, <1>2, <1>3, <1>7, <1>8 DEF c, s, t

(* recv moves tokens from the socket to the buffer.                        *)
LEMMA Received ==
  ASSUME NEW b \in Seq(Token), NEW f \in Seq(Token), NEW k \in 1..Len(f)
  PROVE  /\ b \o SubSeq(f, 1, k) \in Seq(Token) /\ Len(b \o SubSeq(f, 1, k)) = Len(b) + k
         /\ SubSeq(f, k + 1, Len(f)) \in Seq(Token)
         /\ (b \o SubSeq(f, 1, k)) \o SubSeq(f, k + 1, Len(f)) = b \o f
<1> DEFINE p == SubSeq(f, 1, k)
           q == SubSeq(f, k + 1, Len(f))
           u == b \o p
           v == b \o f
           w == u \o q
<1>1. /\ p \in Seq(Token) /\ Len(p) = k /\ q \in Seq(Token) /\ Len(q) = Len(f) - k
      /\ \A i \in 1..k : p[i] = f[i]
      /\ \A i \in 1..(Len(f) - k) : q[i] = f[k + i]
      /\ Len(b) \in Nat /\ Len(f) \in Nat /\ k \in Nat /\ k <= Len(f)
  OBVIOUS
<1> HIDE DEF p, q
<1>2. /\ u \in Seq(Token) /\ Len(u) = Len(b) + k
      /\ \A i \in 1..(Len(b) + k) : u[i] = IF i <= Len(b) THEN b[i] ELSE p[i - Len(b)]
  BY <1>1, ConcatProperties
<1>3. /\ v \in Seq(Token) /\ Len(v) = Len(b) + Len(f)
      /\ \A i \in 1..(Len(b) + Len(f)) : v[i] = IF i <= Len(b) THEN b[i] ELSE f[i - Len(b)]
  BY <1>1, ConcatProperties
<1> HIDE DEF u, v
<1>4. /\ w \in Seq(Token) /\ Len(w) = Len(u) + Len(q)
      /\ \A i \in 1..(Len(u) + Len(q)) : w[i] = IF i <= Len(u) THEN u[i] ELSE q[i - Len(u)]
  <2>1. u \in Seq(Token) /\ q \in Seq(Token)
    BY <1>1, <1>2
  <2> QED
    BY <2>1, ConcatProperties
<1> HIDE DEF w
<1>5. ASSUME NEW i \in 1..Len(v) PROVE w[i] = v[i]
  <2>1. i \in 1..(Len(b) + Len(f)) /\ i \in 1..(Len(u) + Len(q))
    BY <1>1, <1>2, <1>3
  <2>2. CASE i <= Len(b) + k
    <3>1. w[i] = u[i] /\ i \in 1..(Len(b) + k)
      BY <1>1, <1>2, <1>4, <2>1, <2>2
    <3>2. CASE i <= Len(b)
      BY <1>2, <1>3, <2>1, <3>1, <3>2
    <3>3. CASE ~(i <= Len(b))
      <4>1. i - Len(b) \in 1..k
        BY <1>1, <2>1, <2>2, <3>3
      <4> QED
        BY <1>1, <1>2, <1>3, <2>1, <3>1, <3>3, <4>1
    <3> QED
      BY <3>2, <3>3
  <2>3. CASE ~(i <= Len(b) + k)
    <3>1. w[i] = q[i - Len(u)] /\ v[i] = f[i - Len(b)]
      <4>1. ~(i <= Len(u)) /\ ~(i <= Len(b))
        BY <1>1, <1>2, <2>1, <2>3
      <4>2. w[i] = q[i - Len(u)]
        BY <1>4, <2>1, <4>1
      <4>3. v[i] = f[i - Len(b)]
        BY <1>3, <2>1, <4>1
      <4> QED
        BY <4>2, <4>3
    <3>2. i - Len(u) \in 1..(Len(f) - k) /\ k + (i - Len(u)) = i - Len(b)
      <4>1. /\ Len(u) = Len(b) + k /\ Len(b) \in Nat /\ Len(f) \in Nat /\ k \in Nat /\ k <= Len(f)
            /\ i \in Nat /\ i <= Len(b) + Len(f) /\ i > Len(b) + k
        BY <1>1, <1>2, <2>1, <2>3
      <4> QED
        BY <4>1
    <3>3. q[i - Len(u)] = f[k + (i - Len(u))]
      BY <1>1, <3>2
    <3> QED
      BY <3>1, <3>2, <3>3
  <2> QED
    BY <2>2, <2>3
<1>6. w = v
  <2>1. Len(w) = Len(v) /\ w \in Seq(Token) /\ v \in Seq(Token)
    BY <1>1, <1>2, <1>3, <1>4
  <2> QED
    BY <1>5, <2>1, SeqEqual
<1> QED
  BY <1>1, <1>2, <1>6, Zenon DEF p, q, u, v, w

(* Behind the request line of message n there is no frame, and no other    *)
(* CSeq, before its own CSeq.                                              *)
LEMMA AheadFacts ==
  ASSUME NEW s, NEW N \in Nat, Framed(s, N), NEW n \in Nat, CSeqAhead(s, n)
  PROVE  /\ Len(s) \in Nat /\ 1 \in 1..Len(s) /\ s[1].n = n
         /\ s[1].t \in Text \cup {"crlf"}
         /\ s[1].t # "crlf" => 2 \in 1..Len(s) /\ s[2].t = "crlf"
         /\ \A i \in 1..Len(s) :
               s[i].t = "cseq" /\ (\A j \in 1..Len(s) : s[j].t = "cseq" => i <= j) => s[i].n = n
<1>1. PICK c \in 1..Len(s) : s[c].t = "cseq" /\ s[c].n = n
  BY DEF CSeqAhead
<1>2. s \in Seq(Token) /\ Len(s) \in Nat
  BY DEF Framed
<1>3. \A i \in 1..Len(s) : s[i].n \in Nat /\ s[i].n >= n
  <2>1. \A i \in 1..Len(s) : s[i] \in Token
    BY <1>2
  <2> QED
    BY <2>1 DEF CSeqAhead, Token
<1>4. \A i \in 1..Len(s) : i <= c => s[i].n = n
  <2> SUFFICES ASSUME NEW i \in 1..Len(s), i <= c PROVE s[i].n = n
    OBVIOUS
  <2>1. i < c => s[i].n <= s[c].n
    BY DEF Framed
  <2> QED
    BY <1>1, <1>3, <2>1
<1>5. 1 \in 1..Len(s) /\ s[1].n = n
  BY <1>2, <1>4
<1>6. s[1].t \in Text \cup {"crlf"}
  BY <1>1, <1>5 DEF Framed, Text
<1>7. ASSUME s[1].t # "crlf" PROVE 2 \in 1..Len(s) /\ s[2].t = "crlf"
  <2>1. 1 < Len(s) /\ s[1 + 1].t = "crlf"
    BY <1>5, <1>6, <1>7 DEF Framed
  <2> QED
    BY <1>2, <2>1
<1> QED
  BY <1>1, <1>2, <1>4, <1>5, <1>6, <1>7

(* ParseCSeq on a block in front of s: the CSeq found is that of r.        *)
LEMMA CSeqFound ==
  ASSUME NEW b \in Seq(Token), NEW f \in Seq(Token), NEW N \in Nat, Framed(b \o f, N),
         NEW r \in Stored, Knows(r, b \o f), NEW e \in 0..Len(b)
  PROVE  CSeqOf(r, SubSeq(b, 1, e)) \in {0, r.n}
<1> DEFINE s == b \o f
           block == SubSeq(b, 1, e)
           found == {i \in DOMAIN block : block[i].t = "cseq"}
           i0 == CHOOSE i \in found : \A j \in found : i <= j
<1>0. CSeqOf(r, block) = IF r.cseq # 0 \/ found = {} THEN r.cseq ELSE block[i0].n
  BY DEF CSeqOf
<1>1. CASE r.cseq # 0
  BY <1>0, <1>1 DEF Knows
<1>2. CASE r.cseq = 0 /\ found = {}
  BY <1>0, <1>2
<1>3. CASE r.cseq = 0 /\ found # {}
  <2>1. /\ \A i \in 1..Len(b) : i \in 1..Len(s) /\ s[i] = b[i]
        /\ Len(b) \in Nat /\ e \in Nat /\ e <= Len(b)
    BY 0 \in 0..Len(b), Consumed
  <2>2. Len(block) = e /\ DOMAIN block = 1..e /\ \A i \in 1..e : block[i] = b[i] /\ i \in 1..Len(b)
    BY <2>1
  <2> HIDE DEF s, block
  <2>3. found \subseteq Nat
    BY <2>1, <2>2
  <2>4. i0 \in found /\ \A j \in found : i0 <= j
    <3> HIDE DEF found
    <3>1. \E i \in found : \A j \in found : i <= j
      BY <1>3, <2>3, LeastNatural
    <3> QED
      BY <3>1
  <2> HIDE DEF i0
  <2>5. i0 \in 1..e /\ block[i0] = s[i0] /\ i0 \in 1..Len(s) /\ s[i0].t = "cseq"
    BY <2>1, <2>2, <2>4
  <2>6. ASSUME NEW j \in 1..Len(s), s[j].t = "cseq" PROVE i0 <= j
    <3>1. CASE j \in 1..e
      <4>1. j \in found
        BY <2>1, <2>2, <2>6, <3>1
      <4> QED
        BY <2>4, <4>1
    <3>2. CASE j \notin 1..e
      BY <2>1, <2>5, <3>2
    <3> QED
      BY <3>1, <3>2
  <2>7. r.n \in Nat /\ CSeqAhead(s, r.n) /\ Framed(s, N)
    BY <1>3 DEF Stored, Knows, s
  <2>8. s[i0].n = r.n
    BY <2>5, <2>6, <2>7, AheadFacts
  <2> HIDE DEF found
  <2>9. CSeqOf(r, block) = r.n
    BY <1>0, <1>3, <2>5, <2>8
  <2> QED
    BY <2>9 DEF block
<1> QED
  BY <1>1, <1>2, <1>3 DEF block

(* A buffer without its first d tokens.                                    *)
Drop(b, d) == SubSeq(b, d + 1, Len(b))

IsDrop(c, b) == \E d \in 0..Len(b) : c = Drop(b, d)

HeadersResult(o, b, r) ==
    /\ o.req \in Stored /\ o.req.n = r.n /\ IsDrop(o.buf, b)
    /\ \/ o.res = "close"
       \/ o.res = "all" /\ o.state = "line" /\ o.req.cseq = r.n
       \/ o.res = "wait" /\ o.state = "headers" /\ o.req.cseq = r.n
       \/ /\ o.res = "wait" /\ o.state = "headers" /\ o.req.cseq = 0 /\ r.cseq = 0
          /\ o.buf = b /\ Len(b) <= 1

(* What ParseHeadersLine returns: r keeps its request and gets no other    *)
(* one's CSeq, and without a CSeq nothing was consumed.                    *)
LEMMA HeadersParse ==
  ASSUME NEW b \in Seq(Token), NEW f \in Seq(Token), NEW N \in Nat, Framed(b \o f, N),
         NEW r \in Stored, r.n > 0, Knows(r, b \o f)
  PROVE  HeadersResult(ParseHeaders(b, r), b, r)
<1> DEFINE o == ParseHeaders(b, r)
<1>1. \A a, v, w, x : /\ Outcome(a, v, w, x).res = a /\ Outcome(a, v, w, x).buf = v
                      /\ Outcome(a, v, w, x).state = w /\ Outcome(a, v, w, x).req = x
  BY DEF Outcome
<1>2. r.n \in Nat /\ r.cseq \in Nat /\ Len(b) \in Nat
  BY DEF Stored
<1>3. CASE Crlfs(b) = {}
  <2>1. o.res = "wait" /\ o.buf = b /\ o.state = "headers" /\ o.req = r
    BY <1>1, <1>3 DEF ParseHeaders
  <2>2. 0 \in 0..Len(b) /\ o.buf = Drop(b, 0)
    BY <1>2, <2>1, SubSeqFull DEF Drop
  <2> HIDE DEF o
  <2>3. CASE r.cseq # 0
    <3>1. o.req \in Stored /\ o.req.cseq = r.n /\ IsDrop(o.buf, b)
      BY <2>1, <2>2, <2>3 DEF Knows, IsDrop
    <3>2. HeadersResult(o, b, r)
      BY <2>1, <3>1 DEF HeadersResult
    <3> QED
      BY <3>2 DEF o
  <2>4. CASE r.cseq = 0
    <3> DEFINE s == b \o f
    <3>1. \A i \in 1..Len(b) : i \in 1..Len(s) /\ s[i] = b[i]
      BY <2>2, Consumed
    <3> HIDE DEF s
    <3>2. CSeqAhead(s, r.n) /\ Framed(s, N)
      BY <2>4 DEF Knows, s
    <3>3. s[1].t # "crlf" => 2 \in 1..Len(s) /\ s[2].t = "crlf"
      BY <1>2, <3>2, AheadFacts
    <3>4. \A i \in 1..Len(b) : b[i].t # "crlf"
      BY <1>3 DEF Crlfs
    <3>5. Len(b) <= 1
      <4> SUFFICES ASSUME Len(b) > 1 PROVE FALSE
        BY <1>2
      <4>1. 1 \in 1..Len(b) /\ 2 \in 1..Len(b)
        BY <1>2
      <4> QED
        BY <3>1, <3>3, <3>4, <4>1
    <3>6. IsDrop(o.buf, b)
      BY <2>2 DEF IsDrop
    <3>7. HeadersResult(o, b, r)
      BY <2>1, <2>4, <3>5, <3>6 DEF HeadersResult
    <3> QED
      BY <3>7 DEF o
  <2> QED
    BY <1>2, <2>3, <2>4
<1>4. CASE Crlfs(b) # {}
  <2> DEFINE z == LastCrlf(b)
             block == SubSeq(b, 1, z - 1)
             rest == SubSeq(b, z + 1, Len(b))
             q == [r EXCEPT !.cseq = CSeqOf(r, block)]
  <2>1. z \in 1..Len(b)
    BY <1>4, CrlfPlaces
  <2>2. z \in 0..Len(b) /\ z - 1 \in 0..Len(b)
    BY <1>2, <2>1
  <2>3. CSeqOf(r, block) \in {0, r.n}
    BY <2>2, CSeqFound
  <2>4. o = IF q.cseq = 0 THEN Outcome("close", rest, "headers", q)
            ELSE IF Complete(q, block) THEN Outcome("all", rest, "line", q)
            ELSE Outcome("wait", rest, "headers", q)
    BY <1>4 DEF ParseHeaders
  <2> HIDE DEF z, block, o
  <2>5. q \in Stored /\ q.n = r.n /\ q.cseq \in {0, r.n}
    BY <1>2, <2>3 DEF Stored
  <2> HIDE DEF q
  <2>6. o.buf = rest /\ o.req = q
    <3> HIDE DEF rest
    <3>1. CASE q.cseq = 0
      BY <1>1, <2>4, <3>1
    <3>2. CASE q.cseq # 0 /\ Complete(q, block)
      BY <1>1, <2>4, <3>2
    <3>3. CASE q.cseq # 0 /\ ~Complete(q, block)
      BY <1>1, <2>4, <3>3
    <3> QED
      BY <3>1, <3>2, <3>3
  <2>7. \/ o.res = "close"
        \/ o.res = "all" /\ o.state = "line" /\ o.req.cseq = r.n
        \/ o.res = "wait" /\ o.state = "headers" /\ o.req.cseq = r.n
    BY <1>1, <2>4, <2>5, <2>6
  <2>8. IsDrop(o.buf, b)
    BY <2>2, <2>6 DEF IsDrop, Drop
  <2> QED
    BY <2>5, <2>6, <2>7, <2>8 DEF HeadersResult, o
<1> QED
  BY <1>3, <1>4

(* What is left of a sequence behind its first k tokens.                   *)
LEMMA SuffixShape ==
  ASSUME NEW s \in Seq(Token), NEW k \in Nat, k <= Len(s)
  PROVE  /\ SubSeq(s, k + 1, Len(s)) \in Seq(Token)
         /\ Len(SubSeq(s, k + 1, Len(s))) = Len(s) - k
         /\ \A j \in 1..(Len(s) - k) : SubSeq(s, k + 1, Len(s))[j] = s[k + j]
<1>1. Len(s) \in Nat
  OBVIOUS
<1>2. SubSeq(s, k + 1, Len(s)) \in Seq(Token)
  BY <1>1
<1>3. Len(SubSeq(s, k + 1, Len(s))) = Len(s) - k
  BY <1>1
<1>4. \A j \in 1..(Len(s) - k) : SubSeq(s, k + 1, Len(s))[j] = s[k + j]
  BY <1>1
<1> QED
  BY <1>2, <1>3, <1>4

LEMMA SuffixOfSuffix ==
  ASSUME NEW b \in Seq(Token), NEW i \in 0..Len(b), NEW d \in 0..Len(Drop(b, i))
  PROVE  i + d \in 0..Len(b) /\ Drop(Drop(b, i), d) = Drop(b, i + d)
<1> DEFINE c == SubSeq(b, i + 1, Len(b))
           u == SubSeq(c, d + 1, Len(c))
           v == SubSeq(b, (i + d) + 1, Len(b))
<1>1. /\ Len(b) \in Nat /\ i \in Nat /\ i <= Len(b) /\ c \in Seq(Token) /\ Len(c) = Len(b) - i
      /\ \A j \in 1..(Len(b) - i) : c[j] = b[i + j]
  <2>1. Len(b) \in Nat /\ i \in Nat /\ i <= Len(b)
    OBVIOUS
  <2>2. c \in Seq(Token) /\ Len(c) = Len(b) - i /\ \A j \in 1..(Len(b) - i) : c[j] = b[i + j]
    BY ONLY <2>1, b \in Seq(Token), SuffixShape
  <2> QED
    BY <2>1, <2>2
<1>2. i + d \in 0..Len(b) /\ d \in Nat /\ d <= Len(c)
  BY <1>1 DEF Drop
<1> HIDE DEF c
<1>3. u \in Seq(Token) /\ Len(u) = Len(c) - d /\ \A j \in 1..(Len(c) - d) : u[j] = c[d + j]
  BY <1>1, <1>2, SuffixShape
<1>4. /\ v \in Seq(Token) /\ Len(v) = Len(b) - (i + d)
      /\ \A j \in 1..(Len(b) - (i + d)) : v[j] = b[(i + d) + j]
  <2>1. i + d \in Nat /\ i + d <= Len(b)
    BY <1>1, <1>2
  <2> QED
    BY <2>1, SuffixShape
<1> HIDE DEF u, v
<1>5. Len(u) = Len(v)
  BY <1>1, <1>2, <1>3, <1>4
<1>6. ASSUME NEW j \in 1..Len(u) PROVE u[j] = v[j]
  <2>1. /\ j \in 1..(Len(c) - d) /\ d + j \in 1..(Len(b) - i) /\ i + (d + j) = (i + d) + j
        /\ j \in 1..(Len(b) - (i + d))
    <3>1. /\ Len(b) \in Nat /\ i \in Nat /\ d \in Nat /\ j \in Nat /\ Len(c) = Len(b) - i
          /\ j >= 1 /\ j <= Len(c) - d
      BY <1>1, <1>2, <1>3
    <3> QED
      BY <3>1
  <2>2. u[j] = c[d + j] /\ c[d + j] = b[i + (d + j)] /\ v[j] = b[(i + d) + j]
    BY <1>1, <1>3, <1>4, <2>1
  <2> QED
    BY <2>1, <2>2
<1>7. u = v
  BY <1>3, <1>4, <1>5, <1>6, SeqEqual
<1> QED
  BY <1>2, <1>7 DEF Drop, c, u, v

LEMMA SuffixLines ==
  ASSUME NEW b \in Seq(Token), NEW f \in Seq(Token), NEW N \in Nat, Framed(b \o f, N),
         NEW d \in 0..Len(b)
  PROVE  /\ Drop(b, d) \in Seq(Token) /\ Framed(Drop(b, d) \o f, N)
         /\ Len(Drop(b, d) \o f) = Len(b \o f) - d
         /\ \A i \in 1..(Len(b \o f) - d) :
               d + i \in 1..Len(b \o f) /\ (Drop(b, d) \o f)[i] = (b \o f)[d + i]
         /\ \A n : LinesAfter(b \o f, n) => LinesAfter(Drop(b, d) \o f, n)
<1> DEFINE c == Drop(b, d)
<1>1. c \in Seq(Token) /\ c \o f = SubSeq(b \o f, d + 1, Len(b \o f)) /\ d \in 0..Len(b \o f)
  BY Consumed DEF Drop
<1> HIDE DEF c
<1>2. /\ Framed(c \o f, N) /\ Len(c \o f) = Len(b \o f) - d
      /\ \A i \in 1..(Len(b \o f) - d) : d + i \in 1..Len(b \o f) /\ (c \o f)[i] = (b \o f)[d + i]
  BY <1>1, FramedSuffix
<1>3. ASSUME NEW n, LinesAfter(b \o f, n) PROVE LinesAfter(c \o f, n)
  BY <1>2, <1>3 DEF LinesAfter
<1> QED
  BY <1>1, <1>2, <1>3 DEF c

(* What is in the state after ParseRequest, whatever was received.         *)
Parsed(o, f) ==
    \/ o.res = "close"
    \/ /\ o.res = "all" /\ o.state = "line" /\ InHeaders(o.req, o.buf \o f)
       /\ o.req.cseq = o.req.n
    \/ /\ o.res = "wait" /\ o.state = "headers" /\ InHeaders(o.req, o.buf \o f)
       /\ o.req.cseq = 0 => Len(o.buf) <= 1
    \/ o.res = "wait" /\ o.state = "line" /\ InLine(o.req, o.buf \o f)

(* Parsing headers, in either state, keeps InHeaders.                      *)
LEMMA HeadersKept ==
  ASSUME NEW b \in Seq(Token), NEW f \in Seq(Token), NEW N \in Nat, Framed(b \o f, N),
         NEW r \in Stored, InHeaders(r, b \o f)
  PROVE  /\ ParseHeaders(b, r).req \in Stored /\ ParseHeaders(b, r).req.n = r.n
         /\ IsDrop(ParseHeaders(b, r).buf, b) /\ Parsed(ParseHeaders(b, r), f)
<1> DEFINE o == ParseHeaders(b, r)
<1>1. /\ r.n > 0 /\ LinesAfter(b \o f, r.n) /\ Knows(r, b \o f) /\ r.n \in Nat
      /\ \A i \in 1..Len(replies) : replies[i].n < r.n
  BY DEF InHeaders, Stored
<1>2. HeadersResult(o, b, r)
  BY <1>1, HeadersParse
<1> HIDE DEF o
<1>3. LinesAfter(o.buf \o f, r.n)
  <2>1. PICK d \in 0..Len(b) : o.buf = Drop(b, d)
    BY <1>2 DEF HeadersResult, IsDrop
  <2>2. LinesAfter(Drop(b, d) \o f, r.n)
    BY <1>1, SuffixLines
  <2> QED
    BY <2>1, <2>2
<1>4. o.req \in Stored /\ o.req.n = r.n /\ IsDrop(o.buf, b)
  BY <1>2 DEF HeadersResult
<1>5. CASE o.req.cseq = r.n
  <2>1. InHeaders(o.req, o.buf \o f)
    BY <1>1, <1>3, <1>4, <1>5 DEF InHeaders, Knows
  <2>2. Parsed(o, f)
    BY <1>1, <1>2, <1>4, <1>5, <2>1 DEF Parsed, HeadersResult
  <2> QED
    BY <1>4, <2>2 DEF o
<1>6. CASE o.req.cseq = 0 /\ r.cseq = 0 /\ o.buf = b
  <2>1. InHeaders(o.req, o.buf \o f)
    BY <1>1, <1>3, <1>4, <1>6 DEF InHeaders, Knows
  <2>2. Parsed(o, f)
    BY <1>1, <1>2, <1>4, <1>6, <2>1 DEF Parsed, HeadersResult
  <2> QED
    BY <1>4, <2>2 DEF o
<1>7. CASE o.res = "close"
  BY <1>4, <1>7 DEF Parsed, o
<1> QED
  BY <1>2, <1>5, <1>6, <1>7 DEF HeadersResult

(* A request line makes its message the one whose headers follow.          *)
LEMMA LineKept ==
  ASSUME NEW b \in Seq(Token), NEW f \in Seq(Token), NEW N \in Nat, Framed(b \o f, N),
         InLine(req, b \o f), req \in Stored, 2 \in 1..Len(b), b[1].t = "line", b[2].t = "crlf",
         NEW r, r = [req EXCEPT !.m = b[1].m, !.n = b[1].n]
  PROVE  /\ r \in Stored /\ r.n <= N /\ InHeaders(r, Drop(b, 2) \o f)
         /\ Framed(Drop(b, 2) \o f, N) /\ Drop(b, 2) \in Seq(Token)
<1> DEFINE s == b \o f
           v == Drop(b, 2) \o f
<1>1. Len(b) \in Nat /\ 1 \in 1..Len(b) /\ 2 \in 0..Len(b)
  OBVIOUS
<1>2. s[1] = b[1] /\ s[2] = b[2] /\ 1 \in 1..Len(s) /\ 2 \in 1..Len(s)
  BY <1>1, Consumed
<1>3. /\ Drop(b, 2) \in Seq(Token) /\ Framed(v, N) /\ Len(v) = Len(s) - 2
      /\ \A i \in 1..(Len(s) - 2) : 2 + i \in 1..Len(s) /\ v[i] = s[2 + i]
  BY <1>1, SuffixLines
<1>4. Framed(s, N) /\ InLine(req, s)
  OBVIOUS
<1> HIDE DEF s, v
<1>5. s \in Seq(Token) /\ Len(s) \in Nat
  BY <1>4 DEF Framed
<1>6. \A i \in 1..Len(s) : s[i] \in Token /\ s[i].n \in Nat \ {0}
                           /\ s[i].m \in DOMAIN Layout \cup {"RTCP"}
  <2>1. \A i \in 1..Len(s) : s[i] \in Token
    BY <1>5
  <2> QED
    BY <2>1 DEF Token
<1>7. r \in Stored /\ r.n = s[1].n /\ r.cseq = 0
  <2>1. b[1].n \in Nat /\ b[1].m \in DOMAIN Layout \cup {"RTCP"}
    BY <1>2, <1>6
  <2>2. r \in Stored /\ r.n = b[1].n /\ r.cseq = req.cseq
    BY <2>1 DEF Stored
  <2>3. req.cseq = 0
    BY <1>4 DEF InLine
  <2> QED
    BY <1>2, <2>2, <2>3
<1>8. s[1].n <= N /\ s[1].n \in Nat \ {0}
  BY <1>2, <1>4, <1>6 DEF Framed
<1>9. \A j \in 1..Len(s) : 1 < j => s[1].n <= s[j].n /\ (s[j].t = "line" => s[1].n < s[j].n)
  BY <1>2, <1>4 DEF Framed
<1>10. \A i \in 1..Len(v) : 2 + i \in 1..Len(s) /\ v[i] = s[2 + i] /\ 1 < 2 + i
  BY <1>3, <1>5
<1>11. LinesAfter(v, r.n)
  BY <1>7, <1>9, <1>10 DEF LinesAfter
<1>12. CSeqAhead(v, r.n)
  <2>1. ASSUME NEW i \in 1..Len(v) PROVE v[i].n >= r.n
    <3>1. 2 + i \in 1..Len(s) /\ v[i] = s[2 + i] /\ 1 < 2 + i
      BY <1>10
    <3>2. s[1].n <= s[2 + i].n /\ s[2 + i].n \in Nat /\ s[1].n \in Nat
      BY <1>6, <1>8, <1>9, <3>1
    <3> QED
      BY <1>7, <3>1, <3>2
  <2>2. PICK j \in 1..Len(s) : 1 < j /\ s[j].t = "cseq" /\ s[j].n = s[1].n
    BY <1>2, <1>4 DEF Framed
  <2>3. j # 2
    BY <1>2, <2>2
  <2>4. j - 2 \in 1..(Len(s) - 2) /\ 2 + (j - 2) = j
    BY <1>5, <2>2, <2>3
  <2>5. v[j - 2] = s[j] /\ j - 2 \in 1..Len(v)
    BY <1>3, <2>4
  <2>6. \E i \in 1..Len(v) : v[i].t = "cseq" /\ v[i].n = r.n
    BY <1>7, <2>2, <2>5
  <2> QED
    BY <2>1, <2>6 DEF CSeqAhead
<1>13. \A i \in 1..Len(replies) : replies[i].n < r.n
  BY <1>2, <1>4, <1>7 DEF InLine, LinesAfter
<1>14. InHeaders(r, v)
  BY <1>7, <1>8, <1>11, <1>12, <1>13 DEF InHeaders, Knows
<1> QED
  BY <1>3, <1>7, <1>8, <1>14 DEF v

IsOutcome(p) == p = Outcome(p.res, p.buf, p.state, p.req)

(* What ParseRequest returns is an outcome.                                *)
LEMMA OutcomeShape == ASSUME NEW b, NEW p \in ParseRequest(b) PROVE IsOutcome(p)
<1>1. \A a, v, w, x : IsOutcome(Outcome(a, v, w, x))
  BY DEF IsOutcome, Outcome
<1>2. ASSUME NEW c, NEW r PROVE IsOutcome(ParseHeaders(c, r))
  <2> DEFINE block == SubSeq(c, 1, LastCrlf(c) - 1)
             rest  == SubSeq(c, LastCrlf(c) + 1, Len(c))
             q     == [r EXCEPT !.cseq = CSeqOf(r, block)]
  <2>1. \/ ParseHeaders(c, r) = Outcome("wait", c, "headers", r)
        \/ ParseHeaders(c, r) = Outcome("close", rest, "headers", q)
        \/ ParseHeaders(c, r) = Outcome("all", rest, "line", q)
        \/ ParseHeaders(c, r) = Outcome("wait", rest, "headers", q)
    BY DEF ParseHeaders
  <2> HIDE DEF rest, q
  <2> QED
    BY <1>1, <2>1
<1>3. ASSUME NEW c, NEW r, NEW z \in ParseLine(c, r) PROVE IsOutcome(z)
  <2> DEFINE rest == SubSeq(c, FirstCrlf(c) + 1, Len(c))
             q == [r EXCEPT !.m = c[1].m, !.n = c[1].n]
  <2>1. CASE Crlfs(c) = {}
    BY <1>1, <1>3, <2>1 DEF ParseLine
  <2>2. CASE Crlfs(c) # {}
    <3>1. PICK res : z = IF res = "request" THEN ParseHeaders(rest, q)
                         ELSE Outcome(IF res = "skip" THEN "wait" ELSE "close", rest, "line", r)
      BY <1>3, <2>2 DEF ParseLine
    <3> HIDE DEF rest, q
    <3> QED
      BY <1>1, <1>2, <3>1
  <2> QED
    BY <2>1, <2>2
<1>4. CASE b[1].t = "frame"
  BY <1>1, <1>4 DEF ParseRequest
<1>5. CASE b[1].t # "frame" /\ state = "line"
  BY <1>3, <1>5 DEF ParseRequest
<1>6. CASE b[1].t # "frame" /\ state # "line"
  BY <1>2, <1>6 DEF ParseRequest
<1> QED
  BY <1>4, <1>5, <1>6

(* HandleRtcp takes away a packet that is alone in the buffer, or nothing. *)
LEMMA RtcpKept ==
  ASSUME NEW b \in Seq(Token), NEW f \in Seq(Token), NEW N \in Nat, Framed(b \o f, N),
         NEW p, p.req \in Stored, IsDrop(p.buf, b), Parsed(p, f),
         p = Outcome(p.res, p.buf, p.state, p.req)
  PROVE  /\ AfterRtcp(p).req = p.req /\ IsDrop(AfterRtcp(p).buf, b)
         /\ Parsed(AfterRtcp(p), f)
<1> DEFINE o == AfterRtcp(p)
<1>1. CASE o = p
  BY <1>1
<1>2. CASE o # p
  <2>1. /\ p.res = "wait" /\ HandleRtcp(p.buf) # p.buf
        /\ o = [p EXCEPT !.buf = HandleRtcp(p.buf)]
    <3>1. p.res = "wait" /\ o = [p EXCEPT !.buf = HandleRtcp(p.buf)]
      BY <1>2 DEF AfterRtcp
    <3>2. HandleRtcp(p.buf) = p.buf => [p EXCEPT !.buf = HandleRtcp(p.buf)] = p
      BY DEF Outcome
    <3> QED
      BY <1>2, <3>1, <3>2
  <2>2. HandleRtcp(p.buf) = <<>> /\ Len(p.buf) \in 2..FrameLen
    BY <2>1 DEF HandleRtcp
  <2>3. o.res = p.res /\ o.buf = <<>> /\ o.state = p.state /\ o.req = p.req
    BY <2>1, <2>2 DEF Outcome
  <2> HIDE DEF o
  <2>4. PICK d \in 0..Len(b) : p.buf = Drop(b, d)
    BY DEF IsDrop
  <2>5. Drop(b, d) \in Seq(Token) /\ Framed(Drop(b, d) \o f, N)
    BY SuffixLines
  <2>6. p.buf \in Seq(Token) /\ Framed(p.buf \o f, N) /\ Len(p.buf) \in Nat /\ Len(p.buf) > 1
    <3>1. p.buf \in Seq(Token) /\ Framed(p.buf \o f, N)
      BY <2>4, <2>5, Zenon
    <3>2. \A k \in 2..FrameLen : k \in Nat /\ k > 1
      BY DEF FrameLen
    <3> QED
      BY <2>2, <3>1, <3>2, Zenon
  <2>7. IsDrop(o.buf, b)
    <3>1. Len(b) \in 0..Len(b) /\ <<>> = Drop(b, Len(b))
      BY DEF Drop
    <3> QED
      BY <2>3, <3>1 DEF IsDrop
  <2>8. ASSUME NEW n, LinesAfter(p.buf \o f, n) PROVE LinesAfter(o.buf \o f, n)
    <3> DEFINE y == p.buf
    <3>0. y \in Seq(Token)
      BY <2>6
    <3> HIDE DEF y
    <3>a. Len(y) \in 0..Len(y) /\ <<>> = Drop(y, Len(y))
      BY <3>0 DEF Drop
    <3>1. Len(p.buf) \in 0..Len(p.buf) /\ <<>> = Drop(p.buf, Len(p.buf))
      BY <3>a DEF y
    <3>2. LinesAfter(Drop(p.buf, Len(p.buf)) \o f, n)
      <4> DEFINE w == p.buf
                 z == Len(w)
      <4>1. w \in Seq(Token) /\ z \in 0..Len(w) /\ Framed(w \o f, N) /\ LinesAfter(w \o f, n)
        BY <2>6, <2>8, <3>1
      <4> HIDE DEF w, z
      <4>2. LinesAfter(Drop(w, z) \o f, n)
        BY <4>1, SuffixLines
      <4> QED
        BY <4>2 DEF w, z
    <3> QED
      BY <2>3, <3>1, <3>2
  <2>9. CASE p.state = "line" /\ InLine(p.req, p.buf \o f)
    <3>1. InLine(o.req, o.buf \o f)
      BY <2>3, <2>8, <2>9 DEF InLine
    <3> QED
      BY <2>1, <2>3, <2>7, <2>9, <3>1 DEF Parsed, o
  <2>10. CASE p.state = "headers" /\ InHeaders(p.req, p.buf \o f) /\ p.req.cseq # 0
    <3>1. InHeaders(o.req, o.buf \o f)
      BY <2>3, <2>8, <2>10 DEF InHeaders, Knows
    <3> QED
      BY <2>1, <2>3, <2>7, <2>10, <3>1 DEF Parsed, o
  <2> QED
    BY <2>1, <2>6, <2>9, <2>10 DEF Parsed
<1> QED
  BY <1>1, <1>2

(* ParseRequest *)
LEMMA RequestParse ==
  ASSUME NEW b \in Seq(Token), NEW f \in Seq(Token), NEW N \in Nat, Framed(b \o f, N),
         Len(b) > 0, req \in Stored, req.n <= N,
         \/ state = "line" /\ InLine(req, b \o f)
         \/ state = "headers" /\ InHeaders(req, b \o f),
         NEW o \in ParseRequest(b)
  PROVE  o.req \in Stored /\ o.req.n <= N /\ IsDrop(o.buf, b) /\ Parsed(o, f)
<1>1. \A a, v, w, x : /\ Outcome(a, v, w, x).res = a /\ Outcome(a, v, w, x).buf = v
                      /\ Outcome(a, v, w, x).state = w /\ Outcome(a, v, w, x).req = x
  BY DEF Outcome
<1>2. /\ Len(b) \in Nat /\ 0 \in 0..Len(b) /\ Len(b) \in 0..Len(b) /\ 1 \in 1..Len(b)
      /\ b = Drop(b, 0) /\ <<>> = Drop(b, Len(b))
  BY SubSeqFull DEF Drop
<1>3. CASE b[1].t = "frame"
  <2> DEFINE q == [req EXCEPT !.m = "RTCP"]
  <2>1. o = Outcome("wait", b, state, q)
    BY <1>3 DEF ParseRequest
  <2>2. q \in Stored /\ q.n = req.n /\ q.cseq = req.cseq
    BY DEF Stored
  <2> HIDE DEF q
  <2>3. o.res = "wait" /\ o.state = state /\ o.req = q /\ o.buf = b
    BY <1>1, <2>1
  <2>4. IsDrop(o.buf, b)
    BY <1>2, <2>3 DEF IsDrop
  <2>6. CASE state = "line" /\ InLine(req, b \o f)
    <3>1. InLine(q, o.buf \o f)
      BY <2>2, <2>3, <2>6 DEF InLine
    <3> QED
      BY <2>2, <2>3, <2>4, <2>6, <3>1 DEF Parsed
  <2>7. CASE state = "headers" /\ InHeaders(req, b \o f)
    <3>1. req.cseq # 0
      <4> SUFFICES ASSUME req.cseq = 0 PROVE FALSE
        OBVIOUS
      <4>1. CSeqAhead(b \o f, req.n) /\ req.n \in Nat
        BY <2>7 DEF InHeaders, Knows, Stored
      <4>2. (b \o f)[1].t \in Text \cup {"crlf"}
        BY <4>1, AheadFacts
      <4>3. (b \o f)[1] = b[1]
        BY <1>2, Consumed
      <4> QED
        BY <1>3, <4>2, <4>3 DEF Text
    <3>2. InHeaders(q, o.buf \o f)
      BY <2>2, <2>3, <2>7, <3>1 DEF InHeaders, Knows
    <3>3. Parsed(o, f)
      BY <2>2, <2>3, <2>7, <3>1, <3>2 DEF Parsed
    <3> QED
      BY <2>2, <2>3, <2>4, <3>3
  <2> QED
    BY <2>6, <2>7
<1>4. CASE b[1].t # "frame" /\ state = "headers" /\ InHeaders(req, b \o f)
  <2>1. o = ParseHeaders(b, req)
    BY <1>4 DEF ParseRequest
  <2> QED
    BY <1>4, <2>1, HeadersKept
<1>5. CASE b[1].t # "frame" /\ state = "line" /\ InLine(req, b \o f)
  <2>1. o \in ParseLine(b, req)
    BY <1>5 DEF ParseRequest
  <2>2. CASE Crlfs(b) = {}
    <3>1. o = Outcome("wait", b, "line", req)
      BY <2>1, <2>2 DEF ParseLine
    <3> QED
      BY <1>1, <1>2, <1>5, <3>1 DEF Parsed, IsDrop
  <2>3. CASE Crlfs(b) # {}
    <3> DEFINE i == FirstCrlf(b)
               l == SubSeq(b, 1, i - 1)
               r == [req EXCEPT !.m = b[1].m, !.n = b[1].n]
    <3>1. PICK res \in LineResults(l) :
             o = IF res = "request" THEN ParseHeaders(Drop(b, i), r)
                 ELSE Outcome(IF res = "skip" THEN "wait" ELSE "close", Drop(b, i), "line", req)
      BY <2>1, <2>3 DEF ParseLine, Drop
    <3>2. i \in 1..Len(b) /\ b[i].t = "crlf" /\ i \in 0..Len(b)
      BY <2>3, CrlfPlaces
    <3> HIDE DEF i
    <3>3. \A n : LinesAfter(b \o f, n) => LinesAfter(Drop(b, i) \o f, n)
      BY <3>2, SuffixLines
    <3>4. CASE res = "request"
      <4>1. Len(l) = 1 /\ l[1].t = "line"
        BY <3>4 DEF LineResults
      <4>2. i = 2 /\ b[1].t = "line"
        BY <1>2, <3>2, <4>1
      <4>3. /\ r \in Stored /\ r.n <= N /\ InHeaders(r, Drop(b, 2) \o f)
            /\ Framed(Drop(b, 2) \o f, N) /\ Drop(b, 2) \in Seq(Token)
        BY <1>5, <3>2, <4>2, LineKept
      <4>4. o = ParseHeaders(Drop(b, 2), r)
        BY <3>1, <3>4, <4>2
      <4> HIDE DEF r
      <4>5. o.req \in Stored /\ o.req.n = r.n /\ Parsed(o, f) /\ IsDrop(o.buf, Drop(b, 2))
        BY <4>3, <4>4, HeadersKept
      <4>6. PICK d \in 0..Len(Drop(b, 2)) : o.buf = Drop(Drop(b, 2), d)
        BY <4>5 DEF IsDrop
      <4>7. 2 + d \in 0..Len(b) /\ Drop(Drop(b, 2), d) = Drop(b, 2 + d)
        BY <3>2, <4>2, SuffixOfSuffix
      <4> QED
        BY <4>3, <4>5, <4>6, <4>7 DEF IsDrop
    <3>5. CASE res # "request"
      <4>1. o.res \in {"wait", "close"} /\ o.buf = Drop(b, i) /\ o.state = "line" /\ o.req = req
        <5>1. CASE res = "skip"
          BY <1>1, <3>1, <3>5, <5>1
        <5>2. CASE res # "skip"
          BY <1>1, <3>1, <3>5, <5>2
        <5> QED
          BY <5>1, <5>2
      <4>2. InLine(req, Drop(b, i) \o f)
        BY <1>5, <3>3 DEF InLine
      <4> QED
        BY <3>2, <4>1, <4>2 DEF Parsed, IsDrop
    <3> QED
      BY <3>4, <3>5
  <2> QED
    BY <2>2, <2>3
<1> QED
  BY <1>3, <1>4, <1>5

-----------------------------------------------------------------------------
(* The read side begins with nothing read and nothing answered.            *)
LEMMA StreamInitInv == Init => StreamInv
<1> SUFFICES ASSUME Init PROVE StreamInv
  OBVIOUS
<1>1. /\ flow = <<>> /\ buf = <<>> /\ state = "line" /\ req = NoReq /\ items = <<>>
      /\ replies = <<>> /\ Len(items) = 0 /\ Len(replies) = 0
  BY DEF Init, StreamInit
<1>2. /\ flow \in Seq(Token) /\ buf \in Seq(Token) /\ replies \in Seq(Answer)
      /\ items \in Seq(DOMAIN Layout \cup {"RTCP"})
  BY <1>1
<1>3. Unread = <<>> /\ Len(Unread) = 0 /\ Unread \in Seq(Token)
  BY <1>1 DEF Unread
<1>4. ReplyMatchesRequest
  BY <1>1 DEF ReplyMatchesRequest
<1>5. Framed(Unread, Len(items))
  BY <1>1, <1>3 DEF Framed
<1>6. Parsing
  <2>1. req \in Stored /\ req.n = 0 /\ req.cseq = 0
    BY <1>1 DEF NoReq, Stored
  <2>2. InLine(req, Unread)
    BY <1>1, <2>1 DEF InLine
  <2> QED
    BY <1>1, <2>1, <2>2 DEF Parsing
<1> QED
  BY <1>2, <1>4, <1>5, <1>6 DEF StreamInv

(* Steps that leave the read side alone.                                   *)
LEMMA StreamUnchanged ==
  ASSUME StreamInv, UNCHANGED streamVars, closed => closed' PROVE StreamInv'
<1>1. UNCHANGED <<flow, buf, state, req, items, replies>> /\ Unread' = Unread
  BY DEF streamVars, Unread
<1>2. ReplyMatchesRequest'
  BY <1>1 DEF StreamInv, ReplyMatchesRequest
<1>3. Parsing => Parsing'
  BY <1>1 DEF Parsing, InLine, InHeaders
<1>4. Framed(Unread, Len(items)) => Framed(Unread, Len(items))'
  BY <1>1 DEF Framed
<1> QED
  BY <1>1, <1>2, <1>3, <1>4 DEF StreamInv

(* A message more on its way.                                              *)
LEMMA SendsInv == ASSUME StreamInv, ClientSends PROVE StreamInv'
<1> DEFINE N == Len(items)
           s == buf \o flow
<1>1. /\ ~closed /\ UNCHANGED <<buf, state, req, replies, closed>>
      /\ N \in Nat /\ N + 1 \in Nat \ {0} /\ items \in Seq(DOMAIN Layout \cup {"RTCP"})
      /\ flow \in Seq(Token) /\ buf \in Seq(Token) /\ replies \in Seq(Answer)
  BY DEF ClientSends, wqVars, StreamInv
<1>2. Framed(s, N) /\ Parsing /\ Unread = s
  BY <1>1 DEF StreamInv, Unread
<1>3. PICK u : /\ Message(u, N + 1) /\ flow' = flow \o u
               /\ \E m \in DOMAIN Layout \cup {"RTCP"} : items' = Append(items, m)
  <2>1. CASE \E m \in DOMAIN Layout : items' = Append(items, m) /\ flow' = flow \o Request(m, N + 1)
    BY <1>1, <2>1, RequestIsMessage
  <2>2. CASE items' = Append(items, "RTCP") /\ flow' = flow \o Rtcp(N + 1)
    BY <1>1, <2>2, RtcpIsMessage
  <2> QED
    BY <2>1, <2>2 DEF ClientSends
<1>4. u \in Seq(Token) /\ \A i \in 1..Len(u) : u[i].n = N + 1
  BY <1>3 DEF Message
<1>5. items' \in Seq(DOMAIN Layout \cup {"RTCP"}) /\ Len(items') = N + 1
  BY <1>1, <1>3
<1>6. flow' \in Seq(Token) /\ Unread' = s \o u
  <2>1. flow' \in Seq(Token)
    BY <1>1, <1>3, <1>4
  <2>2. Unread' = buf \o (flow \o u)
    BY <1>1, <1>3 DEF Unread
  <2>3. (buf \o flow) \o u = buf \o (flow \o u)
    BY <1>1, <1>4, ConcatAssociative
  <2> QED
    BY <2>1, <2>2, <2>3
<1> HIDE DEF s, N
<1>7. /\ Framed(s \o u, N + 1) /\ Len(s \o u) = Len(s) + Len(u) /\ Len(s) \in Nat
      /\ \A i \in 1..Len(s) : (s \o u)[i] = s[i]
      /\ \A i \in 1..Len(u) : (s \o u)[Len(s) + i] = u[i]
  BY <1>1, <1>2, <1>3, FramedAppend
<1>8. ASSUME NEW n \in Nat, n <= N, LinesAfter(s, n) PROVE LinesAfter(s \o u, n)
  <2> SUFFICES ASSUME NEW i \in 1..Len(s \o u), (s \o u)[i].t = "line" PROVE n < (s \o u)[i].n
    BY DEF LinesAfter
  <2>1. CASE i \in 1..Len(s)
    BY <1>7, <1>8, <2>1 DEF LinesAfter
  <2>2. CASE i \notin 1..Len(s)
    <3>1. i - Len(s) \in 1..Len(u) /\ Len(s) + (i - Len(s)) = i
      <4>1. Len(u) \in Nat
        BY <1>4
      <4> QED
        BY <1>7, <2>2, <4>1
    <3>2. (s \o u)[i].n = N + 1
      BY <1>4, <1>7, <3>1
    <3> QED
      BY <1>1, <1>8, <3>2
  <2> QED
    BY <2>1, <2>2
<1>9. /\ req \in Stored /\ req.n \in Nat /\ req.n <= N
      /\ \A i \in 1..Len(replies) : replies[i].n \in Nat /\ replies[i].n <= N
  <2>1. \A i \in 1..Len(replies) : replies[i] \in Answer
    BY <1>1
  <2> QED
    BY <1>2, <2>1 DEF Parsing, Stored, Answer, N
<1>10. CASE state = "line" /\ InLine(req, s)
  <2>1. InLine(req, s \o u)
    BY <1>8, <1>9, <1>10 DEF InLine
  <2>2. InLine(req, Unread)'
    BY <1>1, <1>6, <2>1 DEF InLine
  <2>3. req.n <= N + 1 /\ \A i \in 1..Len(replies) : replies[i].n <= N + 1
    BY <1>1, <1>9
  <2>4. Parsing'
    BY <1>1, <1>5, <1>9, <1>10, <2>2, <2>3 DEF Parsing
  <2> QED
    BY <1>1, <1>5, <1>6, <1>7, <2>4 DEF StreamInv, ReplyMatchesRequest
<1>11. CASE state = "headers" /\ InHeaders(req, s)
  <2>1. LinesAfter(s \o u, req.n)
    BY <1>8, <1>9, <1>11 DEF InHeaders
  <2>2. CSeqAhead(s, req.n) => CSeqAhead(s \o u, req.n)
    <3> SUFFICES ASSUME CSeqAhead(s, req.n) PROVE CSeqAhead(s \o u, req.n)
      OBVIOUS
    <3>1. ASSUME NEW i \in 1..Len(s \o u) PROVE (s \o u)[i].n >= req.n
      <4>1. CASE i \in 1..Len(s)
        BY <1>7, <4>1 DEF CSeqAhead
      <4>2. CASE i \notin 1..Len(s)
        <5>1. i - Len(s) \in 1..Len(u) /\ Len(s) + (i - Len(s)) = i
          <6>1. Len(u) \in Nat
            BY <1>4
          <6> QED
            BY <1>7, <4>2, <6>1
        <5>2. (s \o u)[i].n = N + 1
          BY <1>4, <1>7, <5>1
        <5> QED
          BY <1>1, <1>9, <5>2
      <4> QED
        BY <4>1, <4>2
    <3>2. PICK i \in 1..Len(s) : s[i].t = "cseq" /\ s[i].n = req.n
      BY DEF CSeqAhead
    <3>3. i \in 1..Len(s \o u) /\ (s \o u)[i] = s[i]
      <4>1. Len(u) \in Nat
        BY <1>4
      <4> QED
        BY <1>7, <4>1
    <3> QED
      BY <3>1, <3>2, <3>3 DEF CSeqAhead
  <2>3. InHeaders(req, s \o u)
    BY <1>11, <2>1, <2>2 DEF InHeaders, Knows
  <2>4. InHeaders(req, Unread)'
    BY <1>1, <1>6, <2>3 DEF InHeaders
  <2>5. req.n <= N + 1 /\ \A i \in 1..Len(replies) : replies[i].n <= N + 1
    BY <1>1, <1>9
  <2>6. Parsing'
    BY <1>1, <1>5, <1>9, <1>11, <2>4, <2>5 DEF Parsing
  <2> QED
    BY <1>1, <1>5, <1>6, <1>7, <2>6 DEF StreamInv, ReplyMatchesRequest
<1> QED
  BY <1>2, <1>10, <1>11 DEF Parsing

(* OnRead *)
LEMMA ReadInv ==
  ASSUME StreamInv, NEW k \in 1..Len(flow), OnRead(k) PROVE StreamInv'
<1> DEFINE b == buf \o SubSeq(flow, 1, k)
           f == SubSeq(flow, k + 1, Len(flow))
           N == Len(items)
<1>1. /\ ~closed /\ flow' = f /\ UNCHANGED items /\ N \in Nat
      /\ flow \in Seq(Token) /\ buf \in Seq(Token) /\ replies \in Seq(Answer)
      /\ items \in Seq(DOMAIN Layout \cup {"RTCP"}) /\ ReplyMatchesRequest
  BY DEF OnRead, StreamInv
<1>2. PICK p, o :
         /\ p \in ParseRequest(b) /\ o = AfterRtcp(p)
         /\ state' = o.state
         /\ buf' = IF Len(o.buf) > MaxBuf /\ o.res # "close" THEN <<>> ELSE o.buf
         /\ \/ Handle(o)
            \/ o.res = "wait" /\ req' = o.req /\ UNCHANGED <<replies, closed>>
            \/ o.res = "close" /\ closed' = TRUE /\ UNCHANGED replies
  BY DEF OnRead, wqVars
<1>3. b \in Seq(Token) /\ Len(b) > 0 /\ f \in Seq(Token) /\ b \o f = Unread
  <2>1. b \in Seq(Token) /\ Len(b) = Len(buf) + k /\ f \in Seq(Token) /\ b \o f = buf \o flow
    BY <1>1, Received, Zenon
  <2>2. Len(buf) \in Nat /\ k \in Nat /\ k > 0
    BY <1>1
  <2> HIDE DEF b, f
  <2>3. Len(b) > 0
    BY <2>1, <2>2
  <2> QED
    BY <2>1, <2>3, Zenon DEF Unread
<1>4. Framed(b \o f, N) /\ Parsing
  BY <1>1, <1>3 DEF StreamInv
<1> HIDE DEF b, f, N
<1>5. o.req \in Stored /\ o.req.n <= N /\ IsDrop(o.buf, b) /\ Parsed(o, f)
  <2>1. /\ req \in Stored /\ req.n <= N
        /\ \/ state = "line" /\ InLine(req, b \o f)
           \/ state = "headers" /\ InHeaders(req, b \o f)
    BY <1>3, <1>4 DEF Parsing, N
  <2>2. p.req \in Stored /\ p.req.n <= N /\ IsDrop(p.buf, b) /\ Parsed(p, f)
    BY <1>1, <1>2, <1>3, <1>4, <2>1, RequestParse
  <2>3. p = Outcome(p.res, p.buf, p.state, p.req)
    BY <1>2, OutcomeShape DEF IsOutcome
  <2>4. o.req = p.req /\ IsDrop(o.buf, b) /\ Parsed(o, f)
    BY <1>1, <1>2, <1>3, <1>4, <2>2, <2>3, RtcpKept
  <2> QED
    BY <2>2, <2>4
<1>6. PICK d \in 0..Len(b) : o.buf = Drop(b, d)
  BY <1>5 DEF IsDrop
<1>7. /\ o.buf \in Seq(Token) /\ Framed(o.buf \o f, N)
  <2>1. Drop(b, d) \in Seq(Token) /\ Framed(Drop(b, d) \o f, N)
    BY <1>1, <1>3, <1>4, SuffixLines
  <2> QED
    BY <1>6, <2>1
<1>8. /\ Framed(f, N) /\ <<>> \o f = f
      /\ \A n : LinesAfter(o.buf \o f, n) => LinesAfter(f, n)
  <2>1. <<>> \o f = f
    BY <1>3
  <2>2. Len(o.buf) \in 0..Len(o.buf) /\ Drop(o.buf, Len(o.buf)) = <<>>
    BY <1>7 DEF Drop
  <2> DEFINE z == Len(o.buf)
             w == o.buf
  <2>3. w \in Seq(Token) /\ z \in 0..Len(w) /\ Framed(w \o f, N)
    BY <1>7, <2>2
  <2> HIDE DEF w, z
  <2>4. /\ Framed(Drop(w, z) \o f, N)
        /\ \A n : LinesAfter(w \o f, n) => LinesAfter(Drop(w, z) \o f, n)
    BY <1>1, <1>3, <2>3, SuffixLines
  <2> QED
    BY <2>1, <2>2, <2>4 DEF w, z
<1>9. buf' \in Seq(Token) /\ flow' \in Seq(Token) /\ (Unread' = o.buf \o f \/ Unread' = f)
  <2>1. buf' = <<>> \/ buf' = o.buf
    BY <1>2
  <2> QED
    <3>1. <<>> \in Seq(Token) /\ Unread' = buf' \o f
      BY <1>1 DEF Unread
    <3>2. CASE buf' = <<>>
      BY <1>1, <1>3, <1>8, <3>1, <3>2
    <3>3. CASE buf' = o.buf
      BY <1>1, <1>3, <1>7, <3>1, <3>3
    <3> QED
      BY <2>1, <3>2, <3>3
<1>10. Framed(Unread', N) /\ \A n : LinesAfter(o.buf \o f, n) => LinesAfter(Unread', n)
  BY <1>7, <1>8, <1>9
<1>11. /\ o.req.n \in Nat /\ o.req.cseq \in Nat
       /\ \A i \in 1..Len(replies) : replies[i] \in Answer /\ replies[i].n \in Nat
                                     /\ replies[i].cseq \in Nat /\ replies[i].n <= N
  <2>1. \A i \in 1..Len(replies) : replies[i] \in Answer
    BY <1>1
  <2> QED
    BY <1>4, <1>5, <2>1 DEF Parsing, Stored, Answer, N
<1>12. CASE o.res = "close" /\ closed' = TRUE /\ UNCHANGED replies
  BY <1>1, <1>9, <1>12 DEF StreamInv, ReplyMatchesRequest
<1>13. CASE o.res = "wait" /\ req' = o.req /\ UNCHANGED <<replies, closed>>
  <2>1. CASE o.state = "line" /\ InLine(o.req, o.buf \o f)
    <3>1. InLine(req, Unread)'
      BY <1>10, <1>13, <2>1 DEF InLine
    <3>2. Parsing'
      BY <1>1, <1>2, <1>5, <1>11, <1>13, <2>1, <3>1 DEF Parsing, N
    <3> QED
      BY <1>1, <1>9, <1>10, <1>13, <3>2 DEF StreamInv, ReplyMatchesRequest, N
  <2>2. CASE /\ o.state = "headers" /\ InHeaders(o.req, o.buf \o f)
             /\ o.req.cseq = 0 => Len(o.buf) <= 1
    <3>1. o.req.cseq = 0 => Unread' = o.buf \o f
      <4> SUFFICES ASSUME o.req.cseq = 0 PROVE buf' = o.buf
        BY <1>1 DEF Unread
      <4>1. Len(o.buf) \in Nat /\ Len(o.buf) <= 1 /\ MaxBuf \in Nat \ {0}
        BY <1>7, <2>2, StreamAssumption
      <4> QED
        BY <1>2, <4>1
    <3>2. Knows(o.req, Unread')
      BY <2>2, <3>1 DEF InHeaders, Knows
    <3>3. InHeaders(req, Unread)'
      BY <1>10, <1>13, <2>2, <3>2 DEF InHeaders
    <3>4. Parsing'
      BY <1>1, <1>2, <1>5, <1>11, <1>13, <2>2, <3>3 DEF Parsing, N
    <3> QED
      BY <1>1, <1>9, <1>10, <1>13, <3>4 DEF StreamInv, ReplyMatchesRequest, N
  <2> QED
    BY <1>5, <1>13, <2>1, <2>2 DEF Parsed
<1>14. CASE Handle(o)
  <2>1. /\ o.res = "all" /\ req' = Reset(o.req) /\ closed' = closed
        /\ \/ replies' = replies
           \/ \E ok \in BOOLEAN :
                 replies' = Append(replies, [n |-> o.req.n, cseq |-> o.req.cseq, ok |-> ok])
    BY <1>14 DEF Handle, Send, wqVars
  <2>2. /\ o.state = "line" /\ InHeaders(o.req, o.buf \o f) /\ o.req.cseq = o.req.n
    BY <1>5, <2>1 DEF Parsed
  <2>3. /\ LinesAfter(Unread', o.req.n)
        /\ \A i \in 1..Len(replies) : replies[i].n < o.req.n
        /\ \A i \in 1..Len(replies) : LinesAfter(Unread', replies[i].n)
    <3>1. /\ LinesAfter(o.buf \o f, o.req.n)
          /\ \A i \in 1..Len(replies) : replies[i].n < o.req.n
      BY <2>2 DEF InHeaders
    <3>2. LinesAfter(Unread', o.req.n)
      BY <1>10, <3>1
    <3>3. \A i \in 1..Len(Unread') : Unread'[i].n \in Nat
      <4>1. \A i \in 1..Len(Unread') : Unread'[i] \in Token
        BY <1>10 DEF Framed
      <4> QED
        BY <4>1 DEF Token
    <3>4. ASSUME NEW i \in 1..Len(replies) PROVE LinesAfter(Unread', replies[i].n)
      BY <1>11, <3>1, <3>2, <3>3 DEF LinesAfter
    <3> QED
      BY <3>1, <3>2, <3>4
  <2>4. req' \in Stored /\ req'.n = o.req.n /\ req'.cseq = 0
    BY <1>5, <2>1 DEF Reset, Stored
  <2>5. /\ replies' \in Seq(Answer) /\ ReplyMatchesRequest'
        /\ \A i \in 1..Len(replies') : replies'[i].n <= N /\ LinesAfter(Unread', replies'[i].n)
    <3>1. CASE replies' = replies
      BY <1>1, <1>11, <2>3, <3>1 DEF ReplyMatchesRequest
    <3>2. ASSUME NEW ok \in BOOLEAN,
                 replies' = Append(replies, [n |-> o.req.n, cseq |-> o.req.cseq, ok |-> ok])
          PROVE  /\ replies' \in Seq(Answer) /\ ReplyMatchesRequest'
                 /\ \A i \in 1..Len(replies') : replies'[i].n <= N /\ LinesAfter(Unread', replies'[i].n)
      <4> DEFINE a == [n |-> o.req.n, cseq |-> o.req.cseq, ok |-> ok]
                 L == Len(replies)
      <4>1. a \in Answer /\ a.n = o.req.n /\ a.cseq = o.req.n
        BY <1>11, <2>2 DEF Answer
      <4> HIDE DEF a
      <4>2. /\ replies' \in Seq(Answer) /\ Len(replies') = L + 1 /\ L \in Nat
            /\ replies'[L + 1] = a /\ \A i \in 1..L : replies'[i] = replies[i]
        BY <1>1, <3>2, <4>1 DEF a
      <4> HIDE DEF L
      <4>3. ASSUME NEW i \in 1..Len(replies')
            PROVE  replies'[i].n <= N /\ LinesAfter(Unread', replies'[i].n)
        <5>1. CASE i \in 1..L
          BY <1>11, <2>3, <4>2, <5>1 DEF L
        <5>2. CASE i = L + 1
          BY <1>5, <2>3, <4>1, <4>2, <5>2
        <5> QED
          BY <4>2, <5>1, <5>2
      <4>4. ASSUME NEW i \in 1..(L + 1)
            PROVE  replies'[i].cseq = replies'[i].n /\ (i > 1 => replies'[i - 1].n < replies'[i].n)
        <5>1. CASE i \in 1..L
          <6>1. /\ i \in DOMAIN replies /\ (i > 1 => i - 1 \in 1..L)
            BY <1>1, <4>2, <5>1 DEF L
          <6> QED
            BY <1>1, <4>2, <5>1, <6>1 DEF ReplyMatchesRequest
        <5>2. CASE i = L + 1
          <6>1. i > 1 => i - 1 \in 1..L
            BY <4>2, <5>2
          <6> QED
            BY <2>3, <4>1, <4>2, <5>2, <6>1 DEF L
        <5> QED
          BY <4>2, <5>1, <5>2
      <4>5. DOMAIN replies' = 1..(L + 1)
        BY <4>2
      <4> QED
        BY <4>2, <4>3, <4>4, <4>5 DEF ReplyMatchesRequest
    <3> QED
      BY <2>1, <3>1, <3>2
  <2>6. InLine(req, Unread)'
    BY <2>4, <2>5 DEF InLine
  <2>7. Parsing'
    BY <1>1, <1>2, <1>5, <2>2, <2>4, <2>5, <2>6 DEF Parsing, N
  <2> QED
    BY <1>1, <1>9, <1>10, <2>5, <2>7 DEF StreamInv, N
<1> QED
  BY <1>2, <1>12, <1>13, <1>14

(* Closing is for good.                                                    *)
LEMMA ClosedStays == ASSUME [WqNext]_wqVars PROVE closed => closed'
BY DEF WqNext, WqStep, Writable, HandleWrite, TryLock, SendSome, SendStalls, SendFails,
       UpdateWriting, Disconnect, DisconnectLock, DisconnectPost, RunClose, HangUp, SendEvent,
       Send, wqVars

(* The steps of the composition keep the read side's invariant.            *)
LEMMA StreamNextInv == ASSUME StreamInv, IInv, ConnInv, [Next]_vars PROVE StreamInv'
<1>1. closed => closed'
  BY WriteSide, ClosedStays
<1>2. CASE UNCHANGED streamVars
  BY <1>1, <1>2, StreamUnchanged
<1>3. CASE ClientSends
  BY <1>3, SendsInv
<1>4. CASE \E k \in 1..Len(flow) : OnRead(k)
  <2>1. PICK k \in 1..Len(flow) : OnRead(k)
    BY <1>4
  <2> QED
    BY <2>1, ReadInv
<1> QED
  BY <1>2, <1>3, <1>4 DEF Next, vars, StreamNext, SendRtp

(* The invariant holds in every reachable state.                           *)
LEMMA StreamInvariance == Spec => []StreamInv
BY StreamNextInv, StreamInitInv, ConnInvariance, PTL DEF Spec

(* Whatever the pieces in which recv returns them, every request is        *)
(* answered with its own CSeq, once, and in order.                         *)
THEOREM RepliesMatch == Spec => []ReplyMatchesRequest
<1>1. StreamInv => ReplyMatchesRequest
  BY DEF StreamInv
<1> QED
  BY <1>1, StreamInvariance, PTL

-----------------------------------------------------------------------------
(* Whole messages *)

MessageOf(m, n) == IF m = "RTCP" THEN Rtcp(n) ELSE Request(m, n)

(* Token i is the first one of its message.                                *)
Starts(s, i) == i = 1 \/ s[i - 1].n # s[i].n

(* From token i on, s is u and then another message.                       *)
WholeAt(s, i, u) ==
    /\ i - 1 + Len(u) <= Len(s)
    /\ \A k \in 1..Len(u) : s[i - 1 + k] = u[k]
    /\ i - 1 + Len(u) = Len(s) \/ s[i + Len(u)].n # s[i].n

(* s is all of the messages after the first c.                             *)
Waiting(s, its, c) ==
    /\ \A i \in 1..Len(s) : s[i].n \in (c + 1)..Len(its)
    /\ \A n \in (c + 1)..Len(its) : \E i \in 1..Len(s) : s[i].n = n
    /\ \A i \in 1..Len(s) : Starts(s, i) => WholeAt(s, i, MessageOf(its[s[i].n], s[i].n))

(* When the message after the first c comes, the RtpConnection is there.   *)
Described(c, accepted) ==
    first # "new" \/ \E j \in accepted : j <= c /\ items[j] = "DESCRIBE"

(* No request has been let through with credentials.                       *)
NoneThrough(accepted) == first = "new" /\ \A j \in accepted : items[j] \notin Protected

(* The replies to the first c messages.                                    *)
Answering(c, accepted, rejected) ==
    /\ accepted \subseteq DueOf(c, accepted) /\ rejected \subseteq 1..c
    /\ DueOf(c, accepted) \subseteq accepted \cup rejected
    /\ \A i \in rejected :
          /\ items[i] \in Protected /\ first = "new"
          /\ \A j \in accepted : items[j] \in Protected => i < j
    /\ sess # "new" <=> Described(c, accepted)
    /\ auth # "ok" => NoneThrough(accepted)

AlignedAt(c) ==
    /\ Waiting(flow, items, c)
    /\ buf = <<>> /\ state = "line"
    /\ Answering(c, Replied(TRUE), Replied(FALSE))

(* AlignedAnswered, made inductive.                                        *)
AlignedInv == aligned \in BOOLEAN /\ (aligned => \E c \in 0..Len(items) : AlignedAt(c))

(* Every message has tokens, which are its own.                            *)
LEMMA MessageTokens ==
  ASSUME NEW m \in DOMAIN Layout \cup {"RTCP"}, NEW n \in Nat \ {0}
  PROVE  /\ MessageOf(m, n) \in Seq(Token)
         /\ Len(MessageOf(m, n)) \in Nat \ {0}
         /\ \A k \in 1..Len(MessageOf(m, n)) : MessageOf(m, n)[k].n = n
<1>1. CASE m = "RTCP"
  <2>1. MessageOf(m, n) = Rtcp(n) /\ Message(Rtcp(n), n)
    BY <1>1, RtcpIsMessage DEF MessageOf
  <2>2. Len(Rtcp(n)) = 3
    BY DEF Rtcp
  <2> QED
    BY <2>1, <2>2 DEF Message
<1>2. CASE m # "RTCP"
  <2>1. m \in DOMAIN Layout /\ MessageOf(m, n) = Request(m, n)
    BY <1>2 DEF MessageOf
  <2>2. Len(Layout[m]) \in Nat /\ Len(Request(m, n)) = 2 * Len(Layout[m]) + 3
    BY <2>1, RequestTokens
  <2>3. Len(Request(m, n)) \in Nat \ {0}
    BY <2>2
  <2>4. Message(Request(m, n), n)
    BY <2>1, RequestIsMessage
  <2> QED
    BY <2>1, <2>3, <2>4 DEF Message
<1> QED
  BY <1>1, <1>2

(* The client sends a message more.                                        *)
LEMMA WaitingAppend ==
  ASSUME NEW s \in Seq(Token), NEW its \in Seq(DOMAIN Layout \cup {"RTCP"}),
         NEW c \in 0..Len(its), Waiting(s, its, c), NEW m \in DOMAIN Layout \cup {"RTCP"}
  PROVE  Waiting(s \o MessageOf(m, Len(its) + 1), Append(its, m), c)
<1> DEFINE N == Len(its)
           u == MessageOf(m, N + 1)
           v == s \o u
           jts == Append(its, m)
<1>1. /\ N \in Nat /\ N + 1 \in Nat \ {0} /\ Len(jts) = N + 1 /\ jts[N + 1] = m
      /\ \A n \in 1..N : jts[n] = its[n]
  OBVIOUS
<1>2. u \in Seq(Token) /\ Len(u) \in Nat \ {0} /\ \A k \in 1..Len(u) : u[k].n = N + 1
  BY <1>1, MessageTokens
<1> HIDE DEF u
<1>3. /\ Len(v) = Len(s) + Len(u) /\ Len(s) \in Nat
      /\ \A i \in 1..(Len(s) + Len(u)) : v[i] = IF i <= Len(s) THEN s[i] ELSE u[i - Len(s)]
  BY <1>2, ConcatProperties
<1> DEFINE S == Len(s)
           U == Len(u)
<1>4. /\ \A i \in 1..S : i \in 1..Len(v) /\ v[i] = s[i]
      /\ \A k \in 1..U : S + k \in 1..Len(v) /\ v[S + k] = u[k]
      /\ \A i \in 1..Len(v) : i \in 1..S \/ i = S + 1 \/ (i - 1 \in (S + 1)..(S + U - 1))
      /\ \A i \in 1..Len(v) : i \notin 1..S => i - S \in 1..U
  BY <1>2, <1>3
<1> HIDE DEF v, N, jts
<1>5. /\ \A i \in 1..S : s[i].n \in (c + 1)..N
      /\ \A n \in (c + 1)..N : \E i \in 1..S : s[i].n = n
      /\ \A i \in 1..S : Starts(s, i) => WholeAt(s, i, MessageOf(its[s[i].n], s[i].n))
  BY DEF Waiting, N
<1>6. ASSUME NEW i \in (S + 1)..(S + U) PROVE v[i].n = N + 1
  <2>1. i - S \in 1..U /\ S + (i - S) = i
    BY <1>2, <1>3
  <2> QED
    BY <1>2, <1>4, <2>1
<1>7. \A i \in 1..Len(v) : v[i].n \in (c + 1)..(N + 1)
  <2> TAKE i \in 1..Len(v)
  <2>1. CASE i \in 1..S
    BY <1>1, <1>4, <1>5, <2>1
  <2>2. CASE i \in (S + 1)..(S + U)
    BY <1>1, <1>6, <2>2 DEF N
  <2> QED
    BY <1>2, <1>3, <2>1, <2>2
<1>8. \A n \in (c + 1)..(N + 1) : \E i \in 1..Len(v) : v[i].n = n
  <2> TAKE n \in (c + 1)..(N + 1)
  <2>1. CASE n \in (c + 1)..N
    BY <1>4, <1>5, <2>1
  <2>2. CASE n = N + 1
    <3>1. S + 1 \in (S + 1)..(S + U) /\ S + 1 \in 1..Len(v)
      BY <1>2, <1>3
    <3> QED
      BY <1>6, <2>2, <3>1
  <2> QED
    BY <1>1, <2>1, <2>2
<1>9. ASSUME NEW i \in 1..Len(v), Starts(v, i)
      PROVE  WholeAt(v, i, MessageOf(jts[v[i].n], v[i].n))
  <2>1. CASE i \in 1..S
    <3> DEFINE n == s[i].n
               w == MessageOf(its[n], n)
    <3>1. n \in (c + 1)..N /\ v[i] = s[i] /\ jts[n] = its[n] /\ n \in 1..N
      <4>1. n \in (c + 1)..N
        BY <1>5, <2>1
      <4>2. n \in 1..N
        BY <1>1, <4>1 DEF N
      <4> QED
        BY <1>1, <1>4, <2>1, <4>1, <4>2
    <3>2. Starts(s, i)
      <4>1. i # 1 => i - 1 \in 1..S
        BY <1>3, <2>1
      <4> QED
        BY <1>4, <1>9, <2>1, <4>1 DEF Starts
    <3>3. WholeAt(s, i, w)
      BY <1>5, <2>1, <3>2
    <3>4. its[n] \in DOMAIN Layout \cup {"RTCP"} /\ n \in Nat \ {0}
      BY <1>1, <3>1 DEF N
    <3>5. Len(w) \in Nat \ {0}
      BY <3>4, MessageTokens
    <3> HIDE DEF w
    <3>6. /\ i - 1 + Len(w) <= S /\ \A k \in 1..Len(w) : s[i - 1 + k] = w[k]
          /\ i - 1 + Len(w) = S \/ s[i + Len(w)].n # n
      BY <3>3 DEF WholeAt
    <3>7. \A k \in 1..Len(w) : v[i - 1 + k] = w[k]
      <4> TAKE k \in 1..Len(w)
      <4>1. i - 1 + k \in 1..S
        BY <1>3, <2>1, <3>5, <3>6
      <4> QED
        BY <1>4, <3>6, <4>1
    <3>8. i - 1 + Len(w) <= Len(v)
      BY <1>2, <1>3, <2>1, <3>5, <3>6
    <3>9. v[i + Len(w)].n # n
      <4>1. CASE i - 1 + Len(w) = S
        <5>1. i + Len(w) \in (S + 1)..(S + U)
          BY <1>2, <1>3, <2>1, <3>5, <4>1
        <5>2. v[i + Len(w)].n = N + 1
          BY <1>6, <5>1
        <5> QED
          BY <1>1, <3>1, <5>2
      <4>2. CASE i - 1 + Len(w) # S
        <5>1. i + Len(w) \in 1..S
          <6>1. i \in Nat \ {0} /\ S \in Nat /\ i - 1 + Len(w) <= S
            BY <1>3, <2>1, <3>6
          <6> QED
            BY <3>5, <4>2, <6>1
        <5> QED
          BY <1>4, <3>6, <4>2, <5>1
      <4> QED
        BY <4>1, <4>2
    <3>10. WholeAt(v, i, w)
      BY <3>1, <3>7, <3>8, <3>9 DEF WholeAt
    <3> QED
      BY <3>1, <3>10 DEF w
  <2>2. CASE i = S + 1
    <3>1. v[i].n = N + 1
      <4>1. i \in (S + 1)..(S + U)
        BY <1>2, <1>3, <2>2
      <4> QED
        BY <1>6, <4>1
    <3>2. MessageOf(jts[v[i].n], v[i].n) = u
      BY <1>1, <3>1 DEF u
    <3>3. i - 1 + Len(u) = Len(v) /\ \A k \in 1..Len(u) : v[i - 1 + k] = u[k]
      <4>1. i - 1 = S
        BY <1>3, <2>2
      <4> QED
        BY <1>3, <1>4, <4>1
    <3>4. i - 1 + Len(u) <= Len(v)
      BY <1>2, <1>3, <3>3
    <3>5. WholeAt(v, i, u)
      BY <3>3, <3>4 DEF WholeAt
    <3> QED
      BY <3>2, <3>5
  <2>3. CASE i - 1 \in (S + 1)..(S + U - 1)
    <3>1. /\ i \in (S + 1)..(S + U) /\ i - 1 \in (S + 1)..(S + U) /\ i # 1
      BY <1>2, <1>3, <2>3
    <3>2. v[i].n = N + 1 /\ v[i - 1].n = N + 1
      BY <1>6, <3>1
    <3> QED
      BY <1>9, <3>1, <3>2 DEF Starts
  <2> QED
    BY <1>4, <2>1, <2>2, <2>3
<1> QED
  BY <1>1, <1>7, <1>8, <1>9 DEF Waiting, v, u, jts, N

(* A recv that returns one whole message returns the next one, and leaves  *)
(* the others.                                                             *)
LEMMA WaitingDrop ==
  ASSUME NEW s \in Seq(Token), NEW its \in Seq(DOMAIN Layout \cup {"RTCP"}),
         NEW c \in 0..Len(its), Waiting(s, its, c), Framed(s, Len(its)),
         NEW k \in 1..Len(s), \A i \in 1..k : s[i].n = s[1].n,
         k = Len(s) \/ s[k + 1].n # s[1].n
  PROVE  /\ c + 1 \in 1..Len(its)
         /\ SubSeq(s, 1, k) = MessageOf(its[c + 1], c + 1)
         /\ Waiting(SubSeq(s, k + 1, Len(s)), its, c + 1)
<1> DEFINE N == Len(its)
           S == Len(s)
           f == SubSeq(s, k + 1, S)
           w == MessageOf(its[c + 1], c + 1)
<1>1. /\ \A i \in 1..S : s[i].n \in (c + 1)..N
      /\ \A n \in (c + 1)..N : \E i \in 1..S : s[i].n = n
      /\ \A i \in 1..S : Starts(s, i) => WholeAt(s, i, MessageOf(its[s[i].n], s[i].n))
  BY DEF Waiting
<1>2. \A i, j \in 1..S : i < j => s[i].n <= s[j].n
  BY DEF Framed
<1>3. S \in Nat /\ N \in Nat /\ k \in 1..S /\ 1 \in 1..S /\ c \in Nat
  OBVIOUS
<1> HIDE DEF N, S
<1>4. s[1].n = c + 1 /\ c + 1 \in 1..N
  <2>1. s[1].n \in (c + 1)..N
    BY <1>1, <1>3
  <2>2. c + 1 \in (c + 1)..N /\ c + 1 \in 1..N
    BY <1>3, <2>1
  <2>3. PICK i \in 1..S : s[i].n = c + 1
    BY <1>1, <2>2
  <2>4. s[1].n <= s[i].n
    <3>1. i = 1 \/ 1 < i
      BY <1>3
    <3> QED
      BY <1>2, <1>3, <2>1, <2>3, <3>1
  <2> QED
    BY <1>3, <2>1, <2>2, <2>3, <2>4
<1>5. Len(w) \in Nat \ {0} /\ w \in Seq(Token) /\ \A j \in 1..Len(w) : w[j].n = c + 1
  <2>1. its[c + 1] \in DOMAIN Layout \cup {"RTCP"} /\ c + 1 \in Nat \ {0}
    BY <1>4 DEF N
  <2> QED
    BY <2>1, MessageTokens
<1>6. WholeAt(s, 1, w)
  BY <1>1, <1>3, <1>4 DEF Starts
<1> HIDE DEF w
<1>7. /\ Len(w) <= S /\ \A j \in 1..Len(w) : s[j] = w[j]
      /\ Len(w) = S \/ s[1 + Len(w)].n # s[1].n
  <2>1. /\ 1 - 1 + Len(w) <= S /\ \A j \in 1..Len(w) : s[1 - 1 + j] = w[j]
        /\ 1 - 1 + Len(w) = S \/ s[1 + Len(w)].n # s[1].n
    BY <1>6 DEF WholeAt, S
  <2>2. \A j \in 1..Len(w) : 1 - 1 + j = j
    BY <1>5
  <2>3. 1 - 1 + Len(w) = Len(w)
    BY <1>5
  <2> QED
    BY <2>1, <2>2, <2>3
<1>8. k = Len(w)
  <2>1. CASE k < Len(w)
    <3>1. k + 1 \in 1..Len(w) /\ k # S
      BY <1>3, <1>5, <1>7, <2>1
    <3>2. s[k + 1].n = s[1].n
      BY <1>4, <1>5, <1>7, <3>1
    <3> QED
      BY <3>1, <3>2 DEF S
  <2>2. CASE k > Len(w)
    <3>1. 1 + Len(w) \in 1..k /\ Len(w) # S
      BY <1>3, <1>5, <2>2
    <3> QED
      BY <1>7, <3>1
  <2> QED
    BY <1>3, <1>5, <2>1, <2>2
<1>9. SubSeq(s, 1, k) = w
  <2> DEFINE p == SubSeq(s, 1, k)
  <2>1. p \in Seq(Token) /\ Len(p) = k /\ \A j \in 1..k : p[j] = s[j]
    BY <1>3 DEF S
  <2> HIDE DEF p
  <2>2. \A j \in 1..k : p[j] = w[j]
    BY <1>7, <1>8, <2>1
  <2> QED
    BY <1>5, <1>8, <2>1, <2>2, SeqEqual DEF p
<1>10. /\ f \in Seq(Token) /\ Len(f) = S - k
       /\ \A i \in 1..(S - k) : f[i] = s[k + i] /\ k + i \in 1..S
  BY <1>3 DEF S
<1> HIDE DEF f
<1>11. ASSUME NEW i \in 1..(S - k) PROVE s[k + i].n \in (c + 2)..N
  <2>1. k + 1 \in 1..S /\ k + i \in 1..S /\ k # S /\ i \in Nat \ {0}
    BY <1>3
  <2>2. s[k + 1].n # c + 1 /\ s[k + 1].n \in (c + 1)..N /\ s[k + i].n \in (c + 1)..N
    BY <1>1, <1>4, <2>1 DEF S
  <2>3. s[k + 1].n <= s[k + i].n
    <3>1. i = 1 \/ k + 1 < k + i
      BY <1>3, <2>1
    <3> QED
      BY <1>2, <1>3, <2>1, <2>2, <3>1
  <2> QED
    BY <1>3, <2>2, <2>3
<1>12. \A i \in 1..Len(f) : f[i].n \in (c + 1 + 1)..N
  <2> TAKE i \in 1..Len(f)
  <2>1. f[i].n \in (c + 2)..N
    BY <1>10, <1>11
  <2>2. c + 2 = c + 1 + 1
    BY <1>3
  <2> QED
    BY <2>1, <2>2
<1>13. \A n \in (c + 1 + 1)..N : \E i \in 1..Len(f) : f[i].n = n
  <2> TAKE n \in (c + 1 + 1)..N
  <2>1. n \in (c + 1)..N /\ n # c + 1
    BY <1>3
  <2>2. PICK i \in 1..S : s[i].n = n
    BY <1>1, <2>1
  <2>3. i \notin 1..k
    BY <1>4, <2>1, <2>2
  <2>4. i - k \in 1..(S - k) /\ k + (i - k) = i
    BY <1>3, <2>3
  <2> QED
    BY <1>10, <2>2, <2>4
<1>14. ASSUME NEW i \in 1..Len(f), Starts(f, i)
       PROVE  WholeAt(f, i, MessageOf(its[f[i].n], f[i].n))
  <2> DEFINE j == k + i
             n == s[j].n
             u == MessageOf(its[n], n)
  <2>1. /\ j \in 1..S /\ f[i] = s[j] /\ n \in (c + 2)..N /\ i \in 1..(S - k) /\ i \in Nat
    BY <1>10, <1>11
  <2>2. Starts(s, j)
    <3>1. CASE i = 1
      <4>1. j - 1 = k /\ k \in 1..k
        BY <1>3, <3>1
      <4>2. s[k].n = c + 1
        BY <1>4, <4>1
      <4>3. n # c + 1
        <5>1. n \in Int /\ n >= c + 2
          BY <1>3, <2>1
        <5> QED
          BY <1>3, <5>1
      <4> QED
        BY <4>1, <4>2, <4>3 DEF Starts
    <3>2. CASE i # 1
      <4>1. i - 1 \in 1..(S - k) /\ j - 1 = k + (i - 1)
        <5>1. k \in Nat /\ S \in Nat /\ i \in 1..(S - k)
          BY <1>3, <2>1
        <5> QED
          BY <3>2, <5>1
      <4>2. f[i - 1] = s[j - 1]
        BY <1>10, <4>1
      <4>3. f[i - 1].n # f[i].n
        BY <1>14, <3>2 DEF Starts
      <4> QED
        BY <2>1, <4>2, <4>3 DEF Starts
    <3> QED
      BY <3>1, <3>2
  <2>3. WholeAt(s, j, u)
    BY <1>1, <2>1, <2>2
  <2>4. Len(u) \in Nat \ {0}
    <3>1. n \in 1..N
      BY <1>3, <2>1
    <3>2. its[n] \in DOMAIN Layout \cup {"RTCP"} /\ n \in Nat \ {0}
      BY <3>1 DEF N
    <3> QED
      BY <3>2, MessageTokens
  <2> HIDE DEF u
  <2>5. /\ j - 1 + Len(u) <= S /\ \A h \in 1..Len(u) : s[j - 1 + h] = u[h]
        /\ j - 1 + Len(u) = S \/ s[j + Len(u)].n # n
    BY <2>3 DEF WholeAt, S
  <2>6. i - 1 + Len(u) <= Len(f)
    BY <1>3, <1>10, <2>1, <2>4, <2>5
  <2>7. \A h \in 1..Len(u) : f[i - 1 + h] = u[h]
    <3> TAKE h \in 1..Len(u)
    <3>1. i - 1 + h \in 1..(S - k) /\ k + (i - 1 + h) = j - 1 + h
      BY <1>3, <1>10, <2>1, <2>4, <2>6
    <3> QED
      BY <1>10, <2>5, <3>1
  <2>8. i - 1 + Len(u) = Len(f) \/ f[i + Len(u)].n # f[i].n
    <3>1. CASE j - 1 + Len(u) = S
      BY <1>3, <1>10, <2>1, <2>4, <3>1
    <3>2. CASE j - 1 + Len(u) # S
      <4>1. i + Len(u) \in 1..(S - k) /\ k + (i + Len(u)) = j + Len(u)
        <5>1. j - 1 + Len(u) <= S /\ k \in Nat /\ j = k + i /\ i \in Nat \ {0} /\ S \in Nat
          BY <1>3, <2>1, <2>5
        <5> HIDE DEF j
        <5> QED
          BY <2>4, <3>2, <5>1
      <4>2. f[i + Len(u)] = s[j + Len(u)]
        BY <1>10, <4>1
      <4> QED
        BY <2>1, <2>5, <3>2, <4>2
    <3> QED
      BY <3>1, <3>2
  <2>9. WholeAt(f, i, u)
    BY <2>6, <2>7, <2>8 DEF WholeAt
  <2> QED
    BY <2>1, <2>9 DEF u
<1>15. Waiting(f, its, c + 1)
  BY <1>12, <1>13, <1>14 DEF Waiting, N
<1> QED
  BY <1>4, <1>9, <1>15 DEF f, w, N, S

(* What HandleRtcp makes of a whole packet.                                *)
LEMMA ParseRtcp ==
  ASSUME NEW n \in Nat \ {0}, NEW p \in ParseRequest(Rtcp(n)), state = "line", req \in Stored
  PROVE  AfterRtcp(p).res = "wait" /\ AfterRtcp(p).buf = <<>> /\ AfterRtcp(p).state = "line"
<1>1. Rtcp(n)[1].t = "frame" /\ Len(Rtcp(n)) = 3
  BY DEF Rtcp, Tok
<1>2. HandleRtcp(Rtcp(n)) = <<>>
  BY <1>1 DEF HandleRtcp, FrameLen
<1> DEFINE q == [m |-> "RTCP", n |-> req.n, cseq |-> req.cseq]
<1>3. p = Outcome("wait", Rtcp(n), "line", [req EXCEPT !.m = "RTCP"])
  BY <1>1 DEF ParseRequest
<1>4. p = Outcome("wait", Rtcp(n), "line", q)
  BY <1>3 DEF Stored
<1>5. AfterRtcp(p) = [p EXCEPT !.buf = <<>>]
  BY <1>2, <1>4 DEF AfterRtcp, Outcome
<1> QED
  BY <1>4, <1>5 DEF Outcome

(* The headers of a whole request: all of them, and nothing is left.       *)
LEMMA HeadersOfRequest ==
  ASSUME NEW m \in DOMAIN Layout, NEW n \in Nat \ {0}, NEW r \in Stored,
         r.m = m, r.n = n, r.cseq = 0
  PROVE  LET o == ParseHeaders(SubSeq(Request(m, n), 3, Len(Request(m, n))), r)
         IN  o.res = "all" /\ o.buf = <<>> /\ o.state = "line" /\ o.req.m = m /\ o.req.n = n
<1> DEFINE u == Request(m, n)
           L == Len(Layout[m])
           b == SubSeq(u, 3, Len(u))
           block == SubSeq(b, 1, Len(b) - 1)
<1>1. /\ Layout[m] \in Seq({"cseq", "need", "agent"}) /\ L \in Nat
      /\ u \in Seq(Token) /\ Len(u) = 2 * L + 3
      /\ u[2 * L + 3] = Tok("crlf", m, n)
      /\ \A i \in 1..L : u[2 * i + 1] = Tok(Layout[m][i], m, n)
  BY RequestTokens
<1>2. \A k \in 1..Len(u) : u[k].n = n
  BY RequestIsMessage DEF Message
<1> HIDE DEF u
<1>3. /\ b \in Seq(Token) /\ Len(b) = 2 * L + 1 /\ DOMAIN b = 1..(2 * L + 1)
      /\ \A k \in 1..(2 * L + 1) : b[k] = u[k + 2] /\ k + 2 \in 1..Len(u)
  <2>1. b \in Seq(Token) /\ Len(b) = 2 * L + 1
    BY <1>1
  <2>2. \A k \in 1..(2 * L + 1) : b[k] = u[k + 2] /\ k + 2 \in 1..Len(u)
    BY <1>1
  <2> HIDE DEF b
  <2> QED
    BY <2>1, <2>2
<1> HIDE DEF b, L
<1>4. b[2 * L + 1].t = "crlf"
  <2>1. 2 * L + 1 \in 1..(2 * L + 1) /\ 2 * L + 1 + 2 = 2 * L + 3
    BY <1>1
  <2>2. Tok("crlf", m, n).t = "crlf"
    BY DEF Tok
  <2> QED
    BY <1>1, <1>3, <2>1, <2>2
<1>5. LastCrlf(b) = Len(b) /\ Crlfs(b) # {}
  <2>1. Len(b) \in Crlfs(b)
    BY <1>1, <1>3, <1>4 DEF Crlfs
  <2>2. \A j \in Crlfs(b) : j \in 1..Len(b)
    BY <1>3 DEF Crlfs
  <2>3. \A i \in Crlfs(b) : (\A j \in Crlfs(b) : i >= j) <=> i = Len(b)
    BY <1>1, <1>3, <2>1, <2>2
  <2>4. LastCrlf(b) = CHOOSE i \in Crlfs(b) : i = Len(b)
    BY <2>3 DEF LastCrlf
  <2> QED
    BY <2>1, <2>4
<1>6. /\ block \in Seq(Token) /\ Len(block) = 2 * L /\ DOMAIN block = 1..(2 * L)
      /\ \A k \in 1..(2 * L) : block[k] = b[k]
  <2>1. block \in Seq(Token) /\ Len(block) = 2 * L
    BY <1>1, <1>3
  <2>2. \A k \in 1..(2 * L) : block[k] = b[k]
    BY <1>1, <1>3
  <2> HIDE DEF block
  <2> QED
    BY <2>1, <2>2
<1>7. SubSeq(b, Len(b) + 1, Len(b)) = <<>>
  BY <1>1, <1>3
<1> HIDE DEF block
<1>8. \A k \in DOMAIN block : block[k].n = n
  BY <1>2, <1>3, <1>6, <1>1
<1>9. ASSUME NEW i \in 1..L
      PROVE  /\ 2 * i - 1 \in DOMAIN block
             /\ block[2 * i - 1].t = Layout[m][i] /\ block[2 * i - 1].m = m
  <2>1. 2 * i - 1 \in 1..(2 * L) /\ 2 * i - 1 \in 1..(2 * L + 1) /\ 2 * i - 1 + 2 = 2 * i + 1
    BY <1>1
  <2>2. block[2 * i - 1] = Tok(Layout[m][i], m, n)
    BY <1>1, <1>3, <1>6, <2>1
  <2> QED
    BY <1>6, <2>1, <2>2 DEF Tok
<1>10. CSeqOf(r, block) = n
  <2> DEFINE found == {i \in DOMAIN block : block[i].t = "cseq"}
             least == CHOOSE i \in found : \A j \in found : i <= j
  <2>1. PICK i \in DOMAIN Layout[m] : Layout[m][i] = "cseq"
    BY StreamAssumption
  <2>2. i \in 1..L
    BY <1>1, <2>1 DEF L
  <2>3. found # {} /\ found \subseteq Nat
    <3>1. 2 * i - 1 \in DOMAIN block /\ block[2 * i - 1].t = "cseq"
      BY <1>9, <2>1, <2>2
    <3>2. DOMAIN block \subseteq Nat
      BY <1>1, <1>6
    <3> QED
      BY <3>1, <3>2
  <2>4. least \in found
    <3>1. \E x \in found : \A j \in found : x <= j
      BY <2>3, LeastNatural
    <3> QED
      BY <3>1
  <2>5. CSeqOf(r, block) = block[least].n
    BY <2>3 DEF CSeqOf
  <2>6. least \in DOMAIN block
    BY <2>4
  <2> HIDE DEF least
  <2> QED
    BY <1>8, <2>5, <2>6
<1> DEFINE q == [r EXCEPT !.cseq = CSeqOf(r, block)]
<1>11. q.m = m /\ q.n = n /\ q.cseq = n
  BY <1>10 DEF Stored
<1> HIDE DEF q
<1>12. Complete(q, block)
  <2>1. CASE m \in NeedsNothing
    BY <1>11, <2>1 DEF Complete
  <2>2. CASE m \notin NeedsNothing
    <3>1. PICK i \in DOMAIN Layout[m] : Layout[m][i] = "need"
      BY <2>2, StreamAssumption
    <3>2. i \in 1..L
      BY <1>1, <3>1 DEF L
    <3> QED
      BY <1>9, <1>11, <3>1, <3>2 DEF Complete
  <2> QED
    BY <2>1, <2>2
<1>13. ParseHeaders(b, r) = Outcome("all", <<>>, "line", q)
  <2>1. q.cseq # 0
    BY <1>11
  <2> QED
    BY <1>5, <1>7, <1>12, <2>1 DEF ParseHeaders, q, block
<1> QED
  BY <1>11, <1>13 DEF b, u, Outcome

(* What ParseRequest makes of a whole request.                             *)
LEMMA ParseWhole ==
  ASSUME NEW m \in DOMAIN Layout, NEW n \in Nat \ {0}, NEW o \in ParseRequest(Request(m, n)),
         state = "line", req \in Stored, req.cseq = 0
  PROVE  /\ o.res = "all" /\ o.buf = <<>> /\ o.state = "line" /\ o.req.m = m /\ o.req.n = n
         /\ AfterRtcp(o) = o
<1> DEFINE u == Request(m, n)
           L == Len(Layout[m])
           r == [req EXCEPT !.m = u[1].m, !.n = u[1].n]
<1>1. /\ L \in Nat /\ u \in Seq(Token) /\ Len(u) = 2 * L + 3
      /\ u[1] = Tok("line", m, n)
      /\ \A i \in 1..(L + 1) : u[2 * i] = Tok("crlf", m, n)
  BY RequestTokens
<1> HIDE DEF u, L
<1>2. /\ u[1].t = "line" /\ u[1].m = m /\ u[1].n = n /\ u[2].t = "crlf"
      /\ 1 \in DOMAIN u /\ 2 \in DOMAIN u
  <2>1. 1 \in 1..(L + 1) /\ 2 * 1 = 2 /\ 1 \in 1..Len(u) /\ 2 \in 1..Len(u)
    BY <1>1
  <2>2. u[2] = Tok("crlf", m, n) /\ DOMAIN u = 1..Len(u)
    BY <1>1, <2>1
  <2> QED
    BY <1>1, <2>1, <2>2 DEF Tok
<1>3. FirstCrlf(u) = 2 /\ Crlfs(u) # {}
  <2>1. 2 \in Crlfs(u)
    BY <1>2 DEF Crlfs
  <2>2. \A j \in Crlfs(u) : j \in Nat /\ j >= 2
    <3> TAKE j \in Crlfs(u)
    <3>1. j \in 1..Len(u) /\ u[j].t = "crlf"
      BY <1>1 DEF Crlfs
    <3>2. j # 1
      BY <1>2, <3>1
    <3> QED
      BY <3>1, <3>2
  <2>3. \A i \in Crlfs(u) : (\A j \in Crlfs(u) : i <= j) <=> i = 2
    BY <2>1, <2>2
  <2>4. FirstCrlf(u) = CHOOSE i \in Crlfs(u) : i = 2
    BY <2>3 DEF FirstCrlf
  <2> QED
    BY <2>1, <2>4
<1>4. LineResults(SubSeq(u, 1, 2 - 1)) = {"request"}
  <2>1. Len(SubSeq(u, 1, 2 - 1)) = 1 /\ SubSeq(u, 1, 2 - 1)[1] = u[1]
    BY <1>1
  <2> QED
    BY <1>2, <2>1 DEF LineResults
<1>5. ParseRequest(u) = ParseLine(u, req)
  BY <1>2 DEF ParseRequest
<1>6. ParseLine(u, req) = {ParseHeaders(SubSeq(u, 3, Len(u)), r)}
  <2>1. 2 + 1 = 3
    OBVIOUS
  <2> QED
    BY <1>3, <1>4, <2>1 DEF ParseLine
<1>7. r \in Stored /\ r.m = m /\ r.n = n /\ r.cseq = 0
  BY <1>2 DEF Stored
<1> HIDE DEF r
<1>8. o = ParseHeaders(SubSeq(u, 3, Len(u)), r)
  BY <1>5, <1>6 DEF u
<1>9. o.res = "all" /\ o.buf = <<>> /\ o.state = "line" /\ o.req.m = m /\ o.req.n = n
  BY <1>7, <1>8, HeadersOfRequest DEF u
<1>10. AfterRtcp(o) = o
  BY <1>9 DEF AfterRtcp
<1> QED
  BY <1>9, <1>10

(* A further message that comes, and is accepted or not.                   *)
LEMMA DueStep ==
  ASSUME NEW c \in Nat, NEW A \in SUBSET (1..c), NEW B \in SUBSET {c + 1}
  PROVE  /\ Described(c + 1, A \cup B) <=> Described(c, A) \/ (B # {} /\ items[c + 1] = "DESCRIBE")
         /\ DueOf(c + 1, A \cup B) = DueOf(c, A) \cup
              {i \in {c + 1} : items[i] \in Always \/ (items[i] # "RTCP" /\ Described(c, A))}
<1>1. /\ 1..(c + 1) = 1..c \cup {c + 1}
      /\ \A j \in A : j \in Nat /\ j <= c /\ j <= c + 1 /\ j < c + 1
      /\ \A j \in B : j = c + 1
      /\ \A i \in 1..c : ~(c + 1 < i)
      /\ c + 1 <= c + 1 /\ ~(c + 1 < c + 1)
  OBVIOUS
<1>2. Described(c + 1, A \cup B) <=> Described(c, A) \/ (B # {} /\ items[c + 1] = "DESCRIBE")
  BY <1>1 DEF Described
<1> DEFINE D(i, S) == first # "new" \/ (\E j \in S : j < i /\ items[j] = "DESCRIBE")
<1>3. \A i \in 1..c : D(i, A \cup B) <=> D(i, A)
  BY <1>1
<1>4. D(c + 1, A \cup B) <=> Described(c, A)
  BY <1>1 DEF Described
<1>5. /\ DueOf(c + 1, A \cup B) = {i \in 1..(c + 1) : items[i] \in Always \/ (items[i] # "RTCP" /\ D(i, A \cup B))}
      /\ DueOf(c, A) = {i \in 1..c : items[i] \in Always \/ (items[i] # "RTCP" /\ D(i, A))}
  BY DEF DueOf
<1> HIDE DEF D
<1> QED
  BY <1>1, <1>2, <1>3, <1>4, <1>5

(* Answering in the next state.                                            *)
AnsweringNext(c, accepted, rejected) ==
    /\ accepted \subseteq DueOf(c, accepted) /\ rejected \subseteq 1..c
    /\ DueOf(c, accepted) \subseteq accepted \cup rejected
    /\ \A i \in rejected :
          /\ items[i] \in Protected /\ first = "new"
          /\ \A j \in accepted : items[j] \in Protected => i < j
    /\ (sess' # "new") <=> Described(c, accepted)
    /\ auth' # "ok" => NoneThrough(accepted)

(* B or C is message n, if it is answered.                                 *)
AnswerTo(n, m, ok, B, C) ==
    B = {i \in {n} : Answers(m, ok) /\ ok} /\ C = {i \in {n} : Answers(m, ok) /\ ~ok}

(* The replies, with message c + 1 answered with ok (B), or with a 401 (C).*)
LEMMA AnsweringStep ==
  ASSUME NEW c \in Nat, NEW A, NEW R, Answering(c, A, R), NEW m, m = items[c + 1],
         NEW ok \in BOOLEAN, HandleAuthentication(m, ok), sess' = NextSess(m, ok),
         m # "RTCP", NEW B, NEW C, AnswerTo(c + 1, m, ok, B, C)
  PROVE  AnsweringNext(c + 1, A \cup B, R \cup C)
<1> USE DEF AnsweringNext, AnswerTo
<1> DEFINE n == c + 1
<1>1. /\ A \subseteq DueOf(c, A) /\ R \subseteq 1..c /\ DueOf(c, A) \subseteq A \cup R
      /\ \A i \in R : /\ items[i] \in Protected /\ first = "new"
                       /\ \A j \in A : items[j] \in Protected => i < j
      /\ sess # "new" <=> Described(c, A)
      /\ auth # "ok" => NoneThrough(A)
  BY DEF Answering
<1>2. A \in SUBSET (1..c) /\ B \in SUBSET {c + 1}
  BY <1>1 DEF DueOf
<1>3. /\ Described(n, A \cup B) <=> Described(c, A) \/ (B # {} /\ m = "DESCRIBE")
      /\ DueOf(n, A \cup B) = DueOf(c, A) \cup
           {i \in {n} : m \in Always \/ (m # "RTCP" /\ Described(c, A))}
  <2>1. /\ Described(c + 1, A \cup B) <=> Described(c, A) \/ (B # {} /\ items[c + 1] = "DESCRIBE")
        /\ DueOf(c + 1, A \cup B) = DueOf(c, A) \cup
             {i \in {c + 1} : items[i] \in Always \/ (items[i] # "RTCP" /\ Described(c, A))}
    BY <1>2, DueStep
  <2>2. {i \in {c + 1} : items[i] \in Always \/ (items[i] # "RTCP" /\ Described(c, A))}
          = {i \in {n} : m \in Always \/ (m # "RTCP" /\ Described(c, A))}
    OBVIOUS
  <2> QED
    BY <2>1, <2>2
<1>4. /\ \A i \in R : i \in 1..n /\ i < n
      /\ n \in 1..n
  <2>1. c \in Nat /\ R \subseteq 1..c
    BY <1>1
  <2>2. \A i \in 1..c : i \in 1..(c + 1) /\ i < c + 1
    BY ONLY <2>1
  <2>3. c + 1 \in 1..(c + 1)
    BY ONLY <2>1
  <2> QED
    BY <2>1, <2>2, <2>3
<1>5. /\ ok => (auth' # "ok" => auth # "ok" /\ m \notin Protected)
      /\ ~ok => m \in Protected /\ auth # "ok" /\ Answers(m, ok)
  BY DEF HandleAuthentication, Answers
<1> HIDE DEF n
<1>6. CASE ok /\ Answers(m, ok)
  <2>1. B = {n} /\ C = {}
    BY <1>6 DEF n
  <2>2. m \in Always \/ Described(c, A)
    BY <1>1, <1>6 DEF Answers
  <2>3. (sess' # "new") <=> Described(n, A \cup B)
    BY <1>1, <1>3, <1>6, <2>1, <2>2 DEF NextSess, Always
  <2>4. auth' # "ok" => NoneThrough(A \cup B)
    BY <1>1, <1>5, <1>6, <2>1 DEF NoneThrough, n
  <2>5. DueOf(n, A \cup B) = DueOf(c, A) \cup {n}
    BY <1>3, <2>2
  <2> QED
    BY <1>1, <1>4, <2>1, <2>3, <2>4, <2>5 DEF n
<1>7. CASE ok /\ ~Answers(m, ok)
  <2>1. B = {} /\ C = {}
    BY <1>7
  <2>2. m \notin Always /\ sess = "new" /\ ~Described(c, A)
    BY <1>1, <1>7 DEF Answers
  <2>3. (sess' # "new") <=> Described(n, A \cup B)
    BY <1>3, <1>7, <2>1, <2>2 DEF NextSess, Always
  <2>4. auth' # "ok" => NoneThrough(A \cup B)
    BY <1>1, <1>5, <1>7, <2>1
  <2>5. DueOf(n, A \cup B) = DueOf(c, A)
    BY <1>3, <2>2
  <2> QED
    BY <1>1, <1>4, <2>1, <2>3, <2>4, <2>5 DEF n
<1>8. CASE ~ok
  <2>1. B = {} /\ C = {n}
    BY <1>5, <1>8 DEF n
  <2>2. (sess' # "new") <=> Described(n, A \cup B)
    BY <1>1, <1>3, <1>8, <2>1 DEF NextSess
  <2>3. NoneThrough(A)
    BY <1>1, <1>5, <1>8
  <2>4. DueOf(n, A \cup B) \subseteq DueOf(c, A) \cup {n} /\ DueOf(c, A) \subseteq DueOf(n, A \cup B)
    BY <1>3
  <2>5. \A i \in R \cup C : /\ items[i] \in Protected /\ first = "new"
                           /\ \A j \in A \cup B : items[j] \in Protected => i < j
    BY <1>1, <1>5, <1>8, <2>1, <2>3 DEF NoneThrough, n
  <2> QED
    BY <1>1, <1>4, <2>1, <2>2, <2>3, <2>4, <2>5 DEF n
<1> QED
  BY <1>6, <1>7, <1>8

(* Every message on its way has tokens.                                    *)
LEMMA ComeIs ==
  ASSUME flow \in Seq(Token), items \in Seq(DOMAIN Layout \cup {"RTCP"}),
         NEW c \in 0..Len(items), Waiting(flow, items, c)
  PROVE  Come = c
<1> DEFINE N == Len(items)
<1>1. N \in Nat /\ c \in Nat /\ c <= N /\ DOMAIN flow = 1..Len(flow)
  OBVIOUS
<1>2. {flow[i].n : i \in DOMAIN flow} = (c + 1)..N
  <2>1. /\ \A i \in DOMAIN flow : flow[i].n \in (c + 1)..N
        /\ \A n \in (c + 1)..N : \E i \in DOMAIN flow : flow[i].n = n
    BY <1>1 DEF Waiting
  <2> HIDE DEF N
  <2> QED
    BY <2>1
<1>3. Cardinality((c + 1)..N) = N - c
  <2>1. c + 1 \in Int /\ N \in Int
    BY <1>1
  <2>2. Cardinality((c + 1)..N) = IF c + 1 > N THEN 0 ELSE N - (c + 1) + 1
    BY <2>1, FS_Interval
  <2> QED
    BY <1>1, <2>2
<1>4. Come = N - (N - c)
  BY <1>2, <1>3, Zenon DEF Come
<1> HIDE DEF N
<1> QED
  BY <1>1, <1>4

(* No message has come.                                                    *)
LEMMA AlignedInitInv == Init => AlignedInv
<1> SUFFICES ASSUME Init PROVE AlignedInv
  OBVIOUS
<1>1. /\ flow = <<>> /\ buf = <<>> /\ state = "line" /\ items = <<>> /\ replies = <<>>
      /\ aligned = TRUE /\ first = sess /\ sess \in {"new", "playing"}
      /\ (sess = "playing" => auth = "ok")
  BY DEF Init, StreamInit
<1>2. Waiting(flow, items, 0)
  <2>1. Len(flow) = 0 /\ Len(items) = 0 /\ 1..0 = {} /\ (0 + 1)..0 = {}
    BY <1>1
  <2> QED
    BY <2>1 DEF Waiting
<1>3. Replied(TRUE) = {} /\ Replied(FALSE) = {}
  BY <1>1 DEF Replied
<1>4. DueOf(0, {}) = {}
  <2>1. 1..0 = {}
    OBVIOUS
  <2> QED
    BY <2>1 DEF DueOf
<1>5. Answering(0, {}, {})
  BY <1>1, <1>4 DEF Answering, Described, NoneThrough
<1>6. 0 \in 0..Len(items) /\ aligned \in BOOLEAN
  BY <1>1
<1> QED
  BY <1>1, <1>2, <1>3, <1>5, <1>6 DEF AlignedInv, AlignedAt

(* Steps that leave the read side alone.                                   *)
LEMMA AlignedUnchanged == ASSUME AlignedInv, UNCHANGED streamVars PROVE AlignedInv'
<1>1. UNCHANGED <<flow, buf, state, sess, auth, items, first, replies, aligned>>
  BY DEF streamVars
<1>2. Replied(TRUE)' = Replied(TRUE) /\ Replied(FALSE)' = Replied(FALSE)
  BY <1>1 DEF Replied
<1>3. \A c, A, R : Answering(c, A, R)' <=> Answering(c, A, R)
  BY <1>1 DEF Answering, Described, NoneThrough, DueOf
<1>4. ASSUME NEW c, AlignedAt(c) PROVE AlignedAt(c)'
  BY <1>1, <1>2, <1>3, <1>4 DEF AlignedAt
<1> QED
  BY <1>1, <1>4 DEF AlignedInv

(* ClientSends *)
LEMMA AlignedSends == ASSUME AlignedInv, StreamInv, ClientSends PROVE AlignedInv'
<1> DEFINE N == Len(items)
<1>1. /\ UNCHANGED <<buf, state, sess, auth, first, replies, aligned>>
      /\ flow \in Seq(Token) /\ items \in Seq(DOMAIN Layout \cup {"RTCP"}) /\ N \in Nat
  BY DEF ClientSends, StreamInv
<1>2. PICK m \in DOMAIN Layout \cup {"RTCP"} :
         items' = Append(items, m) /\ flow' = flow \o MessageOf(m, N + 1)
  <2>1. ASSUME NEW m \in DOMAIN Layout PROVE MessageOf(m, N + 1) = Request(m, N + 1)
    BY StreamAssumption DEF MessageOf
  <2>2. MessageOf("RTCP", N + 1) = Rtcp(N + 1)
    BY DEF MessageOf
  <2> QED
    BY <2>1, <2>2 DEF ClientSends
<1>3. Len(items') = N + 1 /\ \A i \in 1..N : items'[i] = items[i]
  BY <1>1, <1>2
<1>4. ASSUME NEW c \in 0..N, AlignedAt(c) PROVE AlignedAt(c)' /\ c \in 0..Len(items')
  <2>1. Waiting(flow, items, c)'
    <3>1. Waiting(flow, items, c)
      BY <1>4 DEF AlignedAt
    <3>2. Waiting(flow \o MessageOf(m, N + 1), Append(items, m), c)
      BY <1>1, <3>1, WaitingAppend
    <3> QED
      BY <1>2, <3>2
  <2>2. ASSUME NEW A, NEW R, Answering(c, A, R) PROVE Answering(c, A, R)'
    <3>1. A \subseteq DueOf(c, A) /\ R \subseteq 1..c
      BY <2>2 DEF Answering
    <3>2. /\ \A i \in 1..c : i \in 1..N /\ items'[i] = items[i]
          /\ \A j \in A \cup R : j \in 1..c
      <4>1. DueOf(c, A) \subseteq 1..c
        BY DEF DueOf
      <4>2. \A i \in 1..c : i \in 1..N
        BY <1>1
      <4> QED
        BY <1>3, <3>1, <4>1, <4>2
    <3>3. \A j \in A \cup R : items'[j] = items[j]
      BY <3>2
    <3>4. (Described(c, A)' <=> Described(c, A)) /\ (NoneThrough(A)' <=> NoneThrough(A))
      BY <1>1, <3>3 DEF Described, NoneThrough
    <3>5. DueOf(c, A)' = DueOf(c, A)
      BY <1>1, <3>2, <3>3 DEF DueOf
    <3> QED
      BY <1>1, <2>2, <3>3, <3>4, <3>5 DEF Answering
  <2>3. Replied(TRUE)' = Replied(TRUE) /\ Replied(FALSE)' = Replied(FALSE)
    BY <1>1 DEF Replied
  <2>4. PICK a, r : a = Replied(TRUE) /\ r = Replied(FALSE)
    OBVIOUS
  <2>5. Answering(c, a, r)'
    BY <1>4, <2>2, <2>4 DEF AlignedAt
  <2>6. Replied(TRUE)' = a /\ Replied(FALSE)' = r
    BY <2>3, <2>4
  <2>7. Answering(c, Replied(TRUE), Replied(FALSE))'
    BY <2>5, <2>6 DEF Answering, DueOf, Described, NoneThrough
  <2>8. c \in 0..Len(items') /\ buf' = <<>> /\ state' = "line"
    BY <1>1, <1>3, <1>4 DEF AlignedAt
  <2> QED
    BY <2>1, <2>7, <2>8 DEF AlignedAt
<1> QED
  BY <1>1, <1>4 DEF AlignedInv

(* A reply more.                                                           *)
LEMMA RepliedStep ==
  ASSUME replies \in Seq(Answer), NEW n, NEW q, NEW ok \in BOOLEAN, NEW a,
         a = [n |-> n, cseq |-> q, ok |-> ok], replies' = Append(replies, a)
  PROVE  \A v \in BOOLEAN : Replied(v)' = Replied(v) \cup {i \in {n} : ok = v}
<1> DEFINE L == Len(replies)
<1>1. a.n = n /\ a.ok = ok
  OBVIOUS
<1>2. /\ L \in Nat /\ DOMAIN replies = 1..L /\ DOMAIN replies' = 1..(L + 1)
      /\ replies'[L + 1] = a /\ \A i \in 1..L : replies'[i] = replies[i]
  OBVIOUS
<1>3. 1..(L + 1) = 1..L \cup {L + 1}
  BY <1>2
<1> HIDE DEF L
<1>4. ASSUME NEW v \in BOOLEAN PROVE Replied(v)' = Replied(v) \cup {i \in {n} : ok = v}
  <2>1. /\ {j \in DOMAIN replies' : replies'[j].ok = v}
             = {j \in DOMAIN replies : replies[j].ok = v} \cup {j \in {L + 1} : ok = v}
        /\ \A j \in DOMAIN replies : replies'[j].n = replies[j].n
        /\ replies'[L + 1].n = n
    BY <1>1, <1>2, <1>3
  <2> QED
    BY <2>1 DEF Replied
<1> QED
  BY <1>4

(* OnRead *)
LEMMA AlignedRead ==
  ASSUME AlignedInv, StreamInv, NEW k \in 1..Len(flow), OnRead(k) PROVE AlignedInv'
<1>1. aligned \in BOOLEAN /\ aligned' = (aligned /\ WholeMessage(k))
  BY DEF AlignedInv, OnRead
<1>2. aligned' \in BOOLEAN
  BY <1>1, Zenon
<1> SUFFICES ASSUME aligned' PROVE \E c \in 0..Len(items') : AlignedAt(c)'
  BY <1>2 DEF AlignedInv
<1>3. aligned /\ WholeMessage(k)
  BY <1>1, Zenon
<1>4. PICK c \in 0..Len(items) : AlignedAt(c)
  BY <1>3 DEF AlignedInv
<1> DEFINE f == SubSeq(flow, k + 1, Len(flow))
           p == SubSeq(flow, 1, k)
           n == c + 1
           m == items[n]
<1>5. /\ Waiting(flow, items, c) /\ buf = <<>> /\ state = "line"
      /\ Answering(c, Replied(TRUE), Replied(FALSE))
  BY <1>4 DEF AlignedAt
<1>6. /\ ~closed /\ flow' = f /\ UNCHANGED <<items, first>>
      /\ flow \in Seq(Token) /\ replies \in Seq(Answer)
      /\ items \in Seq(DOMAIN Layout \cup {"RTCP"})
  BY DEF OnRead, StreamInv
<1>7. <<>> \o flow = flow /\ p \in Seq(Token) /\ <<>> \o p = p
  BY <1>6
<1>8. Framed(flow, Len(items)) /\ req \in Stored /\ req.cseq = 0
  <2>1. Framed(Unread, Len(items)) /\ Parsing /\ Unread = flow
    BY <1>5, <1>6, <1>7 DEF StreamInv, Unread
  <2> QED
    BY <1>5, <2>1 DEF Parsing, InLine
<1>9. n \in 1..Len(items) /\ p = MessageOf(m, n) /\ Waiting(f, items, n)
  <2>1. /\ \A i \in 1..k : flow[i].n = flow[1].n
        /\ k = Len(flow) \/ flow[k + 1].n # flow[1].n
    BY <1>3 DEF WholeMessage
  <2> QED
    BY <1>5, <1>6, <1>8, <2>1, WaitingDrop
<1>10. c \in Nat /\ n \in Nat \ {0} /\ n \in 0..Len(items) /\ m \in DOMAIN Layout \cup {"RTCP"}
  BY <1>6, <1>9
<1>11. PICK e, o :
         /\ e \in ParseRequest(MessageOf(m, n)) /\ o = AfterRtcp(e)
         /\ state' = o.state
         /\ buf' = IF Len(o.buf) > MaxBuf /\ o.res # "close" THEN <<>> ELSE o.buf
         /\ \/ Handle(o)
            \/ o.res = "wait" /\ UNCHANGED <<sess, auth, replies>>
            \/ o.res = "close"
  <2>1. buf \o p = MessageOf(m, n)
    BY <1>5, <1>7, <1>9
  <2> QED
    BY <2>1 DEF OnRead
<1> HIDE DEF f, p, n, m
<1>12. /\ o.buf = <<>> /\ o.state = "line"
       /\ m = "RTCP" => o.res = "wait"
       /\ m # "RTCP" => o.res = "all" /\ o.req.m = m /\ o.req.n = n
  <2>1. CASE m = "RTCP"
    <3>1. e \in ParseRequest(Rtcp(n))
      BY <1>11, <2>1 DEF MessageOf
    <3> QED
      BY <1>5, <1>8, <1>10, <1>11, <2>1, <3>1, ParseRtcp
  <2>2. CASE m # "RTCP"
    <3>1. m \in DOMAIN Layout /\ e \in ParseRequest(Request(m, n))
      BY <1>10, <1>11, <2>2 DEF MessageOf
    <3> QED
      BY <1>5, <1>8, <1>10, <1>11, <2>2, <3>1, ParseWhole
  <2> QED
    BY <2>1, <2>2
<1>13. buf' = <<>> /\ state' = "line"
  BY <1>11, <1>12
<1> DEFINE A == Replied(TRUE)
           R == Replied(FALSE)
<1>14. Answering(c, A, R) /\ n = c + 1 /\ m = items[c + 1]
  BY <1>5 DEF n, m
<1>15. Answering(n, Replied(TRUE), Replied(FALSE))'
  <2>1. CASE m = "RTCP"
    <3>1. o.res = "wait" /\ UNCHANGED <<sess, auth, replies>>
      BY <1>11, <1>12, <2>1 DEF Handle
    <3>2. A' = A /\ R' = R
      BY <3>1 DEF Replied
    <3>3. Answering(n, A, R)
      <4>1. A \subseteq DueOf(c, A) /\ R \subseteq 1..c
        BY <1>14 DEF Answering
      <4> HIDE DEF A, R
      <4>a. DueOf(c, A) \subseteq 1..c
        BY DEF DueOf
      <4>b. 1..c \subseteq 1..n
        BY <1>10, <1>14
      <4>2. A \in SUBSET (1..c) /\ {} \in SUBSET {c + 1} /\ A \cup {} = A /\ R \subseteq 1..n
        BY <4>1, <4>a, <4>b
      <4>3. DueOf(n, A) = DueOf(c, A) /\ (Described(n, A) <=> Described(c, A))
        <5>1. /\ Described(c + 1, A \cup {}) <=> Described(c, A)
              /\ DueOf(c + 1, A \cup {}) = DueOf(c, A) \cup
                   {i \in {c + 1} : items[i] \in Always \/ (items[i] # "RTCP" /\ Described(c, A))}
          BY <1>10, <4>2, DueStep
        <5> QED
          BY <1>14, <2>1, <4>2, <5>1 DEF Always
      <4> QED
        BY <1>14, <4>2, <4>3 DEF Answering
    <3> QED
      BY <1>6, <3>1, <3>2, <3>3 DEF Answering, DueOf, Described, NoneThrough
  <2>2. CASE m # "RTCP"
    <3>1. PICK ok \in BOOLEAN :
            /\ HandleAuthentication(m, ok) /\ sess' = NextSess(m, ok)
            /\ IF Answers(m, ok)
               THEN replies' = Append(replies, [n |-> n, cseq |-> o.req.cseq, ok |-> ok])
               ELSE replies' = replies
      <4>1. Handle(o) /\ o.req.m = m /\ o.req.n = n
        BY <1>11, <1>12, <2>2
      <4> QED
        BY <4>1 DEF Handle
    <3> DEFINE B == {i \in {n} : Answers(m, ok) /\ ok}
               C == {i \in {n} : Answers(m, ok) /\ ~ok}
    <3>2. A' = A \cup B /\ R' = R \cup C
      <4>1. CASE Answers(m, ok)
        <5>1. \A v \in BOOLEAN : Replied(v)' = Replied(v) \cup {i \in {n} : ok = v}
          BY <1>6, <3>1, <4>1, RepliedStep
        <5>2. /\ Replied(TRUE)' = Replied(TRUE) \cup {i \in {n} : ok = TRUE}
              /\ Replied(FALSE)' = Replied(FALSE) \cup {i \in {n} : ok = FALSE}
          BY <5>1
        <5>3. {i \in {n} : ok = TRUE} = B /\ {i \in {n} : ok = FALSE} = C
          BY <4>1
        <5> QED
          BY <5>2, <5>3
      <4>2. CASE ~Answers(m, ok)
        <5>1. A' = A /\ R' = R
          BY <3>1, <4>2 DEF Replied
        <5>2. B = {} /\ C = {}
          BY <4>2
        <5> QED
          BY <5>1, <5>2
      <4> QED
        BY <4>1, <4>2
    <3>3. B = {i \in {c + 1} : Answers(m, ok) /\ ok} /\ C = {i \in {c + 1} : Answers(m, ok) /\ ~ok}
      BY <1>14
    <3> HIDE DEF A, R, B, C
    <3>4. PICK a, r : a = A /\ r = R
      OBVIOUS
    <3>5. PICK b, d : b = B /\ d = C
      OBVIOUS
    <3>6. AnsweringNext(c + 1, a \cup b, r \cup d)
      <4>1. PICK x : x = m
        OBVIOUS
      <4>2. /\ c \in Nat /\ Answering(c, a, r) /\ x = items[c + 1] /\ HandleAuthentication(x, ok)
            /\ sess' = NextSess(x, ok) /\ x # "RTCP"
        BY <1>6, <1>10, <1>14, <2>2, <3>1, <3>4, <4>1
      <4>3. AnswerTo(c + 1, x, ok, b, d)
        BY <3>3, <3>5, <4>1 DEF AnswerTo
      <4> QED
        BY <4>2, <4>3, AnsweringStep
    <3>7. Answering(c + 1, a \cup b, r \cup d)'
      BY <1>6, <3>6 DEF AnsweringNext, Answering, DueOf, Described, NoneThrough
    <3>8. A' = a \cup b /\ R' = r \cup d /\ n = c + 1
      BY <1>14, <3>2, <3>4, <3>5
    <3>9. Answering(n, A, R)'
      BY <3>7, <3>8 DEF Answering, DueOf, Described, NoneThrough, n
    <3> QED
      BY <3>9 DEF A, R
  <2> QED
    BY <2>1, <2>2
<1>17. Waiting(flow, items, n)'
  BY <1>6, <1>9 DEF n
<1>18. AlignedAt(n)'
  BY <1>13, <1>15, <1>17 DEF AlignedAt
<1> QED
  BY <1>6, <1>10, <1>18

(* As long as every recv returns one message, each request that is due an  *)
(* answer has had it when the next recv comes, the parser waits for a      *)
(* request line, and its buffer is empty.                                  *)
THEOREM WholeAnswered == Spec => []AlignedAnswered
<1>1. ASSUME AlignedInv, StreamInv, [Next]_vars PROVE AlignedInv'
  <2>1. CASE UNCHANGED streamVars
    BY <1>1, <2>1, AlignedUnchanged
  <2>2. CASE ClientSends
    BY <1>1, <2>2, AlignedSends
  <2>3. CASE \E k \in 1..Len(flow) : OnRead(k)
    <3>1. PICK k \in 1..Len(flow) : OnRead(k)
      BY <2>3
    <3> QED
      BY <1>1, <3>1, AlignedRead
  <2> QED
    BY <1>1, <2>1, <2>2, <2>3 DEF Next, vars, StreamNext, SendRtp
<1>2. AlignedInv /\ StreamInv => AlignedAnswered
  <2> SUFFICES ASSUME AlignedInv, StreamInv, aligned PROVE AlignedAnswered
    BY DEF AlignedAnswered
  <2>1. PICK c \in 0..Len(items) : AlignedAt(c)
    BY DEF AlignedInv
  <2>2. Come = c
    <3>1. flow \in Seq(Token) /\ items \in Seq(DOMAIN Layout \cup {"RTCP"})
      BY DEF StreamInv
    <3> QED
      BY <2>1, <3>1, ComeIs DEF AlignedAt
  <2> QED
    BY <2>1, <2>2 DEF AlignedAt, Answering, AlignedAnswered
<1> QED
  BY <1>1, <1>2, AlignedInitInv, StreamInvariance, PTL DEF Spec
=============================================================================
