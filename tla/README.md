# Authentication and video encryption: a TLA+ verification project

The repository holds three programs that work together: an authentication
centre with its terminal devices (Python, `认证协议仿真及对比/`, and firmware for
a CH32V307 board, `ch32v307代码/`), an RTSP video server (C++, `RK3588代码/`), and
two firmware applications that encrypt and decrypt the RTP video stream between
server and viewer. This directory models their core logic, model-checks it with
TLC and proves the most important results with TLAPS.

## Inventory

| Part | State | Operations | What is hard | What makes it correct |
|---|---|---|---|---|
| Authentication centre (`sever.py`) | `people.json`; key material drawn at start; session fields `A`, `QID`, `a` shared by all connections | register, user_auth, SharedKey_Gen, SharedKey_Gen2, serving loop | crash between truncating and writing the file, restarts with new keys, uncaught exceptions, one client at a time | both ends agree on one key; only registered factors get one; session fields are those of the client being served |
| Device client (`User_simple.py`; firmware `tcp_part.c`, `protocol.c`) | registration parameters, random numbers, session key | register, self-check, login, key generation | peer disappears between or inside messages; firmware has no message framing | as above |
| Big numbers, Chebyshev map, SM3, ZUC-256 (firmware) | static scratch arrays and a static carry, cipher state | functions | lost and left-over carries, comparisons at the modulus | agreement with integer arithmetic |
| Event loop (`net/TaskScheduler`, `RingBuffer`, `Pipe`) | ring of callbacks, wake-up pipe, shutdown flag | AddTriggerEvent, Start, Stop, Wake | many producers, consumer without a lock, size test before the lock, bytes dropped by a full pipe | no callback overwritten, reordered or forgotten |
| Timers (`net/Timer`) | two maps of timers, timer id | AddTimer, RemoveTimer, HandleTimerEvent, GetTimeRemaining | zero delays, removal during a pass, timers added during epoll_wait | the maps agree; nothing early, twice, or after removal; no oversleeping |
| TCP server (`net/TcpServer`, `TcpConnection`, `Acceptor`, `Channel`, `EpollTaskScheduler`) | map of connections by descriptor, channels in epoll, closed flags | accept, close, remove, Stop, Start | object lifetime by shared_ptr, raw pointers in an epoll batch, reuse of descriptors, events refused or silently dropped | no dangling channel, right connection removed, Stop leaves nothing behind |
| Buffers of a connection (`BufferWriter`, `BufferReader`, `TcpConnection::Send`, `HandleWrite`) | queue of packets with a write index, readable bytes, interest in EPOLLOUT, mutex | Send, HandleWrite, Disconnect, OnRead | partial sends, a full queue, a mutex that is only tried, input cut anywhere | packets leave whole and in order, nothing waits without an EPOLLOUT |
| RTSP messages (`RtspMessage`) | parser state, stored CSeq, method | ParseRequest, ParseResponse | requests split or joined by TCP, interleaved RTCP between them | every reply answers its own request; no whole message is lost |
| RTSP pusher (`RtspPusher`, pusher mode of `RtspConnection`) | connection, state of the handshake | OpenUrl, Close, SendOptions to HandleRecord | time-out against a late event, responses in pieces | the handshake keeps step with the server |
| RTSP server (`xop/Rtsp*`, `MediaSession`, `RtpConnection`) | sessions, clients, per-channel RTP state | DESCRIBE, SETUP, PLAY, TEARDOWN, PushFrame | frames pushed from other threads while clients come and go, raw pointers in posted events | events find their objects, client lists match the open connections, nothing before authentication |
| HEVC packetisation (`xop/H265Source`) | none | HandleFrame | boundaries of the split | every packet fits, no byte lost |
| Encrypting board (`rtsp_rtp_client.c`) | `skip_remain`, static across packets | process_rtp_packet, forwarding loop | UDP loss, duplication, reordering; short last fragments | exactly the bytes of I-frames behind the prefix are masked |
| Decrypting board (`rtp_udp_receiver.c`) | none across packets | decrypt_rtp_packet | must mirror the encrypting board | I-frames come back |
| Fragment reassembly (`rtsp.c`) | pool of buffers | fu_process | lost fragments, pool eviction | not used by the boards' programs |

The parts interact as follows. A device registers and logs in over a
length-prefixed TCP connection and ends with a session key; the video boards use
a session key compiled in. The RTSP server's sources hand packets to
`RtpConnection`, which posts them as trigger events to the scheduler of the
client's connection; TCP connections are closed and removed through the same
trigger events and, when the queue is full, through timers. The encrypting board
is an RTSP client of the server and forwards each packet over UDP to the
decrypting board.

## Modules

### AuthProtocol, KeyExchange

`AuthProtocol` has one client per run of `User_simple.py` and one centre.
`self`, `attrs` are the fields of the single `authencenter` object and which of
them exist; `people` and `file` are `people.json`; `serving` is the connection
of the running `handle_client`, `backlog` the accept queue. Client actions are
the branches of `main` and `handle_response`; centre actions are the handlers
that `process_request` calls. `RegisterTruncate` and `RegisterWrite` are the two
halves of `add_person`; `KillClient`, `KillMidSend`, `KillCentre` and `Restart`
are crashes at every point where the code waits. `DecodeError` is the exception
that `handle_client` catches, `PartialMessage` one that it does not, which ends
the process. Numbers are symbolic: the Chebyshev map by its commutation and its
inverse, exclusive-or as symmetric difference, SM3 as an injective function
applied to what the code feeds it. Factors are digit sequences, since the code
joins them as strings: the self-check `AuthA` only sees their concatenation.

`KeyExchange` is the abstract promise: at most one fresh key is issued per run
and only its own device adopts it. `ImplementsKeyExchange` says that
`AuthProtocol`, seen through `ckey` and `dkey`, does that.

### TriggerQueue

One step per access to shared memory in `AddTriggerEvent` (unlocked size test,
lock, `PushData`'s test, write, count, pipe byte) and in the scheduler's loop
(`Pop`'s test, move, count, callback, `Size() > 0`, `epoll_wait`, `Wake`). `Stop`
is two steps of another thread. `pushed`, `taken` and `lost` are history.

`EventQueue` is the abstract promise: a bounded queue, first in, first out, from
which one callback at a time is taken and run. `ImplementsEventQueue` reads it off
the ring itself, not off the history: `Waiting` is the `Live` slots from
`get_pos_` on, where `Live` corrects `num_datas_` for a producer that has written
and a scheduler that has taken a slot without counting it yet.

### TimerQueue

`timers` and `events` are the keys of the two maps. Other threads add and remove
timers whenever the mutex is free; the scheduler's thread takes the steps of
`HandleTimerEvent`, `GetTimeRemaining` and `HandleEvent`. A callback's result is
a choice (`FireAgain`, `FireLast`).

### TcpServer

A connection is a number; `fd`, `stored` (`connections_`), `closed`, `hascb`,
`reg` (epoll) and the pending `trig`ger events and `timers` are what its life
depends on. `Alive` says who holds a `shared_ptr`; the destructor's close of the
socket shows in `OpenFds`, the descriptors `accept` cannot return. The accept
callback is three steps (constructor, `AddConnection`, `SetDisconnectCallback`),
so that with several event-loop threads (`single = FALSE`, chosen at the start)
events of the connection fall in between.
`Dispatch` is one callback of `Channel::HandleEvent`, of which several may follow
each other on one channel. RTP packets of another thread share the queue, so any
`AddTriggerEvent` has one of three outcomes (`Outcome`): the event is stored; it
is refused, with false; or it is dropped although true was returned, because the
queue filled up between the size test and `Push` (what `TriggerQueue` calls
`lost`). The disconnect callback falls back to a timer only in the second case.
`lost` and `missed` are histories of what is then never removed or never closed.
`RemoveConnection` is two steps, `Erase` (with the destructor) and `RemoveReturns`;
`rem` is the descriptor in between, while `mutex_` is held and, on the timer's
path, the timer still has its entry. `Stop` is a thread of its own, which looks at
`connections_` without the mutex and so may return in between.

### RtspSession

The server side of RTSP on top of the life cycle above, with one event-loop
thread (the default). That thread accepts, handles requests, runs trigger events
and timers in the phases of `TaskScheduler::Start`; a second thread is in
`PushFrame` (look-up, snapshot of the clients under `map_mutex_`, one
`SendRtpPacket` per client in two steps, release of the list); the application
adds and removes sessions at any time. `mapped` is TcpServer's map; `Alive` and
`RtpAlive` say who holds the two objects of a client, `held` being the pushing
thread's list. Posted events have the three outcomes of `TcpServer`; a packet's
identity is all that is kept of it, the contents of its RTP header are not
modelled. A handler of the loop's thread is one action, since the other
threads see only its last effect on a map. Three outcomes end a behaviour,
because after them anything may happen (`fault`): a null pointer in SETUP, which
is shown not to occur (part of `Membership`), an event that runs on a destroyed `RtpConnection`, and a
destructor that closes a descriptor somebody else has got. The last two do occur
when a push overlaps the closing of a client; `RtpEventValid` states when they
cannot. UDP sockets are not in the space of descriptors.

### WriteQueue, RtspStream, RtspPusher, ConnectionIO

`WriteQueue` is the write side of one `TcpConnection`: the queue of
`BufferWriter` (`wq`, each packet with its `writeIndex` as `at`), the piece the
socket took last (`wire`), `IsWriting` and the mutex. `Send` is the locked append;
`TryLock`, `SendSome`, `SendStalls`, `SendFails` and `UpdateWriting` are the steps
of `HandleWrite`, where each `::send` takes any number of bytes; `Disconnect` runs
on another thread, holds the mutex while it posts, and its event may be refused.

`RtspStream` is the server's read side. The client's bytes are tokens (a line's
text, its line end, the header of an interleaved RTCP packet, a piece of its
body); `OnRead(k)` appends any number of them to the buffer and runs
`ParseRequest` as the code does: one request line per read, then everything up to
the *last* line end as headers, `HandleRtcp` whenever the stored method is RTCP
afterwards (`AfterRtcp`), and the cut when the buffer exceeds
`MAX_RTSP_MESSAGE_SIZE`. A handler is reduced to whether it answers, whether the
answer is 401, and what that leaves of `rtp_conn_` (`sess`). `auth`, chosen at the
start, says whether the server asks for credentials and whether a nonce has been
sent; `HandleAuthentication` guards DESCRIBE, SETUP and PLAY (`Protected`), so that
a DESCRIBE answered 401 makes no `rtp_conn_`, a PLAY is answered 401 before
`rtp_conn_` is looked at, and TEARDOWN and GET_PARAMETER are answered only once
there is one. What the handlers do to sessions is `RtspSession`'s subject.

`RtspPusher` is the other mode of the same class: `OpenUrl` polls and times out on
the user's thread, posted events run on the loop's thread, and
`HandleRtspResponse` takes the next step of OPTIONS, ANNOUNCE, SETUP, RECORD. A
response is a head and a tail that may arrive apart; since `ParseResponse`
searches with `strstr` to the next zero byte, it may find what an earlier response
left behind (`dirty`), which the model allows in both ways. `crashed` is the event
that finds `rtsp_conn_` null after a time-out.

`ConnectionIO` composes the three: `conn_mode_` decides who reads, and both write
through the one queue.

### ChebyShev, FirmwareClient

`ChebyShev` has the operators of `ChebyShev.c` and the modular sum and product of
`protocol.c` as arithmetic modulo a power of two: what is carried out of a number
is kept or lost as in the code, `big512_shl` gives zero beyond its word limit,
`big_mod` shifts and subtracts, and `chebyshev_Tn` starts with the static `carry4`
that the call before it left. The carries inside one operation are not spelled
out limb by limb. Powers of two are the recursive function `Pow2`.

`FirmwareClient` checks these operators against the recurrence of the Chebyshev
polynomials and against `%` (task "call": any sequence of single calls), and runs
the board's client over them (task "client"): `Receive` is one `recv` with the
handler of the message's code, where a field that did not arrive keeps its old
value because `hex_to_uint256` refuses a short string, failed checks only print,
and an unknown message makes the device repeat its last answer. The centre that
speaks this protocol is not in the repository; it is modelled from what the device
expects of it. Exclusive-or is a constant operator, of which only is assumed that it
stays in range and cancels; the run gives it the bitwise one. The other
assumptions are the protocol's: numbers fit their limbs, the centre's `N` is below
half of the range, and `N1` and the password fit in the half that the device
compares.

### VideoPipeline

A byte is the set of keystream bytes XORed into it; a keystream byte is named by
IV and offset, so that a mask cancels exactly when the receiver derives the same
IV and aligns it the same way. The IV is itself read out of the packet: in clear
bytes, in masked ones, or behind the packet's end in whatever the receive buffer
held (`Tail`). Packets between server, encrypting board and decrypting board are
sets from which any packet may be delivered, any number of times, or never.

The operators called "faulty variant" next to some definitions are what a
plausible mistake would look like; `PROJECT.json` lists which property each one
breaks.

## Runs and bounds

| Run | Configuration | Shows |
|---|---|---|
| auth_safety | 2 clients, ids and biometrics of one or two digits, 2 starts of the centre | agreement, authentication, session fields, torn file, refinement, no client waits for ever |
| auth_self_check (violation) | 1 client | the device's self-check accepts other factors |
| trigger_queue | 2 producers with 3 events each, ring 2, pipe 1 | ring and wake-up safety, refinement of a bounded queue, callbacks run, Stop ends the loop |
| timer_queue | 2 timers, delays 0, 1, 2, clock up to 4 | agreement of the maps, firing rules, sleep, queued timers fire |
| tcp_server | 2 descriptors, 3 connections, 3 trigger events, one or several loop threads | lifetime of connections, Stop |
| rtsp_media | 2 descriptors, 2 clients, 1 session, TCP or multicast, 1 packet, 2 trigger events | posted events, multicast |
| rtsp_clients | 1 descriptor, 2 clients one after the other, 2 sessions, UDP, credentials | authentication, SETUP, RTCP channels, client lists |
| rtsp_connection | packets of 2 bytes, queue of 2; server: 3 messages (TEARDOWN, DESCRIBE, PLAY, RTCP), buffer of 9 tokens, with or without credentials; pusher: 1 channel, 6 packets | order on the wire, no stuck data, replies, lost messages, handshake |
| firmware | 2 limbs of 3 bits, 14 arguments, 5 moduli; one login with 2 salts and 2 random numbers per side | exact arithmetic, agreement of the board with the centre |
| video_safety | prefix 2, IV 2, payload 6, NAL sizes 2, 4, 6, 8, 9, 2 NAL units, 3 packets handled, header extensions | selective encryption, round trip |
| video_iframes, video_other_frames (violations) | server's own headers only | what the decrypting board's comments promise |

Why these bounds are enough to reach the interesting cases: two digits make
concatenated factors collide; two clients and a restart give every overlap of
sessions; a ring of two and a pipe of one fill up and wrap with three events per
thread, and two producers meet in the window between size test and lock; delays
0, 1 and 2 cover the zero-delay key mismatch, a timer due at the next
millisecond and one that survives a pass; with two descriptors and three
connections a descriptor is reused while old events are pending; two clients
meet in a multicast group, two sessions let a client
move, and a single descriptor is handed on with what its first owner left; the NAL
sizes cover too short, exactly prefix, exactly a packet, two and three
fragments, with a last fragment shorter than the IV; a packet of two bytes can be
sent in part and a queue of two be full behind it; three messages give a request
in front of, behind and between others, whole or cut at any token, and one of
seven tokens plus a part of the next exceeds the buffer; the arguments of the
arithmetic contain 0, 1, every one-limb number, both sides of half of the range
and its maximum, the moduli one-limb and two-limb primes below and above half of
the range. Bounds are the constants
`MaxEpoch`, `MaxAdds`, `MaxTimers`, `MaxTime`, `MaxConn`, `MaxTrigger`,
`MaxSession`, `MaxPkt`, `MaxNals`, `MaxHandled`, `MaxItems`, `MaxSend`, `MaxReqs`
and `MaxBack`; `MaxQueue` and `MaxBuf` are limits of the code, made small. URL
suffixes are symmetric in `rtsp_clients`; runs with liveness properties use no
symmetry.

Deadlock is not checked where a bound or the program's end stops everything
(all runs but `tcp_server`, whose loop never ends).

Fairness. `AuthProtocol`: users answer prompts and quit in the end, both
processes run; nothing is assumed of connects, kills and restarts, and without
the users' part a client would in fact wait for ever behind one that does not
quit. `TriggerQueue`: the operating system runs every thread and a free mutex is
taken; no timer or socket has to wake the scheduler. `TimerQueue`: the
scheduler's thread runs and the clock advances; at the last tick of the bounded
clock `epoll_wait` is taken to have timed out. `TcpServer`: the threads run;
strong fairness of the fallback timer, since every pass looks at the timers and
it is due after 100 ms.

### Disagreements between code and documentation

* The device's self-check hashes the concatenated factors, so that other factors
  with the same concatenation pass; the ProVerif model hashes a tuple. The centre
  refuses such a login all the same (`KeyOnlyForRegistered`).
* The decrypting board treats every packet as a single NAL unit: fragmented
  I-frames are not recovered, although the file's header says so.
* Its I-frame test is commented out, so that other frames are XORed with a
  keystream; the comment says only I-frames are decrypted.

### What the properties leave open on purpose

Some properties state a hazard's exact extent. An event can be dropped although
`AddTriggerEvent` returned true, but only once a second thread has posted
(`SoleProducerLosesNothing`). A timer with a zero delay can fire after
`RemoveTimer` (`QueuesAgree`, `RemovedStaysQuiet` name that exception). `Stop` of
the TCP server may wait for ever on a connection accepted after its pass, on one
whose disconnect event was not stored (refused, or dropped behind a true return),
or, with several loop threads, on one closed before its disconnect callback was
set (all three in the history `missed`), and on one whose removal was dropped
behind a true return (`lost`): `StopTerminates` names these and no others.
`ClosedIsRemoved` says, for one thread, that every other closed connection has its
removal queued or on a timer. When `Stop` has returned, every connection is
closed and no event or timer will call `RemoveConnection` (`StopLeavesNothing`),
but the call that emptied the map may still have to unlock `mutex_`: the property
does not say that the server may now be destroyed. A posted RTP event is safe if it
was posted before its client closed
(`RtpEventValid`), a client list is right while no connection describes a second
session (`Membership`), and an RTCP channel ends with its connection unless a
second SETUP has replaced it (`RtcpChannelValid`). A client of a multicast session
that has only described it can take the packet meant for the group, which then is
not sent (`MediaSession.cpp:93`; no property). A `Stop` of
a scheduler that precedes its `Start` is forgotten (`StopEndsLoop`). A torn
`people.json` stays torn (`TornForever`, `TornFileBlocksAll`). Data may wait in an
open connection's queue without an EPOLLOUT once `Disconnect` held the mutex at
the wrong moment and its event was refused (`NoStuckData`). Requests that arrive
together with others, or in pieces, may be swallowed or close the connection, and
an RTCP packet with something behind it blocks the parser: `AlignedAnswered` is
about connections whose every `recv` returned one message, `ReplyMatchesRequest`
about all. What is due is said in the client's terms: PLAY, TEARDOWN and
GET_PARAMETER after a DESCRIBE that was accepted, the rest always; a 401 comes only
for a request that needs credentials and never after an accepted one. A response in two pieces takes two steps of the pusher's handshake
(`HandshakeInStep` is about whole ones), and an `OpenUrl` that times out before its
event runs leaves it a null pointer (`crashed`, excluded by no property). On the
board, `chebyshev_Tn` is exact while no modulus has reached half of the range,
since a carry is left for the next call (`ChebyshevExact`; with an x far longer
than p, `big_mod` would in fact never end), the modular sum and product unless the
value is exactly the modulus at some point (`ModExact`), and the key agrees with
the centre's if no message was split (`DeviceKeyAgrees`).

## Proofs

All theorems hold for every value of the constants that satisfies the named
assumptions.

* `AuthProtocol_proofs`: type correctness, `KeyAgreement`,
  `KeyOnlyForRegistered` with `CorrectLoginAccepted`, `SharedKeyNeverFails`, `TornFileBlocksAll`,
  `TornForever` and the refinement of `KeyExchange`. None of them is inductive:
  that the centre's fields fit the request at hand depends on what the device
  computed two messages earlier. `IInv` says for each client which messages can be
  in flight at each of its program points and what they contain (`Controls`,
  `Requests`, `Responses`), what the device remembers (`Memories`), which keys
  exist (`AllKeys`), that the session fields belong to the served client
  (`Sessions`, `Serving`) and that its row is the first match in the file
  (`Entries`, `Unique`). It uses that Te undoes Td and that exclusive-or cancels.
* `TriggerQueue_proofs`: type correctness, `NoOverwrite`, `NoLostWakeup`,
  `SoleProducerLosesNothing` and the refinement of `EventQueue`. The counter lags behind the ring's
  contents at two program points; `Live` corrects it, and `Ring` and `Contents`
  say that the live slots are those from `get` on, holding the events pushed and
  not taken, in order. `Mutex` gives one writer, `Wakeups` that an event not yet
  announced has a producer about to write its byte, `Room` that a sole producer's
  size test stays true. For the refinement `Hand` adds that the scheduler holds
  a callback exactly between `Pop` and the end of its run; `RingIsQueue`, that the
  ring's contents are the part of `pushed` not taken, turns every step into one of
  the abstract queue: `PushWrite` posts, `PopTake` takes, `RunCallback` returns,
  and all others, the two that move the counter included, are stutters.
* `TimerQueue_proofs`: type correctness, `QueuesAgree`, and `NeverEarly`,
  `RemovedStaysQuiet`, `OncePerPass`, `SleepIsShort`. `Keys` relates an event's time to
  `next_timeout_` and to the last firing, `Gone` says which events can outlive
  their timer, `Pass` that a timer fired in this pass has a later key.
* `VideoPipeline_proofs`: type correctness, `SelectiveEncryption`,
  `SingleRoundTrip`. The key fact is that `skip_remain` is zero between any two
  packets, because the server's first fragment is always longer than the prefix:
  only this makes the static counter harmless under loss and reordering.
* `TcpServer_proofs`: type correctness, `NoDanglingChannel`, `DescriptorFree`,
  `RemovesOnlyClosed` with `ClosedIsRemoved`, and `StopLeavesNothing`. `Stored` says
  that a connection is stored under its own descriptor, `Accepting` that only the
  newest connection can lack its callback and whether it is in the map yet, `Open`
  that an open connection, or one of the batch, is held by the map or by the accept
  callback, and `Removals` that a descriptor is removed at most once and only to
  erase a closed connection. The argument: `Close` runs once per connection, and
  while it is open no removal of its descriptor is pending; the descriptor is
  handed out again only after the erasure. Nothing in it depends on an event being
  stored: one that is refused or dropped leaves a connection in the map, which
  `Removals` allows for the timer and for `lost`. What is left when `Stop` returns
  follows from the empty map, since a pending removal has its connection there.
* `ConnectionIO_proofs`, the queue: type correctness, `WireInOrder` and `NoStuckData` of the
  write side on its own (`WqSpec`), for any sizes of packets and any limit.
  `Ordered` says that queued packets are numbered in the order of `Send` and only
  the first can be sent in part, `Continues` that the wire ends where that one
  goes on, `Holder` who has the mutex at each program point: `HandleWrite` can
  only find it taken by `Disconnect`.
* `RtspSession_proofs`: type correctness, `RtpEventValid`, `RtcpChannelValid`,
  `AuthFirst` and `Membership`, for any number of connections,
  sessions, packets and events; the set of descriptors is finite, since `Snapshot`
  lists the clients of a map. `Packets` carries the argument for posted events: a
  packet posted before its connection closed still finds the connection in
  `connections_`, because the removal is posted later and stands behind it, and a
  removal that fell back to a timer cannot run before the queue is empty (the phase
  "timers" begins when no packet of such a connection is left). `Open` says that
  open connections are in the map, have different descriptors, and have an
  `RtpConnection` once they have a session; `Registered` that suffixes lead to
  sessions that exist and that new sessions are empty; `Removing` that removals are
  pending for closed connections only; `Pushing` that `PushFrame` serves clients it
  holds; `Answered` that authentication needs a nonce.
* `ConnectionIO_proofs`, composition: every step of the composition is a step of
  `WqNext` or leaves the queue alone (`ImplementsWriteQueue`), so that
  `WireInOrder` and `NoStuckData` hold for the connection of both modes.
* `ConnectionIO_proofs`, pusher: `HandshakeInStep`. `Fresh` says that the posted
  event sends the first request, and once; `Phase` how many requests and channels go
  with the method of the last request; `Awaiting` that at most one response is under
  way, and only for a request that has left the queue; until the server records,
  every packet is a request, so that packet and request numbers agree.
* `ConnectionIO_proofs`, server: `ReplyMatchesRequest`, for any messages whose
  requests have a CSeq and what their method needs (`StreamAssumption`) and any cut
  of the stream. `Framed` says what the unread tokens are: the rest, from any token
  on, of messages in their order, each request line with its CSeq behind it and each
  text with its line end. `Parsing` says that in state "line" no CSeq is stored and
  every request line still to come is of a request that has not been answered; and in state "headers" the
  stored CSeq is that of the request line, or that CSeq is the next one in the
  stream (`Knows`). The second case would break if the code could cut a pending CSeq
  out of an overlong buffer; it cannot, because whatever is left in the buffer there
  has no line end, and is one token, so that the limit is not exceeded.
  `AlignedAnswered` needs `AlignedInv` on top of it: with some number `c` of messages
  read, the stream is exactly the messages after them, each whole (`Waiting`), and
  the replies are those due among the first `c` (`DueOf`). `Answering` says how:
  every accepted reply is due and every due one accepted or rejected, the session
  is past "new" exactly if a DESCRIBE was accepted (`Described`), and while the
  client has not authenticated no protected request was (`NoneThrough`). A `recv` of one message then takes
  message `c + 1` (`WaitingDrop`), and parsing a whole request leaves nothing behind
  (`ParseWhole`): the first line end closes the request line, the last one the
  request.
* `FirmwareClient_proofs`, arithmetic: `ChebyshevExact` and `ModExact`, for limbs of
  any width, any number of limbs and any arguments. What the code computes in loops
  is induction over numbers. The library's induction theorems cannot be used for
  it, so the module starts from one of its own: a non-empty set of naturals has a
  least element (`LeastNatural`), hence a set that contains 0 and is closed under
  successor is all of `Nat` (`SetInduction`), and a step function given as a value
  has exactly one iteration (`IterationExists`, `IterationUnique`). On these rest
  `Pow2`, the shift-and-subtract loop (`BigModExact`: what is left is congruent and
  below the modulus, and no carry is lost, for moduli up to half of the range), the
  bitwise long division (`MulmodExact`), and square-and-multiply (`MatrixPowExact`:
  after `k` passes, base and result are the powers that the low `k` bits of the
  exponent say, which holds because 2 by 2 matrices over the integers multiply
  associatively). `PowersChebyshev` relates the matrix power to the recurrence over
  the integers, and congruences carry it to the residues. `CallInv` then says that
  `carry4` is zero as long as no modulus has reached half of the range, which makes
  each call independent of those before it.
* `FirmwareClient_proofs`, client: `DeviceKeyAgrees`, for any exclusive-or, key,
  salts and random numbers within the assumptions. While every `recv` returns a
  whole message one message is under way, and `Stage` says by it how far the
  session is: `Fresh`, `Offered` (101 sent), `Prepared` (202 sent or refused),
  `Challenged` (102), `Answered` (203 or refused), `Accepted` (103), `Done`. Each
  stage holds what the later ones need of the earlier: `Registration` that the
  device has the centre's parameters, a `QID` that survives being cut to half, and
  a zero `carry4`; `Challenged` that the centre's `TA` is the one the device is going
  to compute (here the arithmetic theorem is used); `Agreement` that both sides
  hold the three numbers of the key. A refusal repeats the device's last message
  and keeps the stage.

In `AuthProtocol_proofs`, `TriggerQueue_proofs`, `TcpServer_proofs` and
`TimerQueue_proofs` each of the named properties has a theorem of its own.

Only model-checked: everything under fairness (`NoClientWaitsForever`,
`EventsRun`, `StopEndsLoop`, `QueuedTimersFire`, `StopTerminates`), since liveness
and `ENABLED` are outside the prover's reach. Every other property of the passing
runs is proved.

## Not modelled

Third-party code (RT-Thread, lwIP, MCU libraries, MD5), which is nearly all of the
repository's lines, the Ethernet driver, logging, examples, benchmark and
measurement scripts; the Windows scheduler; `rtsp.c`, whose output is compiled out
and which the boards' programs do not use. Cryptographic strength is
not a subject of these models: secrecy under an active adversary is what the
ProVerif file is about. SM3 and ZUC-256 appear by what they are used for (an
injective function, a mask), `Prime_number.c` not at all.

Packets of one frame are shared by the clients of a session, whose headers are
written into them one after the other; header contents are not modelled.

Known hazards without a model: a callback that touches the timer queue waits for
its own mutex (`Timer.cpp:64`; the library's own callbacks do not), a delay above
2^31 ms is cut by a cast (`TaskScheduler.cpp:50`), and `Listen` replaces the
listening channel while a batch may hold the old one (`Acceptor.cpp:29`).

## Plan

1. RTSP: RTP sequence numbers, several loop threads, a second `OpenUrl`, the
   multicast address pool.
2. Event-loop start and quit, the boards' thread and socket handling.
3. ZUC-256's 31-bit arithmetic; Miller–Rabin.
