----------------------------- MODULE RtspSession -----------------------------
(***************************************************************************)
(* RTSP clients of xop::RtspServer while another thread pushes frames and  *)
(* the application adds and removes media sessions.  The event loop has    *)
(* one thread (the default): it accepts, reads requests, runs the trigger  *)
(* events and destroys connections.  The pushing thread posts one trigger  *)
(* event per client and packet; it holds a raw RtpConnection pointer.      *)
(*                                                                         *)
(* One media channel is modelled; the two are handled alike.  Replies that *)
(* change nothing (OPTIONS, GET_PARAMETER, RTCP) are left out, and a reply *)
(* that cannot be written closes the connection: HangUp.                   *)
(***************************************************************************)
EXTENDS Integers, Sequences, FiniteSets

CONSTANTS Fd,         \* descriptors of connections
          Suffix,     \* URL suffixes of media sessions
          Transport,  \* transports the clients ask for
          Auth,       \* whether SetAuthConfig is called: a subset of BOOLEAN
          Multicast,  \* whether sessions are multicast: a subset of BOOLEAN
          MaxConn,    \* bound: connections accepted
          MaxSession, \* bound: media sessions created
          MaxPkt,     \* bound: RTP packets pushed
          MaxTrigger  \* kMaxTriggetEvents

ASSUME BoundsAssumption ==
    /\ MaxConn \in Nat /\ MaxSession \in Nat /\ MaxPkt \in Nat /\ MaxTrigger \in Nat
    /\ Fd \subseteq Nat \ {0} /\ IsFiniteSet(Fd) /\ Transport \subseteq {"tcp", "udp", "multicast"}
    /\ Auth \subseteq BOOLEAN /\ Multicast \subseteq BOOLEAN

Session == 1..MaxSession
NoSession == 0
Nobody == 0

VARIABLES
    cred,     \* SetAuthConfig was called; does not change
    smap,     \* rtsp_suffix_map_
    created,  \* media sessions created so far; ids are not used again
    sessions, \* media_sessions_
    multi,    \* sessions with is_multicast_
    clients,  \* clients_ of each session: descriptor -> connection
    conn,     \* the RtspConnections accepted
    rtp,      \* rtp_conn_ of each
    mapped,   \* connections in TcpServer::connections_
    rtcp,     \* RTCP channels in epoll: <<connection, "last">> is the one in
              \* rtcp_channels_, <<connection, "old">> one it replaced
    trig,     \* trigger events: removals and RTP packets
    timers,   \* connections whose removal is on a timer
    loop,     \* phase of the loop's thread
    ppc,      \* PushFrame: "idle", "snapshot", "send", "post"
    psess,    \* sessionPtr
    pkt,      \* packets pushed so far, the last one being in work
    pkey,     \* it belongs to a key frame
    plist,    \* clients it has still to be sent to
    held,     \* clients, the list of shared pointers
    moved,    \* history: a connection went from one session to another
    fault     \* "null", "dangling", "descriptor": what the model ends with

sessVars == <<smap, created, sessions, multi>>
connVars == <<conn, rtp, mapped, rtcp>>
loopVars == <<trig, timers, loop>>
pushVars == <<ppc, psess, pkt, pkey, plist, held>>
vars == <<cred, sessVars, clients, connVars, loopVars, pushVars, moved, fault>>

Conns == 1..Len(conn)

(* RtspConnection's constructor; answered is history: the connection has   *)
(* answered a nonce that it was sent.                                      *)
NewConn(f) == [fd |-> f, sid |-> NoSession, nonced |-> FALSE, authed |-> ~cred,
               answered |-> FALSE, closed |-> FALSE]

(* RtpConnection's constructor; is_setup is mode # "none".                 *)
NewRtp(e) == [exists |-> e, mode |-> "none", play |-> FALSE, closed |-> FALSE, key |-> FALSE]

Init ==
    /\ cred \in Auth
    /\ smap = [x \in Suffix |-> NoSession] /\ created = 0 /\ sessions = {} /\ multi = {}
    /\ clients = [s \in Session |-> [f \in Fd |-> Nobody]]
    /\ conn = <<>> /\ rtp = <<>> /\ mapped = {} /\ rtcp = {}
    /\ trig = <<>> /\ timers = {} /\ loop = "trigger"
    /\ ppc = "idle" /\ psess = NoSession /\ pkt = 0 /\ pkey = FALSE /\ plist = <<>> /\ held = {}
    /\ moved = FALSE /\ fault = "none"

(* SendRtpPacket holds the TcpConnection while it posts.                   *)
Alive(c) == c \in mapped \/ (ppc = "post" /\ c = Head(plist))

(* Who holds the RtpConnection.                                            *)
RtpAlive(c) == rtp[c].exists /\ (Alive(c) \/ c \in held)

(* What a destroyed connection leaves. *)
Destroyed(c) == [NewConn(conn[c].fd) EXCEPT !.closed = TRUE, !.authed = conn[c].authed,
                                           !.answered = conn[c].answered]

-----------------------------------------------------------------------------
(* RtspServer::AddSession and RemoveSession, from the application          *)

AddSession(x, m) ==
    /\ created < MaxSession /\ smap[x] = NoSession
    /\ created' = created + 1
    /\ smap' = [smap EXCEPT ![x] = created']
    /\ sessions' = sessions \cup {created'}
    /\ multi' = IF m THEN multi \cup {created'} ELSE multi
    /\ UNCHANGED <<cred, clients, connVars, loopVars, pushVars, moved, fault>>

(* The last shared pointer is gone. *)
DestroySession(s) ==
    /\ clients' = [clients EXCEPT ![s] = [f \in Fd |-> Nobody]]
    /\ multi' = multi \ {s}

RemoveSession(s) ==
    /\ s \in sessions
    /\ smap' = [x \in Suffix |-> IF smap[x] = s THEN NoSession ELSE smap[x]]
    /\ sessions' = sessions \ {s}
    /\ IF psess = s THEN UNCHANGED <<multi, clients>> ELSE DestroySession(s)
    /\ UNCHANGED <<cred, created, connVars, loopVars, pushVars, moved, fault>>

-----------------------------------------------------------------------------
(* The loop's thread: accepting and requests, in an epoll batch            *)

Accept(f) ==
    /\ loop = "dispatch" /\ Len(conn) < MaxConn
    /\ f \in Fd /\ \A c \in Conns : Alive(c) => conn[c].fd # f
    /\ conn' = Append(conn, NewConn(f))
    /\ rtp' = Append(rtp, NewRtp(FALSE))
    /\ mapped' = mapped \cup {Len(conn')}
    /\ UNCHANGED <<cred, sessVars, clients, rtcp, loopVars, pushVars, moved, fault>>

Readable(c) == loop = "dispatch" /\ ~conn[c].closed

(* Faulty variant: an empty nonce will do.                                 *)
BadAuthentic(c, right) == conn[c].authed \/ right

(* HandleAuthentication, with right: the request answers the nonce that    *)
(* this connection was sent last.                                          *)
Authentic(c, right) == conn[c].authed \/ (conn[c].nonced /\ right)

Authenticated(c) == [conn[c] EXCEPT !.nonced = FALSE, !.authed = TRUE,
                                     !.answered = @ \/ conn[c].nonced]

(* BuildUnauthorizedRes with a new nonce.                                  *)
Challenge(c) ==
    /\ conn' = [conn EXCEPT ![c].nonced = TRUE]
    /\ UNCHANGED <<clients, rtp, rtcp, moved, fault>>

(* AddClient leaves an entry that is there, expired or not.                *)
AddClient(s, c) ==
    IF clients[s][conn[c].fd] = Nobody THEN [clients EXCEPT ![s][conn[c].fd] = c] ELSE clients

HandleCmdDescribe(c, x, right) ==
    /\ Readable(c)
    /\ IF Authentic(c, right)
         THEN LET s == smap[x] IN
              /\ rtp' = IF rtp[c].exists THEN rtp ELSE [rtp EXCEPT ![c] = NewRtp(TRUE)]
              /\ conn' = [conn EXCEPT ![c] = [Authenticated(c) EXCEPT
                                                !.sid = IF s = NoSession THEN @ ELSE s]]
              /\ clients' = IF s = NoSession THEN clients ELSE AddClient(s, c)
              /\ moved' = (moved \/ (s # NoSession /\ conn[c].sid \notin {NoSession, s}))
              /\ UNCHANGED <<rtcp, fault>>
         ELSE Challenge(c)
    /\ UNCHANGED <<cred, sessVars, mapped, loopVars, pushVars>>

(* LookMediaSession(session_id_) *)
SetupSession(c, x) == IF conn[c].sid \in sessions THEN conn[c].sid ELSE NoSession

(* The transport is one the session has. *)
Supported(s, t) == t = "multicast" <=> s \in multi

(* SetupRtpOverTcp, SetupRtpOverUdp or SetupRtpOverMulticast; with ok      *)
(* false no port could be bound.  A UDP setup registers an RTCP channel.   *)
SetupRtp(c, t, ok) ==
    IF t # "tcp" /\ ~ok
      THEN /\ conn' = [conn EXCEPT ![c] = Authenticated(c)]
           /\ UNCHANGED <<rtp, rtcp>>
      ELSE /\ rtp' = [rtp EXCEPT ![c].mode = t]
           /\ conn' = [conn EXCEPT ![c] = Authenticated(c)]
           /\ rtcp' = IF t # "udp" THEN rtcp
                      ELSE rtcp \cup {<<c, "last">>}
                             \cup (IF <<c, "last">> \in rtcp THEN {<<c, "old">>} ELSE {})

(* rtp_conn_ is used without a test.                                       *)
HandleCmdSetup(c, x, t, right, ok) ==
    /\ Readable(c)
    /\ LET s == SetupSession(c, x) IN
       CASE ~Authentic(c, right) -> Challenge(c)
         [] Authentic(c, right) /\ (s = NoSession \/ ~Supported(s, t)) ->
              /\ conn' = [conn EXCEPT ![c] = Authenticated(c)]
              /\ UNCHANGED <<rtp, rtcp, fault>>
         [] Authentic(c, right) /\ s # NoSession /\ Supported(s, t) ->
              IF rtp[c].exists THEN SetupRtp(c, t, ok) /\ UNCHANGED fault
                               ELSE fault' = "null" /\ UNCHANGED <<conn, rtp, rtcp>>
    /\ UNCHANGED <<cred, sessVars, clients, mapped, loopVars, pushVars, moved>>

HandleCmdPlay(c, right) ==
    /\ Readable(c)
    /\ IF Authentic(c, right)
         THEN /\ conn' = [conn EXCEPT ![c] = Authenticated(c)]
              /\ rtp' = [rtp EXCEPT ![c].play = @ \/ (rtp[c].exists /\ rtp[c].mode # "none")]
              /\ UNCHANGED <<clients, rtcp, moved, fault>>
         ELSE Challenge(c)
    /\ UNCHANGED <<cred, sessVars, mapped, loopVars, pushVars>>

(* RtpConnection::Teardown *)
Teardown(r) == IF r.closed THEN r ELSE [r EXCEPT !.closed = TRUE, !.play = FALSE]

HandleCmdTeardown(c) ==
    /\ Readable(c) /\ rtp[c].exists
    /\ rtp' = [rtp EXCEPT ![c] = Teardown(@)]
    /\ UNCHANGED <<cred, sessVars, clients, conn, mapped, rtcp, loopVars, pushVars, moved, fault>>

-----------------------------------------------------------------------------
(* Closing and destroying a connection *)

(* Faulty variant: RemoveClient is forgotten.                              *)
BadRemoveClient(c) == clients

(* OnClose: RemoveClient, if the session is still there.                   *)
RemoveClient(c) ==
    IF conn[c].sid \in sessions THEN [clients EXCEPT ![conn[c].sid][conn[c].fd] = Nobody]
                                ELSE clients

(* AddTriggerEvent: "refused" returns false, "dropped" returns true,       *)
(* although the queue had become full when Push came to it.                *)
Outcome == {"stored", "refused", "dropped"}

Post(q, e, out) ==
    /\ out = "stored" => Len(q) < MaxTrigger
    /\ trig' = IF out = "stored" THEN Append(q, e) ELSE q

(* Faulty variant: a refused removal is carried out at once.               *)
BadRemoval(c, q, out) ==
    /\ Post(q, [what |-> "remove", c |-> c], out)
    /\ mapped' = IF out = "refused" THEN mapped \ {c} ELSE mapped
    /\ UNCHANGED timers

(* The disconnect callback of TcpServer.                                   *)
Removal(c, q, out) ==
    /\ Post(q, [what |-> "remove", c |-> c], out)
    /\ timers' = IF out = "refused" THEN timers \cup {c} ELSE timers
    /\ UNCHANGED mapped

(* Faulty variant: the RTCP channel stays in epoll.                        *)
BadRemoveRtcp(c) == rtcp

(* OnClose removes the RTCP channel it knows of.                           *)
RemoveRtcp(c) == rtcp \ {<<c, "last">>}

(* TcpConnection::Close with OnClose, q being the pending trigger events.  *)
Close(c, q, out) ==
    /\ conn' = [conn EXCEPT ![c].closed = TRUE]
    /\ clients' = RemoveClient(c)
    /\ rtcp' = RemoveRtcp(c)
    /\ Removal(c, q, out)

HangUp(c, out) ==
    /\ Readable(c)
    /\ Close(c, trig, out)
    /\ UNCHANGED <<cred, sessVars, rtp, loop, pushVars, moved, fault>>

(* RemoveConnection: the destructors run unless the pushing thread holds   *)
(* the connection, or its RtpConnection.                                   *)
RemoveConnection(c) ==
    /\ mapped' = mapped \ {c}
    /\ conn' = IF ppc = "post" /\ c = Head(plist) THEN conn
                                                 ELSE [conn EXCEPT ![c] = Destroyed(c)]
    /\ rtp' = IF c \in held THEN rtp ELSE [rtp EXCEPT ![c] = NewRtp(FALSE)]

(* As a trigger event or on a timer.                                       *)
RunRemove ==
    /\ loop = "trigger" /\ trig # <<>> /\ Head(trig).what = "remove"
    /\ RemoveConnection(Head(trig).c)
    /\ trig' = Tail(trig)
    /\ UNCHANGED <<cred, sessVars, clients, rtcp, timers, loop, pushVars, moved, fault>>

RunTimer(c) ==
    /\ loop = "timers" /\ c \in timers
    /\ timers' = timers \ {c}
    /\ RemoveConnection(c)
    /\ UNCHANGED <<cred, sessVars, clients, rtcp, trig, loop, pushVars, moved, fault>>

NextPhase ==
    /\ loop = "trigger" => trig = <<>>
    /\ loop' = [trigger |-> "timers", timers |-> "dispatch", dispatch |-> "trigger"][loop]
    /\ UNCHANGED <<cred, sessVars, clients, connVars, trig, timers, pushVars, moved,
                   fault>>

-----------------------------------------------------------------------------
(* The event that SendRtpPacket has posted *)

(* SetFrameType *)
Typed(r, key) == [r EXCEPT !.key = @ \/ key]

(* sent is what sendto or the socket says.                                 *)
RunRtp(sent, out) ==
    /\ loop = "trigger" /\ trig # <<>> /\ Head(trig).what = "rtp"
    /\ LET e == Head(trig)
           c == e.c
           r == Typed(rtp[c], e.key)
       IN  CASE ~RtpAlive(c) ->
                  /\ fault' = "dangling" /\ trig' = Tail(trig)
                  /\ UNCHANGED <<clients, connVars, timers>>
             [] RtpAlive(c) /\ ~(r.play /\ r.key) ->
                  /\ rtp' = [rtp EXCEPT ![c] = r] /\ trig' = Tail(trig)
                  /\ UNCHANGED <<clients, conn, mapped, rtcp, timers, fault>>
             [] RtpAlive(c) /\ r.play /\ r.key /\ r.mode # "tcp" ->
                  /\ rtp' = [rtp EXCEPT ![c] = IF sent THEN r ELSE Teardown(r)]
                  /\ trig' = Tail(trig)
                  /\ UNCHANGED <<clients, conn, mapped, rtcp, timers, fault>>
             [] RtpAlive(c) /\ r.play /\ r.key /\ r.mode = "tcp" ->
                  /\ rtp' = [rtp EXCEPT ![c] = r]
                  /\ IF Alive(c) /\ ~conn[c].closed /\ ~sent
                       THEN Close(c, Tail(trig), out)
                       ELSE trig' = Tail(trig) /\ UNCHANGED <<clients, conn, mapped, rtcp, timers>>
                  /\ UNCHANGED fault
    /\ UNCHANGED <<cred, sessVars, loop, pushVars, moved>>

-----------------------------------------------------------------------------
(* The pushing thread *)

(* RtspServer::PushFrame: not without clients.                             *)
PushFrame(s, key) ==
    /\ ppc = "idle" /\ s \in sessions
    /\ \E f \in Fd : clients[s][f] # Nobody
    /\ ppc' = "snapshot" /\ psess' = s /\ pkey' = key
    /\ UNCHANGED <<cred, sessVars, clients, connVars, loopVars, pkt, plist, held, moved,
                   fault>>

(* The send callback of AddSource copies the packet and lists the clients, *)
(* the highest descriptor first; expired entries are erased.               *)
Snapshot ==
    /\ ppc = "snapshot" /\ pkt < MaxPkt
    /\ LET live == {f \in Fd : clients[psess][f] # Nobody /\ RtpAlive(clients[psess][f])}
           n == Cardinality(live)
       IN  /\ clients' = [clients EXCEPT ![psess] =
                            [f \in Fd |-> IF f \in live THEN @[f] ELSE Nobody]]
           /\ \E fds \in [1..n -> live] :
                /\ \A i, j \in 1..n : i < j => fds[i] > fds[j]
                /\ plist' = [i \in 1..n |-> clients[psess][fds[i]]]
           /\ held' = {clients[psess][f] : f \in live}
    /\ pkt' = pkt + 1
    /\ ppc' = "send"
    /\ UNCHANGED <<cred, sessVars, connVars, loopVars, psess, pkey, moved, fault>>

(* GetId, then SendRtpPacket up to the lock of the weak pointer.           *)
SendRtpPacket ==
    /\ ppc = "send" /\ plist # <<>>
    /\ LET c == Head(plist) IN
       IF c \in mapped /\ ~rtp[c].closed
         THEN ppc' = "post" /\ UNCHANGED plist
         ELSE plist' = Tail(plist) /\ UNCHANGED ppc
    /\ UNCHANGED <<cred, sessVars, clients, connVars, loopVars, psess, pkt, pkey, held, moved,
                   fault>>

(* A multicast packet goes to the first client for which AddTriggerEvent   *)
(* returns true.                                                           *)
Left(out) == IF out # "refused" /\ psess \in multi THEN <<>> ELSE Tail(plist)

(* AddTriggerEvent; late says that the connection is closed by now.  It is *)
(* destroyed here if it was removed meanwhile.                             *)
PostPacket(out) ==
    /\ ppc = "post"
    /\ LET c == Head(plist) IN
       /\ Post(trig, [what |-> "rtp", c |-> c, pkt |-> pkt, key |-> pkey,
                      late |-> conn[c].closed], out)
       /\ conn' = IF c \in mapped THEN conn ELSE [conn EXCEPT ![c] = Destroyed(c)]
    /\ plist' = Left(out)
    /\ ppc' = "send"
    /\ UNCHANGED <<cred, sessVars, clients, rtp, mapped, rtcp, timers, loop, psess, pkt, pkey, held,
                   moved, fault>>

(* The list of clients is destroyed, and with it the RtpConnections whose  *)
(* RtspConnection is gone: over TCP they close the connection's descriptor *)
(* once more, whoever has it now.                                          *)
PacketDone(more) ==
    /\ ppc = "send" /\ plist = <<>>
    /\ held' = {}
    /\ fault' = IF \E c \in held, d \in Conns :
                        /\ ~Alive(c) /\ rtp[c].mode = "tcp"
                        /\ Alive(d) /\ conn[d].fd = conn[c].fd
                  THEN "descriptor" ELSE fault
    /\ rtp' = [c \in Conns |-> IF c \in held \ mapped THEN NewRtp(FALSE) ELSE rtp[c]]
    /\ IF more THEN /\ ppc' = "snapshot" /\ UNCHANGED <<psess, pkey, multi, clients>>
               ELSE /\ ppc' = "idle" /\ psess' = NoSession /\ pkey' = FALSE
                    /\ IF psess \in sessions THEN UNCHANGED <<multi, clients>>
                                             ELSE DestroySession(psess)
    /\ UNCHANGED <<cred, smap, created, sessions, conn, mapped, rtcp, loopVars, pkt, plist, moved>>

-----------------------------------------------------------------------------
Request(c) ==
    \/ \E x \in Suffix, right \in BOOLEAN : HandleCmdDescribe(c, x, right)
    \/ \E x \in Suffix, t \in Transport, right, ok \in BOOLEAN : HandleCmdSetup(c, x, t, right, ok)
    \/ \E right \in BOOLEAN : HandleCmdPlay(c, right)
    \/ HandleCmdTeardown(c)

Loop ==
    \/ \E f \in Fd : Accept(f)
    \/ \E c \in Conns : Request(c) \/ (\E out \in Outcome : HangUp(c, out)) \/ RunTimer(c)
    \/ RunRemove \/ (\E sent \in BOOLEAN, out \in Outcome : RunRtp(sent, out))
    \/ NextPhase

Push ==
    \/ \E s \in Session, key \in BOOLEAN : PushFrame(s, key)
    \/ Snapshot \/ SendRtpPacket
    \/ (\E out \in Outcome : PostPacket(out)) \/ (\E more \in BOOLEAN : PacketDone(more))

App ==
    \/ \E x \in Suffix, m \in Multicast : AddSession(x, m)
    \/ \E s \in Session : RemoveSession(s)

Next == fault = "none" /\ (Loop \/ Push \/ App)

Spec == Init /\ [][Next]_vars

-----------------------------------------------------------------------------
(* Properties *)

Events == [what : {"remove"}, c : Conns]
            \cup [what : {"rtp"}, c : Conns, pkt : 1..pkt, key : BOOLEAN, late : BOOLEAN]

(* Maps, queues and flags hold what they are declared for.                 *)
TypeOK ==
    /\ cred \in BOOLEAN /\ created \in 0..MaxSession
    /\ smap \in [Suffix -> 0..created] /\ sessions \subseteq 1..created
    /\ multi \subseteq 1..created
    /\ clients \in [Session -> [Fd -> 0..Len(conn)]]
    /\ conn \in Seq([fd : Fd, sid : 0..created, nonced : BOOLEAN, authed : BOOLEAN,
                     answered : BOOLEAN, closed : BOOLEAN])
    /\ rtp \in Seq([exists : BOOLEAN, mode : Transport \cup {"none"}, play : BOOLEAN,
                    closed : BOOLEAN, key : BOOLEAN])
    /\ Len(rtp) = Len(conn) /\ Len(conn) <= MaxConn
    /\ mapped \subseteq Conns /\ rtcp \subseteq Conns \X {"last", "old"}
    /\ trig \in Seq(Events) /\ Len(trig) <= MaxTrigger /\ timers \subseteq Conns
    /\ loop \in {"trigger", "timers", "dispatch"}
    /\ ppc \in {"idle", "snapshot", "send", "post"} /\ psess \in 0..created
    /\ pkt \in 0..MaxPkt /\ pkey \in BOOLEAN /\ plist \in Seq(Conns) /\ held \subseteq Conns
    /\ moved \in BOOLEAN
    /\ fault \in {"none", "null", "dangling", "descriptor"}

(* With credentials configured, a connection that has not answered a nonce *)
(* of its own is never given a session or an RtpConnection, and so neither *)
(* plays nor is listed, although TEARDOWN asks for no credentials.         *)
AuthFirst ==
    cred => \A c \in Conns : ~conn[c].answered =>
        /\ conn[c].sid = NoSession /\ ~rtp[c].exists /\ ~rtp[c].play
        /\ \A s \in Session, f \in Fd : clients[s][f] # c

(* The raw this of a posted RTP event is valid, if the event was posted    *)
(* before the connection closed: it comes before the removal in the queue, *)
(* or the removal's timer waits for the queue.                             *)
RtpEventValid ==
    \A n \in 1..Len(trig) : trig[n].what = "rtp" /\ ~trig[n].late => RtpAlive(trig[n].c)

(* So is the one of the RTCP channel that a client's last UDP setup has    *)
(* registered; a channel that an earlier setup registered may dangle.      *)
RtcpChannelValid == \A c \in Conns : <<c, "last">> \in rtcp => Alive(c)

(* The clients of a session that can be looked up are its open connections,*)
(* under their own descriptors; not so once a connection has described a   *)
(* second session, which leaves its entry in the first.  A client that     *)
(* sends SETUP for its session has an RtpConnection, which HandleCmdSetup  *)
(* uses without a test.                                                    *)
Membership ==
    /\ fault # "null"
    /\ ~moved =>
        \A s \in sessions, f \in Fd, c \in Conns :
            clients[s][f] = c <=> conn[c].sid = s /\ conn[c].fd = f /\ ~conn[c].closed
=============================================================================
