-------------------------- MODULE RtspSession_proofs --------------------------
(***************************************************************************)
(* Proofs about RtspSession, for any descriptors, suffixes and transports, *)
(* and any number of connections, sessions, packets and trigger events.    *)
(***************************************************************************)
EXTENDS RtspSession, FiniteSetTheorems, SequenceTheorems, TLAPS

(* PushFrame works on a session, and the clients it has still to serve are *)
(* among those whose RtpConnection it holds.                               *)
Pushing ==
    /\ ppc # "idle" => psess # NoSession
    /\ ppc = "post" => plist # <<>>
    /\ ppc \in {"send", "post"} => pkt # 0
    /\ \A n \in 1..Len(plist) : plist[n] \in held
    /\ \A c \in held : rtp[c].exists

(* Suffixes lead to sessions that exist; ids not yet given out have no     *)
(* clients.                                                                *)
Registered ==
    /\ \A x \in Suffix : smap[x] \in sessions \cup {NoSession}
    /\ \A s \in Session : s > created => \A f \in Fd : clients[s][f] = Nobody

(* An open connection is in connections_, has its RtpConnection once it    *)
(* has a session, and shares its descriptor with no other open one; only   *)
(* open ones have a last RTCP channel.                                     *)
Open ==
    /\ \A c \in Conns : ~conn[c].closed =>
         /\ c \in mapped
         /\ conn[c].sid # NoSession => rtp[c].exists
         /\ \A d \in Conns : ~conn[d].closed /\ conn[c].fd = conn[d].fd => c = d
    /\ \A c \in Conns : <<c, "last">> \in rtcp => ~conn[c].closed

(* A removal is pending only for a closed connection.                      *)
Removing(q) ==
    /\ \A c \in timers : conn[c].closed
    /\ \A n \in 1..Len(q) : q[n].what = "remove" => conn[q[n].c].closed

(* Packet n of the queue was posted while its connection was open.         *)
Early(q, n) == n \in 1..Len(q) /\ q[n].what = "rtp" /\ ~q[n].late

(* Such a packet's connection is still in connections_: the removal comes  *)
(* after it in the queue, or is on a timer, which the queue comes before.  *)
Packets(q) ==
    /\ \A n \in 1..Len(q) : Early(q, n) => q[n].c \in mapped /\ rtp[q[n].c].exists
    /\ \A m, n \in 1..Len(q) :
         m < n /\ q[m].what = "remove" /\ Early(q, n) => q[m].c # q[n].c
    /\ loop = "timers" => \A n \in 1..Len(q) : Early(q, n) => q[n].c \notin timers

(* With credentials, to be authenticated is to have answered a nonce.      *)
Answered == cred => \A c \in Conns : conn[c].authed => conn[c].answered

IInv ==
    /\ TypeOK /\ Pushing /\ Registered /\ Open /\ Removing(trig) /\ Packets(trig)
    /\ Answered /\ AuthFirst /\ Membership

-----------------------------------------------------------------------------
(* Facts about the state *)

ConnRec(n) == [fd : Fd, sid : 0..n, nonced : BOOLEAN, authed : BOOLEAN,
               answered : BOOLEAN, closed : BOOLEAN]

RtpRec == [exists : BOOLEAN, mode : Transport \cup {"none"}, play : BOOLEAN,
           closed : BOOLEAN, key : BOOLEAN]

(* The fields of a connection and of its RtpConnection.                    *)
LEMMA Typing ==
  ASSUME TypeOK
  PROVE  /\ Len(conn) \in Nat /\ Len(rtp) = Len(conn) /\ created \in Nat /\ pkt \in Nat
         /\ conn \in Seq(ConnRec(created)) /\ rtp \in Seq(RtpRec)
         /\ \A c \in Conns :
              /\ conn[c] \in ConnRec(created) /\ rtp[c] \in RtpRec
              /\ conn[c].fd \in Fd /\ conn[c].sid \in 0..created
              /\ conn[c].nonced \in BOOLEAN /\ conn[c].authed \in BOOLEAN
              /\ conn[c].answered \in BOOLEAN /\ conn[c].closed \in BOOLEAN
              /\ rtp[c].exists \in BOOLEAN /\ rtp[c].mode \in Transport \cup {"none"}
              /\ rtp[c].play \in BOOLEAN /\ rtp[c].closed \in BOOLEAN /\ rtp[c].key \in BOOLEAN
<1>1. conn \in Seq(ConnRec(created)) /\ rtp \in Seq(RtpRec) /\ Len(rtp) = Len(conn)
  BY DEF TypeOK, ConnRec, RtpRec
<1>2. \A c \in Conns : conn[c] \in ConnRec(created) /\ rtp[c] \in RtpRec
  BY <1>1 DEF Conns
<1>3. created \in Nat /\ pkt \in Nat /\ Len(conn) \in Nat
  BY <1>1, BoundsAssumption DEF TypeOK
<1> QED
  BY <1>1, <1>2, <1>3 DEF ConnRec, RtpRec

(* The initial states satisfy the invariant.                               *)
LEMMA InitIInv == Init => IInv
<1> SUFFICES ASSUME Init PROVE IInv
  OBVIOUS
<1> USE BoundsAssumption DEF Init
<1>1. /\ conn = <<>> /\ rtp = <<>> /\ trig = <<>> /\ plist = <<>>
      /\ Len(conn) = 0 /\ Len(rtp) = 0 /\ Len(trig) = 0 /\ Len(plist) = 0 /\ Conns = {}
  BY DEF Conns
<1>2. TypeOK
  <2>1. /\ conn \in Seq(ConnRec(created)) /\ rtp \in Seq(RtpRec)
        /\ trig \in Seq(Events) /\ plist \in Seq(Conns)
    BY <1>1
  <2>2. clients \in [Session -> [Fd -> 0..Len(conn)]]
    BY <1>1 DEF Nobody
  <2>3. smap \in [Suffix -> 0..created]
    BY <1>1 DEF NoSession
  <2>4. cred \in BOOLEAN /\ created \in 0..MaxSession /\ pkt \in 0..MaxPkt
        /\ psess \in 0..created
    BY DEF NoSession
  <2>5. /\ sessions \subseteq 1..created /\ multi \subseteq 1..created
        /\ mapped \subseteq Conns /\ rtcp \subseteq Conns \X {"last", "old"}
        /\ timers \subseteq Conns /\ held \subseteq Conns
    OBVIOUS
  <2>6. /\ loop \in {"trigger", "timers", "dispatch"}
        /\ ppc \in {"idle", "snapshot", "send", "post"}
        /\ pkey \in BOOLEAN /\ moved \in BOOLEAN
        /\ fault \in {"none", "null", "dangling", "descriptor"}
    OBVIOUS
  <2>7. Len(rtp) = Len(conn) /\ Len(conn) <= MaxConn /\ Len(trig) <= MaxTrigger
    BY <1>1
  <2> HIDE DEF Init
  <2> QED
    BY <2>1, <2>2, <2>3, <2>4, <2>5, <2>6, <2>7 DEF TypeOK, ConnRec, RtpRec
<1>3. Pushing /\ Registered /\ Open
  BY <1>1 DEF Pushing, Registered, Open, Session
<1>4. Removing(trig) /\ Packets(trig)
  BY <1>1 DEF Removing, Packets
<1>5. Answered /\ AuthFirst /\ Membership
  BY <1>1 DEF Answered, AuthFirst, Membership
<1> QED
  BY <1>2, <1>3, <1>4, <1>5 DEF IInv

(* The parts of the type invariant.                                        *)
TypeSess ==
    /\ cred \in BOOLEAN /\ created \in 0..MaxSession
    /\ smap \in [Suffix -> 0..created] /\ sessions \subseteq 1..created
    /\ multi \subseteq 1..created

TypeConn ==
    /\ clients \in [Session -> [Fd -> 0..Len(conn)]]
    /\ conn \in Seq(ConnRec(created)) /\ rtp \in Seq(RtpRec)
    /\ Len(rtp) = Len(conn) /\ Len(conn) <= MaxConn
    /\ mapped \subseteq Conns /\ rtcp \subseteq Conns \X {"last", "old"}

TypeLoop ==
    /\ trig \in Seq(Events) /\ Len(trig) <= MaxTrigger /\ timers \subseteq Conns
    /\ loop \in {"trigger", "timers", "dispatch"}

TypePush ==
    /\ ppc \in {"idle", "snapshot", "send", "post"} /\ psess \in 0..created
    /\ pkt \in 0..MaxPkt /\ pkey \in BOOLEAN /\ plist \in Seq(Conns) /\ held \subseteq Conns

TypeHist ==
    /\ moved \in BOOLEAN
    /\ fault \in {"none", "null", "dangling", "descriptor"}

(* The type invariant, part by part.                                       *)
LEMMA TypeParts == TypeOK <=> TypeSess /\ TypeConn /\ TypeLoop /\ TypePush /\ TypeHist
BY DEF TypeOK, TypeSess, TypeConn, TypeLoop, TypePush, TypeHist, ConnRec, RtpRec

(* What the queue and the pushing thread hold is still of its type when    *)
(* only fields of connections change.                                      *)
LEMMA SameShape ==
  ASSUME TypeOK, Len(conn') = Len(conn), UNCHANGED <<pkt, created>>
  PROVE  /\ Conns' = Conns /\ Events' = Events
         /\ UNCHANGED <<cred, smap, sessions, multi>> => TypeSess'
         /\ UNCHANGED <<trig, timers, loop>> => TypeLoop'
         /\ UNCHANGED <<ppc, psess, pkey, plist, held>> => TypePush'
<1>1. Conns' = Conns
  BY DEF Conns
<1>2. Events' = Events
  BY <1>1 DEF Events
<1> QED
  BY <1>1, <1>2, TypeParts DEF TypeSess, TypeLoop, TypePush

(* The fields of a trigger event.                                          *)
LEMMA EventFields ==
  ASSUME NEW q \in Seq(Events)
  PROVE  \A n \in 1..Len(q) :
           /\ q[n].what \in {"remove", "rtp"} /\ q[n].c \in Conns
           /\ q[n].what = "rtp" =>
                q[n].pkt \in 1..pkt /\ q[n].key \in BOOLEAN /\ q[n].late \in BOOLEAN
<1> TAKE n \in 1..Len(q)
<1>1. q[n] \in Events
  OBVIOUS
<1> QED
  BY <1>1 DEF Events

(* One entry of the clients' tables is set.                                *)
LEMMA SetEntry ==
  ASSUME NEW n \in Nat, NEW t \in [Session -> [Fd -> 0..n]], NEW s \in Session, NEW f \in Fd,
         NEW e \in 0..n
  PROVE  /\ [t EXCEPT ![s][f] = e] \in [Session -> [Fd -> 0..n]]
         /\ \A z \in Session, g \in Fd :
              [t EXCEPT ![s][f] = e][z][g] = IF z = s /\ g = f THEN e ELSE t[z][g]
OBVIOUS

(* Sessions that were created are in range.                                *)
LEMMA SessionRange ==
  ASSUME TypeOK PROVE sessions \subseteq Session /\ 1..created \subseteq Session /\ NoSession \notin sessions
BY BoundsAssumption DEF TypeOK, Session, NoSession

-----------------------------------------------------------------------------
(* Requests *)

(* What a request may do: connection c stays open, with its descriptor;    *)
(* k and r are its new records, s the session it is listed in from now on, *)
(* if any.                                                                 *)
Serves(c, k, r, s) ==
    /\ conn' = [conn EXCEPT ![c] = k] /\ rtp' = [rtp EXCEPT ![c] = r]
    /\ k.fd = conn[c].fd /\ ~k.closed
    /\ conn[c].answered => k.answered
    /\ cred /\ k.authed => k.answered
    /\ rtp[c].exists => r.exists
    /\ k.sid # NoSession => r.exists
    /\ cred /\ ~k.answered => k.sid = NoSession /\ ~r.exists /\ ~r.play
    /\ rtcp' \subseteq rtcp \cup {<<c, "last">>, <<c, "old">>}
    /\ IF s = NoSession
         THEN k.sid = conn[c].sid /\ clients' = clients /\ moved' = moved
         ELSE /\ k.sid = s /\ s \in sessions /\ (cred => k.answered)
              /\ clients' = AddClient(s, c)
              /\ moved' = (moved \/ conn[c].sid \notin {NoSession, s})
    /\ fault' = fault
    /\ UNCHANGED <<cred, sessVars, mapped, loopVars, pushVars>>

(* Such a request preserves the invariant.                                 *)
LEMMA ServesIInv ==
  ASSUME IInv, NEW c \in Conns, ~conn[c].closed, NEW k \in ConnRec(created), NEW r \in RtpRec,
         NEW s \in 0..created, Serves(c, k, r, s)
  PROVE  IInv'
<1> USE DEF sessVars, loopVars, pushVars
<1>0. TypeOK /\ Pushing /\ Registered /\ Open /\ Removing(trig) /\ Packets(trig)
      /\ Answered /\ AuthFirst /\ Membership
  BY DEF IInv
<1>1. /\ conn' \in Seq(ConnRec(created)) /\ Len(conn') = Len(conn) /\ conn'[c] = k
      /\ \A d \in Conns : d # c => conn'[d] = conn[d]
      /\ rtp' \in Seq(RtpRec) /\ Len(rtp') = Len(conn) /\ rtp'[c] = r
      /\ \A d \in Conns : d # c => rtp'[d] = rtp[d]
  BY <1>0, Typing, ExceptSeq DEF Serves, Conns
<1>2. UNCHANGED <<cred, smap, created, sessions, multi, mapped, trig, timers, loop, ppc, psess,
                  pkt, pkey, plist, held, fault>>
  BY DEF Serves
<1>3. Conns' = Conns /\ Events' = Events /\ TypeSess' /\ TypeLoop' /\ TypePush'
  BY <1>0, <1>1, <1>2, SameShape
<1>4. clients' \in [Session -> [Fd -> 0..Len(conn)]]
      /\ \A z \in Session, f \in Fd :
           clients'[z][f] = IF s # NoSession /\ z = s /\ f = conn[c].fd /\ clients[z][f] = Nobody
                            THEN c ELSE clients[z][f]
  <2>1. clients \in [Session -> [Fd -> 0..Len(conn)]] /\ c \in 0..Len(conn)
    BY <1>0, Typing DEF TypeOK, Conns
  <2>2. CASE s = NoSession
    BY <2>1, <2>2 DEF Serves
  <2>3. CASE s # NoSession
    <3>1. s \in Session /\ conn[c].fd \in Fd /\ clients' = AddClient(s, c)
      BY <1>0, <2>3, Typing, SessionRange DEF Serves
    <3>2. CASE clients[s][conn[c].fd] = Nobody
      <4>1. clients' = [clients EXCEPT ![s][conn[c].fd] = c]
        BY <3>1, <3>2 DEF AddClient
      <4> QED
        BY <1>0, <2>1, <2>3, <3>1, <3>2, <4>1, Typing, SetEntry
    <3>3. CASE clients[s][conn[c].fd] # Nobody
      BY <2>1, <3>1, <3>3 DEF AddClient
    <3> QED
      BY <3>2, <3>3
  <2> QED
    BY <2>2, <2>3
<1>5. TypeOK'
  <2>1. TypeConn'
    BY <1>0, <1>1, <1>2, <1>3, <1>4, TypeParts DEF TypeConn, Serves
  <2>2. TypeHist'
    BY <1>0, <1>2, TypeParts DEF TypeHist, Serves
  <2> QED
    BY <1>3, <2>1, <2>2, TypeParts DEF TypeOK, TypeSess, TypeConn, TypeLoop, TypePush, TypeHist, ConnRec, RtpRec
<1>6. Pushing' /\ Registered'
  <2>1. Pushing'
    BY <1>0, <1>1, <1>2, <1>3 DEF Pushing, Serves, TypeOK
  <2>2. Registered'
    <3>1. ASSUME NEW z \in Session, z > created, NEW f \in Fd PROVE clients'[z][f] = Nobody
      <4>1. z # s
        BY <1>0, <3>1, Typing DEF Session
      <4> QED
        BY <1>0, <1>4, <3>1, <4>1 DEF Registered
    <3> QED
      BY <1>0, <1>2, <3>1 DEF Registered
  <2> QED
    BY <2>1, <2>2
<1>7. Open'
  BY <1>0, <1>1, <1>2, <1>3 DEF Open, Serves
<1>8. Removing(trig)' /\ Packets(trig)'
  <2>1. \A n \in 1..Len(trig) : trig[n].c \in Conns
    BY <1>0, EventFields DEF TypeOK
  <2>2. /\ \A d \in Conns : conn'[d].closed = conn[d].closed
        /\ \A d \in Conns : rtp[d].exists => rtp'[d].exists
    BY <1>1, Typing, <1>0 DEF Serves, ConnRec
  <2>3. Removing(trig)'
    BY <1>0, <1>2, <2>1, <2>2 DEF Removing, TypeOK
  <2>4. Packets(trig)'
    BY <1>0, <1>2, <2>1, <2>2 DEF Packets, Early
  <2> QED
    BY <2>3, <2>4
<1>9. Answered'
  BY <1>0, <1>1, <1>2, <1>3 DEF Answered, Serves
<1>10. AuthFirst'
  <2> SUFFICES ASSUME cred, NEW d \in Conns, ~conn'[d].answered
               PROVE  /\ conn'[d].sid = NoSession /\ ~rtp'[d].exists /\ ~rtp'[d].play
                      /\ \A z \in Session, f \in Fd : clients'[z][f] # d
    BY <1>2, <1>3 DEF AuthFirst
  <2>1. ~conn[d].answered
    BY <1>1 DEF Serves
  <2>2. conn'[d].sid = NoSession /\ ~rtp'[d].exists /\ ~rtp'[d].play
    BY <1>0, <1>1, <2>1 DEF AuthFirst, Serves
  <2>3. d = c => s = NoSession
    BY <1>1 DEF Serves
  <2>4. \A z \in Session, f \in Fd : clients'[z][f] # d
    BY <1>0, <1>4, <2>1, <2>3 DEF AuthFirst
  <2> QED
    BY <2>2, <2>4
<1>11. Membership'
  <2> SUFFICES ASSUME ~moved', NEW z \in sessions, NEW f \in Fd, NEW d \in Conns
               PROVE  clients'[z][f] = d <=>
                        conn'[d].sid = z /\ conn'[d].fd = f /\ ~conn'[d].closed
    BY <1>0, <1>2, <1>3 DEF Membership
  <2>0. ~moved
    BY Zenon DEF Serves
  <2>1. ~moved /\ z \in Session /\ z # NoSession /\ c # Nobody /\ d # Nobody
    BY <1>0, <2>0, Typing, SessionRange DEF Conns, Nobody
  <2>2. \A e \in Conns : clients[z][f] = e <=>
                           conn[e].sid = z /\ conn[e].fd = f /\ ~conn[e].closed
    BY <1>0, <2>1 DEF Membership
  <2>3. CASE s = NoSession
    BY <1>1, <1>4, <2>2, <2>3 DEF Serves
  <2>4. CASE s # NoSession /\ (z # s \/ f # conn[c].fd)
    <3>1. clients'[z][f] = clients[z][f]
      BY <1>4, <2>1, <2>4
    <3>2. conn[c].sid \in {NoSession, s} /\ conn'[c].sid = s /\ conn'[c].fd = conn[c].fd
      BY <1>1, <2>4 DEF Serves
    <3>3. CASE d = c
      BY <2>1, <2>2, <2>4, <3>1, <3>2, <3>3
    <3>4. CASE d # c
      BY <1>1, <2>2, <3>1, <3>4
    <3> QED
      BY <3>3, <3>4
  <2>5. CASE z = s /\ f = conn[c].fd
    <3>1. conn'[c].sid = z /\ conn'[c].fd = f /\ ~conn'[c].closed
      BY <1>1, <2>1, <2>5 DEF Serves
    <3>2. clients'[z][f] = c
      <4>1. CASE clients[z][f] = Nobody
        BY <1>4, <2>1, <2>5, <4>1
      <4>2. CASE clients[z][f] # Nobody
        <5>1. PICK e \in Conns : clients[z][f] = e
          BY <1>0, <2>1, <4>2 DEF TypeOK, Conns, Nobody
        <5>2. e = c
          BY <1>0, <2>2, <2>5, <5>1 DEF Open
        <5> QED
          BY <1>4, <2>1, <5>1, <5>2
      <4> QED
        BY <4>1, <4>2
    <3>3. d # c => ~(conn'[d].sid = z /\ conn'[d].fd = f /\ ~conn'[d].closed)
      <4> SUFFICES ASSUME d # c, conn'[d].fd = f, ~conn'[d].closed PROVE FALSE
        OBVIOUS
      <4>1. conn[d].fd = conn[c].fd /\ ~conn[d].closed
        BY <1>1, <2>5
      <4> QED
        BY <1>0, <4>1 DEF Open
    <3> QED
      BY <3>1, <3>2, <3>3
  <2> QED
    BY <2>3, <2>4, <2>5
<1> QED
  BY <1>5, <1>6, <1>7, <1>8, <1>9, <1>10, <1>11 DEF IInv

(* The record of a connection that has passed HandleAuthentication.        *)
LEMMA AuthenticatedRecord ==
  ASSUME IInv, NEW c \in Conns, NEW right \in BOOLEAN, Authentic(c, right)
  PROVE  /\ Authenticated(c) \in ConnRec(created)
         /\ Authenticated(c).fd = conn[c].fd /\ Authenticated(c).sid = conn[c].sid
         /\ Authenticated(c).closed = conn[c].closed
         /\ conn[c].answered => Authenticated(c).answered
         /\ cred => Authenticated(c).answered
<1>1. conn[c] \in ConnRec(created) /\ (cred /\ conn[c].authed => conn[c].answered)
  BY Typing DEF IInv, Answered
<1>2. conn[c].authed \/ conn[c].nonced
  BY DEF Authentic
<1>3. /\ Authenticated(c).fd = conn[c].fd /\ Authenticated(c).sid = conn[c].sid
      /\ Authenticated(c).closed = conn[c].closed
      /\ Authenticated(c).answered = (conn[c].answered \/ conn[c].nonced)
  BY <1>1 DEF Authenticated, ConnRec
<1>4. Authenticated(c) \in ConnRec(created)
  BY <1>1 DEF Authenticated, ConnRec
<1> QED
  BY <1>1, <1>2, <1>3, <1>4

(* A challenge changes the nonce only.                                     *)
LEMMA ChallengeServes ==
  ASSUME IInv, NEW c \in Conns, ~conn[c].closed, Challenge(c),
         UNCHANGED <<cred, sessVars, mapped, loopVars, pushVars>>
  PROVE  IInv'
<1> DEFINE k == [conn[c] EXCEPT !.nonced = TRUE]
<1>1. conn[c] \in ConnRec(created) /\ rtp[c] \in RtpRec /\ conn \in Seq(ConnRec(created))
      /\ rtp \in Seq(RtpRec) /\ Len(rtp) = Len(conn) /\ created \in Nat
  BY Typing DEF IInv
<1>3. /\ k.fd = conn[c].fd /\ k.sid = conn[c].sid /\ k.closed = conn[c].closed
      /\ k.answered = conn[c].answered /\ k.authed = conn[c].authed
  BY <1>1 DEF ConnRec
<1>4. k \in ConnRec(created)
  BY <1>1 DEF ConnRec
<1>5. conn' = [conn EXCEPT ![c] = k]
  BY DEF Challenge
<1>6. rtp' = [rtp EXCEPT ![c] = rtp[c]]
  BY <1>1 DEF Challenge, Conns
<1> HIDE DEF k
<1>7. Serves(c, k, rtp[c], NoSession)
  <2>1. cred /\ k.authed => k.answered
    BY <1>3 DEF IInv, Answered
  <2>2. k.sid # NoSession => rtp[c].exists
    BY <1>3 DEF IInv, Open
  <2>3. cred /\ ~k.answered => k.sid = NoSession /\ ~rtp[c].exists /\ ~rtp[c].play
    BY <1>3 DEF IInv, AuthFirst
  <2> QED
    BY <1>3, <1>5, <1>6, <2>1, <2>2, <2>3 DEF Serves, Challenge
<1> QED
  BY <1>1, <1>4, <1>7, ServesIInv DEF NoSession

(* A new RtpConnection.                                                    *)
LEMMA NewRtpRecord ==
  ASSUME NEW e \in BOOLEAN
  PROVE  NewRtp(e) \in RtpRec /\ NewRtp(e).exists = e /\ ~NewRtp(e).play
BY DEF NewRtp, RtpRec

(* HandleCmdDescribe preserves the invariant.                              *)
LEMMA DescribeIInv ==
  ASSUME IInv, NEW c \in Conns, NEW x \in Suffix, NEW right \in BOOLEAN,
         HandleCmdDescribe(c, x, right)
  PROVE  IInv'
<1>1. ~conn[c].closed
      /\ UNCHANGED <<cred, sessVars, mapped, loopVars, pushVars>>
  BY DEF HandleCmdDescribe, Readable
<1>2. CASE ~Authentic(c, right)
  BY <1>1, <1>2, ChallengeServes DEF HandleCmdDescribe
<1>3. CASE Authentic(c, right)
  <2> DEFINE s == smap[x]
             a == Authenticated(c)
             k == [a EXCEPT !.sid = IF s = NoSession THEN @ ELSE s]
             r == IF rtp[c].exists THEN rtp[c] ELSE NewRtp(TRUE)
  <2>1. /\ rtp' = IF rtp[c].exists THEN rtp ELSE [rtp EXCEPT ![c] = NewRtp(TRUE)]
        /\ conn' = [conn EXCEPT ![c] = k]
        /\ clients' = IF s = NoSession THEN clients ELSE AddClient(s, c)
        /\ moved' = (moved \/ (s # NoSession /\ conn[c].sid \notin {NoSession, s}))
        /\ UNCHANGED <<rtcp, fault>>
    BY <1>3 DEF HandleCmdDescribe
  <2>2. /\ rtp \in Seq(RtpRec) /\ Len(rtp) = Len(conn) /\ rtp[c] \in RtpRec /\ created \in Nat
        /\ moved \in BOOLEAN
    BY Typing DEF IInv, TypeOK
  <2>3. /\ a \in ConnRec(created) /\ a.fd = conn[c].fd /\ a.sid = conn[c].sid
        /\ a.closed = conn[c].closed /\ (conn[c].answered => a.answered)
        /\ (cred => a.answered)
    BY <1>3, AuthenticatedRecord
  <2> HIDE DEF a
  <2>4. s \in 0..created /\ s \in sessions \cup {NoSession}
    BY DEF IInv, TypeOK, Registered
  <2>5. /\ k \in ConnRec(created) /\ k.fd = conn[c].fd /\ k.closed = conn[c].closed
        /\ k.answered = a.answered
        /\ k.sid = IF s = NoSession THEN conn[c].sid ELSE s
    <3> HIDE DEF s
    <3>1. k = [fd |-> a.fd, sid |-> IF s = NoSession THEN a.sid ELSE s, nonced |-> a.nonced,
               authed |-> a.authed, answered |-> a.answered, closed |-> a.closed]
      BY <2>3 DEF ConnRec
    <3>2. k \in ConnRec(created)
      BY <2>3, <2>4, <3>1 DEF ConnRec
    <3> QED
      BY <2>3, <3>1, <3>2
  <2>6. r \in RtpRec /\ r.exists /\ rtp' = [rtp EXCEPT ![c] = r]
    <3>1. CASE rtp[c].exists
      BY <2>1, <2>2, <3>1 DEF Conns
    <3>2. CASE ~rtp[c].exists
      BY <2>1, <2>2, <3>2, NewRtpRecord
    <3> QED
      BY <3>1, <3>2
  <2> HIDE DEF k, r, s
  <2>7. moved' = IF s = NoSession THEN moved ELSE moved \/ conn[c].sid \notin {NoSession, s}
    BY <2>1, <2>2
  <2>8. Serves(c, k, r, s)
    BY <1>1, <2>1, <2>3, <2>4, <2>5, <2>6, <2>7 DEF Serves
  <2> QED
    BY <1>1, <2>4, <2>5, <2>6, <2>8, ServesIInv
<1> QED
  BY <1>2, <1>3

(* A request that passes authentication and changes at most the            *)
(* RtpConnection, which stays, and the RTCP channels.                      *)
LEMMA AuthenticatedServes ==
  ASSUME IInv, NEW c \in Conns, ~conn[c].closed, NEW right \in BOOLEAN, Authentic(c, right),
         conn' = [conn EXCEPT ![c] = Authenticated(c)],
         NEW r \in RtpRec, rtp' = [rtp EXCEPT ![c] = r], r.exists = rtp[c].exists,
         rtcp' \subseteq rtcp \cup {<<c, "last">>, <<c, "old">>},
         UNCHANGED <<clients, moved, fault>>,
         UNCHANGED <<cred, sessVars, mapped, loopVars, pushVars>>
  PROVE  IInv'
<1> DEFINE k == Authenticated(c)
<1>1. /\ k \in ConnRec(created) /\ k.fd = conn[c].fd /\ k.sid = conn[c].sid
      /\ k.closed = conn[c].closed /\ (conn[c].answered => k.answered)
      /\ (cred => k.answered)
  BY AuthenticatedRecord
<1>2. conn[c].sid # NoSession => rtp[c].exists
  BY DEF IInv, Open
<1> HIDE DEF k
<1>3. Serves(c, k, r, NoSession)
  BY <1>1, <1>2 DEF Serves, k
<1>4. created \in Nat
  BY Typing DEF IInv
<1> QED
  BY <1>1, <1>3, <1>4, ServesIInv DEF NoSession

(* HandleCmdSetup preserves the invariant: rtp_conn_, which it does not    *)
(* test, is there.                                                         *)
LEMMA SetupIInv ==
  ASSUME IInv, NEW c \in Conns, NEW x \in Suffix, NEW t \in Transport, NEW right \in BOOLEAN,
         NEW ok \in BOOLEAN, HandleCmdSetup(c, x, t, right, ok)
  PROVE  IInv'
<1> DEFINE s == SetupSession(c, x)
<1>1. ~conn[c].closed
      /\ UNCHANGED <<cred, sessVars, mapped, loopVars, pushVars>>
      /\ UNCHANGED <<clients, moved>>
  BY DEF HandleCmdSetup, Readable
<1>2. /\ rtp \in Seq(RtpRec) /\ Len(rtp) = Len(conn) /\ rtp[c] \in RtpRec
      /\ rtp = [rtp EXCEPT ![c] = rtp[c]]
  BY Typing DEF IInv, Conns
<1>3. CASE ~Authentic(c, right)
  <2>1. Challenge(c)
    BY <1>3 DEF HandleCmdSetup
  <2> QED
    BY <1>1, <2>1, ChallengeServes
<1>4. CASE Authentic(c, right) /\ (s = NoSession \/ ~Supported(s, t))
  <2>1. conn' = [conn EXCEPT ![c] = Authenticated(c)] /\ UNCHANGED <<rtp, rtcp, fault>>
    BY <1>4 DEF HandleCmdSetup
  <2> QED
    BY <1>1, <1>2, <1>4, <2>1, AuthenticatedServes
<1>5. CASE Authentic(c, right) /\ s # NoSession /\ Supported(s, t)
  <2>1. rtp[c].exists
    BY <1>1, <1>5 DEF SetupSession, IInv, Open
  <2>2. SetupRtp(c, t, ok) /\ UNCHANGED fault
    BY <1>5, <2>1 DEF HandleCmdSetup
  <2>3. CASE t # "tcp" /\ ~ok
    <3>1. conn' = [conn EXCEPT ![c] = Authenticated(c)] /\ UNCHANGED <<rtp, rtcp>>
      BY <2>2, <2>3 DEF SetupRtp
    <3> QED
      BY <1>1, <1>2, <1>5, <2>2, <3>1, AuthenticatedServes
  <2>4. CASE ~(t # "tcp" /\ ~ok)
    <3> DEFINE r == [rtp[c] EXCEPT !.mode = t]
    <3>1. /\ conn' = [conn EXCEPT ![c] = Authenticated(c)]
          /\ rtp' = [rtp EXCEPT ![c] = r]
          /\ rtcp' \subseteq rtcp \cup {<<c, "last">>, <<c, "old">>}
      BY <2>2, <2>4 DEF SetupRtp
    <3>2. r \in RtpRec /\ r.exists = rtp[c].exists
      BY <1>2 DEF RtpRec
    <3> HIDE DEF r
    <3> QED
      BY <1>1, <1>5, <2>2, <3>1, <3>2, AuthenticatedServes
  <2> QED
    BY <2>3, <2>4
<1> QED
  BY <1>3, <1>4, <1>5

(* HandleCmdPlay preserves the invariant.                                  *)
LEMMA PlayIInv ==
  ASSUME IInv, NEW c \in Conns, NEW right \in BOOLEAN, HandleCmdPlay(c, right)
  PROVE  IInv'
<1>1. ~conn[c].closed
      /\ UNCHANGED <<cred, sessVars, mapped, loopVars, pushVars>>
  BY DEF HandleCmdPlay, Readable
<1>2. CASE ~Authentic(c, right)
  BY <1>1, <1>2, ChallengeServes DEF HandleCmdPlay
<1>3. CASE Authentic(c, right)
  <2> DEFINE r == [rtp[c] EXCEPT !.play = @ \/ (rtp[c].exists /\ rtp[c].mode # "none")]
  <2>1. /\ conn' = [conn EXCEPT ![c] = Authenticated(c)] /\ rtp' = [rtp EXCEPT ![c] = r]
        /\ UNCHANGED <<clients, rtcp, moved, fault>>
    BY <1>3 DEF HandleCmdPlay
  <2>2. rtp[c] \in RtpRec
    BY Typing DEF IInv
  <2>3. r \in RtpRec /\ r.exists = rtp[c].exists
    BY <2>2 DEF RtpRec
  <2> HIDE DEF r
  <2> QED
    BY <1>1, <1>3, <2>1, <2>3, AuthenticatedServes
<1> QED
  BY <1>2, <1>3

(* Teardown of an RtpConnection.                                           *)
LEMMA TeardownRecord ==
  ASSUME NEW r \in RtpRec
  PROVE  /\ Teardown(r) \in RtpRec /\ Teardown(r).exists = r.exists
         /\ Teardown(r).play => r.play
<1>1. CASE r.closed
  BY <1>1 DEF Teardown
<1>2. CASE ~r.closed
  BY <1>2 DEF Teardown, RtpRec
<1> QED
  BY <1>1, <1>2

(* HandleCmdTeardown preserves the invariant: without an answered nonce    *)
(* there is no RtpConnection to tear down.                                 *)
LEMMA TeardownIInv ==
  ASSUME IInv, NEW c \in Conns, HandleCmdTeardown(c)
  PROVE  IInv'
<1> DEFINE k == conn[c]
           r == Teardown(rtp[c])
<1>1. /\ ~conn[c].closed /\ rtp[c].exists /\ rtp' = [rtp EXCEPT ![c] = r]
      /\ conn' = conn /\ rtcp' = rtcp /\ clients' = clients /\ moved' = moved /\ fault' = fault
      /\ UNCHANGED <<cred, sessVars, mapped, loopVars, pushVars>>
  BY DEF HandleCmdTeardown, Readable
<1>2. /\ conn = [conn EXCEPT ![c] = k] /\ k \in ConnRec(created) /\ rtp[c] \in RtpRec
      /\ created \in Nat
  BY Typing DEF IInv, Conns
<1>3. r \in RtpRec /\ r.exists
  BY <1>1, <1>2, TeardownRecord
<1>4. cred => k.answered
  BY <1>1 DEF IInv, AuthFirst
<1> HIDE DEF k, r
<1>5. Serves(c, k, r, NoSession)
  BY <1>1, <1>2, <1>3, <1>4 DEF Serves, k
<1> QED
  BY <1>1, <1>2, <1>3, <1>5, ServesIInv DEF NoSession

-----------------------------------------------------------------------------
(* Sessions, and the pushing thread up to its posts *)

(* A step that changes no connection and no event preserves the invariant, *)
(* if it erases entries of a session only when the session cannot be       *)
(* looked up or a connection has moved.                                    *)
LEMMA KeptIInv ==
  ASSUME IInv,
         UNCHANGED <<cred, conn, rtp, mapped, rtcp, trig, timers, moved, fault>>,
         loop' \in {"trigger", "timers", "dispatch"},
         loop' = "timers" => loop = "timers" \/ trig = <<>>,
         TypeSess', TypePush', created <= created', pkt <= pkt',
         clients' \in [Session -> [Fd -> 0..Len(conn)]],
         \A z \in Session, f \in Fd : clients'[z][f] \in {clients[z][f], Nobody},
         ~moved => \A z \in sessions' :
                     \/ z \in sessions /\ \A f \in Fd : clients'[z][f] = clients[z][f]
                     \/ z > created /\ \A f \in Fd : clients'[z][f] = Nobody,
         Pushing', Registered'
  PROVE  IInv'
<1>0. TypeOK /\ Pushing /\ Registered /\ Open /\ Removing(trig) /\ Packets(trig)
      /\ Answered /\ AuthFirst /\ Membership
  BY DEF IInv
<1>1. Conns' = Conns
  BY DEF Conns
<1>2. created \in Nat /\ created' \in Nat /\ pkt \in Nat /\ pkt' \in Nat
  BY <1>0, Typing, BoundsAssumption DEF TypeSess, TypePush
<1>3. TypeOK'
  <2>1. TypeConn'
    <3>1. ConnRec(created) \subseteq ConnRec(created')
      BY <1>2 DEF ConnRec
    <3>2. conn \in Seq(ConnRec(created')) /\ conn \in Seq(ConnRec(created))
      BY <1>0, <3>1, Typing
    <3> QED
      BY <1>0, <1>1, <3>2, TypeParts DEF TypeConn
  <2>2. TypeLoop'
    <3>1. 1..pkt \subseteq 1..pkt'
      BY <1>2
    <3>2. Events \subseteq Events'
      BY <1>1, <3>1 DEF Events
    <3>3. trig \in Seq(Events')
      BY <1>0, <3>2 DEF TypeOK
    <3> QED
      BY <1>0, <1>1, <3>3, TypeParts DEF TypeLoop
  <2>3. TypeHist'
    BY <1>0, TypeParts DEF TypeHist
  <2> QED
    BY <2>1, <2>2, <2>3, TypeParts DEF TypeOK, TypeSess, TypeConn, TypeLoop, TypePush, TypeHist, ConnRec, RtpRec
<1>4. Open' /\ Removing(trig)' /\ Answered'
  BY <1>0, <1>1 DEF Open, Removing, Answered
<1>5. Packets(trig)'
  <2>1. trig = <<>> => Len(trig) = 0
    OBVIOUS
  <2> QED
    BY <1>0, <2>1 DEF Packets, Early
<1>6. AuthFirst'
  <2>1. \A c \in Conns : c # Nobody
    BY DEF Conns, Nobody
  <2> QED
    BY <1>0, <1>1, <2>1 DEF AuthFirst
<1>7. Membership'
  <2> SUFFICES ASSUME ~moved, NEW z \in sessions', NEW f \in Fd, NEW d \in Conns
               PROVE  clients'[z][f] = d <=>
                        conn[d].sid = z /\ conn[d].fd = f /\ ~conn[d].closed
    BY <1>0, <1>1 DEF Membership
  <2>1. CASE z \in sessions /\ clients'[z][f] = clients[z][f]
    BY <1>0, <2>1 DEF Membership
  <2>2. CASE z > created /\ clients'[z][f] = Nobody
    <3>1. d # Nobody
      BY DEF Conns, Nobody
    <3>2. conn[d].sid \in 0..created
      BY <1>0, Typing
    <3> QED
      BY <1>2, <2>2, <3>1, <3>2
  <2> QED
    BY <2>1, <2>2
<1> QED
  BY <1>3, <1>4, <1>5, <1>6, <1>7 DEF IInv

(* AddSession preserves the invariant: the id is new, so nobody is listed. *)
LEMMA AddSessionIInv ==
  ASSUME IInv, NEW x \in Suffix, NEW m \in Multicast, AddSession(x, m)
  PROVE  IInv'
<1> USE DEF AddSession, connVars, loopVars, pushVars
<1>0. TypeOK /\ Pushing /\ Registered
  BY DEF IInv
<1>1. created \in Nat /\ created' = created + 1 /\ created' \in Session
  BY <1>0, Typing, BoundsAssumption DEF Session
<1>2. TypeSess'
  BY <1>0, <1>1, TypeParts, BoundsAssumption DEF TypeSess, Session
<1>3. TypePush'
  BY <1>0, <1>1, TypeParts DEF TypePush, Conns
<1>4. clients' \in [Session -> [Fd -> 0..Len(conn)]] /\ clients' = clients
  BY <1>0 DEF TypeOK
<1>5. Pushing'
  BY <1>0 DEF Pushing
<1>6. Registered'
  <2>1. \A y \in Suffix : smap'[y] \in sessions' \cup {NoSession}
    BY <1>0, <1>1 DEF Registered, TypeOK
  <2>2. \A s \in Session : s > created' => s > created
    BY <1>1 DEF Session
  <2> QED
    BY <1>0, <1>4, <2>1, <2>2 DEF Registered
<1>7. \A z \in sessions' : z \in sessions \/ (z > created /\ \A f \in Fd : clients[z][f] = Nobody)
  <2>1. created' > created
    BY <1>1
  <2>2. \A f \in Fd : clients[created'][f] = Nobody
    BY <1>0, <1>1, <2>1 DEF Registered
  <2> QED
    BY <2>1, <2>2
<1>8. TypeOK /\ loop \in {"trigger", "timers", "dispatch"}
  BY <1>0 DEF TypeOK
<1> HIDE DEF AddSession
<1>9. UNCHANGED <<cred, conn, rtp, mapped, rtcp, trig, timers, moved, fault, loop, pkt>>
  BY DEF AddSession
<1>10. created <= created' /\ pkt <= pkt'
  BY <1>0, <1>1, <1>9, Typing
<1> QED
  BY <1>2, <1>3, <1>4, <1>5, <1>6, <1>7, <1>8, <1>9, <1>10, KeptIInv

(* The clients of a session are gone.                                      *)
LEMMA WipedEntries ==
  ASSUME TypeOK, NEW s \in Session, clients' = [clients EXCEPT ![s] = [f \in Fd |-> Nobody]]
  PROVE  /\ clients' \in [Session -> [Fd -> 0..Len(conn)]]
         /\ \A z \in Session, f \in Fd :
              clients'[z][f] = IF z = s THEN Nobody ELSE clients[z][f]
<1>1. clients \in [Session -> [Fd -> 0..Len(conn)]] /\ 0 \in 0..Len(conn)
  BY Typing DEF TypeOK
<1> QED
  BY <1>1 DEF Nobody

(* RemoveSession preserves the invariant: it wipes the session it takes    *)
(* out of the map, or leaves that to the pushing thread.                   *)
LEMMA RemoveSessionIInv ==
  ASSUME IInv, NEW s \in Session, RemoveSession(s)
  PROVE  IInv'
<1> USE DEF connVars, loopVars, pushVars
<1>0. TypeOK /\ Pushing /\ Registered
  BY DEF IInv
<1>1. /\ s \in sessions /\ sessions' = sessions \ {s}
      /\ smap' = [x \in Suffix |-> IF smap[x] = s THEN NoSession ELSE smap[x]]
      /\ UNCHANGED <<cred, created, conn, rtp, mapped, rtcp, trig, timers, moved,
                     fault, loop, pkt, ppc, psess, pkey, plist, held>>
  BY DEF RemoveSession
<1>2. /\ multi' \subseteq multi /\ clients' \in [Session -> [Fd -> 0..Len(conn)]]
      /\ \A z \in Session, f \in Fd : clients'[z][f] \in {clients[z][f], Nobody}
      /\ \A z \in Session, f \in Fd : z # s => clients'[z][f] = clients[z][f]
  <2>1. CASE psess = s
    BY <1>0, <2>1 DEF RemoveSession, TypeOK
  <2>2. CASE psess # s
    <3>1. clients' = [clients EXCEPT ![s] = [f \in Fd |-> Nobody]] /\ multi' = multi \ {s}
      BY <2>2 DEF RemoveSession, DestroySession
    <3> QED
      BY <1>0, <3>1, WipedEntries
  <2> QED
    BY <2>1, <2>2
<1>3. TypeSess'
  <2>1. smap' \in [Suffix -> 0..created]
    BY <1>0, <1>1, TypeParts DEF TypeSess, NoSession
  <2> QED
    BY <1>0, <1>1, <1>2, <2>1, TypeParts DEF TypeSess
<1>4. TypePush'
  BY <1>0, <1>1, TypeParts DEF TypePush, Conns
<1>5. Pushing'
  BY <1>0, <1>1 DEF Pushing
<1>6. Registered'
  BY <1>0, <1>1, <1>2 DEF Registered
<1>7. loop \in {"trigger", "timers", "dispatch"} /\ created <= created' /\ pkt <= pkt'
  BY <1>0, <1>1, Typing DEF TypeOK
<1>8. sessions \subseteq Session
  BY <1>0, SessionRange
<1> QED
  BY <1>1, <1>2, <1>3, <1>4, <1>5, <1>6, <1>7, <1>8, KeptIInv

(* NextPhase preserves the invariant: no event is left when the timers     *)
(* have their turn.                                                        *)
LEMMA NextPhaseIInv == ASSUME IInv, NextPhase PROVE IInv'
<1>0. TypeOK /\ Pushing /\ Registered
  BY DEF IInv
<1>1. UNCHANGED <<cred, smap, created, sessions, multi, clients, conn, rtp, mapped, rtcp, trig,
                  timers, moved, fault, pkt, ppc, psess, pkey, plist, held>>
  BY DEF NextPhase, sessVars, connVars, pushVars
<1>2. /\ loop' \in {"trigger", "timers", "dispatch"}
      /\ loop' = "timers" => trig = <<>>
  BY <1>0 DEF NextPhase, TypeOK
<1>3. TypeSess' /\ TypePush' /\ created <= created' /\ pkt <= pkt'
      /\ clients \in [Session -> [Fd -> 0..Len(conn)]]
  BY <1>0, <1>1, TypeParts, Typing DEF TypeSess, TypePush, TypeOK, Conns
<1>4. Pushing' /\ Registered'
  BY <1>0, <1>1 DEF Pushing, Registered
<1> QED
  BY <1>1, <1>2, <1>3, <1>4, KeptIInv

(* PushFrame preserves the invariant.                                      *)
LEMMA PushFrameIInv ==
  ASSUME IInv, NEW s \in Session, NEW key \in BOOLEAN, PushFrame(s, key)
  PROVE  IInv'
<1>0. TypeOK /\ Pushing /\ Registered
  BY DEF IInv
<1>1. /\ UNCHANGED <<cred, smap, created, sessions, multi, clients, conn, rtp, mapped, rtcp, trig,
                     timers, moved, fault, pkt, loop, plist, held>>
      /\ s \in sessions /\ psess' = s /\ ppc' = "snapshot" /\ pkey' = key
  BY DEF PushFrame, sessVars, connVars, loopVars
<1>2. TypeSess'
  BY <1>0, <1>1, TypeParts DEF TypeSess
<1>5. created <= created' /\ pkt <= pkt'
      /\ clients \in [Session -> [Fd -> 0..Len(conn)]] /\ loop \in {"trigger", "timers", "dispatch"}
  BY <1>0, <1>1, Typing DEF TypeOK
<1>3. TypePush'
  <2>1. s \in 0..created
    BY <1>0, <1>1, Typing DEF TypeOK
  <2> QED
    BY <1>0, <1>1, <2>1, TypeParts DEF TypePush, Conns
<1>4. Pushing' /\ Registered'
  BY <1>0, <1>1, SessionRange DEF Pushing, Registered
<1> QED
  BY <1>1, <1>2, <1>3, <1>4, <1>5, KeptIInv

(* SendRtpPacket preserves the invariant.                                  *)
LEMMA SendIInv == ASSUME IInv, SendRtpPacket PROVE IInv'
<1>0. TypeOK /\ Pushing /\ Registered
  BY DEF IInv
<1>1. /\ UNCHANGED <<cred, smap, created, sessions, multi, clients, conn, rtp, mapped, rtcp, trig,
                     timers, moved, fault, pkt, loop, psess, pkey, held>>
      /\ ppc = "send" /\ plist # <<>>
      /\ ppc' \in {"send", "post"}
      /\ plist' = plist \/ (plist' = Tail(plist) /\ ppc' = "send")
  BY DEF SendRtpPacket, sessVars, connVars, loopVars
<1>2. TypeSess' /\ created <= created' /\ pkt <= pkt'
      /\ clients \in [Session -> [Fd -> 0..Len(conn)]] /\ loop \in {"trigger", "timers", "dispatch"}
  BY <1>0, <1>1, TypeParts, Typing DEF TypeSess, TypeOK
<1>3. /\ plist' \in Seq(Conns)
      /\ \A n \in 1..Len(plist') : plist'[n] \in held
  <2>1. CASE plist' = plist
    BY <1>0, <2>1 DEF TypeOK, Pushing
  <2>2. CASE plist' = Tail(plist)
    BY <1>0, <1>1, <2>2 DEF TypeOK, Pushing
  <2> QED
    BY <1>1, <2>1, <2>2
<1>4. TypePush'
  BY <1>0, <1>1, <1>3, TypeParts DEF TypePush, Conns
<1>5. Pushing' /\ Registered'
  BY <1>0, <1>1, <1>3 DEF Pushing, Registered
<1> QED
  BY <1>1, <1>2, <1>4, <1>5, KeptIInv

(* Snapshot preserves the invariant: what it erases from a session that    *)
(* can be looked up is what connections that moved have left there.        *)
LEMMA SnapshotIInv == ASSUME IInv, Snapshot PROVE IInv'
<1> DEFINE live == {f \in Fd : clients[psess][f] # Nobody /\ RtpAlive(clients[psess][f])}
           n == Cardinality(live)
<1>0. TypeOK /\ Pushing /\ Registered /\ Open /\ Membership
  BY DEF IInv
<1>1. /\ UNCHANGED <<cred, smap, created, sessions, multi, conn, rtp, mapped, rtcp, trig,
                     timers, moved, fault, loop, psess, pkey>>
      /\ ppc = "snapshot" /\ ppc' = "send" /\ pkt < MaxPkt /\ pkt' = pkt + 1
      /\ clients' = [clients EXCEPT ![psess] = [f \in Fd |-> IF f \in live THEN @[f] ELSE Nobody]]
      /\ held' = {clients[psess][f] : f \in live}
  BY DEF Snapshot, sessVars, connVars, loopVars
<1>2. PICK fds \in [1..n -> live] : plist' = [i \in 1..n |-> clients[psess][fds[i]]]
  BY DEF Snapshot
<1>3. psess \in Session /\ psess # NoSession
  BY <1>0, <1>1, BoundsAssumption DEF TypeOK, Pushing, NoSession, Session
<1>4. n \in Nat
  <2>1. IsFiniteSet(live)
    BY BoundsAssumption, FS_Subset
  <2> QED
    BY <2>1, FS_CardinalityType
<1>5. \A f \in live : /\ f \in Fd /\ clients[psess][f] \in Conns
                      /\ RtpAlive(clients[psess][f])
  BY <1>0, <1>3 DEF TypeOK, Conns, Nobody
<1>6. clients' \in [Session -> [Fd -> 0..Len(conn)]]
      /\ \A z \in Session, f \in Fd :
           clients'[z][f] = IF z = psess /\ f \notin live THEN Nobody ELSE clients[z][f]
  <2> HIDE DEF live
  <2>1. clients \in [Session -> [Fd -> 0..Len(conn)]] /\ Nobody \in 0..Len(conn)
    BY <1>0, Typing DEF TypeOK, Nobody
  <2> QED
    BY <1>1, <1>3, <2>1
<1>7. ASSUME ~moved, NEW z \in sessions, NEW f \in Fd PROVE clients'[z][f] = clients[z][f]
  <2>1. z \in Session
    BY <1>0, SessionRange
  <2>2. CASE z # psess \/ clients[z][f] = Nobody
    BY <1>6, <2>1, <2>2
  <2>3. CASE z = psess /\ clients[z][f] # Nobody
    <3>1. PICK c \in Conns : clients[z][f] = c
      BY <1>0, <2>1, <2>3 DEF TypeOK, Conns, Nobody
    <3>2. conn[c].sid = z /\ ~conn[c].closed
      BY <1>0, <1>7, <3>1 DEF Membership
    <3>3. RtpAlive(c)
      BY <1>0, <1>3, <2>3, <3>2 DEF Open, RtpAlive, Alive
    <3>4. f \in live
      BY <2>3, <3>1, <3>3
    <3> QED
      BY <1>6, <2>1, <3>4
  <2> QED
    BY <2>2, <2>3
<1> HIDE DEF live, n
<1>8. plist' \in Seq(Conns) /\ Len(plist') = n /\ \A i \in 1..n : plist'[i] \in held'
  BY <1>1, <1>2, <1>4, <1>5
<1>9. held' \subseteq Conns /\ \A c \in held' : rtp[c].exists
  BY <1>1, <1>5 DEF RtpAlive
<1>10. TypePush'
  <2>1. pkt' \in 0..MaxPkt
    BY <1>0, <1>1, Typing, BoundsAssumption
  <2> QED
    BY <1>0, <1>1, <1>8, <1>9, <2>1, TypeParts DEF TypePush, Conns
<1>11. TypeSess'
  BY <1>0, <1>1, TypeParts DEF TypeSess
<1>12. Pushing'
  <2>1. pkt' # 0
    BY <1>0, <1>1, Typing
  <2> QED
    BY <1>1, <1>3, <1>8, <1>9, <2>1 DEF Pushing
<1>13. Registered'
  BY <1>0, <1>1, <1>6 DEF Registered
<1>14. /\ created <= created' /\ pkt <= pkt'
       /\ loop' \in {"trigger", "timers", "dispatch"} /\ (loop' = "timers" => loop = "timers")
       /\ \A z \in Session, f \in Fd : clients'[z][f] \in {clients[z][f], Nobody}
  BY <1>0, <1>1, <1>6, Typing DEF TypeOK
<1>15. ~moved => \A z \in sessions' :
                   z \in sessions /\ \A f \in Fd : clients'[z][f] = clients[z][f]
  BY <1>1, <1>7
<1>16. clients' \in [Session -> [Fd -> 0..Len(conn)]]
  BY <1>6
<1>17. UNCHANGED <<cred, conn, rtp, mapped, rtcp, trig, timers, moved, fault>>
  BY <1>1
<1> QED
  BY <1>15, <1>16, <1>17, <1>10, <1>11, <1>12, <1>13, <1>14, KeptIInv

-----------------------------------------------------------------------------
(* Events, closing and destroying *)

(* A step that opens no connection and closes none preserves the           *)
(* invariant: q are the events it leaves, and what it destroys is closed   *)
(* and not referred to by an event posted before.                          *)
LEMMA FadesIInv ==
  ASSUME IInv, NEW q \in Seq(Events), Len(q) <= MaxTrigger, Removing(q), Packets(q),
         trig' = q, \A n \in 1..Len(q) : Early(q, n) => q[n].c \in mapped',
         conn' \in Seq(ConnRec(created)), Len(conn') = Len(conn),
         \A d \in Conns :
           /\ conn'[d].fd = conn[d].fd /\ conn'[d].closed = conn[d].closed
           /\ conn'[d].answered = conn[d].answered /\ conn'[d].authed = conn[d].authed
           /\ conn'[d].sid = conn[d].sid \/ (conn'[d].sid = NoSession /\ conn[d].closed),
         rtp' \in Seq(RtpRec), Len(rtp') = Len(conn),
         \A d \in Conns :
           /\ rtp'[d].exists => rtp[d].exists
           /\ rtp'[d].play => rtp[d].play
           /\ rtp[d].exists /\ ~rtp'[d].exists => d \notin mapped',
         mapped' \subseteq mapped, \A d \in Conns : ~conn[d].closed => d \in mapped',
         clients' \in [Session -> [Fd -> 0..Len(conn)]],
         \A z \in Session, f \in Fd : clients'[z][f] \in {clients[z][f], Nobody},
         \A z \in sessions, f \in Fd : clients'[z][f] = clients[z][f],
         timers' \subseteq timers, fault' # "null", TypeSess', TypePush', TypeHist',
         UNCHANGED <<cred, created, sessions, pkt, rtcp, loop, moved>>,
         Pushing', Registered'
  PROVE  IInv'
<1>0. TypeOK /\ Open /\ Answered /\ AuthFirst /\ Membership
  BY DEF IInv
<1>1. Conns' = Conns /\ Events' = Events
  BY DEF Conns, Events
<1>2. TypeOK'
  <2>1. TypeConn'
    BY <1>0, <1>1, TypeParts DEF TypeConn
  <2>2. TypeLoop'
    BY <1>0, <1>1, TypeParts DEF TypeLoop
  <2> QED
    BY <2>1, <2>2 DEF TypeOK, TypeSess, TypeConn, TypeLoop, TypePush, TypeHist, ConnRec, RtpRec
<1>3. Open' /\ Answered'
  <2>1. Open'
    <3>1. ASSUME NEW c \in Conns, ~conn'[c].closed
          PROVE  /\ c \in mapped'
                 /\ conn'[c].sid # NoSession => rtp'[c].exists
                 /\ \A d \in Conns : ~conn'[d].closed /\ conn'[c].fd = conn'[d].fd => c = d
      <4>1. ~conn[c].closed /\ c \in mapped' /\ conn'[c].sid = conn[c].sid
        BY <3>1
      <4>2. conn[c].sid # NoSession => rtp[c].exists
        BY <1>0, <4>1 DEF Open
      <4>3. \A d \in Conns : ~conn[d].closed /\ conn[c].fd = conn[d].fd => c = d
        BY <1>0, <4>1 DEF Open
      <4> QED
        BY <4>1, <4>2, <4>3
    <3>2. \A c \in Conns : <<c, "last">> \in rtcp => ~conn'[c].closed
      BY <1>0 DEF Open
    <3> QED
      BY <1>1, <3>1, <3>2 DEF Open
  <2>2. Answered'
    BY <1>0, <1>1 DEF Answered
  <2> QED
    BY <2>1, <2>2
<1>4. Removing(trig)' /\ Packets(trig)'
  <2>1. \A n \in 1..Len(q) : q[n].c \in Conns
    BY EventFields
  <2>2. timers \subseteq Conns
    BY <1>0 DEF TypeOK
  <2>3. Removing(trig)'
    BY <2>1, <2>2 DEF Removing
  <2>4. Packets(trig)'
    BY <2>1 DEF Packets, Early
  <2> QED
    BY <2>3, <2>4
<1>5. AuthFirst'
  <2>1. \A c \in Conns : c # Nobody
    BY DEF Conns, Nobody
  <2> SUFFICES ASSUME cred, NEW d \in Conns, ~conn'[d].answered
               PROVE  /\ conn'[d].sid = NoSession /\ ~rtp'[d].exists /\ ~rtp'[d].play
                      /\ \A z \in Session, f \in Fd : clients'[z][f] # d
    BY <1>1 DEF AuthFirst
  <2>2. /\ conn[d].sid = NoSession /\ ~rtp[d].exists /\ ~rtp[d].play
        /\ \A z \in Session, f \in Fd : clients[z][f] # d
    BY <1>0 DEF AuthFirst
  <2>3. \A z \in Session, f \in Fd : clients'[z][f] # d
    BY <2>1, <2>2
  <2> QED
    BY <2>2, <2>3
<1>6. Membership'
  <2> SUFFICES ASSUME ~moved, NEW z \in sessions, NEW f \in Fd, NEW d \in Conns
               PROVE  clients'[z][f] = d <=>
                        conn'[d].sid = z /\ conn'[d].fd = f /\ ~conn'[d].closed
    BY <1>0, <1>1 DEF Membership
  <2>1. clients[z][f] = d <=> conn[d].sid = z /\ conn[d].fd = f /\ ~conn[d].closed
    BY <1>0 DEF Membership
  <2> QED
    BY <2>1
<1> QED
  BY <1>2, <1>3, <1>4, <1>5, <1>6 DEF IInv

(* The first event is taken from the queue.                                *)
LEMMA PoppedQueue ==
  ASSUME IInv, trig # <<>>
  PROVE  /\ Tail(trig) \in Seq(Events) /\ Len(Tail(trig)) < MaxTrigger
         /\ Head(trig).c \in Conns /\ Head(trig) = trig[1] /\ 1 \in 1..Len(trig)
         /\ Removing(Tail(trig)) /\ Packets(Tail(trig))
         /\ Head(trig).what = "remove" =>
              \A n \in 1..Len(Tail(trig)) : Early(Tail(trig), n) => Tail(trig)[n].c # Head(trig).c
<1> DEFINE q == Tail(trig)
<1>1. trig \in Seq(Events) /\ Len(trig) <= MaxTrigger /\ Removing(trig) /\ Packets(trig)
  BY DEF IInv, TypeOK
<1>2. /\ q \in Seq(Events) /\ Len(q) = Len(trig) - 1 /\ Len(trig) \in Nat /\ Len(trig) > 0
      /\ \A n \in 1..Len(q) : q[n] = trig[n+1] /\ n+1 \in 1..Len(trig)
      /\ Head(trig) = trig[1] /\ 1 \in 1..Len(trig)
  BY <1>1
<1> HIDE DEF q
<1>3. \A n \in 1..Len(q) : Early(q, n) => Early(trig, n+1)
  BY <1>2 DEF Early
<1>4. Removing(q)
  BY <1>1, <1>2 DEF Removing
<1>5. Packets(q)
  <2>1. \A n \in 1..Len(q) : Early(q, n) => q[n].c \in mapped /\ rtp[q[n].c].exists
    BY <1>1, <1>2, <1>3 DEF Packets
  <2>2. ASSUME NEW m \in 1..Len(q), NEW n \in 1..Len(q), m < n, q[m].what = "remove", Early(q, n)
        PROVE  q[m].c # q[n].c
    <3>1. /\ m+1 < n+1 /\ m+1 \in 1..Len(trig) /\ n+1 \in 1..Len(trig)
          /\ trig[m+1].what = "remove" /\ Early(trig, n+1)
          /\ q[m].c = trig[m+1].c /\ q[n].c = trig[n+1].c
      BY <1>2, <1>3, <2>2
    <3>2. \A i, j \in 1..Len(trig) :
            i < j /\ trig[i].what = "remove" /\ Early(trig, j) => trig[i].c # trig[j].c
      BY <1>1 DEF Packets
    <3>3. trig[m+1].c # trig[n+1].c
      BY <3>1, <3>2
    <3> QED
      BY <3>1, <3>3
  <2>3. loop = "timers" => \A n \in 1..Len(q) : Early(q, n) => q[n].c \notin timers
    BY <1>1, <1>2, <1>3 DEF Packets
  <2> QED
    BY <2>1, <2>2, <2>3 DEF Packets
<1>6. Head(trig).c \in Conns
  BY <1>1, <1>2, EventFields
<1>7. ASSUME Head(trig).what = "remove", NEW n \in 1..Len(q), Early(q, n)
      PROVE  q[n].c # Head(trig).c
  <2>1. 1 < n + 1
    OBVIOUS
  <2> QED
    BY <1>1, <1>2, <1>3, <1>7, <2>1 DEF Packets
<1> QED
  BY <1>1, <1>2, <1>4, <1>5, <1>6, <1>7, BoundsAssumption DEF q

(* What is left of a closed connection that is destroyed.                  *)
LEMMA DestroyedRecord ==
  ASSUME TypeOK, NEW c \in Conns
  PROVE  /\ Destroyed(c) \in ConnRec(created)
         /\ Destroyed(c).fd = conn[c].fd /\ Destroyed(c).closed = TRUE
         /\ Destroyed(c).sid = NoSession
         /\ Destroyed(c).answered = conn[c].answered /\ Destroyed(c).authed = conn[c].authed
<1>1. conn[c] \in ConnRec(created) /\ created \in Nat /\ cred \in BOOLEAN
  BY Typing DEF TypeOK
<1> DEFINE k == NewConn(conn[c].fd)
<1>2. k \in ConnRec(created) /\ k.fd = conn[c].fd /\ k.sid = NoSession
  BY <1>1 DEF NewConn, ConnRec, NoSession
<1>3. conn[c].authed \in BOOLEAN /\ conn[c].answered \in BOOLEAN
  BY Typing
<1> HIDE DEF k
<1>4. Destroyed(c) = [k EXCEPT !.closed = TRUE, !.authed = conn[c].authed,
                               !.answered = conn[c].answered]
  BY DEF Destroyed, k
<1> QED
  BY <1>2, <1>3, <1>4 DEF ConnRec

(* The records after closed connection c was destroyed, or was not.        *)
LEMMA BuriedRecords ==
  ASSUME TypeOK, NEW c \in Conns, conn[c].closed,
         conn' = conn \/ conn' = [conn EXCEPT ![c] = Destroyed(c)]
  PROVE  /\ conn' \in Seq(ConnRec(created)) /\ Len(conn') = Len(conn)
         /\ \A d \in Conns :
              /\ conn'[d].fd = conn[d].fd /\ conn'[d].closed = conn[d].closed
              /\ conn'[d].answered = conn[d].answered /\ conn'[d].authed = conn[d].authed
              /\ conn'[d].sid = conn[d].sid \/ (conn'[d].sid = NoSession /\ conn[d].closed)
<1>1. conn \in Seq(ConnRec(created)) /\ conn[c].closed \in BOOLEAN
  BY Typing
<1>2. CASE conn' = conn
  BY <1>1, <1>2
<1>3. CASE conn' = [conn EXCEPT ![c] = Destroyed(c)]
  <2> DEFINE k == Destroyed(c)
  <2>1. /\ k \in ConnRec(created) /\ k.fd = conn[c].fd /\ k.closed = TRUE
        /\ k.sid = NoSession /\ k.answered = conn[c].answered /\ k.authed = conn[c].authed
    BY DestroyedRecord
  <2> HIDE DEF k
  <2>2. /\ conn' \in Seq(ConnRec(created)) /\ Len(conn') = Len(conn)
        /\ conn'[c] = k /\ \A d \in Conns : d # c => conn'[d] = conn[d]
    BY <1>1, <1>3, <2>1, ExceptSeq DEF Conns, k
  <2>3. conn'[c].closed = conn[c].closed
    BY <1>1, <2>1, <2>2
  <2> QED
    BY <2>1, <2>2, <2>3
<1> QED
  BY <1>2, <1>3

(* RemoveConnection preserves the invariant, q being the events left.      *)
LEMMA RemoveConnectionIInv ==
  ASSUME IInv, NEW c \in Conns, conn[c].closed, RemoveConnection(c),
         NEW q \in Seq(Events), Len(q) <= MaxTrigger, Removing(q), Packets(q), trig' = q,
         \A n \in 1..Len(q) : Early(q, n) => q[n].c # c,
         timers' \subseteq timers,
         UNCHANGED <<cred, sessVars, clients, rtcp, loop, pushVars, moved, fault>>
  PROVE  IInv'
<1>0. TypeOK /\ Pushing /\ Registered /\ Open /\ Membership
  BY DEF IInv
<1>1. UNCHANGED <<cred, smap, created, sessions, multi, clients, rtcp, loop, ppc, psess, pkt, pkey,
                  plist, held, moved, fault>>
  BY DEF sessVars, pushVars
<1>2. mapped' = mapped \ {c} /\ (conn' = conn \/ conn' = [conn EXCEPT ![c] = Destroyed(c)])
  BY DEF RemoveConnection
<1>3. /\ conn' \in Seq(ConnRec(created)) /\ Len(conn') = Len(conn)
      /\ \A d \in Conns :
           /\ conn'[d].fd = conn[d].fd /\ conn'[d].closed = conn[d].closed
           /\ conn'[d].answered = conn[d].answered /\ conn'[d].authed = conn[d].authed
           /\ conn'[d].sid = conn[d].sid \/ (conn'[d].sid = NoSession /\ conn[d].closed)
  BY <1>0, <1>2, BuriedRecords
<1>4. /\ rtp' \in Seq(RtpRec) /\ Len(rtp') = Len(conn)
      /\ \A d \in Conns : d # c \/ c \in held => rtp'[d] = rtp[d]
      /\ c \notin held => ~rtp'[c].exists /\ ~rtp'[c].play
  <2>1. rtp \in Seq(RtpRec) /\ Len(rtp) = Len(conn)
    BY <1>0, Typing
  <2>2. CASE c \in held
    BY <2>1, <2>2 DEF RemoveConnection
  <2>3. CASE c \notin held
    <3> DEFINE r == NewRtp(FALSE)
    <3>1. rtp' = [rtp EXCEPT ![c] = r]
      BY <2>3 DEF RemoveConnection
    <3>2. r \in RtpRec /\ ~r.exists /\ ~r.play
      BY NewRtpRecord
    <3> HIDE DEF r
    <3> QED
      BY <2>1, <2>3, <3>1, <3>2, ExceptSeq DEF Conns
  <2> QED
    BY <2>2, <2>3
<1>5. \A d \in Conns :
        /\ rtp'[d].exists => rtp[d].exists
        /\ rtp'[d].play => rtp[d].play
        /\ rtp[d].exists /\ ~rtp'[d].exists => d \notin mapped'
  BY <1>2, <1>4
<1>6. TypeSess' /\ TypePush'
  BY <1>0, <1>1, <1>3, SameShape
<1>7. TypeHist' /\ fault' # "null"
  BY <1>0, <1>1, TypeParts DEF TypeHist, Membership
<1>8. Pushing' /\ Registered'
  BY <1>0, <1>1, <1>4 DEF Pushing, Registered, TypeOK
<1>9. /\ mapped' \subseteq mapped /\ \A d \in Conns : ~conn[d].closed => d \in mapped'
      /\ \A n \in 1..Len(q) : Early(q, n) => q[n].c \in mapped'
  BY <1>0, <1>2 DEF Open, Packets
<1>10. clients' \in [Session -> [Fd -> 0..Len(conn)]] /\ clients' = clients
  BY <1>0, <1>1 DEF TypeOK
<1> QED
  BY <1>1, <1>3, <1>4, <1>5, <1>6, <1>7, <1>8, <1>9, <1>10, FadesIInv

(* RunRemove preserves the invariant: no event left refers to what was     *)
(* removed, unless it was posted late.                                     *)
LEMMA RunRemoveIInv == ASSUME IInv, RunRemove PROVE IInv'
<1>1. /\ trig # <<>> /\ Head(trig).what = "remove" /\ RemoveConnection(Head(trig).c)
      /\ trig' = Tail(trig) /\ timers' = timers
      /\ UNCHANGED <<cred, sessVars, clients, rtcp, loop, pushVars, moved, fault>>
  BY DEF RunRemove
<1>2. /\ Tail(trig) \in Seq(Events) /\ Len(Tail(trig)) <= MaxTrigger
      /\ Head(trig).c \in Conns /\ Removing(Tail(trig)) /\ Packets(Tail(trig))
      /\ \A n \in 1..Len(Tail(trig)) : Early(Tail(trig), n) => Tail(trig)[n].c # Head(trig).c
  BY <1>1, PoppedQueue, BoundsAssumption
<1>3. conn[Head(trig).c].closed
  BY <1>1, PoppedQueue DEF IInv, Removing
<1> QED
  BY <1>1, <1>2, <1>3, RemoveConnectionIInv

(* RunTimer preserves the invariant: the queue was empty since.            *)
LEMMA RunTimerIInv == ASSUME IInv, NEW c \in Conns, RunTimer(c) PROVE IInv'
<1>1. /\ loop = "timers" /\ c \in timers /\ timers' \subseteq timers /\ RemoveConnection(c)
      /\ trig' = trig
      /\ UNCHANGED <<cred, sessVars, clients, rtcp, loop, pushVars, moved, fault>>
  BY DEF RunTimer
<1>2. /\ trig \in Seq(Events) /\ Len(trig) <= MaxTrigger /\ Removing(trig) /\ Packets(trig)
      /\ conn[c].closed
  BY <1>1 DEF IInv, TypeOK, Removing
<1>3. \A n \in 1..Len(trig) : Early(trig, n) => trig[n].c # c
  BY <1>1, <1>2 DEF Packets
<1> QED
  BY <1>1, <1>2, <1>3, RemoveConnectionIInv

(* An event is put at the end of the queue.                                *)
LEMMA PostedQueue ==
  ASSUME NEW q \in Seq(Events), Removing(q), Packets(q), NEW e \in Events,
         e.what = "remove" => conn[e.c].closed,
         e.what = "rtp" /\ ~e.late =>
           /\ ~conn[e.c].closed /\ e.c \in mapped /\ rtp[e.c].exists
  PROVE  Append(q, e) \in Seq(Events) /\ Removing(Append(q, e)) /\ Packets(Append(q, e))
<1> DEFINE p == Append(q, e)
<1>1. /\ p \in Seq(Events) /\ Len(p) = Len(q) + 1 /\ Len(q) \in Nat /\ p[Len(q) + 1] = e
      /\ \A n \in 1..Len(q) : p[n] = q[n]
      /\ \A n \in 1..Len(p) : n \in 1..Len(q) \/ n = Len(q) + 1
  OBVIOUS
<1> HIDE DEF p
<1>2. /\ \A n \in 1..Len(q) : Early(p, n) => Early(q, n)
      /\ Early(p, Len(q) + 1) => e.what = "rtp" /\ ~e.late
  BY <1>1 DEF Early
<1>3. Removing(p)
  BY <1>1 DEF Removing
<1>4. \A n \in 1..Len(p) : Early(p, n) => p[n].c \in mapped /\ rtp[p[n].c].exists
  BY <1>1, <1>2 DEF Packets
<1>5. ASSUME NEW m \in 1..Len(p), NEW n \in 1..Len(p), m < n, p[m].what = "remove", Early(p, n)
      PROVE  p[m].c # p[n].c
  <2>1. m \in 1..Len(q)
    BY <1>1, <1>5
  <2>2. CASE n \in 1..Len(q)
    BY <1>1, <1>2, <1>5, <2>1, <2>2 DEF Packets
  <2>3. CASE n = Len(q) + 1
    <3>1. conn[q[m].c].closed /\ ~conn[e.c].closed
      BY <1>1, <1>2, <1>5, <2>1, <2>3 DEF Removing
    <3> QED
      BY <1>1, <2>1, <2>3, <3>1
  <2> QED
    BY <1>1, <2>2, <2>3
<1>6. loop = "timers" => \A n \in 1..Len(p) : Early(p, n) => p[n].c \notin timers
  <2>1. SUFFICES ASSUME loop = "timers", NEW n \in 1..Len(p), Early(p, n) PROVE p[n].c \notin timers
    OBVIOUS
  <2>2. CASE n \in 1..Len(q)
    BY <1>1, <1>2, <2>1, <2>2 DEF Packets
  <2>3. CASE n = Len(q) + 1
    BY <1>1, <1>2, <2>1, <2>3 DEF Removing
  <2> QED
    BY <1>1, <2>2, <2>3
<1>7. Packets(p)
  BY <1>4, <1>5, <1>6 DEF Packets
<1> QED
  BY <1>1, <1>3, <1>7 DEF p

(* PostPacket preserves the invariant: an event posted for an open         *)
(* connection finds no removal of it in the queue or on a timer.           *)
LEMMA PostPacketIInv == ASSUME IInv, NEW out \in Outcome, PostPacket(out) PROVE IInv'
<1> DEFINE c == Head(plist)
           e == [what |-> "rtp", c |-> c, pkt |-> pkt, key |-> pkey, late |-> conn[c].closed]
<1>0. TypeOK /\ Pushing /\ Registered /\ Open /\ Membership /\ Removing(trig)
      /\ Packets(trig)
  BY DEF IInv
<1>1. /\ UNCHANGED <<cred, smap, created, sessions, multi, clients, rtp, mapped, rtcp, timers, loop,
                     psess, pkt, pkey, held, moved, fault>>
      /\ ppc = "post" /\ ppc' = "send" /\ plist' = Left(out)
      /\ out = "stored" => Len(trig) < MaxTrigger
      /\ trig' = IF out = "stored" THEN Append(trig, e) ELSE trig
      /\ conn' = IF c \in mapped THEN conn ELSE [conn EXCEPT ![c] = Destroyed(c)]
  BY DEF PostPacket, Post, sessVars
<1>2. /\ plist # <<>> /\ plist \in Seq(Conns) /\ c \in Conns /\ c \in held
      /\ plist' \in Seq(Conns) /\ \A n \in 1..Len(plist') : plist'[n] \in held
  <2>1. plist # <<>> /\ plist \in Seq(Conns) /\ \A n \in 1..Len(plist) : plist[n] \in held
    BY <1>0, <1>1 DEF Pushing, TypeOK
  <2>2. c = plist[1] /\ 1 \in 1..Len(plist)
    BY <2>1
  <2>3. CASE plist' = Tail(plist)
    BY <2>1, <2>2, <2>3
  <2>4. CASE plist' = <<>>
    BY <2>1, <2>2, <2>4
  <2> QED
    BY <1>1, <2>3, <2>4 DEF Left
<1>3. rtp[c].exists /\ conn[c].closed \in BOOLEAN
  BY <1>0, <1>2, Typing DEF Pushing
<1>4. ~conn[c].closed => c \in mapped
  BY <1>0, <1>2 DEF Open
<1>5. pkt \in 1..pkt
  <2>1. pkt # 0
    BY <1>0, <1>1 DEF Pushing
  <2> QED
    BY <1>0, <2>1, Typing
<1>6. e \in Events
  BY <1>0, <1>2, <1>3, <1>5 DEF Events, TypeOK
<1>7. e.what = "rtp" /\ e.c = c /\ e.late = conn[c].closed
  OBVIOUS
<1> HIDE DEF e, c
<1>8. trig' \in Seq(Events) /\ Len(trig') <= MaxTrigger /\ Removing(trig') /\ Packets(trig')
  <2>1. trig \in Seq(Events) /\ Len(trig) <= MaxTrigger
    BY <1>0 DEF TypeOK
  <2>2. CASE out # "stored"
    BY <1>0, <1>1, <2>1, <2>2
  <2>3. CASE out = "stored"
    <3>1. Append(trig, e) \in Seq(Events) /\ Removing(Append(trig, e)) /\ Packets(Append(trig, e))
      BY <1>0, <1>3, <1>4, <1>6, <1>7, <2>1, PostedQueue
    <3>2. Len(Append(trig, e)) = Len(trig) + 1
      BY <2>1
    <3> QED
      BY <1>1, <2>1, <2>3, <3>1, <3>2, BoundsAssumption
  <2> QED
    BY <2>2, <2>3
<1>9. /\ conn' \in Seq(ConnRec(created)) /\ Len(conn') = Len(conn)
      /\ \A d \in Conns :
           /\ conn'[d].fd = conn[d].fd /\ conn'[d].closed = conn[d].closed
           /\ conn'[d].answered = conn[d].answered /\ conn'[d].authed = conn[d].authed
           /\ conn'[d].sid = conn[d].sid \/ (conn'[d].sid = NoSession /\ conn[d].closed)
  <2>1. CASE c \in mapped
    BY <1>0, <1>1, <2>1, Typing
  <2>2. CASE c \notin mapped
    BY <1>0, <1>1, <1>2, <1>4, <2>2, BuriedRecords
  <2> QED
    BY <2>1, <2>2
<1>10. TypeSess'
  BY <1>0, <1>1, <1>9, SameShape
<1>11. TypePush'
  BY <1>0, <1>1, <1>2, <1>9, TypeParts DEF TypePush, Conns
<1>12. TypeHist' /\ fault' # "null"
  BY <1>0, <1>1, TypeParts DEF TypeHist, Membership
<1>13. Pushing' /\ Registered'
  BY <1>0, <1>1, <1>2 DEF Pushing, Registered
<1>14. /\ mapped' \subseteq mapped /\ \A d \in Conns : ~conn[d].closed => d \in mapped'
       /\ \A n \in 1..Len(trig') : Early(trig', n) => trig'[n].c \in mapped'
  BY <1>0, <1>1, <1>8 DEF Open, Packets
<1>15. /\ clients' \in [Session -> [Fd -> 0..Len(conn)]] /\ clients' = clients
       /\ rtp' \in Seq(RtpRec) /\ Len(rtp') = Len(conn) /\ rtp' = rtp
  BY <1>0, <1>1, Typing DEF TypeOK
<1> QED
  BY <1>1, <1>8, <1>9, <1>10, <1>11, <1>12, <1>13, <1>14, <1>15, FadesIInv

(* PacketDone preserves the invariant: it destroys RtpConnections whose    *)
(* connection has been removed.                                            *)
LEMMA PacketDoneIInv == ASSUME IInv, NEW more \in BOOLEAN, PacketDone(more) PROVE IInv'
<1>0. TypeOK /\ Pushing /\ Registered /\ Open /\ Membership /\ Removing(trig)
      /\ Packets(trig)
  BY DEF IInv
<1>1. /\ UNCHANGED <<cred, smap, created, sessions, conn, mapped, rtcp, trig, timers, loop, pkt,
                     plist, moved>>
      /\ ppc = "send" /\ plist = <<>> /\ held' = {}
      /\ fault' \in {"descriptor", fault}
      /\ rtp' = [c \in Conns |-> IF c \in held \ mapped THEN NewRtp(FALSE) ELSE rtp[c]]
      /\ ppc' \in {"idle", "snapshot"}
  BY DEF PacketDone, loopVars
<1>2. psess \in Session /\ psess # NoSession
  BY <1>0, <1>1, BoundsAssumption DEF TypeOK, Pushing, NoSession, Session
<1>3. /\ multi' \subseteq multi /\ clients' \in [Session -> [Fd -> 0..Len(conn)]]
      /\ \A z \in Session, f \in Fd : clients'[z][f] \in {clients[z][f], Nobody}
      /\ \A z \in sessions, f \in Fd : clients'[z][f] = clients[z][f]
      /\ psess' \in {psess, NoSession} /\ (ppc' = "idle" \/ psess' = psess)
      /\ pkey' \in {pkey, FALSE}
  <2>1. clients \in [Session -> [Fd -> 0..Len(conn)]] /\ sessions \subseteq Session
    BY <1>0, SessionRange DEF TypeOK
  <2>2. CASE more \/ psess \in sessions
    BY <2>1, <2>2 DEF PacketDone
  <2>3. CASE ~more /\ psess \notin sessions
    <3>1. clients' = [clients EXCEPT ![psess] = [f \in Fd |-> Nobody]] /\ multi' = multi \ {psess}
          /\ psess' = NoSession /\ ppc' = "idle" /\ pkey' = FALSE
      BY <2>3 DEF PacketDone, DestroySession
    <3> QED
      BY <1>0, <1>2, <2>1, <2>3, <3>1, WipedEntries
  <2> QED
    BY <2>2, <2>3
<1>4. /\ rtp' \in Seq(RtpRec) /\ Len(rtp') = Len(conn)
      /\ \A d \in Conns :
           /\ rtp'[d].exists => rtp[d].exists
           /\ rtp'[d].play => rtp[d].play
           /\ rtp[d].exists /\ ~rtp'[d].exists => d \notin mapped'
  <2> DEFINE r == NewRtp(FALSE)
  <2>1. r \in RtpRec /\ ~r.exists /\ ~r.play
    BY NewRtpRecord
  <2>2. /\ \A d \in Conns : rtp[d] \in RtpRec
        /\ rtp' = [d \in Conns |-> IF d \in held \ mapped THEN r ELSE rtp[d]]
        /\ Len(conn) \in Nat /\ Conns = 1..Len(conn)
    BY <1>0, <1>1, Typing DEF Conns
  <2> HIDE DEF r
  <2>3. rtp' \in Seq(RtpRec) /\ Len(rtp') = Len(conn)
    BY <2>1, <2>2
  <2>4. \A d \in Conns : (rtp'[d] = r /\ d \notin mapped) \/ rtp'[d] = rtp[d]
    BY <2>2
  <2> QED
    BY <1>1, <2>1, <2>3, <2>4
<1>5. TypeSess'
  BY <1>0, <1>1, <1>3, TypeParts DEF TypeSess
<1>6. TypePush'
  <2>1. psess' \in 0..created /\ pkey' \in BOOLEAN
    <3>1. psess \in 0..created /\ pkey \in BOOLEAN /\ NoSession \in 0..created
      BY <1>0, Typing DEF TypeOK, NoSession
    <3>2. psess' \in 0..created
      BY <1>3, <3>1
    <3>3. pkey' \in BOOLEAN
      BY <1>3, <3>1
    <3> QED
      BY <3>2, <3>3
  <2>2. ppc' \in {"idle", "snapshot", "send", "post"} /\ held' \subseteq Conns
    BY <1>1
  <2> QED
    BY <1>0, <1>1, <2>1, <2>2, TypeParts DEF TypePush, Conns
<1>7. TypeHist' /\ fault' # "null"
  BY <1>0, <1>1, TypeParts DEF TypeHist, Membership
<1>8. Pushing'
  BY <1>1, <1>2, <1>3 DEF Pushing
<1>9. Registered'
  BY <1>0, <1>1, <1>3 DEF Registered
<1>10. /\ trig \in Seq(Events) /\ Len(trig) <= MaxTrigger /\ timers' \subseteq timers
       /\ mapped' \subseteq mapped /\ \A d \in Conns : ~conn[d].closed => d \in mapped'
       /\ \A n \in 1..Len(trig) : Early(trig, n) => trig[n].c \in mapped'
       /\ conn' \in Seq(ConnRec(created)) /\ conn' = conn /\ Len(conn') = Len(conn)
  BY <1>0, <1>1, Typing DEF Open, Packets, TypeOK
<1> QED
  BY <1>0, <1>1, <1>3, <1>4, <1>5, <1>6, <1>7, <1>8, <1>9, <1>10, FadesIInv

(* Close preserves the invariant, q being the events that are pending when *)
(* it starts: it unlists the connection, drops its RTCP channel and has    *)
(* the removal wait behind the packets.                                    *)
LEMMA CloseIInv ==
  ASSUME IInv, NEW c \in Conns, ~conn[c].closed, NEW out \in Outcome,
         NEW q \in Seq(Events), Len(q) <= MaxTrigger, Removing(q), Packets(q), Close(c, q, out),
         loop # "timers",
         rtp' \in Seq(RtpRec), Len(rtp') = Len(conn),
         \A d \in Conns : rtp'[d].exists = rtp[d].exists /\ (rtp'[d].play => rtp[d].play),
         UNCHANGED <<cred, sessVars, loop, pushVars, moved, fault>>
  PROVE  IInv'
<1> DEFINE k == [conn[c] EXCEPT !.closed = TRUE]
           e == [what |-> "remove", c |-> c]
<1>0. TypeOK /\ Pushing /\ Registered /\ Open /\ Answered /\ AuthFirst /\ Membership
  BY DEF IInv
<1>1. /\ UNCHANGED <<cred, smap, created, sessions, multi, mapped, loop, ppc, psess, pkt, pkey,
                     plist, held, moved, fault>>
      /\ conn' = [conn EXCEPT ![c] = k] /\ clients' = RemoveClient(c)
      /\ rtcp' = rtcp \ {<<c, "last">>}
      /\ out = "stored" => Len(q) < MaxTrigger
      /\ trig' = IF out = "stored" THEN Append(q, e) ELSE q
      /\ timers' \subseteq timers \cup {c}
  BY DEF Close, Removal, Post, RemoveRtcp, sessVars, pushVars
<1>2. /\ conn \in Seq(ConnRec(created)) /\ conn[c] \in ConnRec(created) /\ conn[c].fd \in Fd
      /\ conn[c].sid \in 0..created /\ created \in Nat /\ Len(conn) \in Nat
  BY <1>0, Typing
<1>3. /\ k \in ConnRec(created) /\ k.fd = conn[c].fd /\ k.sid = conn[c].sid /\ k.closed
      /\ k.answered = conn[c].answered /\ k.authed = conn[c].authed
  BY <1>2 DEF ConnRec
<1> HIDE DEF k
<1>4. /\ conn' \in Seq(ConnRec(created)) /\ Len(conn') = Len(conn) /\ conn'[c] = k
      /\ \A d \in Conns : d # c => conn'[d] = conn[d]
  BY <1>1, <1>2, <1>3, ExceptSeq DEF Conns
<1>5. Conns' = Conns /\ Events' = Events /\ TypeSess'
  BY <1>0, <1>1, <1>4, SameShape
<1>6. /\ clients' \in [Session -> [Fd -> 0..Len(conn)]]
      /\ \A z \in Session, f \in Fd :
           clients'[z][f] = IF conn[c].sid \in sessions /\ z = conn[c].sid /\ f = conn[c].fd
                            THEN Nobody ELSE clients[z][f]
  <2>1. clients \in [Session -> [Fd -> 0..Len(conn)]] /\ Nobody \in 0..Len(conn)
    BY <1>0, <1>2 DEF TypeOK, Nobody
  <2>2. CASE conn[c].sid \in sessions
    <3>1. clients' = [clients EXCEPT ![conn[c].sid][conn[c].fd] = Nobody] /\ conn[c].sid \in Session
      BY <1>0, <1>1, <2>2, SessionRange DEF RemoveClient
    <3> QED
      BY <1>2, <2>1, <2>2, <3>1, SetEntry
  <2>3. CASE conn[c].sid \notin sessions
    BY <1>1, <2>1, <2>3 DEF RemoveClient
  <2> QED
    BY <2>2, <2>3
<1>7. /\ e \in Events /\ e.what = "remove" /\ e.c = c
      /\ trig' \in Seq(Events) /\ Len(trig') <= MaxTrigger
  BY <1>1, BoundsAssumption DEF Events
<1>8. TypeOK'
  <2>1. TypeConn'
    BY <1>0, <1>1, <1>4, <1>5, <1>6, TypeParts DEF TypeConn
  <2>2. TypeLoop'
    BY <1>0, <1>1, <1>5, <1>7, TypeParts DEF TypeLoop
  <2>3. TypePush'
    BY <1>0, <1>1, <1>4, <1>5, TypeParts DEF TypePush
  <2>4. TypeHist'
    BY <1>0, <1>1, TypeParts DEF TypeHist
  <2> QED
    BY <1>5, <2>1, <2>2, <2>3, <2>4 DEF TypeOK, TypeSess, TypeConn, TypeLoop, TypePush, TypeHist, ConnRec, RtpRec
<1>9. Pushing'
  <2>1. \A d \in held : rtp'[d].exists
    <3>1. held \subseteq Conns /\ \A d \in held : rtp[d].exists
      BY <1>0 DEF Pushing, TypeOK
    <3> QED
      BY <3>1
  <2> QED
    BY <1>0, <1>1, <2>1 DEF Pushing
<1>10. Registered'
  <2>1. ASSUME NEW z \in Session, z > created, NEW f \in Fd PROVE clients'[z][f] = Nobody
    <3>1. clients[z][f] = Nobody
      BY <1>0, <2>1 DEF Registered
    <3> QED
      BY <1>6, <3>1
  <2>2. \A x \in Suffix : smap[x] \in sessions \cup {NoSession}
    BY <1>0 DEF Registered
  <2> QED
    BY <1>1, <2>1, <2>2 DEF Registered
<1>11. Open'
  <2>1. ASSUME NEW d \in Conns, ~conn'[d].closed PROVE d # c /\ conn'[d] = conn[d]
    BY <1>3, <1>4, <2>1
  <2>2. \A d \in Conns : ~conn'[d].closed =>
         /\ d \in mapped
         /\ conn'[d].sid # NoSession => rtp'[d].exists
         /\ \A b \in Conns : ~conn'[b].closed /\ conn'[d].fd = conn'[b].fd => d = b
    BY <1>0, <2>1 DEF Open
  <2>3. \A d \in Conns : <<d, "last">> \in rtcp' => ~conn'[d].closed
    BY <1>0, <1>1, <1>4 DEF Open
  <2> QED
    BY <1>1, <1>5, <2>2, <2>3 DEF Open
<1>12. Removing(trig)' /\ Packets(trig)'
  <2>1. /\ \A n \in 1..Len(q) : q[n].c \in Conns
        /\ \A d \in Conns : conn[d].closed => conn'[d].closed
        /\ timers \subseteq Conns /\ conn'[c].closed
    BY <1>0, <1>3, <1>4, EventFields DEF TypeOK
  <2>2. \A n \in 1..Len(trig') : \/ n \in 1..Len(q) /\ trig'[n] = q[n]
                                 \/ n = Len(q) + 1 /\ trig'[n] = e
    BY <1>1
  <2>3. \A n \in 1..Len(trig') : Early(trig', n) => n \in 1..Len(q) /\ Early(q, n) /\ trig'[n] = q[n]
    BY <1>7, <2>2 DEF Early
  <2>4. Removing(trig)'
    BY <1>1, <1>7, <2>1, <2>2 DEF Removing
  <2>5. Packets(trig)'
    <3>1. \A n \in 1..Len(trig') :
            Early(trig', n) => trig'[n].c \in mapped /\ rtp'[trig'[n].c].exists
      BY <2>1, <2>3 DEF Packets
    <3>2. ASSUME NEW m \in 1..Len(trig'), NEW n \in 1..Len(trig'), m < n,
                 trig'[m].what = "remove", Early(trig', n)
          PROVE  trig'[m].c # trig'[n].c
      <4>1. n \in 1..Len(q) /\ Early(q, n) /\ trig'[n] = q[n]
        BY <2>3, <3>2
      <4>2. m \in 1..Len(q) /\ trig'[m] = q[m]
        BY <2>2, <3>2, <4>1
      <4> QED
        BY <3>2, <4>1, <4>2 DEF Packets
    <3> QED
      BY <1>1, <3>1, <3>2 DEF Packets, Early
  <2> QED
    BY <2>4, <2>5
<1>13. Answered'
  BY <1>0, <1>1, <1>3, <1>4, <1>5 DEF Answered
<1>14. AuthFirst'
  <2> SUFFICES ASSUME cred, NEW d \in Conns, ~conn'[d].answered
               PROVE  /\ conn'[d].sid = NoSession /\ ~rtp'[d].exists /\ ~rtp'[d].play
                      /\ \A z \in Session, f \in Fd : clients'[z][f] # d
    BY <1>1, <1>5 DEF AuthFirst
  <2>1. ~conn[d].answered /\ conn'[d].sid = conn[d].sid /\ d # Nobody
    BY <1>3, <1>4 DEF Conns, Nobody
  <2>2. /\ conn[d].sid = NoSession /\ ~rtp[d].exists /\ ~rtp[d].play
        /\ \A z \in Session, f \in Fd : clients[z][f] # d
    BY <1>0, <2>1 DEF AuthFirst
  <2>3. ~rtp'[d].exists /\ ~rtp'[d].play
    BY <2>2
  <2>4. \A z \in Session, f \in Fd : clients'[z][f] # d
    BY ONLY <1>6, <2>1, <2>2
  <2> QED
    BY <2>1, <2>2, <2>3, <2>4
<1>15. Membership'
  <2> SUFFICES ASSUME ~moved, NEW z \in sessions, NEW f \in Fd, NEW d \in Conns
               PROVE  clients'[z][f] = d <=>
                        conn'[d].sid = z /\ conn'[d].fd = f /\ ~conn'[d].closed
    BY <1>0, <1>1, <1>5 DEF Membership
  <2>1. /\ z \in Session /\ d # Nobody
        /\ clients[z][f] = d <=> conn[d].sid = z /\ conn[d].fd = f /\ ~conn[d].closed
    BY <1>0, SessionRange DEF Membership, Conns, Nobody
  <2>2. CASE z = conn[c].sid /\ f = conn[c].fd
    <3>1. clients'[z][f] # d
      BY <1>6, <2>1, <2>2
    <3>2. d # c => ~(conn[d].fd = f /\ ~conn[d].closed)
      BY <1>0, <2>2 DEF Open
    <3> QED
      BY <1>3, <1>4, <3>1, <3>2
  <2>3. CASE ~(z = conn[c].sid /\ f = conn[c].fd)
    <3>1. clients'[z][f] = clients[z][f]
      BY <1>6, <2>1, <2>3
    <3> QED
      BY <1>3, <1>4, <2>1, <2>3, <3>1
  <2> QED
    BY <2>2, <2>3
<1> QED
  BY <1>8, <1>9, <1>10, <1>11, <1>12, <1>13, <1>14, <1>15 DEF IInv

(* HangUp preserves the invariant.                                         *)
LEMMA HangUpIInv == ASSUME IInv, NEW c \in Conns, NEW out \in Outcome, HangUp(c, out) PROVE IInv'
<1>1. /\ ~conn[c].closed /\ loop = "dispatch" /\ Close(c, trig, out)
      /\ UNCHANGED <<cred, sessVars, loop, pushVars, moved, fault>> /\ rtp' = rtp
  BY DEF HangUp, Readable
<1>2. /\ trig \in Seq(Events) /\ Len(trig) <= MaxTrigger /\ Removing(trig) /\ Packets(trig)
      /\ rtp \in Seq(RtpRec) /\ Len(rtp) = Len(conn)
  BY Typing DEF IInv, TypeOK
<1> QED
  BY <1>1, <1>2, CloseIInv

(* RunRtp preserves the invariant: it changes one RtpConnection, and may   *)
(* close its connection.                                                   *)
LEMMA RunRtpIInv ==
  ASSUME IInv, NEW sent \in BOOLEAN, NEW out \in Outcome, RunRtp(sent, out)
  PROVE  IInv'
<1> DEFINE e == Head(trig)
           c == e.c
           q == Tail(trig)
           r == Typed(rtp[c], e.key)
<1>0. TypeOK /\ Pushing /\ Registered /\ Open /\ Membership
  BY DEF IInv
<1>1. /\ loop = "trigger" /\ trig # <<>> /\ e.what = "rtp"
      /\ UNCHANGED <<cred, smap, created, sessions, multi, loop, ppc, psess, pkt, pkey, plist, held,
                     moved>>
      /\ UNCHANGED <<cred, sessVars, loop, pushVars, moved>>
  BY DEF RunRtp, sessVars, pushVars
<1>2. /\ q \in Seq(Events) /\ Len(q) <= MaxTrigger /\ Len(q) < MaxTrigger
      /\ Removing(q) /\ Packets(q) /\ c \in Conns
  BY <1>1, PoppedQueue, BoundsAssumption
<1>3. e.pkt \in 1..pkt /\ e.key \in BOOLEAN
  BY <1>0, <1>1, PoppedQueue, EventFields DEF TypeOK
<1>4. r \in RtpRec /\ r.exists = rtp[c].exists /\ r.play = rtp[c].play
  <2>1. rtp[c] \in RtpRec
    BY <1>0, <1>2, Typing
  <2> QED
    BY <1>3, <2>1 DEF Typed, RtpRec
<1>6. fault # "null"
  BY <1>0 DEF Membership
<1>7. /\ (~RtpAlive(c) =>
            /\ fault' = "dangling" /\ trig' = q
            /\ UNCHANGED <<clients, connVars, timers>>)
      /\ (RtpAlive(c) /\ ~(r.play /\ r.key) =>
            /\ rtp' = [rtp EXCEPT ![c] = r] /\ trig' = q
            /\ UNCHANGED <<clients, conn, mapped, rtcp, timers, fault>>)
      /\ (RtpAlive(c) /\ r.play /\ r.key /\ r.mode # "tcp" =>
            /\ rtp' = [rtp EXCEPT ![c] = IF sent THEN r ELSE Teardown(r)]
            /\ trig' = q
            /\ UNCHANGED <<clients, conn, mapped, rtcp, timers, fault>>)
      /\ (RtpAlive(c) /\ r.play /\ r.key /\ r.mode = "tcp" =>
            /\ rtp' = [rtp EXCEPT ![c] = r]
            /\ IF Alive(c) /\ ~conn[c].closed /\ ~sent
                 THEN Close(c, q, out)
                 ELSE trig' = q /\ UNCHANGED <<clients, conn, mapped, rtcp, timers>>
            /\ fault' = fault)
  BY DEF RunRtp
<1> HIDE DEF e, c, q, r
<1>8. ASSUME NEW p \in RtpRec, p.exists = rtp[c].exists, p.play => rtp[c].play,
             rtp' = [rtp EXCEPT ![c] = p]
      PROVE  /\ rtp' \in Seq(RtpRec) /\ Len(rtp') = Len(conn)
             /\ \A d \in Conns : rtp'[d].exists = rtp[d].exists /\ (rtp'[d].play => rtp[d].play)
  <2>1. rtp \in Seq(RtpRec) /\ Len(rtp) = Len(conn)
    BY <1>0, Typing
  <2>2. /\ rtp' \in Seq(RtpRec) /\ Len(rtp') = Len(conn) /\ rtp'[c] = p
        /\ \A d \in Conns : d # c => rtp'[d] = rtp[d]
    BY <1>2, <1>8, <2>1, ExceptSeq DEF Conns
  <2> QED
    BY <1>8, <2>2
<1>9. ASSUME /\ trig' = q /\ UNCHANGED <<clients, conn, mapped, rtcp, timers>>
             /\ rtp' \in Seq(RtpRec) /\ Len(rtp') = Len(conn)
             /\ \A d \in Conns : rtp'[d].exists = rtp[d].exists /\ (rtp'[d].play => rtp[d].play)
             /\ fault' \in {"dangling", fault}
      PROVE  IInv'
  <2>1. TypeSess'
    BY <1>0, <1>1, TypeParts DEF TypeSess
  <2>2. TypePush'
    BY <1>0, <1>1, <1>9, TypeParts DEF TypePush, Conns
  <2>3. TypeHist' /\ fault' # "null"
    BY <1>0, <1>1, <1>6, <1>9, TypeParts DEF TypeHist
  <2>4. \A d \in held : rtp'[d].exists
    <3>1. held \subseteq Conns /\ \A d \in held : rtp[d].exists
      BY <1>0 DEF Pushing, TypeOK
    <3> QED
      BY <1>9, <3>1
  <2>5. Pushing' /\ Registered'
    BY <1>0, <1>1, <1>9, <2>4 DEF Pushing, Registered
  <2>6. /\ \A d \in Conns : ~conn[d].closed => d \in mapped
        /\ \A n \in 1..Len(q) : Early(q, n) => q[n].c \in mapped
        /\ conn \in Seq(ConnRec(created)) /\ clients \in [Session -> [Fd -> 0..Len(conn)]]
    BY <1>0, <1>2, Typing DEF Open, Packets, TypeOK
  <2>7. \A d \in Conns :
           /\ rtp'[d].exists => rtp[d].exists
           /\ rtp'[d].play => rtp[d].play
           /\ rtp[d].exists /\ ~rtp'[d].exists => d \notin mapped'
    BY <1>9
  <2> QED
    BY <1>1, <1>2, <1>9, <2>1, <2>2, <2>3, <2>5, <2>6, <2>7, FadesIInv
<1>11. CASE ~RtpAlive(c)
  <2>1. /\ fault' = "dangling" /\ trig' = q
        /\ UNCHANGED <<clients, conn, rtp, mapped, rtcp, timers>>
    BY <1>7, <1>11 DEF connVars
  <2>2. rtp \in Seq(RtpRec) /\ Len(rtp) = Len(conn)
    BY <1>0, Typing
  <2> QED
    BY <1>6, <1>9, <2>1, <2>2
<1>12. CASE RtpAlive(c) /\ ~(r.play /\ r.key)
  <2>1. /\ rtp' = [rtp EXCEPT ![c] = r] /\ trig' = q
        /\ UNCHANGED <<clients, conn, mapped, rtcp, timers, fault>>
    BY <1>7, <1>12
  <2> QED
    BY <1>4, <1>6, <1>8, <1>9, <2>1
<1>13. CASE RtpAlive(c) /\ r.play /\ r.key /\ r.mode # "tcp"
  <2> DEFINE p == IF sent THEN r ELSE Teardown(r)
  <2>1. /\ rtp' = [rtp EXCEPT ![c] = p] /\ trig' = q
        /\ UNCHANGED <<clients, conn, mapped, rtcp, timers, fault>>
    BY <1>7, <1>13
  <2>2. p \in RtpRec /\ p.exists = rtp[c].exists /\ (p.play => rtp[c].play)
    BY <1>4, TeardownRecord
  <2> HIDE DEF p
  <2> QED
    BY <1>8, <1>9, <2>1, <2>2
<1>14. CASE RtpAlive(c) /\ r.play /\ r.key /\ r.mode = "tcp"
  <2>1. /\ rtp' = [rtp EXCEPT ![c] = r]
        /\ IF Alive(c) /\ ~conn[c].closed /\ ~sent
             THEN Close(c, q, out)
             ELSE trig' = q /\ UNCHANGED <<clients, conn, mapped, rtcp, timers>>
        /\ fault' = fault
    BY <1>7, <1>14
  <2>3. /\ rtp' \in Seq(RtpRec) /\ Len(rtp') = Len(conn)
        /\ \A d \in Conns : rtp'[d].exists = rtp[d].exists /\ (rtp'[d].play => rtp[d].play)
    BY <1>4, <1>8, <2>1
  <2>4. CASE Alive(c) /\ ~conn[c].closed /\ ~sent
    BY <1>1, <1>2, <2>1, <2>3, <2>4, CloseIInv
  <2>5. CASE ~(Alive(c) /\ ~conn[c].closed /\ ~sent)
    BY <1>9, <2>1, <2>3, <2>5
  <2> QED
    BY <2>4, <2>5
<1> QED
  BY <1>11, <1>12, <1>13, <1>14

(* Accept preserves the invariant: the descriptor is not that of an open   *)
(* connection, and nobody has listed the new one.                          *)
LEMMA AcceptIInv == ASSUME IInv, NEW f \in Fd, Accept(f) PROVE IInv'
<1> DEFINE k == NewConn(f)
           r == NewRtp(FALSE)
           b == Len(conn) + 1
<1>0. TypeOK /\ Pushing /\ Registered /\ Open /\ Removing(trig) /\ Packets(trig)
      /\ Answered /\ AuthFirst /\ Membership
  BY DEF IInv
<1>1. /\ UNCHANGED <<cred, smap, created, sessions, multi, clients, rtcp, trig, timers, loop, ppc,
                     psess, pkt, pkey, plist, held, moved, fault>>
      /\ Len(conn) < MaxConn /\ \A d \in Conns : Alive(d) => conn[d].fd # f
      /\ conn' = Append(conn, k) /\ rtp' = Append(rtp, r) /\ mapped' = mapped \cup {Len(conn')}
  BY DEF Accept, sessVars, loopVars, pushVars
<1>2. /\ k \in ConnRec(created) /\ k.fd = f /\ k.sid = NoSession /\ ~k.closed /\ ~k.answered
      /\ k.authed = ~cred
  BY <1>0, Typing DEF NewConn, ConnRec, NoSession, TypeOK
<1>3. r \in RtpRec /\ ~r.exists /\ ~r.play
  BY NewRtpRecord
<1> HIDE DEF k, r
<1>4. /\ conn \in Seq(ConnRec(created)) /\ rtp \in Seq(RtpRec) /\ Len(rtp) = Len(conn)
      /\ Len(conn) \in Nat /\ created \in Nat
  BY <1>0, Typing
<1>5. /\ conn' \in Seq(ConnRec(created)) /\ Len(conn') = b /\ conn'[b] = k
      /\ rtp' \in Seq(RtpRec) /\ Len(rtp') = b /\ rtp'[b] = r
      /\ \A d \in Conns : conn'[d] = conn[d] /\ rtp'[d] = rtp[d]
  BY <1>1, <1>2, <1>3, <1>4 DEF Conns
<1>6. Conns' = Conns \cup {b} /\ b \notin Conns /\ b # Nobody /\ mapped' = mapped \cup {b}
  BY <1>1, <1>4, <1>5 DEF Conns, Nobody
<1>7. 0..Len(conn) \subseteq 0..Len(conn') /\ Conns \subseteq Conns' /\ b \notin 0..Len(conn)
  BY <1>4, <1>5, <1>6
<1>8. TypeOK'
  <2>1. TypeSess' /\ TypeHist'
    BY <1>0, <1>1, TypeParts DEF TypeSess, TypeHist
  <2>2. TypeConn'
    <3>1. clients \in [Session -> [Fd -> 0..Len(conn')]]
      BY <1>0, <1>7 DEF TypeOK
    <3>2. mapped' \subseteq Conns' /\ rtcp \subseteq Conns' \X {"last", "old"}
      BY <1>0, <1>6 DEF TypeOK
    <3> QED
      BY <1>1, <1>4, <1>5, <3>1, <3>2, BoundsAssumption DEF TypeConn
  <2>3. TypeLoop'
    <3>1. Events \subseteq Events'
      BY <1>1, <1>7 DEF Events
    <3>2. trig \in Seq(Events')
      BY <1>0, <3>1 DEF TypeOK
    <3> QED
      BY <1>0, <1>1, <1>7, <3>2, TypeParts DEF TypeLoop
  <2>4. TypePush'
    <3>1. plist \in Seq(Conns') /\ held \subseteq Conns'
      BY <1>0, <1>7 DEF TypeOK
    <3> QED
      BY <1>0, <1>1, <3>1, TypeParts DEF TypePush
  <2> QED
    BY <2>1, <2>2, <2>3, <2>4 DEF TypeOK, TypeSess, TypeConn, TypeLoop, TypePush, TypeHist, ConnRec, RtpRec
<1>9. Pushing' /\ Registered'
  BY <1>0, <1>1, <1>5 DEF Pushing, Registered, TypeOK
<1>10. Open'
  <2>1. \A d \in Conns : ~conn[d].closed => conn[d].fd # f
    BY <1>0, <1>1 DEF Open, Alive
  <2>2. ASSUME NEW d \in Conns', ~conn'[d].closed
        PROVE  /\ d \in mapped'
               /\ conn'[d].sid # NoSession => rtp'[d].exists
               /\ \A z \in Conns' : ~conn'[z].closed /\ conn'[d].fd = conn'[z].fd => d = z
    <3>1. CASE d = b
      BY <1>2, <1>5, <1>6, <2>1, <3>1
    <3>2. CASE d \in Conns
      BY <1>0, <1>2, <1>5, <1>6, <2>1, <2>2, <3>2 DEF Open
    <3> QED
      BY <1>6, <3>1, <3>2
  <2>3. \A d \in Conns' : <<d, "last">> \in rtcp => ~conn'[d].closed
    BY <1>0, <1>2, <1>5, <1>6 DEF Open
  <2> QED
    BY <1>1, <2>2, <2>3 DEF Open
<1>11. Removing(trig)' /\ Packets(trig)'
  <2>1. /\ \A n \in 1..Len(trig) : trig[n].c \in Conns
        /\ timers \subseteq Conns
    BY <1>0, EventFields DEF TypeOK
  <2>2. Removing(trig)'
    BY <1>0, <1>1, <1>5, <2>1 DEF Removing
  <2>3. trig' = trig /\ timers' = timers /\ loop' = loop /\ Packets(trig)
    BY <1>0, <1>1
  <2>4. ASSUME NEW n \in 1..Len(trig), Early(trig, n)
        PROVE  trig[n].c \in mapped' /\ rtp'[trig[n].c].exists
    BY <1>5, <1>6, <2>1, <2>3, <2>4 DEF Packets
  <2>5. Packets(trig)'
    BY <2>3, <2>4 DEF Packets, Early
  <2> QED
    BY <2>2, <2>5
<1>12. Answered'
  BY <1>0, <1>1, <1>2, <1>5, <1>6 DEF Answered
<1>13. \A z \in Session, g \in Fd : clients[z][g] # b
  BY <1>0, <1>7 DEF TypeOK
<1>14. AuthFirst'
  <2>1. ASSUME cred, NEW d \in Conns', ~conn'[d].answered
        PROVE  /\ conn'[d].sid = NoSession /\ ~rtp'[d].exists /\ ~rtp'[d].play
               /\ \A z \in Session, g \in Fd : clients[z][g] # d
    <3>1. CASE d = b
      BY <1>2, <1>3, <1>5, <1>13, <3>1
    <3>2. CASE d \in Conns
      BY <1>0, <1>5, <2>1, <3>2 DEF AuthFirst
    <3> QED
      BY <1>6, <3>1, <3>2
  <2> QED
    BY <1>1, <2>1 DEF AuthFirst
<1>15. Membership'
  <2> SUFFICES ASSUME ~moved, NEW z \in sessions, NEW g \in Fd, NEW d \in Conns'
               PROVE  clients[z][g] = d <=>
                        conn'[d].sid = z /\ conn'[d].fd = g /\ ~conn'[d].closed
    <3>1. fault' # "null" /\ moved' = moved /\ sessions' = sessions /\ clients' = clients
      BY <1>0, <1>1 DEF Membership
    <3> QED
      BY <3>1 DEF Membership
  <2>1. z \in Session /\ z # NoSession
    BY <1>0, SessionRange
  <2>2. CASE d = b
    BY <1>2, <1>5, <1>13, <2>1, <2>2
  <2>3. CASE d \in Conns
    BY <1>0, <1>5, <2>3 DEF Membership
  <2> QED
    BY <1>6, <2>2, <2>3
<1> QED
  BY <1>8, <1>9, <1>10, <1>11, <1>12, <1>14, <1>15 DEF IInv

-----------------------------------------------------------------------------
(* A stuttering step preserves the invariant.                              *)
LEMMA StutterIInv == ASSUME IInv, UNCHANGED vars PROVE IInv'
<1> USE DEF vars, sessVars, connVars, loopVars, pushVars
<1>0. TypeOK /\ Pushing /\ Registered
  BY DEF IInv
<1>1. Conns' = Conns
  BY DEF Conns
<1>2. TypeSess' /\ TypePush'
  BY <1>0, <1>1, TypeParts DEF TypeSess, TypePush
<1>3. Pushing' /\ Registered'
  BY <1>0 DEF Pushing, Registered
<1>4. /\ clients' \in [Session -> [Fd -> 0..Len(conn)]] /\ clients' = clients
      /\ loop' \in {"trigger", "timers", "dispatch"} /\ created <= created' /\ pkt <= pkt'
  BY <1>0, Typing DEF TypeOK
<1> QED
  BY <1>2, <1>3, <1>4, KeptIInv

(* Every step preserves the invariant.                                     *)
LEMMA NextIInv == IInv /\ [Next]_vars => IInv'
<1> SUFFICES ASSUME IInv, [Next]_vars PROVE IInv'
  OBVIOUS
<1>1. ASSUME NEW c \in Conns, Request(c) PROVE IInv'
  BY <1>1, DescribeIInv, SetupIInv, PlayIInv, TeardownIInv DEF Request
<1>2. CASE Loop
  BY <1>1, <1>2, AcceptIInv, HangUpIInv, RunTimerIInv, RunRemoveIInv, RunRtpIInv, NextPhaseIInv
     DEF Loop
<1>3. CASE Push
  BY <1>3, PushFrameIInv, SnapshotIInv, SendIInv, PostPacketIInv, PacketDoneIInv DEF Push
<1>4. CASE App
  BY <1>4, AddSessionIInv, RemoveSessionIInv DEF App
<1>5. CASE UNCHANGED vars
  BY <1>5, StutterIInv
<1> QED
  BY <1>2, <1>3, <1>4, <1>5 DEF Next

(* The invariant holds in every reachable state.                           *)
LEMMA Invariance == Spec => []IInv
BY InitIInv, NextIInv, PTL DEF Spec

(* Maps, queues and flags hold what they are declared for.                 *)
THEOREM TypeCorrect == Spec => []TypeOK
<1>1. IInv => TypeOK
  BY DEF IInv
<1> QED
  BY <1>1, Invariance, PTL

(* The raw RtpConnection pointer that SendRtpPacket captures is valid when *)
(* its event runs, if the event was posted before the connection closed.   *)
THEOREM EventsValid == Spec => []RtpEventValid
<1>1. IInv => RtpEventValid
  BY DEF IInv, Packets, Early, RtpEventValid, RtpAlive, Alive
<1> QED
  BY <1>1, Invariance, PTL

(* The RTCP channel of a client's last UDP setup never outlives it.        *)
THEOREM RtcpValid == Spec => []RtcpChannelValid
<1>1. IInv => RtcpChannelValid
  BY DEF IInv, Open, RtcpChannelValid, Alive
<1> QED
  BY <1>1, Invariance, PTL

(* With credentials, nobody has a session, an RtpConnection or an entry    *)
(* among the clients before answering a nonce.                             *)
THEOREM AuthenticationFirst == Spec => []AuthFirst
<1>1. IInv => AuthFirst
  BY DEF IInv
<1> QED
  BY <1>1, Invariance, PTL

(* The clients of a session that can be looked up are its open             *)
(* connections, and SETUP never finds rtp_conn_ missing.                   *)
THEOREM ClientsAreOpen == Spec => []Membership
<1>1. IInv => Membership
  BY DEF IInv
<1> QED
  BY <1>1, Invariance, PTL
=============================================================================
