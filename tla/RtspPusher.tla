----------------------------- MODULE RtspPusher -----------------------------
(***************************************************************************)
(* The pusher's end of a connection: RtspPusher::OpenUrl and Close on the  *)
(* user's thread, and on the loop's thread the handshake OPTIONS, ANNOUNCE,*)
(* SETUP, RECORD that RtspConnection::HandleRtspResponse drives.  The RTSP *)
(* server is external: it answers every request, in order, with "OK" or    *)
(* with an error.                                                          *)
(*                                                                         *)
(* A response is a head, which holds the status line, and a tail, which    *)
(* holds the empty line; recv may return one without the other.  Peek() is *)
(* searched up to a zero byte, past the end of what is readable, so what   *)
(* an earlier response left in the buffer may be found again.              *)
(***************************************************************************)
EXTENDS WriteQueue, FiniteSets

CONSTANTS Channels, \* media channels of the session that have a source
          MaxReqs   \* bound: packets handed to Send

ASSUME PusherAssumption == Channels \subseteq {0, 1} /\ MaxReqs \in Nat

VARIABLES
    upc,     \* user's thread: "waiting" in OpenUrl, "open", "failed", "closed"
    conn,    \* rtsp_conn_ is set
    events,  \* trigger events posted: "options", "disconnect", "close"
    media,   \* media_session_ is set and has an SDP text
    method,  \* method_ of rtsp_response_
    cseq,    \* cseq_
    setup,   \* channels that are set up
    push,    \* conn_state_ = START_PUSH
    reqs,    \* requests that were queued: method, CSeq and number of the packet
    answered,\* requests the server has answered
    resp,    \* response tokens on their way
    rbuf,    \* read_buffer_
    dirty,   \* the buffer holds bytes of an earlier response
    oks,     \* responses with OK received whole
    whole,   \* no response has been split so far
    crashed  \* rtsp_conn_ was null when the event ran

pusherVars == <<upc, conn, events, media, method, cseq, setup, push, reqs, answered, resp,
                rbuf, dirty, oks, whole, crashed>>

handshake == <<method, cseq, setup, push, reqs>>
received  == <<answered, resp, rbuf, dirty, oks, whole>>

(* OpenUrl has connected and posted the event.                             *)
PusherInit ==
    /\ upc = "waiting" /\ conn = TRUE /\ events = <<"options">> /\ media \in BOOLEAN
    /\ method = "NONE" /\ cseq = 0 /\ setup = {} /\ push = FALSE /\ reqs = <<>>
    /\ answered = 0 /\ resp = <<>> /\ rbuf = <<>> /\ dirty = FALSE /\ oks = 0
    /\ whole = TRUE /\ crashed = FALSE

-----------------------------------------------------------------------------
(* The user's thread *)

(* OpenUrl polls IsRecord() every 100 ms until its time is up.             *)
OpenUrlReturns ==
    /\ upc = "waiting" /\ push /\ upc' = "open"
    /\ UNCHANGED <<conn, events, media, handshake, received, crashed>>

OpenUrlTimesOut ==
    /\ upc = "waiting" /\ ~push /\ upc' = "failed"
    /\ events' = Append(events, "disconnect") /\ conn' = FALSE
    /\ UNCHANGED <<media, handshake, received, crashed>>

Close ==
    /\ upc = "open" /\ upc' = "closed"
    /\ events' = Append(events, "disconnect") /\ conn' = FALSE
    /\ UNCHANGED <<media, handshake, received, crashed>>

UserStep == (OpenUrlReturns \/ OpenUrlTimesOut \/ Close) /\ UNCHANGED wqVars

-----------------------------------------------------------------------------
(* The loop's thread *)

(* Faulty variant: every request carries the CSeq of the last response.    *)
BadBuildReq(m, c) == [method |-> m, cseq |-> c, id |-> sent + 1]

(* RtspResponse::Build...Req *)
BuildReq(m, c) == [method |-> m, cseq |-> c + 1, id |-> sent + 1]

SendReq(m, c) ==
    /\ method' = m
    /\ reqs' = IF Len(wq) < MaxQueue THEN Append(reqs, BuildReq(m, c)) ELSE reqs
    /\ \E s \in Sizes : Send(s)

HandleClose == closed' = TRUE /\ UNCHANGED <<qVars, mutex, lpc, disc>>

SendAnnounce(c) ==
    /\ IF media THEN SendReq("ANNOUNCE", c) ELSE HandleClose /\ UNCHANGED <<method, reqs>>
    /\ UNCHANGED <<setup, push>>

(* SETUP of each channel with a source, then RECORD.                       *)
SendSetup(c) ==
    /\ LET left == Channels \ setup IN
       IF left = {} THEN SendReq("RECORD", c) /\ UNCHANGED setup
       ELSE LET ch == CHOOSE x \in left : \A y \in left : x <= y
            IN  SendReq("SETUP", c) /\ setup' = setup \cup {ch}
    /\ UNCHANGED push

HandleRecord == push' = TRUE /\ UNCHANGED <<method, setup, reqs, wqVars>>

(* The switch of HandleRtspResponse.                                       *)
HandleResponse(c) ==
    CASE method = "OPTIONS" -> SendAnnounce(c)
      [] method \in {"ANNOUNCE", "SETUP"} -> SendSetup(c)
      [] method = "RECORD" -> HandleRecord

(* The posted events, in their order.                                      *)
RunEvent ==
    /\ lpc = "idle" /\ ~crashed /\ events # <<>>
    /\ LET e == Head(events) IN
       /\ events' = IF e = "disconnect" THEN Append(Tail(events), "close") ELSE Tail(events)
       /\ \/ /\ e = "options" /\ conn /\ ~closed
             /\ SendReq("OPTIONS", cseq)
             /\ UNCHANGED crashed
          \/ /\ e = "options" /\ conn /\ closed
             /\ method' = "OPTIONS" /\ UNCHANGED <<reqs, crashed, wqVars>>
          \/ /\ e = "options" /\ ~conn
             /\ crashed' = TRUE /\ UNCHANGED <<method, reqs, wqVars>>
          \/ /\ e = "disconnect" /\ mutex = "free"
             /\ UNCHANGED <<method, reqs, crashed, wqVars>>
          \/ /\ e = "close" /\ HandleClose
             /\ UNCHANGED <<method, reqs, crashed>>
    /\ UNCHANGED <<upc, conn, media, cseq, setup, push, received>>

(* The external server answers the next request that has reached it.       *)
ServerAnswers(ok) ==
    /\ answered < Len(reqs)
    /\ LET id == reqs[answered + 1].id
       IN  wire.id > id \/ (wire.id = id /\ wire.to = wire.size)
    /\ answered' = answered + 1
    /\ resp' = resp \o <<IF ok THEN "ok" ELSE "error", "tail">>
    /\ UNCHANGED <<upc, conn, events, media, handshake, rbuf, dirty, oks, whole, crashed, wqVars>>

Has(b, t) == \E i \in DOMAIN b : b[i] = t

(* Whether ParseResponse finds the empty line, and "OK", in front of a zero*)
(* byte; a head at the front overwrites the old status line.               *)
FindsEnd(b) == IF Has(b, "tail") THEN {TRUE} ELSE {FALSE, dirty}
FindsOk(b)  == IF b[1] = "tail" THEN {FALSE, dirty} ELSE {Has(b, "ok")}

(* HandleRead: recv returns k tokens.  The switch runs whether or not the  *)
(* response is complete.                                                   *)
OnResponse(k) ==
    /\ lpc = "idle" /\ ~closed /\ ~crashed /\ mutex = "free"
    /\ k <= Len(resp) /\ sent < MaxReqs
    /\ resp' = SubSeq(resp, k + 1, Len(resp))
    /\ whole' = (whole /\ rbuf = <<>> /\ k = 2)
    /\ LET b == rbuf \o SubSeq(resp, 1, k) IN
       \E end \in FindsEnd(b) :
       \/ /\ end /\ FALSE \in FindsOk(b)
          /\ HandleClose /\ rbuf' = b
          /\ UNCHANGED <<handshake, dirty, oks>>
       \/ /\ end /\ TRUE \in FindsOk(b)
          /\ cseq' = cseq + 1 /\ rbuf' = <<>> /\ dirty' = TRUE
          /\ oks' = oks + (IF Has(b, "ok") /\ Has(b, "tail") THEN 1 ELSE 0)
          /\ HandleResponse(cseq + 1)
       \/ /\ ~end
          /\ rbuf' = b /\ UNCHANGED <<cseq, dirty, oks>>
          /\ HandleResponse(cseq)
    /\ UNCHANGED <<upc, conn, events, media, answered, crashed>>

(* RTP packets, once the server records.                                   *)
PushRtp == push /\ sent < MaxReqs /\ (\E s \in Sizes : SendEvent(s)) /\ UNCHANGED pusherVars

PusherWrite == ~crashed /\ (Writable \/ HandleWrite \/ HangUp) /\ UNCHANGED pusherVars

PusherNext ==
    \/ UserStep \/ RunEvent
    \/ \E ok \in BOOLEAN : ServerAnswers(ok)
    \/ \E k \in 1..Len(resp) : OnResponse(k)
    \/ PushRtp \/ PusherWrite

PusherSpec == PusherInit /\ WqInit /\ [][PusherNext]_<<pusherVars, wqVars>>

-----------------------------------------------------------------------------
Order(n) == CASE n = 1 -> "OPTIONS" [] n = 2 -> "ANNOUNCE"
              [] n \in 3..(2 + Cardinality(Channels)) -> "SETUP" [] OTHER -> "RECORD"

(* While recv returns whole responses, the handshake is in step with the   *)
(* server: request n has CSeq n and is the n-th of the fixed order, it is  *)
(* only sent when the one before was accepted, and frames are pushed only  *)
(* after RECORD was.  (A response that comes in two pieces takes two steps.)*)
HandshakeInStep ==
    whole => /\ Len(reqs) <= oks + 1
             /\ \A n \in DOMAIN reqs : reqs[n].method = Order(n) /\ reqs[n].cseq = n
             /\ push => oks = 3 + Cardinality(Channels)
=============================================================================
