----------------------------- MODULE RtspStream -----------------------------
(***************************************************************************)
(* The read side of an RTSP server's connection: BufferReader, the parser  *)
(* RtspRequest::ParseRequest, and RtspConnection::OnRead with the replies  *)
(* it hands to the write queue.  TCP delivers the client's bytes in pieces *)
(* of any size.                                                            *)
(*                                                                         *)
(* The stream is a sequence of tokens: the text of a line, the line's      *)
(* "crlf", the 4-byte header ("frame") of an interleaved RTCP packet, and  *)
(* two "body" tokens after it.  A body holds no line end and does not      *)
(* begin with the dollar sign.  Token n belongs to the n-th message, whose *)
(* CSeq is n.                                                              *)
(***************************************************************************)
EXTENDS WriteQueue, FiniteSets

CONSTANTS Layout,   \* the methods the client uses, with the order of their
                    \* header lines: "cseq", "need" (what the method needs), "agent"
          MaxItems, \* bound: messages of the client
          MaxSend,  \* bound: packets handed to Send before the last RTP packet
          MaxBuf    \* MAX_RTSP_MESSAGE_SIZE, in tokens

NeedsNothing == {"OPTIONS", "TEARDOWN", "GET_PARAMETER"}

(* The client's requests are complete: they have a CSeq and what their     *)
(* method needs.  MAX_RTSP_MESSAGE_SIZE is longer than a line.             *)
ASSUME StreamAssumption ==
    /\ MaxItems \in Nat /\ MaxSend \in Nat /\ MaxBuf \in Nat \ {0}
    /\ "RTCP" \notin DOMAIN Layout
    /\ \A m \in DOMAIN Layout :
          /\ Layout[m] \in Seq({"cseq", "need", "agent"})
          /\ \E i \in DOMAIN Layout[m] : Layout[m][i] = "cseq"
          /\ m \in NeedsNothing \/ (\E i \in DOMAIN Layout[m] : Layout[m][i] = "need")

VARIABLES
    flow,    \* tokens on their way
    buf,     \* read_buffer_: the readable tokens
    state,   \* state_: "line" or "headers"
    req,     \* method_ and the stored CSeq (0: none); n: the message of the line
    sess,    \* "new", "described" (rtp_conn_ exists), "playing" or "torn" (down)
    auth,    \* has_auth_ ("ok"), or _nonce: "none" or "nonce" (given to the client)
    items,   \* messages the client has sent: their kinds
    first,   \* sess at the beginning
    replies, \* replies handed to Send; ok: it is not a 401
    aligned  \* every recv so far returned one whole message

streamVars == <<flow, buf, state, req, sess, auth, items, first, replies, aligned>>

NoReq == [m |-> "NONE", n |-> 0, cseq |-> 0]

(* A new connection, whose server may ask for credentials, or one whose    *)
(* client is playing.                                                      *)
StreamInit ==
    /\ flow = <<>> /\ buf = <<>> /\ state = "line" /\ req = NoReq
    /\ sess \in {"new", "playing"} /\ first = sess
    /\ auth \in {"ok", "none"} /\ (sess = "playing" => auth = "ok")
    /\ items = <<>> /\ replies = <<>> /\ aligned = TRUE

-----------------------------------------------------------------------------
(* The client *)

Tok(t, m, n) == [t |-> t, m |-> m, n |-> n]

(* The request line, the header lines and an empty line, each with its end.*)
Request(m, n) ==
    LET lines == <<"line">> \o Layout[m]
        last  == 2 * Len(lines) + 1
        text(i) == IF i % 2 = 1 /\ i < last THEN lines[(i + 1) \div 2] ELSE "crlf"
    IN  [i \in 1..last |-> Tok(text(i), m, n)]

Rtcp(n) == <<Tok("frame", "RTCP", n), Tok("body", "RTCP", n), Tok("body", "RTCP", n)>>

FrameLen == 3

ClientSends ==
    /\ Len(items) < MaxItems /\ ~closed
    /\ LET n == Len(items) + 1 IN
       \/ \E m \in DOMAIN Layout :
             /\ items' = Append(items, m)
             /\ flow' = flow \o Request(m, n)
       \/ /\ sess = "playing"
          /\ items' = Append(items, "RTCP")
          /\ flow' = flow \o Rtcp(n)
    /\ UNCHANGED <<buf, state, req, sess, auth, first, replies, aligned, wqVars>>

-----------------------------------------------------------------------------
(* The parser *)

Crlfs(b) == {i \in DOMAIN b : b[i].t = "crlf"}

FirstCrlf(b) == CHOOSE i \in Crlfs(b) : \A j \in Crlfs(b) : i <= j

(* Faulty variant: the headers are taken one line at a time.               *)
BadLastCrlf(b) == CHOOSE i \in Crlfs(b) : \A j \in Crlfs(b) : i <= j

LastCrlf(b) == CHOOSE i \in Crlfs(b) : \A j \in Crlfs(b) : i >= j

(* Outcomes of ParseRequestLine.  Short lines are skipped; a line of three *)
(* words or more, which a User-Agent or the rest of a packet may be, has   *)
(* no known method and closes the connection.                              *)
LineResults(l) ==
    IF Len(l) = 1 /\ l[1].t = "line" THEN {"request"}
    ELSE IF \E i \in DOMAIN l : l[i].t \in {"agent", "body", "line"} THEN {"skip", "close"}
    ELSE {"skip"}

Complete(r, block) ==
    \/ r.m \in NeedsNothing
    \/ \E i \in DOMAIN block : block[i].t = "need" /\ block[i].m = r.m

(* ParseCSeq: the first CSeq of the block, but a stored one stays.         *)
CSeqOf(r, block) ==
    LET found == {i \in DOMAIN block : block[i].t = "cseq"} IN
    IF r.cseq # 0 \/ found = {} THEN r.cseq
    ELSE block[CHOOSE i \in found : \A j \in found : i <= j].n

Outcome(res, b, st, r) == [res |-> res, buf |-> b, state |-> st, req |-> r]

(* The headers state takes everything up to the last line end.             *)
ParseHeaders(b, r) ==
    IF Crlfs(b) = {} THEN Outcome("wait", b, "headers", r)
    ELSE LET block == SubSeq(b, 1, LastCrlf(b) - 1)
             rest  == SubSeq(b, LastCrlf(b) + 1, Len(b))
             q     == [r EXCEPT !.cseq = CSeqOf(r, block)]
         IN  IF q.cseq = 0 THEN Outcome("close", rest, "headers", q)
             ELSE IF Complete(q, block) THEN Outcome("all", rest, "line", q)
             ELSE Outcome("wait", rest, "headers", q)

(* The request-line state takes one line per read.                         *)
ParseLine(b, r) ==
    IF Crlfs(b) = {} THEN {Outcome("wait", b, "line", r)}
    ELSE LET i == FirstCrlf(b)
             rest == SubSeq(b, i + 1, Len(b))
         IN  {IF res = "request"
              THEN ParseHeaders(rest, [r EXCEPT !.m = b[1].m, !.n = b[1].n])
              ELSE Outcome(IF res = "skip" THEN "wait" ELSE "close", rest, "line", r)
              : res \in LineResults(SubSeq(b, 1, i - 1))}

ParseRequest(b) ==
    IF b[1].t = "frame" THEN {Outcome("wait", b, state, [req EXCEPT !.m = "RTCP"])}
    ELSE IF state = "line" THEN ParseLine(b, req)
    ELSE {ParseHeaders(b, req)}

(* HandleRtcp drops a packet only if nothing follows it in the buffer.     *)
HandleRtcp(b) == IF Len(b) \in 2..FrameLen /\ b[1].t = "frame" THEN <<>> ELSE b

(* It is called whenever the stored method is RTCP, which it stays until   *)
(* the next request line.                                                  *)
AfterRtcp(o) ==
    IF o.res = "wait" /\ o.req.m = "RTCP" THEN [o EXCEPT !.buf = HandleRtcp(o.buf)] ELSE o

-----------------------------------------------------------------------------
(* Faulty variant: the headers of the last request are kept.               *)
BadReset(r) == r

(* RtspRequest::Reset *)
Reset(r) == [r EXCEPT !.cseq = 0]

Always == {"OPTIONS", "DESCRIBE", "SETUP"}
Protected == {"DESCRIBE", "SETUP", "PLAY"}

(* HandleAuthentication returns ok, for the methods that call it: the      *)
(* response to a nonce is right or not, and a wrong one gets a new nonce.  *)
HandleAuthentication(m, ok) ==
    \/ /\ m \notin Protected \/ auth = "ok"
       /\ ok /\ UNCHANGED auth
    \/ /\ m \in Protected /\ auth # "ok"
       /\ ok => auth = "nonce"
       /\ auth' = IF ok THEN "ok" ELSE "nonce"

(* Without authentication the answer is a 401 and nothing else is done.    *)
(* HandleCmdPlay, HandleCmdTeardown and HandleCmdGetParamter only answer   *)
(* once DESCRIBE has made the RtpConnection.                               *)
Answers(m, ok) == m \in Always \/ ~ok \/ sess # "new"

NextSess(m, ok) ==
    IF ~ok THEN sess
    ELSE IF m = "DESCRIBE" /\ sess = "new" THEN "described"
    ELSE IF m = "PLAY" /\ sess = "described" THEN "playing"
    ELSE IF m = "TEARDOWN" /\ sess # "new" THEN "torn"
    ELSE sess

Handle(o) ==
    /\ o.res = "all"
    /\ req' = Reset(o.req)
    /\ \E ok \in BOOLEAN :
       /\ HandleAuthentication(o.req.m, ok)
       /\ sess' = NextSess(o.req.m, ok)
       /\ IF Answers(o.req.m, ok)
          THEN /\ \E s \in Sizes : Send(s)
               /\ replies' = Append(replies, [n |-> o.req.n, cseq |-> o.req.cseq, ok |-> ok])
          ELSE UNCHANGED <<replies, wqVars>>

WholeMessage(k) ==
    /\ buf = <<>> /\ flow[1].t \in {"line", "frame"}
    /\ \A i \in 1..k : flow[i].n = flow[1].n
    /\ k = Len(flow) \/ flow[k + 1].n # flow[1].n

(* HandleRead and OnRead: recv returns k tokens.                           *)
OnRead(k) ==
    /\ lpc = "idle" /\ ~closed /\ mutex = "free" /\ k <= Len(flow)
    /\ flow' = SubSeq(flow, k + 1, Len(flow))
    /\ aligned' = (aligned /\ WholeMessage(k))
    /\ \E o \in {AfterRtcp(p) : p \in ParseRequest(buf \o SubSeq(flow, 1, k))} :
       /\ state' = o.state
       /\ buf' = IF Len(o.buf) > MaxBuf /\ o.res # "close" THEN <<>> ELSE o.buf
       /\ \/ Handle(o)
          \/ /\ o.res = "wait"
             /\ req' = o.req
             /\ UNCHANGED <<sess, auth, replies, wqVars>>
          \/ /\ o.res = "close"
             /\ req' = o.req /\ closed' = TRUE
             /\ UNCHANGED <<sess, auth, replies, qVars, mutex, lpc, disc>>
    /\ UNCHANGED <<items, first>>

(* An RTP packet over TCP, sent by a trigger event while playing.          *)
SendRtp == sess = "playing" /\ sent < MaxSend /\ (\E s \in Sizes : SendEvent(s)) /\ UNCHANGED streamVars

StreamNext ==
    \/ ClientSends
    \/ \E k \in 1..Len(flow) : OnRead(k)
    \/ SendRtp
    \/ WqStep /\ UNCHANGED streamVars

StreamSpec == StreamInit /\ WqInit /\ [][StreamNext]_<<streamVars, wqVars>>

-----------------------------------------------------------------------------
(* Whatever the pieces, a reply carries the CSeq of the request it         *)
(* answers, and no request is answered twice or after a later one: the     *)
(* CSeq and the method stored by an earlier read are never those of        *)
(* another request (RtspRequest::Reset, ParseCSeq).                        *)
ReplyMatchesRequest ==
    \A i \in DOMAIN replies :
       /\ replies[i].cseq = replies[i].n
       /\ i > 1 => replies[i - 1].n < replies[i].n

(* The messages answered with ok, or with a 401.                           *)
Replied(ok) == {replies[i].n : i \in {j \in DOMAIN replies : replies[j].ok = ok}}

(* What must be answered of the first c messages, as the client sees it:   *)
(* PLAY, TEARDOWN and GET_PARAMETER only after a DESCRIBE that got through.*)
DueOf(c, accepted) ==
    {i \in 1..c :
        \/ items[i] \in Always
        \/ /\ items[i] # "RTCP"
           /\ first # "new" \/ (\E j \in accepted : j < i /\ items[j] = "DESCRIBE")}

(* The messages that have come.                                            *)
Come == Len(items) - Cardinality({flow[i].n : i \in DOMAIN flow})

(* While every recv returns exactly one message, no request is lost, the   *)
(* connection is not closed for what the client sent, and RTCP packets     *)
(* between requests leave nothing behind in the buffer.  A 401 is only for *)
(* a method that asks for credentials, and never comes after a request     *)
(* that was let through with them.                                         *)
AlignedAnswered ==
    aligned => /\ buf = <<>> /\ state = "line"
               /\ Replied(TRUE) \subseteq DueOf(Come, Replied(TRUE))
               /\ DueOf(Come, Replied(TRUE)) \subseteq Replied(TRUE) \cup Replied(FALSE)
               /\ \A i \in Replied(FALSE) :
                     /\ items[i] \in Protected /\ first = "new"
                     /\ \A j \in Replied(TRUE) : items[j] \in Protected => i < j
=============================================================================
