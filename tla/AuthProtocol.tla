----------------------------- MODULE AuthProtocol -----------------------------
(***************************************************************************)
(* The registration / authentication / session-key protocol between the    *)
(* authentication centre (sever.py) and its terminal devices               *)
(* (User_simple.py).                                                       *)
(*                                                                         *)
(* A client is one run of User_simple.py: one TCP connection, at most one  *)
(* registration, one authentication and one session key.  The centre is    *)
(* one process at a time; it serves connections strictly one after the     *)
(* other, and the fields of its single authencenter object are shared by   *)
(* all of them.  Every start of the process draws new key material, named  *)
(* by "epoch"; the file people.json is what survives a restart.            *)
(*                                                                         *)
(* Numbers are symbolic terms.  Random numbers (L, a, b) are named by the  *)
(* client they were drawn for; the Chebyshev map, SM3 and exclusive-or are *)
(* represented by the equations the protocol relies on.  Factors typed by  *)
(* a user are digit sequences, because the code joins them as strings.     *)
(***************************************************************************)
EXTENDS Naturals, Sequences

CONSTANTS Client,      \* runs of User_simple.py
          Uid, Pw, Bio, \* what users may type: sets of digit sequences
          MaxEpoch,    \* bound: starts of the centre's process
          None         \* no client

ASSUME NoneAssumption == None \notin Client
ASSUME EpochAssumption == MaxEpoch \in Nat \ {0}

VARIABLES
    centre,   \* "up" or "down": is the centre's process running
    epoch,    \* which start of the centre: p, q, N, x, sk, pk and e
    people,   \* people.json: sequence of [name, A, Auth]
    file,     \* "ok", or "torn": opened for writing and not yet rewritten
    self,     \* the session fields A, QID and a of the authencenter object
    attrs,    \* which of these fields have been assigned
    serving,  \* the client of the running handle_client, or None
    writing,  \* the register handler is inside add_person
    backlog,  \* accept queue
    link,     \* per client: "none", "up" or "cut" (closed by the centre)
    req, rsp, \* per client: the request and the response in flight
    pc,       \* per client: where User_simple.py stands
    reg,      \* per client: the factors it registered with
    typed,    \* per client: the factors its self-authentication accepted
    par,      \* per client: registration parameters A, d, N, x, pk, L
    rand,     \* per client: tmpa1 and b
    ckey,     \* per client: session keys KS the centre derived for it
    dkey      \* per client: session keys KS the client derived

centreVars == <<centre, epoch, people, file, self, attrs, serving, writing, backlog>>
clientVars == <<pc, reg, typed, par, rand, dkey>>
vars == <<centre, epoch, people, file, self, attrs, serving, writing, backlog,
          link, req, rsp, pc, reg, typed, par, rand, ckey, dkey>>

-----------------------------------------------------------------------------
(* Terms *)

Factors == [uid : Uid, pw : Pw, bio : Bio]

(* Faulty variant: the random number joined last, sm3(uid, Bio, L).        *)
BadPID(f, d) == <<"PID", f.uid \o f.bio, d>>

(* sm3(str(uid)+str(L)+str(Bio)): L is a 256-bit number, which keeps the   *)
(* two short factors apart.                                                *)
PID(f, d) == <<"PID", f.uid, d, f.bio>>

(* sm3(str(uid)+str(pw)+str(Bio)) ^ L: the three factors are joined        *)
(* without separators, so only their concatenation counts.                 *)
AuthA(f, d) == <<"A", f.uid \o f.pw \o f.bio, d>>

(* sm3(sk, sm3(pw, sk), PID) *)
AuthParam(k, pw, pid) == <<"Auth", k, pw, pid>>

(* Exclusive-or of bit strings: symmetric difference of sets of terms.     *)
Xor(u, v) == (u \ v) \cup (v \ u)

(* T_A(pk) mod N of epoch k *)
TTG(k, A) == {<<"TTG", k, A>>}

(* T_d(v) and T_e(v) mod N: inverse to each other in the same epoch.       *)
Td(k, v) == <<"Td", k, v>>
Te(k, v) == IF v[1] = "Td" /\ v[2] = k THEN v[3] ELSE <<"Te", k, v>>

(* T_(a+b)(pk), and the test TA^2+TB^2+TC^2 = 2*TA*TB*TC+1 (mod N), which  *)
(* holds for T_(a+b)(pk).                                                  *)
TSum(k, a, b) == <<"TC", k, {a, b}>>
ChebyshevIdentity(k, a, b, TC) == TC = TSum(k, a, b)

SM3(u, v, w) == <<"SM3", u, v, w>>
KS(a, b, ttg) == <<"KS", a, b, ttg>>
RandA(d) == {<<"a", d>>}
RandB(d) == {<<"b", d>>}

NoMsg == [act |-> "none"]
Partial == [act |-> "partial"]

-----------------------------------------------------------------------------
(* people.json *)

Person(f, d, k) ==
    [name |-> PID(f, d),
     A    |-> TTG(k, AuthA(f, d)),
     Auth |-> AuthParam(k, f.pw, PID(f, d))]

(* Faulty variant: the last entry is not looked at.                        *)
BadMatches(pid) == {i \in 1..(Len(people) - 1) : people[i].name = pid}

(* get_person_by_name: the entries a lookup by pseudonym can return; the   *)
(* loop returns the first one.                                             *)
Matches(pid) == {i \in 1..Len(people) : people[i].name = pid}
FirstMatch(pid) ==
    people[CHOOSE i \in Matches(pid) : \A j \in Matches(pid) : i <= j]

-----------------------------------------------------------------------------
(* Initial state: the centre has just started with an empty people.json.   *)

NoFactors == [uid |-> <<>>, pw |-> <<>>, bio |-> <<>>]
NoPar == [A |-> <<>>, k |-> 0]

Init ==
    /\ centre = "up" /\ epoch = 1
    /\ people = <<>> /\ file = "ok"
    /\ self = [A |-> <<>>, QID |-> <<>>, a |-> {}] /\ attrs = {}
    /\ serving = None /\ writing = FALSE /\ backlog = <<>>
    /\ link = [d \in Client |-> "none"]
    /\ req = [d \in Client |-> NoMsg]
    /\ rsp = [d \in Client |-> NoMsg]
    /\ pc = [d \in Client |-> "off"]
    /\ reg = [d \in Client |-> NoFactors]
    /\ typed = [d \in Client |-> NoFactors]
    /\ par = [d \in Client |-> NoPar]
    /\ rand = [d \in Client |-> [tmpa1 |-> {}, b |-> {}]]
    /\ ckey = [d \in Client |-> {}]
    /\ dkey = [d \in Client |-> {}]

-----------------------------------------------------------------------------
(* Client: User_simple.py *)

(* PersistentClient.__init__: connect; refused while the centre is down.   *)
Connect(d) ==
    /\ pc[d] = "off" /\ centre = "up"
    /\ pc' = [pc EXCEPT ![d] = "connected"]
    /\ link' = [link EXCEPT ![d] = "up"]
    /\ backlog' = Append(backlog, d)
    /\ UNCHANGED <<centre, epoch, people, file, self, attrs, serving, writing,
                   req, rsp, reg, typed, par, rand, ckey, dkey>>

(* User.register_request: the user types the three factors.                *)
RegisterRequest(d, f) ==
    /\ pc[d] = "connected" /\ link[d] = "up"
    /\ pc' = [pc EXCEPT ![d] = "wait_reg"]
    /\ reg' = [reg EXCEPT ![d] = f]
    /\ req' = [req EXCEPT ![d] = [act |-> "register", f |-> f]]
    /\ UNCHANGED <<centreVars, link, rsp, typed, par, rand, ckey, dkey>>

(* handle_response on register_ack: User.register_proc, then the login     *)
(* loop.                                                                   *)
RegisterProc(d) ==
    /\ pc[d] = "wait_reg" /\ rsp[d].act = "register_ack"
    /\ pc' = [pc EXCEPT ![d] = "login"]
    /\ par' = [par EXCEPT ![d] = [A |-> rsp[d].A, k |-> rsp[d].k]]
    /\ rsp' = [rsp EXCEPT ![d] = NoMsg]
    /\ UNCHANGED <<centreVars, link, req, reg, typed, rand, ckey, dkey>>

(* User.auth_pre accepts the factors typed at login.  When the comparison  *)
(* fails the login loop asks again and nothing changes.                    *)
SelfAuth(d, f) == AuthA(f, d) = par[d].A

AuthPre(d, f) ==
    /\ pc[d] = "login" /\ link[d] = "up"
    /\ SelfAuth(d, f)
    /\ pc' = [pc EXCEPT ![d] = "wait_auth"]
    /\ typed' = [typed EXCEPT ![d] = f]
    /\ req' = [req EXCEPT ![d] =
                 [act |-> "auth_request",
                  QID |-> Td(par[d].k, PID(f, d)),
                  QPW |-> Td(par[d].k, f.pw),
                  QA  |-> Td(par[d].k, AuthA(f, d))]]
    /\ UNCHANGED <<centreVars, link, rsp, reg, par, rand, ckey, dkey>>

(* handle_response on SharedKey_Gen_request with status 400: back to the   *)
(* command prompt; this process can only be quit.                          *)
AuthRejected(d) ==
    /\ pc[d] = "wait_auth" /\ rsp[d].act = "rejected"
    /\ pc' = [pc EXCEPT ![d] = "rejected"]
    /\ rsp' = [rsp EXCEPT ![d] = NoMsg]
    /\ UNCHANGED <<centreVars, link, req, reg, typed, par, rand, ckey, dkey>>

(* User.Sharedkey_Gen.  The comparisons of HM2 and of QID only print.      *)
SharedkeyGen(d) ==
    LET k   == par[d].k
        ttg == TTG(k, par[d].A)
        a1  == Xor(rsp[d].N1, ttg)
        b   == RandB(d)
        N2  == Xor(ttg, b)
        TC  == TSum(k, a1, b)
        QID2 == Td(k, Td(k, PID(typed[d], d)))
    IN  /\ pc[d] = "wait_auth" /\ rsp[d].act = "SharedKey_Gen_request"
        /\ pc' = [pc EXCEPT ![d] = "wait_fin"]
        /\ rand' = [rand EXCEPT ![d] = [tmpa1 |-> a1, b |-> b]]
        /\ req' = [req EXCEPT ![d] =
                     [act |-> "SharedKey_Gen_response", N2 |-> N2, TC |-> TC,
                      QID2 |-> QID2, HM3 |-> SM3(N2, TC, QID2)]]
        /\ rsp' = [rsp EXCEPT ![d] = NoMsg]
        /\ UNCHANGED <<centreVars, link, reg, typed, par, ckey, dkey>>

(* Faulty variant: the two random numbers hashed in the other order.       *)
BadSharedkeyGen2(d) ==
    /\ pc[d] = "wait_fin" /\ rsp[d].act = "SharedKey_Gen_Finish"
    /\ pc' = [pc EXCEPT ![d] = "keyed"]
    /\ dkey' = [dkey EXCEPT ![d] =
                  @ \cup {KS(rand[d].b, rand[d].tmpa1, TTG(par[d].k, par[d].A))}]
    /\ rsp' = [rsp EXCEPT ![d] = NoMsg]
    /\ UNCHANGED <<centreVars, link, req, reg, typed, par, rand, ckey>>

(* User.Sharedkey_Gen2.  The comparison of HM5 only prints.  When the      *)
(* identity fails self.a is never assigned and the process dies of an      *)
(* AttributeError.                                                         *)
SharedkeyGen2(d) ==
    LET k  == par[d].k
        ok == ChebyshevIdentity(k, rand[d].tmpa1, rand[d].b, rsp[d].TC1)
    IN  /\ pc[d] = "wait_fin" /\ rsp[d].act = "SharedKey_Gen_Finish"
        /\ pc' = [pc EXCEPT ![d] = IF ok THEN "keyed" ELSE "dead"]
        /\ dkey' = [dkey EXCEPT ![d] =
                      IF ok THEN @ \cup {KS(rand[d].tmpa1, rand[d].b, TTG(k, par[d].A))}
                            ELSE @]
        /\ rsp' = [rsp EXCEPT ![d] = NoMsg]
        /\ UNCHANGED <<centreVars, link, req, reg, typed, par, rand, ckey>>

(* main: the user types q at the prompt; the socket is closed.             *)
Quit(d) ==
    /\ pc[d] \in {"rejected", "keyed"}
    /\ pc' = [pc EXCEPT ![d] = "dead"]
    /\ UNCHANGED <<centreVars, link, req, rsp, reg, typed, par, rand, ckey, dkey>>

(* The centre closed the connection: recv returns b'' (or send fails) and  *)
(* the process dies of an exception.                                       *)
PeerClosed(d) ==
    /\ pc[d] \in {"connected", "wait_reg", "login", "wait_auth", "wait_fin"}
    /\ link[d] = "cut" /\ rsp[d] = NoMsg
    /\ pc' = [pc EXCEPT ![d] = "dead"]
    /\ UNCHANGED <<centreVars, link, req, rsp, reg, typed, par, rand, ckey, dkey>>

(* The process is killed.  A request already sent stays in the centre's    *)
(* socket; a response not yet read is lost.                                *)
KillClient(d) ==
    /\ pc[d] \notin {"off", "dead"}
    /\ pc' = [pc EXCEPT ![d] = "dead"]
    /\ rsp' = [rsp EXCEPT ![d] = NoMsg]
    /\ UNCHANGED <<centreVars, link, req, reg, typed, par, rand, ckey, dkey>>

(* The process is killed inside send_request, part of a message sent.      *)
KillMidSend(d) ==
    /\ link[d] = "up"
    /\ \/ pc[d] \in {"connected", "login"}
       \/ pc[d] = "wait_auth" /\ rsp[d].act = "SharedKey_Gen_request"
    /\ pc' = [pc EXCEPT ![d] = "dead"]
    /\ req' = [req EXCEPT ![d] = Partial]
    /\ rsp' = [rsp EXCEPT ![d] = NoMsg]
    /\ UNCHANGED <<centreVars, link, reg, typed, par, rand, ckey, dkey>>

-----------------------------------------------------------------------------
(* Centre: sever.py *)

(* client_socket.send: the answer to a client that is gone is lost.        *)
Answer(d, m) ==
    /\ req' = [req EXCEPT ![d] = NoMsg]
    /\ rsp' = [rsp EXCEPT ![d] = IF pc[d] = "dead" THEN NoMsg ELSE m]

(* The accept loop of main. *)
Accept ==
    /\ centre = "up" /\ serving = None /\ backlog # <<>>
    /\ serving' = Head(backlog)
    /\ backlog' = Tail(backlog)
    /\ UNCHANGED <<centre, epoch, people, file, self, attrs, writing,
                   link, req, rsp, clientVars, ckey>>

(* register_handler / user_register up to add_person's open(..., 'w'),     *)
(* which truncates the file.                                               *)
RegisterTruncate(d) ==
    /\ centre = "up" /\ serving = d /\ ~writing
    /\ req[d].act = "register" /\ file = "ok"
    /\ writing' = TRUE /\ file' = "torn"
    /\ UNCHANGED <<centre, epoch, people, self, attrs, serving, backlog,
                   link, req, rsp, clientVars, ckey>>

(* add_person's json.dump, then the register_ack.                          *)
RegisterWrite(d) ==
    LET f == req[d].f
    IN  /\ centre = "up" /\ serving = d /\ writing
        /\ people' = Append(people, Person(f, d, epoch))
        /\ file' = "ok" /\ writing' = FALSE
        /\ Answer(d, [act |-> "register_ack", A |-> AuthA(f, d), k |-> epoch])
        /\ UNCHANGED <<centre, epoch, self, attrs, serving, backlog, link,
                       clientVars, ckey>>

(* Faulty variant: the exception is swallowed and the client answered.     *)
BadDecodeError(d) ==
    /\ centre = "up" /\ serving = d /\ ~writing /\ file = "torn"
    /\ req[d].act = "register"
    /\ Answer(d, [act |-> "register_ack", A |-> AuthA(req[d].f, d), k |-> epoch])
    /\ UNCHANGED <<centreVars, link, clientVars, ckey>>

(* json.load of a torn people.json raises JSONDecodeError in add_person or *)
(* get_person_by_name; handle_client catches it and main closes the        *)
(* connection.                                                             *)
DecodeError(d) ==
    /\ centre = "up" /\ serving = d /\ ~writing /\ file = "torn"
    /\ req[d].act \in {"register", "auth_request"}
    /\ serving' = None
    /\ link' = [link EXCEPT ![d] = "cut"]
    /\ req' = [req EXCEPT ![d] = NoMsg]
    /\ UNCHANGED <<centre, epoch, people, file, self, attrs, writing, backlog,
                   rsp, clientVars, ckey>>

(* Faulty variants: a is drawn for the first session only; either the new  *)
(* one is sent and not stored, or the stored one is sent again.            *)
BadSelf(d) ==
    [A |-> Te(epoch, req[d].QA), QID |-> req[d].QID,
     a |-> IF "a" \in attrs THEN self.a ELSE RandA(d)]

StaleAuthRequest(d) ==
    /\ centre = "up" /\ serving = d /\ file = "ok"
    /\ req[d].act = "auth_request"
    /\ self' = BadSelf(d) /\ attrs' = {"A", "QID", "a"}
    /\ Answer(d, [act |-> "SharedKey_Gen_request",
                  N1 |-> Xor(TTG(epoch, self'.A), RandA(d))])
    /\ UNCHANGED <<centre, epoch, people, file, serving, writing, backlog,
                   link, clientVars, ckey>>

ReusingAuthRequest(d) ==
    /\ centre = "up" /\ serving = d /\ file = "ok"
    /\ req[d].act = "auth_request"
    /\ self' = BadSelf(d) /\ attrs' = {"A", "QID", "a"}
    /\ Answer(d, [act |-> "SharedKey_Gen_request",
                  N1 |-> Xor(TTG(epoch, self'.A), self'.a)])
    /\ UNCHANGED <<centre, epoch, people, file, serving, writing, backlog,
                   link, clientVars, ckey>>

(* authencenter.user_auth, then SharedKey_Gen when it succeeds.  HM1 is    *)
(* recomputed by auth_request_handler from the received fields, so its     *)
(* comparison always succeeds.  self.A is assigned before the password is  *)
(* checked.                                                                *)
AuthRequest(d) ==
    LET m   == req[d]
        pid == Te(epoch, m.QID)
        A1  == Te(epoch, m.QA)
        known   == Matches(pid) # {}
        Amatch  == known /\ FirstMatch(pid).A = TTG(epoch, A1)
        PWmatch == Amatch /\ FirstMatch(pid).Auth = AuthParam(epoch, Te(epoch, m.QPW), pid)
    IN  /\ centre = "up" /\ serving = d /\ file = "ok"
        /\ m.act = "auth_request"
        /\ self' = [A   |-> IF Amatch THEN A1 ELSE self.A,
                    QID |-> IF PWmatch THEN m.QID ELSE self.QID,
                    a   |-> IF PWmatch THEN RandA(d) ELSE self.a]
        /\ attrs' = attrs \cup (IF Amatch THEN {"A"} ELSE {})
                          \cup (IF PWmatch THEN {"QID", "a"} ELSE {})
        /\ Answer(d, IF PWmatch
                     THEN [act |-> "SharedKey_Gen_request",
                           N1  |-> Xor(TTG(epoch, A1), RandA(d))]
                     ELSE [act |-> "rejected"])
        /\ UNCHANGED <<centre, epoch, people, file, serving, writing, backlog,
                       link, clientVars, ckey>>

(* What an uncaught exception, or a kill, does to the centre's process:    *)
(* every connection, the accept queue included, is closed; responses       *)
(* already sent can still be read.  The session fields die with it.        *)
CentreDies ==
    /\ centre' = "down"
    /\ serving' = None /\ writing' = FALSE /\ backlog' = <<>>
    /\ self' = [A |-> <<>>, QID |-> <<>>, a |-> {}] /\ attrs' = {}
    /\ link' = [d \in Client |-> IF link[d] = "up" THEN "cut" ELSE link[d]]
    /\ req' = [d \in Client |-> NoMsg]
    /\ UNCHANGED <<epoch, people, file, rsp, clientVars, ckey>>

(* What SharedKey_Gen2 needs to succeed on request m. *)
SharedKeyOk(m) ==
    LET b1 == Xor(TTG(epoch, self.A), m.N2)
    IN  /\ attrs = {"A", "QID", "a"}
        /\ m.HM3 = SM3(m.N2, m.TC, m.QID2)
        /\ Te(epoch, m.QID2) = self.QID
        /\ ChebyshevIdentity(epoch, self.a, b1, m.TC)

(* SharedKey_Gen_response_handler.  When SharedKey_Gen2 returns -1 (the    *)
(* unpacking raises TypeError) or reads an unassigned field                *)
(* (AttributeError), handle_client catches neither and the process dies.   *)
SharedKeyResponse(d) ==
    LET m  == req[d]
        b1 == Xor(TTG(epoch, self.A), m.N2)
    IN  /\ centre = "up" /\ serving = d
        /\ m.act = "SharedKey_Gen_response"
        /\ IF SharedKeyOk(m)
           THEN /\ ckey' = [ckey EXCEPT ![d] =
                              @ \cup {KS(self.a, b1, TTG(epoch, self.A))}]
                /\ Answer(d, [act |-> "SharedKey_Gen_Finish",
                              TC1 |-> TSum(epoch, self.a, b1)])
                /\ UNCHANGED <<centreVars, link, clientVars>>
           ELSE CentreDies

(* Faulty variant: end of file does not end the loop.                      *)
BadClientGone(d) ==
    /\ centre = "up" /\ serving = d /\ pc[d] = "dead" /\ req[d] = NoMsg
    /\ link' = [link EXCEPT ![d] = "cut"]
    /\ UNCHANGED <<centreVars, req, rsp, clientVars, ckey>>

(* handle_client reads end of file, or ConnectionResetError: the loop ends *)
(* and main closes the socket.                                             *)
ClientGone(d) ==
    /\ centre = "up" /\ serving = d /\ pc[d] = "dead" /\ req[d] = NoMsg
    /\ serving' = None
    /\ link' = [link EXCEPT ![d] = "cut"]
    /\ UNCHANGED <<centre, epoch, people, file, self, attrs, writing, backlog,
                   req, rsp, clientVars, ckey>>

(* handle_client reads end of file inside a message: struct.error or the   *)
(* ConnectionError it raises itself, neither of which it catches.          *)
PartialMessage(d) ==
    /\ centre = "up" /\ serving = d /\ req[d] = Partial
    /\ CentreDies

KillCentre ==
    /\ centre = "up"
    /\ CentreDies

(* Faulty variant: people.json is created anew at every start.             *)
BadRestart ==
    /\ centre = "down" /\ epoch < MaxEpoch
    /\ centre' = "up" /\ epoch' = epoch + 1
    /\ people' = <<>> /\ file' = "ok"
    /\ UNCHANGED <<self, attrs, serving, writing, backlog,
                   link, req, rsp, clientVars, ckey>>

(* authencenter.__init__: new key material; people.json is kept.           *)
Restart ==
    /\ centre = "down" /\ epoch < MaxEpoch
    /\ centre' = "up" /\ epoch' = epoch + 1
    /\ UNCHANGED <<people, file, self, attrs, serving, writing, backlog,
                   link, req, rsp, clientVars, ckey>>

-----------------------------------------------------------------------------
ClientStep(d) ==
    \/ Connect(d) \/ (\E f \in Factors : RegisterRequest(d, f)) \/ RegisterProc(d)
    \/ (\E f \in Factors : AuthPre(d, f)) \/ AuthRejected(d)
    \/ SharedkeyGen(d) \/ SharedkeyGen2(d)
    \/ Quit(d) \/ PeerClosed(d)
    \/ KillClient(d) \/ KillMidSend(d)

Handle(d) ==
    \/ RegisterTruncate(d) \/ RegisterWrite(d) \/ DecodeError(d)
    \/ AuthRequest(d) \/ SharedKeyResponse(d)
    \/ ClientGone(d) \/ PartialMessage(d)

Next ==
    \/ \E d \in Client : ClientStep(d) \/ Handle(d)
    \/ Accept \/ KillCentre \/ Restart

Spec == Init /\ [][Next]_vars

(* Users answer every prompt (and log in with factors the self-check       *)
(* accepts, and finally quit); both processes keep running their code.     *)
(* Nothing is assumed of connects, kills and restarts.                     *)
Fairness ==
    /\ \A d \in Client :
         /\ WF_vars(\E f \in Factors : RegisterRequest(d, f))
         /\ WF_vars(RegisterProc(d))
         /\ WF_vars(\E f \in Factors : AuthPre(d, f))
         /\ WF_vars(AuthRejected(d))
         /\ WF_vars(SharedkeyGen(d))
         /\ WF_vars(SharedkeyGen2(d))
         /\ WF_vars(Quit(d))
         /\ WF_vars(PeerClosed(d))
         /\ WF_vars(Handle(d))
    /\ WF_vars(Accept)

FairSpec == Spec /\ Fairness

-----------------------------------------------------------------------------
(* Properties *)

Waiting == {"wait_reg", "wait_auth", "wait_fin"}
ClientPc == {"off", "connected", "login", "rejected", "keyed", "dead"} \cup Waiting

RequestAct == {"none", "partial", "register", "auth_request", "SharedKey_Gen_response"}
ResponseAct == {"none", "register_ack", "rejected", "SharedKey_Gen_request",
                "SharedKey_Gen_Finish"}

Row == {Person(f, d, k) : f \in Factors, d \in Client, k \in 1..MaxEpoch}

(* Control state and bookkeeping of both programs stay in range; a request *)
(* or response always has one of the actions the two dispatchers know.     *)
TypeOK ==
    /\ centre \in {"up", "down"} /\ epoch \in 1..MaxEpoch
    /\ file \in {"ok", "torn"} /\ writing \in BOOLEAN
    /\ people \in Seq(Row)
    /\ attrs \subseteq {"A", "QID", "a"}
    /\ serving \in Client \cup {None} /\ backlog \in Seq(Client)
    /\ link \in [Client -> {"none", "up", "cut"}]
    /\ pc \in [Client -> ClientPc]
    /\ reg \in [Client -> Factors \cup {NoFactors}]
    /\ typed \in [Client -> Factors \cup {NoFactors}]
    /\ DOMAIN req = Client /\ DOMAIN rsp = Client
    /\ DOMAIN par = Client /\ DOMAIN rand = Client
    /\ DOMAIN ckey = Client /\ DOMAIN dkey = Client
    /\ \A d \in Client :
         req[d].act \in RequestAct /\ rsp[d].act \in ResponseAct

(* A session key a device derives in Sharedkey_Gen2 is one the centre      *)
(* derived in SharedKey_Gen2 for the same run of the protocol, and the     *)
(* centre derives at most one per run: both ends hold the same KS.         *)
KeyAgreement ==
    \A d \in Client : /\ dkey[d] \subseteq ckey[d]
                      /\ \A x, y \in ckey[d] : x = y

(* The centre derives a key only for a user who typed at login exactly the *)
(* factors registered on this run, although the device's own check         *)
(* compares only the concatenation of the factors.                         *)
KeyOnlyForRegistered ==
    \A d \in Client : ckey[d] # {} => typed[d] = reg[d]

(* user_auth never refuses a login with the registered factors, whatever   *)
(* other clients, earlier epochs and left-over entries of people.json.     *)
CorrectLoginAccepted ==
    \A d \in Client :
        pc[d] = "rejected" \/ rsp[d].act = "rejected" => typed[d] # reg[d]

(* SharedKey_Gen2 never returns -1 and never reads an unassigned field:    *)
(* the shared session fields self.A, self.QID and self.a are those of the  *)
(* connection being served, so the uncaught exception that would end the   *)
(* centre's process is not raised.                                         *)
SharedKeyNeverFails ==
    \A d \in Client :
        centre = "up" /\ serving = d /\ req[d].act = "SharedKey_Gen_response"
            => SharedKeyOk(req[d])

(* After a crash inside add_person nobody gets past registration: with a   *)
(* torn people.json no client with a live connection is registered.        *)
TornFileBlocksAll ==
    file = "torn" /\ ~writing =>
        \A d \in Client : link[d] = "up" =>
            /\ pc[d] \in {"connected", "wait_reg", "dead"}
            /\ rsp[d] = NoMsg /\ ckey[d] = {}

(* ... and no operation of the code repairs the file.                      *)
TornForever == [][file = "torn" /\ ~writing => file' = "torn"]_vars

(* Every request is answered, or its connection ends: no client waits      *)
(* forever for the centre, which serves one connection at a time.          *)
NoClientWaitsForever ==
    \A d \in Client : \A s \in Waiting : (pc[d] = s) ~> (pc[d] # s)

(* Seen through ckey and dkey the protocol is a key exchange: every key    *)
(* issued is new, issued once per run and adopted only by its own device.  *)
SessionKeys ==
    {KS(RandA(d), RandB(d), TTG(k, AuthA(f, d))) :
        d \in Client, k \in 1..MaxEpoch, f \in Factors}

Exchange == INSTANCE KeyExchange WITH Key <- SessionKeys, issued <- ckey, held <- dkey

ImplementsKeyExchange == Exchange!Spec

(* The device's self-authentication succeeds only with the three factors   *)
(* the user registered (the ProVerif model hashes them as a tuple).        *)
SelfAuthBindsFactors ==
    \A d \in Client : typed[d] \in {NoFactors, reg[d]}
=============================================================================
