------------------------- MODULE AuthProtocol_proofs -------------------------
(***************************************************************************)
(* Proofs about AuthProtocol, for any set of clients, any sets of factors  *)
(* and any number of restarts.                                             *)
(***************************************************************************)
EXTENDS AuthProtocol, TLAPS

Registered(d) == par[d].k # 0 \/ rsp[d].act = "register_ack"

TheKey(d) == KS(RandA(d), RandB(d), TTG(par[d].k, par[d].A))

(* How a client's program point, its messages and its connection go        *)
(* together.                                                               *)
Control(d) ==
    /\ req[d].act \in RequestAct /\ rsp[d].act \in ResponseAct
    /\ pc[d] = "off" <=> link[d] = "none"
    /\ req[d].act = "none" => req[d] = NoMsg
    /\ req[d].act # "none" => rsp[d] = NoMsg
    /\ rsp[d].act = "none" => rsp[d] = NoMsg
    /\ req[d].act = "register" => pc[d] \in {"wait_reg", "dead"} /\ par[d].k = 0
    /\ req[d].act = "auth_request" => pc[d] \in {"wait_auth", "dead"}
    /\ req[d].act = "SharedKey_Gen_response" =>
         pc[d] \in {"wait_fin", "dead"} /\ ckey[d] = {}
    /\ req[d].act = "partial" => pc[d] = "dead"
    /\ rsp[d].act = "register_ack" => pc[d] = "wait_reg"
    /\ rsp[d].act \in {"rejected", "SharedKey_Gen_request"} => pc[d] = "wait_auth"
    /\ rsp[d].act = "SharedKey_Gen_Finish" => pc[d] = "wait_fin"
    /\ pc[d] \in {"off", "connected", "wait_reg"} => par[d].k = 0
    /\ pc[d] \in {"login", "wait_auth", "wait_fin", "rejected", "keyed"} => par[d].k # 0
    /\ pc[d] \in {"off", "connected", "wait_reg", "login"} => ckey[d] = {} /\ dkey[d] = {}
    /\ pc[d] \in {"wait_auth", "rejected"} => ckey[d] = {} /\ dkey[d] = {}
    /\ pc[d] = "wait_fin" => dkey[d] = {}

(* What the requests in flight contain. *)
Request(d) ==
    /\ req[d].act = "register" => reg[d] \in Factors /\ req[d].f = reg[d]
    /\ req[d].act = "auth_request" =>
         /\ typed[d] \in Factors /\ par[d].k # 0
         /\ req[d].QID = Td(par[d].k, PID(typed[d], d))
         /\ req[d].QPW = Td(par[d].k, typed[d].pw)
         /\ req[d].QA = Td(par[d].k, par[d].A)
    /\ req[d].act = "SharedKey_Gen_response" =>
         /\ par[d].k # 0 /\ typed[d] = reg[d]
         /\ req[d].N2 = Xor(TTG(par[d].k, par[d].A), RandB(d))
         /\ req[d].TC = TSum(par[d].k, RandA(d), RandB(d))
         /\ req[d].QID2 = Td(par[d].k, Td(par[d].k, PID(typed[d], d)))
         /\ req[d].HM3 = SM3(req[d].N2, req[d].TC, req[d].QID2)

(* What the responses in flight contain. *)
Response(d) ==
    /\ rsp[d].act = "register_ack" =>
         /\ rsp[d].A = AuthA(reg[d], d) /\ reg[d] \in Factors
         /\ rsp[d].k # 0 /\ rsp[d].k <= epoch /\ rsp[d].k \in Nat
    /\ rsp[d].act = "SharedKey_Gen_request" =>
         /\ typed[d] = reg[d]
         /\ rsp[d].N1 = Xor(TTG(par[d].k, par[d].A), RandA(d))
    /\ rsp[d].act = "SharedKey_Gen_Finish" =>
         /\ rsp[d].TC1 = TSum(par[d].k, RandA(d), RandB(d))
         /\ ckey[d] = {TheKey(d)}

(* What a client remembers of its registration and of the exchange. *)
Memory(d) ==
    /\ par[d].k # 0 =>
         /\ par[d].A = AuthA(reg[d], d) /\ reg[d] \in Factors
         /\ par[d].k <= epoch /\ par[d].k \in Nat
    /\ pc[d] = "wait_fin" =>
         /\ rand[d].tmpa1 = RandA(d) /\ rand[d].b = RandB(d)
         /\ typed[d] = reg[d]

(* Which keys may exist, and for whom. *)
Keys(d) ==
    /\ ckey[d] = {} \/ ckey[d] = {TheKey(d)}
    /\ dkey[d] = {} \/ dkey[d] = ckey[d]
    /\ ckey[d] # {} => par[d].k # 0 /\ typed[d] = reg[d]
    /\ (pc[d] = "rejected" \/ rsp[d].act = "rejected") => typed[d] # reg[d]

(* The centre's side of a live connection: a registered client with a live *)
(* connection is the one being served, by the process that registered it;  *)
(* once authenticated, the session fields are its own.                     *)
Session(d) ==
    link[d] = "up" =>
        /\ centre = "up"
        /\ Registered(d) =>
             /\ serving = d
             /\ file = "ok" /\ ~writing
             /\ par[d].k \in {0, epoch}
             /\ rsp[d].act = "register_ack" => rsp[d].k = epoch
             /\ \E i \in 1..Len(people) : people[i] = Person(reg[d], d, epoch)
        /\ (req[d].act = "SharedKey_Gen_response"
              \/ rsp[d].act = "SharedKey_Gen_request") =>
             /\ attrs = {"A", "QID", "a"}
             /\ self.A = par[d].A
             /\ self.QID = Td(epoch, PID(typed[d], d))
             /\ self.a = RandA(d)

(* Every entry of people.json was written for a client that asked for it,  *)
(* once, in the epoch that client was told.                                *)
Entry(i) ==
    \E e \in Client : \E k \in 1..epoch :
        /\ people[i] = Person(reg[e], e, k)
        /\ reg[e] \in Factors
        /\ pc[e] \notin {"off", "connected"} /\ req[e].act # "register"
        /\ par[e].k \in {0, k}
        /\ rsp[e].act = "register_ack" => rsp[e].k = k

(* The connections the centre knows of. *)
Serving ==
    /\ serving # None => link[serving] = "up"
    /\ writing => serving # None /\ req[serving].act = "register" /\ file = "torn"
    /\ \A i \in 1..Len(backlog) : link[backlog[i]] = "up" /\ backlog[i] # serving
    /\ \A i, j \in 1..Len(backlog) : backlog[i] = backlog[j] => i = j

(* A pseudonym occurs once in people.json.                                 *)
Unique ==
    \A i, j \in 1..Len(people) : people[i].name = people[j].name => i = j

Controls == \A d \in Client : Control(d)
Requests == \A d \in Client : Request(d)
Responses == \A d \in Client : Response(d)
Memories == \A d \in Client : Memory(d)
AllKeys == \A d \in Client : Keys(d)
Sessions == \A d \in Client : Session(d)
Entries == \A i \in 1..Len(people) : Entry(i)

IInv ==
    /\ TypeOK /\ Controls /\ Requests /\ Responses /\ Memories /\ AllKeys
    /\ Sessions /\ Entries /\ Unique /\ Serving

-----------------------------------------------------------------------------
(* Masking a number twice with the same value restores it.                 *)
LEMMA XorCancel == \A u, v : Xor(Xor(u, v), u) = v /\ Xor(u, Xor(u, v)) = v
BY DEF Xor

(* T_e undoes T_d of the same epoch.                                       *)
LEMMA TeTd == \A k, v : Te(k, Td(k, v)) = v
BY DEF Te, Td

(* The part of TypeOK the other steps need: the variables are functions.   *)
Functions ==
    /\ centre \in {"up", "down"} /\ epoch \in Nat \ {0}
    /\ serving \in Client \cup {None} /\ writing \in BOOLEAN
    /\ backlog \in Seq(Client) /\ Len(people) \in Nat
    /\ DOMAIN link = Client /\ DOMAIN pc = Client
    /\ DOMAIN reg = Client /\ DOMAIN typed = Client
    /\ DOMAIN req = Client /\ DOMAIN rsp = Client
    /\ DOMAIN par = Client /\ DOMAIN rand = Client
    /\ DOMAIN ckey = Client /\ DOMAIN dkey = Client

(* TypeOK contains these facts. *)
LEMMA TypeFunctions == TypeOK => Functions
BY DEF TypeOK, Functions

(* The invariant for one client. *)
Client1(d) ==
    Control(d) /\ Request(d) /\ Response(d) /\ Memory(d) /\ Keys(d) /\ Session(d)

(* The initial state satisfies the invariant. *)
LEMMA InitIInv == Init => IInv
<1> SUFFICES ASSUME Init PROVE IInv
  OBVIOUS
<1> USE DEF Init
<1>1. TypeOK
  <2>1. people \in Seq(Row) /\ backlog \in Seq(Client)
    OBVIOUS
  <2>2. /\ link \in [Client -> {"none", "up", "cut"}]
        /\ pc \in [Client -> ClientPc]
        /\ reg \in [Client -> Factors \cup {NoFactors}]
        /\ typed \in [Client -> Factors \cup {NoFactors}]
    BY DEF ClientPc
  <2>3. \A d \in Client : req[d].act \in RequestAct /\ rsp[d].act \in ResponseAct
    BY DEF NoMsg, RequestAct, ResponseAct
  <2> QED
    <3>1. /\ DOMAIN req = Client /\ DOMAIN rsp = Client
          /\ DOMAIN par = Client /\ DOMAIN rand = Client
          /\ DOMAIN ckey = Client /\ DOMAIN dkey = Client
      OBVIOUS
    <3>2. epoch \in 1..MaxEpoch
      BY EpochAssumption
    <3> QED
      BY <2>1, <2>2, <2>3, <3>1, <3>2 DEF TypeOK
<1>2. Controls
  BY DEF Controls, Control, NoMsg, NoPar, RequestAct, ResponseAct
<1>3. Requests
  BY DEF Requests, Request, NoMsg
<1>4. Responses
  BY DEF Responses, Response, NoMsg
<1>5. Memories
  BY DEF Memories, Memory, NoPar
<1>6. AllKeys
  BY DEF AllKeys, Keys, NoMsg
<1>7. Sessions
  BY DEF Sessions, Session
<1>8. Entries
  BY DEF Entries
<1>9. Unique /\ Serving
  BY DEF Unique, Serving
<1> QED
  BY <1>1, <1>2, <1>3, <1>4, <1>5, <1>6, <1>7, <1>8, <1>9 DEF IInv

(* The end of the centre's process preserves the invariant. *)
LEMMA CentreDiesIInv ==
  ASSUME IInv, CentreDies PROVE IInv'
<1> USE DEF CentreDies, centreVars, clientVars
<1> TypeOK /\ Functions /\ Entries /\ Unique /\ Serving
  BY TypeFunctions DEF IInv, Controls, Requests, Responses, Memories, AllKeys, Sessions, Client1
<1>1. TypeOK'
  <2>1. link' \in [Client -> {"none", "up", "cut"}]
    BY DEF TypeOK
  <2>2. backlog' \in Seq(Client)
    OBVIOUS
  <2>3. DOMAIN req' = Client /\ \A d \in Client : req'[d].act \in RequestAct
    BY DEF NoMsg, RequestAct
  <2> QED
    BY <2>1, <2>2, <2>3 DEF TypeOK
<1>2. ASSUME NEW e \in Client PROVE Client1(e)'
  <2> Client1(e)
    BY DEF IInv, Controls, Requests, Responses, Memories, AllKeys, Sessions, Client1
  <2> USE DEF Client1, Functions, NoMsg, Partial, RequestAct, ResponseAct
  <2>1. Control(e)' /\ Request(e)'
    BY DEF Control, Request
  <2>2. Response(e)' /\ Memory(e)' /\ Keys(e)'
    BY DEF Control, Response, Memory, Keys, TheKey
  <2>3. Session(e)'
    BY NoneAssumption DEF Control, Session, Registered, Serving
  <2> QED
    BY <2>1, <2>2, <2>3
<1>3. Entries'
  <2> SUFFICES ASSUME NEW i \in 1..Len(people) PROVE Entry(i)'
    BY DEF Entries
  <2> PICK e \in Client, k \in 1..epoch : Entry(i)!(e)!(k)
    BY DEF Entries, Entry
  <2> QED
    BY DEF Entry, Client1, Control, Functions, NoMsg
<1>4. Unique'
  BY DEF Unique
<1>5. Serving'
  BY NoneAssumption DEF Functions, Serving, Client1, Control, NoMsg, Partial
<1> QED
  BY <1>1, <1>2, <1>3, <1>4, <1>5 DEF IInv, Client1, Controls, Requests, Responses, Memories, AllKeys, Sessions

(* What user_auth finds: the only entry under the pseudonym of a login by  *)
(* a registered client is the client's own, and it is there.               *)
LEMMA Lookup ==
  ASSUME IInv, NEW d \in Client, link[d] = "up", par[d].k # 0, NEW f \in Factors
  PROVE  /\ Matches(PID(f, d)) # {} =>
              /\ FirstMatch(PID(f, d)) = Person(reg[d], d, epoch)
              /\ f.uid = reg[d].uid /\ f.bio = reg[d].bio
         /\ f = reg[d] => Matches(PID(f, d)) # {}
<1> DEFINE M == Matches(PID(f, d))
<1>1. /\ \A i \in 1..Len(people) : Entry(i)
      /\ Unique /\ Session(d) /\ Len(people) \in Nat
      /\ epoch \in Nat \ {0}
  BY TypeFunctions DEF IInv, Entries, Sessions, Functions
<1>2. ASSUME NEW i \in M
      PROVE  /\ people[i] = Person(reg[d], d, epoch)
             /\ f.uid = reg[d].uid /\ f.bio = reg[d].bio
  <2>1. i \in 1..Len(people) /\ people[i].name = PID(f, d)
    BY <1>2 DEF Matches
  <2>2. PICK e \in Client, k \in 1..epoch : Entry(i)!(e)!(k)
    BY <1>1, <2>1 DEF Entry
  <2>3. PID(reg[e], e) = PID(f, d)
    BY <2>1, <2>2 DEF Person
  <2>4. e = d /\ f.uid = reg[d].uid /\ f.bio = reg[d].bio
    BY <2>3 DEF PID
  <2>5. par[d].k = epoch
    BY <1>1 DEF Session, Registered
  <2> QED
    BY <2>2, <2>4, <2>5
<1>3. \A i, j \in M : i = j
  BY <1>1 DEF Matches, Unique
<1>4. ASSUME M # {}
      PROVE  (CHOOSE i \in M : \A j \in M : i <= j) \in M
  <2>1. PICK i \in M : TRUE
    BY <1>4
  <2>2. i \in Nat
    BY <1>1 DEF Matches
  <2>3. \A j \in M : i <= j
    BY <1>3, <2>2
  <2> QED
    BY <2>1, <2>3
<1>5. M # {} => FirstMatch(PID(f, d)) = Person(reg[d], d, epoch)
                /\ f.uid = reg[d].uid /\ f.bio = reg[d].bio
  BY <1>2, <1>4 DEF FirstMatch
<1>6. f = reg[d] => M # {}
  BY <1>1 DEF Session, Registered, Matches, Person
<1> QED
  BY <1>5, <1>6

(* The outcome of user_auth for a client being served. *)
LEMMA AuthOutcome ==
  ASSUME IInv, NEW d \in Client, serving = d, req[d].act = "auth_request"
  PROVE  LET pid == Te(epoch, req[d].QID)
             A1  == Te(epoch, req[d].QA)
             known   == Matches(pid) # {}
             Amatch  == known /\ FirstMatch(pid).A = TTG(epoch, A1)
             PWmatch == Amatch /\ FirstMatch(pid).Auth
                                    = AuthParam(epoch, Te(epoch, req[d].QPW), pid)
         IN  /\ link[d] = "up" /\ par[d].k = epoch
             /\ pid = PID(typed[d], d) /\ A1 = par[d].A
             /\ PWmatch <=> typed[d] = reg[d]
             /\ PWmatch => Amatch
<1>1. /\ Control(d) /\ Request(d) /\ Memory(d) /\ Session(d)
      /\ Serving /\ serving # None
  BY NoneAssumption DEF IInv, Controls, Requests, Memories, Sessions
<1>2. link[d] = "up"
  BY <1>1 DEF Serving
<1>3. par[d].k # 0 /\ par[d].k = epoch /\ typed[d] \in Factors /\ reg[d] \in Factors
  BY <1>1, <1>2 DEF Request, Session, Registered, Memory
<1>4. /\ Te(epoch, req[d].QID) = PID(typed[d], d)
      /\ Te(epoch, req[d].QA) = par[d].A
      /\ Te(epoch, req[d].QPW) = typed[d].pw
      /\ par[d].A = AuthA(reg[d], d)
  BY <1>1, <1>3, TeTd DEF Request, Memory
<1> DEFINE pid == PID(typed[d], d)
           known == Matches(pid) # {}
           Amatch == known /\ FirstMatch(pid).A = TTG(epoch, par[d].A)
           PWmatch == Amatch /\ FirstMatch(pid).Auth = AuthParam(epoch, typed[d].pw, pid)
<1>5. known => /\ FirstMatch(pid) = Person(reg[d], d, epoch)
               /\ typed[d].uid = reg[d].uid /\ typed[d].bio = reg[d].bio
  BY <1>2, <1>3, Lookup
<1>6. typed[d] = reg[d] => known
  BY <1>2, <1>3, Lookup
<1>7. PWmatch => typed[d] = reg[d]
  <2> SUFFICES ASSUME PWmatch PROVE typed[d] = reg[d]
    OBVIOUS
  <2>1. AuthParam(epoch, reg[d].pw, PID(reg[d], d)) = AuthParam(epoch, typed[d].pw, pid)
    BY <1>5 DEF Person
  <2>2. reg[d].pw = typed[d].pw
    BY <2>1 DEF AuthParam
  <2> QED
    BY <1>3, <1>5, <2>2 DEF Factors
<1>8. typed[d] = reg[d] => PWmatch
  BY <1>4, <1>5, <1>6 DEF Person
<1> QED
  BY <1>2, <1>3, <1>4, <1>7, <1>8

(* SharedKey_Gen2 succeeds for a client being served, and recovers b.      *)
LEMMA KeyOutcome ==
  ASSUME IInv, NEW d \in Client, serving = d, req[d].act = "SharedKey_Gen_response"
  PROVE  /\ SharedKeyOk(req[d])
         /\ Xor(TTG(epoch, self.A), req[d].N2) = RandB(d)
         /\ self.A = par[d].A /\ self.a = RandA(d)
         /\ par[d].k = epoch /\ epoch # 0 /\ link[d] = "up"
<1>1. /\ Control(d) /\ Request(d) /\ Session(d) /\ Functions
      /\ Serving /\ serving # None
  BY NoneAssumption, TypeFunctions DEF IInv, Controls, Requests, Sessions
<1>2. link[d] = "up"
  BY <1>1 DEF Serving
<1>3. par[d].k = epoch /\ epoch # 0
  BY <1>1, <1>2 DEF Request, Session, Registered, Functions
<1>4. /\ attrs = {"A", "QID", "a"} /\ self.A = par[d].A
      /\ self.QID = Td(epoch, PID(typed[d], d)) /\ self.a = RandA(d)
  BY <1>1, <1>2 DEF Session
<1>5. Xor(TTG(epoch, self.A), req[d].N2) = RandB(d)
  BY <1>1, <1>3, <1>4, XorCancel DEF Request
<1>6. Te(epoch, req[d].QID2) = self.QID
  BY <1>1, <1>3, <1>4, TeTd DEF Request
<1>7. SharedKeyOk(req[d])
  BY <1>1, <1>3, <1>4, <1>5, <1>6 DEF Request, SharedKeyOk, ChebyshevIdentity
<1> QED
  BY <1>2, <1>3, <1>4, <1>5, <1>7

(* Connect preserves the invariant. *)
LEMMA ConnectIInv ==
  ASSUME IInv, NEW d \in Client, Connect(d) PROVE IInv'
<1> USE DEF Connect, centreVars, clientVars
<1> TypeOK /\ Functions /\ Entries /\ Unique /\ Serving /\ Client1(d)
  BY TypeFunctions DEF IInv, Controls, Requests, Responses, Memories, AllKeys, Sessions, Client1
<1>1. TypeOK'
  BY NoneAssumption, EpochAssumption DEF TypeOK, NoMsg, Partial, ClientPc, Waiting, RequestAct, ResponseAct
<1>2. ASSUME NEW e \in Client PROVE Client1(e)'
  <2> Client1(e)
    BY DEF IInv, Controls, Requests, Responses, Memories, AllKeys, Sessions, Client1
  <2> USE DEF Client1, Functions, NoMsg, Partial, RequestAct, ResponseAct
  <2>1. Control(e)' /\ Request(e)'
    BY DEF Control, Request
  <2>2. Response(e)' /\ Memory(e)' /\ Keys(e)'
    BY DEF Control, Response, Memory, Keys, TheKey
  <2>3. Session(e)'
    BY NoneAssumption DEF Control, Session, Registered, Serving
  <2> QED
    BY <2>1, <2>2, <2>3
<1>3. Entries'
  <2> SUFFICES ASSUME NEW i \in 1..Len(people) PROVE Entry(i)'
    BY DEF Entries
  <2> PICK e \in Client, k \in 1..epoch : Entry(i)!(e)!(k)
    BY DEF Entries, Entry
  <2> QED
    BY DEF Entry, Client1, Control, Functions, NoMsg
<1>4. Unique'
  BY DEF Unique
<1>5. Serving'
  BY NoneAssumption DEF Functions, Serving, Client1, Control, NoMsg, Partial
<1> QED
  BY <1>1, <1>2, <1>3, <1>4, <1>5 DEF IInv, Client1, Controls, Requests, Responses, Memories, AllKeys, Sessions

(* RegisterRequest preserves the invariant. *)
LEMMA RegisterRequestIInv ==
  ASSUME IInv, NEW d \in Client, NEW f \in Factors, RegisterRequest(d, f) PROVE IInv'
<1> USE DEF RegisterRequest, centreVars, clientVars
<1> TypeOK /\ Functions /\ Entries /\ Unique /\ Serving /\ Client1(d)
  BY TypeFunctions DEF IInv, Controls, Requests, Responses, Memories, AllKeys, Sessions, Client1
<1>1. TypeOK'
  BY NoneAssumption, EpochAssumption DEF TypeOK, NoMsg, Partial, ClientPc, Waiting, RequestAct, ResponseAct
<1>2. ASSUME NEW e \in Client PROVE Client1(e)'
  <2> Client1(e)
    BY DEF IInv, Controls, Requests, Responses, Memories, AllKeys, Sessions, Client1
  <2> USE DEF Client1, Functions, NoMsg, Partial, RequestAct, ResponseAct
  <2>1. Control(e)' /\ Request(e)'
    BY DEF Control, Request
  <2>2. Response(e)' /\ Memory(e)' /\ Keys(e)'
    BY DEF Control, Response, Memory, Keys, TheKey
  <2>3. Session(e)'
    BY NoneAssumption DEF Control, Session, Registered, Serving
  <2> QED
    BY <2>1, <2>2, <2>3
<1>3. Entries'
  <2> SUFFICES ASSUME NEW i \in 1..Len(people) PROVE Entry(i)'
    BY DEF Entries
  <2> PICK e \in Client, k \in 1..epoch : Entry(i)!(e)!(k)
    BY DEF Entries, Entry
  <2> QED
    BY DEF Entry, Client1, Control, Functions, NoMsg
<1>4. Unique'
  BY DEF Unique
<1>5. Serving'
  BY NoneAssumption DEF Functions, Serving, Client1, Control, NoMsg, Partial
<1> QED
  BY <1>1, <1>2, <1>3, <1>4, <1>5 DEF IInv, Client1, Controls, Requests, Responses, Memories, AllKeys, Sessions

(* RegisterProc preserves the invariant. *)
LEMMA RegisterProcIInv ==
  ASSUME IInv, NEW d \in Client, RegisterProc(d) PROVE IInv'
<1> USE DEF RegisterProc, centreVars, clientVars
<1> TypeOK /\ Functions /\ Entries /\ Unique /\ Serving /\ Client1(d)
  BY TypeFunctions DEF IInv, Controls, Requests, Responses, Memories, AllKeys, Sessions, Client1
<1>1. TypeOK'
  BY NoneAssumption, EpochAssumption DEF TypeOK, NoMsg, Partial, ClientPc, Waiting, RequestAct, ResponseAct
<1>2. ASSUME NEW e \in Client PROVE Client1(e)'
  <2> Client1(e)
    BY DEF IInv, Controls, Requests, Responses, Memories, AllKeys, Sessions, Client1
  <2> USE DEF Client1, Functions, NoMsg, Partial, RequestAct, ResponseAct
  <2>1. Control(e)'
    <3>1. CASE e = d
      BY <3>1 DEF Control, Response
    <3>2. CASE e # d
      BY <3>2 DEF Control, Response
    <3> QED
      BY <3>1, <3>2
  <2>2. Request(e)'
    BY DEF Control, Request
  <2>3. Response(e)'
    BY DEF Control, Response, TheKey
  <2>4. Memory(e)'
    <3>1. CASE e = d
      BY <3>1 DEF Control, Response, Memory
    <3>2. CASE e # d
      BY <3>2 DEF Control, Response, Memory
    <3> QED
      BY <3>1, <3>2
  <2>5. Keys(e)'
    BY DEF Control, Keys, TheKey
  <2>6. Session(e)'
    BY NoneAssumption DEF Control, Session, Registered, Serving
  <2> QED
    BY <2>1, <2>2, <2>3, <2>4, <2>5, <2>6
<1>3. Entries'
  <2> SUFFICES ASSUME NEW i \in 1..Len(people) PROVE Entry(i)'
    BY DEF Entries
  <2> PICK e \in Client, k \in 1..epoch : Entry(i)!(e)!(k)
    BY DEF Entries, Entry
  <2> QED
    BY DEF Entry, Client1, Control, Functions, NoMsg
<1>4. Unique'
  BY DEF Unique
<1>5. Serving'
  BY NoneAssumption DEF Functions, Serving, Client1, Control, NoMsg, Partial
<1> QED
  BY <1>1, <1>2, <1>3, <1>4, <1>5 DEF IInv, Client1, Controls, Requests, Responses, Memories, AllKeys, Sessions

(* AuthPre preserves the invariant. *)
LEMMA AuthPreIInv ==
  ASSUME IInv, NEW d \in Client, NEW f \in Factors, AuthPre(d, f) PROVE IInv'
<1> USE DEF AuthPre, centreVars, clientVars
<1> TypeOK /\ Functions /\ Entries /\ Unique /\ Serving /\ Client1(d)
  BY TypeFunctions DEF IInv, Controls, Requests, Responses, Memories, AllKeys, Sessions, Client1
<1>1. TypeOK'
  BY NoneAssumption, EpochAssumption DEF TypeOK, NoMsg, Partial, ClientPc, Waiting, RequestAct, ResponseAct
<1>2. ASSUME NEW e \in Client PROVE Client1(e)'
  <2> Client1(e)
    BY DEF IInv, Controls, Requests, Responses, Memories, AllKeys, Sessions, Client1
  <2> USE DEF Client1, Functions, NoMsg, Partial, RequestAct, ResponseAct
  <2>1. Control(e)'
    <3>1. CASE e = d
      BY <3>1 DEF Control
    <3>2. CASE e # d
      BY <3>2 DEF Control
    <3> QED
      BY <3>1, <3>2
  <2>2. Request(e)'
    <3>1. CASE e = d
      BY <3>1 DEF Control, Request, SelfAuth
    <3>2. CASE e # d
      BY <3>2 DEF Control, Request, SelfAuth
    <3> QED
      BY <3>1, <3>2
  <2>3. Response(e)'
    BY DEF Control, Response, TheKey
  <2>4. Memory(e)'
    BY DEF Control, Memory
  <2>5. Keys(e)'
    BY DEF Control, Keys, TheKey
  <2>6. Session(e)'
    BY NoneAssumption DEF Control, Session, Registered, Serving
  <2> QED
    BY <2>1, <2>2, <2>3, <2>4, <2>5, <2>6
<1>3. Entries'
  <2> SUFFICES ASSUME NEW i \in 1..Len(people) PROVE Entry(i)'
    BY DEF Entries
  <2> PICK e \in Client, k \in 1..epoch : Entry(i)!(e)!(k)
    BY DEF Entries, Entry
  <2> QED
    BY DEF Entry, Client1, Control, Functions, NoMsg
<1>4. Unique'
  BY DEF Unique
<1>5. Serving'
  BY NoneAssumption DEF Functions, Serving, Client1, Control, NoMsg, Partial
<1> QED
  BY <1>1, <1>2, <1>3, <1>4, <1>5 DEF IInv, Client1, Controls, Requests, Responses, Memories, AllKeys, Sessions

(* AuthRejected preserves the invariant. *)
LEMMA AuthRejectedIInv ==
  ASSUME IInv, NEW d \in Client, AuthRejected(d) PROVE IInv'
<1> USE DEF AuthRejected, centreVars, clientVars
<1> TypeOK /\ Functions /\ Entries /\ Unique /\ Serving /\ Client1(d)
  BY TypeFunctions DEF IInv, Controls, Requests, Responses, Memories, AllKeys, Sessions, Client1
<1>1. TypeOK'
  BY NoneAssumption, EpochAssumption DEF TypeOK, NoMsg, Partial, ClientPc, Waiting, RequestAct, ResponseAct
<1>2. ASSUME NEW e \in Client PROVE Client1(e)'
  <2> Client1(e)
    BY DEF IInv, Controls, Requests, Responses, Memories, AllKeys, Sessions, Client1
  <2> USE DEF Client1, Functions, NoMsg, Partial, RequestAct, ResponseAct
  <2>1. Control(e)' /\ Request(e)'
    BY DEF Control, Request
  <2>2. Response(e)' /\ Memory(e)' /\ Keys(e)'
    BY DEF Control, Response, Memory, Keys, TheKey
  <2>3. Session(e)'
    BY NoneAssumption DEF Control, Session, Registered, Serving
  <2> QED
    BY <2>1, <2>2, <2>3
<1>3. Entries'
  <2> SUFFICES ASSUME NEW i \in 1..Len(people) PROVE Entry(i)'
    BY DEF Entries
  <2> PICK e \in Client, k \in 1..epoch : Entry(i)!(e)!(k)
    BY DEF Entries, Entry
  <2> QED
    BY DEF Entry, Client1, Control, Functions, NoMsg
<1>4. Unique'
  BY DEF Unique
<1>5. Serving'
  BY NoneAssumption DEF Functions, Serving, Client1, Control, NoMsg, Partial
<1> QED
  BY <1>1, <1>2, <1>3, <1>4, <1>5 DEF IInv, Client1, Controls, Requests, Responses, Memories, AllKeys, Sessions

(* SharedkeyGen preserves the invariant. *)
LEMMA SharedkeyGenIInv ==
  ASSUME IInv, NEW d \in Client, SharedkeyGen(d) PROVE IInv'
<1> USE DEF SharedkeyGen, centreVars, clientVars
<1> TypeOK /\ Functions /\ Entries /\ Unique /\ Serving /\ Client1(d)
  BY TypeFunctions DEF IInv, Controls, Requests, Responses, Memories, AllKeys, Sessions, Client1
<1>0. Xor(rsp[d].N1, TTG(par[d].k, par[d].A)) = RandA(d) /\ typed[d] = reg[d]
  BY XorCancel DEF Client1, Response
<1>1. TypeOK'
  BY NoneAssumption, EpochAssumption DEF TypeOK, NoMsg, Partial, ClientPc, Waiting, RequestAct, ResponseAct
<1>2. ASSUME NEW e \in Client PROVE Client1(e)'
  <2> Client1(e)
    BY DEF IInv, Controls, Requests, Responses, Memories, AllKeys, Sessions, Client1
  <2> USE DEF Client1, Functions, NoMsg, Partial, RequestAct, ResponseAct
  <2>1. Control(e)'
    BY DEF Control
  <2>2. Request(e)'
    <3>1. CASE e = d
      BY <1>0, <3>1 DEF Control, Request
    <3>2. CASE e # d
      BY <3>2 DEF Control, Request
    <3> QED
      BY <3>1, <3>2
  <2>3. Response(e)'
    BY DEF Control, Response, TheKey
  <2>4. Memory(e)'
    <3>1. CASE e = d
      BY <1>0, <3>1 DEF Control, Memory
    <3>2. CASE e # d
      BY <3>2 DEF Control, Memory
    <3> QED
      BY <3>1, <3>2
  <2>5. Keys(e)'
    BY DEF Control, Keys, TheKey
  <2>6. Session(e)'
    BY NoneAssumption DEF Control, Session, Registered, Serving
  <2> QED
    BY <2>1, <2>2, <2>3, <2>4, <2>5, <2>6
<1>3. Entries'
  <2> SUFFICES ASSUME NEW i \in 1..Len(people) PROVE Entry(i)'
    BY DEF Entries
  <2> PICK e \in Client, k \in 1..epoch : Entry(i)!(e)!(k)
    BY DEF Entries, Entry
  <2> QED
    BY DEF Entry, Client1, Control, Functions, NoMsg
<1>4. Unique'
  BY DEF Unique
<1>5. Serving'
  BY NoneAssumption DEF Functions, Serving, Client1, Control, NoMsg, Partial
<1> QED
  BY <1>1, <1>2, <1>3, <1>4, <1>5 DEF IInv, Client1, Controls, Requests, Responses, Memories, AllKeys, Sessions

(* SharedkeyGen2 preserves the invariant. *)
LEMMA SharedkeyGen2IInv ==
  ASSUME IInv, NEW d \in Client, SharedkeyGen2(d) PROVE IInv'
<1> USE DEF SharedkeyGen2, centreVars, clientVars
<1> TypeOK /\ Functions /\ Entries /\ Unique /\ Serving /\ Client1(d)
  BY TypeFunctions DEF IInv, Controls, Requests, Responses, Memories, AllKeys, Sessions, Client1
<1>1. TypeOK'
  BY NoneAssumption, EpochAssumption DEF TypeOK, NoMsg, Partial, ClientPc, Waiting, RequestAct, ResponseAct
<1>2. ASSUME NEW e \in Client PROVE Client1(e)'
  <2> Client1(e)
    BY DEF IInv, Controls, Requests, Responses, Memories, AllKeys, Sessions, Client1
  <2> USE DEF Client1, Functions, NoMsg, Partial, RequestAct, ResponseAct
  <2>1. Control(e)'
    BY DEF Control
  <2>2. Request(e)'
    BY DEF Control, Request
  <2>3. Response(e)'
    BY DEF Control, Response, TheKey
  <2>4. Memory(e)'
    BY DEF Control, Memory
  <2>5. Keys(e)'
    <3>1. CASE e = d
      BY <3>1 DEF Control, Request, Response, Memory, Keys, TheKey
    <3>2. CASE e # d
      BY <3>2 DEF Control, Request, Response, Memory, Keys, TheKey
    <3> QED
      BY <3>1, <3>2
  <2>6. Session(e)'
    BY NoneAssumption DEF Control, Session, Registered, Serving
  <2> QED
    BY <2>1, <2>2, <2>3, <2>4, <2>5, <2>6
<1>3. Entries'
  <2> SUFFICES ASSUME NEW i \in 1..Len(people) PROVE Entry(i)'
    BY DEF Entries
  <2> PICK e \in Client, k \in 1..epoch : Entry(i)!(e)!(k)
    BY DEF Entries, Entry
  <2> QED
    BY DEF Entry, Client1, Control, Functions, NoMsg
<1>4. Unique'
  BY DEF Unique
<1>5. Serving'
  BY NoneAssumption DEF Functions, Serving, Client1, Control, NoMsg, Partial
<1> QED
  BY <1>1, <1>2, <1>3, <1>4, <1>5 DEF IInv, Client1, Controls, Requests, Responses, Memories, AllKeys, Sessions

(* Quit preserves the invariant. *)
LEMMA QuitIInv ==
  ASSUME IInv, NEW d \in Client, Quit(d) PROVE IInv'
<1> USE DEF Quit, centreVars, clientVars
<1> TypeOK /\ Functions /\ Entries /\ Unique /\ Serving /\ Client1(d)
  BY TypeFunctions DEF IInv, Controls, Requests, Responses, Memories, AllKeys, Sessions, Client1
<1>1. TypeOK'
  BY NoneAssumption, EpochAssumption DEF TypeOK, NoMsg, Partial, ClientPc, Waiting, RequestAct, ResponseAct
<1>2. ASSUME NEW e \in Client PROVE Client1(e)'
  <2> Client1(e)
    BY DEF IInv, Controls, Requests, Responses, Memories, AllKeys, Sessions, Client1
  <2> USE DEF Client1, Functions, NoMsg, Partial, RequestAct, ResponseAct
  <2>1. Control(e)' /\ Request(e)'
    BY DEF Control, Request
  <2>2. Response(e)' /\ Memory(e)' /\ Keys(e)'
    BY DEF Control, Response, Memory, Keys, TheKey
  <2>3. Session(e)'
    BY NoneAssumption DEF Control, Session, Registered, Serving
  <2> QED
    BY <2>1, <2>2, <2>3
<1>3. Entries'
  <2> SUFFICES ASSUME NEW i \in 1..Len(people) PROVE Entry(i)'
    BY DEF Entries
  <2> PICK e \in Client, k \in 1..epoch : Entry(i)!(e)!(k)
    BY DEF Entries, Entry
  <2> QED
    BY DEF Entry, Client1, Control, Functions, NoMsg
<1>4. Unique'
  BY DEF Unique
<1>5. Serving'
  BY NoneAssumption DEF Functions, Serving, Client1, Control, NoMsg, Partial
<1> QED
  BY <1>1, <1>2, <1>3, <1>4, <1>5 DEF IInv, Client1, Controls, Requests, Responses, Memories, AllKeys, Sessions

(* PeerClosed preserves the invariant. *)
LEMMA PeerClosedIInv ==
  ASSUME IInv, NEW d \in Client, PeerClosed(d) PROVE IInv'
<1> USE DEF PeerClosed, centreVars, clientVars
<1> TypeOK /\ Functions /\ Entries /\ Unique /\ Serving /\ Client1(d)
  BY TypeFunctions DEF IInv, Controls, Requests, Responses, Memories, AllKeys, Sessions, Client1
<1>1. TypeOK'
  BY NoneAssumption, EpochAssumption DEF TypeOK, NoMsg, Partial, ClientPc, Waiting, RequestAct, ResponseAct
<1>2. ASSUME NEW e \in Client PROVE Client1(e)'
  <2> Client1(e)
    BY DEF IInv, Controls, Requests, Responses, Memories, AllKeys, Sessions, Client1
  <2> USE DEF Client1, Functions, NoMsg, Partial, RequestAct, ResponseAct
  <2>1. Control(e)' /\ Request(e)'
    BY DEF Control, Request
  <2>2. Response(e)' /\ Memory(e)' /\ Keys(e)'
    BY DEF Control, Response, Memory, Keys, TheKey
  <2>3. Session(e)'
    BY NoneAssumption DEF Control, Session, Registered, Serving
  <2> QED
    BY <2>1, <2>2, <2>3
<1>3. Entries'
  <2> SUFFICES ASSUME NEW i \in 1..Len(people) PROVE Entry(i)'
    BY DEF Entries
  <2> PICK e \in Client, k \in 1..epoch : Entry(i)!(e)!(k)
    BY DEF Entries, Entry
  <2> QED
    BY DEF Entry, Client1, Control, Functions, NoMsg
<1>4. Unique'
  BY DEF Unique
<1>5. Serving'
  BY NoneAssumption DEF Functions, Serving, Client1, Control, NoMsg, Partial
<1> QED
  BY <1>1, <1>2, <1>3, <1>4, <1>5 DEF IInv, Client1, Controls, Requests, Responses, Memories, AllKeys, Sessions

(* KillClient preserves the invariant. *)
LEMMA KillClientIInv ==
  ASSUME IInv, NEW d \in Client, KillClient(d) PROVE IInv'
<1> USE DEF KillClient, centreVars, clientVars
<1> TypeOK /\ Functions /\ Entries /\ Unique /\ Serving /\ Client1(d)
  BY TypeFunctions DEF IInv, Controls, Requests, Responses, Memories, AllKeys, Sessions, Client1
<1>1. TypeOK'
  BY NoneAssumption, EpochAssumption DEF TypeOK, NoMsg, Partial, ClientPc, Waiting, RequestAct, ResponseAct
<1>2. ASSUME NEW e \in Client PROVE Client1(e)'
  <2> Client1(e)
    BY DEF IInv, Controls, Requests, Responses, Memories, AllKeys, Sessions, Client1
  <2> USE DEF Client1, Functions, NoMsg, Partial, RequestAct, ResponseAct
  <2>1. Control(e)' /\ Request(e)'
    BY DEF Control, Request
  <2>2. Response(e)' /\ Memory(e)' /\ Keys(e)'
    BY DEF Control, Response, Memory, Keys, TheKey
  <2>3. Session(e)'
    BY NoneAssumption DEF Control, Session, Registered, Serving
  <2> QED
    BY <2>1, <2>2, <2>3
<1>3. Entries'
  <2> SUFFICES ASSUME NEW i \in 1..Len(people) PROVE Entry(i)'
    BY DEF Entries
  <2> PICK e \in Client, k \in 1..epoch : Entry(i)!(e)!(k)
    BY DEF Entries, Entry
  <2> QED
    BY DEF Entry, Client1, Control, Functions, NoMsg
<1>4. Unique'
  BY DEF Unique
<1>5. Serving'
  BY NoneAssumption DEF Functions, Serving, Client1, Control, NoMsg, Partial
<1> QED
  BY <1>1, <1>2, <1>3, <1>4, <1>5 DEF IInv, Client1, Controls, Requests, Responses, Memories, AllKeys, Sessions

(* KillMidSend preserves the invariant. *)
LEMMA KillMidSendIInv ==
  ASSUME IInv, NEW d \in Client, KillMidSend(d) PROVE IInv'
<1> USE DEF KillMidSend, centreVars, clientVars
<1> TypeOK /\ Functions /\ Entries /\ Unique /\ Serving /\ Client1(d)
  BY TypeFunctions DEF IInv, Controls, Requests, Responses, Memories, AllKeys, Sessions, Client1
<1>1. TypeOK'
  BY NoneAssumption, EpochAssumption DEF TypeOK, NoMsg, Partial, ClientPc, Waiting, RequestAct, ResponseAct
<1>2. ASSUME NEW e \in Client PROVE Client1(e)'
  <2> Client1(e)
    BY DEF IInv, Controls, Requests, Responses, Memories, AllKeys, Sessions, Client1
  <2> USE DEF Client1, Functions, NoMsg, Partial, RequestAct, ResponseAct
  <2>1. Control(e)' /\ Request(e)'
    BY DEF Control, Request
  <2>2. Response(e)' /\ Memory(e)' /\ Keys(e)'
    BY DEF Control, Response, Memory, Keys, TheKey
  <2>3. Session(e)'
    BY NoneAssumption DEF Control, Session, Registered, Serving
  <2> QED
    BY <2>1, <2>2, <2>3
<1>3. Entries'
  <2> SUFFICES ASSUME NEW i \in 1..Len(people) PROVE Entry(i)'
    BY DEF Entries
  <2> PICK e \in Client, k \in 1..epoch : Entry(i)!(e)!(k)
    BY DEF Entries, Entry
  <2> QED
    BY DEF Entry, Client1, Control, Functions, NoMsg, Partial
<1>4. Unique'
  BY DEF Unique
<1>5. Serving'
  BY NoneAssumption DEF Functions, Serving, Client1, Control, NoMsg, Partial
<1> QED
  BY <1>1, <1>2, <1>3, <1>4, <1>5 DEF IInv, Client1, Controls, Requests, Responses, Memories, AllKeys, Sessions

(* RegisterTruncate preserves the invariant. *)
LEMMA RegisterTruncateIInv ==
  ASSUME IInv, NEW d \in Client, RegisterTruncate(d) PROVE IInv'
<1> USE DEF RegisterTruncate, centreVars, clientVars
<1> TypeOK /\ Functions /\ Entries /\ Unique /\ Serving /\ Client1(d)
  BY TypeFunctions DEF IInv, Controls, Requests, Responses, Memories, AllKeys, Sessions, Client1
<1>1. TypeOK'
  BY NoneAssumption, EpochAssumption DEF TypeOK, NoMsg, Partial, ClientPc, Waiting, RequestAct, ResponseAct
<1>2. ASSUME NEW e \in Client PROVE Client1(e)'
  <2> Client1(e)
    BY DEF IInv, Controls, Requests, Responses, Memories, AllKeys, Sessions, Client1
  <2> USE DEF Client1, Functions, NoMsg, Partial, RequestAct, ResponseAct
  <2>1. Control(e)' /\ Request(e)'
    BY DEF Control, Request
  <2>2. Response(e)' /\ Memory(e)' /\ Keys(e)'
    BY DEF Control, Response, Memory, Keys, TheKey
  <2>3. Session(e)'
    BY NoneAssumption DEF Control, Session, Registered, Serving
  <2> QED
    BY <2>1, <2>2, <2>3
<1>3. Entries'
  <2> SUFFICES ASSUME NEW i \in 1..Len(people) PROVE Entry(i)'
    BY DEF Entries
  <2> PICK e \in Client, k \in 1..epoch : Entry(i)!(e)!(k)
    BY DEF Entries, Entry
  <2> QED
    BY DEF Entry, Client1, Control, Functions, NoMsg
<1>4. Unique'
  BY DEF Unique
<1>5. Serving'
  BY NoneAssumption DEF Functions, Serving, Client1, Control, NoMsg, Partial
<1> QED
  BY <1>1, <1>2, <1>3, <1>4, <1>5 DEF IInv, Client1, Controls, Requests, Responses, Memories, AllKeys, Sessions

(* RegisterWrite preserves the invariant. *)
LEMMA RegisterWriteIInv ==
  ASSUME IInv, NEW d \in Client, RegisterWrite(d) PROVE IInv'
<1> USE DEF RegisterWrite, Answer, centreVars, clientVars
<1> TypeOK /\ Functions /\ Entries /\ Unique /\ Serving /\ Client1(d)
  BY TypeFunctions DEF IInv, Controls, Requests, Responses, Memories, AllKeys, Sessions, Client1
<1>0. /\ req[d].act = "register" /\ link[d] = "up" /\ serving = d
      /\ reg[d] \in Factors /\ req[d].f = reg[d] /\ par[d].k = 0
      /\ pc[d] \in {"wait_reg", "dead"} /\ rsp[d] = NoMsg
  BY NoneAssumption DEF Serving, Client1, Control, Request
<1>n. /\ people \in Seq(Row) /\ epoch \in 1..MaxEpoch /\ epoch \in Nat \ {0}
      /\ Person(reg[d], d, epoch) \in Row
      /\ people' = Append(people, Person(reg[d], d, epoch))
  BY <1>0 DEF TypeOK, Row, Functions
<1>l. /\ people' \in Seq(Row) /\ Len(people') = Len(people) + 1
      /\ Len(people) \in Nat
      /\ people'[Len(people) + 1] = Person(reg[d], d, epoch)
      /\ \A i \in 1..Len(people) : people'[i] = people[i]
  BY <1>n
<1>1. TypeOK'
  BY <1>l DEF TypeOK, NoMsg, RequestAct, ResponseAct
<1>2. ASSUME NEW e \in Client PROVE Client1(e)'
  <2> Client1(e)
    BY DEF IInv, Controls, Requests, Responses, Memories, AllKeys, Sessions, Client1
  <2> USE DEF Client1, Functions, NoMsg, RequestAct, ResponseAct
  <2>1. CASE e # d
    <3>1. Control(e)' /\ Request(e)' /\ Response(e)' /\ Memory(e)' /\ Keys(e)'
      BY <2>1 DEF Control, Request, Response, Memory, Keys, TheKey
    <3>2. Session(e)'
      BY <2>1, <1>0 DEF Session, Registered
    <3> QED
      BY <3>1, <3>2
  <2>2. CASE e = d
    <3>1. Control(e)'
      BY <2>2, <1>0 DEF Control
    <3>2. Request(e)' /\ Memory(e)' /\ Keys(e)'
      BY <2>2, <1>0 DEF Control, Request, Memory, Keys, TheKey
    <3>3. Response(e)'
      BY <2>2, <1>0, <1>n DEF Response
    <3>4. Session(e)'
      <4>1. \E i \in 1..Len(people') : people'[i] = Person(reg[d], d, epoch)
        BY <1>l
      <4> QED
        BY <2>2, <1>0, <4>1 DEF Session, Registered, Control
    <3> QED
      BY <3>1, <3>2, <3>3, <3>4
  <2> QED
    BY <2>1, <2>2
<1>3. ASSUME NEW i \in 1..Len(people) PROVE Entry(i)' /\ people[i].name # PID(reg[d], d)
  <2>1. PICK e \in Client, k \in 1..epoch : Entry(i)!(e)!(k)
    BY DEF Entries, Entry
  <2>2. e # d
    BY <1>0, <2>1
  <2>3. Entry(i)'
    BY <1>l, <2>1, <2>2 DEF Entry, Functions
  <2>4. people[i].name # PID(reg[d], d)
    BY <2>1, <2>2 DEF Person, PID
  <2> QED
    BY <2>3, <2>4
<1>4. ASSUME NEW n, n = Len(people) + 1 PROVE Entry(n)'
  <2>1. /\ people'[n] = Person(reg'[d], d, epoch)
        /\ reg'[d] \in Factors
        /\ pc'[d] \notin {"off", "connected"} /\ req'[d].act # "register"
        /\ par'[d].k \in {0, epoch}
        /\ rsp'[d].act = "register_ack" => rsp'[d].k = epoch
    BY <1>0, <1>l, <1>4 DEF Functions, NoMsg
  <2>2. epoch \in 1..epoch'
    BY <1>n
  <2> QED
    BY <2>1, <2>2 DEF Entry
<1>5. Entries'
  <2> SUFFICES ASSUME NEW i \in 1..Len(people') PROVE Entry(i)'
    BY DEF Entries
  <2>1. i \in 1..Len(people) \/ i = Len(people) + 1
    BY <1>l
  <2> QED
    BY <1>3, <1>4, <2>1
<1>6. Unique'
  BY <1>3, <1>l DEF Unique, Person
<1>7. Serving'
  BY NoneAssumption DEF Functions, Serving, Client1, Control, NoMsg
<1> QED
  BY <1>1, <1>2, <1>5, <1>6, <1>7 DEF IInv, Client1, Controls, Requests, Responses, Memories, AllKeys, Sessions

(* DecodeError preserves the invariant. *)
LEMMA DecodeErrorIInv ==
  ASSUME IInv, NEW d \in Client, DecodeError(d) PROVE IInv'
<1> USE DEF DecodeError, centreVars, clientVars
<1> TypeOK /\ Functions /\ Entries /\ Unique /\ Serving /\ Client1(d)
  BY TypeFunctions DEF IInv, Controls, Requests, Responses, Memories, AllKeys, Sessions, Client1
<1>1. TypeOK'
  BY NoneAssumption, EpochAssumption DEF TypeOK, NoMsg, Partial, ClientPc, Waiting, RequestAct, ResponseAct
<1>2. ASSUME NEW e \in Client PROVE Client1(e)'
  <2> Client1(e)
    BY DEF IInv, Controls, Requests, Responses, Memories, AllKeys, Sessions, Client1
  <2> USE DEF Client1, Functions, NoMsg, Partial, RequestAct, ResponseAct
  <2>1. Control(e)' /\ Request(e)'
    BY DEF Control, Request
  <2>2. Response(e)' /\ Memory(e)' /\ Keys(e)'
    BY DEF Control, Response, Memory, Keys, TheKey
  <2>3. Session(e)'
    BY NoneAssumption DEF Control, Session, Registered, Serving
  <2> QED
    BY <2>1, <2>2, <2>3
<1>3. Entries'
  <2> SUFFICES ASSUME NEW i \in 1..Len(people) PROVE Entry(i)'
    BY DEF Entries
  <2> PICK e \in Client, k \in 1..epoch : Entry(i)!(e)!(k)
    BY DEF Entries, Entry
  <2> QED
    BY DEF Entry, Client1, Control, Functions, NoMsg
<1>4. Unique'
  BY DEF Unique
<1>5. Serving'
  BY NoneAssumption DEF Functions, Serving, Client1, Control, NoMsg, Partial
<1> QED
  BY <1>1, <1>2, <1>3, <1>4, <1>5 DEF IInv, Client1, Controls, Requests, Responses, Memories, AllKeys, Sessions

(* AuthRequest preserves the invariant. *)
LEMMA AuthRequestIInv ==
  ASSUME IInv, NEW d \in Client, AuthRequest(d) PROVE IInv'
<1> USE DEF AuthRequest, Answer, centreVars, clientVars
<1> TypeOK /\ Functions /\ Entries /\ Unique /\ Serving /\ Client1(d)
  BY TypeFunctions DEF IInv, Controls, Requests, Responses, Memories, AllKeys, Sessions, Client1
<1>0. /\ link[d] = "up" /\ par[d].k = epoch /\ epoch # 0
      /\ pc[d] \in {"wait_auth", "dead"} /\ rsp[d] = NoMsg
  BY AuthOutcome DEF Functions, Client1, Control
<1>a. /\ typed[d] = reg[d] =>
           /\ self' = [A |-> par[d].A, QID |-> req[d].QID, a |-> RandA(d)]
           /\ attrs' = {"A", "QID", "a"}
           /\ rsp' = [rsp EXCEPT ![d] =
                        IF pc[d] = "dead" THEN NoMsg
                        ELSE [act |-> "SharedKey_Gen_request",
                              N1 |-> Xor(TTG(epoch, par[d].A), RandA(d))]]
      /\ typed[d] # reg[d] =>
           rsp' = [rsp EXCEPT ![d] = IF pc[d] = "dead" THEN NoMsg ELSE [act |-> "rejected"]]
  BY AuthOutcome DEF TypeOK
<1>1. TypeOK'
  BY NoneAssumption, EpochAssumption DEF TypeOK, NoMsg, Partial, ClientPc, Waiting, RequestAct, ResponseAct
<1>2. ASSUME NEW e \in Client PROVE Client1(e)'
  <2> Client1(e)
    BY DEF IInv, Controls, Requests, Responses, Memories, AllKeys, Sessions, Client1
  <2> USE DEF Client1, Functions, NoMsg, Partial, RequestAct, ResponseAct
  <2>1. Control(e)'
    BY DEF Control
  <2>2. Request(e)'
    BY DEF Control, Request
  <2>3. Response(e)'
    <3>1. CASE e = d
      BY <1>0, <1>a, <3>1 DEF Control, Response, TheKey
    <3>2. CASE e # d
      BY <3>2 DEF Control, Response, TheKey
    <3> QED
      BY <3>1, <3>2
  <2>4. Memory(e)'
    BY DEF Control, Memory
  <2>5. Keys(e)'
    <3>1. CASE e = d
      BY <1>0, <1>a, <3>1 DEF Control, Keys, TheKey
    <3>2. CASE e # d
      BY <3>2 DEF Control, Keys, TheKey
    <3> QED
      BY <3>1, <3>2
  <2>6. Session(e)'
    <3>1. CASE e = d
      BY <1>0, <1>a, <3>1 DEF Control, Session, Registered, Request
    <3>2. CASE e # d
      BY <1>0, <3>2 DEF Control, Session, Registered, Request
    <3> QED
      BY <3>1, <3>2
  <2> QED
    BY <2>1, <2>2, <2>3, <2>4, <2>5, <2>6
<1>3. Entries'
  <2> SUFFICES ASSUME NEW i \in 1..Len(people) PROVE Entry(i)'
    BY DEF Entries
  <2> PICK e \in Client, k \in 1..epoch : Entry(i)!(e)!(k)
    BY DEF Entries, Entry
  <2> QED
    BY DEF Entry, Client1, Control, Functions, NoMsg
<1>4. Unique'
  BY DEF Unique
<1>5. Serving'
  BY NoneAssumption DEF Functions, Serving, Client1, Control, NoMsg, Partial
<1> QED
  BY <1>1, <1>2, <1>3, <1>4, <1>5 DEF IInv, Client1, Controls, Requests, Responses, Memories, AllKeys, Sessions

(* SharedKeyResponse preserves the invariant. *)
LEMMA SharedKeyResponseIInv ==
  ASSUME IInv, NEW d \in Client, SharedKeyResponse(d) PROVE IInv'
<1> USE DEF centreVars, clientVars
<1> TypeOK /\ Functions /\ Entries /\ Unique /\ Serving /\ Client1(d)
  BY TypeFunctions DEF IInv, Controls, Requests, Responses, Memories, AllKeys, Sessions, Client1
<1>0. /\ link[d] = "up" /\ par[d].k = epoch /\ epoch # 0 /\ centre = "up" /\ serving = d
      /\ req[d].act = "SharedKey_Gen_response"
      /\ pc[d] \in {"wait_fin", "dead"} /\ rsp[d] = NoMsg /\ typed[d] = reg[d]
  BY KeyOutcome DEF SharedKeyResponse, Client1, Control, Request
<1> /\ ckey' = [ckey EXCEPT ![d] = @ \cup {TheKey(d)}]
    /\ req' = [req EXCEPT ![d] = NoMsg]
    /\ rsp' = [rsp EXCEPT ![d] =
                 IF pc[d] = "dead" THEN NoMsg
                 ELSE [act |-> "SharedKey_Gen_Finish",
                       TC1 |-> TSum(epoch, RandA(d), RandB(d))]]
    /\ UNCHANGED <<centreVars, link, clientVars>>
  BY KeyOutcome, <1>0 DEF SharedKeyResponse, Answer, TheKey
<1>1. TypeOK'
  BY NoneAssumption, EpochAssumption DEF TypeOK, NoMsg, Partial, ClientPc, Waiting, RequestAct, ResponseAct
<1>2. ASSUME NEW e \in Client PROVE Client1(e)'
  <2> Client1(e)
    BY DEF IInv, Controls, Requests, Responses, Memories, AllKeys, Sessions, Client1
  <2> USE DEF Client1, Functions, NoMsg, Partial, RequestAct, ResponseAct
  <2>1. Control(e)'
    <3>1. CASE e = d
      BY <1>0, <3>1 DEF Control
    <3>2. CASE e # d
      BY <3>2 DEF Control
    <3> QED
      BY <3>1, <3>2
  <2>2. Request(e)'
    BY DEF Control, Request
  <2>3. Response(e)'
    <3>1. CASE e = d
      BY <1>0, <3>1 DEF Control, Response, Keys, TheKey
    <3>2. CASE e # d
      BY <3>2 DEF Control, Response, Keys, TheKey
    <3> QED
      BY <3>1, <3>2
  <2>4. Memory(e)'
    BY DEF Control, Memory
  <2>5. Keys(e)'
    <3>1. CASE e = d
      BY <1>0, <3>1 DEF Control, Keys, TheKey
    <3>2. CASE e # d
      BY <3>2 DEF Control, Keys, TheKey
    <3> QED
      BY <3>1, <3>2
  <2>6. Session(e)'
    BY NoneAssumption DEF Control, Session, Registered, Serving
  <2> QED
    BY <2>1, <2>2, <2>3, <2>4, <2>5, <2>6
<1>3. Entries'
  <2> SUFFICES ASSUME NEW i \in 1..Len(people) PROVE Entry(i)'
    BY DEF Entries
  <2> PICK e \in Client, k \in 1..epoch : Entry(i)!(e)!(k)
    BY DEF Entries, Entry
  <2> QED
    BY DEF Entry, Client1, Control, Functions, NoMsg
<1>4. Unique'
  BY DEF Unique
<1>5. Serving'
  BY <1>0, NoneAssumption DEF Functions, Serving, Client1, Control, NoMsg, Partial
<1> QED
  BY <1>1, <1>2, <1>3, <1>4, <1>5 DEF IInv, Client1, Controls, Requests, Responses, Memories, AllKeys, Sessions

(* ClientGone preserves the invariant. *)
LEMMA ClientGoneIInv ==
  ASSUME IInv, NEW d \in Client, ClientGone(d) PROVE IInv'
<1> USE DEF ClientGone, centreVars, clientVars
<1> TypeOK /\ Functions /\ Entries /\ Unique /\ Serving /\ Client1(d)
  BY TypeFunctions DEF IInv, Controls, Requests, Responses, Memories, AllKeys, Sessions, Client1
<1>1. TypeOK'
  BY NoneAssumption, EpochAssumption DEF TypeOK, NoMsg, Partial, ClientPc, Waiting, RequestAct, ResponseAct
<1>2. ASSUME NEW e \in Client PROVE Client1(e)'
  <2> Client1(e)
    BY DEF IInv, Controls, Requests, Responses, Memories, AllKeys, Sessions, Client1
  <2> USE DEF Client1, Functions, NoMsg, Partial, RequestAct, ResponseAct
  <2>1. Control(e)' /\ Request(e)'
    BY DEF Control, Request
  <2>2. Response(e)' /\ Memory(e)' /\ Keys(e)'
    BY DEF Control, Response, Memory, Keys, TheKey
  <2>3. Session(e)'
    BY NoneAssumption DEF Control, Session, Registered, Serving
  <2> QED
    BY <2>1, <2>2, <2>3
<1>3. Entries'
  <2> SUFFICES ASSUME NEW i \in 1..Len(people) PROVE Entry(i)'
    BY DEF Entries
  <2> PICK e \in Client, k \in 1..epoch : Entry(i)!(e)!(k)
    BY DEF Entries, Entry
  <2> QED
    BY DEF Entry, Client1, Control, Functions, NoMsg
<1>4. Unique'
  BY DEF Unique
<1>5. Serving'
  BY NoneAssumption DEF Functions, Serving, Client1, Control, NoMsg, Partial
<1> QED
  BY <1>1, <1>2, <1>3, <1>4, <1>5 DEF IInv, Client1, Controls, Requests, Responses, Memories, AllKeys, Sessions

(* PartialMessage preserves the invariant. *)
LEMMA PartialMessageIInv ==
  ASSUME IInv, NEW d \in Client, PartialMessage(d) PROVE IInv'
BY CentreDiesIInv DEF PartialMessage

(* Accept preserves the invariant. *)
LEMMA AcceptIInv ==
  ASSUME IInv, Accept PROVE IInv'
<1> USE DEF Accept, centreVars, clientVars
<1> TypeOK /\ Functions /\ Entries /\ Unique /\ Serving
  BY TypeFunctions DEF IInv, Controls, Requests, Responses, Memories, AllKeys, Sessions, Client1
<1>1. TypeOK'
  BY NoneAssumption, EpochAssumption DEF TypeOK, NoMsg, Partial, ClientPc, Waiting, RequestAct, ResponseAct
<1>2. ASSUME NEW e \in Client PROVE Client1(e)'
  <2> Client1(e)
    BY DEF IInv, Controls, Requests, Responses, Memories, AllKeys, Sessions, Client1
  <2> USE DEF Client1, Functions, NoMsg, Partial, RequestAct, ResponseAct
  <2>1. Control(e)' /\ Request(e)'
    BY DEF Control, Request
  <2>2. Response(e)' /\ Memory(e)' /\ Keys(e)'
    BY DEF Control, Response, Memory, Keys, TheKey
  <2>3. Session(e)'
    BY NoneAssumption DEF Control, Session, Registered, Serving
  <2> QED
    BY <2>1, <2>2, <2>3
<1>3. Entries'
  <2> SUFFICES ASSUME NEW i \in 1..Len(people) PROVE Entry(i)'
    BY DEF Entries
  <2> PICK e \in Client, k \in 1..epoch : Entry(i)!(e)!(k)
    BY DEF Entries, Entry
  <2> QED
    BY DEF Entry, Client1, Control, Functions, NoMsg
<1>4. Unique'
  BY DEF Unique
<1>5. Serving'
  BY NoneAssumption DEF Functions, Serving, Client1, Control, NoMsg, Partial
<1> QED
  BY <1>1, <1>2, <1>3, <1>4, <1>5 DEF IInv, Client1, Controls, Requests, Responses, Memories, AllKeys, Sessions

(* KillCentre preserves the invariant. *)
LEMMA KillCentreIInv ==
  ASSUME IInv, KillCentre PROVE IInv'
BY CentreDiesIInv DEF KillCentre

(* Restart preserves the invariant. *)
LEMMA RestartIInv ==
  ASSUME IInv, Restart PROVE IInv'
<1> USE DEF Restart, centreVars, clientVars
<1> TypeOK /\ Functions /\ Entries /\ Unique /\ Serving
  BY TypeFunctions DEF IInv, Controls, Requests, Responses, Memories, AllKeys, Sessions, Client1
<1>1. TypeOK'
  BY NoneAssumption, EpochAssumption DEF TypeOK, NoMsg, Partial, ClientPc, Waiting, RequestAct, ResponseAct
<1>2. ASSUME NEW e \in Client PROVE Client1(e)'
  <2> Client1(e)
    BY DEF IInv, Controls, Requests, Responses, Memories, AllKeys, Sessions, Client1
  <2> USE DEF Client1, Functions, NoMsg, Partial, RequestAct, ResponseAct
  <2>1. Control(e)' /\ Request(e)'
    BY DEF Control, Request
  <2>2. Response(e)' /\ Memory(e)' /\ Keys(e)'
    BY DEF Control, Response, Memory, Keys, TheKey
  <2>3. Session(e)'
    BY NoneAssumption DEF Control, Session, Registered, Serving
  <2> QED
    BY <2>1, <2>2, <2>3
<1>3. Entries'
  <2> SUFFICES ASSUME NEW i \in 1..Len(people) PROVE Entry(i)'
    BY DEF Entries
  <2> PICK e \in Client, k \in 1..epoch : Entry(i)!(e)!(k)
    BY DEF Entries, Entry
  <2> QED
    BY DEF Entry, Client1, Control, Functions, NoMsg
<1>4. Unique'
  BY DEF Unique
<1>5. Serving'
  BY NoneAssumption DEF Functions, Serving, Client1, Control, NoMsg, Partial
<1> QED
  BY <1>1, <1>2, <1>3, <1>4, <1>5 DEF IInv, Client1, Controls, Requests, Responses, Memories, AllKeys, Sessions
(* Every step preserves the invariant. *)
LEMMA NextIInv == IInv /\ [Next]_vars => IInv'
<1> SUFFICES ASSUME IInv, [Next]_vars PROVE IInv'
  OBVIOUS
<1>1. ASSUME NEW d \in Client, ClientStep(d) PROVE IInv'
  BY <1>1, ConnectIInv, RegisterRequestIInv, RegisterProcIInv, AuthPreIInv,
     AuthRejectedIInv, SharedkeyGenIInv, SharedkeyGen2IInv, QuitIInv,
     PeerClosedIInv, KillClientIInv, KillMidSendIInv DEF ClientStep
<1>2. ASSUME NEW d \in Client, Handle(d) PROVE IInv'
  BY <1>2, RegisterTruncateIInv, RegisterWriteIInv, DecodeErrorIInv, AuthRequestIInv,
     SharedKeyResponseIInv, ClientGoneIInv, PartialMessageIInv DEF Handle
<1>3. CASE Accept
  BY <1>3, AcceptIInv
<1>4. CASE KillCentre
  BY <1>4, KillCentreIInv
<1>5. CASE Restart
  BY <1>5, RestartIInv
<1>6. CASE UNCHANGED vars
  BY <1>6 DEF vars, IInv, TypeOK, Controls, Control, Requests, Request, Responses,
     Response, Memories, Memory, AllKeys, Keys, TheKey, Sessions, Session, Registered,
     Entries, Entry, Unique, Serving, Row
<1> QED
  BY <1>1, <1>2, <1>3, <1>4, <1>5, <1>6 DEF Next

(* The inductive invariant holds in every reachable state. *)
THEOREM Invariance == Spec => []IInv
BY InitIInv, NextIInv, PTL DEF Spec

(* Control state and bookkeeping of sever.py and User_simple.py stay in    *)
(* range.                                                                  *)
THEOREM TypeCorrect == Spec => []TypeOK
<1>1. IInv => TypeOK
  BY DEF IInv
<1> QED
  BY <1>1, Invariance, PTL

(* Both ends of a run hold the same session key KS, and only one.          *)
THEOREM Agreement == Spec => []KeyAgreement
<1>1. IInv => KeyAgreement
  BY DEF IInv, AllKeys, Keys, KeyAgreement
<1> QED
  BY <1>1, Invariance, PTL

(* user_auth gives a session key to nobody but the user who logs in with   *)
(* the registered factors.                                                 *)
THEOREM Authentication == Spec => []KeyOnlyForRegistered
<1>1. IInv => KeyOnlyForRegistered
  BY DEF IInv, AllKeys, Keys, KeyOnlyForRegistered
<1> QED
  BY <1>1, Invariance, PTL

(* It never refuses the right user.                                        *)
THEOREM Acceptance == Spec => []CorrectLoginAccepted
<1>1. IInv => CorrectLoginAccepted
  BY DEF IInv, AllKeys, Keys, CorrectLoginAccepted
<1> QED
  BY <1>1, Invariance, PTL

(* The exception that would end the centre's process in                    *)
(* SharedKey_Gen_response_handler is never raised.                         *)
THEOREM KeyGenerationNeverFails == Spec => []SharedKeyNeverFails
<1>1. IInv => SharedKeyNeverFails
  BY KeyOutcome DEF SharedKeyNeverFails
<1> QED
  BY <1>1, Invariance, PTL

(* With a people.json torn by a crash in add_person no live client is      *)
(* registered.                                                             *)
THEOREM TornFile == Spec => []TornFileBlocksAll
<1>1. IInv => TornFileBlocksAll
  <2> SUFFICES ASSUME IInv, file = "torn", ~writing, NEW d \in Client, link[d] = "up"
               PROVE  /\ pc[d] \in {"connected", "wait_reg", "dead"}
                      /\ rsp[d] = NoMsg /\ ckey[d] = {}
    BY DEF TornFileBlocksAll
  <2>1. Control(d) /\ Session(d) /\ Keys(d) /\ pc[d] \in ClientPc
    BY DEF IInv, Controls, Sessions, AllKeys, TypeOK
  <2>2. par[d].k = 0 /\ rsp[d].act # "register_ack"
    BY <2>1 DEF Session, Registered
  <2> QED
    BY <2>1, <2>2 DEF Control, Keys, ClientPc, Waiting, ResponseAct
<1> QED
  BY <1>1, Invariance, PTL

(* No operation of the code repairs a torn people.json.                    *)
THEOREM TornFileStays == Spec => TornForever
<1>1. ASSUME [Next]_vars, file = "torn", ~writing PROVE file' = "torn"
  <2>1. ASSUME NEW d \in Client, ClientStep(d) PROVE file' = file
    BY <2>1 DEF ClientStep, Connect, RegisterRequest, RegisterProc, AuthPre,
       AuthRejected, SharedkeyGen, SharedkeyGen2, Quit, PeerClosed, KillClient,
       KillMidSend, centreVars
  <2>2. ASSUME NEW d \in Client, Handle(d) PROVE file' = file
    BY <1>1, <2>2 DEF Handle, RegisterTruncate, RegisterWrite, DecodeError, AuthRequest,
       SharedKeyResponse, ClientGone, PartialMessage, CentreDies, centreVars
  <2>3. ASSUME Accept \/ KillCentre \/ Restart \/ UNCHANGED vars PROVE file' = file
    BY <2>3 DEF Accept, KillCentre, CentreDies, Restart, vars
  <2> QED
    BY <1>1, <2>1, <2>2, <2>3 DEF Next
<1>2. [Next]_vars => [file = "torn" /\ ~writing => file' = "torn"]_vars
  BY <1>1
<1> QED
  BY <1>2, PTL DEF Spec, TornForever

-----------------------------------------------------------------------------
(* Refinement of KeyExchange. *)

(* Every step is a step of KeyExchange or leaves the keys alone. *)
LEMMA KeyStep ==
  ASSUME IInv, [Next]_vars
  PROVE  [Exchange!Next]_<<ckey, dkey>>
<1>1. ASSUME NEW d \in Client, SharedkeyGen2(d) PROVE Exchange!Adopt(d)
  <2>1. Control(d) /\ Response(d) /\ Memory(d) /\ Functions
    BY TypeFunctions DEF IInv, Controls, Responses, Memories
  <2>2. ckey[d] = {TheKey(d)} /\ dkey[d] = {}
    BY <1>1, <2>1 DEF SharedkeyGen2, Control, Response
  <2>3. ChebyshevIdentity(par[d].k, rand[d].tmpa1, rand[d].b, rsp[d].TC1)
    BY <1>1, <2>1 DEF SharedkeyGen2, Memory, Response, ChebyshevIdentity
  <2>4. dkey' = [dkey EXCEPT ![d] = {TheKey(d)}]
    BY <1>1, <2>1, <2>2, <2>3 DEF SharedkeyGen2, Memory, TheKey
  <2> QED
    BY <1>1, <2>2, <2>4 DEF Exchange!Adopt, SharedkeyGen2
<1>2. ASSUME NEW d \in Client, SharedKeyResponse(d) PROVE Exchange!Issue(d)
  <2>1. /\ serving = d /\ req[d].act = "SharedKey_Gen_response"
        /\ Control(d) /\ Request(d) /\ Memory(d) /\ Functions
    BY <1>2, TypeFunctions DEF SharedKeyResponse, IInv, Controls, Requests, Memories
  <2>2. ckey[d] = {}
    BY <2>1 DEF Control
  <2>3. ckey' = [ckey EXCEPT ![d] = {TheKey(d)}] /\ UNCHANGED dkey
    BY <1>2, <2>1, <2>2, KeyOutcome DEF SharedKeyResponse, TheKey, clientVars
  <2>4. TheKey(d) \in SessionKeys
    BY <2>1, KeyOutcome DEF Request, Memory, SessionKeys, TheKey, IInv, TypeOK
  <2>5. ASSUME NEW e \in Client PROVE TheKey(d) \notin ckey[e]
    <3>1. Keys(e)
      BY DEF IInv, AllKeys
    <3>2. ASSUME TheKey(e) = TheKey(d) PROVE e = d
      <4>1. RandA(e) = RandA(d)
        BY <3>2 DEF TheKey, KS
      <4>2. <<"a", e>> = <<"a", d>>
        BY <4>1 DEF RandA
      <4> QED
        BY <4>2
    <3> QED
      BY <2>2, <3>1, <3>2 DEF Keys
  <2> QED
    BY <2>2, <2>3, <2>4, <2>5 DEF Exchange!Issue
<1>3. ASSUME NEW d \in Client, ClientStep(d), ~SharedkeyGen2(d) PROVE UNCHANGED <<ckey, dkey>>
  BY <1>3 DEF ClientStep, Connect, RegisterRequest, RegisterProc, AuthPre, AuthRejected,
     SharedkeyGen, Quit, PeerClosed, KillClient, KillMidSend
<1>4. ASSUME NEW d \in Client, Handle(d), ~SharedKeyResponse(d) PROVE UNCHANGED <<ckey, dkey>>
  BY <1>4 DEF Handle, RegisterTruncate, RegisterWrite, DecodeError, AuthRequest,
     ClientGone, PartialMessage, CentreDies, clientVars
<1>5. ASSUME Accept \/ KillCentre \/ Restart \/ UNCHANGED vars PROVE UNCHANGED <<ckey, dkey>>
  BY <1>5 DEF Accept, KillCentre, CentreDies, Restart, vars, clientVars
<1> QED
  BY <1>1, <1>2, <1>3, <1>4, <1>5 DEF Next, Exchange!Next

(* The protocol implements the abstract key exchange: the centre issues at *)
(* most one, new, key per run and the device adopts that key.              *)
THEOREM Refinement == Spec => ImplementsKeyExchange
<1>1. Init => Exchange!Init
  BY DEF Init, Exchange!Init
<1>2. IInv /\ [Next]_vars => [Exchange!Next]_<<ckey, dkey>>
  BY KeyStep
<1> QED
  BY <1>1, <1>2, Invariance, PTL DEF Spec, ImplementsKeyExchange, Exchange!Spec
=============================================================================
