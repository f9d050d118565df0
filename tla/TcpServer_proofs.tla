--------------------------- MODULE TcpServer_proofs ---------------------------
(***************************************************************************)
(* Proofs about TcpServer, for any number of descriptors and connections   *)
(* and any length of the trigger queue.                                    *)
(***************************************************************************)
EXTENDS TcpServer, TLAPS

(* A stored connection is stored under its own descriptor.                 *)
Stored ==
    /\ \A c \in 1..count : fd[c] \in Fd
    /\ \A f \in Fd : stored[f] # None => fd[stored[f]] = f

(* The connection the accept callback works on is the newest, and the only *)
(* one without a disconnect callback.                                      *)
Accepting ==
    /\ acc \in {None, count}
    /\ hascb = (1..count) \ {acc}
    /\ acc # None => stored[fd[acc]] = IF step = "built" THEN None ELSE acc
    /\ single /\ acc # None => acc \notin closed
    /\ sto \in {"wait", "stopped"} => acc = None /\ ~listen
    /\ sto = "stopped" => \A f \in Fd : stored[f] = None

(* The map or the accept callback holds connection c.                      *)
Held(c) == stored[fd[c]] = c \/ (acc = c /\ step = "built")

(* Open connections are registered, and held like those of the batch.      *)
Open ==
    /\ reg = (1..count) \ closed
    /\ \A c \in reg \cup (batch \ {Listen}) : Held(c)
    /\ loop # "dispatch" => batch = {}

(* No descriptor is to be removed twice.                                   *)
Once(q) == \A m, n \in 1..Len(q) : q[m] = q[n] /\ q[m][1] = "remove" => m = n

(* What is to be removed is closed, and not the connection being accepted; *)
(* q stands for the trigger events.                                        *)
Removals(q) ==
    /\ Once(q)
    /\ \A f \in Fd : Posted(q, f) => f \notin timers
    /\ \A f \in Fd : f \in timers \/ Posted(q, f) => stored[f] \in closed \cap hascb
    /\ single => \A f \in Fd : stored[f] \in closed \ lost => f \in timers \/ Posted(q, f)

IInv == TypeOK /\ Stored /\ Accepting /\ Open /\ Removals(trig)

-----------------------------------------------------------------------------
(* The trigger events as a queue *)

Event == ({"close"} \X Conn) \cup ({"remove"} \X Fd)

(* An event appended to the queue comes after those that are there.        *)
LEMMA AppendFacts ==
  ASSUME NEW q \in Seq(Event), NEW e \in Event
  PROVE  /\ Append(q, e) \in Seq(Event)
         /\ Len(Append(q, e)) = Len(q) + 1
         /\ \A n \in 1..Len(q) : Append(q, e)[n] = q[n]
         /\ Append(q, e)[Len(q) + 1] = e
OBVIOUS

(* Popping an event shifts the others.                                     *)
LEMMA TailFacts ==
  ASSUME NEW q \in Seq(Event), q # <<>>
  PROVE  /\ Tail(q) \in Seq(Event)
         /\ Len(q) \in Nat \ {0} /\ Len(Tail(q)) = Len(q) - 1
         /\ \A n \in 1..(Len(q) - 1) : Tail(q)[n] = q[n + 1]
         /\ Head(q) = q[1] /\ Head(q) \in Event
OBVIOUS

(* Posting a Close adds no removal. *)
LEMMA PostClose ==
  ASSUME NEW q \in Seq(Event), NEW c \in Conn
  PROVE  LET t == Append(q, <<"close", c>>)
         IN  /\ \A f \in Fd : Posted(t, f) <=> Posted(q, f)
             /\ Once(q) => Once(t)
<1> DEFINE t == Append(q, <<"close", c>>)
<1>1. /\ Len(q) \in Nat /\ Len(t) = Len(q) + 1
      /\ \A n \in 1..Len(q) : t[n] = q[n]
      /\ t[Len(q) + 1] = <<"close", c>>
  BY AppendFacts DEF Event
<1>2. \A f \in Fd : Posted(t, f) <=> Posted(q, f)
  BY <1>1 DEF Posted
<1>3. Once(q) => Once(t)
  BY <1>1 DEF Once
<1> QED
  BY <1>2, <1>3

(* Posting a removal adds just that one. *)
LEMMA PostRemove ==
  ASSUME NEW q \in Seq(Event), NEW g \in Fd
  PROVE  LET t == Append(q, <<"remove", g>>)
         IN  /\ \A f \in Fd : Posted(t, f) <=> Posted(q, f) \/ f = g
             /\ Once(q) /\ ~ Posted(q, g) => Once(t)
<1> DEFINE t == Append(q, <<"remove", g>>)
<1>1. /\ Len(q) \in Nat /\ Len(t) = Len(q) + 1
      /\ \A n \in 1..Len(q) : t[n] = q[n]
      /\ t[Len(q) + 1] = <<"remove", g>>
  BY AppendFacts DEF Event
<1>2. \A f \in Fd : Posted(t, f) <=> Posted(q, f) \/ f = g
  BY <1>1 DEF Posted
<1>3. Once(q) /\ ~ Posted(q, g) => Once(t)
  BY <1>1 DEF Once, Posted
<1> QED
  BY <1>2, <1>3

(* Popping a Close loses no removal. *)
LEMMA PopClose ==
  ASSUME NEW q \in Seq(Event), q # <<>>, Head(q)[1] = "close"
  PROVE  /\ \A f \in Fd : Posted(Tail(q), f) <=> Posted(q, f)
         /\ Once(q) => Once(Tail(q))
<1>1. /\ Len(q) \in Nat \ {0} /\ Len(Tail(q)) = Len(q) - 1
      /\ \A n \in 1..(Len(q) - 1) : Tail(q)[n] = q[n + 1]
      /\ q[1][1] = "close"
  BY TailFacts
<1>2. \A n \in 1..Len(q) : n # 1 => n - 1 \in 1..(Len(q) - 1) /\ q[n] = Tail(q)[n - 1]
  BY <1>1
<1>3. ASSUME NEW f \in Fd PROVE Posted(Tail(q), f) <=> Posted(q, f)
  <2>1. Posted(Tail(q), f) => Posted(q, f)
    BY <1>1 DEF Posted
  <2>2. ASSUME Posted(q, f) PROVE Posted(Tail(q), f)
    <3>1. PICK n \in 1..Len(q) : q[n] = <<"remove", f>>
      BY <2>2 DEF Posted
    <3>2. n # 1
      BY <1>1, <3>1
    <3> QED
      BY <1>1, <1>2, <3>1, <3>2 DEF Posted
  <2> QED
    BY <2>1, <2>2
<1>4. Once(q) => Once(Tail(q))
  BY <1>1 DEF Once
<1> QED
  BY <1>3, <1>4

(* Popping a removal leaves the others, and none of the same descriptor.   *)
LEMMA PopRemove ==
  ASSUME NEW q \in Seq(Event), q # <<>>, Once(q), NEW g \in Fd, Head(q) = <<"remove", g>>
  PROVE  /\ Posted(q, g)
         /\ \A f \in Fd : Posted(Tail(q), f) <=> Posted(q, f) /\ f # g
         /\ Once(Tail(q))
<1>1. /\ Len(q) \in Nat \ {0} /\ Len(Tail(q)) = Len(q) - 1
      /\ \A n \in 1..(Len(q) - 1) : Tail(q)[n] = q[n + 1]
      /\ q[1] = <<"remove", g>>
  BY TailFacts
<1>2. \A n \in 1..Len(q) : n # 1 => n - 1 \in 1..(Len(q) - 1) /\ q[n] = Tail(q)[n - 1]
  BY <1>1
<1>3. \A n \in 1..Len(q) : q[n] = <<"remove", g>> => n = 1
  BY <1>1 DEF Once
<1>4. Posted(q, g)
  BY <1>1 DEF Posted
<1>5. \A f \in Fd : Posted(Tail(q), f) => Posted(q, f) /\ f # g
  BY <1>1, <1>3 DEF Posted
<1>6. ASSUME NEW f \in Fd, Posted(q, f), f # g PROVE Posted(Tail(q), f)
  <2>1. PICK n \in 1..Len(q) : q[n] = <<"remove", f>>
    BY <1>6 DEF Posted
  <2>2. n # 1
    BY <1>1, <1>6, <2>1
  <2> QED
    BY <1>1, <1>2, <2>1, <2>2 DEF Posted
<1>7. Once(Tail(q))
  BY <1>1 DEF Once
<1> QED
  BY <1>4, <1>5, <1>6, <1>7

-----------------------------------------------------------------------------
(* What the type invariant gives the steps below. *)
LEMMA Types ==
  ASSUME TypeOK
  PROVE  /\ count \in Nat /\ 1..count \subseteq Conn /\ trig \in Seq(Event)
         /\ \A f \in Fd : stored[f] \in (1..count) \cup {None}
         /\ None \notin 0..count /\ None \notin Fd /\ 0 \notin 1..count
         /\ closed \subseteq 1..count
<1> USE ConnAssumption, NoneAssumption DEF TypeOK
<1>1. count \in Nat /\ 1..count \subseteq Conn /\ None \notin 0..count /\ 0 \notin 1..count
  BY DEF Conn
<1>2. ({"close"} \X (1..count)) \cup ({"remove"} \X Fd) \subseteq Event
  BY <1>1 DEF Event
<1>3. trig \in Seq(Event)
  BY <1>2
<1> QED
  BY <1>1, <1>3

(* Removals after a step, in terms of the new queue. *)
LEMMA RemovalsPrime ==
  ASSUME Once(trig'),
         \A f \in Fd : Posted(trig', f) => f \notin timers',
         \A f \in Fd : f \in timers' \/ Posted(trig', f) => stored'[f] \in closed' \cap hascb',
         single' => \A f \in Fd : stored'[f] \in closed' \ lost' => f \in timers' \/ Posted(trig', f)
  PROVE  Removals(trig)'
BY DEF Removals, Once, Posted

(* Nothing is there at the start. *)
LEMMA InitIInv == Init => IInv
<1> SUFFICES ASSUME Init PROVE IInv
  OBVIOUS
<1> USE ConnAssumption, NoneAssumption DEF Init
<1>1. TypeOK
  BY DEF TypeOK, Conn
<1>2. Stored /\ Accepting /\ Open
  BY DEF Stored, Accepting, Open
<1>3. \A f \in Fd : ~ Posted(trig, f)
  BY DEF Posted
<1>4. Removals(trig)
  BY <1>3 DEF Removals, Once
<1> QED
  BY <1>1, <1>2, <1>4 DEF IInv

(* A new connection has a descriptor that nothing is stored under. *)
LEMMA AcceptIInv ==
  ASSUME IInv, NEW f \in Fd, AcceptConnection(f) PROVE IInv'
<1> USE ConnAssumption, NoneAssumption DEF AcceptConnection, stopVars
<1>0. TypeOK /\ Stored /\ Accepting /\ Open /\ Removals(trig)
  BY DEF IInv
<1>1. /\ count' = count + 1 /\ count \in Nat /\ count' \in Conn /\ count' # None
      /\ count' \notin 1..count /\ 1..count' = (1..count) \cup {count'}
  BY <1>0, Types DEF Conn
<1>2. fd'[count'] = f /\ \A c \in 1..count : fd'[c] = fd[c]
  BY <1>0, <1>1 DEF TypeOK
<1>3. stored[f] = None
  BY <1>0, <1>1, Types DEF Stored, OpenFds, Alive
<1>4. TypeOK'
  <2>1. trig' \in Seq(({"close"} \X (1..count')) \cup ({"remove"} \X Fd))
    <3>1. ({"close"} \X (1..count)) \cup ({"remove"} \X Fd)
            \subseteq ({"close"} \X (1..count')) \cup ({"remove"} \X Fd)
      BY <1>1
    <3> QED
      BY <1>0, <3>1 DEF TypeOK
  <2>2. fd' \in [Conn -> Fd \cup {None}]
    BY <1>0 DEF TypeOK
  <2>3. count' \in 0..MaxConn /\ acc' \in (1..count') \cup {None}
    BY <1>1 DEF Conn
  <2>4. reg' \subseteq 1..count' /\ batch' \subseteq 0..count'
    <3>1. reg' \subseteq (1..count) \cup {count'} /\ batch' \subseteq 0..count
      BY <1>0 DEF TypeOK
    <3>2. 0..count \subseteq 0..count'
      BY <1>1
    <3> QED
      BY <1>1, <3>1, <3>2
  <2>5. stored' \in [Fd -> (1..count') \cup {None}]
    BY <1>0, <1>1 DEF TypeOK
  <2> QED
    BY <1>0, <1>1, <2>1, <2>2, <2>3, <2>4, <2>5 DEF TypeOK
<1>5. Stored'
  BY <1>0, <1>1, <1>2, Types DEF Stored
<1>6. Accepting'
  BY <1>0, <1>1, <1>2, <1>3, Types DEF Accepting
<1>7. Open'
  <2>1. reg' = (1..count') \ closed'
    BY <1>0, <1>1, Types DEF Open
  <2>2. \A c \in 1..count : Held(c) => Held(c)'
    BY <1>0, <1>1, <1>2 DEF Held, Accepting
  <2>3. \A c : c = count' => Held(c)'
    BY <1>1 DEF Held
  <2>4. reg \subseteq 1..count /\ batch \ {Listen} \subseteq 1..count
    BY <1>0 DEF TypeOK, Listen
  <2>5. \A c \in reg \cup (batch \ {Listen}) : Held(c)'
    BY <1>0, <2>2, <2>4 DEF Open
  <2>6. \A c \in reg' \cup (batch' \ {Listen}) : Held(c)'
    BY <2>3, <2>5
  <2>7. loop' # "dispatch" => batch' = {}
    BY <1>0 DEF Open
  <2> QED
    BY <2>1, <2>6, <2>7 DEF Open
<1>8. Removals(trig)'
  BY <1>0, RemovalsPrime DEF Removals
<1> QED
  BY <1>4, <1>5, <1>6, <1>7, <1>8 DEF IInv

(* AddConnection moves the connection into the map. *)
LEMMA AddIInv ==
  ASSUME IInv, AddConnection PROVE IInv'
<1> USE ConnAssumption, NoneAssumption DEF AddConnection, Emplace
<1>0. TypeOK /\ Stored /\ Accepting /\ Open /\ Removals(trig)
  BY DEF IInv
<1>1. acc \in 1..count /\ acc = count /\ fd[acc] \in Fd /\ stored[fd[acc]] = None
  BY <1>0 DEF TypeOK, Accepting, Stored
<1>2. stored' = [stored EXCEPT ![fd[acc]] = acc]
  BY <1>1
<1>3. stored'[fd[acc]] = acc /\ \A g \in Fd : g # fd[acc] => stored'[g] = stored[g]
  BY <1>0, <1>1, <1>2 DEF TypeOK
<1>4. TypeOK'
  BY <1>0, <1>1, <1>2 DEF TypeOK
<1>5. Stored'
  BY <1>0, <1>1, <1>3 DEF Stored
<1>6. Accepting'
  BY <1>0, <1>1, <1>3 DEF Accepting
<1>7. Open'
  <2>1. \A c \in 1..count : Held(c) => Held(c)'
    BY <1>0, <1>1, <1>3, Types DEF Held, Stored
  <2>2. reg \subseteq 1..count /\ batch \ {Listen} \subseteq 1..count
    BY <1>0 DEF TypeOK, Listen
  <2> QED
    BY <1>0, <2>1, <2>2 DEF Open
<1>8. Removals(trig)'
  <2>1. UNCHANGED <<trig, timers, closed, hascb, single, lost>>
    OBVIOUS
  <2>2. \A g \in Fd : g \in timers \/ Posted(trig, g) => g # fd[acc]
    BY <1>0, <1>1, Types DEF Removals
  <2>3. single => acc \notin closed
    BY <1>0, <1>1 DEF Accepting
  <2>4. \A g \in Fd : g \in timers \/ Posted(trig, g) => stored'[g] \in closed \cap hascb
    BY <1>0, <1>3, <2>2 DEF Removals
  <2>5. single => \A g \in Fd : stored'[g] \in closed \ lost => g \in timers \/ Posted(trig, g)
    BY <1>0, <1>3, <2>3 DEF Removals
  <2> QED
    BY <1>0, <2>1, <2>4, <2>5, RemovalsPrime DEF Removals
<1> QED
  BY <1>4, <1>5, <1>6, <1>7, <1>8 DEF IInv

(* From then on the connection is like any other. *)
LEMMA CallbackIInv ==
  ASSUME IInv, SetDisconnectCallback PROVE IInv'
<1> USE ConnAssumption, NoneAssumption DEF SetDisconnectCallback, stopVars
<1>0. TypeOK /\ Stored /\ Accepting /\ Open /\ Removals(trig)
  BY DEF IInv
<1>1. acc \in 1..count /\ None \notin 1..count /\ stored[fd[acc]] = acc
  BY <1>0, Types DEF TypeOK, Accepting
<1>2. TypeOK'
  BY <1>0, <1>1 DEF TypeOK
<1>3. Stored'
  BY <1>0 DEF Stored
<1>4. Accepting'
  BY <1>0, <1>1 DEF Accepting
<1>5. Open'
  <2>1. \A c : Held(c) => Held(c)'
    BY <1>1 DEF Held
  <2> QED
    BY <1>0, <2>1 DEF Open
<1>6. Removals(trig)'
  BY <1>0, RemovalsPrime DEF Removals
<1> QED
  BY <1>2, <1>3, <1>4, <1>5, <1>6 DEF IInv

-----------------------------------------------------------------------------
(* The scheduler's thread *)

(* Close, with q the events that are left: a connection not yet closed is  *)
(* held, so that no removal of its descriptor is pending.                  *)
LEMMA CloseIInv ==
  ASSUME TypeOK, Stored, Accepting, Open, LoopFree,
         NEW q \in Seq(({"close"} \X (1..count)) \cup ({"remove"} \X Fd)), Removals(q),
         NEW c \in 1..count, NEW out \in Outcome, Close(c, q, out),
         batch' \subseteq batch, UNCHANGED <<accVars, rem, loop, sto, todo>>
  PROVE  IInv'
<1> USE ConnAssumption, NoneAssumption DEF accVars, MayClose
<1>0. /\ q \in Seq(Event) /\ c \in Conn /\ c # None /\ fd[c] \in Fd
      /\ closed \subseteq 1..count
  <2>1. ({"close"} \X (1..count)) \cup ({"remove"} \X Fd) \subseteq Event
    BY Types DEF Event
  <2> QED
    BY <2>1, Types DEF Stored
<1>1. UNCHANGED stored
  BY DEF Close, Removal
<1>2. CASE c \in closed
  <2>1. trig' = q /\ UNCHANGED <<closed, reg, timers, missed, lost>>
    BY <1>2 DEF Close
  <2>2. TypeOK'
    BY <1>1, <2>1 DEF TypeOK
  <2>3. Stored' /\ Accepting'
    BY <1>1, <2>1 DEF Stored, Accepting
  <2>4. Open'
    BY <1>1, <2>1 DEF Open, Held
  <2>5. Removals(trig)'
    BY <1>1, <2>1, RemovalsPrime DEF Removals
  <2> QED
    BY <2>2, <2>3, <2>4, <2>5 DEF IInv
<1>3. CASE c \notin closed
  <2>1. closed' = closed \cup {c} /\ reg' = reg \ {c}
    BY <1>3 DEF Close
  <2>2. Held(c)
    BY <1>3 DEF Open
  <2>3. Stored'
    BY <1>1 DEF Stored
  <2>4. Open'
    BY <1>1, <2>1 DEF Open, Held
  <2>5. CASE c \in hascb
    <3>1. /\ Post(q, <<"remove", fd[c]>>, out) /\ UNCHANGED missed
          /\ timers' = IF out = "refused" THEN timers \cup {fd[c]} ELSE timers
          /\ lost' = IF out = "dropped" THEN lost \cup {c} ELSE lost
          /\ out \in {"stored", "refused", "dropped"}
      BY <1>3, <2>5 DEF Close, Removal, Outcome
    <3>2. stored[fd[c]] = c
      BY <2>2, <2>5 DEF Held, Accepting
    <3>3. fd[c] \notin timers /\ ~ Posted(q, fd[c])
      BY <1>0, <1>3, <3>2 DEF Removals
    <3>4. TypeOK'
      <4>1. trig' \in Seq(({"close"} \X (1..count)) \cup ({"remove"} \X Fd))
        BY <1>0, <3>1 DEF Post
      <4>2. timers' \subseteq Fd
        BY <1>0, <3>1 DEF TypeOK
      <4> QED
        BY <1>1, <2>1, <3>1, <4>1, <4>2 DEF TypeOK
    <3>5. Accepting'
      BY <1>1, <2>1, <2>5 DEF Accepting
    <3>6. Once(trig')
      BY <1>0, <3>1, <3>3, PostRemove DEF Post, Removals
    <3>7. \A f \in Fd : Posted(trig', f) <=> Posted(q, f) \/ (out = "stored" /\ f = fd[c])
      BY <1>0, <3>1, PostRemove DEF Post
    <3>8. \A f \in Fd : Posted(trig', f) => f \notin timers'
      BY <3>1, <3>3, <3>7 DEF Removals
    <3>9. \A f \in Fd : f \in timers' \/ Posted(trig', f) => stored[f] \in closed' \cap hascb
      BY <2>1, <2>5, <3>1, <3>2, <3>7 DEF Removals
    <3>10. single => \A f \in Fd : stored[f] \in closed' \ lost' => f \in timers' \/ Posted(trig', f)
      <4>1. \A f \in Fd : stored[f] = c => f = fd[c]
        BY <1>0 DEF Stored
      <4> QED
        BY <2>1, <3>1, <3>7, <4>1 DEF Removals
    <3>11. Removals(trig)'
      BY <1>1, <3>6, <3>8, <3>9, <3>10, RemovalsPrime
    <3> QED
      BY <2>3, <2>4, <3>4, <3>5, <3>11 DEF IInv
  <2>6. CASE c \notin hascb
    <3>1. trig' = q /\ missed' = missed \cup {c} /\ UNCHANGED <<timers, lost>>
      BY <1>3, <2>6 DEF Close
    <3>2. c = acc /\ ~ single
      BY <1>0, <2>6 DEF Accepting, LoopFree, TypeOK
    <3>3. TypeOK'
      BY <1>1, <2>1, <3>1 DEF TypeOK
    <3>4. Accepting'
      BY <1>1, <3>2 DEF Accepting
    <3>5. Removals(trig)'
      <4>1. \A f \in Fd : f \in timers' \/ Posted(trig', f) => stored'[f] \in closed' \cap hascb'
        BY <1>1, <2>1, <3>1 DEF Removals
      <4> QED
        BY <1>1, <3>1, <3>2, <4>1, RemovalsPrime DEF Removals
    <3> QED
      BY <2>3, <2>4, <3>3, <3>4, <3>5 DEF IInv
  <2> QED
    BY <2>5, <2>6
<1> QED
  BY <1>2, <1>3

LEMMA RunCloseIInv ==
  ASSUME IInv, NEW out \in Outcome, RunClose(out) PROVE IInv'
<1> DEFINE E == ({"close"} \X (1..count)) \cup ({"remove"} \X Fd)
<1>0. TypeOK /\ Stored /\ Accepting /\ Open /\ Removals(trig)
  BY DEF IInv
<1>1. trig \in Seq(E) /\ trig \in Seq(Event) /\ trig # <<>> /\ Head(trig)[1] = "close"
  BY <1>0, Types DEF TypeOK, RunClose
<1>2. Tail(trig) \in Seq(E) /\ Head(trig) \in E
  BY <1>1
<1>3. Head(trig)[2] \in 1..count
  BY <1>1, <1>2
<1>4. Removals(Tail(trig))
  <2>1. Once(Tail(trig)) /\ \A f \in Fd : Posted(Tail(trig), f) <=> Posted(trig, f)
    BY <1>0, <1>1, PopClose DEF Removals
  <2> QED
    BY <1>0, <2>1 DEF Removals
<1>5. /\ Close(Head(trig)[2], Tail(trig), out) /\ LoopFree
      /\ UNCHANGED <<accVars, rem, loop, batch, sto, todo>>
  BY DEF RunClose
<1> QED
  BY <1>0, <1>2, <1>3, <1>4, <1>5, CloseIInv

LEMMA DispatchIInv ==
  ASSUME IInv, NEW c \in Conn, NEW close \in BOOLEAN, NEW more \in BOOLEAN, NEW out \in Outcome,
         Dispatch(c, close, more, out)
  PROVE  IInv'
<1>0. TypeOK /\ Stored /\ Accepting /\ Open /\ Removals(trig)
  BY DEF IInv
<1>1. /\ c \in 1..count /\ batch' \subseteq batch /\ LoopFree
      /\ UNCHANGED <<accVars, rem, loop, sto, todo>>
  <2>1. /\ c \in batch \ {Listen} /\ batch' = IF more THEN batch ELSE batch \ {c}
        /\ LoopFree /\ UNCHANGED <<accVars, rem, loop, sto, todo>>
    BY DEF Dispatch
  <2> QED
    BY <1>0, <2>1 DEF TypeOK, Listen
<1>2. CASE close
  <2>1. trig \in Seq(({"close"} \X (1..count)) \cup ({"remove"} \X Fd)) /\ Close(c, trig, out)
    BY <1>0, <1>2 DEF TypeOK, Dispatch
  <2> QED
    BY <1>0, <1>1, <2>1, CloseIInv
<1>3. CASE ~ close
  <2>1. UNCHANGED <<closed, reg, stored, trig, timers, missed, lost>>
    BY <1>3 DEF Dispatch
  <2>2. TypeOK'
    BY <1>0, <1>1, <2>1 DEF TypeOK, accVars
  <2>3. Stored' /\ Accepting'
    BY <1>0, <1>1, <2>1 DEF Stored, Accepting, accVars
  <2>4. Open'
    BY <1>0, <1>1, <2>1 DEF Open, Held, accVars
  <2>5. Removals(trig)'
    BY <1>0, <1>1, <2>1, RemovalsPrime DEF Removals, accVars
  <2> QED
    BY <2>2, <2>3, <2>4, <2>5 DEF IInv
<1> QED
  BY <1>2, <1>3

(* RemoveConnection, by a trigger event or a timer: what is erased is      *)
(* closed, and not the connection being accepted.                          *)
LEMMA EraseIInv ==
  ASSUME IInv, NEW f \in Fd, Erase(f), f \in timers \/ Posted(trig, f),
         loop # "dispatch", trig' \in Seq(({"close"} \X (1..count)) \cup ({"remove"} \X Fd)),
         timers' \subseteq timers, Once(trig'),
         \A g \in Fd : Posted(trig', g) => Posted(trig, g),
         \A g \in Fd : g \in timers' \/ Posted(trig', g)
                         <=> (g \in timers \/ Posted(trig, g)) /\ g # f,
         UNCHANGED <<accVars, closed, reg, loop, batch, stopVars>>
  PROVE  IInv'
<1> USE ConnAssumption, NoneAssumption DEF accVars, stopVars
<1>0. TypeOK /\ Stored /\ Accepting /\ Open /\ Removals(trig)
  BY DEF IInv
<1>1. stored[f] \in closed \cap hascb /\ None \notin closed
  BY <1>0, Types DEF Removals
<1>2. stored'[f] = None /\ \A g \in Fd : g # f => stored'[g] = stored[g]
  BY <1>0 DEF TypeOK, Erase
<1>3. TypeOK'
  <2>1. stored' \in [Fd -> (1..count) \cup {None}]
    BY <1>0 DEF TypeOK, Erase
  <2>2. timers' \subseteq Fd /\ rem' \in Fd
    BY <1>0 DEF TypeOK, Erase
  <2> QED
    BY <1>0, <2>1, <2>2 DEF TypeOK
<1>4. Stored'
  BY <1>0, <1>2 DEF Stored
<1>5. Accepting'
  <2>1. acc # None => fd[acc] \in Fd /\ fd[acc] # f
    BY <1>0, <1>1, Types DEF Accepting, TypeOK, Stored
  <2> QED
    BY <1>0, <1>2, <2>1 DEF Accepting
<1>6. Open'
  <2>1. batch = {}
    BY <1>0 DEF Open
  <2>2. \A c \in reg : Held(c)'
    BY <1>0, <1>1, <1>2 DEF Open, Held, TypeOK, Stored
  <2> QED
    BY <1>0, <2>1, <2>2 DEF Open
<1>7. Removals(trig)'
  <2>1. \A g \in Fd : Posted(trig', g) => g \notin timers'
    BY <1>0 DEF Removals
  <2>2. \A g \in Fd : g \in timers' \/ Posted(trig', g) => stored'[g] \in closed \cap hascb
    BY <1>0, <1>2 DEF Removals
  <2>3. single => \A g \in Fd : stored'[g] \in closed \ lost => g \in timers' \/ Posted(trig', g)
    BY <1>0, <1>1, <1>2 DEF Removals
  <2> QED
    BY <2>1, <2>2, <2>3, RemovalsPrime
<1> QED
  BY <1>3, <1>4, <1>5, <1>6, <1>7 DEF IInv

LEMMA RunRemoveIInv ==
  ASSUME IInv, RunRemove PROVE IInv'
<1> DEFINE E == ({"close"} \X (1..count)) \cup ({"remove"} \X Fd)
<1>0. TypeOK /\ Removals(trig)
  BY DEF IInv
<1>1. trig \in Seq(E) /\ trig \in Seq(Event) /\ trig # <<>> /\ Head(trig)[1] = "remove"
  BY <1>0, Types DEF TypeOK, RunRemove
<1>2. Tail(trig) \in Seq(E) /\ Head(trig) \in E
  BY <1>1
<1>3. PICK f \in Fd : Head(trig) = <<"remove", f>>
  BY <1>1, <1>2
<1>4. /\ Posted(trig, f) /\ Once(Tail(trig))
      /\ \A g \in Fd : Posted(Tail(trig), g) <=> Posted(trig, g) /\ g # f
  BY <1>0, <1>1, <1>3, PopRemove DEF Removals
<1>5. f \notin timers
  BY <1>0, <1>4 DEF Removals
<1>6. /\ Erase(f) /\ trig' = Tail(trig) /\ loop # "dispatch" /\ timers' = timers
      /\ UNCHANGED <<accVars, closed, reg, loop, batch, stopVars>>
  BY <1>3 DEF RunRemove
<1>7. \A g \in Fd : g \in timers' \/ Posted(trig', g)
                      <=> (g \in timers \/ Posted(trig, g)) /\ g # f
  BY <1>4, <1>5, <1>6
<1> QED
  BY <1>2, <1>4, <1>6, <1>7, EraseIInv

LEMMA RunTimerIInv ==
  ASSUME IInv, NEW f \in Fd, RunTimer(f) PROVE IInv'
<1>0. TypeOK /\ Removals(trig)
  BY DEF IInv
<1>1. /\ Erase(f) /\ trig' = trig /\ loop # "dispatch" /\ timers' = timers \ {f}
      /\ UNCHANGED <<accVars, closed, reg, loop, batch, stopVars>> /\ f \in timers
  BY DEF RunTimer
<1>2. ~ Posted(trig, f) /\ Once(trig)
  BY <1>0, <1>1 DEF Removals
<1>3. \A g \in Fd : g \in timers' \/ Posted(trig', g)
                      <=> (g \in timers \/ Posted(trig, g)) /\ g # f
  BY <1>1, <1>2
<1>4. trig' \in Seq(({"close"} \X (1..count)) \cup ({"remove"} \X Fd))
  BY <1>0, <1>1 DEF TypeOK
<1> QED
  BY <1>1, <1>2, <1>3, <1>4, EraseIInv

-----------------------------------------------------------------------------
(* Steps that leave the connections and the pending events alone.          *)
LEMMA QuietIInv ==
  ASSUME IInv,
         UNCHANGED <<single, count, fd, stored, closed, hascb, reg, trig, timers, acc, step, lost>>,
         rem' \in Fd \cup {None}, sto' = "stopped" => \A f \in Fd : stored[f] = None,
         loop' \in {"trigger", "timers", "dispatch"}, listen' \in BOOLEAN,
         batch' \subseteq batch \cup reg \cup {Listen}, loop' # "dispatch" => batch' = {},
         sto' \in {"run", "disconnect", "acceptor", "wait", "stopped"},
         sto' \in {"wait", "stopped"} => acc = None /\ ~ listen',
         todo' \subseteq 1..count, missed' \subseteq 1..count
  PROVE  IInv'
<1> USE ConnAssumption, NoneAssumption
<1>0. TypeOK /\ Stored /\ Accepting /\ Open /\ Removals(trig)
  BY DEF IInv
<1>1. TypeOK'
  <2>1. batch' \subseteq 0..count
    BY <1>0 DEF TypeOK, Listen
  <2> QED
    BY <1>0, <2>1 DEF TypeOK
<1>2. Stored' /\ Accepting'
  BY <1>0 DEF Stored, Accepting
<1>3. Open'
  BY <1>0 DEF Open, Held
<1>4. Removals(trig)'
  BY <1>0, RemovalsPrime DEF Removals
<1> QED
  BY <1>1, <1>2, <1>3, <1>4 DEF IInv

(* Disconnect posts at most a Close. *)
LEMMA DisconnectIInv ==
  ASSUME IInv, NEW c \in Conn, NEW out \in Outcome, Disconnect(c, out) PROVE IInv'
<1> USE DEF Disconnect, accVars
<1>0. TypeOK /\ Stored /\ Accepting /\ Open /\ Removals(trig)
  BY DEF IInv
<1>1. c \in 1..count /\ trig \in Seq(Event)
  BY <1>0, Types DEF TypeOK
<1>2. TypeOK'
  <2>1. trig' \in Seq(({"close"} \X (1..count)) \cup ({"remove"} \X Fd))
    BY <1>0, <1>1 DEF TypeOK, Post
  <2> QED
    BY <1>0, <1>1, <2>1 DEF TypeOK
<1>3. Stored' /\ Accepting'
  BY <1>0 DEF Stored, Accepting
<1>4. Open'
  BY <1>0 DEF Open, Held
<1>5. Once(trig') /\ \A f \in Fd : Posted(trig', f) <=> Posted(trig, f)
  BY <1>0, <1>1, PostClose DEF Post, Removals
<1>6. Removals(trig)'
  BY <1>0, <1>5, RemovalsPrime DEF Removals
<1> QED
  BY <1>2, <1>3, <1>4, <1>6 DEF IInv

(* Every step keeps the invariant. *)
LEMMA NextIInv ==
  ASSUME IInv, [Next]_vars PROVE IInv'
<1>0. TypeOK /\ Accepting /\ Open
  BY DEF IInv
<1>1. CASE \E f \in Fd : AcceptConnection(f)
  BY <1>1, AcceptIInv
<1>2. CASE Acceptor
  BY <1>2, AddIInv, CallbackIInv DEF Acceptor
<1>3. CASE Scheduler
  <2>1. CASE \E out \in Outcome : RunClose(out)
    BY <2>1, RunCloseIInv
  <2>2. CASE RunRemove
    BY <2>2, RunRemoveIInv
  <2>9. CASE RemoveReturns
    BY <1>0, <2>9, QuietIInv DEF RemoveReturns, accVars, stopVars, TypeOK, Accepting, Open
  <2>3. CASE TriggersDone
    BY <1>0, <2>3, QuietIInv DEF TriggersDone, accVars, stopVars, TypeOK, Accepting, Open
  <2>4. CASE \E f \in Fd : RunTimer(f)
    BY <2>4, RunTimerIInv
  <2>5. CASE \E c \in Conn, close, more \in BOOLEAN, out \in Outcome : Dispatch(c, close, more, out)
    BY <2>5, DispatchIInv
  <2>6. CASE AcceptNothing
    BY <1>0, <2>6, QuietIInv DEF AcceptNothing, accVars, stopVars, TypeOK, Accepting, Open
  <2>7. CASE DispatchDone
    BY <1>0, <2>7, QuietIInv DEF DispatchDone, accVars, stopVars, TypeOK, Accepting, Open
  <2>8. CASE \E b \in SUBSET (Conn \cup {Listen}) : EpollWait(b)
    <3>1. PICK b \in SUBSET (Conn \cup {Listen}) : EpollWait(b)
      BY <2>8
    <3> QED
      BY <1>0, <3>1, QuietIInv DEF EpollWait, accVars, stopVars, TypeOK, Accepting, Open
  <2> QED
    BY <1>3, <2>1, <2>2, <2>3, <2>4, <2>5, <2>6, <2>7, <2>8, <2>9 DEF Scheduler
<1>4. CASE StopBegin
  <2>1. {stored[f] : f \in Fd} \ {None} \subseteq 1..count
    BY <1>0 DEF TypeOK
  <2> QED
    BY <1>0, <1>4, <2>1, QuietIInv DEF StopBegin, accVars, TypeOK, Accepting, Open
<1>5. CASE Stop
  <2>1. CASE \E c \in Conn, out \in Outcome : Disconnect(c, out)
    BY <2>1, DisconnectIInv
  <2>2. CASE StopUnlock
    BY <1>0, <2>2, QuietIInv DEF StopUnlock, accVars, TypeOK, Accepting, Open
  <2>3. CASE CloseAcceptor
    BY <1>0, <2>3, QuietIInv DEF CloseAcceptor, TypeOK, Accepting, Open
  <2>4. CASE StopReturns
    BY <1>0, <2>4, QuietIInv DEF StopReturns, Drained, accVars, TypeOK, Accepting, Open
  <2> QED
    BY <1>5, <2>1, <2>2, <2>3, <2>4 DEF Stop
<1>6. CASE Start
  BY <1>0, <1>6, QuietIInv DEF Start, TypeOK, Accepting, Open
<1>7. CASE UNCHANGED vars
  BY <1>0, <1>7, QuietIInv DEF vars, TypeOK, Accepting, Open
<1> QED
  BY <1>1, <1>2, <1>3, <1>4, <1>5, <1>6, <1>7 DEF Next

-----------------------------------------------------------------------------
(* Theorems *)

LEMMA Invariance == Spec => []IInv
<1>1. IInv /\ [Next]_vars => IInv'
  BY NextIInv
<1> QED
  BY <1>1, InitIInv, PTL DEF Spec

(* TcpServer's maps and queues hold only connections that were accepted    *)
(* and descriptors.                                                        *)
THEOREM TypeCorrect == Spec => []TypeOK
<1>1. IInv => TypeOK
  BY DEF IInv
<1> QED
  BY <1>1, Invariance, PTL

(* The raw Channel pointers epoll holds or has returned belong to          *)
(* connections that are not destroyed.                                     *)
THEOREM ChannelsLive == Spec => []NoDanglingChannel
<1>1. IInv => NoDanglingChannel
  BY DEF IInv, Open, Held, Stored, TypeOK, NoDanglingChannel, Alive, Listen
<1> QED
  BY <1>1, Invariance, PTL

(* AddConnection always finds its descriptor free, although removal names  *)
(* descriptors and the system hands them out again.                        *)
THEOREM DescriptorIsFree == Spec => []DescriptorFree
<1>1. IInv => DescriptorFree
  BY DEF IInv, Accepting, DescriptorFree
<1> QED
  BY <1>1, Invariance, PTL

(* A pending RemoveConnection hits a closed connection, although           *)
(* descriptors are reused.                                                 *)
THEOREM RemovalsMatch == Spec => []RemovesOnlyClosed
<1>1. IInv => RemovesOnlyClosed
  BY DEF IInv, Removals, RemovesOnlyClosed
<1> QED
  BY <1>1, Invariance, PTL

(* With one thread every closed connection has its removal pending, or it  *)
(* was dropped by a call that returned true.                               *)
THEOREM RemovalsComplete == Spec => []ClosedIsRemoved
<1>1. IInv => ClosedIsRemoved
  BY DEF IInv, Removals, ClosedIsRemoved
<1> QED
  BY <1>1, Invariance, PTL

(* From the return of Stop to the next Start every connection is closed,   *)
(* and no channel, timer or event is left that would call the server.      *)
THEOREM StopIsClean == Spec => []StopLeavesNothing
<1>1. ASSUME IInv, sto = "stopped"
      PROVE  /\ closed = 1..count /\ reg = {} /\ timers = {}
             /\ \A f \in Fd : ~ Posted(trig, f)
  <2>1. TypeOK /\ acc = None /\ \A f \in Fd : stored[f] = None
    BY <1>1 DEF IInv, Accepting
  <2>2. reg = {}
    BY <1>1, <2>1, Types DEF IInv, Open, Held, Stored, TypeOK
  <2>3. closed = 1..count
    BY <1>1, <2>1, <2>2 DEF IInv, Open, TypeOK
  <2>4. \A f \in Fd : f \notin timers /\ ~ Posted(trig, f)
    BY <1>1, <2>1, Types DEF IInv, Removals
  <2> QED
    BY <2>1, <2>2, <2>3, <2>4 DEF TypeOK
<1>2. IInv => StopLeavesNothing
  BY <1>1 DEF StopLeavesNothing
<1> QED
  BY <1>2, Invariance, PTL
=============================================================================
