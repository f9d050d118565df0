--------------------------- MODULE FirmwareClient ---------------------------
(***************************************************************************)
(* The authentication client of the CH32V307 board: tcpclient (tcp_part.c) *)
(* with register_proc, auth_pre, Sharedkey_Gen and Sharedkey_Gen2          *)
(* (protocol.c), over the arithmetic of ChebyShev.  One recv is taken for  *)
(* one message; what is missing keeps the value it had.  The centre that   *)
(* speaks this protocol is not in the repository: it is modelled from what *)
(* the device expects.  A hash is the tuple it is taken of.                *)
(***************************************************************************)
EXTENDS ChebyShev, Sequences

CONSTANTS BitXor(_, _), \* exclusive or of two numbers
          Half,    \* limbs that PID_half and A_half keep (2)
          Key,     \* the centre's N, N1, d, e and pk
          UserHash,\* hash of the device's id, password and biometrics
          Password,
          Salts,   \* values of L
          Randoms, \* session numbers of both sides
          Args, Moduli \* arguments and moduli of the single calls

ASSUME XorAssumption ==
    \A a, b \in 0..(Range - 1) : BitXor(a, b) \in 0..(Range - 1) /\ BitXor(BitXor(a, b), b) = a

ASSUME HalfAssumption == Half \in Nat \ {0} /\ 2 * Half <= Limbs

ASSUME CallAssumption == Args \subseteq 0..(Range - 1) /\ Moduli \subseteq 2..(Range - 1)

(* The device compares its QID, cut to Half limbs, with what the centre    *)
(* sent, so that N1 fits in them; the password is one limb.                *)
ASSUME KeyAssumption ==
    /\ Key.N \in 2..(Range \div 2 - 1) /\ Key.N1 \in 2..Pow2[Half * Width]
    /\ Key.pk \in 0..(Key.N - 1) /\ Key.d \in 0..(Range - 1) /\ Key.e \in Nat

ASSUME SessionAssumption ==
    /\ UserHash \in 0..(Range - 1) /\ Password \in 0..(Pow2[Half * Width] - 1)
    /\ Salts \subseteq 0..(Range - 1) /\ Randoms \subseteq 0..(Range - 1)

VARIABLES
    carry4,  \* static carry4 of ChebyShev.c
    small,   \* no modulus so far reached half of the range
    call,    \* the last single call and its result
    task,    \* "call": single calls; "client": tcpclient
    pc,      \* tcpclient: "recv", "spin" (after 103) or "closed"
    par,     \* client: what 101 brings
    authp,   \* auth_param
    m102,    \* QID1, M1, HM2
    m103,    \* TC1, QID3, HM5
    own,     \* client: QID, TA, a1, b, TB
    out,     \* send_data
    printed, \* which checks reported success
    ks,      \* KS
    toDev, toCen, \* messages on their way
    cen,     \* the centre: A, PID, QID, TA and a of the session, its key
    whole    \* every recv returned a whole message

callVars == <<carry4, small, call>>
devVars  == <<pc, par, authp, m102, m103, own, out, printed, ks, whole>>
vars     == <<callVars, task, devVars, toDev, toCen, cen>>

Msg(code, f) == [code |-> code, f |-> f]

NoPar == [A |-> 0, d |-> 0, N |-> 0, pk |-> 0, L |-> 0, N1 |-> 0]
NoKey == <<>>

(* The static variables are zero; 201 with the factors has been sent.      *)
Init ==
    /\ carry4 = 0 /\ small = TRUE /\ call = <<>> /\ task \in {"call", "client"}
    /\ pc = "recv" /\ par = NoPar /\ authp = <<0, 0, 0>> /\ m102 = <<0, 0, <<>>>>
    /\ m103 = <<0, 0, <<>>>> /\ own = [QID |-> 0, TA |-> 0, a1 |-> 0, b |-> 0, TB |-> 0]
    /\ out = Msg(201, <<>>) /\ printed = {} /\ ks = NoKey /\ whole = TRUE
    /\ toDev = <<>> /\ toCen = <<out>>
    /\ cen = [A |-> 0, PID |-> 0, QID |-> 0, TA |-> 0, a |-> 0, key |-> NoKey]

HalfOf(a) == a % Pow2[Half * Width]

(* The recurrence of the Chebyshev polynomials mod p.                      *)
Cheb(n, x, p) ==
    LET T[i \in Nat] == \* T_i(x) and T_(i+1)(x)
            IF i = 0 THEN <<1 % p, x % p>>
            ELSE LET t == T[i - 1] IN <<t[2], (2 * x * t[2] + (p - 1) * t[1]) % p>>
    IN  T[n][1]

-----------------------------------------------------------------------------
(* Single calls of the arithmetic, one after the other.                    *)

Used(p) == small /\ p < Range \div 2

CallTn(n, x, p) ==
    LET r == chebyshev_Tn(n, x, p, carry4) IN
    /\ call' = <<"Tn", n, x, p, r.tn>>
    /\ carry4' = r.carry4 /\ small' = Used(p)

CallMod(a, b, m) ==
    /\ \/ call' = <<"mulmod", a, b, m, uint256_mulmod(a, b, m)>>
       \/ a < m /\ b < m /\ call' = <<"addmod", a, b, m, uint256_addmod(a, b, m)>>
    /\ UNCHANGED <<carry4, small>>

Return == call # <<>> /\ call' = <<>> /\ UNCHANGED <<carry4, small>>

(* The x of a call of chebyshev_Tn fits in Half limbs, as in the protocol. *)
Call ==
    /\ task = "call"
    /\ \/ /\ call = <<>>
          /\ \E n \in Args, x \in Args, p \in Moduli :
                \/ x < Pow2[Half * Width] /\ CallTn(n, x, p)
                \/ CallMod(n, x, p)
       \/ Return
    /\ UNCHANGED <<task, devVars, toDev, toCen, cen>>

-----------------------------------------------------------------------------
(* The device *)

(* A field that did not arrive, or not whole, keeps its value.             *)
Field(f, i, old) == IF i <= Len(f) THEN f[i] ELSE old

(* save_parameter and register_proc; x is not used.                        *)
Registered(f) ==
    [A  |-> Field(f, 1, par.A),  d  |-> Field(f, 2, par.d), N  |-> Field(f, 3, par.N),
     pk |-> Field(f, 4, par.pk), L  |-> Field(f, 5, par.L), N1 |-> Field(f, 6, par.N1)]

PidHash(L) == (UserHash + L) % Range

Transmit(m) == out' = m /\ toCen' = Append(toCen, m)

(* 101: auth_pre returns early when the self-authentication fails, and 202 *)
(* is sent all the same.                                                   *)
On101(f) ==
    LET q   == Registered(f)
        QID == chebyshev_Tn(q.d, HalfOf(PidHash(q.L)), q.N1, carry4)
        QPW == chebyshev_Tn(q.d, Password, q.N1, QID.carry4)
        QA  == chebyshev_Tn(q.d, HalfOf(q.A), q.N1, QPW.carry4)
    IN  /\ par' = q
        /\ IF BitXor(UserHash, q.L) = q.A
           THEN /\ authp' = <<QA.tn, QPW.tn, QID.tn>>
                /\ own' = [own EXCEPT !.QID = QID.tn]
                /\ carry4' = QA.carry4
                /\ printed' = printed \cup {"self"}
           ELSE UNCHANGED <<authp, own, carry4, printed>>
        /\ Transmit(Msg(202, authp'))
        /\ UNCHANGED <<pc, m102, m103, ks, small>>

Checks(set, ok, name) == IF ok THEN set \cup {name} ELSE set

(* 102: Sharedkey_Gen.  The checks only print.                             *)
On102(f, b) ==
    LET m   == [i \in 1..3 |-> Field(f, i, m102[i])]
        TA  == chebyshev_Tn(HalfOf(par.A), par.pk, par.N, carry4)
        a1  == BitXor(m[2], TA.tn)
        c   == big_add(a1, b).res
        TC  == chebyshev_Tn(c, par.pk, par.N, TA.carry4)
        TA1 == chebyshev_Tn(a1, par.pk, par.N, TC.carry4)
        TB  == chebyshev_Tn(b, par.pk, par.N, TA1.carry4)
        QID2 == BitXor(m[1], TA.tn)
    IN  /\ m102' = m
        /\ own' = [own EXCEPT !.TA = TA.tn, !.a1 = a1, !.b = b, !.TB = TB.tn]
        /\ carry4' = TB.carry4
        /\ printed' = Checks(Checks(printed, m[3] = <<m[1], m[2]>>, "HM2"), QID2 = HalfOf(own.QID), "ID")
        /\ LET N2 == BitXor(b, TA.tn) IN Transmit(Msg(203, <<N2, QID2, TC.tn, <<N2, TC.tn, QID2>>>>))
        /\ UNCHANGED <<pc, par, authp, m103, ks, small>>

(* TA^2 + TB^2 + TC^2 = 2 TA TB TC + 1 (mod N), as the device computes it. *)
Identity(ta, tb, tc, N) ==
    LET sq(v) == uint256_mulmod(v, v, N)
        left  == uint256_addmod(uint256_addmod(sq(ta), sq(tb), N), sq(tc), N)
        tab   == uint256_mulmod(ta, tb, N)
        right == uint256_addmod(uint256_mulmod(uint256_mulmod(tab, tc, N), 2, N), 1, N)
    IN  left = right

(* Faulty variant: the key is made of T_a1 instead of TA.                  *)
BadDeviceKey(TA1) == <<own.a1, own.b, TA1>>

DeviceKey(TA1) == <<own.a1, own.b, own.TA>>

(* 103: Sharedkey_Gen2, then an endless loop.                              *)
On103(f) ==
    LET m   == [i \in 1..3 |-> Field(f, i, m103[i])]
        TA1 == chebyshev_Tn(own.a1, par.pk, par.N, carry4)
    IN  /\ m103' = m
        /\ carry4' = TA1.carry4
        /\ printed' = Checks(Checks(printed, m[3] = <<m[1], m[2]>>, "HM5"),
                             Identity(TA1.tn, own.TB, m[1], par.N), "a")
        /\ ks' = DeviceKey(TA1.tn)
        /\ pc' = "spin"
        /\ UNCHANGED <<par, authp, m102, own, out, small, toCen>>

(* Anything else: what is in send_data is sent once more.                  *)
OnOther ==
    /\ Transmit(out)
    /\ UNCHANGED <<pc, par, authp, m102, m103, own, printed, ks, carry4, small>>

(* recv returns the first k fields of a message, or all of it; what is     *)
(* left comes with the next recv and starts with no known code.            *)
Receive ==
    /\ task = "client" /\ pc = "recv" /\ toDev # <<>>
    /\ \E m \in {Head(toDev)} : \E k \in 0..Len(m.f) :
       LET f == SubSeq(m.f, 1, k) IN
       /\ toDev' = IF k = Len(m.f) THEN Tail(toDev)
                   ELSE <<Msg(0, SubSeq(m.f, k + 1, Len(m.f)))>> \o Tail(toDev)
       /\ whole' = (whole /\ k = Len(m.f))
       /\ \/ m.code = 101 /\ On101(f)
          \/ m.code = 102 /\ \E b \in Randoms : On102(f, b)
          \/ m.code = 103 /\ On103(f)
          \/ m.code \notin {101, 102, 103} /\ k = Len(m.f) /\ OnOther
    /\ UNCHANGED <<call, task, cen>>

(* recv or send fails.                                                     *)
Disconnected ==
    /\ task = "client" /\ pc = "recv" /\ pc' = "closed"
    /\ UNCHANGED <<callVars, task, par, authp, m102, m103, own, out, printed, ks, whole,
                   toDev, toCen, cen>>

-----------------------------------------------------------------------------
(* The centre (external) *)

Reply(m) == toDev' = Append(toDev, m)

Refuse == Reply(Msg(400, <<>>)) /\ UNCHANGED cen

Centre201 ==
    \E L \in Salts :
       LET A == BitXor(UserHash, L) IN
       /\ cen' = [cen EXCEPT !.A = A, !.PID = PidHash(L)]
       /\ Reply(Msg(101, <<A, Key.d, Key.N, Key.pk, L, Key.N1>>))

Centre202(f) ==
    IF /\ Cheb(Key.e, f[1], Key.N1) = HalfOf(cen.A)
       /\ Cheb(Key.e, f[3], Key.N1) = HalfOf(cen.PID)
    THEN \E a \in Randoms :
            LET TA == Cheb(HalfOf(cen.A), Key.pk, Key.N)
                QID1 == BitXor(f[3], TA)
            IN  /\ cen' = [cen EXCEPT !.QID = f[3], !.TA = TA, !.a = a]
                /\ Reply(Msg(102, <<QID1, BitXor(a, TA), <<QID1, BitXor(a, TA)>>>>))
    ELSE Refuse

Centre203(f) ==
    LET b == BitXor(f[1], cen.TA)
        T(n) == Cheb(n, Key.pk, Key.N)
    IN  IF /\ f[4] = <<f[1], f[3], f[2]>> /\ f[2] = cen.QID
           /\ (T(cen.a) * T(cen.a) + T(b) * T(b) + f[3] * f[3] - 2 * T(cen.a) * T(b) * f[3] - 1) % Key.N = 0
        THEN LET TC == T(cen.a + b)
                 QID3 == BitXor(f[2], cen.TA)
             IN  /\ cen' = [cen EXCEPT !.key = <<cen.a, b, cen.TA>>]
                 /\ Reply(Msg(103, <<TC, QID3, <<TC, QID3>>>>))
        ELSE Refuse

MaxBack == 2 \* bound: messages waiting for the device

Centre ==
    /\ task = "client" /\ toCen # <<>> /\ Len(toDev) < MaxBack
    /\ toCen' = Tail(toCen)
    /\ LET m == Head(toCen) IN
       \/ m.code = 201 /\ Centre201
       \/ m.code = 202 /\ Centre202(m.f)
       \/ m.code = 203 /\ Centre203(m.f)
    /\ UNCHANGED <<callVars, task, devVars>>

-----------------------------------------------------------------------------
Next == Call \/ Receive \/ Disconnected \/ Centre

Spec == Init /\ [][Next]_vars

-----------------------------------------------------------------------------
(* chebyshev_Tn is T_n(x) mod p, whatever carry4 the calls before it left, *)
(* as long as no modulus has reached half of the range.  (T_1 alone is not *)
(* reduced.)                                                               *)
ChebyshevExact ==
    call # <<>> /\ call[1] = "Tn" /\ small =>
       /\ call[5] % call[4] = Cheb(call[2], call[3], call[4])
       /\ call[2] # 1 => call[5] < call[4]

(* uint256_mulmod and uint256_addmod are exact unless the value they are   *)
(* reducing is at some point exactly the modulus: they compare with ">".   *)
ModExact ==
    LET a == call[2] b == call[3] m == call[4]
        hits == IF call[1] = "mulmod"
                THEN \E i \in 0..(2 * Bits) : LET v == (a * b) \div Pow2[i] IN v # 0 /\ v % m = 0
                ELSE a + b = m
    IN  call # <<>> /\ call[1] # "Tn" /\ m < Range \div 2 /\ ~hits =>
           call[5] = (IF call[1] = "mulmod" THEN a * b ELSE a + b) % m

(* If recv returns whole messages, the device that reaches the end holds   *)
(* the centre's key and its checks of integrity and identity have passed.  *)
(* (With split messages it may go on with values of an earlier message.)   *)
DeviceKeyAgrees ==
    whole /\ pc = "spin" => ks = cen.key /\ {"self", "HM2", "HM5", "ID"} \subseteq printed
=============================================================================
