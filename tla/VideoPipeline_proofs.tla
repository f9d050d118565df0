------------------------- MODULE VideoPipeline_proofs -------------------------
(***************************************************************************)
(* Proofs about VideoPipeline, for every prefix, IV length, payload size   *)
(* and choice of NAL units, and any number of packets.                     *)
(***************************************************************************)
EXTENDS VideoPipeline, TLAPS

(* A packet as the server sends it: a start fragment is a full one, so it  *)
(* uses up the whole prefix.                                               *)
Sent(p) ==
    /\ IsPacket(p)
    /\ \A j \in Bytes(p.h) : p.ks[j] = {}
    /\ p.h.kind = "fu" => (p.h.start <=> p.h.frag = 0) /\ 3 < p.h.len
    /\ p.h.kind = "fu" /\ p.h.start => p.h.len = MaxPayload

(* The IV of an unextended single NAL unit whose prefix is in the clear.   *)
ClearIV == [k \in 0..(IvLen - 1) |-> <<2 + k, {}>>]

(* The exact masks of such a unit between the boards.                      *)
SingleMask(p) ==
    p.h.kind = "single" /\ p.h.type = "I" /\ p.h.ext = 0 =>
        \A j \in Bytes(p.h) :
            p.ks[j] = IF j >= 2 + Prefix THEN {<<ClearIV, j - (2 + Prefix)>>} ELSE {}

Selective(p) ==
    \A j \in DOMAIN p.ks :
        p.ks[j] # {} <=> /\ p.h.type = "I"
                         /\ j >= p.h.ext + (IF p.h.kind = "fu" THEN 3 ELSE 2)
                         /\ NalPos(p, j) >= 2 + Prefix

Restored(p) ==
    p.h.kind = "single" /\ p.h.type = "I" /\ p.h.ext = 0 =>
        \A j \in DOMAIN p.ks : p.ks[j] = {}

(* Between two packets nothing is left to skip. *)
IInv ==
    /\ nals \in 0..MaxNals /\ handled \in 0..MaxHandled /\ skip = 0
    /\ \A p \in rtp : Sent(p)
    /\ \A p \in fwd : IsPacket(p) /\ SingleMask(p) /\ Selective(p)
    /\ \A p \in out : IsPacket(p) /\ Restored(p)

-----------------------------------------------------------------------------
(* HandleFrame produces packets of the right size. *)
LEMMA PacketsSent ==
  ASSUME NEW n \in Nat, NEW size \in NalSize, NEW type \in {"I", "other"},
         NEW ext \in Extension, NEW p \in Packets(n, size, type, ext)
  PROVE  Sent(p)
<1> USE PrefixAssumption, PayloadAssumption, SizeAssumption
<1>1. size \in Nat /\ size >= 2 /\ ext \in Nat /\ MaxPayload >= 4
      /\ Chunk \in Nat /\ Chunk >= 1 /\ Chunk = MaxPayload - 3
  BY DEF Chunk
<1>2. ASSUME NEW f \in Nat, NEW kind \in {"single", "fu"}, NEW start \in BOOLEAN,
             NEW len \in 2..MaxPayload,
             p = Packet(n, f, kind, type, start, ext, len)
      PROVE  /\ p.h \in Header /\ p.h.kind = kind /\ p.h.start = start
             /\ p.h.frag = f /\ p.h.len = len
             /\ DOMAIN p.ks = Bytes(p.h) /\ \A j \in Bytes(p.h) : p.ks[j] = {}
  BY <1>1, <1>2 DEF Packet, Header
<1>3. CASE size <= MaxPayload
  <2>1. p = Packet(n, 0, "single", type, FALSE, ext, size)
    BY <1>3 DEF Packets
  <2>2. size \in 2..MaxPayload
    BY <1>1, <1>3
  <2> QED
    BY <1>2, <2>1, <2>2 DEF Sent, IsPacket
<1>4. CASE size > MaxPayload
  <2> DEFINE last == (size - 3) \div Chunk
             len(f) == 3 + (IF f = last THEN size - 2 - f * Chunk ELSE Chunk)
  <2>1. PICK f \in 0..last : p = Packet(n, f, "fu", type, f = 0, ext, len(f))
    <3>1. ~ (size <= MaxPayload)
      BY <1>1, <1>4
    <3>2. p \in Fragments(n, size, type, ext)
      BY <3>1 DEF Packets
    <3> QED
      BY <3>2 DEF Fragments
  <2>2. /\ last \in Nat /\ last >= 1
        /\ last * Chunk <= size - 3 /\ size - 3 < last * Chunk + Chunk
    BY <1>1, <1>4
  <2>3. f \in Nat /\ (f = 0 => f # last)
    BY <2>2
  <2>4. len(f) \in 4..MaxPayload /\ (f # last => len(f) = MaxPayload)
    <3>1. CASE f = last
      BY <1>1, <2>2, <3>1
    <3>2. CASE f # last
      BY <1>1, <3>2
    <3> QED
      BY <3>1, <3>2
  <2>5. len(f) \in 2..MaxPayload /\ 3 < len(f) /\ (f = 0) \in BOOLEAN
        /\ (f = 0 => len(f) = MaxPayload)
    BY <1>1, <2>3, <2>4
  <2> HIDE DEF len, last
  <2>6. /\ p.h \in Header /\ p.h.kind = "fu" /\ p.h.start = (f = 0)
        /\ p.h.frag = f /\ p.h.len = len(f)
        /\ DOMAIN p.ks = Bytes(p.h) /\ \A j \in Bytes(p.h) : p.ks[j] = {}
    BY <1>2, <2>1, <2>3, <2>5
  <2> QED
    BY <2>5, <2>6 DEF Sent, IsPacket
<1> QED
  BY <1>1, <1>3, <1>4

(* The IV lies inside the clear prefix. *)
LEMMA IvInPrefix == \A k \in 0..(IvLen - 1) : k \in Nat /\ k < Prefix
BY PrefixAssumption

(* The encrypting board masks the right bytes and has nothing left to      *)
(* skip.                                                                   *)
LEMMA EncryptSelective ==
  ASSUME NEW p, Sent(p), NEW tail
  PROVE  /\ SkipAfter(p.h, 0) = 0
         /\ IsPacket(Encrypt(p, 0, tail))
         /\ SingleMask(Encrypt(p, 0, tail))
         /\ Selective(Encrypt(p, 0, tail))
<1> USE PrefixAssumption, PayloadAssumption
<1> DEFINE h == p.h
           e == Encrypt(p, 0, tail)
<1>1. /\ h \in Header /\ DOMAIN p.ks = Bytes(h)
      /\ \A j \in DOMAIN p.ks : p.ks[j] = {}
      /\ h.kind = "fu" => (h.start <=> h.frag = 0) /\ 3 < h.len
      /\ h.kind = "fu" /\ h.start => h.len = MaxPayload
  BY DEF Sent, IsPacket
<1>2. /\ h.frag \in Nat /\ h.ext \in Nat /\ h.len \in 2..MaxPayload
      /\ h.kind \in {"single", "fu"} /\ h.start \in BOOLEAN
      /\ h.type \in {"I", "other"}
  BY <1>1 DEF Header
<1>3. e.h = h /\ e = [h |-> h, ks |-> e.ks]
  BY DEF Encrypt
<1>4. CASE h.kind = "single"
  <2>1. SkipAfter(h, 0) = 0
    BY <1>4 DEF SkipAfter
  <2>2. CASE h.type # "I" \/ h.len <= 2 + Prefix
    <3>1. e.ks = p.ks
      BY <1>4, <2>2 DEF Encrypt, EncryptSingle
    <3>2. IsPacket(e)
      BY <1>1, <1>3, <3>1 DEF IsPacket
    <3>3. \A j \in Bytes(h) : e.ks[j] = {} /\ j \in Nat /\ j < h.ext + h.len
      <4>1. \A j \in Bytes(h) : e.ks[j] = {}
        BY <1>1, <3>1
      <4>2. \A j \in Bytes(h) : j \in Nat /\ j < h.ext + h.len
        BY <1>2 DEF Bytes
      <4> QED
        BY <4>1, <4>2
    <3>4. SingleMask(e)
      <4>1. h.type = "I" /\ h.ext = 0 => \A j \in Bytes(h) : ~ (j >= 2 + Prefix)
        BY <1>2, <2>2, <3>3
      <4>2. h.type = "I" /\ h.ext = 0 =>
              \A j \in Bytes(h) :
                e.ks[j] = IF j >= 2 + Prefix THEN {<<ClearIV, j - (2 + Prefix)>>} ELSE {}
        BY <3>3, <4>1
      <4> QED
        BY <1>3, <4>2 DEF SingleMask
    <3>5. \A j \in Bytes(h) : NalPos(e, j) = j - h.ext
      BY <1>3, <1>4 DEF NalPos
    <3>6. Selective(e)
      BY <1>1, <1>2, <1>3, <2>2, <3>1, <3>3, <3>5 DEF Selective
    <3> QED
      BY <2>1, <3>2, <3>4, <3>6
  <2>3. CASE h.type = "I" /\ h.len > 2 + Prefix
    <3> DEFINE from == h.ext + 2 + Prefix
               iv == IV(p.ks, h.ext + 2, 0)
    <3>1. e.ks = Xor(p.ks, from, iv)
      BY <1>2, <1>4, <2>3 DEF Encrypt, EncryptSingle
    <3>2. /\ DOMAIN e.ks = Bytes(h)
          /\ \A j \in Bytes(h) : e.ks[j] = IF j >= from THEN {<<iv, j - from>>} ELSE {}
      BY <1>1, <3>1 DEF Xor, Toggle
    <3>3. ASSUME h.ext = 0 PROVE iv = ClearIV
      <4>1. ASSUME NEW k \in 0..(IvLen - 1) PROVE h.ext + 2 + k \in DOMAIN p.ks
        <5>1. k \in Nat /\ k < Prefix
          BY IvInPrefix
        <5>2. h.ext + 2 + k \in 0..(h.ext + h.len - 1)
          BY <1>2, <2>3, <5>1
        <5>3. DOMAIN p.ks = 0..(h.ext + h.len - 1)
          BY <1>1 DEF Bytes
        <5> QED
          BY <5>2, <5>3
      <4> QED
        BY <1>1, <1>2, <3>3, <4>1 DEF IV, ClearIV
    <3>4. SingleMask(e)
      BY <1>2, <1>3, <3>2, <3>3 DEF SingleMask
    <3>5. Selective(e)
      <4>1. \A j \in Bytes(h) : e.ks[j] # {} <=> j >= from
        BY <3>2
      <4>2. \A j \in Bytes(h) : NalPos(e, j) = j - h.ext /\ j \in Nat
        BY <1>2, <1>3, <1>4 DEF NalPos, Bytes
      <4> QED
        BY <1>2, <1>3, <1>4, <2>3, <3>2, <4>1, <4>2 DEF Selective
    <3> QED
      BY <1>1, <1>3, <2>1, <3>2, <3>4, <3>5 DEF IsPacket
  <2> QED
    BY <1>2, <2>2, <2>3
<1>5. CASE h.kind = "fu"
  <2>0. 3 < h.len /\ Chunk \in Nat /\ Chunk >= Prefix /\ Chunk = MaxPayload - 3
    BY <1>1, <1>5 DEF Chunk
  <2>1. Skipped(h, 0) = IF h.start THEN Prefix ELSE 0
    BY <1>1, <1>2, <1>5, <2>0 DEF Skipped, Budget, Least
  <2>2. SkipAfter(h, 0) = 0
    BY <1>2, <2>1 DEF SkipAfter, Budget
  <2>3. SingleMask(e)
    BY <1>3, <1>5 DEF SingleMask
  <2>4. CASE h.type # "I"
    <3>1. e.ks = p.ks
      BY <1>5, <2>4 DEF Encrypt, EncryptFu
    <3> QED
      BY <1>1, <1>3, <2>2, <2>3, <2>4, <3>1 DEF IsPacket, Selective
  <2>5. CASE h.type = "I"
    <3> DEFINE from == h.ext + 3 + Skipped(h, 0)
    <3>1. \A j \in Bytes(h) :
            NalPos(e, j) = h.frag * Chunk + (j - h.ext) - 1 /\ j \in Nat /\ j < h.ext + h.len
      BY <1>2, <1>3, <1>5 DEF NalPos, Bytes
    <3>2. h.frag * Chunk \in Nat /\ (h.frag >= 1 => h.frag * Chunk >= Chunk)
      BY <1>2, <2>0
    <3>3. \A j \in Bytes(h) :
            (j >= h.ext + 3 /\ NalPos(e, j) >= 2 + Prefix) <=> j >= from
      <4>1. CASE h.start
        <5>1. h.frag * Chunk = 0
          BY <1>1, <1>2, <1>5, <2>0, <4>1
        <5> QED
          BY <1>2, <2>1, <3>1, <4>1, <5>1
      <4>2. CASE ~ h.start
        <5>1. h.frag * Chunk >= Prefix
          BY <1>1, <1>2, <1>5, <2>0, <3>2, <4>2
        <5> QED
          BY <1>2, <2>1, <3>1, <3>2, <4>2, <5>1
      <4> QED
        BY <1>2, <4>1, <4>2
    <3>4. CASE h.len - 3 <= Skipped(h, 0)
      <4>1. e.ks = p.ks
        BY <1>5, <3>4 DEF Encrypt, EncryptFu
      <4>2. \A j \in Bytes(h) : ~ (j >= from)
        BY <1>2, <2>1, <3>1, <3>4
      <4> QED
        BY <1>1, <1>3, <1>5, <2>2, <2>3, <3>3, <4>1, <4>2 DEF IsPacket, Selective
    <3>5. CASE ~ (h.len - 3 <= Skipped(h, 0))
      <4> DEFINE iv == IV(p.ks, h.ext + 3, tail)
      <4>1. e.ks = Xor(p.ks, from, iv)
        BY <1>2, <1>5, <2>0, <2>5, <3>5 DEF Encrypt, EncryptFu
      <4>2. /\ DOMAIN e.ks = Bytes(h)
            /\ \A j \in Bytes(h) : e.ks[j] # {} <=> j >= from
        BY <1>1, <4>1 DEF Xor, Toggle
      <4> QED
        BY <1>1, <1>3, <1>5, <2>2, <2>3, <2>5, <3>3, <4>2 DEF IsPacket, Selective
    <3> QED
      BY <3>4, <3>5
  <2> QED
    BY <1>2, <2>4, <2>5
<1> QED
  BY <1>2, <1>4, <1>5

(* The decrypting board restores a single NAL unit. *)
LEMMA DecryptRestores ==
  ASSUME NEW p, IsPacket(p), SingleMask(p)
  PROVE  IsPacket(Decrypt(p)) /\ Restored(Decrypt(p))
<1> USE PrefixAssumption, PayloadAssumption
<1> DEFINE h == p.h
           d == Decrypt(p)
           iv == IV(p.ks, 2, 0)
<1>1. h \in Header /\ DOMAIN p.ks = Bytes(h) /\ d.h = h
  BY DEF IsPacket, Decrypt
<1>2. h.ext \in Nat /\ h.len \in 2..MaxPayload
  BY <1>1 DEF Header
<1>3. CASE h.ext + h.len <= 2 + Prefix
  <2>1. d.ks = p.ks
    BY <1>3 DEF Decrypt
  <2>2. \A j \in Bytes(h) : ~ (j >= 2 + Prefix)
    BY <1>2, <1>3 DEF Bytes
  <2> QED
    BY <1>1, <2>1, <2>2 DEF IsPacket, Restored, SingleMask
<1>4. CASE ~ (h.ext + h.len <= 2 + Prefix)
  <2>1. d.ks = Xor(p.ks, 2 + Prefix, iv)
    BY <1>4 DEF Decrypt
  <2>2. DOMAIN d.ks = Bytes(h)
    BY <1>1, <2>1 DEF Xor
  <2>3. ASSUME h.kind = "single", h.type = "I", h.ext = 0
        PROVE  \A j \in Bytes(h) : d.ks[j] = {}
    <3>1. \A j \in Bytes(h) :
            p.ks[j] = IF j >= 2 + Prefix THEN {<<ClearIV, j - (2 + Prefix)>>} ELSE {}
      BY <2>3 DEF SingleMask
    <3>2. \A k \in 0..(IvLen - 1) : 2 + k \in DOMAIN p.ks /\ p.ks[2 + k] = {}
      <4>1. \A k \in 0..(IvLen - 1) : 2 + k \in Bytes(h) /\ ~ (2 + k >= 2 + Prefix)
        BY <1>2, <1>4, IvInPrefix DEF Bytes
      <4> QED
        BY <1>1, <3>1, <4>1
    <3>3. iv = ClearIV
      BY <3>2 DEF IV, ClearIV
    <3>4. \A j \in Bytes(h) : d.ks[j] =
            IF j >= 2 + Prefix THEN Toggle(p.ks[j], <<ClearIV, j - (2 + Prefix)>>)
            ELSE p.ks[j]
      BY <1>1, <2>1, <3>3 DEF Xor
    <3> QED
      BY <3>1, <3>4 DEF Toggle
  <2> QED
    BY <1>1, <2>2, <2>3 DEF IsPacket, Restored
<1> QED
  BY <1>3, <1>4

-----------------------------------------------------------------------------
(* The strengthened invariant holds in every reachable state. *)
LEMMA Invariance == Spec => []IInv
<1>1. Init => IInv
  BY BoundAssumption DEF Init, IInv
<1>2. IInv /\ [Next]_vars => IInv'
  <2> SUFFICES ASSUME IInv, [Next]_vars PROVE IInv'
    OBVIOUS
  <2> USE BoundAssumption
  <2>1. ASSUME NEW size \in NalSize, NEW type \in {"I", "other"},
               NEW ext \in Extension, SendNal(size, type, ext)
        PROVE  IInv'
    <3>1. \A p \in Packets(nals, size, type, ext) : Sent(p)
      BY PacketsSent DEF IInv
    <3> QED
      BY <2>1, <3>1 DEF IInv, SendNal
  <2>2. ASSUME NEW p \in rtp, NEW tail \in Tail, NEW more \in BOOLEAN,
               Forward(p, tail, more)
        PROVE  IInv'
    <3>1. Sent(p) /\ skip = 0
      BY DEF IInv
    <3>2. /\ SkipAfter(p.h, 0) = 0
          /\ IsPacket(Encrypt(p, 0, tail))
          /\ SingleMask(Encrypt(p, 0, tail))
          /\ Selective(Encrypt(p, 0, tail))
      BY <3>1, EncryptSelective
    <3> QED
      BY <2>2, <3>1, <3>2 DEF IInv, Forward
  <2>3. ASSUME NEW p \in fwd, NEW more \in BOOLEAN, Receive(p, more)
        PROVE  IInv'
    <3>1. IsPacket(Decrypt(p)) /\ Restored(Decrypt(p))
      BY DecryptRestores DEF IInv
    <3> QED
      BY <2>3, <3>1 DEF IInv, Receive
  <2>4. CASE UNCHANGED vars
    BY <2>4 DEF IInv, vars
  <2> QED
    BY <2>1, <2>2, <2>3, <2>4 DEF Next
<1> QED
  BY <1>1, <1>2, PTL DEF Spec

(* Packets are well-formed throughout and skip_remain stays in range.      *)
THEOREM TypeCorrect == Spec => []TypeOK
<1>1. IInv => TypeOK
  BY PrefixAssumption DEF IInv, TypeOK, Sent
<1> QED
  BY <1>1, Invariance, PTL

(* Whatever the network loses, duplicates or reorders, the encrypting      *)
(* board masks exactly the bytes of I-frames behind the prefix.            *)
THEOREM Selectivity == Spec => []SelectiveEncryption
<1>1. IInv => SelectiveEncryption
  BY DEF IInv, SelectiveEncryption, Selective
<1> QED
  BY <1>1, Invariance, PTL

(* The decrypting board restores every I-frame sent as a single NAL unit.  *)
THEOREM RoundTrip == Spec => []SingleRoundTrip
<1>1. IInv => SingleRoundTrip
  BY DEF IInv, SingleRoundTrip, Restored
<1> QED
  BY <1>1, Invariance, PTL
=============================================================================
