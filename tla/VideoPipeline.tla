---------------------------- MODULE VideoPipeline ----------------------------
(***************************************************************************)
(* The encrypted video path: an RTSP server splits HEVC NAL units into RTP *)
(* packets (H265Source::HandleFrame), the encrypting board masks the part  *)
(* of every I-frame behind a clear prefix and forwards each packet         *)
(* (rtsp_rtp_client.c), the decrypting board removes the mask              *)
(* (rtp_udp_receiver.c).  Both links are UDP: packets are lost, duplicated *)
(* and reordered at will.                                                  *)
(*                                                                         *)
(* A byte is abstracted to the set of keystream bytes XORed into it, so    *)
(* the empty set is plaintext and masking twice with the same keystream    *)
(* byte restores it.  A keystream byte is named by its IV and its offset:  *)
(* both boards hold the same session key.                                  *)
(***************************************************************************)
EXTENDS Integers, FiniteSets

CONSTANTS Prefix,      \* SKIP_PAYLOAD_PREFIX
          IvLen,       \* bytes of the IV
          MaxPayload,  \* MAX_RTP_PAYLOAD_SIZE
          NalSize,     \* sizes of the NAL units the encoder produces
          Extension,   \* bytes of CSRC list and header extension
          Tail,        \* what may lie in the buffer behind a short packet
          MaxNals,     \* bound: NAL units sent
          MaxHandled   \* bound: packets the encrypting board handles

ASSUME PrefixAssumption == Prefix \in Nat /\ IvLen \in Nat \ {0} /\ IvLen <= Prefix
ASSUME PayloadAssumption == MaxPayload \in Nat /\ Prefix <= MaxPayload - 3
ASSUME SizeAssumption == NalSize \subseteq Nat \ {0, 1} /\ Extension \subseteq Nat
ASSUME BoundAssumption == MaxNals \in Nat /\ MaxHandled \in Nat

VARIABLES nals,     \* NAL units sent so far
          rtp,      \* packets between server and encrypting board
          skip,     \* skip_remain, static in process_rtp_packet
          handled,  \* packets the encrypting board has taken
          fwd,      \* packets between the two boards
          out       \* packets the decrypting board has finished with

vars == <<nals, rtp, skip, handled, fwd, out>>

Chunk == MaxPayload - 3

(* What the RTP, NAL and FU headers of a packet say.                       *)
Header == [nal : Nat, frag : Nat, kind : {"single", "fu"}, type : {"I", "other"},
           start : BOOLEAN, ext : Nat, len : 2..MaxPayload]

(* The bytes of a packet, counted from behind the 12-byte RTP header.      *)
Bytes(h) == 0..(h.ext + h.len - 1)

Packet(n, f, kind, type, start, ext, len) ==
    LET h == [nal |-> n, frag |-> f, kind |-> kind, type |-> type,
              start |-> start, ext |-> ext, len |-> len]
    IN  [h |-> h, ks |-> [j \in Bytes(h) |-> {}]]

(* HandleFrame's loop: every fragment but the last is full.                *)
Fragments(n, size, type, ext) ==
    LET last == (size - 3) \div Chunk
    IN  { Packet(n, f, "fu", type, f = 0, ext,
                 3 + (IF f = last THEN size - 2 - f * Chunk ELSE Chunk)) : f \in 0..last }

(* H265Source::HandleFrame *)
Packets(n, size, type, ext) ==
    IF size <= MaxPayload
      THEN { Packet(n, 0, "single", type, FALSE, ext, size) }
      ELSE Fragments(n, size, type, ext)

-----------------------------------------------------------------------------
(* ZUC-256 as a mask *)

(* The IV read at index from; behind the packet lies what was there.       *)
IV(ks, from, tail) ==
    [k \in 0..(IvLen - 1) |->
        IF from + k \in DOMAIN ks THEN <<from + k, ks[from + k]>> ELSE tail]

Toggle(S, m) == IF m \in S THEN S \ {m} ELSE S \cup {m}

(* zuc256_init and zuc256_xor_inplace from index from to the packet's end  *)
Xor(ks, from, iv) ==
    [j \in DOMAIN ks |-> IF j >= from THEN Toggle(ks[j], <<iv, j - from>>) ELSE ks[j]]

-----------------------------------------------------------------------------
(* The encrypting board *)

Least(a, b) == IF a < b THEN a ELSE b

(* process_rtp_packet, single NAL unit *)
EncryptSingle(h, ks) ==
    IF h.type # "I" \/ h.len <= 2 + Prefix
      THEN ks
      ELSE Xor(ks, h.ext + 2 + Prefix, IV(ks, h.ext + 2, 0))

(* How much of a fragment is skipped: a start fragment resets the count.   *)
Budget(h, s) == IF h.start THEN Prefix ELSE s
Skipped(h, s) == Least(h.len - 3, Budget(h, s))

(* process_rtp_packet, fragmentation unit; the IV is what follows the FU   *)
(* header, whether skipped or not.                                         *)
EncryptFu(h, ks, s, tail) ==
    IF h.type # "I" \/ h.len - 3 <= Skipped(h, s)
      THEN ks
      ELSE Xor(ks, h.ext + 3 + Skipped(h, s), IV(ks, h.ext + 3, tail))

(* Faulty variant: the part skipped is not counted.                        *)
BadSkipAfter(h, s) == IF h.kind = "fu" /\ h.type = "I" THEN Budget(h, s) ELSE s

SkipAfter(h, s) ==
    IF h.kind = "fu" /\ h.type = "I" THEN Budget(h, s) - Skipped(h, s) ELSE s

(* Packets with no payload behind the NAL header pass.                     *)
Encrypt(p, s, tail) ==
    [h  |-> p.h,
     ks |-> IF p.h.len <= 2 THEN p.ks
            ELSE IF p.h.kind = "single" THEN EncryptSingle(p.h, p.ks)
            ELSE EncryptFu(p.h, p.ks, s, tail)]

-----------------------------------------------------------------------------
(* The decrypting board assumes a 12-byte header and one layout.           *)

(* Faulty variant: the IV ends in the masked part.                         *)
BadDecrypt(p) ==
    [h  |-> p.h,
     ks |-> IF p.h.ext + p.h.len <= 2 + Prefix THEN p.ks
            ELSE Xor(p.ks, 2 + Prefix, IV(p.ks, 2 + Prefix - 1, 0))]

(* decrypt_rtp_packet *)
Decrypt(p) ==
    [h  |-> p.h,
     ks |-> IF p.h.ext + p.h.len <= 2 + Prefix THEN p.ks
            ELSE Xor(p.ks, 2 + Prefix, IV(p.ks, 2, 0))]

-----------------------------------------------------------------------------
Init ==
    /\ nals = 0 /\ rtp = {} /\ skip = 0 /\ handled = 0 /\ fwd = {} /\ out = {}

(* The server sends one NAL unit. *)
SendNal(size, type, ext) ==
    /\ nals < MaxNals
    /\ nals' = nals + 1
    /\ rtp' = rtp \cup Packets(nals, size, type, ext)
    /\ UNCHANGED <<skip, handled, fwd, out>>

(* rtp_recv_forward_loop: a packet arrives, in any order; the network may  *)
(* keep a copy of it (more), and need not deliver what it holds.           *)
Forward(p, tail, more) ==
    /\ handled < MaxHandled
    /\ handled' = handled + 1
    /\ rtp' = IF more THEN rtp ELSE rtp \ {p}
    /\ fwd' = fwd \cup {Encrypt(p, skip, tail)}
    /\ skip' = SkipAfter(p.h, skip)
    /\ UNCHANGED <<nals, out>>

(* rtp_receive_loop *)
Receive(p, more) ==
    /\ fwd' = IF more THEN fwd ELSE fwd \ {p}
    /\ out' = out \cup {Decrypt(p)}
    /\ UNCHANGED <<nals, rtp, skip, handled>>

Next ==
    \/ \E size \in NalSize, type \in {"I", "other"}, ext \in Extension :
         SendNal(size, type, ext)
    \/ \E p \in rtp, tail \in Tail, more \in BOOLEAN : Forward(p, tail, more)
    \/ \E p \in fwd, more \in BOOLEAN : Receive(p, more)

Spec == Init /\ [][Next]_vars

-----------------------------------------------------------------------------
(* Properties *)

IsPacket(p) == p.h \in Header /\ DOMAIN p.ks = Bytes(p.h)

(* Every packet fits the RTP payload and skip_remain stays in range.       *)
TypeOK ==
    /\ nals \in 0..MaxNals /\ handled \in 0..MaxHandled /\ skip \in 0..Prefix
    /\ \A p \in rtp \cup fwd \cup out : IsPacket(p)

(* Position in its NAL unit of the byte at index j of packet p.            *)
NalPos(p, j) ==
    IF p.h.kind = "single" THEN j - p.h.ext ELSE p.h.frag * Chunk + (j - p.h.ext) - 1

(* process_rtp_packet masks exactly the bytes of I-frames behind the       *)
(* prefix, although its count skip_remain survives from packet to packet   *)
(* and packets are lost, duplicated and reordered: whatever arrives, no    *)
(* byte behind the prefix is forwarded in the clear, and no header byte,   *)
(* prefix byte or byte of another frame is masked.                         *)
SelectiveEncryption ==
    \A p \in fwd : \A j \in DOMAIN p.ks :
        p.ks[j] # {} <=> /\ p.h.type = "I"
                         /\ j >= p.h.ext + (IF p.h.kind = "fu" THEN 3 ELSE 2)
                         /\ NalPos(p, j) >= 2 + Prefix

(* decrypt_rtp_packet inverts process_rtp_packet on an I-frame sent as one *)
(* NAL unit under a 12-byte header, whatever else the network does.        *)
SingleRoundTrip ==
    \A p \in out :
        p.h.kind = "single" /\ p.h.type = "I" /\ p.h.ext = 0 =>
            \A j \in DOMAIN p.ks : p.ks[j] = {}

(* What the decrypting board's file header promises: I-frames come out as  *)
(* they were sent, with the server's 12-byte headers.                      *)
IFramesRecovered ==
    \A p \in out :
        p.h.type = "I" /\ p.h.ext = 0 => \A j \in DOMAIN p.ks : p.ks[j] = {}

(* What the comment in decrypt_rtp_packet promises: only I-frames are      *)
(* decrypted, all other frames pass as they are.                           *)
OnlyIFramesDecrypted ==
    \A p \in out :
        p.h.type # "I" /\ p.h.ext = 0 => \A j \in DOMAIN p.ks : p.ks[j] = {}
=============================================================================
