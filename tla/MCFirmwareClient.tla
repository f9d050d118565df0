-------------------------- MODULE MCFirmwareClient --------------------------
(* Small instance of FirmwareClient: numbers of two limbs of three bits.   *)
(* e inverts d for every x, since 5 * 29 is 1 modulo 7 * 7 - 1.            *)
EXTENDS FirmwareClient, Bitwise

MCKey == [N |-> 13, N1 |-> 7, d |-> 5, e |-> 29, pk |-> 3]
MCXor(a, b) == a ^^ b
MCArgs == 0..7 \cup {12, 31, 32, 45, 62, 63}
=============================================================================
