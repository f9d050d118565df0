--------------------------- MODULE MCVideoPipeline ---------------------------
(* Small instances of VideoPipeline: a NAL unit that is too short to be    *)
(* masked, one that fills a packet, and ones of two and three fragments,   *)
(* the last of them shorter than an IV.                                    *)
EXTENDS VideoPipeline

MCNalSize == {2, 4, 6, 8, 9}
MCExtension == {0, 1}
MCServerExtension == {0}
=============================================================================
