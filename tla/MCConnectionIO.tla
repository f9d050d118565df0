--------------------------- MODULE MCConnectionIO ---------------------------
(* Small instance of ConnectionIO: a method that asks for no credentials   *)
(* and is answered once DESCRIBE got through, DESCRIBE, and one that needs *)
(* both, with the CSeq in front of the other headers and behind them.      *)
EXTENDS ConnectionIO

MCLayout == [TEARDOWN |-> <<"cseq", "agent">>,
             DESCRIBE |-> <<"cseq", "need">>,
             PLAY     |-> <<"need", "cseq">>]
=============================================================================
