--------------------------- MODULE MCAuthProtocol ---------------------------
(* Small instance of AuthProtocol: the digit 1 is enough for the           *)
(* concatenations of different factors to coincide.                        *)
EXTENDS AuthProtocol

Short == <<1>>
Long  == <<1, 1>>
MCTwo == {Short, Long}
MCOne == {Short}
=============================================================================
