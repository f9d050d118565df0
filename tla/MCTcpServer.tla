----------------------------- MODULE MCTcpServer -----------------------------
(* Small instance of TcpServer, for both numbers of event-loop threads. *)
EXTENDS TcpServer
==============================================================================
