---------------------------- MODULE ConnectionIO ----------------------------
(***************************************************************************)
(* One RtspConnection with both of its buffers.  conn_mode_ decides who    *)
(* reads: the server's parser of requests or the pusher's parser of        *)
(* responses; both write through the one WriteQueue.                       *)
(***************************************************************************)
EXTENDS RtspStream, RtspPusher

VARIABLE mode \* conn_mode_: "server" or "pusher"

vars == <<mode, streamVars, pusherVars, wqVars>>

Init ==
    /\ WqInit /\ StreamInit /\ PusherInit
    /\ \/ mode = "server" /\ media = FALSE
       \/ mode = "pusher" /\ sess = "new" /\ auth = "ok"

(* OnRead and the events of the mode.                                      *)
Next ==
    /\ UNCHANGED mode
    /\ \/ mode = "server" /\ StreamNext /\ UNCHANGED pusherVars
       \/ mode = "pusher" /\ PusherNext /\ UNCHANGED streamVars

Spec == Init /\ [][Next]_vars
=============================================================================
