----------------------------- MODULE KeyExchange -----------------------------
(***************************************************************************)
(* What the protocol of AuthProtocol promises, seen from outside: for each *)
(* run the centre issues at most one key, never one it issued before, and  *)
(* the device of that run may then adopt that key, once.                   *)
(***************************************************************************)
CONSTANTS Client, Key

VARIABLES issued,  \* per client: keys the centre issued for it
          held     \* per client: keys the device adopted

Init ==
    /\ issued = [d \in Client |-> {}]
    /\ held = [d \in Client |-> {}]

Issue(d) ==
    /\ issued[d] = {}
    /\ \E k \in Key :
         /\ \A e \in Client : k \notin issued[e]
         /\ issued' = [issued EXCEPT ![d] = {k}]
    /\ UNCHANGED held

Adopt(d) ==
    /\ issued[d] # {} /\ held[d] = {}
    /\ held' = [held EXCEPT ![d] = issued[d]]
    /\ UNCHANGED issued

Next == \E d \in Client : Issue(d) \/ Adopt(d)

Spec == Init /\ [][Next]_<<issued, held>>
=============================================================================
