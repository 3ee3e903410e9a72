------------------------------- MODULE MCSlots -------------------------------
(* TLC instance of Slots: a table of three slots, so that the listener, the   *)
(* MQTT client and the HTTP clients compete for it.                           *)
EXTENDS Slots, TLC
MCRequests == {[kind |-> "get", parts |-> 1], [kind |-> "get", parts |-> 2], [kind |-> "post", parts |-> 1]}
Symmetry == Permutations(Clients) \cup Permutations(Ports)
==============================================================================
