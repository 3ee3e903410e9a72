-------------------------------- MODULE MCDpc --------------------------------
(* TLC instance of Dpc: two events, a ring of two slots whose indices wrap at *)
(* four, so that full, empty and wrapped rings are all a few steps away.  The *)
(* counters wrap as in the code, which makes the state space finite.          *)
EXTENDS Dpc
=============================================================================
