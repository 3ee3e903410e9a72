------------------------------- MODULE MCWpa2 -------------------------------
(* TLC instance of Wpa2: three nonces make sessions with and without rekeys;  *)
(* a message is sent three times, once more than there is trouble.            *)
EXTENDS Wpa2
=============================================================================
