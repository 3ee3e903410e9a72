------------------------------ MODULE MCStation ------------------------------
(* TLC instance of Station: credentials that work, a typing error, and a      *)
(* network without a passphrase; the short backoff and the fast path both run *)
(* to their limits.                                                           *)
EXTENDS Station
CONSTANTS home, wrong, open
MCStripped == [k \in Cred |-> open]
=============================================================================
