------------------------------- MODULE MCDhcp -------------------------------
(* TLC instance of Dhcp: two addresses for the station and another host, a    *)
(* lease of three units, T2 of the server missing and its T1 too late.        *)
EXTENDS Dhcp
MCOptions == {<<3, 0>>}
=============================================================================
