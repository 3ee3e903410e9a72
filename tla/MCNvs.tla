-------------------------------- MODULE MCNvs --------------------------------
(* TLC instance of Nvs: boot_count and two more keys compete for two entries. *)
EXTENDS Nvs
=============================================================================
