-------------------------------- MODULE MCOta --------------------------------
(* TLC instance of Ota: enough sequence numbers for an upgrade, its           *)
(* confirmation, a second upgrade and a rollback, with a power loss anywhere. *)
EXTENDS Ota
=============================================================================
