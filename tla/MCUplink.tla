------------------------------ MODULE MCUplink ------------------------------
(* Small instances of Uplink. *)
EXTENDS Uplink
=============================================================================
