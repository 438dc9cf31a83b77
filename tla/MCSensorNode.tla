---------------------------- MODULE MCSensorNode ----------------------------
(* Small instances of SensorNode. *)
EXTENDS SensorNode
=============================================================================
