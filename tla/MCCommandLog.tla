---------------------------- MODULE MCCommandLog ----------------------------
(* Small instances of CommandLog. *)
EXTENDS CommandLog
=============================================================================
