------------------------- MODULE MCThreadSafeQueue --------------------------
(* ThreadSafeQueue<T, 3> with two distinguishable items. *)
EXTENDS ThreadSafeQueue
=============================================================================
