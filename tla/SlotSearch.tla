----------------------------- MODULE SlotSearch -----------------------------
(***************************************************************************)
(* The search both fixed tables of the hub use (nodes[] of                 *)
(* ble/ble_central.cpp and slots_[] of util/pending_pool.h): the lowest    *)
(* index whose record satisfies a predicate.                               *)
(***************************************************************************)
EXTENDS Integers, FiniteSetsExt

(* The first of the indices S that satisfy the predicate; 0 stands for the *)
(* index -1 or the null pointer of a search that finds nothing.            *)
Lowest(S) == IF S = {} THEN 0 ELSE Min(S)

=============================================================================
