---------------------------- MODULE MCStorefront ----------------------------
(* Constants of the run of Storefront: one guest, two stores. *)
EXTENDS Storefront, TLC

All_Flows == {"mock", "hosted", "elements"}
Alike == Permutations(Requests) \cup Permutations(Stores)
=============================================================================
