----------------------------- MODULE MCAccounts -----------------------------
(* Constants of the run of Accounts: two stores that are peers, one with a *)
(* web worker more than the other.                                         *)
EXTENDS Accounts, TLC
CONSTANTS s1, s2

Two_And_One == s1 :> {1, 2} @@ s2 :> {1}
Each_Other == s1 :> <<s2>> @@ s2 :> <<s1>>
=============================================================================
