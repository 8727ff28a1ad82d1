------------------------------- MODULE MCDesk -------------------------------
(* Constants of the run of Desk: the administrator of store 1, the manager  *)
(* of store 2, and a customer.                                              *)
EXTENDS Desk

TwoShops == 1 .. 2

AdminManagerCustomer ==
    [u \in Users |->
        CASE u = "admin" -> [role |-> "admin", active |-> TRUE, prefers |-> 1,
                             scopes |-> {<<1, "primary">>, <<1, "admin_scope">>}]
          [] u = "manager" -> [role |-> "manager", active |-> TRUE, prefers |-> 2,
                               scopes |-> {<<2, "manager_scope">>}]
          [] OTHER -> [role |-> "account_user", active |-> TRUE, prefers |-> 0, scopes |-> {}]]
=============================================================================
