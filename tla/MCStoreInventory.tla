-------------------------- MODULE MCStoreInventory --------------------------
(* Constants of the run of StoreInventory: store s1 is supplied by store s2,
   which is low on stock, by a hub, and by a supplier. *)
EXTENDS StoreInventory, TLC

Workers == Permutations(Requests)

All_Locations == {"s1", "s2", "hub"}
Two_Stores == {"s1", "s2"}
Two_Transfers == {"t1", "t2"}
Same_Source == [t1 |-> "s2", t2 |-> "s2"]
To_S1 == [t1 |-> "s1", t2 |-> "s1"]
Asked_Two == [t1 |-> 2, t2 |-> 2]
One_Supply == {"p1"}
Supply_S1 == [p1 |-> [store |-> "s1", quantity |-> 2]]
Some_Stock == [s1 |-> 1, s2 |-> 3, hub |-> 2]
Lose_Or_Find == {-1, 2}

=============================================================================
