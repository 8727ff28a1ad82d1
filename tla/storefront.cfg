SPECIFICATION Spec
CONSTANTS
    Stores = {s1, s2}
    Browsers = {guest}
    Requests = {r1, r2}
    Combos = {c1}
    Lockers = 2
    Flows <- All_Flows
    MaxQuantity = 1
    MaxItems = 2
    MaxOrders = 2
SYMMETRY Alike
INVARIANTS OneStore OwnOrderVisible SoldOnce LockerExclusive
