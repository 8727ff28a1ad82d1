SPECIFICATION Spec
CONSTANTS
    Locations <- All_Locations
    Stores <- Two_Stores
    Transfers <- Two_Transfers
    Supplies <- One_Supply
    Requests = {r1, r2}
    Source <- Same_Source
    Destination <- To_S1
    Asked <- Asked_Two
    Supplied <- Supply_S1
    Stock <- Some_Stock
    Threshold = 1
    Deltas <- Lose_Or_Find
    MaxAdjust = 1
    MaxSold = 1
SYMMETRY Workers
INVARIANTS StockConserved ReservedIsPromised OneOpenAlert ReceivedOnce
\* Transfers, supplies and corrections come to an end.
CHECK_DEADLOCK FALSE
