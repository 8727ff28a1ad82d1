SPECIFICATION Spec
CONSTANTS
    Orders = {o1}
    Requests = {r1, r2}
    Flows = {"hosted"}
    Need <- OneEach
    Stock = 2
    MaxCrashes = 0
INVARIANTS StockMatchesOrders
\* Every order may come to its end.
CHECK_DEADLOCK FALSE
