SPECIFICATION FairSpec
CONSTANTS
    Orders = {o1, o2}
    Requests = {r1}
    Flows = {"mock", "hosted", "elements"}
    Need <- OneEach
    Stock = 1
    MaxCrashes = 1
INVARIANTS StockMatchesOrders
PROPERTIES ImplementsContract CapturedIsSettled
\* Every order may come to its end.
CHECK_DEADLOCK FALSE
