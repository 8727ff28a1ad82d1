SPECIFICATION Spec
CONSTANTS
    Orders = {o1}
    Requests = {r1}
    Flows = {"elements"}
    Need <- OneEach
    Stock = 1
    MaxCrashes = 0
PROPERTIES PendingCancelIsRefunded
\* Every order may come to its end.
CHECK_DEADLOCK FALSE
