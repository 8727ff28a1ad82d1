SPECIFICATION Spec
CONSTANTS
    Orders = {o1}
    Requests = {r1, r2}
    Flows = {"hosted", "elements"}
    Need <- OneEach
    Stock = 2
    MaxCrashes = 1
SYMMETRY Symmetry
INVARIANTS  RefundedReturnsFunds RefundBookedOnce OutboxAnnouncesRow
\* Every order may come to its end.
CHECK_DEADLOCK FALSE
