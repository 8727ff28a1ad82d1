\* The bounds on days, requests, imports and crashes let the system stop.
SPECIFICATION Spec
CHECK_DEADLOCK FALSE
CONSTANTS
    m1 = m1
    w1 = w1
    Machines = {m1}
    Known = {}
    Staff = {w1}
    Serves <- MCServes
    Jobs = {j1, j2}
    Files <- MCFiles
    Invalid = Invalid
    Broken = Broken
    Web = {web1, web2}
    Celery = {web1, web2}
    Interval = 2
    Window = 1
    Shutdown = 1
    ErrorMax = 1
    MaxDay = 2
    MaxRequests = 2
    MaxCrashes = 1
INVARIANTS
    OneOpenVisit
    
PROPERTIES
    FaultIsCrewed
    CheckedIsCurrent
    JobEnds
