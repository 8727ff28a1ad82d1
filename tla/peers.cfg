SPECIFICATION FairSpec
CONSTANTS
    Nodes <- Two_Nodes
    Entities <- Two_Entities
    Owner <- Two_Owner
    MaxEvents <- Twice_Once
    Stage <- Back
    MaxTimeouts = 1
    MaxCrashes = 1
INVARIANTS DeliveredWasIngested QuietIsConverged
PROPERTIES ImplementsReplica UncrashedConverges
\* The events of the entities come to an end.
CHECK_DEADLOCK FALSE
