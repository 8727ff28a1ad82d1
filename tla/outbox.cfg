SPECIFICATION FairSpec
CONSTANTS
    Entities = {k1}
    Workers = {w1, w2}
    Receivers <- Store_Global
    Moves <- Noted_Moves
    Stage <- RepairStage
    Limit = 2
    MaxEvents = 3
    MaxFaults = 1
INVARIANTS DispatchedIsProjected ToldOnce
PROPERTIES ImplementsReplica OrderedIsDispatched
\* The events of an entity come to an end.
CHECK_DEADLOCK FALSE
