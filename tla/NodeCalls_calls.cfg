SPECIFICATION FairNodeSpec
CHECK_DEADLOCK FALSE
CONSTANTS
    Requests = {r1, r2}
    Limit <- MCLimit
    MaxBatch = 2
    Worlds <- MCWorlds
INVARIANTS GateHolds WrongTierStaysShut
PROPERTIES GateReopens RepeatTellsTheTruth
