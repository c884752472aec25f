SPECIFICATION SimulationSpec
CONSTANTS
    p = p
    q = q
    RuleId = {1, 2, 3, 4}
    Requests <- Catalogue
INVARIANTS CycleIsReported StagesAreEarliest CriticalPathIsLongest AdditionsKeepRequirements EveryContenderIsAccountedFor
