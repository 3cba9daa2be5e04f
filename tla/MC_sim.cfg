CONSTANTS
    Commands <- MCCommands
    NoCommands = none
    Cooldown = 5
    MaxTime = 30
    MaxEmitted = 30
    Lag <- MCLag
    Second = 2
    Saturation = 2
    Files = {"child", "middle", "base"}
    Root = "child"
    Documents <- MCDocuments
    Sections = {"initial_state", "derived"}
    SubKeys = {"used", "total"}
    Scenarios <- MCScenarios
    ScenarioOf <- MCScenarioOf
    OBSERVATION_DELAY = 6
    HORIZON = 8
SPECIFICATION SimSpec
INVARIANTS
    RepeatsSpaced LastAskedWins
    TrajectoryCoherent ScheduleKept EngineAsAsked PollsAccounted StateAccounted
    ReportsAgree ExtendsResolved
PROPERTIES ImplementsDedup SimEnds
CHECK_DEADLOCK FALSE
