\* One Barnes-Hut tick from many positions.
SPECIFICATION SimSpec
CONSTANTS
    NaN = NaN
    None = None
    BodyNum = 3
    Mass <- MCMass
    SceneBounds <- MCScene
    Places <- MCPlaces
    Types = {"BarnesHut"}
    ThetaNum = 7
    ThetaDen = 10
    SimGravityDistance = 0
    BodyGravityDistance = 1
    Workers = 2
    Steps <- MCSteps
    MaxTicks = 1
CHECK_DEADLOCK FALSE
INVARIANT OneTermPerBody
