\* Several ticks of either method, with the type switched between them.
SPECIFICATION SimSpec
CONSTANTS
    NaN = NaN
    None = None
    BodyNum = 3
    Mass <- MCMass
    SceneBounds <- MCScene
    Places <- EdgePlaces
    Types = {"None", "AllVsAll", "BarnesHut"}
    ThetaNum = 7
    ThetaDen = 10
    SimGravityDistance = 0
    BodyGravityDistance = 1
    Workers = 2
    Steps <- EdgeSteps
    MaxTicks = 3
CHECK_DEADLOCK FALSE
INVARIANTS
    SimTypeOK
    PairsOnceEach
    InSceneAtForces
PROPERTIES
    NaNContained
