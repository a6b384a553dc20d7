\* Three bodies, an 8 x 8 scene.
SPECIFICATION Spec
CONSTANTS
    NaN = NaN
    None = None
    BodyNum = 3
    Mass <- MCMass
    SceneBounds <- MCScene
    Places <- MCPlaces
INVARIANTS
    TypeOK
    HeldExactly
    SumsFresh
    MassConserved
    CentreInBox
    NaNExactlyWhenStarved
PROPERTIES
    InsertReturns
    ImplementsBodyIndex
    ConstructTerminates
