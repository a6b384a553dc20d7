\* Three packages, and any number of pauses, failures and resumes.
SPECIFICATION Spec
CONSTANT MaxPuts = 3
INVARIANTS
    TypeOK
    SeqnIsPosition
PROPERTIES
    PutIsTaken
    AsyncThreadEnds
    PauseAndResumeReturn
