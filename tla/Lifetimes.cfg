\* Two threads, three lifetimes, one action or bracket of a user.
SPECIFICATION Spec
CONSTANTS
    Threads = {t1, t2}
    Firer = t1
    MaxLifetimes = 3
    MaxAdds = 1
INVARIANTS
    EachRunsOrIsRemoved
    RunInReverse
    NestedEndWithParent
    OneValueAlive
