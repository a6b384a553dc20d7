\* Two calls are enough: one that times out, and the next.
SPECIFICATION Spec
CONSTANT MaxCalls = 3
CHECK_DEADLOCK FALSE
INVARIANT RefusedOnlyInProgress
