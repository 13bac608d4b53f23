SPECIFICATION Spec
INVARIANTS ExecLeavesNothing  TestsAndMenuTrue ForkFailuresUndone
PROPERTIES FailureKeepsProgram
CHECK_DEADLOCK FALSE
