SPECIFICATION Spec
CONSTANT EarlyCommands = TRUE
INVARIANT MutexReadyWhenUsed
CHECK_DEADLOCK FALSE
