SPECIFICATION Spec
CONSTANT EarlyCommands = FALSE
INVARIANT IrqWaiterListed
