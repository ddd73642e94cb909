CONSTANTS
    Thread = {"tx", "shell", "irq"}
    Callers = {"tx", "irq"}
    NoThread = NoThread
    Prio <- MCPrio
    Reg = {r0, r1}
    CONFIG = r0
    NoReg = NoReg
    Data = {0, 1}
    Zero = 0
SPECIFICATION LiveSpec
INVARIANT IntactUnlessLapped
PROPERTIES ImplementsRegFile TopCallEnds
