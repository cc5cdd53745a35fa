SPECIFICATION Spec
CONSTANTS
    Procs = {p1, p2}
    Blocks = {b1, b2, b3}
    Faults = {"map"}
    MaxLoads = 3
    MaxPlugs = 1
    Null = Null
INVARIANT FreedOnce
CHECK_DEADLOCK FALSE
