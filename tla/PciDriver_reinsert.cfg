SPECIFICATION Spec
CONSTANTS
    Procs = {p1, p2}
    Blocks = {b1, b2, b3}
    Faults = {}
    MaxLoads = 3
    MaxPlugs = 2
    Null = Null
INVARIANT InsertedIsServed
CHECK_DEADLOCK FALSE
