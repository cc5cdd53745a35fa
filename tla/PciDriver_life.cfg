SPECIFICATION Spec
CONSTANTS
    Procs = {p1, p2}
    Blocks = {b1, b2, b3, b4}
    Faults = {"enable", "regions", "alloc", "map", "chrdev"}
    MaxLoads = 3
    MaxPlugs = 3
    Null = Null
INVARIANTS TypeOK HeldWhileBound MappingsBounded IoctlFindsBoard BoundIsServed NothingLeft
PROPERTY ProbeSettles
CHECK_DEADLOCK FALSE
