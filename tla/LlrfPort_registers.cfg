SPECIFICATION Spec
CONSTANTS
    Threads = {t1, t2}
    Int32Params <- ClearShared
    Float64Params <- PhaseOnly
    Offset <- MCOffset
    OutsideOffsets <- SharedOffset
    PointOrder <- OnePoint
    NumWavePoints = 2
    Setpoints <- RegisterSetpoints
    Words = {0, 1}
    Samples = {}
    DeviceOpens = {TRUE, FALSE}
    MaxRestarts = 1
    NoThread = NoThread
    Undefined = Undefined
SYMMETRY Symmetry
INVARIANTS InStep Effective ClearHeld
PROPERTY ImplementsService
