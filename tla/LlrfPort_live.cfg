SPECIFICATION Spec
CONSTANTS
    Threads = {t1}
    Int32Params <- ClearOnly
    Float64Params <- NoParams
    Offset <- MCOffset
    OutsideOffsets = {}
    PointOrder <- TwoPoints
    NumWavePoints = 2
    Setpoints <- PointSetpoints
    Words = {0, 1}
    Samples = {s1, s2}
    DeviceOpens = {TRUE}
    MaxRestarts = 0
    NoThread = NoThread
    Undefined = Undefined
INVARIANTS TypeOK IInv OnePosition
PROPERTIES PortReleased ClearCompletes PointsFollowPosition
