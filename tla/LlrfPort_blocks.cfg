SPECIFICATION Spec
CONSTANTS
    Threads = {t1, t2}
    Int32Params <- ClearOnly
    Float64Params <- NoParams
    Offset <- MCOffset
    OutsideOffsets = {}
    PointOrder <- OnePoint
    NumWavePoints = 2
    Setpoints <- PointSetpoints
    Words = {0, 1}
    Samples = {s1, s2}
    DeviceOpens = {TRUE}
    MaxRestarts = 0
    NoThread = NoThread
    Undefined = Undefined
INVARIANT DoesNotBlock
