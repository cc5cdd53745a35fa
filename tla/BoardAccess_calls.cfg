SPECIFICATION Spec
CONSTANTS
    ioc = ioc
    tool = tool
    Users <- MCUsers
    RegisterBytes <- MCRegisterBytes
    WaveformBytes <- MCWaveformBytes
    CallsOf <- MCCallsOf
    MaxCaptures = 2
    Unset = Unset
INVARIANTS TypeOK PointsWhole
PROPERTIES OnlyOwnBytes ImplementsBoardService
