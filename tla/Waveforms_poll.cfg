SPECIFICATION Spec
CONSTANTS
    WAVEFORM_POINT = 2
    MaxCaptures = 2
    DeviceOpens = {TRUE, FALSE}
    Garbage = Garbage
INVARIANTS TypeOK EveryPointFresh
PROPERTY LastCapturePublished
CHECK_DEADLOCK FALSE
