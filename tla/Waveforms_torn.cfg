SPECIFICATION Spec
CONSTANTS
    WAVEFORM_POINT = 2
    MaxCaptures = 2
    DeviceOpens = {TRUE}
    Garbage = Garbage
INVARIANT CannotRead
