SPECIFICATION Spec
CONSTANTS
    Names <- MCNames
    Settings <- MCSettings
INVARIANTS ReadsBackWithinOne Monotone KeepsWithinStep
PROPERTY RestoreSettles
CHECK_DEADLOCK FALSE
