\* The window is five steps of the cooldown; four failures make the BASIC tier with one to spare.
CONSTANTS
    FailureThreshold = 3
    Cooldown = 1
    Window = 5
    BackoffMax = 4
    MaxFailures = 4
SPECIFICATION TierSpec
PROPERTY TierAutoRecovers
CHECK_DEADLOCK FALSE
