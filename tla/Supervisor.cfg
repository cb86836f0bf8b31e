SPECIFICATION SFairSpec
CONSTANTS
    CrashThreshold = 2
    MaxStarts = 3
INVARIANTS
    RunningIsAlive
PROPERTIES
    StartingEnds
    ReadyCloses
\* The daemon stops for good when it panics.
CHECK_DEADLOCK FALSE
