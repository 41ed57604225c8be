SPECIFICATION FairSpec
CONSTANTS
    Frames <- Two
    typemethod = 10
    Noise = {1, 193}
    Chance = {0, 1, 13, 192, 222, 218, 237}
    MaxFaults = 2
    MaxLine = 1
    Timeout = 1
INVARIANTS CheckedIsSent FrameOutcome
PROPERTIES TimeoutIsSilence ReadyAgain
CHECK_DEADLOCK FALSE
