SPECIFICATION FairSpec
CONSTANTS
    Stream = {"photo"}
    BufCount = 3
    BufSize = 2
    PreTime = 1
    MainTime = 2
    PostTime = 0
    PsramRuns = TRUE
    MaxRuns = 2
    MaxBlocks = 3
INVARIANTS TypeOK BuffersConserved RunIsKept PhasesRule
PROPERTIES RunEnds
