SPECIFICATION FairSpec
CONSTANTS
    PageSize = 3
    MaxOut = 4
    MaxPage = 2
    MaxCmds = 3
INVARIANTS TypeOK DoneIsWhole
PROPERTIES RefinesService AcceptedEnds
