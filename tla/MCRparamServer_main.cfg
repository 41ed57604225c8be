SPECIFICATION ServerSpec
CONSTANTS
    PageSize = 3
    MaxOut = 4
    MaxPage = 1
    MaxCmds = 2
    Rows <- Tables
    MaxPayload = 180
    MaxItems = 2
    Lists <- SomeLists
INVARIANTS RowsOnce AnswerIsOneResult
CHECK_DEADLOCK FALSE
