SPECIFICATION FairSpec
CONSTANTS
    w1 = w1
    Writer = {w1}
    Size = 10
    Header = 2
    MsgMax = 5
    Slack = 1
    Word = 16
    Lengths = {1, 5}
    Asked = {2}
    Clears = TRUE
    MaxCalls = 4
    MaxReads = 1
INVARIANTS TypeOK CountIsTrue ShownIsLog
PROPERTIES RefinesLog CallsReturn
CHECK_DEADLOCK FALSE
