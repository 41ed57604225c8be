SPECIFICATION FairSpec
CONSTANTS
    MaxRetries = 1
    SeqMod = 2
    Replier = {0}
    MaxSends = 2
    MaxFaults = 1
    MaxRst = 1
CHECK_DEADLOCK FALSE
INVARIANTS TypeOK LineInOrder OkIsTrue BoundedCopies
PROPERTIES RefinesService SendReturns LineGoesQuiet
