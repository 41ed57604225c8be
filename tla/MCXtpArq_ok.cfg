SPECIFICATION Spec
CONSTANTS
    MaxRetries = 1
    SeqMod = 2
    Replier = {}
    MaxSends = 2
    MaxFaults = 1
    MaxRst = 0
CHECK_DEADLOCK FALSE
INVARIANT OkMeansDelivered
