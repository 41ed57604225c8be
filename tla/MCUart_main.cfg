SPECIFICATION FairSpec
CONSTANTS
    w1 = w1
    w2 = w2
    Writer = {w1, w2}
    Size = 3
    Loads <- OneOrTwo
    Patience = 1
INVARIANTS TypeOK NoStall SoloInOrder ReceivedInOrder
PROPERTIES GoesIdle
CHECK_DEADLOCK FALSE
