SPECIFICATION FairSpec
CONSTANTS
    NumProfiles = 2
    NumSteps = 2
    Heater = {"h1", "h2"}
    Tec = {"t1"}
    Step <- MainStep
    Stored <- MainStored
    Draft = {}
    QueueLen = 2
    MaxCommands = 2
    MaxSaves = 0
    MaxRounds = 2
PROPERTIES OthersLeftAlone
