SPECIFICATION FairSpec
CONSTANTS
    NumProfiles = 2
    NumSteps = 2
    Heater = {"h1", "h2"}
    Tec = {"t1"}
    Step <- MainStep
    Stored <- MainStored
    Draft <- MainDraft
    QueueLen = 2
    MaxCommands = 4
    MaxSaves = 1
    MaxRounds = 2
INVARIANTS TypeOK ChannelsDisjoint DrivenIsOwned
PROPERTIES StepLasts StopIsObeyed ProfileEnds
