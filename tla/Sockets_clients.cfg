\* Two services with a low-level task of their own.
CONSTANTS
    Clients = {"ZUSI", "MDUZsu"}
    MaxMessages = 2
    FrontCapacity = 1
    MaxCuts = 1
SPECIFICATION FairSpec
INVARIANTS
    Inv
PROPERTIES
    RightAnswer
    GivenBack
    NobodyWaits
CHECK_DEADLOCK FALSE
