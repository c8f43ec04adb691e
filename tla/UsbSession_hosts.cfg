\* One host, every kind of message.
CONSTANTS
    Protocols = {"DCC_EIN", "DECUP_EIN", "SUSIV2"}
    Kinds = {"packet", "silent", "features", "exit"}
    LeftKinds = {"exit"}
    InCapacity = 1
    FrontCapacity = 1
    MaxInputs = 3
    MaxCuts = 1
SPECIFICATION FairSpec
INVARIANTS
    Inv
    AckArrives
PROPERTIES
    NoStrangers
    RightAnswer
    ListensAgain
    GivenBack
CHECK_DEADLOCK FALSE
