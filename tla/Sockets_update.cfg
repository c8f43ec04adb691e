\* Clients which upload a firmware image, enough of them for a second try.
CONSTANTS
    Clients = {"OTA"}
    MaxMessages = 4
    FrontCapacity = 1
    MaxCuts = 1
SPECIFICATION FairSpec
INVARIANTS
    Inv
PROPERTIES
    UploadsEnd
CHECK_DEADLOCK FALSE
