SPECIFICATION FairSpec
CONSTANTS
    Cvs = {c1, c2}
    Copies = 2
    FrontCapacity = 3
    DequeCapacity = 2
    RxCapacity = 3
    NoCv = NoCv
    Patient = FALSE
    MaxCalls = 2
    MaxSwitches = 1
INVARIANT Inv
PROPERTIES  NackTrue RequestsEnd CallReturns
CHECK_DEADLOCK FALSE
