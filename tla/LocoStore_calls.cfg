SPECIFICATION FairSpec
CONSTANTS
    Addrs = {a1, a2}
    MaxCalls = 3
    MaxFailures = 1
    MaxRestarts = 1
INVARIANT Inv Informed
PROPERTIES GetKeepsPromise CallReturns
CHECK_DEADLOCK FALSE
