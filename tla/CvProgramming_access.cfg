\* Every way to program, slow and fast settings, short circuits and misread pulses.
CONSTANTS
    Bits = 2
    Types = {0, 1, 2, 3}
    Counts = {2, 3}
    Startups = {1, 9}
    Continue = 1
    FrontCapacity = 3
    BackPackets = 1
    Timeout = 13
    Window = 2
    Repeats = 2
    MaxNoise = 1
    None = None
SPECIFICATION FairSpec
INVARIANTS
    Inv
    NeverWrong
    Complete
PROPERTIES
    OnlySpinHangs
