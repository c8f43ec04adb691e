\* Bodies with two fields, values at the limits, restarts and short circuits.
CONSTANTS
    Keys = {"current_sc_time", "dcc_bidibit_dur", "dcc_flags"}
    Inputs = {0, 29, 57, 250, 256}
    MaxFields = 2
    MaxFrames = 2
    CountMax = 300
SPECIFICATION Spec
INVARIANTS
    Inv
    InRange
    PrefixStored
    Noticed
