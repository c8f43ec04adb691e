\* Decoders of both kinds, one of which is selected by a byte which is a security byte
\* as well, a late pulse and a mistake of the host: a byte which fails the assert of the
\* block count, or a security byte.
CONSTANTS
    Ids = {200, 221, 85}
    Narrow = 2
    Wide = 3
    Memory = 16
    Half = 8
    Units = 2
    Wrong = {9, 85}
    MaxRepeats = 2
    MaxSlips = 1
    MaxLates = 1
SPECIFICATION Spec
INVARIANTS
    Inv
PROPERTIES
    AckTrue
CHECK_DEADLOCK FALSE
