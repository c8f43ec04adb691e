\* The property is violated.
CONSTANTS
    Inputs = {"DECUP_EIN", "trackPowerOn", "shortCircuit"}
    PatientClient = TRUE
    CvCapacity = 2
SPECIFICATION Spec
INVARIANTS
    HardwareFree
