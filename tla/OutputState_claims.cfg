\* Claims by compare-exchange and the switch between operations and service mode.
CONSTANTS
    Inputs = {"SUSIV2", "ZUSI", "OTA", "trackPowerOn", "cvAccess"}
    PatientClient = TRUE
    CvCapacity = 2
SPECIFICATION Spec
INVARIANTS
    Inv
PROPERTIES
    ImplementsArbiter
