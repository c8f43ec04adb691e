\* Power off and short circuits, with a USB host which feeds the DCC task or updates a
\* decoder.
CONSTANTS
    Inputs = {"DCC_EIN", "DECUP_EIN", "trackPowerOn", "trackPowerOff", "shortCircuit"}
    PatientClient = TRUE
    CvCapacity = 2
SPECIFICATION FairSpec
PROPERTIES
    PowerRequestsEnd
    ErrorsKept
    OrderLostByClearing
