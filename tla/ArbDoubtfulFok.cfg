\* The last order of the chain times out.
CONSTANTS
    SuggestedQty = 2
    Requotes = 1
    PrimaryFaults <- NoFaults
    SecondaryFaults <- TimesOut
    UnwindFaults <- NoFaults
SPECIFICATION Spec
CHECK_DEADLOCK FALSE
PROPERTY UnwindOnlyAgainstDead
