\* A primary that ended half filled and reads CANCELLED.
CONSTANTS
    SuggestedQty = 2
    Requotes = 1
    PrimaryFaults <- EndsAsCancelled
    SecondaryFaults <- NoFaults
    UnwindFaults <- NoFaults
SPECIFICATION Spec
CHECK_DEADLOCK FALSE
INVARIANT NakedIsPaged
