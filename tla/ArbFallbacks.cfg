\* The fallback chain against venues that lose answers and cancels.
CONSTANTS
    SuggestedQty = 2
    Requotes = 1
    PrimaryFaults <- UnreliablePrimary
    SecondaryFaults <- UnreliableSecondary
    UnwindFaults <- UnreliableUnwind
SPECIFICATION FairSpec
CHECK_DEADLOCK FALSE
INVARIANT TypeOK
INVARIANT HedgeOnce
INVARIANT NakedIsPaged
PROPERTY SubmitOnlyAfterDead
PROPERTY FilledPrimarySettles
