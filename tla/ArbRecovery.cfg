\* The recovery against venues that tell the truth.
CONSTANTS
    SuggestedQty = 3
    Requotes = 2
    PrimaryFaults <- EarlyAnswers
    SecondaryFaults <- EarlyAnswers
    UnwindFaults <- EarlyAnswers
SPECIFICATION Spec
CHECK_DEADLOCK FALSE
INVARIANT MatchedStaysPaired
INVARIANT BookedCovers
PROPERTY UnwindOnlyAgainstDead
PROPERTY KeepsTrade
