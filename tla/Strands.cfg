SPECIFICATION StrandsFairSpec
CONSTANTS
    Size = 2
    MaxCrashes = 1
    FaultSets = {{"process_dies", "unread"},
                 {"process_dies", "place_times_out", "query_fails", "write_fails", "page_fails", "no_positions"},
                 {"answer_lost"},
                 {"lot_missed"}}
    MaxAutoP = 2
    MaxAutoS = 1
    Mult = 1
    AbsentCycles = 3
    MaxFlickers = 1
    MaxLost = 1
    AutoClose = TRUE
INVARIANTS StrandsTypeOK FilledIsPaired ReconciledWasSold VolumeCap OneIncidentPerLot
PROPERTIES BootPages NothingBoughtEnds PhantomEnds
CHECK_DEADLOCK FALSE
