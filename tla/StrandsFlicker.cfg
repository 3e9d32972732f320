SPECIFICATION StrandsSpec
CONSTANTS
    Size = 1
    MaxCrashes = 0
    FaultSets = {{"lot_missed"}}
    MaxAutoP = 0
    MaxAutoS = 0
    Mult = 1
    AbsentCycles = 3
    MaxFlickers = 1
    MaxLost = 0
    AutoClose = FALSE
PROPERTIES FlickersCloseNothing
CHECK_DEADLOCK FALSE
