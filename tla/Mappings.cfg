SPECIFICATION FairSpec
CONSTANTS
    Ids = {Game, Auto}
    Identical = {Game, Auto}
    Dated = {Game}
    Seeds = {Game}
    Tasks = {"validator", "discovery", "settled", "startup", "operator"}
    Verbs = {"confirm"}
    Cycles = 2
    MaxWrites = 2
CHECK_DEADLOCK FALSE
INVARIANTS TypeOK OnePairOwner
PROPERTIES SettledExpires CacheConverges
