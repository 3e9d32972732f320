SPECIFICATION Spec
CONSTANTS
    Ids = {Game, Auto}
    Identical = {Game, Auto}
    Dated = {}
    Seeds = {Game}
    Tasks = {"validator", "revalidate"}
    Verbs = {"confirm"}
    Cycles = 3
    MaxWrites = 2
PROPERTY QuarantineHolds
CHECK_DEADLOCK FALSE
