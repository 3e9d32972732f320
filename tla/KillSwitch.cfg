\* Two callers beside the shutdown; a reset may fail to clear Redis.
CONSTANTS
    Tasks = {a, b, main}
    Main = main
    Nobody = nobody
    RedisFaults = {"delete"}
SPECIFICATION FairSpec
CHECK_DEADLOCK FALSE
INVARIANT TypeOK
INVARIANT ArmIsPersisted
INVARIANT ArmSurvivesRestart
INVARIANT MutedIsArmed
PROPERTY CallsReturn
