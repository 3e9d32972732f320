\* One market at two venues; a tick is about ten seconds.
CONSTANTS
    Books <- TwoVenues
    Persistence = 2
    MaxAge = 1
    PhantomEdge = 2
    PhantomAge = 0
    TTL = 3
    Republish = 2
    FailureThreshold = 2
    HalfOpenMax = 2
    RecoveryTimeout = 2
    Cycle = 1
    Timeout = 1
SPECIFICATION FairSpec
INVARIANT TypeOK
PROPERTY DataIsRecent
PROPERTY Respaced
PROPERTY FeedRecovers
