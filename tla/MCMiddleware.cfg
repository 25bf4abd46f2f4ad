SPECIFICATION MiddlewareSpec
CONSTANTS
    Task = {t1, t2}
    alice = alice
    bob = bob
    Identity = {alice, bob, Anonymous}
    Credential = {alice, bob, NoToken}
    NoToken = NoToken
    Anonymous = Anonymous
    Nobody = Nobody
    KeySets <- MCKeySets
    FullRate = 1000000
    MinRate = 10
    MinRequests = 2
    Threshold = 5
    Token = 1200
    Rate = 1
    Burst = 3598
    Gap = {1, 1500}
    MaxRequests = 4
    MaxSteps = 4
SYMMETRY Symmetry
INVARIANTS
    RateHolds
    RefusesOnlyAtLimit
    MeasuredOnce
    NoExtraBuckets
    FlaggedMeansSpike
    SteadyNeverFlagged
PROPERTIES
    BurstIsFlagged
CHECK_DEADLOCK FALSE
