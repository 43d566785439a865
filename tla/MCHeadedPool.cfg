\* Two requests for different accounts, two disturbances.
SPECIFICATION MCFairSpec
CONSTANTS
    r1 = r1
    r2 = r2
    ServiceCalls = {r1, r2}
    KindsOf <- MCKindsOf
    TokenOf <- MCTokenOf
    Jobs = {j1}
    Copies = 2
    Forks = 4
    MaxCount = 2
    MaxAttempts = 2
    MaxDisturbances = 2
    None = none
INVARIANTS
    SolverIsOnItsAccount
PROPERTIES
    EveryCallEnds
CHECK_DEADLOCK FALSE
