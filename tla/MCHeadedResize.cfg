\* A pool that shrinks under a request, and grows again.
SPECIFICATION ResizeSpec
CONSTANTS
    r1 = r1
    r2 = r2
    ServiceCalls = {r1}
    KindsOf <- MCKindsOf
    TokenOf <- MCTokenOf
    Jobs = {j1}
    Copies = 2
    Forks = 4
    MaxCount = 2
    MaxAttempts = 2
    MaxDisturbances = 1
    None = none
INVARIANTS
    WithinBrowserCount
CHECK_DEADLOCK FALSE
