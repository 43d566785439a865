SPECIFICATION MCFairSpec
CONSTANTS
    r1 = r1
    r2 = r2
    f1 = f1
    Requests = {r1, r2}
    Refills = {f1}
    Clients <- MCClients
    NoAffinity = {f1}
    Projects = {"p"}
    ProjectOf <- MCProjectOf
    Buckets = {"image"}
    BucketOf <- MCBucketOf
    Seeded = {}
    NoBucket = none
    MaxWorkers = 2
    Tabs = 1
    MaxTries = 3
    MaxTarget = 1
    Parallelism = 1
    MaxEvents = 1
    h1 = h1
    h2 = h2
    i1 = i1
    i2 = i2
    b1 = b1
    b2 = b2
    Handles = {h1, h2}
    Instances = {i1, i2}
    InstanceOf <- MCInstanceOf
    NoOne = NoOne
    Browsers = {b1, b2}
    Sockets = {w1, w2, w3}
    Callers = {c1}
    RouteOf <- MCRouteOf
    Admin = Admin
    MaxMoves = 1
INVARIANTS
    ReservationsAreHeld
    HandlesAreUsedOnce
PROPERTIES
    WaitersAreServed
    RevokedIsRefused
    RouteHeals
\* A closed pool whose requests are done, and a route nobody uses, may stop.
CHECK_DEADLOCK FALSE
