SPECIFICATION FairSpec
CONSTANTS
    t1 = t1  t2 = t2  u1 = u1  u2 = u2
    None = None
    Trips = {t1}
    RiderOf <- MCOneRider
    Drivers = {d1}
    Handlers = {h1, h2}
    MaxOffers = 5
    MaxLate = 0
    InitiateLimit = 2
    CancelledLimit = 2
    GroupLimit = 1
    RejectedLimit = 2
PROPERTY
    PendingEnds
CHECK_DEADLOCK FALSE
