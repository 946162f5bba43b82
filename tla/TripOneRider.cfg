SPECIFICATION Spec
CONSTANTS
    t1 = t1  t2 = t2  u1 = u1  u2 = u2
    None = None
    Trips = {t1, t2}
    RiderOf <- MCOneRider
    Drivers = {d1}
    Handlers = {h1, h2}
    MaxOffers = 2
    MaxLate = 0
    InitiateLimit = 2
    CancelledLimit = 2
    GroupLimit = 1
    RejectedLimit = 1
SYMMETRY MCSymmetry
INVARIANT
    OneRunningTrip
CHECK_DEADLOCK FALSE
