SPECIFICATION Spec
CONSTANTS
    None = None
    u1 = u1
    t1 = t1
    t2 = t2
    r1 = r1
    r2 = r2
    r3 = r3
    r4 = r4
    Users = {u1}
    Trips <- MCTrips
    RiderOf <- MCRiderOf
    Requests = {r1, r2, r3}
    Amounts = {1, 4}
    Discounts = {0}
    MaxInFlight = 2
    Opening <- MCOpening
SYMMETRY MCSymmetry
PROPERTY
    NotFoundMeansNoHold
CHECK_DEADLOCK FALSE
