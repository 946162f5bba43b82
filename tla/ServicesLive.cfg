SPECIFICATION ServicesLiveSpec
CONSTANTS
    None = None
    h1 = h1
    h2 = h2
    h3 = h3
    s1 = s1
    s2 = s2
    a1 = a1
    p1 = p1
    Parts = {"subscriptions", "bookings", "bank", "captains"}
    Payments = {p1, a1}
    ApplePay = {a1}
    Handlers = {h1, h2, h3}
    Workers = {h1}
    MaxSubs = 3
    MaxSales = 1
    LastDay = 2
    UserOf <- CouponRiders
    DiscountOf <- CouponWorth
    UserLimit = 2
    TotalLimit = 3
    Budget = 4
    RiderOf <- TwoRiders
    KindsOf <- OnlyBookings
    JobReplicas = {h1}
    LastSlot = 1
    MaxMisses = 0
    Mobiles = {s1, s2}
    SocketUsers = {s1, s2}
    Sockets = {h1, h2, h3}
    SocketHandlers = {"s1", "s2"}
    Transfers = {"proxy", "earning", "tax"}
    MaxBankFaults = 1
    Captains = {"c1"}
    Groups = {s1, s2}
    EventHandlers = {h1, h2}
PROPERTIES
    DueIsEnded
    BookingIsServed
    TransferSettles
    FreeAgain
CHECK_DEADLOCK FALSE
