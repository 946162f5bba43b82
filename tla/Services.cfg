SPECIFICATION ServicesSpec
CONSTANTS
    None = None
    h1 = h1
    h2 = h2
    h3 = h3
    s1 = s1
    s2 = s2
    a1 = a1
    p1 = p1
    Parts = {"clickpay", "subscriptions", "coupons", "bookings", "bank", "captains", "sockets",
             "fares", "groups", "conversation", "reviews", "accounts", "wasl", "charges",
             "cabs", "factors", "keys"}
    Payments = {p1, a1}
    ApplePay = {a1}
    Handlers = {h1, h2, h3}
    Workers = {h1, h2}
    MaxSubs = 3
    MaxSales = 2
    LastDay = 2
    UserOf <- CouponRiders
    DiscountOf <- CouponWorth
    UserLimit = 1
    TotalLimit = 2
    Budget = 4
    RiderOf <- OneRider
    KindsOf <- BothKinds
    JobReplicas = {h1, h2}
    LastSlot = 2
    MaxMisses = 1
    Mobiles = {s1, s2}
    SocketUsers = {s1, s2}
    Sockets = {h1, h2, h3}
    SocketHandlers = {"s1", "s2"}
    Transfers = {"proxy", "earning", "tax"}
    MaxBankFaults = 2
    Captains = {"c1"}
    Groups = {s1, s2}
    EventHandlers = {h1, h2, h3}
CONSTRAINT Unstrained
VIEW RunningPart
SYMMETRY MCSymmetry
INVARIANTS
    TypesOK
    OutcomesAgree
    Ledger
    ActiveIsOffered
    UsageAgrees
    LimitsKept
    UpcomingCovers
    OneRide
    BooksAgree
    RidingAgrees
    Reachable
    OnlineAgrees
    DriverPaidAsStated
    HeldAsShown
    TotalExplained
    RosterAgrees
    HiddenIsEmpty
    RatingAgrees
    OneAccountEach
    EligibilityKept
    PricedAsConfigured
    PositionsFollowRides
PROPERTIES
    HostedPaymentHolds
    TakenIsKept
CHECK_DEADLOCK FALSE
