----------------------------- MODULE MCServices -----------------------------
(***************************************************************************)
(* Bounds for TLC on the services beside trips and wallets.                *)
(*                                                                         *)
(* A behaviour is one of one service, the part: the services share no      *)
(* table, and what one does to another is an action of the other's module. *)
(* Each part has constants of its own, so that its cases fit.              *)
(***************************************************************************)
EXTENDS ClickPay, BankBooks, Bookings, CodeUse, Connections, CustomerTable, DrivingRows, Eligibility,
    Inboxes, RatingRows, Receipt, RideKeys, Rosters, TLC

CONSTANTS
    Parts,          \* the services of the run
    h1, h2, h3,     \* handlers, callbacks, connections
    s1, s2,         \* rows or users that nothing tells apart
    a1, p1,         \* an Apple Pay payment and one by page
    Workers, MaxSubs, MaxSales, LastDay,        \* of Subscriptions
    KindsOf, JobReplicas, LastSlot,   \* of ScheduledTrips
    MaxMisses,      \* MaxFaults of ScheduledTrips and Captains
    MaxBankFaults   \* of BankTransfers

VARIABLES
    part,
    (* Subscriptions *)
    day, sub, flag, pages, paid, mail, news, answers, charges, queue, renewedOn, task,
    money, sent, renewed, strainedCaptains, reused, asks, stopsOfJobs,
    (* ScheduledTrips *)
    ranOn, tripFaults,
    (* BankTransfers *)
    askedBank, transferJob, retries, bankFaults, stranded,
    (* Captains *)
    askedCaptains, captainFaults,
    (* Presence *)
    up, used, gatewayStops,
    (* Fares *)
    setbacks, overtaken,
    (* ChatGroups *)
    cutJobs,
    (* Conversations *)
    posted, cutSends,
    (* Reviews *)
    reviewFaults,
    (* Accounts *)
    accountJob,
    (* Wasl *)
    nights,
    (* Charges *)
    chargeRow, cab, factor, cityName, entry, cabKey, factorKey, synced, chargeJob,
    chargeFaults, astray,
    (* TripKeys *)
    lostNotices

subVars == <<day, sub, flag, pages, paid, mail, news, answers, charges, queue, renewedOn,
             task, money, sent, renewed, strainedCaptains, reused, asks, stopsOfJobs>>

codeVars == <<promo, uses, inserts, booked, call, clashed, freed, raised>>

tripVars == <<now, trip, upcoming, desk, counts, tripJob, ranOn, calls, tripFaults,
              strained, doubled, missed, left>>

transferVars == <<transfer, moved, askedBank, transferJob, retries, bankFaults, doubts,
                  stranded>>

rideVars == <<captain, ride, askedCaptains, rideEvents, captainJob, captainFaults,
              muddledCaptains>>

socketVars == <<up, used, userKey, clientKey, online, events, socketJob, gatewayStops,
                last, signedOff, muddled>>

fareVars == <<fare, hold, fareJob, setbacks, overtaken, crossed, unwritten>>

groupVars == <<member, receivers, roster, groupJob, cutJobs, crowdedGroups, cutGroups,
               revived>>

chatVars == <<deletedFor, copies, sendJob, posted, cutSends, disturbed>>

reviewVars == <<review, meta, reviewJob, reviewFaults, metaOverlapped, uncounted>>

accountVars == <<account, accountJob, proven, claimedTwice, unseen>>

waslVars == <<today, waslRow, decision, waslJob, nights, reminders, checkedEnds, changed,
              unasked, remindedTwice, cutReminders>>

chargeVars == <<chargeRow, cab, factor, cityName, entry, cabKey, factorKey, synced,
                chargeJob, chargeFaults, astray>>

keyVars == <<keyTrip, tripKey, notice, handing, lostNotices, late, unheard>>

serviceVars == <<vars, part, subVars, codeVars, tripVars, transferVars, rideVars, socketVars,
                 fareVars, groupVars, chatVars, reviewVars, accountVars, waslVars,
                 chargeVars, keyVars>>

Sub == INSTANCE Subscriptions WITH
           Captains <- {"d1"}, Replicas <- {"j1"}, Price <- 1, Period <- 1,
           MaxPages <- 1, MaxAsks <- 2, MaxStops <- 1, job <- queue, ranOn <- renewedOn,
           strained <- strainedCaptains, stops <- stopsOfJobs

Code == INSTANCE Coupons WITH Callers <- {h1, h2}, MaxAccepts <- 3

Sched == INSTANCE ScheduledTrips WITH
             Kinds <- KindsOf, CaptainRiders <- {"r1"}, Replicas <- JobReplicas, Handlers <- {"h1"},
             NotifyAhead <- 1, MaxFaults <- MaxMisses, faults <- tripFaults

Bank == INSTANCE BankTransfers WITH
            Payments <- {"trip", "topup"},
            Plan <- [p \in {"trip", "topup"} |->
                        IF p = "trip" THEN <<"proxy", "earning">> ELSE <<"tax">>],
            Handlers <- {h1, h2}, MaxRetries <- 2, MaxFaults <- MaxBankFaults,
            asked <- askedBank, job <- transferJob, faults <- bankFaults

ASSUME PlansAssumption == Bank!PlansApart

Capt == INSTANCE Captains WITH
            MaxEvents <- 2, MaxFaults <- MaxMisses, asked <- askedCaptains,
            faults <- captainFaults

Sock == INSTANCE Presence WITH
            MaxStops <- 1, stops <- gatewayStops

ASSUME UsersAssumption == Sock!NoneApart

Fare == INSTANCE Fares WITH
            Handlers <- {h1, h2}, Rates <- {200, 300}, BaseFare <- 100, Waits <- {100},
            Discounts <- {50, -20}, FeePercentage <- 10, TaxPercentage <- 10, ChangeLimit <- 1,
            MaxSetbacks <- MaxMisses

ASSUME FiguresAssumption == Fare!Figures

Group == INSTANCE ChatGroups WITH
             Users <- {"u1", "u2"}, Handlers <- {h1, h2}, MaxStops <- 1, stops <- cutJobs

Chat == INSTANCE Conversations WITH
            Users <- {s1, s2}, Handlers <- {h1, h2}, MaxSent <- 2, MaxStops <- 1,
            sent <- posted, stops <- cutSends

Rate == INSTANCE Reviews WITH
            Trips <- {"t1"}, Users <- {"c1", "r1"}, Handlers <- {h1, h2},
            RatedBy <- [t \in {"t1"} |-> [rider |-> "c1", captain |-> "r1"]],
            Ratings <- {100, 500}, MaxReviews <- 3, MaxFaults <- MaxMisses,
            faults <- reviewFaults

ASSUME ReviewersAssumption == Rate!Reviewing

Acc == INSTANCE Accounts WITH
           Ids <- {"i1", "i2"}, Handlers <- {h1, h2}, job <- accountJob

ASSUME TableAssumption == Acc!FiniteTable

Auth == INSTANCE Wasl WITH
            Drivers <- {"c1"}, Workers <- {h1, h2}, Replicas <- 2, Ends <- {2}, LastDay <- 4,
            Fleets <- SUBSET {"VALID", "INVALID"} \ {{}},
            Periods <- [told \in {0, 1} |-> 2 - told]

ASSUME CalendarAssumption == Auth!Calendar

Rates == INSTANCE Charges WITH
             Cities <- {s1, s2}, Names <- {s1, s2, "n3"}, Days <- {0}, Rates <- {2, 3},
             Ids <- {"i1", "i2"}, Handlers <- {h1, h2}, CabRate <- 2, MaxFaults <- MaxMisses,
             NameOf <- [c \in {s1, s2} |-> c],
             row <- chargeRow, name <- cityName, job <- chargeJob, faults <- chargeFaults

Keys == INSTANCE TripKeys WITH
            Trips <- {s1, s2}, Drivers <- {"d1"}, Notices <- {h1, h2},
            MaxLost <- MaxMisses

ASSUME KeysAssumption == Keys!NoneIsApart

\* Three trips booked with the code, of two riders.
CouponRiders == [t \in {"t1", "t2", "t3"} |-> IF t = "t3" THEN "u2" ELSE "u1"]
CouponWorth  == [t \in {"t1", "t2", "t3"} |-> IF t = "t1" THEN 3 ELSE 2]

-----------------------------------------------------------------------------
\* Who asks for which kind of trip, for the cfg files.
OneRider  == [t \in {1, 2} |-> "r1"]
TwoRiders == [t \in {1, 2} |-> IF t = 1 THEN "r1" ELSE "r2"]

BothKinds    == [r \in {"r1", "r2"} |-> {"IMMEDIATELY", "SCHEDULED"}]
OnlyBookings == [r \in {"r1", "r2"} |-> {"SCHEDULED"}]

MCSymmetry == UNION {Permutations(pair) : pair \in {{h1, h2}, {s1, s2}}}

ServicesInit ==
    /\ Init /\ Sub!Init /\ Code!Init /\ Sched!Init /\ Bank!Init /\ Capt!Init /\ Sock!Init
    /\ Fare!Init /\ Group!Init /\ Chat!Init /\ Rate!Init /\ Acc!Init /\ Auth!Init
    /\ Rates!Init /\ Keys!Init
    /\ part \in Parts
    /\ part # "subscriptions" => flag["d1"] = 0
    /\ part # "wasl" => waslRow["c1"].wasl = "PENDING"

\* Charges, cabs and multipliers are written apart from each other and go wrong alike.
PriceParts == {"charges", "cabs", "factors"}

\* The parts beside p stay as they are.
OthersStay(p) ==
    /\ UNCHANGED part
    /\ p # "clickpay" => UNCHANGED vars
    /\ p # "subscriptions" => UNCHANGED subVars
    /\ p # "coupons" => UNCHANGED codeVars
    /\ p # "bookings" => UNCHANGED tripVars
    /\ p # "bank" => UNCHANGED transferVars
    /\ p # "captains" => UNCHANGED rideVars
    /\ p # "sockets" => UNCHANGED socketVars
    /\ p # "fares" => UNCHANGED fareVars
    /\ p # "groups" => UNCHANGED groupVars
    /\ p # "conversation" => UNCHANGED chatVars
    /\ p # "reviews" => UNCHANGED reviewVars
    /\ p # "accounts" => UNCHANGED accountVars
    /\ p # "wasl" => UNCHANGED waslVars
    /\ p \notin PriceParts => UNCHANGED chargeVars
    /\ p # "keys" => UNCHANGED keyVars

\* OthersStay comes first for TLC, which then sees to it once a state. A charge whose
\* handler is cut short has gone astray: calls fail in the other two tables only.
ServicesNext ==
    \/ part = "clickpay" /\ OthersStay("clickpay") /\ Next
    \/ part = "subscriptions" /\ OthersStay("subscriptions") /\ Sub!Next
    \/ part = "coupons" /\ OthersStay("coupons") /\ Code!Next
    \/ part = "bookings" /\ OthersStay("bookings") /\ Sched!Next
    \/ part = "bank" /\ OthersStay("bank") /\ Bank!Next
    \/ part = "captains" /\ OthersStay("captains") /\ Capt!Next
    \/ part = "sockets" /\ OthersStay("sockets") /\ Sock!Next
    \/ part = "fares" /\ OthersStay("fares") /\ Fare!Next
    \/ part = "groups" /\ OthersStay("groups") /\ Group!Next
    \/ part = "conversation" /\ OthersStay("conversation") /\ Chat!Next
    \/ part = "reviews" /\ OthersStay("reviews") /\ Rate!Next
    \/ part = "accounts" /\ OthersStay("accounts") /\ Acc!Next
    \/ part = "wasl" /\ OthersStay("wasl") /\ Auth!Next
    \/ part = "charges" /\ OthersStay("charges")
           /\ (Rates!CityFaults \/ \E h \in {h1, h2} : Rates!ChargeNext(h))
    \/ part = "cabs" /\ OthersStay("cabs")
           /\ (Rates!Faults \/ \E h \in {h1, h2} : Rates!CabNext(h))
    \/ part = "factors" /\ OthersStay("factors")
           /\ (Rates!Faults \/ \E h \in {h1, h2} : Rates!FactorNext(h))
    \/ part = "keys" /\ OthersStay("keys") /\ Keys!Next

ServicesSpec == ServicesInit /\ [][ServicesNext]_serviceVars

\* The fairness of each module, of the part that runs.
ServicesLiveSpec ==
    /\ ServicesSpec
    /\ WF_subVars(part = "subscriptions" /\ Sub!NextDay)
    /\ WF_subVars(part = "subscriptions" /\ Sub!Cron("j1"))
    /\ \A w \in Workers : WF_subVars(part = "subscriptions" /\ Sub!Step(w))
    /\ SF_subVars(part = "subscriptions" /\ \E w \in Workers : Sub!Renew(w, "j1"))
    /\ WF_tripVars(part = "bookings" /\ Sched!NextSlot)
    /\ WF_tripVars(part = "bookings" /\ Sched!Dispatch)
    /\ \A j \in JobReplicas : /\ WF_tripVars(part = "bookings" /\ Sched!Cron(j))
                              /\ WF_tripVars(part = "bookings" /\ Sched!JobSteps(j))
    /\ \A h \in {h1, h2} : WF_transferVars(part = "bank" /\ Bank!Step(h))
    /\ \A h \in EventHandlers :
           /\ WF_rideVars(part = "captains" /\ Capt!WriteAvailability(h))
           /\ WF_rideVars(part = "captains" /\ Capt!Finish(h))
    /\ SF_rideVars(part = "captains" /\ \E h \in EventHandlers : Capt!EventStep(h))

\* What of a state may differ from the other states of the part that runs.
RunningPart ==
    CASE part = "fares" -> <<part, fareVars>>
      [] part = "clickpay" -> <<part, vars>>
      [] part \in PriceParts -> <<part, chargeVars>>
      [] part = "conversation" -> <<part, chatVars>>
      [] part = "groups" -> <<part, groupVars>>
      [] part = "bookings" -> <<part, tripVars>>
      [] part = "keys" -> <<part, keyVars>>
      [] part = "wasl" -> <<part, waslVars>>
      [] part = "coupons" -> <<part, codeVars>>
      [] part = "subscriptions" -> <<part, subVars>>
      [] part = "bank" -> <<part, transferVars>>
      [] part = "captains" -> <<part, rideVars>>
      [] part = "sockets" -> <<part, socketVars>>
      [] part = "reviews" -> <<part, reviewVars>>
      [] part = "accounts" -> <<part, accountVars>>

\* A trip is dearer at its end, and to its new destination, than it was estimated to be.
Estimated ==
    \A h \in {h1, h2} :
        /\ fareJob[h].op \in {"accept", "cancelStarted"} => fareJob[h].base = 200
        /\ fareJob[h].op \in {"change", "complete"} => fareJob[h].base = 300

\* Nothing is claimed about somebody from the first overlap or failure on: the
\* safety run does not go on there where a part has one captain, code or rider, nor
\* for a captain without a subscription, whom no job of midnight looks at.  Payments
\* and groups share no state and are spoken of one by one: one of them is under way.
Unstrained ==
    strainedCaptains = {} /\ clashed = {} /\ strained = {} /\ muddledCaptains = {} /\ muddled = {}
    /\ ~crossed /\ ~unwritten /\ disturbed = {} /\ crowdedGroups \cup cutGroups \cup revived = {}
    /\ metaOverlapped \cup uncounted # {"c1", "r1"} /\ claimedTwice \cup unseen = {}
    /\ unasked \cup remindedTwice \cup cutReminders = {}
    /\ (part = "wasl" => waslRow["c1"].sub)
    /\ (part = "fares" => Estimated)
    /\ (part \in PriceParts => Rates!Followed)
    /\ Cardinality({g \in Groups : Group!On(g) # {}}) <= 1
    /\ (part = "clickpay" => Cardinality({p \in Payments : page[p] # "new"}) <= 1)
    /\ late \cup unheard = {}

-----------------------------------------------------------------------------
(* The properties; each is stated and explained in its module *)

\* Every row, handler and message of every service has its shape.
TypesOK ==
    CASE part = "clickpay" -> TypeOK
      [] part = "subscriptions" -> Sub!TypeOK
      [] part = "coupons" -> Code!TypeOK
      [] part = "bookings" -> Sched!TypeOK
      [] part = "bank" -> Bank!TypeOK
      [] part = "captains" -> Capt!TypeOK
      [] part = "sockets" -> Sock!TypeOK
      [] part = "fares" -> Fare!TypeOK
      [] part = "groups" -> Group!TypeOK
      [] part = "conversation" -> Chat!TypeOK
      [] part = "reviews" -> Rate!TypeOK
      [] part = "accounts" -> Acc!TypeOK
      [] part = "wasl" -> Auth!TypeOK
      [] part \in PriceParts -> Rates!TypeOK
      [] part = "keys" -> Keys!TypeOK

\* What captains paid and owe makes up what they were sold.
Ledger == part = "subscriptions" => Sub!Ledger
\* A captain with a running subscription is offered trips.
ActiveIsOffered == part = "subscriptions" => Sub!ActiveIsOffered
\* A subscription that is due does not stay active.
DueIsEnded == Sub!DueIsEnded

\* A booking is dispatched or ended when its time comes.
BookingIsServed == Sched!BookingIsServed
\* The same, of riders who are no captains too.
EveryBookingIsServed == Sched!EveryBookingIsServed

\* A transfer does not stay PENDING.
TransferSettles == Bank!TransferSettles

\* A captain whose trip is over is free again.
FreeAgain == Capt!FreeAgain

\* Trips are priced by what administrators set.
PricedAsConfigured == part \in PriceParts => Rates!PricedAsConfigured
=============================================================================
