---------------------------- MODULE TripLifecycle ----------------------------
(***************************************************************************)
(* The life of an immediate trip: rides-service TripsService.              *)
(*                                                                         *)
(* A trip is one "trips" row, its offers to drivers are "trip_drivers"     *)
(* rows, and its money lies in the payment service, reached by one remote  *)
(* call per movement.  Every handler reads the trip, checks it, awaits     *)
(* (other services, the payment, the offer rows) and then writes the       *)
(* columns it decided on, unconditionally and without a transaction; the   *)
(* service runs in several replicas.  So a handler is a process that takes *)
(* one step per access to the database or the payment service.             *)
(*                                                                         *)
(* A request its first check refuses changes nothing and is not a step.    *)
(* Fares, OTP values, positions and waiting times only decide which of two *)
(* branches a handler takes, and both are allowed.                         *)
(***************************************************************************)
EXTENDS Naturals, FiniteSets

CONSTANTS
    Trips,          \* trip ids the riders may create
    RiderOf,        \* the rider of each trip
    Drivers,        \* drivers who can be asked
    Handlers,       \* bound: how many requests are being served at once
    MaxLate,        \* bound: requests begun about trips already strained (below)
    MaxOffers,      \* bound: the trip_drivers rows that can be inserted
    InitiateLimit,  \* MAX_DRIVERS_REQUEST_LIMIT_FOR_PENDING_TRIP, 5 by default
    CancelledLimit, \* MAX_TRIP_REQUESTS_LIMIT_FOR_CANCELLED_TRIP, 3
    GroupLimit,     \* MAX_DRIVERS_REQUEST_LIMIT_FOR_CANCELLED_TRIP, 3
    RejectedLimit,  \* MAX_TRIP_REQUESTS_LIMIT_FOR_REJECTED_TRIP, 3
    None            \* NULL

ASSUME IdsAssumption ==
    /\ None \notin Trips \cup Drivers \cup Nat
    /\ DOMAIN RiderOf = Trips

ASSUME LimitsAssumption ==
    {MaxLate, MaxOffers, InitiateLimit, CancelledLimit, GroupLimit, RejectedLimit} \subseteq Nat

VARIABLES
    trip,       \* trips rows
    offer,      \* trip_drivers rows
    held,       \* payment service: open holds of each trip
    paid,       \* payment service: confirmed holds of each trip
    job,        \* what each handler is serving
    pc,         \* where it stands
    saw,        \* the trip row it read
    todo,       \* the drivers it still has to ask
    strained,   \* history: trips two handlers decided about at once, or whose
                \* handler died, or whose offer was used for another trip
    late        \* how many requests have begun about strained trips

money == <<held, paid>>
local == <<job, saw, todo>>
vars  == <<trip, offer, money, local, pc, strained, late>>

-----------------------------------------------------------------------------
(* Rows *)

TripStatus == {"none", "PENDING", "ACCEPTED_BY_DRIVER", "REJECTED_BY_DRIVER",
    "CANCELLED_BY_DRIVER", "DRIVER_ARRIVED", "CANCELLED_BY_RIDER", "STARTED", "COMPLETED",
    "NO_DRIVER", "EXPIRED", "CANCELLED_BY_ADMIN", "BOOKING_CANCELLED"}

TripPreviousStatus == {"IN_PROGRESS", "CANCELLED_BEFORE_ARRIVED", "CANCELLED_AFTER_ARRIVED"}

TransactionStatus == {"none", "BLOCKED", "DEDUCTED", "RELEASED"}

OfferStatus == {"none", "PENDING", "ACCEPTED", "DECLINED", "EXPIRED", "CANCELLED"}

\* requestedStatus: why a driver was asked.
Asked == {"none", "INITIATE", "CANCELLED_BY_DRIVER", "REJECTED_BY_DRIVER"}

\* A trips row as the entity's defaults make it; xAt says that a time is set.
NewTrip(status) ==
    [status |-> status, previous |-> "IN_PROGRESS", driver |-> None, cab |-> TRUE,
     cancelledByDriver |-> 0, cancelledAt |-> FALSE, expiredAt |-> FALSE,
     assignedAt |-> FALSE, reachedAt |-> FALSE, startedAt |-> FALSE,
     completed |-> FALSE, payment |-> "none"]

Offers == 1..MaxOffers

NoOffer == [status |-> "none", trip |-> None, driver |-> None, asked |-> "none", group |-> 0]

OffersOf(t) == {o \in Offers : offer[o].status # "none" /\ offer[o].trip = t}

Pending(S) == {o \in S : offer[o].status = "PENDING"}

-----------------------------------------------------------------------------
(* Handlers *)

Ops == {"none", "create", "dispatch", "accept", "reject", "arrive", "start", "complete",
        "cancelByRider", "cancelBooking", "cancelByDriver", "cancelByAdmin",
        "allCabs", "noCab"}

PCs == {"idle", "expire", "expireOffer", "save", "balance", "emit", "look", "search",
        "settle", "reset", "offer", "match", "hold", "mark", "confirm", "release",
        "write", "again"}

\* plan is the branch a handler has decided on; old the trip a creation retires.
Job(op, t, d, o, plan, old) ==
    [op |-> op, trip |-> t, driver |-> d, offer |-> o, plan |-> plan, old |-> old]

NoJob == Job("none", None, None, None, "none", None)

GoTo(h, p) == pc' = [pc EXCEPT ![h] = p]

\* The handlers that use a column of the row they read first after their checks.
Remembers == {"accept", "cancelByDriver"}

\* The handler starts, having read its trip and passed its checks.
Begin(h, j, p) ==
    /\ pc[h] = "idle"
    /\ job' = [job EXCEPT ![h] = j]
    /\ saw' = [saw EXCEPT ![h] = IF j.op \in Remembers THEN trip[j.trip] ELSE @]
    /\ GoTo(h, p)
    /\ UNCHANGED <<trip, offer, money, todo, strained>>

Leave(h) ==
    /\ GoTo(h, "idle")
    /\ job' = [job EXCEPT ![h] = NoJob]
    /\ saw' = [saw EXCEPT ![h] = NewTrip("none")]
    /\ todo' = [todo EXCEPT ![h] = {}]

\* The handler goes on as processTripFromKafka, which nobody awaits.
Dispatch(h, p) ==
    /\ GoTo(h, p)
    /\ job' = [job EXCEPT ![h] = Job("dispatch", job[h].trip, None, None, "none", None)]
    /\ saw' = [saw EXCEPT ![h] = NewTrip("none")]
    /\ UNCHANGED todo

\* Handlers that have read trip t and may still change it.
Deciding(t) == {h \in Handlers : /\ pc[h] \notin {"idle", "emit", "offer"}
                                 /\ t \in {job[h].trip, job[h].old}}

\* Handler h writes row t: anyone else deciding about it now holds a stale copy.
Put(h, t, row) ==
    /\ trip' = [trip EXCEPT ![t] = row]
    /\ strained' = IF Deciding(t) \subseteq {h} THEN strained ELSE strained \cup {t}

-----------------------------------------------------------------------------
(* createTrip *)

\* checkRiderHasTripRunning's query: the rider's trips that look unfinished.
Running(t) ==
    {s \in Trips : /\ RiderOf[s] = RiderOf[t]
                   /\ trip[s].status \notin {"none", "BOOKING_CANCELLED"}
                   /\ ~trip[s].completed /\ ~trip[s].cancelledAt /\ ~trip[s].expiredAt}

\* A running trip that is still looking for a driver is retired, with one of
\* its pending offers; any other one makes the service refuse the new trip.
Create(h, t) ==
    /\ trip[t].status = "none"
    /\ \A g \in Handlers : job[g].trip # t
    /\ \/ Running(t) = {} /\ Begin(h, Job("create", t, None, None, "none", None), "save")
       \/ \E s \in Running(t) :
             /\ trip[s].status \in {"PENDING", "NO_DRIVER"}
             /\ LET pending == Pending(OffersOf(s))
                IN  \E o \in IF pending = {} THEN {None} ELSE pending :
                       Begin(h, Job("create", t, None, o, "none", s), "expire")

\* Mutant: the retired trip is given its status only.
ExpireOldStatusOnly(h) ==
    LET s == job[h].old
    IN  /\ pc[h] = "expire"
        /\ Put(h, s, [trip[s] EXCEPT !.status = "EXPIRED"])
        /\ GoTo(h, IF job[h].offer = None THEN "save" ELSE "expireOffer")
        /\ UNCHANGED <<offer, money, local>>

\* The first half of expireTripAndPendingDriver.
ExpireOld(h) ==
    LET s == job[h].old
    IN  /\ pc[h] = "expire"
        /\ Put(h, s, [trip[s] EXCEPT !.status = "EXPIRED", !.expiredAt = TRUE])
        /\ GoTo(h, IF job[h].offer = None THEN "save" ELSE "expireOffer")
        /\ UNCHANGED <<offer, money, local>>

ExpireOldOffer(h) ==
    /\ pc[h] = "expireOffer"
    /\ offer' = [offer EXCEPT ![job[h].offer].status = "EXPIRED"]
    /\ GoTo(h, "save")
    /\ UNCHANGED <<trip, money, local, strained>>

\* Two creations of one rider at once may both have found nothing running.
Save(h) ==
    LET t == job[h].trip
    IN  /\ pc[h] = "save"
        /\ trip' = [trip EXCEPT ![t] = NewTrip("PENDING")]
        /\ strained' = IF \E g \in Handlers \ {h} :
                             job[g].op = "create" /\ RiderOf[job[g].trip] = RiderOf[t]
                       THEN strained \cup {t} ELSE strained
        /\ GoTo(h, "balance")
        /\ UNCHANGED <<offer, money, local>>

\* The balance is asked for after the insert.  An administrator may have named
\* the driver: then only that driver is asked, busy or not.
Balance(h) ==
    LET t == job[h].trip
    IN  /\ pc[h] = "balance"
        /\ UNCHANGED <<offer, money>>
        /\ \/ /\ Put(h, t, [trip[t] EXCEPT !.status = "EXPIRED", !.expiredAt = TRUE])
              /\ Leave(h)
           \/ Dispatch(h, "emit") /\ UNCHANGED <<trip, strained>>
           \/ \E d \in Drivers :
                 /\ todo' = [todo EXCEPT ![h] = {d}]
                 /\ GoTo(h, "offer")
                 /\ UNCHANGED <<trip, job, saw, strained>>

-----------------------------------------------------------------------------
(* emitTripsToKafka and processTripFromKafka: asking drivers *)

Searching == {"PENDING", "REJECTED_BY_DRIVER"}

Emit(h) ==
    LET row == trip[job[h].trip]
    IN  /\ pc[h] = "emit"
        /\ IF /\ row.status \in Searching \cup {"NO_DRIVER"}
              /\ row.driver = None /\ ~row.completed
              /\ ~row.cancelledAt /\ ~row.assignedAt
           THEN GoTo(h, "look") /\ UNCHANGED local
           ELSE Leave(h)
        /\ UNCHANGED <<trip, offer, money, strained>>

\* Mutant: an offer is labelled with the trip's own status.
RequestedStatusCopied(row) == row.status

\* findTripDriverRequestedStatus; "none" is its undefined.
RequestedStatus(row) ==
    IF row.status = "PENDING" /\ row.previous = "IN_PROGRESS" THEN "INITIATE"
    ELSE IF row.status = "PENDING" /\ row.previous = "CANCELLED_BEFORE_ARRIVED"
    THEN "CANCELLED_BY_DRIVER"
    ELSE IF row.status = "REJECTED_BY_DRIVER" THEN "REJECTED_BY_DRIVER" ELSE "none"

\* findRequestsCountAndSettingLimit, and the test made of its answer.
LimitReached(t, row) ==
    LET Count(P(_)) == Cardinality({o \in OffersOf(t) : P(offer[o])})
        initiated(o) == o.asked = "INITIATE"
        declined(o)  == o.status = "DECLINED"
        unanswered(o) == /\ o.asked = "CANCELLED_BY_DRIVER"
                         /\ o.status \in {"EXPIRED", "DECLINED"}
                         /\ o.group = row.cancelledByDriver
    IN  CASE RequestedStatus(row) = "INITIATE" -> Count(initiated) >= InitiateLimit
          [] RequestedStatus(row) = "CANCELLED_BY_DRIVER" ->
                row.cancelledByDriver >= CancelledLimit \/ Count(unanswered) >= GroupLimit
          [] RequestedStatus(row) = "REJECTED_BY_DRIVER" -> Count(declined) >= RejectedLimit
          [] OTHER -> FALSE

\* The rider is offered another cab type only if the trip named one.
MayChangeCab(row) == row.status \in Searching /\ row.cab /\ row.previous = "IN_PROGRESS"

\* The trip is read three times in a row; here, once.
Look(h) ==
    LET t   == job[h].trip
        row == trip[t]
        accepted == \E o \in OffersOf(t) : offer[o].status = "ACCEPTED"
    IN  /\ pc[h] = "look"
        /\ saw' = [saw EXCEPT ![h] = row]
        /\ IF LimitReached(t, row)
           THEN /\ job' = [job EXCEPT ![h].plan =
                              IF MayChangeCab(row) THEN "noDriver" ELSE "expired"]
                /\ GoTo(h, "settle")
           ELSE /\ job' = [job EXCEPT ![h].plan = IF accepted THEN "accepted" ELSE "ask"]
                /\ GoTo(h, "search")
        /\ UNCHANGED <<trip, offer, money, todo, strained>>

\* What is decided when no driver is near.  With one cab type only there is
\* nothing to offer the rider: cabTypes is read from redis.
NoDriverPlans(row) ==
    (IF MayChangeCab(row) THEN {"noDriver"} ELSE {}) \cup
    {IF row.previous = "CANCELLED_BEFORE_ARRIVED" THEN "cancelled" ELSE "expired"}

\* findDriversToSendRequestTo collects the drivers to leave out (asked before for
\* this trip, or yet to answer any trip), but the driver service's findCaptainList
\* does not use the list.  It returns the nearest drivers whose row says that they
\* are at work and not riding, and the row follows the trips by events (Captains):
\* any drivers.
Search(h) ==
    LET t   == job[h].trip
        row == saw[h]
    IN  /\ pc[h] = "search"
        /\ UNCHANGED <<trip, offer, money, strained>>
        /\ \/ /\ \E p \in NoDriverPlans(row) : job' = [job EXCEPT ![h].plan = p]
              /\ GoTo(h, "settle")
              /\ UNCHANGED <<saw, todo>>
           \/ \E S \in SUBSET Drivers :
                 /\ S # {} /\ RequestedStatus(trip[t]) # "none"
                 /\ IF job[h].plan = "accepted" \/ RequestedStatus(row) = "none"
                    THEN Leave(h)
                    ELSE /\ todo' = [todo EXCEPT ![h] = S]
                         /\ GoTo(h, IF RequestedStatus(row) = "CANCELLED_BY_DRIVER"
                                    THEN "reset" ELSE "offer")
                         /\ UNCHANGED <<job, saw>>

\* The NO_DRIVER update is conditional on the row; the others are not.
SettleSearch(h) ==
    LET t   == job[h].trip
        row == trip[t]
    IN  /\ pc[h] = "settle"
        /\ Put(h, t, CASE job[h].plan = "noDriver" -> [row EXCEPT !.status = "NO_DRIVER"]
                       [] job[h].plan = "cancelled" ->
                            [row EXCEPT !.status = "CANCELLED_BY_DRIVER", !.cancelledAt = TRUE]
                       [] OTHER -> [row EXCEPT !.status = "EXPIRED", !.expiredAt = TRUE])
        /\ Leave(h)
        /\ UNCHANGED <<offer, money>>

\* "Need to update trip data so that trip can be process again".
Reset(h) ==
    LET t == job[h].trip
    IN  /\ pc[h] = "reset"
        /\ Put(h, t, [trip[t] EXCEPT !.driver = None, !.cancelledAt = FALSE,
                                     !.assignedAt = FALSE, !.payment = "none"])
        /\ GoTo(h, "offer")
        /\ UNCHANGED <<offer, money, local>>

FreshOffer == CHOOSE o \in Offers : /\ offer[o].status = "none"
                                    /\ \A x \in Offers : offer[x].status = "none" => o <= x

\* The drivers are asked one after the other.  (findDriverGroupId reads the
\* cancellation counter once more just before; here it is the one just read.)
\* A group that is not given, and the reason of an administrator's offer, are
\* the defaults of their columns.
Ask(h, d) ==
    LET t == job[h].trip
        asked == IF job[h].op = "create" THEN "INITIATE" ELSE RequestedStatus(saw[h])
    IN  /\ pc[h] = "offer" /\ d \in todo[h]
        /\ \E o \in Offers : offer[o].status = "none"
        /\ offer' = [offer EXCEPT ![FreshOffer] =
                        [status |-> "PENDING", trip |-> t, driver |-> d, asked |-> asked,
                         group |-> IF asked = "CANCELLED_BY_DRIVER"
                                   THEN saw[h].cancelledByDriver ELSE 1]]
        /\ IF todo[h] = {d} THEN Leave(h)
           ELSE todo' = [todo EXCEPT ![h] = @ \ {d}] /\ UNCHANGED <<pc, job, saw>>
        /\ UNCHANGED <<trip, money, strained>>

\* Mutant: the offers expire, but nobody looks for other drivers.
ExpireOffersOnly(h, t, S) ==
    /\ S # {} /\ S \subseteq Pending(OffersOf(t))
    /\ offer' = [o \in Offers |-> IF o \in S THEN [offer[o] EXCEPT !.status = "EXPIRED"]
                                  ELSE offer[o]]
    /\ UNCHANGED <<trip, money, local, pc, strained>>

\* findAndExpireAllPendingTripDrivers, every five minutes: offers past their
\* time expire and each of their trips is dispatched again.
ExpireOffers(h, t, S) ==
    /\ pc[h] = "idle"
    /\ S # {} /\ S \subseteq Pending(OffersOf(t))
    /\ offer' = [o \in Offers |-> IF o \in S THEN [offer[o] EXCEPT !.status = "EXPIRED"]
                                  ELSE offer[o]]
    /\ job' = [job EXCEPT ![h] = Job("dispatch", t, None, None, "none", None)]
    /\ GoTo(h, "emit")
    /\ UNCHANGED <<trip, money, saw, todo, strained>>

-----------------------------------------------------------------------------
(* The first read of the other handlers: what each one insists on *)

Live(row) == ~row.cancelledAt /\ ~row.completed

Known(row) == row.status \notin {"none", "BOOKING_CANCELLED"}

Accept(h, t, d) ==
    LET row == trip[t]
    IN  /\ Known(row) /\ ~row.cancelledAt /\ ~row.expiredAt /\ ~row.reachedAt
        /\ row.status # "ACCEPTED_BY_DRIVER"
        /\ Begin(h, Job("accept", t, d, None, "none", None), "match")

\* Mutant: a driver may reject a trip that has expired.
RejectExpired(h, t) ==
    LET row == trip[t]
    IN  /\ Known(row) /\ Live(row) /\ ~row.assignedAt
        /\ Begin(h, Job("reject", t, None, None, "none", None), "mark")

\* Nothing ties the driver to an offer of the trip.
Reject(h, t) ==
    LET row == trip[t]
    IN  /\ Known(row) /\ Live(row) /\ ~row.expiredAt /\ ~row.assignedAt
        /\ Begin(h, Job("reject", t, None, None, "none", None), "mark")

Arrive(h, t) ==
    /\ trip[t].status = "ACCEPTED_BY_DRIVER" /\ trip[t].driver # None
    /\ Begin(h, Job("arrive", t, None, None, "none", None), "write")

Start(h, t) ==
    /\ trip[t].status = "DRIVER_ARRIVED" /\ trip[t].driver # None
    /\ Begin(h, Job("start", t, None, None, "none", None), "write")

\* The status is not looked at: a start time is enough.
Complete(h, t) ==
    LET row == trip[t]
    IN  /\ Known(row) /\ Live(row) /\ row.startedAt /\ row.driver # None
        /\ Begin(h, Job("complete", t, None, None, "confirm", None), "confirm")

\* Within RIDER_CANCEL_TIME_LIMIT the hold is released, later it is charged.
CancelByRider(h, t) ==
    LET row == trip[t]
        plans == IF row.startedAt THEN {"confirm"}
                 ELSE IF row.assignedAt THEN {"confirm", "release"} ELSE {"write"}
    IN  /\ Known(row) /\ Live(row) /\ ~row.expiredAt
        /\ \E p \in plans : Begin(h, Job("cancelByRider", t, None, None, p, None), p)

CancelBooking(h, t) ==
    /\ trip[t].status \in Searching
    /\ Begin(h, Job("cancelBooking", t, None, None, "none", None), "write")

CancelByDriver(h, t) ==
    LET row == trip[t]
    IN  /\ Known(row) /\ Live(row) /\ row.driver # None
        /\ Begin(h, Job("cancelByDriver", t, row.driver, None, "release", None), "release")

CancelByAdmin(h, t, super) ==
    LET row == trip[t]
    IN  /\ row.status # "none"
        /\ super \/ (Known(row) /\ Live(row) /\ ~row.assignedAt /\ ~row.expiredAt)
        /\ Begin(h, Job("cancelByAdmin", t, None, None, "release", None), "release")

AcceptWithAllCabs(h, t) ==
    /\ trip[t].status = "NO_DRIVER" /\ ~trip[t].expiredAt
    /\ Begin(h, Job("allCabs", t, None, None, "none", None), "write")

DeclineWithAllCabs(h, t) ==
    /\ trip[t].status = "NO_DRIVER" /\ ~trip[t].expiredAt
    /\ Begin(h, Job("noCab", t, None, None, "none", None), "write")

-----------------------------------------------------------------------------
(* Their next steps: offer rows *)

\* tripAcceptedByDriver looks for a pending offer to this driver, of whatever
\* trip, and gives a trip without a cab type the driver's.
MatchOffer(h) ==
    LET t == job[h].trip
    IN  /\ pc[h] = "match"
        /\ \/ \E o \in Pending(Offers) :
                 /\ offer[o].driver = job[h].driver
                 /\ job' = [job EXCEPT ![h].offer = o]
                 /\ trip' = [trip EXCEPT ![t].cab = @ \/ ~saw[h].cab]
                 /\ strained' = IF offer[o].trip = t THEN strained
                                ELSE strained \cup {t, offer[o].trip}
                 /\ GoTo(h, "hold")
                 /\ UNCHANGED <<saw, todo>>
           \/ /\ \A o \in Pending(Offers) : offer[o].driver # job[h].driver
              /\ Leave(h)
              /\ UNCHANGED <<trip, strained>>
        /\ UNCHANGED <<offer, money>>

\* Mutant: the offer's new status is not saved.
MarkAcceptedUnsaved(h) ==
    /\ pc[h] = "mark" /\ job[h].op = "accept"
    /\ GoTo(h, "write")
    /\ UNCHANGED <<trip, offer, money, local, strained>>

MarkAccepted(h) ==
    /\ pc[h] = "mark" /\ job[h].op = "accept"
    /\ offer' = [offer EXCEPT ![job[h].offer].status = "ACCEPTED"]
    /\ GoTo(h, "write")
    /\ UNCHANGED <<trip, money, local, strained>>

\* Without an accepted offer of this driver for this trip the handler throws,
\* with the payment already released.
MarkCancelled(h) ==
    LET accepted == {o \in OffersOf(job[h].trip) :
                        offer[o].driver = job[h].driver /\ offer[o].status = "ACCEPTED"}
    IN  /\ pc[h] = "mark" /\ job[h].op = "cancelByDriver"
        /\ \/ \E o \in accepted :
                 /\ offer' = [offer EXCEPT ![o].status = "CANCELLED"]
                 /\ GoTo(h, "write")
                 /\ UNCHANGED local
           \/ accepted = {} /\ Leave(h) /\ UNCHANGED offer
        /\ UNCHANGED <<trip, money, strained>>

\* findOne is given a select, so TypeORM takes the whole argument for options
\* without a condition: it declines any row of the table.
MarkDeclined(h) ==
    LET some == {o \in Offers : offer[o].status # "none"}
    IN  /\ pc[h] = "mark" /\ job[h].op = "reject"
        /\ \/ \E o \in some :
                 /\ offer' = [offer EXCEPT ![o].status = "DECLINED"]
                 /\ strained' = IF offer[o].trip # job[h].trip \/ offer[o].status = "ACCEPTED"
                                THEN strained \cup {offer[o].trip} ELSE strained
                 /\ GoTo(h, "write")
                 /\ UNCHANGED local
           \/ some = {} /\ Leave(h) /\ UNCHANGED <<offer, strained>>
        /\ UNCHANGED <<trip, money>>

-----------------------------------------------------------------------------
(* Payments.  The service answers an error, and the handler throws, when it    *)
(* finds no open transaction, too little money, or fails (see Transfer).       *)

Refused(h) == Leave(h) /\ UNCHANGED <<trip, offer, money, strained>>

Hold(h) ==
    /\ pc[h] = "hold"
    /\ \/ /\ held' = [held EXCEPT ![job[h].trip] = @ + 1]
          /\ GoTo(h, "mark")
          /\ UNCHANGED <<trip, offer, paid, local, strained>>
       \/ Refused(h)

\* Mutant: the answer of the payment service is only logged, as with
\* ewalletStatusCheck off.
ConfirmUnchecked(h) ==
    LET t == job[h].trip
    IN  /\ pc[h] = "confirm"
        /\ held' = [held EXCEPT ![t] = IF @ > 0 THEN @ - 1 ELSE 0]
        /\ paid' = [paid EXCEPT ![t] = IF held[t] > 0 THEN @ + 1 ELSE @]
        /\ GoTo(h, "write")
        /\ UNCHANGED <<trip, offer, local, strained>>

\* updateTripPayment and confirmTripPayment.
Confirm(h) ==
    LET t == job[h].trip
    IN  /\ pc[h] = "confirm"
        /\ \/ /\ held[t] > 0
              /\ held' = [held EXCEPT ![t] = @ - 1]
              /\ paid' = [paid EXCEPT ![t] = @ + 1]
              /\ GoTo(h, "write")
              /\ UNCHANGED <<trip, offer, local, strained>>
           \/ Refused(h)

Release(h) ==
    LET t == job[h].trip
    IN  /\ pc[h] = "release"
        /\ \/ /\ held[t] > 0
              /\ held' = [held EXCEPT ![t] = @ - 1]
              /\ GoTo(h, IF job[h].op = "cancelByDriver" THEN "mark" ELSE "write")
              /\ UNCHANGED <<trip, offer, paid, local, strained>>
           \/ Refused(h)

-----------------------------------------------------------------------------
(* Their last step: the trip row *)

PaymentAfter(plan, before) ==
    CASE plan = "confirm" -> "DEDUCTED" [] plan \in {"release", "write"} -> "RELEASED"
      [] OTHER -> before

PreviousAfter(seen, before) ==
    CASE ~seen.reachedAt /\ seen.status = "ACCEPTED_BY_DRIVER" -> "CANCELLED_BEFORE_ARRIVED"
      [] seen.reachedAt /\ seen.status = "DRIVER_ARRIVED" -> "CANCELLED_AFTER_ARRIVED"
      [] OTHER -> before

\* Mutant: the driver's cancellation leaves the payment columns alone.
CancelledRowBlocked(row, seen) ==
    [row EXCEPT !.status = "CANCELLED_BY_DRIVER", !.cancelledAt = TRUE, !.expiredAt = TRUE,
                !.cancelledByDriver = seen.cancelledByDriver + 1,
                !.previous = PreviousAfter(seen, @)]

\* The counter and the previous status are computed from the row read first.
CancelledRow(row, seen) ==
    [row EXCEPT !.status = "CANCELLED_BY_DRIVER", !.cancelledAt = TRUE, !.expiredAt = TRUE,
                !.cancelledByDriver = seen.cancelledByDriver + 1, !.payment = "RELEASED",
                !.previous = PreviousAfter(seen, @)]

WrittenRow(j, row, seen) ==
    CASE j.op = "accept" ->
            [row EXCEPT !.status = "ACCEPTED_BY_DRIVER", !.previous = "IN_PROGRESS",
                        !.driver = j.driver, !.assignedAt = TRUE, !.payment = "BLOCKED"]
      [] j.op = "reject" -> [row EXCEPT !.status = "REJECTED_BY_DRIVER"]
      [] j.op = "arrive" -> [row EXCEPT !.status = "DRIVER_ARRIVED", !.reachedAt = TRUE]
      [] j.op = "start" -> [row EXCEPT !.status = "STARTED", !.startedAt = TRUE]
      [] j.op = "complete" ->
            [row EXCEPT !.status = "COMPLETED", !.completed = TRUE, !.payment = "DEDUCTED"]
      [] j.op = "cancelByRider" ->
            [row EXCEPT !.status = "CANCELLED_BY_RIDER", !.cancelledAt = TRUE,
                        !.payment = PaymentAfter(j.plan, @)]
      [] j.op = "cancelBooking" -> [row EXCEPT !.status = "BOOKING_CANCELLED"]
      [] j.op = "cancelByDriver" -> CancelledRow(row, seen)
      [] j.op = "cancelByAdmin" ->
            [row EXCEPT !.status = "CANCELLED_BY_ADMIN", !.cancelledAt = TRUE,
                        !.payment = "RELEASED"]
      [] j.op = "allCabs" -> [row EXCEPT !.cab = FALSE]
      [] OTHER -> [row EXCEPT !.status = "EXPIRED", !.expiredAt = TRUE]

\* A driver who cancels a trip just accepted sends it back to the dispatcher.
WriteTrip(h) ==
    LET t == job[h].trip
    IN  /\ pc[h] = "write"
        /\ Put(h, t, WrittenRow(job[h], trip[t], saw[h]))
        /\ CASE job[h].op = "allCabs" -> Dispatch(h, "emit")
             [] job[h].op = "cancelByDriver" /\ saw[h].status = "ACCEPTED_BY_DRIVER" ->
                    GoTo(h, "again") /\ UNCHANGED local
             [] OTHER -> Leave(h)
        /\ UNCHANGED <<offer, money>>

\* processTripCancelledByDriver.
PendAgain(h) ==
    LET t == job[h].trip
    IN  /\ pc[h] = "again"
        /\ Put(h, t, [trip[t] EXCEPT !.status = "PENDING"])
        /\ Dispatch(h, "look")
        /\ UNCHANGED <<offer, money>>

\* The replica serving the handler is stopped, or an answer never comes.
Die(h) ==
    /\ pc[h] # "idle"
    /\ strained' = strained \cup ({job[h].trip, job[h].old} \ {None})
    /\ Leave(h)
    /\ UNCHANGED <<trip, offer, money, late>>

-----------------------------------------------------------------------------
Init ==
    /\ trip = [t \in Trips |-> NewTrip("none")]
    /\ offer = [o \in Offers |-> NoOffer]
    /\ held = [t \in Trips |-> 0]
    /\ paid = [t \in Trips |-> 0]
    /\ job = [h \in Handlers |-> NoJob]
    /\ pc = [h \in Handlers |-> "idle"]
    /\ saw = [h \in Handlers |-> NewTrip("none")]
    /\ todo = [h \in Handlers |-> {}]
    /\ strained = {}
    /\ late = 0

\* What became inconsistent is explored for MaxLate more requests.
InTime(t) ==
    /\ t \in strained => late < MaxLate
    /\ late' = IF t \in strained THEN late + 1 ELSE late

Request(h, t) ==
    \/ Create(h, t)
    \/ (\E d \in Drivers : Accept(h, t, d)) \/ Reject(h, t)
    \/ Arrive(h, t) \/ Start(h, t) \/ Complete(h, t)
    \/ CancelByRider(h, t) \/ CancelBooking(h, t) \/ CancelByDriver(h, t)
    \/ \E super \in BOOLEAN : CancelByAdmin(h, t, super)
    \/ AcceptWithAllCabs(h, t) \/ DeclineWithAllCabs(h, t)

Step(h) ==
    /\ UNCHANGED late
    /\ \/ ExpireOld(h) \/ ExpireOldOffer(h) \/ Save(h) \/ Balance(h)
       \/ Emit(h) \/ Look(h) \/ Search(h) \/ SettleSearch(h) \/ Reset(h)
       \/ \E d \in Drivers : Ask(h, d)
       \/ MatchOffer(h) \/ MarkAccepted(h) \/ MarkCancelled(h) \/ MarkDeclined(h)
       \/ Hold(h) \/ Confirm(h) \/ Release(h) \/ WriteTrip(h) \/ PendAgain(h)

Cron ==
    /\ UNCHANGED late
    /\ \E h \in Handlers, t \in Trips, S \in SUBSET Offers : ExpireOffers(h, t, S)

Next ==
    \/ \E h \in Handlers, t \in Trips : InTime(t) /\ Request(h, t)
    \/ \E h \in Handlers : Step(h) \/ Die(h)
    \/ Cron

\* A handler that is not stopped goes on.  The cron job fires again and again;
\* that it finds a free handler is strong fairness only because Handlers is a
\* bound of the model: the service has no such limit.
Fairness == (\A h \in Handlers : WF_vars(Step(h))) /\ SF_vars(Cron)

Spec == Init /\ [][Next]_vars

FairSpec == Spec /\ Fairness

-----------------------------------------------------------------------------
(* Properties *)

TripRow ==
    [status : TripStatus, previous : TripPreviousStatus, driver : Drivers \cup {None},
     cab : BOOLEAN, cancelledByDriver : Nat, cancelledAt : BOOLEAN, expiredAt : BOOLEAN,
     assignedAt : BOOLEAN, reachedAt : BOOLEAN, startedAt : BOOLEAN,
     completed : BOOLEAN, payment : TransactionStatus]

OfferRow ==
    [status : OfferStatus, trip : Trips \cup {None}, driver : Drivers \cup {None},
     asked : Asked, group : Nat]

JobRecord ==
    [op : Ops, trip : Trips \cup {None}, driver : Drivers \cup {None},
     offer : Offers \cup {None}, old : Trips \cup {None},
     plan : {"none", "confirm", "release", "write", "ask", "accepted", "noDriver",
             "cancelled", "expired"}]

\* Type invariant: rows and handlers have the shape the entities declare.
TypeOK ==
    /\ trip \in [Trips -> TripRow]
    /\ offer \in [Offers -> OfferRow]
    /\ held \in [Trips -> Nat]
    /\ paid \in [Trips -> Nat]
    /\ job \in [Handlers -> JobRecord]
    /\ pc \in [Handlers -> PCs]
    /\ saw \in [Handlers -> TripRow]
    /\ todo \in [Handlers -> SUBSET Drivers]
    /\ strained \subseteq Trips
    /\ late \in Nat

Quiet(t) == t \notin strained /\ Deciding(t) = {}

OnTheWay == {"ACCEPTED_BY_DRIVER", "DRIVER_ARRIVED", "STARTED"}

\* The trips row, in one service, and the money of the trip, in another, agree
\* whenever no handler is at work on the trip: a driver is on the way exactly as
\* long as one hold is open, and the fare is taken once, or given back.  Refused
\* payments, re-dispatch and cancellations from every side keep it so.
MoneyFollowsTrip ==
    \A t \in Trips : Quiet(t) =>
        LET row == trip[t]
        IN  /\ held[t] = IF row.payment = "BLOCKED" THEN 1 ELSE 0
            /\ paid[t] = IF row.payment = "DEDUCTED" THEN 1 ELSE 0
            /\ row.status \in OnTheWay <=> row.payment = "BLOCKED"

\* Whoever is driving a trip has the one accepted offer of it: without it the
\* driver's cancellation throws after it has released the payment.
DriverHoldsOffer ==
    \A t \in Trips : Quiet(t) /\ trip[t].status \in OnTheWay =>
        \E o \in OffersOf(t) :
            /\ offer[o].driver = trip[t].driver
            /\ \A x \in OffersOf(t) : offer[x].status = "ACCEPTED" <=> x = o

\* No interleaving, not even two handlers on stale copies, marks a trip as
\* completed or its fare as deducted before the payment service took the fare.
FareTaken ==
    \A t \in Trips : trip[t].completed \/ trip[t].payment = "DEDUCTED" => paid[t] > 0

Final == {"COMPLETED", "CANCELLED_BY_RIDER", "CANCELLED_BY_ADMIN", "BOOKING_CANCELLED", "EXPIRED"}

\* A trip that is over stays over: late accepts, rejects, dispatches and the
\* super admin, who skips every check, do not revive or relabel it.
FinalStays ==
    [][\A t \in Trips : trip[t].status \in Final /\ t \notin strained'
           => trip'[t].status = trip[t].status]_vars

\* findDriversToSendRequestTo gathers the drivers to exclude from a search: those
\* asked before for the trip and those who have yet to answer any trip.  A
\* dispatcher is about to ask neither.
ExcludedAreNotAsked ==
    \A h \in Handlers : job[h].op = "dispatch" =>
        \A d \in todo[h], o \in Offers :
            offer[o].driver = d => /\ offer[o].status # "PENDING"
                                   /\ offer[o].trip # job[h].trip

\* None of rider u's trips is strained.
Undisturbed(u) == \A t \in Trips : RiderOf[t] = u => t \notin strained

\* A rider has one unfinished trip, even while a new one is being created: the
\* creation retires the one that was still looking for a driver, or is refused.
\* (A rider who once got two, by asking twice at the same moment, keeps two: a
\* creation retires only one of them.)
OneRunningTrip ==
    \A t \in Trips : Undisturbed(RiderOf[t]) =>
        \A s \in Running(t) : t \in Running(t) => s = t

\* A trip that waits for a driver does not wait for ever: it is accepted,
\* rejected or cancelled, or runs out of drivers, as every offer expires and is
\* followed by another search.  (A rejected trip has no such limit, and may use up
\* the bound MaxOffers: what happens to a trip after that is not looked at.)
PendingEnds ==
    \A t \in Trips :
        trip[t].status = "PENDING" ~>
            (trip[t].status # "PENDING" \/ t \in strained \/ Offers = OffersOf(t))

\* processTripFromKafka resets a trip its driver gave back so that the trip can
\* be processed again: a driver it then asks is able to accept.
AskedAgainCanAccept ==
    \A o \in Pending(Offers) :
        offer[o].asked = "CANCELLED_BY_DRIVER" => ~trip[offer[o].trip].expiredAt

\* TRIP_ACCEPTED_BY_ANOTHER_DRIVER_ALREADY: a second driver's acceptance is
\* refused, so a trip never has two holds on its rider's money.
OneHoldPerTrip == \A t \in Trips : held[t] <= 1
=============================================================================
