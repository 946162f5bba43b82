# Verification of the ride-hailing backend

TLA+ models of the parts of this repository in which money, trips and identities
can go wrong, checked with TLC and, in part, proved with TLAPS. The code is the
reference: every definition names (in `PROJECT.json`, under "map") the lines it
models.

## The system

NestJS services, one directory each, talking over TCP messages and Kafka events;
each keeps its own MySQL (chat: MongoDB) database and shares redis for settings
and short-lived keys. Each may run in several replicas, and every replica runs
every cron job. No handler opens a database transaction or takes a lock: it reads
a row, awaits other calls and writes columns back.

| component | state | operations | hard behaviour | what makes it correct |
|---|---|---|---|---|
| Wallets and trip payments (`payment-service/.../transfer`) | wallet, holdamount, transactions rows | block, update, confirm, release, top-up, subscription charge | read-modify-write of balances, two-phase payments, failures between writes | no money appears or vanishes; rows agree with each other; a hold is settled once |
| Immediate trips (`rides-service/.../trips`) | trips rows | create, search, accept, reject, arrive, start, change, complete, cancel (rider, driver, admin, booking), all-cabs answers | stale rows across awaits, cancellations from four sides, re-dispatch, amounts stored and sent apart | trip, offers and money agree; a finished trip stays finished; a pending trip ends; the receipt is what was moved |
| Trip drivers (`rides-service/.../trip_drivers`) | trip_drivers rows (offers) | insert, accept, decline, cancel, expire (cron) | offers looked up by driver only, expiry racing answers | one pending offer per driver |
| Scheduled trips (same service) | trips rows with a time, upcomingRides | create, confirm, decline, dispatch (cron) | jobs of several replicas, exclusion with immediate trips, counters nobody waits for | one driver per rider; each booking dispatched or ended |
| Hosted payments (`click-pay`) | payment rows | page, Apple Pay, callback | duplicate and late callbacks, stop before the credit | each payment credited at most once, and never lost |
| Captain subscriptions (`user-subscriptions`) | subscription rows, driverSubStatus | buy, renew (cron), expire, cancel, activate | renewal in several replicas, stop in the middle, events between two services | what is paid and due is what was sold; who paid is offered trips |
| Bank transfers (`alinma-b2-b`) | transfer rows | transfer, retry | lost answers, two retries at once | the rows tell what the bank did |
| Promo codes (`promos`) | totals of a code, log per user | validate, apply, revert | counters read, then written, in two places | usage and budget limits hold |
| Captains (`driver-services`) | approval, mode, subscription, ride status | switch, availability, search | events of trips out of order | a captain is riding when his row says so |
| Cabs and charges (`cab-charges`, `customized-charges`, `cab-type`) | rows, and redis keys of them | create, change, move, remove, list | a copy in redis without expiry, filled by lists | trips are priced by what administrators set |
| WASL registration (`driver-services`) | eligibility of a captain | register, decide (cron), switch, remind, end (cron) | jobs of every replica, two ways of asking an authority | eligibilities are kept, told and ended as decided |
| Sign-up (`authentication-service`, `customer`) | customer rows | sign up, verify an id | lookups, an authority and a write in three services | one account per person |
| Socket gateway | redis keys of connections and of rides | connect, subscribe, disconnect, notices of trips | reconnects, stops, notices out of order | messages reach the user; positions go to who rides |
| Chat | groups, conversations, copies of messages | create, add, remove, send, delete | three lists of members, saves nobody waits for | the lists agree; nothing ends up hidden |
| Reviews | reviews, rating rows | review, change, remove | read-modify-write of a mean | a rating is made of all reviews |
| the rest | | | CRUD, reports, I/O | see "components" in `PROJECT.json` |

How they interact: the trips service calls the payment service (`BLOCK_`,
`UPDATE_`, `RELEASE_`, `CONFIRM_TRIP_AMOUNT`), the promo service, the reviews
service and the captain service and throws on an error answer; it emits driver
availability to the captain service and a notice of every change of a trip to the
socket gateway. A ClickPay callback and the subscription renewal move the same
wallet rows as trips do; top-ups and trips are followed by transfers to the bank.
The cron job of the rides service drives the search for drivers; riders, drivers
and administrators race on one trips row. Trips are priced from redis keys the
driver service writes.

## Modules

One module per component, each with its state, one action per step between two
awaits, and its properties. What another service does to the component, or sees
of it, is an action or an operator of the component's own module. Twelve components
have their rows, and what is promised of them, in a small module of their own:

| rows and promises | of | rows and promises | of |
|---|---|---|---|
| `BankBooks` | `BankTransfers` | `DrivingRows` | `Captains` |
| `Bookings` | `ScheduledTrips` | `Eligibility` | `Wasl` |
| `CodeUse` | `Coupons` | `Inboxes` | `Conversations` |
| `Connections` | `Presence` | `RatingRows` | `Reviews` |
| `CustomerTable` | `Accounts` | `RideKeys` | `TripKeys` |
| `Receipt` | `Fares` | `Rosters` | `ChatGroups` |

The component, `MCServices` and the proofs extend the same small module, so that what
TLC checks and what is proved is one definition. `Null` declares NULL for them and for
`ClickPay`.

- `Transfer` - the wallet side: one process per request, one step per database
  access. `wallet`, `hold` and `tx` are the three tables; `req`, `pc`, `seen`
  and `delta` are what a running handler remembers. An arrival
  (`BlockAmount`, `Settle`, `TopUp`, `SubscriptionCharge`) is a handler's first
  access; `LocateHold`, `ReadBalance`, `WriteBalance`/`RefuseBalance`,
  `KeepHold`, `RecordTx`/`RecordFailure` are its later ones, in the order of the
  code. `StoreError` is a database access that throws, `Die` a stopped replica.
  `MCTransfer` gives its bounds; `TransferProofs` has its theorems, `Sums` those
  about sums over finite sets.
- `TripLifecycle` - immediate trips and their offers: one step per access,
  with the payment service reduced to two counters per trip, `held` and `paid`,
  which is what `Transfer`'s rows look like to the trips service (a hold opens,
  is confirmed or given back, or the call is refused). `Begin` is a handler's
  first read with all of its guards; `WriteTrip` is its last write.
  `MCTripLifecycle` gives its bounds, `TripLifecycleProofs` has its theorems.
- `Fares` - the amounts of one trip: on its row (base, tax, fee, the rider's and
  the driver's share) and on its hold. Each handler computes, stores and sends its
  own selection; `StepsOf` lists in which order, and what is done when a step fails.
  Theorems in `RideProofs`.
- `TripKeys` - the key `<rider>-trip-<driver>` of the socket gateway, by which
  positions are forwarded and a rider is kept from driving; the notices that set
  and remove it, each with the row read when it is sent. Theorem in `ServiceProofs`.
- `ScheduledTrips` - bookings beside immediate trips of the same riders, the job
  of every replica, and `upcomingRides`. What dispatch and a ride do is
  `TripLifecycle`'s matter; here each ends in one step. Theorems in `RideProofs`.
- `ClickPay` - payment pages, Apple Pay and callbacks; `cb` is what each run of
  `handleCallBack` has read. `HostedPayment` is the abstract specification: a
  payment is open, then authorised or declined by the bank, then completed, then
  credited, and goes nowhere else. `ClickPay` implements it
  (`HP == INSTANCE HostedPayment WITH stage <- ...`, property `HostedPaymentHolds`),
  except that two callbacks which read the row before either wrote it make a
  payment "contended". Theorems in `ClickPayProofs`.
- `Subscriptions` - rows, renewal job, purchases, cancel, activate, and the events
  between payment and driver service.
- `BankTransfers` - `fundXfer`, `retryTransaction`, and the plans of transfers a
  payment is followed by; `moved` is what the bank did. Theorem in `BankProofs`.
- `Coupons` - validate, apply and revert of one code by the trips that use it.
- `Captains` - the four columns `findCaptainList` selects by, and everyone who
  writes them.
- `Wasl` - the eligibility of a captain and the jobs that ask for it, remind him
  and end it. WASL decides of a captain and of each of his vehicles (`decision`), and
  the code puts the two together in two ways: the five-minute job needs the captain and
  one vehicle accepted (`OneVehicleDoes`), the request one by one needs nothing refused
  (`NoneRefused`). `ServiceProofs` has the theorems of these three.
- `Charges` - rates of cities, of a cab and of a multiplier, as rows and as redis
  keys. `CabCharge` and `FareMultiplier` are what a trip is priced by.
- `Accounts` - sign-up and verification over the customer rows, with Yakeen.
- `Presence` - the redis keys of users and connections, and `isOnline`. Theorems in
  `PresenceProofs`.
- `ChatGroups`, `Conversations` - members of a group in three places; messages of
  two users and what a deletion hides.
- `Reviews` - reviews and the rating row of each user. `ServiceProofs` has the
  theorems of these and of `Accounts`.
- `MCServices` - the bounds of the fifteen modules from `Fares` to `Reviews` (without
  `HostedPayment`), as one specification: `part` says which of them a
  behaviour is about, and the others stay as they are. The services share no table,
  so their product would only multiply states that do not meet; where one does
  something to another, it is an action of the other's module. `RunningPart`, a
  VIEW, leaves the resting parts out of a state. Charges, cabs and multipliers run
  as three parts of `Charges`, as they are written apart from each other.

History variables only record that something happened: in `Transfer` `clashed`
(two updates of one wallet overlapped) and `tangled` (two settlements of one trip
overlapped, or one was cut short), in `TripLifecycle` `strained` (two handlers
decided about one trip at once, a handler died, or an offer was used for another
trip), and in the other modules their like, each explained at its declaration
(`overlapped`, `cut`, `muddled`, `astray`, ...). The code has no defence against
these; the properties say what holds everywhere else, and the violation runs and
the list below show what goes wrong there. No guard reads them, except that `late`
of `TripLifecycle` bounds how far a strained trip is explored.

Abstracted: amounts are whole numbers (floats with two decimals in the code);
positions, OTP values, names and dates are choices between the branches they
select; notifications' texts, statistics and listings are left out.

## Runs

| run | question | bounds | shows |
|---|---|---|---|
| `transfer` | does money stay accounted for? | 1 wallet, 1 trip, 4 requests, 2 at once, amounts {1, 3}, discounts {0, 1}, balance 3 | all five properties hold |
| `refunded_once` | can a hold be given back twice? | the same | yes: two releases at once |
| `not_found` | does "hold not found" mean there is none? | the same | no: the row of a refused hold hides it |
| `trip_lifecycle` | do trip, offers and money agree? | 1 trip, 2 drivers, 3 offers, 2 handlers | yes, when nobody raced on the trip |
| `trip_pending` | does the search end? | 1 trip, 1 driver, 5 offers, 2 handlers, with fairness | yes |
| `trip_one_rider` | does a rider have one running trip? | 2 trips of one rider, 1 driver, 2 offers, 2 handlers | yes, for a rider none of whose trips was raced on |
| `trip_dispatch` | is a driver who was asked left out of the next search? | 2 riders, 1 driver, 3 offers, handlers one after the other | no: the list of drivers to exclude is ignored |
| `trip_asked_again` | can a trip given back by its driver be accepted? | as `trip_lifecycle` | no: it is still marked as expired |
| `trip_one_hold` | is a trip held once? | as `trip_lifecycle` | no: two drivers accept at once |
| `services` | does what each service stores stay true? | per part, below | yes, but for what is exempt |
| `services_live` | do subscriptions, bookings, transfers and rides come to their end? | 1 replica and worker, no misses, 1 fault of the bank, with fairness | yes |
| `bookings_served` | also the bookings of riders who are no captains? | 2 riders with a booking each, with fairness | no: the job leaves them PENDING for ever |

The parts of `services` and their properties:

| part | module | bounds | properties |
|---|---|---|---|
| clickpay | `ClickPay` | 1 page, 1 Apple Pay payment, 3 callbacks | `OutcomesAgree`, `HostedPaymentHolds` |
| subscriptions | `Subscriptions` | 1 captain, 2 workers, 3 rows, 2 sales, 3 days (0 to 2), 1 stop | `Ledger`, `ActiveIsOffered` |
| coupons | `Coupons` | 3 trips of 2 riders, 2 calls at once, limits 1 of a rider and 2 of the code, budget 4, 3 acceptances | `UsageAgrees`, `LimitsKept` |
| bookings | `ScheduledTrips` | 2 trips of one rider, 2 replicas, 1 request at once, 3 slots, 1 fault | `UpcomingCovers`, `OneRide`, `TakenIsKept` |
| bank | `BankTransfers` | a trip (2 transfers) and a top-up (1), 2 handlers, 2 retries, 2 faults | `BooksAgree` |
| captains | `Captains` | 1 captain, 3 handlers, 2 events, 1 fault | `RidingAgrees` |
| sockets | `Presence` | 2 users, 3 connections, 2 handlers, 1 stop | `Reachable`, `OnlineAgrees` |
| fares | `Fares` | 2 rates (200 as estimated, 300 at the end or to a new destination), waiting, discounts 50 and -20, fee and tax of 10 %, 1 change, 2 handlers, 1 setback | `DriverPaidAsStated`, `HeldAsShown`, `TotalExplained` |
| groups | `ChatGroups` | 2 groups, 2 users, 2 handlers, 1 stop | `RosterAgrees` |
| conversation | `Conversations` | 2 users, 2 handlers, 2 messages, 1 stop | `HiddenIsEmpty` |
| reviews | `Reviews` | 1 trip, both sides, 3 reviews, 2 handlers, 1 fault | `RatingAgrees` |
| accounts | `Accounts` | 2 numbers, 2 ids, 2 handlers | `OneAccountEach` |
| wasl | `Wasl` | 1 captain with vehicles all valid, all invalid or of both kinds, 2 workers, 2 replicas, 4 days, end on day 2, 2 reminders | `EligibilityKept` |
| charges, cabs, factors | `Charges` | 2 charges, 2 cities of 3 names, 2 rates, 2 handlers, 1 fault (of the redis writes, for the cities) | `PricedAsConfigured` |
| keys | `TripKeys` | 2 trips of one rider, 1 driver, 2 notices at once, 1 lost | `PositionsFollowRides` |

Why these bounds are enough. In `transfer` a hold, a fare update, a
confirmation and a release or top-up fit in four requests, and two at once give
every pair of overlapping handlers; amounts 1 and 3 against a balance of 3 give
accepted, exactly covered and refused debits, and updates in both directions. In
the trip runs two drivers and three offers allow reject, expiry, cancellation by
the driver and a second search; the limits of the settings (5, 3, 3, 3) are
scaled to 1 or 2 so that they are reached. `MaxLate` lets one more request
start on a strained trip: after that the properties exempt it, and what could
still follow is the same handlers on the same row. In `services` each part has
room for its own cases: three callbacks are one more than the two ClickPay makes;
three subscriptions are a first one, its renewal and a purchase beside them; one
acceptance reaches the limit of a rider and two that of a code; two bookings
or a booking and a trip are all a rider may have; a driver who gives a trip back may
take it again or take the other one, so that one driver has old notices and new ones
under way; two rates, one for estimates and one for final fares, make every later
figure of a trip differ from the earlier one, so that an amount that was not updated is
seen, and a discount below zero is what the promo service answers near its budget; an
end on the second of four days lets a captain be reminded on either day before it,
end, and be found by a later night if the first one failed; two cities and a third name
let a charge move and a city be renamed. One fault per behaviour is enough for the properties
about single failures; what two faults of the bank do to one transfer is checked
with two.

Symmetry is used in the safety runs over requests, drivers, handlers and trips,
which no definition tells apart (`FreshOffer` picks the lowest row number, and row
numbers are not permuted); in `services` (`MCSymmetry`) over the handlers `h1`
and `h2` and over `s1` and `s2`, the rows or users of a part that nothing tells apart.

`services` has the CONSTRAINT `Unstrained`, which leaves out

- what follows once everything the properties of a part are about is exempt: as
  exemptions are never taken back, nothing is cut off that could violate a property. In
  sockets, groups, conversation, accounts and keys a behaviour ends already when one of
  its users, groups, numbers or trips is exempt (in keys: by a late notice), in fares
  also when a handler was ended between the payment and the row. In `Charges` a list
  after a loss of redis sets things right again: `Followed` follows it there;
- in clickpay, states in which both payments have begun: no row, callback or charge
  belongs to two payments, and both properties speak of one payment at a time, so that
  a violation would be found with the other payment at rest;
- in groups, states in which requests about two groups are under way at once: a request
  writes the rows of its own group, but for the members it revives in others, who are
  exempt;
- in wasl, a captain without a subscription, who is neither reminded nor ended;
- in fares, handlers whose rate is not the one of their kind (`Estimated`): any rate may
  come with any handler in `Fares`, as the final fare is another estimate.

The theorems about ClickPay, sockets, fares, groups, conversations, accounts,
eligibilities and keys depend on none of this. With these bounds the run has some
490,000 states.

Runs that check safety do not check deadlock: the system may stop when all
request ids, rows and other bounds are used up, or when all trips are over.

Fairness. A handler that is not stopped takes its next step: weak fairness of the
steps of each handler, which is Node's event loop. The cron job of `trip_pending`
fires every five minutes for ever; in the model it needs one of the `Handlers`, a
bound the service does not have, so it is given strong fairness; the same holds
of a renewal and its `Workers`, and of the delivery of an availability event and
its `EventHandlers` in `services_live`. There days and slots go on, each job runs
in its day or slot, and dispatch comes to an end (shown by `trip_pending`), all
weakly fair. Requests by people are not fair. In `services_live` nothing stops and
no job misses its slot: what is lost then, the code does not look for again.

Every property has a mutant, a plausible bug in one mapped definition (an
operator marked "Mutant" just before it) with which TLC refutes the property.

## Proofs

The theorems hold for every value of the constants: any sets of users, trips,
drivers, payments, requests and handlers, any amounts, rates, limits and number of
offers. What they assume of constants is

| assumption | of | says |
|---|---|---|
| `IdsAssumption`, `AmountsAssumption` | `Transfer` | ids are not NULL, amounts and discounts are numbers |
| `IdsAssumption`, `LimitsAssumption` | `TripLifecycle` | ids are not NULL, each trip has a rider, limits are numbers |
| `ClickPayAssumption` | `ClickPay` | Apple Pay payments are payments, NULL is none |
| `PlansApart` | `BankTransfers` | each call of `fundXfer` inserts a row of its own |
| `FiniteTable` | `Accounts` | the customer table is finite, NULL is no number and no id |
| `NoneApart` | `Presence` | NULL is no user and no connection |
| `Figures` | `Fares` | rates, charges and percentages are natural numbers, discounts integers |
| `NoneIsApart` | `TripKeys` | NULL is no trip and no driver |
| `Calendar` | `Wasl` | days and numbers of reminders are natural numbers, vehicles have one of the three statuses |
| `Reviewing` | `Reviews` | a trip has two users, stars are numbers, handlers are finitely many |
| `FiniteRequests` | `MCTransfer` | finitely many requests were made (for `BalanceSheet`) |
| `HandlersAssumption` | `DrivingRows` | captains' events are handled finitely many at a time |
| `GroupsAssumption` | `Rosters` | "none", the group of a handler at rest, is none |
| `LimitsAssumption` | `CodeUse` | the limits of a code are set, discounts are natural numbers |

Those of `BankTransfers`, `Accounts`, `Presence`, `Fares`, `TripKeys`, `Wasl`,
`Reviews` and `MCTransfer` are hypotheses (`ASSUME ... PROVE`) of the theorems, and
`MCServices` or `MCTransfer` assumes them of its own constants; so TLC evaluates each
of the assumptions in some run. The theorems about bookings and about conversations
need none.

| module | theorem | states of every reachable state or step |
|---|---|---|
| `TransferProofs` | `TypeCorrect` | `TypeOK` |
| | `NoLostUpdateHolds` | `NoLostUpdate`: a wallet write moves the balance by its own amount, or two updates clashed |
| | `DebtHolds` | `DebtOnlyFromTripEnd`: only a fare update takes a wallet below zero |
| | `TxAgrees` | `TxAgreesWithHold`: a transaction row tells the truth about its hold |
| | `BalanceSheetHolds` | `BalanceSheet`: a wallet is what came in, less what holds and trips took |
| `TripLifecycleProofs` | `TypeCorrect` | `TypeOK` |
| | `FareTakenHolds` | `FareTaken`: a trip is completed or charged only after the payment service took the fare |
| | `MoneyFollowsTripHolds` | `MoneyFollowsTrip`: the row of a trip and its money agree when nobody is at work on it |
| | `DriverHoldsOfferHolds` | `DriverHoldsOffer`: whoever drives a trip has the accepted offer of it |
| | `OneRunningTripHolds` | `OneRunningTrip`: a rider has one running trip |
| | `FinalStaysHolds` | `FinalStays`: no step changes the status of a trip that is over |
| `ClickPayProofs` | `HostedPaymentTypes` | `TypeOK` |
| | `HostedPaymentOutcomes` | `OutcomesAgree`: what a finished payment says is so |
| | `HostedPaymentImplemented` | `HostedPaymentHolds`: `ClickPay` implements `HostedPayment` |
| `BankProofs` | `BooksAgreeHolds` | `BooksAgree`: the rows of transfers tell what the bank did |
| `PresenceProofs` | `PresenceTypes` | `TypeOK` |
| | `ReachableHolds` | `Reachable`: messages go to the connection subscribed last |
| | `OnlineAgreesHolds` | `OnlineAgrees`: a captain's row says whether he is connected |
| `RideProofs` | `DriverPaidAsStatedHolds` | `DriverPaidAsStated`: the driver of a trip that was paid got what its row says |
| | `HeldAsShownHolds` | `HeldAsShown`: what is blocked for the driver is what his app shows |
| | `TotalExplainedHolds` | `TotalExplained`: the total of the receipt is what was taken, but for the fees' difference and a negative discount |
| | `OneRideHolds` | `OneRide`: a rider has drivers for one trip at a time, booked or immediate |
| | `UpcomingAlwaysCovers` | `UpcomingCovers`: `upcomingRides` is never less than the bookings still to come |
| | `TakenAlwaysKept` | `TakenIsKept`: no request and no job expires a trip that a driver has taken |
| `ServiceProofs` | `CaptainsType` | `TypeOK` of `Captains` |
| | `RidingAlwaysAgrees` | `RidingAgrees`: a captain's row says whether he has a trip |
| | `RosterAlwaysAgrees` | `RosterAgrees`: the three lists of a group have the same members |
| | `HiddenAlwaysEmpty` | `HiddenIsEmpty`: a conversation that is hidden has no messages left |
| | `PositionsAlwaysFollow` | `PositionsFollowRides`: positions pass between rider and driver while they ride, and only then |
| | `EligibilityAlwaysKept` | `EligibilityKept`: eligibilities are as decided, told once per period, and ended |
| | `AccountsTypeCorrect` | `TypeOK` of `Accounts` |
| | `OneAccountEachHolds` | `OneAccountEach`: one account per person, one person per account |
| | `UsageAlwaysAgrees` | `UsageAgrees`: the uses of a code are those its log tells of |
| | `LimitsAlwaysKept` | `LimitsKept`: limits of uses, budget and discounts of a code |
| | `RatingAlwaysAgrees` | `RatingAgrees`: a rating is the mean of all reviews |

None of the properties is inductive: each needs to be known of the states in which
a handler is between two accesses. The invariants therefore say what a handler at
each place has read and still may rely on, and follow one pattern: shapes; what holds
of everything, exempt or not; what holds of the rest. Each was checked with TLC on
small instances before it was proved.

**`TransferProofs`**: `IInv == TypeOK /\ Shape /\ WalletInv /\ DebtInv /\ TripInv`.
`Shape` says what a request at each place has (a wallet, a trip, the row it picked,
which stays that trip's), and that a row with a hold belongs to a `blockAmount` that
returned; `WalletInv` that the balance a writer has read is still the wallet's, unless
its wallet is in `clashed`; `DebtInv` that a debit other than a fare update does not
go below zero from there; `TripInv` that, for a trip not in `tangled`, the hold a
settlement works on is in the state its place says, and every other row agrees with
its hold. `StepCases` splits `Next`, `ArrivalFrame` says what no arrival changes,
`ShapeStep`, `WalletStep`, `TripArrival` and `TripStep` keep the parts, `NextIInv`
puts them together. `BalanceSheet` sums over all requests of a user, and needs
`BalanceInv` in addition: each wallet is its opening balance and the sum of `Flow`, which
is what every request has moved, has kept, or is about to tell the hold row;
`Underway` says what a request is going to add. A step changes one summand by as much as
the wallet.

**`Sums`**: what a sum over a finite set is without one element (`SumStep`,
`SumSplit`), that it is a number (`SumType`), and what it becomes when one summand
changes (`SumChanges`), two do (`SumMoves`), some are left out (`SumOver`), or another
sum is subtracted (`SumLess`). `SumFunctionOnSet` chooses a function defined by
recursion on subsets. Induction over sets is replaced by a smallest counterexample:
of the subsets a fact does not hold of, `SmallestSubset` gives one of which no smaller
one is (strict inclusion of finite sets is well-founded).

**`TripLifecycleProofs`**: `IInv == TypeOK /\ Shape /\ OffersKnown /\ FareInv`.
`Shape` says which trip, offer and plan the job of a handler has at each place;
`OffersKnown` that an inserted offer is of a trip and that the offer a handler
remembers has been inserted (else expiring it would make up a row); `FareInv` that a
handler about to write the outcome of a confirmation stands behind a fare that was
taken. `RequestBegins` and `AllStart` reduce the thirteen kinds of first step to one
form (`Started`); `StepType`, `StepKnown` and `StepFare` go through the later steps.
`FareTakenHolds` is about every trip, also those `strained`.

The four theorems about money, offers and riders build on that invariant:
`BooksInv` is `IInv /\ Existing /\ OffersRemembered`, `TripHolds(t)` of every trip and
`RiderHolds` of every rider. `Existing` and `OffersRemembered` hold of strained trips too:
a handler's trip is in the table, and an offer accepted for another trip has strained
both. `TripHolds(t)`, for a trip that is not strained, has three parts. `RowHolds`: the
columns of its row agree (`Sound`), and what a handler found there is still so
(`Reads`, and `ReadsOld` for the trip a creation retires). `MoneyHolds`: `held` and
`paid` are what the row says or what the one handler that has moved money is about to
write. `OffersHold`: who drives the trip has the one offer that is accepted, unless a
handler has changed it and has yet to write the trip. `RiderHolds` carries what a creation found over to its
insertion. The proof has a lemma per operation and part; the four theorems follow from
the same invariant, `FinalStaysHolds` with one step of it.

**`ClickPayProofs`**: `IInv == TypeOK /\ RowsHold /\ ReadsHold /\ AloneHolds /\
OutcomesAgree`. `RowsHold` and `ReadsHold` say what a status tells of the payment
whenever it was read; `AloneHolds` that, of a payment not contended, one callback is
deciding at most, and its row is as it read it. The refinement maps the initial state
to the initial state, and each action to one step of `HostedPayment` for one payment
(decided, completed, credited, contended) or to none.

**`BankProofs`**: `BankInv == TypeOK /\ HeldOnce /\ Unstarted /\ HeadsKnown /\
RestAgrees`: every transfer is in the hands of one handler, once; those nobody has come
to have no row; `HeadsKnown` gives row and executions of the transfer in hand, by the
step the handler is at; `RestAgrees` is the property, of all others. The plans are
sequences, and a handler goes on with `Tail`; `HeldOnce` and `PlansApart` keep the rest
of a plan apart from everyone else's.

**`PresenceProofs`**: `PresenceInv == TypeOK /\ Shape` and, for each user not
`muddled`: his two keys and his connection name each other (`Tied`), the connection is
his alone (`Alone`), at most one handler is at work for him, and what it read is so
(`Served`), nobody else is about to delete the key of his connection (`Spared`), and
an event under way, or else his row, says how it is (`Announced`).

**`RideProofs`**, amounts: `FareInv == Shape` and, until an operation was decided on what another
changed meanwhile (`crossed`), `Told` and `Abreast(h)` for each handler nobody has
overtaken. `StagesOf` lists what may be ahead of a handler; `Course` what follows what.
`Abreast` says how far the trip is (`InTime`), which amounts the handler has stored
(`Stored`) and what it has made of the hold (`Charged`); `Told` is the two properties of
completed trips, that no unpaid trip is cancelled as paid, and that the app shows what
is blocked unless a handler is between the payment and the row (`Midway`). The
arithmetic needed is that fees and taxes of natural numbers are natural numbers, and
that a discount is the one that is sent less what a negative one raises the total by
(`Discount`, `Raised`).

**`RideProofs`**, bookings: `BookingInv` is `BookingShape` and `Orderly(r)` of every
rider not in `strained`. A rider has at most one booking to come and one trip under way
(`OneOfEach`), a trip a driver has stands alone (`OneAtATime`), and he is at one of five
stages, by which at most one thing is under way for him: nothing is (`Free`), a
request of his (`Asking`), a count of `upcomingRides` (`Counting`), a job's entry
(`Processed`) or a dispatch (`Dispatched`); each stage says what was read and still
stands. `SameRows` takes the definitions of `Bookings` for those of `ScheduledTrips`; a
lemma `...Order` per action, with `RequestSpares`, `JobSpares` and `MovesSpare` for the
riders a step is not about, keeps `Orderly`. `TakenIsKept` is an action property: each
write a job or a request makes to a row is to one that the stage says has not been taken;
that holds too of a request that expires an immediate trip and is then refused
(`TurnDown`).

**`ServiceProofs`** has one invariant per service, of the same pattern.
- `RidingInv` (`Captains`): a captain's row is ahead of what the rides service knows by
  the events under way, counted (`EventsCounted`); who is on a trip stays switched on.
- `RosterInv` (`ChatGroups`): a group has one handler at work on it, and `Stands` says
  which of the lists it has brought up to date at its present step.
- `HiddenInv` (`Conversations`): who sees a conversation no more has no messages in it, or
  a handler is still to empty it or to bring it back.
- `KeysInv` (`TripKeys`): what a notice under way tells of its trip (`Tells`), and that
  the key follows unless a notice was late or not heard of.
- `WaslInv` (`Wasl`): `StatusInv` (rows, and what a worker is about to store, are borne
  out by the decision on captain and vehicles, which is final by then), `EndedInv` (whom a check that began today has still on its list) and
  `TurnInv` (two workers do not remind of the same period, and what is counted was told).
- `AccountsInv` (`Accounts`): two requests about one number or id have it in
  `overlapped` (`ClaimsApart`); an id that was looked up has no account by the time of the
  write (`IdsFresh`); the account found is still there and as it was found
  (`AllFoundStand`). A new user id is one above the largest, so that the proof needs
  a largest element of a finite set of numbers (`MaxIn`).
- `CodeInv` (`Coupons`): as long as no call overlapped or failed, one call or insertion is
  under way, what it has read is there, and `OneUse` and `OneOf` say by how much
  the totals and the log are apart meanwhile. `Sums` gives what a row more or less makes.
- `RateInv` (`Reviews`): the rating is the mean of the reviews less those that are `Owing`,
  within what rounding can add up to (`NearBy`), and who is about to write it has read
  it as it is.

What stays with TLC, and why:

- Liveness and `ENABLED`: `PendingEnds` and the four properties of `services_live`.
- Not proved: `Ledger` and `ActiveIsOffered` of `Subscriptions`, `PricedAsConfigured` of
  `Charges`, and `TypesOK`, which is one formula for all services. The type invariants of
  `Transfer`, `TripLifecycle`, `ClickPay`, `Captains`, `Accounts` and `Presence` are
  theorems; those of the other modules are part of the invariants above, as far
  as the proofs need them.
- The violations are counterexamples and need no proof.

What the proofs found out about the model. `OneRunningTrip` used to exempt only
strained trips. An attempt to prove it failed, and TLC, given three trips, showed why: a
rider who got two trips by asking twice at once keeps two when he asks a third
time, as `createTrip` retires one row only; and the two that are then running need
not be those that overlapped. It now speaks of riders none of whose trips was raced on.
`Presence` used to take handlers as overlapping if they worked for one user or on one
connection. Two subscriptions of one user that overlapped may leave one of them with a
connection to forget that is another user's by then, whose key it deletes; such a user
is now in `muddled` as well. `services` had not reached that state, as its constraint
ends a behaviour at the first muddled user. `LimitsKept` used to promise the budget of
a code to everyone; near the budget a use may count negatively (coupon.service.ts:331), and
when such a use is reverted the total rises, whatever is left by then. It took more trips
than `services` had to see it; there are three now, and `raised` tells of the case.
The total of a receipt used to be claimed equal to the charge but for the fee alone,
with discounts that were never negative; such a discount raises the total and takes
nothing off the charge (trips.service.ts:8642), which `TotalExplained` says.

## What the checks found

The six runs that expect a violation:

1. Two releases of one hold credit the wallet twice (`rollBackAmount` checks the
   status before the credit and stores it after).
2. After a refused hold, a later hold of the trip may not be found
   (`findOne` without an order returns the FAILED row).
3. A trip its driver gave back is searched for again but can never be accepted,
   nor cancelled by its rider: `tripExpiredAt` is not reset.
4. Two drivers that accept one trip at once put two holds on the rider.
5. The list of drivers to exclude from a search is not used by the search.
6. The booking of a rider who is no captain stays PENDING for ever, and keeps him
   from booking again.

What the code does not prevent, seen while modelling; the properties exempt it.

- Hosted payments: two overlapping callbacks credit twice; a second callback may
  set a COMPLETED payment to FAILED; a stop after COMPLETED loses the credit.
- Subscriptions: a captain who cancels, buys anew and activates the old one has two
  active subscriptions, both renewed; `verifyCaptain` takes any charge of today for
  the payment of a new subscription; two replicas renew and charge one row twice; a
  row expired by a renewal that stops there has no successor.
- Promo codes: reverting a code that had not been applied takes back another trip's
  use, so that a rider may go over his limit; a cancellation by the driver does not
  revert, and the next acceptance applies the code again; near the budget the
  discount becomes negative (coupon.service.ts:331), and the receipt then
  tells of more than was charged; a revert of it raises the total
  beyond the budget; overlapping applications pass
  the limits together.
- Bookings: a request expires the rider's immediate trip before it is refused because of
  his booking (trips.service.ts:1687, 1727), so that he ends up without the trip and
  without the new one; a trip that was cancelled before it had a driver (BOOKING_CANCELLED)
  counts as under way and expires the rider's later bookings; an immediate trip may
  be taken while a booking is dispatched, against the comment at
  trips.service.ts:1749-1751; two replicas process one booking; an exception ends
  the job, and no later one catches up; a retired PENDING trip may have been accepted
  since it was read.
- Search: REJECTED_BY_DRIVER trips are dispatched again without a limit (only
  DECLINED offers are counted, 5283), or not at all (6154 is commented out); after a
  driver's cancellation the trip is set to PENDING without a look (4908), which
  revives one that was cancelled meanwhile.
- Fares: the rider's receipt and the QR code use the bank's fee of the acceptance,
  the charge that of the completion; a negative discount raises the total of the receipt
  and not the charge; a completion that overlaps another, or a change
  of destination, rewrites a completed row; a discount may exceed a fare that was
  shortened; after a lost answer to a confirmation every retry is refused; a
  cancellation after the start states promo, waiting and fee that were not taken; a
  driver's cancellation leaves `startedAt`, so that the trip, accepted again, can be
  completed at once.
- Bank transfers: a retry posts the request unsigned; an execution whose answer was
  lost says FAILED, and a retry repeats it; a retry that fails before the bank is
  asked, or an outcome that cannot be stored twice, leaves a row PENDING that nobody
  can claim; a request that cannot be signed leaves no row; the driver's earning is
  paid even if the trip's amount was not collected; a stop drops the transfers still
  to come.
- Captains: one who is blocked, loses his eligibility or his subscription under a
  trip stays riding, as the event that ends it is refused; events have no key and may
  overtake each other; the event of an acceptance goes out before the trip is
  written; `activateSubscription` turns the mode of a captain blocked meanwhile on.
- Eligibilities: asked about one by one, a captain WASL has not decided on becomes
  VALID (exempt), and one with a single invalid vehicle is rejected whom the job would
  accept, as it accepts one valid vehicle: `StatusIsWasls` therefore claims nothing of
  captains with vehicles of both kinds or none but that WASL accepted who is VALID, and
  until the day it gave;
  an administrator's switch to VALID leaves the default end 2023-01-27, so that the
  next night takes the approval away; `break` at captain.service.ts:733 lets one
  captain without an answer block those after him; VALID captains are never asked
  about again; two replicas remind twice; a reminder that fails after its count is
  stored is not sent; one accepted late gets all reminders in consecutive nights.
- Sign-up: two requests at once, or a lookup that fails and counts as unknown, give
  one id two accounts; a new session token is stored before the checks of
  `verifyOtp`, so that a refused sign-up ends the session of the phone; a
  `findOne` that errs makes an update answer success without storing; the user ids
  96611 and 96622 act as range markers as `generateRandomUserId` returns ''.
- Presence: a captain who signs off, or whose gateway stops and who does not come
  back, stays online; two users on one connection leave a stale key; an overlapping
  subscription deletes the key of a connection that became another user's meanwhile.
- Positions (`TripKeys`): an administrator's cancellation, and the end of the search
  for a second driver, send notices (`admin_cancelled`,
  `driver_cancelled_before_arrived`) that set the key of the trip instead of removing
  it. The driver's positions go on to that rider, and he cannot switch to driving
  (captain.service.ts:1438). A notice handled late brings a key back, a lost one
  leaves it. Positions sent between the reading and the deleting of
  `updateTripLocations`, or after it, are lost or stay in redis.
- Prices (`Charges`): a charge of a whole country is never found (its field is
  `country-`, the lookup asks for `country`); a multiplier moved to another city is
  written under an empty name and its old key stays in force; a renamed city keeps
  its keys under the old name; a first list filtered by city throws the cab's other
  charges out of redis and marks them as synced; two overlapping changes may leave
  the older rate, or no key; multipliers lost from redis are never filled in again;
  the pattern `fare-multiplier-<city>-*` also finds cities whose name goes on after a
  hyphen; `getWaitingChargePerMinute` reads a field of a JSON string, so that the
  waiting charge of a cab type is never used.
- Chat: `createGroup` of the controller passes an undefined id on, so that the
  members named in the request are not added; adding members again revives them in
  every group they left (groups.service.ts:214 has no group); the mark of
  `deleteGroup` is read nowhere; two overlapping requests lose members, or make two
  conversations of one pair; the filter for archives is inverted
  (messages.service.ts:342); DELIVERED after READ turns the status back; who opens a
  conversation writes its whole old row back.
- Reviews: the select of `saveReview` omits the columns by which a second review is
  refused, so it never is (trips.service.ts:4503-4562, errorMessage.ts:40); a
  review without a rating makes the mean zero; changes by an administrator leave the
  rating as it was; two first reviews at once make two rows.

## Not modelled, and the plan

The map covers about an eighth of the repository's lines. Most of the rest
keeps no state that could go wrong: the API gateway's controllers and services,
which forward requests one to one (some 14,000 lines); DTOs, entities without
behaviour, constants and module declarations; listings, statistics, reports and
dashboards; CRUD over master data, admins, vehicles and settings; texts and
templates of notifications; clients of external authorities; and a good deal of
commented-out code. Mapping those lines to a definition would say nothing, so most
of the repository stays outside.

Left out although it has state: one-time codes (a row with a counter, used by one
user one call at a time), session tokens and logins, the counters of the customer
row other than `upcomingRides`, delivery marks and archives of chat, muting and
blocked users, settings in redis, and the cache of Yakeen's answers.

Next, in this order:

1. The invariants still to be proved: `Ledger` and `ActiveIsOffered` from what each
   handler of a subscription has read of its row, with `Sums`; `PricedAsConfigured` from
   which keys of redis a list has filled.
2. `Payments` - an abstract specification of what the trips service relies on
   (a hold is opened, then confirmed or released, once), with `Transfer` and the
   `held` and `paid` of `TripLifecycle` as its two sides.
3. One-time codes, if sign-in is to be covered entirely.
