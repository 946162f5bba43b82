---------------------------- MODULE ServiceProofs ----------------------------
(* What holds of the services beside trips and payments for every number of   *)
(* captains, users and handlers.                                              *)
EXTENDS Captains, CodeUse, CustomerTable, Eligibility, Inboxes, RatingRows, RideKeys,
        Rosters, Sums, FiniteSetTheorems, SequenceTheorems, TLAPS

CONSTANTS
    Callers, MaxAccepts,                    \* of the promo code
    Users, Handlers, MaxSent, MaxStops,     \* of the chat
    Trips, Drivers, Notices, MaxLost,       \* of the keys
    Workers, Replicas, Fleets, Periods, Ends, LastDay,  \* of the eligibilities
    Ids,            \* of the customers
    RatedBy, Ratings, MaxReviews            \* of the reviews

VARIABLES sent, stops, lostNotices, nights, job

Code == INSTANCE Coupons

Group == INSTANCE ChatGroups

Conv == INSTANCE Conversations

Keys == INSTANCE TripKeys

Auth == INSTANCE Wasl

Acc == INSTANCE Accounts

Rev == INSTANCE Reviews

-----------------------------------------------------------------------------
(* Captains *)

\* Every row, event and handler of captains has its shape, initially.
LEMMA CaptainsTypeInit == Init => TypeOK
BY DEF Init, TypeOK, Row, NewCaptain, NoEvents, Idle,
   JobRecord

\* What Begin and Done leave of the handlers.
LEMMA CaptainJobs ==
    ASSUME TypeOK, NEW h \in EventHandlers, NEW c \in Captains, NEW on \in BOOLEAN,
           NEW op \in {"availability", "switch", "subscription", "expired"},
           Begin(h, Job(op, c, on)) \/ Done(h)
    PROVE  /\ captainJob' \in [EventHandlers -> JobRecord]
           /\ \A g \in EventHandlers :
                  captainJob'[g] # Idle => captainJob'[g].captain \in Captains
<1>1. Job(op, c, on) \in JobRecord /\ Idle \in JobRecord
  BY DEF Job, Idle, JobRecord
<1>2. Job(op, c, on).captain = c
  BY DEF Job
<1> QED
  BY <1>1, <1>2 DEF TypeOK, Begin, Done

\* What a step leaves of those it does not speak for.
LEMMA MuddledGrow ==
    ASSUME NEW c \in Captains, NEW it \in BOOLEAN, Muddle(c, it),
           muddledCaptains \subseteq Captains
    PROVE  /\ muddledCaptains' \subseteq Captains
           /\ muddledCaptains \subseteq muddledCaptains'
           /\ it => c \in muddledCaptains'
BY DEF Muddle

\* No step of any service changes the shape of captains' rows, events and handlers.
LEMMA CaptainsTypeStep == TypeOK /\ [Next]_captainVars => TypeOK'
<1> SUFFICES ASSUME TypeOK, [Next]_captainVars
             PROVE  TypeOK'
  OBVIOUS
<1> USE DEF TypeOK
<1>1. CASE UNCHANGED captainVars
  BY <1>1 DEF captainVars
<1>2. ASSUME NEW c \in Captains,
             Ask(c) \/ Accept(c) \/ AcceptInVain(c) \/ EndRide(c)
      PROVE  TypeOK'
  <2>1. captain' = captain /\ captainJob' = captainJob
    BY <1>2 DEF Ask, Accept, AcceptInVain, EndRide
  <2>5. ride' \in [Captains -> BOOLEAN] /\ asked' \subseteq Captains
    <3>1. CASE Ask(c) \/ AcceptInVain(c)
      BY <3>1 DEF Ask, AcceptInVain
    <3>2. CASE Accept(c) \/ EndRide(c)
      BY <3>2 DEF Accept, EndRide
    <3> QED
      BY <1>2, <3>1, <3>2
  <2>6. muddledCaptains' \subseteq Captains
    <3>1. CASE Ask(c) \/ AcceptInVain(c)
      BY <3>1 DEF Ask, AcceptInVain, Muddle
    <3>2. CASE Accept(c) \/ EndRide(c)
      BY <3>2 DEF Accept, EndRide, Muddle
    <3> QED
      BY <1>2, <3>1, <3>2
  <2>2. faults' \in Nat
    <3>1. faults' = faults \/ faults' = faults + 1
      BY <1>2 DEF Ask, Accept, AcceptInVain, EndRide
    <3> QED
      BY <3>1
  <2>3. ASSUME NEW s \in BOOLEAN, Send(c, s)
        PROVE  rideEvents' \in [Captains -> [BOOLEAN -> Nat]]
    <3>1. rideEvents[c][s] + 1 \in Nat
      OBVIOUS
    <3> QED
      BY <2>3, <3>1 DEF Send
  <2>4. rideEvents' \in [Captains -> [BOOLEAN -> Nat]]
    BY <1>2, <2>3 DEF Ask, Accept, AcceptInVain, EndRide
  <2> QED
    BY <2>1, <2>2, <2>4, <2>5, <2>6
<1>3. ASSUME NEW c \in Captains, NEW b \in BOOLEAN,
             TellSubscription(c, b) \/ ChangeStatus(c, b)
      PROVE  TypeOK'
  <2>1. captain' \in [Captains -> Row]
    <3>1. CASE TellSubscription(c, b)
      BY <3>1 DEF Row, TellSubscription
    <3>2. CASE ChangeStatus(c, b)
      <4>1. (captain[c].mode /\ b) \in BOOLEAN
        BY DEF Row
      <4> QED
        BY <3>2, <4>1 DEF Row, ChangeStatus
    <3> QED
      BY <1>3, <3>1, <3>2
  <2>2. /\ UNCHANGED <<ride, asked, rideEvents, captainJob, faults>>
        /\ muddledCaptains' \subseteq Captains
    BY <1>3 DEF TellSubscription, ChangeStatus, Muddle
  <2> QED
    BY <2>1, <2>2
<1>4. ASSUME NEW h \in EventHandlers, NEW c \in Captains, Request(h, c)
      PROVE  TypeOK'
  <2>1. CASE Switch(h, c)
    BY <2>1, CaptainJobs DEF Switch, Muddle
  <2>2. CASE FindExpired(h, c)
    BY <2>2, CaptainJobs DEF FindExpired
  <2>3. ASSUME NEW on \in BOOLEAN, ChangeSubscription(h, c, on)
        PROVE  TypeOK'
    BY <2>3, CaptainJobs DEF ChangeSubscription
  <2> QED
    BY <1>4, <2>1, <2>2, <2>3 DEF Request
<1>5. ASSUME NEW h \in EventHandlers, NEW c \in Captains, NEW s \in BOOLEAN,
             Deliver(h, c, s)
      PROVE  TypeOK'
  <2>1. rideEvents' \in [Captains -> [BOOLEAN -> Nat]]
    <3>1. rideEvents[c][s] - 1 \in Nat
      BY <1>5 DEF Deliver
    <3> QED
      BY <1>5, <3>1 DEF Deliver
  <2>2. CASE captain[c].mode /\ captain[c].approved
    BY <1>5, <2>1, <2>2, CaptainJobs DEF Deliver
  <2>3. CASE ~(captain[c].mode /\ captain[c].approved)
    BY <1>5, <2>1, <2>3 DEF Deliver
  <2> QED
    BY <2>2, <2>3
<1>6. ASSUME NEW h \in EventHandlers, WriteAvailability(h) \/ Finish(h)
      PROVE  TypeOK'
  <2>1. captainJob[h].captain \in Captains /\ captainJob[h].on \in BOOLEAN /\ Done(h)
    BY <1>6 DEF WriteAvailability, Finish, WriteSwitch, WriteSubscription,
       WriteExpired, Idle, JobRecord
  <2>2. /\ captainJob' \in [EventHandlers -> JobRecord]
        /\ \A g \in EventHandlers :
               captainJob'[g] # Idle => captainJob'[g].captain \in Captains
    BY <2>1, CaptainJobs
  <2>3. captain' \in [Captains -> Row]
    <3>1. CASE WriteAvailability(h)
      BY <2>1, <3>1 DEF Row, WriteAvailability
    <3>2. CASE WriteSwitch(h)
      BY <2>1, <3>2 DEF Row, WriteSwitch
    <3>3. CASE WriteSubscription(h)
      BY <2>1, <3>3 DEF Row, WriteSubscription
    <3>4. CASE WriteExpired(h)
      BY <2>1, <3>4 DEF Row, WriteExpired
    <3> QED
      BY <1>6, <3>1, <3>2, <3>3, <3>4 DEF Finish
  <2>4. /\ UNCHANGED <<ride, asked, rideEvents, faults>>
        /\ muddledCaptains' \subseteq Captains
    BY <1>6, <2>1 DEF Muddle, WriteAvailability, Finish, WriteSwitch,
       WriteSubscription, WriteExpired
  <2> QED
    BY <2>2, <2>3, <2>4
<1> QED
  BY <1>1, <1>2, <1>3, <1>4, <1>5, <1>6 DEF Next, EventStep

\* Every row, event and handler of captains has its shape.
THEOREM CaptainsType == Spec => []TypeOK
BY CaptainsTypeInit, CaptainsTypeStep, PTL DEF Spec

\* A row that somebody follows up: at most one event is under way, which says what the
\* rides service knows, and the row says the same without one; under a trip the captain
\* stays findable, and nobody is about to switch him off.
RidingFollows(c) ==
    /\ UnderWay(c) \in {0, 1}
    /\ UnderWay(c) = 0 => captain[c].riding = ride[c]
    /\ \A s \in BOOLEAN : rideEvents[c][s] > 0 => s = ride[c]
    /\ \A h \in Handling(c) : captainJob[h].on = ride[c]
    /\ OnTrip(c) => /\ captain[c].mode /\ captain[c].approved
                         /\ \A h \in EventHandlers :
                                captainJob[h].op = "switch" => captainJob[h].captain # c

RidingInv == \A c \in Captains \ muddledCaptains : RidingFollows(c)

\* Events under way can be counted.
LEMMA EventsCounted ==
    ASSUME TypeOK, NEW c \in Captains
    PROVE  /\ IsFiniteSet(Handling(c))
           /\ Cardinality(Handling(c)) \in Nat
           /\ rideEvents[c][TRUE] \in Nat /\ rideEvents[c][FALSE] \in Nat
           /\ UnderWay(c) \in Nat
           /\ UnderWay(c) = 0 =>
                  /\ Handling(c) = {}
                  /\ \A s \in BOOLEAN : rideEvents[c][s] = 0
<1>1. IsFiniteSet(Handling(c))
  BY HandlersAssumption, FS_Subset DEF Handling
<1>2. Cardinality(Handling(c)) \in Nat
  BY <1>1, FS_CardinalityType
<1>3. rideEvents[c][TRUE] \in Nat /\ rideEvents[c][FALSE] \in Nat
  <2>1. \A s \in BOOLEAN : rideEvents[c][s] \in Nat
    BY DEF TypeOK
  <2>2. TRUE \in BOOLEAN /\ FALSE \in BOOLEAN
    OBVIOUS
  <2> QED
    BY <2>1, <2>2, Zenon
<1> DEFINE yes == rideEvents[c][TRUE]
           no == rideEvents[c][FALSE]
           now == Cardinality(Handling(c))
<1>4. yes \in Nat /\ no \in Nat /\ now \in Nat /\ UnderWay(c) = yes + no + now
  BY <1>2, <1>3, Zenon DEF UnderWay
<1>5. UnderWay(c) = 0 => \A s \in BOOLEAN : yes = 0 /\ no = 0 => rideEvents[c][s] = 0
  BY Zenon
<1>6. now = 0 => Handling(c) = {}
  BY <1>1, FS_EmptySet
<1>7. UnderWay(c) \in Nat /\ (UnderWay(c) = 0 => yes = 0 /\ no = 0 /\ now = 0)
  <2> HIDE DEF yes, no, now
  <2> QED
    BY <1>4
<1> QED
  BY <1>1, <1>2, <1>3, <1>5, <1>6, <1>7, Zenon

\* A step that leaves a captain's row, trip, events and handlers alone, or begins
\* or ends something else for him than a switch, leaves him followed.
LEMMA StillFollowed ==
    ASSUME NEW c \in Captains, RidingFollows(c),
           captain'[c].riding = captain[c].riding,
           OnTrip(c) => captain'[c].mode /\ captain'[c].approved,
           ride'[c] = ride[c], rideEvents'[c] = rideEvents[c],
           Handling(c)' = Handling(c),
           \A h \in Handling(c) : captainJob'[h] = captainJob[h],
           OnTrip(c) => \A h \in EventHandlers :
               captainJob'[h].op = "switch" => \/ captainJob'[h] = captainJob[h]
                                             \/ captainJob'[h].captain # c
    PROVE  RidingFollows(c)'
<1>1. UnderWay(c)' = UnderWay(c)
  BY DEF UnderWay
<1>2. OnTrip(c)' <=> OnTrip(c)
  BY <1>1 DEF OnTrip
<1> QED
  BY <1>1, <1>2 DEF RidingFollows

\* A handler that begins handles an event of its captain, if it begins with one.
LEMMA Begun ==
    ASSUME TypeOK, NEW h \in EventHandlers, NEW e \in Captains, NEW c \in Captains,
           NEW on \in BOOLEAN, NEW op \in {"availability", "switch", "subscription", "expired"},
           Begin(h, Job(op, e, on))
    PROVE  /\ h \notin Handling(c)
           /\ Handling(c)' = IF op = "availability" /\ e = c THEN Handling(c) \cup {h}
                             ELSE Handling(c)
           /\ captainJob'[h] = Job(op, e, on)
           /\ captainJob'[h].op = op /\ captainJob'[h].captain = e /\ captainJob'[h].on = on
           /\ \A g \in EventHandlers \ {h} : captainJob'[g] = captainJob[g]
<1>1. captainJob[h] = Idle /\ captainJob[h].op = "none"
  BY DEF Begin, Idle
<1>2. /\ captainJob'[h] = Job(op, e, on)
      /\ captainJob'[h].op = op /\ captainJob'[h].captain = e /\ captainJob'[h].on = on
      /\ \A g \in EventHandlers \ {h} : captainJob'[g] = captainJob[g]
  BY DEF Begin, Job, TypeOK
<1>3. h \notin Handling(c)
  BY <1>1 DEF Handling
<1> QED
  BY <1>2, <1>3 DEF Handling

\* A handler that is done handles nothing.
LEMMA Ended ==
    ASSUME TypeOK, NEW h \in EventHandlers, NEW c \in Captains, Done(h)
    PROVE  /\ Handling(c)' = Handling(c) \ {h}
           /\ captainJob'[h].op = "none"
           /\ \A g \in EventHandlers \ {h} : captainJob'[g] = captainJob[g]
<1>1. /\ captainJob'[h].op = "none"
      /\ \A g \in EventHandlers \ {h} : captainJob'[g] = captainJob[g]
  BY DEF Done, Idle, TypeOK
<1> QED
  BY <1>1 DEF Handling

\* Nothing is under way when the event of a trip is sent that does not get in a muddle.
LEMMA NothingUnderWay ==
    ASSUME TypeOK, NEW c \in Captains, ~(UnderWay(c) > 0)
    PROVE  UnderWay(c) = 0 /\ Handling(c) = {} /\ \A s \in BOOLEAN : rideEvents[c][s] = 0
<1>1. UnderWay(c) \in Nat
  BY EventsCounted, Zenon
<1>2. UnderWay(c) = 0
  BY <1>1
<1> QED
  BY <1>2, EventsCounted, Zenon

\* The first event is alone.
LEMMA FirstEvent ==
    ASSUME TypeOK, NEW c \in Captains, NEW s \in BOOLEAN, UnderWay(c) = 0, Handling(c) = {},
           \A t \in BOOLEAN : rideEvents[c][t] = 0, Send(c, s), captainJob' = captainJob
    PROVE  /\ Handling(c)' = {}
           /\ UnderWay(c)' = 1
           /\ \A t \in BOOLEAN : rideEvents'[c][t] > 0 => t = s
<1>1. rideEvents' = [rideEvents EXCEPT ![c][s] = 1]
  <2>1. rideEvents[c][s] + 1 = 1
    OBVIOUS
  <2> QED
    BY <2>1, Zenon DEF Send
<1>2. \A t \in BOOLEAN : rideEvents'[c][t] = IF t = s THEN 1 ELSE 0
  BY <1>1 DEF TypeOK
<1>3. Handling(c)' = {}
  BY DEF Handling
<1>4. Cardinality(Handling(c)') = 0
  BY <1>3, FS_EmptySet
<1> DEFINE yes == rideEvents'[c][TRUE]
           no == rideEvents'[c][FALSE]
<1>5. (yes = 1 /\ no = 0) \/ (yes = 0 /\ no = 1)
  BY <1>2, Zenon
<1>6. UnderWay(c)' = yes + no + Cardinality(Handling(c)')
  BY Zenon DEF UnderWay
<1>7. UnderWay(c)' = 1
  <2> HIDE DEF yes, no
  <2> QED
    BY <1>4, <1>5, <1>6
<1>8. \A t \in BOOLEAN : rideEvents'[c][t] > 0 => t = s
  BY <1>2
<1> QED
  BY <1>3, <1>7, <1>8

\* A trip that begins with everything told leaves one event, and its captain findable.
LEMMA AcceptFollows ==
    ASSUME TypeOK, NEW c \in Captains, RidingFollows(c), Accept(c), c \notin muddledCaptains'
    PROVE  RidingFollows(c)'
<1>1. /\ ~ride[c] /\ ride'[c] = TRUE /\ captain' = captain /\ captainJob' = captainJob
      /\ Send(c, TRUE)
  BY DEF Accept, TypeOK
<1>2. ~(UnderWay(c) > 0) /\ ModeChanges(c) = {} /\ captain[c].mode /\ captain[c].approved
  BY DEF Accept, Muddle
<1>3. UnderWay(c) = 0 /\ Handling(c) = {} /\ \A s \in BOOLEAN : rideEvents[c][s] = 0
  BY <1>2, NothingUnderWay
<1>4. /\ Handling(c)' = {} /\ UnderWay(c)' = 1
      /\ \A t \in BOOLEAN : rideEvents'[c][t] > 0 => t = ride'[c]
  BY <1>1, <1>3, FirstEvent, Zenon
<1>5. \A h \in EventHandlers : captainJob'[h].op = "switch" => captainJob'[h].captain # c
  BY <1>1, <1>2 DEF ModeChanges, Idle, Handling
<1>6. /\ UnderWay(c)' \in {0, 1}
      /\ UnderWay(c)' # 0
      /\ \A s \in BOOLEAN : rideEvents'[c][s] > 0 => s = ride'[c]
      /\ \A h \in Handling(c)' : captainJob'[h].on = ride'[c]
      /\ captain'[c].mode /\ captain'[c].approved
  BY <1>1, <1>2, <1>4, 1 # 0, Zenon
<1> QED
  BY <1>5, <1>6, Zenon DEF RidingFollows

\* So does a trip that ends.
LEMMA EndRideFollows ==
    ASSUME TypeOK, NEW c \in Captains, RidingFollows(c), EndRide(c), c \notin muddledCaptains'
    PROVE  RidingFollows(c)'
<1>1. /\ ride[c] /\ ride'[c] = FALSE /\ captain' = captain /\ captainJob' = captainJob
      /\ Send(c, FALSE)
  BY DEF EndRide, TypeOK
<1>2. ~(UnderWay(c) > 0)
  BY DEF EndRide, Muddle
<1>3. UnderWay(c) = 0 /\ Handling(c) = {} /\ \A s \in BOOLEAN : rideEvents[c][s] = 0
  BY <1>2, NothingUnderWay
<1>4. /\ Handling(c)' = {} /\ UnderWay(c)' = 1
      /\ \A t \in BOOLEAN : rideEvents'[c][t] > 0 => t = ride'[c]
  BY <1>1, <1>3, FirstEvent, Zenon
<1>5. /\ captain'[c].mode /\ captain'[c].approved
      /\ \A h \in EventHandlers : captainJob'[h].op = "switch" => captainJob'[h].captain # c
  BY <1>1 DEF RidingFollows, OnTrip
<1>6. /\ UnderWay(c)' \in {0, 1}
      /\ UnderWay(c)' # 0
      /\ \A s \in BOOLEAN : rideEvents'[c][s] > 0 => s = ride'[c]
      /\ \A h \in Handling(c)' : captainJob'[h].on = ride'[c]
  BY <1>4, 1 # 0, Zenon
<1> QED
  BY <1>5, <1>6, Zenon DEF RidingFollows

\* An event that is delivered is an event being handled.
LEMMA DeliverFollows ==
    ASSUME TypeOK, NEW c \in Captains, NEW h \in EventHandlers, NEW s \in BOOLEAN,
           RidingFollows(c), Deliver(h, c, s)
    PROVE  RidingFollows(c)'
<1>1. rideEvents[c][s] > 0 /\ rideEvents[c][s] # 0
  BY DEF Deliver, TypeOK
<1>2. UnderWay(c) # 0
  BY <1>1, EventsCounted, Zenon
<1>3. UnderWay(c) = 1 /\ s = ride[c] /\ OnTrip(c)
  BY <1>1, <1>2 DEF RidingFollows, OnTrip
<1>4. /\ Begin(h, Job("availability", c, s))
      /\ captain' = captain /\ ride' = ride
      /\ rideEvents' = [rideEvents EXCEPT ![c][s] = @ - 1]
  BY <1>3 DEF RidingFollows, Deliver
<1>5. /\ h \notin Handling(c)
      /\ Handling(c)' = Handling(c) \cup {h}
      /\ captainJob'[h].op = "availability" /\ captainJob'[h].on = s
      /\ \A g \in EventHandlers \ {h} : captainJob'[g] = captainJob[g]
  BY <1>4, Begun
<1>6. Cardinality(Handling(c)') = Cardinality(Handling(c)) + 1
  <2>1. IsFiniteSet(Handling(c))
    BY EventsCounted, Zenon
  <2> QED
    BY <1>5, <2>1, FS_AddElement
<1>7. \A t \in BOOLEAN : rideEvents'[c][t] = IF t = s THEN rideEvents[c][t] - 1 ELSE rideEvents[c][t]
  BY <1>4 DEF TypeOK
<1>8. UnderWay(c)' = 1
  <2> DEFINE yes == rideEvents[c][TRUE]
             no == rideEvents[c][FALSE]
             now == Cardinality(Handling(c))
             yesNext == rideEvents'[c][TRUE]
             noNext == rideEvents'[c][FALSE]
             nowNext == Cardinality(Handling(c)')
  <2>1. yes \in Nat /\ no \in Nat /\ now \in Nat
    BY EventsCounted, Zenon
  <2>2. yes + no + now = 1 /\ UnderWay(c)' = yesNext + noNext + nowNext
    BY <1>3, Zenon DEF UnderWay
  <2>3. (yesNext = yes - 1 /\ noNext = no) \/ (yesNext = yes /\ noNext = no - 1)
    BY <1>7, Zenon
  <2>4. nowNext = now + 1
    BY <1>6, Zenon
  <2> HIDE DEF yes, no, now, yesNext, noNext, nowNext
  <2> QED
    BY <2>1, <2>2, <2>3, <2>4
<1>9. \A t \in BOOLEAN : rideEvents'[c][t] > 0 => t = ride'[c]
  <2>1. \A t \in BOOLEAN : rideEvents'[c][t] > 0 => rideEvents[c][t] > 0
    BY <1>7 DEF TypeOK
  <2> QED
    BY <1>4, <2>1 DEF RidingFollows
<1>10. \A g \in Handling(c)' : captainJob'[g].on = ride'[c]
  BY <1>3, <1>4, <1>5 DEF RidingFollows, Handling
<1>11. /\ captain'[c].mode /\ captain'[c].approved
       /\ \A g \in EventHandlers : captainJob'[g].op = "switch" => captainJob'[g].captain # c
  BY <1>3, <1>4, <1>5 DEF RidingFollows
<1>12. UnderWay(c)' \in {0, 1} /\ UnderWay(c)' # 0
  BY <1>8
<1> QED
  BY <1>9, <1>10, <1>11, <1>12, Zenon DEF RidingFollows

\* The row follows the last event.
LEMMA WriteAvailabilityFollows ==
    ASSUME TypeOK, NEW c \in Captains, NEW h \in EventHandlers, RidingFollows(c),
           WriteAvailability(h), captainJob[h].captain = c
    PROVE  RidingFollows(c)'
<1>1. h \in Handling(c) /\ Done(h) /\ ride' = ride /\ rideEvents' = rideEvents
  BY DEF WriteAvailability, Handling
<1>2. UnderWay(c) = 1 /\ OnTrip(c)
  <2>1. UnderWay(c) # 0
    BY <1>1, EventsCounted, Zenon
  <2> QED
    BY <2>1 DEF RidingFollows, OnTrip
<1>3. captain'[c].riding = ride[c] /\ captain'[c].mode /\ captain'[c].approved
  BY <1>1, <1>2 DEF WriteAvailability, RidingFollows, TypeOK, Row
<1>4. /\ Handling(c)' = Handling(c) \ {h}
      /\ captainJob'[h].op = "none"
      /\ \A g \in EventHandlers \ {h} : captainJob'[g] = captainJob[g]
  BY <1>1, Ended
<1>5. Cardinality(Handling(c)') = Cardinality(Handling(c)) - 1
  <2>1. IsFiniteSet(Handling(c))
    BY EventsCounted, Zenon
  <2> QED
    BY <1>1, <1>4, <2>1, FS_RemoveElement
<1>6. UnderWay(c)' = 0
  <2> DEFINE yes == rideEvents[c][TRUE]
             no == rideEvents[c][FALSE]
             now == Cardinality(Handling(c))
             nowNext == Cardinality(Handling(c)')
  <2>1. yes \in Nat /\ no \in Nat /\ now \in Nat
    BY EventsCounted, Zenon
  <2>2. yes + no + now = 1 /\ UnderWay(c)' = yes + no + nowNext
    BY <1>1, <1>2, Zenon DEF UnderWay
  <2>3. nowNext = now - 1
    BY <1>5, Zenon
  <2> HIDE DEF yes, no, now, nowNext
  <2> QED
    BY <2>1, <2>2, <2>3
<1>7. \A t \in BOOLEAN : rideEvents'[c][t] > 0 => t = ride'[c]
  BY <1>1 DEF RidingFollows
<1>8. \A g \in Handling(c)' : captainJob'[g].on = ride'[c]
  BY <1>1, <1>4 DEF RidingFollows, Handling
<1>9. \A g \in EventHandlers : captainJob'[g].op = "switch" => captainJob'[g].captain # c
  BY <1>2, <1>4 DEF RidingFollows
<1> QED
  BY <1>1, <1>3, <1>6, <1>7, <1>8, <1>9, 0 \in {0, 1}, Zenon DEF RidingFollows

\* Whoever is in no muddle after a step was in none before it.
LEMMA MuddleStays == TypeOK /\ [Next]_captainVars => muddledCaptains \subseteq muddledCaptains'
<1> SUFFICES ASSUME TypeOK, [Next]_captainVars
             PROVE  muddledCaptains \subseteq muddledCaptains'
  OBVIOUS
<1>1. CASE UNCHANGED captainVars
  BY <1>1 DEF captainVars
<1>2. ASSUME NEW c \in Captains, Ask(c) \/ Accept(c) \/ AcceptInVain(c) \/ EndRide(c)
      PROVE  muddledCaptains \subseteq muddledCaptains'
  <2>1. CASE Ask(c) \/ AcceptInVain(c)
    BY <2>1 DEF Ask, AcceptInVain, Muddle
  <2>2. CASE Accept(c) \/ EndRide(c)
    BY <2>2 DEF Accept, EndRide, Muddle
  <2> QED
    BY <1>2, <2>1, <2>2
<1>3. ASSUME NEW c \in Captains, NEW b \in BOOLEAN, TellSubscription(c, b) \/ ChangeStatus(c, b)
      PROVE  muddledCaptains \subseteq muddledCaptains'
  BY <1>3 DEF TellSubscription, ChangeStatus, Muddle
<1>4. ASSUME NEW h \in EventHandlers, NEW c \in Captains, Request(h, c)
      PROVE  muddledCaptains \subseteq muddledCaptains'
  BY <1>4 DEF Request, Switch, FindExpired, ChangeSubscription, Muddle
<1>5. ASSUME NEW h \in EventHandlers, EventStep(h) \/ Finish(h)
      PROVE  muddledCaptains \subseteq muddledCaptains'
  BY <1>5 DEF EventStep, Deliver, WriteAvailability, Finish, WriteSwitch, WriteSubscription,
     WriteExpired, Muddle
<1> QED
  BY <1>1, <1>2, <1>3, <1>4, <1>5 DEF Next

\* A subscription that is told and an administrator leave whom they do not put in a
\* muddle followed.
LEMMA ToldFollows ==
    ASSUME TypeOK, NEW c \in Captains \ muddledCaptains', RidingFollows(c),
           NEW e \in Captains, NEW b \in BOOLEAN, TellSubscription(e, b) \/ ChangeStatus(e, b)
    PROVE  RidingFollows(c)'
<1>1. CASE TellSubscription(e, b)
  <2>1. /\ UNCHANGED <<ride, rideEvents, captainJob>>
        /\ captain'[c].riding = captain[c].riding /\ captain'[c].mode = captain[c].mode
        /\ captain'[c].approved = captain[c].approved
    BY <1>1 DEF TellSubscription, TypeOK, Row
  <2>2. Handling(c)' = Handling(c)
    BY <2>1 DEF Handling
  <2>3. OnTrip(c) => captain'[c].mode /\ captain'[c].approved
    BY <2>1 DEF RidingFollows
  <2> QED
    BY <2>1, <2>2, <2>3, StillFollowed
<1>2. CASE ChangeStatus(e, b)
  <2>1. /\ UNCHANGED <<ride, rideEvents, captainJob>>
        /\ captain'[c].riding = captain[c].riding
        /\ captain'[c].mode = (captain[c].mode /\ (e = c => b))
        /\ captain'[c].approved = IF e = c THEN b ELSE captain[c].approved
    BY <1>2 DEF ChangeStatus, TypeOK, Row
  <2>2. Handling(c)' = Handling(c)
    BY <2>1 DEF Handling
  <2>3. OnTrip(c) /\ e = c => b
    BY <1>2 DEF ChangeStatus, Muddle
  <2>4. OnTrip(c) => captain'[c].mode /\ captain'[c].approved
    BY <2>1, <2>3 DEF RidingFollows
  <2> QED
    BY <2>1, <2>2, <2>4, StillFollowed
<1> QED
  BY <1>1, <1>2

\* So does a request, and what comes of it.
LEMMA ModeFollows ==
    ASSUME TypeOK, NEW c \in Captains \ muddledCaptains', RidingFollows(c),
           NEW e \in Captains, NEW h \in EventHandlers,
           Request(h, e) \/ Finish(h)
    PROVE  RidingFollows(c)'
<1>1. CASE Request(h, e)
  <2>1. ASSUME NEW op \in {"subscription", "expired"}, NEW on \in BOOLEAN,
               Begin(h, Job(op, e, on)),
               UNCHANGED <<captain, ride, rideEvents>>
        PROVE  RidingFollows(c)'
    <3>1. /\ h \notin Handling(c) /\ Handling(c)' = Handling(c)
          /\ captainJob'[h].op # "switch"
          /\ \A g \in EventHandlers \ {h} : captainJob'[g] = captainJob[g]
      BY <2>1, Begun
    <3>2. \A g \in Handling(c) : captainJob'[g] = captainJob[g]
      BY <3>1 DEF Handling
    <3>3. OnTrip(c) => captain'[c].mode /\ captain'[c].approved
      BY <2>1 DEF RidingFollows
    <3> QED
      BY <2>1, <3>1, <3>2, <3>3, StillFollowed
  <2>2. CASE Switch(h, e)
    <3>1. ~OnTrip(c) \/ e # c
      BY <2>2 DEF Switch, MaySwitch, Muddle, RidingFollows
    <3>2. PICK on \in BOOLEAN : /\ Begin(h, Job("switch", e, on))
                                /\ UNCHANGED <<captain, ride, rideEvents>>
      <4>1. (~captain[e].mode) \in BOOLEAN
        OBVIOUS
      <4> QED
        BY <2>2, <4>1, Zenon DEF Switch
    <3>3. /\ h \notin Handling(c) /\ Handling(c)' = Handling(c)
          /\ captainJob'[h].captain = e
          /\ \A g \in EventHandlers \ {h} : captainJob'[g] = captainJob[g]
      BY <3>2, Begun
    <3>4. \A g \in Handling(c) : captainJob'[g] = captainJob[g]
      BY <3>3 DEF Handling
    <3>5. OnTrip(c) => captain'[c].mode /\ captain'[c].approved
      BY <3>2 DEF RidingFollows
    <3> QED
      BY <3>1, <3>2, <3>3, <3>4, <3>5, StillFollowed
  <2> QED
    BY <1>1, <2>1, <2>2 DEF Request, FindExpired, ChangeSubscription
<1>2. CASE Finish(h)
  <2> DEFINE d == captainJob[h].captain
  <2>1. /\ Done(h) /\ UNCHANGED <<ride, rideEvents>>
        /\ captainJob[h].op # "availability" /\ captainJob[h] # Idle
    BY <1>2 DEF Finish, WriteSwitch, WriteSubscription, WriteExpired, Idle
  <2>2. d \in Captains
    BY <2>1 DEF TypeOK
  <2>3. /\ h \notin Handling(c) /\ Handling(c)' = Handling(c)
        /\ captainJob'[h].op = "none"
        /\ \A g \in EventHandlers \ {h} : captainJob'[g] = captainJob[g]
    BY <2>1, Ended DEF Handling
  <2>4. \A g \in Handling(c) : captainJob'[g] = captainJob[g]
    BY <2>3 DEF Handling
  <2>5. captain'[c].riding = captain[c].riding
    <3>1. CASE WriteSwitch(h)
      BY <2>2, <3>1 DEF WriteSwitch, TypeOK, Row
    <3>2. CASE WriteSubscription(h)
      BY <2>2, <3>2 DEF WriteSubscription, TypeOK, Row
    <3>3. CASE WriteExpired(h)
      BY <2>2, <3>3 DEF WriteExpired, TypeOK, Row
    <3> QED
      BY <1>2, <3>1, <3>2, <3>3 DEF Finish
  <2>6. ASSUME OnTrip(c)
        PROVE  captain'[c].mode /\ captain'[c].approved
    <3>1. captain[c].mode /\ captain[c].approved
      BY <2>6 DEF RidingFollows
    <3>2. CASE WriteSwitch(h)
      <4>1. d # c
        BY <2>6, <3>2 DEF WriteSwitch, RidingFollows
      <4> QED
        BY <2>2, <3>1, <3>2, <4>1 DEF WriteSwitch, TypeOK
    <3>3. CASE WriteSubscription(h)
      <4>1. d = c => captainJob[h].on
        BY <2>6, <3>3 DEF WriteSubscription, Muddle
      <4> QED
        BY <2>2, <3>1, <3>3, <4>1 DEF WriteSubscription, TypeOK, Row
    <3>4. CASE WriteExpired(h)
      <4>1. d # c
        BY <2>6, <3>4 DEF WriteExpired, Muddle
      <4> QED
        BY <2>2, <3>1, <3>4, <4>1 DEF WriteExpired, TypeOK
    <3> QED
      BY <1>2, <3>2, <3>3, <3>4 DEF Finish
  <2> QED
    BY <2>1, <2>3, <2>4, <2>5, <2>6, StillFollowed
<1> QED
  BY <1>1, <1>2

\* No step takes a captain out of what is known of him, but those that muddle him.
LEMMA RidingStep == TypeOK /\ RidingInv /\ [Next]_captainVars => RidingInv'
<1> SUFFICES ASSUME TypeOK, RidingInv, [Next]_captainVars,
                    NEW c \in Captains, c \notin muddledCaptains'
             PROVE  RidingFollows(c)'
  BY DEF RidingInv
<1>1. RidingFollows(c)
  BY MuddleStays DEF RidingInv
<1>2. CASE /\ UNCHANGED <<captain, captainJob>>
           /\ ride'[c] = ride[c] /\ rideEvents'[c] = rideEvents[c]
  <2>1. Handling(c)' = Handling(c)
    BY <1>2 DEF Handling
  <2>2. OnTrip(c) => captain'[c].mode /\ captain'[c].approved
    BY <1>1, <1>2 DEF RidingFollows
  <2> QED
    BY <1>1, <1>2, <2>1, <2>2, StillFollowed
<1>3. CASE UNCHANGED captainVars
  BY <1>2, <1>3 DEF captainVars
<1>4. ASSUME NEW e \in Captains, Ask(e) \/ Accept(e) \/ AcceptInVain(e) \/ EndRide(e)
      PROVE  RidingFollows(c)'
  <2>1. CASE e # c
    BY <1>2, <1>4, <2>1 DEF Ask, Accept, AcceptInVain, EndRide, Send, TypeOK
  <2>2. CASE Ask(c)
    BY <1>2, <2>2 DEF Ask
  <2>3. ~AcceptInVain(c)
    BY DEF AcceptInVain, Muddle
  <2> QED
    BY <1>1, <1>4, <2>1, <2>2, <2>3, AcceptFollows, EndRideFollows
<1>5. ASSUME NEW h \in EventHandlers, NEW e \in Captains, NEW s \in BOOLEAN, Deliver(h, e, s)
      PROVE  RidingFollows(c)'
  <2>1. CASE e = c
    BY <1>1, <1>5, <2>1, DeliverFollows
  <2>2. CASE e # c
    <3>1. /\ UNCHANGED <<captain, ride>> /\ rideEvents'[c] = rideEvents[c]
          /\ Begin(h, Job("availability", e, s)) \/ UNCHANGED captainJob
      BY <1>5, <2>2 DEF Deliver, TypeOK
    <3>2. CASE UNCHANGED captainJob
      BY <1>2, <3>1, <3>2
    <3>3. CASE Begin(h, Job("availability", e, s))
      <4>1. /\ h \notin Handling(c) /\ Handling(c)' = Handling(c)
            /\ captainJob'[h].op # "switch"
            /\ \A g \in EventHandlers \ {h} : captainJob'[g] = captainJob[g]
        BY <2>2, <3>3, Begun
      <4>2. \A g \in Handling(c) : captainJob'[g] = captainJob[g]
        BY <4>1 DEF Handling
      <4>3. OnTrip(c) => captain'[c].mode /\ captain'[c].approved
        BY <1>1, <3>1 DEF RidingFollows
      <4> QED
        BY <1>1, <3>1, <4>1, <4>2, <4>3, StillFollowed
    <3> QED
      BY <3>1, <3>2, <3>3
  <2> QED
    BY <2>1, <2>2
<1>6. ASSUME NEW h \in EventHandlers, WriteAvailability(h)
      PROVE  RidingFollows(c)'
  <2>1. CASE captainJob[h].captain = c
    BY <1>1, <1>6, <2>1, WriteAvailabilityFollows
  <2>2. CASE captainJob[h].captain # c
    <3>1. /\ UNCHANGED <<ride, rideEvents>> /\ captain'[c] = captain[c] /\ Done(h)
      BY <1>6, <2>2 DEF WriteAvailability, TypeOK
    <3>2. /\ h \notin Handling(c) /\ Handling(c)' = Handling(c)
          /\ captainJob'[h].op = "none"
          /\ \A g \in EventHandlers \ {h} : captainJob'[g] = captainJob[g]
      BY <2>2, <3>1, Ended DEF Handling
    <3>3. \A g \in Handling(c) : captainJob'[g] = captainJob[g]
      BY <3>2 DEF Handling
    <3>4. OnTrip(c) => captain'[c].mode /\ captain'[c].approved
      BY <1>1, <3>1 DEF RidingFollows
    <3> QED
      BY <1>1, <3>1, <3>2, <3>3, <3>4, StillFollowed
  <2> QED
    BY <2>1, <2>2
<1>7. ASSUME NEW e \in Captains, NEW b \in BOOLEAN, TellSubscription(e, b) \/ ChangeStatus(e, b)
      PROVE  RidingFollows(c)'
  BY <1>1, <1>7, ToldFollows
<1>8. ASSUME NEW h \in EventHandlers, NEW e \in Captains, Request(h, e)
      PROVE  RidingFollows(c)'
  BY <1>1, <1>8, ModeFollows
<1>9. ASSUME NEW h \in EventHandlers, Finish(h)
      PROVE  RidingFollows(c)'
  BY <1>1, <1>9, ModeFollows
<1> QED
  BY <1>3, <1>4, <1>5, <1>6, <1>7, <1>8, <1>9 DEF Next, EventStep

\* A captain's row says that he is riding whenever the rides service knows that he is and
\* nothing is under way to him, for every number of captains, handlers and events.
THEOREM RidingAlwaysAgrees == Spec => []RidingAgrees
<1>1. Init => RidingInv
  <2> SUFFICES ASSUME Init, NEW c \in Captains
               PROVE  RidingFollows(c)
    BY DEF RidingInv
  <2>1. Handling(c) = {} /\ \A s \in BOOLEAN : rideEvents[c][s] = 0
    BY DEF Init, Handling, Idle, NoEvents
  <2>2. UnderWay(c) = 0
    <3>1. Cardinality(Handling(c)) = 0
      BY <2>1, FS_EmptySet
    <3>2. rideEvents[c][TRUE] = 0 /\ rideEvents[c][FALSE] = 0
      BY <2>1, Zenon
    <3>3. UnderWay(c) = 0 + 0 + 0
      BY <3>1, <3>2, Zenon DEF UnderWay
    <3> QED
      BY <3>3
  <2>3. captain[c].riding = ride[c] /\ ~ride[c]
    BY DEF Init, NewCaptain
  <2> QED
    BY <2>1, <2>2, <2>3 DEF RidingFollows, OnTrip
<1>2. RidingInv => RidingAgrees
  BY DEF RidingInv, RidingFollows, RidingAgrees
<1> QED
  BY <1>1, <1>2, RidingStep, CaptainsType, PTL DEF Spec

-----------------------------------------------------------------------------
(* Groups *)

\* What a handler has ahead of it.
Ahead(op) ==
    CASE op = "add" -> {<<"rows", "revive", "find", "receivers", "read", "sync">>,
                        <<"revive", "find", "receivers", "read", "sync">>,
                        <<"find", "receivers", "read", "sync">>,
                        <<"receivers", "read", "sync">>, <<"read", "sync">>, <<"sync">>}
      [] op = "remove" -> {<<"rows", "find", "receivers", "read", "sync">>,
                           <<"find", "receivers", "read", "sync">>,
                           <<"receivers", "read", "sync">>, <<"read", "sync">>, <<"sync">>}
      [] OTHER -> {<<>>}

Turns == {"rows", "revive", "find", "receivers", "read", "sync"}

TurnAfter(op, p) ==
    CASE p = "rows" -> IF op = "add" THEN "revive" ELSE "find"
      [] p = "revive" -> "find"
      [] p = "find" -> "receivers"
      [] p = "receivers" -> "read"
      [] OTHER -> "sync"

GroupOps == {"none", "add", "remove"}

GroupJob ==
    [op : GroupOps, group : Groups \cup {"none"}, users : SUBSET Users,
     steps : UNION {Ahead(op) : op \in GroupOps}, found : [Users -> Group!Membership],
     listed : SUBSET Users]

GroupTyped ==
    /\ member \in [Groups -> [Users -> Group!Membership]]
    /\ receivers \in [Groups -> [Users -> Group!Membership]]
    /\ roster \in [Groups -> SUBSET Users]
    /\ groupJob \in [Handlers -> GroupJob]
    /\ \A h \in Handlers :
           \/ groupJob[h] = Group!Idle
           \/ /\ groupJob[h].op \in {"add", "remove"} /\ groupJob[h].group \in Groups
              /\ groupJob[h].steps \in Ahead(groupJob[h].op)

\* The steps follow each other in the order of the code.
LEMMA TurnsInOrder ==
    ASSUME NEW op \in {"add", "remove"}, NEW s \in Ahead(op)
    PROVE  /\ Head(s) \in Turns
           /\ Len(s) = 1 <=> Head(s) = "sync"
           /\ Head(s) # "sync" => Tail(s) \in Ahead(op) /\ Head(Tail(s)) = TurnAfter(op, Head(s))
           /\ Head(s) = "revive" => op = "add"
<1>1. CASE op = "add"
  <2>1. CASE s = <<"rows", "revive", "find", "receivers", "read", "sync">>
    BY <1>1, <2>1 DEF Ahead, Turns, TurnAfter
  <2>2. CASE s = <<"revive", "find", "receivers", "read", "sync">>
    BY <1>1, <2>2 DEF Ahead, Turns, TurnAfter
  <2>3. CASE s = <<"find", "receivers", "read", "sync">>
    BY <1>1, <2>3 DEF Ahead, Turns, TurnAfter
  <2>4. CASE s = <<"receivers", "read", "sync">>
    BY <1>1, <2>4 DEF Ahead, Turns, TurnAfter
  <2>5. CASE s = <<"read", "sync">>
    BY <1>1, <2>5 DEF Ahead, Turns, TurnAfter
  <2>6. CASE s = <<"sync">>
    BY <1>1, <2>6 DEF Ahead, Turns, TurnAfter
  <2> QED
    BY <1>1, <2>1, <2>2, <2>3, <2>4, <2>5, <2>6 DEF Ahead
<1>2. CASE op = "remove"
  <2>1. CASE s = <<"rows", "find", "receivers", "read", "sync">>
    BY <1>2, <2>1 DEF Ahead, Turns, TurnAfter
  <2>3. CASE s = <<"find", "receivers", "read", "sync">>
    BY <1>2, <2>3 DEF Ahead, Turns, TurnAfter
  <2>4. CASE s = <<"receivers", "read", "sync">>
    BY <1>2, <2>4 DEF Ahead, Turns, TurnAfter
  <2>5. CASE s = <<"read", "sync">>
    BY <1>2, <2>5 DEF Ahead, Turns, TurnAfter
  <2>6. CASE s = <<"sync">>
    BY <1>2, <2>6 DEF Ahead, Turns, TurnAfter
  <2> QED
    BY <1>2, <2>1, <2>3, <2>4, <2>5, <2>6 DEF Ahead
<1> QED
  BY <1>1, <1>2

\* A handler at work at one of its steps.
LEMMA AtWorkOn ==
    ASSUME GroupTyped, NEW h \in Handlers, NEW p, Group!At(h, p)
    PROVE  /\ groupJob[h].op \in {"add", "remove"} /\ groupJob[h].group \in Groups
           /\ groupJob[h].steps \in Ahead(groupJob[h].op)
           /\ Head(groupJob[h].steps) = p
           /\ groupJob[h].users \subseteq Users
           /\ groupJob[h].found \in [Users -> Group!Membership]
           /\ groupJob[h].listed \subseteq Users
BY DEF GroupTyped, GroupJob, Group!At

\* What Go leaves of a handler that goes on with what it has read.
LEMMA WentOn ==
    ASSUME GroupTyped, NEW h \in Handlers, NEW j \in GroupJob,
           groupJob[h] # Group!Idle, j.op = groupJob[h].op, j.group = groupJob[h].group,
           j.steps = groupJob[h].steps, Group!Go(h, j)
    PROVE  /\ groupJob' \in [Handlers -> GroupJob]
           /\ \A k \in Handlers \ {h} : groupJob'[k] = groupJob[k]
           /\ Head(j.steps) = "sync" => groupJob'[h] = Group!Idle
           /\ Head(j.steps) # "sync" =>
                  /\ groupJob'[h].op = j.op /\ groupJob'[h].group = j.group
                  /\ groupJob'[h].users = j.users /\ groupJob'[h].found = j.found
                  /\ groupJob'[h].listed = j.listed
                  /\ groupJob'[h].steps \in Ahead(j.op)
                  /\ Head(groupJob'[h].steps) = TurnAfter(j.op, Head(j.steps))
<1>1. j.op \in {"add", "remove"} /\ j.steps \in Ahead(j.op)
  BY DEF GroupTyped
<1>2. Group!Idle \in GroupJob
  BY DEF Group!Idle, GroupJob, GroupOps, Ahead, Group!NotCreated, Group!Membership
<1>3. /\ \A k \in Handlers \ {h} : groupJob'[k] = groupJob[k]
      /\ groupJob'[h] = IF Len(j.steps) = 1 THEN Group!Idle ELSE [j EXCEPT !.steps = Tail(@)]
  BY DEF GroupTyped, Group!Go
<1>4. CASE Head(j.steps) = "sync"
  BY <1>1, <1>2, <1>3, <1>4, TurnsInOrder DEF GroupTyped, Group!Go
<1>5. CASE Head(j.steps) # "sync"
  <2>1. groupJob'[h] = [j EXCEPT !.steps = Tail(@)]
    BY <1>1, <1>3, <1>5, TurnsInOrder
  <2>2. Tail(j.steps) \in Ahead(j.op) /\ Head(Tail(j.steps)) = TurnAfter(j.op, Head(j.steps))
    BY <1>1, <1>5, TurnsInOrder
  <2>3. Tail(j.steps) \in UNION {Ahead(op) : op \in GroupOps}
    BY <1>1, <2>2 DEF GroupOps
  <2>4. groupJob'[h] \in GroupJob
    BY <2>1, <2>3 DEF GroupJob
  <2>5. groupJob' \in [Handlers -> GroupJob]
    BY <1>3, <2>4 DEF GroupTyped, Group!Go
  <2> QED
    BY <1>3, <1>5, <2>1, <2>2, <2>5 DEF GroupJob
<1> QED
  BY <1>4, <1>5

\* A handler that goes on is still one of the group it began with, or one of none.
LEMMA GroupJobsStay ==
    ASSUME GroupTyped, NEW h \in Handlers, NEW j \in GroupJob,
           groupJob[h] # Group!Idle, j.op = groupJob[h].op, j.group = groupJob[h].group,
           j.steps = groupJob[h].steps, Group!Go(h, j),
           member' \in [Groups -> [Users -> Group!Membership]],
           receivers' \in [Groups -> [Users -> Group!Membership]],
           roster' \in [Groups -> SUBSET Users]
    PROVE  GroupTyped'
<1>1. groupJob' \in [Handlers -> GroupJob]
  BY WentOn
<1>2. ASSUME NEW k \in Handlers
      PROVE  \/ groupJob'[k] = Group!Idle
             \/ /\ groupJob'[k].op \in {"add", "remove"} /\ groupJob'[k].group \in Groups
                /\ groupJob'[k].steps \in Ahead(groupJob'[k].op)
  <2>1. CASE k = h
    <3>1. j.op \in {"add", "remove"} /\ j.group \in Groups
      BY DEF GroupTyped
    <3> QED
      BY <2>1, <3>1, WentOn
  <2>2. CASE k # h
    BY <2>2, WentOn DEF GroupTyped
  <2> QED
    BY <2>1, <2>2
<1> QED
  BY <1>1, <1>2 DEF GroupTyped

\* What each handler's record says while it writes rows or receivers keeps its shape.
LEMMA GroupTypeStep == GroupTyped /\ [Group!Next]_Group!chatVars => GroupTyped'
<1> SUFFICES ASSUME GroupTyped, [Group!Next]_Group!chatVars
             PROVE  GroupTyped'
  OBVIOUS
<1>0. Group!Idle \in GroupJob
  BY DEF Group!Idle, GroupJob, GroupOps, Ahead, Group!NotCreated, Group!Membership
<1>1. CASE UNCHANGED Group!chatVars
  BY <1>1 DEF Group!chatVars, GroupTyped
<1>2. ASSUME NEW g \in Groups, NEW u \in Users, Group!CreateGroup(g, u)
      PROVE  GroupTyped'
  <2>1. [Group!NotCreated EXCEPT ![u] = "in"] \in [Users -> Group!Membership]
    BY DEF Group!NotCreated, Group!Membership
  <2> QED
    BY <1>2, <2>1 DEF Group!CreateGroup, GroupTyped
<1>3. ASSUME NEW h \in Handlers, NEW g \in Groups, NEW op \in {"add", "remove"},
             NEW S \in SUBSET Users, NEW steps \in Ahead(op), Group!Begin(h, g, op, S, steps)
      PROVE  GroupTyped'
  <2> DEFINE j == [Group!Idle EXCEPT !.op = op, !.group = g, !.users = S, !.steps = steps]
  <2>1. steps \in UNION {Ahead(o) : o \in GroupOps} /\ op \in GroupOps
    BY DEF GroupOps
  <2>2. /\ j \in GroupJob /\ j.op = op /\ j.group = g /\ j.steps = steps
    BY <1>0, <2>1 DEF GroupJob, Group!Idle
  <2>3. groupJob' = [groupJob EXCEPT ![h] = j] /\ UNCHANGED <<member, receivers, roster>>
    BY <1>3 DEF Group!Begin
  <2> HIDE DEF j
  <2> QED
    BY <2>2, <2>3 DEF GroupTyped
<1>4. ASSUME NEW h \in Handlers, NEW g \in Groups, NEW S \in SUBSET Users,
             Group!AddGroupMembers(h, g, S)
      PROVE  GroupTyped'
  <2>1. <<"rows", "revive", "find", "receivers", "read", "sync">> \in Ahead("add")
    BY DEF Ahead
  <2> QED
    BY <1>3, <1>4, <2>1 DEF Group!AddGroupMembers
<1>5. ASSUME NEW h \in Handlers, NEW g \in Groups, NEW u \in Users,
             Group!RemoveGroupMember(h, g, u)
      PROVE  GroupTyped'
  <2>1. <<"rows", "find", "receivers", "read", "sync">> \in Ahead("remove")
    BY DEF Ahead
  <2>2. {u} \in SUBSET Users
    OBVIOUS
  <2> QED
    BY <1>3, <1>5, <2>1, <2>2 DEF Group!RemoveGroupMember
<1>6. ASSUME NEW h \in Handlers, Group!WriteRows(h)
      PROVE  GroupTyped'
  <2>1. Group!At(h, "rows") /\ Group!Go(h, groupJob[h]) /\ UNCHANGED <<receivers, roster>>
    BY <1>6 DEF Group!WriteRows
  <2>2. member' \in [Groups -> [Users -> Group!Membership]]
    <3>1. groupJob[h].group \in Groups
      BY <2>1, AtWorkOn
    <3> QED
      BY <1>6, <3>1 DEF Group!WriteRows, GroupTyped, Group!Membership
  <2>3. groupJob[h] \in GroupJob /\ groupJob[h] # Group!Idle
    BY <2>1 DEF GroupTyped, Group!At
  <2> QED
    BY <2>1, <2>2, <2>3, GroupJobsStay DEF GroupTyped
<1>7. ASSUME NEW h \in Handlers, Group!Revive(h)
      PROVE  GroupTyped'
  <2>1. Group!At(h, "revive") /\ Group!Go(h, groupJob[h]) /\ UNCHANGED <<receivers, roster>>
    BY <1>7 DEF Group!Revive
  <2>2. member' \in [Groups -> [Users -> Group!Membership]]
    BY <1>7 DEF Group!Revive, GroupTyped, Group!Membership
  <2>3. groupJob[h] \in GroupJob /\ groupJob[h] # Group!Idle
    BY <2>1 DEF GroupTyped, Group!At
  <2> QED
    BY <2>1, <2>2, <2>3, GroupJobsStay DEF GroupTyped
<1>8. ASSUME NEW h \in Handlers, Group!FindConversation(h)
      PROVE  GroupTyped'
  <2> DEFINE j == [groupJob[h] EXCEPT !.found = receivers[groupJob[h].group]]
  <2>1. /\ Group!At(h, "find") /\ Group!Go(h, j)
        /\ UNCHANGED <<member, receivers, roster>>
    BY <1>8 DEF Group!FindConversation
  <2>2. groupJob[h] \in GroupJob /\ groupJob[h] # Group!Idle
    BY <2>1 DEF GroupTyped, Group!At
  <2>3. receivers[groupJob[h].group] \in [Users -> Group!Membership]
    BY <2>1, AtWorkOn DEF GroupTyped
  <2>4. /\ j \in GroupJob /\ j.op = groupJob[h].op /\ j.group = groupJob[h].group
        /\ j.steps = groupJob[h].steps
    BY <2>2, <2>3 DEF GroupJob
  <2> HIDE DEF j
  <2> QED
    BY <2>1, <2>2, <2>4, GroupJobsStay DEF GroupTyped
<1>9. ASSUME NEW h \in Handlers, Group!WriteReceivers(h)
      PROVE  GroupTyped'
  <2>1. Group!At(h, "receivers") /\ Group!Go(h, groupJob[h]) /\ UNCHANGED <<member, roster>>
    BY <1>9 DEF Group!WriteReceivers
  <2>2. receivers' \in [Groups -> [Users -> Group!Membership]]
    <3>1. groupJob[h].group \in Groups /\ groupJob[h].found \in [Users -> Group!Membership]
      BY <2>1, AtWorkOn
    <3> QED
      BY <1>9, <3>1 DEF Group!WriteReceivers, GroupTyped, Group!Membership
  <2>3. groupJob[h] \in GroupJob /\ groupJob[h] # Group!Idle
    BY <2>1 DEF GroupTyped, Group!At
  <2> QED
    BY <2>1, <2>2, <2>3, GroupJobsStay DEF GroupTyped
<1>10. ASSUME NEW h \in Handlers, Group!ReadRows(h)
       PROVE  GroupTyped'
  <2> DEFINE j == [groupJob[h] EXCEPT !.listed = Group!In(member[groupJob[h].group])]
  <2>1. /\ Group!At(h, "read") /\ Group!Go(h, j)
        /\ UNCHANGED <<member, receivers, roster>>
    BY <1>10 DEF Group!ReadRows
  <2>2. groupJob[h] \in GroupJob /\ groupJob[h] # Group!Idle
    BY <2>1 DEF GroupTyped, Group!At
  <2>3. Group!In(member[groupJob[h].group]) \subseteq Users
    BY <2>1, AtWorkOn DEF GroupTyped, Group!In
  <2>4. /\ j \in GroupJob /\ j.op = groupJob[h].op /\ j.group = groupJob[h].group
        /\ j.steps = groupJob[h].steps
    BY <2>2, <2>3 DEF GroupJob
  <2> HIDE DEF j
  <2> QED
    BY <2>1, <2>2, <2>4, GroupJobsStay DEF GroupTyped
<1>11. ASSUME NEW h \in Handlers, Group!Sync(h)
       PROVE  GroupTyped'
  <2>1. Group!At(h, "sync") /\ Group!Go(h, groupJob[h]) /\ UNCHANGED <<member, receivers>>
    BY <1>11 DEF Group!Sync
  <2>2. roster' \in [Groups -> SUBSET Users]
    <3>1. groupJob[h].group \in Groups /\ groupJob[h].listed \subseteq Users
      BY <2>1, AtWorkOn
    <3> QED
      BY <1>11, <3>1 DEF Group!Sync, GroupTyped
  <2>3. groupJob[h] \in GroupJob /\ groupJob[h] # Group!Idle
    BY <2>1 DEF GroupTyped, Group!At
  <2> QED
    BY <2>1, <2>2, <2>3, GroupJobsStay DEF GroupTyped
<1>12. ASSUME NEW h \in Handlers, Group!Stop(h)
       PROVE  GroupTyped'
  <2>1. groupJob' = [groupJob EXCEPT ![h] = Group!Idle] /\ UNCHANGED <<member, receivers, roster>>
    BY <1>12 DEF Group!Stop
  <2> QED
    BY <1>0, <2>1 DEF GroupTyped
<1> QED
  BY <1>1, <1>2, <1>4, <1>5, <1>6, <1>7, <1>8, <1>9, <1>10, <1>11, <1>12
     DEF Group!Next, Group!Step

\* The rows and the receivers tell the same of the users of U.
Alike(g, U) == \A u \in U : member[g][u] = "in" <=> receivers[g][u] = "in"

\* What holds of a group when the handler j has come to its present step: the rows are
\* ahead of the receivers, and both of the list.
Stands(g, j) ==
    LET p == Head(j.steps)
    IN  /\ Alike(g, Users \ j.users)
        /\ p = "rows" => Alike(g, Users) /\ roster[g] = Group!In(member[g])
        /\ p = "revive" => \A u \in j.users : member[g][u] # "none"
        /\ p \in {"find", "receivers"} =>
               \A u \in j.users : member[g][u] = IF j.op = "add" THEN "in" ELSE "out"
        /\ p = "receivers" => j.found = receivers[g]
        /\ p \in {"read", "sync"} => Alike(g, Users)
        /\ p = "sync" => j.listed = Group!In(member[g])

GroupFits(g) ==
    /\ \A h, k \in Group!On(g) : h = k
    /\ Group!On(g) = {} => Alike(g, Users) /\ roster[g] = Group!In(member[g])
    /\ \A h \in Group!On(g) : Stands(g, groupJob[h])

Told == Groups \ (crowdedGroups \cup cutGroups \cup revived)

RosterInv == \A g \in Told : GroupFits(g)

\* Handlers of a group are handlers, and not idle.
LEMMA OnGroup ==
    ASSUME GroupTyped, NEW g \in Groups
    PROVE  /\ Group!On(g) = {h \in Handlers : groupJob[h].group = g}
           /\ \A h \in Group!On(g) : groupJob[h] # Group!Idle
BY GroupsAssumption DEF GroupTyped, Group!On, Group!Idle

\* A step on another group leaves this one as it was.
LEMMA GroupStays ==
    ASSUME NEW g \in Groups, GroupFits(g), Group!On(g)' = Group!On(g),
           member'[g] = member[g], receivers'[g] = receivers[g], roster'[g] = roster[g],
           \A h \in Group!On(g) : groupJob'[h] = groupJob[h]
    PROVE  GroupFits(g)'
<1>1. \A U : Alike(g, U)' <=> Alike(g, U)
  BY DEF Alike
<1>2. Group!In(member[g])' = Group!In(member[g])
  BY DEF Group!In
<1>3. ASSUME NEW h \in Group!On(g)
      PROVE  Stands(g, groupJob[h])'
  BY <1>1, <1>2, <1>3 DEF Stands, GroupFits
<1> QED
  BY <1>1, <1>2, <1>3 DEF GroupFits

\* A step of a handler on another group.
LEMMA OtherGroupStays ==
    ASSUME GroupTyped, NEW g \in Groups, NEW h \in Handlers, GroupFits(g),
           groupJob[h].group # g, groupJob'[h].group # g, DOMAIN groupJob' = Handlers,
           \A k \in Handlers \ {h} : groupJob'[k] = groupJob[k],
           member'[g] = member[g], receivers'[g] = receivers[g], roster'[g] = roster[g]
    PROVE  GroupFits(g)'
<1>1. Group!On(g)' = Group!On(g) /\ \A k \in Group!On(g) : groupJob'[k] = groupJob[k]
  BY OnGroup DEF Group!On
<1> QED
  BY <1>1, GroupStays

\* The handler of the group has done a step and has another one ahead of it.
LEMMA OwnGroupFits ==
    ASSUME GroupTyped, NEW g \in Groups, NEW h \in Handlers, GroupFits(g),
           groupJob[h].group = g, groupJob'[h].group = g, DOMAIN groupJob' = Handlers,
           \A k \in Handlers \ {h} : groupJob'[k] = groupJob[k], Stands(g, groupJob[h])'
    PROVE  GroupFits(g)'
<1>1. Group!On(g) = {h}
  BY OnGroup DEF GroupFits
<1>2. Group!On(g)' = {h}
  BY <1>1, OnGroup DEF Group!On
<1> QED
  BY <1>2 DEF GroupFits

\* The handler of the group is done.
LEMMA GroupDone ==
    ASSUME GroupTyped, NEW g \in Groups, NEW h \in Handlers, GroupFits(g),
           groupJob[h].group = g, groupJob'[h] = Group!Idle, DOMAIN groupJob' = Handlers,
           \A k \in Handlers \ {h} : groupJob'[k] = groupJob[k],
           Alike(g, Users)', roster'[g] = Group!In(member[g])'
    PROVE  GroupFits(g)'
<1>1. Group!On(g) = {h}
  BY OnGroup DEF GroupFits
<1>2. Group!On(g)' = {}
  BY <1>1, OnGroup, GroupsAssumption DEF Group!On, Group!Idle
<1> QED
  BY <1>2 DEF GroupFits

\* A group that nothing has happened to after a step, nothing had happened to before it.
LEMMA ToldShrinks == [Group!Next]_Group!chatVars => Told' \subseteq Told
BY DEF Group!Next, Group!Step, Group!chatVars, Group!CreateGroup, Group!AddGroupMembers,
   Group!RemoveGroupMember, Group!Begin, Group!WriteRows, Group!Revive,
   Group!FindConversation, Group!WriteReceivers, Group!ReadRows, Group!Sync, Group!Stop, Told

\* What a handler that goes on leaves of the other groups.
LEMMA OthersFit ==
    ASSUME GroupTyped, NEW g \in Groups, NEW h \in Handlers, NEW j \in GroupJob, GroupFits(g),
           groupJob[h] # Group!Idle, j.op = groupJob[h].op, j.group = groupJob[h].group,
           j.steps = groupJob[h].steps, Group!Go(h, j), j.group # g,
           member'[g] = member[g], receivers'[g] = receivers[g], roster'[g] = roster[g]
    PROVE  GroupFits(g)'
<1>1. /\ DOMAIN groupJob' = Handlers
      /\ \A k \in Handlers \ {h} : groupJob'[k] = groupJob[k]
      /\ groupJob'[h] = Group!Idle \/ groupJob'[h].group = j.group
  BY WentOn
<1>2. groupJob'[h].group # g
  BY <1>1, GroupsAssumption DEF Group!Idle
<1> QED
  BY <1>1, <1>2, OtherGroupStays

\* The rows are written: an addition leaves no user without one, a removal none but out.
LEMMA WriteRowsFits ==
    ASSUME GroupTyped, NEW g \in Groups, NEW h \in Handlers, GroupFits(g), Group!WriteRows(h)
    PROVE  GroupFits(g)'
<1> DEFINE j == groupJob[h]
<1>1. /\ Group!At(h, "rows") /\ Group!Go(h, j) /\ UNCHANGED <<receivers, roster>>
      /\ j \in GroupJob /\ j # Group!Idle
  BY DEF Group!WriteRows, GroupTyped, Group!At
<1>2. /\ j.op \in {"add", "remove"} /\ j.group \in Groups /\ j.users \subseteq Users
      /\ Head(j.steps) = "rows"
  BY <1>1, AtWorkOn
<1>3. CASE j.group # g
  <2>1. member'[g] = member[g]
    BY <1>2, <1>3 DEF Group!WriteRows, GroupTyped
  <2> QED
    BY <1>1, <1>3, <2>1, OthersFit
<1>4. CASE j.group = g
  <2>1. /\ DOMAIN groupJob' = Handlers
        /\ \A k \in Handlers \ {h} : groupJob'[k] = groupJob[k]
        /\ groupJob'[h].op = j.op /\ groupJob'[h].group = g /\ groupJob'[h].users = j.users
        /\ Head(groupJob'[h].steps) = IF j.op = "add" THEN "revive" ELSE "find"
    BY <1>1, <1>2, <1>4, WentOn DEF TurnAfter
  <2>2. Alike(g, Users)
    BY <1>2, <1>4, OnGroup DEF GroupFits, Stands
  <2>3. \A u \in Users : member'[g][u] = IF u \notin j.users THEN member[g][u]
                                        ELSE IF j.op = "remove" THEN "out"
                                        ELSE IF member[g][u] = "none" THEN "in"
                                        ELSE member[g][u]
    BY <1>2, <1>4 DEF Group!WriteRows, GroupTyped
  <2>4. Alike(g, Users \ j.users)'
    BY <1>1, <2>1, <2>2, <2>3 DEF Alike
  <2>5. j.op = "add" => \A u \in j.users : member'[g][u] # "none"
    BY <1>2, <2>3
  <2>6. j.op # "add" => \A u \in j.users : member'[g][u] = "out"
    BY <1>2, <2>3
  <2>7. Stands(g, groupJob[h])'
    BY <1>2, <2>1, <2>4, <2>5, <2>6 DEF Stands
  <2> QED
    BY <1>4, <2>1, <2>7, OwnGroupFits
<1> QED
  BY <1>3, <1>4

\* The marks are taken off: all the users added are in.
LEMMA ReviveFits ==
    ASSUME GroupTyped, NEW g \in Groups, NEW h \in Handlers, GroupFits(g), Group!Revive(h),
           g \notin revived'
    PROVE  GroupFits(g)'
<1> DEFINE j == groupJob[h]
<1>1. /\ Group!At(h, "revive") /\ Group!Go(h, j) /\ UNCHANGED <<receivers, roster>>
      /\ j \in GroupJob /\ j # Group!Idle
  BY DEF Group!Revive, GroupTyped, Group!At
<1>2. /\ j.op = "add" /\ j.group \in Groups /\ j.users \subseteq Users
      /\ Head(j.steps) = "revive"
  BY <1>1, AtWorkOn, TurnsInOrder
<1>3. \A u \in Users : member'[g][u] = IF u \in j.users /\ member[g][u] = "out" THEN "in"
                                      ELSE member[g][u]
  BY DEF Group!Revive
<1>4. CASE j.group # g
  <2>1. \A u \in j.users : member[g][u] # "out"
    BY <1>4 DEF Group!Revive
  <2>2. \A u \in Users : member'[g][u] = member[g][u]
    BY <1>3, <2>1
  <2>3. DOMAIN member'[g] = Users /\ DOMAIN member[g] = Users
    BY DEF Group!Revive, GroupTyped
  <2>4. member'[g] = [u \in Users |-> member'[g][u]] /\ member[g] = [u \in Users |-> member[g][u]]
    BY DEF Group!Revive, GroupTyped
  <2>5. member'[g] = member[g]
    BY <2>2, <2>4
  <2> QED
    BY <1>1, <1>4, <2>5, OthersFit
<1>5. CASE j.group = g
  <2>1. /\ DOMAIN groupJob' = Handlers
        /\ \A k \in Handlers \ {h} : groupJob'[k] = groupJob[k]
        /\ groupJob'[h].op = "add" /\ groupJob'[h].group = g /\ groupJob'[h].users = j.users
        /\ Head(groupJob'[h].steps) = "find"
    BY <1>1, <1>2, <1>5, WentOn DEF TurnAfter
  <2>2. Alike(g, Users \ j.users) /\ \A u \in j.users : member[g][u] # "none"
    BY <1>2, <1>5, OnGroup DEF GroupFits, Stands
  <2>3. \A u \in Users : member[g][u] \in {"none", "in", "out"}
    BY DEF GroupTyped, Group!Membership
  <2>4. Alike(g, Users \ j.users)'
    BY <1>1, <1>3, <2>1, <2>2 DEF Alike
  <2>5. \A u \in j.users : member'[g][u] = "in"
    BY <1>2, <1>3, <2>2, <2>3
  <2>6. Stands(g, groupJob[h])'
    BY <2>1, <2>4, <2>5 DEF Stands
  <2> QED
    BY <1>5, <2>1, <2>6, OwnGroupFits
<1> QED
  BY <1>4, <1>5

\* The conversation is found as it is.
LEMMA FindConversationFits ==
    ASSUME GroupTyped, NEW g \in Groups, NEW h \in Handlers, GroupFits(g),
           Group!FindConversation(h)
    PROVE  GroupFits(g)'
<1> DEFINE i == groupJob[h]
           j == [i EXCEPT !.found = receivers[i.group]]
<1>1. /\ Group!At(h, "find") /\ Group!Go(h, j) /\ UNCHANGED <<member, receivers, roster>>
      /\ i \in GroupJob /\ i # Group!Idle
  BY DEF Group!FindConversation, GroupTyped, Group!At
<1>2. /\ i.op \in {"add", "remove"} /\ i.group \in Groups /\ Head(i.steps) = "find"
  BY <1>1, AtWorkOn
<1>3. receivers[i.group] \in [Users -> Group!Membership]
  BY <1>2 DEF GroupTyped
<1>4. /\ j \in GroupJob /\ j.op = i.op /\ j.group = i.group /\ j.users = i.users
      /\ j.steps = i.steps /\ j.found = receivers[i.group]
  BY <1>1, <1>3 DEF GroupJob
<1> HIDE DEF j
<1>5. CASE i.group # g
  BY <1>1, <1>4, <1>5, OthersFit
<1>6. CASE i.group = g
  <2>1. /\ DOMAIN groupJob' = Handlers
        /\ \A k \in Handlers \ {h} : groupJob'[k] = groupJob[k]
        /\ groupJob'[h].op = i.op /\ groupJob'[h].group = g /\ groupJob'[h].users = i.users
        /\ groupJob'[h].found = receivers[g]
        /\ Head(groupJob'[h].steps) = "receivers"
    BY <1>1, <1>2, <1>4, <1>6, WentOn DEF TurnAfter
  <2>2. /\ Alike(g, Users \ i.users)
        /\ \A u \in i.users : member[g][u] = IF i.op = "add" THEN "in" ELSE "out"
    BY <1>2, <1>6, OnGroup DEF GroupFits, Stands
  <2>3. Alike(g, Users \ i.users)'
    BY <1>1, <2>1, <2>2 DEF Alike
  <2>4. Stands(g, groupJob[h])'
    BY <1>1, <2>1, <2>2, <2>3 DEF Stands
  <2> QED
    BY <1>6, <2>1, <2>4, OwnGroupFits
<1> QED
  BY <1>5, <1>6

\* The receivers are written from what was found, which they still were.
LEMMA WriteReceiversFits ==
    ASSUME GroupTyped, NEW g \in Groups, NEW h \in Handlers, GroupFits(g),
           Group!WriteReceivers(h)
    PROVE  GroupFits(g)'
<1> DEFINE j == groupJob[h]
<1>1. /\ Group!At(h, "receivers") /\ Group!Go(h, j) /\ UNCHANGED <<member, roster>>
      /\ j \in GroupJob /\ j # Group!Idle
  BY DEF Group!WriteReceivers, GroupTyped, Group!At
<1>2. /\ j.op \in {"add", "remove"} /\ j.group \in Groups /\ j.users \subseteq Users
      /\ Head(j.steps) = "receivers"
  BY <1>1, AtWorkOn
<1>3. CASE j.group # g
  <2>1. receivers'[g] = receivers[g]
    BY <1>2, <1>3 DEF Group!WriteReceivers, GroupTyped
  <2> QED
    BY <1>1, <1>3, <2>1, OthersFit
<1>4. CASE j.group = g
  <2>1. /\ DOMAIN groupJob' = Handlers
        /\ \A k \in Handlers \ {h} : groupJob'[k] = groupJob[k]
        /\ groupJob'[h].op = j.op /\ groupJob'[h].group = g /\ groupJob'[h].users = j.users
        /\ Head(groupJob'[h].steps) = "read"
    BY <1>1, <1>2, <1>4, WentOn DEF TurnAfter
  <2>2. /\ Alike(g, Users \ j.users) /\ j.found = receivers[g]
        /\ \A u \in j.users : member[g][u] = IF j.op = "add" THEN "in" ELSE "out"
    BY <1>2, <1>4, OnGroup DEF GroupFits, Stands
  <2>3. \A u \in Users : u \notin j.users => receivers'[g][u] = receivers[g][u]
    BY <1>2, <1>4, <2>2 DEF Group!WriteReceivers, GroupTyped
  <2>4. j.op = "add" => \A u \in j.users : receivers'[g][u] = "in"
    BY <1>2, <1>4 DEF Group!WriteReceivers, GroupTyped
  <2>5. j.op = "remove" => \A u \in j.users : receivers'[g][u] # "in"
    BY <1>2, <1>4 DEF Group!WriteReceivers, GroupTyped
  <2>6. Alike(g, Users)' /\ Alike(g, Users \ j.users)'
    BY <1>1, <1>2, <2>2, <2>3, <2>4, <2>5 DEF Alike
  <2>7. Stands(g, groupJob[h])'
    BY <2>1, <2>6 DEF Stands
  <2> QED
    BY <1>4, <2>1, <2>7, OwnGroupFits
<1> QED
  BY <1>3, <1>4

\* The rows are read for the list.
LEMMA ReadRowsFits ==
    ASSUME GroupTyped, NEW g \in Groups, NEW h \in Handlers, GroupFits(g), Group!ReadRows(h)
    PROVE  GroupFits(g)'
<1> DEFINE i == groupJob[h]
           j == [i EXCEPT !.listed = Group!In(member[i.group])]
<1>1. /\ Group!At(h, "read") /\ Group!Go(h, j) /\ UNCHANGED <<member, receivers, roster>>
      /\ i \in GroupJob /\ i # Group!Idle
  BY DEF Group!ReadRows, GroupTyped, Group!At
<1>2. /\ i.op \in {"add", "remove"} /\ i.group \in Groups /\ Head(i.steps) = "read"
  BY <1>1, AtWorkOn
<1>3. Group!In(member[i.group]) \subseteq Users
  BY <1>2 DEF GroupTyped, Group!In
<1>4. /\ j \in GroupJob /\ j.op = i.op /\ j.group = i.group /\ j.users = i.users
      /\ j.steps = i.steps /\ j.listed = Group!In(member[i.group])
  BY <1>1, <1>3 DEF GroupJob
<1> HIDE DEF j
<1>5. CASE i.group # g
  BY <1>1, <1>4, <1>5, OthersFit
<1>6. CASE i.group = g
  <2>1. /\ DOMAIN groupJob' = Handlers
        /\ \A k \in Handlers \ {h} : groupJob'[k] = groupJob[k]
        /\ groupJob'[h].group = g /\ groupJob'[h].users = i.users
        /\ groupJob'[h].listed = Group!In(member[g])
        /\ Head(groupJob'[h].steps) = "sync"
    BY <1>1, <1>2, <1>4, <1>6, WentOn DEF TurnAfter
  <2>2. Alike(g, Users \ i.users) /\ Alike(g, Users)
    BY <1>2, <1>6, OnGroup DEF GroupFits, Stands
  <2>3. Alike(g, Users \ i.users)' /\ Alike(g, Users)' /\ Group!In(member[g])' = Group!In(member[g])
    BY <1>1, <2>2 DEF Alike, Group!In
  <2>4. Stands(g, groupJob[h])'
    BY <2>1, <2>3 DEF Stands
  <2> QED
    BY <1>6, <2>1, <2>4, OwnGroupFits
<1> QED
  BY <1>5, <1>6

\* The list is what the rows are.
LEMMA SyncFits ==
    ASSUME GroupTyped, NEW g \in Groups, NEW h \in Handlers, GroupFits(g), Group!Sync(h)
    PROVE  GroupFits(g)'
<1> DEFINE j == groupJob[h]
<1>1. /\ Group!At(h, "sync") /\ Group!Go(h, j) /\ UNCHANGED <<member, receivers>>
      /\ j \in GroupJob /\ j # Group!Idle
  BY DEF Group!Sync, GroupTyped, Group!At
<1>2. /\ j.op \in {"add", "remove"} /\ j.group \in Groups /\ Head(j.steps) = "sync"
  BY <1>1, AtWorkOn
<1>3. CASE j.group # g
  <2>1. roster'[g] = roster[g]
    BY <1>2, <1>3 DEF Group!Sync, GroupTyped
  <2> QED
    BY <1>1, <1>3, <2>1, OthersFit
<1>4. CASE j.group = g
  <2>1. /\ DOMAIN groupJob' = Handlers /\ groupJob'[h] = Group!Idle
        /\ \A k \in Handlers \ {h} : groupJob'[k] = groupJob[k]
    BY <1>1, <1>2, <1>4, WentOn
  <2>2. Alike(g, Users) /\ j.listed = Group!In(member[g])
    BY <1>2, <1>4, OnGroup DEF GroupFits, Stands
  <2>3. Alike(g, Users)' /\ Group!In(member[g])' = Group!In(member[g])
    BY <1>1, <2>2 DEF Alike, Group!In
  <2>4. roster'[g] = j.listed
    BY <1>4 DEF Group!Sync, GroupTyped
  <2> QED
    BY <1>4, <2>1, <2>2, <2>3, <2>4, GroupDone
<1> QED
  BY <1>3, <1>4

\* A handler that stops before it wrote anything leaves nothing to be done.
LEMMA StopFits ==
    ASSUME GroupTyped, NEW g \in Groups, NEW h \in Handlers, GroupFits(g), Group!Stop(h),
           g \notin cutGroups'
    PROVE  GroupFits(g)'
<1>1. /\ groupJob[h] # Group!Idle
      /\ groupJob' = [groupJob EXCEPT ![h] = Group!Idle]
      /\ UNCHANGED <<member, receivers, roster>>
  BY DEF Group!Stop
<1>2. /\ DOMAIN groupJob' = Handlers /\ groupJob'[h] = Group!Idle
      /\ \A k \in Handlers \ {h} : groupJob'[k] = groupJob[k]
  BY <1>1 DEF GroupTyped
<1>3. CASE groupJob[h].group # g
  <2>1. groupJob'[h].group # g
    BY <1>2, GroupsAssumption DEF Group!Idle
  <2> QED
    BY <1>1, <1>2, <1>3, <2>1, OtherGroupStays
<1>4. CASE groupJob[h].group = g
  <2>1. Head(groupJob[h].steps) = "rows"
    BY <1>4 DEF Group!Stop, Group!At
  <2>2. Alike(g, Users) /\ roster[g] = Group!In(member[g])
    BY <1>4, <2>1, OnGroup DEF GroupFits, Stands
  <2>3. Alike(g, Users)' /\ Group!In(member[g])' = Group!In(member[g])
    BY <1>1, <2>2 DEF Alike, Group!In
  <2> QED
    BY <1>1, <1>2, <1>4, <2>2, <2>3, GroupDone
<1> QED
  BY <1>3, <1>4

\* No step puts the lists of a group apart, but those after which nothing is claimed.
LEMMA RosterStep == GroupTyped /\ RosterInv /\ [Group!Next]_Group!chatVars => RosterInv'
<1> SUFFICES ASSUME GroupTyped, RosterInv, [Group!Next]_Group!chatVars, NEW g \in Told'
             PROVE  GroupFits(g)'
  BY DEF RosterInv
<1>0. /\ g \in Groups /\ GroupFits(g)
      /\ g \notin crowdedGroups' /\ g \notin cutGroups' /\ g \notin revived'
  BY ToldShrinks DEF RosterInv, Told
<1>1. CASE UNCHANGED Group!chatVars
  <2>1. Group!On(g)' = Group!On(g)
    BY <1>1 DEF Group!chatVars, Group!On
  <2> QED
    BY <1>0, <1>1, <2>1, GroupStays DEF Group!chatVars
<1>2. ASSUME NEW e \in Groups, NEW u \in Users, Group!CreateGroup(e, u)
      PROVE  GroupFits(g)'
  <2>1. UNCHANGED groupJob /\ Group!On(e) = {}
    BY <1>2 DEF Group!CreateGroup
  <2>2. Group!On(g)' = Group!On(g)
    BY <2>1 DEF Group!On
  <2>3. CASE e # g
    <3>1. member'[g] = member[g] /\ receivers'[g] = receivers[g] /\ roster'[g] = roster[g]
      BY <1>2, <2>3 DEF Group!CreateGroup, GroupTyped
    <3> QED
      BY <1>0, <2>1, <2>2, <3>1, GroupStays
  <2>4. CASE e = g
    <3> DEFINE rows == [Group!NotCreated EXCEPT ![u] = "in"]
    <3>1. member'[g] = rows /\ receivers'[g] = rows /\ roster'[g] = {u}
      BY <1>0, <1>2, <2>4 DEF Group!CreateGroup, GroupTyped
    <3>2. Group!In(rows) = {u}
      BY DEF Group!In, Group!NotCreated
    <3>3. Group!In(member[g])' = {u}
      BY <3>1, <3>2 DEF Group!In
    <3>4. Alike(g, Users)'
      BY <3>1 DEF Alike
    <3> QED
      BY <2>1, <2>2, <2>4, <3>1, <3>3, <3>4 DEF GroupFits
  <2> QED
    BY <2>3, <2>4
<1>3. ASSUME NEW h \in Handlers, NEW e \in Groups, NEW op \in {"add", "remove"},
             NEW S \in SUBSET Users, NEW steps \in Ahead(op), Head(steps) = "rows",
             Group!Begin(h, e, op, S, steps)
      PROVE  GroupFits(g)'
  <2>1. /\ UNCHANGED <<member, receivers, roster>>
        /\ groupJob[h] = Group!Idle
        /\ DOMAIN groupJob' = Handlers
        /\ \A k \in Handlers \ {h} : groupJob'[k] = groupJob[k]
        /\ groupJob'[h].group = e /\ groupJob'[h].users = S /\ groupJob'[h].steps = steps
    BY <1>3 DEF Group!Begin, GroupTyped, Group!Idle
  <2>2. groupJob[h].group # g
    BY <1>0, <2>1, GroupsAssumption DEF Group!Idle
  <2>3. CASE e # g
    BY <1>0, <2>1, <2>2, <2>3, OtherGroupStays
  <2>4. CASE e = g
    <3>1. Group!On(g) = {}
      BY <1>0, <1>3, <2>4 DEF Group!Begin
    <3>2. Group!On(g)' = {h}
      BY <2>1, <2>2, <2>4, <3>1 DEF Group!On, GroupTyped
    <3>3. Alike(g, Users) /\ roster[g] = Group!In(member[g])
      BY <1>0, <3>1 DEF GroupFits
    <3>4. /\ Alike(g, Users)' /\ Alike(g, Users \ S)'
          /\ Group!In(member[g])' = Group!In(member[g])
      BY <2>1, <3>3 DEF Alike, Group!In
    <3>5. Stands(g, groupJob[h])'
      BY <1>3, <2>1, <3>3, <3>4 DEF Stands
    <3> QED
      BY <3>2, <3>5 DEF GroupFits
  <2> QED
    BY <2>3, <2>4
<1>4. ASSUME NEW h \in Handlers, NEW e \in Groups, NEW S \in SUBSET Users,
             Group!AddGroupMembers(h, e, S)
      PROVE  GroupFits(g)'
  <2> DEFINE steps == <<"rows", "revive", "find", "receivers", "read", "sync">>
  <2>1. steps \in Ahead("add") /\ Head(steps) = "rows"
    BY DEF Ahead
  <2>2. Group!Begin(h, e, "add", S, steps)
    BY <1>4 DEF Group!AddGroupMembers
  <2> HIDE DEF steps
  <2> QED
    BY <1>3, <2>1, <2>2
<1>5. ASSUME NEW h \in Handlers, NEW e \in Groups, NEW u \in Users,
             Group!RemoveGroupMember(h, e, u)
      PROVE  GroupFits(g)'
  <2> DEFINE steps == <<"rows", "find", "receivers", "read", "sync">>
  <2>1. steps \in Ahead("remove") /\ Head(steps) = "rows" /\ {u} \in SUBSET Users
    BY DEF Ahead
  <2>2. Group!Begin(h, e, "remove", {u}, steps)
    BY <1>5 DEF Group!RemoveGroupMember
  <2> HIDE DEF steps
  <2> QED
    BY <1>3, <2>1, <2>2
<1> QED
  BY <1>0, <1>1, <1>2, <1>4, <1>5, WriteRowsFits, ReviveFits, FindConversationFits,
     WriteReceiversFits, ReadRowsFits, SyncFits, StopFits DEF Group!Next, Group!Step

\* Whatever is added and removed, and in whatever number of groups, the stored copies, the
\* chat lists and the deliveries of a group go to the same users.
THEOREM RosterAlwaysAgrees == Group!Spec => []RosterAgrees
<1>1. Group!Init => GroupTyped /\ RosterInv
  <2> SUFFICES ASSUME Group!Init
               PROVE  GroupTyped /\ RosterInv
    OBVIOUS
  <2>1. Group!NotCreated \in [Users -> Group!Membership]
    BY DEF Group!NotCreated, Group!Membership
  <2>2. Group!Idle \in GroupJob
    BY <2>1 DEF Group!Idle, GroupJob, GroupOps, Ahead
  <2>3. GroupTyped
    BY <2>1, <2>2 DEF Group!Init, GroupTyped
  <2>4. ASSUME NEW g \in Groups
        PROVE  GroupFits(g)
    <3>1. Group!On(g) = {}
      BY GroupsAssumption DEF Group!Init, Group!On, Group!Idle
    <3>2. Alike(g, Users)
      BY DEF Group!Init, Alike
    <3>3. roster[g] = Group!In(member[g])
      BY DEF Group!Init, Group!In, Group!NotCreated
    <3> QED
      BY <3>1, <3>2, <3>3 DEF GroupFits
  <2> QED
    BY <2>3, <2>4 DEF RosterInv, Told
<1>2. GroupTyped /\ RosterInv => RosterAgrees
  <2> SUFFICES ASSUME GroupTyped, RosterInv, NEW g \in Told, On(g) = {}
               PROVE  In(receivers[g]) = In(member[g]) /\ roster[g] = In(member[g])
    BY DEF RosterAgrees, Told
  <2>1. Group!On(g) = {}
    BY DEF On, Group!On
  <2>2. Alike(g, Users) /\ roster[g] = Group!In(member[g])
    BY <2>1 DEF RosterInv, GroupFits
  <2>3. DOMAIN member[g] = Users /\ DOMAIN receivers[g] = Users
    BY DEF GroupTyped, Told
  <2> QED
    BY <2>2, <2>3 DEF Alike, In, Group!In
<1> QED
  BY <1>1, <1>2, GroupTypeStep, RosterStep, PTL DEF Group!Spec

-----------------------------------------------------------------------------
(* Conversations *)

SendSteps == {"copyForReceiver", "copyForSender", "find", "unset"}

SendJob ==
    [op : {"none", "send", "clear", "open"}, user : Users \cup {"none"},
     doing : SUBSET (SendSteps \cup {"delete", "push", "restore"}), message : Nat,
     found : (SUBSET Users) \cup {None}]

Sends(j)  == j.op = "send" /\ j.doing \subseteq SendSteps
Clears(j) == j.op = "clear" /\ j.doing \subseteq {"delete", "push"}
Opens(j)  == j.op = "open" /\ j.doing \subseteq {"restore"} /\ j.found # None

\* What a handler does goes with what it is at.
AtWork(j) == j.user \in Users /\ j.doing # {} /\ (Sends(j) \/ Clears(j) \/ Opens(j))

ConvTyped ==
    /\ deletedFor \in (SUBSET Users) \cup {None}
    /\ copies \in [Users -> SUBSET Nat]
    /\ sendJob \in [Handlers -> SendJob]
    /\ \A h \in Handlers : sendJob[h] = Resting \/ AtWork(sendJob[h])
    /\ sent \in Nat
    /\ disturbed \subseteq Users

\* A deletion that has still to delete u's copies, and a message of which the handler
\* has still to take the column away.
Emptying(j, u) == j.op = "clear" /\ j.user = u /\ "delete" \in j.doing
Showing(j)     == j.op = "send" /\ j.doing \cap {"copyForSender", "find", "unset"} # {}

\* A conversation is put away empty, or about to be emptied or to come back.
HiddenInv ==
    \A u \in Users \ disturbed :
        \/ ~Hidden(u)
        \/ copies[u] = {}
        \/ \E h \in Handlers : Emptying(sendJob[h], u) \/ Showing(sendJob[h])

\* A handler at rest is neither emptying nor showing.
LEMMA RestingIsIdle ==
    /\ Resting \in SendJob /\ Conv!Resting = Resting
    /\ ~AtWork(Resting) /\ ~Showing(Resting) /\ \A u \in Users : ~Emptying(Resting, u)
BY DEF Resting, Conv!Resting, SendJob, SendSteps, AtWork, Sends, Clears, Opens, Showing,
       Emptying

\* What a handler that begins leaves of the others.
LEMMA BeginJob ==
    ASSUME ConvTyped, HiddenInv, NEW h \in Handlers, NEW j \in SendJob, AtWork(j),
           Conv!Begin(h, j), UNCHANGED <<deletedFor, copies, disturbed>>, sent' \in Nat
    PROVE  (ConvTyped /\ HiddenInv)'
<1>1. sendJob[h] = Resting
  BY RestingIsIdle DEF Conv!Begin
<1>2. sendJob'[h] = j /\ \A g \in Handlers \ {h} : sendJob'[g] = sendJob[g]
  BY DEF Conv!Begin, ConvTyped
<1>3. ConvTyped'
  BY <1>2 DEF Conv!Begin, ConvTyped
<1>4. ASSUME NEW g \in Handlers, NEW u \in Users,
             Emptying(sendJob[g], u) \/ Showing(sendJob[g])
      PROVE  Emptying(sendJob'[g], u) \/ Showing(sendJob'[g])
  BY <1>1, <1>2, <1>4, RestingIsIdle
<1>5. \A u \in Users : Hidden(u)' <=> Hidden(u)
  BY DEF Hidden
<1> QED
  BY <1>3, <1>4, <1>5 DEF HiddenInv

\* What a step of a handler's work leaves of its job and of the others.
LEMMA DoJob ==
    ASSUME ConvTyped, NEW h \in Handlers, NEW step,
           NEW next \in SUBSET (SendSteps \cup {"delete", "push", "restore"}),
           Conv!Do(h, step, next),
           sendJob[h].op = "send" => next \subseteq SendSteps,
           sendJob[h].op # "send" => next = {}
    PROVE  /\ sendJob' \in [Handlers -> SendJob]
           /\ AtWork(sendJob[h]) /\ step \in sendJob[h].doing
           /\ \A g \in Handlers : sendJob'[g] = Resting \/ AtWork(sendJob'[g])
           /\ \A g \in Handlers \ {h} : sendJob'[g] = sendJob[g]
           /\ LET left == (sendJob[h].doing \ {step}) \cup next
              IN  left # {} => /\ sendJob'[h].op = sendJob[h].op
                               /\ sendJob'[h].user = sendJob[h].user
                               /\ sendJob'[h].doing = left
<1> DEFINE left == (sendJob[h].doing \ {step}) \cup next
           k == IF left = {} THEN Resting ELSE [sendJob[h] EXCEPT !.doing = left]
<1>1. sendJob[h] # Resting /\ step \in sendJob[h].doing
  BY DEF Conv!Do, Resting
<1>2. AtWork(sendJob[h]) /\ sendJob[h] \in SendJob
  BY <1>1 DEF ConvTyped
<1>3. sendJob' = [sendJob EXCEPT ![h] = k]
  BY RestingIsIdle DEF Conv!Do
<1>4. left \subseteq SendSteps \cup {"delete", "push", "restore"}
  BY <1>2 DEF SendJob
<1>5. ASSUME left # {}
      PROVE  /\ k \in SendJob /\ k.op = sendJob[h].op /\ k.user = sendJob[h].user
             /\ k.found = sendJob[h].found /\ k.doing = left
  BY <1>2, <1>4, <1>5 DEF SendJob
<1>6. k \in SendJob /\ (k = Resting \/ AtWork(k))
  BY <1>2, <1>5, RestingIsIdle DEF AtWork, Sends, Clears, Opens
<1> HIDE DEF k
<1>7. sendJob'[h] = k /\ \A g \in Handlers \ {h} : sendJob'[g] = sendJob[g]
  BY <1>3 DEF ConvTyped
<1> QED
  BY <1>1, <1>2, <1>3, <1>5, <1>6, <1>7 DEF ConvTyped

\* Who is on the list, who has messages, and who is at work on it after a message's step.
LEMMA SendStepKeeps ==
    ASSUME ConvTyped, HiddenInv, NEW h \in Handlers,
           \/ Conv!CopyForReceiver(h) \/ Conv!CopyForSender(h)
           \/ Conv!Find(h) \/ Conv!Unset(h)
    PROVE  (ConvTyped /\ HiddenInv)'
<1> DEFINE j == sendJob[h]
<1>0. j \in SendJob /\ (j = Resting \/ AtWork(j))
  BY DEF ConvTyped
<1>1. ASSUME NEW step \in SendSteps, NEW next \in SUBSET SendSteps,
             Conv!Do(h, step, next)
      PROVE  /\ j.op = "send" /\ j.user \in Users
             /\ sendJob' \in [Handlers -> SendJob]
             /\ \A g \in Handlers : sendJob'[g] = Resting \/ AtWork(sendJob'[g])
             /\ \A g \in Handlers \ {h} : sendJob'[g] = sendJob[g]
             /\ next \cap {"copyForSender", "find", "unset"} # {} => Showing(sendJob'[h])
  <2>1. j # Resting /\ step \in j.doing
    BY <1>1 DEF Conv!Do, Resting
  <2>2. j.op = "send" /\ j.user \in Users
    BY <1>0, <2>1 DEF AtWork, Sends, Clears, Opens, SendSteps
  <2> QED
    BY <1>1, <2>2, DoJob DEF Showing
<1>2. ASSUME NEW step \in SendSteps, NEW next \in {"copyForSender", "find"},
             NEW S \in SUBSET Users, Conv!Give(h, step, next, S)
      PROVE  (ConvTyped /\ HiddenInv)'
  <2>1. {next} \in SUBSET SendSteps /\ Conv!Do(h, step, {next})
    BY <1>2 DEF Conv!Give, SendSteps
  <2>2. Showing(sendJob'[h])
    BY <1>1, <2>1
  <2>3. copies' \in [Users -> SUBSET Nat]
    BY <1>0, <1>2 DEF Conv!Give, ConvTyped, SendJob
  <2>4. ConvTyped'
    BY <1>1, <1>2, <2>1, <2>3 DEF Conv!Give, ConvTyped
  <2> QED
    BY <2>2, <2>4 DEF HiddenInv
<1>3. CASE Conv!CopyForReceiver(h)
  BY <1>2, <1>3 DEF Conv!CopyForReceiver, SendSteps
<1>4. CASE Conv!CopyForSender(h)
  <2>1. Conv!Do(h, "copyForSender", {"find"}) /\ {"find"} \in SUBSET SendSteps
    BY <1>4 DEF Conv!CopyForSender, Conv!Give, SendSteps
  <2>2. {j.user} \in SUBSET Users
    BY <1>1, <2>1 DEF SendSteps
  <2> QED
    BY <1>2, <1>4, <2>2 DEF Conv!CopyForSender, SendSteps
<1>5. CASE Conv!Find(h)
  <2> DEFINE next == IF deletedFor = None THEN {} ELSE {"unset"}
  <2>1. next \in SUBSET SendSteps /\ Conv!Do(h, "find", next)
    BY <1>5 DEF Conv!Find, SendSteps
  <2>2. UNCHANGED <<deletedFor, copies, sent, disturbed>>
    BY <1>5 DEF Conv!Find
  <2>3. ConvTyped'
    BY <1>1, <2>1, <2>2 DEF ConvTyped, SendSteps
  <2>4. CASE deletedFor = None
    BY <2>2, <2>3, <2>4 DEF HiddenInv, Hidden
  <2>5. CASE deletedFor # None
    <3>1. Showing(sendJob'[h])
      BY <1>1, <2>1, <2>5 DEF SendSteps
    <3> QED
      BY <2>3, <3>1 DEF HiddenInv
  <2> QED
    BY <2>4, <2>5
<1>6. CASE Conv!Unset(h)
  <2>1. Conv!Do(h, "unset", {}) /\ deletedFor' = None /\ UNCHANGED <<copies, sent, disturbed>>
    BY <1>6 DEF Conv!Unset
  <2>2. ConvTyped'
    BY <1>1, <2>1 DEF ConvTyped, SendSteps
  <2> QED
    BY <2>1, <2>2 DEF HiddenInv, Hidden
<1> QED
  BY <1>3, <1>4, <1>5, <1>6

\* The same of a deletion and of an opening.
LEMMA ClearStepKeeps ==
    ASSUME ConvTyped, HiddenInv, NEW h \in Handlers,
           Conv!Push(h) \/ Conv!DeleteAll(h) \/ Conv!Restore(h)
    PROVE  (ConvTyped /\ HiddenInv)'
<1> DEFINE j == sendJob[h]
<1>0. j \in SendJob /\ (j = Resting \/ AtWork(j))
  BY DEF ConvTyped
<1>1. ASSUME NEW step \in {"push", "delete", "restore"}, Conv!Do(h, step, {})
      PROVE  /\ j.op = (IF step = "restore" THEN "open" ELSE "clear")
             /\ j.user \in Users /\ (j.op = "open" => j.found # None)
             /\ sendJob' \in [Handlers -> SendJob]
             /\ \A g \in Handlers : sendJob'[g] = Resting \/ AtWork(sendJob'[g])
             /\ \A g \in Handlers \ {h} : sendJob'[g] = sendJob[g]
             /\ ~Showing(j)
             /\ \A u \in Users : Emptying(j, u) => step = "delete" \/ Emptying(sendJob'[h], u)
  <2>1. j # Resting /\ step \in j.doing
    BY <1>1 DEF Conv!Do, Resting
  <2>2. j.op = (IF step = "restore" THEN "open" ELSE "clear")
        /\ j.user \in Users /\ (j.op = "open" => j.found # None)
    BY <1>0, <2>1 DEF AtWork, Sends, Clears, Opens, SendSteps
  <2>3. /\ sendJob' \in [Handlers -> SendJob]
        /\ \A g \in Handlers : sendJob'[g] = Resting \/ AtWork(sendJob'[g])
        /\ \A g \in Handlers \ {h} : sendJob'[g] = sendJob[g]
        /\ j.doing \ {step} # {} =>
               /\ sendJob'[h].op = j.op /\ sendJob'[h].user = j.user
               /\ sendJob'[h].doing = j.doing \ {step}
    BY <1>1, <2>2, DoJob
  <2>4. ~Showing(j)
    BY <2>2 DEF Showing
  <2>5. ASSUME NEW u \in Users, Emptying(j, u), step # "delete"
        PROVE  Emptying(sendJob'[h], u)
    BY <2>3, <2>5 DEF Emptying
  <2> QED
    BY <2>2, <2>3, <2>4, <2>5
<1>2. CASE Conv!Push(h)
  <2>1. /\ Conv!Do(h, "push", {}) /\ UNCHANGED <<copies, sent>>
        /\ deletedFor' = IF deletedFor = None THEN {j.user} ELSE deletedFor \cup {j.user}
        /\ disturbed' = disturbed \cup IF "delete" \in j.doing THEN {} ELSE {j.user}
    BY <1>2 DEF Conv!Push
  <2>2. j.op = "clear" /\ j.user \in Users
    BY <1>1, <2>1
  <2>3. ConvTyped'
    BY <1>1, <2>1, <2>2 DEF ConvTyped
  <2>4. ASSUME NEW u \in Users \ disturbed', Hidden(u)'
        PROVE  Hidden(u) \/ Emptying(j, u)
    BY <2>1, <2>2, <2>4 DEF Hidden, Emptying
  <2>5. ASSUME NEW u \in Users, NEW g \in Handlers,
               Emptying(sendJob[g], u) \/ Showing(sendJob[g])
        PROVE  Emptying(sendJob'[g], u) \/ Showing(sendJob'[g])
    BY <1>1, <2>1, <2>5
  <2> QED
    BY <2>1, <2>3, <2>4, <2>5 DEF HiddenInv
<1>3. CASE Conv!DeleteAll(h)
  <2>1. /\ Conv!Do(h, "delete", {}) /\ UNCHANGED <<deletedFor, sent, disturbed>>
        /\ copies' = [copies EXCEPT ![j.user] = {}]
    BY <1>3 DEF Conv!DeleteAll
  <2>2. j.user \in Users /\ ~Showing(j)
    BY <1>1, <2>1
  <2>3. /\ copies' \in [Users -> SUBSET Nat] /\ copies'[j.user] = {}
        /\ \A u \in Users : copies[u] = {} => copies'[u] = {}
    BY <2>1, <2>2 DEF ConvTyped
  <2>4. ConvTyped'
    BY <1>1, <2>1, <2>3 DEF ConvTyped
  <2>5. ASSUME NEW u \in Users, NEW g \in Handlers,
               Emptying(sendJob[g], u) \/ Showing(sendJob[g])
        PROVE  copies'[u] = {} \/ Emptying(sendJob'[g], u) \/ Showing(sendJob'[g])
    <3>1. CASE g = h
      BY <2>2, <2>3, <2>5, <3>1 DEF Emptying
    <3>2. CASE g # h
      BY <1>1, <2>1, <2>5, <3>2
    <3> QED
      BY <3>1, <3>2
  <2> QED
    BY <2>1, <2>3, <2>4, <2>5 DEF HiddenInv, Hidden
<1>4. CASE Conv!Restore(h)
  <2> DEFINE list == j.found \ {j.user}
  <2>1. /\ Conv!Do(h, "restore", {}) /\ UNCHANGED <<copies, sent>> /\ deletedFor' = list
        /\ disturbed' = disturbed \cup IF deletedFor = j.found THEN {} ELSE list
    BY <1>4 DEF Conv!Restore
  <2>2. j.user \in Users /\ j.found # None /\ list \subseteq Users
    BY <1>0, <1>1, <2>1 DEF SendJob
  <2>3. ConvTyped'
    BY <1>1, <2>1, <2>2 DEF ConvTyped
  <2>4. ASSUME NEW u \in Users \ disturbed', Hidden(u)'
        PROVE  Hidden(u)
    BY <2>1, <2>2, <2>4 DEF Hidden
  <2>5. ASSUME NEW u \in Users, NEW g \in Handlers,
               Emptying(sendJob[g], u) \/ Showing(sendJob[g])
        PROVE  Emptying(sendJob'[g], u) \/ Showing(sendJob'[g])
    BY <1>1, <2>1, <2>5
  <2> QED
    BY <2>1, <2>3, <2>4, <2>5 DEF HiddenInv
<1> QED
  BY <1>2, <1>3, <1>4

\* Who stops leaves a user disturbed for whom he had something to do.
LEMMA StopKeeps ==
    ASSUME ConvTyped, HiddenInv, NEW h \in Handlers, Conv!Stop(h)
    PROVE  (ConvTyped /\ HiddenInv)'
<1> DEFINE j == sendJob[h]
           S == CASE j.op = "send" -> Users
                  [] j.op = "clear" -> {j.user}
                  [] OTHER -> {}
<1>1. /\ AtWork(j) /\ UNCHANGED <<deletedFor, copies, sent>>
      /\ sendJob' = [sendJob EXCEPT ![h] = Resting]
      /\ disturbed' = disturbed \cup S
  BY RestingIsIdle DEF Conv!Stop, ConvTyped
<1>2. /\ S \subseteq Users
      /\ Showing(j) => S = Users
      /\ \A u \in Users : Emptying(j, u) => u \in S
  BY <1>1 DEF AtWork, Showing, Emptying
<1> HIDE DEF S
<1>3. \A g \in Handlers \ {h} : sendJob'[g] = sendJob[g]
  BY <1>1 DEF ConvTyped
<1>4. ConvTyped'
  BY <1>1, <1>2, RestingIsIdle DEF ConvTyped
<1>5. ASSUME NEW u \in Users \ disturbed', NEW g \in Handlers,
             Emptying(sendJob[g], u) \/ Showing(sendJob[g])
      PROVE  Emptying(sendJob'[g], u) \/ Showing(sendJob'[g])
  BY <1>1, <1>2, <1>3, <1>5
<1> QED
  BY <1>1, <1>4, <1>5 DEF HiddenInv, Hidden

\* No step of a message, a deletion or an opening leaves a conversation put away with
\* messages in it and nobody at work on it.
LEMMA HiddenStep ==
    ConvTyped /\ HiddenInv /\ [Conv!Next]_Conv!conversationVars => (ConvTyped /\ HiddenInv)'
<1> SUFFICES ASSUME ConvTyped, HiddenInv, [Conv!Next]_Conv!conversationVars
             PROVE  (ConvTyped /\ HiddenInv)'
  OBVIOUS
<1>1. CASE UNCHANGED Conv!conversationVars
  BY <1>1 DEF Conv!conversationVars, ConvTyped, HiddenInv, Hidden
<1>2. ASSUME NEW h \in Handlers, NEW u \in Users, Conv!Send(h, u)
      PROVE  (ConvTyped /\ HiddenInv)'
  <2> DEFINE j == [Resting EXCEPT !.op = "send", !.user = u, !.doing = {"copyForReceiver"},
                                  !.message = sent + 1]
  <2>1. sent + 1 \in Nat
    BY DEF ConvTyped
  <2>2. j \in SendJob /\ AtWork(j)
    BY <2>1 DEF Resting, SendJob, SendSteps, AtWork, Sends
  <2>3. Conv!Begin(h, j) /\ UNCHANGED <<deletedFor, copies, disturbed>> /\ sent' = sent + 1
    BY <1>2, RestingIsIdle DEF Conv!Send
  <2> QED
    BY <2>1, <2>2, <2>3, BeginJob
<1>3. ASSUME NEW h \in Handlers, NEW u \in Users, Conv!Open(h, u)
      PROVE  (ConvTyped /\ HiddenInv)'
  <2> DEFINE j == [Resting EXCEPT !.op = "open", !.user = u, !.doing = {"restore"},
                                  !.found = deletedFor]
  <2>1. j \in SendJob /\ AtWork(j)
    BY <1>3 DEF Conv!Open, ConvTyped, Resting, SendJob, SendSteps, AtWork, Opens
  <2>2. Conv!Begin(h, j) /\ UNCHANGED <<deletedFor, copies, disturbed, sent>>
    BY <1>3, RestingIsIdle DEF Conv!Open
  <2> QED
    BY <2>1, <2>2, BeginJob DEF ConvTyped
<1>4. ASSUME NEW h \in Handlers, NEW u \in Users, NEW hide \in BOOLEAN,
             Conv!Clear(h, u, hide)
      PROVE  (ConvTyped /\ HiddenInv)'
  <2> DEFINE steps == {"delete"} \cup IF hide THEN {"push"} ELSE {}
             j == [Resting EXCEPT !.op = "clear", !.user = u, !.doing = steps]
  <2>1. steps # {} /\ steps \subseteq {"delete", "push"}
    OBVIOUS
  <2>2. Conv!Begin(h, j) /\ UNCHANGED <<deletedFor, copies, disturbed, sent>>
    BY <1>4, RestingIsIdle DEF Conv!Clear
  <2> HIDE DEF steps
  <2>3. j \in SendJob /\ AtWork(j)
    BY <2>1 DEF Resting, SendJob, SendSteps, AtWork, Clears
  <2> QED
    BY <2>2, <2>3, BeginJob DEF ConvTyped
<1>5. ASSUME NEW u \in Users, Conv!DeleteMessage(u)
      PROVE  (ConvTyped /\ HiddenInv)'
  <2>1. PICK m \in copies[u] : copies' = [copies EXCEPT ![u] = @ \ {m}]
    BY <1>5 DEF Conv!DeleteMessage
  <2>2. UNCHANGED <<deletedFor, sendJob, sent, disturbed>>
    BY <1>5 DEF Conv!DeleteMessage
  <2>3. /\ copies' \in [Users -> SUBSET Nat]
        /\ \A v \in Users : copies'[v] \subseteq copies[v]
    BY <2>1 DEF ConvTyped
  <2> QED
    BY <2>2, <2>3 DEF ConvTyped, HiddenInv, Hidden
<1> QED
  BY <1>1, <1>2, <1>3, <1>4, <1>5, SendStepKeeps, ClearStepKeeps, StopKeeps DEF Conv!Next

\* However messages, deletions and openings interleave, a user does not miss a message
\* for having put the conversation away.
THEOREM HiddenAlwaysEmpty == Conv!Spec => []HiddenIsEmpty
<1>1. Conv!Init => ConvTyped /\ HiddenInv
  BY RestingIsIdle DEF Conv!Init, ConvTyped, HiddenInv
<1>2. ConvTyped /\ HiddenInv => HiddenIsEmpty
  <2> SUFFICES ASSUME ConvTyped, HiddenInv, \A h \in Handlers : sendJob[h] = Resting,
                      NEW u \in Users \ disturbed, Hidden(u)
               PROVE  copies[u] = {}
    BY DEF HiddenIsEmpty, ConvTyped
  <2> QED
    BY RestingIsIdle DEF HiddenInv
<1> QED
  BY <1>1, <1>2, HiddenStep, PTL DEF Conv!Spec

-----------------------------------------------------------------------------
(* Positions *)

Over ==
    {"COMPLETED", "CANCELLED_BY_RIDER", "CANCELLED_BY_DRIVER", "CANCELLED_BY_ADMIN", "NO_DRIVER",
     "EXPIRED"}

Lasting == {"admin_cancelled", "driver_cancelled_before_arrived"}

KeyRow ==
    [status : Under \cup Over \cup {"NONE", "PENDING"}, driver : Drivers \cup {None},
     back : BOOLEAN]

Message ==
    [step : {"none", "read", "emitted"}, of : Trips \cup {None},
     type : Keys!Finals \cup Keys!Underway \cup Lasting \cup {"none"}, driver : Drivers \cup {None}]

Says(m) == m.step # "none" /\ m.of \in Trips /\ m.type # "none"

KeysTyped ==
    /\ keyTrip \in [Trips -> KeyRow]
    /\ tripKey \in [Drivers -> Trips \cup {None}]
    /\ notice \in [Notices -> Message]
    /\ \A n \in Notices : notice[n] = Keys!Free \/ Says(notice[n])
    /\ handing \subseteq Trips

\* A trip no driver has had is not spoken of.
Fresh(t) == keyTrip[t].status \in {"NONE", "PENDING"} /\ ~keyTrip[t].back

\* What the notice m says of t: a final one that t is over for good, one of a ride who
\* drives it, one of a trip that is Kept that it is.
Tells(t, m) ==
    /\ m.type \in Keys!Finals => keyTrip[t].status \in Over /\ t \notin handing
    /\ (Riding(t) \/ m.type \in Keys!Finals) /\ m.step = "emitted" =>
           m.driver = keyTrip[t].driver
    /\ t \notin late /\ m.type \in Lasting =>
           Kept(t) /\ (m.step = "emitted" => m.driver = keyTrip[t].driver)

\* The key of a ride is there or will be; one of another trip will be taken away.
Follows(t) ==
    /\ Riding(t) => \/ tripKey[keyTrip[t].driver] = t
                    \/ \E n \in Notices : notice[n].of = t
    /\ \A d \in Drivers : tripKey[d] = t =>
           /\ keyTrip[t].driver = d
           /\ \/ Riding(t) \/ Kept(t) \/ t \in handing
              \/ \E n \in Notices : notice[n].of = t /\ notice[n].type \in Keys!Finals

TripFits(t) ==
    /\ Riding(t) \/ t \in handing => keyTrip[t].driver \in Drivers /\ ~keyTrip[t].back
    /\ t \in handing => keyTrip[t].status \in {"CANCELLED_BY_DRIVER", "CANCELLED_BY_ADMIN"}
    /\ Fresh(t) => keyTrip[t].driver = None /\ \A n \in Notices : notice[n].of # t
    /\ \A n \in Notices : notice[n].of = t => Tells(t, notice[n])
    /\ t \notin late \cup unheard => Follows(t)

KeysInv == \A t \in Trips : TripFits(t)

\* A trip that a step leaves alone, with its notices and, if it is a ride, its key.
LEMMA OtherTripStays ==
    ASSUME KeysTyped, NEW t \in Trips, TripFits(t),
           keyTrip'[t] = keyTrip[t], t \in handing' <=> t \in handing,
           late \subseteq late', unheard \subseteq unheard',
           \A n \in Notices : notice[n].of = t \/ notice'[n].of = t => notice'[n] = notice[n],
           \A d \in Drivers : tripKey'[d] = t => tripKey[d] = t,
           Riding(t) /\ t \notin late' \cup unheard' =>
               \A d \in Drivers : tripKey[d] = t => tripKey'[d] = t
    PROVE  TripFits(t)'
<1>1. Riding(t)' <=> Riding(t)
  BY DEF Riding
<1>2. (Kept(t)' <=> Kept(t)) /\ (Fresh(t)' <=> Fresh(t))
  BY DEF Kept, Fresh
<1>3. ASSUME NEW n \in Notices, notice'[n].of = t
      PROVE  Tells(t, notice[n])'
  BY <1>1, <1>2, <1>3 DEF Tells, TripFits
<1>4. t \notin (late \cup unheard)' => Follows(t)'
  BY <1>1, <1>2 DEF TripFits, Follows
<1> QED
  BY <1>1, <1>2, <1>3, <1>4 DEF TripFits

\* What telling leaves of the notices.
LEMMA Told1 ==
    ASSUME KeysTyped, NEW n \in Notices, NEW t \in Trips, Keys!NoneIsApart,
           NEW type \in Keys!Finals \cup Keys!Underway \cup Lasting, Keys!Tell(n, t, type)
    PROVE  /\ notice' \in [Notices -> Message]
           /\ \A m \in Notices : notice'[m] = Keys!Free \/ Says(notice'[m])
           /\ notice[n].of = None
           /\ notice'[n].of = t /\ notice'[n].type = type /\ notice'[n].step = "read"
           /\ \A m \in Notices \ {n} : notice'[m] = notice[m]
<1> DEFINE m == [Keys!Free EXCEPT !.step = "read", !.of = t, !.type = type]
<1>1. notice[n].of = None /\ notice' = [notice EXCEPT ![n] = m]
  BY DEF Keys!Tell, Keys!Free
<1>2. type # "none"
  BY DEF Keys!Finals, Keys!Underway, Lasting
<1>3. m \in Message /\ m.of = t /\ m.type = type /\ m.step = "read"
  BY DEF Keys!Free, Message
<1> HIDE DEF m
<1>4. notice'[n] = m /\ \A k \in Notices \ {n} : notice'[k] = notice[k]
  BY <1>1 DEF KeysTyped
<1>5. notice' \in [Notices -> Message]
  BY <1>1, <1>3 DEF KeysTyped
<1> QED
  BY <1>1, <1>2, <1>3, <1>4, <1>5 DEF KeysTyped, Says

\* A step of one trip that tells of it, and leaves the others as they are.
LEMMA TellingStep ==
    ASSUME KeysTyped, KeysInv, Keys!NoneIsApart, NEW t \in Trips, NEW n \in Notices,
           NEW type \in Keys!Finals \cup Keys!Underway \cup Lasting, Keys!Tell(n, t, type),
           NEW r \in KeyRow, keyTrip' = [keyTrip EXCEPT ![t] = r], Keys!Others,
           TripFits(t)'
    PROVE  (KeysTyped /\ KeysInv)'
<1>1. keyTrip' \in [Trips -> KeyRow] /\ \A u \in Trips \ {t} : keyTrip'[u] = keyTrip[u]
  BY DEF KeysTyped
<1>2. UNCHANGED <<tripKey, handing, late, unheard>>
  BY DEF Keys!Others
<1>3. KeysTyped'
  BY <1>1, <1>2, Told1 DEF KeysTyped
<1>4. ASSUME NEW u \in Trips \ {t}
      PROVE  TripFits(u)'
  <2>1. \A m \in Notices : notice[m].of = u \/ notice'[m].of = u => notice'[m] = notice[m]
    BY Told1 DEF Keys!NoneIsApart
  <2> QED
    BY <1>1, <1>2, <2>1, OtherTripStays DEF KeysInv
<1> QED
  BY <1>3, <1>4 DEF KeysInv

\* A ride that goes on.
LEMMA RideGoesOn ==
    ASSUME KeysTyped, KeysInv, Keys!NoneIsApart, NEW t \in Trips, NEW n \in Notices,
           NEW type \in Keys!Underway, Keys!Tell(n, t, type),
           NEW status \in Under, Riding(t),
           keyTrip' = [keyTrip EXCEPT ![t].status = status], Keys!Others
    PROVE  (KeysTyped /\ KeysInv)'
<1> DEFINE r == [keyTrip[t] EXCEPT !.status = status]
<1>1. /\ r \in KeyRow /\ r.status = status
      /\ r.driver = keyTrip[t].driver /\ r.back = keyTrip[t].back
  BY DEF KeysTyped, KeyRow
<1>2. keyTrip' = [keyTrip EXCEPT ![t] = r]
  OBVIOUS
<1> HIDE DEF r
<1>3. keyTrip'[t] = r
  BY <1>2 DEF KeysTyped
<1>4. UNCHANGED <<tripKey, handing, late, unheard>>
  BY DEF Keys!Others
<1>5. Riding(t)' /\ ~Fresh(t)' /\ t \notin handing /\ ~Kept(t)
  <2>1. t \notin handing
    BY DEF KeysInv, TripFits, Riding, Under
  <2> QED
    BY <1>1, <1>3, <2>1 DEF Riding, Fresh, Kept, Under
<1>6. type \notin Keys!Finals /\ type \notin Lasting
  BY DEF Keys!Finals, Keys!Underway, Lasting
<1>7. ASSUME NEW m \in Notices, notice'[m].of = t
      PROVE  Tells(t, notice[m])'
  <2>1. CASE m = n
    BY <1>6, <2>1, Told1 DEF Tells
  <2>2. CASE m # n
    <3>1. Tells(t, notice[m]) /\ notice'[m] = notice[m]
      BY <1>7, <2>2, Told1 DEF KeysInv, TripFits
    <3>2. notice[m].type \notin Keys!Finals
      BY <3>1 DEF Tells, Riding, Under, Over
    <3> QED
      BY <1>1, <1>3, <1>4, <1>5, <3>1, <3>2 DEF Tells
  <2> QED
    BY <2>1, <2>2
<1>8. t \notin (late \cup unheard)' => Follows(t)'
  BY <1>1, <1>3, <1>4, <1>5, Told1 DEF KeysInv, TripFits, Follows
<1>9. TripFits(t)'
  BY <1>1, <1>3, <1>4, <1>5, <1>7, <1>8 DEF KeysInv, TripFits
<1> QED
  BY <1>1, <1>2, <1>9, TellingStep

\* A trip that a step ends, and tells the gateway so: its key will be taken away.
LEMMA TripEnds ==
    ASSUME KeysTyped, KeysInv, Keys!NoneIsApart, NEW t \in Trips, NEW n \in Notices,
           NEW type \in Keys!Finals, Keys!Tell(n, t, type),
           NEW status \in Over, t \notin handing, ~Kept(t),
           keyTrip' = [keyTrip EXCEPT ![t].status = status], Keys!Others
    PROVE  (KeysTyped /\ KeysInv)'
<1> DEFINE r == [keyTrip[t] EXCEPT !.status = status]
<1>1. /\ r \in KeyRow /\ r.status = status
      /\ r.driver = keyTrip[t].driver /\ r.back = keyTrip[t].back
  BY DEF KeysTyped, KeyRow
<1>2. keyTrip' = [keyTrip EXCEPT ![t] = r]
  OBVIOUS
<1> HIDE DEF r
<1>3. keyTrip'[t] = r
  BY <1>2 DEF KeysTyped
<1>4. UNCHANGED <<tripKey, handing, late, unheard>>
  BY DEF Keys!Others
<1>5. ~Riding(t)' /\ ~Fresh(t)'
  BY <1>1, <1>3 DEF Riding, Fresh, Under, Over
<1>6. type \notin Lasting
  BY DEF Keys!Finals, Lasting
<1>7. ASSUME NEW m \in Notices, notice'[m].of = t
      PROVE  Tells(t, notice[m])'
  <2>1. CASE m = n
    BY <1>1, <1>3, <1>4, <1>6, <2>1, Told1 DEF Tells
  <2>2. CASE m # n
    <3>1. Tells(t, notice[m]) /\ notice'[m] = notice[m]
      BY <1>7, <2>2, Told1 DEF KeysInv, TripFits
    <3> QED
      BY <1>1, <1>3, <1>4, <1>5, <3>1 DEF Tells
  <2> QED
    BY <2>1, <2>2
<1>8. t \notin (late \cup unheard)' => Follows(t)'
  BY <1>1, <1>3, <1>4, <1>5, Told1 DEF KeysInv, TripFits, Follows
<1>9. TripFits(t)'
  BY <1>1, <1>3, <1>4, <1>5, <1>7, <1>8 DEF KeysInv, TripFits
<1> QED
  BY <1>1, <1>2, <1>9, TellingStep

\* A trip that is over, with its key kept.
LEMMA TripIsKept ==
    ASSUME KeysTyped, KeysInv, Keys!NoneIsApart, NEW t \in Trips, NEW n \in Notices,
           NEW type \in Lasting, Keys!Tell(n, t, type), NEW status \in Over,
           keyTrip' = [keyTrip EXCEPT ![t].status = status], Keys!Others,
           \/ status = "CANCELLED_BY_ADMIN"
           \/ status = "CANCELLED_BY_DRIVER" /\ keyTrip[t].back
    PROVE  (KeysTyped /\ KeysInv)'
<1> DEFINE r == [keyTrip[t] EXCEPT !.status = status]
<1>1. /\ r \in KeyRow /\ r.status = status
      /\ r.driver = keyTrip[t].driver /\ r.back = keyTrip[t].back
  BY DEF KeysTyped, KeyRow
<1>2. keyTrip' = [keyTrip EXCEPT ![t] = r]
  OBVIOUS
<1> HIDE DEF r
<1>3. keyTrip'[t] = r
  BY <1>2 DEF KeysTyped
<1>4. UNCHANGED <<tripKey, handing, late, unheard>>
  BY DEF Keys!Others
<1>5. ~Riding(t)' /\ ~Fresh(t)' /\ Kept(t)'
  BY <1>1, <1>3 DEF Riding, Fresh, Kept, Under, Over
<1>6. type \notin Keys!Finals
  BY DEF Keys!Finals, Lasting
<1>7. ASSUME NEW m \in Notices, notice'[m].of = t
      PROVE  Tells(t, notice[m])'
  <2>1. CASE m = n
    BY <1>5, <1>6, <2>1, Told1 DEF Tells
  <2>2. CASE m # n
    <3>1. Tells(t, notice[m]) /\ notice'[m] = notice[m]
      BY <1>7, <2>2, Told1 DEF KeysInv, TripFits
    <3> QED
      BY <1>1, <1>3, <1>4, <1>5, <3>1 DEF Tells
  <2> QED
    BY <2>1, <2>2
<1>8. t \notin (late \cup unheard)' => Follows(t)'
  BY <1>1, <1>3, <1>4, <1>5 DEF KeysInv, TripFits, Follows
<1>9. TripFits(t)'
  BY <1>1, <1>3, <1>4, <1>5, <1>7, <1>8 DEF KeysInv, TripFits
<1> QED
  BY <1>1, <1>2, <1>9, TellingStep

\* A driver that takes a trip nobody has spoken of yet.
LEMMA TripIsTaken ==
    ASSUME KeysTyped, KeysInv, Keys!NoneIsApart, NEW t \in Trips, NEW n \in Notices,
           NEW d \in Drivers, Keys!TripAcceptedByDriver(t, d, n)
    PROVE  (KeysTyped /\ KeysInv)'
<1> DEFINE r == [keyTrip[t] EXCEPT !.status = "ACCEPTED_BY_DRIVER", !.driver = d]
<1>0. /\ Keys!Tell(n, t, "driver_accepted") /\ Keys!Others /\ Fresh(t)
      /\ keyTrip' = [keyTrip EXCEPT ![t] = r]
  BY DEF Keys!TripAcceptedByDriver, Fresh
<1>1. r \in KeyRow /\ r.status = "ACCEPTED_BY_DRIVER" /\ r.driver = d /\ ~r.back
  BY <1>0 DEF KeysTyped, KeyRow, Under, Fresh
<1> HIDE DEF r
<1>2. keyTrip'[t] = r /\ UNCHANGED <<tripKey, handing, late, unheard>>
  BY <1>0 DEF KeysTyped, Keys!Others
<1>3. "driver_accepted" \notin Keys!Finals \cup Lasting /\ "driver_accepted" \in Keys!Underway
  BY DEF Keys!Finals, Keys!Underway, Lasting
<1>4. keyTrip[t].driver = None /\ t \notin handing /\ \A m \in Notices : notice[m].of # t
  BY <1>0 DEF KeysInv, TripFits, Fresh
<1>5. ASSUME NEW m \in Notices, notice'[m].of = t
      PROVE  Tells(t, notice[m])'
  BY <1>0, <1>3, <1>4, <1>5, Told1 DEF Tells
<1>6. Riding(t)' /\ ~Fresh(t)'
  BY <1>1, <1>2 DEF Riding, Under, Fresh
<1>7. t \notin (late \cup unheard)' => Follows(t)'
  <2>1. t \notin late \cup unheard => \A e \in Drivers : tripKey[e] # t
    BY <1>4 DEF KeysInv, TripFits, Follows, Keys!NoneIsApart
  <2>2. notice'[n].of = t
    BY <1>0, <1>3, Told1
  <2> QED
    BY <1>2, <1>6, <2>1, <2>2 DEF Follows
<1>8. TripFits(t)'
  BY <1>1, <1>2, <1>4, <1>5, <1>6, <1>7 DEF TripFits
<1> QED
  BY <1>0, <1>1, <1>3, <1>8, TellingStep

\* A new trip, for which the rider's trips that still wait for a driver are expired.
LEMMA TripIsCreated ==
    ASSUME KeysTyped, KeysInv, NEW t \in Trips, Keys!CreateTrip(t)
    PROVE  (KeysTyped /\ KeysInv)'
<1>1. UNCHANGED <<tripKey, notice, handing, late, unheard>>
  BY DEF Keys!CreateTrip, Keys!Others
<1>2. ASSUME NEW u \in Trips
      PROVE  /\ keyTrip'[u] \in KeyRow
             /\ keyTrip'[u].driver = keyTrip[u].driver /\ keyTrip'[u].back = keyTrip[u].back
             /\ \/ keyTrip'[u] = keyTrip[u]
                \/ keyTrip[u].status = "NONE" /\ keyTrip'[u].status = "PENDING"
                \/ /\ keyTrip[u].status \in {"PENDING", "NO_DRIVER"}
                   /\ keyTrip'[u].status = "EXPIRED"
  BY <1>2 DEF KeysTyped, Keys!CreateTrip, KeyRow, Over
<1>3. KeysTyped'
  <2>1. keyTrip' \in [Trips -> KeyRow]
    BY <1>2 DEF Keys!CreateTrip
  <2> QED
    BY <1>1, <2>1 DEF KeysTyped
<1>4. ASSUME NEW u \in Trips, keyTrip[u].status \in {"NONE", "PENDING", "NO_DRIVER"},
             ~Riding(u)', ~Kept(u)', Fresh(u)' => Fresh(u),
             keyTrip[u].status \in Over => keyTrip'[u].status \in Over
      PROVE  TripFits(u)'
  <2>1. ~Riding(u) /\ ~Kept(u) /\ u \notin handing
    BY <1>4 DEF Riding, Under, Kept, KeysInv, TripFits
  <2>2. ASSUME NEW n \in Notices, notice'[n].of = u
        PROVE  Tells(u, notice[n])'
    <3>1. Tells(u, notice[n]) /\ notice'[n] = notice[n]
      BY <1>1, <2>2 DEF KeysInv, TripFits
    <3> QED
      BY <1>1, <1>2, <1>4, <2>1, <3>1 DEF Tells
  <2>3. u \notin (late \cup unheard)' => Follows(u)'
    BY <1>1, <1>2, <1>4, <2>1 DEF KeysInv, TripFits, Follows
  <2> QED
    BY <1>1, <1>2, <1>4, <2>1, <2>2, <2>3 DEF KeysInv, TripFits
<1>5. ASSUME NEW u \in Trips
      PROVE  TripFits(u)'
  <2>1. CASE keyTrip'[u] = keyTrip[u]
    BY <1>1, <2>1, OtherTripStays DEF KeysInv
  <2>2. CASE keyTrip[u].status = "NONE" /\ keyTrip'[u].status = "PENDING"
    BY <1>2, <1>4, <2>2 DEF Riding, Under, Kept, Fresh, Over
  <2>3. CASE /\ keyTrip[u].status \in {"PENDING", "NO_DRIVER"}
             /\ keyTrip'[u].status = "EXPIRED"
    BY <1>2, <1>4, <2>3 DEF Riding, Under, Kept, Fresh, Over
  <2> QED
    BY <1>2, <2>1, <2>2, <2>3
<1> QED
  BY <1>3, <1>5 DEF KeysInv

\* A step of one trip of which nobody is told.
LEMMA UntoldStep ==
    ASSUME KeysTyped, KeysInv, NEW t \in Trips, NEW r \in KeyRow,
           keyTrip' = [keyTrip EXCEPT ![t] = r], UNCHANGED <<tripKey, notice, late, unheard>>,
           handing' \subseteq Trips, handing' \ {t} = handing \ {t},
           keyTrip'[t] = r => TripFits(t)'
    PROVE  (KeysTyped /\ KeysInv)'
<1>1. /\ keyTrip' \in [Trips -> KeyRow] /\ keyTrip'[t] = r
      /\ \A u \in Trips \ {t} : keyTrip'[u] = keyTrip[u]
  BY DEF KeysTyped
<1>2. KeysTyped'
  BY <1>1 DEF KeysTyped
<1>3. ASSUME NEW u \in Trips \ {t}
      PROVE  TripFits(u)'
  BY <1>1, OtherTripStays DEF KeysInv
<1> QED
  BY <1>1, <1>2, <1>3 DEF KeysInv

\* A driver that gives a trip back.
LEMMA TripIsGivenBack ==
    ASSUME KeysTyped, KeysInv, NEW t \in Trips, Keys!CancelledOnTheWay(t)
    PROVE  (KeysTyped /\ KeysInv)'
<1> DEFINE r == [keyTrip[t] EXCEPT !.status = "CANCELLED_BY_DRIVER"]
<1>1. /\ r \in KeyRow /\ r.status = "CANCELLED_BY_DRIVER"
      /\ r.driver = keyTrip[t].driver /\ r.back = keyTrip[t].back
  BY DEF KeysTyped, KeyRow, Over
<1>2. /\ keyTrip[t].status = "ACCEPTED_BY_DRIVER"
      /\ keyTrip' = [keyTrip EXCEPT ![t] = r] /\ handing' = handing \cup {t}
      /\ UNCHANGED <<tripKey, notice, late, unheard>>
  BY DEF Keys!CancelledOnTheWay, Keys!Become
<1> HIDE DEF r
<1>3. ASSUME keyTrip'[t] = r
      PROVE  TripFits(t)'
  <2>1. Riding(t) /\ ~Kept(t) /\ ~Riding(t)' /\ ~Fresh(t)' /\ keyTrip[t].status \notin Over
    BY <1>1, <1>2, <1>3 DEF Riding, Under, Kept, Fresh, Over
  <2>2. keyTrip[t].driver \in Drivers /\ ~keyTrip[t].back
    BY <2>1 DEF KeysInv, TripFits
  <2>3. ASSUME NEW n \in Notices, notice'[n].of = t
        PROVE  Tells(t, notice[n])'
    <3>1. Tells(t, notice[n]) /\ notice'[n] = notice[n]
      BY <1>2, <2>3 DEF KeysInv, TripFits
    <3> QED
      BY <1>2, <2>1, <3>1 DEF Tells
  <2>4. t \notin (late \cup unheard)' => Follows(t)'
    BY <1>1, <1>2, <1>3, <2>1 DEF KeysInv, TripFits, Follows
  <2> QED
    BY <1>1, <1>2, <1>3, <2>1, <2>2, <2>3, <2>4 DEF TripFits
<1> QED
  BY <1>1, <1>2, <1>3, UntoldStep DEF KeysTyped

\* Another driver that is asked for a trip that was given back.
LEMMA TripIsAskedAgain ==
    ASSUME KeysTyped, KeysInv, NEW t \in Trips, Keys!AskAgain(t)
    PROVE  (KeysTyped /\ KeysInv)'
<1> DEFINE r == [keyTrip[t] EXCEPT !.driver = None]
<1>1. r \in KeyRow /\ r.status = "PENDING" /\ r.driver = None /\ r.back
  BY DEF Keys!AskAgain, KeysTyped, KeyRow
<1>2. /\ keyTrip[t].status = "PENDING" /\ keyTrip' = [keyTrip EXCEPT ![t] = r]
      /\ UNCHANGED <<handing, tripKey, notice, late, unheard>>
  BY DEF Keys!AskAgain, Keys!Others
<1> HIDE DEF r
<1>3. ASSUME keyTrip'[t] = r
      PROVE  TripFits(t)'
  <2>1. /\ ~Riding(t) /\ ~Kept(t) /\ t \notin handing
        /\ ~Riding(t)' /\ ~Fresh(t)' /\ keyTrip[t].status \notin Over
    BY <1>1, <1>2, <1>3 DEF Riding, Under, Kept, Fresh, Over, KeysInv, TripFits
  <2>2. ASSUME NEW n \in Notices, notice'[n].of = t
        PROVE  Tells(t, notice[n])'
    <3>1. Tells(t, notice[n]) /\ notice'[n] = notice[n]
      BY <1>2, <2>2 DEF KeysInv, TripFits
    <3> QED
      BY <1>2, <2>1, <3>1 DEF Tells
  <2>3. t \notin (late \cup unheard)' => Follows(t)'
    <3>1. \A n \in Notices : notice[n].of = t => notice[n].type \notin Keys!Finals
      BY <2>1 DEF KeysInv, TripFits, Tells
    <3> QED
      BY <1>2, <2>1, <3>1 DEF KeysInv, TripFits, Follows
  <2> QED
    BY <1>2, <2>1, <2>2, <2>3 DEF TripFits
<1> QED
  BY <1>1, <1>2, <1>3, UntoldStep DEF KeysTyped

\* The search for another driver, which takes the key away first.
LEMMA TripIsSearchedFor ==
    ASSUME KeysTyped, KeysInv, Keys!NoneIsApart, NEW t \in Trips,
           Keys!ProcessTripCancelledByDriver(t)
    PROVE  (KeysTyped /\ KeysInv)'
<1> DEFINE d == keyTrip[t].driver
           r == [keyTrip[t] EXCEPT !.status = "PENDING", !.back = TRUE]
<1>1. r \in KeyRow /\ r.status = "PENDING" /\ r.back
  BY DEF KeysTyped, KeyRow
<1>2. /\ t \in handing /\ handing' = handing \ {t} /\ UNCHANGED <<notice, unheard>>
      /\ tripKey' = [tripKey EXCEPT ![d] = None]
      /\ keyTrip' = [keyTrip EXCEPT ![t] = r]
      /\ late \subseteq late' /\ Keys!RidesOf(d) \subseteq late'
      /\ keyTrip[t].status # "CANCELLED_BY_DRIVER" => t \in late'
  BY DEF Keys!ProcessTripCancelledByDriver
<1> HIDE DEF r
<1>3. d \in Drivers /\ ~keyTrip[t].back
  BY <1>2 DEF KeysInv, TripFits
<1>4. /\ keyTrip' \in [Trips -> KeyRow] /\ keyTrip'[t] = r
      /\ \A u \in Trips \ {t} : keyTrip'[u] = keyTrip[u]
      /\ tripKey' \in [Drivers -> Trips \cup {None}] /\ tripKey'[d] = None
      /\ \A e \in Drivers \ {d} : tripKey'[e] = tripKey[e]
  BY <1>1, <1>2, <1>3 DEF KeysTyped
<1>5. KeysTyped'
  BY <1>2, <1>4 DEF KeysTyped
<1>6. ASSUME NEW u \in Trips \ {t}
      PROVE  TripFits(u)'
  <2>1. TripFits(u)
    BY DEF KeysInv
  <2>2. ASSUME Riding(u), u \notin late' \cup unheard'
        PROVE  tripKey[d] # u
    <3>1. tripKey[d] = u => keyTrip[u].driver = d
      BY <1>2, <1>3, <2>1, <2>2 DEF TripFits, Follows
    <3> QED
      BY <1>2, <2>2, <3>1 DEF Keys!RidesOf, Riding, Keys!Riding, Under, Keys!Under
  <2>3. \A e \in Drivers : tripKey'[e] = u => tripKey[e] = u
    BY <1>4 DEF Keys!NoneIsApart
  <2> QED
    BY <1>2, <1>4, <2>1, <2>2, <2>3, OtherTripStays
<1>7. TripFits(t)'
  <2>1. ~Riding(t)' /\ ~Fresh(t)' /\ t \notin handing'
    BY <1>1, <1>2, <1>4 DEF Riding, Under, Fresh
  <2>2. ASSUME NEW n \in Notices, notice'[n].of = t
        PROVE  Tells(t, notice[n])'
    <3>1. Tells(t, notice[n]) /\ notice'[n] = notice[n]
      BY <1>2, <2>2 DEF KeysInv, TripFits
    <3>2. t \notin late' => ~Kept(t) /\ t \notin late
      BY <1>2, <1>3 DEF Kept
    <3> QED
      BY <1>2, <2>1, <3>1, <3>2 DEF Tells
  <2>3. t \notin (late \cup unheard)' => \A e \in Drivers : tripKey'[e] # t
    BY <1>2, <1>3, <1>4 DEF KeysInv, TripFits, Follows, Keys!NoneIsApart
  <2> QED
    BY <2>1, <2>2, <2>3 DEF TripFits, Follows
<1> QED
  BY <1>5, <1>6, <1>7 DEF KeysInv

\* A search that does not come about.
LEMMA SearchIsStopped ==
    ASSUME KeysTyped, KeysInv, NEW t \in Trips, Keys!StopHanding(t)
    PROVE  (KeysTyped /\ KeysInv)'
<1>1. /\ handing' = handing \ {t} /\ unheard' = unheard \cup {t}
      /\ UNCHANGED <<keyTrip, tripKey, notice, late>>
  BY DEF Keys!StopHanding
<1>2. KeysTyped'
  BY <1>1 DEF KeysTyped
<1>3. ASSUME NEW u \in Trips \ {t}
      PROVE  TripFits(u)'
  BY <1>1, OtherTripStays DEF KeysInv
<1>4. TripFits(t)'
  <2>1. /\ Riding(t)' <=> Riding(t)
        /\ Kept(t)' <=> Kept(t)
        /\ Fresh(t)' <=> Fresh(t)
    BY <1>1 DEF Riding, Kept, Fresh
  <2>2. ASSUME NEW n \in Notices, notice'[n].of = t
        PROVE  Tells(t, notice[n])'
    BY <1>1, <2>1, <2>2 DEF Tells, KeysInv, TripFits
  <2> QED
    BY <1>1, <2>1, <2>2 DEF KeysInv, TripFits
<1> QED
  BY <1>2, <1>3, <1>4 DEF KeysInv

\* The gateway's reading of the row tells it of the driver who has the trip by then.
LEMMA NoticeIsRead ==
    ASSUME KeysTyped, KeysInv, NEW n \in Notices, Keys!ReadRow(n)
    PROVE  (KeysTyped /\ KeysInv)'
<1> PICK t : t = notice[n].of
  OBVIOUS
<1> DEFINE m == [notice[n] EXCEPT !.step = "emitted", !.driver = keyTrip[t].driver]
<1>0. t \in Trips /\ notice[n].type # "none" /\ notice[n] \in Message
  BY DEF Keys!ReadRow, KeysTyped, Says, Keys!Free
<1>1. /\ m \in Message
      /\ m.of = t /\ m.type = notice[n].type
      /\ m.step = "emitted" /\ m.driver = keyTrip[t].driver
  BY <1>0 DEF KeysTyped, Message, KeyRow
<1>2. notice' = [notice EXCEPT ![n] = m]
  BY DEF Keys!ReadRow
<1> HIDE DEF m
<1>3. /\ notice' \in [Notices -> Message] /\ notice'[n] = m
      /\ \A k \in Notices \ {n} : notice'[k] = notice[k]
      /\ UNCHANGED <<keyTrip, tripKey, handing, late, unheard>>
  BY <1>1, <1>2 DEF Keys!ReadRow, KeysTyped
<1>4. KeysTyped'
  BY <1>0, <1>1, <1>3 DEF KeysTyped, Says
<1>5. ASSUME NEW u \in Trips \ {t}
      PROVE  TripFits(u)'
  BY <1>1, <1>3, OtherTripStays DEF KeysInv
<1>6. TripFits(t)'
  <2>1. /\ Riding(t)' <=> Riding(t)
        /\ Kept(t)' <=> Kept(t)
        /\ Fresh(t)' <=> Fresh(t)
    BY <1>3 DEF Riding, Kept, Fresh
  <2>2. TripFits(t)
    BY <1>0 DEF KeysInv
  <2>3. ASSUME NEW k \in Notices, notice'[k].of = t
        PROVE  Tells(t, notice[k])'
    <3>1. Tells(t, notice[k])
      BY <1>3, <2>2, <2>3 DEF TripFits
    <3>2. CASE k = n
      BY <1>1, <1>3, <2>1, <3>1, <3>2 DEF Tells
    <3>3. CASE k # n
      BY <1>3, <2>1, <3>1, <3>3 DEF Tells
    <3> QED
      BY <3>2, <3>3
  <2>4. ASSUME NEW k \in Notices
        PROVE  notice'[k].of = notice[k].of /\ notice'[k].type = notice[k].type
    BY <1>1, <1>3
  <2>5. t \notin (late \cup unheard)' => Follows(t)'
    BY <1>3, <2>1, <2>2, <2>4 DEF TripFits, Follows
  <2> QED
    BY <1>3, <2>1, <2>2, <2>3, <2>4, <2>5 DEF TripFits
<1> QED
  BY <1>4, <1>5, <1>6 DEF KeysInv

\* What a notice that is gone leaves of the others.
LEMMA NoticeIsGone ==
    ASSUME KeysTyped, KeysInv, Keys!NoneIsApart, NEW n \in Notices, NEW t, t = notice[n].of,
           notice' = [notice EXCEPT ![n] = Keys!Free], UNCHANGED <<keyTrip, handing>>,
           late \subseteq late', unheard \subseteq unheard',
           tripKey' \in [Drivers -> Trips \cup {None}],
           t \notin (late \cup unheard)' => Follows(t)',
           \A u \in Trips \ {t} :
               /\ \A d \in Drivers : tripKey'[d] = u => tripKey[d] = u
               /\ Riding(u) /\ u \notin late' \cup unheard' =>
                      \A d \in Drivers : tripKey[d] = u => tripKey'[d] = u
    PROVE  (KeysTyped /\ KeysInv)'
<1>1. Keys!Free \in Message /\ Keys!Free.of = None
  BY DEF Keys!Free, Message
<1>2. /\ notice' \in [Notices -> Message] /\ notice'[n] = Keys!Free
      /\ \A k \in Notices \ {n} : notice'[k] = notice[k]
  BY <1>1 DEF KeysTyped
<1>3. KeysTyped'
  BY <1>1, <1>2 DEF KeysTyped
<1>4. ASSUME NEW u \in Trips \ {t}
      PROVE  TripFits(u)'
  <2>1. \A k \in Notices : notice[k].of = u \/ notice'[k].of = u => notice'[k] = notice[k]
    BY <1>1, <1>2 DEF Keys!NoneIsApart
  <2> QED
    BY <2>1, OtherTripStays DEF KeysInv
<1>5. ASSUME t \in Trips
      PROVE  TripFits(t)'
  <2>1. /\ Riding(t)' <=> Riding(t)
        /\ Kept(t)' <=> Kept(t)
        /\ Fresh(t)' <=> Fresh(t)
    BY DEF Riding, Kept, Fresh
  <2>2. TripFits(t)
    BY <1>5 DEF KeysInv
  <2>3. ASSUME NEW k \in Notices, notice'[k].of = t
        PROVE  notice'[k] = notice[k] /\ Tells(t, notice[k])'
    <3>1. k # n
      BY <1>1, <1>2, <1>5, <2>3 DEF Keys!NoneIsApart
    <3>2. Tells(t, notice[k]) /\ notice'[k] = notice[k]
      BY <1>2, <2>2, <2>3, <3>1 DEF TripFits
    <3> QED
      BY <2>1, <3>2 DEF Tells
  <2> QED
    BY <2>1, <2>2, <2>3 DEF TripFits
<1> QED
  BY <1>3, <1>4, <1>5 DEF KeysInv

\* A notice of which the gateway does not hear.
LEMMA NoticeIsLost ==
    ASSUME KeysTyped, KeysInv, Keys!NoneIsApart, NEW n \in Notices, Keys!Lose(n)
    PROVE  (KeysTyped /\ KeysInv)'
<1>1. /\ notice' = [notice EXCEPT ![n] = Keys!Free] /\ UNCHANGED <<keyTrip, handing>>
      /\ UNCHANGED <<tripKey, late>> /\ unheard' = unheard \cup {notice[n].of}
      /\ notice[n] # Keys!Free
  BY DEF Keys!Lose
<1> QED
  BY <1>1, NoticeIsGone DEF KeysTyped

\* A notice that the gateway handles, by which it sets the key or takes it away.
LEMMA NoticeIsHandled ==
    ASSUME KeysTyped, KeysInv, Keys!NoneIsApart, NEW n \in Notices, Keys!Handle(n)
    PROVE  (KeysTyped /\ KeysInv)'
<1> PICK t, d : t = notice[n].of /\ d = notice[n].driver
  OBVIOUS
<1> DEFINE final == notice[n].type \in Keys!Finals
<1>1. /\ t \in Trips /\ d \in Drivers \cup {None} /\ notice[n].step = "emitted"
      /\ notice[n].type \in Keys!Finals \cup Keys!Underway \cup Lasting
  BY DEF Keys!Handle, KeysTyped, Says, Message, Keys!Free
<1>2. /\ tripKey' = IF d = None THEN tripKey
                    ELSE [tripKey EXCEPT ![d] = IF final THEN None ELSE t]
      /\ notice' = [notice EXCEPT ![n] = Keys!Free]
      /\ late \subseteq late'
      /\ d # None => Keys!RidesOf(d) \ {t} \subseteq late'
      /\ d # None /\ notice[n].type \in Keys!Underway /\ t \notin late' =>
             keyTrip[t].driver = d /\ (Riding(t) \/ Kept(t))
      /\ UNCHANGED <<keyTrip, handing, unheard>>
  BY DEF Keys!Handle, Riding, Keys!Riding, Under, Keys!Under, Kept, Keys!Kept
<1>3. /\ d = None => tripKey' = tripKey
      /\ d # None => /\ tripKey'[d] = IF final THEN None ELSE t
                     /\ \A e \in Drivers \ {d} : tripKey'[e] = tripKey[e]
      /\ tripKey' \in [Drivers -> Trips \cup {None}]
  BY <1>1, <1>2 DEF KeysTyped
<1>4. ASSUME NEW u \in Trips \ {t}, Riding(u), u \notin late' \cup unheard', NEW e \in Drivers,
             tripKey[e] = u
      PROVE  tripKey'[e] = u
  <2>1. keyTrip[u].driver = e
    BY <1>2, <1>4 DEF KeysInv, TripFits, Follows
  <2>2. d # None => e # d
    BY <1>2, <1>4, <2>1 DEF Keys!RidesOf, Riding, Keys!Riding, Under, Keys!Under
  <2> QED
    BY <1>3, <1>4, <2>2
<1>5. ASSUME NEW u \in Trips \ {t}, NEW e \in Drivers, tripKey'[e] = u
      PROVE  tripKey[e] = u
  BY <1>3, <1>5 DEF Keys!NoneIsApart
<1>6. ASSUME t \notin (late \cup unheard)'
      PROVE  Follows(t)'
  <2>1. Follows(t) /\ Tells(t, notice[n]) /\ t \notin late
    BY <1>1, <1>2, <1>6 DEF KeysInv, TripFits
  <2>2. (Riding(t)' <=> Riding(t)) /\ (Kept(t)' <=> Kept(t))
    BY <1>2 DEF Riding, Kept
  <2>3. Riding(t) => keyTrip[t].driver = d /\ d \in Drivers /\ ~final
    BY <1>1, <2>1 DEF Tells, KeysInv, TripFits, Riding, Under, Over
  <2>4. final => d = keyTrip[t].driver
    BY <1>1, <2>1 DEF Tells
  <2>5. ~final /\ d # None => keyTrip[t].driver = d /\ (Riding(t) \/ Kept(t))
    BY <1>1, <1>2, <1>6, <2>1 DEF Tells
  <2>6. \A k \in Notices \ {n} : notice'[k] = notice[k]
    BY <1>2 DEF KeysTyped
  <2>7. Riding(t) => tripKey'[d] = t
    BY <1>3, <2>3 DEF Keys!NoneIsApart
  <2>8. ASSUME NEW e \in Drivers, tripKey'[e] = t
        PROVE  /\ keyTrip[t].driver = e
               /\ \/ Riding(t) \/ Kept(t) \/ t \in handing
                  \/ \E k \in Notices \ {n} :
                        notice[k].of = t /\ notice[k].type \in Keys!Finals
    <3>1. CASE d # None /\ ~final
      BY <1>3, <2>1, <2>5, <2>8, <3>1 DEF Follows
    <3>2. CASE d = None \/ final
      <4>1. tripKey[e] = t /\ keyTrip[t].driver = e
        BY <1>1, <1>3, <2>1, <2>8, <3>2 DEF Follows, Keys!NoneIsApart
      <4>2. ~final
        BY <1>1, <1>3, <2>4, <2>8, <4>1 DEF Keys!NoneIsApart
      <4> QED
        BY <2>1, <4>1, <4>2 DEF Follows
    <3> QED
      BY <3>1, <3>2
  <2> QED
    BY <1>2, <2>2, <2>3, <2>6, <2>7, <2>8 DEF Follows
<1> QED
  BY <1>2, <1>3, <1>4, <1>5, <1>6, NoticeIsGone

\* No step of a trip, a notice or the gateway leaves the key of a ride neither set nor to
\* be set, or one of another trip neither gone nor to go.
LEMMA KeysStep ==
    Keys!NoneIsApart /\ KeysTyped /\ KeysInv /\ [Keys!Next]_Keys!keyVars =>
        (KeysTyped /\ KeysInv)'
<1> SUFFICES ASSUME Keys!NoneIsApart, KeysTyped, KeysInv, [Keys!Next]_Keys!keyVars
             PROVE  (KeysTyped /\ KeysInv)'
  OBVIOUS
<1>1. CASE UNCHANGED Keys!keyVars
  <2>1. UNCHANGED <<keyTrip, tripKey, notice, handing, late, unheard>>
    BY <1>1 DEF Keys!keyVars
  <2> QED
    BY <2>1, OtherTripStays DEF KeysTyped, KeysInv
<1>2. ASSUME NEW t \in Trips, NEW n \in Notices,
             \/ Keys!DriverReached(t, n) \/ Keys!TripStarted(t, n)
             \/ Keys!ChangeTripDestination(t, n)
      PROVE  (KeysTyped /\ KeysInv)'
  <2>1. PICK status \in Under, type \in Keys!Underway :
           /\ Keys!Tell(n, t, type) /\ Keys!Others /\ Riding(t)
           /\ keyTrip' = [keyTrip EXCEPT ![t].status = status]
    <3>1. {"driver_reached", "trip_started", "rider_updated_destination"} \subseteq Keys!Underway
          /\ {"DRIVER_ARRIVED", "STARTED"} \subseteq Under
      BY DEF Keys!Underway, Under
    <3>2. CASE Keys!DriverReached(t, n)
      BY <3>1, <3>2 DEF Keys!DriverReached, Keys!Become, Riding, Under
    <3>3. CASE Keys!TripStarted(t, n)
      BY <3>1, <3>3 DEF Keys!TripStarted, Keys!Become, Riding
    <3>4. CASE Keys!ChangeTripDestination(t, n)
      <4>1. keyTrip[t].status = "STARTED" /\ keyTrip' = keyTrip
        BY <3>4 DEF Keys!ChangeTripDestination
      <4>2. keyTrip = [keyTrip EXCEPT ![t].status = "STARTED"]
        BY <4>1 DEF KeysTyped, KeyRow
      <4> QED
        BY <3>1, <3>4, <4>1, <4>2 DEF Keys!ChangeTripDestination, Riding
    <3> QED
      BY <1>2, <3>2, <3>3, <3>4
  <2> QED
    BY <2>1, RideGoesOn
<1>3. ASSUME NEW t \in Trips, NEW n \in Notices, NEW type \in Keys!Finals, NEW status \in Over,
             Keys!Become(t, status), Keys!Tell(n, t, type), Keys!Others,
             keyTrip[t].status \in Under \cup {"PENDING", "NO_DRIVER"}
      PROVE  (KeysTyped /\ KeysInv)'
  <2>1. t \notin handing /\ ~Kept(t)
    BY <1>3 DEF KeysInv, TripFits, Kept, Under
  <2> QED
    BY <1>3, <2>1, TripEnds DEF Keys!Become
<1>4. ASSUME NEW t \in Trips, NEW n \in Notices,
             \/ Keys!TripCompleted(t, n) \/ Keys!TripCancelledByRider(t, n)
             \/ Keys!CancelledAfterArrival(t, n)
      PROVE  (KeysTyped /\ KeysInv)'
  <2>1. /\ {"trip_completed", "rider_cancelled", "driver_cancelled"} \subseteq Keys!Finals
        /\ {"COMPLETED", "CANCELLED_BY_RIDER", "CANCELLED_BY_DRIVER"} \subseteq Over
        /\ {"DRIVER_ARRIVED", "STARTED"} \subseteq Under
    BY DEF Keys!Finals, Over, Under
  <2>2. CASE Keys!TripCompleted(t, n)
    BY <1>3, <2>1, <2>2 DEF Keys!TripCompleted
  <2>3. CASE Keys!TripCancelledByRider(t, n)
    <3>1. keyTrip[t].status \in Under \cup {"PENDING", "NO_DRIVER"}
      BY <2>3 DEF Keys!TripCancelledByRider, Keys!Riding, Keys!Under, Under
    <3> QED
      BY <1>3, <2>1, <2>3, <3>1 DEF Keys!TripCancelledByRider
  <2>4. CASE Keys!CancelledAfterArrival(t, n)
    BY <1>3, <2>1, <2>4 DEF Keys!CancelledAfterArrival
  <2> QED
    BY <1>4, <2>2, <2>3, <2>4
<1>5. ASSUME NEW t \in Trips, NEW n \in Notices,
             Keys!TripCancelledByAdmin(t, n) \/ Keys!GiveUp(t, n)
      PROVE  (KeysTyped /\ KeysInv)'
  <2>1. /\ {"trip_expired", "no_drivers"} \subseteq Keys!Finals
        /\ {"EXPIRED", "NO_DRIVER", "CANCELLED_BY_ADMIN", "CANCELLED_BY_DRIVER"} \subseteq Over
        /\ {"admin_cancelled", "driver_cancelled_before_arrived"} \subseteq Lasting
    BY DEF Keys!Finals, Over, Lasting
  <2>2. CASE Keys!TripCancelledByAdmin(t, n)
    BY <2>1, <2>2, TripIsKept DEF Keys!TripCancelledByAdmin, Keys!Become
  <2>3. CASE Keys!GiveUp(t, n)
    <3>1. keyTrip[t].status = "PENDING" /\ Keys!Others
      BY <2>3 DEF Keys!GiveUp
    <3>2. CASE Keys!Become(t, "EXPIRED") /\ Keys!Tell(n, t, "trip_expired")
      BY <1>3, <2>1, <3>1, <3>2
    <3>3. CASE Keys!Become(t, "NO_DRIVER") /\ Keys!Tell(n, t, "no_drivers")
      BY <1>3, <2>1, <3>1, <3>3
    <3>4. CASE /\ keyTrip[t].back /\ Keys!Become(t, "CANCELLED_BY_DRIVER")
               /\ Keys!Tell(n, t, "driver_cancelled_before_arrived")
      BY <2>1, <3>1, <3>4, TripIsKept DEF Keys!Become
    <3> QED
      BY <2>3, <3>2, <3>3, <3>4 DEF Keys!GiveUp
  <2> QED
    BY <1>5, <2>2, <2>3
<1> QED
  BY <1>1, <1>2, <1>4, <1>5, TripIsTaken, TripIsCreated, TripIsGivenBack, TripIsAskedAgain,
     TripIsSearchedFor, SearchIsStopped, NoticeIsRead, NoticeIsHandled, NoticeIsLost
     DEF Keys!Next

\* However the notices of a rider's trips overtake one another, the gateway forwards the
\* positions of him and the driver he rides with, and of nobody else.
THEOREM PositionsAlwaysFollow == ASSUME Keys!NoneIsApart PROVE Keys!Spec => []PositionsFollowRides
<1>1. Keys!Init => KeysTyped /\ KeysInv
  <2> SUFFICES ASSUME Keys!Init
               PROVE  KeysTyped /\ KeysInv
    OBVIOUS
  <2>1. Keys!Free \in Message /\ Keys!Free.of = None
    BY DEF Keys!Free, Message
  <2>2. KeysTyped
    BY <2>1 DEF Keys!Init, KeysTyped, KeyRow
  <2>3. ASSUME NEW t \in Trips
        PROVE  TripFits(t)
    <3>1. /\ keyTrip[t].status = "NONE" /\ keyTrip[t].driver = None /\ handing = {}
          /\ \A n \in Notices : notice[n].of # t
          /\ \A d \in Drivers : tripKey[d] # t
      BY <2>1 DEF Keys!Init, Keys!NoneIsApart
    <3> QED
      BY <3>1 DEF TripFits, Follows, Riding, Under
  <2> QED
    BY <2>2, <2>3 DEF KeysInv
<1>2. KeysTyped /\ KeysInv => PositionsFollowRides
  <2> SUFFICES ASSUME KeysTyped, KeysInv, NEW t \in Trips \ (late \cup unheard \cup handing),
                      \A n \in Notices : notice[n].of # t
               PROVE  /\ Riding(t) => tripKey[keyTrip[t].driver] = t
                      /\ \A d \in Drivers :
                            tripKey[d] = t => keyTrip[t].driver = d /\ (Riding(t) \/ Kept(t))
    BY DEF PositionsFollowRides, KeysTyped
  <2> QED
    BY DEF KeysInv, TripFits, Follows
<1> QED
  BY <1>1, <1>2, KeysStep, PTL DEF Keys!Spec

-----------------------------------------------------------------------------
(* Eligibilities *)

CaptainRow ==
    [wasl : Auth!Statuses, until : Nat, told : Nat, approved : BOOLEAN, sub : BOOLEAN]

Verdict == [status : Auth!Statuses, vehicles : SUBSET Auth!Statuses, until : Nat]

Seen == [wasl : Auth!Statuses, until : Nat, told : Nat]

Saws == UNION {[S -> Seen] : S \in SUBSET Drivers}

WaslOps == {"none", "ask", "decide", "each", "switch", "tell", "send", "expire"}

WaslWork == [op : WaslOps, list : SUBSET Drivers, saw : Saws, day : Nat]

WaslTyped ==
    /\ today \in Nat
    /\ waslRow \in [Drivers -> CaptainRow]
    /\ decision \in [Drivers -> Verdict]
    /\ waslJob \in [Workers -> WaslWork]
    /\ checkedEnds \in BOOLEAN
    /\ reminders \in [Drivers -> [DOMAIN Periods -> Nat]]

\* What a handler without work has.
LEMMA IdleIsWork ==
    Auth!Idle \in WaslWork /\ Auth!Idle.op = "none" /\ Auth!Idle.day = 0 /\ Auth!Idle.list = {}
<1>1. << >> \in [{} -> Seen]
  OBVIOUS
<1>2. << >> \in Saws
  BY <1>1 DEF Saws
<1> QED
  BY <1>2 DEF Auth!Idle, WaslWork, WaslOps

\* What a worker that begins has, and the others.
LEMMA WorkBegins ==
    ASSUME WaslTyped, NEW w \in Workers, NEW op \in WaslOps, NEW list \in SUBSET Drivers,
           NEW saw \in Saws, Auth!Begin(w, op, list, saw)
    PROVE  /\ waslJob' \in [Workers -> WaslWork]
           /\ waslJob[w].op = "none"
           /\ waslJob'[w].op = op /\ waslJob'[w].list = list /\ waslJob'[w].saw = saw
           /\ waslJob'[w].day = today
           /\ \A v \in Workers \ {w} : waslJob'[v] = waslJob[v]
BY DEF WaslTyped, Auth!Begin, Auth!At, WaslWork

\* What one that is done has.
LEMMA WorkEnds ==
    ASSUME WaslTyped, NEW w \in Workers, Auth!Finish(w)
    PROVE  /\ waslJob' \in [Workers -> WaslWork]
           /\ waslJob'[w].op = "none" /\ waslJob'[w].day = 0
           /\ \A v \in Workers \ {w} : waslJob'[v] = waslJob[v]
BY IdleIsWork DEF WaslTyped, Auth!Finish

\* What one that is done with d has.
LEMMA WorkGoesOn ==
    ASSUME WaslTyped, NEW w \in Workers, NEW d \in Drivers, Auth!Next1(w, d)
    PROVE  /\ waslJob' \in [Workers -> WaslWork]
           /\ \/ waslJob'[w].op = "none" /\ waslJob'[w].day = 0
              \/ /\ waslJob'[w].op = waslJob[w].op /\ waslJob'[w].day = waslJob[w].day
                 /\ waslJob'[w].saw = waslJob[w].saw
                 /\ waslJob'[w].list = waslJob[w].list \ {d}
           /\ \A v \in Workers \ {w} : waslJob'[v] = waslJob[v]
<1> DEFINE k == [waslJob[w] EXCEPT !.list = @ \ {d}]
<1>1. CASE Auth!Finish(w)
  BY <1>1, WorkEnds
<1>2. CASE waslJob' = [waslJob EXCEPT ![w].list = @ \ {d}]
  <2>1. /\ k \in WaslWork /\ k.op = waslJob[w].op /\ k.day = waslJob[w].day
        /\ k.saw = waslJob[w].saw /\ k.list = waslJob[w].list \ {d}
    BY DEF WaslTyped, WaslWork
  <2>2. waslJob' = [waslJob EXCEPT ![w] = k]
    BY <1>2
  <2> HIDE DEF k
  <2> QED
    BY <2>1, <2>2 DEF WaslTyped
<1> QED
  BY <1>1, <1>2 DEF Auth!Next1

\* What storing a status leaves of the rows.
LEMMA RowStored ==
    ASSUME WaslTyped, NEW d \in Drivers, NEW status \in Auth!Statuses, NEW until \in Nat,
           Auth!Store(d, status, until)
    PROVE  /\ waslRow' \in [Drivers -> CaptainRow]
           /\ waslRow'[d].wasl = status /\ waslRow'[d].until = until
           /\ \A e \in Drivers : waslRow'[e].told = waslRow[e].told
           /\ \A e \in Drivers \ {d} : waslRow'[e] = waslRow[e]
<1> DEFINE r == [waslRow[d] EXCEPT !.wasl = status, !.until = until]
<1>1. /\ r \in CaptainRow /\ r.wasl = status /\ r.until = until
      /\ r.told = waslRow[d].told
  BY DEF WaslTyped, CaptainRow
<1>2. waslRow' = [waslRow EXCEPT ![d] = r]
  BY DEF Auth!Store
<1> HIDE DEF r
<1> QED
  BY <1>1, <1>2 DEF WaslTyped

\* What a worker has seen of a captain.
LEMMA SawOf ==
    ASSUME WaslTyped, NEW w \in Workers, NEW d \in DOMAIN waslJob[w].saw
    PROVE  d \in Drivers /\ waslJob[w].saw[d] \in Seen
<1>1. waslJob[w].saw \in Saws
  BY DEF WaslTyped, WaslWork
<1>2. PICK S \in SUBSET Drivers : waslJob[w].saw \in [S -> Seen]
  BY <1>1 DEF Saws
<1> QED
  BY <1>2

\* A captain's status is one that WASL's decision bears, and so is what a worker is going
\* to store; a captain who has a status was decided.
Right(d) ==
    /\ waslRow[d].wasl # "PENDING" => decision[d].status # "PENDING"
    /\ Borne(waslRow[d].wasl, decision[d])
    /\ waslRow[d].wasl = "VALID" => waslRow[d].until = decision[d].until

Knows(w) ==
    waslJob[w].op = "decide" =>
        \A d \in waslJob[w].list :
            /\ d \in DOMAIN waslJob[w].saw
            /\ Borne(waslJob[w].saw[d].wasl, decision[d]) /\ decision[d].status # "PENDING"
            /\ waslJob[w].saw[d].until = decision[d].until

StatusInv ==
    /\ \A d \in Drivers \ unasked : Right(d)
    /\ \A w \in Workers : Knows(w)

\* A check that is under way today has on its list whom it has still to find.
EndedInv ==
    /\ checkedEnds => \A d \in Drivers \ changed : ~Auth!Ended(d)
    /\ \A w \in Workers : waslJob[w].day <= today
    /\ \A w \in Workers : waslJob[w].op = "expire" /\ waslJob[w].day = today =>
           \A d \in Drivers \ changed : Auth!Ended(d) => d \in waslJob[w].list

\* A worker reminds of the period that is next by the count until it has stored that,
\* and no two remind of the same.
Unwritten(w, d) == waslJob[w].op = "tell" /\ d \in waslJob[w].list

Ordered(d) ==
    \A w \in Reminding(d) :
        /\ Unwritten(w, d) => waslJob[w].saw[d].told = waslRow[d].told
        /\ ~Unwritten(w, d) => waslJob[w].saw[d].told < waslRow[d].told
        /\ \A v \in Reminding(d) \ {w} : waslJob[v].saw[d].told # waslJob[w].saw[d].told

Counted(d) ==
    \A k \in DOMAIN Periods :
        reminders[d][k] =
            IF k < waslRow[d].told /\ \A w \in Reminding(d) : waslJob[w].saw[d].told # k
            THEN 1 ELSE 0

TurnInv ==
    /\ \A w \in Workers : waslJob[w].op = "tell" => waslJob[w].list \subseteq DOMAIN waslJob[w].saw
    /\ \A d \in Drivers \ remindedTwice : Ordered(d)
    /\ \A d \in Drivers \ (remindedTwice \cup cutReminders) : Counted(d)

WaslInv == WaslTyped /\ StatusInv /\ EndedInv /\ TurnInv

\* Statuses stay WASL's when rows change by what it decided only.
LEMMA StatusStays ==
    ASSUME WaslTyped, StatusInv, unasked \subseteq unasked',
           \A d \in Drivers : decision'[d] = decision[d] \/ decision[d].status = "PENDING",
           \A d \in Drivers \ unasked' :
               \/ waslRow'[d].wasl = waslRow[d].wasl /\ waslRow'[d].until = waslRow[d].until
               \/ /\ Borne(waslRow'[d].wasl, decision[d]) /\ decision[d].status # "PENDING"
                  /\ waslRow'[d].wasl = "VALID" => waslRow'[d].until = decision[d].until,
           \A w \in Workers :
               \/ waslJob'[w].op # "decide"
               \/ /\ waslJob[w].op = "decide" /\ waslJob'[w].list \subseteq waslJob[w].list
                  /\ waslJob'[w].saw = waslJob[w].saw
    PROVE  StatusInv'
<1>1. ASSUME NEW d \in Drivers \ unasked'
      PROVE  Right(d)'
  <2>1. Right(d)
    BY DEF StatusInv
  <2>2. waslRow[d].wasl # "PENDING" => decision'[d] = decision[d]
    BY <2>1 DEF Right
  <2>3. waslRow'[d].wasl = "PENDING" => Borne(waslRow'[d].wasl, decision'[d])
    BY DEF Borne
  <2> QED
    BY <2>1, <2>2, <2>3 DEF Right, Borne
<1>2. ASSUME NEW w \in Workers
      PROVE  Knows(w)'
  <2>1. Knows(w)
    BY DEF StatusInv
  <2>2. waslJob[w].list \subseteq Drivers
    BY DEF WaslTyped, WaslWork
  <2> QED
    BY <2>1, <2>2 DEF Knows, Borne
<1> QED
  BY <1>1, <1>2 DEF StatusInv

\* Nobody's eligibility ends within a day, but by a change that is remembered.
LEMMA EndedStays ==
    ASSUME WaslTyped, EndedInv, today' = today, changed \subseteq changed',
           checkedEnds' => checkedEnds,
           \A d \in Drivers \ changed' :
               /\ waslRow'[d].approved => waslRow[d].approved
               /\ waslRow'[d].sub = waslRow[d].sub /\ waslRow'[d].wasl = waslRow[d].wasl
               /\ waslRow'[d].until = waslRow[d].until,
           \A w \in Workers :
               /\ waslJob'[w].day \in {0, today, waslJob[w].day}
               /\ waslJob'[w].op = "expire" => waslJob'[w] = waslJob[w]
    PROVE  EndedInv'
<1>1. ASSUME NEW d \in Drivers \ changed', Auth!Ended(d)'
      PROVE  Auth!Ended(d)
  BY <1>1 DEF Auth!Ended
<1>2. ASSUME NEW w \in Workers
      PROVE  waslJob'[w].day <= today'
  BY DEF WaslTyped, WaslWork, EndedInv
<1> QED
  BY <1>1, <1>2 DEF EndedInv

\* The reminders of a captain whom a step has nothing to do with.
LEMMA CaptainStays ==
    ASSUME NEW d \in Drivers, waslRow'[d].told = waslRow[d].told,
           reminders'[d] = reminders[d], DOMAIN waslJob' = DOMAIN waslJob,
           \A w \in DOMAIN waslJob :
               /\ w \in Reminding(d)' <=> w \in Reminding(d)
               /\ w \in Reminding(d) => /\ waslJob'[w].saw[d] = waslJob[w].saw[d]
                                        /\ Unwritten(w, d)' <=> Unwritten(w, d)
    PROVE  (Ordered(d) => Ordered(d)') /\ (Counted(d) => Counted(d)')
<1>1. Reminding(d)' = Reminding(d)
  BY DEF Reminding
<1>2. \A w \in Reminding(d) : /\ waslJob'[w].saw[d] = waslJob[w].saw[d]
                              /\ Unwritten(w, d)' <=> Unwritten(w, d)
  BY DEF Reminding
<1>3. Ordered(d) => Ordered(d)'
  BY <1>1, <1>2 DEF Ordered
<1>4. Counted(d) => Counted(d)'
  BY <1>1, <1>2 DEF Counted
<1> QED
  BY <1>3, <1>4

\* Reminders stay in turn when a step has to do with none.
LEMMA TurnStays ==
    ASSUME WaslTyped, TurnInv, waslJob' \in [Workers -> WaslWork],
           \A d \in Drivers : waslRow'[d].told = waslRow[d].told,
           reminders' = reminders, remindedTwice \subseteq remindedTwice',
           cutReminders \subseteq cutReminders',
           \A w \in Workers :
               waslJob[w].op \in {"tell", "send"} \/ waslJob'[w].op \in {"tell", "send"} =>
                   waslJob'[w] = waslJob[w]
    PROVE  TurnInv'
<1>1. DOMAIN waslJob = Workers /\ DOMAIN waslJob' = Workers
  BY DEF WaslTyped
<1>2. ASSUME NEW d \in Drivers
      PROVE  (Ordered(d) => Ordered(d)') /\ (Counted(d) => Counted(d)')
  <2>1. \A w \in DOMAIN waslJob :
           /\ w \in Reminding(d)' <=> w \in Reminding(d)
           /\ w \in Reminding(d) => /\ waslJob'[w].saw[d] = waslJob[w].saw[d]
                                    /\ Unwritten(w, d)' <=> Unwritten(w, d)
    BY <1>1 DEF Reminding, Unwritten
  <2> QED
    BY <1>1, <2>1, CaptainStays
<1>3. \A w \in Workers : waslJob'[w].op = "tell" =>
          waslJob'[w].list \subseteq DOMAIN waslJob'[w].saw
  BY DEF TurnInv
<1> QED
  BY <1>2, <1>3 DEF TurnInv

\* A worker that reads whom it will ask about, or whose status it will switch.
LEMMA ReadingKeeps ==
    ASSUME WaslInv, NEW w \in Workers, NEW op \in {"ask", "each", "switch"},
           NEW list \in SUBSET Drivers, NEW saw \in Saws, Auth!Begin(w, op, list, saw),
           UNCHANGED <<today, waslRow, decision, reminders, checkedEnds, changed, unasked,
                       remindedTwice, cutReminders>>
    PROVE  WaslInv'
<1>1. op \in WaslOps
  BY DEF WaslOps
<1>2. /\ waslJob' \in [Workers -> WaslWork]
      /\ waslJob[w].op = "none" /\ waslJob'[w].op = op /\ waslJob'[w].day = today
      /\ \A v \in Workers \ {w} : waslJob'[v] = waslJob[v]
  BY <1>1, WorkBegins DEF WaslInv
<1>3. WaslTyped'
  BY <1>2 DEF WaslInv, WaslTyped
<1>4. StatusInv'
  BY <1>2, StatusStays DEF WaslInv
<1>5. EndedInv'
  BY <1>2, EndedStays DEF WaslInv
<1>6. TurnInv'
  BY <1>2, TurnStays DEF WaslInv
<1> QED
  BY <1>3, <1>4, <1>5, <1>6 DEF WaslInv

\* WASL's answer, and what the worker keeps of it.
LEMMA AskAllKeeps ==
    ASSUME WaslInv, NEW w \in Workers, Auth!AskAll(w)
    PROVE  WaslInv'
<1> DEFINE decided == {d \in waslJob[w].list : decision[d].status # "PENDING"}
           found(d) == IF Auth!OneVehicleDoes(decision[d]) THEN "VALID" ELSE "INVALID"
           saw == [d \in decided |-> [Auth!News EXCEPT !.wasl = found(d),
                                                       !.until = decision[d].until]]
           j == [waslJob[w] EXCEPT !.op = "decide", !.list = decided, !.saw = saw]
<1>1. /\ waslJob[w].op = "ask"
      /\ UNCHANGED <<today, waslRow, decision, reminders, checkedEnds, changed, unasked,
                     remindedTwice, cutReminders>>
  BY DEF Auth!AskAll, Auth!At
<1>2. ASSUME waslJob' \in [Workers -> WaslWork], waslJob'[w].day \in {0, waslJob[w].day},
             waslJob'[w].op \in {"none", "decide"},
             \A v \in Workers \ {w} : waslJob'[v] = waslJob[v],
             \/ waslJob'[w].op = "none"
             \/ \A d \in waslJob'[w].list :
                   /\ d \in DOMAIN waslJob'[w].saw
                   /\ Borne(waslJob'[w].saw[d].wasl, decision[d])
                   /\ waslJob'[w].saw[d].until = decision[d].until
                   /\ decision[d].status # "PENDING"
      PROVE  WaslInv'
  <2>1. WaslTyped'
    BY <1>1, <1>2 DEF WaslInv, WaslTyped
  <2>2. \A v \in Workers : Knows(v)'
    BY <1>1, <1>2 DEF WaslInv, StatusInv, Knows, Borne
  <2>3. StatusInv'
    BY <1>1, <2>2 DEF WaslInv, StatusInv, Right, Borne
  <2>4. EndedInv'
    BY <1>1, <1>2, EndedStays DEF WaslInv
  <2>5. TurnInv'
    BY <1>1, <1>2, TurnStays DEF WaslInv
  <2> QED
    BY <2>1, <2>3, <2>4, <2>5 DEF WaslInv
<1>3. CASE Auth!Finish(w)
  BY <1>2, <1>3, WorkEnds DEF WaslInv
<1>4. CASE waslJob' = [waslJob EXCEPT ![w].op = "decide", ![w].list = decided, ![w].saw = saw]
  <2>1. decided \subseteq Drivers /\ decided \subseteq waslJob[w].list
    BY DEF WaslInv, WaslTyped, WaslWork
  <2>2. saw \in [decided -> Seen]
    BY <2>1 DEF WaslInv, WaslTyped, Verdict, Seen, Auth!News, Auth!Default, Auth!Statuses
  <2>3. saw \in Saws
    BY <2>1, <2>2 DEF Saws
  <2>4. \A d \in decided : /\ Borne(saw[d].wasl, decision[d])
                           /\ saw[d].until = decision[d].until
    <3>1. \A d \in decided : saw[d].wasl = found(d) /\ saw[d].until = decision[d].until
      BY DEF Auth!News
    <3>2. ASSUME NEW d \in decided
          PROVE  Borne(found(d), decision[d])
      <4>1. decision[d].status \in {"VALID", "INVALID"}
        BY <2>1 DEF WaslInv, WaslTyped, Verdict, Auth!Statuses
      <4> QED
        BY <4>1 DEF Borne, Auth!OneVehicleDoes
    <3> QED
      BY <3>1, <3>2
  <2>5. \A d \in decided : decision[d].status # "PENDING"
    OBVIOUS
  <2>6. /\ j \in WaslWork /\ j.op = "decide" /\ j.list = decided /\ j.saw = saw
        /\ j.day = waslJob[w].day
    BY <2>1, <2>3 DEF WaslInv, WaslTyped, WaslWork, WaslOps
  <2>7. waslJob' = [waslJob EXCEPT ![w] = j]
    BY <1>4
  <2>8. DOMAIN saw = decided
    OBVIOUS
  <2> HIDE DEF j, saw, decided
  <2>9. /\ waslJob'[w] = j /\ waslJob' \in [Workers -> WaslWork]
        /\ \A v \in Workers \ {w} : waslJob'[v] = waslJob[v]
    BY <2>6, <2>7 DEF WaslInv, WaslTyped
  <2> QED
    BY <1>2, <2>4, <2>5, <2>6, <2>8, <2>9
<1> QED
  BY <1>3, <1>4 DEF Auth!AskAll

\* What a worker stores of a captain, when it is what WASL decided or remembered else.
LEMMA StoringKeeps ==
    ASSUME WaslInv, NEW w \in Workers, NEW d \in waslJob[w].list,
           NEW status \in Auth!Statuses, NEW until \in Nat, Auth!Store(d, status, until),
           Auth!Next1(w, d), waslJob[w].op \in {"decide", "each"},
           changed' = changed \cup {d}, unasked \subseteq unasked',
           \/ d \in unasked'
           \/ /\ Borne(status, decision[d]) /\ decision[d].status # "PENDING"
              /\ status = "VALID" => until = decision[d].until,
           UNCHANGED <<today, decision, reminders, checkedEnds, remindedTwice, cutReminders>>
    PROVE  WaslInv'
<1>1. d \in Drivers
  BY DEF WaslInv, WaslTyped, WaslWork
<1>2. /\ waslRow' \in [Drivers -> CaptainRow]
      /\ waslRow'[d].wasl = status /\ waslRow'[d].until = until
      /\ \A e \in Drivers : waslRow'[e].told = waslRow[e].told
      /\ \A e \in Drivers \ {d} : waslRow'[e] = waslRow[e]
  BY <1>1, RowStored DEF WaslInv
<1>3. /\ waslJob' \in [Workers -> WaslWork]
      /\ \/ waslJob'[w].op = "none" /\ waslJob'[w].day = 0
         \/ /\ waslJob'[w].op = waslJob[w].op /\ waslJob'[w].day = waslJob[w].day
            /\ waslJob'[w].saw = waslJob[w].saw
            /\ waslJob'[w].list = waslJob[w].list \ {d}
      /\ \A v \in Workers \ {w} : waslJob'[v] = waslJob[v]
  BY <1>1, WorkGoesOn DEF WaslInv
<1>4. WaslTyped'
  BY <1>2, <1>3 DEF WaslInv, WaslTyped
<1>5. StatusInv'
  <2>1. ASSUME NEW v \in Workers
        PROVE  \/ waslJob'[v].op # "decide"
               \/ /\ waslJob[v].op = "decide" /\ waslJob'[v].list \subseteq waslJob[v].list
                  /\ waslJob'[v].saw = waslJob[v].saw
    BY <1>3
  <2> QED
    BY <1>2, <2>1, StatusStays DEF WaslInv
<1>6. EndedInv'
  BY <1>2, <1>3, EndedStays DEF WaslInv
<1>7. TurnInv'
  BY <1>2, <1>3, TurnStays DEF WaslInv
<1> QED
  BY <1>4, <1>5, <1>6, <1>7 DEF WaslInv

\* What is stored of those whom the job asked about is borne by WASL's decisions.
LEMMA WriteDecisionKeeps ==
    ASSUME WaslInv, NEW w \in Workers, Auth!WriteDecision(w)
    PROVE  WaslInv'
<1>0. PICK d \in waslJob[w].list :
         /\ waslJob[w].op = "decide" /\ Auth!Next1(w, d)
         /\ Auth!Store(d, waslJob[w].saw[d].wasl,
                       IF waslJob[w].saw[d].wasl = "VALID" THEN waslJob[w].saw[d].until
                       ELSE waslRow[d].until)
         /\ changed' = changed \cup {d}
         /\ UNCHANGED <<today, decision, reminders, checkedEnds, unasked, remindedTwice,
                        cutReminders>>
  BY DEF Auth!WriteDecision, Auth!At
<1>1. PICK status, until :
         /\ waslJob[w].op = "decide" /\ Auth!Next1(w, d)
         /\ status = waslJob[w].saw[d].wasl
         /\ until = IF status = "VALID" THEN waslJob[w].saw[d].until ELSE waslRow[d].until
         /\ Auth!Store(d, status, until)
         /\ changed' = changed \cup {d}
         /\ UNCHANGED <<today, decision, reminders, checkedEnds, unasked, remindedTwice,
                        cutReminders>>
  BY <1>0
<1>2. /\ d \in DOMAIN waslJob[w].saw /\ Borne(status, decision[d])
      /\ decision[d].status # "PENDING"
      /\ waslJob[w].saw[d].until = decision[d].until
  BY <1>1 DEF WaslInv, StatusInv, Knows
<1>3. status \in Auth!Statuses /\ until \in Nat
  BY <1>1, <1>2, SawOf DEF WaslInv, WaslTyped, CaptainRow, Seen
<1> QED
  BY <1>1, <1>2, <1>3, StoringKeeps

\* One by one, WASL's decision is stored, or one that is not WASL's and remembered so.
LEMMA OneByOneKeeps ==
    ASSUME WaslInv, NEW w \in Workers, Auth!OneByOne(w)
    PROVE  WaslInv'
<1>0. PICK d \in waslJob[w].list :
         LET c == decision[d] IN
         /\ waslJob[w].op = "each" /\ Auth!Next1(w, d)
         /\ Auth!Store(d, IF Auth!NoneRefused(c) THEN "VALID" ELSE "INVALID",
                       IF c.status = "VALID" THEN c.until ELSE waslRow[d].until)
         /\ unasked' = IF c.status = "PENDING" THEN unasked \cup {d} ELSE unasked
         /\ changed' = changed \cup {d}
         /\ UNCHANGED <<today, decision, reminders, checkedEnds, remindedTwice, cutReminders>>
  BY DEF Auth!OneByOne, Auth!At
<1>1. PICK status, until :
         /\ waslJob[w].op = "each" /\ Auth!Next1(w, d)
         /\ status = IF Auth!NoneRefused(decision[d]) THEN "VALID" ELSE "INVALID"
         /\ until = IF decision[d].status = "VALID" THEN decision[d].until
                    ELSE waslRow[d].until
         /\ Auth!Store(d, status, until)
         /\ unasked' = IF decision[d].status = "PENDING" THEN unasked \cup {d} ELSE unasked
         /\ changed' = changed \cup {d}
         /\ UNCHANGED <<today, decision, reminders, checkedEnds, remindedTwice, cutReminders>>
  BY <1>0
<1>2. d \in Drivers
  BY DEF WaslInv, WaslTyped, WaslWork
<1>3. /\ waslRow[d].until \in Nat /\ decision[d].until \in Nat
      /\ decision[d].status \in Auth!Statuses
  BY <1>2 DEF WaslInv, WaslTyped, CaptainRow, Verdict
<1>4. status \in Auth!Statuses /\ until \in Nat
  BY <1>1, <1>3 DEF Auth!Statuses
<1>5. CASE decision[d].status = "PENDING"
  BY <1>1, <1>4, <1>5, StoringKeeps
<1>6. CASE decision[d].status # "PENDING"
  <2>1. Borne(status, decision[d]) /\ (status = "VALID" => decision[d].status = "VALID")
    BY <1>1, <1>3, <1>6 DEF Borne, Auth!NoneRefused, Auth!Statuses
  <2> QED
    BY <1>1, <1>4, <1>6, <2>1, StoringKeeps
<1> QED
  BY <1>5, <1>6

\* A switch by an administrator is remembered.
LEMMA WriteStatusKeeps ==
    ASSUME WaslInv, NEW w \in Workers, Auth!WriteStatus(w)
    PROVE  WaslInv'
<1>1. PICK d \in waslJob[w].list, status \in {"VALID", "PENDING"} :
         /\ waslJob[w].op = "switch" /\ Auth!Finish(w)
         /\ waslRow' = [waslRow EXCEPT ![d].wasl = status]
         /\ changed' = changed \cup {d} /\ unasked' = unasked \cup {d}
         /\ UNCHANGED <<today, decision, reminders, checkedEnds, remindedTwice, cutReminders>>
  BY DEF Auth!WriteStatus, Auth!At
<1>2. d \in Drivers
  BY DEF WaslInv, WaslTyped, WaslWork
<1>3. /\ waslRow' \in [Drivers -> CaptainRow]
      /\ \A e \in Drivers : waslRow'[e].told = waslRow[e].told
      /\ \A e \in Drivers \ {d} : waslRow'[e] = waslRow[e]
  BY <1>1, <1>2 DEF WaslInv, WaslTyped, CaptainRow, Auth!Statuses
<1>4. /\ waslJob' \in [Workers -> WaslWork]
      /\ waslJob'[w].op = "none" /\ waslJob'[w].day = 0
      /\ \A v \in Workers \ {w} : waslJob'[v] = waslJob[v]
  BY <1>1, WorkEnds DEF WaslInv
<1>5. WaslTyped'
  BY <1>1, <1>3, <1>4 DEF WaslInv, WaslTyped
<1>6. StatusInv'
  BY <1>1, <1>3, <1>4, StatusStays DEF WaslInv
<1>7. EndedInv'
  BY <1>1, <1>3, <1>4, EndedStays DEF WaslInv
<1>8. TurnInv'
  BY <1>1, <1>3, <1>4, TurnStays DEF WaslInv
<1> QED
  BY <1>5, <1>6, <1>7, <1>8 DEF WaslInv

\* The handlers that remind a captain, as Wasl and Eligibility say it.
LEMMA SameReminding ==
    ASSUME NEW d
    PROVE  Auth!Reminding(d) = Reminding(d)
BY DEF Auth!Reminding, Reminding

\* Those a worker finds due get in line behind the reminders that are under way, or are
\* remembered.
LEMMA FindDueKeeps ==
    ASSUME WaslInv, Auth!Calendar, NEW w \in Workers, Auth!FindDue(w)
    PROVE  WaslInv'
<1> DEFINE due == {d \in Drivers : Auth!Due(d)}
           saw == [d \in due |-> [Auth!News EXCEPT !.told = waslRow[d].told]]
<1>1. /\ UNCHANGED <<today, waslRow, decision, reminders, checkedEnds, changed, unasked,
                     cutReminders>>
      /\ remindedTwice' = remindedTwice \cup
             {d \in due : \E v \in Reminding(d) : waslJob[v].saw[d].told = waslRow[d].told}
      /\ IF due = {} THEN UNCHANGED waslJob ELSE Auth!Begin(w, "tell", due, saw)
  BY SameReminding DEF Auth!FindDue
<1>2. CASE due = {}
  BY <1>1, <1>2, StatusStays, EndedStays, TurnStays DEF WaslInv, WaslTyped
<1>3. CASE due # {}
  <2>1. saw \in [due -> Seen] /\ due \subseteq Drivers
    BY DEF WaslInv, WaslTyped, CaptainRow, Seen, Auth!News, Auth!Default, Auth!Statuses
  <2>2. saw \in Saws /\ DOMAIN saw = due
    BY <2>1 DEF Saws
  <2>3. \A d \in due : saw[d].told = waslRow[d].told
    BY DEF Auth!News
  <2>4. "tell" \in WaslOps /\ Auth!Begin(w, "tell", due, saw)
    BY <1>1, <1>3 DEF WaslOps
  <2> HIDE DEF saw
  <2>5. /\ waslJob' \in [Workers -> WaslWork]
        /\ waslJob[w].op = "none" /\ waslJob'[w].day = today
        /\ waslJob'[w].op = "tell" /\ waslJob'[w].list = due /\ waslJob'[w].saw = saw
        /\ \A v \in Workers \ {w} : waslJob'[v] = waslJob[v]
    BY <2>1, <2>2, <2>4, WorkBegins DEF WaslInv
  <2> HIDE DEF due
  <2>6. DOMAIN waslJob = Workers /\ DOMAIN waslJob' = Workers
    BY <2>5 DEF WaslInv, WaslTyped
  <2>7. WaslTyped' /\ StatusInv' /\ EndedInv'
    BY <1>1, <2>5, StatusStays, EndedStays DEF WaslInv, WaslTyped
  <2>8. ASSUME NEW d \in Drivers, d \notin due
        PROVE  (Ordered(d) => Ordered(d)') /\ (Counted(d) => Counted(d)')
    <3>1. \A v \in DOMAIN waslJob :
             /\ v \in Reminding(d)' <=> v \in Reminding(d)
             /\ v \in Reminding(d) => /\ waslJob'[v].saw[d] = waslJob[v].saw[d]
                                      /\ Unwritten(v, d)' <=> Unwritten(v, d)
      BY <2>2, <2>5, <2>6, <2>8 DEF Reminding, Unwritten
    <3> QED
      BY <1>1, <2>6, <3>1, CaptainStays
  <2>9. ASSUME NEW d \in due, d \notin remindedTwice', Ordered(d)
        PROVE  Ordered(d)' /\ (Counted(d) => Counted(d)')
    <3>1. Reminding(d)' = Reminding(d) \cup {w} /\ w \notin Reminding(d)
      BY <2>2, <2>5, <2>6 DEF Reminding
    <3>2. \A v \in Reminding(d) : /\ v \in Workers \ {w} /\ waslJob'[v] = waslJob[v]
                                  /\ waslJob[v].saw[d].told # waslRow[d].told
      BY <1>1, <2>5, <2>6, <2>9, <3>1 DEF Reminding
    <3>3. Unwritten(w, d)' /\ waslJob'[w].saw[d].told = waslRow[d].told
      BY <2>3, <2>5 DEF Unwritten
    <3>4. \A v \in Reminding(d) : Unwritten(v, d)' <=> Unwritten(v, d)
      BY <3>2 DEF Unwritten
    <3>5. Ordered(d)'
      BY <1>1, <2>9, <3>1, <3>2, <3>3, <3>4 DEF Ordered
    <3>6. Counted(d) => Counted(d)'
      <4>1. \A k \in DOMAIN Periods : k < waslRow[d].told => waslRow[d].told # k
        BY <2>1 DEF WaslInv, WaslTyped, CaptainRow, Auth!Calendar
      <4> QED
        BY <1>1, <3>1, <3>2, <3>3, <4>1 DEF Counted
    <3> QED
      BY <3>5, <3>6
  <2>10. TurnInv'
    <3>1. \A v \in Workers : waslJob'[v].op = "tell" =>
              waslJob'[v].list \subseteq DOMAIN waslJob'[v].saw
      BY <2>2, <2>5 DEF WaslInv, TurnInv
    <3> QED
      BY <1>1, <2>8, <2>9, <3>1 DEF WaslInv, TurnInv
  <2> QED
    BY <2>7, <2>10 DEF WaslInv
<1> QED
  BY <1>2, <1>3

\* The count is stored: the reminder of that period is to be sent.
LEMMA WriteToldKeeps ==
    ASSUME WaslInv, Auth!Calendar, NEW w \in Workers, Auth!WriteTold(w)
    PROVE  WaslInv'
<1>1. PICK d \in waslJob[w].list :
         /\ waslJob[w].op = "tell"
         /\ waslRow' = [waslRow EXCEPT ![d].told = waslJob[w].saw[d].told + 1]
         /\ waslJob' = [waslJob EXCEPT
                ![w].list = @ \ {d},
                ![w].op = IF waslJob[w].list = {d} THEN "send" ELSE @]
         /\ UNCHANGED <<today, decision, reminders, checkedEnds, changed, unasked,
                        remindedTwice, cutReminders>>
  BY DEF Auth!WriteTold, Auth!At
<1>2. d \in Drivers /\ waslJob[w].list \subseteq DOMAIN waslJob[w].saw
  BY <1>1 DEF WaslInv, WaslTyped, WaslWork, TurnInv
<1>3. waslJob[w].saw[d].told \in Nat /\ waslJob[w].saw[d].told + 1 \in Nat
  BY <1>2, SawOf DEF WaslInv, Seen
<1> DEFINE n == waslJob[w].saw[d].told + 1
           r == [waslRow[d] EXCEPT !.told = n]
           j == [waslJob[w] EXCEPT !.list = @ \ {d},
                                   !.op = IF waslJob[w].list = {d} THEN "send" ELSE @]
<1>4. /\ waslRow' \in [Drivers -> CaptainRow] /\ waslRow'[d].told = n
      /\ \A e \in Drivers \ {d} : waslRow'[e] = waslRow[e]
      /\ \A e \in Drivers : /\ waslRow'[e].wasl = waslRow[e].wasl
                            /\ waslRow'[e].until = waslRow[e].until
                            /\ waslRow'[e].sub = waslRow[e].sub
                            /\ waslRow'[e].approved = waslRow[e].approved
  <2> HIDE DEF n
  <2>1. /\ r \in CaptainRow /\ r.told = n /\ r.wasl = waslRow[d].wasl
        /\ r.until = waslRow[d].until /\ r.sub = waslRow[d].sub
        /\ r.approved = waslRow[d].approved
    BY <1>2, <1>3 DEF WaslInv, WaslTyped, CaptainRow, n
  <2>2. waslRow' = [waslRow EXCEPT ![d] = r]
    BY <1>1 DEF n
  <2> HIDE DEF r
  <2> QED
    BY <1>2, <2>1, <2>2 DEF WaslInv, WaslTyped
<1>5. /\ waslJob' \in [Workers -> WaslWork]
      /\ waslJob'[w].list = waslJob[w].list \ {d} /\ waslJob'[w].saw = waslJob[w].saw
      /\ waslJob'[w].day = waslJob[w].day
      /\ waslJob'[w].op = IF waslJob[w].list = {d} THEN "send" ELSE "tell"
      /\ \A v \in Workers \ {w} : waslJob'[v] = waslJob[v]
  <2>1. /\ j \in WaslWork /\ j.list = waslJob[w].list \ {d} /\ j.saw = waslJob[w].saw
        /\ j.day = waslJob[w].day /\ j.op = IF waslJob[w].list = {d} THEN "send" ELSE "tell"
    BY <1>1 DEF WaslInv, WaslTyped, WaslWork, WaslOps
  <2>2. waslJob' = [waslJob EXCEPT ![w] = j]
    BY <1>1
  <2> HIDE DEF j
  <2> QED
    BY <2>1, <2>2 DEF WaslInv, WaslTyped
<1> HIDE DEF n
<1>6. DOMAIN waslJob = Workers /\ DOMAIN waslJob' = Workers
  BY <1>5 DEF WaslInv, WaslTyped
<1>7. WaslTyped' /\ StatusInv' /\ EndedInv'
  BY <1>1, <1>4, <1>5, StatusStays, EndedStays DEF WaslInv, WaslTyped
<1>8. \A e : Reminding(e)' = Reminding(e)
  BY <1>1, <1>5, <1>6 DEF Reminding
<1>9. ASSUME NEW e \in Drivers \ {d}
      PROVE  (Ordered(e) => Ordered(e)') /\ (Counted(e) => Counted(e)')
  <2>1. \A v \in DOMAIN waslJob :
           /\ v \in Reminding(e)' <=> v \in Reminding(e)
           /\ v \in Reminding(e) => /\ waslJob'[v].saw[e] = waslJob[v].saw[e]
                                    /\ Unwritten(v, e)' <=> Unwritten(v, e)
    BY <1>1, <1>5, <1>6, <1>8 DEF Unwritten
  <2> QED
    BY <1>1, <1>4, <1>6, <2>1, CaptainStays
<1>10. ASSUME Ordered(d)
       PROVE  Ordered(d)' /\ (Counted(d) => Counted(d)')
  <2>1. w \in Reminding(d) /\ Unwritten(w, d) /\ ~Unwritten(w, d)'
    BY <1>1, <1>2, <1>5, <1>6 DEF Reminding, Unwritten
  <2>2. waslRow[d].told = waslJob[w].saw[d].told
    BY <1>10, <2>1 DEF Ordered
  <2>3. \A v \in Reminding(d) : /\ v \in Workers /\ waslJob'[v].saw[d] = waslJob[v].saw[d]
                                /\ waslJob[v].saw[d].told \in Nat
    <3>1. ASSUME NEW v \in Reminding(d)
          PROVE  v \in Workers /\ d \in DOMAIN waslJob[v].saw
      BY <1>6 DEF Reminding
    <3> QED
      BY <1>5, <3>1, SawOf DEF WaslInv, Seen
  <2>4. \A v \in Reminding(d) \ {w} : /\ ~Unwritten(v, d) /\ ~Unwritten(v, d)'
                                      /\ waslJob[v].saw[d].told < waslRow[d].told
    <3>1. \A v \in Reminding(d) \ {w} : waslJob[v].saw[d].told # waslRow[d].told
      BY <1>10, <2>1, <2>2 DEF Ordered
    <3>2. \A v \in Reminding(d) \ {w} : ~Unwritten(v, d)
      BY <1>10, <3>1 DEF Ordered
    <3>3. \A v \in Reminding(d) \ {w} : ~Unwritten(v, d)'
      BY <1>5, <2>3, <3>2 DEF Unwritten
    <3> QED
      BY <1>10, <3>2, <3>3 DEF Ordered
  <2>5. \A v \in Reminding(d) : waslJob[v].saw[d].told < waslRow'[d].told
    BY <1>2, <1>3, <1>4, <2>2, <2>3, <2>4 DEF n
  <2>6. Ordered(d)'
    BY <1>8, <1>10, <2>1, <2>3, <2>4, <2>5 DEF Ordered
  <2>7. ASSUME Counted(d), NEW k \in DOMAIN Periods
        PROVE  reminders'[d][k] = IF k < waslRow'[d].told
                                     /\ \A v \in Reminding(d) : waslJob'[v].saw[d].told # k
                                  THEN 1 ELSE 0
    <3>1. k \in Nat
      BY DEF Auth!Calendar
    <3>2. k < waslRow'[d].told <=> k < waslRow[d].told \/ k = waslRow[d].told
      BY <1>3, <1>4, <2>2, <3>1 DEF n
    <3>3. ~(waslRow[d].told < waslRow[d].told)
      BY <1>3, <2>2
    <3> QED
      BY <1>1, <2>1, <2>2, <2>3, <2>7, <3>2, <3>3 DEF Counted
  <2> QED
    BY <1>8, <2>6, <2>7 DEF Counted
<1>11. TurnInv'
  <2>1. \A v \in Workers : waslJob'[v].op = "tell" =>
            waslJob'[v].list \subseteq DOMAIN waslJob'[v].saw
    BY <1>2, <1>5 DEF WaslInv, TurnInv
  <2> QED
    BY <1>1, <1>2, <1>9, <1>10, <2>1 DEF WaslInv, TurnInv
<1> QED
  BY <1>7, <1>11 DEF WaslInv

\* The reminder is sent: the worker counted it as under way, now it is counted as had.
LEMMA RemindKeeps ==
    ASSUME WaslInv, NEW w \in Workers, Auth!Remind(w)
    PROVE  WaslInv'
<1>1. /\ waslJob[w].op = "send" /\ Auth!Finish(w)
      /\ reminders' = [d \in Drivers |-> [k \in DOMAIN Periods |->
             reminders[d][k] + (IF d \in DOMAIN waslJob[w].saw /\ waslJob[w].saw[d].told = k
                                THEN 1 ELSE 0)]]
      /\ UNCHANGED <<today, waslRow, decision, checkedEnds, changed, unasked, remindedTwice,
                     cutReminders>>
  BY DEF Auth!Remind, Auth!At
<1>2. /\ waslJob' \in [Workers -> WaslWork]
      /\ waslJob'[w].op = "none" /\ waslJob'[w].day = 0
      /\ \A v \in Workers \ {w} : waslJob'[v] = waslJob[v]
  BY <1>1, WorkEnds DEF WaslInv
<1>3. DOMAIN waslJob = Workers /\ DOMAIN waslJob' = Workers
  BY <1>2 DEF WaslInv, WaslTyped
<1>4. reminders' \in [Drivers -> [DOMAIN Periods -> Nat]]
  <2>1. \A d \in Drivers : \A k \in DOMAIN Periods :
            /\ reminders[d][k] \in Nat
            /\ reminders[d][k] + 0 \in Nat /\ reminders[d][k] + 1 \in Nat
    BY DEF WaslInv, WaslTyped
  <2> QED
    BY <1>1, <2>1
<1>5. WaslTyped'
  BY <1>1, <1>2, <1>4 DEF WaslInv, WaslTyped
<1>6. StatusInv' /\ EndedInv'
  BY <1>1, <1>2, StatusStays, EndedStays DEF WaslInv
<1>7. ASSUME NEW d \in Drivers, d \notin DOMAIN waslJob[w].saw
      PROVE  (Ordered(d) => Ordered(d)') /\ (Counted(d) => Counted(d)')
  <2>1. \A v \in DOMAIN waslJob :
           /\ v \in Reminding(d)' <=> v \in Reminding(d)
           /\ v \in Reminding(d) => /\ waslJob'[v].saw[d] = waslJob[v].saw[d]
                                    /\ Unwritten(v, d)' <=> Unwritten(v, d)
    BY <1>1, <1>2, <1>3, <1>7 DEF Reminding, Unwritten
  <2>2. reminders'[d] = reminders[d]
    BY <1>1, <1>7 DEF WaslInv, WaslTyped
  <2> QED
    BY <1>1, <1>3, <2>1, <2>2, CaptainStays
<1>8. ASSUME NEW d \in Drivers, d \in DOMAIN waslJob[w].saw, Ordered(d)
      PROVE  Ordered(d)' /\ (Counted(d) => Counted(d)')
  <2>1. w \in Reminding(d) /\ ~Unwritten(w, d)
    BY <1>1, <1>3, <1>8 DEF Reminding, Unwritten
  <2>2. Reminding(d)' = Reminding(d) \ {w}
    BY <1>2, <1>3 DEF Reminding
  <2>3. \A v \in Reminding(d) \ {w} : /\ v \in Workers /\ waslJob'[v] = waslJob[v]
                                      /\ Unwritten(v, d)' <=> Unwritten(v, d)
    BY <1>2, <1>3 DEF Reminding, Unwritten
  <2>4. Ordered(d)'
    BY <1>1, <1>8, <2>2, <2>3 DEF Ordered
  <2>5. /\ waslJob[w].saw[d].told < waslRow[d].told
        /\ \A v \in Reminding(d) \ {w} : waslJob[v].saw[d].told # waslJob[w].saw[d].told
    BY <1>8, <2>1 DEF Ordered
  <2>6. ASSUME Counted(d), NEW k \in DOMAIN Periods
        PROVE  reminders'[d][k] = IF k < waslRow'[d].told
                                     /\ \A v \in Reminding(d)' : waslJob'[v].saw[d].told # k
                                  THEN 1 ELSE 0
    <3>1. CASE waslJob[w].saw[d].told = k
      <4>1. reminders[d][k] = 0
        BY <2>1, <2>6, <3>1 DEF Counted
      <4>2. reminders'[d][k] = 1
        BY <1>1, <1>8, <3>1, <4>1
      <4> QED
        BY <1>1, <2>2, <2>3, <2>5, <3>1, <4>2
    <3>2. CASE waslJob[w].saw[d].told # k
      <4>1. reminders'[d][k] = reminders[d][k]
        BY <1>1, <3>2 DEF WaslInv, WaslTyped
      <4> QED
        BY <1>1, <2>1, <2>2, <2>3, <2>6, <3>2, <4>1 DEF Counted
    <3> QED
      BY <3>1, <3>2
  <2> QED
    BY <2>4, <2>6 DEF Counted
<1>9. TurnInv'
  <2>1. \A v \in Workers : waslJob'[v].op = "tell" =>
            waslJob'[v].list \subseteq DOMAIN waslJob'[v].saw
    BY <1>2 DEF WaslInv, TurnInv
  <2> QED
    BY <1>1, <1>7, <1>8, <2>1 DEF WaslInv, TurnInv
<1> QED
  BY <1>5, <1>6, <1>9 DEF WaslInv

\* A failure leaves out whose reminder is counted and not sent, and they are remembered.
LEMMA FailKeeps ==
    ASSUME WaslInv, NEW w \in Workers, Auth!Fail(w)
    PROVE  WaslInv'
<1>1. /\ Auth!Finish(w)
      /\ cutReminders' = cutReminders \cup
             IF waslJob[w].op \in {"tell", "send"}
             THEN {d \in DOMAIN waslJob[w].saw : waslRow[d].told > waslJob[w].saw[d].told}
             ELSE {}
      /\ UNCHANGED <<today, waslRow, decision, reminders, checkedEnds, changed, unasked,
                     remindedTwice>>
  BY DEF Auth!Fail, Auth!At
<1>2. /\ waslJob' \in [Workers -> WaslWork]
      /\ waslJob'[w].op = "none" /\ waslJob'[w].day = 0
      /\ \A v \in Workers \ {w} : waslJob'[v] = waslJob[v]
  BY <1>1, WorkEnds DEF WaslInv
<1>3. DOMAIN waslJob = Workers /\ DOMAIN waslJob' = Workers
  BY <1>2 DEF WaslInv, WaslTyped
<1>4. WaslTyped'
  BY <1>1, <1>2 DEF WaslInv, WaslTyped
<1>5. StatusInv' /\ EndedInv'
  BY <1>1, <1>2, StatusStays, EndedStays DEF WaslInv
<1>6. ASSUME NEW d \in Drivers
      PROVE  /\ Reminding(d)' = Reminding(d) \ {w}
             /\ \A v \in Reminding(d) \ {w} : /\ waslJob'[v] = waslJob[v]
                                              /\ Unwritten(v, d)' <=> Unwritten(v, d)
  BY <1>2, <1>3 DEF Reminding, Unwritten
<1>7. \A d \in Drivers : Ordered(d) => Ordered(d)'
  BY <1>1, <1>6 DEF Ordered
<1>8. ASSUME NEW d \in Drivers, d \notin cutReminders', Ordered(d), Counted(d)
      PROVE  Counted(d)'
  <2>1. CASE w \notin Reminding(d)
    BY <1>1, <1>6, <1>8, <2>1 DEF Counted
  <2>2. CASE w \in Reminding(d)
    <3>1. d \in DOMAIN waslJob[w].saw /\ waslJob[w].op \in {"tell", "send"}
      BY <2>2 DEF Reminding
    <3>2. /\ waslJob[w].saw[d].told \in Nat /\ waslRow[d].told \in Nat
          /\ ~(waslRow[d].told > waslJob[w].saw[d].told)
      BY <1>1, <1>8, <3>1, SawOf DEF WaslInv, WaslTyped, CaptainRow, Seen
    <3>3. ~(waslJob[w].saw[d].told < waslRow[d].told)
      BY <3>2
    <3>4. waslJob[w].saw[d].told = waslRow[d].told
      BY <1>8, <2>2, <3>3 DEF Ordered
    <3>5. \A k \in DOMAIN Periods : k < waslRow[d].told => waslJob[w].saw[d].told # k
      BY <3>2, <3>3
    <3> QED
      BY <1>1, <1>6, <1>8, <2>2, <3>5 DEF Counted
  <2> QED
    BY <2>1, <2>2
<1>9. TurnInv'
  <2>1. \A v \in Workers : waslJob'[v].op = "tell" =>
            waslJob'[v].list \subseteq DOMAIN waslJob'[v].saw
    BY <1>2 DEF WaslInv, TurnInv
  <2> QED
    BY <1>1, <1>7, <1>8, <2>1 DEF WaslInv, TurnInv
<1> QED
  BY <1>4, <1>5, <1>9 DEF WaslInv

\* Once the check has found nobody, there is nobody; else those that it found are on its
\* list.
LEMMA FindEndedKeeps ==
    ASSUME WaslInv, NEW w \in Workers, Auth!FindEnded(w)
    PROVE  WaslInv'
<1> DEFINE ended == {d \in Drivers : Auth!Ended(d)}
<1>1. /\ UNCHANGED <<today, waslRow, decision, reminders, changed, unasked, remindedTwice,
                     cutReminders>>
      /\ IF ended = {} THEN checkedEnds' = TRUE /\ UNCHANGED waslJob
         ELSE Auth!Begin(w, "expire", ended, << >>) /\ UNCHANGED checkedEnds
  BY DEF Auth!FindEnded
<1>2. \A d : Auth!Ended(d)' = Auth!Ended(d)
  BY <1>1 DEF Auth!Ended
<1>3. CASE ended = {}
  <2>1. checkedEnds' \in BOOLEAN
    BY <1>1, <1>3
  <2>2. WaslTyped'
    BY <1>1, <1>3, <2>1 DEF WaslInv, WaslTyped
  <2>3. StatusInv' /\ TurnInv'
    BY <1>1, <1>3, StatusStays, TurnStays DEF WaslInv, WaslTyped
  <2>4. EndedInv'
    BY <1>1, <1>2, <1>3 DEF WaslInv, EndedInv
  <2> QED
    BY <2>2, <2>3, <2>4 DEF WaslInv
<1>4. CASE ended # {}
  <2>1. << >> \in Saws
    BY IdleIsWork DEF Auth!Idle, WaslWork
  <2>2. ended \in SUBSET Drivers /\ "expire" \in WaslOps
    BY DEF WaslOps
  <2>3. \A d \in Drivers : Auth!Ended(d) => d \in ended
    OBVIOUS
  <2>4. Auth!Begin(w, "expire", ended, << >>) /\ checkedEnds' = checkedEnds
    BY <1>1, <1>4
  <2> HIDE DEF ended
  <2>5. /\ waslJob' \in [Workers -> WaslWork]
        /\ waslJob[w].op = "none" /\ waslJob'[w].day = today
        /\ waslJob'[w].op = "expire" /\ waslJob'[w].list = ended
        /\ \A v \in Workers \ {w} : waslJob'[v] = waslJob[v]
    BY <2>1, <2>2, <2>4, WorkBegins DEF WaslInv
  <2>6. WaslTyped' /\ StatusInv' /\ TurnInv'
    BY <1>1, <2>4, <2>5, StatusStays, TurnStays DEF WaslInv, WaslTyped
  <2>7. \A v \in Workers : waslJob'[v].day <= today'
    BY <1>1, <2>5 DEF WaslInv, WaslTyped, EndedInv
  <2>8. EndedInv'
    BY <1>1, <1>2, <2>3, <2>4, <2>5, <2>7 DEF WaslInv, EndedInv
  <2> QED
    BY <2>6, <2>8 DEF WaslInv
<1> QED
  BY <1>3, <1>4

\* Those on the list lose the approval: when it is today's, none is left whose
\* eligibility has ended.
LEMMA WriteEndedKeeps ==
    ASSUME WaslInv, NEW w \in Workers, Auth!WriteEnded(w)
    PROVE  WaslInv'
<1>1. /\ waslJob[w].op = "expire" /\ Auth!Finish(w)
      /\ waslRow' = [d \in Drivers |-> IF d \in waslJob[w].list
                                       THEN [waslRow[d] EXCEPT !.approved = FALSE]
                                       ELSE waslRow[d]]
      /\ checkedEnds' = (checkedEnds \/ waslJob[w].day = today)
      /\ UNCHANGED <<today, decision, reminders, changed, unasked, remindedTwice,
                     cutReminders>>
  BY DEF Auth!WriteEnded, Auth!At
<1>2. /\ waslJob' \in [Workers -> WaslWork]
      /\ waslJob'[w].op = "none" /\ waslJob'[w].day = 0
      /\ \A v \in Workers \ {w} : waslJob'[v] = waslJob[v]
  BY <1>1, WorkEnds DEF WaslInv
<1>3. ASSUME NEW d \in Drivers
      PROVE  /\ waslRow'[d] \in CaptainRow
             /\ waslRow'[d].wasl = waslRow[d].wasl /\ waslRow'[d].until = waslRow[d].until
             /\ waslRow'[d].told = waslRow[d].told /\ waslRow'[d].sub = waslRow[d].sub
             /\ waslRow'[d].approved => waslRow[d].approved /\ d \notin waslJob[w].list
  BY <1>1 DEF WaslInv, WaslTyped, CaptainRow
<1>4. waslRow' \in [Drivers -> CaptainRow]
  BY <1>1, <1>3
<1>5. checkedEnds' \in BOOLEAN
  BY <1>1
<1>6. WaslTyped'
  BY <1>1, <1>2, <1>4, <1>5 DEF WaslInv, WaslTyped
<1>7. StatusInv' /\ TurnInv'
  BY <1>1, <1>2, <1>3, StatusStays, TurnStays DEF WaslInv
<1>8. ASSUME NEW d \in Drivers, Auth!Ended(d)'
      PROVE  Auth!Ended(d) /\ d \notin waslJob[w].list
  BY <1>1, <1>3, <1>8 DEF Auth!Ended
<1>9. EndedInv'
  <2>1. \A v \in Workers : waslJob'[v].day <= today'
    BY <1>1, <1>2 DEF WaslInv, WaslTyped, EndedInv
  <2>2. checkedEnds' => \A d \in Drivers \ changed' : ~Auth!Ended(d)'
    BY <1>1, <1>8 DEF WaslInv, EndedInv
  <2>3. ASSUME NEW v \in Workers, waslJob'[v].op = "expire", waslJob'[v].day = today',
               NEW d \in Drivers \ changed', Auth!Ended(d)'
        PROVE  d \in waslJob'[v].list
    <3>1. waslJob'[v] = waslJob[v]
      BY <1>2, <2>3
    <3> QED
      BY <1>1, <1>8, <2>3, <3>1 DEF WaslInv, EndedInv
  <2> QED
    BY <2>1, <2>2, <2>3 DEF EndedInv
<1> QED
  BY <1>6, <1>7, <1>9 DEF WaslInv

\* WASL decides about those whose row is still pending.
LEMMA DecideKeeps ==
    ASSUME WaslInv, NEW d \in Drivers, NEW status \in Auth!Statuses,
           NEW vehicles \in SUBSET Auth!Statuses, NEW until \in Nat,
           Auth!Decide(d, status, vehicles, until)
    PROVE  WaslInv'
<1>1. /\ decision[d].status = "PENDING"
      /\ decision' = [decision EXCEPT ![d] =
             [status |-> status, vehicles |-> vehicles, until |-> until]]
      /\ UNCHANGED <<today, waslRow, waslJob, reminders, checkedEnds, changed, unasked,
                     remindedTwice, cutReminders>>
  BY DEF Auth!Decide
<1>3. [status |-> status, vehicles |-> vehicles, until |-> until] \in Verdict
  BY DEF Verdict
<1>4. /\ decision' \in [Drivers -> Verdict]
      /\ \A e \in Drivers \ {d} : decision'[e] = decision[e]
  BY <1>1, <1>3 DEF WaslInv, WaslTyped
<1>5. WaslTyped'
  BY <1>1, <1>4 DEF WaslInv, WaslTyped
<1>6. ASSUME NEW e \in Drivers \ unasked
      PROVE  Right(e)'
  <2>1. Right(e)
    BY DEF WaslInv, StatusInv
  <2>2. CASE e = d
    BY <1>1, <2>1, <2>2 DEF Right, Borne
  <2>3. CASE e # d
    BY <1>1, <1>4, <2>1, <2>3 DEF Right, Borne
  <2> QED
    BY <2>2, <2>3
<1>7. ASSUME NEW w \in Workers
      PROVE  Knows(w)'
  <2>1. waslJob[w].list \subseteq Drivers
    BY DEF WaslInv, WaslTyped, WaslWork
  <2> QED
    BY <1>1, <1>4, <2>1 DEF WaslInv, StatusInv, Knows, Borne
<1>8. StatusInv'
  BY <1>1, <1>6, <1>7 DEF StatusInv
<1>9. EndedInv' /\ TurnInv'
  BY <1>1, EndedStays, TurnStays DEF WaslInv, WaslTyped
<1> QED
  BY <1>5, <1>8, <1>9 DEF WaslInv

\* A change by others is remembered for the day.
LEMMA ChangeKeeps ==
    ASSUME WaslInv, NEW d \in Drivers, NEW approved \in BOOLEAN, NEW sub \in BOOLEAN,
           Auth!Change(d, approved, sub)
    PROVE  WaslInv'
<1> DEFINE r == [waslRow[d] EXCEPT !.approved = approved, !.sub = sub]
<1>1. /\ waslRow' = [waslRow EXCEPT ![d] = r] /\ changed' = changed \cup {d}
      /\ UNCHANGED <<today, decision, waslJob, reminders, checkedEnds, unasked,
                     remindedTwice, cutReminders>>
  BY DEF Auth!Change
<1>2. /\ r \in CaptainRow /\ r.wasl = waslRow[d].wasl /\ r.until = waslRow[d].until
      /\ r.told = waslRow[d].told
  BY DEF WaslInv, WaslTyped, CaptainRow
<1> HIDE DEF r
<1>3. /\ waslRow' \in [Drivers -> CaptainRow]
      /\ \A e \in Drivers : /\ waslRow'[e].wasl = waslRow[e].wasl
                            /\ waslRow'[e].until = waslRow[e].until
                            /\ waslRow'[e].told = waslRow[e].told
      /\ \A e \in Drivers \ {d} : waslRow'[e] = waslRow[e]
  BY <1>1, <1>2 DEF WaslInv, WaslTyped
<1>4. WaslTyped'
  BY <1>1, <1>3 DEF WaslInv, WaslTyped
<1>5. StatusInv'
  BY <1>1, <1>3 DEF WaslInv, StatusInv, Right, Knows, Borne
<1>6. EndedInv' /\ TurnInv'
  BY <1>1, <1>3, EndedStays, TurnStays DEF WaslInv, WaslTyped
<1> QED
  BY <1>4, <1>5, <1>6 DEF WaslInv

\* The day after, the check is to be made again, and none that is under way is today's.
LEMMA NextDayKeeps ==
    ASSUME WaslInv, Auth!NextDay
    PROVE  WaslInv'
<1>1. /\ today' = today + 1 /\ checkedEnds' = FALSE
      /\ UNCHANGED <<waslRow, decision, waslJob, reminders, unasked, remindedTwice,
                     cutReminders>>
  BY DEF Auth!NextDay
<1>2. today \in Nat /\ today + 1 \in Nat /\ \A w \in Workers : waslJob[w].day \in Nat
  BY DEF WaslInv, WaslTyped, WaslWork
<1>3. WaslTyped'
  BY <1>1, <1>2 DEF WaslInv, WaslTyped
<1>4. StatusInv'
  BY <1>1 DEF WaslInv, StatusInv, Right, Knows, Borne
<1>5. EndedInv'
  BY <1>1, <1>2 DEF WaslInv, EndedInv
<1>6. TurnInv'
  BY <1>1, TurnStays DEF WaslInv, WaslTyped
<1> QED
  BY <1>3, <1>4, <1>5, <1>6 DEF WaslInv

\* One step per action.
LEMMA EligibilityStep ==
    ASSUME WaslInv, Auth!Calendar, [Auth!Next]_(Auth!waslVars)
    PROVE  WaslInv'
<1>1. << >> \in Saws
  BY IdleIsWork DEF Auth!Idle, WaslWork
<1>2. Auth!Pending \in SUBSET Drivers
  BY DEF Auth!Pending
<1>3. ASSUME NEW w \in Workers, Auth!ReadPending(w)
      PROVE  WaslInv'
  BY <1>1, <1>2, <1>3, ReadingKeeps DEF Auth!ReadPending
<1>4. ASSUME NEW w \in Workers, Auth!BeginOneByOne(w)
      PROVE  WaslInv'
  BY <1>1, <1>2, <1>4, ReadingKeeps DEF Auth!BeginOneByOne
<1>5. ASSUME NEW w \in Workers, NEW d \in Drivers, Auth!ReadStatus(w, d)
      PROVE  WaslInv'
  <2> DEFINE saw == [e \in {d} |-> [Auth!News EXCEPT !.wasl = waslRow[d].wasl]]
  <2>1. saw \in [{d} -> Seen]
    BY DEF WaslInv, WaslTyped, CaptainRow, Seen, Auth!News, Auth!Default
  <2>2. saw \in Saws
    BY <2>1 DEF Saws
  <2>3. /\ Auth!Begin(w, "switch", {d}, saw)
        /\ UNCHANGED <<today, waslRow, decision, reminders, checkedEnds, changed, unasked,
                       remindedTwice, cutReminders>>
    BY <1>5 DEF Auth!ReadStatus
  <2> HIDE DEF saw
  <2> QED
    BY <2>2, <2>3, ReadingKeeps
<1>6. ASSUME NEW d \in Drivers, NEW vehicles \in Fleets,
             \/ Auth!Decide(d, "PENDING", vehicles, Auth!Default)
             \/ Auth!Decide(d, "INVALID", vehicles, Auth!Default)
             \/ \E e \in Ends : Auth!Decide(d, "VALID", vehicles, e)
      PROVE  WaslInv'
  <2>1. PICK status \in Auth!Statuses, until \in Ends \cup {Auth!Default} :
           Auth!Decide(d, status, vehicles, until)
    BY <1>6 DEF Auth!Statuses
  <2>2. until \in Nat /\ vehicles \in SUBSET Auth!Statuses
    BY DEF Auth!Default, Auth!Calendar
  <2> QED
    BY <2>1, <2>2, DecideKeeps
<1>8. ASSUME NEW d \in Drivers, Auth!Change(d, ~waslRow[d].approved, waslRow[d].sub)
      PROVE  WaslInv'
  <2>1. (~waslRow[d].approved) \in BOOLEAN /\ waslRow[d].sub \in BOOLEAN
    BY DEF WaslInv, WaslTyped, CaptainRow
  <2> QED
    BY <1>8, <2>1, ChangeKeeps
<1>9. ASSUME NEW d \in Drivers, Auth!Change(d, waslRow[d].approved, ~waslRow[d].sub)
      PROVE  WaslInv'
  <2>1. waslRow[d].approved \in BOOLEAN /\ (~waslRow[d].sub) \in BOOLEAN
    BY DEF WaslInv, WaslTyped, CaptainRow
  <2> QED
    BY <1>9, <2>1, ChangeKeeps
<1>10. CASE UNCHANGED Auth!waslVars
  <2>1. UNCHANGED <<today, waslRow, decision, waslJob, reminders, checkedEnds, changed,
                    unasked, remindedTwice, cutReminders>>
    BY <1>10 DEF Auth!waslVars
  <2>2. WaslTyped'
    BY <2>1 DEF WaslInv, WaslTyped
  <2>3. StatusInv' /\ EndedInv' /\ TurnInv'
    BY <2>1, StatusStays, EndedStays, TurnStays DEF WaslInv, WaslTyped
  <2> QED
    BY <2>2, <2>3 DEF WaslInv
<1> QED
  BY <1>3, <1>4, <1>5, <1>6, <1>8, <1>9, <1>10, AskAllKeeps, WriteDecisionKeeps,
     OneByOneKeeps, WriteStatusKeeps, FindDueKeeps, WriteToldKeeps, RemindKeeps,
     FindEndedKeeps, WriteEndedKeeps, FailKeeps, NextDayKeeps
  DEF Auth!Next

\* Nothing is decided and nobody reminded at first.
LEMMA EligibilityInit ==
    ASSUME Auth!Init, Auth!Calendar
    PROVE  WaslInv
<1>1. /\ today = 1 /\ checkedEnds = FALSE /\ changed = {}
      /\ decision = [d \in Drivers |-> Auth!Undecided]
      /\ waslJob = [w \in Workers |-> Auth!Idle]
      /\ reminders = [d \in Drivers |-> [k \in DOMAIN Periods |-> 0]]
      /\ unasked = {d \in Drivers : waslRow[d].wasl = "INVALID"}
  BY DEF Auth!Init
<1>2. /\ waslRow \in [Drivers -> CaptainRow]
      /\ \A d \in Drivers : waslRow[d].wasl \in {"PENDING", "INVALID"} /\ waslRow[d].told = 0
  <2> DEFINE first == {[wasl |-> s, until |-> Auth!Default, told |-> 0, approved |-> TRUE,
                        sub |-> TRUE] : s \in {"PENDING", "INVALID"}}
  <2>1. waslRow \in [Drivers -> first]
    BY DEF Auth!Init
  <2>2. ASSUME NEW s \in {"PENDING", "INVALID"}, NEW b \in BOOLEAN, NEW c \in BOOLEAN
        PROVE  [wasl |-> s, until |-> Auth!Default, told |-> 0, approved |-> b, sub |-> c]
                   \in CaptainRow
    BY DEF CaptainRow, Auth!Default, Auth!Statuses
  <2>3. \A r \in first : r \in CaptainRow
    BY <2>2
  <2>4. \A r \in first : r.told = 0 /\ r.wasl \in {"PENDING", "INVALID"}
    OBVIOUS
  <2> HIDE DEF first
  <2> QED
    BY <2>1, <2>3, <2>4
<1>3. Auth!Undecided \in Verdict
  BY DEF Auth!Undecided, Verdict, Auth!Statuses, Auth!Default
<1>4. waslJob \in [Workers -> WaslWork] /\ \A w \in Workers : waslJob[w] = Auth!Idle
  BY <1>1, IdleIsWork
<1>5. WaslTyped
  BY <1>1, <1>2, <1>3, <1>4 DEF WaslTyped
<1>6. StatusInv
  BY <1>1, <1>2, <1>4, IdleIsWork DEF StatusInv, Right, Knows, Borne
<1>7. EndedInv
  BY <1>1, <1>4, IdleIsWork DEF EndedInv
<1>8. \A d : Reminding(d) = {}
  BY <1>4, IdleIsWork DEF Reminding
<1>9. \A d \in Drivers : Ordered(d) /\ Counted(d)
  BY <1>1, <1>2, <1>8 DEF Ordered, Counted, Auth!Calendar
<1>10. TurnInv
  BY <1>4, <1>9, IdleIsWork DEF TurnInv
<1> QED
  BY <1>5, <1>6, <1>7, <1>10 DEF WaslInv

\* The invariant says what is kept of eligibilities.
LEMMA EligibilityFollows ==
    ASSUME WaslInv
    PROVE  EligibilityKept
<1>1. DOMAIN waslRow = Drivers /\ \A d \in Drivers : DOMAIN reminders[d] = DOMAIN Periods
  BY DEF WaslInv, WaslTyped
<1>2. StatusIsWasls
  BY <1>1 DEF WaslInv, StatusInv, Right, StatusIsWasls
<1>3. EndedAreOff
  <2>1. ASSUME checkedEnds, NEW d \in Drivers \ changed,
               waslRow[d].approved, waslRow[d].sub, waslRow[d].wasl = "VALID"
        PROVE  waslRow[d].until >= today
    <3>1. ~(waslRow[d].until < today)
      BY <2>1 DEF WaslInv, EndedInv, Auth!Ended
    <3>2. waslRow[d].until \in Nat /\ today \in Nat
      BY DEF WaslInv, WaslTyped, CaptainRow
    <3> QED
      BY <3>1, <3>2
  <2> QED
    BY <1>1, <2>1 DEF EndedAreOff
<1>4. RemindedInTurn
  BY <1>1 DEF WaslInv, TurnInv, Counted, RemindedInTurn
<1> QED
  BY <1>2, <1>3, <1>4 DEF EligibilityKept

\* Captains are valid by WASL's word only and until the day it gave, nobody is approved
\* past that day once the check of midnight is done, and reminders follow one another:
\* for any captains, replicas and workers, and any days WASL gives.
THEOREM EligibilityAlwaysKept ==
    ASSUME Auth!Calendar
    PROVE  Auth!Spec => []EligibilityKept
<1>1. Auth!Init => WaslInv
  BY EligibilityInit
<1>2. WaslInv /\ [Auth!Next]_(Auth!waslVars) => WaslInv'
  BY EligibilityStep
<1>3. WaslInv => EligibilityKept
  BY EligibilityFollows
<1> QED
  BY <1>1, <1>2, <1>3, PTL DEF Auth!Spec

-----------------------------------------------------------------------------
(* Accounts *)

AccountRow == [kind : Acc!Kinds, number : Nat \ {0}, id : Ids \cup {None}]

AccountSteps == {"none", "registered", "byMobile", "byId", "yakeen", "last", "insert", "update"}

AccountJob ==
    [step : AccountSteps, kind : Acc!Kinds \cup {"none"}, mobile : Mobiles \cup {None},
     id : Ids \cup {None}, found : AccountRow \cup {Acc!NoAccount}, number : Nat]

AccountTypes ==
    /\ account \in [Mobiles -> AccountRow \cup {Acc!NoAccount}]
    /\ job \in [Handlers -> AccountJob]
    /\ proven \in [Mobiles -> Ids \cup {None}]
    /\ claimedTwice \subseteq Mobiles \cup Ids /\ unseen \subseteq Ids

\* What a request at each step has.
AccountShapeOf(j) ==
    /\ j.step = "none" => j = Acc!Idle
    /\ j.step # "none" => j.mobile \in Mobiles /\ j.kind \in Acc!Kinds
    /\ j.step \in {"byMobile", "byId", "yakeen", "update"} => j.id \in Ids
    /\ j.step = "insert" => j.number # 0

AccountShape == \A h \in Handlers : AccountShapeOf(job[h])

\* The number and the id a request is about.
Claims(j) == {j.mobile, j.id} \ {None}

ClaimsApart ==
    \A g, h \in Handlers : g # h => Claims(job[g]) \cap Claims(job[h]) \subseteq claimedTwice

\* The id of a request that has looked it up has no account among rows.
IdFresh(j, rows, over, unknown) ==
    (/\ j.step \in {"yakeen", "last", "insert", "update"}
     /\ j.id \notin {None} \cup over \cup unknown)
       => \A m \in Mobiles : rows[m].id # j.id

IdsFresh == \A h \in Handlers : IdFresh(job[h], account, claimedTwice, unseen)

\* The account a request has found is still there, and as it was found.
FoundStands(j, rows, over) ==
    /\ j.step \in {"byId", "yakeen", "update"} /\ j.found # Acc!NoAccount
         => rows[j.mobile] # Acc!NoAccount
    /\ j.step = "update" => j.found # Acc!NoAccount
    /\ j.mobile \notin over =>
        /\ j.step \in {"byId", "yakeen", "update"} => j.found \in {rows[j.mobile], Acc!NoAccount}
        /\ j.step \in {"yakeen", "update"} => j.found.id \in {None, j.id}

AllFoundStand == \A h \in Handlers : FoundStands(job[h], account, claimedTwice)

AccountsInv == AccountTypes /\ AccountShape /\ ClaimsApart /\ IdsFresh /\ AllFoundStand /\ OneAccountEach

-----------------------------------------------------------------------------
(* The last userId *)

\* A finite set of numbers has a greatest.
LEMMA MaxIn ==
    ASSUME NEW S \in SUBSET Nat, IsFiniteSet(S), S # {}
    PROVE  Acc!Max(S) \in S /\ \A y \in S : Acc!Max(S) >= y
<1> DEFINE Has(U) == \E x \in U : \A y \in U : x >= y
           D == {U \in SUBSET S : U # {} /\ ~Has(U)}
<1>1. D = {}
  <2>1. SUFFICES ASSUME D # {} PROVE FALSE
    OBVIOUS
  <2>2. D \subseteq FiniteSubsetsOf(S)
    BY FS_FiniteSubsetsOfFinite
  <2>3. PICK U \in D : \A W \in D : <<W, U>> \notin StrictSubsetOrdering(S)
    <3>. HIDE DEF D
    <3>. QED BY <2>1, <2>2, FS_StrictSubsetOrderingWellFounded, WFMin
  <2>4. U \in SUBSET S /\ U # {} /\ ~Has(U)
    BY <2>3
  <2>5. PICK x \in U : TRUE
    BY <2>4
  <2>6. U \ {x} \in SUBSET S /\ <<U \ {x}, U>> \in StrictSubsetOrdering(S)
    BY <2>4, <2>5 DEF StrictSubsetOrdering
  <2>7. U \ {x} = {} \/ Has(U \ {x})
    BY <2>3, <2>6
  <2>8. CASE U \ {x} = {}
    <3>1. \A y \in U : x >= y
      BY <2>4, <2>5, <2>8
    <3>. QED BY <2>4, <2>5, <3>1
  <2>9. CASE Has(U \ {x})
    <3>1. PICK z \in U \ {x} : \A y \in U \ {x} : z >= y
      BY <2>9
    <3>2. x \in Nat /\ z \in Nat /\ U \subseteq Nat
      BY <2>4, <2>5
    <3>3. CASE x >= z
      <4>1. \A y \in U : x >= y
        BY <3>1, <3>2, <3>3
      <4>. QED BY <2>4, <2>5, <4>1
    <3>4. CASE z >= x
      <4>1. \A y \in U : z >= y
        BY <3>1, <3>2, <3>4
      <4>. QED BY <2>4, <3>1, <4>1
    <3>. QED BY <3>2, <3>3, <3>4
  <2>. QED BY <2>7, <2>8, <2>9
<1>2. Has(S)
  BY <1>1
<1>. QED BY <1>2 DEF Acc!Max

\* The number read is the number of an account, or zero.
LEMMA LastIsNumber ==
    ASSUME Acc!FiniteTable, AccountTypes, NEW k
    PROVE  Acc!LastUserId(k) \in Nat
<1> DEFINE M == {n \in Mobiles : account[n].kind = k}
           N == {account[m].number : m \in M}
           f == [m \in M |-> account[m].number]
<1>1. IsFiniteSet(M)
  <2>1. IsFiniteSet(Mobiles)
    BY DEF Acc!FiniteTable, Acc!IsFiniteSet, IsFiniteSet
  <2>. QED BY <2>1, FS_Subset
<1>2. f \in Surjection(M, N)
  BY DEF Surjection
<1>3. IsFiniteSet(N)
  BY <1>1, <1>2, FS_Surjection
<1>4. IsFiniteSet({0} \cup N)
  BY <1>3, FS_AddElement
<1>5. N \subseteq Nat
  BY DEF AccountTypes, AccountRow, Acc!NoAccount
<1>6. {0} \cup N \in SUBSET Nat /\ {0} \cup N # {}
  BY <1>5
<1>7. Acc!Max({0} \cup N) \in Nat
  <2>. HIDE DEF N
  <2>. QED BY <1>4, <1>6, MaxIn
<1>. QED BY <1>7 DEF Acc!LastUserId

-----------------------------------------------------------------------------
(* One handler's step *)

\* A step that changes no account but that of its own number, to its own id.
LEMMA AccountHandlerStep ==
    ASSUME Acc!FiniteTable, AccountsInv, NEW h \in Handlers, NEW j \in AccountJob,
           job' = [job EXCEPT ![h] = j],
           claimedTwice \subseteq claimedTwice', claimedTwice' \subseteq Mobiles \cup Ids,
           unseen \subseteq unseen', unseen' \subseteq Ids,
           account' \in [Mobiles -> AccountRow \cup {Acc!NoAccount}],
           proven' \in [Mobiles -> Ids \cup {None}],
           \A m \in Mobiles : m # job[h].mobile => account'[m] = account[m],
           \A m \in Mobiles : account'[m].id \in {account[m].id, job[h].id},
           \A m \in Mobiles : account[m] # Acc!NoAccount => account'[m] # Acc!NoAccount,
           AccountShapeOf(j), \A g \in Handlers \ {h} : Claims(job[g]) \cap Claims(j) \subseteq claimedTwice',
           IdFresh(j, account', claimedTwice', unseen'), FoundStands(j, account', claimedTwice'),
           OneAccountEach'
    PROVE  AccountsInv'
<1>0. AccountTypes /\ AccountShape /\ ClaimsApart /\ IdsFresh /\ AllFoundStand
  BY DEF AccountsInv
<1>1. job'[h] = j /\ \A g \in Handlers \ {h} : job'[g] = job[g]
  BY <1>0 DEF AccountTypes
<1>2. AccountTypes'
  BY <1>0 DEF AccountTypes
<1>3. AccountShape'
  BY <1>0, <1>1 DEF AccountShape
<1>4. ClaimsApart'
  <2>1. \A f, g \in Handlers : f # g => Claims(job'[f]) \cap Claims(job'[g]) \subseteq claimedTwice'
    <3> TAKE f, g \in Handlers
    <3>1. CASE f # h /\ g # h
      BY <1>0, <1>1, <3>1 DEF ClaimsApart
    <3>2. CASE f = h /\ g # h
      <4>1. Claims(job[g]) \cap Claims(j) \subseteq claimedTwice'
        BY <3>2
      <4>. QED BY <1>1, <3>2, <4>1
    <3>3. CASE f # h /\ g = h
      <4>1. Claims(job[f]) \cap Claims(j) \subseteq claimedTwice'
        BY <3>3
      <4>. QED BY <1>1, <3>3, <4>1
    <3>. QED BY <3>1, <3>2, <3>3
  <2>. QED BY <2>1 DEF ClaimsApart
<1>5. \A g \in Handlers \ {h} : IdFresh(job[g], account', claimedTwice', unseen')
  <2> SUFFICES ASSUME NEW g \in Handlers \ {h},
                      job[g].step \in {"yakeen", "last", "insert", "update"},
                      job[g].id \notin {None} \cup claimedTwice' \cup unseen',
                      NEW m \in Mobiles
               PROVE  account'[m].id # job[g].id
    BY DEF IdFresh
  <2>1. account[m].id # job[g].id
    BY <1>0 DEF IdsFresh, IdFresh
  <2>2. job[h].id # job[g].id
    BY <1>0 DEF ClaimsApart, Claims
  <2>. QED BY <2>1, <2>2
<1>6. \A g \in Handlers \ {h} : FoundStands(job[g], account', claimedTwice')
  <2> TAKE g \in Handlers \ {h}
  <2>1. FoundStands(job[g], account, claimedTwice)
    BY <1>0 DEF AllFoundStand
  <2>2. ASSUME job[g].step # "none"
        PROVE  job[g].mobile \in Mobiles /\ job[g].mobile # None
    BY <1>0, <2>2 DEF AccountShape, AccountShapeOf, Acc!FiniteTable
  <2>3. ASSUME job[g].step # "none", job[g].mobile \notin claimedTwice'
        PROVE  account'[job[g].mobile] = account[job[g].mobile]
    <3>1. job[g].mobile # job[h].mobile
      BY <1>0, <2>2, <2>3 DEF ClaimsApart, Claims
    <3>. QED BY <2>2, <2>3, <3>1
  <2>. QED BY <2>1, <2>2, <2>3 DEF FoundStands
<1>7. IdsFresh' /\ AllFoundStand'
  BY <1>1, <1>5, <1>6 DEF IdsFresh, AllFoundStand
<1>. QED BY <1>2, <1>3, <1>4, <1>7 DEF AccountsInv

\* A step of a request that writes no account.
LEMMA AccountMovesOn ==
    ASSUME Acc!FiniteTable, AccountsInv, NEW h \in Handlers, NEW j \in AccountJob,
           job' = [job EXCEPT ![h] = j],
           (j.mobile = job[h].mobile /\ j.id = job[h].id) \/ j = Acc!Idle,
           UNCHANGED <<account, proven, claimedTwice>>,
           unseen \subseteq unseen', unseen' \subseteq Ids,
           AccountShapeOf(j), IdFresh(j, account, claimedTwice, unseen'), FoundStands(j, account, claimedTwice)
    PROVE  AccountsInv'
<1>0. AccountTypes /\ ClaimsApart /\ OneAccountEach
  BY DEF AccountsInv
<1>1. /\ account' \in [Mobiles -> AccountRow \cup {Acc!NoAccount}]
      /\ proven' \in [Mobiles -> Ids \cup {None}] /\ claimedTwice' \subseteq Mobiles \cup Ids
  BY <1>0 DEF AccountTypes
<1>2. \A g \in Handlers \ {h} : Claims(job[g]) \cap Claims(j) \subseteq claimedTwice'
  <2>1. CASE j.mobile = job[h].mobile /\ j.id = job[h].id
    BY <1>0, <2>1 DEF ClaimsApart, Claims
  <2>2. CASE j = Acc!Idle
    BY <2>2 DEF Claims, Acc!Idle
  <2>. QED BY <2>1, <2>2
<1>3. OneAccountEach'
  BY <1>0 DEF OneAccountEach
<1>4. IdFresh(j, account', claimedTwice', unseen') /\ FoundStands(j, account', claimedTwice')
  OBVIOUS
<1>5. \A m \in Mobiles : account'[m].id \in {account[m].id, job[h].id}
  OBVIOUS
<1>. QED BY <1>1, <1>2, <1>3, <1>4, <1>5, AccountHandlerStep

-----------------------------------------------------------------------------
(* The actions *)

\* Nothing is asked of an idle handler.
LEMMA AccountIdleShape ==
    Acc!Idle \in AccountJob /\ Claims(Acc!Idle) = {} /\ AccountShapeOf(Acc!Idle)
    /\ (\A rows, over, unknown : IdFresh(Acc!Idle, rows, over, unknown) /\ FoundStands(Acc!Idle, rows, over))
<1>1. Acc!Idle \in AccountJob /\ Acc!Idle.step = "none"
  BY DEF Acc!Idle, AccountJob, AccountSteps
<1>2. Claims(Acc!Idle) = {}
  BY DEF Acc!Idle, Claims
<1>. QED BY <1>1, <1>2 DEF AccountShapeOf, IdFresh, FoundStands

\* A request that ends, without having written.
LEMMA AccountEndStep ==
    ASSUME Acc!FiniteTable, AccountsInv, NEW h \in Handlers, Acc!Finish(h),
           UNCHANGED <<account, proven, claimedTwice>>,
           unseen \subseteq unseen', unseen' \subseteq Ids
    PROVE  AccountsInv'
<1>1. job' = [job EXCEPT ![h] = Acc!Idle]
  BY DEF Acc!Finish
<1>2. /\ Acc!Idle \in AccountJob /\ AccountShapeOf(Acc!Idle) /\ IdFresh(Acc!Idle, account, claimedTwice, unseen')
      /\ FoundStands(Acc!Idle, account, claimedTwice)
  BY AccountIdleShape
<1>. QED BY <1>1, <1>2, AccountMovesOn

\* The request h is at work on.
LEMMA AccountAtWork ==
    ASSUME AccountsInv, NEW h \in Handlers, job[h].step # "none"
    PROVE  /\ AccountTypes /\ unseen \subseteq Ids
           /\ job[h] \in AccountJob /\ job[h].mobile \in Mobiles /\ job[h].kind \in Acc!Kinds
           /\ AccountShapeOf(job[h]) /\ IdFresh(job[h], account, claimedTwice, unseen)
           /\ FoundStands(job[h], account, claimedTwice)
<1>1. AccountTypes /\ AccountShape /\ IdsFresh /\ AllFoundStand
  BY DEF AccountsInv
<1>. QED BY <1>1 DEF AccountTypes, AccountShape, IdsFresh, AllFoundStand, AccountShapeOf

\* A request that goes on to another step.
LEMMA AccountGotoStep ==
    ASSUME Acc!FiniteTable, AccountsInv, NEW h \in Handlers, job[h].step # "none",
           NEW step \in AccountSteps \ {"none", "insert"}, Acc!Goto(h, step),
           UNCHANGED <<account, proven, claimedTwice>>,
           unseen \subseteq unseen', unseen' \subseteq Ids,
           step \in {"byMobile", "byId", "yakeen", "update"} => job[h].id \in Ids,
           IdFresh([job[h] EXCEPT !.step = step], account, claimedTwice, unseen'),
           FoundStands([job[h] EXCEPT !.step = step], account, claimedTwice)
    PROVE  AccountsInv'
<1> DEFINE j == [job[h] EXCEPT !.step = step]
<1>1. AccountTypes /\ job[h] \in AccountJob /\ job[h].mobile \in Mobiles /\ job[h].kind \in Acc!Kinds
  BY AccountAtWork
<1>2. /\ j \in AccountJob /\ j.step = step /\ j.mobile = job[h].mobile /\ j.id = job[h].id
      /\ j.kind = job[h].kind
  BY <1>1 DEF AccountJob
<1>3. job' = [job EXCEPT ![h] = j]
  BY <1>1 DEF Acc!Goto, AccountTypes
<1>4. AccountShapeOf(j)
  BY <1>1, <1>2 DEF AccountShapeOf
<1> HIDE DEF j
<1>5. IdFresh(j, account, claimedTwice, unseen') /\ FoundStands(j, account, claimedTwice)
  BY DEF j
<1>. QED BY <1>2, <1>3, <1>4, <1>5, AccountMovesOn

\* A new request; whoever is at work on its number or id is overlapped.
LEMMA AccountBeginStep ==
    ASSUME Acc!FiniteTable, AccountsInv, NEW h \in Handlers, NEW step \in {"registered", "byMobile"},
           NEW kind \in Acc!Kinds, NEW m \in Mobiles, NEW i \in Ids \cup {None},
           step = "byMobile" => i \in Ids, Acc!Begin(h, step, kind, m, i)
    PROVE  AccountsInv'
<1> DEFINE j == [Acc!Idle EXCEPT !.step = step, !.kind = kind, !.mobile = m, !.id = i]
<1>0. AccountTypes /\ AccountShape /\ ClaimsApart /\ IdsFresh /\ AllFoundStand /\ OneAccountEach
  BY DEF AccountsInv
<1>1. /\ job[h] = Acc!Idle /\ job' = [job EXCEPT ![h] = j]
      /\ claimedTwice' = claimedTwice \cup
             (({m, i} \ {None}) \cap UNION {{job[g].mobile, job[g].id} : g \in Acc!Working})
      /\ UNCHANGED <<account, proven, unseen>>
  BY DEF Acc!Begin
<1>2. /\ j \in AccountJob /\ j.step = step /\ j.kind = kind /\ j.mobile = m /\ j.id = i
  BY DEF Acc!Idle, AccountJob, AccountSteps
<1>3. /\ account' \in [Mobiles -> AccountRow \cup {Acc!NoAccount}]
      /\ proven' \in [Mobiles -> Ids \cup {None}]
      /\ claimedTwice \subseteq claimedTwice' /\ claimedTwice' \subseteq Mobiles \cup Ids
      /\ unseen \subseteq unseen' /\ unseen' \subseteq Ids
  BY <1>0, <1>1 DEF AccountTypes
<1> HIDE DEF j
<1>4. AccountShapeOf(j)
  BY <1>2, <1>0, Acc!FiniteTable DEF AccountShapeOf
<1>5. IdFresh(j, account', claimedTwice', unseen') /\ FoundStands(j, account', claimedTwice')
  BY <1>2 DEF IdFresh, FoundStands
<1>6. \A g \in Handlers \ {h} : Claims(job[g]) \cap Claims(j) \subseteq claimedTwice'
  <2> TAKE g \in Handlers \ {h}
  <2>1. CASE job[g] = Acc!Idle
    BY <2>1, AccountIdleShape
  <2>2. CASE job[g] # Acc!Idle
    <3>1. g \in Acc!Working
      BY <2>2 DEF Acc!Working
    <3>2. {job[g].mobile, job[g].id} \subseteq UNION {{job[f].mobile, job[f].id} : f \in Acc!Working}
      BY <3>1
    <3>. QED BY <1>1, <1>2, <3>2 DEF Claims
  <2>. QED BY <2>1, <2>2
<1>7. OneAccountEach'
  BY <1>0, <1>1, <1>3 DEF OneAccountEach
<1>8. \A n \in Mobiles : account'[n].id \in {account[n].id, job[h].id} /\ account'[n] = account[n]
  BY <1>1
<1>. QED BY <1>1, <1>2, <1>3, <1>4, <1>5, <1>6, <1>7, <1>8, AccountHandlerStep

\* A sign-in of a registered mobile number only looks.
LEMMA RegisteredStep ==
    ASSUME Acc!FiniteTable, AccountsInv, NEW h \in Handlers, Acc!Registered(h)
    PROVE  AccountsInv'
<1>1. job[h].step = "registered" /\ UNCHANGED <<account, proven, claimedTwice, unseen>>
  BY DEF Acc!Registered, Acc!At
<1>2. job[h].step # "none"
  BY <1>1
<1>3. /\ AccountTypes /\ unseen \subseteq Ids /\ job[h] \in AccountJob
  BY <1>2, AccountAtWork
<1>4. CASE Acc!Finish(h)
  BY <1>1, <1>3, <1>4, AccountEndStep
<1>5. CASE Acc!Goto(h, IF job[h].id = None THEN "last" ELSE "byMobile")
  <2>1. CASE job[h].id = None
    <3> DEFINE j == [job[h] EXCEPT !.step = "last"]
    <3>1. j.step = "last" /\ j.id = None
      BY <1>3, <2>1 DEF AccountJob
    <3>2. IdFresh(j, account, claimedTwice, unseen') /\ FoundStands(j, account, claimedTwice)
      BY <3>1 DEF IdFresh, FoundStands
    <3>3. Acc!Goto(h, "last") /\ "last" \in AccountSteps \ {"none", "insert"}
      BY <1>5, <2>1 DEF AccountSteps
    <3>. QED BY <1>1, <1>2, <1>3, <3>2, <3>3, AccountGotoStep
  <2>2. CASE job[h].id # None
    <3> DEFINE j == [job[h] EXCEPT !.step = "byMobile"]
    <3>1. j.step = "byMobile" /\ job[h].id \in Ids
      BY <1>3, <2>2 DEF AccountJob
    <3>2. IdFresh(j, account, claimedTwice, unseen') /\ FoundStands(j, account, claimedTwice)
      BY <3>1 DEF IdFresh, FoundStands
    <3>3. Acc!Goto(h, "byMobile") /\ "byMobile" \in AccountSteps \ {"none", "insert"}
      BY <1>5, <2>2 DEF AccountSteps
    <3>. QED BY <1>1, <1>2, <1>3, <3>1, <3>2, <3>3, AccountGotoStep
  <2>. QED BY <2>1, <2>2
<1>. QED BY <1>4, <1>5 DEF Acc!Registered

\* The row of the mobile number is read, or could not be read and counts as none.
LEMMA FindByMobileStep ==
    ASSUME Acc!FiniteTable, AccountsInv, NEW h \in Handlers, Acc!FindByMobile(h)
    PROVE  AccountsInv'
<1>1. job[h].step = "byMobile" /\ UNCHANGED <<account, proven, claimedTwice, unseen>>
  BY DEF Acc!FindByMobile, Acc!At
<1>2. job[h].step # "none"
  BY <1>1
<1>3. /\ AccountTypes /\ unseen \subseteq Ids /\ job[h] \in AccountJob /\ job[h].mobile \in Mobiles
      /\ job[h].kind \in Acc!Kinds /\ AccountShapeOf(job[h])
  BY <1>2, AccountAtWork
<1>4. PICK row \in {account[job[h].mobile], Acc!NoAccount} :
         job' = [job EXCEPT ![h].step = "byId", ![h].found = row]
  BY DEF Acc!FindByMobile
<1> DEFINE j == [job[h] EXCEPT !.step = "byId", !.found = row]
<1>5. row \in AccountRow \cup {Acc!NoAccount}
  BY <1>3, <1>4 DEF AccountTypes
<1>6. /\ j \in AccountJob /\ j.step = "byId" /\ j.mobile = job[h].mobile /\ j.id = job[h].id
      /\ j.kind = job[h].kind /\ j.found = row
  BY <1>3, <1>5 DEF AccountJob, AccountSteps
<1>7. job' = [job EXCEPT ![h] = j]
  BY <1>3, <1>4 DEF AccountTypes
<1> HIDE DEF j
<1>8. AccountShapeOf(j)
  BY <1>1, <1>3, <1>6 DEF AccountShapeOf
<1>9. IdFresh(j, account, claimedTwice, unseen')
  BY <1>6 DEF IdFresh
<1>10. FoundStands(j, account, claimedTwice)
  BY <1>4, <1>6 DEF FoundStands
<1>. QED BY <1>1, <1>3, <1>6, <1>7, <1>8, <1>9, <1>10, AccountMovesOn

\* A handler that goes on found no other owner of its id, or could not look and the id
\* is among the unseen ones.
LEMMA FindByIdStep ==
    ASSUME Acc!FiniteTable, AccountsInv, NEW h \in Handlers, Acc!FindById(h)
    PROVE  AccountsInv'
<1> DEFINE owners == {m \in Mobiles : account[m].id = job[h].id}
           Decide(others) == IF Acc!Conflict(job[h], others) \/ others # {}
                             THEN Acc!Finish(h) ELSE Acc!Goto(h, "yakeen")
<1>1. job[h].step = "byId" /\ UNCHANGED <<account, proven, claimedTwice>>
  BY DEF Acc!FindById, Acc!At
<1>2. job[h].step # "none"
  BY <1>1
<1>3. /\ AccountTypes /\ unseen \subseteq Ids /\ job[h] \in AccountJob /\ job[h].id \in Ids
      /\ FoundStands(job[h], account, claimedTwice)
  BY <1>1, <1>2, AccountAtWork DEF AccountShapeOf
<1>4. /\ Acc!Finish(h) \/ (Acc!Goto(h, "yakeen") /\ ~ Acc!Conflict(job[h], {}))
      /\ \/ UNCHANGED unseen /\ (owners = {} \/ Acc!Finish(h))
         \/ unseen' = unseen \cup {job[h].id}
  <2>1. CASE /\ IF owners = {} THEN Decide({}) ELSE \E m \in owners : Decide({m})
             /\ UNCHANGED unseen
    BY <2>1
  <2>2. CASE Decide({}) /\ unseen' = unseen \cup {job[h].id}
    BY <2>2
  <2>. QED BY <2>1, <2>2 DEF Acc!FindById
<1>5. unseen \subseteq unseen' /\ unseen' \subseteq Ids
  BY <1>3, <1>4
<1>6. CASE Acc!Finish(h)
  BY <1>1, <1>5, <1>6, AccountEndStep
<1>7. CASE Acc!Goto(h, "yakeen") /\ ~ Acc!Conflict(job[h], {}) /\ ~ Acc!Finish(h)
  <2> DEFINE j == [job[h] EXCEPT !.step = "yakeen"]
  <2>1. /\ j.step = "yakeen" /\ j.mobile = job[h].mobile /\ j.id = job[h].id
        /\ j.found = job[h].found
    BY <1>3 DEF AccountJob
  <2>2. job[h].found.id \in {None, job[h].id}
    BY <1>7 DEF Acc!Conflict
  <2>3. IdFresh(j, account, claimedTwice, unseen')
    BY <1>4, <1>7, <2>1 DEF IdFresh
  <2>4. FoundStands(j, account, claimedTwice)
    BY <1>1, <1>3, <2>1, <2>2 DEF FoundStands
  <2>5. Acc!Goto(h, "yakeen") /\ "yakeen" \in AccountSteps \ {"none", "insert"}
    BY <1>7 DEF AccountSteps
  <2>. QED BY <1>1, <1>2, <1>3, <1>5, <2>3, <2>4, <2>5, AccountGotoStep
<1>. QED BY <1>4, <1>6, <1>7

\* Yakeen vouches for the person or refuses; no row changes.
LEMMA AskYakeenStep ==
    ASSUME Acc!FiniteTable, AccountsInv, NEW h \in Handlers, Acc!AskYakeen(h)
    PROVE  AccountsInv'
<1>1. job[h].step = "yakeen" /\ UNCHANGED <<account, proven, claimedTwice, unseen>>
  BY DEF Acc!AskYakeen, Acc!At
<1>2. job[h].step # "none"
  BY <1>1
<1>3. /\ AccountTypes /\ unseen \subseteq Ids /\ job[h] \in AccountJob /\ job[h].id \in Ids
      /\ IdFresh(job[h], account, claimedTwice, unseen) /\ FoundStands(job[h], account, claimedTwice)
  BY <1>1, <1>2, AccountAtWork DEF AccountShapeOf
<1>4. CASE Acc!Finish(h)
  BY <1>1, <1>3, <1>4, AccountEndStep
<1>5. ASSUME NEW step \in {"last", "update"}, Acc!Goto(h, step),
             step = "update" => job[h].found # Acc!NoAccount
      PROVE  AccountsInv'
  <2> DEFINE j == [job[h] EXCEPT !.step = step]
  <2>1. /\ j.step = step /\ j.mobile = job[h].mobile /\ j.id = job[h].id
        /\ j.found = job[h].found
    BY <1>3 DEF AccountJob
  <2>2. IdFresh(j, account, claimedTwice, unseen')
    BY <1>1, <1>3, <2>1 DEF IdFresh
  <2>3. FoundStands(j, account, claimedTwice)
    BY <1>1, <1>3, <1>5, <2>1 DEF FoundStands
  <2>4. step \in AccountSteps \ {"none", "insert"}
    BY DEF AccountSteps
  <2>. QED BY <1>1, <1>2, <1>3, <1>5, <2>2, <2>3, <2>4, AccountGotoStep
<1>6. Acc!Finish(h) \/ Acc!Goto(h, IF job[h].found = Acc!NoAccount THEN "last" ELSE "update")
  BY DEF Acc!AskYakeen
<1>. QED BY <1>4, <1>5, <1>6

\* The number taken for a new row is a positive one.
LEMMA ReadLastStep ==
    ASSUME Acc!FiniteTable, AccountsInv, NEW h \in Handlers, Acc!ReadLast(h)
    PROVE  AccountsInv'
<1> DEFINE last == Acc!LastUserId(job[h].kind)
           j == [job[h] EXCEPT !.step = "insert", !.number = last + 1]
<1>1. /\ job[h].step = "last" /\ UNCHANGED <<account, proven, claimedTwice, unseen>>
      /\ job' = [job EXCEPT ![h].step = "insert", ![h].number = last + 1]
  BY DEF Acc!ReadLast, Acc!At
<1>2. job[h].step # "none"
  BY <1>1
<1>3. /\ AccountTypes /\ unseen \subseteq Ids /\ job[h] \in AccountJob /\ job[h].mobile \in Mobiles
      /\ job[h].kind \in Acc!Kinds
      /\ IdFresh(job[h], account, claimedTwice, unseen)
  BY <1>2, AccountAtWork
<1>4. last \in Nat
  BY <1>3, LastIsNumber
<1> HIDE DEF last
<1>5. last + 1 \in Nat /\ last + 1 # 0
  BY <1>4
<1>6. /\ j \in AccountJob /\ j.step = "insert" /\ j.number = last + 1
      /\ j.mobile = job[h].mobile /\ j.id = job[h].id /\ j.kind = job[h].kind
  BY <1>3, <1>5 DEF AccountJob, AccountSteps
<1>7. job' = [job EXCEPT ![h] = j]
  BY <1>1, <1>3 DEF AccountTypes
<1> HIDE DEF j
<1>8. AccountShapeOf(j)
  BY <1>3, <1>5, <1>6 DEF AccountShapeOf
<1>9. IdFresh(j, account, claimedTwice, unseen') /\ FoundStands(j, account, claimedTwice)
  BY <1>1, <1>3, <1>6 DEF IdFresh, FoundStands
<1>. QED BY <1>1, <1>3, <1>6, <1>7, <1>8, <1>9, AccountMovesOn

\* A request that ends with a new row: its id is nobody else's.
LEMMA AccountWriteStep ==
    ASSUME Acc!FiniteTable, AccountsInv, NEW h \in Handlers, job[h].step \in {"insert", "update"},
           Acc!Finish(h), UNCHANGED <<claimedTwice, unseen>>,
           NEW row \in AccountRow, row.id = job[h].id,
           NEW first \in Ids \cup {None},
           account' = [account EXCEPT ![job[h].mobile] = row],
           proven' = [proven EXCEPT ![job[h].mobile] = first],
           job[h].mobile \notin claimedTwice => first = job[h].id
    PROVE  AccountsInv'
<1> DEFINE w == job[h].mobile
           i == job[h].id
<1>1. job[h].step # "none"
  OBVIOUS
<1>2. /\ AccountTypes /\ w \in Mobiles /\ IdFresh(job[h], account, claimedTwice, unseen)
      /\ OneAccountEach
  BY <1>1, AccountAtWork DEF AccountsInv
<1>3. /\ account' \in [Mobiles -> AccountRow \cup {Acc!NoAccount}]
      /\ proven' \in [Mobiles -> Ids \cup {None}]
      /\ account'[w].id = i /\ proven'[w] = first
      /\ \A m \in Mobiles : m # w => account'[m] = account[m] /\ proven'[m] = proven[m]
  BY <1>2 DEF AccountTypes
<1>4. i \notin {None} \cup claimedTwice \cup unseen => \A m \in Mobiles : account[m].id # i
  BY <1>2 DEF IdFresh
<1>5. \A m \in Mobiles : account'[m].id \in {account[m].id, i}
  BY <1>3
<1>6. OneAccountEach'
  <2>1. ASSUME NEW m \in Mobiles, NEW n \in Mobiles, account'[m].id = account'[n].id,
               account'[m].id \notin {None} \cup claimedTwice' \cup unseen'
        PROVE  m = n
    <3>1. CASE m = w \/ n = w
      <4>1. account'[m].id = i /\ i \notin {None} \cup claimedTwice \cup unseen
        BY <1>3, <2>1, <3>1
      <4>. QED BY <1>3, <1>4, <2>1, <3>1, <4>1
    <3>2. CASE m # w /\ n # w
      BY <1>2, <1>3, <2>1, <3>2 DEF OneAccountEach
    <3>. QED BY <3>1, <3>2
  <2>2. ASSUME NEW m \in Mobiles \ claimedTwice' PROVE account'[m].id = proven'[m]
    <3>1. CASE m = w
      BY <1>3, <2>2, <3>1
    <3>2. CASE m # w
      BY <1>2, <1>3, <2>2, <3>2 DEF OneAccountEach
    <3>. QED BY <3>1, <3>2
  <2>. QED BY <2>1, <2>2 DEF OneAccountEach
<1>7. job' = [job EXCEPT ![h] = Acc!Idle]
  BY DEF Acc!Finish
<1>8. /\ Acc!Idle \in AccountJob /\ AccountShapeOf(Acc!Idle) /\ IdFresh(Acc!Idle, account', claimedTwice', unseen')
      /\ FoundStands(Acc!Idle, account', claimedTwice') /\ Claims(Acc!Idle) = {}
  BY AccountIdleShape
<1>9. /\ claimedTwice \subseteq claimedTwice' /\ claimedTwice' \subseteq Mobiles \cup Ids
      /\ unseen \subseteq unseen' /\ unseen' \subseteq Ids
  BY <1>2 DEF AccountTypes
<1>10. \A m \in Mobiles : account[m] # Acc!NoAccount => account'[m] # Acc!NoAccount
  <2>1. row # Acc!NoAccount
    BY DEF AccountRow, Acc!NoAccount, Acc!Kinds
  <2>. QED BY <1>2, <1>3, <2>1 DEF AccountTypes
<1>. QED BY <1>3, <1>5, <1>6, <1>7, <1>8, <1>9, <1>10, AccountHandlerStep

\* A row is inserted only for a mobile number that has none, with the id its handler
\* looked for.
LEMMA AccountInsertStep ==
    ASSUME Acc!FiniteTable, AccountsInv, NEW h \in Handlers, Acc!Insert(h)
    PROVE  AccountsInv'
<1> DEFINE j == job[h]
           row == [kind |-> j.kind, number |-> j.number, id |-> j.id]
<1>1. job[h].step = "insert" /\ Acc!Finish(h) /\ UNCHANGED <<claimedTwice, unseen>>
  BY DEF Acc!Insert, Acc!At
<1>2. job[h].step # "none" /\ job[h].step \in {"insert", "update"}
  BY <1>1
<1>3. /\ AccountTypes /\ unseen \subseteq Ids /\ j \in AccountJob /\ j.mobile \in Mobiles
      /\ j.kind \in Acc!Kinds /\ AccountShapeOf(j)
  BY <1>2, AccountAtWork
<1>4. CASE UNCHANGED <<account, proven>>
  BY <1>1, <1>3, <1>4, AccountEndStep
<1>5. CASE /\ account' = [account EXCEPT ![j.mobile] = row]
           /\ proven' = [proven EXCEPT ![j.mobile] = j.id]
  <2>1. j.number \in Nat \ {0} /\ j.id \in Ids \cup {None}
    BY <1>1, <1>3 DEF AccountShapeOf, AccountJob
  <2>2. row \in AccountRow /\ row.id = j.id
    BY <1>3, <2>1 DEF AccountRow
  <2> HIDE DEF row
  <2>. QED BY <1>1, <1>2, <1>5, <2>1, <2>2, AccountWriteStep
<1>. QED BY <1>4, <1>5 DEF Acc!Insert

\* An update writes the id that its handler found to be nobody else's.
LEMMA AccountUpdateStep ==
    ASSUME Acc!FiniteTable, AccountsInv, NEW h \in Handlers, Acc!Update(h)
    PROVE  AccountsInv'
<1> DEFINE j == job[h]
           w == j.mobile
           row == [account[w] EXCEPT !.id = j.id]
           first == IF proven[w] = None THEN j.id ELSE proven[w]
<1>1. job[h].step = "update" /\ Acc!Finish(h) /\ UNCHANGED <<claimedTwice, unseen>>
  BY DEF Acc!Update, Acc!At
<1>2. job[h].step # "none" /\ job[h].step \in {"insert", "update"}
  BY <1>1
<1>3. /\ AccountTypes /\ unseen \subseteq Ids /\ j \in AccountJob /\ w \in Mobiles
      /\ j.id \in Ids /\ FoundStands(j, account, claimedTwice) /\ OneAccountEach
  BY <1>1, <1>2, AccountAtWork DEF AccountShapeOf, AccountsInv
<1>4. account[w] \in AccountRow /\ proven[w] \in Ids \cup {None}
  BY <1>1, <1>3 DEF AccountTypes, FoundStands
<1>5. row \in AccountRow /\ row.id = j.id
  BY <1>3, <1>4 DEF AccountRow
<1>6. first \in Ids \cup {None}
  BY <1>3, <1>4
<1>7. w \notin claimedTwice => first = j.id
  <2> SUFFICES ASSUME w \notin claimedTwice PROVE first = j.id
    OBVIOUS
  <2>1. account[w].id = proven[w]
    BY <1>3 DEF OneAccountEach
  <2>2. account[w].id \in {None, j.id}
    BY <1>1, <1>3 DEF FoundStands
  <2>. QED BY <2>1, <2>2
<1>8. /\ account' = [account EXCEPT ![w] = row]
      /\ proven' = [proven EXCEPT ![w] = first]
  <2>1. account' = [account EXCEPT ![w].id = j.id]
    BY DEF Acc!Update
  <2>2. proven' = IF proven[w] = None THEN [proven EXCEPT ![w] = j.id] ELSE proven
    BY DEF Acc!Update
  <2>3. [proven EXCEPT ![w] = proven[w]] = proven
    BY <1>3 DEF AccountTypes
  <2>4. account' = [account EXCEPT ![w] = row]
    BY <1>3, <2>1 DEF AccountTypes
  <2>. QED BY <2>2, <2>3, <2>4
<1> HIDE DEF row, first
<1>. QED BY <1>1, <1>2, <1>5, <1>6, <1>7, <1>8, AccountWriteStep

\* A stop of the service ends the handlers and touches no row.
LEMMA AccountStopStep ==
    ASSUME Acc!FiniteTable, AccountsInv, NEW h \in Handlers, Acc!Stop(h)
    PROVE  AccountsInv'
<1>1. Acc!Finish(h) /\ UNCHANGED <<account, proven, claimedTwice, unseen>>
  BY DEF Acc!Stop
<1>2. unseen \subseteq Ids
  BY DEF AccountsInv, AccountTypes
<1>. QED BY <1>1, <1>2, AccountEndStep

-----------------------------------------------------------------------------
\* At first there is no account.
LEMMA InitAccounts ==
    ASSUME Acc!Init
    PROVE  AccountsInv
<1>1. AccountTypes
  BY AccountIdleShape DEF Acc!Init, AccountTypes
<1>2. AccountShape /\ ClaimsApart /\ IdsFresh /\ AllFoundStand
  BY AccountIdleShape DEF Acc!Init, AccountShape, ClaimsApart, IdsFresh, AllFoundStand
<1>3. OneAccountEach
  BY DEF Acc!Init, OneAccountEach, Acc!NoAccount
<1>. QED BY <1>1, <1>2, <1>3 DEF AccountsInv

\* Every step keeps the invariant.
LEMMA NextAccounts ==
    ASSUME Acc!FiniteTable, AccountsInv, [Acc!Next]_Acc!accountVars
    PROVE  AccountsInv'
<1>1. ASSUME NEW h \in Handlers, NEW m \in Mobiles, Acc!SignUp(h, m, None)
      PROVE  AccountsInv'
  <2>1. Acc!Begin(h, "registered", "rider", m, None) /\ "rider" \in Acc!Kinds
    BY <1>1 DEF Acc!SignUp, Acc!Kinds
  <2>. QED BY <2>1, AccountBeginStep
<1>2. ASSUME NEW h \in Handlers, NEW m \in Mobiles, NEW i \in Ids, Acc!SignUp(h, m, i)
      PROVE  AccountsInv'
  <2>1. Acc!Begin(h, "registered", "rider", m, i) /\ "rider" \in Acc!Kinds
    BY <1>2 DEF Acc!SignUp, Acc!Kinds
  <2>. QED BY <2>1, AccountBeginStep
<1>3. ASSUME NEW h \in Handlers, NEW m \in Mobiles, NEW i \in Ids, Acc!SignUpDriver(h, m, i)
      PROVE  AccountsInv'
  <2>1. Acc!Begin(h, "byMobile", "driver", m, i) /\ "driver" \in Acc!Kinds
    BY <1>3 DEF Acc!SignUpDriver, Acc!Kinds
  <2>. QED BY <2>1, AccountBeginStep
<1>4. ASSUME NEW h \in Handlers, NEW m \in Mobiles, NEW i \in Ids, Acc!Kyc(h, m, i)
      PROVE  AccountsInv'
  <2>1. Acc!Begin(h, "byMobile", "rider", m, i) /\ "rider" \in Acc!Kinds
    BY <1>4 DEF Acc!Kyc, Acc!Kinds
  <2>. QED BY <2>1, AccountBeginStep
<1>5. ASSUME NEW h \in Handlers,
             \/ Acc!Registered(h) \/ Acc!FindByMobile(h) \/ Acc!FindById(h) \/ Acc!AskYakeen(h)
             \/ Acc!ReadLast(h) \/ Acc!Insert(h) \/ Acc!Update(h) \/ Acc!Stop(h)
      PROVE  AccountsInv'
  BY <1>5, RegisteredStep, FindByMobileStep, FindByIdStep, AskYakeenStep, ReadLastStep,
     AccountInsertStep, AccountUpdateStep, AccountStopStep
<1>6. CASE UNCHANGED Acc!accountVars
  BY <1>6 DEF Acc!accountVars, AccountsInv, AccountTypes, AccountShape, ClaimsApart, IdsFresh, AllFoundStand, OneAccountEach
<1>. QED BY <1>1, <1>2, <1>3, <1>4, <1>5, <1>6 DEF Acc!Next

\* The type invariant follows from the rows and requests as they are.
LEMMA AccountsTypes ==
    ASSUME AccountsInv
    PROVE  Acc!TypeOK
<1>1. AccountTypes /\ AccountShape
  BY DEF AccountsInv
<1>2. \A m \in Mobiles : account[m] # Acc!NoAccount => account[m] \in AccountRow
  BY <1>1 DEF AccountTypes
<1>3. \A h \in Acc!Working : job[h].step # "none"
  BY <1>1 DEF Acc!Working, AccountShape, AccountShapeOf
<1>4. \A h \in Acc!Working : /\ job[h].mobile \in Mobiles /\ job[h].id \in Ids \cup {None}
                          /\ job[h].kind \in Acc!Kinds
  BY <1>1, <1>3 DEF AccountTypes, AccountShape, AccountShapeOf, Acc!Working, AccountJob
<1>. QED BY <1>1, <1>2, <1>4 DEF Acc!TypeOK, AccountTypes, AccountRow

\* Every account and every request has the shape the code gives it, for any finite
\* customer table.
THEOREM AccountsTypeCorrect ==
    ASSUME Acc!FiniteTable
    PROVE  Acc!Spec => []Acc!TypeOK
<1>1. Acc!Init => AccountsInv
  BY InitAccounts
<1>2. AccountsInv /\ [Acc!Next]_Acc!accountVars => AccountsInv'
  BY NextAccounts
<1>3. AccountsInv => Acc!TypeOK
  BY AccountsTypes
<1>. QED BY <1>1, <1>2, <1>3, PTL DEF Acc!Spec

\* A person has one account and an account one person, for any finite customer table
\* and however many sign-ups and verifications interleave and stop, but for overlapped
\* ids and numbers and ids that could not be looked up.
THEOREM OneAccountEachHolds ==
    ASSUME Acc!FiniteTable
    PROVE  Acc!Spec => []OneAccountEach
<1>1. Acc!Init => AccountsInv
  BY InitAccounts
<1>2. AccountsInv /\ [Acc!Next]_Acc!accountVars => AccountsInv'
  BY NextAccounts
<1>3. AccountsInv => OneAccountEach
  BY DEF AccountsInv
<1>. QED BY <1>1, <1>2, <1>3, PTL DEF Acc!Spec

-----------------------------------------------------------------------------
(* Coupons *)

\* Steps of an application of the code, and of a reversal.
Applying == {"apply", "read", "count", "log", "write"}
Reverting == {"revert", "unlog", "reread", "uncount"}

\* Calls that hold a use the totals and the log tell differently of.
Between == {"log", "write", "reread", "uncount"}

CodeTotals == [usage : Int, utilised : Int]

CodeRow == [id : Nat, user : Code!Users, count : Nat \ {0}, amt : Int]

CodeCall == [op : {"none", "apply", "revert"}, pc : {"idle"} \cup Applying \cup Reverting,
             of : DOMAIN UserOf \cup {0}, saw : CodeTotals, log : SUBSET CodeRow, amt : Int]

CodeTypes ==
    /\ promo \in CodeTotals
    /\ uses \subseteq CodeRow /\ IsFiniteSet(uses)
    /\ inserts \subseteq [id : Callers, user : Code!Users, count : {1}, amt : Int]
    /\ booked \in [DOMAIN UserOf -> [st : {"asked", "accepted", "cancelled", "completed", "expired"},
                                     amt : Int, accepts : Nat]]
    /\ call \in [Callers -> CodeCall]
    /\ raised \in BOOLEAN

\* One call or insertion is under way, and of one row in the log.
CodeAlone ==
    /\ \A c, d \in Callers : Code!Busy(c) /\ Code!Busy(d) => c = d
    /\ \A c \in Callers : Code!Busy(c) => inserts = {}
    /\ \A x, y \in inserts : x = y

\* A user has one row, and a row an id of its own.
OneRowEach ==
    /\ \A x, y \in uses : x.user = y.user \/ x.id = y.id => x = y
    /\ \A x \in inserts, y \in uses : x.user # y.user

\* What a call has read is what is there.
CallKnows(c) ==
    /\ call[c].pc # "idle" => call[c].of \in DOMAIN UserOf
    /\ call[c].pc \in Applying => call[c].op = "apply"
    /\ call[c].pc \in Reverting => call[c].op = "revert"
    /\ call[c].pc \in {"count", "uncount"} => call[c].saw = promo
    /\ call[c].pc = "write" => call[c].log = LogOf(UserOf[call[c].of])
    /\ call[c].pc = "unlog" => call[c].log = LogOf(UserOf[call[c].of]) /\ call[c].log # {}

\* A use that the totals have and the log has not.
OneUse == IF inserts # {} \/ \E c \in Callers : call[c].pc \in Between THEN 1 ELSE 0

CodeCounts == promo.usage = UsesIn(uses) + OneUse

CodeLimits ==
    /\ promo.usage <= TotalLimit
    /\ \A x \in uses : x.count <= UserLimit
    /\ \A c \in Callers :
          /\ call[c].pc \in {"read", "count"} => promo.usage < TotalLimit
          /\ call[c].pc \in {"read", "count", "log", "write"} =>
                \A x \in LogOf(UserOf[call[c].of]) : x.count < UserLimit

\* A total within the budget, or within one discount.
Affordable(n) == n <= Budget \/ \E t \in DOMAIN UserOf : n <= DiscountOf[t]

CodeBudget ==
    ~raised =>
        /\ Affordable(promo.utilised)
        /\ \A c \in Callers :
              call[c].pc \in {"read", "count"} => Affordable(promo.utilised + call[c].amt)

\* A use of the user that the log has not yet, or has no more.
OneOf(u) ==
    IF \/ \E x \in inserts : x.user = u
       \/ \E c \in Callers : call[c].pc \in {"reread", "uncount"} /\ UserOf[call[c].of] = u
    THEN 1 ELSE 0

CodeDiscounts ==
    /\ \A t \in DOMAIN UserOf : LET u == UserOf[t] IN
          /\ IsFiniteSet(Discounted(u))
          /\ u \notin freed => Cardinality(Discounted(u)) <= UsesIn(LogOf(u)) + OneOf(u)
    /\ \A c \in Callers :
          call[c].pc \in Reverting /\ UserOf[call[c].of] \notin freed => booked[call[c].of].amt # 0

CodeGood ==
    /\ CodeTypes /\ CodeAlone /\ OneRowEach /\ \A c \in Callers : CallKnows(c)
    /\ CodeCounts /\ CodeLimits /\ CodeBudget /\ CodeDiscounts

\* What holds as long as no call overlapped with another or failed.
CodeInv == clashed = {} => CodeGood

\* A row more in the log, or less.
LEMMA UsesWith ==
    ASSUME NEW R, R \subseteq CodeRow, IsFiniteSet(R), NEW x \in CodeRow, x \notin R
    PROVE  /\ UsesIn(R) \in Int /\ IsFiniteSet(R \cup {x})
           /\ UsesIn(R \cup {x}) = UsesIn(R) + x.count
<1> DEFINE S == R \cup {x}
           F == [y \in R |-> y.count]
           G == [y \in S |-> y.count]
<1>1. IsFiniteSet(S) /\ S \ {x} = R /\ x \in S
  BY FS_AddElement
<1>2. \A y \in S : G[y] \in Int
  BY DEF CodeRow
<1>3. \A y \in R : F[y] = G[y] /\ F[y] \in Int
  BY DEF CodeRow
<1>4. G[x] = x.count /\ x.count \in Int
  BY DEF CodeRow
<1>5. UsesIn(R) = SumFunctionOnSet(F, R) /\ UsesIn(S) = SumFunctionOnSet(G, S)
  BY DEF UsesIn
<1>. HIDE DEF S, F, G
<1>6. SumFunctionOnSet(F, R) = SumFunctionOnSet(G, R)
  BY <1>3, SumSame
<1>7. SumFunctionOnSet(F, R) \in Int
  BY <1>3, SumType
<1>8. SumFunctionOnSet(G, S) = G[x] + SumFunctionOnSet(G, R)
  BY <1>1, <1>2, SumSplit
<1>. QED BY <1>1, <1>4, <1>5, <1>6, <1>7, <1>8 DEF S

\* The rows of a log tell a number.
LEMMA UsesAreInt ==
    ASSUME NEW R, R \subseteq CodeRow, IsFiniteSet(R)
    PROVE  UsesIn(R) \in Int
<1> DEFINE F == [y \in R |-> y.count]
<1>1. \A y \in R : F[y] \in Int
  BY DEF CodeRow
<1>. HIDE DEF F
<1>2. SumFunctionOnSet(F, R) \in Int
  BY <1>1, SumType
<1>. QED BY <1>2 DEF UsesIn, F

\* No row tells of no use, and one of its count.
LEMMA UsesOfOne ==
    UsesIn({}) = 0 /\ \A x \in CodeRow : UsesIn({x}) = x.count
<1>1. UsesIn({}) = 0
  BY FS_EmptySet, SumStep DEF UsesIn
<1>2. ASSUME NEW x \in CodeRow PROVE UsesIn({x}) = x.count
  <2> DEFINE R == {}
  <2>1. R \subseteq CodeRow /\ IsFiniteSet(R) /\ x \notin R /\ R \cup {x} = {x}
    BY FS_EmptySet
  <2>2. UsesIn(R) = 0
    BY <1>1
  <2>. HIDE DEF R
  <2>3. UsesIn(R \cup {x}) = UsesIn(R) + x.count
    BY <2>1, UsesWith
  <2>4. x.count \in Int
    BY DEF CodeRow
  <2>5. UsesIn(R \cup {x}) = x.count
    BY <2>2, <2>3, <2>4
  <2>6. R \cup {x} = {x}
    BY <2>1
  <2>. QED BY <2>5, <2>6, Zenon
<1>. QED BY <1>1, <1>2

\* A row of the log written over.
LEMMA UsesWritten ==
    ASSUME NEW R, R \subseteq CodeRow, IsFiniteSet(R), NEW x \in R, NEW y \in CodeRow,
           y \notin R \ {x}
    PROVE  LET S == (R \ {x}) \cup {y}
           IN  /\ S \subseteq CodeRow /\ IsFiniteSet(S)
               /\ UsesIn(R) \in Int
               /\ UsesIn(S) = UsesIn(R) + y.count - x.count
<1> DEFINE Q == R \ {x}
<1>1. IsFiniteSet(Q) /\ Q \subseteq CodeRow /\ x \in CodeRow /\ x \notin Q /\ Q \cup {x} = R
  BY FS_RemoveElement
<1>2. x.count \in Int /\ y.count \in Int
  BY <1>1 DEF CodeRow
<1>3. UsesIn(Q) \in Int /\ UsesIn(R) = UsesIn(Q) + x.count
  <2>. HIDE DEF Q
  <2>. QED BY <1>1, UsesWith
<1>4. UsesIn(Q \cup {y}) = UsesIn(Q) + y.count /\ IsFiniteSet(Q \cup {y})
  <2>1. y \notin Q
    OBVIOUS
  <2>. HIDE DEF Q
  <2>. QED BY <1>1, <2>1, UsesWith
<1>5. UsesIn(R) \in Int /\ UsesIn(Q \cup {y}) = UsesIn(R) + y.count - x.count
  <2>. HIDE DEF Q
  <2>. QED BY <1>2, <1>3, <1>4
<1>. QED BY <1>1, <1>4, <1>5

\* With nobody at work there is no call and no insertion.
LEMMA NobodyAtWork ==
    ASSUME CodeGood, UsersAtWork = {}
    PROVE  (\A c \in Callers : call[c].pc = "idle") /\ inserts = {}
<1>1. DOMAIN call = Callers
  BY DEF CodeGood, CodeTypes
<1>2. \A c \in Callers : call[c].pc = "idle"
  BY <1>1 DEF UsersAtWork
<1>3. inserts = {}
  BY DEF UsersAtWork
<1>. QED BY <1>2, <1>3

\* A call begins when none is under way.
LEMMA CallStarts ==
    ASSUME CodeGood, clashed = {}, clashed' = {}, NEW c \in Callers, NEW op \in {"apply", "revert"},
           NEW t \in DOMAIN UserOf, Code!Start(c, op, t)
    PROVE  /\ \A d \in Callers : call[d].pc = "idle"
           /\ inserts = {}
           /\ \E r \in CodeCall :
                 /\ r.op = op /\ r.pc = op /\ r.of = t
                 /\ call' = [call EXCEPT ![c] = r]
<1>1. UsersAtWork = {}
  BY DEF Code!Start, Code!UsersAtWork, UsersAtWork
<1>2. (\A d \in Callers : call[d].pc = "idle") /\ inserts = {}
  BY <1>1, NobodyAtWork
<1> DEFINE r == [Code!NoCall EXCEPT !.op = op, !.pc = op, !.of = t]
<1>5. r \in CodeCall /\ r.op = op /\ r.pc = op /\ r.of = t
  <2>1. Code!NoCall \in CodeCall
    BY DEF Code!NoCall, CodeCall, CodeTotals
  <2>. QED BY <2>1 DEF CodeCall, Applying, Reverting
<1>6. call' = [call EXCEPT ![c] = r]
  BY DEF Code!Start
<1>. QED BY <1>2, <1>5, <1>6

\* An acceptance begins an application.
LEMMA AcceptGood ==
    ASSUME CodeGood, clashed = {}, clashed' = {}, NEW c \in Callers, NEW t \in DOMAIN UserOf,
           Code!Accept(c, t)
    PROVE  CodeGood'
<1>1. PICK r \in CodeCall : r.pc = "apply" /\ r.op = "apply" /\ r.of = t
                            /\ call' = [call EXCEPT ![c] = r]
  BY CallStarts DEF Code!Accept
<1>2. /\ \A d \in Callers : call[d].pc = "idle"
      /\ inserts = {}
      /\ UNCHANGED <<promo, uses, inserts, freed, raised>>
      /\ booked' = [booked EXCEPT ![t].accepts = @ + 1]
  BY CallStarts DEF Code!Accept
<1>3. /\ \A u : Discounted(u)' = Discounted(u)
      /\ \A u : LogOf(u)' = LogOf(u)
  BY <1>1, <1>2 DEF CodeGood, CodeTypes, Discounted, LogOf
<1>4. CodeTypes'
  BY <1>1, <1>2 DEF CodeGood, CodeTypes
<1>5. CodeAlone' /\ OneRowEach'
  BY <1>1, <1>2 DEF CodeGood, CodeTypes, CodeAlone, OneRowEach, Code!Busy
<1>6. \A d \in Callers : CallKnows(d)'
  BY <1>1, <1>2 DEF CodeGood, CodeTypes, CallKnows, Applying, Reverting
<1>7. OneUse' = OneUse /\ \A u : OneOf(u)' = OneOf(u)
  BY <1>1, <1>2 DEF CodeGood, CodeTypes, OneUse, OneOf, Between
<1>8. CodeCounts'
  BY <1>1, <1>2, <1>7 DEF CodeGood, CodeCounts
<1>9. CodeLimits' /\ CodeBudget'
  BY <1>1, <1>2, <1>3 DEF CodeGood, CodeTypes, CodeLimits, CodeBudget, Affordable
<1>10. CodeDiscounts'
  BY <1>1, <1>2, <1>3, <1>7 DEF CodeGood, CodeTypes, CodeDiscounts, Reverting
<1>. QED BY <1>4, <1>5, <1>6, <1>8, <1>9, <1>10 DEF CodeGood


\* A trip goes from one state to another and no call is made.
LEMMA StateGood ==
    ASSUME CodeGood, NEW t \in DOMAIN UserOf, NEW v \in {"asked", "completed", "expired"},
           booked' = [booked EXCEPT ![t].st = v],
           UNCHANGED <<promo, uses, inserts, call, clashed, freed, raised>>
    PROVE  CodeGood'
<1>1. CodeTypes'
  BY DEF CodeGood, CodeTypes
<1>2. /\ \A s \in DOMAIN UserOf : booked'[s].amt = booked[s].amt
      /\ \A u : LogOf(u)' = LogOf(u)
      /\ OneUse' = OneUse /\ \A u : OneOf(u)' = OneOf(u)
  BY DEF CodeGood, CodeTypes, LogOf, OneUse, OneOf
<1>3. \A u : Discounted(u)' = Discounted(u)
  BY <1>2 DEF Discounted
<1>4. CodeAlone' /\ OneRowEach'
  BY DEF CodeGood, CodeAlone, OneRowEach, Code!Busy
<1>5. \A d \in Callers : CallKnows(d)'
  BY <1>2 DEF CodeGood, CallKnows
<1>6. CodeCounts'
  BY <1>2 DEF CodeGood, CodeCounts
<1>7. CodeLimits' /\ CodeBudget'
  BY <1>2 DEF CodeGood, CodeLimits, CodeBudget, Affordable
<1>8. CodeDiscounts'
  BY <1>2, <1>3 DEF CodeGood, CodeTypes, CallKnows, CodeDiscounts, Reverting
<1>. QED BY <1>1, <1>4, <1>5, <1>6, <1>7, <1>8 DEF CodeGood

\* A cancellation begins a reversal.
LEMMA CancelGood ==
    ASSUME CodeGood, clashed = {}, clashed' = {}, NEW c \in Callers, NEW t \in DOMAIN UserOf,
           Code!Cancel(c, t)
    PROVE  CodeGood'
<1>1. PICK r \in CodeCall : r.pc = "revert" /\ r.op = "revert" /\ r.of = t
                            /\ call' = [call EXCEPT ![c] = r]
  BY CallStarts DEF Code!Cancel
<1>2. /\ \A d \in Callers : call[d].pc = "idle"
      /\ inserts = {}
      /\ UNCHANGED <<promo, uses, inserts, booked, raised>>
      /\ freed \subseteq freed'
      /\ UserOf[t] \notin freed' => booked[t].amt # 0
  BY CallStarts DEF Code!Cancel
<1>3. /\ \A u : Discounted(u)' = Discounted(u)
      /\ \A u : LogOf(u)' = LogOf(u)
  BY <1>1, <1>2 DEF CodeGood, CodeTypes, Discounted, LogOf
<1>4. CodeTypes'
  BY <1>1, <1>2 DEF CodeGood, CodeTypes
<1>5. CodeAlone' /\ OneRowEach'
  BY <1>1, <1>2 DEF CodeGood, CodeTypes, CodeAlone, OneRowEach, Code!Busy
<1>6. \A d \in Callers : CallKnows(d)'
  BY <1>1, <1>2 DEF CodeGood, CodeTypes, CallKnows, Applying, Reverting
<1>7. OneUse' = OneUse /\ \A u : OneOf(u)' = OneOf(u)
  BY <1>1, <1>2 DEF CodeGood, CodeTypes, OneUse, OneOf, Between
<1>8. CodeCounts'
  BY <1>1, <1>2, <1>7 DEF CodeGood, CodeCounts
<1>9. CodeLimits' /\ CodeBudget'
  BY <1>1, <1>2, <1>3 DEF CodeGood, CodeTypes, CodeLimits, CodeBudget, Affordable
<1>10. CodeDiscounts'
  BY <1>1, <1>2, <1>3, <1>7 DEF CodeGood, CodeTypes, CodeDiscounts, Reverting
<1>. QED BY <1>4, <1>5, <1>6, <1>8, <1>9, <1>10 DEF CodeGood

\* Beside a call at work nothing is under way.
LEMMA CallIsAlone ==
    ASSUME CodeGood, NEW c \in Callers, call[c].pc # "idle"
    PROVE  /\ \A d \in Callers : d # c => call[d].pc = "idle"
           /\ inserts = {}
           /\ call[c] \in CodeCall /\ call[c].of \in DOMAIN UserOf
           /\ CallKnows(c)
BY DEF CodeGood, CodeTypes, CodeAlone, CallKnows, Code!Busy

\* What an answer leaves of the calls and of the trips.
LEMMA Answered ==
    ASSUME CodeGood, NEW c \in Callers, call[c].pc # "idle", NEW a \in Int,
           Code!Answer(c, a)
    PROVE  /\ call' \in [Callers -> CodeCall]
           /\ booked' \in [DOMAIN UserOf ->
                  [st : {"asked", "accepted", "cancelled", "completed", "expired"},
                   amt : Int, accepts : Nat]]
           /\ \A d \in Callers : call'[d].pc = "idle"
           /\ \A s \in DOMAIN UserOf : s # call[c].of => booked'[s] = booked[s]
           /\ booked'[call[c].of].amt = IF call[c].op = "apply" THEN a ELSE 0
<1> DEFINE t == call[c].of
           b == [booked[t] EXCEPT !.st = "accepted", !.amt = a]
           e == [booked[t] EXCEPT !.st = "cancelled", !.amt = 0]
           R == [st : {"asked", "accepted", "cancelled", "completed", "expired"},
                 amt : Int, accepts : Nat]
<1>1. t \in DOMAIN UserOf /\ \A d \in Callers : d # c => call[d].pc = "idle"
  BY CallIsAlone
<1>2. call' = [call EXCEPT ![c] = Code!NoCall]
      /\ booked' = [booked EXCEPT ![t] = IF call[c].op = "apply" THEN b ELSE e]
  BY DEF Code!Answer
<1>3. Code!NoCall \in CodeCall /\ Code!NoCall.pc = "idle"
  BY DEF Code!NoCall, CodeCall, CodeTotals
<1>4. booked \in [DOMAIN UserOf -> R] /\ call \in [Callers -> CodeCall]
  BY DEF CodeGood, CodeTypes
<1>5. b \in R /\ e \in R /\ b.amt = a /\ e.amt = 0
  <2>1. booked[t] \in R
    BY <1>1, <1>4
  <2>2. \A o \in R : /\ [o EXCEPT !.st = "accepted", !.amt = a] \in R
                     /\ [o EXCEPT !.st = "accepted", !.amt = a].amt = a
                     /\ [o EXCEPT !.st = "cancelled", !.amt = 0] \in R
                     /\ [o EXCEPT !.st = "cancelled", !.amt = 0].amt = 0
    <3>. TAKE o \in R
    <3>1. [o EXCEPT !.st = "accepted", !.amt = a] \in R
      OBVIOUS
    <3>2. [o EXCEPT !.st = "accepted", !.amt = a].amt = a
      OBVIOUS
    <3>3. [o EXCEPT !.st = "cancelled", !.amt = 0] \in R
      <4>1. \A n \in Int : [o EXCEPT !.st = "cancelled", !.amt = n] \in R
        OBVIOUS
      <4>2. 0 \in Int
        OBVIOUS
      <4>. HIDE DEF R
      <4>. QED BY <4>1, <4>2, Zenon
    <3>4. [o EXCEPT !.st = "cancelled", !.amt = 0].amt = 0
      OBVIOUS
    <3>. QED BY <3>1, <3>2, <3>3, <3>4
  <2>. HIDE DEF R, t
  <2>. QED BY <2>1, <2>2
<1>6. call' \in [Callers -> CodeCall] /\ \A d \in Callers : call'[d].pc = "idle"
  <2>. HIDE DEF t, b, e
  <2>. QED BY <1>1, <1>2, <1>3, <1>4
<1>7. booked' \in [DOMAIN UserOf -> R]
  <2>. HIDE DEF R, b, e, t
  <2>. QED BY <1>1, <1>2, <1>4, <1>5
<1>8. /\ \A s \in DOMAIN UserOf : s # t => booked'[s] = booked[s]
      /\ booked'[t] = IF call[c].op = "apply" THEN b ELSE e
  <2>. HIDE DEF b, e, t, R
  <2>. QED BY <1>1, <1>2, <1>4
<1>. QED BY <1>5, <1>6, <1>7, <1>8

\* With an answer without a discount, the user has as many or one less; with any
\* other, one more at most.
LEMMA AnsweredDiscounts ==
    ASSUME CodeGood, NEW c \in Callers, call[c].pc # "idle", NEW a \in Int,
           Code!Answer(c, a), NEW s \in DOMAIN UserOf
    PROVE  LET u == UserOf[s]
               t == call[c].of
           IN  /\ IsFiniteSet(Discounted(u)) /\ Cardinality(Discounted(u)) \in Nat
               /\ IsFiniteSet(Discounted(u)') /\ Cardinality(Discounted(u)') \in Nat
               /\ u # UserOf[t] => Discounted(u)' = Discounted(u)
               /\ Cardinality(Discounted(u)') <= Cardinality(Discounted(u)) + 1
               /\ call[c].op = "revert" \/ a = 0 =>
                     /\ Cardinality(Discounted(u)') <= Cardinality(Discounted(u))
                     /\ u = UserOf[t] /\ booked[t].amt # 0 =>
                           Cardinality(Discounted(u)') = Cardinality(Discounted(u)) - 1
<1> DEFINE u == UserOf[s]
           t == call[c].of
           D == Discounted(u)
           E == Discounted(u)'
<1>1. t \in DOMAIN UserOf
  BY CallIsAlone
<1>2. /\ \A q \in DOMAIN UserOf : q # t => booked'[q] = booked[q]
      /\ booked'[t].amt = IF call[c].op = "apply" THEN a ELSE 0
  BY Answered
<1>3. IsFiniteSet(D)
  BY DEF CodeGood, CodeDiscounts
<1>4. u # UserOf[t] => E = D
  BY <1>1, <1>2 DEF Discounted
<1>5. E \subseteq D \cup {t}
  BY <1>1, <1>2 DEF Discounted
<1>6. call[c].op = "revert" \/ a = 0 => E = D \ {t}
  BY <1>1, <1>2 DEF Discounted
<1>7. u = UserOf[t] /\ booked[t].amt # 0 => t \in D
  BY <1>1 DEF Discounted
<1> HIDE DEF D, E, u, t
<1>8. /\ IsFiniteSet(D \ {t}) /\ IsFiniteSet(D \cup {t})
      /\ Cardinality(D) \in Nat /\ Cardinality(D \cup {t}) \in Nat /\ Cardinality(D \ {t}) \in Nat
      /\ Cardinality(D \ {t}) = IF t \in D THEN Cardinality(D) - 1 ELSE Cardinality(D)
      /\ Cardinality(D \cup {t}) <= Cardinality(D) + 1
  <2>1. IsFiniteSet(D \ {t}) /\ IsFiniteSet(D \cup {t})
    BY <1>3, FS_RemoveElement, FS_AddElement
  <2>2. Cardinality(D) \in Nat /\ Cardinality(D \cup {t}) \in Nat /\ Cardinality(D \ {t}) \in Nat
    BY <1>3, <2>1, FS_CardinalityType
  <2>3. Cardinality(D \ {t}) = IF t \in D THEN Cardinality(D) - 1 ELSE Cardinality(D)
    BY <1>3, FS_RemoveElement
  <2>4. Cardinality(D \cup {t}) = IF t \in D THEN Cardinality(D) ELSE Cardinality(D) + 1
    BY <1>3, FS_AddElement
  <2>. QED BY <2>1, <2>2, <2>3, <2>4
<1>9. /\ IsFiniteSet(E) /\ Cardinality(E) \in Nat
      /\ Cardinality(E) <= Cardinality(D \cup {t})
  BY <1>5, <1>8, FS_Subset, FS_CardinalityType
<1>10. Cardinality(E) <= Cardinality(D) + 1
  BY <1>8, <1>9
<1>11. ASSUME call[c].op = "revert" \/ a = 0
       PROVE  /\ Cardinality(E) <= Cardinality(D)
              /\ u = UserOf[t] /\ booked[t].amt # 0 => Cardinality(E) = Cardinality(D) - 1
  <2>1. Cardinality(E) = Cardinality(D \ {t})
    BY <1>6, <1>11
  <2>. QED BY <2>1, <1>7, <1>8
<1>. QED BY <1>3, <1>4, <1>8, <1>9, <1>10, <1>11 DEF D, E, u, t


\* What is read does not change the log, the totals or the trips.
LEMMA ReadGood ==
    ASSUME CodeGood, NEW c \in Callers, call[c].pc # "idle", NEW r \in CodeCall,
           call' = [call EXCEPT ![c] = r], r.of = call[c].of, r.op = call[c].op,
           UNCHANGED <<promo, uses, inserts, booked, clashed, freed, raised>>,
           <<call[c].pc, r.pc>> \in {<<"apply", "read">>, <<"read", "count">>, <<"log", "write">>,
                                     <<"revert", "unlog">>, <<"reread", "uncount">>},
           CallKnows(c)',
           r.pc \in {"read", "count"} =>
               /\ promo.usage < TotalLimit
               /\ \A x \in LogOf(UserOf[r.of]) : x.count < UserLimit
               /\ ~raised => Affordable(promo.utilised + r.amt)
    PROVE  CodeGood'
<1>1. /\ \A d \in Callers : d # c => call[d].pc = "idle"
      /\ call[c].of \in DOMAIN UserOf
  BY CallIsAlone
<1>2. /\ call' \in [Callers -> CodeCall] /\ call'[c] = r
      /\ \A d \in Callers : d # c => call'[d] = call[d]
  BY DEF CodeGood, CodeTypes
<1>3. /\ \A u : Discounted(u)' = Discounted(u)
      /\ \A u : LogOf(u)' = LogOf(u)
  BY DEF Discounted, LogOf
<1>4. CodeTypes'
  BY <1>2 DEF CodeGood, CodeTypes
<1>5. CodeAlone' /\ OneRowEach'
  BY <1>1, <1>2 DEF CodeGood, CodeAlone, OneRowEach, Code!Busy
<1>6. \A d \in Callers : CallKnows(d)'
  <2>. TAKE d \in Callers
  <2>1. CASE d = c
    BY <2>1
  <2>2. CASE d # c
    <3>1. CallKnows(d) /\ call'[d] = call[d]
      BY <1>2, <2>2 DEF CodeGood
    <3>. QED BY <1>3, <3>1 DEF CallKnows
  <2>. QED BY <2>1, <2>2
<1>7. \A d \in Callers : /\ call'[d].pc \in Between <=> call[d].pc \in Between
                         /\ call'[d].pc \in {"reread", "uncount"} <=>
                                call[d].pc \in {"reread", "uncount"}
                         /\ call'[d].of = call[d].of
  BY <1>2 DEF Between
<1>8. OneUse' = OneUse /\ \A u : OneOf(u)' = OneOf(u)
  <2>1. OneUse' = OneUse
    BY <1>7 DEF OneUse
  <2>2. \A u : OneOf(u)' = OneOf(u)
    BY <1>7 DEF OneOf
  <2>. QED BY <2>1, <2>2
<1>9. CodeCounts'
  BY <1>8 DEF CodeGood, CodeCounts
<1>10. CodeLimits'
  BY <1>1, <1>2, <1>3 DEF CodeGood, CodeLimits
<1>11. CodeBudget'
  BY <1>1, <1>2 DEF CodeGood, CodeBudget, Affordable
<1>12. CodeDiscounts'
  BY <1>1, <1>2, <1>3, <1>8 DEF CodeGood, CodeDiscounts, Reverting
<1>. QED BY <1>4, <1>5, <1>6, <1>9, <1>10, <1>11, <1>12 DEF CodeGood

\* An answer to a call that has counted nothing leaves the uses as they are.
LEMMA RefusedGood ==
    ASSUME CodeGood, NEW c \in Callers, call[c].pc \in {"apply", "revert"},
           Code!Answer(c, 0), UNCHANGED <<promo, uses, inserts, clashed, freed, raised>>
    PROVE  CodeGood'
<1>1. /\ \A d \in Callers : d # c => call[d].pc = "idle"
      /\ call[c].of \in DOMAIN UserOf
  BY CallIsAlone
<1>2. 0 \in Int
  OBVIOUS
<1>3. /\ call' \in [Callers -> CodeCall] /\ \A d \in Callers : call'[d].pc = "idle"
      /\ booked' \in [DOMAIN UserOf ->
             [st : {"asked", "accepted", "cancelled", "completed", "expired"},
              amt : Int, accepts : Nat]]
  BY <1>2, Answered
<1>4. \A u : LogOf(u)' = LogOf(u)
  BY DEF LogOf
<1>5. CodeTypes'
  BY <1>3 DEF CodeGood, CodeTypes
<1>6. CodeAlone' /\ OneRowEach'
  BY <1>3 DEF CodeGood, CodeAlone, OneRowEach, Code!Busy
<1>7. \A d \in Callers : CallKnows(d)'
  BY <1>3 DEF CallKnows, Applying, Reverting
<1>8. inserts = {}
  BY CallIsAlone
<1>9. OneUse = 0 /\ OneUse' = 0 /\ \A u : OneOf(u) = 0 /\ OneOf(u)' = 0
  BY <1>1, <1>3, <1>8 DEF OneUse, OneOf, Between
<1>10. CodeCounts'
  BY <1>9 DEF CodeGood, CodeCounts
<1>11. CodeLimits' /\ CodeBudget'
  BY <1>3 DEF CodeGood, CodeLimits, CodeBudget, Affordable
<1>12. CodeDiscounts'
  <2>1. ASSUME NEW s \in DOMAIN UserOf
        PROVE  /\ IsFiniteSet(Discounted(UserOf[s])')
               /\ UserOf[s] \notin freed' =>
                     Cardinality(Discounted(UserOf[s])') <= UsesIn(LogOf(UserOf[s]))' + OneOf(UserOf[s])'
    <3> DEFINE u == UserOf[s]
    <3>1. /\ IsFiniteSet(Discounted(u)')
          /\ Cardinality(Discounted(u)') \in Nat /\ Cardinality(Discounted(u)) \in Nat
          /\ Cardinality(Discounted(u)') <= Cardinality(Discounted(u))
      BY <1>2, AnsweredDiscounts
    <3>2. u \notin freed => Cardinality(Discounted(u)) <= UsesIn(LogOf(u)) + 0
      BY <1>9 DEF CodeGood, CodeDiscounts
    <3>3. UsesIn(LogOf(u))' = UsesIn(LogOf(u)) /\ UsesIn(LogOf(u)) \in Int
      <4>1. uses \subseteq CodeRow /\ IsFiniteSet(LogOf(u))
        BY FS_Subset DEF CodeGood, CodeTypes, LogOf
      <4>2. UsesIn(LogOf(u)) \in Int
        BY <4>1, UsesAreInt DEF LogOf
      <4>. QED BY <4>2, <1>4 DEF UsesIn
    <3>. QED BY <1>9, <3>1, <3>2, <3>3
  <2>. QED BY <2>1, <1>3 DEF CodeDiscounts, Reverting
<1>. QED BY <1>5, <1>6, <1>7, <1>10, <1>11, <1>12 DEF CodeGood


\* What validatePromoCode lets through keeps the total affordable.
LEMMA AmountAffordable ==
    ASSUME CodeGood, NEW t \in DOMAIN UserOf, promo.utilised < Budget
    PROVE  Code!Amount(t) \in Int /\ Affordable(promo.utilised + Code!Amount(t))
<1>1. promo.utilised \in Int
  BY DEF CodeGood, CodeTypes, CodeTotals
<1>2. Budget \in Nat /\ DiscountOf[t] \in Nat
  BY LimitsAssumption
<1>3. CASE promo.utilised # 0 /\ DiscountOf[t] + promo.utilised > Budget
  <2>1. Code!Amount(t) = promo.utilised - Budget
    BY <1>3 DEF Code!Amount
  <2>2. promo.utilised + (promo.utilised - Budget) <= Budget
    BY <1>1, <1>2
  <2>. QED BY <1>1, <1>2, <2>1, <2>2 DEF Affordable
<1>4. CASE ~(promo.utilised # 0 /\ DiscountOf[t] + promo.utilised > Budget)
  <2>1. Code!Amount(t) = DiscountOf[t]
    BY <1>4 DEF Code!Amount
  <2>2. promo.utilised + DiscountOf[t] <= Budget \/ promo.utilised + DiscountOf[t] <= DiscountOf[t]
    BY <1>1, <1>2, <1>4
  <2>. QED BY <1>2, <2>1, <2>2 DEF Affordable
<1>. QED BY <1>3, <1>4

\* validatePromoCode
LEMMA ValidateGood ==
    ASSUME CodeGood, NEW c \in Callers, Code!Validate(c)
    PROVE  CodeGood'
<1> DEFINE t == call[c].of
           r == [call[c] EXCEPT !.pc = "read", !.amt = Code!Amount(t)]
<1>1. /\ call[c].pc = "apply" /\ call[c].op = "apply"
      /\ UNCHANGED <<promo, uses, inserts, clashed, freed, raised>>
  BY DEF Code!Validate, CodeGood, CallKnows, Applying
<1>2. call[c] \in CodeCall /\ t \in DOMAIN UserOf
  BY <1>1, CallIsAlone
<1>3. CASE Code!Answer(c, 0)
  BY <1>1, <1>3, RefusedGood
<1>4. CASE /\ Code!WithinLimits(UserOf[t])
           /\ call' = [call EXCEPT ![c].pc = "read", ![c].amt = Code!Amount(t)]
           /\ UNCHANGED booked
  <2>1. /\ promo.usage < TotalLimit /\ promo.utilised < Budget
        /\ \A x \in LogOf(UserOf[t]) : x.count < UserLimit
    BY <1>4 DEF Code!WithinLimits, Code!LogOf, LogOf
  <2>2. Code!Amount(t) \in Int /\ Affordable(promo.utilised + Code!Amount(t))
    BY <1>2, <2>1, AmountAffordable
  <2>3. /\ r \in CodeCall
        /\ r.of = t /\ r.op = "apply" /\ r.pc = "read" /\ r.amt = Code!Amount(t)
    BY <1>1, <1>2, <2>2 DEF CodeCall, Applying
  <2>4. call' = [call EXCEPT ![c] = r]
    BY <1>4
  <2>5. call' [c] = r
    BY <2>4 DEF CodeGood, CodeTypes
  <2>6. CallKnows(c)'
    BY <1>2, <2>3, <2>5 DEF CallKnows, Applying, Reverting
  <2>. HIDE DEF r, t
  <2>. QED BY <1>1, <1>4, <2>1, <2>2, <2>3, <2>4, <2>6, ReadGood DEF t
<1>. QED BY <1>3, <1>4 DEF Code!Validate

\* The second read of the totals.
LEMMA ReadPromoGood ==
    ASSUME CodeGood, NEW c \in Callers, Code!ReadPromo(c)
    PROVE  CodeGood'
<1> DEFINE r == [call[c] EXCEPT !.pc = "count", !.saw = promo]
<1>1. /\ call[c].pc = "read" /\ call' = [call EXCEPT ![c] = r]
      /\ UNCHANGED <<promo, uses, inserts, booked, clashed, freed, raised>>
  BY DEF Code!ReadPromo
<1>2. call[c] \in CodeCall /\ call[c].of \in DOMAIN UserOf /\ call[c].op = "apply"
  BY <1>1, CallIsAlone DEF CallKnows, Applying
<1>3. promo \in CodeTotals
  BY DEF CodeGood, CodeTypes
<1>4. r \in CodeCall
  BY <1>2, <1>3 DEF CodeCall, Applying
<1>5. /\ r.of = call[c].of /\ r.op = "apply" /\ r.pc = "count" /\ r.amt = call[c].amt
      /\ r.saw = promo
  BY <1>2 DEF CodeCall
<1>6. call'[c] = r
  BY <1>1 DEF CodeGood, CodeTypes
<1>7. CallKnows(c)'
  BY <1>1, <1>2, <1>5, <1>6 DEF CallKnows, Applying, Reverting
<1>8. /\ promo.usage < TotalLimit
      /\ \A x \in LogOf(UserOf[call[c].of]) : x.count < UserLimit
      /\ ~raised => Affordable(promo.utilised + call[c].amt)
  BY <1>1 DEF CodeGood, CodeLimits, CodeBudget
<1>. HIDE DEF r
<1>. QED BY <1>1, <1>2, <1>4, <1>5, <1>7, <1>8, ReadGood

\* The read of the user's row by createLog.
LEMMA ReadLogGood ==
    ASSUME CodeGood, NEW c \in Callers, Code!ReadLog(c)
    PROVE  CodeGood'
<1> DEFINE u == UserOf[call[c].of]
<1>1. /\ call[c].pc = "log"
      /\ UNCHANGED <<promo, uses, inserts, booked, clashed, freed, raised>>
  BY DEF Code!ReadLog
<1>2. call[c] \in CodeCall /\ call[c].of \in DOMAIN UserOf /\ call[c].op = "apply"
  BY <1>1, CallIsAlone DEF CallKnows, Applying
<1>3. \A y \in LogOf(u) : LogOf(u) = {y}
  BY DEF LogOf, CodeGood, OneRowEach
<1>4. LogOf(u) \in SUBSET CodeRow
  BY DEF LogOf, CodeGood, CodeTypes
<1>5. PICK x : /\ x \in {{}} \cup {{y} : y \in LogOf(u)}
               /\ x = {} <=> LogOf(u) = {}
               /\ call' = [call EXCEPT ![c].pc = "write", ![c].log = x]
  BY DEF Code!ReadLog, Code!LogOf, LogOf
<1>6. x = LogOf(u)
  BY <1>3, <1>5
<1> DEFINE r == [call[c] EXCEPT !.pc = "write", !.log = x]
<1>7. call' = [call EXCEPT ![c] = r]
  BY <1>5
<1>8. r \in CodeCall
  <2>1. x \in SUBSET CodeRow
    BY <1>4, <1>6
  <2>. QED BY <1>2, <2>1 DEF CodeCall, Applying
<1>9. r.of = call[c].of /\ r.op = "apply" /\ r.pc = "write" /\ r.log = x
  BY <1>2 DEF CodeCall
<1>10. call'[c] = r
  BY <1>7 DEF CodeGood, CodeTypes
<1>11. CallKnows(c)'
  BY <1>1, <1>2, <1>6, <1>9, <1>10 DEF CallKnows, Applying, Reverting, LogOf
<1>. HIDE DEF r
<1>. QED BY <1>1, <1>2, <1>7, <1>8, <1>9, <1>11, ReadGood

\* The read of the user's row by revertLog.
LEMMA FindLogGood ==
    ASSUME CodeGood, NEW c \in Callers, Code!FindLog(c)
    PROVE  CodeGood'
<1> DEFINE u == UserOf[call[c].of]
<1>1. /\ call[c].pc = "revert"
      /\ UNCHANGED <<promo, uses, inserts, clashed, freed, raised>>
  BY DEF Code!FindLog
<1>2. call[c] \in CodeCall /\ call[c].of \in DOMAIN UserOf /\ call[c].op = "revert"
  BY <1>1, CallIsAlone DEF CallKnows, Reverting
<1>3. CASE Code!Answer(c, 0)
  BY <1>1, <1>3, RefusedGood
<1>4. CASE UNCHANGED booked /\ \E x \in LogOf(u) :
               call' = [call EXCEPT ![c].pc = "unlog", ![c].log = {x}]
  <2>1. PICK x \in LogOf(u) : call' = [call EXCEPT ![c].pc = "unlog", ![c].log = {x}]
    BY <1>4
  <2>2. LogOf(u) = {x} /\ x \in CodeRow
    BY DEF LogOf, CodeGood, OneRowEach, CodeTypes
  <2> DEFINE r == [call[c] EXCEPT !.pc = "unlog", !.log = {x}]
  <2>3. call' = [call EXCEPT ![c] = r]
    BY <2>1
  <2>4. r \in CodeCall
    <3>1. {x} \in SUBSET CodeRow
      BY <2>2
    <3>. QED BY <1>2, <3>1 DEF CodeCall, Reverting
  <2>5. r.of = call[c].of /\ r.op = "revert" /\ r.pc = "unlog" /\ r.log = {x}
    BY <1>2 DEF CodeCall
  <2>6. call'[c] = r
    BY <2>3 DEF CodeGood, CodeTypes
  <2>7. CallKnows(c)'
    BY <1>1, <1>2, <2>2, <2>5, <2>6 DEF CallKnows, Applying, Reverting, LogOf
  <2>. HIDE DEF r
  <2>. QED BY <1>1, <1>2, <1>4, <2>3, <2>4, <2>5, <2>7, ReadGood
<1>. QED BY <1>3, <1>4 DEF Code!FindLog, Code!LogOf, LogOf

\* The read of the totals by revertCode.
LEMMA RereadPromoGood ==
    ASSUME CodeGood, NEW c \in Callers, Code!RereadPromo(c)
    PROVE  CodeGood'
<1> DEFINE r == [call[c] EXCEPT !.pc = "uncount", !.saw = promo]
<1>1. /\ call[c].pc = "reread" /\ call' = [call EXCEPT ![c] = r]
      /\ UNCHANGED <<promo, uses, inserts, booked, clashed, freed, raised>>
  BY DEF Code!RereadPromo
<1>2. call[c] \in CodeCall /\ call[c].of \in DOMAIN UserOf /\ call[c].op = "revert"
  BY <1>1, CallIsAlone DEF CallKnows, Reverting
<1>3. promo \in CodeTotals
  BY DEF CodeGood, CodeTypes
<1>4. r \in CodeCall
  BY <1>2, <1>3 DEF CodeCall, Reverting
<1>5. r.of = call[c].of /\ r.op = "revert" /\ r.pc = "uncount" /\ r.saw = promo
  BY <1>2 DEF CodeCall
<1>6. call'[c] = r
  BY <1>1 DEF CodeGood, CodeTypes
<1>7. CallKnows(c)'
  BY <1>1, <1>2, <1>5, <1>6 DEF CallKnows, Applying, Reverting
<1>. HIDE DEF r
<1>. QED BY <1>1, <1>2, <1>4, <1>5, <1>7, ReadGood


\* applyCode writes the totals.
LEMMA CountGood ==
    ASSUME CodeGood, NEW c \in Callers, Code!Count(c)
    PROVE  CodeGood'
<1> DEFINE r == [call[c] EXCEPT !.pc = "log"]
<1>1. /\ call[c].pc = "count" /\ call' = [call EXCEPT ![c] = r]
      /\ UNCHANGED <<uses, inserts, booked, clashed, freed, raised>>
  BY DEF Code!Count
<1>2. /\ call[c] \in CodeCall /\ call[c].of \in DOMAIN UserOf /\ call[c].op = "apply"
      /\ call[c].saw = promo /\ inserts = {}
      /\ \A d \in Callers : d # c => call[d].pc = "idle"
  BY <1>1, CallIsAlone DEF CallKnows, Applying
<1>3. promo \in CodeTotals /\ call[c].amt \in Int
  BY <1>2 DEF CodeGood, CodeTypes, CodeCall
<1>4. promo' = [usage |-> promo.usage + 1, utilised |-> promo.utilised + call[c].amt]
  BY <1>2 DEF Code!Count
<1>5. /\ promo' \in CodeTotals
      /\ promo'.usage = promo.usage + 1 /\ promo'.utilised = promo.utilised + call[c].amt
  BY <1>3, <1>4 DEF CodeTotals
<1>6. r \in CodeCall /\ r.of = call[c].of /\ r.op = "apply" /\ r.pc = "log"
  BY <1>2 DEF CodeCall, Applying
<1>. HIDE DEF r
<1>7. /\ call' \in [Callers -> CodeCall] /\ call'[c] = r
      /\ \A d \in Callers : d # c => call'[d] = call[d]
  BY <1>1, <1>6 DEF CodeGood, CodeTypes
<1>8. /\ \A u : Discounted(u)' = Discounted(u)
      /\ \A u : LogOf(u)' = LogOf(u)
  BY <1>1 DEF Discounted, LogOf
<1>9. CodeTypes'
  BY <1>1, <1>5, <1>7 DEF CodeGood, CodeTypes
<1>10. CodeAlone' /\ OneRowEach'
  BY <1>1, <1>2, <1>6, <1>7 DEF CodeGood, CodeAlone, OneRowEach, Code!Busy
<1>11. \A d \in Callers : CallKnows(d)'
  BY <1>2, <1>6, <1>7 DEF CallKnows, Applying, Reverting
<1>12. OneUse = 0 /\ OneUse' = 1 /\ \A u : OneOf(u) = 0 /\ OneOf(u)' = 0
  BY <1>1, <1>2, <1>6, <1>7 DEF OneUse, OneOf, Between
<1>13. CodeCounts'
  <2>1. UsesIn(uses) \in Int
    BY UsesAreInt DEF CodeGood, CodeTypes
  <2>2. UsesIn(uses)' = UsesIn(uses)
    BY <1>1 DEF UsesIn
  <2>. QED BY <1>3, <1>5, <1>12, <2>1, <2>2 DEF CodeGood, CodeCounts, CodeTotals
<1>14. CodeLimits'
  <2>1. promo.usage < TotalLimit /\ \A x \in LogOf(UserOf[call[c].of]) : x.count < UserLimit
    BY <1>1 DEF CodeGood, CodeLimits
  <2>2. promo'.usage <= TotalLimit
    BY <1>3, <1>5, <2>1, LimitsAssumption DEF CodeTotals
  <2>3. \A x \in uses' : x.count <= UserLimit
    BY <1>1 DEF CodeGood, CodeLimits
  <2>. QED BY <1>2, <1>6, <1>7, <1>8, <2>1, <2>2, <2>3 DEF CodeLimits
<1>15. CodeBudget'
  BY <1>1, <1>2, <1>5, <1>6, <1>7 DEF CodeGood, CodeBudget, Affordable
<1>16. CodeDiscounts'
  BY <1>1, <1>2, <1>6, <1>7, <1>8, <1>12 DEF CodeGood, CodeDiscounts, Reverting
<1>. QED BY <1>9, <1>10, <1>11, <1>13, <1>14, <1>15, <1>16 DEF CodeGood

\* A row of the log written over by another of the same user.
LEMMA RowWritten ==
    ASSUME CodeGood, NEW x \in uses, NEW y \in CodeRow, y.id = x.id, y.user = x.user,
           uses' = (uses \ {x}) \cup {y}, inserts' = inserts
    PROVE  /\ uses' \subseteq CodeRow /\ IsFiniteSet(uses') /\ OneRowEach'
           /\ UsesIn(uses) \in Int /\ UsesIn(uses)' = UsesIn(uses) + y.count - x.count
           /\ LogOf(x.user)' = {y} /\ UsesIn(LogOf(x.user))' = y.count
           /\ UsesIn(LogOf(x.user)) = x.count
           /\ \A v : v # x.user => LogOf(v)' = LogOf(v)
<1>1. uses \subseteq CodeRow /\ IsFiniteSet(uses) /\ OneRowEach
  BY DEF CodeGood, CodeTypes
<1>2. y \notin uses \ {x}
  BY <1>1 DEF OneRowEach
<1>3. /\ uses' \subseteq CodeRow /\ IsFiniteSet(uses')
      /\ UsesIn(uses) \in Int /\ UsesIn(uses)' = UsesIn(uses) + y.count - x.count
  <2>1. UsesIn(uses)' = UsesIn(uses')
    BY DEF UsesIn
  <2>. QED BY <1>1, <1>2, <2>1, UsesWritten
<1>4. OneRowEach'
  BY <1>1 DEF OneRowEach
<1>5. LogOf(x.user)' = {y} /\ \A v : v # x.user => LogOf(v)' = LogOf(v)
  BY <1>1 DEF LogOf, OneRowEach
<1>6. UsesIn(LogOf(x.user)) = x.count
  <2>1. LogOf(x.user) = {x} /\ x \in CodeRow
    BY <1>1 DEF LogOf, OneRowEach
  <2>. QED BY <2>1, UsesOfOne
<1>7. UsesIn(LogOf(x.user))' = y.count
  <2>1. UsesIn(LogOf(x.user))' = UsesIn({y})
    BY <1>5 DEF UsesIn
  <2>. QED BY <2>1, UsesOfOne
<1>. QED BY <1>3, <1>4, <1>5, <1>6, <1>7

\* A row of the log more, of a user who had none.
LEMMA RowAdded ==
    ASSUME CodeGood, NEW y \in CodeRow, \A x \in uses : x.user # y.user /\ x.id # y.id,
           uses' = uses \cup {y}, inserts' = {}
    PROVE  /\ uses' \subseteq CodeRow /\ IsFiniteSet(uses') /\ OneRowEach'
           /\ UsesIn(uses) \in Int /\ UsesIn(uses)' = UsesIn(uses) + y.count
           /\ UsesIn(LogOf(y.user))' = y.count /\ UsesIn(LogOf(y.user)) = 0
           /\ LogOf(y.user)' = {y}
           /\ \A v : v # y.user => LogOf(v)' = LogOf(v)
<1>1. uses \subseteq CodeRow /\ IsFiniteSet(uses) /\ OneRowEach
  BY DEF CodeGood, CodeTypes
<1>2. y \notin uses
  OBVIOUS
<1>3. /\ uses' \subseteq CodeRow /\ IsFiniteSet(uses')
      /\ UsesIn(uses) \in Int /\ UsesIn(uses)' = UsesIn(uses) + y.count
  <2>1. UsesIn(uses)' = UsesIn(uses')
    BY DEF UsesIn
  <2>. QED BY <1>1, <1>2, <2>1, UsesWith
<1>4. OneRowEach'
  BY <1>1 DEF OneRowEach
<1>5. LogOf(y.user) = {} /\ LogOf(y.user)' = {y} /\ \A v : v # y.user => LogOf(v)' = LogOf(v)
  BY DEF LogOf
<1>6. UsesIn(LogOf(y.user)) = 0
  BY <1>5, UsesOfOne
<1>7. UsesIn(LogOf(y.user))' = y.count
  <2>1. UsesIn(LogOf(y.user))' = UsesIn({y})
    BY <1>5 DEF UsesIn
  <2>. QED BY <2>1, UsesOfOne
<1>. QED BY <1>3, <1>4, <1>5, <1>6, <1>7

\* A row of the log less.
LEMMA RowRemoved ==
    ASSUME CodeGood, NEW x \in uses, uses' = uses \ {x}, inserts' = inserts
    PROVE  /\ uses' \subseteq CodeRow /\ IsFiniteSet(uses') /\ OneRowEach'
           /\ UsesIn(uses) \in Int /\ UsesIn(uses)' = UsesIn(uses) - x.count
           /\ UsesIn(LogOf(x.user))' = 0 /\ UsesIn(LogOf(x.user)) = x.count
           /\ LogOf(x.user)' = {}
           /\ \A v : v # x.user => LogOf(v)' = LogOf(v)
<1>1. uses \subseteq CodeRow /\ IsFiniteSet(uses) /\ OneRowEach
  BY DEF CodeGood, CodeTypes
<1>2. /\ uses' \subseteq CodeRow /\ IsFiniteSet(uses') /\ x \notin uses' /\ uses' \cup {x} = uses
      /\ x \in CodeRow
  BY <1>1, FS_RemoveElement
<1>3. UsesIn(uses)' = UsesIn(uses')
  BY DEF UsesIn
<1>4. UsesIn(uses') \in Int /\ UsesIn(uses) = UsesIn(uses') + x.count
  <2> DEFINE R == uses'
  <2>1. R \subseteq CodeRow /\ IsFiniteSet(R) /\ x \notin R /\ R \cup {x} = uses
    BY <1>2
  <2>. HIDE DEF R
  <2>2. UsesIn(R) \in Int /\ UsesIn(R \cup {x}) = UsesIn(R) + x.count
    BY <1>2, <2>1, UsesWith
  <2>. QED BY <2>1, <2>2 DEF R
<1>5. x.count \in Int
  BY <1>2 DEF CodeRow
<1>6. UsesIn(uses) \in Int /\ UsesIn(uses)' = UsesIn(uses) - x.count
  BY <1>3, <1>4, <1>5
<1>7. OneRowEach'
  BY <1>1 DEF OneRowEach
<1>8. LogOf(x.user)' = {} /\ \A v : v # x.user => LogOf(v)' = LogOf(v)
  BY <1>1 DEF LogOf, OneRowEach
<1>9. UsesIn(LogOf(x.user)) = x.count
  <2>1. LogOf(x.user) = {x} /\ x \in CodeRow
    BY <1>1 DEF LogOf, OneRowEach
  <2>. QED BY <2>1, UsesOfOne
<1>10. UsesIn(LogOf(x.user))' = 0
  <2>1. UsesIn(LogOf(x.user))' = UsesIn({})
    BY <1>8 DEF UsesIn
  <2>. QED BY <2>1, UsesOfOne
<1>. QED BY <1>2, <1>6, <1>7, <1>8, <1>9, <1>10


\* createLog adds to the user's row, or starts an insertion.
LEMMA WriteLogGood ==
    ASSUME CodeGood, NEW c \in Callers, Code!WriteLog(c)
    PROVE  CodeGood'
<1>0. PICK u, a : u = UserOf[call[c].of] /\ a = call[c].amt
  OBVIOUS
<1>1. call[c].pc = "write" /\ Code!Answer(c, a) /\ UNCHANGED <<promo, clashed, freed, raised>>
  BY <1>0 DEF Code!WriteLog
<1>2. /\ call[c] \in CodeCall /\ call[c].of \in DOMAIN UserOf /\ call[c].op = "apply"
      /\ call[c].log = LogOf(u) /\ inserts = {} /\ a \in Int /\ u \in Code!Users
      /\ \A d \in Callers : d # c => call[d].pc = "idle"
  BY <1>0, <1>1, CallIsAlone DEF CallKnows, Applying, CodeCall, Code!Users, Code!Rides
<1>3. /\ call' \in [Callers -> CodeCall] /\ \A d \in Callers : call'[d].pc = "idle"
      /\ booked' \in [DOMAIN UserOf ->
             [st : {"asked", "accepted", "cancelled", "completed", "expired"},
              amt : Int, accepts : Nat]]
  BY <1>1, <1>2, Answered
<1>4. ASSUME NEW s \in DOMAIN UserOf
      PROVE  /\ IsFiniteSet(Discounted(UserOf[s])')
             /\ Cardinality(Discounted(UserOf[s])') \in Nat
             /\ Cardinality(Discounted(UserOf[s])) \in Nat
             /\ UserOf[s] # u => Discounted(UserOf[s])' = Discounted(UserOf[s])
             /\ Cardinality(Discounted(UserOf[s])') <= Cardinality(Discounted(UserOf[s])) + 1
             /\ UserOf[s] \notin freed =>
                    Cardinality(Discounted(UserOf[s])) <= UsesIn(LogOf(UserOf[s])) + OneOf(UserOf[s])
  BY <1>0, <1>1, <1>2, AnsweredDiscounts DEF CodeGood, CodeDiscounts
<1>5. OneUse = 1 /\ \A v : OneOf(v) = 0
  BY <1>1, <1>2 DEF OneUse, OneOf, Between
<1>6. \A d \in Callers : CallKnows(d)'
  BY <1>3 DEF CallKnows, Applying, Reverting
<1>7. CodeBudget'
  BY <1>1, <1>3 DEF CodeGood, CodeBudget, Affordable
<1>8. UsesIn(uses) \in Int /\ promo.usage = UsesIn(uses) + 1
  BY <1>5, UsesAreInt DEF CodeGood, CodeTypes, CodeCounts
<1>9. promo.usage <= TotalLimit /\ \A x \in uses : x.count <= UserLimit
  BY DEF CodeGood, CodeLimits
<1>10. ASSUME NEW s \in DOMAIN UserOf PROVE UsesIn(LogOf(UserOf[s])) \in Int
  <2>1. LogOf(UserOf[s]) \subseteq CodeRow /\ IsFiniteSet(LogOf(UserOf[s]))
    BY FS_Subset DEF CodeGood, CodeTypes, LogOf
  <2>. QED BY <2>1, UsesAreInt
<1>11. CASE /\ call[c].log = {} /\ UNCHANGED uses
            /\ inserts' = inserts \cup {[id |-> c, user |-> u, count |-> 1, amt |-> a]}
  <2> DEFINE z == [id |-> c, user |-> u, count |-> 1, amt |-> a]
  <2>1. inserts' = {z} /\ z \in [id : Callers, user : Code!Users, count : {1}, amt : Int]
        /\ z.user = u
    BY <1>2, <1>11
  <2>. HIDE DEF z
  <2>2. LogOf(u) = {} /\ \A v : LogOf(v)' = LogOf(v)
    BY <1>2, <1>11 DEF LogOf
  <2>3. CodeTypes'
    BY <1>1, <1>3, <1>11, <2>1 DEF CodeGood, CodeTypes
  <2>4. CodeAlone' /\ OneRowEach'
    BY <1>3, <1>11, <2>1, <2>2 DEF CodeGood, CodeAlone, OneRowEach, Code!Busy, LogOf
  <2>5. OneUse' = 1 /\ OneOf(u)' = 1 /\ \A v : v # u => OneOf(v)' = 0
    BY <1>3, <2>1 DEF OneUse, OneOf, Between
  <2>6. CodeCounts'
    <3>1. UsesIn(uses)' = UsesIn(uses)
      BY <1>11 DEF UsesIn
    <3>. QED BY <1>1, <1>8, <2>5, <3>1 DEF CodeCounts
  <2>7. CodeLimits'
    BY <1>1, <1>3, <1>9, <1>11 DEF CodeLimits
  <2>8. CodeDiscounts'
    <3>1. ASSUME NEW s \in DOMAIN UserOf, UserOf[s] \notin freed'
          PROVE  Cardinality(Discounted(UserOf[s])') <= UsesIn(LogOf(UserOf[s]))' + OneOf(UserOf[s])'
      <4> DEFINE v == UserOf[s]
      <4>1. UsesIn(LogOf(v))' = UsesIn(LogOf(v))
        BY <2>2 DEF UsesIn
      <4>2. v \notin freed /\ UsesIn(LogOf(v)) \in Int
        BY <1>1, <1>10, <3>1
      <4>3. Cardinality(Discounted(v)) <= UsesIn(LogOf(v)) + 0
        BY <1>4, <1>5, <4>2
      <4>4. CASE v = u
        <5>1. OneOf(v)' = 1
          BY <2>5, <4>4
        <5>. QED BY <1>4, <4>1, <4>2, <4>3, <5>1
      <4>5. CASE v # u
        <5>1. OneOf(v)' = 0 /\ Discounted(v)' = Discounted(v)
          BY <1>4, <2>5, <4>5
        <5>. QED BY <4>1, <4>3, <5>1
      <4>. QED BY <4>4, <4>5
    <3>. QED BY <1>3, <1>4, <3>1 DEF CodeDiscounts, Reverting
  <2>. QED BY <1>6, <1>7, <2>3, <2>4, <2>6, <2>7, <2>8 DEF CodeGood
<1>12. CASE /\ UNCHANGED inserts
            /\ \E x \in call[c].log :
                  uses' = {IF y.id = x.id THEN [y EXCEPT !.count = x.count + 1, !.amt = a] ELSE y :
                              y \in uses}
  <2>1. PICK x \in call[c].log :
            uses' = {IF y.id = x.id THEN [y EXCEPT !.count = x.count + 1, !.amt = a] ELSE y :
                        y \in uses}
    BY <1>12
  <2> DEFINE z == [x EXCEPT !.count = x.count + 1, !.amt = a]
  <2>2. x \in uses /\ x \in LogOf(u) /\ x.user = u /\ x \in CodeRow
    BY <1>2 DEF LogOf, CodeGood, CodeTypes
  <2>3. z \in CodeRow /\ z.id = x.id /\ z.user = x.user /\ z.count = x.count + 1
    <3>1. z \in CodeRow
      <4>1. \A n \in Nat \ {0} : [x EXCEPT !.count = n, !.amt = a] \in CodeRow
        BY <1>2, <2>2 DEF CodeRow
      <4>2. x.count + 1 \in Nat \ {0}
        BY <2>2 DEF CodeRow
      <4>. QED BY <4>1, <4>2, Zenon
    <3>2. z.id = x.id /\ z.user = x.user
      BY <1>2, <2>2 DEF CodeRow
    <3>3. z.count = x.count + 1
      BY <1>2, <2>2 DEF CodeRow
    <3>. QED BY <3>1, <3>2, <3>3
  <2>4. uses' = (uses \ {x}) \cup {z}
    <3>1. \A y \in uses : y.id = x.id <=> y = x
      BY <2>2 DEF CodeGood, OneRowEach
    <3>. QED BY <2>1, <2>2, <3>1
  <2>. HIDE DEF z
  <2>5. /\ uses' \subseteq CodeRow /\ IsFiniteSet(uses') /\ OneRowEach'
        /\ UsesIn(uses)' = UsesIn(uses) + z.count - x.count
        /\ LogOf(u)' = {z} /\ UsesIn(LogOf(u))' = z.count
        /\ UsesIn(LogOf(u)) = x.count
        /\ \A v : v # u => LogOf(v)' = LogOf(v)
    BY <1>12, <2>2, <2>3, <2>4, RowWritten
  <2>6. x.count \in Int /\ x.count < UserLimit
    BY <1>0, <1>1, <2>2 DEF CodeGood, CodeLimits, CodeRow
  <2>7. CodeTypes'
    BY <1>1, <1>3, <1>12, <2>5 DEF CodeGood, CodeTypes
  <2>8. CodeAlone'
    BY <1>2, <1>3, <1>12 DEF CodeAlone, Code!Busy
  <2>9. OneUse' = 0 /\ \A v : OneOf(v)' = 0
    BY <1>2, <1>3, <1>12 DEF OneUse, OneOf, Between
  <2>10. CodeCounts'
    BY <1>1, <1>8, <2>3, <2>5, <2>6, <2>9 DEF CodeCounts
  <2>11. CodeLimits'
    <3>1. z.count <= UserLimit
      BY <2>3, <2>6, LimitsAssumption
    <3>2. \A y \in uses' : y.count <= UserLimit
      BY <1>9, <2>4, <3>1
    <3>. QED BY <1>1, <1>3, <1>9, <3>2 DEF CodeLimits
  <2>12. CodeDiscounts'
    <3>1. ASSUME NEW s \in DOMAIN UserOf, UserOf[s] \notin freed'
          PROVE  Cardinality(Discounted(UserOf[s])') <= UsesIn(LogOf(UserOf[s]))' + OneOf(UserOf[s])'
      <4> DEFINE v == UserOf[s]
      <4>1. OneOf(v)' = 0
        BY <2>9
      <4>2. v \notin freed /\ UsesIn(LogOf(v)) \in Int
        BY <1>1, <1>10, <3>1
      <4>3. Cardinality(Discounted(v)) <= UsesIn(LogOf(v)) + 0
        BY <1>4, <1>5, <4>2
      <4>4. CASE v = u
        <5>1. UsesIn(LogOf(v))' = UsesIn(LogOf(v)) + 1
          BY <2>3, <2>5, <2>6, <4>4
        <5>. QED BY <1>4, <4>1, <4>2, <4>3, <5>1
      <4>5. CASE v # u
        <5>1. UsesIn(LogOf(v))' = UsesIn(LogOf(v)) /\ Discounted(v)' = Discounted(v)
          BY <1>4, <2>5, <4>5 DEF UsesIn
        <5>. QED BY <4>1, <4>3, <5>1
      <4>. QED BY <4>4, <4>5
    <3>. QED BY <1>3, <1>4, <3>1 DEF CodeDiscounts, Reverting
  <2>. QED BY <1>6, <1>7, <2>5, <2>7, <2>8, <2>10, <2>11, <2>12 DEF CodeGood
<1>. QED BY <1>0, <1>11, <1>12 DEF Code!WriteLog


\* The insertion nobody waits for is made.
LEMMA InsertGood ==
    ASSUME CodeGood, Code!Insert
    PROVE  CodeGood'
<1>1. PICK x \in inserts, n \in 1..Cardinality(uses) + 1 :
          /\ inserts' = inserts \ {x}
          /\ \A y \in uses : y.id # n
          /\ uses' = uses \cup {[x EXCEPT !.id = n]}
          /\ UNCHANGED <<promo, booked, call, clashed, freed, raised>>
  <2>1. Code!Cardinality(uses) = Cardinality(uses)
    BY DEF Code!Cardinality, Cardinality
  <2>. QED BY <2>1 DEF Code!Insert
<1>2. PICK z : z = [x EXCEPT !.id = n]
  OBVIOUS
<1>3. /\ \A d \in Callers : call[d].pc = "idle"
      /\ inserts = {x} /\ inserts' = {}
      /\ \A y \in uses : y.user # x.user
  BY <1>1 DEF CodeGood, CodeAlone, OneRowEach, Code!Busy
<1>4. x \in [id : Callers, user : Code!Users, count : {1}, amt : Int]
  BY DEF CodeGood, CodeTypes
<1>5. n \in Nat
  <2>1. Cardinality(uses) \in Nat
    BY FS_CardinalityType DEF CodeGood, CodeTypes
  <2>. QED BY <1>1, <2>1
<1>6. z \in CodeRow /\ z.user = x.user /\ z.count = 1 /\ z.id = n
  <2>1. z.user = x.user /\ z.count = x.count /\ z.amt = x.amt /\ z.id = n
    BY <1>2, <1>4
  <2>2. z \in [id : {n}, user : Code!Users, count : {1}, amt : Int]
    BY <1>2, <1>4
  <2>. QED BY <1>4, <1>5, <2>1, <2>2 DEF CodeRow
<1>7. /\ uses' \subseteq CodeRow /\ IsFiniteSet(uses') /\ OneRowEach'
      /\ UsesIn(uses) \in Int /\ UsesIn(uses)' = UsesIn(uses) + 1
      /\ UsesIn(LogOf(x.user))' = 1 /\ UsesIn(LogOf(x.user)) = 0
      /\ \A v : v # x.user => LogOf(v)' = LogOf(v)
  <2>1. uses' = uses \cup {z} /\ \A y \in uses : y.user # z.user /\ y.id # z.id
    BY <1>1, <1>2, <1>3, <1>6
  <2>. QED BY <1>3, <1>6, <2>1, RowAdded
<1>8. CodeTypes'
  BY <1>1, <1>3, <1>7 DEF CodeGood, CodeTypes
<1>9. CodeAlone'
  BY <1>1, <1>3 DEF CodeAlone, Code!Busy
<1>10. \A d \in Callers : CallKnows(d)'
  BY <1>1, <1>3 DEF CallKnows, Applying, Reverting
<1>11. /\ OneUse = 1 /\ OneUse' = 0 /\ \A v : OneOf(v)' = 0
       /\ OneOf(x.user) = 1 /\ \A v : v # x.user => OneOf(v) = 0
  <2>1. OneUse = 1 /\ OneUse' = 0
    BY <1>1, <1>3 DEF OneUse, Between
  <2>2. \A v : OneOf(v)' = 0
    BY <1>1, <1>3 DEF OneOf
  <2>3. OneOf(x.user) = 1 /\ \A v : v # x.user => OneOf(v) = 0
    BY <1>3 DEF OneOf
  <2>. QED BY <2>1, <2>2, <2>3
<1>12. CodeCounts'
  BY <1>1, <1>7, <1>11 DEF CodeGood, CodeCounts
<1>13. CodeLimits'
  <2>1. \A y \in uses' : y.count <= UserLimit
    <3>1. UserLimit \in Nat \ {0}
      BY LimitsAssumption
    <3>2. z.count <= UserLimit
      BY <1>6, <3>1
    <3>3. uses' = uses \cup {z} /\ \A y \in uses : y.count <= UserLimit
      BY <1>1, <1>2 DEF CodeGood, CodeLimits
    <3>. QED BY <3>2, <3>3
  <2>. QED BY <1>1, <1>3, <2>1 DEF CodeGood, CodeLimits
<1>14. CodeBudget'
  BY <1>1, <1>3 DEF CodeGood, CodeBudget, Affordable
<1>15. CodeDiscounts'
  <2>1. \A v : Discounted(v)' = Discounted(v)
    BY <1>1 DEF Discounted
  <2>2. ASSUME NEW s \in DOMAIN UserOf, UserOf[s] \notin freed'
        PROVE  Cardinality(Discounted(UserOf[s])') <= UsesIn(LogOf(UserOf[s]))' + OneOf(UserOf[s])'
    <3>1. Cardinality(Discounted(UserOf[s])) <= UsesIn(LogOf(UserOf[s])) + OneOf(UserOf[s])
      BY <1>1, <2>2 DEF CodeGood, CodeDiscounts
    <3>2. CASE UserOf[s] = x.user
      BY <1>7, <1>11, <2>1, <3>1, <3>2
    <3>3. CASE UserOf[s] # x.user
      <4>1. UsesIn(LogOf(UserOf[s]))' = UsesIn(LogOf(UserOf[s]))
        BY <1>7, <3>3 DEF UsesIn
      <4>. QED BY <1>11, <2>1, <3>1, <3>3, <4>1
    <3>. QED BY <3>2, <3>3
  <2>. QED BY <1>1, <1>3, <2>1, <2>2 DEF CodeGood, CodeDiscounts, Reverting
<1>. QED BY <1>7, <1>8, <1>9, <1>10, <1>12, <1>13, <1>14, <1>15 DEF CodeGood

\* revertLog takes a use from the user's row, or the row with its last.
LEMMA UnlogGood ==
    ASSUME CodeGood, NEW c \in Callers, Code!Unlog(c)
    PROVE  CodeGood'
<1>0. PICK u : u = UserOf[call[c].of]
  OBVIOUS
<1>1. /\ call[c].pc = "unlog" /\ call' = [call EXCEPT ![c].pc = "reread"]
      /\ UNCHANGED <<promo, inserts, booked, clashed, freed, raised>>
  BY DEF Code!Unlog
<1>2. /\ call[c] \in CodeCall /\ call[c].of \in DOMAIN UserOf /\ call[c].op = "revert"
      /\ call[c].log = LogOf(u) /\ inserts = {}
      /\ \A d \in Callers : d # c => call[d].pc = "idle"
  BY <1>0, <1>1, CallIsAlone DEF CallKnows, Reverting
<1>3. PICK r : r = [call[c] EXCEPT !.pc = "reread"]
  OBVIOUS
<1>4. r \in CodeCall /\ r.of = call[c].of /\ r.op = "revert" /\ r.pc = "reread"
  BY <1>2, <1>3 DEF CodeCall, Reverting
<1>5. /\ call' \in [Callers -> CodeCall] /\ call'[c] = r
      /\ \A d \in Callers : d # c => call'[d] = call[d]
  <2>1. call' = [call EXCEPT ![c] = r]
    BY <1>1, <1>3
  <2>. QED BY <1>4, <2>1 DEF CodeGood, CodeTypes
<1>6. PICK x \in call[c].log :
          uses' = IF x.count > 1
                  THEN {IF y.id = x.id THEN [y EXCEPT !.count = x.count - 1] ELSE y : y \in uses}
                  ELSE {y \in uses : y.id # x.id}
  BY DEF Code!Unlog
<1>7. x \in uses /\ x \in LogOf(u) /\ x.user = u /\ x \in CodeRow /\ x.count \in Nat \ {0}
  BY <1>2 DEF LogOf, CodeGood, CodeTypes, CodeRow
<1>8. \A y \in uses : y.id = x.id <=> y = x
  BY <1>7 DEF CodeGood, OneRowEach
<1>9. /\ uses' \subseteq CodeRow /\ IsFiniteSet(uses') /\ OneRowEach'
      /\ UsesIn(uses) \in Int /\ UsesIn(uses)' = UsesIn(uses) - 1
      /\ UsesIn(LogOf(u))' = UsesIn(LogOf(u)) - 1 /\ UsesIn(LogOf(u)) \in Int
      /\ \A v : v # u => LogOf(v)' = LogOf(v)
      /\ \A y \in uses' : y.count <= UserLimit
  <2>0. x.count <= UserLimit /\ \A y \in uses : y.count <= UserLimit
    BY <1>7 DEF CodeGood, CodeLimits
  <2>1. CASE x.count > 1
    <3>1. PICK z : z = [x EXCEPT !.count = x.count - 1]
      OBVIOUS
    <3>2. uses' = (uses \ {x}) \cup {z}
      BY <1>6, <1>7, <1>8, <2>1, <3>1
    <3>3. z \in CodeRow
      <4>1. \A n \in Nat \ {0} : [x EXCEPT !.count = n] \in CodeRow
        BY <1>7 DEF CodeRow
      <4>2. x.count - 1 \in Nat \ {0}
        BY <1>7, <2>1
      <4>. QED BY <3>1, <4>1, <4>2, Zenon
    <3>4. z.id = x.id /\ z.user = x.user /\ z.count = x.count - 1
      BY <1>7, <3>1 DEF CodeRow
    <3>5. /\ uses' \subseteq CodeRow /\ IsFiniteSet(uses') /\ OneRowEach'
          /\ UsesIn(uses) \in Int /\ UsesIn(uses)' = UsesIn(uses) + z.count - x.count
          /\ UsesIn(LogOf(u))' = z.count /\ UsesIn(LogOf(u)) = x.count
          /\ \A v : v # u => LogOf(v)' = LogOf(v)
      BY <1>1, <1>7, <3>2, <3>3, <3>4, RowWritten
    <3>6. \A y \in uses' : y.count <= UserLimit
      BY <1>7, <2>0, <3>2, <3>4, LimitsAssumption
    <3>7. UsesIn(uses) + (x.count - 1) - x.count = UsesIn(uses) - 1
      BY <1>7, <3>5
    <3>. QED BY <1>7, <3>4, <3>5, <3>6, <3>7
  <2>2. CASE ~(x.count > 1)
    <3>1. x.count = 1
      BY <1>7, <2>2
    <3>2. uses' = uses \ {x}
      BY <1>6, <1>7, <1>8, <2>2
    <3>3. /\ uses' \subseteq CodeRow /\ IsFiniteSet(uses') /\ OneRowEach'
          /\ UsesIn(uses) \in Int /\ UsesIn(uses)' = UsesIn(uses) - x.count
          /\ UsesIn(LogOf(u))' = 0 /\ UsesIn(LogOf(u)) = x.count
          /\ \A v : v # u => LogOf(v)' = LogOf(v)
      BY <1>1, <1>7, <3>2, RowRemoved
    <3>. QED BY <2>0, <3>1, <3>2, <3>3
  <2>. QED BY <2>1, <2>2
<1>10. CodeTypes'
  BY <1>1, <1>5, <1>9 DEF CodeGood, CodeTypes
<1>11. CodeAlone'
  BY <1>1, <1>2, <1>4, <1>5 DEF CodeAlone, Code!Busy
<1>12. \A d \in Callers : CallKnows(d)'
  BY <1>2, <1>4, <1>5 DEF CallKnows, Applying, Reverting
<1>13. /\ OneUse = 0 /\ OneUse' = 1 /\ \A v : OneOf(v) = 0
       /\ OneOf(u)' = 1 /\ \A v : v # u => OneOf(v)' = 0
  <2>1. OneUse = 0 /\ OneUse' = 1
    BY <1>1, <1>2, <1>4, <1>5 DEF OneUse, Between
  <2>2. \A v : OneOf(v) = 0
    BY <1>1, <1>2 DEF OneOf
  <2>3. OneOf(u)' = 1 /\ \A v : v # u => OneOf(v)' = 0
    BY <1>0, <1>1, <1>2, <1>4, <1>5 DEF OneOf
  <2>. QED BY <2>1, <2>2, <2>3
<1>14. CodeCounts'
  BY <1>1, <1>9, <1>13 DEF CodeGood, CodeCounts
<1>15. CodeLimits'
  BY <1>1, <1>2, <1>4, <1>5, <1>9 DEF CodeGood, CodeLimits
<1>16. CodeBudget'
  BY <1>1, <1>2, <1>4, <1>5 DEF CodeGood, CodeBudget, Affordable
<1>17. CodeDiscounts'
  <2>1. \A v : Discounted(v)' = Discounted(v)
    BY <1>1 DEF Discounted
  <2>2. ASSUME NEW s \in DOMAIN UserOf, UserOf[s] \notin freed'
        PROVE  Cardinality(Discounted(UserOf[s])') <= UsesIn(LogOf(UserOf[s]))' + OneOf(UserOf[s])'
    <3>1. Cardinality(Discounted(UserOf[s])) <= UsesIn(LogOf(UserOf[s])) + OneOf(UserOf[s])
      BY <1>1, <2>2 DEF CodeGood, CodeDiscounts
    <3>2. CASE UserOf[s] = u
      BY <1>9, <1>13, <2>1, <3>1, <3>2
    <3>3. CASE UserOf[s] # u
      <4>1. UsesIn(LogOf(UserOf[s]))' = UsesIn(LogOf(UserOf[s]))
        BY <1>9, <3>3 DEF UsesIn
      <4>. QED BY <1>13, <2>1, <3>1, <3>3, <4>1
    <3>. QED BY <3>2, <3>3
  <2>. QED BY <1>1, <1>2, <1>4, <1>5, <2>1, <2>2 DEF CodeGood, CodeDiscounts, Reverting
<1>. QED BY <1>9, <1>10, <1>11, <1>12, <1>14, <1>15, <1>16, <1>17 DEF CodeGood

\* revertCode writes the totals.
LEMMA UncountGood ==
    ASSUME CodeGood, NEW c \in Callers, Code!Uncount(c)
    PROVE  CodeGood'
<1>0. PICK u : u = UserOf[call[c].of]
  OBVIOUS
<1>1. /\ call[c].pc = "uncount" /\ Code!Answer(c, 0)
      /\ UNCHANGED <<uses, inserts, clashed, freed>>
  BY DEF Code!Uncount
<1>2. /\ call[c] \in CodeCall /\ call[c].of \in DOMAIN UserOf /\ call[c].op = "revert"
      /\ call[c].saw = promo /\ inserts = {}
      /\ \A d \in Callers : d # c => call[d].pc = "idle"
  BY <1>1, CallIsAlone DEF CallKnows, Reverting
<1>3. PICK x \in call[c].log :
          /\ promo' = [usage |-> promo.usage - 1, utilised |-> promo.utilised - x.amt]
          /\ raised' = (raised \/ x.amt < 0)
  BY <1>2 DEF Code!Uncount
<1>4. x.amt \in Int /\ promo \in CodeTotals
  BY <1>2 DEF CodeCall, CodeRow, CodeGood, CodeTypes
<1>5. /\ promo' \in CodeTotals /\ raised' \in BOOLEAN
      /\ promo'.usage = promo.usage - 1 /\ promo'.utilised = promo.utilised - x.amt
  BY <1>3, <1>4 DEF CodeTotals, CodeGood, CodeTypes
<1>6. 0 \in Int
  OBVIOUS
<1>7. /\ call' \in [Callers -> CodeCall] /\ \A d \in Callers : call'[d].pc = "idle"
      /\ booked' \in [DOMAIN UserOf ->
             [st : {"asked", "accepted", "cancelled", "completed", "expired"},
              amt : Int, accepts : Nat]]
  BY <1>1, <1>6, Answered
<1>8. \A v : LogOf(v)' = LogOf(v)
  BY <1>1 DEF LogOf
<1>9. CodeTypes'
  BY <1>1, <1>5, <1>7 DEF CodeGood, CodeTypes
<1>10. CodeAlone' /\ OneRowEach'
  BY <1>1, <1>7 DEF CodeGood, CodeAlone, OneRowEach, Code!Busy
<1>11. \A d \in Callers : CallKnows(d)'
  BY <1>7 DEF CallKnows, Applying, Reverting
<1>12. /\ OneUse = 1 /\ OneUse' = 0
       /\ OneOf(u) = 1 /\ \A v : OneOf(v)' = 0 /\ (v # u => OneOf(v) = 0)
  <2>1. OneUse = 1 /\ OneUse' = 0
    BY <1>1, <1>2, <1>7 DEF OneUse, Between
  <2>2. OneOf(u) = 1 /\ \A v : v # u => OneOf(v) = 0
    BY <1>0, <1>1, <1>2 DEF OneOf
  <2>3. \A v : OneOf(v)' = 0
    BY <1>1, <1>2, <1>7 DEF OneOf
  <2>. QED BY <2>1, <2>2, <2>3
<1>13. CodeCounts'
  <2>1. UsesIn(uses) \in Int
    BY UsesAreInt DEF CodeGood, CodeTypes
  <2>2. UsesIn(uses)' = UsesIn(uses)
    BY <1>1 DEF UsesIn
  <2>. QED BY <1>5, <1>12, <2>1, <2>2 DEF CodeGood, CodeCounts
<1>14. CodeLimits'
  <2>1. promo.usage <= TotalLimit /\ promo.usage \in Int
    BY <1>4 DEF CodeGood, CodeLimits, CodeTotals
  <2>2. promo'.usage <= TotalLimit
    BY <1>5, <2>1, LimitsAssumption
  <2>. QED BY <1>1, <1>7, <2>2 DEF CodeGood, CodeLimits
<1>15. CodeBudget'
  <2>1. SUFFICES ASSUME ~raised' PROVE Affordable(promo.utilised)'
    BY <1>7 DEF CodeBudget
  <2>2. ~raised /\ x.amt >= 0
    <3>1. ~(raised \/ x.amt < 0)
      BY <1>3, <2>1, Zenon
    <3>. QED BY <1>4, <3>1
  <2>3. Affordable(promo.utilised) /\ promo.utilised \in Int
    BY <1>4, <2>2 DEF CodeGood, CodeBudget, CodeTotals
  <2>4. promo'.utilised <= promo.utilised
    BY <1>4, <1>5, <2>2, <2>3
  <2>. QED BY <1>4, <1>5, <2>3, <2>4, LimitsAssumption DEF Affordable
<1>16. CodeDiscounts'
  <2>1. ASSUME NEW s \in DOMAIN UserOf
        PROVE  /\ IsFiniteSet(Discounted(UserOf[s])')
               /\ UserOf[s] \notin freed' =>
                     Cardinality(Discounted(UserOf[s])') <= UsesIn(LogOf(UserOf[s]))' + OneOf(UserOf[s])'
    <3>1. /\ IsFiniteSet(Discounted(UserOf[s])')
          /\ Cardinality(Discounted(UserOf[s])') \in Nat /\ Cardinality(Discounted(UserOf[s])) \in Nat
          /\ Cardinality(Discounted(UserOf[s])') <= Cardinality(Discounted(UserOf[s]))
          /\ UserOf[s] = u /\ booked[call[c].of].amt # 0 =>
                Cardinality(Discounted(UserOf[s])') = Cardinality(Discounted(UserOf[s])) - 1
      BY <1>0, <1>1, <1>2, <1>6, AnsweredDiscounts
    <3>2. UserOf[s] \notin freed =>
              Cardinality(Discounted(UserOf[s])) <= UsesIn(LogOf(UserOf[s])) + OneOf(UserOf[s])
      BY DEF CodeGood, CodeDiscounts
    <3>3. UsesIn(LogOf(UserOf[s]))' = UsesIn(LogOf(UserOf[s])) /\ UsesIn(LogOf(UserOf[s])) \in Int
      <4>1. LogOf(UserOf[s]) \subseteq CodeRow /\ IsFiniteSet(LogOf(UserOf[s]))
        BY FS_Subset DEF CodeGood, CodeTypes, LogOf
      <4>2. UsesIn(LogOf(UserOf[s])) \in Int
        BY <4>1, UsesAreInt
      <4>. QED BY <4>2, <1>8 DEF UsesIn
    <3>4. u \notin freed => booked[call[c].of].amt # 0
      BY <1>0, <1>1 DEF CodeGood, CodeDiscounts, Reverting
    <3>5. OneOf(UserOf[s])' = 0
      BY <1>12
    <3>6. ASSUME UserOf[s] \notin freed'
          PROVE  Cardinality(Discounted(UserOf[s])') <= UsesIn(LogOf(UserOf[s])) + 0
      <4>1. UserOf[s] \notin freed
        BY <1>1, <3>6
      <4>2. CASE UserOf[s] = u
        BY <1>12, <3>1, <3>2, <3>3, <3>4, <4>1, <4>2
      <4>3. CASE UserOf[s] # u
        BY <1>12, <3>1, <3>2, <3>3, <4>1, <4>3
      <4>. QED BY <4>2, <4>3
    <3>. QED BY <3>1, <3>3, <3>5, <3>6
  <2>. QED BY <2>1, <1>7 DEF CodeDiscounts, Reverting
<1>. QED BY <1>9, <1>10, <1>11, <1>13, <1>14, <1>15, <1>16 DEF CodeGood

\* No use of the code and no trip, initially.
LEMMA CodeInit ==
    ASSUME Code!Init
    PROVE  CodeGood
<1>1. /\ promo = [usage |-> 0, utilised |-> 0]
      /\ uses = {} /\ inserts = {} /\ raised = FALSE
      /\ booked = [t \in DOMAIN UserOf |-> [st |-> "asked", amt |-> 0, accepts |-> 0]]
      /\ call = [c \in Callers |-> Code!NoCall]
  BY DEF Code!Init, Code!Rides
<1>2. Code!NoCall \in CodeCall /\ Code!NoCall.pc = "idle"
  BY DEF Code!NoCall, CodeCall, CodeTotals
<1>3. \A c \in Callers : call[c].pc = "idle"
  BY <1>1, <1>2
<1>4. CodeTypes
  <2>1. promo \in CodeTotals
    BY <1>1 DEF CodeTotals
  <2>2. uses \subseteq CodeRow /\ IsFiniteSet(uses)
        /\ inserts \subseteq [id : Callers, user : Code!Users, count : {1}, amt : Int]
    BY <1>1, FS_EmptySet
  <2>3. booked \in [DOMAIN UserOf -> [st : {"asked", "accepted", "cancelled", "completed", "expired"},
                                     amt : Int, accepts : Nat]]
    BY <1>1
  <2>4. call \in [Callers -> CodeCall]
    BY <1>1, <1>2
  <2>5. raised \in BOOLEAN
    BY <1>1, Zenon
  <2>. QED BY <2>1, <2>2, <2>3, <2>4, <2>5 DEF CodeTypes
<1>5. CodeAlone /\ OneRowEach
  BY <1>1, <1>3 DEF CodeAlone, OneRowEach, Code!Busy
<1>6. \A c \in Callers : CallKnows(c)
  BY <1>3 DEF CallKnows, Applying, Reverting
<1>7. OneUse = 0 /\ \A u : OneOf(u) = 0
  BY <1>1, <1>3 DEF OneUse, OneOf, Between
<1>8. promo.usage = 0 /\ promo.utilised = 0
  BY <1>1
<1>9. CodeCounts
  BY <1>1, <1>7, <1>8, UsesOfOne DEF CodeCounts
<1>10. CodeLimits /\ CodeBudget
  BY <1>1, <1>3, <1>8, LimitsAssumption DEF CodeLimits, CodeBudget, Affordable
<1>11. CodeDiscounts
  <2>1. \A u : Discounted(u) = {} /\ LogOf(u) = {}
    BY <1>1 DEF Discounted, LogOf
  <2>2. Cardinality({}) = 0 /\ IsFiniteSet({})
    BY FS_EmptySet
  <2>3. \A u : IsFiniteSet(Discounted(u)) /\ Cardinality(Discounted(u)) = 0
               /\ UsesIn(LogOf(u)) = 0 /\ OneOf(u) = 0
    BY <1>7, <2>1, <2>2, UsesOfOne
  <2>4. \A u : Cardinality(Discounted(u)) <= UsesIn(LogOf(u)) + OneOf(u)
    BY <2>3
  <2>. QED BY <1>3, <2>3, <2>4 DEF CodeDiscounts, Reverting
<1>. QED BY <1>4, <1>5, <1>6, <1>9, <1>10, <1>11 DEF CodeGood

\* As long as no call overlaps with another or fails, a step keeps what holds.
LEMMA CodeStep ==
    ASSUME CodeInv, [Code!Next]_(Code!couponVars)
    PROVE  CodeInv'
<1>1. SUFFICES ASSUME clashed' = {} PROVE CodeGood'
  BY DEF CodeInv
<1>2. clashed \subseteq clashed'
  BY DEF Code!Next, Code!couponVars, Code!CancelByDriver, Code!Complete, Code!Expire, Code!Calls,
         Code!Validate, Code!ReadPromo, Code!Count, Code!ReadLog, Code!WriteLog, Code!FindLog,
         Code!Unlog, Code!RereadPromo, Code!Uncount, Code!Fail, Code!Accept, Code!Cancel,
         Code!Start, Code!Insert
<1>3. clashed = {} /\ CodeGood
  BY <1>1, <1>2 DEF CodeInv
<1>4. CASE UNCHANGED Code!couponVars
  <2>1. UNCHANGED <<promo, uses, inserts, booked, call, clashed, freed, raised>>
    BY <1>4 DEF Code!couponVars
  <2>2. CodeTypes' /\ CodeAlone' /\ OneRowEach' /\ \A c \in Callers : CallKnows(c)'
    BY <1>3, <2>1 DEF CodeGood, CodeTypes, CodeAlone, OneRowEach, CallKnows, Code!Busy, LogOf
  <2>3. CodeCounts' /\ CodeLimits' /\ CodeBudget' /\ CodeDiscounts'
    BY <1>3, <2>1 DEF CodeGood, CodeCounts, CodeLimits, CodeBudget, CodeDiscounts, OneUse, OneOf,
                      LogOf, Discounted, UsesIn, Affordable
  <2>. QED BY <2>2, <2>3 DEF CodeGood
<1>5. ASSUME NEW t \in DOMAIN UserOf,
             Code!CancelByDriver(t) \/ Code!Complete(t) \/ Code!Expire(t)
      PROVE  CodeGood'
  <2>1. PICK v \in {"asked", "completed", "expired"} : booked' = [booked EXCEPT ![t].st = v]
    BY <1>5 DEF Code!CancelByDriver, Code!Complete, Code!Expire
  <2>2. UNCHANGED <<promo, uses, inserts, call, clashed, freed, raised>>
    BY <1>5 DEF Code!CancelByDriver, Code!Complete, Code!Expire
  <2>. QED BY <1>3, <2>1, <2>2, StateGood
<1>6. ASSUME NEW c \in Callers, Code!Calls(c) PROVE CodeGood'
  <2>1. CASE Code!Fail(c)
    BY <1>1, <2>1 DEF Code!Fail
  <2>2. CASE Code!Validate(c)
    BY <1>3, <2>2, ValidateGood
  <2>3. CASE Code!ReadPromo(c)
    BY <1>3, <2>3, ReadPromoGood
  <2>4. CASE Code!Count(c)
    BY <1>3, <2>4, CountGood
  <2>5. CASE Code!ReadLog(c)
    BY <1>3, <2>5, ReadLogGood
  <2>6. CASE Code!WriteLog(c)
    BY <1>3, <2>6, WriteLogGood
  <2>7. CASE Code!FindLog(c)
    BY <1>3, <2>7, FindLogGood
  <2>8. CASE Code!Unlog(c)
    BY <1>3, <2>8, UnlogGood
  <2>9. CASE Code!RereadPromo(c)
    BY <1>3, <2>9, RereadPromoGood
  <2>10. CASE Code!Uncount(c)
    BY <1>3, <2>10, UncountGood
  <2>. QED BY <1>6, <2>1, <2>2, <2>3, <2>4, <2>5, <2>6, <2>7, <2>8, <2>9, <2>10 DEF Code!Calls
<1>7. ASSUME NEW c \in Callers, NEW t \in DOMAIN UserOf, Code!Accept(c, t) \/ Code!Cancel(c, t)
      PROVE  CodeGood'
  BY <1>1, <1>3, <1>7, AcceptGood, CancelGood
<1>8. CASE Code!Insert
  BY <1>3, <1>8, InsertGood
<1>. QED BY <1>4, <1>5, <1>6, <1>7, <1>8 DEF Code!Next, Code!Rides

\* A code is counted, and its limits are kept, whatever is applied and reverted.
LEMMA CodeInvariant == Code!Spec => []CodeInv
<1>1. Code!Init => CodeInv
  BY CodeInit DEF CodeInv
<1>2. CodeInv /\ [Code!Next]_(Code!couponVars) => CodeInv'
  BY CodeStep
<1>. QED BY <1>1, <1>2, PTL DEF Code!Spec

\* UsageAgrees: while no call is under way, the totals of the code and the log of its
\* users tell the same number of uses, whatever was applied, given back and reverted.
THEOREM UsageAlwaysAgrees == Code!Spec => []UsageAgrees
<1>1. CodeInv => UsageAgrees
  <2>1. SUFFICES ASSUME CodeGood, UsersAtWork = {} PROVE promo.usage = UsesIn(uses)
    BY DEF CodeInv, UsageAgrees
  <2>2. (\A c \in Callers : call[c].pc = "idle") /\ inserts = {}
    BY <2>1, NobodyAtWork
  <2>3. OneUse = 0 /\ UsesIn(uses) \in Int
    BY <2>1, <2>2, UsesAreInt DEF OneUse, Between, CodeGood, CodeTypes
  <2>. QED BY <2>1, <2>3 DEF CodeGood, CodeCounts
<1>. QED BY <1>1, CodeInvariant, PTL

\* LimitsKept: nobody uses the code more often, nor all together more often, than it
\* allows, every discount is counted, and the total stays within the budget until a
\* use that counted negatively is reverted.
THEOREM LimitsAlwaysKept == Code!Spec => []LimitsKept
<1>1. CodeInv => LimitsKept
  <2>1. SUFFICES ASSUME clashed = {}, CodeGood PROVE LimitsKept
    BY DEF CodeInv, LimitsKept
  <2>2. ASSUME NEW x \in uses PROVE UsesIn(LogOf(x.user)) <= UserLimit
    <3>1. LogOf(x.user) = {x} /\ x \in CodeRow
      BY <2>1 DEF CodeGood, CodeTypes, OneRowEach, LogOf
    <3>2. UsesIn(LogOf(x.user)) = x.count
      BY <3>1, UsesOfOne
    <3>. QED BY <2>1, <3>2 DEF CodeGood, CodeLimits
  <2>3. ASSUME UsersAtWork = {}, NEW t \in DOMAIN UserOf, UserOf[t] \notin freed
        PROVE  Cardinality(Discounted(UserOf[t])) <= UsesIn(LogOf(UserOf[t]))
    <3>1. (\A c \in Callers : call[c].pc = "idle") /\ inserts = {}
      BY <2>1, <2>3, NobodyAtWork
    <3>2. OneOf(UserOf[t]) = 0
      BY <3>1 DEF OneOf
    <3>3. LogOf(UserOf[t]) \subseteq CodeRow /\ IsFiniteSet(LogOf(UserOf[t]))
      BY <2>1, FS_Subset DEF CodeGood, CodeTypes, LogOf
    <3>4. UsesIn(LogOf(UserOf[t])) \in Int
      BY <3>3, UsesAreInt
    <3>. QED BY <2>1, <2>3, <3>2, <3>4 DEF CodeGood, CodeDiscounts
  <2>. QED BY <2>1, <2>2, <2>3 DEF LimitsKept, CodeGood, CodeLimits, CodeBudget, Affordable
<1>. QED BY <1>1, CodeInvariant, PTL

-----------------------------------------------------------------------------
(* Reviews *)

\* The rows, and the shapes of what handlers remember.
RatingRow == [rating : Nat, count : Nat]
ReviewRow == [for : Users \cup {"none"}, rating : Nat]
ReviewWork == [step : {"none", "store", "find", "count"}, for : Users \cup {"none"},
               rating : Nat, at : Nat, row : RatingRow]

RateTypes ==
    /\ review \in Seq(ReviewRow)
    /\ meta \in [Users -> Seq(RatingRow)]
    /\ reviewJob \in [Handlers -> ReviewWork]
    /\ \A h \in Handlers : reviewJob[h].step # "none" => reviewJob[h].for \in Users

\* Who has stored a review of u that is not yet in his rating, and its stars.
Owing(u) == {h \in Handlers : reviewJob[h].for = u /\ reviewJob[h].step \in {"find", "count"}}
Owed(u) == SumFunctionOnSet([h \in Owing(u) |-> reviewJob[h].rating], Owing(u))

RowOf(u) == IF meta[u] = <<>> THEN Unrated ELSE meta[u][1]

\* How far from sum a mean r of c ratings may be.
NearBy(r, c, sum) == LET gap == r * c - sum IN -(c * (c + 1)) <= 4 * gap /\ 4 * gap <= c * (c + 1)

\* The rating of u is made of the reviews that are counted.
CountedSoFar(u) ==
    /\ Len(meta[u]) <= 1
    /\ RowOf(u).count = Cardinality(ReviewsOf(u)) - Cardinality(Owing(u))
    /\ NearBy(RowOf(u).rating, RowOf(u).count, StarsOf(u) - Owed(u))

\* Who is about to write the rating of u is alone with it and has read it as it is.
ReadAsItIs(u) ==
    \A h \in Owing(u) : reviewJob[h].step = "count" =>
        /\ reviewJob[h].at = Len(meta[u]) /\ reviewJob[h].row = RowOf(u)
        /\ \A g \in Owing(u) \ {h} : reviewJob[g].step # "count"

RateInv ==
    /\ RateTypes
    /\ \A u \in Users \ (metaOverlapped \cup uncounted) : CountedSoFar(u) /\ ReadAsItIs(u)

\* A quotient of natural numbers, and what it leaves.
LEMMA Quotient ==
    ASSUME NEW a \in Nat, NEW b \in Nat \ {0}
    PROVE  a \div b \in Nat /\ b * (a \div b) <= a /\ a < b * (a \div b) + b
OBVIOUS

\* A mean with one more rating is off by half a hundredth more for each rating.
LEMMA MeanStep ==
    ASSUME NEW row \in RatingRow, NEW x \in Nat, NEW sum \in Int,
           NearBy(row.rating, row.count, sum)
    PROVE  /\ Rev!Mean(row, x) \in Nat
           /\ NearBy(Rev!Mean(row, x), row.count + 1, sum + x)
<1> DEFINE r == row.rating   c == row.count   n == c + 1   a == 2 * (r * c + x) + n
           m == a \div (2 * n)
<1>1. r \in Nat /\ c \in Nat /\ n \in Nat \ {0} /\ r * c \in Nat
  BY DEF RatingRow
<1>2. a \in Nat /\ 2 * n \in Nat \ {0}
  BY <1>1
<1>3. m \in Nat /\ (2 * n) * m <= a /\ a < (2 * n) * m + 2 * n
  <2> HIDE DEF a, n
  <2> QED BY <1>2, Quotient
<1>4. Rev!Mean(row, x) = m
  BY DEF Rev!Mean
<1>5. (2 * n) * m = 2 * (m * n) /\ m * n \in Nat
  BY <1>1, <1>3
<1>6. n * (n + 1) = c * (c + 1) + 2 * n /\ c * (c + 1) \in Nat /\ n * (n + 1) \in Nat
  BY <1>1
<1>7. -(c * (c + 1)) <= 4 * (r * c - sum) /\ 4 * (r * c - sum) <= c * (c + 1)
  BY DEF NearBy
<1>8. 4 * (m * n - (sum + x)) <= n * (n + 1) /\ -(n * (n + 1)) <= 4 * (m * n - (sum + x))
  <2> DEFINE p == m * n  q == r * c  k == c * (c + 1)  l == n * (n + 1)
  <2>1. p \in Nat /\ q \in Nat /\ k \in Nat /\ l \in Nat /\ l = k + 2 * n
    BY <1>1, <1>5, <1>6
  <2>2. 2 * p <= 2 * (q + x) + n /\ 2 * (q + x) + n < 2 * p + 2 * n
    BY <1>3, <1>5
  <2>3. -k <= 4 * (q - sum) /\ 4 * (q - sum) <= k
    BY <1>7
  <2>4. 4 * (p - (sum + x)) <= l /\ -l <= 4 * (p - (sum + x))
    <3> HIDE DEF p, q, k, l
    <3> QED BY <1>1, <2>1, <2>2, <2>3
  <2> QED BY <2>4
<1> QED
  BY <1>3, <1>4, <1>8 DEF NearBy

\* A mean is a natural number.
LEMMA MeanIsNat ==
    ASSUME NEW row \in RatingRow, NEW x \in Nat
    PROVE  Rev!Mean(row, x) \in Nat
<1>1. row.rating \in Nat /\ row.count \in Nat
  BY DEF RatingRow
<1>2. 2 * (row.rating * row.count + x) + (row.count + 1) \in Nat
      /\ 2 * (row.count + 1) \in Nat \ {0}
  BY <1>1
<1> QED
  BY <1>2, Quotient DEF Rev!Mean

\* Nobody owes a review of anybody, at first.
LEMMA RateInit == Rev!Reviewing /\ Rev!Init => RateInv
<1> SUFFICES ASSUME Rev!Reviewing, Rev!Init PROVE RateInv
  OBVIOUS
<1>1. RateTypes
  <2>1. Rev!Idle \in ReviewWork /\ Rev!Idle.step = "none"
    BY DEF Rev!Idle, Rev!Unrated, ReviewWork, Unrated, RatingRow
  <2>2. <<>> \in Seq(ReviewRow) /\ <<>> \in Seq(RatingRow)
    OBVIOUS
  <2> QED BY <2>1, <2>2 DEF Rev!Init, RateTypes
<1>2. ASSUME NEW u \in Users PROVE CountedSoFar(u) /\ ReadAsItIs(u)
  <2>1. Owing(u) = {} /\ ReviewsOf(u) = {} /\ meta[u] = <<>>
    BY DEF Rev!Init, Rev!Idle, Owing, ReviewsOf
  <2>2. StarsOf(u) = 0 /\ Owed(u) = 0 /\ Cardinality({}) = 0
    BY <2>1, SumStep, FS_EmptySet DEF StarsOf, Owed
  <2>3. RowOf(u).rating = 0 /\ RowOf(u).count = 0 /\ Len(meta[u]) <= 1
    BY <2>1 DEF RowOf, Unrated
  <2>4. CountedSoFar(u)
    BY <2>1, <2>2, <2>3 DEF CountedSoFar, NearBy
  <2> QED BY <2>1, <2>4 DEF ReadAsItIs
<1> QED
  BY <1>1, <1>2 DEF RateInv

\* Every row and every handler has its shape, also after a step.
LEMMA RateTypesStep == Rev!Reviewing /\ RateTypes /\ [Rev!Next]_Rev!reviewVars => RateTypes'
<1> SUFFICES ASSUME Rev!Reviewing, RateTypes, [Rev!Next]_Rev!reviewVars PROVE RateTypes'
  OBVIOUS
<1> USE DEF RateTypes
<1>1. Rev!Idle \in ReviewWork /\ Rev!Idle.step = "none" /\ Rev!Unrated \in RatingRow
  BY DEF Rev!Idle, Rev!Unrated, ReviewWork, Unrated, RatingRow
<1>2. ASSUME NEW h \in Handlers, NEW t \in Trips, NEW side \in Rev!Sides, NEW rating \in Ratings,
             Rev!SaveReview(h, t, side, rating)
      PROVE  RateTypes'
  <2>1. RatedBy[t][side] \in Users /\ rating \in Nat
    BY DEF Rev!Reviewing
  <2>2. reviewJob'[h] \in ReviewWork /\ reviewJob'[h].for \in Users
    BY <1>1, <1>2, <2>1 DEF Rev!SaveReview, Rev!Idle, ReviewWork
  <2> QED BY <1>2, <2>2 DEF Rev!SaveReview
<1>3. ASSUME NEW h \in Handlers, Rev!Store(h) PROVE RateTypes'
  <2>1. reviewJob[h].for \in Users /\ reviewJob[h].rating \in Nat
    BY <1>3 DEF Rev!Store, Rev!At, ReviewWork
  <2>2. [for |-> reviewJob[h].for, rating |-> reviewJob[h].rating] \in ReviewRow
    BY <2>1 DEF ReviewRow
  <2>3. [reviewJob[h] EXCEPT !.step = "find"] \in ReviewWork
    BY DEF ReviewWork
  <2>4. reviewJob'[h] = [reviewJob[h] EXCEPT !.step = "find"]
    BY <1>3 DEF Rev!Store
  <2>5. reviewJob'[h].for \in Users
    BY <2>1, <2>4 DEF ReviewWork
  <2> QED BY <1>3, <2>2, <2>3, <2>4, <2>5 DEF Rev!Store
<1>4. ASSUME NEW h \in Handlers, Rev!FindMeta(h) PROVE RateTypes'
  <2>1. reviewJob[h].for \in Users
    BY <1>4 DEF Rev!FindMeta, Rev!At, ReviewWork
  <2>2. PICK i \in IF meta[reviewJob[h].for] = <<>> THEN {0} ELSE DOMAIN meta[reviewJob[h].for] :
          reviewJob' = [reviewJob EXCEPT ![h].step = "count", ![h].at = i,
                           ![h].row = IF i = 0 THEN Rev!Unrated ELSE meta[reviewJob[h].for][i]]
    BY <1>4 DEF Rev!FindMeta
  <2>3. PICK row : row = IF i = 0 THEN Rev!Unrated ELSE meta[reviewJob[h].for][i]
    OBVIOUS
  <2>4. meta[reviewJob[h].for] \in Seq(RatingRow)
    BY <2>1
  <2>5. i \in Nat /\ row \in RatingRow
    BY <1>1, <2>2, <2>3, <2>4
  <2>6. \A j \in ReviewWork, n \in Nat, r \in RatingRow :
            [j EXCEPT !.step = "count", !.at = n, !.row = r] \in ReviewWork
    BY DEF ReviewWork
  <2>7. reviewJob'[h] = [reviewJob[h] EXCEPT !.step = "count", !.at = i, !.row = row]
    BY <2>2, <2>3
  <2>8. reviewJob'[h] \in ReviewWork
    <3>1. reviewJob[h] \in ReviewWork
      OBVIOUS
    <3>2. [reviewJob[h] EXCEPT !.step = "count", !.at = i, !.row = row] \in ReviewWork
      BY <2>5, <2>6, <3>1
    <3> QED BY <2>7, <3>2
  <2>9. reviewJob'[h].for = reviewJob[h].for
    BY <2>7 DEF ReviewWork
  <2>10. reviewJob' \in [Handlers -> ReviewWork]
    BY <2>2, <2>8
  <2>11. \A g \in Handlers \ {h} : reviewJob'[g] = reviewJob[g]
    BY <2>2
  <2> QED BY <1>4, <2>1, <2>9, <2>10, <2>11 DEF Rev!FindMeta
<1>5. ASSUME NEW h \in Handlers, Rev!Count(h) PROVE RateTypes'
  <2>1. reviewJob[h].for \in Users /\ reviewJob[h].rating \in Nat /\ reviewJob[h].row \in RatingRow
        /\ reviewJob[h].at \in Nat
    BY <1>5 DEF Rev!Count, Rev!At, ReviewWork
  <2>2. PICK row : row = [rating |-> Rev!Mean(reviewJob[h].row, reviewJob[h].rating),
                          count |-> reviewJob[h].row.count + 1]
    OBVIOUS
  <2>3. row \in RatingRow
    <3>1. Rev!Mean(reviewJob[h].row, reviewJob[h].rating) \in Nat
      BY <2>1, MeanIsNat
    <3>2. reviewJob[h].row.count + 1 \in Nat
      BY <2>1 DEF RatingRow
    <3>3. \A m, n \in Nat : [rating |-> m, count |-> n] \in RatingRow
      BY DEF RatingRow
    <3> QED BY <2>2, <3>1, <3>2, <3>3, Zenon
  <2>4. PICK u : u = reviewJob[h].for
    OBVIOUS
  <2>5. meta' = [meta EXCEPT ![u] = IF reviewJob[h].at = 0 THEN Append(@, row)
                                    ELSE [@ EXCEPT ![reviewJob[h].at] = row]]
    BY <1>5, <2>2, <2>4 DEF Rev!Count
  <2>6. meta[u] \in Seq(RatingRow)
    BY <2>1, <2>4
  <2>7. Append(meta[u], row) \in Seq(RatingRow)
        /\ [meta[u] EXCEPT ![reviewJob[h].at] = row] \in Seq(RatingRow)
    <3>1. \A s \in Seq(RatingRow) : Append(s, row) \in Seq(RatingRow)
      BY <2>3
    <3>2. ASSUME NEW s \in Seq(RatingRow), NEW k
          PROVE  [s EXCEPT ![k] = row] \in Seq(RatingRow)
      <4>1. s \in [1..Len(s) -> RatingRow] /\ Len(s) \in Nat
        BY LenProperties
      <4>2. [s EXCEPT ![k] = row] \in [1..Len(s) -> RatingRow]
        BY <2>3, <4>1
      <4> QED BY <4>1, <4>2, SeqDef
    <3> QED BY <2>6, <3>1, <3>2
  <2>8. meta' \in [Users -> Seq(RatingRow)]
    BY <2>5, <2>7
  <2> QED BY <1>1, <1>5, <2>8 DEF Rev!Count
<1>6. ASSUME NEW h \in Handlers, Rev!Fail(h) PROVE RateTypes'
  BY <1>1, <1>6 DEF Rev!Fail
<1>7. ASSUME NEW i \in DOMAIN review, NEW rating \in Ratings, Rev!UpdateReview(i, rating)
      PROVE  RateTypes'
  <2>1. [review[i] EXCEPT !.rating = rating] \in ReviewRow
    <3>1. rating \in Nat /\ review[i] \in ReviewRow
      BY DEF Rev!Reviewing
    <3> QED BY <3>1 DEF ReviewRow
  <2>2. review' = [review EXCEPT ![i] = [review[i] EXCEPT !.rating = rating]]
    BY <1>7 DEF Rev!UpdateReview
  <2>3. review' \in Seq(ReviewRow)
    BY <2>1, <2>2
  <2> QED BY <1>7, <2>3 DEF Rev!UpdateReview
<1>8. ASSUME NEW i \in DOMAIN review, Rev!RemoveReview(i) PROVE RateTypes'
  <2>1. Rev!Removed \in ReviewRow
    BY DEF Rev!Removed, ReviewRow
  <2>2. review' \in Seq(ReviewRow)
    BY <1>8, <2>1 DEF Rev!RemoveReview
  <2> QED BY <1>8, <2>2 DEF Rev!RemoveReview
<1>9. CASE UNCHANGED Rev!reviewVars
  BY <1>9 DEF Rev!reviewVars
<1> QED
  BY <1>2, <1>3, <1>4, <1>5, <1>6, <1>7, <1>8, <1>9 DEF Rev!Next

\* The rating of a review is a natural number.
LEMMA ReviewsAreRows ==
    RateTypes => \A u \in Users : \A i \in ReviewsOf(u) : review[i].rating \in Nat
<1>1. ASSUME RateTypes, NEW u \in Users, NEW i \in ReviewsOf(u) PROVE review[i] \in ReviewRow
  BY <1>1 DEF RateTypes, ReviewsOf
<1>2. \A row \in ReviewRow : row.rating \in Nat
  BY DEF ReviewRow
<1> QED
  BY <1>1, <1>2

\* What is counted and summed is finite.
LEMMA ReviewsCount ==
    ASSUME Rev!Reviewing, RateTypes, NEW u \in Users
    PROVE  /\ IsFiniteSet(ReviewsOf(u)) /\ IsFiniteSet(Owing(u))
           /\ Cardinality(ReviewsOf(u)) \in Nat /\ Cardinality(Owing(u)) \in Nat
           /\ \A i \in ReviewsOf(u) : review[i].rating \in Nat
           /\ \A h \in Owing(u) : reviewJob[h].rating \in Nat
           /\ StarsOf(u) \in Nat /\ Owed(u) \in Nat
<1>1. IsFiniteSet(ReviewsOf(u))
  <2>1. DOMAIN review = 1..Len(review) /\ Len(review) \in Nat
    BY DEF RateTypes
  <2>2. IsFiniteSet(DOMAIN review)
    BY <2>1, FS_Interval
  <2> QED BY <2>2, FS_Subset DEF ReviewsOf
<1>2. IsFiniteSet(Owing(u))
  <2>1. Owing(u) \subseteq Handlers /\ Rev!IsFiniteSet(Handlers)
    BY DEF Owing, Rev!Reviewing
  <2>2. IsFiniteSet(Handlers)
    BY <2>1 DEF Rev!IsFiniteSet, IsFiniteSet
  <2> QED BY <2>1, <2>2, FS_Subset
<1>3. \A i \in ReviewsOf(u) : review[i].rating \in Nat
  BY ReviewsAreRows
<1>4. \A h \in Owing(u) : reviewJob[h].rating \in Nat
  BY DEF RateTypes, Owing, ReviewWork
<1>5. StarsOf(u) \in Nat
  <2> DEFINE F == [i \in ReviewsOf(u) |-> review[i].rating]
  <2>1. \A i \in ReviewsOf(u) : F[i] \in Nat
    BY <1>3
  <2> HIDE DEF F
  <2>2. SumFunctionOnSet(F, ReviewsOf(u)) \in Nat
    BY <1>1, <2>1, SumType
  <2> QED BY <2>2 DEF StarsOf, F
<1>6. Owed(u) \in Nat
  <2> DEFINE F == [h \in Owing(u) |-> reviewJob[h].rating]
  <2>1. \A h \in Owing(u) : F[h] \in Nat
    BY <1>4
  <2> HIDE DEF F
  <2>2. SumFunctionOnSet(F, Owing(u)) \in Nat
    BY <1>2, <2>1, SumType
  <2> QED BY <2>2 DEF Owed, F
<1> QED
  BY <1>1, <1>2, <1>3, <1>4, <1>5, <1>6, FS_CardinalityType

\* A user whose reviews, row and debts stay has his rating made of the same ones.
LEMMA RatingStays ==
    ASSUME NEW u \in Users, CountedSoFar(u), meta'[u] = meta[u],
           ReviewsOf(u)' = ReviewsOf(u), Owing(u)' = Owing(u),
           \A i \in ReviewsOf(u) : review'[i].rating = review[i].rating,
           \A h \in Owing(u) : reviewJob'[h].rating = reviewJob[h].rating
    PROVE  CountedSoFar(u)'
<1>1. [i \in ReviewsOf(u)' |-> review'[i].rating] = [i \in ReviewsOf(u) |-> review[i].rating]
  OBVIOUS
<1>2. [h \in Owing(u)' |-> reviewJob'[h].rating] = [h \in Owing(u) |-> reviewJob[h].rating]
  OBVIOUS
<1>3. StarsOf(u)' = StarsOf(u) /\ Owed(u)' = Owed(u)
  BY <1>1, <1>2 DEF StarsOf, Owed
<1>4. RowOf(u)' = RowOf(u)
  BY DEF RowOf
<1> QED
  BY <1>3, <1>4 DEF CountedSoFar, NearBy

\* And who has read his row has read it as it is.
LEMMA ReadingStays ==
    ASSUME NEW u \in Users, ReadAsItIs(u), meta'[u] = meta[u], Owing(u)' = Owing(u),
           \A h \in Owing(u) : reviewJob'[h] = reviewJob[h]
    PROVE  ReadAsItIs(u)'
BY DEF ReadAsItIs, RowOf

\* A review that is stored is owed.
LEMMA ReviewIsOwed ==
    ASSUME Rev!Reviewing, RateTypes, RateTypes', NEW h \in Handlers, Rev!Store(h),
           NEW u \in Users, u = reviewJob[h].for, CountedSoFar(u)
    PROVE  CountedSoFar(u)'
<1>1. PICK k : k = Len(review) + 1
  OBVIOUS
<1>2. review' = Append(review, [for |-> u, rating |-> reviewJob[h].rating])
      /\ reviewJob' = [reviewJob EXCEPT ![h].step = "find"] /\ meta' = meta
  BY DEF Rev!Store
<1>3. /\ k \notin DOMAIN review /\ DOMAIN review' = DOMAIN review \cup {k}
      /\ \A i \in DOMAIN review : review'[i] = review[i]
      /\ review'[k] = [for |-> u, rating |-> reviewJob[h].rating]
  BY <1>1, <1>2 DEF RateTypes
<1>4. ReviewsOf(u)' = ReviewsOf(u) \cup {k} /\ k \notin ReviewsOf(u)
  BY <1>3 DEF ReviewsOf
<1>5. reviewJob'[h].step = "find" /\ reviewJob'[h].for = u
      /\ reviewJob'[h].rating = reviewJob[h].rating /\ reviewJob[h].step = "store"
      /\ \A g \in Handlers \ {h} : reviewJob'[g] = reviewJob[g]
  BY <1>2 DEF RateTypes, ReviewWork, Rev!Store, Rev!At
<1>6. Owing(u)' = Owing(u) \cup {h} /\ h \notin Owing(u)
  BY <1>5 DEF Owing
<1>7. PICK x : x = reviewJob[h].rating
  OBVIOUS
<1>8. StarsOf(u)' = StarsOf(u) + x
  <2> DEFINE S == ReviewsOf(u)'
             F == [i \in S |-> review'[i].rating]
             G == [i \in ReviewsOf(u) |-> review[i].rating]
  <2>1. IsFiniteSet(S) /\ k \in S /\ S \ {k} = ReviewsOf(u) /\ IsFiniteSet(ReviewsOf(u))
    BY <1>4, ReviewsCount, FS_AddElement
  <2>2. \A i \in S : F[i] \in Int
    <3>1. \A i \in ReviewsOf(u) : review'[i].rating \in Nat
      BY <1>3, ReviewsAreRows DEF ReviewsOf
    <3>2. review'[k].rating \in Nat
      BY <1>3 DEF RateTypes, ReviewWork
    <3> QED BY <1>4, <3>1, <3>2
  <2>3. F[k] = x /\ \A i \in ReviewsOf(u) : F[i] = G[i]
    BY <1>3, <1>4, <1>7 DEF ReviewsOf
  <2>4. StarsOf(u)' = SumFunctionOnSet(F, S) /\ StarsOf(u) = SumFunctionOnSet(G, ReviewsOf(u))
    BY DEF StarsOf
  <2> HIDE DEF F, G, S
  <2>5. SumFunctionOnSet(F, S) = F[k] + SumFunctionOnSet(F, ReviewsOf(u))
    BY <2>1, <2>2, SumSplit
  <2>6. SumFunctionOnSet(F, ReviewsOf(u)) = SumFunctionOnSet(G, ReviewsOf(u))
    BY <2>1, <2>3, SumSame
  <2>7. StarsOf(u) \in Nat /\ x \in Nat
    BY <1>7, ReviewsCount DEF RateTypes, ReviewWork
  <2> QED BY <2>3, <2>4, <2>5, <2>6, <2>7
<1>9. Owed(u)' = Owed(u) + x
  <2> DEFINE S == Owing(u)'
             F == [g \in S |-> reviewJob'[g].rating]
             G == [g \in Owing(u) |-> reviewJob[g].rating]
  <2>1. IsFiniteSet(S) /\ h \in S /\ S \ {h} = Owing(u) /\ IsFiniteSet(Owing(u))
    BY <1>6, ReviewsCount, FS_AddElement
  <2>2. \A g \in S : F[g] \in Int
    <3>1. \A g \in Owing(u)' : reviewJob'[g].rating \in Nat
      BY DEF RateTypes, Owing, ReviewWork
    <3> QED BY <3>1
  <2>3. F[h] = x /\ \A g \in Owing(u) : F[g] = G[g]
    BY <1>5, <1>6, <1>7 DEF Owing
  <2>4. Owed(u)' = SumFunctionOnSet(F, S) /\ Owed(u) = SumFunctionOnSet(G, Owing(u))
    BY DEF Owed
  <2> HIDE DEF F, G, S
  <2>5. SumFunctionOnSet(F, S) = F[h] + SumFunctionOnSet(F, Owing(u))
    BY <2>1, <2>2, SumSplit
  <2>6. SumFunctionOnSet(F, Owing(u)) = SumFunctionOnSet(G, Owing(u))
    BY <2>1, <2>3, SumSame
  <2>7. Owed(u) \in Nat /\ x \in Nat
    BY <1>7, ReviewsCount DEF RateTypes, ReviewWork
  <2> QED BY <2>3, <2>4, <2>5, <2>6, <2>7
<1>10. /\ Cardinality(ReviewsOf(u)') = Cardinality(ReviewsOf(u)) + 1
       /\ Cardinality(Owing(u)') = Cardinality(Owing(u)) + 1
  BY <1>4, <1>6, ReviewsCount, FS_AddElement
<1>11. RowOf(u)' = RowOf(u) /\ meta'[u] = meta[u]
  BY <1>2 DEF RowOf
<1>12. StarsOf(u)' - Owed(u)' = StarsOf(u) - Owed(u)
       /\ Cardinality(ReviewsOf(u)') - Cardinality(Owing(u)')
              = Cardinality(ReviewsOf(u)) - Cardinality(Owing(u))
  <2>1. x \in Nat
    BY <1>7 DEF RateTypes, ReviewWork
  <2> QED BY <1>8, <1>9, <1>10, <2>1, ReviewsCount
<1> QED
  BY <1>11, <1>12 DEF CountedSoFar, NearBy

\* A row that is written counts one review that was owed.
LEMMA OwedIsCounted ==
    ASSUME Rev!Reviewing, RateTypes, RateTypes', NEW h \in Handlers, Rev!Count(h),
           NEW u \in Users, u = reviewJob[h].for, CountedSoFar(u), ReadAsItIs(u)
    PROVE  CountedSoFar(u)' /\ ReadAsItIs(u)'
<1>1. PICK x : x = reviewJob[h].rating
  OBVIOUS
<1>2. PICK old : old = RowOf(u)
  OBVIOUS
<1>3. PICK m : m = Rev!Mean(old, x)
  OBVIOUS
<1>4. h \in Owing(u) /\ reviewJob[h].step = "count"
  BY DEF Owing, Rev!Count, Rev!At
<1>5. reviewJob[h].at = Len(meta[u]) /\ reviewJob[h].row = old
      /\ \A g \in Owing(u) \ {h} : reviewJob[g].step # "count"
  BY <1>2, <1>4 DEF ReadAsItIs
<1>6. old \in RatingRow /\ x \in Nat /\ (Len(meta[u]) = 0 \/ Len(meta[u]) = 1) /\ meta[u] \in Seq(RatingRow)
  <2>1. meta[u] \in Seq(RatingRow) /\ x \in Nat
    BY <1>1 DEF RateTypes, ReviewWork
  <2>2. Len(meta[u]) <= 1 /\ Len(meta[u]) \in Nat
    BY <2>1 DEF CountedSoFar
  <2>3. Unrated \in RatingRow
    BY DEF Unrated, RatingRow
  <2>4. meta[u] # <<>> => meta[u][1] \in RatingRow
    BY <2>1
  <2>5. old \in RatingRow
    BY <1>2, <2>3, <2>4, Zenon DEF RowOf
  <2>6. Len(meta[u]) = 0 \/ Len(meta[u]) = 1
    <3>1. \A n \in Nat : n <= 1 => n = 0 \/ n = 1
      OBVIOUS
    <3> QED BY <2>2, <3>1, Zenon
  <2> QED BY <2>1, <2>5, <2>6
<1>7. PICK row : row = [rating |-> m, count |-> old.count + 1]
  OBVIOUS
<1>8. meta' = [meta EXCEPT ![u] = IF reviewJob[h].at = 0 THEN Append(@, row)
                                  ELSE [@ EXCEPT ![reviewJob[h].at] = row]]
      /\ reviewJob' = [reviewJob EXCEPT ![h] = Rev!Idle] /\ review' = review
  BY <1>1, <1>3, <1>5, <1>7 DEF Rev!Count
<1>9. Len(meta'[u]) = 1 /\ meta'[u][1] = row
  <2>1. CASE Len(meta[u]) = 0
    <3>1. meta'[u] = Append(meta[u], row)
      BY <1>5, <1>8, <2>1 DEF RateTypes
    <3>2. row \in RatingRow
      <4>1. m \in Nat
        BY <1>3, <1>6, MeanIsNat
      <4>3. old.count + 1 \in Nat
        BY <1>6 DEF RatingRow
      <4>2. \A k, n \in Nat : [rating |-> k, count |-> n] \in RatingRow
        BY DEF RatingRow
      <4> QED BY <1>7, <4>1, <4>2, <4>3, Zenon
    <3> QED BY <1>6, <2>1, <3>1, <3>2
  <2>2. CASE Len(meta[u]) = 1
    <3>1. meta'[u] = [meta[u] EXCEPT ![1] = row]
      BY <1>5, <1>8, <2>2 DEF RateTypes
    <3> QED BY <1>6, <2>2, <3>1
  <2> QED BY <1>6, <2>1, <2>2
<1>10. RowOf(u)' = row /\ row.rating = m /\ row.count = old.count + 1
  <2>1. meta'[u] # <<>>
    BY <1>9
  <2> QED BY <1>7, <1>9, <2>1 DEF RowOf
<1>11. /\ Owing(u)' = Owing(u) \ {h}
       /\ \A g \in Handlers \ {h} : reviewJob'[g] = reviewJob[g]
  <2>1. reviewJob'[h] = Rev!Idle /\ \A g \in Handlers \ {h} : reviewJob'[g] = reviewJob[g]
    BY <1>8 DEF RateTypes
  <2>2. Rev!Idle.step = "none"
    BY DEF Rev!Idle
  <2> QED BY <2>1, <2>2 DEF Owing
<1>12. Owed(u) = Owed(u)' + x
  <2> DEFINE S == Owing(u)
             F == [g \in S |-> reviewJob[g].rating]
             G == [g \in Owing(u)' |-> reviewJob'[g].rating]
  <2>1. IsFiniteSet(S) /\ h \in S /\ S \ {h} = Owing(u)'
    BY <1>4, <1>11, ReviewsCount
  <2>2. IsFiniteSet(S \ {h})
    BY <2>1, FS_Subset
  <2>3. \A g \in S : F[g] \in Int
    BY ReviewsCount
  <2>4. F[h] = x /\ \A g \in S \ {h} : F[g] = G[g]
    BY <1>1, <1>4, <1>11 DEF Owing
  <2>5. Owed(u) = SumFunctionOnSet(F, S) /\ Owed(u)' = SumFunctionOnSet(G, S \ {h})
    BY <2>1 DEF Owed
  <2>6. SumFunctionOnSet(G, S \ {h}) \in Int
    <3>1. \A g \in S \ {h} : G[g] \in Int
      BY <2>3, <2>4
    <3> HIDE DEF F, G, S
    <3> QED BY <2>2, <3>1, SumType
  <2> HIDE DEF F, G, S
  <2>7. SumFunctionOnSet(F, S) = F[h] + SumFunctionOnSet(F, S \ {h})
    BY <2>1, <2>3, SumSplit
  <2>8. SumFunctionOnSet(F, S \ {h}) = SumFunctionOnSet(G, S \ {h})
    BY <2>2, <2>4, SumSame
  <2> QED BY <1>6, <2>4, <2>5, <2>6, <2>7, <2>8
<1>13. StarsOf(u)' = StarsOf(u) /\ ReviewsOf(u)' = ReviewsOf(u)
  BY <1>8 DEF StarsOf, ReviewsOf
<1>14. Cardinality(Owing(u)') = Cardinality(Owing(u)) - 1
  BY <1>4, <1>11, ReviewsCount, FS_RemoveElement
<1>15. PICK sum : sum = StarsOf(u) - Owed(u)
  OBVIOUS
<1>16. sum \in Int /\ StarsOf(u)' - Owed(u)' = sum + x
  <2>1. StarsOf(u) \in Nat /\ Owed(u) \in Nat
    BY ReviewsCount
  <2>2. Owed(u)' \in Int
    <3>1. Owed(u)' = SumFunctionOnSet([g \in Owing(u)' |-> reviewJob'[g].rating], Owing(u)')
      BY DEF Owed
    <3>2. IsFiniteSet(Owing(u)')
      BY <1>11, ReviewsCount, FS_Subset
    <3>3. \A g \in Owing(u)' : reviewJob'[g].rating \in Int
      <4>1. \A g \in Owing(u) : reviewJob[g].rating \in Nat
        BY ReviewsCount
      <4>2. Owing(u) \subseteq Handlers
        BY DEF Owing
      <4> QED BY <1>11, <4>1, <4>2
    <3> DEFINE G == [g \in Owing(u)' |-> reviewJob'[g].rating]
    <3>4. \A g \in Owing(u)' : G[g] \in Int
      BY <3>3
    <3> HIDE DEF G
    <3>5. SumFunctionOnSet(G, Owing(u)') \in Int
      BY <3>2, <3>4, SumType
    <3> QED BY <3>1, <3>5 DEF G
  <2> QED BY <1>6, <1>12, <1>13, <1>15, <2>1, <2>2
<1>17. NearBy(old.rating, old.count, sum)
       /\ old.count = Cardinality(ReviewsOf(u)) - Cardinality(Owing(u))
  BY <1>2, <1>15 DEF CountedSoFar
<1>18. NearBy(m, old.count + 1, sum + x)
  BY <1>3, <1>6, <1>16, <1>17, MeanStep
<1>19. CountedSoFar(u)'
  <2>1. old.count + 1 = Cardinality(ReviewsOf(u)') - Cardinality(Owing(u)')
    BY <1>13, <1>14, <1>17, ReviewsCount
  <2>2. Len(meta'[u]) <= 1
    BY <1>9
  <2> QED BY <1>10, <1>16, <1>18, <2>1, <2>2 DEF CountedSoFar, NearBy
<1>20. ReadAsItIs(u)'
  BY <1>5, <1>11 DEF ReadAsItIs, Owing
<1> QED
  BY <1>19, <1>20

\* A review that was removed or changed is of nobody else.
LEMMA OthersReviewsStay ==
    ASSUME RateTypes, NEW i \in DOMAIN review, NEW u \in Users, u # review[i].for,
           NEW row, review' = [review EXCEPT ![i] = row], row.for # u,
           meta' = meta, reviewJob' = reviewJob, CountedSoFar(u), ReadAsItIs(u)
    PROVE  CountedSoFar(u)' /\ ReadAsItIs(u)'
<1>1. ReviewsOf(u)' = ReviewsOf(u) /\ \A k \in ReviewsOf(u) : review'[k] = review[k]
  <2>1. DOMAIN review' = DOMAIN review /\ review'[i] = row
        /\ \A k \in DOMAIN review \ {i} : review'[k] = review[k]
    OBVIOUS
  <2> QED BY <2>1 DEF ReviewsOf
<1>2. Owing(u)' = Owing(u)
  BY DEF Owing
<1>3. \A k \in ReviewsOf(u) : review'[k].rating = review[k].rating
  BY <1>1
<1> QED
  BY <1>1, <1>2, <1>3, RatingStays, ReadingStays

\* Requests that change nothing of the rating of u leave it and what was read of it.
LEMMA OthersRatingStays ==
    ASSUME NEW u \in Users, CountedSoFar(u), ReadAsItIs(u), review' = review,
           meta'[u] = meta[u], Owing(u)' = Owing(u),
           \A h \in Owing(u) : reviewJob'[h] = reviewJob[h]
    PROVE  CountedSoFar(u)' /\ ReadAsItIs(u)'
<1>1. ReviewsOf(u)' = ReviewsOf(u)
  BY DEF ReviewsOf
<1> QED
  BY <1>1, RatingStays, ReadingStays

\* Every rating that is not exempt stays one of the reviews that are counted.
LEMMA RateStep == Rev!Reviewing /\ RateInv /\ [Rev!Next]_Rev!reviewVars => RateInv'
<1> SUFFICES ASSUME Rev!Reviewing, RateInv, [Rev!Next]_Rev!reviewVars,
                    NEW u \in Users, u \notin metaOverlapped' \cup uncounted'
             PROVE  RateTypes' /\ CountedSoFar(u)' /\ ReadAsItIs(u)'
  BY RateTypesStep DEF RateInv
<1>1. RateTypes /\ RateTypes'
  BY RateTypesStep DEF RateInv
<1>2. metaOverlapped \subseteq metaOverlapped' /\ uncounted \subseteq uncounted'
  BY DEF Rev!Next, Rev!SaveReview, Rev!Store, Rev!FindMeta, Rev!Count, Rev!Fail,
         Rev!UpdateReview, Rev!RemoveReview, Rev!reviewVars
<1>3. CountedSoFar(u) /\ ReadAsItIs(u)
  BY <1>2 DEF RateInv
<1>4. ASSUME NEW h \in Handlers, NEW t \in Trips, NEW side \in Rev!Sides, NEW rating \in Ratings,
             Rev!SaveReview(h, t, side, rating)
      PROVE  CountedSoFar(u)' /\ ReadAsItIs(u)'
  <2>1. reviewJob[h].step = "none" /\ reviewJob'[h].step = "store"
        /\ \A g \in Handlers \ {h} : reviewJob'[g] = reviewJob[g]
    BY <1>1, <1>4 DEF Rev!SaveReview, Rev!Idle, RateTypes
  <2>2. Owing(u)' = Owing(u) /\ h \notin Owing(u) /\ Owing(u) \subseteq Handlers
    BY <2>1 DEF Owing
  <2>3. review' = review /\ meta' = meta
    BY <1>4 DEF Rev!SaveReview
  <2> QED BY <1>3, <2>1, <2>2, <2>3, OthersRatingStays
<1>5. ASSUME NEW h \in Handlers, Rev!Store(h) PROVE CountedSoFar(u)' /\ ReadAsItIs(u)'
  <2>1. reviewJob[h].step = "store" /\ reviewJob'[h].step = "find"
        /\ reviewJob'[h].for = reviewJob[h].for
        /\ \A g \in Handlers \ {h} : reviewJob'[g] = reviewJob[g]
    BY <1>1, <1>5 DEF Rev!Store, Rev!At, RateTypes, ReviewWork
  <2>2. h \notin Owing(u) /\ Owing(u) \subseteq Handlers /\ meta' = meta
    BY <1>5, <2>1 DEF Owing, Rev!Store
  <2>3. CASE reviewJob[h].for = u
    <3>1. CountedSoFar(u)'
      BY <1>1, <1>3, <1>5, <2>3, ReviewIsOwed
    <3>2. Owing(u)' = Owing(u) \cup {h}
      BY <2>1, <2>3 DEF Owing
    <3>3. ReadAsItIs(u)'
      BY <1>3, <2>1, <2>2, <3>2 DEF ReadAsItIs, RowOf
    <3> QED BY <3>1, <3>3
  <2>4. CASE reviewJob[h].for # u
    <3>1. Owing(u)' = Owing(u)
      BY <2>1, <2>4 DEF Owing
    <3>2. ReviewsOf(u)' = ReviewsOf(u) /\ \A i \in ReviewsOf(u) : review'[i] = review[i]
      <4>1. review' = Append(review, [for |-> reviewJob[h].for, rating |-> reviewJob[h].rating])
        BY <1>5 DEF Rev!Store
      <4>2. PICK k : k = Len(review) + 1
        OBVIOUS
      <4>3. DOMAIN review' = DOMAIN review \cup {k} /\ review'[k].for # u
            /\ \A i \in DOMAIN review : review'[i] = review[i]
        BY <1>1, <2>4, <4>1, <4>2 DEF RateTypes
      <4>4. k \notin DOMAIN review
        BY <1>1, <4>2 DEF RateTypes
      <4> QED BY <4>3, <4>4 DEF ReviewsOf
    <3>3. /\ \A i \in ReviewsOf(u) : review'[i].rating = review[i].rating
          /\ \A g \in Owing(u) : reviewJob'[g] = reviewJob[g]
      BY <2>1, <2>2, <3>2
    <3> QED BY <1>3, <2>2, <3>1, <3>2, <3>3, RatingStays, ReadingStays
  <2> QED BY <2>3, <2>4
<1>6. ASSUME NEW h \in Handlers, Rev!FindMeta(h) PROVE CountedSoFar(u)' /\ ReadAsItIs(u)'
  <2>1. PICK i \in IF meta[reviewJob[h].for] = <<>> THEN {0} ELSE DOMAIN meta[reviewJob[h].for] :
          reviewJob' = [reviewJob EXCEPT ![h].step = "count", ![h].at = i,
                           ![h].row = IF i = 0 THEN Rev!Unrated ELSE meta[reviewJob[h].for][i]]
    BY <1>6 DEF Rev!FindMeta
  <2>2. reviewJob[h].step = "find" /\ reviewJob'[h].step = "count"
        /\ reviewJob'[h].for = reviewJob[h].for /\ reviewJob'[h].rating = reviewJob[h].rating
        /\ reviewJob'[h].at = i
        /\ reviewJob'[h].row = IF i = 0 THEN Rev!Unrated ELSE meta[reviewJob[h].for][i]
    BY <1>1, <1>6, <2>1 DEF Rev!FindMeta, Rev!At, RateTypes, ReviewWork
  <2>3. \A g \in Handlers \ {h} : reviewJob'[g] = reviewJob[g]
    BY <1>1, <2>1 DEF RateTypes
  <2>4. Owing(u)' = Owing(u) /\ Owing(u) \subseteq Handlers
    BY <2>2, <2>3 DEF Owing
  <2>5. meta' = meta /\ review' = review
    BY <1>6 DEF Rev!FindMeta
  <2>6. CASE reviewJob[h].for # u
    <3>1. h \notin Owing(u)
      BY <2>6 DEF Owing
    <3> QED BY <1>3, <2>3, <2>4, <2>5, <3>1, OthersRatingStays
  <2>7. CASE reviewJob[h].for = u
    <3>1. CountedSoFar(u)'
      <4>1. ReviewsOf(u)' = ReviewsOf(u)
            /\ \A g \in Owing(u) : reviewJob'[g].rating = reviewJob[g].rating
            /\ \A k \in ReviewsOf(u) : review'[k].rating = review[k].rating
        BY <2>2, <2>3, <2>4, <2>5 DEF ReviewsOf
      <4> QED BY <1>3, <2>4, <2>5, <4>1, RatingStays
    <3>2. ASSUME NEW g \in Handlers \ {h}, reviewJob[g].for = u PROVE reviewJob[g].step # "count"
      <4>1. metaOverlapped' = IF {f \in Handlers \ {h} : reviewJob[f].step = "count"
                                                          /\ reviewJob[f].for = u} = {}
                              THEN metaOverlapped ELSE metaOverlapped \cup {u}
        BY <1>6, <2>7 DEF Rev!FindMeta, Rev!At
      <4> QED BY <3>2, <4>1
    <3>3. i = Len(meta[u]) /\ reviewJob'[h].row = RowOf(u)
      <4>1. meta[u] \in Seq(RatingRow) /\ Len(meta[u]) <= 1 /\ Rev!Unrated = Unrated
        BY <1>1, <1>3 DEF RateTypes, CountedSoFar, Rev!Unrated, Unrated
      <4>2. CASE meta[u] = <<>>
        <5>1. i = 0 /\ Len(meta[u]) = 0
          BY <2>1, <2>7, <4>2
        <5> QED BY <2>2, <4>1, <4>2, <5>1 DEF RowOf
      <4>3. CASE meta[u] # <<>>
        <5>1. i \in DOMAIN meta[u] /\ DOMAIN meta[u] = 1..Len(meta[u]) /\ Len(meta[u]) \in Nat
          BY <2>1, <2>7, <4>1, <4>3
        <5>2. i = 1 /\ Len(meta[u]) = 1
          <6>1. \A n \in Nat : n <= 1 => \A k \in 1..n : k = 1 /\ n = 1
            OBVIOUS
          <6>2. i \in 1..Len(meta[u]) /\ Len(meta[u]) <= 1 /\ Len(meta[u]) \in Nat
            BY <4>1, <5>1
          <6> QED BY <6>1, <6>2, Zenon
        <5> QED BY <2>2, <2>7, <4>3, <5>2 DEF RowOf
      <4> QED BY <4>2, <4>3
    <3>4. RowOf(u)' = RowOf(u)
      BY <2>5 DEF RowOf
    <3>5. ReadAsItIs(u)'
      <4>1. \A f \in Owing(u) \ {h} : reviewJob'[f].step # "count"
        BY <2>3, <2>4, <3>2 DEF Owing
      <4>2. ASSUME NEW g \in Owing(u)', reviewJob'[g].step = "count"
            PROVE  /\ reviewJob'[g].at = Len(meta'[u]) /\ reviewJob'[g].row = RowOf(u)'
                   /\ \A f \in Owing(u)' \ {g} : reviewJob'[f].step # "count"
        <5>1. g = h
          BY <2>4, <4>1, <4>2
        <5> QED BY <2>2, <2>4, <2>5, <3>3, <3>4, <4>1, <5>1
      <4> QED BY <4>2 DEF ReadAsItIs
    <3> QED BY <3>1, <3>5
  <2> QED BY <2>6, <2>7
<1>7. ASSUME NEW h \in Handlers, Rev!Count(h) PROVE CountedSoFar(u)' /\ ReadAsItIs(u)'
  <2>1. CASE reviewJob[h].for = u
    BY <1>1, <1>3, <1>7, <2>1, OwedIsCounted
  <2>2. CASE reviewJob[h].for # u
    <3>1. reviewJob' = [reviewJob EXCEPT ![h] = Rev!Idle] /\ review' = review /\ meta'[u] = meta[u]
      BY <1>1, <1>7, <2>2 DEF Rev!Count, RateTypes
    <3>2. Owing(u)' = Owing(u) /\ \A g \in Owing(u) : reviewJob'[g] = reviewJob[g]
      <4>1. reviewJob'[h].step = "none" /\ \A g \in Handlers \ {h} : reviewJob'[g] = reviewJob[g]
        BY <1>1, <3>1 DEF RateTypes, Rev!Idle
      <4> QED BY <2>2, <4>1 DEF Owing
    <3> QED BY <1>3, <3>1, <3>2, OthersRatingStays
  <2> QED BY <2>1, <2>2
<1>8. ASSUME NEW h \in Handlers, Rev!Fail(h) PROVE CountedSoFar(u)' /\ ReadAsItIs(u)'
  <2>1. reviewJob' = [reviewJob EXCEPT ![h] = Rev!Idle] /\ review' = review /\ meta' = meta
        /\ (reviewJob[h].step = "store" \/ reviewJob[h].for # u)
    BY <1>8 DEF Rev!Fail, Rev!At
  <2>2. Owing(u)' = Owing(u) /\ \A g \in Owing(u) : reviewJob'[g] = reviewJob[g]
    <3>1. reviewJob'[h].step = "none" /\ \A g \in Handlers \ {h} : reviewJob'[g] = reviewJob[g]
      BY <1>1, <2>1 DEF RateTypes, Rev!Idle
    <3> QED BY <2>1, <3>1 DEF Owing
  <2> QED BY <1>3, <2>1, <2>2, OthersRatingStays
<1>9. ASSUME NEW i \in DOMAIN review, NEW rating \in Ratings, Rev!UpdateReview(i, rating)
      PROVE  CountedSoFar(u)' /\ ReadAsItIs(u)'
  <2>1. PICK row : row = [review[i] EXCEPT !.rating = rating]
    OBVIOUS
  <2>2. review' = [review EXCEPT ![i] = row] /\ u # review[i].for
        /\ meta' = meta /\ reviewJob' = reviewJob
    BY <1>9, <2>1 DEF Rev!UpdateReview
  <2>3. row.for = review[i].for
    <3>1. review[i] \in ReviewRow
      BY <1>1 DEF RateTypes
    <3> QED BY <2>1, <3>1 DEF ReviewRow
  <2> QED BY <1>1, <1>3, <2>2, <2>3, OthersReviewsStay
<1>10. ASSUME NEW i \in DOMAIN review, Rev!RemoveReview(i)
       PROVE  CountedSoFar(u)' /\ ReadAsItIs(u)'
  <2>1. review' = [review EXCEPT ![i] = Rev!Removed] /\ u # review[i].for
        /\ meta' = meta /\ reviewJob' = reviewJob
    BY <1>10 DEF Rev!RemoveReview
  <2>2. Rev!Removed.for # u
    BY DEF Rev!Removed, Rev!Reviewing
  <2> QED BY <1>1, <1>3, <2>1, <2>2, OthersReviewsStay
<1>11. CASE UNCHANGED Rev!reviewVars
  <2>1. review' = review /\ meta' = meta /\ reviewJob' = reviewJob
    BY <1>11 DEF Rev!reviewVars
  <2>2. Owing(u)' = Owing(u)
    BY <2>1 DEF Owing
  <2> QED BY <1>1, <1>3, <2>1, <2>2, OthersRatingStays
<1> QED
  BY <1>1, <1>4, <1>5, <1>6, <1>7, <1>8, <1>9, <1>10, <1>11 DEF Rev!Next

\* RatingAgrees: a rating is one row that counts each review of the user once, and
\* their mean but for the roundings, for any users, trips and handlers, but for those
\* whose reviews were counted at once, cut short or changed.
THEOREM RatingAlwaysAgrees == ASSUME Rev!Reviewing PROVE Rev!Spec => []RatingAgrees
<1>1. RateInv => RatingAgrees
  <2>1. SUFFICES ASSUME RateInv PROVE RatingAgrees
    OBVIOUS
  <2>2. RateTypes /\ DOMAIN meta = Users /\ DOMAIN reviewJob = Handlers
    BY <2>1 DEF RateInv, RateTypes
  <2>3. ASSUME NEW u \in Users \ (metaOverlapped \cup uncounted),
               \A h \in Handlers : reviewJob[h].for = u => reviewJob[h].step = "store"
        PROVE  /\ Len(meta[u]) <= 1 /\ RowOf(u).count = Cardinality(ReviewsOf(u))
               /\ LET n == Cardinality(ReviewsOf(u))
                      gap == RowOf(u).rating * n - StarsOf(u)
                  IN  4 * gap \in -(n * (n + 1)) .. n * (n + 1)
    <3>1. CountedSoFar(u)
      BY <2>1 DEF RateInv
    <3>2. Owing(u) = {}
      BY <2>3 DEF Owing
    <3>3. Owed(u) = 0 /\ Cardinality(Owing(u)) = 0
      BY <3>2, SumStep, FS_EmptySet DEF Owed
    <3>4. Cardinality(ReviewsOf(u)) \in Nat /\ StarsOf(u) \in Nat
      BY <2>2, ReviewsCount
    <3>5. RowOf(u).count = Cardinality(ReviewsOf(u))
      BY <3>1, <3>3, <3>4 DEF CountedSoFar
    <3>6. RowOf(u).rating \in Nat
      <4>1. Unrated.rating \in Nat
        BY DEF Unrated
      <4>2. meta[u] # <<>> => meta[u][1] \in RatingRow
        BY <2>2 DEF RateTypes
      <4>3. \A row \in RatingRow : row.rating \in Nat
        BY DEF RatingRow
      <4> QED BY <4>1, <4>2, <4>3 DEF RowOf
    <3>7. NearBy(RowOf(u).rating, Cardinality(ReviewsOf(u)), StarsOf(u))
      BY <3>1, <3>3, <3>4, <3>5 DEF CountedSoFar
    <3>8. PICK n \in Nat, r \in Nat, sum \in Nat :
              n = Cardinality(ReviewsOf(u)) /\ r = RowOf(u).rating /\ sum = StarsOf(u)
      BY <3>4, <3>6
    <3>9. NearBy(r, n, sum)
      BY <3>7, <3>8
    <3>10. 4 * (r * n - sum) \in -(n * (n + 1)) .. n * (n + 1)
      BY <3>8, <3>9 DEF NearBy
    <3> QED BY <3>1, <3>5, <3>8, <3>10 DEF CountedSoFar
  <2> QED BY <2>2, <2>3 DEF RatingAgrees, RowOf
<1> QED
  BY <1>1, RateInit, RateStep, PTL DEF Rev!Spec
=============================================================================
