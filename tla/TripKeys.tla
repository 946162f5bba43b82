------------------------------- MODULE TripKeys -------------------------------
(***************************************************************************)
(* Who is told where a driver and his rider are.                           *)
(*                                                                         *)
(* The socket gateway keeps a redis key <rider>-trip-<driver> per ride: it *)
(* forwards the positions of the two to each other as long as the key is   *)
(* there, and with a key the rider may not switch to driving.  It hears of *)
(* the ride by notices of the trips service, one after each change of a    *)
(* trip: notifyTripDetail is not awaited, reads the row again and emits    *)
(* it, and notices are handled in no particular order.                     *)
(*                                                                         *)
(* The trips of one rider.  How a trip comes to change is TripLifecycle's  *)
(* matter; here a change is one step, with the notice it sends.            *)
(***************************************************************************)
EXTENDS RideKeys, Integers

CONSTANTS
    Trips, Drivers, Notices,
    MaxLost         \* bound: notices lost, handlers stopped

\* What the code takes for granted of redis: no key is written under no name.
NoneIsApart == None \notin Trips /\ None \notin Drivers

VARIABLE lostNotices

keyVars == <<keyTrip, tripKey, notice, handing, lostNotices, late, unheard>>

RidesOf(d) == {t \in Trips : Riding(t) /\ keyTrip[t].driver = d}

Free == [step |-> "none", of |-> None, type |-> "none", driver |-> None]

-----------------------------------------------------------------------------
(* Notices *)

Tell(n, t, type) ==
    /\ notice[n] = Free
    /\ notice' = [notice EXCEPT ![n] =
                     [Free EXCEPT !.step = "read", !.of = t, !.type = type]]

\* getRunningTripDetail: the row as it is by then.
ReadRow(n) ==
    /\ notice[n].step = "read"
    /\ notice' = [notice EXCEPT ![n].step = "emitted",
                                ![n].driver = keyTrip[notice[n].of].driver]
    /\ UNCHANGED <<keyTrip, tripKey, handing, lostNotices, late, unheard>>

\* Mutant: the rider's cancellation is not among the notices that end a ride.
FinalsByDriver == {"trip_completed", "driver_cancelled", "no_drivers", "trip_expired"}

Finals ==
    {"trip_completed", "rider_cancelled", "driver_cancelled", "no_drivers", "trip_expired"}

\* Notices that tell of a ride, which may be over when they are handled.
Underway ==
    {"driver_accepted", "driver_reached", "trip_started", "rider_updated_destination"}

\* notifyTripDetail of the gateway.
Handle(n) ==
    LET t == notice[n].of
        d == notice[n].driver
        final == notice[n].type \in Finals
    IN  /\ notice[n].step = "emitted"
        /\ tripKey' = IF d = None THEN tripKey
                      ELSE [tripKey EXCEPT ![d] = IF final THEN None ELSE t]
        /\ notice' = [notice EXCEPT ![n] = Free]
        /\ late' = late \cup
               IF d = None THEN {}
               ELSE (RidesOf(d) \ {t})
                        \cup (IF notice[n].type \in Underway
                                  /\ ~(keyTrip[t].driver = d /\ (Riding(t) \/ Kept(t)))
                              THEN {t} ELSE {})
        /\ UNCHANGED <<keyTrip, handing, lostNotices, unheard>>

\* The row or the message is not got: the gateway is told of nobody.
Lose(n) ==
    /\ notice[n] # Free /\ lostNotices < MaxLost
    /\ lostNotices' = lostNotices + 1
    /\ unheard' = unheard \cup {notice[n].of}
    /\ notice' = [notice EXCEPT ![n] = Free]
    /\ UNCHANGED <<keyTrip, tripKey, handing, late>>

-----------------------------------------------------------------------------
(* The trip *)

Become(t, status) == keyTrip' = [keyTrip EXCEPT ![t].status = status]

Others == UNCHANGED <<tripKey, handing, lostNotices, late, unheard>>

\* A trip that waits for a driver, or for an answer that there is none, is expired by the
\* next one, and nobody is told; one that was given back is not found.
CreateTrip(t) ==
    /\ keyTrip[t].status = "NONE" /\ \A u \in Trips : ~Riding(u)
    /\ keyTrip' = [u \in Trips |->
           IF u = t THEN [keyTrip[u] EXCEPT !.status = "PENDING"]
           ELSE IF keyTrip[u].status \in {"PENDING", "NO_DRIVER"} /\ ~keyTrip[u].back
                THEN [keyTrip[u] EXCEPT !.status = "EXPIRED"]
                ELSE keyTrip[u]]
    /\ UNCHANGED notice /\ Others

\* A trip that was given back stays marked as expired: nobody accepts it, nor can the
\* rider cancel it.
TripAcceptedByDriver(t, d, n) ==
    /\ keyTrip[t].status = "PENDING" /\ keyTrip[t].driver = None /\ ~keyTrip[t].back
    /\ keyTrip' = [keyTrip EXCEPT ![t].status = "ACCEPTED_BY_DRIVER", ![t].driver = d]
    /\ Tell(n, t, "driver_accepted") /\ Others

DriverReached(t, n) ==
    /\ keyTrip[t].status = "ACCEPTED_BY_DRIVER"
    /\ Become(t, "DRIVER_ARRIVED") /\ Tell(n, t, "driver_reached") /\ Others

TripStarted(t, n) ==
    /\ keyTrip[t].status = "DRIVER_ARRIVED"
    /\ Become(t, "STARTED") /\ Tell(n, t, "trip_started") /\ Others

ChangeTripDestination(t, n) ==
    /\ keyTrip[t].status = "STARTED"
    /\ Tell(n, t, "rider_updated_destination")
    /\ UNCHANGED keyTrip /\ Others

TripCompleted(t, n) ==
    /\ keyTrip[t].status = "STARTED"
    /\ Become(t, "COMPLETED") /\ Tell(n, t, "trip_completed") /\ Others

TripCancelledByRider(t, n) ==
    /\ Riding(t) \/ (keyTrip[t].status \in {"PENDING", "NO_DRIVER"} /\ ~keyTrip[t].back)
    /\ Become(t, "CANCELLED_BY_RIDER") /\ Tell(n, t, "rider_cancelled") /\ Others

\* A super administrator may whatever the trip is.
TripCancelledByAdmin(t, n) ==
    /\ keyTrip[t].status # "NONE"
    /\ Become(t, "CANCELLED_BY_ADMIN") /\ Tell(n, t, "admin_cancelled") /\ Others

CancelledAfterArrival(t, n) ==
    /\ keyTrip[t].status \in {"DRIVER_ARRIVED", "STARTED"}
    /\ Become(t, "CANCELLED_BY_DRIVER") /\ Tell(n, t, "driver_cancelled") /\ Others

CancelledOnTheWay(t) ==
    /\ keyTrip[t].status = "ACCEPTED_BY_DRIVER"
    /\ Become(t, "CANCELLED_BY_DRIVER")
    /\ handing' = handing \cup {t}
    /\ UNCHANGED <<tripKey, notice, lostNotices, late, unheard>>

\* The trips service takes the key away itself, and the trip waits again whatever
\* became of it.
ProcessTripCancelledByDriver(t) ==
    LET d == keyTrip[t].driver
    IN  /\ t \in handing
        /\ handing' = handing \ {t}
        /\ tripKey' = [tripKey EXCEPT ![d] = None]
        /\ keyTrip' = [keyTrip EXCEPT ![t].status = "PENDING", ![t].back = TRUE]
        /\ late' = late \cup RidesOf(d)
               \cup (IF keyTrip[t].status = "CANCELLED_BY_DRIVER" THEN {} ELSE {t})
        /\ UNCHANGED <<notice, lostNotices, unheard>>

StopHanding(t) ==
    /\ t \in handing /\ lostNotices < MaxLost
    /\ lostNotices' = lostNotices + 1
    /\ handing' = handing \ {t}
    /\ unheard' = unheard \cup {t}
    /\ UNCHANGED <<keyTrip, tripKey, notice, late>>

\* processTripFromKafka: another driver is asked, or none is found.
AskAgain(t) ==
    /\ keyTrip[t].status = "PENDING" /\ keyTrip[t].back
    /\ keyTrip' = [keyTrip EXCEPT ![t].driver = None]
    /\ UNCHANGED notice /\ Others

GiveUp(t, n) ==
    /\ keyTrip[t].status = "PENDING"
    /\ \/ Become(t, "EXPIRED") /\ Tell(n, t, "trip_expired")
       \/ ~keyTrip[t].back /\ Become(t, "NO_DRIVER") /\ Tell(n, t, "no_drivers")
       \/ /\ keyTrip[t].back
          /\ Become(t, "CANCELLED_BY_DRIVER")
          /\ Tell(n, t, "driver_cancelled_before_arrived")
    /\ Others

-----------------------------------------------------------------------------
Init ==
    /\ keyTrip = [t \in Trips |-> [status |-> "NONE", driver |-> None, back |-> FALSE]]
    /\ tripKey = [d \in Drivers |-> None]
    /\ notice = [n \in Notices |-> Free]
    /\ handing = {}
    /\ lostNotices = 0
    /\ late = {} /\ unheard = {}

Next ==
    \/ \E n \in Notices : ReadRow(n) \/ Handle(n) \/ Lose(n)
    \/ \E t \in Trips :
          \/ CreateTrip(t) \/ CancelledOnTheWay(t) \/ ProcessTripCancelledByDriver(t)
          \/ StopHanding(t) \/ AskAgain(t)
          \/ \E n \in Notices :
                \/ \E d \in Drivers : TripAcceptedByDriver(t, d, n)
                \/ DriverReached(t, n) \/ TripStarted(t, n) \/ ChangeTripDestination(t, n)
                \/ TripCompleted(t, n) \/ TripCancelledByRider(t, n)
                \/ TripCancelledByAdmin(t, n) \/ CancelledAfterArrival(t, n) \/ GiveUp(t, n)

Spec == Init /\ [][Next]_keyVars

-----------------------------------------------------------------------------
TypeOK ==
    /\ \A t \in Trips : /\ keyTrip[t].driver \in Drivers \cup {None}
                        /\ keyTrip[t].back \in BOOLEAN
    /\ tripKey \in [Drivers -> Trips \cup {None}]
    /\ \A n \in Notices : notice[n].step \in {"none", "read", "emitted"}
    /\ handing \subseteq Trips
    /\ lostNotices \in 0..MaxLost
    /\ late \cup unheard \subseteq Trips
=============================================================================
