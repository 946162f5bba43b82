--------------------------- MODULE ScheduledTrips ---------------------------
(***************************************************************************)
(* Trips booked for later, beside those taken at once: TripsService of the *)
(* rides service, its five-minute job, and upcomingRides, the number of    *)
(* bookings the customer row shows.                                        *)
(*                                                                         *)
(* A rider may have one trip under way and one booking.  Every creation    *)
(* looks for them first and saves its row several awaits later.  When the  *)
(* time of a booking comes, the job of each replica looks once more: with  *)
(* another trip under way, or as a driver, the rider loses the booking,    *)
(* else it is dispatched.  The job reads the bookings of the next five     *)
(* minutes once, takes them one after the other, and never looks back.     *)
(*                                                                         *)
(* Slots are five minutes.  What dispatching and a ride do is the subject  *)
(* of TripLifecycle; here each ends in one step.                           *)
(***************************************************************************)
EXTENDS Bookings

CONSTANTS
    Kinds,          \* the kinds of trip each rider may ask for: [riders -> sets]
    CaptainRiders,  \* the riders who have registered as captains too
    Replicas,       \* replicas of the rides service, each with its job
    Handlers,       \* bound: requests served at once
    LastSlot,       \* bound: five-minute slots
    NotifyAhead,    \* NOTIFY_TIME_SCHEDULED_TRIP, in slots
    MaxFaults,      \* bound: failed awaits and jobs that do not run
    None

VARIABLES
    ranOn,      \* the slot a replica's job last ran in
    faults

jobs    == <<tripJob, ranOn, calls>>
history == <<strained, doubled, missed, left>>
vars    == <<now, trip, upcoming, desk, counts, jobs, faults, history>>

-----------------------------------------------------------------------------
(* Rows *)

NoTrip == [st |-> "none", kind |-> "none", at |-> 0, out |-> FALSE]

Ended == {"COMPLETED", "EXPIRED", "CANCELLED"}

Write(t, st) == trip' = [trip EXCEPT ![t].st = st]

Less(n) == IF n > 0 THEN n - 1 ELSE 0

-----------------------------------------------------------------------------
(* Requests *)

Idle == [pc |-> "idle", of |-> None, kind |-> "none", at |-> 0, old |-> {}, trip |-> None,
         saw |-> 0]

Resting == [todo |-> {}, at |-> None, pc |-> "idle", saw |-> 0, found |-> "none"]

Arrive(h, r, x) ==
    /\ desk[h].pc = "idle"
    /\ desk' = [desk EXCEPT ![h] = x]
    /\ strained' = IF r \in Engaged THEN strained \cup {r} ELSE strained

Goto(h, p) == desk' = [desk EXCEPT ![h].pc = p]

Leave(h) == desk' = [desk EXCEPT ![h] = Idle]

\* Mutants: a booking that waits does not stand in the way of another one; a trip
\* that has just got a driver makes way like one that is still pending.
MayBookBesides(kind, imm, sched) ==
    IF kind = "SCHEDULED"
    THEN imm \subseteq {"NO_DRIVER"} /\ sched \subseteq {"NO_DRIVER", "PENDING"}
    ELSE imm \subseteq {"NO_DRIVER", "PENDING"} /\ sched \subseteq {"NO_DRIVER", "PENDING"}

MayBookOverRide(kind, imm, sched) ==
    IF kind = "SCHEDULED"
    THEN imm \subseteq {"NO_DRIVER"} /\ sched \subseteq {"NO_DRIVER"}
    ELSE imm \subseteq Open /\ sched \subseteq {"NO_DRIVER", "PENDING"}

\* checkRiderHasTripRunning, of the rider's first open trip of each kind.
MayBook(kind, imm, sched) ==
    IF kind = "SCHEDULED"
    THEN imm \subseteq {"NO_DRIVER"} /\ sched \subseteq {"NO_DRIVER"}
    ELSE imm \subseteq {"NO_DRIVER", "PENDING"} /\ sched \subseteq {"NO_DRIVER", "PENDING"}

\* The trips that make way for the new one.
Retired(imm, sched) == imm \cup {t \in sched : trip[t].st = "NO_DRIVER"}

FirstOf(r, kind) ==
    LET found == {t \in TripsOf(r, Open \ {"BOOKING_CANCELLED"}) : trip[t].kind = kind}
    IN  IF found = {} THEN {{}} ELSE {{t} : t \in found}

Statuses(S) == {trip[t].st : t \in S}

\* createTrip, createScheduleTrip
Ask(h, r, kind, at) ==
    \E imm \in FirstOf(r, "IMMEDIATELY"), sched \in FirstOf(r, "SCHEDULED") :
        /\ MayBook(kind, Statuses(imm), Statuses(sched))
        /\ LET old == Retired(imm, sched) IN
           Arrive(h, r, [Idle EXCEPT !.pc = IF old = {} THEN "save" ELSE "expire", !.of = r,
                                     !.kind = kind, !.at = at, !.old = old])
        /\ doubled' = IF kind = "IMMEDIATELY" /\ \E t \in sched : trip[t].out
                      THEN doubled \cup {r} ELSE doubled
        /\ UNCHANGED <<now, trip, upcoming, counts, jobs, faults, missed, left>>

\* The trip taken at once makes way before the booking is looked at and refuses the
\* new trip.
AskRefused(h, r, kind) ==
    \E imm \in FirstOf(r, "IMMEDIATELY"), sched \in FirstOf(r, "SCHEDULED") :
        /\ imm # {} /\ MayBook(kind, Statuses(imm), {})
        /\ ~MayBook(kind, Statuses(imm), Statuses(sched))
        /\ Arrive(h, r, [Idle EXCEPT !.pc = "clear", !.of = r, !.old = imm])
        /\ UNCHANGED <<now, trip, upcoming, counts, jobs, faults, doubled, missed, left>>

TurnDown(h) ==
    /\ desk[h].pc = "clear"
    /\ \E t \in desk[h].old : Write(t, "EXPIRED")
    /\ Leave(h)
    /\ UNCHANGED <<now, upcoming, counts, jobs, faults, history>>

\* expireTripAndPendingDriver, for one trip after the other
ExpireOld(h) ==
    /\ desk[h].pc = "expire"
    /\ \E t \in desk[h].old :
          /\ Write(t, "EXPIRED")
          /\ desk' = [desk EXCEPT ![h].old = @ \ {t},
                                  ![h].pc = IF desk[h].old = {t} THEN "save" ELSE "expire"]
    /\ UNCHANGED <<now, upcoming, counts, jobs, faults, history>>

\* The time has not been looked at again since the request began: a booking
\* saved in its own slot may come too late for the job.
Save(h) ==
    /\ desk[h].pc = "save"
    /\ \E t \in TripRows :
          /\ trip[t].st = "none" /\ RiderOf[t] = desk[h].of
          /\ trip' = [trip EXCEPT ![t] = [st |-> "PENDING", kind |-> desk[h].kind,
                                          at |-> desk[h].at, out |-> FALSE]]
          /\ desk' = [desk EXCEPT ![h].pc = "balance", ![h].trip = t]
          /\ missed' = IF desk[h].kind = "SCHEDULED" /\ desk[h].at <= now
                       THEN missed \cup {t} ELSE missed
    /\ UNCHANGED <<now, upcoming, counts, jobs, faults, strained, doubled, left>>

\* GET_BALANCE: without the money the new trip expires.  Else a booking is
\* counted, from the customer row read now, and a trip is sent to drivers
\* unless it has been taken back.
Balance(h) ==
    LET t == desk[h].trip
        r == desk[h].of IN
    /\ desk[h].pc = "balance"
    /\ \/ /\ Write(t, "EXPIRED")
          /\ UNCHANGED counts
       \/ /\ desk[h].kind = "SCHEDULED"
          /\ counts' = counts \cup {[of |-> r, by |-> t, to |-> upcoming[r] + 1]}
          /\ UNCHANGED trip
       \/ /\ desk[h].kind = "IMMEDIATELY"
          /\ trip' = [trip EXCEPT ![t].out = trip[t].st = "PENDING"]
          /\ UNCHANGED counts
    /\ Leave(h)
    /\ UNCHANGED <<now, upcoming, jobs, faults, history>>

CountBooking ==
    \E x \in counts :
        /\ counts' = counts \ {x}
        /\ upcoming' = [upcoming EXCEPT ![x.of] = x.to]
        /\ UNCHANGED <<now, trip, desk, jobs, faults, history>>

\* declineScheduledTrip, of any pending booking whose time is near or past
Decline(h, t) ==
    /\ trip[t].kind = "SCHEDULED" /\ trip[t].st = "PENDING"
    /\ trip[t].at - now <= NotifyAhead
    /\ Arrive(h, RiderOf[t], [Idle EXCEPT !.pc = "decline", !.of = RiderOf[t], !.trip = t])
    /\ UNCHANGED <<now, trip, upcoming, counts, jobs, faults, doubled, missed, left>>

WriteDecline(h) ==
    /\ desk[h].pc = "decline"
    /\ Write(desk[h].trip, "CANCELLED")
    /\ Goto(h, "read")
    /\ UNCHANGED <<now, upcoming, counts, jobs, faults, history>>

ReadCustomer(h) ==
    /\ desk[h].pc = "read"
    /\ desk' = [desk EXCEPT ![h].pc = "lower", ![h].saw = upcoming[desk[h].of]]
    /\ UNCHANGED <<now, trip, upcoming, counts, jobs, faults, history>>

LowerDeclined(h) ==
    /\ desk[h].pc = "lower"
    /\ upcoming' = [upcoming EXCEPT ![desk[h].of] = Less(desk[h].saw)]
    /\ Leave(h)
    /\ UNCHANGED <<now, trip, counts, jobs, faults, history>>

\* An await of a request throws, or its replica stops.
Fail(h) ==
    /\ desk[h].pc # "idle" /\ faults < MaxFaults
    /\ faults' = faults + 1
    /\ strained' = strained \cup {desk[h].of}
    /\ Leave(h)
    /\ UNCHANGED <<now, trip, upcoming, counts, jobs, doubled, missed, left>>

-----------------------------------------------------------------------------
(* The job: processScheduledTrips, checkIfScheduledTripCanBeProcessed *)

\* Mutant: the window begins five minutes ahead.
DueLater(t) == trip[t].kind = "SCHEDULED" /\ trip[t].at = now + 1 /\ trip[t].st = "PENDING"

\* The bookings of the five minutes to come.
Due(t) == trip[t].kind = "SCHEDULED" /\ trip[t].at = now /\ trip[t].st = "PENDING"

Cron(j) ==
    LET due == {t \in TripRows : Due(t)}
        riders == {RiderOf[t] : t \in due} IN
    /\ ranOn[j] < now /\ InJob(j) = {}
    /\ ranOn' = [ranOn EXCEPT ![j] = now]
    /\ tripJob' = [tripJob EXCEPT ![j] = [Resting EXCEPT !.todo = due]]
    /\ strained' = strained \cup {r \in riders : r \in Engaged \/ \E t \in due : RiderOf[t] = r /\ trip[t].out}
    /\ UNCHANGED <<now, trip, upcoming, desk, counts, calls, faults, doubled, missed, left>>

\* The next trip, and its customer row.
Take(j) ==
    /\ tripJob[j].pc = "idle"
    /\ \E t \in tripJob[j].todo :
          tripJob' = [tripJob EXCEPT ![j] = [todo |-> @.todo \ {t}, at |-> t, pc |-> "lower",
                                     saw |-> upcoming[RiderOf[t]], found |-> "none"]]
    /\ UNCHANGED <<now, trip, upcoming, desk, counts, ranOn, calls, faults, history>>

At(j, p) == tripJob[j].pc = p

Step(j, p) == tripJob' = [tripJob EXCEPT ![j].pc = p]

NextTrip(j) == tripJob' = [tripJob EXCEPT ![j] = [Resting EXCEPT !.todo = tripJob[j].todo]]

Lower(j) ==
    /\ At(j, "lower")
    /\ upcoming' = [upcoming EXCEPT ![RiderOf[tripJob[j].at]] = Less(tripJob[j].saw)]
    /\ Step(j, "check")
    /\ UNCHANGED <<now, trip, desk, counts, ranOn, calls, faults, history>>

\* Mutant: a trip no driver has accepted yet does not count.
UnderWayAccepted(t) == TripsOf(RiderOf[t], {"ACCEPTED_BY_DRIVER"}) \ {t}

\* The other trips of the rider that take the booking's place.
UnderWay(t) == TripsOf(RiderOf[t], Open \ {"NO_DRIVER"}) \ {t}

\* findOne takes any of them.
Check(j) ==
    /\ At(j, "check")
    /\ \/ /\ UnderWay(tripJob[j].at) = {}
          /\ Step(j, "ask")
       \/ \E x \in UnderWay(tripJob[j].at) :
             tripJob' = [tripJob EXCEPT ![j].pc = "expire", ![j].found = trip[x].st]
    /\ UNCHANGED <<now, trip, upcoming, desk, counts, ranOn, calls, faults, history>>

\* GET_DRIVER_MODE: the rider is at work as a driver, or not.  A rider who is
\* no captain is not found, and the booking stays as it is.
AskMode(j) ==
    LET t == tripJob[j].at IN
    /\ At(j, "ask")
    /\ \/ /\ RiderOf[t] \in CaptainRiders
          /\ Step(j, "expire")
          /\ UNCHANGED <<calls, left>>
       \/ /\ RiderOf[t] \in CaptainRiders
          /\ NextTrip(j)
          /\ calls' = calls \cup {<<j, t>>}
          /\ UNCHANGED left
       \/ /\ RiderOf[t] \notin CaptainRiders
          /\ NextTrip(j)
          /\ left' = left \cup {t}
          /\ UNCHANGED calls
    /\ UNCHANGED <<now, trip, upcoming, desk, counts, ranOn, faults, strained, doubled, missed>>

\* Without an answer the booking stays as it is too.
AskInVain(j) ==
    /\ At(j, "ask") /\ faults < MaxFaults
    /\ faults' = faults + 1
    /\ missed' = missed \cup {tripJob[j].at}
    /\ NextTrip(j)
    /\ UNCHANGED <<now, trip, upcoming, desk, counts, ranOn, calls, strained, doubled, left>>

ExpireBooking(j) ==
    /\ At(j, "expire")
    /\ Write(tripJob[j].at, "EXPIRED")
    /\ NextTrip(j)
    /\ UNCHANGED <<now, upcoming, desk, counts, ranOn, calls, faults, history>>

\* Any exception ends the loop, and the trips after it with it; so does a stop.
Abort(j) ==
    /\ InJob(j) # {} /\ faults < MaxFaults
    /\ faults' = faults + 1
    /\ missed' = missed \cup InJob(j)
    /\ tripJob' = [tripJob EXCEPT ![j] = Resting]
    /\ UNCHANGED <<now, trip, upcoming, desk, counts, ranOn, calls, strained, doubled, left>>

\* processTripFromKafka reads the trip anew, and expires what it cannot dispatch.
Dispatch ==
    \E c \in calls :
        LET t == c[2] IN
        /\ calls' = calls \ {c}
        /\ trip' = IF trip[t].st \in {"PENDING", "REJECTED_BY_DRIVER"}
                   THEN [trip EXCEPT ![t].out = TRUE]
                   ELSE [trip EXCEPT ![t].st = "EXPIRED"]
        /\ UNCHANGED <<now, upcoming, desk, counts, tripJob, ranOn, faults, history>>

-----------------------------------------------------------------------------
(* Drivers, riders, time *)

Offered(t) == trip[t].out /\ trip[t].st \in {"PENDING", "REJECTED_BY_DRIVER"}

\* A creation may be about to expire the trip as it found it.
Moved(t, st) ==
    /\ Write(t, st)
    /\ strained' = IF \E h \in Handlers : t \in desk[h].old
                   THEN strained \cup {RiderOf[t]} ELSE strained
    /\ UNCHANGED <<now, upcoming, desk, counts, jobs, faults, doubled, missed, left>>

\* tripAcceptedByDriver, tripRejectedByDriver; processTripFromKafka has asked
\* everybody
DriverAnswers(t) ==
    /\ Offered(t)
    /\ \/ Moved(t, "ACCEPTED_BY_DRIVER")
       \/ trip[t].st = "PENDING"
          /\ \E st \in {"REJECTED_BY_DRIVER", "NO_DRIVER", "EXPIRED"} : Moved(t, st)

\* tripCompleted, tripCancelledByDriver, tripCancelledByAdmin
RideEnds(t) ==
    /\ trip[t].st = "ACCEPTED_BY_DRIVER"
    /\ \E st \in {"COMPLETED", "CANCELLED"} : Moved(t, st)

\* tripReqCancelByRider, for trips that are to be taken at once
CancelBooking(t) ==
    /\ trip[t].kind = "IMMEDIATELY"
    /\ trip[t].st \in {"PENDING", "REJECTED_BY_DRIVER"}
    /\ Moved(t, "BOOKING_CANCELLED")

\* tripCancelledByRider, of a booking too; upcomingRides keeps its value.
CancelTrip(t) ==
    /\ trip[t].st \in Open \ {"BOOKING_CANCELLED"}
    /\ Moved(t, "CANCELLED")

\* A replica that does not run its job in a slot is a fault; when none runs it,
\* the bookings of the slot are missed.
NextSlot ==
    LET absent == {j \in Replicas : ranOn[j] < now} IN
    /\ now < LastSlot
    /\ faults + Cardinality(absent) <= MaxFaults
    /\ now' = now + 1
    /\ faults' = faults + Cardinality(absent)
    /\ missed' = missed \cup {t \in TripRows : absent = Replicas /\ Waiting(t) /\ trip[t].at = now}
    /\ UNCHANGED <<trip, upcoming, desk, counts, jobs, strained, doubled, left>>

-----------------------------------------------------------------------------
Init ==
    /\ now = 0
    /\ trip = [t \in TripRows |-> NoTrip]
    /\ upcoming = [r \in Riders |-> 0]
    /\ desk = [h \in Handlers |-> Idle]
    /\ counts = {} /\ calls = {}
    /\ tripJob = [j \in Replicas |-> Resting]
    /\ ranOn = [j \in Replicas |-> 0]
    /\ faults = 0
    /\ strained = {} /\ doubled = {} /\ missed = {} /\ left = {}

\* A booking is made for a later slot (SCHEDULED_TRIP_MIN_TIME).
Requests(h) ==
    \/ \E r \in Riders, k \in {"IMMEDIATELY", "SCHEDULED"}, at \in 0..LastSlot :
           /\ k \in Kinds[r]
           /\ IF k = "SCHEDULED" THEN at > now ELSE at = 0
           /\ Ask(h, r, k, at) \/ AskRefused(h, r, k)
    \/ TurnDown(h) \/ ExpireOld(h) \/ Save(h) \/ Balance(h)
    \/ \E t \in TripRows : Decline(h, t)
    \/ WriteDecline(h) \/ ReadCustomer(h) \/ LowerDeclined(h) \/ Fail(h)

JobSteps(j) == Take(j) \/ Lower(j) \/ Check(j) \/ AskMode(j) \/ ExpireBooking(j)

Next ==
    \/ \E h \in Handlers : Requests(h)
    \/ \E j \in Replicas : Cron(j) \/ JobSteps(j) \/ AskInVain(j) \/ Abort(j)
    \/ CountBooking \/ Dispatch \/ NextSlot
    \/ \E t \in TripRows : DriverAnswers(t) \/ RideEnds(t) \/ CancelBooking(t) \/ CancelTrip(t)

Spec == Init /\ [][Next]_vars

\* The scheduler of each replica, its event loop, and the clock.
Fairness ==
    /\ WF_vars(NextSlot) /\ WF_vars(Dispatch)
    /\ \A j \in Replicas : WF_vars(Cron(j)) /\ WF_vars(JobSteps(j))

LiveSpec == Spec /\ Fairness

-----------------------------------------------------------------------------
(* Properties *)

\* Every row and handler has the shape the entities and the code give it.
TypeOK ==
    /\ trip \in [TripRows -> [st : {"none"} \cup Open \cup Ended,
                              kind : {"none", "IMMEDIATELY", "SCHEDULED"},
                              at : 0..LastSlot, out : BOOLEAN]]
    /\ upcoming \in [Riders -> Nat]
    /\ \A x \in counts : x.of \in Riders /\ x.to \in Nat
    /\ \A j \in Replicas : InJob(j) \subseteq TripRows
    /\ \A c \in calls : c[2] \in TripRows
    /\ strained \cup doubled \subseteq Riders
    /\ missed \cup left \subseteq TripRows

\* Every booking whose time comes is dispatched or ended, whatever else the rider
\* does and however long the job's list is.  A booking the job has missed is the
\* exception, as it never looks back, and those of riders who are no captains.
BookingIsServed ==
    \A t \in TripRows : Waiting(t) ~> (~Waiting(t) \/ t \in missed \cup left)

\* As the comment of checkIfScheduledTripCanBeProcessed has it, a booking is
\* processed unless the rider has a trip in progress or is at work as a driver.
EveryBookingIsServed ==
    \A t \in TripRows : Waiting(t) ~> (~Waiting(t) \/ t \in missed)
=============================================================================
