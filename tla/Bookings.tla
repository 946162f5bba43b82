------------------------------- MODULE Bookings -------------------------------
(* The trips of the riders, what is being done about them (ScheduledTrips),   *)
(* and what is promised of them.                                              *)
EXTENDS Integers, FiniteSets

CONSTANT RiderOf    \* trip rows that can be inserted, with their riders

VARIABLES
    now,
    trip,       \* trips rows: status, tripType, riderScheduledAt, sent to drivers
    upcoming,   \* customer.upcomingRides
    desk,       \* the handlers of requests
    counts,     \* updates of upcomingRides nobody waits for
    tripJob,    \* the jobs: what they have read, and the trip they are at
    calls,      \* processTripFromKafka calls of the jobs, not waited for either
    strained,   \* history: riders whose handlers, or jobs, overlapped or failed
    doubled,    \* history: riders who asked for a trip while a booking was out
    missed,     \* history: bookings a job should have taken and did not
    left        \* history: bookings of riders the driver service did not know

TripRows == DOMAIN RiderOf
Riders   == {RiderOf[t] : t \in TripRows}

\* completed is false, tripCancelledAt and tripExpiredAt are not set: a booking
\* cancelled before a driver was found keeps all three.
Open == {"PENDING", "NO_DRIVER", "REJECTED_BY_DRIVER", "ACCEPTED_BY_DRIVER", "BOOKING_CANCELLED"}

TripsOf(r, statuses) == {t \in TripRows : RiderOf[t] = r /\ trip[t].st \in statuses}

\* A booking whose time has not come or was not noticed.
Waiting(t) == trip[t].kind = "SCHEDULED" /\ trip[t].st = "PENDING" /\ ~trip[t].out

\* The trips a job has before it.
InJob(j) == tripJob[j].todo \cup (IF tripJob[j].pc = "idle" THEN {} ELSE {tripJob[j].at})

\* Riders with a request, an update of their bookings, a booking in the hands of a job
\* or a call of one under way.
AtDesk  == {desk[h].of : h \in {g \in DOMAIN desk : desk[g].pc # "idle"}}
Counted == {x.of : x \in counts}
InJobs  == {RiderOf[t] : t \in UNION {InJob(j) : j \in DOMAIN tripJob}}
Called  == {RiderOf[c[2]] : c \in calls}

Engaged == AtDesk \cup Counted \cup InJobs \cup Called

\* The customer row never shows fewer bookings than the rider has waiting: the
\* job and a decline may both take off the same booking, but a new one is only
\* made after the old.  Requests of the rider that overlapped or failed, and
\* bookings a job has begun and left, are the exception.
UpcomingCovers ==
    \A r \in Riders \ (strained \cup Engaged) :
        Cardinality({t \in TripsOf(r, {"PENDING"}) \ (missed \cup left) : Waiting(t)}) <= upcoming[r]

\* A rider never has drivers for two trips, however trips and bookings follow
\* each other, unless requests and jobs overlapped or the rider asked for a trip
\* while a booking was being offered to drivers.
OneRide ==
    \A r \in Riders \ (strained \cup doubled) :
        Cardinality(TripsOf(r, {"ACCEPTED_BY_DRIVER"})) <= 1

\* A trip a driver has taken is expired neither by a new request of its rider
\* nor by the job, unless one of them had found it while it was being offered.
TakenIsKept ==
    [][\A t \in TripRows :
         trip[t].st \in {"ACCEPTED_BY_DRIVER", "COMPLETED"} /\ RiderOf[t] \notin strained
             => trip'[t].st # "EXPIRED"]_trip
=============================================================================
