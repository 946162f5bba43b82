------------------------------- MODULE RideKeys -------------------------------
(* What the socket gateway goes by when it forwards positions, and the trips  *)
(* it has been told of (TripKeys).                                            *)
EXTENDS Null

VARIABLES
    keyTrip,        \* trips: status, driver and whether a driver gave the trip back
    tripKey,        \* of each driver, the trip of the key with the rider, or None
    notice,         \* what is on its way to the gateway
    handing,        \* trips whose driver cancelled and that are not searched for again yet
    late,           \* history: trips a notice told of what was over
    unheard         \* history: trips a notice of which was lost

Under == {"ACCEPTED_BY_DRIVER", "DRIVER_ARRIVED", "STARTED"}

Riding(t) == keyTrip[t].status \in Under

\* Trips that are over and whose last notice is none of Finals: their keys stay.
Kept(t) ==
    \/ keyTrip[t].status = "CANCELLED_BY_ADMIN"
    \/ keyTrip[t].status = "CANCELLED_BY_DRIVER" /\ keyTrip[t].back

\* When the notices of a trip have been handled, positions go to and fro between its
\* rider and its driver if they ride, and else to nobody; but for the trips Kept, those
\* a notice came late to or met on its way to another, and those of which one was lost.
PositionsFollowRides ==
    \A t \in DOMAIN keyTrip \ (late \cup unheard \cup handing) :
        (\A n \in DOMAIN notice : notice[n].of # t) =>
            /\ Riding(t) => tripKey[keyTrip[t].driver] = t
            /\ \A d \in DOMAIN tripKey :
                  tripKey[d] = t => keyTrip[t].driver = d /\ (Riding(t) \/ Kept(t))
=============================================================================
