----------------------------- MODULE DrivingRows -----------------------------
(* What the rows of captains say of their rides, beside what the rides service *)
(* knows of them (Captains), and the events by which the one follows the other. *)
EXTENDS Naturals, FiniteSets

CONSTANTS
    Captains,
    EventHandlers   \* bound: requests and events being handled at once

\* A service handles finitely many things at a time.
ASSUME HandlersAssumption == IsFiniteSet(EventHandlers)

VARIABLES
    captain,        \* captains rows
    ride,           \* rides service: whether the captain has an accepted trip
    rideEvents,     \* availability events under way: how many of each status
    captainJob,     \* what each handler is doing
    muddledCaptains \* history: captains with events that overlap each other, with an
                    \* acceptance that came to nothing, or whose mode was ended, or
                    \* about to be ended, under a trip

\* Handlers of the captain's availability events.
Handling(c) ==
    {h \in EventHandlers : captainJob[h].op = "availability" /\ captainJob[h].captain = c}

UnderWay(c) == rideEvents[c][TRUE] + rideEvents[c][FALSE] + Cardinality(Handling(c))

\* The captain's row and the rides service agree, whenever no event is under way:
\* who has a trip is not offered another one, and who has none is.  Switching,
\* blocking and subscriptions between trips do not disturb it, and the captain
\* himself cannot under a trip.
RidingAgrees ==
    \A c \in Captains \ muddledCaptains :
        UnderWay(c) = 0 => captain[c].riding = ride[c]
=============================================================================
