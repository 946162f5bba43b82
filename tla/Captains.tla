------------------------------ MODULE Captains ------------------------------
(***************************************************************************)
(* Whether a captain is offered trips: driver-services CaptainService.     *)
(*                                                                         *)
(* A captain's row says that he is approved, has switched to driving mode, *)
(* has a subscription and is riding; findCaptainList, the search behind    *)
(* every dispatch, selects by these columns.  riding is a copy of what the *)
(* rides service knows: it follows the trips by CHANGE_DRIVER_AVAILABILITY *)
(* events, which carry no key and may overtake each other.  The mode is    *)
(* written by the captain, the administrator, the subscription and a job,  *)
(* each from what it read before.                                          *)
(***************************************************************************)
EXTENDS DrivingRows, Null

CONSTANTS
    MaxEvents,  \* bound: events of a captain under way at once
    MaxFaults   \* bound: acceptances that come to nothing

VARIABLES
    asked,      \* rides service: captains with a pending offer
    faults

captainVars == <<captain, ride, asked, rideEvents, captainJob, faults, muddledCaptains>>

Row == [approved : BOOLEAN, mode : BOOLEAN, sub : BOOLEAN, riding : BOOLEAN]

\* create: a captain is approved and subscribed, and has not switched to driving.
NewCaptain == [approved |-> TRUE, mode |-> FALSE, sub |-> TRUE, riding |-> FALSE]

NoEvents == [s \in BOOLEAN |-> 0]

Idle == [op |-> "none", captain |-> None, on |-> FALSE]

Job(op, c, on) == [op |-> op, captain |-> c, on |-> on]

ModeChanges(c) ==
    {h \in EventHandlers : captainJob[h] # Idle /\ captainJob[h].captain = c} \ Handling(c)

Begin(h, j) == captainJob[h] = Idle /\ captainJob' = [captainJob EXCEPT ![h] = j]

Done(h) == captainJob' = [captainJob EXCEPT ![h] = Idle]

-----------------------------------------------------------------------------
(* The rides service, as far as it concerns the captain *)

\* findCaptainList.  That WASL must have found him eligible (Wasl), and what the socket
\* gateway and the app add, only take captains away.
Listed(c) ==
    captain[c].approved /\ captain[c].mode /\ captain[c].sub /\ ~captain[c].riding

Send(c, status) ==
    /\ UnderWay(c) < MaxEvents
    /\ rideEvents' = [rideEvents EXCEPT ![c][status] = @ + 1]

Muddle(c, it) == muddledCaptains' = IF it THEN muddledCaptains \cup {c} ELSE muddledCaptains

\* A trip of the captain has begun or ended and his row may not say so yet.
OnTrip(c) == ride[c] \/ UnderWay(c) > 0

\* The driver is asked, whether an earlier trip of his has started since or not.
Ask(c) ==
    /\ Listed(c)
    /\ asked' = asked \cup {c}
    /\ UNCHANGED <<captain, ride, rideEvents, captainJob, faults, muddledCaptains>>

\* tripAcceptedByDriver looks at the offer, not at the captain's row.
Accept(c) ==
    /\ c \in asked /\ ~ride[c]
    /\ asked' = asked \ {c}
    /\ ride' = [ride EXCEPT ![c] = TRUE]
    /\ Send(c, TRUE)
    /\ Muddle(c, \/ UnderWay(c) > 0 \/ ModeChanges(c) # {}
                 \/ ~captain[c].mode \/ ~captain[c].approved)
    /\ UNCHANGED <<captain, captainJob, faults>>

\* The event is sent before the trip is written: the handler may stop in between,
\* and of two drivers accepting one trip the first one loses it.
AcceptInVain(c) ==
    /\ c \in asked /\ ~ride[c] /\ faults < MaxFaults
    /\ faults' = faults + 1
    /\ asked' = asked \ {c}
    /\ Send(c, TRUE)
    /\ Muddle(c, TRUE)
    /\ UNCHANGED <<captain, ride, captainJob>>

\* Mutant: one of the handlers that end a trip sends no event.
EndRideUnsaid(c) ==
    /\ ride[c]
    /\ ride' = [ride EXCEPT ![c] = FALSE]
    /\ Send(c, FALSE) \/ UNCHANGED rideEvents
    /\ Muddle(c, UnderWay(c) > 0)
    /\ UNCHANGED <<captain, asked, captainJob, faults>>

\* The trip is completed, or cancelled by the rider, the driver or an administrator.
EndRide(c) ==
    /\ ride[c]
    /\ ride' = [ride EXCEPT ![c] = FALSE]
    /\ Send(c, FALSE)
    /\ Muddle(c, UnderWay(c) > 0)
    /\ UNCHANGED <<captain, asked, captainJob, faults>>

-----------------------------------------------------------------------------
(* Availability events *)

\* A captain who is not approved or has switched off is not found: the handler
\* answers an error nobody reads, and the event is gone for good.
Deliver(h, c, status) ==
    /\ rideEvents[c][status] > 0
    /\ rideEvents' = [rideEvents EXCEPT ![c][status] = @ - 1]
    /\ IF captain[c].mode /\ captain[c].approved
       THEN Begin(h, Job("availability", c, status))
       ELSE captainJob[h] = Idle /\ UNCHANGED captainJob
    /\ UNCHANGED <<captain, ride, asked, faults, muddledCaptains>>

WriteAvailability(h) ==
    /\ captainJob[h].op = "availability"
    /\ captain' = [captain EXCEPT ![captainJob[h].captain].riding = captainJob[h].on]
    /\ Done(h)
    /\ UNCHANGED <<ride, asked, rideEvents, faults, muddledCaptains>>

-----------------------------------------------------------------------------
(* The mode *)

\* Mutant: a captain may switch off during a ride.
MaySwitchAlways(row) == row.approved

\* changeDriverMode: not while riding.  (A captain with a trip of his own as a
\* rider is refused as well, by a key in redis.)
MaySwitch(row) == row.approved /\ ~(row.mode /\ row.riding)

Switch(h, c) ==
    /\ MaySwitch(captain[c])
    /\ Begin(h, Job("switch", c, ~captain[c].mode))
    /\ Muddle(c, captain[c].mode /\ ~captain[c].riding /\ OnTrip(c))
    /\ UNCHANGED <<captain, ride, asked, rideEvents, faults>>

WriteSwitch(h) ==
    /\ captainJob[h].op = "switch"
    /\ captain' = [captain EXCEPT ![captainJob[h].captain].mode = captainJob[h].on]
    /\ Done(h)
    /\ UNCHANGED <<ride, asked, rideEvents, faults, muddledCaptains>>

\* cancelSubscription and activateSubscription ask the payment service between
\* the read and the write; cancelling ends the driving mode, activating starts it.
ChangeSubscription(h, c, on) ==
    /\ captain[c].approved
    /\ Begin(h, Job("subscription", c, on))
    /\ UNCHANGED <<captain, ride, asked, rideEvents, faults, muddledCaptains>>

WriteSubscription(h) ==
    /\ captainJob[h].op = "subscription"
    /\ captain' = [captain EXCEPT ![captainJob[h].captain].sub = captainJob[h].on,
                                  ![captainJob[h].captain].mode = captainJob[h].on]
    /\ Muddle(captainJob[h].captain, ~captainJob[h].on /\ OnTrip(captainJob[h].captain))
    /\ Done(h)
    /\ UNCHANGED <<ride, asked, rideEvents, faults>>

\* updateSubscriptionDetail: the payment service tells what became of a renewal.
TellSubscription(c, on) ==
    /\ captain' = [captain EXCEPT ![c].sub = on]
    /\ UNCHANGED <<ride, asked, rideEvents, captainJob, faults, muddledCaptains>>

\* changeDriverStatus: who is blocked stops driving, who is approved starts himself.
ChangeStatus(c, approved) ==
    /\ captain' = [captain EXCEPT ![c].approved = approved,
                                  ![c].mode = @ /\ approved]
    /\ Muddle(c, ~approved /\ OnTrip(c))
    /\ UNCHANGED <<ride, asked, rideEvents, captainJob, faults>>

\* disapproveWASLExpiredDrivers, a daily job, finds the drivers and then updates them.
FindExpired(h, c) ==
    /\ captain[c].approved /\ captain[c].sub
    /\ Begin(h, Job("expired", c, FALSE))
    /\ UNCHANGED <<captain, ride, asked, rideEvents, faults, muddledCaptains>>

WriteExpired(h) ==
    /\ captainJob[h].op = "expired"
    /\ captain' = [captain EXCEPT ![captainJob[h].captain].approved = FALSE,
                                  ![captainJob[h].captain].mode = FALSE]
    /\ Muddle(captainJob[h].captain, OnTrip(captainJob[h].captain))
    /\ Done(h)
    /\ UNCHANGED <<ride, asked, rideEvents, faults>>

-----------------------------------------------------------------------------
Init ==
    /\ captain = [c \in Captains |-> NewCaptain]
    /\ ride = [c \in Captains |-> FALSE]
    /\ asked = {}
    /\ rideEvents = [c \in Captains |-> NoEvents]
    /\ captainJob = [h \in EventHandlers |-> Idle]
    /\ faults = 0
    /\ muddledCaptains = {}

EventStep(h) ==
    \/ \E c \in Captains, s \in BOOLEAN : Deliver(h, c, s)
    \/ WriteAvailability(h)

Finish(h) == WriteSwitch(h) \/ WriteSubscription(h) \/ WriteExpired(h)

Request(h, c) ==
    \/ Switch(h, c) \/ FindExpired(h, c)
    \/ \E on \in BOOLEAN : ChangeSubscription(h, c, on)

Next ==
    \/ \E c \in Captains : Ask(c) \/ Accept(c) \/ AcceptInVain(c) \/ EndRide(c)
    \/ \E c \in Captains, b \in BOOLEAN : TellSubscription(c, b) \/ ChangeStatus(c, b)
    \/ \E h \in EventHandlers, c \in Captains : Request(h, c)
    \/ \E h \in EventHandlers : EventStep(h) \/ Finish(h)

Spec == Init /\ [][Next]_captainVars

\* Handlers go on and events are consumed; that a handler is free for them is
\* strong fairness only because Handlers is a bound of the model.
Fairness ==
    /\ \A h \in EventHandlers :
           WF_captainVars(WriteAvailability(h)) /\ WF_captainVars(Finish(h))
    /\ SF_captainVars(\E h \in EventHandlers : EventStep(h))

LiveSpec == Spec /\ Fairness

-----------------------------------------------------------------------------
JobRecord ==
    [op : {"none", "availability", "switch", "subscription", "expired"},
     captain : Captains \cup {None}, on : BOOLEAN]

TypeOK ==
    /\ captain \in [Captains -> Row]
    /\ ride \in [Captains -> BOOLEAN]
    /\ asked \subseteq Captains
    /\ rideEvents \in [Captains -> [BOOLEAN -> Nat]]
    /\ captainJob \in [EventHandlers -> JobRecord]
    /\ \A h \in EventHandlers : captainJob[h] # Idle => captainJob[h].captain \in Captains
    /\ faults \in Nat
    /\ muddledCaptains \subseteq Captains

\* A captain whose trip is over is marked as free again.
FreeAgain ==
    \A c \in Captains :
        ~ride[c] ~> (~captain[c].riding \/ ride[c] \/ c \in muddledCaptains)
=============================================================================
