--------------------------- MODULE MCTripLifecycle ---------------------------
(* Bounds for TLC on TripLifecycle. *)
EXTENDS TripLifecycle, TLC

CONSTANTS t1, t2, u1, u2

MCOneRider  == [t \in Trips |-> u1]
MCTwoRiders == [t \in Trips |-> IF t = t1 THEN u1 ELSE u2]

\* Riders are told apart by their trips only.
MCSymmetry == Permutations(Drivers) \cup Permutations(Handlers) \cup Permutations(Trips)
=============================================================================
