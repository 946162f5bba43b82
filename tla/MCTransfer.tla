----------------------------- MODULE MCTransfer -----------------------------
(* Bounds for TLC on Transfer. *)
EXTENDS Transfer, TLC

CONSTANTS u1, t1, t2, r1, r2, r3, r4

MCTrips    == {t1}
MCRiderOf  == [t \in MCTrips |-> u1]
MCOpening  == [u \in {u1} |-> 3]
\* What BalanceSheetHolds assumes.
ASSUME FiniteRequests == IsFiniteSet(Requests)

MCSymmetry == Permutations(Requests)
=============================================================================
