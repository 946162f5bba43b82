--------------------------- MODULE HostedPayment ---------------------------
(***************************************************************************)
(* What the hosted payments of the payment service promise, whatever they  *)
(* are made of: the bank decides a payment once; only an authorised one is *)
(* completed; only a completed one is credited to the user, and once.      *)
(* Of a payment that two callbacks take up at once nothing is promised.    *)
(***************************************************************************)
CONSTANT Payments

VARIABLE stage

Stages == {"open", "declined", "authorised", "completed", "credited", "contended"}

Move(p, from, to) ==
    /\ stage[p] = from
    /\ stage' = [stage EXCEPT ![p] = to]

Authorise(p) == Move(p, "open", "authorised")
Decline(p)   == Move(p, "open", "declined")
Complete(p)  == Move(p, "authorised", "completed")
Credit(p)    == Move(p, "completed", "credited")
Contend(p)   == Move(p, "authorised", "contended") \/ Move(p, "declined", "contended")

Init == stage = [p \in Payments |-> "open"]

\* The first conjunct follows from the second; it spares TLC most of the work.
Next ==
    /\ stage' # stage
    /\ \E p \in Payments :
          Authorise(p) \/ Decline(p) \/ Complete(p) \/ Credit(p) \/ Contend(p)

Spec == Init /\ [][Next]_stage
=============================================================================
