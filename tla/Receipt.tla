------------------------------- MODULE Receipt -------------------------------
(* What the trips row says of the money of a trip and what the payment        *)
(* service has moved (Fares): the apps of rider and driver show the one, the  *)
(* wallets the other.                                                         *)
EXTENDS Integers

VARIABLES
    fare,       \* the trips row
    hold,       \* payment service: the amounts of the hold, and the discount given
    fareJob,    \* what each handler is doing
    crossed,    \* history: an overtaken handler has changed something itself
    unwritten   \* history: a handler ended between paying and writing

NobodyAtWork == \A h \in DOMAIN fareJob : fareJob[h].op = "none"

\* What was moved from the rider's wallet in the end.
Taken == hold.amount + hold.fee + hold.tax - hold.discount

Paid == hold.status = "CONFIRM" /\ fare.status \in {"COMPLETED", "CANCELLED_BY_RIDER"}

\* Of a trip that was paid, the row tells the driver's share and the tax that the
\* payment service moved, whatever was changed, refused or cut short before;
\* nothing is claimed once a handler has acted on what another one had changed.
DriverPaidAsStated ==
    Paid /\ ~crossed => fare.driver = hold.amount /\ fare.tax = hold.tax

\* While a trip goes on and nobody is at work on it, what is blocked for the driver
\* is what his app shows, unless a handler ended between the two.
HeldAsShown ==
    /\ fare.status \in {"ACCEPTED_BY_DRIVER", "STARTED"} /\ hold.status = "CREATE"
    /\ NobodyAtWork /\ ~crossed /\ ~unwritten
    => fare.driver = hold.amount

\* What a promo code of negative worth adds to the rider's total.
Raised == IF fare.promo < 0 THEN -fare.promo ELSE 0

\* The riderAmount of a completed trip is what the rider paid, but for two amounts:
\* the total is made with the bank's fee of the acceptance and the charge with that of
\* the final fare, and a promo code of negative worth raises the total alone.
TotalExplained ==
    fare.status = "COMPLETED" /\ ~crossed =>
        fare.rider + hold.fee = Taken + fare.fee + Raised
=============================================================================
