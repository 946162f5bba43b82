-------------------------------- MODULE Fares --------------------------------
(***************************************************************************)
(* What a trip costs: the amounts on its row and the amounts on its hold.  *)
(*                                                                         *)
(* rides-service TripsService computes the fare, the bank's fee and the    *)
(* tax when a driver accepts, when the rider changes the destination, when *)
(* the trip is completed and when it is cancelled late.  It stores them on *)
(* the trips row, for the receipts of rider and driver, and sends them to  *)
(* the payment service, which moves the money; each handler stores and     *)
(* sends its own selection, in its own order, without a transaction.       *)
(*                                                                         *)
(* One trip.  The estimate is any of Rates; MOT and WASL fees, which are   *)
(* passed on unchanged, are left out, and so is the arrival of the driver, *)
(* which touches no amount.                                                *)
(***************************************************************************)
EXTENDS Receipt, Sequences

CONSTANTS
    Handlers,       \* bound: requests about the trip served at once
    Rates,          \* what estimateFareAmount may answer
    BaseFare,       \* what a late cancellation costs
    Waits,          \* what waiting for the rider may cost
    Discounts,      \* what the promo code of the trip may be worth
    FeePercentage,  \* getTripBankFeePercentage
    TaxPercentage,  \* getTripTaxPercentage
    ChangeLimit,    \* SETTING_CHANGE_DESTINATION_LIMIT_FOR_RIDER, 1 by default
    MaxSetbacks     \* bound: handlers that stop, payment calls that fail, and
                    \* times the trip is dispatched again

VARIABLES
    setbacks,
    overtaken   \* history: handlers at work when somebody else changed row or hold

fareVars == <<fare, hold, fareJob, setbacks, overtaken, crossed, unwritten>>

NewFare ==
    [status |-> "PENDING", started |-> FALSE, base |-> 0, tax |-> 0, fee |-> 0,
     waiting |-> 0, promo |-> 0, rider |-> 0, driver |-> 0, changes |-> 0]

NoHold == [status |-> "none", amount |-> 0, fee |-> 0, tax |-> 0, discount |-> 0]

Idle == [op |-> "none", steps |-> <<>>, base |-> 0, fee |-> 0, tax |-> 0,
         waiting |-> 0, promo |-> 0, rider |-> 0]

\* What each handler does after its first read, one database or payment call a step.
StepsOf ==
    [accept          |-> <<"rate", "sum", "hold", "write">>,
     start           |-> <<"write">>,
     change          |-> <<"sum", "update", "write">>,
     complete        |-> <<"rate", "sum", "update", "confirm", "write">>,
     cancelStarted   |-> <<"sum", "update", "confirm", "write">>,
     cancelLate      |-> <<"update", "confirm", "write">>,
     cancelEarly     |-> <<"release", "write">>,
     cancelUnheld    |-> <<"write">>,
     cancelByDriver  |-> <<"release", "write">>]

Working == {h \in Handlers : fareJob[h] # Idle}

At(h, step) == fareJob[h] # Idle /\ Head(fareJob[h].steps) = step

\* Amounts and percentages are natural numbers; the settings of the admin panel and
\* the rates of the cabs are not negative.  A promo code whose budget is overdrawn is
\* worth less than nothing (Coupons).
Figures ==
    /\ Rates \cup Waits \subseteq Nat /\ Discounts \subseteq Int /\ BaseFare \in Nat
    /\ FeePercentage \in Nat /\ TaxPercentage \in Nat /\ MaxSetbacks \in Nat

-----------------------------------------------------------------------------
(* Amounts *)

\* calculateTaxAmount
Tax(amount, fee) == ((amount + fee) * TaxPercentage) \div 100

Fee(amount) == (amount * FeePercentage) \div 100

\* What is sent to the payment service as the amount of the trip.
Due(j) == j.base + j.waiting

\* Mutant: waiting charges are left out of the total.
RiderAmountNoWaiting(row, base, tax) == base + tax + row.fee - row.promo

\* calculateFareAmountWithTax; the fee is the one on the row, also while a new one
\* is being charged.
RiderAmount(row, base, tax) == base + tax + row.waiting + row.fee - row.promo

-----------------------------------------------------------------------------
(* A handler starts: its first read, its checks and its estimate *)

Begin(h, op, j) ==
    /\ fareJob[h] = Idle
    /\ fareJob' = [fareJob EXCEPT ![h] = [j EXCEPT !.op = op, !.steps = StepsOf[op]]]
    /\ UNCHANGED <<fare, hold, setbacks, overtaken, crossed, unwritten>>

\* tripAcceptedByDriver.  Several acceptances at once, or after one that stopped
\* half way, make several holds (OneHoldPerTrip); here there is one.
Accept(h, rate, promo) ==
    /\ fare.status = "PENDING" /\ hold.status # "CREATE"
    /\ \A g \in Handlers : fareJob[g].op # "accept"
    /\ Begin(h, "accept", [Idle EXCEPT !.base = rate, !.fee = Fee(rate),
                                       !.tax = Tax(rate, Fee(rate)), !.promo = promo])

\* tripStarted
Start(h, charge) ==
    /\ fare.status = "ACCEPTED_BY_DRIVER"
    /\ Begin(h, "start", [Idle EXCEPT !.waiting = charge])

\* tripCompleted looks at the start time, which a driver's cancellation leaves.
Complete(h, rate) ==
    LET due == rate + fare.waiting
    IN  /\ fare.status \in {"ACCEPTED_BY_DRIVER", "STARTED", "PENDING"} /\ fare.started
        /\ Begin(h, "complete",
                 [Idle EXCEPT !.base = rate, !.waiting = fare.waiting, !.fee = Fee(due),
                              !.tax = Tax(due, Fee(due)), !.promo = fare.promo])

\* changeTripDestination: the new fare bears no fee and no waiting charge, and the
\* row is found started even when its driver has cancelled.
ChangeDestination(h, rate) ==
    /\ fare.status \in {"ACCEPTED_BY_DRIVER", "STARTED", "PENDING"} /\ fare.started
    /\ fare.changes < ChangeLimit
    /\ Begin(h, "change", [Idle EXCEPT !.base = rate, !.tax = Tax(rate, 0)])

\* tripCancelledByRider under way: the tax is on the fee, which is not charged.
CancelStarted(h, rate) ==
    /\ fare.status \in {"ACCEPTED_BY_DRIVER", "STARTED", "PENDING"} /\ fare.started
    /\ Begin(h, "cancelStarted", [Idle EXCEPT !.base = rate, !.tax = Tax(rate, Fee(rate))])

\* Before the start: within the limit of time, after it, or without a driver.
CancelAccepted(h) ==
    /\ fare.status = "ACCEPTED_BY_DRIVER" /\ ~fare.started
    /\ \/ Begin(h, "cancelEarly", Idle)
       \/ \E tax \in {0, Tax(BaseFare, Fee(BaseFare))} :
             Begin(h, "cancelLate", [Idle EXCEPT !.base = BaseFare, !.fee = Fee(BaseFare),
                                                 !.tax = tax])

CancelUnheld(h) ==
    /\ fare.status = "PENDING" /\ ~fare.started
    /\ Begin(h, "cancelUnheld", Idle)

\* tripCancelledByDriver: also under way, once the driver has waited long enough.
CancelByDriver(h) ==
    /\ fare.status \in {"ACCEPTED_BY_DRIVER", "STARTED"}
    /\ Begin(h, "cancelByDriver", Idle)

-----------------------------------------------------------------------------
(* Its steps *)

\* Handler h has changed the row or the hold.
Changed(h) ==
    /\ overtaken' = (overtaken \cup Working) \ {h}
    /\ crossed' = (crossed \/ h \in overtaken)

Go(h, j) == fareJob' = [fareJob EXCEPT ![h] = [j EXCEPT !.steps = Tail(@)]]

\* The amounts are stored before they are charged; the fee only by an acceptance.
Rate(h) ==
    LET j == fareJob[h]
    IN  /\ At(h, "rate")
        /\ fare' = IF j.op = "accept"
                   THEN [fare EXCEPT !.base = j.base, !.driver = j.base, !.fee = j.fee,
                                     !.promo = j.promo, !.tax = j.tax]
                   ELSE [fare EXCEPT !.base = j.base, !.tax = j.tax]
        /\ Go(h, j) /\ Changed(h)
        /\ UNCHANGED <<hold, setbacks, unwritten>>

\* The row is read again; an amount the handler passes goes before its column.
Sum(h) ==
    LET j == fareJob[h]
        passed == j.op \in {"change", "cancelStarted"}
    IN  /\ At(h, "sum")
        /\ Go(h, [j EXCEPT !.rider = RiderAmount(fare, IF passed THEN j.base ELSE fare.base,
                                                       IF passed THEN j.tax ELSE fare.tax)])
        /\ UNCHANGED <<fare, hold, setbacks, overtaken, crossed, unwritten>>

Hold(h) ==
    LET j == fareJob[h]
    IN  /\ At(h, "hold")
        /\ hold' = [status |-> "CREATE", amount |-> Due(j), fee |-> j.fee, tax |-> j.tax,
                    discount |-> 0]
        /\ Go(h, j) /\ Changed(h)
        /\ UNCHANGED <<fare, setbacks, unwritten>>

\* Mutant: an update keeps the tax of the hold.
UpdateKeepsTax(h) ==
    LET j == fareJob[h]
    IN  /\ At(h, "update") /\ hold.status = "CREATE"
        /\ hold' = [hold EXCEPT !.amount = Due(j), !.fee = j.fee]
        /\ Go(h, j) /\ Changed(h)
        /\ UNCHANGED <<fare, setbacks, unwritten>>

\* Mutant: a new destination is shown to the driver, but not blocked for him.
UpdateOfOldFare(h) ==
    LET j == fareJob[h]
    IN  /\ At(h, "update") /\ hold.status = "CREATE"
        /\ hold' = IF j.op = "change" THEN hold
                   ELSE [hold EXCEPT !.amount = Due(j), !.fee = j.fee, !.tax = j.tax]
        /\ Go(h, j) /\ Changed(h)
        /\ UNCHANGED <<fare, setbacks, unwritten>>

\* updateTripPayment: at the end of a trip the rider's balance is not looked at.
Update(h) ==
    LET j == fareJob[h]
    IN  /\ At(h, "update") /\ hold.status = "CREATE"
        /\ hold' = [hold EXCEPT !.amount = Due(j), !.fee = j.fee, !.tax = j.tax]
        /\ Go(h, j) /\ Changed(h)
        /\ UNCHANGED <<fare, setbacks, unwritten>>

\* Nothing is taken for a code of negative worth.
Discount(promo) == IF promo > 0 THEN promo ELSE 0

\* confirmTripPayment: the discount, of a completed trip only, goes back to the
\* rider's wallet.
Confirm(h) ==
    LET j == fareJob[h]
    IN  /\ At(h, "confirm") /\ hold.status = "CREATE"
        /\ hold' = [hold EXCEPT !.status = "CONFIRM", !.discount = Discount(j.promo)]
        /\ Go(h, j) /\ Changed(h)
        /\ UNCHANGED <<fare, setbacks, unwritten>>

Release(h) ==
    /\ At(h, "release") /\ hold.status = "CREATE"
    /\ hold' = [hold EXCEPT !.status = "ROLLBACK"]
    /\ Go(h, fareJob[h]) /\ Changed(h)
    /\ UNCHANGED <<fare, setbacks, unwritten>>

\* The columns of the handler's last update.  The rider's cancellations give the
\* promo code back in an update of their own.
RowAfter(j) ==
    CASE j.op = "accept" ->
            [fare EXCEPT !.status = "ACCEPTED_BY_DRIVER", !.rider = j.rider]
      [] j.op = "start" ->
            [fare EXCEPT !.status = "STARTED", !.started = TRUE, !.waiting = j.waiting]
      [] j.op = "change" ->
            [fare EXCEPT !.rider = j.rider, !.base = j.base, !.tax = j.tax,
                         !.driver = j.base, !.changes = @ + 1]
      [] j.op = "complete" ->
            [fare EXCEPT !.status = "COMPLETED", !.driver = Due(j), !.base = j.base,
                         !.rider = j.rider]
      [] j.op = "cancelStarted" ->
            [fare EXCEPT !.status = "CANCELLED_BY_RIDER", !.rider = j.rider,
                         !.driver = j.base, !.base = j.base, !.tax = j.tax, !.promo = 0]
      [] j.op = "cancelLate" ->
            [fare EXCEPT !.status = "CANCELLED_BY_RIDER", !.rider = j.base + j.tax,
                         !.driver = j.base, !.base = j.base, !.tax = j.tax, !.promo = 0]
      [] j.op \in {"cancelEarly", "cancelUnheld"} ->
            [fare EXCEPT !.status = "CANCELLED_BY_RIDER", !.rider = 0, !.driver = 0,
                         !.promo = 0]
      [] j.op = "cancelByDriver" ->
            [fare EXCEPT !.status = "CANCELLED_BY_DRIVER", !.rider = 0, !.driver = 0]

Write(h) ==
    /\ At(h, "write")
    /\ fare' = RowAfter(fareJob[h])
    /\ fareJob' = [fareJob EXCEPT ![h] = Idle]
    /\ Changed(h)
    /\ UNCHANGED <<hold, setbacks, unwritten>>

\* After its driver's cancellation the trip is dispatched once more.
Dispatch ==
    /\ fare.status = "CANCELLED_BY_DRIVER" /\ setbacks < MaxSetbacks
    /\ setbacks' = setbacks + 1
    /\ fare' = [fare EXCEPT !.status = "PENDING"]
    /\ overtaken' = overtaken \cup Working
    /\ UNCHANGED <<hold, fareJob, crossed, unwritten>>

Leave(h) ==
    /\ fareJob' = [fareJob EXCEPT ![h] = Idle]
    /\ unwritten' = \/ unwritten
                    \/ fareJob[h].op # "start" /\ Head(fareJob[h].steps) \in {"confirm", "write"}
    /\ overtaken' = overtaken \ {h}
    /\ UNCHANGED <<fare, hold, crossed>>

\* The payment service finds no open hold, or the balance is too small for one.
Refused(h) ==
    /\ \/ At(h, "hold")
       \/ /\ At(h, "update") \/ At(h, "confirm") \/ At(h, "release")
          /\ hold.status # "CREATE"
    /\ Leave(h)
    /\ UNCHANGED setbacks

\* The handler stops, or a call of it fails; its answer may be all that is lost.
Stop(h) ==
    /\ fareJob[h] # Idle /\ setbacks < MaxSetbacks
    /\ setbacks' = setbacks + 1
    /\ Leave(h)

-----------------------------------------------------------------------------
Init ==
    /\ fare = NewFare
    /\ hold = NoHold
    /\ fareJob = [h \in Handlers |-> Idle]
    /\ setbacks = 0
    /\ overtaken = {}
    /\ crossed = FALSE
    /\ unwritten = FALSE

Request(h) ==
    \/ \E rate \in Rates :
          \/ Complete(h, rate) \/ ChangeDestination(h, rate) \/ CancelStarted(h, rate)
          \/ \E promo \in Discounts : Accept(h, rate, promo)
    \/ \E charge \in Waits : Start(h, charge)
    \/ CancelAccepted(h) \/ CancelUnheld(h) \/ CancelByDriver(h)

Step(h) ==
    \/ Rate(h) \/ Sum(h) \/ Hold(h) \/ Update(h) \/ Confirm(h) \/ Release(h) \/ Write(h)
    \/ Refused(h) \/ Stop(h)

Next ==
    \/ \E h \in Handlers : Request(h) \/ Step(h)
    \/ Dispatch

Spec == Init /\ [][Next]_fareVars

-----------------------------------------------------------------------------
Amounts == {"base", "fee", "tax", "waiting"}

TypeOK ==
    /\ fare.status \in {"PENDING", "ACCEPTED_BY_DRIVER", "STARTED", "COMPLETED",
                        "CANCELLED_BY_RIDER", "CANCELLED_BY_DRIVER"}
    /\ \A a \in Amounts \cup {"driver", "changes"} : fare[a] \in Nat
    /\ fare.promo \in Int
    /\ hold.status \in {"none", "CREATE", "CONFIRM", "ROLLBACK"}
    /\ \A a \in {"amount", "fee", "tax", "discount"} : hold[a] \in Nat
    /\ \A h \in Handlers :
          /\ fareJob[h].op \in DOMAIN StepsOf \cup {"none"}
          /\ \A a \in Amounts : fareJob[h][a] \in Nat
          /\ fareJob[h].promo \in Int
    /\ setbacks \in 0..MaxSetbacks
    /\ overtaken \subseteq Working
=============================================================================
