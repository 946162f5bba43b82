------------------------------ MODULE Coupons ------------------------------
(***************************************************************************)
(* Promo codes: CouponService and UserCouponLogService of the promos       *)
(* service, with the handlers of TripsService that use a code.             *)
(*                                                                         *)
(* The code of a trip is applied when a driver accepts the trip: validate  *)
(* reads the limits, applyCode writes the totals of the code from a second *)
(* read and then the use in the user's log.  It is reverted when the rider *)
(* (or an admin, before a driver is there) cancels, whether or not it had  *)
(* been applied.  Nothing is reverted when a driver cancels, and the next  *)
(* acceptance applies the code again.  Every await is a step.              *)
(*                                                                         *)
(* One code; dates, areas, gender and the user type decide only whether a  *)
(* code may be refused, and it may be at any time.                         *)
(***************************************************************************)
EXTENDS CodeUse, FiniteSetsExt

CONSTANTS
    Callers,        \* bound: calls to the promos service under way at once
    MaxAccepts      \* bound: acceptances of all trips

couponVars == <<promo, uses, inserts, booked, call, clashed, freed, raised>>

-----------------------------------------------------------------------------
Rides == DOMAIN UserOf

Users == {UserOf[t] : t \in Rides}

NoCall == [op |-> "none", pc |-> "idle", of |-> 0, saw |-> [usage |-> 0, utilised |-> 0],
           log |-> {}, amt |-> 0]

Busy(c) == call[c].pc # "idle"

Start(c, op, t) ==
    /\ ~Busy(c)
    /\ \A d \in Callers : Busy(d) => call[d].of # t
    /\ call' = [call EXCEPT ![c] = [NoCall EXCEPT !.op = op, !.pc = op, !.of = t]]
    /\ clashed' = IF UsersAtWork = {} THEN clashed ELSE clashed \cup UsersAtWork \cup {UserOf[t]}

\* The trip's handler gets its answer: promoCodeAmount, or the code is taken off.
Answer(c, amt) ==
    LET t == call[c].of IN
    /\ call' = [call EXCEPT ![c] = NoCall]
    /\ booked' = [booked EXCEPT ![t] =
           IF call[c].op = "apply"
           THEN [@ EXCEPT !.st = "accepted", !.amt = amt]
           ELSE [@ EXCEPT !.st = "cancelled", !.amt = 0]]

-----------------------------------------------------------------------------
(* The trips *)

Accepts == LET n(t) == booked[t].accepts IN MapThenSumSet(n, Rides)

\* tripAcceptedByDriver
Accept(c, t) ==
    /\ booked[t].st = "asked" /\ Accepts < MaxAccepts
    /\ Start(c, "apply", t)
    /\ booked' = [booked EXCEPT ![t].accepts = @ + 1]
    /\ UNCHANGED <<promo, uses, inserts, freed, raised>>

\* tripCancelledByDriver: the trip is offered to others.
CancelByDriver(t) ==
    /\ booked[t].st = "accepted"
    /\ booked' = [booked EXCEPT ![t].st = "asked"]
    /\ UNCHANGED <<promo, uses, inserts, call, clashed, freed, raised>>

\* tripCancelledByRider, tripCancelledByAdmin
Cancel(c, t) ==
    /\ booked[t].st \in {"asked", "accepted"}
    /\ Start(c, "revert", t)
    /\ freed' = IF booked[t].amt = 0 THEN freed \cup {UserOf[t]} ELSE freed
    /\ UNCHANGED <<promo, uses, inserts, booked, raised>>

\* The ride is taken, or the booking ends in another way: no call.
Complete(t) ==
    /\ booked[t].st = "accepted" /\ \A c \in Callers : Busy(c) => call[c].of # t
    /\ booked' = [booked EXCEPT ![t].st = "completed"]
    /\ UNCHANGED <<promo, uses, inserts, call, clashed, freed, raised>>

Expire(t) ==
    /\ booked[t].st = "asked" /\ \A c \in Callers : Busy(c) => call[c].of # t
    /\ booked' = [booked EXCEPT ![t].st = "expired"]
    /\ UNCHANGED <<promo, uses, inserts, call, clashed, freed, raised>>

-----------------------------------------------------------------------------
(* validatePromoCode, applyCode, createLog *)

\* Mutant: one use more than the limit is let through.
WithinLimitsByOne(u) ==
    /\ promo.usage < TotalLimit
    /\ \A x \in LogOf(u) : x.count <= UserLimit
    /\ promo.utilised < Budget

WithinLimits(u) ==
    /\ promo.usage < TotalLimit
    /\ \A x \in LogOf(u) : x.count < UserLimit
    /\ promo.utilised < Budget

\* Mutant: what has been utilised is left out of the comparison.
AmountUncapped(t) == DiscountOf[t]

\* What the code is worth on trip t: with less than that left of the budget, the
\* difference between the two totals, which is negative.
Amount(t) ==
    IF promo.utilised # 0 /\ DiscountOf[t] + promo.utilised > Budget
    THEN promo.utilised - Budget
    ELSE DiscountOf[t]

Validate(c) ==
    LET t == call[c].of IN
    /\ call[c].pc = "apply"
    /\ \/ /\ WithinLimits(UserOf[t])
          /\ call' = [call EXCEPT ![c].pc = "read", ![c].amt = Amount(t)]
          /\ UNCHANGED booked
       \/ Answer(c, 0)      \* these limits, or any other condition
    /\ UNCHANGED <<promo, uses, inserts, clashed, freed, raised>>

\* findOne(promoCodeId)
ReadPromo(c) ==
    /\ call[c].pc = "read"
    /\ call' = [call EXCEPT ![c].pc = "count", ![c].saw = promo]
    /\ UNCHANGED <<promo, uses, inserts, booked, clashed, freed, raised>>

Count(c) ==
    /\ call[c].pc = "count"
    /\ promo' = [usage |-> call[c].saw.usage + 1, utilised |-> call[c].saw.utilised + call[c].amt]
    /\ call' = [call EXCEPT ![c].pc = "log"]
    /\ UNCHANGED <<uses, inserts, booked, clashed, freed, raised>>

\* createLog reads the user's row
ReadLog(c) ==
    LET u == UserOf[call[c].of] IN
    /\ call[c].pc = "log"
    /\ \E x \in {{}} \cup {{y} : y \in LogOf(u)} :
           /\ x = {} <=> LogOf(u) = {}
           /\ call' = [call EXCEPT ![c].pc = "write", ![c].log = x]
    /\ UNCHANGED <<promo, uses, inserts, booked, clashed, freed, raised>>

\* ... and adds to it, or starts an insertion.
WriteLog(c) ==
    LET u == UserOf[call[c].of]
        amt == call[c].amt IN
    /\ call[c].pc = "write"
    /\ \/ /\ call[c].log = {}
          /\ inserts' = inserts \cup {[id |-> c, user |-> u, count |-> 1, amt |-> amt]}
          /\ UNCHANGED uses
       \/ /\ UNCHANGED inserts
          /\ \E x \in call[c].log :
                uses' = {IF y.id = x.id THEN [y EXCEPT !.count = x.count + 1, !.amt = amt] ELSE y :
                            y \in uses}
    /\ Answer(c, amt)
    /\ UNCHANGED <<promo, clashed, freed, raised>>

Insert ==
    \E x \in inserts :
        /\ inserts' = inserts \ {x}
        /\ \E n \in 1..Cardinality(uses) + 1 :
              /\ \A y \in uses : y.id # n
              /\ uses' = uses \cup {[x EXCEPT !.id = n]}
        /\ UNCHANGED <<promo, booked, call, clashed, freed, raised>>

-----------------------------------------------------------------------------
(* revertCode, revertLog *)

\* A user without a row gets an error, and the code is off the trip all the same.
FindLog(c) ==
    LET u == UserOf[call[c].of] IN
    /\ call[c].pc = "revert"
    /\ \/ /\ LogOf(u) = {}
          /\ Answer(c, 0)
       \/ /\ \E x \in LogOf(u) : call' = [call EXCEPT ![c].pc = "unlog", ![c].log = {x}]
          /\ UNCHANGED booked
    /\ UNCHANGED <<promo, uses, inserts, clashed, freed, raised>>

Unlog(c) ==
    /\ call[c].pc = "unlog"
    /\ \E x \in call[c].log :
          uses' = IF x.count > 1
                  THEN {IF y.id = x.id THEN [y EXCEPT !.count = x.count - 1] ELSE y : y \in uses}
                  ELSE {y \in uses : y.id # x.id}
    /\ call' = [call EXCEPT ![c].pc = "reread"]
    /\ UNCHANGED <<promo, inserts, booked, clashed, freed, raised>>

RereadPromo(c) ==
    /\ call[c].pc = "reread"
    /\ call' = [call EXCEPT ![c].pc = "uncount", ![c].saw = promo]
    /\ UNCHANGED <<promo, uses, inserts, booked, clashed, freed, raised>>

\* Mutant: userUsage is lowered in memory only, as in revertCode itself.
UncountUnsaved(c) ==
    /\ call[c].pc = "uncount"
    /\ promo' = [promo EXCEPT !.utilised = call[c].saw.utilised]
    /\ Answer(c, 0)
    /\ UNCHANGED <<uses, inserts, clashed, freed, raised>>

\* The amount taken off is that of the user's last use.
Uncount(c) ==
    /\ call[c].pc = "uncount"
    /\ \E x \in call[c].log :
          /\ promo' = [usage |-> call[c].saw.usage - 1, utilised |-> call[c].saw.utilised - x.amt]
          /\ raised' = (raised \/ x.amt < 0)
    /\ Answer(c, 0)
    /\ UNCHANGED <<uses, inserts, clashed, freed>>

\* An access fails or the call is lost: the trip goes on without a discount.
Fail(c) ==
    /\ Busy(c)
    /\ clashed' = clashed \cup {UserOf[call[c].of]}
    /\ Answer(c, 0)
    /\ UNCHANGED <<promo, uses, inserts, freed, raised>>

-----------------------------------------------------------------------------
Init ==
    /\ promo = [usage |-> 0, utilised |-> 0]
    /\ uses = {} /\ inserts = {}
    /\ booked = [t \in Rides |-> [st |-> "asked", amt |-> 0, accepts |-> 0]]
    /\ call = [c \in Callers |-> NoCall]
    /\ clashed = {} /\ freed = {} /\ raised = FALSE

Calls(c) ==
    \/ Validate(c) \/ ReadPromo(c) \/ Count(c) \/ ReadLog(c) \/ WriteLog(c)
    \/ FindLog(c) \/ Unlog(c) \/ RereadPromo(c) \/ Uncount(c) \/ Fail(c)

Next ==
    \/ \E t \in Rides : CancelByDriver(t) \/ Complete(t) \/ Expire(t)
    \/ \E c \in Callers : Calls(c) \/ \E t \in Rides : Accept(c, t) \/ Cancel(c, t)
    \/ Insert

Spec == Init /\ [][Next]_couponVars

-----------------------------------------------------------------------------
(* Properties *)

TypeOK ==
    /\ promo \in [usage : Int, utilised : Int]
    /\ \A x \in uses : x.user \in Users /\ x.count \in Nat \ {0}
    /\ \A t \in Rides : /\ booked[t].st \in {"asked", "accepted", "cancelled", "completed", "expired"}
                        /\ booked[t].amt # 0 => booked[t].accepts > 0
    /\ clashed \cup freed \subseteq Users
    /\ raised \in BOOLEAN
=============================================================================
