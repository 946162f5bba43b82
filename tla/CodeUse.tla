------------------------------- MODULE CodeUse -------------------------------
(* A promo code, the users' log and the trips booked with it (Coupons), and *)
(* what has been counted of it.                                             *)
EXTENDS Integers, FiniteSets, Functions

CONSTANTS
    UserOf,         \* the riders of the trips booked with the code
    DiscountOf,     \* the amount the code is worth on each trip
    UserLimit,      \* maximumUsagePerUser
    TotalLimit,     \* maximumTotalUsage
    Budget          \* totalBudget

\* The limits are set: zero would stand for none.  An amount is never negative.
ASSUME LimitsAssumption ==
    /\ {UserLimit, TotalLimit, Budget} \subseteq Nat \ {0}
    /\ DiscountOf \in [DOMAIN UserOf -> Nat]

VARIABLES
    promo,      \* the promo code: userUsage, totalUtilised
    uses,       \* user_coupon_log rows
    inserts,    \* rows of the log being inserted, which nobody waits for
    booked,     \* trips: state, promoCodeAmount, acceptances
    call,       \* the callers
    clashed,    \* history: users whose calls overlapped with others or failed
    freed,      \* history: users who had a code reverted that was not applied
    raised      \* history: whether a use was reverted that had counted negatively

\* The user's log rows; there is one unless two calls overlapped.
LogOf(u) == {x \in uses : x.user = u}

\* Every user with a call or an insertion under way.
UsersAtWork ==
    {UserOf[call[c].of] : c \in {d \in DOMAIN call : call[d].pc # "idle"}}
        \cup {x.user : x \in inserts}

\* The uses that rows of the log tell of.
UsesIn(rows) == SumFunctionOnSet([x \in rows |-> x.count], rows)

\* The user's trips with a discount.
Discounted(u) == {t \in DOMAIN UserOf : UserOf[t] = u /\ booked[t].amt # 0}

\* userUsage and the logs of the users tell the same number of uses, through
\* repeated use, reverts and refusals, whenever no call is under way; calls that
\* overlapped or failed half-way are the exception.
UsageAgrees == clashed = {} /\ UsersAtWork = {} => promo.usage = UsesIn(uses)

\* Neither the uses of the code nor those of a user go beyond their limits, nor
\* the total beyond the budget or one discount, and every discount is counted among
\* the uses of its user, whenever no call is under way; calls that overlapped or
\* failed are the exception.  Two others are the code's: a code reverted that was not
\* applied takes back the use of another trip, and a use that counted negatively,
\* once it is reverted, raises the total, whatever is left of the budget.
LimitsKept ==
    clashed = {} =>
        /\ promo.usage <= TotalLimit
        /\ \A x \in uses : UsesIn(LogOf(x.user)) <= UserLimit
        /\ ~raised => \/ promo.utilised <= Budget
                     \/ \E t \in DOMAIN UserOf : promo.utilised <= DiscountOf[t]
        /\ UsersAtWork = {} => \A t \in DOMAIN UserOf :
              booked[t].amt # 0 /\ UserOf[t] \notin freed =>
                  Cardinality(Discounted(UserOf[t])) <= UsesIn(LogOf(UserOf[t]))
=============================================================================
