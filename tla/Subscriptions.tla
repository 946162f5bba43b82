--------------------------- MODULE Subscriptions ---------------------------
(***************************************************************************)
(* Captain subscriptions: UserSubscriptionService of the payment service,  *)
(* with the handlers of the driver service that sell, cancel and activate  *)
(* a subscription and keep driverSubStatus, the flag that lets a captain   *)
(* be offered trips.  (tripCompleted also holds a collection of the due    *)
(* amount from the fare, but under `if (false)'.)                          *)
(*                                                                         *)
(* A renewal expires the row, charges the wallet and inserts the next row; *)
(* a charge the wallet refuses is added to the due amount of the next row. *)
(* Every await is a step; the job of each replica reads the due rows once  *)
(* and renews them side by side from what it read.                         *)
(*                                                                         *)
(* Dates are days; a subscription that starts on day d is due on           *)
(* d + Period.  Taxes, fees and promo codes are part of Price.             *)
(***************************************************************************)
EXTENDS Integers, FiniteSetsExt

CONSTANTS
    Captains,
    Replicas,   \* replicas of the payment service, each with its cron job
    Workers,    \* bound: handlers under way at once
    Price, Period,
    MaxSubs,    \* bound: rows of user_subscriptions
    MaxPages,   \* bound: payment pages, and requests to verify, of a captain at a time
    MaxSales,   \* bound: CREATE_USER_SUBSCRIPTION events sent
    MaxAsks,    \* bound: requests a handler is begun for
    LastDay,    \* bound: days
    MaxStops,   \* bound: handlers and jobs that are stopped
    None

VARIABLES
    day,
    sub,        \* user_subscriptions rows; their number is their createdAt order
    flag,       \* driverSubStatus of each captain
    pages,      \* payment pages opened for a subscription, and paid or not yet
    paid,       \* ADD_USER_SUBSCRIPTION messages: pages that were paid
    mail,       \* CREATE_USER_SUBSCRIPTION events under way
    news,       \* UPDATE_CAPTAIN_SUBSCRIPTION events under way (all with status 1)
    answers,    \* writes of driverSubStatus a handler of the driver service still owes
    charges,    \* amounts of subscriptions_transactions rows of today
    job,        \* what the cron job of a replica has read and not yet started
    ranOn,      \* the day it last ran
    task,       \* the handlers
    money,      \* history: what each captain has paid, by page or from the wallet
    sent,       \* history: CREATE_USER_SUBSCRIPTION events ever sent
    renewed,    \* history: how often a row has been followed by a next one
    strained,   \* history: captains with handlers that overlapped or were stopped
    reused,     \* history: captains whose charge of today was taken for a purchase
    asks,       \* how many requests have begun
    stops       \* how many handlers have been stopped

captainVars == <<flag, pages, paid, answers>>
events      == <<mail, news, sent>>
jobs        == <<job, ranOn>>
history     == <<renewed, strained, reused, asks, stops>>
vars == <<day, sub, captainVars, events, charges, jobs, task, money, history>>

-----------------------------------------------------------------------------
(* Rows and handlers *)

SubscriptionStatus == {"none", "ACTIVE", "EXPIRED", "CANCEL"}

Ids == 1..MaxSubs

NewRow(u, auto, due, on) ==
    [status |-> "ACTIVE", of |-> u, auto |-> auto, due |-> due, dueDay |-> on]

NoRow == [status |-> "none", of |-> None, auto |-> FALSE, due |-> 0, dueDay |-> 0]

Of(u, status) == {r \in Ids : sub[r].of = u /\ sub[r].status = status}

Exists(r) == sub[r].status # "none"

\* The next row that create inserts.
Free == {r \in Ids : ~Exists(r) /\ \A s \in Ids : s < r => Exists(s)}

Latest(S) == {r \in S : \A s \in S : s <= r}

Idle == [op |-> "none", pc |-> "idle", row |-> 0, saw |-> NoRow, start |-> 0,
         amt |-> 0, ok |-> FALSE]

Working(w) == task[w].pc # "idle"

Goto(w, p) == task' = [task EXCEPT ![w].pc = p]

Finish(w) == task' = [task EXCEPT ![w] = Idle]

\* The row is in the hands of a handler, or read by a job.
InUse(r) ==
    \/ \E w \in Workers : Working(w) /\ task[w].row = r
    \/ \E j \in Replicas : \E x \in job[j] : x.row = r

\* A handler of the captain's row r starts at step p with what it reads now.
Begin(w, op, p, r, start, amt) ==
    /\ ~Working(w) /\ asks < MaxAsks
    /\ asks' = asks + 1
    /\ task' = [task EXCEPT ![w] = [op |-> op, pc |-> p, row |-> r, saw |-> sub[r],
                                    start |-> start, amt |-> amt, ok |-> FALSE]]
    /\ strained' = IF InUse(r) THEN strained \cup {sub[r].of} ELSE strained
    /\ UNCHANGED <<day, sub, captainVars, events, charges, jobs, money, renewed, reused, stops>>

-----------------------------------------------------------------------------
(* The cron job: processRenewSubscriptions *)

\* Mutant: only the rows due today are looked for.
DueToday(on) == on = day

\* Rows due today, and those an earlier run has missed.
DueBy(on) == on <= day

\* The two finds of the job, which the replica runs once a day.
Cron(j) ==
    LET due == {r \in Ids : sub[r].status = "ACTIVE" /\ DueBy(sub[r].dueDay)} IN
    /\ ranOn[j] < day
    /\ ranOn' = [ranOn EXCEPT ![j] = day]
    /\ job' = [job EXCEPT ![j] = {[row |-> r, saw |-> sub[r]] : r \in due}]
    /\ strained' = strained \cup {sub[r].of : r \in {s \in due : InUse(s)}}
    /\ UNCHANGED <<day, sub, captainVars, events, charges, task, money, renewed, reused, asks, stops>>

\* forEach(renewUserSubscription): each record on its own, from what was read.
\* A row due today is renewed from today, an older one from its due date.
Renew(w, j) ==
    \E x \in job[j] :
        /\ ~Working(w)
        /\ job' = [job EXCEPT ![j] = @ \ {x}]
        /\ task' = [task EXCEPT ![w] = [op |-> "renew", pc |-> "expire", row |-> x.row,
                        saw |-> x.saw, start |-> x.saw.dueDay, amt |-> Price, ok |-> FALSE]]
        /\ UNCHANGED <<day, sub, captainVars, events, charges, ranOn, money, history>>

-----------------------------------------------------------------------------
(* Requests of a captain: the first read of each *)

\* cancelSubscription -> cancel: any active row; a due amount is charged first.
Cancel(w, u) ==
    \E r \in Of(u, "ACTIVE") :
        Begin(w, "cancel", IF sub[r].due > 0 THEN "charge" ELSE "close", r, day, sub[r].due)

\* activateSubscription -> activate: any cancelled row; past its due date it is
\* renewed, autoRenewal or not.  (The due date is midnight, so its own day is
\* past it.)
Activate(w, u) ==
    \E r \in Of(u, "CANCEL") :
        Begin(w, "activate", IF day >= sub[r].dueDay THEN "expire" ELSE "revive", r, day, Price)

ChangeAutoRenewal(w, u) ==
    \E r \in Latest(Of(u, "ACTIVE")) : Begin(w, "toggle", "toggle", r, day, 0)

-----------------------------------------------------------------------------
(* The later steps of a handler *)

\* expireExisting; without autoRenewal the job stops here.
Expire(w) ==
    LET t == task[w] IN
    /\ t.pc = "expire"
    /\ sub' = [sub EXCEPT ![t.row].status = "EXPIRED", ![t.row].auto = FALSE]
    /\ IF t.op = "renew" /\ ~t.saw.auto THEN Finish(w) ELSE Goto(w, "charge")
    /\ UNCHANGED <<day, captainVars, events, charges, jobs, money, history>>

\* addSubscriptionTransaction (SubscriptionCharge in Transfer): the wallet is
\* debited and a row for today inserted, or the charge is refused.
AfterCharge(op) ==
    IF op = "cancel" THEN "close" ELSE "create"

Charge(w) ==
    LET t == task[w]
        u == t.saw.of IN
    /\ t.pc = "charge"
    /\ \/ /\ task' = [task EXCEPT ![w].pc = AfterCharge(t.op), ![w].ok = TRUE]
          /\ money' = [money EXCEPT ![u] = @ + t.amt]
          /\ charges' = [charges EXCEPT ![u] = @ \cup {t.amt}]
       \/ /\ IF t.op = "cancel" THEN Finish(w) ELSE Goto(w, "create")
          /\ UNCHANGED <<money, charges>>
    /\ UNCHANGED <<day, sub, captainVars, events, jobs, history>>

\* Mutant: what a refused charge was for is not added.
DueAfterRefused(t) == t.saw.due

\* The due amount of the next row.
DueAfter(t) == IF t.ok THEN t.saw.due ELSE t.saw.due + Price

\* create: the next row, active whether or not it is paid.
CreateNext(w) ==
    LET t == task[w] IN
    /\ t.pc = "create"
    /\ \E r \in Free :
           sub' = [sub EXCEPT ![r] = NewRow(t.saw.of, t.saw.auto, DueAfter(t), t.start + Period)]
    /\ renewed' = [renewed EXCEPT ![t.row] = @ + 1]
    /\ Goto(w, "emit")
    /\ UNCHANGED <<day, captainVars, events, charges, jobs, money, strained, reused, asks, stops>>

\* Mutant: the event is sent only for a renewal that was paid.
EmitPaid(w) ==
    LET t == task[w] IN
    /\ t.pc = "emit"
    /\ news' = IF t.ok THEN news \cup {t.saw.of} ELSE news
    /\ IF t.op = "activate" /\ t.ok THEN Goto(w, "answer") ELSE Finish(w)
    /\ UNCHANGED <<day, sub, captainVars, mail, sent, charges, jobs, money, history>>

\* UPDATE_CAPTAIN_SUBSCRIPTION.  activate answers an error after a refused
\* charge, although the captain has the new row.
Emit(w) ==
    LET t == task[w] IN
    /\ t.pc = "emit"
    /\ news' = news \cup {t.saw.of}
    /\ IF t.op = "activate" /\ t.ok THEN Goto(w, "answer") ELSE Finish(w)
    /\ UNCHANGED <<day, sub, captainVars, mail, sent, charges, jobs, money, history>>

Close(w) ==
    /\ task[w].pc = "close"
    /\ sub' = [sub EXCEPT ![task[w].row].status = "CANCEL", ![task[w].row].due = 0]
    /\ Goto(w, "answer")
    /\ UNCHANGED <<day, captainVars, events, charges, jobs, money, history>>

Revive(w) ==
    /\ task[w].pc = "revive"
    /\ sub' = [sub EXCEPT ![task[w].row].status = "ACTIVE"]
    /\ Goto(w, "answer")
    /\ UNCHANGED <<day, captainVars, events, charges, jobs, money, history>>

Toggle(w) ==
    /\ task[w].pc = "toggle"
    /\ sub' = [sub EXCEPT ![task[w].row].auto = ~task[w].saw.auto]
    /\ Finish(w)
    /\ UNCHANGED <<day, captainVars, events, charges, jobs, money, history>>

\* The driver service, answered, sets the flag.
Answer(w) ==
    LET t == task[w] IN
    /\ t.pc = "answer"
    /\ flag' = [flag EXCEPT ![t.saw.of] = IF t.op = "cancel" THEN 0 ELSE 1]
    /\ Finish(w)
    /\ UNCHANGED <<day, sub, pages, paid, answers, events, charges, jobs, money, history>>

\* A handler, or what a job has not started yet, is stopped with its replica;
\* nothing resumes it.
Stop(w) ==
    /\ Working(w) /\ stops < MaxStops /\ day < LastDay
    /\ stops' = stops + 1
    /\ strained' = strained \cup {task[w].saw.of}
    /\ Finish(w)
    /\ UNCHANGED <<day, sub, captainVars, events, charges, jobs, money, renewed, reused, asks>>

StopJob(j) ==
    /\ job[j] # {} /\ stops < MaxStops /\ day < LastDay
    /\ stops' = stops + 1
    /\ job' = [job EXCEPT ![j] = {}]
    /\ UNCHANGED <<day, sub, captainVars, events, charges, ranOn, task, money, renewed, strained, reused, asks>>

-----------------------------------------------------------------------------
(* The driver service: purchase, addUserSubscription, verifyCaptain *)

\* purchase opens a page; it looks at the flag, the rows and today's charges.
Purchase(u) ==
    /\ flag[u] = 0 /\ Of(u, "ACTIVE") = {} /\ charges[u] = {}
    /\ pages[u] + paid[u] < MaxPages
    /\ pages' = [pages EXCEPT ![u] = @ + 1]
    /\ UNCHANGED <<day, sub, flag, paid, answers, events, charges, jobs, task, money, history>>

\* The page is paid at any later time, and ClickPay called back (ClickPay).
PayPage(u) ==
    /\ pages[u] > 0
    /\ pages' = [pages EXCEPT ![u] = @ - 1]
    /\ paid' = [paid EXCEPT ![u] = @ + 1]
    /\ money' = [money EXCEPT ![u] = @ + Price]
    /\ UNCHANGED <<day, sub, flag, answers, events, charges, jobs, task, history>>

\* The event of a sold subscription goes out before the flag is written.
Sell(u, auto, due) ==
    /\ sent < MaxSales
    /\ sent' = sent + 1
    /\ mail' = mail \cup {[no |-> sent, row |-> NewRow(u, auto, due, day + Period)]}
    /\ answers' = [answers EXCEPT ![u] = @ + 1]

\* addUserSubscription; with the flag set a paid page buys nothing.
AddUserSubscription(u) ==
    /\ paid[u] > 0
    /\ paid' = [paid EXCEPT ![u] = @ - 1]
    /\ IF flag[u] = 0
       THEN /\ Sell(u, FALSE, 0)
            /\ strained' = IF answers[u] > 0 THEN strained \cup {u} ELSE strained
       ELSE /\ strained' = strained \cup {u}
            /\ UNCHANGED <<mail, sent, answers>>
    /\ UNCHANGED <<day, sub, flag, pages, news, charges, jobs, task, money, renewed, reused, asks, stops>>

\* verifyCaptain: an active row sets the flag; else any charge of today is taken
\* for the payment of a new subscription.
VerifyCaptain(u) ==
    /\ flag[u] = 0 /\ answers[u] < MaxPages
    /\ \/ /\ Of(u, "ACTIVE") # {}
          /\ answers' = [answers EXCEPT ![u] = @ + 1]
          /\ UNCHANGED <<mail, sent, reused>>
       \/ /\ Of(u, "ACTIVE") = {}
          /\ \E amt \in charges[u] : Sell(u, TRUE, Price - amt)
          /\ reused' = reused \cup {u}
    /\ UNCHANGED <<day, sub, flag, pages, paid, news, charges, jobs, task, money, renewed, strained, asks, stops>>

SetFlag(u) ==
    /\ answers[u] > 0
    /\ answers' = [answers EXCEPT ![u] = @ - 1]
    /\ flag' = [flag EXCEPT ![u] = 1]
    /\ UNCHANGED <<day, sub, pages, paid, events, charges, jobs, task, money, history>>

\* The payment service inserts the row of a CREATE_USER_SUBSCRIPTION event.
Create ==
    \E x \in mail : \E r \in Free :
        /\ mail' = mail \ {x}
        /\ sub' = [sub EXCEPT ![r] = x.row]
        /\ UNCHANGED <<day, captainVars, news, sent, charges, jobs, task, money, history>>

\* updateSubscriptionDetail, whatever has happened since the event was sent.
UpdateSubscriptionDetail(u) ==
    /\ u \in news
    /\ news' = news \ {u}
    /\ flag' = [flag EXCEPT ![u] = 1]
    /\ UNCHANGED <<day, sub, pages, paid, answers, mail, sent, charges, jobs, task, money, history>>

NextDay ==
    /\ day < LastDay
    /\ day' = day + 1
    /\ charges' = [u \in Captains |-> {}]
    /\ UNCHANGED <<sub, captainVars, events, jobs, task, money, history>>

-----------------------------------------------------------------------------
\* driverSubStatus is 0 by default and 1 for a captain registered by create.
Init ==
    /\ day = 0
    /\ sub = [r \in Ids |-> NoRow]
    /\ flag \in [Captains -> {0, 1}]
    /\ pages = [u \in Captains |-> 0]
    /\ paid = [u \in Captains |-> 0]
    /\ mail = {} /\ news = {} /\ sent = 0
    /\ answers = [u \in Captains |-> 0]
    /\ charges = [u \in Captains |-> {}]
    /\ job = [j \in Replicas |-> {}]
    /\ ranOn = [j \in Replicas |-> 0]
    /\ task = [w \in Workers |-> Idle]
    /\ money = [u \in Captains |-> 0]
    /\ renewed = [r \in Ids |-> 0]
    /\ strained = {} /\ reused = {} /\ asks = 0 /\ stops = 0

Step(w) ==
    \/ Expire(w) \/ Charge(w) \/ CreateNext(w) \/ Emit(w) \/ Close(w) \/ Revive(w)
    \/ Toggle(w) \/ Answer(w)

CaptainActs(u) ==
    \/ Purchase(u) \/ PayPage(u) \/ AddUserSubscription(u) \/ VerifyCaptain(u)
    \/ SetFlag(u) \/ UpdateSubscriptionDetail(u)
    \/ \E w \in Workers :
           Cancel(w, u) \/ Activate(w, u) \/ ChangeAutoRenewal(w, u)

Next ==
    \/ \E w \in Workers : Step(w) \/ Stop(w) \/ \E j \in Replicas : Renew(w, j)
    \/ \E u \in Captains : CaptainActs(u)
    \/ \E j \in Replicas : Cron(j) \/ StopJob(j)
    \/ Create \/ NextDay

Spec == Init /\ [][Next]_vars

\* The event loop, the job at midnight and the calendar go on; people need not
\* act.  (A worker is a bound of the model: a renewal gets one in the end.)
Fairness ==
    /\ WF_vars(NextDay)
    /\ \A j \in Replicas : WF_vars(Cron(j))
    /\ \A w \in Workers : WF_vars(Step(w))
    /\ \A j \in Replicas : SF_vars(\E w \in Workers : Renew(w, j))

LiveSpec == Spec /\ Fairness

-----------------------------------------------------------------------------
(* Properties *)

Event == [no : 0..MaxSales, row : [status : {"ACTIVE"}, of : Captains, auto : BOOLEAN,
                                  due : Int, dueDay : Nat]]

Row == [status : SubscriptionStatus, of : Captains \cup {None}, auto : BOOLEAN,
        due : Int, dueDay : Nat]

\* Every row, event and handler has the shape the entity and the code give it.
TypeOK ==
    /\ day \in 0..LastDay
    /\ sub \in [Ids -> Row]
    /\ flag \in [Captains -> {0, 1}]
    /\ pages \in [Captains -> Nat] /\ paid \in [Captains -> Nat]
    /\ answers \in [Captains -> Nat]
    /\ mail \subseteq Event
    /\ news \subseteq Captains
    /\ \A w \in Workers : Working(w) => task[w].row \in Ids /\ task[w].saw \in Row
    /\ \A j \in Replicas : \A x \in job[j] : x.row \in Ids /\ x.saw \in Row

\* Nothing of the captain is under way.
Quiet(u) ==
    /\ \A w \in Workers : task[w].saw.of # u
    /\ \A j \in Replicas : \A x \in job[j] : x.saw.of # u
    /\ paid[u] = 0 /\ answers[u] = 0 /\ u \notin news
    /\ \A x \in mail : x.row.of # u

Rows(u) == {r \in Ids : sub[r].of = u}

\* What a captain still owes: the due amounts of the rows no renewal followed.
Owed(u) ==
    LET due(r) == sub[r].due
    IN  MapThenSumSet(due, {r \in Rows(u) : renewed[r] = 0})

\* Whenever nothing of a captain is under way, what was paid and what is owed
\* make up the price of every subscription there has been: a refused charge is
\* carried from row to row until a cancellation pays it, and no period is charged
\* twice.  Two handlers on one row at once, a stopped handler and a charge that
\* verifyCaptain reuses are the exceptions.
Ledger ==
    \A u \in Captains \ (strained \cup reused) :
        Quiet(u) => money[u] + Owed(u) = Price * Cardinality(Rows(u))

\* A captain with a running subscription is offered trips: whenever a row is
\* active and none is cancelled, driverSubStatus is 1 once the handlers and
\* events of the captain are through.  Activation and renewal owe this to the
\* event they send even when the charge was refused.
ActiveIsOffered ==
    \A u \in Captains \ strained :
        Quiet(u) /\ Of(u, "ACTIVE") # {} /\ Of(u, "CANCEL") = {} => flag[u] = 1

\* The job renews what an earlier run missed ("If the yesterday cronjob failed",
\* user-subscription.service.ts:250): a subscription that is due does not stay
\* active, wherever the jobs and handlers of the days before were stopped.
DueIsEnded ==
    \A r \in Ids :
        (sub[r].status = "ACTIVE" /\ sub[r].dueDay <= day /\ day < LastDay)
            ~> sub[r].status # "ACTIVE"
=============================================================================
