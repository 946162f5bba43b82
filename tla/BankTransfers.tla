---------------------------- MODULE BankTransfers ----------------------------
(***************************************************************************)
(* Transfers to the bank: payment-service AlinmaB2BService, called by      *)
(* TransferService after a top-up, a subscription or a trip.               *)
(*                                                                         *)
(* fundXfer signs a request, inserts an alinma_transactions row and a      *)
(* history row, posts the request to the bank and stores what the bank     *)
(* answered.  It never throws and nobody looks at what it returns.  An     *)
(* administrator may retry a row that says FAILED: retryTransaction claims *)
(* it with a conditional update and posts it again, as a new request.      *)
(***************************************************************************)
EXTENDS BankBooks, Sequences

CONSTANTS
    Payments,    \* what TransferService has to pass on to the bank
    Plan,        \* the transfers of each payment, one after the other
    Handlers,    \* bound: calls at work at once
    MaxRetries,  \* bound: retries
    MaxFaults    \* bound: failing accesses, lost answers, stops

VARIABLES
    asked,     \* payments handed to the bank service
    job,       \* what each handler is doing
    retries,
    faults,
    stranded   \* history: rows left PENDING with nobody at work on them

bankVars == <<transfer, moved, asked, job, retries, faults, doubts, stranded>>

\* Each transfer is one call of fundXfer, which inserts a row of its own.
PlansApart ==
    /\ Plan \in [Payments -> Seq(Transfers)]
    /\ \A p \in Payments : Plan[p] # << >>
    /\ \A p, q \in Payments : \A i \in 1..Len(Plan[p]), j \in 1..Len(Plan[q]) :
          Plan[p][i] = Plan[q][j] => p = q /\ i = j

TransactionStatus == {"none", "PENDING", "COMPLETED", "FAILED"}

Answers == {"none", "SUCCESS", "REFUSED"}

\* left: the transfer being made and those to make after it.
Idle == [at |-> "idle", left |-> << >>, retry |-> FALSE, answer |-> "none"]

AtWork == {h \in Handlers : job[h].at # "idle"}

Xfer(h) == Head(job[h].left)

GoTo(h, at) == job' = [job EXCEPT ![h].at = at]

\* The next fundXfer of the plan, whatever became of this one.
Proceed(h) ==
    job' = [job EXCEPT ![h] = IF Len(@.left) > 1
                              THEN [Idle EXCEPT !.at = "sign", !.left = Tail(job[h].left)]
                              ELSE Idle]

Fault == faults < MaxFaults /\ faults' = faults + 1

\* A transfer that is given up by its handler stays as it is.
Strand(x) == stranded' = IF transfer[x] = "PENDING" THEN stranded \cup {x} ELSE stranded

-----------------------------------------------------------------------------
\* tripMainAccTransfers awaits its transfers one by one, after the driver's IBAN
\* was asked for; without an answer none of them is made.  The transfers of
\* topupMainAccTransfer are not awaited: each is a payment of its own.
Pay(h, p) ==
    /\ p \notin asked /\ job[h].at = "idle"
    /\ asked' = asked \cup {p}
    /\ \/ job' = [job EXCEPT ![h] = [Idle EXCEPT !.at = "sign", !.left = Plan[p]]]
          /\ UNCHANGED faults
       \/ Fault /\ UNCHANGED job
    /\ UNCHANGED <<transfer, moved, retries, doubts, stranded>>

\* Mutant: a retry reads the row first, and its update is not conditional.
RetryUnclaimed(h, x) ==
    /\ job[h].at = "idle" /\ retries < MaxRetries
    /\ transfer[x] \in {"FAILED", "PENDING"}
    /\ transfer' = [transfer EXCEPT ![x] = "PENDING"]
    /\ job' = [job EXCEPT ![h] = [Idle EXCEPT !.at = "sign", !.left = <<x>>, !.retry = TRUE]]
    /\ retries' = retries + 1
    /\ UNCHANGED <<moved, asked, faults, doubts, stranded>>

\* UPDATE ... SET status = PENDING WHERE id = x AND status = FAILED.
Retry(h, x) ==
    /\ job[h].at = "idle" /\ retries < MaxRetries
    /\ transfer[x] = "FAILED"
    /\ transfer' = [transfer EXCEPT ![x] = "PENDING"]
    /\ job' = [job EXCEPT ![h] = [Idle EXCEPT !.at = "sign", !.left = <<x>>, !.retry = TRUE]]
    /\ retries' = retries + 1
    /\ UNCHANGED <<moved, asked, faults, doubts, stranded>>

\* generateSignedRequest, and for the retry of a withdrawal the bank's name: a
\* first attempt that fails here leaves no row, a retry leaves the row PENDING.
Sign(h) ==
    /\ job[h].at = "sign"
    /\ \/ GoTo(h, IF job[h].retry THEN "history" ELSE "insert")
          /\ UNCHANGED <<faults, stranded>>
       \/ Fault /\ Proceed(h) /\ Strand(Xfer(h))
    /\ UNCHANGED <<transfer, moved, asked, retries, doubts>>

Insert(h) ==
    /\ job[h].at = "insert"
    /\ \/ /\ transfer' = [transfer EXCEPT ![Xfer(h)] = "PENDING"]
          /\ GoTo(h, "history")
          /\ UNCHANGED faults
       \/ Fault /\ Proceed(h) /\ UNCHANGED transfer
    /\ UNCHANGED <<moved, asked, retries, doubts, stranded>>

SaveHistory(h) ==
    /\ job[h].at = "history"
    /\ \/ GoTo(h, "post") /\ UNCHANGED <<faults, stranded>>
       \/ Fault /\ Proceed(h) /\ Strand(Xfer(h))
    /\ UNCHANGED <<transfer, moved, asked, retries, doubts>>

\* The bank executes the transfer or does not, and its answer may be lost, late
\* or unreadable.  (A retry is posted without its signature: whether the bank
\* takes it is the bank's business.)
Post(h) ==
    LET x == Xfer(h)
        Answer(a) == job' = [job EXCEPT ![h].at = "settle", ![h].answer = a]
    IN  /\ job[h].at = "post"
        /\ \/ moved' = [moved EXCEPT ![x] = @ + 1] /\ Answer("SUCCESS") /\ UNCHANGED faults
           \/ moved' = [moved EXCEPT ![x] = @ + 1] /\ Answer("none") /\ Fault
           \/ UNCHANGED moved /\ Answer("REFUSED") /\ UNCHANGED faults
           \/ UNCHANGED moved /\ Answer("none") /\ Fault
        /\ doubts' = IF moved' # moved /\ job'[h].answer = "none"
                     THEN [doubts EXCEPT ![x] = @ + 1] ELSE doubts
        /\ UNCHANGED <<transfer, asked, retries, stranded>>

\* Mutant: a transfer without an answer is left as it is.
OutcomeLeftOpen(answer) ==
    CASE answer = "SUCCESS" -> "COMPLETED" [] answer = "REFUSED" -> "FAILED"
      [] OTHER -> "PENDING"

Outcome(answer) == IF answer = "SUCCESS" THEN "COMPLETED" ELSE "FAILED"

\* What was answered is stored; if that fails, the handler's catch stores FAILED,
\* and if that fails too the row stays PENDING.
Settle(h) ==
    LET x == Xfer(h)
    IN  /\ job[h].at = "settle"
        /\ \/ /\ transfer' = [transfer EXCEPT ![x] = Outcome(job[h].answer)]
              /\ UNCHANGED <<faults, doubts, stranded>>
           \/ /\ Fault
              /\ doubts' = IF job[h].answer = "SUCCESS" THEN [doubts EXCEPT ![x] = @ + 1]
                           ELSE doubts
              /\ \/ transfer' = [transfer EXCEPT ![x] = "FAILED"] /\ UNCHANGED stranded
                 \/ UNCHANGED transfer /\ Strand(x)
        /\ Proceed(h)
        /\ UNCHANGED <<moved, asked, retries>>

\* The replica stops: the transfers that were still to come are never made.
Stop(h) ==
    /\ job[h].at # "idle" /\ Fault
    /\ Strand(Xfer(h))
    /\ doubts' = IF job[h].answer = "SUCCESS" THEN [doubts EXCEPT ![Xfer(h)] = @ + 1]
                 ELSE doubts
    /\ job' = [job EXCEPT ![h] = Idle]
    /\ UNCHANGED <<transfer, moved, asked, retries>>

Step(h) == Sign(h) \/ Insert(h) \/ SaveHistory(h) \/ Post(h) \/ Settle(h)

Init ==
    /\ transfer = [x \in Transfers |-> "none"]
    /\ moved = [x \in Transfers |-> 0]
    /\ asked = {}
    /\ job = [h \in Handlers |-> Idle]
    /\ retries = 0
    /\ faults = 0
    /\ doubts = [x \in Transfers |-> 0]
    /\ stranded = {}

Next ==
    \/ \E h \in Handlers, p \in Payments : Pay(h, p)
    \/ \E h \in Handlers, x \in Transfers : Retry(h, x)
    \/ \E h \in Handlers : Step(h) \/ Stop(h)

Spec == Init /\ [][Next]_bankVars

\* A handler that is not stopped goes on: every await has a timeout or an answer.
Fairness == \A h \in Handlers : WF_bankVars(Step(h))

LiveSpec == Spec /\ Fairness

-----------------------------------------------------------------------------
JobRecord ==
    [at : {"idle", "sign", "insert", "history", "post", "settle"}, left : Seq(Transfers),
     retry : BOOLEAN, answer : Answers]

TypeOK ==
    /\ transfer \in [Transfers -> TransactionStatus]
    /\ moved \in [Transfers -> Nat]
    /\ asked \subseteq Payments
    /\ job \in [Handlers -> JobRecord]
    /\ \A h \in AtWork : job[h].left # << >>
    /\ retries \in Nat /\ faults \in Nat
    /\ doubts \in [Transfers -> Nat]
    /\ stranded \subseteq Transfers

\* A transfer does not stay PENDING, where no retry can claim it, unless its
\* handler was stopped or failed before the bank was asked.
TransferSettles ==
    \A x \in Transfers : transfer[x] = "PENDING" ~> (transfer[x] # "PENDING" \/ x \in stranded)
=============================================================================
