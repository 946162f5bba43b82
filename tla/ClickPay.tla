------------------------------ MODULE ClickPay ------------------------------
(***************************************************************************)
(* Hosted payments: payment-service ClickPayService.                       *)
(*                                                                         *)
(* createHostedPaymentRequest stores a row, asks ClickPay for a payment    *)
(* page (or, with an Apple Pay token, for the payment itself) and stores   *)
(* the reference it gets.  handleCallBack reads the row, asks ClickPay what*)
(* became of the payment, and only then writes the row and gives the user  *)
(* what was bought: money in the wallet, or a message to the driver        *)
(* service that adds a subscription, which nobody waits for.               *)
(*                                                                         *)
(* ClickPay sends its callback to the gateway, and the page it shows sends *)
(* the user's browser to the same address (callback and return are both    *)
(* clickPayCallbackUrl): a payment is called back more than once.  Every   *)
(* await is a step, any of them may fail, and a replica may stop.          *)
(***************************************************************************)
EXTENDS Null, Naturals

CONSTANTS
    Payments,       \* rows of clickpay_transactions that may be created
    ApplePay,       \* those created with an Apple Pay token
    Handlers        \* runs of handleCallBack: bounds the callbacks of a run

ASSUME ClickPayAssumption ==
    /\ ApplePay \subseteq Payments
    /\ None \notin Payments

VARIABLES
    row,        \* payment_status, and whether tran_ref is stored
    page,       \* where createHostedPaymentRequest stands
    bank,       \* what ClickPay knows of the payment
    cb,         \* the callbacks: payment, progress, the row as it was read
    given,      \* how often the user was given what was paid for
    completed,  \* history: the row has been COMPLETED
    overlapped, \* history: two callbacks have read the row as PENDING
    cut         \* history: a callback of the payment failed or was stopped

rows    == <<row, page>>
history == <<completed, overlapped, cut>>
vars    == <<rows, bank, cb, given, history>>

-----------------------------------------------------------------------------
(* Rows, callbacks *)

ClickPayStatus == {"none", "PENDING", "COMPLETED", "FAILED"}
Row     == [status : ClickPayStatus, ref : BOOLEAN]
NoRow   == [status |-> "none", ref |-> FALSE]

Decided == {"authorised", "declined"}

Idle == [pc |-> "idle", of |-> None, saw |-> NoRow]

Callback(p, x) == [pc |-> x, of |-> p, saw |-> NoRow]

Steps == {"idle", "find", "verify", "complete", "credit", "fail", "done"}

Busy(c) == cb[c].pc \notin {"idle", "done"}

\* The callbacks of p that have read PENDING and not yet written the row.
Deciding(p) == {c \in Handlers : /\ cb[c].of = p
                                 /\ cb[c].pc \in {"verify", "complete"}
                                 /\ cb[c].saw.status = "PENDING"}

Goto(c, x) == cb' = [cb EXCEPT ![c].pc = x]

-----------------------------------------------------------------------------
(* createHostedPaymentRequest *)

\* The row is saved without a reference, before ClickPay is asked.  (An amount
\* below 3 is refused before that and leaves nothing.)
CreateRow(p) ==
    /\ page[p] = "new"
    /\ row' = [row EXCEPT ![p] = [status |-> "PENDING", ref |-> FALSE]]
    /\ page' = [page EXCEPT ![p] = "asking"]
    /\ UNCHANGED <<bank, cb, given, history>>

\* axios.post: a page is opened, or the Apple Pay payment is decided at once.
\* The answer may be lost, which ends the request and leaves the row as it is.
AskClickPay(p) ==
    /\ page[p] = "asking"
    /\ \E d \in IF p \in ApplePay THEN Decided ELSE {"open"} :
           bank' = [bank EXCEPT ![p] = d]
    /\ \E x \in {"asked", "lost"} : page' = [page EXCEPT ![p] = x]
    /\ UNCHANGED <<row, cb, given, history>>

\* The reference is stored; the page address is the answer to the request, and
\* an Apple Pay request goes on as a callback of its own making.
StoreRef(p) ==
    /\ page[p] = "asked"
    /\ row' = [row EXCEPT ![p].ref = TRUE]
    /\ page' = [page EXCEPT ![p] = "shown"]
    /\ IF p \in ApplePay
       THEN \E c \in Handlers : /\ cb[c].pc = "idle"
                                /\ cb' = [cb EXCEPT ![c] = Callback(p, "find")]
       ELSE UNCHANGED cb
    /\ UNCHANGED <<bank, given, history>>

\* A failed save or post, or a stop before the reference is stored.
LosePage(p) ==
    /\ page[p] \in {"asking", "asked"}
    /\ page' = [page EXCEPT ![p] = "lost"]
    /\ UNCHANGED <<row, bank, cb, given, history>>

-----------------------------------------------------------------------------
(* The user at the page, ClickPay, and the network *)

BankDecides(p) ==
    /\ bank[p] = "open"
    /\ \E d \in Decided : bank' = [bank EXCEPT ![p] = d]
    /\ UNCHANGED <<rows, cb, given, history>>

\* A callback, or the browser that comes back from the page.  Both come as long
\* as there is a handler left, whether or not an earlier one was answered.
CallBack(c, p) ==
    /\ bank[p] \in Decided
    /\ cb[c].pc = "idle"
    /\ cb' = [cb EXCEPT ![c] = Callback(p, "find")]
    /\ UNCHANGED <<rows, bank, given, history>>

-----------------------------------------------------------------------------
(* handleCallBack *)

\* this.findOne(cartId)
Find(c) ==
    LET p == cb[c].of IN
    /\ cb[c].pc = "find"
    /\ cb' = [cb EXCEPT ![c].pc = "verify", ![c].saw = row[p]]
    /\ overlapped' = IF row[p].status = "PENDING" /\ Deciding(p) # {}
                     THEN overlapped \cup {p} ELSE overlapped
    /\ UNCHANGED <<rows, bank, given, completed, cut>>

\* Mutant: the test of verifyTransaction's statusCode is dropped from the else branch.
VerdictOnError(saw, answer) ==
    IF saw.status = "PENDING" /\ saw.ref /\ answer = "authorised" THEN "complete"
    ELSE IF saw.ref THEN "fail"
    ELSE "done"

\* What the callback does next, from the row it read and ClickPay's answer: an
\* answer without a payment_result, or none, is "error".
Verdict(saw, answer) ==
    IF saw.status = "PENDING" /\ saw.ref /\ answer = "authorised" THEN "complete"
    ELSE IF saw.ref /\ answer # "error" THEN "fail"
    ELSE "done"

\* this.verifyTransaction(tranRef)
Verify(c) ==
    /\ cb[c].pc = "verify"
    /\ \E answer \in {bank[cb[c].of], "error"} :
           Goto(c, Verdict(cb[c].saw, answer))
    /\ UNCHANGED <<rows, bank, given, history>>

\* Mutant: the page handler of an Apple Pay payment leaves the credit to the
\* callback.
CompleteOnly(c) ==
    LET p == cb[c].of IN
    /\ cb[c].pc = "complete"
    /\ row' = [row EXCEPT ![p].status = "COMPLETED"]
    /\ completed' = completed \cup {p}
    /\ Goto(c, IF p \in ApplePay THEN "done" ELSE "credit")
    /\ UNCHANGED <<page, bank, given, overlapped, cut>>

\* Mutant: the status is not stored.
CompleteUnsaved(c) ==
    /\ cb[c].pc = "complete"
    /\ completed' = completed \cup {cb[c].of}
    /\ Goto(c, "credit")
    /\ UNCHANGED <<rows, bank, given, overlapped, cut>>

\* The row is COMPLETED before anything is given to the user.
Complete(c) ==
    LET p == cb[c].of IN
    /\ cb[c].pc = "complete"
    /\ row' = [row EXCEPT ![p].status = "COMPLETED"]
    /\ completed' = completed \cup {p}
    /\ Goto(c, "credit")
    /\ UNCHANGED <<page, bank, given, overlapped, cut>>

\* updateWalletBlance for a TOP_UP (its own steps are those of Transfer), the
\* message ADD_USER_SUBSCRIPTION for a SUBSCRIPTION (what the driver service
\* makes of it is in Subscriptions).
Credit(c) ==
    /\ cb[c].pc = "credit"
    /\ given' = [given EXCEPT ![cb[c].of] = @ + 1]
    /\ Goto(c, "done")
    /\ UNCHANGED <<rows, bank, history>>

\* Mutant: the bank's word is stored as the status.
FailCopied(c) ==
    /\ cb[c].pc = "fail"
    /\ row' = [row EXCEPT ![cb[c].of].status = bank[cb[c].of]]
    /\ Goto(c, "done")
    /\ UNCHANGED <<page, bank, given, history>>

\* Whatever the row says by now, it becomes FAILED.
Fail(c) ==
    /\ cb[c].pc = "fail"
    /\ row' = [row EXCEPT ![cb[c].of].status = "FAILED"]
    /\ Goto(c, "done")
    /\ UNCHANGED <<page, bank, given, history>>

\* An await throws (the catch answers SOMETHING_WENT_WRONG), updateWalletBlance
\* reports an error that nobody looks at, or the replica stops.
CutShort(c) ==
    /\ Busy(c)
    /\ Goto(c, "done")
    /\ cut' = cut \cup {cb[c].of}
    /\ UNCHANGED <<rows, bank, given, completed, overlapped>>

-----------------------------------------------------------------------------
Init ==
    /\ row = [p \in Payments |-> NoRow]
    /\ page = [p \in Payments |-> "new"]
    /\ bank = [p \in Payments |-> "none"]
    /\ cb = [c \in Handlers |-> Idle]
    /\ given = [p \in Payments |-> 0]
    /\ completed = {}
    /\ overlapped = {}
    /\ cut = {}

Next ==
    \/ \E p \in Payments :
           \/ CreateRow(p) \/ AskClickPay(p) \/ StoreRef(p) \/ LosePage(p)
           \/ BankDecides(p)
           \/ \E c \in Handlers : CallBack(c, p)
    \/ \E c \in Handlers :
           Find(c) \/ Verify(c) \/ Complete(c) \/ Credit(c) \/ Fail(c) \/ CutShort(c)

Spec == Init /\ [][Next]_vars

-----------------------------------------------------------------------------
(* Properties *)

\* Every row and callback has the shape the entities and the handler give it.
TypeOK ==
    /\ row \in [Payments -> Row]
    /\ page \in [Payments -> {"new", "asking", "asked", "shown", "lost"}]
    /\ bank \in [Payments -> {"none", "open"} \cup Decided]
    /\ cb \in [Handlers -> [pc : Steps, of : Payments \cup {None}, saw : Row]]
    /\ \A c \in Handlers : cb[c].pc # "idle" => cb[c].of \in Payments
    /\ given \in [Payments -> Nat]
    /\ completed \subseteq Payments
    /\ overlapped \subseteq Payments
    /\ cut \subseteq Payments

\* What a finished payment says is so. One that was completed has been given or is about
\* to be, unless a callback of it was cut short: nothing comes back to it. And one whose
\* money the bank took is FAILED only if it had been COMPLETED: an unanswered query, a
\* callback ahead of the stored reference or a stopped handler never fails it.
OutcomesAgree ==
    /\ \A p \in completed \ cut :
           given[p] > 0 \/ \E c \in Handlers : cb[c].of = p /\ cb[c].pc = "credit"
    /\ \A p \in Payments :
           row[p].status = "FAILED" => bank[p] = "declined" \/ p \in completed

\* The payment as HostedPayment sees it: a second credit would be a stage it
\* does not have.
Stage(p) ==
    IF p \in overlapped THEN "contended"
    ELSE IF given[p] > 1 THEN "credited again"
    ELSE IF given[p] = 1 THEN "credited"
    ELSE IF p \in completed THEN "completed"
    ELSE IF bank[p] \in Decided THEN bank[p]
    ELSE "open"

HP == INSTANCE HostedPayment WITH stage <- [p \in Payments |-> Stage(p)]

\* However callbacks come and wherever handlers stop, a payment goes through the
\* stages of HostedPayment and never back: what a callback does is decided by
\* the row it read, and only two that read PENDING decide twice.
HostedPaymentHolds == HP!Spec
=============================================================================
