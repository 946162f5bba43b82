--------------------------- MODULE ClickPayProofs ---------------------------
(***************************************************************************)
(* Proofs about hosted payments, for any payments and any number of        *)
(* callbacks: what a finished payment says is so, and ClickPay implements  *)
(* HostedPayment.                                                          *)
(*                                                                         *)
(* Neither OutcomesAgree nor the refinement is inductive: both rest on     *)
(* what a callback still knows when it acts, which is what it read some    *)
(* steps ago.  The invariant says what the row it read tells of the        *)
(* payment now (ReadsHold), and that a payment two callbacks did not       *)
(* decide at once has one that does (AloneHolds).                          *)
(***************************************************************************)
EXTENDS ClickPay, TLAPS

\* What a status tells of a payment, whenever it was read: none and PENDING tell
\* nothing.
Tells(status, p) ==
    /\ status = "COMPLETED" => p \in completed
    /\ status = "FAILED" => bank[p] = "declined" \/ p \in completed

\* A row that is not there yet has no reference, and nobody has heard of the
\* payment; one that is not decided has not been completed.
RowsHold ==
    \A p \in Payments :
        /\ row[p].status = "none" => ~row[p].ref
        /\ page[p] # "new" => row[p].status # "none"
        /\ page[p] \in {"new", "asking"} => bank[p] = "none"
        /\ page[p] = "asked" /\ p \in ApplePay => bank[p] \in Decided
        /\ Tells(row[p].status, p)
        /\ row[p].status \in {"none", "PENDING"} => p \notin completed
        /\ bank[p] \notin Decided => p \notin completed \cup overlapped
        /\ given[p] > 0 => p \in completed

\* What a callback read, and what it means to do, agrees with what became of the
\* payment since.
ReadsHold ==
    \A c \in Handlers : cb[c].pc # "idle" =>
        LET p == cb[c].of IN
        /\ bank[p] \in Decided
        /\ cb[c].saw.status = "none" => ~cb[c].saw.ref
        /\ Tells(cb[c].saw.status, p)
        /\ cb[c].pc = "complete" => bank[p] = "authorised" /\ cb[c].saw.status = "PENDING"
        /\ cb[c].pc = "credit" => p \in completed
        /\ cb[c].pc = "fail" => bank[p] = "declined" \/ p \in completed

\* Of a payment that is not contended, one callback at most is deciding, and the
\* row is still as it read it if the bank has the money; and one at most is about
\* to credit it, which has not been done.
Alone(c) ==
    LET p == cb[c].of IN
    /\ c \in Deciding(p) =>
          /\ Deciding(p) = {c}
          /\ bank[p] = "authorised" => row[p].status = "PENDING"
    /\ cb[c].pc = "credit" =>
          /\ given[p] = 0
          /\ \A d \in Handlers : cb[d].of = p /\ cb[d].pc = "credit" => d = c

AloneHolds ==
    \A c \in Handlers : cb[c].pc # "idle" /\ cb[c].of \notin overlapped => Alone(c)

IInv == TypeOK /\ RowsHold /\ ReadsHold /\ AloneHolds /\ OutcomesAgree

-----------------------------------------------------------------------------
(* Types *)

\* A step keeps every shape.
LEMMA TypeStep == TypeOK /\ [Next]_vars => TypeOK'
<1> SUFFICES ASSUME TypeOK, [Next]_vars PROVE TypeOK'
    OBVIOUS
<1> USE DEF TypeOK, Row, ClickPayStatus, Steps, Decided
<1>1. ASSUME NEW p \in Payments, CreateRow(p) PROVE TypeOK'
    BY <1>1 DEF CreateRow, history
<1>2. ASSUME NEW p \in Payments, AskClickPay(p) PROVE TypeOK'
    BY <1>2 DEF AskClickPay, history
<1>3. ASSUME NEW p \in Payments, StoreRef(p) PROVE TypeOK'
    <2>1. /\ row' \in [Payments -> Row] /\ page' \in [Payments -> {"new", "asking", "asked", "shown", "lost"}]
          /\ UNCHANGED <<bank, given, history>>
        BY <1>3 DEF StoreRef
    <2>2. CASE UNCHANGED cb
        BY <2>1, <2>2 DEF history
    <2>3. CASE \E c \in Handlers : cb' = [cb EXCEPT ![c] = Callback(p, "find")]
        BY <2>1, <2>3 DEF Callback, NoRow, history
    <2> QED
        BY <1>3, <2>2, <2>3 DEF StoreRef
<1>4. ASSUME NEW p \in Payments, LosePage(p) PROVE TypeOK'
    BY <1>4 DEF LosePage, history
<1>5. ASSUME NEW p \in Payments, BankDecides(p) PROVE TypeOK'
    BY <1>5 DEF BankDecides, rows, history
<1>6. ASSUME NEW c \in Handlers, NEW p \in Payments, CallBack(c, p) PROVE TypeOK'
    BY <1>6 DEF CallBack, Callback, NoRow, rows, history
<1>7. ASSUME NEW c \in Handlers, Find(c) PROVE TypeOK'
    <2>1. cb[c].of \in Payments /\ row[cb[c].of] \in Row
        BY <1>7 DEF Find
    <2>2. /\ cb' = [cb EXCEPT ![c].pc = "verify", ![c].saw = row[cb[c].of]]
          /\ UNCHANGED <<rows, bank, given, completed, cut>>
        BY <1>7 DEF Find
    <2>3. overlapped' \subseteq Payments
        BY <1>7, <2>1 DEF Find
    <2> DEFINE Cb == [pc : Steps, of : Payments \cup {None}, saw : Row]
    <2>4. cb' \in [Handlers -> Cb]
        <3>1. cb \in [Handlers -> Cb] /\ row[cb[c].of] \in Row
            BY <2>1
        <3> HIDE DEF TypeOK, Row, ClickPayStatus
        <3>2. PICK r \in Row : r = row[cb[c].of]
            BY <3>1
        <3>3. [cb[c] EXCEPT !.pc = "verify", !.saw = r] \in Cb
            BY <3>1 DEF Cb
        <3>4. cb' = [cb EXCEPT ![c] = [cb[c] EXCEPT !.pc = "verify", !.saw = r]]
            BY <2>2, <3>1, <3>2
        <3> HIDE DEF Cb
        <3> QED
            BY <3>1, <3>3, <3>4
    <2>5. \A d \in Handlers : cb'[d].pc # "idle" => cb'[d].of \in Payments
        BY <2>1, <2>2
    <2> QED
        BY <2>2, <2>3, <2>4, <2>5, ZenonT(20) DEF rows
<1>8. ASSUME NEW c \in Handlers, Verify(c) PROVE TypeOK'
    BY <1>8 DEF Verify, Goto, Verdict, rows, history
<1>9. ASSUME NEW c \in Handlers, Complete(c) PROVE TypeOK'
    BY <1>9 DEF Complete, Goto
<1>10. ASSUME NEW c \in Handlers, Credit(c) PROVE TypeOK'
    BY <1>10 DEF Credit, Goto, rows, history
<1>11. ASSUME NEW c \in Handlers, Fail(c) PROVE TypeOK'
    BY <1>11 DEF Fail, Goto, history
<1>12. ASSUME NEW c \in Handlers, CutShort(c) PROVE TypeOK'
    BY <1>12 DEF CutShort, Busy, Goto, rows
<1>13. CASE UNCHANGED vars
    BY <1>13 DEF vars, rows, history
<1> QED
    BY <1>1, <1>2, <1>3, <1>4, <1>5, <1>6, <1>7, <1>8, <1>9, <1>10, <1>11, <1>12, <1>13 DEF Next

-----------------------------------------------------------------------------
(* The invariant *)

\* Before any payment there is nothing to account for.
LEMMA InvInit == Init => IInv
    BY DEF Init, IInv, TypeOK, RowsHold, ReadsHold, AloneHolds, Alone, OutcomesAgree, Row, ClickPayStatus,
           Steps, Decided, NoRow, Idle, Tells

\* A new row is PENDING and nobody has called back about it.
LEMMA CreateRowKeeps ==
    ASSUME NEW p \in Payments, IInv, CreateRow(p), TypeOK' PROVE IInv'
<1> USE DEF IInv, TypeOK, Row, ClickPayStatus, Decided, Steps, rows, history, Goto, CreateRow
<1>1. RowsHold'
    BY DEF RowsHold, ReadsHold, Tells
<1>2. ReadsHold'
    BY DEF RowsHold, ReadsHold, Tells
<1>3. AloneHolds'
    BY DEF RowsHold, ReadsHold, AloneHolds, Alone, Deciding, Tells
<1>4. OutcomesAgree'
    BY DEF RowsHold, ReadsHold, OutcomesAgree, Tells
<1> QED
    BY <1>1, <1>2, <1>3, <1>4

\* ClickPay opens a page, or decides, for a row that exists.
LEMMA AskClickPayKeeps ==
    ASSUME NEW p \in Payments, IInv, AskClickPay(p), TypeOK' PROVE IInv'
<1> USE DEF IInv, TypeOK, Row, ClickPayStatus, Decided, Steps, rows, history, Goto, AskClickPay
<1>1. RowsHold'
    BY DEF RowsHold, ReadsHold, Tells
<1>2. ReadsHold'
    BY DEF RowsHold, ReadsHold, Tells
<1>3. AloneHolds'
    BY DEF RowsHold, ReadsHold, AloneHolds, Alone, Deciding, Tells
<1>4. OutcomesAgree'
    BY DEF RowsHold, ReadsHold, OutcomesAgree, Tells
<1> QED
    BY <1>1, <1>2, <1>3, <1>4

\* The stored reference is of a payment ClickPay knows; the Apple Pay callback starts
\* like any other.
LEMMA StoreRefKeeps ==
    ASSUME NEW p \in Payments, IInv, StoreRef(p), TypeOK' PROVE IInv'
<1> USE DEF IInv, TypeOK, Row, ClickPayStatus, Decided, Steps, rows, history, Goto, StoreRef, Callback, NoRow
<1>a. /\ page[p] = "asked" /\ page' = [page EXCEPT ![p] = "shown"]
      /\ row' = [row EXCEPT ![p].ref = TRUE]
      /\ UNCHANGED <<bank, given, history>>
    OBVIOUS
<1>1. RowsHold'
    BY <1>a DEF RowsHold, Tells
<1>2. ReadsHold'
    <2>1. CASE UNCHANGED cb
        BY <1>a, <2>1 DEF ReadsHold, Tells
    <2>2. CASE p \in ApplePay
        BY <1>a, <2>2 DEF RowsHold, ReadsHold, Tells
    <2> QED
        BY <2>1, <2>2
<1>3. AloneHolds'
    <2>1. CASE UNCHANGED cb
        BY <1>a, <2>1 DEF AloneHolds, Alone, Deciding
    <2>2. CASE p \in ApplePay
        <3>1. PICK c \in Handlers :
                  cb[c].pc = "idle" /\ cb' = [cb EXCEPT ![c] = Callback(p, "find")]
            BY <2>2
        <3>2. \A q : Deciding(q)' = Deciding(q)
            BY <3>1 DEF Deciding
        <3>3. \A d \in Handlers : cb'[d].pc = "credit" <=> cb[d].pc = "credit"
            BY <3>1
        <3>4. \A d \in Handlers \ {c} : cb'[d] = cb[d]
            BY <3>1
        <3> SUFFICES ASSUME NEW d \in Handlers, cb'[d].pc # "idle",
                            cb'[d].of \notin overlapped'
                     PROVE Alone(d)'
            BY DEF AloneHolds
        <3>5. CASE d = c
            BY <3>1, <3>5 DEF Alone, Deciding
        <3>6. CASE d # c
            <4>1. cb'[d] = cb[d] /\ cb[d].of \in Payments /\ Alone(d)
                BY <1>a, <3>4, <3>6 DEF AloneHolds
            <4>2. \A q \in Payments : row'[q].status = row[q].status
                BY <1>a
            <4>3. \A x \in Handlers : cb'[x].pc = "credit" => cb'[x] = cb[x]
                BY <3>1, <3>4
            <4> QED
                BY <1>a, <3>2, <4>1, <4>2, <4>3 DEF Alone
        <3> QED
            BY <3>5, <3>6
    <2> QED
        BY <2>1, <2>2
<1>4. OutcomesAgree'
    BY DEF RowsHold, ReadsHold, OutcomesAgree, Tells
<1> QED
    BY <1>1, <1>2, <1>3, <1>4

\* A request cut short before the reference is stored leaves the row as it is.
LEMMA LosePageKeeps ==
    ASSUME NEW p \in Payments, IInv, LosePage(p), TypeOK' PROVE IInv'
<1> USE DEF IInv, TypeOK, Row, ClickPayStatus, Decided, Steps, rows, history, Goto, LosePage
<1>1. RowsHold'
    BY DEF RowsHold, ReadsHold, Tells
<1>2. ReadsHold'
    BY DEF RowsHold, ReadsHold, Tells
<1>3. AloneHolds'
    BY DEF RowsHold, ReadsHold, AloneHolds, Alone, Deciding, Tells
<1>4. OutcomesAgree'
    BY DEF RowsHold, ReadsHold, OutcomesAgree, Tells
<1> QED
    BY <1>1, <1>2, <1>3, <1>4

\* The bank decides once.
LEMMA BankDecidesKeeps ==
    ASSUME NEW p \in Payments, IInv, BankDecides(p), TypeOK' PROVE IInv'
<1> USE DEF IInv, TypeOK, Row, ClickPayStatus, Decided, Steps, rows, history, Goto, BankDecides
<1>1. RowsHold'
    BY DEF RowsHold, ReadsHold, Tells
<1>2. ReadsHold'
    BY DEF RowsHold, ReadsHold, Tells
<1>3. AloneHolds'
    BY DEF RowsHold, ReadsHold, AloneHolds, Alone, Deciding, Tells
<1>4. OutcomesAgree'
    BY DEF RowsHold, ReadsHold, OutcomesAgree, Tells
<1> QED
    BY <1>1, <1>2, <1>3, <1>4

\* A callback starts after the bank has decided.
LEMMA CallBackKeeps ==
    ASSUME NEW c \in Handlers, NEW p \in Payments, IInv, CallBack(c, p), TypeOK' PROVE IInv'
<1> USE DEF IInv, TypeOK, Row, ClickPayStatus, Decided, Steps, rows, history, Goto, CallBack, Callback, NoRow
<1>1. RowsHold'
    BY DEF RowsHold, ReadsHold, Tells
<1>2. ReadsHold'
    BY DEF RowsHold, ReadsHold, Tells
<1>3. AloneHolds'
    BY DEF RowsHold, ReadsHold, AloneHolds, Alone, Deciding, Tells
<1>4. OutcomesAgree'
    BY DEF RowsHold, ReadsHold, OutcomesAgree, Tells
<1> QED
    BY <1>1, <1>2, <1>3, <1>4

\* A second callback that finds the row PENDING marks the payment as overlapped.
LEMMA FindKeeps ==
    ASSUME NEW c \in Handlers, IInv, Find(c), TypeOK' PROVE IInv'
<1> USE DEF IInv, TypeOK, Row, ClickPayStatus, Decided, Steps, rows, history, Goto, Find
<1>1. RowsHold'
    BY DEF RowsHold, ReadsHold, Tells
<1>2. ReadsHold'
    BY DEF RowsHold, ReadsHold, Tells
<1>3. AloneHolds'
    BY DEF RowsHold, ReadsHold, AloneHolds, Alone, Deciding, Tells
<1>4. OutcomesAgree'
    BY DEF RowsHold, ReadsHold, OutcomesAgree, Tells
<1> QED
    BY <1>1, <1>2, <1>3, <1>4

\* The answer sends on to completion only what the bank has authorised, and to failure
\* only what it declined or an earlier callback completed.
LEMMA VerifyKeeps ==
    ASSUME NEW c \in Handlers, IInv, Verify(c), TypeOK' PROVE IInv'
<1> USE DEF IInv, TypeOK, Row, ClickPayStatus, Decided, Steps, rows, history, Goto, Verify, Verdict
<1>1. RowsHold'
    BY DEF RowsHold, ReadsHold, Tells
<1>2. ReadsHold'
    BY DEF RowsHold, ReadsHold, Tells
<1>3. AloneHolds'
    BY DEF RowsHold, ReadsHold, AloneHolds, Alone, Deciding, Tells
<1>4. OutcomesAgree'
    BY DEF RowsHold, ReadsHold, OutcomesAgree, Tells
<1> QED
    BY <1>1, <1>2, <1>3, <1>4

\* A completed payment has a callback that is about to give.
LEMMA CompleteKeeps ==
    ASSUME NEW c \in Handlers, IInv, Complete(c), TypeOK' PROVE IInv'
<1> USE DEF IInv, TypeOK, Row, ClickPayStatus, Decided, Steps, rows, history, Goto, Complete
<1>1. RowsHold'
    BY DEF RowsHold, ReadsHold, Tells
<1>2. ReadsHold'
    BY DEF RowsHold, ReadsHold, Tells
<1>3. AloneHolds'
    BY DEF RowsHold, ReadsHold, AloneHolds, Alone, Deciding, Tells
<1>4. OutcomesAgree'
    BY DEF RowsHold, ReadsHold, OutcomesAgree, Tells
<1> QED
    BY <1>1, <1>2, <1>3, <1>4

\* The credit is given by the callback that completed the payment.
LEMMA CreditKeeps ==
    ASSUME NEW c \in Handlers, IInv, Credit(c), TypeOK' PROVE IInv'
<1> USE DEF IInv, TypeOK, Row, ClickPayStatus, Decided, Steps, rows, history, Goto, Credit
<1>1. RowsHold'
    BY DEF RowsHold, ReadsHold, Tells
<1>2. ReadsHold'
    BY DEF RowsHold, ReadsHold, Tells
<1>3. AloneHolds'
    BY DEF RowsHold, ReadsHold, AloneHolds, Alone, Deciding, Tells
<1>4. OutcomesAgree'
    BY DEF RowsHold, ReadsHold, OutcomesAgree, Tells
<1> QED
    BY <1>1, <1>2, <1>3, <1>4

\* A failure is written over a declined or an already completed payment.
LEMMA FailKeeps ==
    ASSUME NEW c \in Handlers, IInv, Fail(c), TypeOK' PROVE IInv'
<1> USE DEF IInv, TypeOK, Row, ClickPayStatus, Decided, Steps, rows, history, Goto, Fail
<1>1. RowsHold'
    BY DEF RowsHold, ReadsHold, Tells
<1>2. ReadsHold'
    BY DEF RowsHold, ReadsHold, Tells
<1>3. AloneHolds'
    BY DEF RowsHold, ReadsHold, AloneHolds, Alone, Deciding, Tells
<1>4. OutcomesAgree'
    BY DEF RowsHold, ReadsHold, OutcomesAgree, Tells
<1> QED
    BY <1>1, <1>2, <1>3, <1>4

\* A callback cut short is remembered.
LEMMA CutShortKeeps ==
    ASSUME NEW c \in Handlers, IInv, CutShort(c), TypeOK' PROVE IInv'
<1> USE DEF IInv, TypeOK, Row, ClickPayStatus, Decided, Steps, rows, history, Goto, CutShort, Busy
<1>1. RowsHold'
    BY DEF RowsHold, ReadsHold, Tells
<1>2. ReadsHold'
    BY DEF RowsHold, ReadsHold, Tells
<1>3. AloneHolds'
    BY DEF RowsHold, ReadsHold, AloneHolds, Alone, Deciding, Tells
<1>4. OutcomesAgree'
    BY DEF RowsHold, ReadsHold, OutcomesAgree, Tells
<1> QED
    BY <1>1, <1>2, <1>3, <1>4

-----------------------------------------------------------------------------
(* What holds of every behaviour *)

\* The invariant of a step, from one lemma an action.
LEMMA InvStep == IInv /\ [Next]_vars => IInv'
<1> SUFFICES ASSUME IInv, [Next]_vars PROVE IInv'
    OBVIOUS
<1>1. TypeOK'
    BY TypeStep DEF IInv
<1>2. CASE Next
    BY <1>1, <1>2, CreateRowKeeps, AskClickPayKeeps, StoreRefKeeps, LosePageKeeps, BankDecidesKeeps,
       CallBackKeeps, FindKeeps, VerifyKeeps, CompleteKeeps, CreditKeeps, FailKeeps, CutShortKeeps
       DEF Next
<1>3. CASE UNCHANGED vars
    BY <1>1, <1>3 DEF vars, rows, history, IInv, RowsHold, ReadsHold, AloneHolds, Alone, Deciding,
                      OutcomesAgree, Tells
<1> QED
    BY <1>2, <1>3

\* Rows and callbacks have their shape in every state (handleCallBack,
\* createHostedPaymentRequest), whatever the payments and however many callbacks.
THEOREM HostedPaymentTypes == Spec => []TypeOK
<1>1. Init => TypeOK
    BY InvInit DEF IInv
<1> QED
    BY <1>1, TypeStep, PTL DEF Spec

\* The invariant holds of every state.
LEMMA InvAlways == Spec => []IInv
    BY InvInit, InvStep, PTL DEF Spec

\* What a finished payment says is so (handleCallBack): a completed one is given to the
\* user unless a callback of it was cut short, and one whose money the bank took is
\* FAILED only if it had been COMPLETED.
THEOREM HostedPaymentOutcomes == Spec => []OutcomesAgree
<1>1. IInv => OutcomesAgree
    BY DEF IInv
<1> QED
    BY <1>1, InvAlways, PTL

-----------------------------------------------------------------------------
(* ClickPay implements HostedPayment *)

Stages == [p \in Payments |-> Stage(p)]

\* A step that changes the stage of one payment is a move of HostedPayment.
LEMMA OneMoves ==
    ASSUME NEW q \in Payments, NEW from, NEW to, from # to,
           Stage(q) = from, Stage(q)' = to,
           \A p \in Payments \ {q} : Stage(p)' = Stage(p)
    PROVE  HP!Move(q, from, to) /\ Stages' # Stages
<1>1. Stages[q] = from /\ Stages'[q] = to
    BY DEF Stages
<1>2. Stages' = [Stages EXCEPT ![q] = to]
    <2>1. \A p \in Payments : Stages'[p] = [Stages EXCEPT ![q] = to][p]
        BY DEF Stages
    <2>2. Stages' = [p \in Payments |-> Stages'[p]]
        BY DEF Stages
    <2>3. [Stages EXCEPT ![q] = to] = [p \in Payments |-> [Stages EXCEPT ![q] = to][p]]
        BY DEF Stages
    <2> QED
        BY <2>1, <2>2, <2>3
<1> QED
    BY <1>1, <1>2 DEF HP!Move, Stages

\* A step of ClickPay is a step of HostedPayment, or changes no stage.
LEMMA StageStep == IInv /\ IInv' /\ [Next]_vars => [HP!Next]_Stages
<1> SUFFICES ASSUME IInv, IInv', [Next]_vars PROVE HP!Next \/ UNCHANGED Stages
    BY DEF HP!Next, Stages
<1> USE DEF IInv, TypeOK, Decided
<1>u. ASSUME UNCHANGED <<bank, given, completed, overlapped>> PROVE UNCHANGED Stages
    BY <1>u DEF Stages, Stage
<1>1. ASSUME NEW p \in Payments, AskClickPay(p) \/ BankDecides(p)
      PROVE HP!Next \/ UNCHANGED Stages
    <2>1. /\ p \notin completed \cup overlapped /\ given[p] = 0 /\ bank[p] \notin Decided
          /\ bank' = [bank EXCEPT ![p] = bank'[p]]
          /\ bank'[p] \in Decided \cup {"open"}
          /\ UNCHANGED <<given, completed, overlapped>>
        BY <1>1 DEF AskClickPay, BankDecides, RowsHold, history
    <2>2. \A q \in Payments \ {p} : Stage(q)' = Stage(q)
        BY <2>1 DEF Stage
    <2>3. Stage(p) = "open" /\ Stage(p)' = bank'[p]
        BY <2>1 DEF Stage
    <2>4. CASE bank'[p] = "open"
        BY <2>2, <2>3, <2>4 DEF Stages
    <2>5. CASE bank'[p] = "authorised"
        BY <2>2, <2>3, <2>5, OneMoves DEF HP!Next, HP!Authorise, Stages
    <2>6. CASE bank'[p] = "declined"
        BY <2>2, <2>3, <2>6, OneMoves DEF HP!Next, HP!Decline, Stages
    <2> QED
        BY <2>1, <2>4, <2>5, <2>6
<1>2. ASSUME NEW c \in Handlers, Find(c) PROVE HP!Next \/ UNCHANGED Stages
    <2>0. PICK p \in Payments : p = cb[c].of
        BY <1>2 DEF Find
    <2>1. p \in Payments /\ UNCHANGED <<bank, given, completed>>
        BY <1>2 DEF Find
    <2>2. CASE UNCHANGED overlapped
        BY <1>u, <2>1, <2>2
    <2>3. CASE row[p].status = "PENDING" /\ p \notin overlapped /\ overlapped' = overlapped \cup {p}
        <3>1. p \notin completed /\ given[p] = 0 /\ bank[p] \in Decided
            BY <1>2, <2>0, <2>1, <2>3 DEF RowsHold, ReadsHold, Find
        <3>2. Stage(p) = bank[p] /\ Stage(p)' = "contended"
            BY <2>1, <2>3, <3>1 DEF Stage
        <3>3. \A q \in Payments \ {p} : Stage(q)' = Stage(q)
            BY <2>1, <2>3 DEF Stage
        <3>4. HP!Move(p, bank[p], "contended") /\ Stages' # Stages
            BY <2>1, <3>1, <3>2, <3>3, OneMoves
        <3> QED
            BY <2>1, <3>1, <3>4 DEF HP!Next, HP!Contend, Stages
    <2> QED
        BY <1>2, <2>0, <2>2, <2>3 DEF Find
<1>3. ASSUME NEW c \in Handlers, Complete(c) PROVE HP!Next \/ UNCHANGED Stages
    <2>0. PICK p \in Payments : p = cb[c].of
        BY <1>3 DEF Complete
    <2>1. p \in Payments /\ UNCHANGED <<bank, given, overlapped>> /\ completed' = completed \cup {p}
        BY <1>3, <2>0 DEF Complete, rows
    <2>2. \A q \in Payments \ {p} : Stage(q)' = Stage(q)
        BY <2>1 DEF Stage
    <2>3. CASE p \in overlapped
        <3>1. Stage(p)' = Stage(p)
            BY <2>1, <2>3 DEF Stage
        <3> QED
            BY <2>2, <3>1 DEF Stages
    <2>4. CASE p \notin overlapped
        <3>1. bank[p] = "authorised" /\ p \notin completed /\ given[p] = 0
            BY <1>3, <2>0, <2>1, <2>4 DEF RowsHold, ReadsHold, AloneHolds, Alone, Deciding, Complete
        <3>2. Stage(p) = "authorised" /\ Stage(p)' = "completed"
            BY <2>1, <2>4, <3>1 DEF Stage
        <3> QED
            BY <2>1, <2>2, <3>2, OneMoves DEF HP!Next, HP!Complete, Stages
    <2> QED
        BY <2>3, <2>4
<1>4. ASSUME NEW c \in Handlers, Credit(c) PROVE HP!Next \/ UNCHANGED Stages
    <2>0. PICK p \in Payments : p = cb[c].of
        BY <1>4 DEF Credit
    <2>1. /\ p \in Payments /\ UNCHANGED <<bank, completed, overlapped>>
          /\ given' = [given EXCEPT ![p] = given[p] + 1]
        BY <1>4, <2>0 DEF Credit, history
    <2>2. \A q \in Payments \ {p} : Stage(q)' = Stage(q)
        BY <2>1 DEF Stage
    <2>3. CASE p \in overlapped
        <3>1. Stage(p)' = Stage(p)
            BY <2>1, <2>3 DEF Stage
        <3> QED
            BY <2>2, <3>1 DEF Stages
    <2>4. CASE p \notin overlapped
        <3>1. p \in completed /\ given[p] = 0
            BY <1>4, <2>0, <2>1, <2>4 DEF ReadsHold, AloneHolds, Alone, Credit
        <3>2. Stage(p) = "completed" /\ Stage(p)' = "credited"
            BY <2>1, <2>4, <3>1 DEF Stage
        <3> QED
            BY <2>1, <2>2, <3>2, OneMoves DEF HP!Next, HP!Credit, Stages
    <2> QED
        BY <2>3, <2>4
<1>5. ASSUME NEW p \in Payments,
             CreateRow(p) \/ StoreRef(p) \/ LosePage(p) \/ \E c \in Handlers : CallBack(c, p)
      PROVE UNCHANGED Stages
    BY <1>u, <1>5 DEF CreateRow, StoreRef, LosePage, CallBack, history, rows
<1>6. ASSUME NEW c \in Handlers, Verify(c) \/ Fail(c) \/ CutShort(c) PROVE UNCHANGED Stages
    BY <1>u, <1>6 DEF Verify, Fail, CutShort, history, rows
<1>7. CASE UNCHANGED vars
    BY <1>u, <1>7 DEF vars, rows, history
<1> QED
    BY <1>1, <1>2, <1>3, <1>4, <1>5, <1>6, <1>7 DEF Next

\* However callbacks come and wherever handlers stop, a payment goes through the stages
\* of HostedPayment and never back (handleCallBack): the bank decides once, only an
\* authorised payment is completed, only a completed one is credited, and once, unless
\* two callbacks took it up together.
THEOREM HostedPaymentImplemented == Spec => HostedPaymentHolds
<1>1. Init => HP!Init
    BY DEF Init, HP!Init, Stage, Decided
<1>2. IInv /\ IInv' /\ [Next]_vars => [HP!Next]_[p \in Payments |-> Stage(p)]
    BY StageStep DEF Stages
<1> QED
    BY <1>1, <1>2, InvAlways, PTL DEF Spec, HostedPaymentHolds, HP!Spec
=============================================================================
