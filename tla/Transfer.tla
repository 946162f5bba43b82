------------------------------ MODULE Transfer ------------------------------
(***************************************************************************)
(* The wallet side of the payment service: payment-service TransferService.*)
(*                                                                         *)
(* A rider's trip is paid in two phases.  blockAmount debits the wallet    *)
(* and stores a "holdamount" row; updateBlockedAmount changes the held     *)
(* amount; confirmBlockedAmount keeps the money, releaseBlockedAmount puts *)
(* it back.  A "transactions" row per blockAmount call tells the later     *)
(* calls which hold belongs to a trip.  Top-ups (addBalance, the ClickPay  *)
(* callback) and subscription charges move the same wallet rows.           *)
(*                                                                         *)
(* Every handler awaits the database between the statements that read a    *)
(* row and the ones that write it back, takes no lock and opens no         *)
(* transaction, and the service runs in several replicas: so a request is  *)
(* a process that advances one database access at a time.                  *)
(*                                                                         *)
(* Amounts are whole numbers (the code keeps MySQL floats, two decimals).  *)
(***************************************************************************)
EXTENDS Integers, FiniteSets, Functions

CONSTANTS
    Users,      \* wallet owners (riders; captains for subscription charges)
    Trips,      \* trip ids a payment request can name
    RiderOf,    \* the rider of each trip: the senderId of its transactions
    Requests,   \* request ids; a request also names the hold and transaction
                \* rows it inserts, so its size bounds the requests of a run
    Amounts,    \* what a hold, a new held amount, a top-up or a charge can be
    Discounts,  \* promo discounts a confirmation can carry; 0 is none
    MaxInFlight,\* bound: how many requests are under way at once
    Opening,    \* the balance of each wallet at the start
    None        \* no trip, no row

ASSUME IdsAssumption ==
    /\ None \notin Users \cup Trips \cup Requests
    /\ RiderOf \in [Trips -> Users]

ASSUME AmountsAssumption ==
    /\ Amounts \subseteq Nat \ {0}
    /\ Discounts \subseteq Nat
    /\ Opening \in [Users -> Nat]

VARIABLES
    wallet,     \* wallet.balance of each user
    hold,       \* holdamount rows, by the request that inserted them
    tx,         \* transactions rows, by the request that inserted them
    req,        \* what each request asks, and the transaction row it picked
    pc,         \* where each request stands
    seen,       \* the balance it read
    delta,      \* the change it is going to make to that balance
    applied,    \* whether it has written the wallet
    clashed,    \* history: wallets two overlapping updates have touched
    tangled     \* history: trips with overlapping or interrupted payments

rows    == <<wallet, hold, tx>>
locals  == <<seen, delta, applied>>
history == <<clashed, tangled>>
vars    == <<rows, req, pc, locals, history>>

-----------------------------------------------------------------------------
(* Rows and requests *)

HoldStatus == {"none", "CREATE", "CONFIRM", "ROLLBACK"}
TxStatus   == {"none", "PENDING", "COMPLETED", "CANCELLED", "FAILED"}

NoHold == [status |-> "none", debit |-> 0]

\* "held" says that the row has a transactionId: the id of its hold.
NoTx == [status |-> "none", trip |-> None, held |-> FALSE]

SettleOps == {"update", "confirm", "release"}
TripOps   == {"block"} \cup SettleOps

Req(o, u, t, a, x) == [op |-> o, user |-> u, trip |-> t, amt |-> a, row |-> x]

NoReq == Req("none", None, None, 0, None)

\* Program counters.  "read" and "write" are updateWalletBlance's findOne and
\* update; "keep" is the write of the hold row; "record" that of the
\* transaction row; "fail" writes the transaction row of a refused request.
PCs == {"idle", "locate", "read", "write", "keep", "record", "fail", "done"}

InFlight(r) == pc[r] \notin {"idle", "done"}

GoTo(r, p) == pc' = [pc EXCEPT ![r] = p]

\* TransferHandler.prepareInput fills the parameters of a request from the
\* payload of the trips service; the amounts a trip can have are CONSTANTS.
Arrive(r, q, p, d) ==
    /\ pc[r] = "idle"
    /\ Cardinality({s \in Requests : InFlight(s)}) < MaxInFlight
    /\ req' = [req EXCEPT ![r] = q]
    /\ delta' = [delta EXCEPT ![r] = d]
    /\ GoTo(r, p)
    /\ UNCHANGED <<rows, seen, applied>>

\* The requests that may be holding a stale copy of user u's balance.
Writers(u) == {r \in Requests : pc[r] = "write" /\ req[r].user = u}

\* The settle requests under way for trip t.
Settlers(t) == {r \in Requests :
                    InFlight(r) /\ req[r].trip = t /\ req[r].op \in SettleOps}

\* transactionRepository.findOne({entityId, status: In([PENDING, FAILED])}).
\* There is no order clause: any of these rows may be the one returned.  (The
\* list of releaseBlockedAmount also has REFUNDED, which nothing writes.)
OpenTx(t) == {x \in Requests : tx[x].trip = t /\ tx[x].status \in {"PENDING", "FAILED"}}

-----------------------------------------------------------------------------
(* Arrivals: the first database access of each handler *)

\* blockAmount, up to the wallet reads of holdAmount.  holdAmount's own test of
\* the balance is the test of updateWalletBlance on an earlier read: a request
\* that fails either is one whose "read" step found too little.
BlockAmount(r, t, a) ==
    /\ Arrive(r, Req("block", RiderOf[t], t, a, None), "read", -a)
    /\ UNCHANGED history

\* updateBlockedAmount, confirmBlockedAmount and releaseBlockedAmount start by
\* picking the transaction of the trip.  No row at all, or a row left by a
\* refused hold (no transactionId), and they answer HOLD_TX_NOT_FOUND.
Settle(r, o, t, a) ==
    /\ \/ OpenTx(t) = {} /\ Arrive(r, Req(o, RiderOf[t], t, a, None), "done", 0)
       \/ \E x \in OpenTx(t) :
             Arrive(r, Req(o, RiderOf[t], t, a, x),
                    IF tx[x].held THEN "locate" ELSE "done", 0)
    /\ tangled' = IF Settlers(t) # {} THEN tangled \cup {t} ELSE tangled
    /\ UNCHANGED clashed

UpdateBlockedAmount(r, t, a)  == Settle(r, "update", t, a)
ConfirmBlockedAmount(r, t, d) == Settle(r, "confirm", t, d)
ReleaseBlockedAmount(r, t)    == Settle(r, "release", t, 0)

\* addBalance, and the wallet step of a ClickPay callback.
TopUp(r, u, a) ==
    /\ Arrive(r, Req("topUp", u, None, a, None), "read", a)
    /\ UNCHANGED history

\* addSubscriptionTransaction / createSubscriptionsTransaction.
SubscriptionCharge(r, u, a) ==
    /\ Arrive(r, Req("charge", u, None, a, None), "read", -a)
    /\ UNCHANGED history

-----------------------------------------------------------------------------
(* The hold row: holdUpdate, confirmAmount and rollBackAmount find it first *)

\* Mutant: the change of the balance with its sign swapped.
HoldUpdateReversed(r) ==
    /\ req[r].op = "update"
    /\ GoTo(r, "read")
    /\ delta' = [delta EXCEPT ![r] = req[r].amt - hold[req[r].row].debit]

HoldUpdate(r) ==
    /\ req[r].op = "update"
    /\ GoTo(r, "read")
    /\ delta' = [delta EXCEPT ![r] = hold[req[r].row].debit - req[r].amt]

ConfirmAmount(r) ==
    /\ req[r].op = "confirm"
    /\ GoTo(r, "keep")
    /\ UNCHANGED delta

RollBackAmount(r) ==
    /\ req[r].op = "release"
    /\ GoTo(r, "read")
    /\ delta' = [delta EXCEPT ![r] = hold[req[r].row].debit]

\* A hold that is no longer in CREATE answers HOLD_AMOUNT_ALREADY_PROCEED.
AlreadyProceed(r) == hold[req[r].row].status # "CREATE"

LocateHold(r) ==
    /\ pc[r] = "locate"
    /\ \/ AlreadyProceed(r) /\ GoTo(r, "fail") /\ UNCHANGED delta
       \/ ~AlreadyProceed(r) /\ (HoldUpdate(r) \/ ConfirmAmount(r) \/ RollBackAmount(r))
    /\ UNCHANGED <<rows, req, seen, applied, history>>

-----------------------------------------------------------------------------
(* updateWalletBlance: read the balance, write back an absolute value *)

\* Mutant: the balance comes from a copy made when the service started.
ReadBalanceCached(r) ==
    /\ pc[r] = "read"
    /\ GoTo(r, "write")
    /\ seen' = [seen EXCEPT ![r] = Opening[req[r].user]]
    /\ clashed' = IF Writers(req[r].user) # {}
                  THEN clashed \cup {req[r].user} ELSE clashed
    /\ UNCHANGED <<rows, req, delta, applied, tangled>>

ReadBalance(r) ==
    /\ pc[r] = "read"
    /\ GoTo(r, "write")
    /\ seen' = [seen EXCEPT ![r] = wallet[req[r].user]]
    /\ clashed' = IF Writers(req[r].user) # {}
                  THEN clashed \cup {req[r].user} ELSE clashed
    /\ UNCHANGED <<rows, req, delta, applied, tangled>>

\* Mutant: isTripEnd defaults to true.
IsTripEndByDefault(r) == req[r].op # "none"

\* The isTripEnd argument: only these calls may leave a wallet below zero.
IsTripEnd(r) == req[r].op \in {"update", "confirm"}

\* What a handler goes on to do once its wallet write is through.
AfterWrite(r) == IF req[r].op \in {"block", "update", "release"} THEN "keep"
                 ELSE IF req[r].op = "confirm" THEN "record" ELSE "done"

\* What it does when updateWalletBlance answers an error.  confirmBlockedAmount,
\* addBalance and the ClickPay callback do not look at that answer.
AfterRefusal(r) == IF req[r].op \in {"block", "update", "release"} THEN "fail"
                   ELSE IF req[r].op = "confirm" THEN "record" ELSE "done"

\* A request that is through with the wallet forgets what it had read.
Forget(r) == /\ seen' = [seen EXCEPT ![r] = 0]
             /\ delta' = [delta EXCEPT ![r] = 0]

WriteBalance(r) ==
    LET newBalance == seen[r] + delta[r]
    IN  /\ pc[r] = "write"
        /\ newBalance >= 0 \/ IsTripEnd(r)
        /\ wallet' = [wallet EXCEPT ![req[r].user] = newBalance]
        /\ applied' = [applied EXCEPT ![r] = TRUE]
        /\ GoTo(r, AfterWrite(r))
        /\ Forget(r)
        /\ UNCHANGED <<hold, tx, req, history>>

RefuseBalance(r) ==
    /\ pc[r] = "write"
    /\ seen[r] + delta[r] < 0
    /\ ~IsTripEnd(r)
    /\ GoTo(r, AfterRefusal(r))
    /\ Forget(r)
    /\ UNCHANGED <<rows, req, applied, history>>

-----------------------------------------------------------------------------
(* The write of the hold row, then of the transaction row *)

\* holdAmount inserts the row, holdUpdate stores the new amount and leaves the
\* status alone, confirmAmount and rollBackAmount store the status.
StoredHold(r) ==
    LET row == hold[req[r].row]
    IN  CASE req[r].op = "block"   -> [status |-> "CREATE", debit |-> req[r].amt]
          [] req[r].op = "update"  -> [status |-> row.status, debit |-> req[r].amt]
          [] req[r].op = "confirm" -> [status |-> "CONFIRM", debit |-> row.debit]
          [] OTHER                 -> [status |-> "ROLLBACK", debit |-> row.debit]

\* The hold and the transaction row a request writes: its own, or those it found.
RowOf(r) == IF req[r].op = "block" THEN r ELSE req[r].row

\* Only a confirmation with a discount still has a wallet write to do.
KeepHold(r) ==
    /\ pc[r] = "keep"
    /\ hold' = [hold EXCEPT ![RowOf(r)] = StoredHold(r)]
    /\ IF req[r].op = "confirm" /\ req[r].amt > 0
       THEN GoTo(r, "read") /\ delta' = [delta EXCEPT ![r] = req[r].amt]
       ELSE GoTo(r, "record") /\ UNCHANGED delta
    /\ UNCHANGED <<wallet, tx, req, seen, applied, history>>

\* Mutants: a release stores a status outside the enum; a confirmation leaves
\* the row open.
OutcomeUnknown(o) == IF o = "release" THEN "ROLLBACK" ELSE "PENDING"
OutcomeOpen(o)    == IF o = "release" THEN "CANCELLED" ELSE "PENDING"

\* The transaction status a successful request stores.
Outcome(o) == CASE o \in {"block", "update"} -> "PENDING"
                [] o = "confirm"             -> "COMPLETED"
                [] OTHER                     -> "CANCELLED"

StoredTx(r, status) ==
    [status |-> status, trip |-> req[r].trip,
     held   |-> IF req[r].op = "block" THEN status # "FAILED" ELSE tx[req[r].row].held]

RecordTx(r) ==
    /\ pc[r] = "record"
    /\ tx' = [tx EXCEPT ![RowOf(r)] = StoredTx(r, Outcome(req[r].op))]
    /\ GoTo(r, "done")
    /\ UNCHANGED <<wallet, hold, req, locals, history>>

\* A refused hold leaves a FAILED row without a transactionId; a refused
\* settlement marks the row it had picked, whatever became of it meanwhile.
RecordFailure(r) ==
    /\ pc[r] = "fail"
    /\ tx' = [tx EXCEPT ![RowOf(r)] = StoredTx(r, "FAILED")]
    /\ GoTo(r, "done")
    /\ UNCHANGED <<wallet, hold, req, locals, history>>

-----------------------------------------------------------------------------
(* Faults *)

Tangle(r) == tangled' = IF req[r].op \in TripOps THEN tangled \cup {req[r].trip} ELSE tangled

\* A database access of the wallet or of the hold row throws: the catch block
\* of updateWalletBlance, holdAmount, holdUpdate, confirmAmount or
\* rollBackAmount answers an error, and what was written before stays written.
StoreError(r) ==
    /\ pc[r] \in {"read", "write", "keep"}
    /\ GoTo(r, IF pc[r] = "keep" THEN "fail" ELSE AfterRefusal(r))
    /\ Forget(r)
    /\ Tangle(r)
    /\ UNCHANGED <<rows, req, applied, clashed>>

\* The replica serving the request is stopped; nothing resumes the request.
Die(r) ==
    /\ InFlight(r)
    /\ GoTo(r, "done")
    /\ Forget(r)
    /\ Tangle(r)
    /\ UNCHANGED <<rows, req, applied, clashed>>

-----------------------------------------------------------------------------
Init ==
    /\ wallet = Opening
    /\ hold = [r \in Requests |-> NoHold]
    /\ tx = [r \in Requests |-> NoTx]
    /\ req = [r \in Requests |-> NoReq]
    /\ pc = [r \in Requests |-> "idle"]
    /\ seen = [r \in Requests |-> 0]
    /\ delta = [r \in Requests |-> 0]
    /\ applied = [r \in Requests |-> FALSE]
    /\ clashed = {}
    /\ tangled = {}

Arrival(r) ==
    \/ \E t \in Trips, a \in Amounts : BlockAmount(r, t, a)
    \/ \E t \in Trips, a \in Amounts : UpdateBlockedAmount(r, t, a)
    \/ \E t \in Trips, d \in Discounts : ConfirmBlockedAmount(r, t, d)
    \/ \E t \in Trips : ReleaseBlockedAmount(r, t)
    \/ \E u \in Users, a \in Amounts : TopUp(r, u, a)
    \/ \E u \in Users, a \in Amounts : SubscriptionCharge(r, u, a)

Step(r) ==
    \/ LocateHold(r)
    \/ ReadBalance(r)
    \/ WriteBalance(r)
    \/ RefuseBalance(r)
    \/ KeepHold(r)
    \/ RecordTx(r)
    \/ RecordFailure(r)

Next == \E r \in Requests : Arrival(r) \/ Step(r) \/ StoreError(r) \/ Die(r)

Spec == Init /\ [][Next]_vars

-----------------------------------------------------------------------------
(* Properties *)

Request == [op : {"none", "block", "update", "confirm", "release", "topUp", "charge"},
            user : Users \cup {None}, trip : Trips \cup {None}, amt : Nat,
            row : Requests \cup {None}]

\* Type invariant: every row and request record has the shape the code gives it.
TypeOK ==
    /\ wallet \in [Users -> Int]
    /\ hold \in [Requests -> [status : HoldStatus, debit : Nat]]
    /\ tx \in [Requests -> [status : TxStatus, trip : Trips \cup {None}, held : BOOLEAN]]
    /\ req \in [Requests -> Request]
    /\ pc \in [Requests -> PCs]
    /\ seen \in [Requests -> Int]
    /\ delta \in [Requests -> Int]
    /\ applied \in [Requests -> BOOLEAN]
    /\ clashed \subseteq Users
    /\ tangled \subseteq Trips

\* What the status of a transaction says of the hold behind it.
HoldOf(status) == CASE status = "COMPLETED" -> "CONFIRM"
                    [] status = "CANCELLED" -> "ROLLBACK"
                    [] OTHER                -> "CREATE"

\* The transactions row, which every later call trusts, tells the truth about
\* the hold once no settlement of the trip is under way: a failed settlement,
\* too, leaves the money held and the row open for a retry.  It takes two
\* overlapping settlements of one trip, or one cut short, to make them differ.
TxAgreesWithHold ==
    \A x \in Requests :
        tx[x].held /\ tx[x].trip \notin tangled /\ Settlers(tx[x].trip) = {}
            => hold[x].status = HoldOf(tx[x].status)

\* updateWalletBlance writes an absolute balance it computed from an earlier
\* read.  Every write still moves the wallet by exactly the writer's amount,
\* as long as no second update of that wallet read inside the first one's gap.
NoLostUpdate ==
    [][\A u \in Users : wallet'[u] # wallet[u] /\ u \notin clashed'
           => \E r \in Writers(u) : wallet'[u] = wallet[u] + delta[r]]_vars

\* A wallet goes below zero only through the fare update at the end of a trip
\* (isTripEnd): whatever the interleaving, no hold, refund, top-up or charge
\* alone ever leaves a user in debt.
DebtOnlyFromTripEnd ==
    \A u \in Users : wallet[u] < 0 =>
        \E r \in Requests : req[r].op = "update" /\ req[r].user = u /\ applied[r]

\* What the requests of S asked for, and what their hold rows say.
Asked(S)   == SumFunctionOnSet([r \in Requests |-> req[r].amt], S)
Debited(S) == SumFunctionOnSet([r \in Requests |-> hold[r].debit], S)

\* The requests of user u that moved his wallet, and his money that is held or paid.
Applied(ops, u) == {r \in Requests : req[r].op \in ops /\ req[r].user = u /\ applied[r]}
Held(u) == {x \in Requests : req[x].user = u /\ hold[x].status \in {"CREATE", "CONFIRM"}}

\* No update of the wallet of u overlapped, and no payment of his trips did.
Unraced(u) == u \notin clashed /\ \A t \in tangled : RiderOf[t] # u

\* When nothing of user u is under way, the balance is the opening balance, plus
\* top-ups and discounts, less charges and whatever is held or paid: across all
\* the separate row writes of the handlers no money appears or vanishes, unless
\* two requests overlapped on the wallet or on a trip, or one was cut short.
BalanceSheet ==
    \A u \in Users :
        Unraced(u) /\ (\A r \in Requests : req[r].user = u => ~InFlight(r))
            => wallet[u] = Opening[u] + Asked(Applied({"topUp", "confirm"}, u))
                                      - Asked(Applied({"charge"}, u)) - Debited(Held(u))

\* HOLD_AMOUNT_ALREADY_PROCEED says that a hold is given back at most once.
RefundedOnce ==
    \A r, s \in Requests :
        /\ req[r].op = "release" /\ req[s].op = "release"
        /\ applied[r] /\ applied[s]
        /\ req[r].row = req[s].row
        => r = s

\* HOLD_TX_NOT_FOUND says that the trip has no hold to settle.
NotFoundMeansNoHold ==
    [][\A r \in Requests :
          pc[r] = "idle" /\ req'[r].op \in SettleOps /\ pc'[r] = "done"
            => \A x \in OpenTx(req'[r].trip) : ~tx[x].held]_vars
=============================================================================
