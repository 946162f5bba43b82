--------------------------- MODULE TransferProofs ---------------------------
(* What holds of Transfer for every set of users, trips, requests, amounts. *)
EXTENDS Transfer, Sums, TLAPS

\* The case split every step proof makes: who moves, and how.
Arrivals(r) ==
    \/ \E t \in Trips, a \in Amounts : BlockAmount(r, t, a)
    \/ \E o \in SettleOps, t \in Trips, a \in Nat : Settle(r, o, t, a)
    \/ \E u \in Users, a \in Amounts : TopUp(r, u, a)
    \/ \E u \in Users, a \in Amounts : SubscriptionCharge(r, u, a)

\* Every step of the specification is one of the cases the proofs below treat.
LEMMA StepCases ==
    ASSUME Next
    PROVE  \E r \in Requests : Arrivals(r) \/ Step(r) \/ StoreError(r) \/ Die(r)
<1>1. PICK r \in Requests : Arrival(r) \/ Step(r) \/ StoreError(r) \/ Die(r)
  BY DEF Next
<1>2. ASSUME Arrival(r) PROVE Arrivals(r)
  BY <1>2, AmountsAssumption
     DEF Arrival, Arrivals, UpdateBlockedAmount, ConfirmBlockedAmount,
         ReleaseBlockedAmount, SettleOps
<1>. QED BY <1>1, <1>2

\* An arrival starts an idle request and leaves everything else alone, but for
\* the note that its trip is being settled twice at once.
LEMMA ArrivalFrame ==
    ASSUME TypeOK, NEW r \in Requests, Arrivals(r)
    PROVE  /\ pc[r] = "idle" /\ pc'[r] # "write"
           /\ UNCHANGED <<rows, seen, applied, clashed>>
           /\ \A s \in Requests \ {r} : pc'[s] = pc[s] /\ req'[s] = req[s]
           /\ tangled \subseteq tangled'
<1> DEFINE Frame == /\ pc[r] = "idle" /\ pc'[r] # "write"
                    /\ UNCHANGED <<rows, seen, applied>>
                    /\ \A s \in Requests \ {r} : pc'[s] = pc[s] /\ req'[s] = req[s]
<1>1. ASSUME NEW q, NEW p \in {"read", "locate", "done"}, NEW d, Arrive(r, q, p, d)
      PROVE  Frame
  BY <1>1 DEF Arrive, GoTo, TypeOK
<1>. HIDE DEF Frame
<1>2. Frame
  <2>1. ASSUME NEW t \in Trips, NEW a \in Amounts, BlockAmount(r, t, a) PROVE Frame
    BY <1>1, <2>1 DEF BlockAmount
  <2>2. ASSUME NEW o \in SettleOps, NEW t \in Trips, NEW a \in Nat, Settle(r, o, t, a)
        PROVE  Frame
    BY <1>1, <2>2 DEF Settle
  <2>3. ASSUME NEW u \in Users, NEW a \in Amounts, TopUp(r, u, a) \/ SubscriptionCharge(r, u, a)
        PROVE  Frame
    BY <1>1, <2>3 DEF TopUp, SubscriptionCharge
  <2>. QED BY <2>1, <2>2, <2>3 DEF Arrivals
<1>3. UNCHANGED clashed /\ tangled \subseteq tangled'
  BY DEF Arrivals, BlockAmount, Settle, TopUp, SubscriptionCharge, history
<1>. QED BY <1>2, <1>3 DEF Frame

-----------------------------------------------------------------------------
(* Well-formed requests and rows *)

\* What a request at each place must have: a wallet, a trip if it is about one,
\* and, if it is settling, the row it picked, which stays that trip's.
WellFormed(r) ==
    /\ pc[r] # "idle" => req[r].user \in Users /\ req[r].op # "none"
    /\ pc[r] = "idle" => ~applied[r]
    /\ req[r].op \in TripOps => req[r].trip \in Trips
    /\ pc[r] \in {"locate", "keep", "record", "fail"} => req[r].op \in TripOps
    /\ pc[r] = "locate" => req[r].op \in SettleOps
    /\ InFlight(r) /\ req[r].op \in SettleOps =>
         /\ req[r].row \in Requests
         /\ tx[req[r].row].held
         /\ tx[req[r].row].trip = req[r].trip
    /\ req[r].op = "confirm" /\ pc[r] \in {"read", "write"} => delta[r] >= 0

\* A row with a hold was inserted by a blockAmount that has returned, and a
\* blockAmount about to insert one has made the hold.
Inserted(x) ==
    /\ tx[x].held => /\ tx[x].status # "none"
                     /\ req[x].op = "block" /\ pc[x] = "done"
                     /\ req[x].trip = tx[x].trip
    /\ req[x].op = "block" /\ pc[x] = "record" => hold[x].status = "CREATE"

Shape == \A r \in Requests : WellFormed(r) /\ Inserted(r)

\* Type correctness and shape are inductive together: each handler writes
\* well-formed rows because it works on the rows it has found.
LEMMA ShapeStep ==
    ASSUME TypeOK, Shape, [Next]_vars
    PROVE  TypeOK' /\ Shape'
<1>. USE IdsAssumption, AmountsAssumption
<1>1. CASE UNCHANGED vars
  BY <1>1 DEF vars, rows, locals, history, TypeOK, Shape, WellFormed, Inserted, InFlight
<1>2. ASSUME NEW r \in Requests, Arrivals(r) PROVE TypeOK' /\ Shape'
  <2>1. ASSUME NEW t \in Trips, NEW a \in Amounts, BlockAmount(r, t, a)
        PROVE TypeOK' /\ Shape'
    <3>1. TypeOK'
      BY <2>1 DEF TypeOK, BlockAmount, Arrive, GoTo, Req, Request, PCs, SettleOps, rows, history
    <3>2. Shape'
      BY <2>1 DEF TypeOK, Shape, WellFormed, Inserted, InFlight, BlockAmount, Arrive, GoTo,
         Req, Request, TripOps, SettleOps, rows, history
    <3>. QED BY <3>1, <3>2
  <2>2. ASSUME NEW o \in SettleOps, NEW t \in Trips, NEW a \in Nat, Settle(r, o, t, a)
        PROVE TypeOK' /\ Shape'
    <3>1. PICK x \in Requests \cup {None}, p \in {"locate", "done"} :
             /\ Arrive(r, Req(o, RiderOf[t], t, a, x), p, 0)
             /\ p = "locate" => x \in Requests /\ tx[x].held /\ tx[x].trip = t
      BY <2>2 DEF Settle, OpenTx
    <3>2. UNCHANGED <<rows, seen, applied>>
      BY <3>1 DEF Arrive
    <3>3. TypeOK'
      BY <2>2, <3>1, <3>2 DEF TypeOK, Settle, Arrive, GoTo, Req, Request, PCs, SettleOps, rows
    <3>4. \A q \in Requests : WellFormed(q)'
      BY <3>1, <3>2 DEF TypeOK, Shape, WellFormed, InFlight, Arrive, GoTo,
         Req, Request, TripOps, SettleOps, rows
    <3>5. \A q \in Requests : Inserted(q)'
      BY <3>1, <3>2 DEF TypeOK, Shape, Inserted, Arrive, GoTo,
         Req, Request, TripOps, SettleOps, rows
    <3>. QED BY <3>3, <3>4, <3>5 DEF Shape
  <2>3. ASSUME NEW u \in Users, NEW a \in Amounts, TopUp(r, u, a)
        PROVE TypeOK' /\ Shape'
    <3>1. TypeOK'
      BY <2>3 DEF TypeOK, TopUp, Arrive, GoTo, Req, Request, PCs, SettleOps, rows, history
    <3>2. Shape'
      BY <2>3 DEF TypeOK, Shape, WellFormed, Inserted, InFlight, TopUp, Arrive, GoTo,
         Req, Request, TripOps, SettleOps, rows, history
    <3>. QED BY <3>1, <3>2
  <2>4. ASSUME NEW u \in Users, NEW a \in Amounts, SubscriptionCharge(r, u, a)
        PROVE TypeOK' /\ Shape'
    <3>1. TypeOK'
      BY <2>4 DEF TypeOK, SubscriptionCharge, Arrive, GoTo, Req, Request, PCs, SettleOps, rows, history
    <3>2. Shape'
      BY <2>4 DEF TypeOK, Shape, WellFormed, Inserted, InFlight, SubscriptionCharge, Arrive, GoTo,
         Req, Request, TripOps, SettleOps, rows, history
    <3>. QED BY <3>1, <3>2
  <2>. QED BY <1>2, <2>1, <2>2, <2>3, <2>4 DEF Arrivals
<1>3. ASSUME NEW r \in Requests, LocateHold(r) PROVE TypeOK' /\ Shape'
  <2>1. TypeOK'
    <3>1. req[r].row \in Requests /\ hold[req[r].row].debit \in Nat /\ req[r].amt \in Nat
      BY <1>3 DEF TypeOK, Shape, WellFormed, InFlight, LocateHold, Request
    <3>2. pc' \in [Requests -> PCs]
      BY <1>3 DEF TypeOK, LocateHold, HoldUpdate, ConfirmAmount, RollBackAmount, GoTo, PCs
    <3>3. delta' \in [Requests -> Int]
      BY <1>3, <3>1 DEF TypeOK, LocateHold, HoldUpdate, ConfirmAmount, RollBackAmount
    <3>. QED BY <1>3, <3>2, <3>3 DEF TypeOK, LocateHold, rows, history
  <2>2. Shape'
    BY <1>3 DEF TypeOK, Shape, WellFormed, Inserted, InFlight, GoTo, LocateHold, AlreadyProceed, HoldUpdate, ConfirmAmount, RollBackAmount,
       Request, TripOps, SettleOps, rows, locals, history
  <2>. QED BY <2>1, <2>2
<1>4. ASSUME NEW r \in Requests, ReadBalance(r) PROVE TypeOK' /\ Shape'
  <2>1. TypeOK'
    BY <1>4 DEF TypeOK, Shape, WellFormed, ReadBalance, GoTo, PCs, rows
  <2>2. Shape'
    BY <1>4 DEF TypeOK, Shape, WellFormed, Inserted, InFlight, GoTo, ReadBalance,
       Request, TripOps, SettleOps, rows, locals, history
  <2>. QED BY <2>1, <2>2
<1>5. ASSUME NEW r \in Requests, WriteBalance(r) PROVE TypeOK' /\ Shape'
  <2>1. TypeOK'
    BY <1>5 DEF TypeOK, Shape, WellFormed, WriteBalance, GoTo, PCs, AfterWrite, Forget, history
  <2>2. Shape'
    BY <1>5 DEF TypeOK, Shape, WellFormed, Inserted, InFlight, GoTo, WriteBalance, AfterWrite, IsTripEnd, Forget,
       Request, TripOps, SettleOps, rows, locals, history
  <2>. QED BY <2>1, <2>2
<1>6. ASSUME NEW r \in Requests, RefuseBalance(r) PROVE TypeOK' /\ Shape'
  <2>1. TypeOK'
    BY <1>6 DEF TypeOK, RefuseBalance, GoTo, PCs, AfterRefusal, Forget, rows, history
  <2>2. Shape'
    BY <1>6 DEF TypeOK, Shape, WellFormed, Inserted, InFlight, GoTo, RefuseBalance, AfterRefusal, IsTripEnd, Forget,
       Request, TripOps, SettleOps, rows, locals, history
  <2>. QED BY <2>1, <2>2
<1>7. ASSUME NEW r \in Requests, KeepHold(r) PROVE TypeOK' /\ Shape'
  <2>1. TypeOK'
    <3>1. RowOf(r) \in Requests
      BY <1>7 DEF TypeOK, Shape, WellFormed, InFlight, KeepHold, RowOf, Request,
         TripOps, SettleOps
    <3>2. StoredHold(r) \in [status : HoldStatus, debit : Nat]
      BY <1>7, <3>1 DEF TypeOK, StoredHold, RowOf, Request, HoldStatus
    <3>3. hold' \in [Requests -> [status : HoldStatus, debit : Nat]]
      BY <1>7, <3>2 DEF TypeOK, KeepHold
    <3>4. pc' \in [Requests -> PCs] /\ delta' \in [Requests -> Int]
      <4>1. CASE req[r].op = "confirm" /\ req[r].amt > 0
        <5>1. req[r].amt \in Nat
          BY DEF TypeOK, Request
        <5>2. pc' = [pc EXCEPT ![r] = "read"] /\ delta' = [delta EXCEPT ![r] = req[r].amt]
          BY <1>7, <4>1 DEF KeepHold, GoTo
        <5>. QED BY <5>1, <5>2 DEF TypeOK, PCs
      <4>2. CASE ~(req[r].op = "confirm" /\ req[r].amt > 0)
        BY <1>7, <4>2 DEF TypeOK, KeepHold, GoTo, PCs
      <4>. QED BY <4>1, <4>2
    <3>. QED BY <1>7, <3>3, <3>4 DEF TypeOK, KeepHold, history
  <2>2. Shape'
    BY <1>7 DEF TypeOK, Shape, WellFormed, Inserted, InFlight, GoTo, KeepHold, StoredHold, RowOf,
       Request, TripOps, SettleOps, rows, locals, history
  <2>. QED BY <2>1, <2>2
<1>8. ASSUME NEW r \in Requests, RecordTx(r) PROVE TypeOK' /\ Shape'
  <2>1. TypeOK'
    <3>1. req[r].trip \in Trips /\ RowOf(r) \in Requests
      BY <1>8 DEF Shape, WellFormed, InFlight, RecordTx, RowOf, TripOps
    <3>2. Outcome(req[r].op) \in TxStatus
      BY DEF TxStatus, Outcome
    <3>3. StoredTx(r, Outcome(req[r].op)) \in
            [status : TxStatus, trip : Trips \cup {None}, held : BOOLEAN]
      BY <3>1, <3>2 DEF TypeOK, StoredTx, RowOf
    <3>4. tx' \in [Requests -> [status : TxStatus, trip : Trips \cup {None}, held : BOOLEAN]]
      BY <1>8, <3>3 DEF TypeOK, RecordTx
    <3>5. pc' \in [Requests -> PCs]
      BY <1>8 DEF TypeOK, RecordTx, GoTo, PCs
    <3>. QED BY <1>8, <3>4, <3>5 DEF TypeOK, RecordTx, locals, history
  <2>2. Shape'
    BY <1>8 DEF TypeOK, Shape, WellFormed, Inserted, InFlight, GoTo, RecordTx, Outcome, StoredTx, RowOf,
       Request, TripOps, SettleOps, rows, locals, history
  <2>. QED BY <2>1, <2>2
<1>9. ASSUME NEW r \in Requests, RecordFailure(r) PROVE TypeOK' /\ Shape'
  <2>1. TypeOK'
    <3>1. req[r].trip \in Trips /\ RowOf(r) \in Requests
      BY <1>9 DEF Shape, WellFormed, InFlight, RecordFailure, RowOf, TripOps
    <3>2. "FAILED" \in TxStatus
      BY DEF TxStatus
    <3>3. StoredTx(r, "FAILED") \in
            [status : TxStatus, trip : Trips \cup {None}, held : BOOLEAN]
      BY <3>1, <3>2 DEF TypeOK, StoredTx, RowOf
    <3>4. tx' \in [Requests -> [status : TxStatus, trip : Trips \cup {None}, held : BOOLEAN]]
      BY <1>9, <3>3 DEF TypeOK, RecordFailure
    <3>5. pc' \in [Requests -> PCs]
      BY <1>9 DEF TypeOK, RecordFailure, GoTo, PCs
    <3>. QED BY <1>9, <3>4, <3>5 DEF TypeOK, RecordFailure, locals, history
  <2>2. Shape'
    BY <1>9 DEF TypeOK, Shape, WellFormed, Inserted, InFlight, GoTo, RecordFailure, StoredTx, RowOf,
       Request, TripOps, SettleOps, rows, locals, history
  <2>. QED BY <2>1, <2>2
<1>10. ASSUME NEW r \in Requests, StoreError(r) PROVE TypeOK' /\ Shape'
  <2>1. TypeOK'
    <3>1. tangled' \subseteq Trips
      BY <1>10 DEF TypeOK, StoreError, Tangle, Shape, WellFormed
    <3>2. pc' \in [Requests -> PCs]
      BY <1>10 DEF TypeOK, StoreError, GoTo, PCs, AfterRefusal
    <3>3. seen' \in [Requests -> Int] /\ delta' \in [Requests -> Int]
      BY <1>10 DEF TypeOK, StoreError, Forget
    <3>. QED BY <1>10, <3>1, <3>2, <3>3 DEF TypeOK, StoreError, rows
  <2>2. Shape'
    BY <1>10 DEF TypeOK, Shape, WellFormed, Inserted, InFlight, GoTo, StoreError, AfterRefusal, Tangle, Forget,
       Request, TripOps, SettleOps, rows, locals, history
  <2>. QED BY <2>1, <2>2
<1>11. ASSUME NEW r \in Requests, Die(r) PROVE TypeOK' /\ Shape'
  <2>1. TypeOK'
    <3>1. tangled' \subseteq Trips
      BY <1>11 DEF TypeOK, Die, Tangle, Shape, WellFormed
    <3>2. pc' \in [Requests -> PCs]
      BY <1>11 DEF TypeOK, Die, GoTo, PCs
    <3>3. seen' \in [Requests -> Int] /\ delta' \in [Requests -> Int]
      BY <1>11 DEF TypeOK, Die, Forget
    <3>. QED BY <1>11, <3>1, <3>2, <3>3 DEF TypeOK, Die, rows
  <2>2. Shape'
    BY <1>11 DEF TypeOK, Shape, WellFormed, Inserted, InFlight, GoTo, Die, Tangle, Forget,
       Request, TripOps, SettleOps, rows, locals, history
  <2>. QED BY <2>1, <2>2
<1>. QED BY StepCases, <1>1, <1>2, <1>3, <1>4, <1>5, <1>6, <1>7, <1>8, <1>9, <1>10, <1>11 DEF Step

-----------------------------------------------------------------------------
(* The wallet: who may write it, and from which balance *)

\* On a wallet no two updates have overlapped on, at most one request stands
\* between its read and its write, and what it has read is the balance.
WalletInv ==
    \A u \in Users : u \notin clashed =>
        \A r \in Writers(u) : /\ seen[r] = wallet[u]
                              /\ \A s \in Writers(u) : s = r

\* The fare update of some trip of user u has been through.
FareUpdated(u) ==
    \E r \in Requests : req[r].op = "update" /\ req[r].user = u /\ applied[r]

\* A negative balance, in the row or in the hands of a request that has read
\* it, is always the trace of such an update.
DebtInv ==
    \A u \in Users :
        (wallet[u] < 0 \/ \E r \in Writers(u) : seen[r] < 0) => FareUpdated(u)

\* The two wallet invariants survive every step.
LEMMA WalletStep ==
    ASSUME TypeOK, Shape, WalletInv, DebtInv, [Next]_vars
    PROVE  WalletInv' /\ DebtInv'
<1>. USE IdsAssumption, AmountsAssumption
<1>1. CASE UNCHANGED vars
  BY <1>1 DEF vars, rows, locals, history, WalletInv, DebtInv, Writers, FareUpdated
<1>2. ASSUME NEW r \in Requests, Arrivals(r) PROVE WalletInv' /\ DebtInv'
  <2>1. /\ pc[r] = "idle"
        /\ UNCHANGED <<wallet, seen, applied, clashed>>
        /\ pc'[r] # "write"
        /\ \A q \in Requests \ {r} : pc'[q] = pc[q] /\ req'[q] = req[q]
    BY <1>2, ArrivalFrame DEF rows
  <2>2. \A u \in Users : Writers(u)' = Writers(u)
    BY <2>1 DEF Writers
  <2>3. \A u \in Users : FareUpdated(u) => FareUpdated(u)'
    BY <2>1 DEF FareUpdated, Shape, WellFormed
  <2>4. WalletInv'
    BY <2>1, <2>2 DEF WalletInv
  <2>. QED BY <2>1, <2>2, <2>3, <2>4 DEF DebtInv
<1>3. ASSUME NEW r \in Requests, ReadBalance(r) PROVE WalletInv' /\ DebtInv'
  <2>1. req[r].user \in Users
    BY <1>3 DEF Shape, WellFormed, ReadBalance
  <2>2. \A u \in Users : Writers(u)' = IF u = req[r].user THEN Writers(u) \cup {r}
                                       ELSE Writers(u)
    BY <1>3 DEF Writers, ReadBalance, GoTo, TypeOK
  <2>3. /\ UNCHANGED <<wallet, req, applied>>
        /\ seen' = [seen EXCEPT ![r] = wallet[req[r].user]]
    BY <1>3 DEF ReadBalance, rows
  <2>4. WalletInv'
    <3>. SUFFICES ASSUME NEW u \in Users, u \notin clashed'
                  PROVE  \A q \in Writers(u)' : /\ seen'[q] = wallet'[u]
                                                /\ \A s \in Writers(u)' : s = q
      BY DEF WalletInv
    <3>1. CASE u = req[r].user
      BY <1>3, <2>2, <2>3, <3>1 DEF WalletInv, ReadBalance, TypeOK
    <3>2. CASE u # req[r].user
      <4>1. u \notin clashed /\ Writers(u)' = Writers(u) /\ r \notin Writers(u)
        BY <1>3, <2>2, <3>2 DEF ReadBalance, Writers
      <4>. QED BY <2>3, <4>1 DEF WalletInv, TypeOK, Writers
    <3>. QED BY <3>1, <3>2
  <2>5. DebtInv'
    <3>. SUFFICES ASSUME NEW u \in Users, wallet'[u] < 0 \/ \E q \in Writers(u)' : seen'[q] < 0
                  PROVE  FareUpdated(u)
      BY <2>3 DEF DebtInv, FareUpdated
    <3>1. wallet[u] < 0 \/ \E q \in Writers(u) : seen[q] < 0
      BY <2>2, <2>3 DEF TypeOK, Writers
    <3>. QED BY <3>1 DEF DebtInv
  <2>. QED BY <2>4, <2>5
<1>4. ASSUME NEW r \in Requests, WriteBalance(r) PROVE WalletInv' /\ DebtInv'
  <2> DEFINE u == req[r].user
  <2>1. u \in Users /\ r \in Writers(u) /\ seen[r] \in Int /\ delta[r] \in Int
    BY <1>4 DEF Shape, WellFormed, WriteBalance, Writers, TypeOK
  <2>2. pc'[r] # "write" /\ \A q \in Requests \ {r} : pc'[q] = pc[q]
    BY <1>4 DEF WriteBalance, GoTo, AfterWrite, TypeOK
  <2>3. \A v \in Users : Writers(v)' = Writers(v) \ {r}
    BY <1>4, <2>2 DEF Writers, WriteBalance
  <2>4. WalletInv'
    BY <1>4, <2>1, <2>3 DEF WalletInv, WriteBalance, TypeOK, Forget, history
  <2>5. \A v \in Users : FareUpdated(v) => FareUpdated(v)'
    BY <1>4 DEF FareUpdated, WriteBalance, TypeOK
  <2>6. ASSUME seen[r] + delta[r] < 0 PROVE FareUpdated(u)'
    <3>1. CASE req[r].op = "update"
      BY <1>4, <3>1 DEF FareUpdated, WriteBalance, TypeOK
    <3>2. CASE req[r].op = "confirm"
      <4>1. delta[r] >= 0
        BY <1>4, <3>2 DEF Shape, WellFormed, WriteBalance
      <4>2. seen[r] < 0
        BY <2>1, <2>6, <4>1
      <4>3. FareUpdated(u)
        BY <2>1, <4>2 DEF DebtInv
      <4>4. FareUpdated(u)' <=> \E q \in Requests :
                 req[q].op = "update" /\ req[q].user = u /\ applied'[q]
        BY <1>4 DEF FareUpdated, WriteBalance
      <4>. QED BY <1>4, <4>3, <4>4 DEF FareUpdated, WriteBalance, TypeOK
    <3>. QED BY <1>4, <2>1, <2>6, <3>1, <3>2 DEF WriteBalance, IsTripEnd
  <2>7. DebtInv'
    BY <1>4, <2>1, <2>3, <2>5, <2>6 DEF DebtInv, WriteBalance, TypeOK, Forget
  <2>. QED BY <2>4, <2>7
<1>5. ASSUME NEW r \in Requests,
             \/ LocateHold(r) \/ RefuseBalance(r) \/ KeepHold(r) \/ RecordTx(r)
             \/ RecordFailure(r) \/ StoreError(r) \/ Die(r)
      PROVE WalletInv' /\ DebtInv'
  <2>1. UNCHANGED <<wallet, req, applied, clashed>>
    BY <1>5 DEF LocateHold, RefuseBalance, KeepHold, RecordTx, RecordFailure,
       StoreError, Die, rows, locals, history
  <2>2. pc'[r] # "write" /\ \A q \in Requests \ {r} : pc'[q] = pc[q] /\ seen'[q] = seen[q]
    BY <1>5 DEF LocateHold, HoldUpdate, ConfirmAmount, RollBackAmount, RefuseBalance,
       AfterRefusal, KeepHold, RecordTx, RecordFailure, StoreError, Die, Forget, GoTo,
       TypeOK, locals
  <2>3. \A u \in Users : Writers(u)' = Writers(u) \ {r}
    BY <2>1, <2>2 DEF Writers
  <2>. QED BY <2>1, <2>2, <2>3 DEF WalletInv, DebtInv, FareUpdated, Writers
<1>. QED BY StepCases, <1>1, <1>2, <1>3, <1>4, <1>5 DEF Step

-----------------------------------------------------------------------------
(* The trip: transaction row and hold row *)

\* A settlement under way on a trip whose settlements never overlapped.
Undisturbed(r) ==
    InFlight(r) /\ req[r].op \in SettleOps /\ req[r].trip \notin tangled

\* The status of the hold while request r is settling it.
Phase(r) ==
    IF pc[r] = "record" THEN HoldOf(Outcome(req[r].op))
    ELSE IF req[r].op = "confirm" /\ pc[r] \in {"read", "write"} THEN "CONFIRM"
    ELSE "CREATE"

\* An undisturbed settlement is the only one of its trip, its row is open, and
\* the hold is where its own progress has put it.
SettleInv ==
    \A r \in Requests : Undisturbed(r) =>
        /\ \A s \in Settlers(req[r].trip) : s = r
        /\ tx[req[r].row].status \in {"PENDING", "FAILED"}
        /\ hold[req[r].row].status = Phase(r)

\* Every row of an untangled trip that is not being settled tells the truth.
AgreeInv ==
    \A x \in Requests :
        /\ tx[x].held
        /\ tx[x].trip \notin tangled
        /\ \A r \in Settlers(tx[x].trip) : req[r].row # x
        => hold[x].status = HoldOf(tx[x].status)

TripInv == SettleInv /\ AgreeInv

\* A new settlement either finds its trip free, and a hold it can trust, or
\* tangles the trip; no other arrival touches a trip's rows.
LEMMA TripArrival ==
    ASSUME TypeOK, Shape, TripInv, NEW r \in Requests, Arrivals(r), Shape'
    PROVE  TripInv'
<1>. USE IdsAssumption, AmountsAssumption
<1>1. /\ pc[r] = "idle" /\ UNCHANGED rows
      /\ \A q \in Requests \ {r} : pc'[q] = pc[q] /\ req'[q] = req[q]
      /\ tangled \subseteq tangled'
  BY ArrivalFrame
<1>2. ASSUME NEW q \in Requests, q # r
      PROVE  /\ InFlight(q)' <=> InFlight(q)
             /\ Phase(q)' = Phase(q)
             /\ \A v \in Trips \cup {None} : q \in Settlers(v)' <=> q \in Settlers(v)
  BY <1>1, <1>2 DEF InFlight, Phase, Settlers
<1>3. \A v \in Trips \cup {None} : r \notin Settlers(v)
  BY <1>1 DEF Settlers, InFlight
<1>4. ASSUME \A v \in Trips \cup {None} : r \notin Settlers(v)', ~Undisturbed(r)'
      PROVE  TripInv'
  <2>1. \A v \in Trips \cup {None} : Settlers(v)' = Settlers(v)
    BY <1>2, <1>3, <1>4 DEF Settlers
  <2>2. ASSUME NEW q \in Requests, Undisturbed(q)'
        PROVE  /\ \A s \in Settlers(req[q].trip)' : s = q
               /\ tx[req[q].row].status \in {"PENDING", "FAILED"}
               /\ hold[req[q].row].status = Phase(q)
               /\ q # r
    <3>1. q # r
      BY <1>4, <2>2
    <3>2. Undisturbed(q) /\ req[q].trip \in Trips
      BY <1>1, <1>2, <2>2, <3>1 DEF Undisturbed, Shape, WellFormed, TripOps
    <3>3. req'[q] = req[q]
      BY <1>1, <3>1
    <3>. QED BY <2>1, <3>1, <3>2, <3>3 DEF TripInv, SettleInv
  <2>3. SettleInv'
    BY <1>1, <1>2, <2>2 DEF SettleInv, rows
  <2>4. ASSUME NEW v \in Trips \cup {None}, NEW q \in Settlers(v)
        PROVE  req'[q].row = req[q].row /\ q \in Settlers(v)'
    BY <1>1, <1>3, <2>1, <2>4 DEF Settlers
  <2>5. \A y \in Requests : tx[y].trip \in Trips \cup {None}
    BY DEF TypeOK
  <2>6. AgreeInv'
    BY <1>1, <2>4, <2>5 DEF TripInv, AgreeInv, rows
  <2>. QED BY <2>3, <2>6 DEF TripInv
<1>5. ASSUME NEW t \in Trips, NEW a \in Amounts, BlockAmount(r, t, a) PROVE TripInv'
  <2>1. req'[r].op = "block"
    BY <1>5 DEF BlockAmount, Arrive, Req, TypeOK
  <2>. QED BY <1>4, <2>1 DEF Settlers, Undisturbed, SettleOps
<1>6. ASSUME NEW u \in Users, NEW a \in Amounts,
             TopUp(r, u, a) \/ SubscriptionCharge(r, u, a)
      PROVE TripInv'
  <2>1. req'[r].op \in {"topUp", "charge"}
    BY <1>6 DEF TopUp, SubscriptionCharge, Arrive, Req, TypeOK
  <2>. QED BY <1>4, <2>1 DEF Settlers, Undisturbed, SettleOps
<1>7. ASSUME NEW o \in SettleOps, NEW t \in Trips, NEW a \in Nat, Settle(r, o, t, a)
      PROVE TripInv'
  <2>1. PICK x \in Requests \cup {None}, p \in {"locate", "done"} :
           /\ Arrive(r, Req(o, RiderOf[t], t, a, x), p, 0)
           /\ p = "locate" => x \in OpenTx(t) /\ tx[x].held
    BY <1>7 DEF Settle, OpenTx
  <2>2. /\ pc'[r] = p /\ req'[r].op = o /\ req'[r].trip = t /\ req'[r].row = x
        /\ tangled' = IF Settlers(t) # {} THEN tangled \cup {t} ELSE tangled
    BY <1>7, <2>1 DEF Settle, Arrive, GoTo, Req, TypeOK
  <2>3. CASE p = "done"
    BY <1>4, <2>2, <2>3 DEF Settlers, Undisturbed, InFlight
  <2>4. CASE p = "locate"
    <3>1. Settlers(t)' = Settlers(t) \cup {r}
      BY <1>2, <2>2, <2>4 DEF Settlers, InFlight
    <3>2. \A v \in Trips \cup {None} : v # t => Settlers(v)' = Settlers(v)
      BY <1>2, <1>3, <2>2 DEF Settlers
    <3>3. ASSUME NEW q \in Requests, q # r, Undisturbed(q)'
          PROVE  /\ \A s \in Settlers(req[q].trip)' : s = q
                 /\ tx[req[q].row].status \in {"PENDING", "FAILED"}
                 /\ hold[req[q].row].status = Phase(q)
      <4>1. Undisturbed(q) /\ req[q].trip \in Trips /\ q \in Settlers(req[q].trip)
        BY <1>1, <1>2, <3>3 DEF Undisturbed, Shape, WellFormed, Settlers, TripOps
      <4>2. req[q].trip # t
        BY <1>1, <2>2, <3>3, <4>1 DEF Undisturbed
      <4>3. req'[q] = req[q]
        BY <1>1, <3>3
      <4>. QED BY <3>2, <4>1, <4>2, <4>3 DEF TripInv, SettleInv
    <3>4. ASSUME Undisturbed(r)'
          PROVE  /\ \A s \in Settlers(t)' : s = r
                 /\ tx[x].status \in {"PENDING", "FAILED"}
                 /\ hold[x].status = Phase(r)'
      <4>1. Settlers(t) = {} /\ t \notin tangled
        BY <2>2, <3>4 DEF Undisturbed
      <4>2. x \in Requests /\ tx[x].held /\ tx[x].trip = t /\ tx[x].status \in {"PENDING", "FAILED"}
        BY <2>1, <2>4 DEF OpenTx
      <4>3. hold[x].status = "CREATE"
        BY <4>1, <4>2 DEF TripInv, AgreeInv, HoldOf
      <4>4. Phase(r)' = "CREATE"
        BY <2>2, <2>4 DEF Phase
      <4>. QED BY <3>1, <4>1, <4>2, <4>3, <4>4
    <3>5. SettleInv'
      BY <1>1, <1>2, <2>2, <3>3, <3>4 DEF SettleInv, rows
    <3>6. AgreeInv'
      <4>1. \A v \in Trips \cup {None} : \A q \in Settlers(v) : q \in Settlers(v)' /\ req'[q].row = req[q].row
        BY <1>1, <1>2, <1>3 DEF Settlers
      <4>2. \A y \in Requests : tx[y].trip \in Trips \cup {None}
        BY DEF TypeOK
      <4>. QED BY <1>1, <4>1, <4>2 DEF TripInv, AgreeInv, rows
    <3>. QED BY <3>5, <3>6 DEF TripInv
  <2>. QED BY <2>3, <2>4
<1>. QED BY <1>5, <1>6, <1>7 DEF Arrivals

\* Within a request, each step moves the hold and the row the way its phase
\* says; a request that fails or dies halfway has tangled its trip.
LEMMA TripStep ==
    ASSUME TypeOK, Shape, TripInv, NEW r \in Requests, Shape',
           Step(r) \/ StoreError(r) \/ Die(r)
    PROVE  TripInv'
<1>. USE IdsAssumption, AmountsAssumption
<1>1. /\ req' = req /\ tangled \subseteq tangled' /\ InFlight(r)
      /\ \A q \in Requests \ {r} : pc'[q] = pc[q]
  BY DEF Step, LocateHold, HoldUpdate, ConfirmAmount, RollBackAmount, ReadBalance,
     WriteBalance, RefuseBalance, KeepHold, RecordTx, RecordFailure, StoreError, Die,
     Tangle, GoTo, InFlight, TypeOK, rows, locals, history
<1>2. ASSUME NEW q \in Requests, q # r
      PROVE  (InFlight(q)' <=> InFlight(q)) /\ Phase(q)' = Phase(q)
  BY <1>1, <1>2 DEF InFlight, Phase
<1>3. ASSUME NEW v PROVE Settlers(v)' \subseteq Settlers(v)
  BY <1>1, <1>2, InFlight(r) DEF Settlers
<1>4. ASSUME NEW q \in Requests, Undisturbed(q)'
      PROVE  /\ Undisturbed(q) /\ q \in Settlers(req[q].trip)
             /\ \A s \in Settlers(req[q].trip) : s = q
             /\ tx[req[q].row].status \in {"PENDING", "FAILED"}
             /\ hold[req[q].row].status = Phase(q)
             /\ req[q].row \in Requests /\ tx[req[q].row].held
             /\ tx[req[q].row].trip = req[q].trip /\ req[q].trip \notin tangled'
             /\ req[req[q].row].op = "block" /\ pc[req[q].row] = "done"
  <2>1. Undisturbed(q)
    BY <1>1, <1>2, <1>4 DEF Undisturbed
  <2>. QED BY <1>1, <1>4, <2>1
         DEF Undisturbed, Shape, WellFormed, Inserted, TripInv, SettleInv, Settlers
<1>5. ASSUME NEW q \in Requests, Undisturbed(q), q # r,
             r \in Settlers(req[r].trip)
      PROVE  req[q].row # req[r].row \/ req[q].trip # req[r].trip
  BY <1>5 DEF TripInv, SettleInv, Undisturbed, Settlers
<1>6. CASE LocateHold(r) \/ ReadBalance(r) \/ WriteBalance(r) \/ RefuseBalance(r)
  <2>1. UNCHANGED <<hold, tx, tangled>>
    BY <1>6 DEF LocateHold, ReadBalance, WriteBalance, RefuseBalance, rows, history
  <2>2. req[r].op \in SettleOps => InFlight(r)' /\ Phase(r)' = Phase(r)
    BY <1>6 DEF LocateHold, HoldUpdate, ConfirmAmount, RollBackAmount, ReadBalance,
       WriteBalance, RefuseBalance, AfterWrite, AfterRefusal, IsTripEnd, GoTo, InFlight,
       Phase, Outcome, HoldOf, SettleOps, TypeOK, rows, locals, history
  <2>3. ASSUME NEW v PROVE Settlers(v)' = Settlers(v)
    BY <1>1, <1>2, <2>2 DEF Settlers
  <2>4. SettleInv'
    BY <1>1, <1>2, <1>3, <1>4, <2>1, <2>2 DEF SettleInv, Undisturbed
  <2>5. AgreeInv'
    BY <1>1, <2>1, <2>3 DEF TripInv, AgreeInv
  <2>. QED BY <2>4, <2>5 DEF TripInv
<1>7. CASE StoreError(r) \/ Die(r)
  <2>1. UNCHANGED <<hold, tx>> /\ Tangle(r)
    BY <1>7 DEF StoreError, Die, rows
  <2>2. req[r].op \in SettleOps => req[r].trip \in tangled'
    BY <2>1 DEF Tangle, TripOps
  <2>3. ASSUME NEW v, v \notin tangled' PROVE Settlers(v)' = Settlers(v)
    BY <1>1, <1>2, <2>2, <2>3 DEF Settlers
  <2>4. SettleInv'
    BY <1>1, <1>2, <1>3, <1>4, <2>1, <2>2 DEF SettleInv, Undisturbed
  <2>5. AgreeInv'
    BY <1>1, <2>1, <2>3 DEF TripInv, AgreeInv
  <2>. QED BY <2>4, <2>5 DEF TripInv
<1>8. CASE KeepHold(r)
  <2>1. UNCHANGED <<tx, tangled>> /\ InFlight(r)'
    BY <1>8 DEF KeepHold, GoTo, InFlight, TypeOK, history
  <2>2. ASSUME NEW v PROVE Settlers(v)' = Settlers(v)
    BY <1>1, <1>2, <2>1 DEF Settlers
  <2>3. \A x \in Requests \ {RowOf(r)} : hold'[x] = hold[x]
    BY <1>8 DEF KeepHold, TypeOK
  <2>4. CASE req[r].op = "block"
    <3>1. RowOf(r) = r /\ ~tx[r].held
      BY <1>8, <2>4 DEF RowOf, KeepHold, Shape, Inserted
    <3>2. SettleInv'
      BY <1>1, <1>2, <1>3, <1>4, <2>1, <2>3, <2>4, <3>1 DEF SettleInv, Undisturbed, SettleOps
    <3>3. AgreeInv'
      BY <1>1, <2>1, <2>2, <2>3, <3>1 DEF TripInv, AgreeInv
    <3>. QED BY <3>2, <3>3 DEF TripInv
  <2>5. CASE req[r].op # "block"
    <3>1. /\ req[r].op \in SettleOps /\ RowOf(r) = req[r].row /\ req[r].row \in Requests
          /\ r \in Settlers(req[r].trip) /\ tx[req[r].row].trip = req[r].trip
      BY <1>8, <2>5 DEF RowOf, KeepHold, Shape, WellFormed, InFlight, Settlers, TripOps
    <3>2. Undisturbed(r) => hold'[req[r].row].status = Phase(r)'
      <4>1. SUFFICES ASSUME hold[req[r].row].status = Phase(r)
                     PROVE  hold'[req[r].row].status = Phase(r)'
        BY <3>1 DEF TripInv, SettleInv
      <4>2. hold'[req[r].row].status = StoredHold(r).status
        BY <1>8, <3>1 DEF KeepHold, TypeOK
      <4>3. pc'[r] = "record" \/ (req[r].op = "confirm" /\ pc'[r] = "read")
        BY <1>8 DEF KeepHold, GoTo, TypeOK
      <4>4. Phase(r) = "CREATE"
        BY <1>8 DEF KeepHold, Phase
      <4>. QED BY <1>1, <3>1, <4>1, <4>2, <4>3, <4>4
             DEF StoredHold, Phase, Outcome, HoldOf, SettleOps
    <3>3. SettleInv'
      BY <1>1, <1>2, <1>3, <1>4, <1>5, <2>1, <2>3, <3>1, <3>2 DEF SettleInv
    <3>4. AgreeInv'
      BY <1>1, <2>1, <2>2, <2>3, <3>1 DEF TripInv, AgreeInv
    <3>. QED BY <3>3, <3>4 DEF TripInv
  <2>. QED BY <2>4, <2>5
<1>9. CASE RecordTx(r) \/ RecordFailure(r)
  <2>1. PICK st \in TxStatus :
           /\ tx' = [tx EXCEPT ![RowOf(r)] = StoredTx(r, st)]
           /\ \/ pc[r] = "record" /\ st = Outcome(req[r].op)
              \/ pc[r] = "fail" /\ st = "FAILED"
    BY <1>9 DEF RecordTx, RecordFailure, Outcome, TxStatus
  <2>2. UNCHANGED <<hold, tangled>> /\ ~InFlight(r)' /\ req[r].op \in TripOps
    BY <1>9 DEF RecordTx, RecordFailure, InFlight, GoTo, TypeOK, Shape, WellFormed, history
  <2>3. ASSUME NEW v PROVE Settlers(v)' = Settlers(v) \ {r}
    BY <1>1, <1>2, <2>2 DEF Settlers
  <2>4. \A x \in Requests \ {RowOf(r)} : tx'[x] = tx[x]
    BY <2>1 DEF TypeOK
  <2>5. RowOf(r) \in Requests
    BY <1>1, <2>2 DEF RowOf, Shape, WellFormed, TripOps
  <2>6. /\ tx'[RowOf(r)].status = st /\ tx'[RowOf(r)].trip = req[r].trip
        /\ tx'[RowOf(r)].held <=> IF req[r].op = "block" THEN st # "FAILED"
                                  ELSE tx[req[r].row].held
    BY <2>1, <2>5 DEF TypeOK, StoredTx
  <2>7. ASSUME NEW q \in Requests, Undisturbed(q)', q # r, req[q].row # RowOf(r)
        PROVE  /\ \A s \in Settlers(req[q].trip)' : s = q
               /\ tx'[req'[q].row].status \in {"PENDING", "FAILED"}
               /\ hold'[req'[q].row].status = Phase(q)'
    <3>1. tx'[req[q].row] = tx[req[q].row]
      BY <1>4, <2>4, <2>7
    <3>. QED BY <1>1, <1>2, <1>3, <1>4, <2>2, <2>7, <3>1
  <2>8. CASE req[r].op = "block"
    <3>1. RowOf(r) = r /\ ~tx[r].held /\ r \notin Settlers(tx[r].trip)
      BY <1>9, <2>8 DEF RowOf, RecordTx, RecordFailure, Shape, Inserted, Settlers, SettleOps
    <3>2. SettleInv'
      <4>1. ASSUME NEW q \in Requests, Undisturbed(q)' PROVE q # r /\ req[q].row # RowOf(r)
        BY <1>4, <2>8, <3>1, <4>1 DEF Undisturbed, SettleOps
      <4>. QED BY <2>7, <4>1 DEF SettleInv
    <3>3. tx'[r].held => hold[r].status = HoldOf(tx'[r].status)
      <4>1. tx'[r].status = st /\ (tx'[r].held => st # "FAILED")
        BY <2>6, <2>8, <3>1
      <4>. QED BY <2>1, <2>8, <4>1 DEF Shape, Inserted, Outcome, HoldOf
    <3>4. ASSUME NEW v PROVE Settlers(v)' = Settlers(v)
      BY <2>3, <2>8 DEF Settlers, SettleOps
    <3>5. AgreeInv'
      BY <1>1, <2>2, <2>4, <3>1, <3>3, <3>4 DEF TripInv, AgreeInv
    <3>. QED BY <3>2, <3>5 DEF TripInv
  <2>9. CASE req[r].op # "block"
    <3> DEFINE x == req[r].row
    <3>1. /\ req[r].op \in SettleOps /\ RowOf(r) = x /\ x \in Requests
          /\ r \in Settlers(req[r].trip) /\ tx[x].trip = req[r].trip /\ tx[x].held
      BY <1>1, <2>2, <2>9 DEF RowOf, Shape, WellFormed, Settlers, TripOps
    <3>2. tx'[x].status = st /\ tx'[x].trip = tx[x].trip
      BY <2>6, <2>9, <3>1
    <3>3. Undisturbed(r) => hold[x].status = HoldOf(st)
      BY <2>1, <3>1 DEF TripInv, SettleInv, Phase, HoldOf
    <3>4. SettleInv'
      <4>1. ASSUME NEW q \in Requests, Undisturbed(q)' PROVE q # r /\ req[q].row # RowOf(r)
        BY <1>1, <1>4, <1>5, <2>2, <3>1, <4>1 DEF Undisturbed
      <4>. QED BY <2>7, <4>1 DEF SettleInv
    <3>5. ASSUME NEW y \in Requests, tx'[y].held, tx'[y].trip \notin tangled,
                 \A q \in Settlers(tx[y].trip)' : req[q].row # y
          PROVE  hold[y].status = HoldOf(tx'[y].status)
      <4>1. CASE y = x
        BY <1>1, <3>1, <3>2, <3>3, <3>5, <4>1 DEF Undisturbed
      <4>2. CASE y # x
        <5>1. tx'[y] = tx[y]
          BY <2>4, <3>1, <4>2
        <5>2. \A q \in Settlers(tx[y].trip) : req[q].row # y
          BY <2>3, <3>5, <4>2, <5>1
        <5>. QED BY <3>5, <5>1, <5>2 DEF TripInv, AgreeInv
      <4>. QED BY <4>1, <4>2
    <3>6. AgreeInv'
      BY <1>1, <2>2, <3>5 DEF AgreeInv
    <3>. QED BY <3>4, <3>6 DEF TripInv
  <2>. QED BY <2>8, <2>9
<1>. QED BY <1>6, <1>7, <1>8, <1>9 DEF Step

-----------------------------------------------------------------------------
(* The inductive invariant and the theorems *)

\* TxAgreesWithHold alone is not inductive: it says nothing of a trip while it
\* is being settled (SettleInv) or of the rows a request works on (Shape).
IInv == TypeOK /\ Shape /\ WalletInv /\ DebtInv /\ TripInv

\* The service starts with no request and no row.
LEMMA InitIInv == Init => IInv
<1>. SUFFICES ASSUME Init PROVE IInv
  OBVIOUS
<1>. USE IdsAssumption, AmountsAssumption
<1>1. TypeOK
  <2>1. /\ hold \in [Requests -> [status : HoldStatus, debit : Nat]]
        /\ tx \in [Requests -> [status : TxStatus, trip : Trips \cup {None}, held : BOOLEAN]]
    BY DEF Init, NoHold, NoTx, HoldStatus, TxStatus
  <2>2. req \in [Requests -> Request]
    BY DEF Init, NoReq, Req, Request
  <2>. QED BY <2>1, <2>2 DEF Init, TypeOK, PCs
<1>2. Shape
  BY DEF Init, Shape, WellFormed, Inserted, InFlight, NoReq, Req, NoTx, TripOps, SettleOps
<1>3. WalletInv /\ DebtInv
  BY DEF Init, WalletInv, DebtInv, Writers
<1>4. TripInv
  BY DEF Init, TripInv, SettleInv, AgreeInv, Undisturbed, InFlight, NoTx
<1>. QED BY <1>1, <1>2, <1>3, <1>4 DEF IInv

\* Every step keeps the invariant; its parts need each other.
LEMMA NextIInv == IInv /\ [Next]_vars => IInv'
<1>. SUFFICES ASSUME IInv, [Next]_vars PROVE IInv'
  OBVIOUS
<1>1. TypeOK' /\ Shape'
  BY ShapeStep DEF IInv
<1>2. WalletInv' /\ DebtInv'
  BY WalletStep DEF IInv
<1>3. TripInv'
  <2>1. CASE UNCHANGED vars
    BY <2>1 DEF IInv, vars, rows, locals, history, TripInv, SettleInv, AgreeInv,
       Undisturbed, Settlers, InFlight, Phase
  <2>2. CASE Next
    BY <1>1, <2>2, StepCases, TripArrival, TripStep DEF IInv
  <2>. QED BY <2>1, <2>2
<1>. QED BY <1>1, <1>2, <1>3 DEF IInv

\* The inductive invariant holds in every state the service can reach.
LEMMA AlwaysIInv == Spec => []IInv
<1>. QED BY InitIInv, NextIInv, PTL DEF Spec

\* Every row and request keeps the shape the entities declare, whatever the
\* users, trips, amounts and number of requests.
THEOREM TypeCorrect == Spec => []TypeOK
<1>1. IInv => TypeOK
  BY DEF IInv
<1>. QED BY <1>1, AlwaysIInv, PTL

\* No wallet write loses another one unless the two overlapped: a write that
\* moves the wallet by anything but its own amount follows a clash.
THEOREM NoLostUpdateHolds == Spec => NoLostUpdate
<1>1. ASSUME IInv, [Next]_vars
      PROVE  [\A u \in Users : wallet'[u] # wallet[u] /\ u \notin clashed'
                 => \E r \in Writers(u) : wallet'[u] = wallet[u] + delta[r]]_vars
  <2>1. CASE UNCHANGED vars
    BY <2>1
  <2>2. ASSUME NEW r \in Requests, WriteBalance(r), NEW u \in Users,
               wallet'[u] # wallet[u], u \notin clashed'
        PROVE  r \in Writers(u) /\ wallet'[u] = wallet[u] + delta[r]
    <3>1. u = req[r].user /\ r \in Writers(u) /\ u \notin clashed
      BY <1>1, <2>2 DEF IInv, TypeOK, WriteBalance, Writers, history
    <3>2. wallet'[u] = seen[r] + delta[r]
      BY <1>1, <2>2, <3>1 DEF IInv, TypeOK, WriteBalance
    <3>. QED BY <1>1, <2>2, <3>1, <3>2 DEF IInv, WalletInv
  <2>3. ASSUME NEW r \in Requests, Arrivals(r) PROVE UNCHANGED wallet
    BY <2>3 DEF Arrivals, BlockAmount, Settle, TopUp, SubscriptionCharge, Arrive, rows
  <2>4. ASSUME NEW r \in Requests,
               \/ LocateHold(r) \/ ReadBalance(r) \/ RefuseBalance(r) \/ KeepHold(r)
               \/ RecordTx(r) \/ RecordFailure(r) \/ StoreError(r) \/ Die(r)
        PROVE  UNCHANGED wallet
    BY <2>4 DEF LocateHold, ReadBalance, RefuseBalance, KeepHold, RecordTx, RecordFailure,
       StoreError, Die, rows
  <2>. QED BY <1>1, <2>1, <2>2, <2>3, <2>4, StepCases DEF Step
<1>. QED BY <1>1, AlwaysIInv, PTL DEF Spec, NoLostUpdate

\* Under every interleaving a wallet in debt is the trace of a fare update.
THEOREM DebtHolds == Spec => []DebtOnlyFromTripEnd
<1>1. IInv => DebtOnlyFromTripEnd
  BY DEF IInv, DebtInv, FareUpdated, DebtOnlyFromTripEnd
<1>. QED BY <1>1, AlwaysIInv, PTL

\* The transaction row of a trip tells the truth about its hold whenever no
\* settlement of the trip is under way, overlapped or was cut short.
THEOREM TxAgrees == Spec => []TxAgreesWithHold
<1>1. IInv => TxAgreesWithHold
  BY DEF IInv, TripInv, AgreeInv, TxAgreesWithHold
<1>. QED BY <1>1, AlwaysIInv, PTL

-----------------------------------------------------------------------------
(* BalanceSheet *)

\* What request r has moved that is neither held nor paid: top-ups and discounts
\* into the wallet, charges out of it.
Moved(r) == IF ~applied[r] THEN 0
            ELSE CASE req[r].op \in {"topUp", "confirm"} -> req[r].amt
                   [] req[r].op = "charge"               -> -req[r].amt
                   [] OTHER                              -> 0

\* What the hold that r inserted keeps from the wallet.
Kept(r) == IF hold[r].status \in {"CREATE", "CONFIRM"} THEN hold[r].debit ELSE 0

\* What r has moved, or is about to move, before it writes the hold row.
Owing(r) == CASE req[r].op = "block"   -> -req[r].amt
              [] req[r].op = "update"  -> hold[req[r].row].debit - req[r].amt
              [] req[r].op = "release" -> hold[req[r].row].debit
              [] OTHER                 -> 0

\* What the wallet of user u owes to request r.
Flow(u) == [r \in Requests |->
    IF req[r].user = u
    THEN Moved(r) - Kept(r) + (IF pc[r] = "keep" THEN Owing(r) ELSE 0) ELSE 0]

\* What r is going to add to the balance.
Due(r) == CASE req[r].op \in {"topUp", "confirm"} -> req[r].amt
            [] req[r].op = "charge"               -> -req[r].amt
            [] OTHER                              -> Owing(r)

\* How far each request is with wallet and hold row.
Underway(r) ==
    /\ pc[r] = "idle" => req[r].op = "none" /\ req[r].user = None
    /\ req[r].op \in TripOps => req[r].user = RiderOf[req[r].trip]
    /\ hold[r].status # "none" => req[r].op = "block" /\ pc[r] \in {"record", "done"}
    /\ applied[r] => /\ pc[r] \notin {"idle", "locate", "read", "write"}
                     /\ req[r].op = "confirm" => pc[r] # "keep"
    /\ pc[r] \in {"read", "write"} /\ (req[r].op \in {"update", "release"} => Undisturbed(r))
         => delta[r] = Due(r)

BalanceInv ==
    /\ \A r \in Requests : Underway(r)
    /\ \A u \in Users : Unraced(u) =>
          wallet[u] = Opening[u] + SumFunctionOnSet(Flow(u), Requests)

\* All flows are integers.
FlowTypes == \A u \in Users, r \in Requests : Flow(u)[r] \in Int

\* They are in every state the invariant describes: amounts are numbers.
LEMMA FlowsTyped == IInv => FlowTypes
<1>. SUFFICES ASSUME IInv, NEW u \in Users, NEW r \in Requests PROVE Flow(u)[r] \in Int
  BY DEF FlowTypes
<1>. USE DEF IInv
<1>1. req[r].amt \in Int /\ Moved(r) \in Int /\ Kept(r) \in Int
  <2>1. req[r].amt \in Int /\ hold[r].debit \in Int
    BY DEF TypeOK, Request
  <2>. QED BY <2>1 DEF Moved, Kept
<1>2. pc[r] = "keep" => Owing(r) \in Int
  <2>1. SUFFICES ASSUME pc[r] = "keep" PROVE Owing(r) \in Int
    OBVIOUS
  <2>2. CASE req[r].op \in {"update", "release"}
    <3>1. req[r].row \in Requests
      BY <2>1, <2>2 DEF Shape, WellFormed, InFlight, SettleOps
    <3>2. hold[req[r].row].debit \in Int
      BY <3>1 DEF TypeOK
    <3>. QED BY <1>1, <2>2, <3>2 DEF Owing
  <2>3. CASE req[r].op \notin {"update", "release"}
    BY <1>1, <2>3 DEF Owing
  <2>. QED BY <2>2, <2>3
<1>. QED BY <1>1, <1>2 DEF Flow

\* Every request stays at a place its wallet write and its hold row fit.
LEMMA UnderwayStep ==
    ASSUME IInv, IInv', \A q \in Requests : Underway(q), Next
    PROVE  \A q \in Requests : Underway(q)'
<1>. USE IdsAssumption, AmountsAssumption DEF IInv
<1>1. ASSUME NEW r \in Requests, Arrivals(r), NEW q \in Requests PROVE Underway(q)'
  <2>1. /\ pc[r] = "idle" /\ UNCHANGED rows /\ applied' = applied
        /\ \A s \in Requests \ {r} : pc'[s] = pc[s] /\ req'[s] = req[s]
        /\ tangled \subseteq tangled'
    BY <1>1, ArrivalFrame
  <2>2. \A s \in Requests \ {r} : delta'[s] = delta[s]
    BY <1>1 DEF Arrivals, BlockAmount, Settle, TopUp, SubscriptionCharge, Arrive, TypeOK
  <2>3. CASE q # r
    <3>1. Undisturbed(q)' => Undisturbed(q)
      BY <2>1, <2>3 DEF Undisturbed, InFlight
    <3>2. Due(q)' = Due(q)
      BY <2>1, <2>3 DEF Due, Owing, rows
    <3>. QED BY <2>1, <2>2, <2>3, <3>1, <3>2 DEF Underway, rows
  <2>4. CASE q = r
    <3>1. hold'[r].status = "none" /\ ~applied'[r]
      BY <2>1 DEF Underway, rows
    <3>2. ASSUME NEW t \in Trips, NEW a \in Amounts, BlockAmount(r, t, a) PROVE Underway(r)'
      <4>1. /\ req'[r].op = "block" /\ req'[r].user = RiderOf[t] /\ req'[r].trip = t
            /\ req'[r].amt = a /\ pc'[r] = "read" /\ delta'[r] = -a
        BY <3>2 DEF BlockAmount, Arrive, Req, GoTo, TypeOK
      <4>2. Due(r)' = -a
        BY <4>1 DEF Due, Owing
      <4>. QED BY <3>1, <4>1, <4>2 DEF Underway
    <3>3. ASSUME NEW o \in SettleOps, NEW t \in Trips, NEW a \in Nat, Settle(r, o, t, a)
          PROVE  Underway(r)'
      <4>1. PICK x \in Requests \cup {None}, p \in {"locate", "done"} :
               Arrive(r, Req(o, RiderOf[t], t, a, x), p, 0)
        BY <3>3 DEF Settle, OpenTx
      <4>2. /\ req'[r].op = o /\ req'[r].user = RiderOf[t] /\ req'[r].trip = t
            /\ pc'[r] \in {"locate", "done"}
        BY <4>1 DEF Arrive, Req, GoTo, TypeOK
      <4>. QED BY <3>1, <4>2 DEF Underway, SettleOps
    <3>4. ASSUME NEW v \in Users, NEW a \in Amounts, TopUp(r, v, a) PROVE Underway(r)'
      <4>1. /\ req'[r].op = "topUp" /\ req'[r].user = v
            /\ req'[r].amt = a /\ pc'[r] = "read" /\ delta'[r] = a
        BY <3>4 DEF TopUp, Arrive, Req, GoTo, TypeOK
      <4>2. Due(r)' = a
        BY <4>1 DEF Due
      <4>. QED BY <3>1, <4>1, <4>2 DEF Underway, TripOps, SettleOps
    <3>5. ASSUME NEW v \in Users, NEW a \in Amounts, SubscriptionCharge(r, v, a)
          PROVE  Underway(r)'
      <4>1. /\ req'[r].op = "charge" /\ req'[r].user = v
            /\ req'[r].amt = a /\ pc'[r] = "read" /\ delta'[r] = -a
        BY <3>5 DEF SubscriptionCharge, Arrive, Req, GoTo, TypeOK
      <4>2. Due(r)' = -a
        BY <4>1 DEF Due
      <4>. QED BY <3>1, <4>1, <4>2 DEF Underway, TripOps, SettleOps
    <3>. QED BY <1>1, <2>4, <3>2, <3>3, <3>4, <3>5 DEF Arrivals
  <2>. QED BY <2>3, <2>4
<1>2. ASSUME NEW r \in Requests, LocateHold(r), NEW q \in Requests PROVE Underway(q)'
  <2>1. /\ UNCHANGED <<req, hold, applied, tangled>> /\ pc[r] = "locate"
        /\ \A s \in Requests \ {r} : pc'[s] = pc[s] /\ delta'[s] = delta[s]
    BY <1>2 DEF LocateHold, HoldUpdate, ConfirmAmount, RollBackAmount, GoTo, TypeOK, rows, history
  <2>2. CASE q # r
    <3>1. Undisturbed(q)' => Undisturbed(q)
      BY <2>1, <2>2 DEF Undisturbed, InFlight
    <3>2. Due(q)' = Due(q)
      BY <2>1 DEF Due, Owing
    <3>. QED BY <2>1, <2>2, <3>1, <3>2 DEF Underway
  <2>3. CASE q = r
    <3>1. \/ pc'[r] = "fail"
          \/ req[r].op = "confirm" /\ pc'[r] = "keep"
          \/ pc'[r] = "read" /\ req[r].op \in {"update", "release"} /\ delta'[r] = Due(r)
      BY <1>2 DEF LocateHold, HoldUpdate, ConfirmAmount, RollBackAmount, GoTo, TypeOK, Due, Owing
    <3>2. Due(r)' = Due(r)
      BY <2>1 DEF Due, Owing
    <3>3. req[r].op \in SettleOps
      BY <2>1 DEF Shape, WellFormed
    <3>. QED BY <2>1, <2>3, <3>1, <3>2, <3>3 DEF Underway, SettleOps
  <2>. QED BY <2>2, <2>3
<1>3. ASSUME NEW r \in Requests, ReadBalance(r), NEW q \in Requests PROVE Underway(q)'
  <2>1. /\ UNCHANGED <<req, hold, delta, applied, tangled>> /\ pc[r] = "read" /\ pc'[r] = "write"
        /\ \A s \in Requests \ {r} : pc'[s] = pc[s]
    BY <1>3 DEF ReadBalance, GoTo, TypeOK, rows
  <2>2. Due(q)' = Due(q)
    BY <2>1 DEF Due, Owing
  <2>3. Undisturbed(q)' => Undisturbed(q)
    BY <2>1 DEF Undisturbed, InFlight
  <2>. QED BY <2>1, <2>2, <2>3 DEF Underway
<1>4. ASSUME NEW r \in Requests, WriteBalance(r), NEW q \in Requests PROVE Underway(q)'
  <2>1. /\ UNCHANGED <<req, hold, tangled>>
        /\ \A s \in Requests \ {r} : pc'[s] = pc[s] /\ delta'[s] = delta[s] /\ applied'[s] = applied[s]
    BY <1>4 DEF WriteBalance, Forget, GoTo, TypeOK, history
  <2>2. CASE q # r
    <3>1. Undisturbed(q)' => Undisturbed(q)
      BY <2>1, <2>2 DEF Undisturbed, InFlight
    <3>2. Due(q)' = Due(q)
      BY <2>1 DEF Due, Owing
    <3>. QED BY <2>1, <2>2, <3>1, <3>2 DEF Underway
  <2>3. CASE q = r
    <3>1. /\ pc'[r] \in {"keep", "record", "done"} /\ pc[r] = "write"
          /\ pc'[r] = "keep" => req[r].op # "confirm"
      BY <1>4 DEF WriteBalance, AfterWrite, GoTo, TypeOK
    <3>. QED BY <2>1, <2>3, <3>1 DEF Underway
  <2>. QED BY <2>2, <2>3
<1>5. ASSUME NEW r \in Requests, KeepHold(r), NEW q \in Requests PROVE Underway(q)'
  <2>1. /\ UNCHANGED <<req, applied, tangled>> /\ pc[r] = "keep"
        /\ \A s \in Requests \ {r} : pc'[s] = pc[s] /\ delta'[s] = delta[s]
        /\ \A s \in Requests \ {RowOf(r)} : hold'[s] = hold[s]
    BY <1>5 DEF KeepHold, GoTo, TypeOK, history
  <2>2. \/ pc'[r] = "record"
        \/ pc'[r] = "read" /\ req[r].op = "confirm" /\ delta'[r] = req[r].amt
    BY <1>5 DEF KeepHold, GoTo, TypeOK
  <2>3. req[r].op \in TripOps
    BY <2>1 DEF Shape, WellFormed
  <2>4. hold'[q].status # "none" => req[q].op = "block" /\ pc'[q] \in {"record", "done"}
    <3>1. CASE q # RowOf(r)
      <4>1. hold'[q] = hold[q]
        BY <2>1, <3>1
      <4>2. q = r => hold[q].status = "none"
        BY <2>1 DEF Underway
      <4>. QED BY <2>1, <4>1, <4>2 DEF Underway
    <3>2. CASE q = RowOf(r) /\ req[r].op = "block"
      BY <2>2, <3>2 DEF RowOf
    <3>3. CASE q = RowOf(r) /\ req[r].op # "block"
      <4>1. req[q].op = "block" /\ pc[q] = "done"
        BY <2>1, <2>3, <3>3 DEF RowOf, Shape, WellFormed, Inserted, InFlight, TripOps
      <4>. QED BY <2>1, <4>1
    <3>. QED BY <3>1, <3>2, <3>3
  <2>5. ASSUME q # r, pc[q] \in {"read", "write"},
               req[q].op \in {"update", "release"} => Undisturbed(q)
        PROVE  Due(q)' = Due(q)
    <3>1. CASE req[q].op \in {"update", "release"}
      <4>1. /\ \A s \in Settlers(req[q].trip) : s = q
            /\ req[q].row \in Requests /\ tx[req[q].row].held /\ tx[req[q].row].trip = req[q].trip
            /\ req[req[q].row].op = "block" /\ pc[req[q].row] = "done"
        BY <2>5, <3>1 DEF Shape, WellFormed, Inserted, InFlight, SettleOps, TripInv, SettleInv
      <4>2. req[q].row # RowOf(r)
        BY <2>1, <2>3, <2>5, <4>1
           DEF RowOf, Shape, WellFormed, InFlight, Settlers, TripOps
      <4>3. hold'[req[q].row] = hold[req[q].row]
        BY <2>1, <4>1, <4>2
      <4>. QED BY <2>1, <3>1, <4>3 DEF Due, Owing
    <3>2. CASE req[q].op \notin {"update", "release"}
      BY <2>1, <3>2 DEF Due, Owing
    <3>. QED BY <3>1, <3>2
  <2>6. CASE q # r
    <3>1. Undisturbed(q)' => Undisturbed(q)
      BY <2>1, <2>6 DEF Undisturbed, InFlight
    <3>. QED BY <2>1, <2>4, <2>5, <2>6, <3>1 DEF Underway
  <2>7. CASE q = r
    <3>1. req[r].op = "confirm" => Due(r)' = req[r].amt
      BY <2>1 DEF Due
    <3>. QED BY <2>1, <2>2, <2>4, <2>7, <3>1 DEF Underway
  <2>. QED BY <2>6, <2>7
<1>6. ASSUME NEW r \in Requests,
             RefuseBalance(r) \/ RecordTx(r) \/ RecordFailure(r) \/ StoreError(r) \/ Die(r),
             NEW q \in Requests
      PROVE  Underway(q)'
  <2>1. /\ UNCHANGED <<req, hold, applied>> /\ InFlight(r) /\ tangled \subseteq tangled'
        /\ \A s \in Requests \ {r} : pc'[s] = pc[s] /\ delta'[s] = delta[s]
    BY <1>6 DEF RefuseBalance, RecordTx, RecordFailure, StoreError, Die, Forget, Tangle,
       GoTo, InFlight, TypeOK, rows, locals, history
  <2>2. /\ pc'[r] \in {"fail", "record", "done"}
        /\ hold[r].status # "none" => pc'[r] = "done"
    BY <1>6 DEF RefuseBalance, RecordTx, RecordFailure, StoreError, Die, AfterRefusal, GoTo,
       TypeOK, Underway
  <2>3. CASE q # r
    <3>1. Undisturbed(q)' => Undisturbed(q)
      BY <2>1, <2>3 DEF Undisturbed, InFlight
    <3>2. Due(q)' = Due(q)
      BY <2>1 DEF Due, Owing
    <3>. QED BY <2>1, <2>3, <3>1, <3>2 DEF Underway
  <2>4. CASE q = r
    BY <2>1, <2>2, <2>4 DEF Underway, InFlight
  <2>. QED BY <2>3, <2>4
<1>. QED BY StepCases, <1>1, <1>2, <1>3, <1>4, <1>5, <1>6 DEF Step

\* Nothing but the wallet write of a request, and the write of a hold row, moves
\* money from one place to another.
LEMMA BalanceStep ==
    ASSUME IInv, IInv', FlowTypes, FlowTypes', BalanceInv, Next, IsFiniteSet(Requests)
    PROVE  BalanceInv'
<1>. USE IdsAssumption, AmountsAssumption
<1>1. \A q \in Requests : Underway(q) /\ Underway(q)'
  BY UnderwayStep DEF BalanceInv
<1>2. SUFFICES ASSUME NEW u \in Users, Unraced(u)'
               PROVE  wallet'[u] = Opening[u] + SumFunctionOnSet(Flow(u)', Requests)
  BY <1>1 DEF BalanceInv
<1>3. \A q \in Requests : Flow(u)[q] \in Int /\ Flow(u)'[q] \in Int
  BY DEF FlowTypes
<1>4. ASSUME Unraced(u), wallet'[u] = wallet[u],
             \A q \in Requests : Flow(u)'[q] = Flow(u)[q]
      PROVE  wallet'[u] = Opening[u] + SumFunctionOnSet(Flow(u)', Requests)
  <2>1. SumFunctionOnSet(Flow(u)', Requests) = SumFunctionOnSet(Flow(u), Requests)
    BY <1>4, SumSame
  <2>. QED BY <1>4, <2>1 DEF BalanceInv
<1>5. ASSUME NEW r \in Requests, Arrivals(r)
      PROVE  wallet'[u] = Opening[u] + SumFunctionOnSet(Flow(u)', Requests)
  <2>1. /\ pc[r] = "idle" /\ UNCHANGED rows /\ UNCHANGED <<applied, clashed>>
        /\ \A s \in Requests \ {r} : pc'[s] = pc[s] /\ req'[s] = req[s]
        /\ tangled \subseteq tangled'
    BY <1>5, ArrivalFrame DEF IInv
  <2>2. pc'[r] # "keep"
    BY <1>5 DEF Arrivals, BlockAmount, Settle, TopUp, SubscriptionCharge, Arrive, GoTo, TypeOK, IInv
  <2>3. ASSUME NEW q \in Requests PROVE Flow(u)'[q] = Flow(u)[q]
    <3>1. CASE q # r
      <4>1. Moved(q)' = Moved(q) /\ Kept(q)' = Kept(q) /\ Owing(q)' = Owing(q)
        BY <2>1, <3>1 DEF Moved, Kept, Owing, rows
      <4>. QED BY <2>1, <3>1, <4>1 DEF Flow
    <3>2. CASE q = r
      <4>1. ~applied[r] /\ ~applied'[r] /\ hold[r].status = "none" /\ hold'[r].status = "none"
        BY <1>1, <2>1 DEF Underway, rows
      <4>2. Moved(r) = 0 /\ Moved(r)' = 0 /\ Kept(r) = 0 /\ Kept(r)' = 0
        BY <4>1 DEF Moved, Kept
      <4>. QED BY <2>1, <2>2, <3>2, <4>2 DEF Flow
    <3>. QED BY <3>1, <3>2
  <2>4. Unraced(u)
    BY <1>2, <2>1 DEF Unraced
  <2>. QED BY <1>4, <2>1, <2>3, <2>4 DEF rows
<1>6. ASSUME NEW r \in Requests,
             \/ LocateHold(r) \/ ReadBalance(r) \/ RefuseBalance(r)
             \/ RecordTx(r) \/ RecordFailure(r) \/ StoreError(r) \/ Die(r)
      PROVE  wallet'[u] = Opening[u] + SumFunctionOnSet(Flow(u)', Requests)
  <2>1. /\ UNCHANGED <<wallet, hold, req, applied>> /\ clashed \subseteq clashed'
        /\ tangled \subseteq tangled'
        /\ \A s \in Requests \ {r} : pc'[s] = pc[s]
    BY <1>6 DEF IInv, LocateHold, HoldUpdate, ConfirmAmount, RollBackAmount, ReadBalance,
       RefuseBalance, RecordTx, RecordFailure, StoreError, Die, Tangle, GoTo,
       TypeOK, rows, locals, history
  <2>2. \A q \in Requests : Moved(q)' = Moved(q) /\ Kept(q)' = Kept(q) /\ Owing(q)' = Owing(q)
    BY <2>1 DEF Moved, Kept, Owing
  <2>3. Unraced(u)
    BY <1>2, <2>1 DEF Unraced
  <2>4. pc'[r] = "keep" => req[r].op = "confirm"
    BY <1>6 DEF IInv, LocateHold, HoldUpdate, ConfirmAmount, RollBackAmount, ReadBalance,
       RefuseBalance, RecordTx, RecordFailure, StoreError, Die, AfterRefusal, GoTo, TypeOK
  <2>5. ASSUME pc[r] = "keep", req[r].user = u PROVE FALSE
    <3>1. StoreError(r) \/ Die(r)
      BY <1>6, <2>5 DEF LocateHold, ReadBalance, RefuseBalance, RecordTx, RecordFailure
    <3>2. req[r].op \in TripOps /\ req[r].trip \in Trips /\ RiderOf[req[r].trip] = u
      BY <1>1, <2>5 DEF IInv, Shape, WellFormed, Underway
    <3>3. req[r].trip \in tangled'
      BY <3>1, <3>2 DEF StoreError, Die, Tangle
    <3>. QED BY <1>2, <3>2, <3>3 DEF Unraced
  <2>6. ASSUME NEW q \in Requests PROVE Flow(u)'[q] = Flow(u)[q]
    <3>1. CASE q # r
      BY <2>1, <2>2, <3>1 DEF Flow
    <3>2. CASE q = r /\ req[r].user # u
      BY <2>1, <3>2 DEF Flow
    <3>3. CASE q = r /\ req[r].user = u
      <4>1. pc'[r] = "keep" => Owing(r)' = 0
        BY <2>1, <2>4 DEF Owing
      <4>2. (IF pc'[r] = "keep" THEN Owing(r)' ELSE 0) = (IF pc[r] = "keep" THEN Owing(r) ELSE 0)
        BY <2>5, <3>3, <4>1
      <4>. QED BY <2>1, <2>2, <3>3, <4>2 DEF Flow
    <3>. QED BY <3>1, <3>2, <3>3
  <2>. QED BY <1>4, <2>1, <2>3, <2>6
<1>7. ASSUME NEW r \in Requests, WriteBalance(r)
      PROVE  wallet'[u] = Opening[u] + SumFunctionOnSet(Flow(u)', Requests)
  <2>1. /\ UNCHANGED <<hold, req, clashed, tangled>> /\ pc[r] = "write"
        /\ \A s \in Requests \ {r} : pc'[s] = pc[s] /\ applied'[s] = applied[s]
        /\ \A v \in Users \ {req[r].user} : wallet'[v] = wallet[v]
    BY <1>7 DEF IInv, WriteBalance, GoTo, TypeOK, history
  <2>2. Unraced(u)
    BY <1>2, <2>1 DEF Unraced
  <2>3. ASSUME NEW q \in Requests, q # r PROVE Flow(u)'[q] = Flow(u)[q]
    <3>1. Moved(q)' = Moved(q) /\ Kept(q)' = Kept(q) /\ Owing(q)' = Owing(q)
      BY <2>1, <2>3 DEF Moved, Kept, Owing
    <3>. QED BY <2>1, <2>3, <3>1 DEF Flow
  <2>4. CASE req[r].user # u
    <3>1. Flow(u)'[r] = Flow(u)[r]
      BY <2>1, <2>4 DEF Flow
    <3>. QED BY <1>4, <2>1, <2>2, <2>3, <2>4, <3>1
  <2>5. CASE req[r].user = u
    <3>1. delta[r] = Due(r)
      <4>1. req[r].op \in {"update", "release"} => Undisturbed(r)
        <5>1. req[r].op \in TripOps => req[r].trip \in Trips /\ RiderOf[req[r].trip] = u
          BY <1>1, <2>5 DEF IInv, Shape, WellFormed, Underway
        <5>. QED BY <2>1, <2>2, <5>1 DEF Unraced, Undisturbed, InFlight, TripOps, SettleOps
      <4>. QED BY <1>1, <2>1, <4>1 DEF Underway
    <3>2. wallet'[u] = wallet[u] + delta[r]
      <4>1. seen[r] = wallet[u]
        BY <2>1, <2>2, <2>5 DEF IInv, WalletInv, Writers, Unraced
      <4>. QED BY <1>7, <2>5, <4>1 DEF IInv, WriteBalance, TypeOK
    <3>3. Flow(u)'[r] - Flow(u)[r] = Due(r)
      <4>1. ~applied[r] /\ applied'[r] /\ pc'[r] = AfterWrite(r) /\ req[r].op # "none"
        BY <1>1, <1>7, <2>1 DEF IInv, Underway, Shape, WellFormed, WriteBalance, GoTo, TypeOK
      <4>2. Kept(r)' = Kept(r) /\ Owing(r)' = Owing(r) /\ Moved(r) = 0 /\ Kept(r) \in Int
        BY <2>1, <4>1 DEF IInv, TypeOK, Kept, Owing, Moved
      <4>3. Flow(u)[r] = 0 - Kept(r)
        BY <2>1, <2>5, <4>2 DEF Flow
      <4>4. Flow(u)'[r] = Moved(r)' - Kept(r) + (IF pc'[r] = "keep" THEN Owing(r) ELSE 0)
        BY <2>1, <2>5, <4>2 DEF Flow
      <4>5. CASE req[r].op \in {"block", "update", "release"}
        <5>1. pc'[r] = "keep" /\ Moved(r)' = 0 /\ Due(r) = Owing(r)
          BY <2>1, <4>1, <4>5 DEF AfterWrite, Moved, Due
        <5>2. Due(r) \in Int
          BY <3>1 DEF IInv, TypeOK
        <5>. QED BY <4>2, <4>3, <4>4, <5>1, <5>2
      <4>6. CASE req[r].op \in {"topUp", "confirm", "charge"}
        <5>1. pc'[r] # "keep" /\ Moved(r)' = Due(r)
          BY <2>1, <4>1, <4>6 DEF AfterWrite, Moved, Due
        <5>2. Due(r) \in Int
          BY <3>1 DEF IInv, TypeOK
        <5>. QED BY <4>2, <4>3, <4>4, <5>1, <5>2
      <4>. QED BY <4>1, <4>5, <4>6 DEF IInv, TypeOK, Request
    <3>4. SumFunctionOnSet(Flow(u)', Requests) =
              SumFunctionOnSet(Flow(u), Requests) + Flow(u)'[r] - Flow(u)[r]
      BY <1>3, <2>3, SumChanges
    <3>5. SumFunctionOnSet(Flow(u), Requests) \in Int
      BY <1>3, SumType
    <3>6. wallet[u] = Opening[u] + SumFunctionOnSet(Flow(u), Requests)
      BY <2>2 DEF BalanceInv
    <3>. QED
      <4> DEFINE s == SumFunctionOnSet(Flow(u), Requests)
                 t == SumFunctionOnSet(Flow(u)', Requests)
                 f == Flow(u)[r]
                 g == Flow(u)'[r]
      <4>1. s \in Int /\ f \in Int /\ g \in Int /\ t = s + g - f /\ delta[r] = g - f
        BY <1>3, <3>1, <3>3, <3>4, <3>5
      <4>2. wallet'[u] = (Opening[u] + s) + (g - f)
        BY <3>2, <3>6, <4>1
      <4>3. Opening[u] \in Int
        OBVIOUS
      <4> HIDE DEF s, t, f, g
      <4>4. wallet'[u] = Opening[u] + t
        BY <4>1, <4>2, <4>3
      <4>. QED BY <4>4 DEF t
  <2>. QED BY <2>4, <2>5
<1>8. ASSUME NEW r \in Requests, KeepHold(r)
      PROVE  wallet'[u] = Opening[u] + SumFunctionOnSet(Flow(u)', Requests)
  <2>1. /\ UNCHANGED <<wallet, req, applied, clashed, tangled>> /\ pc[r] = "keep" /\ pc'[r] # "keep"
        /\ \A s \in Requests \ {r} : pc'[s] = pc[s]
        /\ \A s \in Requests \ {RowOf(r)} : hold'[s] = hold[s]
        /\ RowOf(r) \in Requests => hold'[RowOf(r)] = StoredHold(r)
    BY <1>8 DEF IInv, KeepHold, GoTo, TypeOK, history
  <2>2. Unraced(u)
    BY <1>2, <2>1 DEF Unraced
  <2>3. /\ req[r].op \in TripOps /\ req[r].trip \in Trips /\ req[r].user = RiderOf[req[r].trip]
        /\ req[r].amt \in Int /\ hold[r].status = "none" /\ Kept(r) = 0
        /\ req[r].op = "confirm" => ~applied[r]
    <3>1. req[r].op \in TripOps /\ req[r].trip \in Trips
      BY <2>1 DEF IInv, Shape, WellFormed
    <3>2. /\ req[r].user = RiderOf[req[r].trip] /\ hold[r].status = "none"
          /\ req[r].op = "confirm" => ~applied[r]
      BY <1>1, <2>1, <3>1 DEF Underway
    <3>3. req[r].amt \in Int
      BY DEF IInv, TypeOK, Request
    <3>. QED BY <3>1, <3>2, <3>3 DEF Kept
  <2>4. Moved(r) = 0 /\ \A q \in Requests : Moved(q)' = Moved(q)
    BY <2>1, <2>3 DEF Moved, TripOps, SettleOps
  <2>5. \A q \in Requests \ {RowOf(r)} : Kept(q)' = Kept(q)
    BY <2>1 DEF Kept
  <2>6. ASSUME NEW q \in Requests \ {r}, pc[q] = "keep"
        PROVE  /\ q # RowOf(r)
               /\ req[q].user = u /\ req[q].op \in SettleOps =>
                    /\ req[q].row # RowOf(r)
                    /\ hold'[req[q].row] = hold[req[q].row]
    <3>1. q # RowOf(r)
      BY <2>1, <2>3, <2>6 DEF IInv, RowOf, Shape, WellFormed, Inserted, InFlight, TripOps
    <3>2. ASSUME req[q].user = u, req[q].op \in SettleOps PROVE req[q].row # RowOf(r)
      <4>1. /\ req[q].row \in Requests /\ tx[req[q].row].held
            /\ tx[req[q].row].trip = req[q].trip /\ pc[req[q].row] = "done"
            /\ req[q].trip \in Trips /\ RiderOf[req[q].trip] = u
        BY <1>1, <2>6, <3>2 DEF IInv, Shape, WellFormed, Inserted, InFlight, Underway, TripOps
      <4>2. Undisturbed(q)
        BY <2>2, <2>6, <3>2, <4>1 DEF Unraced, Undisturbed, InFlight
      <4>3. r \notin Settlers(req[q].trip)
        BY <2>6, <4>2 DEF IInv, TripInv, SettleInv
      <4>4. CASE req[r].op = "block"
        BY <2>1, <4>1, <4>4 DEF RowOf
      <4>5. CASE req[r].op # "block"
        <5>1. tx[RowOf(r)].trip = req[r].trip /\ r \in Settlers(req[r].trip)
          BY <2>1, <2>3, <4>5 DEF IInv, RowOf, Shape, WellFormed, InFlight, Settlers, TripOps
        <5>. QED BY <4>1, <4>3, <5>1
      <4>. QED BY <4>4, <4>5
    <3>3. ASSUME req[q].user = u, req[q].op \in SettleOps PROVE req[q].row \in Requests
      BY <2>6, <3>3 DEF IInv, Shape, WellFormed, InFlight
    <3>. QED BY <2>1, <3>1, <3>2, <3>3
  <2>7. ASSUME NEW q \in Requests \ {r, RowOf(r)} PROVE Flow(u)'[q] = Flow(u)[q]
    <3>1. pc'[q] = pc[q] /\ Kept(q)' = Kept(q) /\ Moved(q)' = Moved(q)
      BY <2>1, <2>4, <2>5, <2>7
    <3>2. req[q].user = u /\ pc[q] = "keep" => Owing(q)' = Owing(q)
      BY <2>1, <2>6, <2>7 DEF Owing, SettleOps
    <3>. QED BY <2>1, <3>1, <3>2 DEF Flow
  <2>8. CASE req[r].op = "block"
    <3>1. RowOf(r) = r /\ hold'[r] = [status |-> "CREATE", debit |-> req[r].amt]
      BY <2>1, <2>8 DEF RowOf, StoredHold
    <3>2. Kept(r)' = req[r].amt
      BY <3>1 DEF Kept
    <3>3. Owing(r) = -req[r].amt
      BY <2>8 DEF Owing
    <3>4. Flow(u)'[r] = Flow(u)[r]
      BY <2>1, <2>3, <2>4, <3>2, <3>3 DEF Flow
    <3>. QED BY <1>4, <2>1, <2>2, <2>7, <3>1, <3>4
  <2>9. CASE req[r].op # "block"
    <3>0. PICK x \in Requests : x = req[r].row
      BY <2>1, <2>3, <2>9 DEF IInv, Shape, WellFormed, InFlight, TripOps
    <3>1. /\ req[r].op \in SettleOps /\ RowOf(r) = x /\ req[r].row = x /\ x # r
          /\ tx[x].held /\ tx[x].trip = req[r].trip
          /\ req[x].op = "block" /\ pc[x] = "done" /\ req[x].trip = req[r].trip
      BY <2>1, <2>3, <2>9, <3>0 DEF IInv, RowOf, Shape, WellFormed, Inserted, InFlight, TripOps
    <3>2. req[x].user = req[r].user
      BY <1>1, <2>3, <3>1 DEF Underway, TripOps
    <3>3. pc'[x] = "done" /\ Moved(x) = 0 /\ Kept(r)' = 0 /\ hold[x].debit \in Int
      BY <2>1, <2>3, <2>5, <3>1 DEF IInv, TypeOK, Moved
    <3>4. CASE req[r].user # u
      <4>1. Flow(u)'[r] = Flow(u)[r] /\ Flow(u)'[x] = Flow(u)[x]
        BY <2>1, <3>1, <3>2, <3>4 DEF Flow
      <4>. QED BY <1>4, <2>1, <2>2, <2>7, <3>1, <4>1
    <3>5. CASE req[r].user = u
      <4>1. hold[x].status = "CREATE"
        <5>1. Undisturbed(r)
          BY <2>1, <2>2, <2>3, <3>1, <3>5 DEF Unraced, Undisturbed, InFlight
        <5>. QED BY <2>1, <3>1, <5>1 DEF IInv, TripInv, SettleInv, Phase
      <4>2. Kept(x) = hold[x].debit
        BY <4>1 DEF Kept
      <4>3. /\ req[r].op = "update"  => Kept(x)' = req[r].amt      /\ Owing(r) = hold[x].debit - req[r].amt
            /\ req[r].op = "confirm" => Kept(x)' = hold[x].debit   /\ Owing(r) = 0
            /\ req[r].op = "release" => Kept(x)' = 0               /\ Owing(r) = hold[x].debit
        BY <2>1, <3>1, <4>1 DEF Kept, Owing, StoredHold
      <4>4. Flow(u)[r] = Owing(r) /\ Flow(u)[x] = 0 - Kept(x)
        <5>1. Owing(r) \in Int
          BY <2>3, <3>1, <3>3, <4>3 DEF SettleOps
        <5>. QED BY <2>1, <2>3, <2>4, <3>1, <3>2, <3>3, <3>5, <4>2, <5>1 DEF Flow
      <4>5. Flow(u)'[r] = 0 /\ Flow(u)'[x] = 0 - Kept(x)'
        <5>1. Kept(x)' \in Int
          BY <2>3, <3>1, <3>3, <4>3 DEF SettleOps
        <5>2. Moved(r)' = 0 /\ Moved(x)' = 0
          BY <2>4, <3>1, <3>3
        <5>3. Flow(u)'[r] = 0
          BY <2>1, <3>3, <3>5, <5>2 DEF Flow
        <5>4. Flow(u)'[x] = 0 - Kept(x)'
          BY <2>1, <3>1, <3>2, <3>3, <3>5, <5>1, <5>2 DEF Flow
        <5>. QED BY <5>3, <5>4
      <4>6. Flow(u)'[r] + Flow(u)'[x] = Flow(u)[r] + Flow(u)[x]
        BY <2>3, <3>1, <3>3, <4>2, <4>3, <4>4, <4>5 DEF SettleOps
      <4>7. SumFunctionOnSet(Flow(u)', Requests) = SumFunctionOnSet(Flow(u), Requests)
        BY <1>3, <2>7, <3>1, <4>6, SumMoves
      <4>. QED BY <2>1, <2>2, <4>7 DEF BalanceInv
    <3>. QED BY <3>4, <3>5
  <2>. QED BY <2>8, <2>9
<1>. QED BY StepCases, <1>5, <1>6, <1>7, <1>8 DEF Step

\* The flows to the wallet of a user nothing of whom is under way, added up kind
\* by kind.
LEMMA Settled ==
    ASSUME IInv, FlowTypes, BalanceInv, IsFiniteSet(Requests)
    PROVE  BalanceSheet
<1>. USE IdsAssumption, AmountsAssumption
<1>1. SUFFICES ASSUME NEW u \in Users, Unraced(u),
                      \A r \in Requests : req[r].user = u => ~InFlight(r)
               PROVE  wallet[u] = Opening[u] + Asked(Applied({"topUp", "confirm"}, u))
                                    - Asked(Applied({"charge"}, u)) - Debited(Held(u))
  BY DEF BalanceSheet
<1> DEFINE S(f) == SumFunctionOnSet(f, Requests)
           In == [r \in Requests |-> IF r \in Applied({"topUp", "confirm"}, u) THEN req[r].amt ELSE 0]
           Out == [r \in Requests |-> IF r \in Applied({"charge"}, u) THEN req[r].amt ELSE 0]
           Bound == [r \in Requests |-> IF r \in Held(u) THEN hold[r].debit ELSE 0]
           Net == [r \in Requests |-> In[r] - Out[r]]
<1>2. \A r \in Requests : req[r].amt \in Int /\ hold[r].debit \in Int
  BY DEF IInv, TypeOK, Request
<1>3. \A r \in Requests : In[r] \in Int /\ Out[r] \in Int /\ Bound[r] \in Int /\ Net[r] \in Int
  BY <1>2
<1>4. S(In) = Asked(Applied({"topUp", "confirm"}, u))
  <2> DEFINE F == [r \in Requests |-> req[r].amt]
             T == Applied({"topUp", "confirm"}, u)
  <2>1. /\ \A x \in Requests : F[x] \in Int /\ In[x] = (IF x \in T THEN F[x] ELSE 0)
        /\ T \subseteq Requests
    BY <1>2 DEF Applied
  <2>2. Asked(T) = SumFunctionOnSet(F, T)
    BY DEF Asked
  <2> HIDE DEF F, T, In
  <2>3. S(In) = SumFunctionOnSet(F, T)
    BY <2>1, SumOver
  <2>. QED BY <2>2, <2>3 DEF T
<1>5. S(Out) = Asked(Applied({"charge"}, u))
  <2> DEFINE F == [r \in Requests |-> req[r].amt]
             T == Applied({"charge"}, u)
  <2>1. /\ \A x \in Requests : F[x] \in Int /\ Out[x] = (IF x \in T THEN F[x] ELSE 0)
        /\ T \subseteq Requests
    BY <1>2 DEF Applied
  <2>2. Asked(T) = SumFunctionOnSet(F, T)
    BY DEF Asked
  <2> HIDE DEF F, T, Out
  <2>3. S(Out) = SumFunctionOnSet(F, T)
    BY <2>1, SumOver
  <2>. QED BY <2>2, <2>3 DEF T
<1>6. S(Bound) = Debited(Held(u))
  <2> DEFINE F == [r \in Requests |-> hold[r].debit]
             T == Held(u)
  <2>1. /\ \A x \in Requests : F[x] \in Int /\ Bound[x] = (IF x \in T THEN F[x] ELSE 0)
        /\ T \subseteq Requests
    BY <1>2 DEF Held
  <2>2. Debited(T) = SumFunctionOnSet(F, T)
    BY DEF Debited
  <2> HIDE DEF F, T, Bound
  <2>3. S(Bound) = SumFunctionOnSet(F, T)
    BY <2>1, SumOver
  <2>. QED BY <2>2, <2>3 DEF T
<1>7. ASSUME NEW r \in Requests PROVE Flow(u)[r] = Net[r] - Bound[r]
  <2>1. CASE req[r].user # u
    <3>1. In[r] = 0 /\ Out[r] = 0 /\ Bound[r] = 0 /\ Flow(u)[r] = 0
      BY <2>1 DEF Applied, Held, Flow
    <3>. QED BY <3>1
  <2>2. CASE req[r].user = u
    <3>1. Flow(u)[r] = Moved(r) - Kept(r)
      <4>1. Moved(r) \in Int /\ Kept(r) \in Int /\ pc[r] # "keep"
        BY <1>1, <1>2, <2>2 DEF Moved, Kept, InFlight
      <4>. QED BY <2>2, <4>1 DEF Flow
    <3>2. Kept(r) = Bound[r]
      BY <2>2 DEF Kept, Held
    <3>3. Moved(r) = In[r] - Out[r]
      BY <1>2, <2>2 DEF Moved, Applied
    <3>. QED BY <3>1, <3>2, <3>3
  <2>. QED BY <2>1, <2>2
<1>8. wallet[u] = Opening[u] + S(Flow(u))
  BY <1>1 DEF BalanceInv
<1>9. \A r \in Requests : Net[r] = In[r] - Out[r]
  OBVIOUS
<1> HIDE DEF In, Out, Bound, Net
<1>10. S(Net) = S(In) - S(Out) /\ S(Flow(u)) = S(Net) - S(Bound)
  BY <1>3, <1>7, <1>9, SumLess
<1>11. S(In) \in Int /\ S(Out) \in Int /\ S(Bound) \in Int /\ Opening[u] \in Int
  BY <1>3, SumType
<1> HIDE DEF S
<1>12. wallet[u] = Opening[u] + S(In) - S(Out) - S(Bound)
  BY <1>8, <1>10, <1>11
<1>. QED BY <1>4, <1>5, <1>6, <1>12

\* At the start nothing has moved: the balance is the opening balance.
LEMMA InitBalance ==
    ASSUME Init, IsFiniteSet(Requests)
    PROVE  BalanceInv
<1>. USE IdsAssumption, AmountsAssumption
<1>1. ASSUME NEW r \in Requests PROVE Underway(r)
  BY DEF Init, Underway, NoReq, Req, NoHold, TripOps, SettleOps
<1>2. ASSUME NEW u \in Users PROVE wallet[u] = Opening[u] + SumFunctionOnSet(Flow(u), Requests)
  <2> DEFINE Zero == [r \in Requests |-> 0]
  <2>1. \A r \in Requests : Flow(u)[r] = 0
    BY DEF Init, Flow, Moved, Kept, NoHold
  <2>2. \A r \in Requests : Flow(u)[r] \in Int /\ Flow(u)[r] = Flow(u)[r] - Flow(u)[r]
    BY <2>1
  <2>3. SumFunctionOnSet(Flow(u), Requests) =
            SumFunctionOnSet(Flow(u), Requests) - SumFunctionOnSet(Flow(u), Requests)
    BY <2>2, SumLess
  <2>4. SumFunctionOnSet(Flow(u), Requests) \in Int
    BY <2>2, SumType
  <2>5. SumFunctionOnSet(Flow(u), Requests) = 0
    BY <2>3, <2>4
  <2>. QED BY <2>5 DEF Init
<1>. QED BY <1>1, <1>2 DEF BalanceInv

\* Whatever the users, trips, amounts and requests, and however their accesses
\* interleave, the wallet of a user nothing of whom is under way is what he
\* started with, put in and was given, less what he was charged, has held and paid.
THEOREM BalanceSheetHolds ==
    ASSUME IsFiniteSet(Requests)
    PROVE  Spec => []BalanceSheet
<1> DEFINE BInv == IInv /\ BalanceInv
<1>1. Init => BInv
  BY InitIInv, InitBalance
<1>2. BInv /\ [Next]_vars => BInv'
  <2>1. SUFFICES ASSUME BInv, [Next]_vars PROVE BInv'
    OBVIOUS
  <2>2. IInv'
    BY <2>1, NextIInv
  <2>3. FlowTypes /\ FlowTypes'
    <3>1. FlowTypes
      BY <2>1, FlowsTyped
    <3>2. FlowTypes'
      BY <2>2, FlowsTyped, PTL
    <3>. QED BY <3>1, <3>2
  <2>4. CASE UNCHANGED vars
    <3>1. \A r \in Requests : Underway(r)'
      BY <2>1, <2>4 DEF BalanceInv, Underway, vars, rows, locals, history, Undisturbed,
         InFlight, Due, Owing
    <3>2. ASSUME NEW u \in Users PROVE Flow(u)' = Flow(u) /\ (Unraced(u)' <=> Unraced(u))
      BY <2>4 DEF vars, rows, locals, history, Flow, Moved, Kept, Owing, Unraced
    <3>3. wallet' = wallet
      BY <2>4 DEF vars, rows
    <3>. QED BY <2>1, <2>2, <3>1, <3>2, <3>3 DEF BalanceInv
  <2>5. CASE Next
    BY <2>1, <2>2, <2>3, <2>5, BalanceStep
  <2>. QED BY <2>1, <2>4, <2>5
<1>3. BInv => BalanceSheet
  BY FlowsTyped, Settled
<1>. QED BY <1>1, <1>2, <1>3, PTL DEF Spec
=============================================================================
