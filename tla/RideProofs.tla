------------------------------ MODULE RideProofs ------------------------------
(* That the amounts on the trips row are those the payment service moved, for *)
(* all rates, charges, discounts and percentages and any number of handlers   *)
(* and setbacks (Fares); and that trips and bookings of a rider keep out of   *)
(* each other's way, for all riders, trips, replicas and numbers of faults    *)
(* (ScheduledTrips).                                                          *)
EXTENDS Fares, Bookings, FiniteSetTheorems, TLAPS

CONSTANTS Kinds, CaptainRiders, Replicas, LastSlot, NotifyAhead, MaxFaults, None

VARIABLES ranOn, faults

Sched == INSTANCE ScheduledTrips

-----------------------------------------------------------------------------
(* The invariant of the amounts *)

\* What may still be ahead of a handler.
StagesOf ==
    [accept         |-> {<<"rate", "sum", "hold", "write">>, <<"sum", "hold", "write">>,
                         <<"hold", "write">>, <<"write">>},
     start          |-> {<<"write">>},
     change         |-> {<<"sum", "update", "write">>, <<"update", "write">>, <<"write">>},
     complete       |-> {<<"rate", "sum", "update", "confirm", "write">>,
                         <<"sum", "update", "confirm", "write">>,
                         <<"update", "confirm", "write">>, <<"confirm", "write">>, <<"write">>},
     cancelStarted  |-> {<<"sum", "update", "confirm", "write">>,
                         <<"update", "confirm", "write">>, <<"confirm", "write">>, <<"write">>},
     cancelLate     |-> {<<"update", "confirm", "write">>, <<"confirm", "write">>, <<"write">>},
     cancelEarly    |-> {<<"release", "write">>, <<"write">>},
     cancelUnheld   |-> {<<"write">>},
     cancelByDriver |-> {<<"release", "write">>, <<"write">>}]

Ops == DOMAIN StepsOf

Ahead(h) == Head(fareJob[h].steps)

FareRow ==
    [status : {"PENDING", "ACCEPTED_BY_DRIVER", "STARTED", "COMPLETED",
               "CANCELLED_BY_RIDER", "CANCELLED_BY_DRIVER"},
     started : BOOLEAN, base : Nat, tax : Nat, fee : Nat, waiting : Nat, promo : Int,
     rider : Int, driver : Nat, changes : Nat]

HoldRow ==
    [status : {"none", "CREATE", "CONFIRM", "ROLLBACK"},
     amount : Nat, fee : Nat, tax : Nat, discount : Nat]

JobRow ==
    [op : Ops \cup {"none"}, steps : (UNION {StagesOf[op] : op \in Ops}) \cup {<<>>},
     base : Nat, fee : Nat, tax : Nat, waiting : Nat, promo : Int, rider : Int]

Manned ==
    /\ fareJob \in [Handlers -> JobRow]
    /\ \A h \in Handlers :
          /\ fareJob[h].op = "none" <=> fareJob[h] = Idle
          /\ fareJob[h].op # "none" => fareJob[h].steps \in StagesOf[fareJob[h].op]

Shape ==
    /\ fare \in FareRow /\ hold \in HoldRow /\ Manned
    /\ setbacks \in 0..MaxSetbacks
    /\ overtaken \subseteq Working /\ crossed \in BOOLEAN /\ unwritten \in BOOLEAN

\* A handler whom nobody has overtaken knows how far the trip is,
InTime(op) ==
    /\ op = "accept" => fare.status = "PENDING"
    /\ op = "start" => fare.status = "ACCEPTED_BY_DRIVER"
    /\ op \in {"change", "complete", "cancelStarted"} =>
          fare.status \in {"ACCEPTED_BY_DRIVER", "STARTED", "PENDING"} /\ fare.started
    /\ op \in {"cancelLate", "cancelEarly"} =>
          fare.status = "ACCEPTED_BY_DRIVER" /\ ~fare.started
    /\ op = "cancelUnheld" => fare.status = "PENDING" /\ ~fare.started
    /\ op = "cancelByDriver" => fare.status \in {"ACCEPTED_BY_DRIVER", "STARTED"}

\* has stored what it goes by,
Stored(h) ==
    LET j == fareJob[h] IN
    /\ j.op \in {"accept", "change", "cancelStarted", "cancelLate"} => j.waiting = 0
    /\ j.op \in {"cancelStarted", "cancelLate"} => j.promo = 0
    /\ j.op = "accept" /\ Ahead(h) # "rate" => fare.driver = j.base
    /\ j.op = "complete" => j.waiting = fare.waiting /\ j.promo = fare.promo
    /\ j.op = "complete" /\ Ahead(h) # "rate" => fare.base = j.base /\ fare.tax = j.tax
    /\ j.op = "complete" /\ Ahead(h) \notin {"rate", "sum"} =>
          j.rider = j.base + j.tax + j.waiting + fare.fee - j.promo

\* and finds the hold as it has left it.
Charged(h) ==
    LET j == fareJob[h] IN
    /\ j.op = "accept" /\ Ahead(h) = "write" => hold.amount = j.base
    /\ j.op \in {"change", "complete", "cancelStarted", "cancelLate"}
          /\ Ahead(h) \in {"confirm", "write"} => hold.amount = Due(j) /\ hold.tax = j.tax
    /\ j.op \in {"complete", "cancelStarted", "cancelLate"} /\ Ahead(h) = "write" =>
          hold.status = "CONFIRM" /\ hold.discount = Discount(j.promo)
    /\ j.op \in {"cancelEarly", "cancelByDriver"} /\ Ahead(h) = "write" =>
          hold.status = "ROLLBACK"

Abreast(h) == InTime(fareJob[h].op) /\ Stored(h) /\ Charged(h)

\* Between the payment and the row.
Midway(h) == h \in Working /\ fareJob[h].op # "start" /\ Ahead(h) \in {"confirm", "write"}

\* What the app shows is blocked, or a handler is about to make it so.
Shown ==
    fare.status \in {"ACCEPTED_BY_DRIVER", "STARTED"} /\ hold.status = "CREATE" /\ ~unwritten =>
        fare.driver = hold.amount \/ \E h \in Handlers : Midway(h)

\* A trip that may be cancelled without its hold is not paid for, and a driver's
\* cancellation has released it.
Unpaid ==
    /\ fare.status = "PENDING" /\ ~fare.started => hold.status # "CONFIRM"
    /\ fare.status = "CANCELLED_BY_DRIVER" => hold.status # "CONFIRM"

Told == Unpaid /\ Shown /\ DriverPaidAsStated /\ TotalExplained

FareInv ==
    /\ Shape
    /\ ~crossed => Told /\ \A h \in Working \ overtaken : Abreast(h)
-----------------------------------------------------------------------------
(* Amounts and steps *)

\* Fee and tax of an amount are amounts.
LEMMA Levies ==
    ASSUME Figures, NEW amount \in Nat, NEW fee \in Nat
    PROVE  Fee(amount) \in Nat /\ Tax(amount, fee) \in Nat
<1>1. \A x \in Nat : x \div 100 \in Nat
  OBVIOUS
<1>2. \A x, y \in Nat : x * y \in Nat
  OBVIOUS
<1>3. amount * FeePercentage \in Nat
  BY <1>2 DEF Figures
<1>4. (amount + fee) * TaxPercentage \in Nat
  BY <1>2 DEF Figures
<1>. QED BY <1>1, <1>3, <1>4 DEF Fee, Tax

\* What follows what.
LEMMA Course ==
    ASSUME NEW op \in Ops, NEW s \in StagesOf[op]
    PROVE  /\ Head(s) \in {"rate", "sum", "hold", "update", "confirm", "release", "write"}
           /\ Head(s) # "write" => Tail(s) \in StagesOf[op]
           /\ Head(s) = "rate" => op \in {"accept", "complete"} /\ Head(Tail(s)) = "sum"
           /\ Head(s) = "sum" => \/ op = "accept" /\ Head(Tail(s)) = "hold"
                                 \/ /\ op \in {"change", "complete", "cancelStarted"}
                                    /\ Head(Tail(s)) = "update"
           /\ Head(s) = "hold" => op = "accept" /\ Head(Tail(s)) = "write"
           /\ Head(s) = "update" => \/ op = "change" /\ Head(Tail(s)) = "write"
                                    \/ /\ op \in {"complete", "cancelStarted", "cancelLate"}
                                       /\ Head(Tail(s)) = "confirm"
           /\ Head(s) = "confirm" => /\ op \in {"complete", "cancelStarted", "cancelLate"}
                                     /\ Head(Tail(s)) = "write"
           /\ Head(s) = "release" => /\ op \in {"cancelEarly", "cancelByDriver"}
                                     /\ Head(Tail(s)) = "write"
<1>1. Ops = {"accept", "start", "change", "complete", "cancelStarted", "cancelLate",
             "cancelEarly", "cancelUnheld", "cancelByDriver"}
  BY DEF Ops, StepsOf
<1>9. /\ Tail(<<"rate", "sum", "hold", "write">>) = <<"sum", "hold", "write">>
      /\ Tail(<<"sum", "hold", "write">>) = <<"hold", "write">>
      /\ Tail(<<"hold", "write">>) = <<"write">>
      /\ Tail(<<"sum", "update", "write">>) = <<"update", "write">>
      /\ Tail(<<"update", "write">>) = <<"write">>
      /\ Tail(<<"rate", "sum", "update", "confirm", "write">>) = <<"sum", "update", "confirm", "write">>
      /\ Tail(<<"sum", "update", "confirm", "write">>) = <<"update", "confirm", "write">>
      /\ Tail(<<"update", "confirm", "write">>) = <<"confirm", "write">>
      /\ Tail(<<"confirm", "write">>) = <<"write">>
      /\ Tail(<<"release", "write">>) = <<"write">>
  OBVIOUS
<1>10. \A a, b, c, d, e : /\ Head(<<a>>) = a /\ Head(<<a, b>>) = a /\ Head(<<a, b, c>>) = a
                         /\ Head(<<a, b, c, d>>) = a /\ Head(<<a, b, c, d, e>>) = a
  OBVIOUS
<1>2. CASE op = "accept"
  <2>0. s \in {<<"rate", "sum", "hold", "write">>,
              <<"sum", "hold", "write">>,
              <<"hold", "write">>,
              <<"write">>}
    BY <1>2 DEF StagesOf
  <2>1. CASE s = <<"rate", "sum", "hold", "write">>
    <3>1. Head(s) = "rate"
      BY <2>1
    <3>2. Tail(s) = <<"sum", "hold", "write">> /\ Head(Tail(s)) = "sum"
      BY <1>9, <2>1
    <3>3. Tail(s) \in StagesOf[op]
      BY <1>2, <3>2 DEF StagesOf
    <3>. QED BY <1>2, <3>1, <3>2, <3>3
  <2>2. CASE s = <<"sum", "hold", "write">>
    <3>1. Head(s) = "sum"
      BY <2>2
    <3>2. Tail(s) = <<"hold", "write">> /\ Head(Tail(s)) = "hold"
      BY <1>9, <2>2
    <3>3. Tail(s) \in StagesOf[op]
      BY <1>2, <3>2 DEF StagesOf
    <3>. QED BY <1>2, <3>1, <3>2, <3>3
  <2>3. CASE s = <<"hold", "write">>
    <3>1. Head(s) = "hold"
      BY <2>3
    <3>2. Tail(s) = <<"write">> /\ Head(Tail(s)) = "write"
      BY <1>9, <2>3
    <3>3. Tail(s) \in StagesOf[op]
      BY <1>2, <3>2 DEF StagesOf
    <3>. QED BY <1>2, <3>1, <3>2, <3>3
  <2>4. CASE s = <<"write">>
    <3>1. Head(s) = "write"
      BY <2>4
    <3>. QED BY <1>2, <3>1
  <2>. QED BY <2>0, <2>1, <2>2, <2>3, <2>4
<1>3. CASE op \in {"start", "cancelUnheld"}
  BY <1>3, <1>10 DEF StagesOf
<1>4. CASE op = "change"
  <2>0. s \in {<<"sum", "update", "write">>, <<"update", "write">>, <<"write">>}
    BY <1>4 DEF StagesOf
  <2>1. CASE s = <<"sum", "update", "write">>
    <3>1. Head(s) = "sum"
      BY <2>1
    <3>2. Tail(s) = <<"update", "write">> /\ Head(Tail(s)) = "update"
      BY <1>9, <2>1
    <3>3. Tail(s) \in StagesOf[op]
      BY <1>4, <3>2 DEF StagesOf
    <3>. QED BY <1>4, <3>1, <3>2, <3>3
  <2>2. CASE s = <<"update", "write">>
    <3>1. Head(s) = "update"
      BY <2>2
    <3>2. Tail(s) = <<"write">> /\ Head(Tail(s)) = "write"
      BY <1>9, <2>2
    <3>3. Tail(s) \in StagesOf[op]
      BY <1>4, <3>2 DEF StagesOf
    <3>. QED BY <1>4, <3>1, <3>2, <3>3
  <2>3. CASE s = <<"write">>
    <3>1. Head(s) = "write"
      BY <2>3
    <3>. QED BY <1>4, <3>1
  <2>. QED BY <2>0, <2>1, <2>2, <2>3
<1>5. CASE op = "complete"
  <2>0. s \in {<<"rate", "sum", "update", "confirm", "write">>,
              <<"sum", "update", "confirm", "write">>,
              <<"update", "confirm", "write">>,
              <<"confirm", "write">>,
              <<"write">>}
    BY <1>5 DEF StagesOf
  <2>1. CASE s = <<"rate", "sum", "update", "confirm", "write">>
    <3>1. Head(s) = "rate"
      BY <2>1
    <3>2. Tail(s) = <<"sum", "update", "confirm", "write">> /\ Head(Tail(s)) = "sum"
      BY <1>9, <2>1
    <3>3. Tail(s) \in StagesOf[op]
      BY <1>5, <3>2 DEF StagesOf
    <3>. QED BY <1>5, <3>1, <3>2, <3>3
  <2>2. CASE s = <<"sum", "update", "confirm", "write">>
    <3>1. Head(s) = "sum"
      BY <2>2
    <3>2. Tail(s) = <<"update", "confirm", "write">> /\ Head(Tail(s)) = "update"
      BY <1>9, <2>2
    <3>3. Tail(s) \in StagesOf[op]
      BY <1>5, <3>2 DEF StagesOf
    <3>. QED BY <1>5, <3>1, <3>2, <3>3
  <2>3. CASE s = <<"update", "confirm", "write">>
    <3>1. Head(s) = "update"
      BY <2>3
    <3>2. Tail(s) = <<"confirm", "write">> /\ Head(Tail(s)) = "confirm"
      BY <1>9, <2>3
    <3>3. Tail(s) \in StagesOf[op]
      BY <1>5, <3>2 DEF StagesOf
    <3>. QED BY <1>5, <3>1, <3>2, <3>3
  <2>4. CASE s = <<"confirm", "write">>
    <3>1. Head(s) = "confirm"
      BY <2>4
    <3>2. Tail(s) = <<"write">> /\ Head(Tail(s)) = "write"
      BY <1>9, <2>4
    <3>3. Tail(s) \in StagesOf[op]
      BY <1>5, <3>2 DEF StagesOf
    <3>. QED BY <1>5, <3>1, <3>2, <3>3
  <2>5. CASE s = <<"write">>
    <3>1. Head(s) = "write"
      BY <2>5
    <3>. QED BY <1>5, <3>1
  <2>. QED BY <2>0, <2>1, <2>2, <2>3, <2>4, <2>5
<1>6. CASE op = "cancelStarted"
  <2>0. s \in {<<"sum", "update", "confirm", "write">>,
              <<"update", "confirm", "write">>,
              <<"confirm", "write">>,
              <<"write">>}
    BY <1>6 DEF StagesOf
  <2>1. CASE s = <<"sum", "update", "confirm", "write">>
    <3>1. Head(s) = "sum"
      BY <2>1
    <3>2. Tail(s) = <<"update", "confirm", "write">> /\ Head(Tail(s)) = "update"
      BY <1>9, <2>1
    <3>3. Tail(s) \in StagesOf[op]
      BY <1>6, <3>2 DEF StagesOf
    <3>. QED BY <1>6, <3>1, <3>2, <3>3
  <2>2. CASE s = <<"update", "confirm", "write">>
    <3>1. Head(s) = "update"
      BY <2>2
    <3>2. Tail(s) = <<"confirm", "write">> /\ Head(Tail(s)) = "confirm"
      BY <1>9, <2>2
    <3>3. Tail(s) \in StagesOf[op]
      BY <1>6, <3>2 DEF StagesOf
    <3>. QED BY <1>6, <3>1, <3>2, <3>3
  <2>3. CASE s = <<"confirm", "write">>
    <3>1. Head(s) = "confirm"
      BY <2>3
    <3>2. Tail(s) = <<"write">> /\ Head(Tail(s)) = "write"
      BY <1>9, <2>3
    <3>3. Tail(s) \in StagesOf[op]
      BY <1>6, <3>2 DEF StagesOf
    <3>. QED BY <1>6, <3>1, <3>2, <3>3
  <2>4. CASE s = <<"write">>
    <3>1. Head(s) = "write"
      BY <2>4
    <3>. QED BY <1>6, <3>1
  <2>. QED BY <2>0, <2>1, <2>2, <2>3, <2>4
<1>7. CASE op = "cancelLate"
  <2>0. s \in {<<"update", "confirm", "write">>, <<"confirm", "write">>, <<"write">>}
    BY <1>7 DEF StagesOf
  <2>1. CASE s = <<"update", "confirm", "write">>
    <3>1. Head(s) = "update"
      BY <2>1
    <3>2. Tail(s) = <<"confirm", "write">> /\ Head(Tail(s)) = "confirm"
      BY <1>9, <2>1
    <3>3. Tail(s) \in StagesOf[op]
      BY <1>7, <3>2 DEF StagesOf
    <3>. QED BY <1>7, <3>1, <3>2, <3>3
  <2>2. CASE s = <<"confirm", "write">>
    <3>1. Head(s) = "confirm"
      BY <2>2
    <3>2. Tail(s) = <<"write">> /\ Head(Tail(s)) = "write"
      BY <1>9, <2>2
    <3>3. Tail(s) \in StagesOf[op]
      BY <1>7, <3>2 DEF StagesOf
    <3>. QED BY <1>7, <3>1, <3>2, <3>3
  <2>3. CASE s = <<"write">>
    <3>1. Head(s) = "write"
      BY <2>3
    <3>. QED BY <1>7, <3>1
  <2>. QED BY <2>0, <2>1, <2>2, <2>3
<1>8. CASE op \in {"cancelEarly", "cancelByDriver"}
  <2>0. s \in {<<"release", "write">>, <<"write">>}
    BY <1>8 DEF StagesOf
  <2>1. CASE s = <<"release", "write">>
    <3>1. Head(s) = "release"
      BY <2>1
    <3>2. Tail(s) = <<"write">> /\ Head(Tail(s)) = "write"
      BY <1>9, <2>1
    <3>3. Tail(s) \in StagesOf[op]
      <4>1. CASE op = "cancelEarly"
        BY <3>2, <4>1 DEF StagesOf
      <4>2. CASE op = "cancelByDriver"
        BY <3>2, <4>2 DEF StagesOf
      <4>. QED BY <1>8, <4>1, <4>2
    <3>. QED BY <1>8, <3>1, <3>2, <3>3
  <2>2. CASE s = <<"write">>
    <3>1. Head(s) = "write"
      BY <2>2
    <3>. QED BY <1>8, <3>1
  <2>. QED BY <2>0, <2>1, <2>2
<1>. QED BY <1>1, <1>2, <1>3, <1>4, <1>5, <1>6, <1>7, <1>8

\* What comes first.
LEMMA Beginnings ==
    /\ \A op \in Ops : StepsOf[op] \in StagesOf[op]
    /\ \A op \in {"accept", "complete"} : Head(StepsOf[op]) = "rate"
    /\ \A op \in {"change", "cancelStarted"} : Head(StepsOf[op]) = "sum"
    /\ \A op \in {"cancelEarly", "cancelByDriver"} : Head(StepsOf[op]) = "release"
    /\ \A op \in {"start", "cancelUnheld"} : Head(StepsOf[op]) = "write"
    /\ Head(StepsOf["cancelLate"]) = "update"
    /\ "none" \notin Ops
    /\ Ops = {"accept", "start", "change", "complete", "cancelStarted", "cancelLate",
              "cancelEarly", "cancelUnheld", "cancelByDriver"}
<1>1. Ops = {"accept", "start", "change", "complete", "cancelStarted", "cancelLate",
             "cancelEarly", "cancelUnheld", "cancelByDriver"}
  BY DEF Ops, StepsOf
<1>2. \A op \in Ops : StepsOf[op] \in StagesOf[op]
  BY <1>1 DEF StepsOf, StagesOf
<1>. QED BY <1>1, <1>2 DEF StepsOf

\* A handler at work has something ahead, and an idle one is a job too.
LEMMA Busy ==
    ASSUME Manned
    PROVE  /\ Working = {h \in Handlers : fareJob[h].op # "none"}
           /\ \A h \in Working : /\ fareJob[h] \in JobRow /\ fareJob[h].op \in Ops
                                 /\ fareJob[h].steps \in StagesOf[fareJob[h].op]
           /\ Idle \in JobRow /\ Idle.op = "none"
<1>1. Working = {h \in Handlers : fareJob[h].op # "none"}
  BY DEF Manned, Working
<1>2. \A h \in Handlers : fareJob[h] \in JobRow
  BY DEF Manned
<1>3. Idle \in JobRow /\ Idle.op = "none"
  BY DEF Idle, JobRow
<1>4. \A h \in Handlers : fareJob[h].op \in Ops \cup {"none"}
  BY <1>2 DEF JobRow
<1>. QED BY <1>1, <1>2, <1>3, <1>4 DEF Manned

\* A handler that goes on keeps what it goes by.
LEMMA GoesOn ==
    ASSUME Manned, NEW h \in Working, NEW j \in JobRow, Go(h, j),
           j.op = fareJob[h].op, j.steps = fareJob[h].steps, Ahead(h) # "write"
    PROVE  /\ Manned' /\ Working' = Working
           /\ \A g \in Handlers \ {h} : fareJob'[g] = fareJob[g]
           /\ fareJob'[h].op = j.op /\ fareJob'[h].base = j.base /\ fareJob'[h].fee = j.fee
           /\ fareJob'[h].tax = j.tax /\ fareJob'[h].waiting = j.waiting /\ fareJob'[h].promo = j.promo
           /\ fareJob'[h].rider = j.rider
           /\ Ahead(h)' = Head(Tail(fareJob[h].steps))
<1> DEFINE k == [j EXCEPT !.steps = Tail(j.steps)]
<1>0. /\ h \in Handlers /\ fareJob[h].op \in Ops /\ fareJob[h].steps \in StagesOf[fareJob[h].op]
      /\ Idle.op = "none" /\ "none" \notin Ops
  BY Busy, Beginnings DEF Working
<1>1. fareJob' = [fareJob EXCEPT ![h] = k]
  BY DEF Go
<1>2. Tail(j.steps) \in StagesOf[j.op] /\ j.op \in Ops
  BY <1>0, Course DEF Ahead
<1>3. Tail(j.steps) \in UNION {StagesOf[op] : op \in Ops}
  BY <1>2
<1>4. /\ k \in JobRow /\ k.op = j.op /\ k.base = j.base /\ k.fee = j.fee /\ k.tax = j.tax
      /\ k.waiting = j.waiting /\ k.promo = j.promo /\ k.rider = j.rider
      /\ k.steps = Tail(j.steps)
  BY <1>3 DEF JobRow
<1> HIDE DEF k
<1>5. fareJob'[h] = k /\ fareJob' \in [Handlers -> JobRow] /\ \A g \in Handlers \ {h} : fareJob'[g] = fareJob[g]
  BY <1>0, <1>1, <1>4 DEF Manned
<1>6. k # Idle /\ k.op # "none"
  BY <1>0, <1>4
<1>7. Manned'
  BY <1>0, <1>2, <1>4, <1>5, <1>6 DEF Manned
<1>8. Working' = Working
  BY <1>0, <1>5, <1>6 DEF Working
<1>. QED BY <1>4, <1>5, <1>7, <1>8 DEF Ahead

\* A handler that is done is idle.
LEMMA GoesHome ==
    ASSUME Manned, NEW h \in Working, fareJob' = [fareJob EXCEPT ![h] = Idle]
    PROVE  /\ Manned' /\ Working' = Working \ {h}
           /\ \A g \in Handlers \ {h} : fareJob'[g] = fareJob[g]
<1>1. h \in Handlers /\ fareJob \in [Handlers -> JobRow] /\ Idle \in JobRow /\ Idle.op = "none"
  BY Busy DEF Manned, Working
<1>2. fareJob'[h] = Idle /\ fareJob' \in [Handlers -> JobRow] /\ \A g \in Handlers \ {h} : fareJob'[g] = fareJob[g]
  BY <1>1
<1>. QED BY <1>1, <1>2 DEF Manned, Working

\* Whoever acts on what another one has changed crosses him; else he is the only one
\* left who is in time.
LEMMA Leads ==
    ASSUME FareInv, NEW h \in Working, Changed(h), Working' \subseteq Working
    PROVE  /\ overtaken' \subseteq Working \ {h} /\ crossed' \in BOOLEAN
           /\ ~crossed' => /\ ~crossed /\ h \notin overtaken /\ Told /\ Abreast(h)
                           /\ Working' \ overtaken' \subseteq {h}
<1>1. overtaken \subseteq Working /\ crossed \in BOOLEAN
  BY DEF FareInv, Shape
<1>. QED BY <1>1 DEF FareInv, Changed
-----------------------------------------------------------------------------
(* Requests *)

\* A request that begins finds the trip as its handler needs it, and changes nothing.
LEMMA BeginFares ==
    ASSUME FareInv, NEW h \in Handlers, NEW op \in Ops, NEW j \in JobRow, Begin(h, op, j),
           InTime(op),
           op \in {"accept", "change", "cancelStarted", "cancelLate"} => j.waiting = 0,
           op \in {"cancelStarted", "cancelLate"} => j.promo = 0,
           op = "complete" => j.waiting = fare.waiting /\ j.promo = fare.promo
    PROVE  FareInv'
<1> DEFINE k == [j EXCEPT !.op = op, !.steps = StepsOf[op]]
<1>0. Manned /\ Shape /\ fareJob[h] = Idle /\ Idle.op = "none" /\ op # "none"
  BY Busy, Beginnings DEF FareInv, Shape, Begin
<1>1. fareJob' = [fareJob EXCEPT ![h] = k] /\ UNCHANGED <<fare, hold, setbacks, overtaken, crossed, unwritten>>
  BY DEF Begin
<1>2. StepsOf[op] \in StagesOf[op] /\ StepsOf[op] \in UNION {StagesOf[o] : o \in Ops}
  BY Beginnings
<1>3. /\ k \in JobRow /\ k.op = op /\ k.steps = StepsOf[op] /\ k.base = j.base /\ k.tax = j.tax
      /\ k.waiting = j.waiting /\ k.promo = j.promo
  BY <1>2 DEF JobRow
<1> HIDE DEF k
<1>4. fareJob'[h] = k /\ fareJob' \in [Handlers -> JobRow] /\ \A g \in Handlers \ {h} : fareJob'[g] = fareJob[g]
  BY <1>0, <1>1, <1>3 DEF Manned
<1>5. k # Idle
  BY <1>0, <1>3
<1>6. Manned'
  BY <1>0, <1>2, <1>3, <1>4, <1>5 DEF Manned
<1>7. Working' = Working \cup {h} /\ h \notin Working
  BY <1>0, <1>4, <1>5 DEF Working
<1>8. Shape'
  BY <1>0, <1>1, <1>6, <1>7 DEF Shape
<1>9. SUFFICES ASSUME ~crossed
               PROVE  Told' /\ \A g \in Working' \ overtaken' : Abreast(g)'
  BY <1>1, <1>8 DEF FareInv
<1>10. Told'
  <2>1. Told
    BY <1>9 DEF FareInv
  <2>2. \A g \in Handlers : Midway(g) => Midway(g)'
    BY <1>4, <1>7 DEF Midway, Ahead
  <2>3. Shown'
    BY <1>1, <2>1, <2>2 DEF Told, Shown
  <2>. QED BY <1>1, <2>1, <2>3 DEF Told, Unpaid, DriverPaidAsStated, Paid, TotalExplained, Taken, Raised
<1>11. ASSUME NEW g \in Working \ overtaken PROVE Abreast(g)'
  <2>1. Abreast(g) /\ fareJob'[g] = fareJob[g]
    BY <1>4, <1>7, <1>9 DEF FareInv, Working
  <2>2. Ahead(g)' = Ahead(g)
    BY <2>1 DEF Ahead
  <2>. QED BY <1>1, <2>1, <2>2 DEF Abreast, InTime, Stored, Charged, Due
<1>12. Abreast(h)'
  <2>1. Ahead(h)' = Head(StepsOf[op])
    BY <1>3, <1>4 DEF Ahead
  <2>2. InTime(fareJob[h].op)'
    BY <1>1, <1>3, <1>4 DEF InTime
  <2>3. Stored(h)'
    BY <1>1, <1>3, <1>4, <2>1, Beginnings DEF Stored
  <2>4. Charged(h)'
    BY <1>1, <1>3, <1>4, <2>1, Beginnings DEF Charged
  <2>. QED BY <2>2, <2>3, <2>4 DEF Abreast
<1>. QED BY <1>1, <1>7, <1>10, <1>11, <1>12

\* Every request that begins does so in time, with the amounts of its first read.
LEMMA RequestFares ==
    ASSUME Figures, FareInv, NEW h \in Handlers, Request(h)
    PROVE  FareInv'
<1>0. fare \in FareRow /\ Idle \in JobRow
  BY Busy DEF FareInv, Shape
<1>1. /\ \A op \in {"accept", "start", "change", "complete", "cancelStarted", "cancelLate",
                    "cancelEarly", "cancelUnheld", "cancelByDriver"} : op \in Ops
      /\ BaseFare \in Nat /\ Fee(BaseFare) \in Nat /\ Tax(BaseFare, Fee(BaseFare)) \in Nat
  BY Beginnings, Levies DEF Figures
<1>2. ASSUME NEW rate \in Rates, NEW promo \in Discounts, Accept(h, rate, promo)
      PROVE  FareInv'
  <2> DEFINE j == [Idle EXCEPT !.base = rate, !.fee = Fee(rate),
                               !.tax = Tax(rate, Fee(rate)), !.promo = promo]
  <2>1. rate \in Nat /\ promo \in Int /\ Fee(rate) \in Nat /\ Tax(rate, Fee(rate)) \in Nat
    BY Levies DEF Figures
  <2>2. j \in JobRow /\ j.waiting = 0
    BY <1>0, <2>1 DEF JobRow, Idle
  <2>3. Begin(h, "accept", j) /\ InTime("accept")
    BY <1>2 DEF Accept, InTime
  <2> HIDE DEF j
  <2>. QED BY <1>1, <2>2, <2>3, BeginFares
<1>3. ASSUME NEW rate \in Rates, Complete(h, rate) PROVE FareInv'
  <2> DEFINE due == rate + fare.waiting
             j == [Idle EXCEPT !.base = rate, !.waiting = fare.waiting, !.fee = Fee(due),
                               !.tax = Tax(due, Fee(due)), !.promo = fare.promo]
  <2>1. rate \in Nat /\ due \in Nat /\ fare.waiting \in Nat /\ fare.promo \in Int
    BY <1>0 DEF Figures, FareRow
  <2>2. Fee(due) \in Nat /\ Tax(due, Fee(due)) \in Nat
    BY <2>1, Levies
  <2>3. j \in JobRow /\ j.waiting = fare.waiting /\ j.promo = fare.promo
    BY <1>0, <2>1, <2>2 DEF JobRow, Idle
  <2>4. Begin(h, "complete", j) /\ InTime("complete")
    BY <1>3 DEF Complete, InTime
  <2> HIDE DEF j
  <2>. QED BY <1>1, <2>3, <2>4, BeginFares
<1>4. ASSUME NEW rate \in Rates, ChangeDestination(h, rate) PROVE FareInv'
  <2> DEFINE j == [Idle EXCEPT !.base = rate, !.tax = Tax(rate, 0)]
  <2>1. rate \in Nat /\ Tax(rate, 0) \in Nat
    BY Levies DEF Figures
  <2>2. j \in JobRow /\ j.waiting = 0
    BY <1>0, <2>1 DEF JobRow, Idle
  <2>3. Begin(h, "change", j) /\ InTime("change")
    BY <1>4 DEF ChangeDestination, InTime
  <2> HIDE DEF j
  <2>. QED BY <1>1, <2>2, <2>3, BeginFares
<1>5. ASSUME NEW rate \in Rates, CancelStarted(h, rate) PROVE FareInv'
  <2> DEFINE j == [Idle EXCEPT !.base = rate, !.tax = Tax(rate, Fee(rate))]
  <2>1. rate \in Nat /\ Tax(rate, Fee(rate)) \in Nat
    BY Levies DEF Figures
  <2>2. j \in JobRow /\ j.waiting = 0 /\ j.promo = 0
    BY <1>0, <2>1 DEF JobRow, Idle
  <2>3. Begin(h, "cancelStarted", j) /\ InTime("cancelStarted")
    BY <1>5 DEF CancelStarted, InTime
  <2> HIDE DEF j
  <2>. QED BY <1>1, <2>2, <2>3, BeginFares
<1>6. ASSUME NEW charge \in Waits, Start(h, charge) PROVE FareInv'
  <2> DEFINE j == [Idle EXCEPT !.waiting = charge]
  <2>1. j \in JobRow
    BY <1>0 DEF JobRow, Idle, Figures
  <2>2. Begin(h, "start", j) /\ InTime("start")
    BY <1>6 DEF Start, InTime
  <2> HIDE DEF j
  <2>. QED BY <1>1, <2>1, <2>2, BeginFares
<1>7. ASSUME CancelAccepted(h) PROVE FareInv'
  <2>1. CASE Begin(h, "cancelEarly", Idle)
    <3>1. InTime("cancelEarly")
      BY <1>7 DEF CancelAccepted, InTime
    <3>. QED BY <1>0, <1>1, <2>1, <3>1, BeginFares
  <2>2. ASSUME NEW tax \in {0, Tax(BaseFare, Fee(BaseFare))},
               Begin(h, "cancelLate", [Idle EXCEPT !.base = BaseFare, !.fee = Fee(BaseFare),
                                                   !.tax = tax])
        PROVE  FareInv'
    <3> DEFINE j == [Idle EXCEPT !.base = BaseFare, !.fee = Fee(BaseFare), !.tax = tax]
    <3>1. j \in JobRow /\ j.waiting = 0 /\ j.promo = 0
      BY <1>0, <1>1 DEF JobRow, Idle
    <3>2. Begin(h, "cancelLate", j) /\ InTime("cancelLate")
      BY <1>7, <2>2 DEF CancelAccepted, InTime
    <3> HIDE DEF j
    <3>. QED BY <1>1, <3>1, <3>2, BeginFares
  <2>. QED BY <1>7, <2>1, <2>2 DEF CancelAccepted
<1>8. ASSUME CancelUnheld(h) PROVE FareInv'
  <2>1. Begin(h, "cancelUnheld", Idle) /\ InTime("cancelUnheld")
    BY <1>8 DEF CancelUnheld, InTime
  <2>. QED BY <1>0, <1>1, <2>1, BeginFares
<1>9. ASSUME CancelByDriver(h) PROVE FareInv'
  <2>1. Begin(h, "cancelByDriver", Idle) /\ InTime("cancelByDriver")
    BY <1>9 DEF CancelByDriver, InTime
  <2>. QED BY <1>0, <1>1, <2>1, BeginFares
<1>. QED BY <1>2, <1>3, <1>4, <1>5, <1>6, <1>7, <1>8, <1>9 DEF Request

-----------------------------------------------------------------------------
(* Steps *)

\* For a handler that changes row or hold, only what it does itself has to be shown.
LEMMA ChangedFares ==
    ASSUME FareInv, NEW h \in Working, Changed(h), Working' \subseteq Working,
           Shape', ~crossed' => Told' /\ (h \in Working' => Abreast(h)')
    PROVE  FareInv'
BY Leads DEF FareInv

\* The same of a handler that goes on.
LEMMA ChangedOn ==
    ASSUME FareInv, NEW h \in Handlers, fareJob[h] # Idle, Ahead(h) # "write",
           Go(h, fareJob[h]), Changed(h), fare' \in FareRow, hold' \in HoldRow,
           UNCHANGED <<setbacks, unwritten>>,
           ~crossed /\ Told /\ Abreast(h) => Told' /\ Abreast(h)'
    PROVE  FareInv'
<1>1. Manned /\ Shape /\ h \in Working /\ fareJob[h] \in JobRow
  BY Busy DEF FareInv, Shape, Working
<1>2. Manned' /\ Working' = Working
  BY <1>1, GoesOn
<1>3. overtaken' \subseteq Working /\ crossed' \in BOOLEAN
  BY <1>1, <1>2, Leads
<1>4. Shape'
  BY <1>1, <1>2, <1>3 DEF Shape
<1>. QED BY <1>1, <1>2, <1>4, Leads, ChangedFares

\* A handler that goes on, step by step: what it does next, and who is midway.
LEMMA OnwardJob ==
    ASSUME FareInv, NEW h \in Handlers, fareJob[h] # Idle, Ahead(h) # "write", Go(h, fareJob[h])
    PROVE  /\ h \in Working /\ Working' = Working /\ fareJob[h] \in JobRow
           /\ fareJob'[h].op = fareJob[h].op /\ fareJob'[h].base = fareJob[h].base /\ fareJob'[h].fee = fareJob[h].fee
           /\ fareJob'[h].tax = fareJob[h].tax /\ fareJob'[h].waiting = fareJob[h].waiting
           /\ fareJob'[h].promo = fareJob[h].promo /\ fareJob'[h].rider = fareJob[h].rider
           /\ Ahead(h) = "rate" => fareJob[h].op \in {"accept", "complete"} /\ Ahead(h)' = "sum"
           /\ Ahead(h) = "hold" => fareJob[h].op = "accept" /\ Ahead(h)' = "write"
           /\ Ahead(h) = "update" =>
                 \/ fareJob[h].op = "change" /\ Ahead(h)' = "write"
                 \/ fareJob[h].op \in {"complete", "cancelStarted", "cancelLate"} /\ Ahead(h)' = "confirm"
           /\ Ahead(h) = "confirm" =>
                 fareJob[h].op \in {"complete", "cancelStarted", "cancelLate"} /\ Ahead(h)' = "write"
           /\ Ahead(h) = "release" =>
                 fareJob[h].op \in {"cancelEarly", "cancelByDriver"} /\ Ahead(h)' = "write"
           /\ \A g \in Handlers \ {h} : Midway(g)' <=> Midway(g)
<1>1. Manned /\ h \in Working
  BY DEF FareInv, Shape, Working
<1>2. fareJob[h] \in JobRow /\ fareJob[h].op \in Ops /\ fareJob[h].steps \in StagesOf[fareJob[h].op]
  BY <1>1, Busy
<1>3. Working' = Working /\ \A g \in Handlers \ {h} : fareJob'[g] = fareJob[g]
  BY <1>1, <1>2, GoesOn
<1>4. \A g \in Handlers \ {h} : Midway(g)' <=> Midway(g)
  BY <1>3 DEF Midway, Ahead
<1>5. Ahead(h)' = Head(Tail(fareJob[h].steps)) /\ Ahead(h) = Head(fareJob[h].steps)
  BY <1>1, <1>2, GoesOn DEF Ahead
<1>6. /\ fareJob'[h].op = fareJob[h].op /\ fareJob'[h].base = fareJob[h].base /\ fareJob'[h].fee = fareJob[h].fee
      /\ fareJob'[h].tax = fareJob[h].tax /\ fareJob'[h].waiting = fareJob[h].waiting
      /\ fareJob'[h].promo = fareJob[h].promo /\ fareJob'[h].rider = fareJob[h].rider
  BY <1>1, <1>2, GoesOn
<1>7. Ahead(h) = "rate" => fareJob[h].op \in {"accept", "complete"} /\ Ahead(h)' = "sum"
  BY <1>2, <1>5, Course DEF Ahead
<1>8. Ahead(h) = "hold" => fareJob[h].op = "accept" /\ Ahead(h)' = "write"
  BY <1>2, <1>5, Course DEF Ahead
<1>9. Ahead(h) = "update" =>
        \/ fareJob[h].op = "change" /\ Ahead(h)' = "write"
        \/ fareJob[h].op \in {"complete", "cancelStarted", "cancelLate"} /\ Ahead(h)' = "confirm"
  BY <1>2, <1>5, Course DEF Ahead
<1>10. Ahead(h) = "confirm" =>
         fareJob[h].op \in {"complete", "cancelStarted", "cancelLate"} /\ Ahead(h)' = "write"
  BY <1>2, <1>5, Course DEF Ahead
<1>11. Ahead(h) = "release" =>
         fareJob[h].op \in {"cancelEarly", "cancelByDriver"} /\ Ahead(h)' = "write"
  BY <1>2, <1>5, Course DEF Ahead
<1>. QED BY <1>1, <1>2, <1>3, <1>4, <1>6, <1>7, <1>8, <1>9, <1>10, <1>11

\* The amounts are stored before they are charged.
LEMMA RateFares ==
    ASSUME FareInv, NEW h \in Handlers, Rate(h)
    PROVE  FareInv'
<1>1. /\ fareJob[h] # Idle /\ Ahead(h) = "rate" /\ Go(h, fareJob[h]) /\ Changed(h)
      /\ UNCHANGED <<hold, setbacks, unwritten>>
      /\ fare' = IF fareJob[h].op = "accept"
                 THEN [fare EXCEPT !.base = fareJob[h].base, !.driver = fareJob[h].base, !.fee = fareJob[h].fee,
                                   !.promo = fareJob[h].promo, !.tax = fareJob[h].tax]
                 ELSE [fare EXCEPT !.base = fareJob[h].base, !.tax = fareJob[h].tax]
  BY DEF Rate, At, Ahead
<1>2. fare \in FareRow /\ hold \in HoldRow /\ fareJob[h] \in JobRow
  BY <1>1, OnwardJob DEF FareInv, Shape
<1>3. fare' \in FareRow
  BY <1>1, <1>2 DEF FareRow, JobRow
<1>4. /\ fare'.status = fare.status /\ fare'.started = fare.started /\ fare'.waiting = fare.waiting
      /\ fare'.base = fareJob[h].base /\ fare'.tax = fareJob[h].tax
      /\ fareJob[h].op = "accept" => fare'.driver = fareJob[h].base
      /\ fareJob[h].op # "accept" => fare'.driver = fare.driver /\ fare'.promo = fare.promo
  BY <1>1, <1>2 DEF FareRow
<1>5. fareJob[h].op \in {"accept", "complete"} /\ Ahead(h)' = "sum"
  BY <1>1, OnwardJob
<1>6. ASSUME Told, Abreast(h) PROVE Told' /\ Abreast(h)'
  <2>1. /\ fare.status \in {"ACCEPTED_BY_DRIVER", "STARTED", "PENDING"}
        /\ fareJob[h].op = "accept" => fare.status = "PENDING"
    BY <1>5, <1>6 DEF Abreast, InTime
  <2>2. Shown'
    <3>1. \A g \in Handlers : Midway(g) => Midway(g)'
      BY <1>1, OnwardJob DEF Midway
    <3>. QED BY <1>1, <1>4, <1>6, <2>1, <3>1 DEF Told, Shown
  <2>3. Told'
    BY <1>1, <1>4, <1>6, <2>1, <2>2 DEF Told, Unpaid, DriverPaidAsStated, Paid, TotalExplained
  <2>4. Abreast(h)'
    BY <1>1, <1>4, <1>5, <1>6, OnwardJob DEF Abreast, InTime, Stored, Charged
  <2>. QED BY <2>3, <2>4
<1>. QED BY <1>1, <1>2, <1>3, <1>6, ChangedOn

\* The total is that of the row, as it was left.
LEMMA SumFares ==
    ASSUME FareInv, NEW h \in Handlers, Sum(h)
    PROVE  FareInv'
<1> DEFINE passed == fareJob[h].op \in {"change", "cancelStarted"}
           r == RiderAmount(fare, IF passed THEN fareJob[h].base ELSE fare.base,
                                  IF passed THEN fareJob[h].tax ELSE fare.tax)
           j == [fareJob[h] EXCEPT !.rider = r]
<1>1. /\ fareJob[h] # Idle /\ Ahead(h) = "sum" /\ Go(h, j)
      /\ UNCHANGED <<fare, hold, setbacks, overtaken, crossed, unwritten>>
  BY DEF Sum, At, Ahead
<1>2. Shape /\ Manned /\ h \in Working
  BY <1>1 DEF FareInv, Shape, Working
<1>3. fareJob[h] \in JobRow /\ fareJob[h].op \in Ops /\ fareJob[h].steps \in StagesOf[fareJob[h].op]
  BY <1>2, Busy
<1>4. fare \in FareRow /\ r \in Int
  <2>1. /\ fare \in FareRow /\ fare.base \in Nat /\ fare.tax \in Nat /\ fare.waiting \in Nat
        /\ fare.fee \in Nat /\ fare.promo \in Int /\ fareJob[h].base \in Nat /\ fareJob[h].tax \in Nat
    BY <1>2, <1>3 DEF Shape, FareRow, JobRow
  <2>2. \A a, b \in Nat : RiderAmount(fare, a, b) \in Int
    BY <2>1 DEF RiderAmount
  <2>3. CASE passed
    BY <2>1, <2>2, <2>3
  <2>4. CASE ~passed
    BY <2>1, <2>2, <2>4
  <2>. QED BY <2>1, <2>3, <2>4
<1>5. /\ j \in JobRow /\ j.op = fareJob[h].op /\ j.steps = fareJob[h].steps /\ j.base = fareJob[h].base
      /\ j.tax = fareJob[h].tax /\ j.waiting = fareJob[h].waiting /\ j.promo = fareJob[h].promo
      /\ j.rider = r
  BY <1>3, <1>4 DEF JobRow
<1>6. r = IF passed THEN fareJob[h].base + fareJob[h].tax + fare.waiting + fare.fee - fare.promo
          ELSE fare.base + fare.tax + fare.waiting + fare.fee - fare.promo
  BY DEF RiderAmount
<1> HIDE DEF r, j
<1>7. /\ Manned' /\ Working' = Working /\ \A g \in Handlers \ {h} : fareJob'[g] = fareJob[g]
      /\ fareJob'[h].op = fareJob[h].op /\ fareJob'[h].base = fareJob[h].base /\ fareJob'[h].tax = fareJob[h].tax
      /\ fareJob'[h].waiting = fareJob[h].waiting /\ fareJob'[h].promo = fareJob[h].promo /\ fareJob'[h].rider = r
      /\ Ahead(h)' = Head(Tail(fareJob[h].steps))
  BY <1>1, <1>2, <1>5, GoesOn
<1>8. \/ fareJob[h].op = "accept" /\ Ahead(h)' = "hold"
      \/ fareJob[h].op \in {"change", "complete", "cancelStarted"} /\ Ahead(h)' = "update"
  BY <1>1, <1>3, <1>7, Course DEF Ahead
<1>9. Shape'
  BY <1>1, <1>2, <1>7 DEF Shape
<1>10. SUFFICES ASSUME ~crossed
                PROVE  Told' /\ \A g \in Working \ overtaken : Abreast(g)'
  BY <1>1, <1>7, <1>9 DEF FareInv
<1>11. Told'
  <2>1. Told
    BY <1>10 DEF FareInv
  <2>2. \A g \in Handlers : Midway(g) => Midway(g)'
    BY <1>1, <1>7 DEF Midway, Ahead
  <2>3. Shown'
    BY <1>1, <2>1, <2>2 DEF Told, Shown
  <2>. QED BY <1>1, <2>1, <2>3 DEF Told, Unpaid, DriverPaidAsStated, Paid, TotalExplained, Taken, Raised
<1>12. ASSUME NEW g \in Working \ overtaken, g # h PROVE Abreast(g)'
  <2>1. Abreast(g) /\ fareJob'[g] = fareJob[g]
    BY <1>7, <1>10, <1>12 DEF FareInv, Working
  <2>2. Ahead(g)' = Ahead(g)
    BY <2>1 DEF Ahead
  <2>. QED BY <1>1, <2>1, <2>2 DEF Abreast, InTime, Stored, Charged, Due
<1>13. ASSUME h \notin overtaken PROVE Abreast(h)'
  <2>1. Abreast(h)
    BY <1>2, <1>10, <1>13 DEF FareInv
  <2>2. InTime(fareJob[h].op)' /\ Charged(h)'
    BY <1>1, <1>7, <1>8, <2>1 DEF Abreast, InTime, Charged
  <2>3. Stored(h)'
    <3>1. fareJob[h].op = "complete" => /\ fare.base = fareJob[h].base /\ fare.tax = fareJob[h].tax
                                    /\ fare.waiting = fareJob[h].waiting /\ fare.promo = fareJob[h].promo
      BY <1>1, <2>1 DEF Abreast, Stored
    <3>2. fareJob[h].op = "complete" =>
             r = fareJob[h].base + fareJob[h].tax + fareJob[h].waiting + fare.fee - fareJob[h].promo
      BY <1>6, <3>1
    <3>. QED BY <1>1, <1>7, <1>8, <2>1, <3>1, <3>2 DEF Abreast, Stored
  <2>. QED BY <2>2, <2>3 DEF Abreast
<1>. QED BY <1>11, <1>12, <1>13
\* The first hold of a driver's acceptance; the trip is not his yet.
LEMMA HoldFares ==
    ASSUME FareInv, NEW h \in Handlers, Hold(h)
    PROVE  FareInv'
<1>1. /\ fareJob[h] # Idle /\ Ahead(h) = "hold" /\ Go(h, fareJob[h]) /\ Changed(h)
      /\ UNCHANGED <<fare, setbacks, unwritten>>
      /\ hold' = [status |-> "CREATE", amount |-> Due(fareJob[h]), fee |-> fareJob[h].fee,
                  tax |-> fareJob[h].tax, discount |-> 0]
  BY DEF Hold, At, Ahead
<1>2. fare \in FareRow /\ hold \in HoldRow /\ fareJob[h] \in JobRow
  BY <1>1, OnwardJob DEF FareInv, Shape
<1>3. Due(fareJob[h]) \in Nat /\ hold' \in HoldRow
  BY <1>1, <1>2 DEF HoldRow, JobRow, Due
<1>4. fareJob[h].op = "accept" /\ Ahead(h)' = "write"
  BY <1>1, OnwardJob
<1>5. ASSUME Told, Abreast(h) PROVE Told' /\ Abreast(h)'
  <2>1. fare.status = "PENDING" /\ fareJob[h].waiting = 0 /\ fare.driver = fareJob[h].base
    BY <1>1, <1>4, <1>5 DEF Abreast, InTime, Stored
  <2>2. hold'.status = "CREATE" /\ hold'.amount = fareJob[h].base
    BY <1>1, <1>2, <2>1 DEF Due, JobRow
  <2>3. Told'
    BY <1>1, <2>1, <2>2 DEF Told, Unpaid, Shown, DriverPaidAsStated, Paid, TotalExplained
  <2>4. Abreast(h)'
    BY <1>1, <1>4, <2>1, <2>2, OnwardJob DEF Abreast, InTime, Stored, Charged
  <2>. QED BY <2>3, <2>4
<1>. QED BY <1>1, <1>2, <1>3, <1>5, ChangedOn

\* The hold takes the amounts that are to be on the row.
LEMMA UpdateFares ==
    ASSUME FareInv, NEW h \in Handlers, Update(h)
    PROVE  FareInv'
<1>1. /\ fareJob[h] # Idle /\ Ahead(h) = "update" /\ Go(h, fareJob[h]) /\ Changed(h)
      /\ UNCHANGED <<fare, setbacks, unwritten>> /\ hold.status = "CREATE"
      /\ hold' = [hold EXCEPT !.amount = Due(fareJob[h]), !.fee = fareJob[h].fee, !.tax = fareJob[h].tax]
  BY DEF Update, At, Ahead
<1>2. fare \in FareRow /\ hold \in HoldRow /\ fareJob[h] \in JobRow
  BY <1>1, OnwardJob DEF FareInv, Shape
<1>3. Due(fareJob[h]) \in Nat
  BY <1>2 DEF JobRow, Due
<1>4. /\ hold' \in HoldRow /\ hold'.status = "CREATE" /\ hold'.amount = Due(fareJob[h])
      /\ hold'.tax = fareJob[h].tax
  BY <1>1, <1>2, <1>3 DEF HoldRow, JobRow
<1>5. \/ fareJob[h].op = "change" /\ Ahead(h)' = "write"
      \/ fareJob[h].op \in {"complete", "cancelStarted", "cancelLate"} /\ Ahead(h)' = "confirm"
  BY <1>1, OnwardJob
<1>6. ASSUME Told, Abreast(h) PROVE Told' /\ Abreast(h)'
  <2>1. fare.status \in {"ACCEPTED_BY_DRIVER", "STARTED", "PENDING"}
    BY <1>5, <1>6 DEF Abreast, InTime
  <2>2. Midway(h)'
    BY <1>1, <1>5, OnwardJob DEF Midway
  <2>3. Told'
    BY <1>1, <1>4, <2>1, <2>2 DEF Told, Unpaid, Shown, DriverPaidAsStated, Paid, TotalExplained
  <2>4. Due(fareJob[h])' = Due(fareJob[h])
    BY <1>1, OnwardJob DEF Due
  <2>5. Abreast(h)'
    BY <1>1, <1>4, <1>5, <1>6, <2>4, OnwardJob DEF Abreast, InTime, Stored, Charged
  <2>. QED BY <2>3, <2>5
<1>. QED BY <1>1, <1>2, <1>4, <1>6, ChangedOn

\* The payment is made with the amounts the handler has updated it to.
LEMMA ConfirmFares ==
    ASSUME FareInv, NEW h \in Handlers, Confirm(h)
    PROVE  FareInv'
<1>1. /\ fareJob[h] # Idle /\ Ahead(h) = "confirm" /\ Go(h, fareJob[h]) /\ Changed(h)
      /\ UNCHANGED <<fare, setbacks, unwritten>>
      /\ hold' = [hold EXCEPT !.status = "CONFIRM", !.discount = Discount(fareJob[h].promo)]
  BY DEF Confirm, At, Ahead
<1>2. fare \in FareRow /\ hold \in HoldRow /\ fareJob[h] \in JobRow
  BY <1>1, OnwardJob DEF FareInv, Shape
<1>3. /\ hold' \in HoldRow /\ hold'.status = "CONFIRM" /\ hold'.amount = hold.amount
      /\ hold'.tax = hold.tax /\ hold'.discount = Discount(fareJob[h].promo)
  <2>1. Discount(fareJob[h].promo) \in Nat
    BY <1>2 DEF Discount, JobRow
  <2>. QED BY <1>1, <1>2, <2>1 DEF HoldRow
<1>4. fareJob[h].op \in {"complete", "cancelStarted", "cancelLate"} /\ Ahead(h)' = "write"
  BY <1>1, OnwardJob
<1>5. ASSUME Told, Abreast(h) PROVE Told' /\ Abreast(h)'
  <2>1. /\ fare.status \in {"ACCEPTED_BY_DRIVER", "STARTED", "PENDING"}
        /\ fare.status = "PENDING" => fare.started
    BY <1>4, <1>5 DEF Abreast, InTime
  <2>2. Told'
    BY <1>1, <1>3, <2>1 DEF Told, Unpaid, Shown, DriverPaidAsStated, Paid, TotalExplained
  <2>3. Due(fareJob[h])' = Due(fareJob[h])
    BY <1>1, OnwardJob DEF Due
  <2>4. Abreast(h)'
    BY <1>1, <1>3, <1>4, <1>5, <2>3, OnwardJob DEF Abreast, InTime, Stored, Charged
  <2>. QED BY <2>2, <2>4
<1>. QED BY <1>1, <1>2, <1>3, <1>5, ChangedOn

\* A hold that is released pays nobody.
LEMMA ReleaseFares ==
    ASSUME FareInv, NEW h \in Handlers, Release(h)
    PROVE  FareInv'
<1>1. /\ fareJob[h] # Idle /\ Ahead(h) = "release" /\ Go(h, fareJob[h]) /\ Changed(h)
      /\ UNCHANGED <<fare, setbacks, unwritten>>
      /\ hold' = [hold EXCEPT !.status = "ROLLBACK"]
  BY DEF Release, At, Ahead
<1>2. fare \in FareRow /\ hold \in HoldRow
  BY DEF FareInv, Shape
<1>3. hold' \in HoldRow /\ hold'.status = "ROLLBACK"
  BY <1>1, <1>2 DEF HoldRow
<1>4. fareJob[h].op \in {"cancelEarly", "cancelByDriver"} /\ Ahead(h)' = "write"
  BY <1>1, OnwardJob
<1>5. ASSUME Told, Abreast(h) PROVE Told' /\ Abreast(h)'
  <2>1. fare.status \in {"ACCEPTED_BY_DRIVER", "STARTED"}
    BY <1>4, <1>5 DEF Abreast, InTime
  <2>2. Told'
    BY <1>1, <1>3, <2>1 DEF Told, Unpaid, Shown, DriverPaidAsStated, Paid, TotalExplained
  <2>3. Abreast(h)'
    BY <1>1, <1>3, <1>4, <1>5, OnwardJob DEF Abreast, InTime, Stored, Charged
  <2>. QED BY <2>2, <2>3
<1>. QED BY <1>1, <1>2, <1>3, <1>5, ChangedOn

\* What the last update of a handler leaves on the row.
LEMMA RowIsARow ==
    ASSUME FareInv, NEW h \in Working
    PROVE  RowAfter(fareJob[h]) \in FareRow
<1> PICK j : j = fareJob[h]
  OBVIOUS
<1>1. fare \in FareRow /\ j \in JobRow /\ j.op \in Ops
  BY Busy DEF FareInv, Shape
<1>2. Due(j) \in Nat /\ j.base + j.tax \in Int
  BY <1>1 DEF JobRow, Due
<1>3. /\ j.base \in Nat /\ j.tax \in Nat /\ j.waiting \in Nat /\ j.rider \in Int
      /\ fare.changes + 1 \in Nat
  <2>1. j.base \in Nat /\ j.tax \in Nat /\ j.waiting \in Nat /\ j.rider \in Int
    BY <1>1 DEF JobRow
  <2>2. fare.changes \in Nat
    BY <1>1 DEF FareRow
  <2>. QED BY <2>1, <2>2
<1>4. CASE j.op = "accept"
  <2>1. RowAfter(j) \in FareRow
    BY <1>1, <1>3, <1>4 DEF RowAfter, FareRow
  <2>. QED BY <2>1
<1>5. CASE j.op = "start"
  <2>1. RowAfter(j) \in FareRow
    BY <1>1, <1>3, <1>5 DEF RowAfter, FareRow
  <2>. QED BY <2>1
<1>6. CASE j.op = "change"
  <2>1. RowAfter(j) \in FareRow
    BY <1>1, <1>3, <1>6 DEF RowAfter, FareRow
  <2>. QED BY <2>1
<1>7. CASE j.op = "complete"
  <2>1. RowAfter(j) \in FareRow
    BY <1>1, <1>2, <1>3, <1>7 DEF RowAfter, FareRow
  <2>. QED BY <2>1
<1>12. \A r \in Int, b, t \in Nat, p \in Int :
         [fare EXCEPT !.status = "CANCELLED_BY_RIDER", !.rider = r, !.driver = b, !.base = b,
                      !.tax = t, !.promo = p] \in FareRow
  BY <1>1 DEF FareRow
<1>13. 0 \in Int
  OBVIOUS
<1>8. CASE j.op = "cancelStarted"
  <2>1. RowAfter(j) = [fare EXCEPT !.status = "CANCELLED_BY_RIDER", !.rider = j.rider,
                                   !.driver = j.base, !.base = j.base, !.tax = j.tax, !.promo = 0]
    BY <1>8 DEF RowAfter
  <2>2. j.rider \in Int /\ j.base \in Nat /\ j.tax \in Nat
    BY <1>3
  <2>3. [fare EXCEPT !.status = "CANCELLED_BY_RIDER", !.rider = j.rider,
                     !.driver = j.base, !.base = j.base, !.tax = j.tax, !.promo = 0] \in FareRow
    BY <1>12, <1>13, <2>2, Zenon
  <2>. QED BY <2>1, <2>3, Zenon
<1>9. CASE j.op = "cancelLate"
  <2>1. RowAfter(j) = [fare EXCEPT !.status = "CANCELLED_BY_RIDER", !.rider = j.base + j.tax,
                                   !.driver = j.base, !.base = j.base, !.tax = j.tax, !.promo = 0]
    BY <1>9 DEF RowAfter
  <2>2. j.base + j.tax \in Int /\ j.base \in Nat /\ j.tax \in Nat
    BY <1>2, <1>3
  <2>3. [fare EXCEPT !.status = "CANCELLED_BY_RIDER", !.rider = j.base + j.tax,
                     !.driver = j.base, !.base = j.base, !.tax = j.tax, !.promo = 0] \in FareRow
    BY <1>12, <1>13, <2>2, Zenon
  <2>. QED BY <2>1, <2>3, Zenon
<1>10. CASE j.op \in {"cancelEarly", "cancelUnheld"}
  <2>1. RowAfter(j) = [fare EXCEPT !.status = "CANCELLED_BY_RIDER", !.rider = 0, !.driver = 0,
                                   !.promo = 0]
    BY <1>10 DEF RowAfter
  <2>2. \A r \in Int, d \in Nat, p \in Int :
           [fare EXCEPT !.status = "CANCELLED_BY_RIDER", !.rider = r, !.driver = d,
                        !.promo = p] \in FareRow
    BY <1>1 DEF FareRow
  <2>3. 0 \in Int /\ 0 \in Nat
    OBVIOUS
  <2>. QED BY <2>1, <2>2, <2>3
<1>11. CASE j.op = "cancelByDriver"
  <2>1. RowAfter(j) = [fare EXCEPT !.status = "CANCELLED_BY_DRIVER", !.rider = 0, !.driver = 0]
    BY <1>11 DEF RowAfter
  <2>2. \A r \in Int, d \in Nat :
           [fare EXCEPT !.status = "CANCELLED_BY_DRIVER", !.rider = r, !.driver = d] \in FareRow
    BY <1>1 DEF FareRow
  <2>3. 0 \in Int /\ 0 \in Nat
    OBVIOUS
  <2>. QED BY <2>1, <2>2, <2>3
<1>. QED BY <1>1, <1>4, <1>5, <1>6, <1>7, <1>8, <1>9, <1>10, <1>11, Beginnings

\* The row tells what was paid, or is what the app shows of what is blocked.
LEMMA WriteFares ==
    ASSUME FareInv, NEW h \in Handlers, Write(h)
    PROVE  FareInv'
<1> DEFINE j == fareJob[h]
<1>1. /\ fareJob[h] # Idle /\ Ahead(h) = "write" /\ Changed(h) /\ fare' = RowAfter(j)
      /\ fareJob' = [fareJob EXCEPT ![h] = Idle] /\ UNCHANGED <<hold, setbacks, unwritten>>
  BY DEF Write, At, Ahead
<1>2. Shape /\ Manned /\ h \in Working
  BY <1>1 DEF FareInv, Shape, Working
<1>3. fare \in FareRow /\ hold \in HoldRow /\ j \in JobRow /\ j.op \in Ops
  BY <1>2, Busy DEF Shape
<1>4. /\ Manned' /\ Working' = Working \ {h} /\ \A g \in Handlers \ {h} : fareJob'[g] = fareJob[g]
  BY <1>1, <1>2, GoesHome
<1>5. fare' \in FareRow
  BY <1>1, <1>2, RowIsARow
<1>6. overtaken' \subseteq Working' /\ crossed' \in BOOLEAN
  BY <1>1, <1>2, <1>4, Leads
<1>7. Shape'
  BY <1>1, <1>2, <1>4, <1>5, <1>6 DEF Shape
<1>8. ASSUME Told, Abreast(h) PROVE Told'
  <2>0. /\ j.base \in Nat /\ j.tax \in Nat /\ j.waiting \in Nat /\ j.promo \in Int
        /\ fare.fee \in Nat /\ hold.fee \in Nat
    BY <1>3 DEF JobRow, FareRow, HoldRow
  <2>1. hold' = hold /\ unwritten' = unwritten
    BY <1>1
  <2> HIDE DEF j
  <2>2. CASE j.op = "accept"
    <3>1. fare'.status = "ACCEPTED_BY_DRIVER" /\ fare'.driver = fare.driver
      BY <1>1, <1>3, <2>2 DEF RowAfter, FareRow
    <3>2. fare.driver = hold.amount
      BY <1>1, <1>8, <2>2 DEF Abreast, Stored, Charged, j
    <3>. QED BY <2>1, <3>1, <3>2 DEF Told, Unpaid, Shown, DriverPaidAsStated, Paid, TotalExplained
  <2>3. CASE j.op = "start"
    <3>1. fare'.status = "STARTED" /\ fare'.driver = fare.driver
      BY <1>1, <1>3, <2>3 DEF RowAfter, FareRow
    <3>2. fare.status = "ACCEPTED_BY_DRIVER"
      BY <1>8, <2>3 DEF Abreast, InTime, j
    <3>3. \A g \in Handlers : Midway(g) => Midway(g)'
      BY <1>4, <2>3 DEF Midway, Ahead, j
    <3>. QED BY <1>8, <2>1, <3>1, <3>2, <3>3
         DEF Told, Unpaid, Shown, DriverPaidAsStated, Paid, TotalExplained
  <2>4. CASE j.op = "change"
    <3>1. /\ fare'.status = fare.status /\ fare'.started = fare.started
          /\ fare'.driver = j.base
      BY <1>1, <1>3, <2>4 DEF RowAfter, FareRow
    <3>2. /\ fare.status \in {"ACCEPTED_BY_DRIVER", "STARTED", "PENDING"} /\ fare.started
          /\ hold.amount = Due(j) /\ j.waiting = 0
      BY <1>1, <1>8, <2>4 DEF Abreast, InTime, Stored, Charged, j
    <3>3. fare'.driver = hold.amount
      BY <2>0, <3>1, <3>2 DEF Due
    <3>. QED BY <2>1, <3>1, <3>2, <3>3
         DEF Told, Unpaid, Shown, DriverPaidAsStated, Paid, TotalExplained
  <2>5. CASE j.op = "complete"
    <3>1. /\ fare'.status = "COMPLETED" /\ fare'.driver = Due(j) /\ fare'.tax = fare.tax
          /\ fare'.rider = j.rider /\ fare'.fee = fare.fee /\ fare'.promo = fare.promo
      BY <1>1, <1>3, <2>5 DEF RowAfter, FareRow
    <3>2. /\ hold.amount = Due(j) /\ hold.tax = j.tax /\ hold.discount = Discount(j.promo)
          /\ fare.tax = j.tax /\ fare.promo = j.promo
          /\ j.rider = j.base + j.tax + j.waiting + fare.fee - j.promo
      BY <1>1, <1>8, <2>5 DEF Abreast, Stored, Charged, j
    <3>3. Taken' = (j.base + j.waiting) + hold.fee + j.tax - Discount(j.promo)
      BY <2>1, <3>2 DEF Taken, Due
    <3>4. Discount(j.promo) - Raised' = j.promo /\ Discount(j.promo) \in Int /\ Raised' \in Int
      BY <2>0, <3>1, <3>2 DEF Discount, Raised
    <3>5. fare'.rider + hold'.fee = Taken' + fare'.fee + Raised'
      BY <2>0, <2>1, <3>1, <3>2, <3>3, <3>4
    <3>. QED BY <2>1, <3>1, <3>2, <3>5
         DEF Told, Unpaid, Shown, DriverPaidAsStated, Paid, TotalExplained
  <2>6. CASE j.op \in {"cancelStarted", "cancelLate"}
    <3>1. fare'.status = "CANCELLED_BY_RIDER" /\ fare'.driver = j.base /\ fare'.tax = j.tax
      <4>1. CASE j.op = "cancelStarted"
        BY <1>1, <1>3, <4>1 DEF RowAfter, FareRow
      <4>2. CASE j.op = "cancelLate"
        BY <1>1, <1>3, <4>2 DEF RowAfter, FareRow
      <4>. QED BY <2>6, <4>1, <4>2
    <3>2. hold.amount = Due(j) /\ hold.tax = j.tax /\ j.waiting = 0
      BY <1>1, <1>8, <2>6 DEF Abreast, Stored, Charged, j
    <3>3. hold.amount = j.base
      BY <2>0, <3>2 DEF Due
    <3>. QED BY <2>1, <3>1, <3>2, <3>3
         DEF Told, Unpaid, Shown, DriverPaidAsStated, Paid, TotalExplained
  <2>7. CASE j.op \in {"cancelEarly", "cancelUnheld"}
    <3>1. fare'.status = "CANCELLED_BY_RIDER"
      BY <1>1, <1>3, <2>7 DEF RowAfter, FareRow
    <3>2. hold.status # "CONFIRM"
      BY <1>1, <1>8, <2>7 DEF Told, Unpaid, Abreast, InTime, Charged, j
    <3>. QED BY <2>1, <3>1, <3>2
         DEF Told, Unpaid, Shown, DriverPaidAsStated, Paid, TotalExplained
  <2>8. CASE j.op = "cancelByDriver"
    <3>1. fare'.status = "CANCELLED_BY_DRIVER"
      BY <1>1, <1>3, <2>8 DEF RowAfter, FareRow
    <3>2. hold.status = "ROLLBACK"
      BY <1>1, <1>8, <2>8 DEF Abreast, Charged, j
    <3>. QED BY <2>1, <3>1, <3>2
         DEF Told, Unpaid, Shown, DriverPaidAsStated, Paid, TotalExplained
  <2>. QED BY <1>3, <2>2, <2>3, <2>4, <2>5, <2>6, <2>7, <2>8, Beginnings
<1>9. ~crossed' => Told' /\ (h \in Working' => Abreast(h)')
  BY <1>1, <1>2, <1>4, <1>8, Leads
<1>. QED BY <1>1, <1>2, <1>4, <1>7, <1>9, ChangedFares

-----------------------------------------------------------------------------
(* What else may happen *)

\* A handler that leaves is no longer midway, which unwritten remembers.
LEMMA LeaveFares ==
    ASSUME FareInv, NEW h \in Handlers, fareJob[h] # Idle, Leave(h), setbacks' \in 0..MaxSetbacks
    PROVE  FareInv'
<1>1. /\ fareJob' = [fareJob EXCEPT ![h] = Idle] /\ UNCHANGED <<fare, hold, crossed>>
      /\ overtaken' = overtaken \ {h}
      /\ unwritten' = (unwritten \/ (fareJob[h].op # "start" /\ Ahead(h) \in {"confirm", "write"}))
  BY DEF Leave, Ahead
<1>2. Shape /\ Manned /\ h \in Working
  BY DEF FareInv, Shape, Working
<1>3. /\ Manned' /\ Working' = Working \ {h} /\ \A g \in Handlers \ {h} : fareJob'[g] = fareJob[g]
  BY <1>1, <1>2, GoesHome
<1>4. unwritten' \in BOOLEAN
  BY <1>1
<1>5. Shape'
  BY <1>1, <1>2, <1>3, <1>4 DEF Shape
<1>6. SUFFICES ASSUME ~crossed
               PROVE  Told' /\ \A g \in Working' \ overtaken' : Abreast(g)'
  BY <1>1, <1>5 DEF FareInv
<1>7. Told'
  <2>1. Told
    BY <1>6 DEF FareInv
  <2>2. \A g \in Handlers \ {h} : Midway(g) => Midway(g)'
    BY <1>3 DEF Midway, Ahead
  <2>3. Midway(h) => unwritten'
    BY <1>1 DEF Midway
  <2>4. unwritten => unwritten'
    BY <1>1
  <2>5. Shown'
    BY <1>1, <2>1, <2>2, <2>3, <2>4 DEF Told, Shown
  <2>. QED BY <1>1, <2>1, <2>5 DEF Told, Unpaid, DriverPaidAsStated, Paid, TotalExplained, Taken, Raised
<1>8. ASSUME NEW g \in Working' \ overtaken' PROVE Abreast(g)'
  <2>1. Abreast(g) /\ fareJob'[g] = fareJob[g]
    BY <1>1, <1>3, <1>6, <1>8 DEF FareInv, Working
  <2>2. Ahead(g)' = Ahead(g)
    BY <2>1 DEF Ahead
  <2>. QED BY <1>1, <2>1, <2>2 DEF Abreast, InTime, Stored, Charged, Due
<1>. QED BY <1>7, <1>8

\* A trip that its driver cancelled is dispatched again; nothing is paid for it then.
LEMMA DispatchFares ==
    ASSUME Figures, FareInv, Dispatch
    PROVE  FareInv'
<1>1. /\ fare.status = "CANCELLED_BY_DRIVER" /\ setbacks < MaxSetbacks /\ setbacks' = setbacks + 1
      /\ fare' = [fare EXCEPT !.status = "PENDING"] /\ overtaken' = overtaken \cup Working
      /\ UNCHANGED <<hold, fareJob, crossed, unwritten>>
  BY DEF Dispatch
<1>2. Shape /\ fare \in FareRow
  BY DEF FareInv, Shape
<1>3. fare' \in FareRow /\ fare'.status = "PENDING"
  BY <1>1, <1>2 DEF FareRow
<1>4. Manned' /\ Working' = Working
  BY <1>1, <1>2 DEF Shape, Manned, Working
<1>5. setbacks' \in 0..MaxSetbacks
  BY <1>1, <1>2 DEF Shape, Figures
<1>6. Shape'
  BY <1>1, <1>2, <1>3, <1>4, <1>5 DEF Shape
<1>7. ~crossed => Told'
  BY <1>1, <1>3 DEF FareInv, Told, Unpaid, Shown, DriverPaidAsStated, Paid, TotalExplained
<1>. QED BY <1>1, <1>4, <1>6, <1>7 DEF FareInv

-----------------------------------------------------------------------------
(* The theorems *)

\* At first the trip waits, without a hold.
LEMMA InitFares ==
    ASSUME Figures, Init
    PROVE  FareInv
<1>1. /\ fare = NewFare /\ hold = NoHold /\ fareJob = [h \in Handlers |-> Idle] /\ setbacks = 0
      /\ overtaken = {} /\ crossed = FALSE /\ unwritten = FALSE
  BY DEF Init
<1>2. fare \in FareRow /\ fare.status = "PENDING" /\ hold \in HoldRow /\ hold.status = "none"
  BY <1>1 DEF NewFare, NoHold, FareRow, HoldRow
<1>3. Idle \in JobRow /\ Idle.op = "none"
  BY DEF Idle, JobRow
<1>4. Manned /\ Working = {}
  BY <1>1, <1>3 DEF Manned, Working
<1>5. Shape
  <2>1. setbacks \in 0..MaxSetbacks
    BY <1>1 DEF Figures
  <2>2. overtaken \subseteq Working /\ crossed \in BOOLEAN /\ unwritten \in BOOLEAN
    BY <1>1
  <2>. QED BY <1>2, <1>4, <2>1, <2>2 DEF Shape
<1>6. Told
  BY <1>2 DEF Told, Unpaid, Shown, DriverPaidAsStated, Paid, TotalExplained
<1>. QED BY <1>4, <1>5, <1>6 DEF FareInv

\* Every step keeps the invariant.
LEMMA NextFares ==
    ASSUME Figures, FareInv, [Next]_fareVars
    PROVE  FareInv'
<1>1. ASSUME NEW h \in Handlers, Step(h) PROVE FareInv'
  <2>1. CASE Rate(h) \/ Sum(h) \/ Hold(h) \/ Update(h) \/ Confirm(h) \/ Release(h) \/ Write(h)
    BY <2>1, RateFares, SumFares, HoldFares, UpdateFares, ConfirmFares, ReleaseFares, WriteFares
  <2>2. CASE Refused(h)
    <3>1. fareJob[h] # Idle /\ Leave(h) /\ setbacks' = setbacks /\ setbacks \in 0..MaxSetbacks
      BY <2>2 DEF Refused, At, FareInv, Shape
    <3>. QED BY <3>1, LeaveFares
  <2>3. CASE Stop(h)
    <3>1. fareJob[h] # Idle /\ Leave(h) /\ setbacks < MaxSetbacks /\ setbacks' = setbacks + 1
      BY <2>3 DEF Stop
    <3>2. setbacks' \in 0..MaxSetbacks
      BY <3>1 DEF FareInv, Shape, Figures
    <3>. QED BY <3>1, <3>2, LeaveFares
  <2>. QED BY <1>1, <2>1, <2>2, <2>3 DEF Step
<1>2. ASSUME NEW h \in Handlers, Request(h) PROVE FareInv'
  BY <1>2, RequestFares
<1>3. CASE Dispatch
  BY <1>3, DispatchFares
<1>4. CASE UNCHANGED fareVars
  <2>1. UNCHANGED <<fare, hold, fareJob, setbacks, overtaken, crossed, unwritten>>
    BY <1>4 DEF fareVars
  <2>2. Shape' /\ Working' = Working
    BY <2>1 DEF FareInv, Shape, Manned, Working
  <2>3. Told => Told'
    BY <2>1, <2>2 DEF Told, Unpaid, Shown, Midway, Ahead, DriverPaidAsStated, Paid,
                      TotalExplained, Taken, Raised
  <2>4. \A h \in Working : Abreast(h) => Abreast(h)'
    BY <2>1 DEF Abreast, InTime, Stored, Charged, Ahead, Due
  <2>. QED BY <2>1, <2>2, <2>3, <2>4 DEF FareInv
<1>. QED BY <1>1, <1>2, <1>3, <1>4 DEF Next

\* The invariant holds of every behaviour.
LEMMA FareInvariant == ASSUME Figures PROVE Spec => []FareInv
<1>1. Init => FareInv
  BY InitFares
<1>2. FareInv /\ [Next]_fareVars => FareInv'
  BY NextFares
<1>. QED BY <1>1, <1>2, PTL DEF Spec

\* Of every trip that was paid, the row states the driver's share and the tax that the
\* payment service moved, at any rates and percentages and however the handlers of
\* tripCompleted, changeTripDestination and the cancellations stop or are refused, as
\* long as none acts on what another one has changed since it read it.
THEOREM DriverPaidAsStatedHolds == ASSUME Figures PROVE Spec => []DriverPaidAsStated
<1>1. FareInv => DriverPaidAsStated
  BY DEF FareInv, Told, DriverPaidAsStated
<1>. QED BY <1>1, FareInvariant, PTL

\* While nobody is at work on a trip under way, what is blocked for its driver is what
\* his app shows, unless a handler ended between the payment service and the row.
THEOREM HeldAsShownHolds == ASSUME Figures PROVE Spec => []HeldAsShown
<1>1. FareInv => HeldAsShown
  <2>. SUFFICES ASSUME FareInv, NobodyAtWork PROVE HeldAsShown
    BY DEF HeldAsShown
  <2>1. Manned /\ DOMAIN fareJob = Handlers
    BY DEF FareInv, Shape, Manned
  <2>2. \A h \in Handlers : fareJob[h] = Idle
    BY <2>1 DEF NobodyAtWork, Manned
  <2>3. \A h \in Handlers : ~Midway(h)
    BY <2>2 DEF Midway, Working
  <2>. QED BY <2>3 DEF FareInv, Told, Shown, HeldAsShown
<1>. QED BY <1>1, FareInvariant, PTL

\* The total of a completed trip is what the rider paid, but for the bank's fee, which
\* calculateFareAmountWithTax takes from the acceptance and the charge from the final
\* fare, and for a promo code of negative worth, which confirmTripPayment drops.
THEOREM TotalExplainedHolds == ASSUME Figures PROVE Spec => []TotalExplained
<1>1. FareInv => TotalExplained
  BY DEF FareInv, Told, TotalExplained
<1>. QED BY <1>1, FareInvariant, PTL

-----------------------------------------------------------------------------
(* The invariant of trips and bookings *)

Both == {"IMMEDIATELY", "SCHEDULED"}

\* A driver, or the search for one, may still be there; and may be there.
Live   == {"PENDING", "NO_DRIVER", "REJECTED_BY_DRIVER", "ACCEPTED_BY_DRIVER"}
Moving == {"PENDING", "REJECTED_BY_DRIVER", "ACCEPTED_BY_DRIVER"}

OfKind(r, kind, statuses) == {t \in TripsOf(r, statuses) : trip[t].kind = kind}

TripRow == [st : {"none", "COMPLETED", "EXPIRED", "CANCELLED"} \cup Open,
            kind : {"none"} \cup Both, at : {0} \cup 0..LastSlot, out : BOOLEAN]

TripShape == trip \in [TripRows -> TripRow]

DeskRec == [pc : {"idle", "expire", "clear", "save", "balance", "decline", "read", "lower"},
            of : Riders \cup {None}, kind : {"none"} \cup Both, at : {0} \cup 0..LastSlot,
            old : SUBSET TripRows, trip : TripRows \cup {None}, saw : Nat]

DeskRow(x) ==
    /\ x \in DeskRec
    /\ x.of \in Riders
    /\ x.pc \in {"expire", "save", "balance"} => x.kind \in Both
    /\ x.old \subseteq {t \in TripRows : RiderOf[t] = x.of}
    /\ x.pc \notin {"expire", "clear"} => x.old = {}
    /\ x.pc \in {"balance", "decline", "read", "lower"} =>
           x.trip \in TripRows /\ RiderOf[x.trip] = x.of

DeskShape ==
    /\ desk \in [Handlers -> DeskRec]
    /\ \A h \in Handlers : desk[h].pc = "idle" \/ DeskRow(desk[h])

TripJobRow == [todo : SUBSET TripRows, at : TripRows \cup {None}, saw : Nat,
           pc : {"idle", "lower", "check", "ask", "expire"}, found : Open \cup {"none"}]

JobShape ==
    /\ tripJob \in [Replicas -> TripJobRow]
    /\ \A j \in Replicas : tripJob[j].pc # "idle" =>
           tripJob[j].at \in TripRows \ tripJob[j].todo

RestShape ==
    /\ upcoming \in [Riders -> Nat]
    /\ \A x \in counts : x.of \in Riders /\ x.to \in Nat \ {0}
    /\ \A c \in calls : c[2] \in TripRows

BookingShape == TripShape /\ DeskShape /\ JobShape /\ RestShape

\* What is under way for rider r.
DesksOf(r)  == {h \in Handlers : desk[h].pc # "idle" /\ desk[h].of = r}
CountsOf(r) == {x \in counts : x.of = r}
JobsOf(r)   == {w \in Replicas \X TripRows : w[2] \in InJob(w[1]) /\ RiderOf[w[2]] = r}
CallsOf(r)  == {c \in calls : RiderOf[c[2]] = r}

\* A trip no driver has been asked to take.
Untaken(t) == ~trip[t].out /\ trip[t].st \in {"PENDING", "BOOKING_CANCELLED", "CANCELLED", "EXPIRED"}

\* A trip that drivers have, or are asked to take.
OutOn(t) == trip[t].st \in Moving /\ (trip[t].st = "PENDING" => trip[t].out)

\* A rider has one trip of each kind, and a driver for one of them.
OneOfEach(r) ==
    \A t, u \in TripsOf(r, Live) :
        trip[t].kind \in Both /\ (trip[t].kind = trip[u].kind => t = u)

OneAtATime(r) ==
    r \notin doubled => \A t \in OfKind(r, "SCHEDULED", Moving) :
                            OutOn(t) => OfKind(r, "IMMEDIATELY", Moving) = {}

Sole(t, kind) == \A u \in OfKind(RiderOf[t], kind, Live) : u = t

CountedFor(r) ==
    \A t \in TripsOf(r, {"PENDING"}) \ (missed \cup left) : Waiting(t) => upcoming[r] >= 1

\* What a request of rider r relies on.
Creates(r, x) ==
    /\ \A t \in x.old : trip[t].st \in {"PENDING", "NO_DRIVER"}
    /\ \A t \in TripsOf(r, Live) \ x.old :
          /\ x.kind = "IMMEDIATELY" /\ trip[t].kind = "SCHEDULED"
          /\ r \notin doubled => trip[t].st = "PENDING" /\ ~trip[t].out
    /\ CountedFor(r)

Created(r, x) ==
    /\ trip[x.trip].kind = x.kind /\ Untaken(x.trip) /\ Sole(x.trip, x.kind)
    /\ x.kind = "IMMEDIATELY" => CountedFor(r)

Relies(r, x) ==
    /\ x.pc \in {"expire", "save"} => Creates(r, x)
    /\ x.pc = "balance" => Created(r, x)
    /\ x.pc = "clear" =>
           CountedFor(r) /\ \A t \in x.old : trip[t].st \in {"PENDING", "NO_DRIVER"}
    /\ x.pc = "decline" => Sole(x.trip, "SCHEDULED")
    /\ x.pc \in {"read", "lower"} => OfKind(r, "SCHEDULED", Live) = {}

\* A booking in the hands of a job, or of a call of it.
Kept(t) == trip[t].kind = "SCHEDULED" /\ Untaken(t) /\ Sole(t, "SCHEDULED")

NoOther(r) == OfKind(r, "IMMEDIATELY", Moving) = {}

\* At most one thing is under way for a rider.
Free(r) ==
    /\ DesksOf(r) = {} /\ CountsOf(r) = {} /\ JobsOf(r) = {} /\ CallsOf(r) = {}
    /\ CountedFor(r)

Asking(r) ==
    /\ CountsOf(r) = {} /\ JobsOf(r) = {} /\ CallsOf(r) = {}
    /\ \E h \in Handlers : DesksOf(r) = {h} /\ Relies(r, desk[h])

Counting(r) ==
    /\ DesksOf(r) = {} /\ JobsOf(r) = {} /\ CallsOf(r) = {}
    /\ CountsOf(r) # {}

Processed(r) ==
    /\ DesksOf(r) = {} /\ CountsOf(r) = {} /\ CallsOf(r) = {}
    /\ \E j \in Replicas, t \in TripRows :
          /\ JobsOf(r) = {<<j, t>>} /\ Kept(t)
          /\ tripJob[j].pc = "ask" /\ tripJob[j].at = t => NoOther(r)

Dispatched(r) ==
    /\ DesksOf(r) = {} /\ CountsOf(r) = {} /\ JobsOf(r) = {}
    /\ \E c \in calls : CallsOf(r) = {c} /\ Kept(c[2]) /\ NoOther(r)

Orderly(r) ==
    /\ OneOfEach(r) /\ OneAtATime(r)
    /\ Free(r) \/ Asking(r) \/ Counting(r) \/ Processed(r) \/ Dispatched(r)

BookingInv == BookingShape /\ \A r \in Riders \ strained : Orderly(r)

\* ScheduledTrips and this module see the same rows.
LEMMA SameRows ==
    /\ Sched!TripRows = TripRows /\ Sched!Riders = Riders /\ Sched!Open = Open
    /\ Sched!Engaged = Engaged
    /\ \A r, S : Sched!TripsOf(r, S) = TripsOf(r, S)
    /\ \A t : Sched!Waiting(t) <=> Waiting(t)
    /\ \A j : Sched!InJob(j) = InJob(j)
<1>1. Sched!TripRows = TripRows /\ Sched!Riders = Riders /\ Sched!Open = Open
  BY DEF Sched!TripRows, TripRows, Sched!Riders, Riders, Sched!Open, Open
<1>2. \A r, S : Sched!TripsOf(r, S) = TripsOf(r, S)
  BY <1>1 DEF Sched!TripsOf, TripsOf
<1>3. \A j : Sched!InJob(j) = InJob(j)
  BY DEF Sched!InJob, InJob
<1>4. \A t : Sched!Waiting(t) <=> Waiting(t)
  BY DEF Sched!Waiting, Waiting
<1>5. Sched!Engaged = Engaged
  BY <1>1, <1>3 DEF Sched!Engaged, Engaged, Sched!AtDesk, AtDesk, Sched!Counted, Counted,
     Sched!InJobs, InJobs, Sched!Called, Called
<1> QED BY <1>1, <1>2, <1>3, <1>4, <1>5

\* A rider who is not engaged has nothing under way, and the other way round.
LEMMA EngagedRiders ==
  ASSUME BookingShape, NEW r
  PROVE  r \notin Engaged <=>
             DesksOf(r) = {} /\ CountsOf(r) = {} /\ JobsOf(r) = {} /\ CallsOf(r) = {}
<1>1. DOMAIN desk = Handlers /\ DOMAIN tripJob = Replicas
  BY DEF BookingShape, DeskShape, JobShape
<1>2. r \notin AtDesk <=> DesksOf(r) = {}
  BY <1>1 DEF AtDesk, DesksOf
<1>3. r \notin Counted <=> CountsOf(r) = {}
  BY DEF Counted, CountsOf
<1>4. r \notin Called <=> CallsOf(r) = {}
  BY DEF Called, CallsOf
<1>5. \A j \in Replicas : InJob(j) \subseteq TripRows
  BY DEF BookingShape, JobShape, TripJobRow, InJob
<1>6. r \notin InJobs <=> JobsOf(r) = {}
  <2>1. ASSUME NEW j \in Replicas, NEW t \in InJob(j), RiderOf[t] = r
        PROVE  JobsOf(r) # {}
    <3>1. <<j, t>> \in Replicas \X TripRows /\ <<j, t>>[1] = j /\ <<j, t>>[2] = t
      BY <1>5
    <3> QED BY <2>1, <3>1 DEF JobsOf
  <2>2. ASSUME NEW w \in JobsOf(r)
        PROVE  w[1] \in Replicas /\ w[2] \in InJob(w[1]) /\ RiderOf[w[2]] = r
    BY DEF JobsOf
  <2> QED BY <1>1, <2>1, <2>2 DEF InJobs
<1> QED BY <1>2, <1>3, <1>4, <1>6 DEF Engaged

-----------------------------------------------------------------------------
(* What a step leaves of a rider's order *)

\* A trip that nothing has happened to but that it came nearer to its end.
Ages(t) ==
    /\ trip'[t].kind = trip[t].kind
    /\ trip'[t].st \in Live => trip[t].st \in Live
    /\ trip'[t].st \in Moving => trip[t].st \in Moving
    /\ OutOn(t)' => OutOn(t)
    /\ Waiting(t)' => Waiting(t)
    /\ Untaken(t) => Untaken(t)'

\* The trips of r have aged, or are as they were.
Aging(r) ==
    /\ \A t \in TripRows : RiderOf[t] = r => trip'[t] = trip[t] \/ Ages(t)
    /\ r \in doubled => r \in doubled'
    /\ missed \cup left \subseteq (missed \cup left)'
    /\ r \in Riders => upcoming'[r] >= upcoming[r]

\* Nothing of r came or went.
SameWork(r) ==
    /\ DesksOf(r)' = DesksOf(r) /\ CountsOf(r)' = CountsOf(r)
    /\ JobsOf(r)' = JobsOf(r) /\ CallsOf(r)' = CallsOf(r)

\* The sets of trips only shrink.
LEMMA TripsAge ==
  ASSUME NEW r \in Riders, Aging(r)
  PROVE  /\ \A t \in TripRows : RiderOf[t] = r =>
                trip'[t].kind = trip[t].kind /\ (Untaken(t) => Untaken(t)')
         /\ TripsOf(r, Live)' \subseteq TripsOf(r, Live)
         /\ TripsOf(r, Moving)' \subseteq TripsOf(r, Moving)
         /\ \A k : OfKind(r, k, Live)' \subseteq OfKind(r, k, Live)
         /\ \A k : OfKind(r, k, Moving)' \subseteq OfKind(r, k, Moving)
         /\ \A t \in TripsOf(r, Moving)' : OutOn(t)' => OutOn(t)
<1>1. \A t \in TripRows : RiderOf[t] = r =>
          /\ trip'[t].kind = trip[t].kind
          /\ trip'[t].st \in Live => trip[t].st \in Live
          /\ trip'[t].st \in Moving => trip[t].st \in Moving
          /\ OutOn(t)' => OutOn(t)
          /\ Untaken(t) => Untaken(t)'
  BY DEF Aging, Ages, OutOn, Untaken
<1>2. TripsOf(r, Live)' \subseteq TripsOf(r, Live) /\ TripsOf(r, Moving)' \subseteq TripsOf(r, Moving)
  BY <1>1 DEF TripsOf
<1>3. \A k : OfKind(r, k, Live)' \subseteq OfKind(r, k, Live)
  BY <1>1 DEF OfKind, TripsOf
<1>4. \A k : OfKind(r, k, Moving)' \subseteq OfKind(r, k, Moving)
  BY <1>1 DEF OfKind, TripsOf
<1>5. \A t \in TripsOf(r, Moving)' : t \in TripRows /\ RiderOf[t] = r
  BY DEF TripsOf
<1> QED BY <1>1, <1>2, <1>3, <1>4, <1>5

\* A rider has no more trips than before.
LEMMA TripsStayApart ==
  ASSUME NEW r \in Riders, Aging(r), OneOfEach(r), OneAtATime(r)
  PROVE  OneOfEach(r)' /\ OneAtATime(r)'
<1>1. \A t \in TripsOf(r, Live)' : t \in TripsOf(r, Live) /\ trip'[t].kind = trip[t].kind
  BY TripsAge DEF TripsOf
<1>2. OneOfEach(r)'
  BY <1>1 DEF OneOfEach
<1>3. r \notin doubled' => r \notin doubled
  BY DEF Aging
<1>4. \A t \in OfKind(r, "SCHEDULED", Moving)' :
          t \in OfKind(r, "SCHEDULED", Moving) /\ (OutOn(t)' => OutOn(t))
  BY TripsAge DEF OfKind
<1>5. OfKind(r, "IMMEDIATELY", Moving)' \subseteq OfKind(r, "IMMEDIATELY", Moving)
  BY TripsAge
<1>6. OneAtATime(r)'
  BY <1>3, <1>4, <1>5 DEF OneAtATime
<1> QED BY <1>2, <1>6

\* Bookings that were covered still are.
LEMMA StillCounted ==
  ASSUME NEW r \in Riders, Aging(r), CountedFor(r), RestShape, RestShape'
  PROVE  CountedFor(r)'
<1>1. \A t \in (TripsOf(r, {"PENDING"}) \ (missed \cup left))' :
          Waiting(t)' => t \in TripsOf(r, {"PENDING"}) \ (missed \cup left) /\ Waiting(t)
  BY DEF Aging, Ages, TripsOf, Waiting
<1>2. upcoming'[r] >= upcoming[r] /\ upcoming[r] \in Nat /\ upcoming'[r] \in Nat
  BY DEF Aging, RestShape
<1>3. upcoming[r] >= 1 => upcoming'[r] >= 1
  BY <1>2
<1> QED BY <1>1, <1>3 DEF CountedFor

\* What a booking is kept for stays so.
LEMMA StillKept ==
  ASSUME NEW t \in TripRows, Aging(RiderOf[t]), Kept(t)
  PROVE  Kept(t)'
<1>1. RiderOf[t] \in Riders
  BY DEF Riders
<1> QED BY <1>1, TripsAge DEF Kept, Sole

\* Who has no other trip to be driven has none.
LEMMA StillNoOther ==
  ASSUME NEW r \in Riders, Aging(r), NoOther(r)
  PROVE  NoOther(r)'
BY TripsAge DEF NoOther

\* A request relies on what it relied on, unless a trip it retires has changed.
LEMMA StillRelies ==
  ASSUME NEW r \in Riders, Aging(r), RestShape, RestShape', NEW x, x.of = r, DeskRow(x),
         Relies(r, x), \A t \in x.old : trip'[t] = trip[t]
  PROVE  Relies(r, x)'
<1>1. r \notin doubled' => r \notin doubled
  BY DEF Aging
<1>2. CountedFor(r) => CountedFor(r)'
  BY StillCounted
<1>3. CASE x.pc \in {"expire", "save"}
  <2>1. Creates(r, x)
    BY <1>3 DEF Relies
  <2>2. ASSUME NEW t \in TripsOf(r, Live)', t \notin x.old
        PROVE  /\ x.kind = "IMMEDIATELY" /\ trip'[t].kind = "SCHEDULED"
               /\ r \notin doubled' => trip'[t].st = "PENDING" /\ ~trip'[t].out
    <3>1. t \in TripsOf(r, Live) /\ t \in TripRows /\ RiderOf[t] = r /\ trip'[t].st \in Live
      BY TripsAge DEF TripsOf
    <3>2. x.kind = "IMMEDIATELY" /\ trip'[t].kind = "SCHEDULED"
      BY <2>1, <2>2, <3>1, TripsAge DEF Creates
    <3>3. r \notin doubled' => Untaken(t)
      BY <1>1, <2>1, <2>2, <3>1 DEF Creates, Untaken
    <3>4. r \notin doubled' => Untaken(t)'
      BY <3>1, <3>3, TripsAge
    <3>5. Untaken(t)' => trip'[t].st = "PENDING" /\ ~trip'[t].out
      BY <3>1 DEF Untaken, Live
    <3> QED BY <3>2, <3>4, <3>5
  <2>3. \A t \in x.old : trip'[t].st \in {"PENDING", "NO_DRIVER"}
    BY <2>1 DEF Creates
  <2>4. Creates(r, x)'
    BY <1>2, <2>1, <2>2, <2>3 DEF Creates
  <2> QED BY <1>3, <2>4 DEF Relies
<1>4. CASE x.pc = "balance"
  <2>1. x.trip \in TripRows /\ RiderOf[x.trip] = r
    BY <1>4 DEF DeskRow
  <2>2. Created(r, x)
    BY <1>4 DEF Relies
  <2>3. trip'[x.trip].kind = x.kind /\ Untaken(x.trip)'
    BY <2>1, <2>2, TripsAge DEF Created
  <2>4. Sole(x.trip, x.kind)'
    BY <2>1, <2>2, TripsAge DEF Created, Sole
  <2>5. Created(r, x)'
    BY <1>2, <2>2, <2>3, <2>4 DEF Created
  <2> QED BY <1>4, <2>5 DEF Relies
<1>5. CASE x.pc = "decline"
  <2>1. x.trip \in TripRows /\ RiderOf[x.trip] = r /\ Sole(x.trip, "SCHEDULED")
    BY <1>5 DEF DeskRow, Relies
  <2>2. Sole(x.trip, "SCHEDULED")'
    BY <2>1, TripsAge DEF Sole
  <2> QED BY <1>5, <2>2 DEF Relies
<1>6. CASE x.pc \in {"read", "lower"}
  BY <1>6, TripsAge DEF Relies
<1>9. CASE x.pc = "clear"
  BY <1>2, <1>9 DEF Relies
<1>7. x.pc # "idle" => x.pc \in {"expire", "clear", "save", "balance", "decline", "read", "lower"}
  BY DEF DeskRow, DeskRec
<1>8. CASE x.pc = "idle"
  BY <1>8 DEF Relies
<1> QED BY <1>3, <1>4, <1>5, <1>6, <1>7, <1>8, <1>9

\* A step that brings and ends nothing for r leaves his order.
LEMMA OrderStays ==
  ASSUME BookingShape, BookingShape', NEW r \in Riders, Orderly(r), Aging(r), SameWork(r),
         \A h \in DesksOf(r) : desk'[h] = desk[h] /\ \A t \in desk[h].old : trip'[t] = trip[t],
         \A w \in JobsOf(r) :
             tripJob'[w[1]].pc = "ask" /\ tripJob'[w[1]].at = w[2] =>
                 tripJob[w[1]].pc = "ask" /\ tripJob[w[1]].at = w[2]
  PROVE  Orderly(r)'
<1>1. RestShape /\ RestShape'
  BY DEF BookingShape
<1>2. OneOfEach(r)' /\ OneAtATime(r)'
  BY TripsStayApart DEF Orderly
<1>3. CASE Free(r)
  <2>1. Free(r)'
    BY <1>1, <1>3, StillCounted DEF Free, SameWork
  <2> QED BY <1>2, <2>1 DEF Orderly
<1>4. CASE Asking(r)
  <2>1. PICK h \in Handlers : DesksOf(r) = {h} /\ Relies(r, desk[h])
    BY <1>4 DEF Asking
  <2>2. DeskRow(desk[h]) /\ desk[h].of = r /\ desk'[h] = desk[h]
    BY <2>1 DEF DesksOf, BookingShape, DeskShape
  <2>3. \A t \in desk[h].old : trip'[t] = trip[t]
    BY <2>1
  <2>4. PICK x : x = desk[h]
    OBVIOUS
  <2>5. Relies(r, x)'
    BY <1>1, <2>1, <2>2, <2>3, <2>4, StillRelies
  <2>6. Relies(r, desk[h])'
    BY <2>2, <2>4, <2>5 DEF Relies, Creates, Created, Sole, Untaken, CountedFor, OfKind, TripsOf, Waiting
  <2>7. Asking(r)'
    BY <1>4, <2>1, <2>6 DEF Asking, SameWork
  <2> QED BY <1>2, <2>7 DEF Orderly
<1>5. CASE Counting(r)
  BY <1>2, <1>5 DEF Orderly, Counting, SameWork
<1>6. CASE Processed(r)
  <2>1. PICK j \in Replicas, t \in TripRows :
          /\ JobsOf(r) = {<<j, t>>} /\ Kept(t)
          /\ tripJob[j].pc = "ask" /\ tripJob[j].at = t => NoOther(r)
    BY <1>6 DEF Processed
  <2>2. <<j, t>> \in JobsOf(r) /\ <<j, t>>[1] = j /\ <<j, t>>[2] = t
    BY <2>1
  <2>3. RiderOf[t] = r
    BY <2>2 DEF JobsOf
  <2>4. Kept(t)'
    BY <2>1, <2>3, StillKept
  <2>5. NoOther(r) => NoOther(r)'
    BY StillNoOther
  <2>6. tripJob'[j].pc = "ask" /\ tripJob'[j].at = t => tripJob[j].pc = "ask" /\ tripJob[j].at = t
    BY <2>2
  <2>7. Processed(r)'
    BY <1>6, <2>1, <2>4, <2>5, <2>6 DEF Processed, SameWork
  <2> QED BY <1>2, <2>7 DEF Orderly
<1>7. CASE Dispatched(r)
  <2>1. PICK c \in calls : CallsOf(r) = {c} /\ Kept(c[2]) /\ NoOther(r)
    BY <1>7 DEF Dispatched
  <2>2. c \in CallsOf(r) /\ c[2] \in TripRows /\ RiderOf[c[2]] = r
    BY <1>1, <2>1 DEF CallsOf, RestShape
  <2>3. PICK t \in TripRows : t = c[2]
    BY <2>2
  <2>4. Kept(t)'
    BY <2>1, <2>2, <2>3, StillKept
  <2>5. Kept(c[2])'
    BY <2>3, <2>4 DEF Kept, Untaken, Sole, OfKind, TripsOf
  <2>6. NoOther(r)'
    BY <2>1, StillNoOther
  <2>7. c \in calls'
    BY <2>2 DEF SameWork, CallsOf
  <2>8. Dispatched(r)'
    BY <1>7, <2>1, <2>5, <2>6, <2>7 DEF Dispatched, SameWork
  <2> QED BY <1>2, <2>8 DEF Orderly
<1> QED BY <1>3, <1>4, <1>5, <1>6, <1>7 DEF Orderly

-----------------------------------------------------------------------------
(* Rows keep their shape *)

\* A column of a trip is written.
LEMMA TripWritten ==
  ASSUME TripShape, NEW t,
         \/ \E st \in Open \cup {"COMPLETED", "EXPIRED", "CANCELLED"} : Sched!Write(t, st)
         \/ \E b \in BOOLEAN : trip' = [trip EXCEPT ![t].out = b]
         \/ \E row \in TripRow : trip' = [trip EXCEPT ![t] = row]
  PROVE  TripShape'
<1>1. TripRows' = TripRows
  BY DEF TripRows
<1> QED BY <1>1 DEF TripShape, TripRow, Sched!Write

\* A handler goes on, or is free.
LEMMA DeskWritten ==
  ASSUME DeskShape, NEW h \in Handlers, NEW x \in DeskRec, desk' = [desk EXCEPT ![h] = x],
         x.pc = "idle" \/ DeskRow(x)
  PROVE  DeskShape'
<1>1. \A g \in Handlers : desk'[g] = IF g = h THEN x ELSE desk[g]
  BY DEF DeskShape
<1>2. desk' \in [Handlers -> DeskRec]
  BY DEF DeskShape
<1>3. \A g \in Handlers : desk'[g].pc = "idle" \/ DeskRow(desk'[g])
  BY <1>1 DEF DeskShape
<1>4. DeskRec' = DeskRec /\ TripRows' = TripRows /\ Riders' = Riders
  BY DEF DeskRec, TripRows, Riders, Both
<1> QED BY <1>2, <1>3, <1>4 DEF DeskShape, DeskRow

\* A job goes on.
LEMMA JobWritten ==
  ASSUME JobShape, NEW j \in Replicas, NEW x \in TripJobRow, tripJob' = [tripJob EXCEPT ![j] = x],
         x.pc # "idle" => x.at \in TripRows \ x.todo
  PROVE  JobShape'
<1>1. \A i \in Replicas : tripJob'[i] = IF i = j THEN x ELSE tripJob[i]
  BY DEF JobShape
<1>2. tripJob' \in [Replicas -> TripJobRow]
  BY DEF JobShape
<1>3. TripJobRow' = TripJobRow /\ TripRows' = TripRows
  BY DEF TripJobRow, TripRows, Open
<1> QED BY <1>1, <1>2, <1>3 DEF JobShape

\* A step of a request keeps the shapes.
LEMMA RequestShape ==
  ASSUME BookingShape, NEW h \in Handlers, Sched!Requests(h)
  PROVE  BookingShape'
<1>1. TripShape /\ DeskShape /\ JobShape /\ RestShape /\ DOMAIN desk = Handlers
  BY DEF BookingShape, DeskShape
<1>2. desk[h] \in DeskRec /\ (desk[h].pc = "idle" \/ DeskRow(desk[h]))
  BY <1>1 DEF DeskShape
<1>3. TripRows' = TripRows /\ Riders' = Riders
  BY DEF TripRows, Riders
<1>0. Sched!Idle \in DeskRec /\ Sched!Idle.pc = "idle"
  BY DEF Sched!Idle, DeskRec
<1>4. JobShape' /\ (calls' = calls)
  BY <1>1 DEF Sched!Requests, Sched!Ask, Sched!AskRefused, Sched!TurnDown, Sched!ExpireOld,
     Sched!Save, Sched!Balance, Sched!Decline, Sched!WriteDecline, Sched!ReadCustomer,
     Sched!LowerDeclined, Sched!Fail, Sched!jobs, JobShape, TripJobRow
<1>5. ASSUME NEW r \in Riders, NEW k \in Both, NEW at \in 0..LastSlot, Sched!Ask(h, r, k, at)
      PROVE  BookingShape'
  <2>2. PICK imm \in Sched!FirstOf(r, "IMMEDIATELY"), sched \in Sched!FirstOf(r, "SCHEDULED") :
          LET old == Sched!Retired(imm, sched) IN
           Sched!Arrive(h, r, [Sched!Idle EXCEPT !.pc = IF old = {} THEN "save" ELSE "expire", !.of = r,
                                     !.kind = k, !.at = at, !.old = old])
    BY <1>5 DEF Sched!Ask
  <2>3. Sched!Retired(imm, sched) \subseteq {t \in TripRows : RiderOf[t] = r}
    BY SameRows DEF Sched!FirstOf, Sched!Retired, TripsOf
  <2>4. PICK old : old = Sched!Retired(imm, sched)
    OBVIOUS
  <2>5. PICK x : x = [Sched!Idle EXCEPT !.pc = IF old = {} THEN "save" ELSE "expire", !.of = r,
                                     !.kind = k, !.at = at, !.old = old]
    OBVIOUS
  <2>6. desk' = [desk EXCEPT ![h] = x]
    BY <2>2, <2>4, <2>5 DEF Sched!Arrive
  <2>7. x \in DeskRec /\ DeskRow(x)
    BY <2>3, <2>4, <2>5 DEF DeskRow, DeskRec, Sched!Idle
  <2>8. DeskShape'
    BY <1>1, <2>6, <2>7, DeskWritten
  <2>9. TripShape' /\ RestShape'
    BY <1>1, <1>3, <1>5 DEF Sched!Ask, Sched!jobs, TripShape, TripRow, RestShape
  <2> QED BY <1>4, <2>8, <2>9 DEF BookingShape
<1>6. CASE Sched!ExpireOld(h)
  <2>1. PICK t \in desk[h].old :
          /\ Sched!Write(t, "EXPIRED")
          /\ desk' = [desk EXCEPT ![h].old = @ \ {t},
                                  ![h].pc = IF desk[h].old = {t} THEN "save" ELSE "expire"]
    BY <1>6 DEF Sched!ExpireOld
  <2>2. PICK x : x = [desk[h] EXCEPT !.old = @ \ {t},
                                  !.pc = IF desk[h].old = {t} THEN "save" ELSE "expire"]
    OBVIOUS
  <2>3. desk' = [desk EXCEPT ![h] = x]
    BY <1>1, <2>1, <2>2
  <2>4. x \in DeskRec /\ DeskRow(x)
    BY <1>2, <1>6, <2>2 DEF DeskRow, DeskRec, Sched!ExpireOld
  <2>5. DeskShape'
    BY <1>1, <2>3, <2>4, DeskWritten
  <2>6. TripShape'
    BY <1>1, <2>1, TripWritten
  <2>7. RestShape'
    BY <1>1, <1>3, <1>6 DEF Sched!ExpireOld, Sched!jobs, RestShape
  <2> QED BY <1>4, <2>5, <2>6, <2>7 DEF BookingShape
<1>7. CASE Sched!Save(h)
  <2>1. PICK t \in TripRows :
          /\ RiderOf[t] = desk[h].of
          /\ trip' = [trip EXCEPT ![t] = [st |-> "PENDING", kind |-> desk[h].kind,
                                          at |-> desk[h].at, out |-> FALSE]]
          /\ desk' = [desk EXCEPT ![h].pc = "balance", ![h].trip = t]
    BY <1>7, SameRows DEF Sched!Save
  <2>2. PICK x : x = [desk[h] EXCEPT !.pc = "balance", !.trip = t]
    OBVIOUS
  <2>3. desk' = [desk EXCEPT ![h] = x]
    BY <1>1, <2>1, <2>2
  <2>4. desk[h].pc = "save"
    BY <1>7 DEF Sched!Save
  <2>5. x \in DeskRec /\ DeskRow(x)
    BY <1>2, <2>1, <2>2, <2>4 DEF DeskRow, DeskRec
  <2>6. DeskShape'
    BY <1>1, <2>3, <2>5, DeskWritten
  <2>7. PICK row : row = [st |-> "PENDING", kind |-> desk[h].kind, at |-> desk[h].at, out |-> FALSE]
    OBVIOUS
  <2>8. row \in TripRow
    BY <1>2, <2>7 DEF DeskRec, TripRow, Open
  <2>9. TripShape'
    BY <1>1, <2>1, <2>7, <2>8, TripWritten
  <2>10. RestShape'
    BY <1>1, <1>3, <1>7 DEF Sched!Save, Sched!jobs, RestShape
  <2> QED BY <1>4, <2>6, <2>9, <2>10 DEF BookingShape
<1>8. CASE Sched!Balance(h)
  <2>1. desk' = [desk EXCEPT ![h] = Sched!Idle]
    BY <1>8 DEF Sched!Balance, Sched!Leave
  <2>2. DeskShape'
    BY <1>1, <1>0, <2>1, DeskWritten
  <2>3. PICK t : t = desk[h].trip
    OBVIOUS
  <2>4. PICK b : b = (trip[t].st = "PENDING")
    OBVIOUS
  <2>5. trip' = trip \/ Sched!Write(t, "EXPIRED") \/ trip' = [trip EXCEPT ![t].out = b]
    BY <1>8, <2>3, <2>4 DEF Sched!Balance
  <2>6. TripShape'
    <3>1. trip' = trip => TripShape'
      BY <1>1, <1>3 DEF TripShape, TripRow
    <3>2. b \in BOOLEAN
      BY <2>4
    <3> QED BY <1>1, <2>5, <3>1, <3>2, TripWritten
  <2>7. desk[h].of \in Riders
    BY <1>2, <1>8 DEF Sched!Balance, DeskRow
  <2>8. \A n \in Nat : n + 1 \in Nat \ {0}
    OBVIOUS
  <2>9. upcoming[desk[h].of] + 1 \in Nat \ {0}
    BY <1>1, <2>7, <2>8 DEF RestShape
  <2>10. \A x \in counts' : x \in counts \/ (x.of = desk[h].of /\ x.to = upcoming[desk[h].of] + 1)
    BY <1>8 DEF Sched!Balance
  <2>11. upcoming' = upcoming
    BY <1>8 DEF Sched!Balance
  <2>12. RestShape'
    BY <1>1, <1>3, <1>4, <2>7, <2>9, <2>10, <2>11 DEF RestShape
  <2> QED BY <1>4, <2>2, <2>6, <2>12 DEF BookingShape
<1>9. ASSUME NEW t \in TripRows, Sched!Decline(h, t) PROVE BookingShape'
  <2>1. PICK x : x = [Sched!Idle EXCEPT !.pc = "decline", !.of = RiderOf[t], !.trip = t]
    OBVIOUS
  <2>2. desk' = [desk EXCEPT ![h] = x]
    BY <1>9, <2>1 DEF Sched!Decline, Sched!Arrive
  <2>3. x \in DeskRec /\ DeskRow(x)
    BY <2>1 DEF DeskRow, DeskRec, Sched!Idle, Riders
  <2>4. DeskShape'
    BY <1>1, <2>2, <2>3, DeskWritten
  <2>5. TripShape' /\ RestShape'
    BY <1>1, <1>3, <1>9 DEF Sched!Decline, Sched!jobs, TripShape, TripRow, RestShape
  <2> QED BY <1>4, <2>4, <2>5 DEF BookingShape
<1>10. CASE Sched!WriteDecline(h)
  <2>1. PICK x : x = [desk[h] EXCEPT !.pc = "read"]
    OBVIOUS
  <2>2. desk' = [desk EXCEPT ![h] = x]
    BY <1>1, <1>10, <2>1 DEF Sched!WriteDecline, Sched!Goto
  <2>3. x \in DeskRec /\ DeskRow(x)
    BY <1>2, <1>10, <2>1 DEF Sched!WriteDecline, DeskRow, DeskRec
  <2>4. DeskShape'
    BY <1>1, <2>2, <2>3, DeskWritten
  <2>5. Sched!Write(desk[h].trip, "CANCELLED")
    BY <1>10 DEF Sched!WriteDecline
  <2>6. TripShape'
    BY <1>1, <2>5, TripWritten
  <2>7. RestShape'
    BY <1>1, <1>3, <1>10 DEF Sched!WriteDecline, Sched!jobs, RestShape
  <2> QED BY <1>4, <2>4, <2>6, <2>7 DEF BookingShape
<1>11. CASE Sched!ReadCustomer(h)
  <2>1. PICK x : x = [desk[h] EXCEPT !.pc = "lower", !.saw = upcoming[desk[h].of]]
    OBVIOUS
  <2>2. desk' = [desk EXCEPT ![h] = x]
    BY <1>1, <1>11, <2>1 DEF Sched!ReadCustomer
  <2>3. upcoming[desk[h].of] \in Nat
    BY <1>1, <1>2, <1>11 DEF Sched!ReadCustomer, DeskRow, RestShape
  <2>4. x \in DeskRec /\ DeskRow(x)
    BY <1>2, <1>11, <2>1, <2>3 DEF Sched!ReadCustomer, DeskRow, DeskRec
  <2>5. DeskShape'
    BY <1>1, <2>2, <2>4, DeskWritten
  <2>6. TripShape' /\ RestShape'
    BY <1>1, <1>3, <1>11 DEF Sched!ReadCustomer, Sched!jobs, TripShape, TripRow, RestShape
  <2> QED BY <1>4, <2>5, <2>6 DEF BookingShape
<1>12. CASE Sched!LowerDeclined(h)
  <2>1. DeskShape'
    BY <1>1, <1>0, <1>12, DeskWritten DEF Sched!LowerDeclined, Sched!Leave
  <2>2. Sched!Less(desk[h].saw) \in Nat
    BY <1>2 DEF DeskRec, Sched!Less
  <2>3. TripShape' /\ RestShape'
    BY <1>1, <1>3, <1>12, <2>2 DEF Sched!LowerDeclined, Sched!jobs, TripShape, TripRow, RestShape
  <2> QED BY <1>4, <2>1, <2>3 DEF BookingShape
<1>13. CASE Sched!Fail(h)
  <2>1. DeskShape'
    BY <1>1, <1>0, <1>13, DeskWritten DEF Sched!Fail, Sched!Leave
  <2>2. TripShape' /\ RestShape'
    BY <1>1, <1>3, <1>13 DEF Sched!Fail, Sched!jobs, TripShape, TripRow, RestShape
  <2> QED BY <1>4, <2>1, <2>2 DEF BookingShape
<1>14. ASSUME NEW r \in Riders, NEW k \in Both, Sched!AskRefused(h, r, k) PROVE BookingShape'
  <2>1. PICK imm \in Sched!FirstOf(r, "IMMEDIATELY") :
          Sched!Arrive(h, r, [Sched!Idle EXCEPT !.pc = "clear", !.of = r, !.old = imm])
    BY <1>14 DEF Sched!AskRefused
  <2>2. imm \subseteq {t \in TripRows : RiderOf[t] = r}
    BY SameRows DEF Sched!FirstOf, TripsOf
  <2>3. PICK x : x = [Sched!Idle EXCEPT !.pc = "clear", !.of = r, !.old = imm]
    OBVIOUS
  <2>4. desk' = [desk EXCEPT ![h] = x]
    BY <2>1, <2>3 DEF Sched!Arrive
  <2>5. x \in DeskRec /\ DeskRow(x)
    BY <2>2, <2>3 DEF DeskRow, DeskRec, Sched!Idle
  <2>6. DeskShape'
    BY <1>1, <2>4, <2>5, DeskWritten
  <2>7. TripShape' /\ RestShape'
    BY <1>1, <1>3, <1>14 DEF Sched!AskRefused, Sched!jobs, TripShape, TripRow, RestShape
  <2> QED BY <1>4, <2>6, <2>7 DEF BookingShape
<1>15. CASE Sched!TurnDown(h)
  <2>1. DeskShape'
    BY <1>1, <1>0, <1>15, DeskWritten DEF Sched!TurnDown, Sched!Leave
  <2>2. PICK t : Sched!Write(t, "EXPIRED")
    BY <1>15 DEF Sched!TurnDown
  <2>3. TripShape'
    BY <1>1, <2>2, TripWritten
  <2>4. RestShape'
    BY <1>1, <1>3, <1>15 DEF Sched!TurnDown, Sched!jobs, RestShape
  <2> QED BY <1>4, <2>1, <2>3, <2>4 DEF BookingShape
<1> QED
  BY <1>5, <1>6, <1>7, <1>8, <1>9, <1>10, <1>11, <1>12, <1>13, <1>14, <1>15, SameRows
  DEF Sched!Requests, Both

\* A step of a job keeps the shapes.
LEMMA JobStepShape ==
  ASSUME BookingShape, NEW j \in Replicas,
         Sched!Cron(j) \/ Sched!JobSteps(j) \/ Sched!AskInVain(j) \/ Sched!Abort(j)
  PROVE  BookingShape'
<1>1. TripShape /\ DeskShape /\ JobShape /\ RestShape
  BY DEF BookingShape
<1>2. tripJob[j] \in TripJobRow /\ (tripJob[j].pc # "idle" => tripJob[j].at \in TripRows \ tripJob[j].todo)
  BY <1>1 DEF JobShape
<1>3. TripRows' = TripRows /\ Riders' = Riders
  BY DEF TripRows, Riders
<1>4. DeskShape' /\ counts' = counts
  BY <1>1, <1>3 DEF Sched!Cron, Sched!JobSteps, Sched!AskInVain, Sched!Abort, Sched!Take,
     Sched!Lower, Sched!Check, Sched!AskMode, Sched!ExpireBooking, DeskShape, DeskRow, DeskRec
<1>5. /\ \A S \in SUBSET TripRows : [Sched!Resting EXCEPT !.todo = S] \in TripJobRow
      /\ \A S : [Sched!Resting EXCEPT !.todo = S].pc = "idle"
      /\ Sched!Resting \in TripJobRow /\ Sched!Resting.pc = "idle"
  BY DEF Sched!Resting, TripJobRow
<1>6. ASSUME Sched!NextTrip(j) PROVE JobShape'
  BY <1>1, <1>2, <1>5, <1>6, JobWritten DEF Sched!NextTrip, TripJobRow
<1>7. ASSUME NEW p \in {"check", "ask", "expire"}, Sched!Step(j, p), tripJob[j].pc # "idle"
      PROVE  JobShape'
  <2>1. PICK x : x = [tripJob[j] EXCEPT !.pc = p]
    OBVIOUS
  <2>2. tripJob' = [tripJob EXCEPT ![j] = x]
    BY <1>1, <1>7, <2>1 DEF Sched!Step, JobShape
  <2>3. x \in TripJobRow /\ x.at \in TripRows \ x.todo
    BY <1>2, <1>7, <2>1 DEF TripJobRow
  <2> QED BY <1>1, <2>2, <2>3, JobWritten
<1>8. ASSUME UNCHANGED <<trip, upcoming, calls>>, JobShape' PROVE BookingShape'
  BY <1>1, <1>3, <1>4, <1>8 DEF BookingShape, TripShape, TripRow, RestShape
<1>9. CASE Sched!Cron(j)
  <2>1. {t \in TripRows : Sched!Due(t)} \in SUBSET TripRows
    OBVIOUS
  <2>2. JobShape'
    BY <1>1, <1>5, <1>9, <2>1, JobWritten, SameRows DEF Sched!Cron
  <2> QED BY <1>8, <1>9, <2>2 DEF Sched!Cron
<1>10. CASE Sched!Take(j)
  <2>1. PICK t \in tripJob[j].todo :
          tripJob' = [tripJob EXCEPT ![j] = [todo |-> @.todo \ {t}, at |-> t, pc |-> "lower",
                                     saw |-> upcoming[RiderOf[t]], found |-> "none"]]
    BY <1>10 DEF Sched!Take
  <2>2. PICK x : x = [todo |-> tripJob[j].todo \ {t}, at |-> t, pc |-> "lower",
                      saw |-> upcoming[RiderOf[t]], found |-> "none"]
    OBVIOUS
  <2>3. tripJob' = [tripJob EXCEPT ![j] = x]
    BY <1>1, <2>1, <2>2 DEF JobShape
  <2>4. t \in TripRows
    BY <1>2 DEF TripJobRow
  <2>5. upcoming[RiderOf[t]] \in Nat
    BY <1>1, <2>4 DEF RestShape, Riders
  <2>6. x \in TripJobRow /\ x.at \in TripRows \ x.todo
    BY <1>2, <2>2, <2>4, <2>5 DEF TripJobRow
  <2>7. JobShape'
    BY <1>1, <2>3, <2>6, JobWritten
  <2> QED BY <1>8, <1>10, <2>7 DEF Sched!Take
<1>11. CASE Sched!Lower(j)
  <2>1. JobShape'
    BY <1>7, <1>11 DEF Sched!Lower, Sched!At
  <2>2. Sched!Less(tripJob[j].saw) \in Nat
    BY <1>2 DEF TripJobRow, Sched!Less
  <2>3. TripShape' /\ RestShape'
    BY <1>1, <1>3, <1>11, <2>2 DEF Sched!Lower, TripShape, TripRow, RestShape
  <2> QED BY <1>4, <2>1, <2>3 DEF BookingShape
<1>12. CASE Sched!Check(j)
  <2>1. tripJob[j].pc = "check"
    BY <1>12 DEF Sched!Check, Sched!At
  <2>2. CASE Sched!Step(j, "ask")
    BY <1>7, <1>8, <1>12, <2>1, <2>2 DEF Sched!Check
  <2>3. CASE \E x \in Sched!UnderWay(tripJob[j].at) :
               tripJob' = [tripJob EXCEPT ![j].pc = "expire", ![j].found = trip[x].st]
    <3>1. PICK y \in Sched!UnderWay(tripJob[j].at) :
               tripJob' = [tripJob EXCEPT ![j].pc = "expire", ![j].found = trip[y].st]
      BY <2>3
    <3>2. trip[y].st \in Open
      BY SameRows DEF Sched!UnderWay, TripsOf
    <3>3. PICK x : x = [tripJob[j] EXCEPT !.pc = "expire", !.found = trip[y].st]
      OBVIOUS
    <3>4. tripJob' = [tripJob EXCEPT ![j] = x]
      BY <1>1, <3>1, <3>3 DEF JobShape
    <3>5. x \in TripJobRow /\ x.at \in TripRows \ x.todo
      BY <1>2, <2>1, <3>2, <3>3 DEF TripJobRow
    <3>6. JobShape'
      BY <1>1, <3>4, <3>5, JobWritten
    <3> QED BY <1>8, <1>12, <3>6 DEF Sched!Check
  <2> QED BY <1>12, <2>2, <2>3 DEF Sched!Check
<1>13. CASE Sched!AskMode(j)
  <2>1. tripJob[j].pc = "ask" /\ tripJob[j].at \in TripRows
    BY <1>2, <1>13 DEF Sched!AskMode, Sched!At
  <2>2. JobShape'
    BY <1>6, <1>7, <1>13, <2>1 DEF Sched!AskMode
  <2>3. calls' \subseteq calls \cup {<<j, tripJob[j].at>>} /\ upcoming' = upcoming /\ trip' = trip
    BY <1>13 DEF Sched!AskMode
  <2>4. \A c \in calls' : c[2] \in TripRows
    BY <1>1, <2>1, <2>3 DEF RestShape
  <2>5. TripShape' /\ RestShape'
    BY <1>1, <1>3, <1>4, <2>3, <2>4 DEF TripShape, TripRow, RestShape
  <2> QED BY <1>4, <2>2, <2>5 DEF BookingShape
<1>14. CASE Sched!ExpireBooking(j)
  <2>1. JobShape'
    BY <1>6, <1>14 DEF Sched!ExpireBooking
  <2>2. TripShape'
    BY <1>1, <1>14, TripWritten DEF Sched!ExpireBooking
  <2>3. RestShape'
    BY <1>1, <1>3, <1>14 DEF Sched!ExpireBooking, RestShape
  <2> QED BY <1>4, <2>1, <2>2, <2>3 DEF BookingShape
<1>15. CASE Sched!AskInVain(j)
  BY <1>6, <1>8, <1>15 DEF Sched!AskInVain
<1>16. CASE Sched!Abort(j)
  <2>1. JobShape'
    BY <1>1, <1>5, <1>16, JobWritten DEF Sched!Abort
  <2> QED BY <1>8, <1>16, <2>1 DEF Sched!Abort
<1> QED
  BY <1>9, <1>10, <1>11, <1>12, <1>13, <1>14, <1>15, <1>16 DEF Sched!JobSteps

\* So does any other step.
LEMMA OtherShape ==
  ASSUME BookingShape,
         \/ Sched!CountBooking \/ Sched!Dispatch \/ Sched!NextSlot
         \/ \E t \in TripRows : \/ Sched!DriverAnswers(t) \/ Sched!RideEnds(t)
                                \/ Sched!CancelBooking(t) \/ Sched!CancelTrip(t)
  PROVE  BookingShape'
<1>1. TripShape /\ DeskShape /\ JobShape /\ RestShape
  BY DEF BookingShape
<1>2. TripRows' = TripRows /\ Riders' = Riders
  BY DEF TripRows, Riders
<1>3. DeskShape' /\ JobShape'
  <2>1. desk' = desk /\ tripJob' = tripJob
    BY DEF Sched!CountBooking, Sched!Dispatch, Sched!NextSlot, Sched!DriverAnswers,
       Sched!RideEnds, Sched!CancelBooking, Sched!CancelTrip, Sched!Moved, Sched!jobs
  <2> QED BY <1>1, <1>2, <2>1 DEF DeskShape, DeskRow, DeskRec, JobShape, TripJobRow
<1>4. RestShape'
  <2>1. \A x \in counts' : x \in counts
    BY DEF Sched!CountBooking, Sched!Dispatch, Sched!NextSlot, Sched!DriverAnswers,
       Sched!RideEnds, Sched!CancelBooking, Sched!CancelTrip, Sched!Moved, Sched!jobs
  <2>2. \A x \in calls' : x \in calls
    BY DEF Sched!CountBooking, Sched!Dispatch, Sched!NextSlot, Sched!DriverAnswers,
       Sched!RideEnds, Sched!CancelBooking, Sched!CancelTrip, Sched!Moved, Sched!jobs
  <2>3. upcoming' \in [Riders -> Nat]
    BY <1>1 DEF Sched!CountBooking, Sched!Dispatch, Sched!NextSlot, Sched!DriverAnswers,
       Sched!RideEnds, Sched!CancelBooking, Sched!CancelTrip, Sched!Moved, Sched!jobs, RestShape
  <2> QED BY <1>1, <1>2, <2>1, <2>2, <2>3 DEF RestShape
<1>5. TripShape'
  <2>1. ASSUME trip' = trip PROVE TripShape'
    BY <1>1, <1>2, <2>1 DEF TripShape, TripRow
  <2>2. CASE Sched!CountBooking \/ Sched!NextSlot
    BY <2>1, <2>2 DEF Sched!CountBooking, Sched!NextSlot
  <2>3. CASE Sched!Dispatch
    BY <1>1, <2>3, TripWritten DEF Sched!Dispatch, Sched!Write
  <2>4. ASSUME NEW t \in TripRows, NEW st \in Open \cup {"COMPLETED", "EXPIRED", "CANCELLED"},
               Sched!Moved(t, st)
        PROVE  TripShape'
    BY <1>1, <2>4, TripWritten DEF Sched!Moved
  <2>5. \A st \in {"PENDING", "NO_DRIVER", "REJECTED_BY_DRIVER", "ACCEPTED_BY_DRIVER", "BOOKING_CANCELLED",
                   "COMPLETED", "EXPIRED", "CANCELLED"} :
            st \in Open \cup {"COMPLETED", "EXPIRED", "CANCELLED"}
    BY DEF Open
  <2>6. CASE \E t \in TripRows : \/ Sched!DriverAnswers(t) \/ Sched!RideEnds(t)
                                \/ Sched!CancelBooking(t) \/ Sched!CancelTrip(t)
    BY <2>4, <2>5, <2>6 DEF Sched!DriverAnswers, Sched!RideEnds, Sched!CancelBooking, Sched!CancelTrip
  <2> QED BY <2>2, <2>3, <2>6
<1> QED BY <1>3, <1>4, <1>5 DEF BookingShape

-----------------------------------------------------------------------------
(* Requests *)

\* A rider whose handler is at work has nothing else under way.
LEMMA OneHandler ==
  ASSUME NEW h \in Handlers, NEW r, desk[h].pc # "idle", desk[h].of = r, Orderly(r)
  PROVE  /\ DesksOf(r) = {h} /\ CountsOf(r) = {} /\ JobsOf(r) = {} /\ CallsOf(r) = {}
         /\ Relies(r, desk[h]) /\ OneOfEach(r) /\ OneAtATime(r)
<1>1. h \in DesksOf(r)
  BY DEF DesksOf
<1>2. Asking(r)
  BY <1>1 DEF Orderly, Free, Counting, Processed, Dispatched
<1>3. PICK g \in Handlers : DesksOf(r) = {g} /\ Relies(r, desk[g])
  BY <1>2 DEF Asking
<1>4. g = h
  BY <1>1, <1>3
<1> QED BY <1>2, <1>3, <1>4 DEF Asking, Orderly

\* A rider without anything under way is free.
LEMMA FreeRider ==
  ASSUME BookingShape, NEW r, r \notin Engaged, Orderly(r)
  PROVE  Free(r) /\ OneOfEach(r) /\ OneAtATime(r)
<1>1. DesksOf(r) = {} /\ CountsOf(r) = {} /\ JobsOf(r) = {} /\ CallsOf(r) = {}
  BY EngagedRiders
<1>2. \A h \in Handlers : {} # {h}
  OBVIOUS
<1>3. ~Asking(r) /\ ~Counting(r)
  BY <1>1, <1>2 DEF Asking, Counting
<1>4. ~Processed(r) /\ ~Dispatched(r)
  BY <1>1 DEF Processed, Dispatched
<1> QED BY <1>3, <1>4 DEF Orderly

\* A handler that has gone on, or begun.
LEMMA NowAsking ==
  ASSUME NEW r, NEW h \in Handlers, NEW x, desk'[h] = x, Relies(r, x)', DesksOf(r)' = {h},
         CountsOf(r)' = {}, JobsOf(r)' = {}, CallsOf(r)' = {}, OneOfEach(r)', OneAtATime(r)'
  PROVE  Orderly(r)'
<1>1. Relies(r, desk[h])'
  BY DEF Relies, Creates, Created, Sole, Untaken, CountedFor, OfKind, TripsOf, Waiting
<1> QED BY <1>1 DEF Orderly, Asking

\* What a handler does for one rider leaves the others' order.
LEMMA OthersOrder ==
  ASSUME BookingShape, BookingShape', NEW r \in Riders, Orderly(r),
         NEW h \in Handlers, NEW x, desk' = [desk EXCEPT ![h] = x],
         desk[h].pc = "idle" \/ desk[h].of # r, x.pc = "idle" \/ x.of # r,
         CountsOf(r)' = CountsOf(r), tripJob' = tripJob, calls' = calls, Aging(r),
         \A t \in TripRows : RiderOf[t] = r => trip'[t] = trip[t]
  PROVE  Orderly(r)'
<1>1. DeskShape
  BY DEF BookingShape
<1>2. h \notin DesksOf(r)
  BY DEF DesksOf
<1>3. DesksOf(r)' = DesksOf(r)
  BY <1>1, <1>2 DEF DeskShape, DesksOf
<1>4. JobsOf(r)' = JobsOf(r) /\ CallsOf(r)' = CallsOf(r)
  BY DEF JobsOf, CallsOf, InJob, TripRows
<1>5. \A g \in DesksOf(r) : desk'[g] = desk[g] /\ \A t \in desk[g].old : trip'[t] = trip[t]
  <2>1. ASSUME NEW g \in DesksOf(r) PROVE desk'[g] = desk[g] /\ \A t \in desk[g].old : trip'[t] = trip[t]
    <3>1. g \in Handlers /\ g # h /\ desk[g].pc # "idle" /\ desk[g].of = r
      BY <1>2 DEF DesksOf
    <3>2. DeskRow(desk[g])
      BY <1>1, <3>1 DEF DeskShape
    <3>3. desk'[g] = desk[g]
      BY <1>1, <3>1 DEF DeskShape
    <3> QED BY <3>1, <3>2, <3>3 DEF DeskRow
  <2> QED BY <2>1
<1> QED BY <1>3, <1>4, <1>5, OrderStays DEF SameWork

\* Trips that stay as they are.
LEMMA NothingAges ==
  ASSUME BookingShape, NEW r \in Riders, \A t \in TripRows : RiderOf[t] = r => trip'[t] = trip[t],
         upcoming'[r] = upcoming[r], doubled \subseteq doubled', missed \subseteq missed', left \subseteq left'
  PROVE  Aging(r)
<1>1. upcoming[r] \in Nat
  BY DEF BookingShape, RestShape
<1> QED BY <1>1 DEF Aging

\* A trip that is ended, or cancelled, has aged.
LEMMA EndAges ==
  ASSUME BookingShape, NEW r \in Riders, NEW t, NEW st \in {"EXPIRED", "CANCELLED", "BOOKING_CANCELLED"},
         Sched!Write(t, st),
         upcoming'[r] = upcoming[r], doubled \subseteq doubled', missed \subseteq missed', left \subseteq left'
  PROVE  Aging(r)
<1>1. upcoming[r] \in Nat /\ trip \in [TripRows -> TripRow]
  BY DEF BookingShape, RestShape, TripShape
<1>2. ASSUME NEW u \in TripRows, u = t PROVE Ages(u)
  <2>1. trip'[u] = [trip[u] EXCEPT !.st = st]
    BY <1>1, <1>2 DEF Sched!Write
  <2>2. trip'[u].st = st /\ trip'[u].kind = trip[u].kind /\ trip'[u].out = trip[u].out
    BY <1>1, <2>1 DEF TripRow
  <2> QED BY <2>2 DEF Ages, OutOn, Waiting, Untaken, Live, Moving
<1>3. \A u \in TripRows : trip'[u] = trip[u] \/ Ages(u)
  BY <1>1, <1>2 DEF Sched!Write
<1> QED BY <1>1, <1>3 DEF Aging

\* A new request relies on what it found.
LEMMA AskOrder ==
  ASSUME BookingShape, BookingShape', NEW h \in Handlers, NEW q \in Riders, NEW k \in Both,
         NEW at \in 0..LastSlot, Sched!Ask(h, q, k, at), NEW r \in Riders, Orderly(r), r \notin strained'
  PROVE  Orderly(r)'
<1>0. DeskShape /\ desk[h].pc = "idle"
  BY DEF BookingShape, Sched!Ask, Sched!Arrive
<1>1. PICK imm \in Sched!FirstOf(q, "IMMEDIATELY"), sched \in Sched!FirstOf(q, "SCHEDULED") :
        /\ Sched!MayBook(k, Sched!Statuses(imm), Sched!Statuses(sched))
        /\ LET old == Sched!Retired(imm, sched) IN
             Sched!Arrive(h, q, [Sched!Idle EXCEPT !.pc = IF old = {} THEN "save" ELSE "expire", !.of = q,
                                       !.kind = k, !.at = at, !.old = old])
        /\ doubled' = IF k = "IMMEDIATELY" /\ \E t \in sched : trip[t].out
                      THEN doubled \cup {q} ELSE doubled
  BY DEF Sched!Ask
<1>2. PICK old : old = Sched!Retired(imm, sched)
  OBVIOUS
<1>3. PICK x : x = [Sched!Idle EXCEPT !.pc = IF old = {} THEN "save" ELSE "expire", !.of = q,
                                     !.kind = k, !.at = at, !.old = old]
  OBVIOUS
<1>4. desk' = [desk EXCEPT ![h] = x] /\ strained' = IF q \in Engaged THEN strained \cup {q} ELSE strained
  BY <1>1, <1>2, <1>3, SameRows DEF Sched!Arrive
<1>5. x.pc = (IF old = {} THEN "save" ELSE "expire") /\ x.of = q /\ x.kind = k /\ x.old = old
  BY <1>3 DEF Sched!Idle
<1>6. /\ UNCHANGED <<now, trip, upcoming, counts, tripJob, calls, missed, left>>
      /\ doubled \subseteq doubled'
  BY <1>1 DEF Sched!Ask, Sched!jobs
<1>7. Aging(r)
  BY <1>6, NothingAges
<1>8. CASE r # q
  BY <1>0, <1>4, <1>5, <1>6, <1>7, <1>8, OthersOrder DEF CountsOf
<1>9. CASE r = q
  <2>1. r \notin Engaged
    BY <1>4, <1>9
  <2>2. Free(r) /\ OneOfEach(r) /\ OneAtATime(r)
    BY <2>1, FreeRider
  <2>3. DesksOf(r)' = {h}
    <3>1. DesksOf(r) = {} /\ x.pc # "idle" /\ x.of = r
      BY <1>5, <1>9, <2>2 DEF Free
    <3> QED BY <1>0, <1>4, <3>1 DEF DeskShape, DesksOf
  <2>4. CountsOf(r)' = {} /\ JobsOf(r)' = {} /\ CallsOf(r)' = {}
    BY <1>6, <2>2 DEF Free, CountsOf, JobsOf, CallsOf, InJob, TripRows
  <2>5. Sched!Open \ {"BOOKING_CANCELLED"} = Live
    BY DEF Sched!Open, Live
  <2>6. /\ imm \subseteq OfKind(r, "IMMEDIATELY", Live) /\ sched \subseteq OfKind(r, "SCHEDULED", Live)
        /\ \A t \in TripsOf(r, Live) : /\ trip[t].kind = "IMMEDIATELY" => t \in imm
                                       /\ trip[t].kind = "SCHEDULED" => t \in sched
    <3>1. Sched!FirstOf(r, "IMMEDIATELY") = IF OfKind(r, "IMMEDIATELY", Live) = {} THEN {{}}
                                            ELSE {{t} : t \in OfKind(r, "IMMEDIATELY", Live)}
      BY <2>5, SameRows DEF Sched!FirstOf, OfKind
    <3>2. Sched!FirstOf(r, "SCHEDULED") = IF OfKind(r, "SCHEDULED", Live) = {} THEN {{}}
                                            ELSE {{t} : t \in OfKind(r, "SCHEDULED", Live)}
      BY <2>5, SameRows DEF Sched!FirstOf, OfKind
    <3>3. \A t \in OfKind(r, "IMMEDIATELY", Live) : imm = {t}
      <4>1. ASSUME NEW t \in OfKind(r, "IMMEDIATELY", Live) PROVE imm = {t}
        <5>1. PICK u \in OfKind(r, "IMMEDIATELY", Live) : imm = {u}
          BY <1>9, <3>1, <4>1
        <5>2. u = t
          BY <2>2, <4>1, <5>1 DEF OfKind, OneOfEach
        <5> QED BY <5>1, <5>2
      <4> QED BY <4>1
    <3>4. \A t \in OfKind(r, "SCHEDULED", Live) : sched = {t}
      <4>1. ASSUME NEW t \in OfKind(r, "SCHEDULED", Live) PROVE sched = {t}
        <5>1. PICK u \in OfKind(r, "SCHEDULED", Live) : sched = {u}
          BY <1>9, <3>2, <4>1
        <5>2. u = t
          BY <2>2, <4>1, <5>1 DEF OfKind, OneOfEach
        <5> QED BY <5>1, <5>2
      <4> QED BY <4>1
    <3>5. OfKind(r, "IMMEDIATELY", Live) = {} => imm = {}
      BY <1>9, <3>1
    <3>6. OfKind(r, "SCHEDULED", Live) = {} => sched = {}
      BY <1>9, <3>2
    <3> QED BY <3>3, <3>4, <3>5, <3>6 DEF OfKind
  <2>7. \A t \in old : trip[t].st \in {"PENDING", "NO_DRIVER"}
    <3>1. \A t \in imm : trip[t].st \in {"NO_DRIVER", "PENDING"}
      BY <1>1 DEF Sched!MayBook, Sched!Statuses
    <3> QED BY <1>2, <3>1 DEF Sched!Retired
  <2>8. ASSUME NEW t \in TripsOf(r, Live), t \notin old
        PROVE  /\ k = "IMMEDIATELY" /\ trip[t].kind = "SCHEDULED"
               /\ r \notin doubled' => trip[t].st = "PENDING" /\ ~trip[t].out
    <3>1. t \notin imm /\ (t \in sched => trip[t].st # "NO_DRIVER")
      BY <1>2, <2>8 DEF Sched!Retired
    <3>2. trip[t].kind = "SCHEDULED" /\ t \in sched
      BY <2>2, <2>6, <3>1 DEF OneOfEach, Both
    <3>3. trip[t].st \in Sched!Statuses(sched)
      BY <3>2 DEF Sched!Statuses
    <3>4. k = "IMMEDIATELY" /\ trip[t].st = "PENDING"
      BY <1>1, <3>1, <3>2, <3>3 DEF Sched!MayBook, Both
    <3>5. r \notin doubled' => ~trip[t].out
      BY <1>1, <1>9, <3>2, <3>4
    <3> QED BY <3>2, <3>4, <3>5
  <2>9. CountedFor(r)'
    BY <1>6, <2>2 DEF Free, CountedFor, TripsOf, Waiting, TripRows
  <2>10. TripsOf(r, Live)' = TripsOf(r, Live)
    BY <1>6 DEF TripsOf, TripRows
  <2>11. Creates(r, x)'
    BY <1>5, <1>6, <2>7, <2>8, <2>9, <2>10 DEF Creates
  <2>12. Relies(r, x)'
    BY <1>5, <2>11 DEF Relies
  <2>13. OneOfEach(r)' /\ OneAtATime(r)'
    BY <1>7, <2>2, TripsStayApart
  <2>14. desk'[h] = x
    BY <1>0, <1>4 DEF DeskShape
  <2> QED BY <2>3, <2>4, <2>12, <2>13, <2>14, NowAsking
<1> QED BY <1>8, <1>9

\* A request that will be refused retires a trip without a driver before it is.
LEMMA AskRefusedOrder ==
  ASSUME BookingShape, BookingShape', NEW h \in Handlers, NEW q \in Riders, NEW k \in Both,
         Sched!AskRefused(h, q, k), NEW r \in Riders, Orderly(r), r \notin strained'
  PROVE  Orderly(r)'
<1>0. DeskShape /\ desk[h].pc = "idle"
  BY DEF BookingShape, Sched!AskRefused, Sched!Arrive
<1>1. PICK imm \in Sched!FirstOf(q, "IMMEDIATELY") :
        /\ Sched!MayBook(k, Sched!Statuses(imm), {})
        /\ Sched!Arrive(h, q, [Sched!Idle EXCEPT !.pc = "clear", !.of = q, !.old = imm])
  BY DEF Sched!AskRefused
<1>2. PICK x : x = [Sched!Idle EXCEPT !.pc = "clear", !.of = q, !.old = imm]
  OBVIOUS
<1>3. desk' = [desk EXCEPT ![h] = x] /\ strained' = IF q \in Engaged THEN strained \cup {q} ELSE strained
  BY <1>1, <1>2, SameRows DEF Sched!Arrive
<1>4. x.pc = "clear" /\ x.of = q /\ x.old = imm
  BY <1>2 DEF Sched!Idle
<1>5. UNCHANGED <<now, trip, upcoming, counts, tripJob, calls, doubled, missed, left>>
  BY DEF Sched!AskRefused, Sched!jobs
<1>6. Aging(r)
  BY <1>5, NothingAges
<1>7. CASE r # q
  BY <1>0, <1>3, <1>4, <1>5, <1>6, <1>7, OthersOrder DEF CountsOf
<1>8. CASE r = q
  <2>1. Free(r) /\ OneOfEach(r) /\ OneAtATime(r)
    BY <1>3, <1>8, FreeRider
  <2>2. DesksOf(r)' = {h}
    <3>1. DesksOf(r) = {} /\ x.pc # "idle" /\ x.of = r
      BY <1>4, <1>8, <2>1 DEF Free
    <3> QED BY <1>0, <1>3, <3>1 DEF DeskShape, DesksOf
  <2>3. CountsOf(r)' = {} /\ JobsOf(r)' = {} /\ CallsOf(r)' = {}
    BY <1>5, <2>1 DEF Free, CountsOf, JobsOf, CallsOf, InJob, TripRows
  <2>4. \A t \in imm : trip[t].st \in {"PENDING", "NO_DRIVER"}
    BY <1>1 DEF Sched!MayBook, Sched!Statuses
  <2>5. CountedFor(r)'
    BY <1>5, <2>1 DEF Free, CountedFor, TripsOf, Waiting, TripRows
  <2>6. \A t \in x.old : trip'[t].st \in {"PENDING", "NO_DRIVER"}
    BY <1>4, <1>5, <2>4
  <2>7. Relies(r, x)'
    BY <1>4, <2>5, <2>6 DEF Relies
  <2>8. OneOfEach(r)' /\ OneAtATime(r)'
    BY <1>6, <2>1, TripsStayApart
  <2>9. desk'[h] = x
    BY <1>0, <1>3 DEF DeskShape
  <2> QED BY <2>2, <2>3, <2>7, <2>8, <2>9, NowAsking
<1> QED BY <1>7, <1>8

\* A request that retires trips still relies on the others.
LEMMA ExpireOldOrder ==
  ASSUME BookingShape, BookingShape', NEW h \in Handlers, Sched!ExpireOld(h),
         NEW r \in Riders, Orderly(r), r \notin strained'
  PROVE  Orderly(r)'
<1>0. DeskShape /\ TripShape /\ desk[h].pc = "expire" /\ desk[h] \in DeskRec /\ DeskRow(desk[h])
  BY DEF BookingShape, DeskShape, Sched!ExpireOld
<1>1. PICK t \in desk[h].old :
        /\ Sched!Write(t, "EXPIRED")
        /\ desk' = [desk EXCEPT ![h].old = @ \ {t},
                                ![h].pc = IF desk[h].old = {t} THEN "save" ELSE "expire"]
  BY DEF Sched!ExpireOld
<1>2. PICK x : x = [desk[h] EXCEPT !.old = @ \ {t},
                                !.pc = IF desk[h].old = {t} THEN "save" ELSE "expire"]
  OBVIOUS
<1>3. desk' = [desk EXCEPT ![h] = x]
  BY <1>0, <1>1, <1>2 DEF DeskShape
<1>4. x.pc = (IF desk[h].old = {t} THEN "save" ELSE "expire") /\ x.of = desk[h].of
      /\ x.kind = desk[h].kind /\ x.old = desk[h].old \ {t}
  BY <1>0, <1>2 DEF DeskRec
<1>5. UNCHANGED <<now, upcoming, counts, tripJob, calls, strained, doubled, missed, left>>
  BY DEF Sched!ExpireOld, Sched!jobs, Sched!history
<1>6. t \in TripRows /\ RiderOf[t] = desk[h].of
  BY <1>0, <1>1 DEF DeskRow
<1>7. /\ trip'[t].st = "EXPIRED"
      /\ \A u \in TripRows : u # t => trip'[u] = trip[u]
  BY <1>0, <1>1, <1>6 DEF Sched!Write, TripShape, TripRow
<1>8. Aging(r)
  BY <1>1, <1>5, EndAges
<1>9. CASE desk[h].of # r
  <2>1. \A u \in TripRows : RiderOf[u] = r => trip'[u] = trip[u]
    BY <1>6, <1>7, <1>9
  <2> QED BY <1>3, <1>4, <1>5, <1>8, <1>9, <2>1, OthersOrder DEF CountsOf
<1>10. CASE desk[h].of = r
  <2>1. /\ DesksOf(r) = {h} /\ CountsOf(r) = {} /\ JobsOf(r) = {} /\ CallsOf(r) = {}
        /\ Relies(r, desk[h]) /\ OneOfEach(r) /\ OneAtATime(r)
    BY <1>0, <1>10, OneHandler
  <2>2. DesksOf(r)' = {h}
    <3>1. x.pc # "idle" /\ x.of = r
      BY <1>4, <1>10
    <3> QED BY <1>0, <1>3, <2>1, <3>1 DEF DeskShape, DesksOf
  <2>3. CountsOf(r)' = {} /\ JobsOf(r)' = {} /\ CallsOf(r)' = {}
    BY <1>5, <2>1 DEF CountsOf, JobsOf, CallsOf, InJob, TripRows
  <2>4. Creates(r, desk[h])
    BY <1>0, <2>1 DEF Relies
  <2>5. \A u \in x.old : trip'[u].st \in {"PENDING", "NO_DRIVER"}
    BY <1>0, <1>4, <1>7, <2>4 DEF Creates, DeskRow
  <2>6. ASSUME NEW u \in TripsOf(r, Live)', u \notin x.old
        PROVE  /\ x.kind = "IMMEDIATELY" /\ trip'[u].kind = "SCHEDULED"
               /\ r \notin doubled' => trip'[u].st = "PENDING" /\ ~trip'[u].out
    <3>1. u \in TripRows /\ u # t /\ RiderOf[u] = r
      BY <1>7 DEF TripsOf, Live, TripRows
    <3>2. trip'[u] = trip[u] /\ u \in TripsOf(r, Live) /\ u \notin desk[h].old
      BY <1>4, <1>7, <2>6, <3>1 DEF TripsOf
    <3> QED BY <1>4, <1>5, <2>4, <3>2 DEF Creates
  <2>7. CountedFor(r)'
    BY <1>8, <2>4, StillCounted DEF Creates, BookingShape
  <2>8. Creates(r, x)'
    BY <2>5, <2>6, <2>7 DEF Creates
  <2>9. Relies(r, x)'
    BY <1>4, <2>8 DEF Relies
  <2>10. OneOfEach(r)' /\ OneAtATime(r)'
    BY <1>8, <2>1, TripsStayApart
  <2>11. desk'[h] = x
    BY <1>0, <1>3 DEF DeskShape
  <2> QED BY <2>2, <2>3, <2>9, <2>10, <2>11, NowAsking
<1> QED BY <1>9, <1>10

\* A new trip is the only one of its kind, and no other has a driver.
LEMMA SaveOrder ==
  ASSUME BookingShape, BookingShape', NEW h \in Handlers, Sched!Save(h),
         NEW r \in Riders, Orderly(r), r \notin strained'
  PROVE  Orderly(r)'
<1>0. DeskShape /\ TripShape /\ desk[h].pc = "save" /\ desk[h] \in DeskRec /\ DeskRow(desk[h])
  BY DEF BookingShape, DeskShape, Sched!Save
<1>1. PICK t \in TripRows :
        /\ trip[t].st = "none" /\ RiderOf[t] = desk[h].of
        /\ trip' = [trip EXCEPT ![t] = [st |-> "PENDING", kind |-> desk[h].kind,
                                        at |-> desk[h].at, out |-> FALSE]]
        /\ desk' = [desk EXCEPT ![h].pc = "balance", ![h].trip = t]
  BY SameRows DEF Sched!Save
<1>2. PICK x : x = [desk[h] EXCEPT !.pc = "balance", !.trip = t]
  OBVIOUS
<1>3. desk' = [desk EXCEPT ![h] = x]
  BY <1>0, <1>1, <1>2 DEF DeskShape
<1>4. x.pc = "balance" /\ x.of = desk[h].of /\ x.kind = desk[h].kind /\ x.trip = t
  BY <1>0, <1>2 DEF DeskRec
<1>5. /\ UNCHANGED <<now, upcoming, counts, tripJob, calls, strained, doubled, left>>
      /\ missed \subseteq missed'
  BY DEF Sched!Save, Sched!jobs
<1>6. desk[h].kind \in Both /\ desk[h].old = {}
  BY <1>0 DEF DeskRow
<1>7. /\ trip'[t].st = "PENDING" /\ trip'[t].kind = desk[h].kind /\ ~trip'[t].out
      /\ \A u \in TripRows : u # t => trip'[u] = trip[u]
  BY <1>0, <1>1 DEF TripShape
<1>8. CASE desk[h].of # r
  <2>1. \A u \in TripRows : RiderOf[u] = r => trip'[u] = trip[u]
    BY <1>1, <1>7, <1>8
  <2>2. Aging(r)
    BY <1>5, <2>1, NothingAges
  <2> QED BY <1>3, <1>4, <1>5, <1>8, <2>1, <2>2, OthersOrder DEF CountsOf
<1>9. CASE desk[h].of = r
  <2>1. /\ DesksOf(r) = {h} /\ CountsOf(r) = {} /\ JobsOf(r) = {} /\ CallsOf(r) = {}
        /\ Relies(r, desk[h]) /\ OneOfEach(r) /\ OneAtATime(r)
    BY <1>0, <1>9, OneHandler
  <2>2. DesksOf(r)' = {h}
    <3>1. x.pc # "idle" /\ x.of = r
      BY <1>4, <1>9
    <3> QED BY <1>0, <1>3, <2>1, <3>1 DEF DeskShape, DesksOf
  <2>3. CountsOf(r)' = {} /\ JobsOf(r)' = {} /\ CallsOf(r)' = {}
    BY <1>5, <2>1 DEF CountsOf, JobsOf, CallsOf, InJob, TripRows
  <2>4. /\ \A u \in TripsOf(r, Live) :
             /\ desk[h].kind = "IMMEDIATELY" /\ trip[u].kind = "SCHEDULED"
             /\ r \notin doubled => trip[u].st = "PENDING" /\ ~trip[u].out
        /\ CountedFor(r)
    BY <1>0, <1>6, <2>1 DEF Relies, Creates
  <2>5. \A u \in TripsOf(r, Live)' : u = t \/ (u \in TripsOf(r, Live) /\ trip'[u] = trip[u] /\ u # t)
    BY <1>7 DEF TripsOf, TripRows
  <2>6. OneOfEach(r)'
    BY <1>6, <1>7, <2>1, <2>4, <2>5 DEF OneOfEach
  <2>7. OneAtATime(r)'
    <3>1. SUFFICES ASSUME r \notin doubled', NEW u \in OfKind(r, "SCHEDULED", Moving)', OutOn(u)'
                   PROVE  FALSE
      BY DEF OneAtATime
    <3>2. u \in TripsOf(r, Live)' /\ u \in TripRows
      BY DEF OfKind, TripsOf, Moving, Live, TripRows
    <3>3. u # t
      BY <1>7, <3>1 DEF OutOn
    <3>4. trip'[u].st = "PENDING" /\ ~trip'[u].out
      BY <1>5, <2>4, <2>5, <3>1, <3>2, <3>3
    <3> QED BY <3>1, <3>4 DEF OutOn
  <2>8. Untaken(t)'
    BY <1>7 DEF Untaken
  <2>9. Sole(t, x.kind)'
    BY <1>1, <1>4, <1>9, <2>4, <2>5 DEF Sole, OfKind
  <2>10. x.kind = "IMMEDIATELY" => CountedFor(r)'
    <3>1. SUFFICES ASSUME x.kind = "IMMEDIATELY",
                          NEW u \in (TripsOf(r, {"PENDING"}) \ (missed \cup left))', Waiting(u)'
                   PROVE  upcoming'[r] >= 1
      BY DEF CountedFor
    <3>2. u # t
      BY <1>4, <1>7, <3>1 DEF Waiting
    <3>3. u \in TripsOf(r, {"PENDING"}) \ (missed \cup left) /\ Waiting(u)
      BY <1>5, <1>7, <3>1, <3>2 DEF TripsOf, Waiting, TripRows
    <3> QED BY <1>5, <2>4, <3>3 DEF CountedFor
  <2>11. Created(r, x)'
    <3>1. PICK kind : kind = x.kind
      OBVIOUS
    <3>2. Sole(t, kind)'
      BY <2>9, <3>1
    <3>3. trip'[x.trip].kind = x.kind /\ Untaken(x.trip)'
      BY <1>4, <1>7, <2>8 DEF Untaken
    <3>4. Sole(x.trip, x.kind)'
      BY <1>4, <2>9 DEF Sole, OfKind, TripsOf
    <3> QED BY <2>10, <3>3, <3>4 DEF Created
  <2>12. Relies(r, x)'
    BY <1>4, <2>11 DEF Relies
  <2>13. desk'[h] = x
    BY <1>0, <1>3 DEF DeskShape
  <2> QED BY <2>2, <2>3, <2>6, <2>7, <2>12, <2>13, NowAsking
<1> QED BY <1>8, <1>9

\* A rider whose request is over.
LEMMA NowFree ==
  ASSUME NEW r, DesksOf(r)' = {}, CountsOf(r)' = {}, JobsOf(r)' = {}, CallsOf(r)' = {},
         CountedFor(r)', OneOfEach(r)', OneAtATime(r)'
  PROVE  Orderly(r)'
BY DEF Orderly, Free

\* The trip of a refused request is over, and so is the request.
LEMMA TurnDownOrder ==
  ASSUME BookingShape, BookingShape', NEW h \in Handlers, Sched!TurnDown(h),
         NEW r \in Riders, Orderly(r), r \notin strained'
  PROVE  Orderly(r)'
<1>0. DeskShape /\ TripShape /\ RestShape /\ RestShape' /\ desk[h].pc = "clear" /\ DeskRow(desk[h])
  BY DEF BookingShape, DeskShape, Sched!TurnDown
<1>1. PICK t \in desk[h].old : Sched!Write(t, "EXPIRED")
  BY DEF Sched!TurnDown
<1>2. desk' = [desk EXCEPT ![h] = Sched!Idle] /\ Sched!Idle.pc = "idle"
  BY DEF Sched!TurnDown, Sched!Leave, Sched!Idle
<1>3. UNCHANGED <<now, upcoming, counts, tripJob, calls, strained, doubled, missed, left>>
  BY DEF Sched!TurnDown, Sched!jobs, Sched!history
<1>4. t \in TripRows /\ RiderOf[t] = desk[h].of
  BY <1>0, <1>1 DEF DeskRow
<1>5. Aging(r)
  BY <1>1, <1>3, EndAges
<1>6. CASE desk[h].of # r
  <2>1. \A u \in TripRows : RiderOf[u] = r => trip'[u] = trip[u]
    BY <1>0, <1>1, <1>4, <1>6 DEF Sched!Write, TripShape
  <2> QED BY <1>2, <1>3, <1>5, <1>6, <2>1, OthersOrder DEF CountsOf
<1>7. CASE desk[h].of = r
  <2>1. /\ DesksOf(r) = {h} /\ CountsOf(r) = {} /\ JobsOf(r) = {} /\ CallsOf(r) = {}
        /\ Relies(r, desk[h]) /\ OneOfEach(r) /\ OneAtATime(r)
    BY <1>0, <1>7, OneHandler
  <2>2. DesksOf(r)' = {}
    BY <1>0, <1>2, <2>1 DEF DeskShape, DesksOf
  <2>3. CountsOf(r)' = {} /\ JobsOf(r)' = {} /\ CallsOf(r)' = {}
    BY <1>3, <2>1 DEF CountsOf, JobsOf, CallsOf, InJob, TripRows
  <2>4. CountedFor(r)
    BY <1>0, <2>1 DEF Relies
  <2>5. CountedFor(r)'
    BY <1>0, <1>5, <2>4, StillCounted
  <2>6. OneOfEach(r)' /\ OneAtATime(r)'
    BY <1>5, <2>1, TripsStayApart
  <2> QED BY <2>2, <2>3, <2>5, <2>6, NowFree
<1> QED BY <1>6, <1>7

\* Nobody has a booking to be counted who has none.
LEMMA NoneToCount ==
  ASSUME NEW r, OfKind(r, "SCHEDULED", Live) = {}
  PROVE  CountedFor(r)
BY DEF CountedFor, OfKind, TripsOf, Waiting, Live

\* The new trip is counted, sent to drivers or expired.
LEMMA BalanceOrder ==
  ASSUME BookingShape, BookingShape', NEW h \in Handlers, Sched!Balance(h),
         NEW r \in Riders, Orderly(r), r \notin strained'
  PROVE  Orderly(r)'
<1>0. /\ DeskShape /\ TripShape /\ RestShape /\ RestShape' /\ desk[h].pc = "balance"
      /\ desk[h] \in DeskRec /\ DeskRow(desk[h])
  BY DEF BookingShape, DeskShape, Sched!Balance
<1>1. PICK t : t = desk[h].trip
  OBVIOUS
<1>2. t \in TripRows /\ RiderOf[t] = desk[h].of
  BY <1>0, <1>1 DEF DeskRow
<1>3. desk' = [desk EXCEPT ![h] = Sched!Idle] /\ Sched!Idle.pc = "idle"
  BY DEF Sched!Balance, Sched!Leave, Sched!Idle
<1>4. UNCHANGED <<now, upcoming, tripJob, calls, strained, doubled, missed, left>>
  BY DEF Sched!Balance, Sched!jobs, Sched!history
<1>5. \/ Sched!Write(t, "EXPIRED") /\ counts' = counts
      \/ /\ desk[h].kind = "SCHEDULED" /\ trip' = trip
         /\ counts' = counts \cup {[of |-> desk[h].of, by |-> t, to |-> upcoming[desk[h].of] + 1]}
      \/ /\ desk[h].kind = "IMMEDIATELY" /\ counts' = counts
         /\ trip' = [trip EXCEPT ![t].out = (trip[t].st = "PENDING")]
  BY <1>1 DEF Sched!Balance
<1>6. CASE desk[h].of # r
  <2>1. \A u \in TripRows : RiderOf[u] = r => trip'[u] = trip[u]
    BY <1>0, <1>2, <1>5, <1>6 DEF Sched!Write, TripShape
  <2>2. Aging(r)
    BY <1>4, <2>1, NothingAges
  <2>3. CountsOf(r)' = CountsOf(r)
    BY <1>5, <1>6 DEF CountsOf
  <2> QED BY <1>3, <1>4, <1>6, <2>1, <2>2, <2>3, OthersOrder
<1>7. CASE desk[h].of = r
  <2>1. /\ DesksOf(r) = {h} /\ CountsOf(r) = {} /\ JobsOf(r) = {} /\ CallsOf(r) = {}
        /\ Relies(r, desk[h]) /\ OneOfEach(r) /\ OneAtATime(r)
    BY <1>0, <1>7, OneHandler
  <2>2. DesksOf(r)' = {}
    BY <1>0, <1>3, <2>1 DEF DeskShape, DesksOf
  <2>3. JobsOf(r)' = {} /\ CallsOf(r)' = {}
    BY <1>4, <2>1 DEF JobsOf, CallsOf, InJob, TripRows
  <2>4. Created(r, desk[h])
    BY <1>0, <2>1 DEF Relies
  <2>5. /\ trip[t].kind = desk[h].kind /\ Untaken(t) /\ desk[h].kind \in Both
        /\ \A u \in OfKind(r, desk[h].kind, Live) : u = t
        /\ desk[h].kind = "IMMEDIATELY" => CountedFor(r)
    BY <1>0, <1>1, <1>2, <1>7, <2>4 DEF Created, Sole, DeskRow
  <2>6. CASE Sched!Write(t, "EXPIRED") /\ counts' = counts
    <3>1. Aging(r)
      BY <1>4, <2>6, EndAges
    <3>2. OneOfEach(r)' /\ OneAtATime(r)'
      BY <2>1, <3>1, TripsStayApart
    <3>3. CountsOf(r)' = {}
      BY <2>1, <2>6 DEF CountsOf
    <3>4. CountedFor(r)'
      <4>1. CASE desk[h].kind = "IMMEDIATELY"
        BY <1>0, <2>5, <3>1, <4>1, StillCounted
      <4>2. CASE desk[h].kind = "SCHEDULED"
        <5>1. trip'[t].st = "EXPIRED"
          BY <1>0, <1>2, <2>6 DEF Sched!Write, TripShape, TripRow
        <5>2. \A u \in OfKind(r, "SCHEDULED", Live)' : u \in OfKind(r, "SCHEDULED", Live) /\ u # t
          BY <3>1, <5>1, TripsAge DEF OfKind, TripsOf, Live
        <5>3. OfKind(r, "SCHEDULED", Live)' = {}
          BY <2>5, <4>2, <5>2
        <5> QED BY <5>3, NoneToCount DEF CountedFor, OfKind, TripsOf, Waiting, Live
      <4> QED BY <2>5, <4>1, <4>2 DEF Both
    <3> QED BY <2>2, <2>3, <3>2, <3>3, <3>4, NowFree
  <2>7. CASE /\ trip' = trip
             /\ counts' = counts \cup {[of |-> desk[h].of, by |-> t, to |-> upcoming[desk[h].of] + 1]}
    <3>1. Aging(r)
      BY <1>4, <2>7, NothingAges
    <3>2. OneOfEach(r)' /\ OneAtATime(r)'
      BY <2>1, <3>1, TripsStayApart
    <3>3. [of |-> desk[h].of, by |-> t, to |-> upcoming[desk[h].of] + 1] \in CountsOf(r)'
      BY <1>7, <2>7 DEF CountsOf
    <3>4. Counting(r)'
      BY <2>2, <2>3, <3>3 DEF Counting
    <3> QED BY <3>2, <3>4 DEF Orderly
  <2>8. CASE /\ desk[h].kind = "IMMEDIATELY" /\ counts' = counts
             /\ trip' = [trip EXCEPT ![t].out = (trip[t].st = "PENDING")]
    <3>1. /\ trip'[t].st = trip[t].st /\ trip'[t].kind = trip[t].kind
          /\ \A u \in TripRows : u # t => trip'[u] = trip[u]
      BY <1>0, <1>2, <2>8 DEF TripShape, TripRow
    <3>2. \A u \in TripRows : trip'[u].st = trip[u].st /\ trip'[u].kind = trip[u].kind
      BY <3>1
    <3>3. TripsOf(r, Live)' = TripsOf(r, Live) /\ TripsOf(r, Moving)' = TripsOf(r, Moving)
      BY <3>2 DEF TripsOf, TripRows
    <3>4. OfKind(r, "SCHEDULED", Moving)' = OfKind(r, "SCHEDULED", Moving)
          /\ OfKind(r, "IMMEDIATELY", Moving)' = OfKind(r, "IMMEDIATELY", Moving)
      BY <3>2 DEF OfKind, TripsOf, TripRows
    <3>5. \A u \in OfKind(r, "SCHEDULED", Moving) : u \in TripRows /\ u # t /\ trip'[u] = trip[u]
      BY <2>5, <2>8, <3>1 DEF OfKind, TripsOf
    <3>6. OneOfEach(r)'
      BY <2>1, <3>2, <3>3 DEF OneOfEach, TripsOf
    <3>7. OneAtATime(r)'
      BY <1>4, <2>1, <3>4, <3>5 DEF OneAtATime, OutOn
    <3>8. CountsOf(r)' = {}
      BY <2>1, <2>8 DEF CountsOf
    <3>9. CountedFor(r)'
      <4>1. \A u \in (TripsOf(r, {"PENDING"}) \ (missed \cup left))' :
                Waiting(u)' => u \in TripsOf(r, {"PENDING"}) \ (missed \cup left) /\ Waiting(u)
        BY <1>4, <2>5, <2>8, <3>1, <3>2 DEF TripsOf, Waiting, TripRows
      <4> QED BY <1>4, <2>5, <2>8, <4>1 DEF CountedFor
    <3> QED BY <2>2, <2>3, <3>6, <3>7, <3>8, <3>9, NowFree
  <2> QED BY <1>5, <2>6, <2>7, <2>8
<1> QED BY <1>6, <1>7

\* Who declines his booking has no other.
LEMMA DeclineOrder ==
  ASSUME BookingShape, BookingShape', NEW h \in Handlers, NEW t \in TripRows, Sched!Decline(h, t),
         NEW r \in Riders, Orderly(r), r \notin strained'
  PROVE  Orderly(r)'
<1>0. DeskShape /\ desk[h].pc = "idle"
  BY DEF BookingShape, Sched!Decline, Sched!Arrive
<1>1. PICK x : x = [Sched!Idle EXCEPT !.pc = "decline", !.of = RiderOf[t], !.trip = t]
  OBVIOUS
<1>2. desk' = [desk EXCEPT ![h] = x]
      /\ strained' = IF RiderOf[t] \in Engaged THEN strained \cup {RiderOf[t]} ELSE strained
  BY <1>1, SameRows DEF Sched!Decline, Sched!Arrive
<1>3. x.pc = "decline" /\ x.of = RiderOf[t] /\ x.trip = t /\ x.old = {}
  BY <1>1 DEF Sched!Idle
<1>4. UNCHANGED <<now, trip, upcoming, counts, tripJob, calls, doubled, missed, left>>
  BY DEF Sched!Decline, Sched!jobs
<1>5. Aging(r)
  BY <1>4, NothingAges
<1>6. CASE RiderOf[t] # r
  BY <1>0, <1>2, <1>3, <1>4, <1>5, <1>6, OthersOrder DEF CountsOf
<1>7. CASE RiderOf[t] = r
  <2>1. Free(r) /\ OneOfEach(r) /\ OneAtATime(r)
    BY <1>2, <1>7, FreeRider
  <2>2. DesksOf(r)' = {h}
    <3>1. DesksOf(r) = {} /\ x.pc # "idle" /\ x.of = r
      BY <1>3, <1>7, <2>1 DEF Free
    <3> QED BY <1>0, <1>2, <3>1 DEF DeskShape, DesksOf
  <2>3. CountsOf(r)' = {} /\ JobsOf(r)' = {} /\ CallsOf(r)' = {}
    BY <1>4, <2>1 DEF Free, CountsOf, JobsOf, CallsOf, InJob, TripRows
  <2>4. trip[t].kind = "SCHEDULED" /\ t \in TripsOf(r, Live)
    BY <1>7 DEF Sched!Decline, TripsOf, Live
  <2>5. \A u \in OfKind(r, "SCHEDULED", Live) : u = t
    BY <2>1, <2>4 DEF OneOfEach, OfKind
  <2>6. Sole(t, "SCHEDULED")'
    BY <1>4, <1>7, <2>5 DEF Sole, OfKind, TripsOf, TripRows
  <2>7. Sole(x.trip, "SCHEDULED")'
    BY <1>3, <2>6 DEF Sole, OfKind, TripsOf
  <2>8. Relies(r, x)'
    BY <1>3, <2>7 DEF Relies
  <2>9. OneOfEach(r)' /\ OneAtATime(r)'
    BY <1>5, <2>1, TripsStayApart
  <2>10. desk'[h] = x
    BY <1>0, <1>2 DEF DeskShape
  <2> QED BY <2>2, <2>3, <2>8, <2>9, <2>10, NowAsking
<1> QED BY <1>6, <1>7

\* Once it is cancelled he has none.
LEMMA WriteDeclineOrder ==
  ASSUME BookingShape, BookingShape', NEW h \in Handlers, Sched!WriteDecline(h),
         NEW r \in Riders, Orderly(r), r \notin strained'
  PROVE  Orderly(r)'
<1>0. /\ DeskShape /\ TripShape /\ desk[h].pc = "decline" /\ desk[h] \in DeskRec
      /\ DeskRow(desk[h])
  BY DEF BookingShape, DeskShape, Sched!WriteDecline
<1>1. PICK t : t = desk[h].trip
  OBVIOUS
<1>2. t \in TripRows /\ RiderOf[t] = desk[h].of /\ Sched!Write(t, "CANCELLED")
  BY <1>0, <1>1 DEF DeskRow, Sched!WriteDecline
<1>3. PICK x : x = [desk[h] EXCEPT !.pc = "read"]
  OBVIOUS
<1>4. desk' = [desk EXCEPT ![h] = x] /\ x.pc = "read" /\ x.of = desk[h].of
  BY <1>0, <1>3 DEF Sched!WriteDecline, Sched!Goto, DeskShape, DeskRec
<1>5. UNCHANGED <<now, upcoming, counts, tripJob, calls, strained, doubled, missed, left>>
  BY DEF Sched!WriteDecline, Sched!jobs, Sched!history
<1>6. Aging(r)
  BY <1>2, <1>5, EndAges
<1>7. /\ trip'[t].st = "CANCELLED"
      /\ \A u \in TripRows : u # t => trip'[u] = trip[u]
  BY <1>0, <1>2 DEF Sched!Write, TripShape, TripRow
<1>8. CASE desk[h].of # r
  <2>1. \A u \in TripRows : RiderOf[u] = r => trip'[u] = trip[u]
    BY <1>2, <1>7, <1>8
  <2> QED BY <1>4, <1>5, <1>6, <1>8, <2>1, OthersOrder DEF CountsOf
<1>9. CASE desk[h].of = r
  <2>1. /\ DesksOf(r) = {h} /\ CountsOf(r) = {} /\ JobsOf(r) = {} /\ CallsOf(r) = {}
        /\ Relies(r, desk[h]) /\ OneOfEach(r) /\ OneAtATime(r)
    BY <1>0, <1>9, OneHandler
  <2>2. DesksOf(r)' = {h}
    <3>1. x.pc # "idle" /\ x.of = r
      BY <1>4, <1>9
    <3> QED BY <1>0, <1>4, <2>1, <3>1 DEF DeskShape, DesksOf
  <2>3. CountsOf(r)' = {} /\ JobsOf(r)' = {} /\ CallsOf(r)' = {}
    BY <1>5, <2>1 DEF CountsOf, JobsOf, CallsOf, InJob, TripRows
  <2>4. \A u \in OfKind(r, "SCHEDULED", Live) : u = t
    BY <1>0, <1>1, <1>2, <1>9, <2>1 DEF Relies, Sole
  <2>5. \A u \in OfKind(r, "SCHEDULED", Live)' : u \in OfKind(r, "SCHEDULED", Live) /\ u # t
    BY <1>6, <1>7, TripsAge DEF OfKind, TripsOf, Live
  <2>6. OfKind(r, "SCHEDULED", Live)' = {}
    BY <2>4, <2>5
  <2>7. Relies(r, x)'
    BY <1>4, <2>6 DEF Relies
  <2>8. OneOfEach(r)' /\ OneAtATime(r)'
    BY <1>6, <2>1, TripsStayApart
  <2>9. desk'[h] = x
    BY <1>0, <1>4 DEF DeskShape
  <2> QED BY <2>2, <2>3, <2>7, <2>8, <2>9, NowAsking
<1> QED BY <1>8, <1>9

\* What is read of the customer changes nothing.
LEMMA ReadCustomerOrder ==
  ASSUME BookingShape, BookingShape', NEW h \in Handlers, Sched!ReadCustomer(h),
         NEW r \in Riders, Orderly(r), r \notin strained'
  PROVE  Orderly(r)'
<1>0. DeskShape /\ desk[h].pc = "read" /\ desk[h] \in DeskRec
  BY DEF BookingShape, DeskShape, Sched!ReadCustomer
<1>1. PICK x : x = [desk[h] EXCEPT !.pc = "lower", !.saw = upcoming[desk[h].of]]
  OBVIOUS
<1>2. desk' = [desk EXCEPT ![h] = x] /\ x.pc = "lower" /\ x.of = desk[h].of
  BY <1>0, <1>1 DEF Sched!ReadCustomer, DeskShape, DeskRec
<1>3. UNCHANGED <<now, trip, upcoming, counts, tripJob, calls, strained, doubled, missed, left>>
  BY DEF Sched!ReadCustomer, Sched!jobs, Sched!history
<1>4. Aging(r)
  BY <1>3, NothingAges
<1>5. CASE desk[h].of # r
  BY <1>2, <1>3, <1>4, <1>5, OthersOrder DEF CountsOf
<1>6. CASE desk[h].of = r
  <2>1. /\ DesksOf(r) = {h} /\ CountsOf(r) = {} /\ JobsOf(r) = {} /\ CallsOf(r) = {}
        /\ Relies(r, desk[h]) /\ OneOfEach(r) /\ OneAtATime(r)
    BY <1>0, <1>6, OneHandler
  <2>2. DesksOf(r)' = {h}
    <3>1. x.pc # "idle" /\ x.of = r
      BY <1>2, <1>6
    <3> QED BY <1>0, <1>2, <2>1, <3>1 DEF DeskShape, DesksOf
  <2>3. CountsOf(r)' = {} /\ JobsOf(r)' = {} /\ CallsOf(r)' = {}
    BY <1>3, <2>1 DEF CountsOf, JobsOf, CallsOf, InJob, TripRows
  <2>4. OfKind(r, "SCHEDULED", Live)' = {}
    BY <1>0, <1>3, <2>1 DEF Relies, OfKind, TripsOf, TripRows
  <2>5. Relies(r, x)'
    BY <1>2, <2>4 DEF Relies
  <2>6. OneOfEach(r)' /\ OneAtATime(r)'
    BY <1>4, <2>1, TripsStayApart
  <2>7. desk'[h] = x
    BY <1>0, <1>2 DEF DeskShape
  <2> QED BY <2>2, <2>3, <2>5, <2>6, <2>7, NowAsking
<1> QED BY <1>5, <1>6

\* Nor does what is written there, as no booking is left.
LEMMA LowerDeclinedOrder ==
  ASSUME BookingShape, BookingShape', NEW h \in Handlers, Sched!LowerDeclined(h),
         NEW r \in Riders, Orderly(r), r \notin strained'
  PROVE  Orderly(r)'
<1>0. DeskShape /\ RestShape /\ desk[h].pc = "lower" /\ desk[h].of \in Riders
  BY DEF BookingShape, DeskShape, DeskRow, Sched!LowerDeclined
<1>1. desk' = [desk EXCEPT ![h] = Sched!Idle] /\ Sched!Idle.pc = "idle"
  BY DEF Sched!LowerDeclined, Sched!Leave, Sched!Idle
<1>2. UNCHANGED <<now, trip, counts, tripJob, calls, strained, doubled, missed, left>>
  BY DEF Sched!LowerDeclined, Sched!jobs, Sched!history
<1>3. CASE desk[h].of # r
  <2>1. upcoming'[r] = upcoming[r]
    BY <1>0, <1>3 DEF Sched!LowerDeclined, RestShape
  <2>2. Aging(r)
    BY <1>2, <2>1, NothingAges
  <2> QED BY <1>1, <1>2, <1>3, <2>2, OthersOrder DEF CountsOf
<1>4. CASE desk[h].of = r
  <2>1. /\ DesksOf(r) = {h} /\ CountsOf(r) = {} /\ JobsOf(r) = {} /\ CallsOf(r) = {}
        /\ Relies(r, desk[h]) /\ OneOfEach(r) /\ OneAtATime(r)
    BY <1>0, <1>4, OneHandler
  <2>2. DesksOf(r)' = {}
    BY <1>0, <1>1, <2>1 DEF DeskShape, DesksOf
  <2>3. CountsOf(r)' = {} /\ JobsOf(r)' = {} /\ CallsOf(r)' = {}
    BY <1>2, <2>1 DEF CountsOf, JobsOf, CallsOf, InJob, TripRows
  <2>4. OfKind(r, "SCHEDULED", Live)' = {}
    BY <1>0, <1>2, <2>1 DEF Relies, OfKind, TripsOf, TripRows
  <2>5. CountedFor(r)'
    BY <2>4 DEF CountedFor, OfKind, TripsOf, Waiting, Live
  <2>6. OneOfEach(r)' /\ OneAtATime(r)'
    BY <1>2, <2>1 DEF OneOfEach, OneAtATime, OfKind, TripsOf, OutOn, TripRows
  <2> QED BY <2>2, <2>3, <2>5, <2>6, NowFree
<1> QED BY <1>3, <1>4

\* A request that fails strains its rider and nobody else.
LEMMA FailOrder ==
  ASSUME BookingShape, BookingShape', NEW h \in Handlers, Sched!Fail(h),
         NEW r \in Riders, Orderly(r), r \notin strained'
  PROVE  Orderly(r)'
<1>1. desk' = [desk EXCEPT ![h] = Sched!Idle] /\ Sched!Idle.pc = "idle"
  BY DEF Sched!Fail, Sched!Leave, Sched!Idle
<1>2. UNCHANGED <<now, trip, upcoming, counts, tripJob, calls, doubled, missed, left>> /\ desk[h].of # r
  BY DEF Sched!Fail, Sched!jobs
<1>3. Aging(r)
  BY <1>2, NothingAges
<1> QED BY <1>1, <1>2, <1>3, OthersOrder DEF CountsOf

\* Every step of a request leaves the riders in order.
LEMMA RequestOrder ==
  ASSUME BookingShape, BookingShape', NEW h \in Handlers, Sched!Requests(h),
         NEW r \in Riders, Orderly(r), r \notin strained'
  PROVE  Orderly(r)'
<1>1. CASE \E q \in Riders, k \in Both, at \in 0..LastSlot : Sched!Ask(h, q, k, at)
  BY <1>1, AskOrder
<1>2. CASE \E t \in TripRows : Sched!Decline(h, t)
  BY <1>2, DeclineOrder
<1>3. CASE \E q \in Riders, k \in Both : Sched!AskRefused(h, q, k)
  BY <1>3, AskRefusedOrder
<1> QED
  BY <1>1, <1>2, <1>3, TurnDownOrder, ExpireOldOrder, SaveOrder, BalanceOrder, WriteDeclineOrder,
     ReadCustomerOrder, LowerDeclinedOrder, FailOrder, SameRows DEF Sched!Requests, Both

\* The update of a booking that was made covers it.
LEMMA CountBookingOrder ==
  ASSUME BookingShape, BookingShape', Sched!CountBooking,
         NEW r \in Riders, Orderly(r), r \notin strained'
  PROVE  Orderly(r)'
<1>1. PICK x \in counts : counts' = counts \ {x} /\ upcoming' = [upcoming EXCEPT ![x.of] = x.to]
  BY DEF Sched!CountBooking
<1>2. UNCHANGED <<now, trip, desk, tripJob, calls, strained, doubled, missed, left>>
  BY DEF Sched!CountBooking, Sched!jobs, Sched!history
<1>3. x.of \in Riders /\ x.to \in Nat \ {0} /\ upcoming \in [Riders -> Nat]
  BY <1>1 DEF BookingShape, RestShape
<1>4. DesksOf(r)' = DesksOf(r) /\ JobsOf(r)' = JobsOf(r) /\ CallsOf(r)' = CallsOf(r)
  BY <1>2 DEF DesksOf, JobsOf, CallsOf, InJob, TripRows
<1>5. CASE x.of # r
  <2>1. upcoming'[r] = upcoming[r] /\ CountsOf(r)' = CountsOf(r)
    BY <1>1, <1>3, <1>5 DEF CountsOf
  <2>2. Aging(r)
    BY <1>2, <2>1, NothingAges
  <2> QED BY <1>2, <1>4, <2>1, <2>2, OrderStays DEF SameWork
<1>6. CASE x.of = r
  <2>1. x \in CountsOf(r)
    BY <1>6 DEF CountsOf
  <2>2. Counting(r)
    BY <2>1 DEF Orderly, Free, Asking, Processed, Dispatched
  <2>3. OneOfEach(r)' /\ OneAtATime(r)'
    BY <1>2 DEF Orderly, OneOfEach, OneAtATime, OfKind, TripsOf, OutOn, TripRows
  <2>4. DesksOf(r)' = {} /\ JobsOf(r)' = {} /\ CallsOf(r)' = {}
    BY <1>4, <2>2 DEF Counting
  <2>5. upcoming'[r] >= 1
    <3>1. upcoming'[r] = x.to
      BY <1>1, <1>3, <1>6
    <3>2. \A n \in Nat \ {0} : n >= 1
      OBVIOUS
    <3> QED BY <1>3, <3>1, <3>2
  <2>6. CountedFor(r)'
    BY <2>5 DEF CountedFor
  <2> QED BY <2>3, <2>4, <2>6 DEF Orderly, Free, Counting
<1> QED BY <1>5, <1>6

-----------------------------------------------------------------------------
(* The job *)

\* The trips of the jobs when one of them has gone on to row x.
LEMMA JobsAfter ==
  ASSUME JobShape, NEW j \in Replicas, NEW x, tripJob' = [tripJob EXCEPT ![j] = x]
  PROVE  \A w \in Replicas \X TripRows :
             w[2] \in tripJob'[w[1]].todo \cup
                      (IF tripJob'[w[1]].pc = "idle" THEN {} ELSE {tripJob'[w[1]].at})
             <=> IF w[1] = j THEN w[2] \in x.todo \cup (IF x.pc = "idle" THEN {} ELSE {x.at})
                 ELSE w[2] \in InJob(w[1])
<1>1. \A i \in Replicas : tripJob'[i] = IF i = j THEN x ELSE tripJob[i]
  BY DEF JobShape
<1>2. \A w \in Replicas \X TripRows : w[1] \in Replicas
  OBVIOUS
<1> QED BY <1>1, <1>2 DEF InJob

\* A booking in the hands of a job is all that is under way for its rider.
LEMMA HeldBooking ==
  ASSUME BookingShape, NEW j \in Replicas, NEW t \in InJob(j), NEW r, RiderOf[t] = r, Orderly(r)
  PROVE  /\ DesksOf(r) = {} /\ CountsOf(r) = {} /\ CallsOf(r) = {} /\ JobsOf(r) = {<<j, t>>}
         /\ t \in TripRows /\ r \in Riders /\ Kept(t) /\ OneOfEach(r) /\ OneAtATime(r)
         /\ tripJob[j].pc = "ask" /\ tripJob[j].at = t => NoOther(r)
<1>1. t \in TripRows
  BY DEF BookingShape, JobShape, TripJobRow, InJob
<1>2. <<j, t>> \in JobsOf(r)
  <2>1. <<j, t>>[1] = j /\ <<j, t>>[2] = t
    OBVIOUS
  <2> QED BY <1>1, <2>1 DEF JobsOf
<1>3. Processed(r)
  BY <1>2 DEF Orderly, Free, Asking, Counting, Dispatched
<1>4. PICK i \in Replicas, u \in TripRows :
          /\ JobsOf(r) = {<<i, u>>} /\ Kept(u)
          /\ tripJob[i].pc = "ask" /\ tripJob[i].at = u => NoOther(r)
  BY <1>3 DEF Processed
<1>5. <<j, t>> = <<i, u>>
  BY <1>2, <1>4
<1>6. i = j /\ u = t
  BY <1>5
<1> QED BY <1>1, <1>3, <1>4, <1>6 DEF Processed, Orderly, Riders

\* What a job does for one rider leaves the others' order.
LEMMA JobStays ==
  ASSUME BookingShape, BookingShape', NEW r \in Riders, Orderly(r), Aging(r),
         NEW j \in Replicas, NEW x, tripJob' = [tripJob EXCEPT ![j] = x],
         \A t \in TripRows : RiderOf[t] = r =>
             (t \in x.todo \cup (IF x.pc = "idle" THEN {} ELSE {x.at}) <=> t \in InJob(j)),
         x.pc = "ask" => RiderOf[x.at] # r,
         desk' = desk, counts' = counts, CallsOf(r)' = CallsOf(r),
         \A t \in TripRows : RiderOf[t] = r => trip'[t] = trip[t]
  PROVE  Orderly(r)'
<1>1. JobShape /\ DeskShape
  BY DEF BookingShape
<1>2. JobsOf(r)' = JobsOf(r)
  <2>1. \A w \in Replicas \X TripRows : w[1] \in Replicas /\ w[2] \in TripRows
    OBVIOUS
  <2>2. \A w \in Replicas \X TripRows : RiderOf[w[2]] = r =>
          ((IF w[1] = j THEN w[2] \in x.todo \cup (IF x.pc = "idle" THEN {} ELSE {x.at})
                        ELSE w[2] \in InJob(w[1])) <=> w[2] \in InJob(w[1]))
    BY <2>1
  <2>3. JobsOf(r)' = {w \in Replicas \X TripRows :
             /\ RiderOf[w[2]] = r
             /\ IF w[1] = j THEN w[2] \in x.todo \cup (IF x.pc = "idle" THEN {} ELSE {x.at})
                ELSE w[2] \in InJob(w[1])}
    BY <1>1, JobsAfter DEF JobsOf, InJob, TripRows
  <2>4. \A w \in Replicas \X TripRows : w \in JobsOf(r)' <=> w \in JobsOf(r)
    BY <2>2, <2>3 DEF JobsOf
  <2>5. JobsOf(r)' \subseteq Replicas \X TripRows /\ JobsOf(r) \subseteq Replicas \X TripRows
    BY <2>3 DEF JobsOf
  <2> QED BY <2>4, <2>5
<1>3. DesksOf(r)' = DesksOf(r) /\ CountsOf(r)' = CountsOf(r)
  BY DEF DesksOf, CountsOf
<1>4. \A h \in DesksOf(r) : \A t \in desk[h].old : trip'[t] = trip[t]
  <2>1. ASSUME NEW h \in DesksOf(r) PROVE \A t \in desk[h].old : trip'[t] = trip[t]
    <3>1. h \in Handlers /\ desk[h].pc # "idle" /\ desk[h].of = r
      BY DEF DesksOf
    <3>2. DeskRow(desk[h])
      BY <1>1, <3>1 DEF DeskShape
    <3> QED BY <3>1, <3>2 DEF DeskRow
  <2> QED BY <2>1
<1>5. ASSUME NEW w \in JobsOf(r), tripJob'[w[1]].pc = "ask", tripJob'[w[1]].at = w[2]
      PROVE  tripJob[w[1]].pc = "ask" /\ tripJob[w[1]].at = w[2]
  <2>1. w[1] \in Replicas /\ RiderOf[w[2]] = r
    BY DEF JobsOf
  <2>2. tripJob'[w[1]] = IF w[1] = j THEN x ELSE tripJob[w[1]]
    BY <1>1, <2>1 DEF JobShape
  <2> QED BY <1>5, <2>1, <2>2
<1> QED BY <1>2, <1>3, <1>4, <1>5, OrderStays DEF SameWork

\* A job that is not at trip t any more, when it was the only one.
LEMMA JobLeaves ==
  ASSUME BookingShape, NEW j \in Replicas, NEW x, tripJob' = [tripJob EXCEPT ![j] = x],
         NEW r, NEW t, JobsOf(r) = {<<j, t>>}, t \notin x.todo, x.pc = "idle",
         x.todo \subseteq InJob(j)
  PROVE  JobsOf(r)' = {}
<1>1. JobShape
  BY DEF BookingShape
<1>2. JobsOf(r)' = {w \in Replicas \X TripRows :
             /\ RiderOf[w[2]] = r
             /\ IF w[1] = j THEN w[2] \in x.todo \cup (IF x.pc = "idle" THEN {} ELSE {x.at})
                ELSE w[2] \in InJob(w[1])}
  BY <1>1, JobsAfter DEF JobsOf, InJob, TripRows
<1>3. JobsOf(r)' \subseteq JobsOf(r)
  BY <1>2 DEF JobsOf
<1>4. <<j, t>>[1] = j /\ <<j, t>>[2] = t
  OBVIOUS
<1>5. <<j, t>> \notin JobsOf(r)'
  BY <1>2, <1>4
<1> QED BY <1>3, <1>5

\* A job that has ended with the trip it was at.
LEMMA NextTripRow ==
  ASSUME JobShape, NEW j \in Replicas, Sched!NextTrip(j), tripJob[j].pc # "idle"
  PROVE  \E x : /\ tripJob' = [tripJob EXCEPT ![j] = x] /\ x.pc = "idle"
                /\ x.todo = InJob(j) \ {tripJob[j].at}
<1>0. PICK s : s = tripJob[j].todo
  OBVIOUS
<1>1. PICK x : x = [Sched!Resting EXCEPT !.todo = s]
  OBVIOUS
<1>2. x.pc = "idle" /\ x.todo = tripJob[j].todo
  BY <1>0, <1>1 DEF Sched!Resting
<1>3. tripJob[j].at \notin tripJob[j].todo
  BY DEF JobShape
<1>4. tripJob' = [tripJob EXCEPT ![j] = x]
  BY <1>0, <1>1 DEF Sched!NextTrip
<1>5. x.todo = InJob(j) \ {tripJob[j].at}
  BY <1>2, <1>3 DEF InJob
<1> QED BY <1>2, <1>4, <1>5

\* Trips of which the job has read that they are due.
LEMMA CronOrder ==
  ASSUME BookingShape, BookingShape', NEW j \in Replicas, Sched!Cron(j),
         NEW r \in Riders, Orderly(r), r \notin strained'
  PROVE  Orderly(r)'
<1>0. JobShape
  BY DEF BookingShape
<1>1. PICK due : due = {t \in TripRows : Sched!Due(t)}
  OBVIOUS
<1>2. PICK x : x = [Sched!Resting EXCEPT !.todo = due]
  OBVIOUS
<1>3. x.todo = due /\ x.pc = "idle"
  BY <1>2 DEF Sched!Resting
<1>4. /\ tripJob' = [tripJob EXCEPT ![j] = x] /\ InJob(j) = {}
      /\ strained' = strained \cup {q \in {RiderOf[t] : t \in due} :
                           q \in Engaged \/ \E t \in due : RiderOf[t] = q /\ trip[t].out}
  BY <1>1, <1>2, SameRows DEF Sched!Cron
<1>5. UNCHANGED <<now, trip, upcoming, desk, counts, calls, doubled, missed, left>>
  BY DEF Sched!Cron
<1>6. Aging(r)
  BY <1>5, NothingAges
<1>7. CallsOf(r)' = CallsOf(r) /\ DesksOf(r)' = DesksOf(r) /\ CountsOf(r)' = CountsOf(r)
  BY <1>5 DEF CallsOf, DesksOf, CountsOf
<1>8. CASE \A t \in due : RiderOf[t] # r
  <2>1. \A t \in TripRows : RiderOf[t] = r =>
             (t \in x.todo \cup (IF x.pc = "idle" THEN {} ELSE {x.at}) <=> t \in InJob(j))
    BY <1>3, <1>4, <1>8
  <2> QED BY <1>3, <1>4, <1>5, <1>6, <1>7, <2>1, JobStays
<1>9. ASSUME NEW t \in due, RiderOf[t] = r PROVE Orderly(r)'
  <2>1. r \notin Engaged /\ \A u \in due : RiderOf[u] = r => ~trip[u].out
    BY <1>4, <1>9
  <2>2. Free(r) /\ OneOfEach(r) /\ OneAtATime(r)
    BY <2>1, FreeRider
  <2>3. \A u \in due : u \in TripRows /\ trip[u].kind = "SCHEDULED" /\ trip[u].st = "PENDING"
    BY <1>1 DEF Sched!Due
  <2>4. \A u \in due : RiderOf[u] = r => u \in TripsOf(r, Live)
    BY <2>3 DEF TripsOf, Live
  <2>5. t \in TripsOf(r, Live) /\ trip[t].kind = "SCHEDULED" /\ t \in TripRows
    BY <1>9, <2>3, <2>4
  <2>6. \A u \in TripsOf(r, Live) : trip[u].kind = "SCHEDULED" => u = t
    BY <2>2, <2>5 DEF OneOfEach
  <2>7. JobsOf(r)' = {<<j, t>>}
    <3>1. JobsOf(r)' = {w \in Replicas \X TripRows :
             /\ RiderOf[w[2]] = r
             /\ IF w[1] = j THEN w[2] \in due ELSE w[2] \in InJob(w[1])}
      <4>1. tripJob' = [tripJob EXCEPT ![j] = x]
        BY <1>4
      <4>2. JobsOf(r)' = {w \in Replicas \X TripRows :
             /\ RiderOf[w[2]] = r
             /\ IF w[1] = j THEN w[2] \in x.todo \cup (IF x.pc = "idle" THEN {} ELSE {x.at})
                ELSE w[2] \in InJob(w[1])}
        BY <1>0, <4>1, JobsAfter DEF JobsOf, InJob, TripRows
      <4>3. x.todo \cup (IF x.pc = "idle" THEN {} ELSE {x.at}) = due
        BY <1>3
      <4> QED BY <4>2, <4>3
    <3>2. \A w \in Replicas \X TripRows : RiderOf[w[2]] = r => w[2] \notin InJob(w[1])
      BY <2>2 DEF Free, JobsOf
    <3>3. \A u \in due : RiderOf[u] = r => u = t
      BY <2>3, <2>4, <2>6
    <3>4. <<j, t>> \in Replicas \X TripRows /\ <<j, t>>[1] = j /\ <<j, t>>[2] = t
      BY <2>5
    <3>5. \A w \in Replicas \X TripRows : w[1] = j /\ w[2] = t => w = <<j, t>>
      OBVIOUS
    <3>6. \A w \in JobsOf(r)' : w = <<j, t>>
      BY <3>1, <3>2, <3>3, <3>5
    <3>7. <<j, t>> \in JobsOf(r)'
      BY <1>9, <3>1, <3>4
    <3> QED BY <3>6, <3>7
  <2>8. Kept(t)
    BY <1>9, <2>1, <2>3, <2>6 DEF Kept, Untaken, Sole, OfKind, TripsOf
  <2>9. Kept(t)'
    BY <1>6, <1>9, <2>5, <2>8, StillKept
  <2>10. tripJob'[j].pc = "idle"
    BY <1>3, <1>4 DEF BookingShape, JobShape
  <2>11. DesksOf(r)' = {} /\ CountsOf(r)' = {} /\ CallsOf(r)' = {}
    BY <1>7, <2>2 DEF Free
  <2>12. Processed(r)'
    BY <2>5, <2>7, <2>9, <2>10, <2>11 DEF Processed
  <2>13. OneOfEach(r)' /\ OneAtATime(r)'
    BY <1>6, <2>2, TripsStayApart
  <2> QED BY <2>12, <2>13 DEF Orderly
<1> QED BY <1>8, <1>9

\* The next trip of the list.
LEMMA TakeOrder ==
  ASSUME BookingShape, BookingShape', NEW j \in Replicas, Sched!Take(j),
         NEW r \in Riders, Orderly(r)
  PROVE  Orderly(r)'
<1>1. PICK t \in tripJob[j].todo :
        tripJob' = [tripJob EXCEPT ![j] = [todo |-> @.todo \ {t}, at |-> t, pc |-> "lower",
                                   saw |-> upcoming[RiderOf[t]], found |-> "none"]]
  BY DEF Sched!Take
<1>2. PICK x : x = [todo |-> tripJob[j].todo \ {t}, at |-> t, pc |-> "lower",
                    saw |-> upcoming[RiderOf[t]], found |-> "none"]
  OBVIOUS
<1>3. tripJob' = [tripJob EXCEPT ![j] = x] /\ tripJob[j].pc = "idle"
  BY <1>1, <1>2 DEF Sched!Take, BookingShape, JobShape
<1>4. UNCHANGED <<now, trip, upcoming, desk, counts, calls, doubled, missed, left>>
  BY DEF Sched!Take, Sched!history
<1>5. x.pc = "lower" /\ x.todo \cup {x.at} = InJob(j)
  BY <1>1, <1>2, <1>3 DEF InJob
<1>6. Aging(r)
  BY <1>4, NothingAges
<1>7. CallsOf(r)' = CallsOf(r)
  BY <1>4 DEF CallsOf
<1>8. \A u \in TripRows : RiderOf[u] = r =>
           (u \in x.todo \cup (IF x.pc = "idle" THEN {} ELSE {x.at}) <=> u \in InJob(j))
  BY <1>5
<1> QED BY <1>3, <1>4, <1>5, <1>6, <1>7, <1>8, JobStays

\* Rows that have not changed keep what a booking is kept for.
LEMMA SameTrips ==
  ASSUME trip' = trip, NEW r, doubled' = doubled
  PROVE  /\ OneOfEach(r) => OneOfEach(r)'
         /\ OneAtATime(r) => OneAtATime(r)'
         /\ NoOther(r) => NoOther(r)'
         /\ \A t \in TripRows : Kept(t) => Kept(t)'
<1>1. TripRows' = TripRows
  BY DEF TripRows
<1>2. OneOfEach(r) => OneOfEach(r)'
  BY <1>1 DEF OneOfEach, TripsOf
<1>3. OneAtATime(r) => OneAtATime(r)'
  BY <1>1 DEF OneAtATime, OfKind, TripsOf, OutOn
<1>4. NoOther(r) => NoOther(r)'
  BY <1>1 DEF NoOther, OfKind, TripsOf
<1>5. ASSUME NEW t \in TripRows, Kept(t) PROVE Kept(t)'
  BY <1>1, <1>5 DEF Kept, Untaken, Sole, OfKind, TripsOf
<1> QED BY <1>2, <1>3, <1>4, <1>5

\* The customer row of the trip's rider is written; the trip stays in hand.
LEMMA LowerOrder ==
  ASSUME BookingShape, BookingShape', NEW j \in Replicas, Sched!Lower(j),
         NEW r \in Riders, Orderly(r)
  PROVE  Orderly(r)'
<1>0. JobShape /\ RestShape /\ tripJob[j].pc = "lower" /\ tripJob[j] \in TripJobRow
  BY DEF BookingShape, JobShape, Sched!Lower, Sched!At
<1>1. PICK t : t = tripJob[j].at
  OBVIOUS
<1>2. t \in InJob(j)
  BY <1>0, <1>1 DEF InJob
<1>3. PICK x : x = [tripJob[j] EXCEPT !.pc = "check"]
  OBVIOUS
<1>4. tripJob' = [tripJob EXCEPT ![j] = x] /\ x.pc = "check" /\ x.at = t /\ x.todo = tripJob[j].todo
  BY <1>0, <1>1, <1>3 DEF Sched!Lower, Sched!Step, JobShape, TripJobRow
<1>5. x.todo \cup (IF x.pc = "idle" THEN {} ELSE {x.at}) = InJob(j)
  BY <1>0, <1>1, <1>4 DEF InJob
<1>6. UNCHANGED <<now, trip, desk, counts, calls, doubled, missed, left>>
  BY DEF Sched!Lower, Sched!history
<1>7. CallsOf(r)' = CallsOf(r)
  BY <1>6 DEF CallsOf
<1>8. CASE RiderOf[t] # r
  <2>1. upcoming'[r] = upcoming[r]
    BY <1>0, <1>1, <1>8 DEF Sched!Lower, RestShape
  <2>2. Aging(r)
    BY <1>6, <2>1, NothingAges
  <2> QED BY <1>4, <1>5, <1>6, <1>7, <2>2, JobStays
<1>9. CASE RiderOf[t] = r
  <2>1. /\ DesksOf(r) = {} /\ CountsOf(r) = {} /\ CallsOf(r) = {} /\ JobsOf(r) = {<<j, t>>}
        /\ t \in TripRows /\ Kept(t) /\ OneOfEach(r) /\ OneAtATime(r)
    BY <1>2, <1>9, HeldBooking
  <2>2. Kept(t)' /\ OneOfEach(r)' /\ OneAtATime(r)'
    BY <1>6, <2>1, SameTrips
  <2>3. JobsOf(r)' = {<<j, t>>}
    <3>1. \A i \in Replicas : InJob(i)' = InJob(i)
      BY <1>0, <1>4, <1>5 DEF InJob, JobShape
    <3>2. JobsOf(r)' = JobsOf(r)
      <4>1. \A w \in Replicas \X TripRows : w[1] \in Replicas
        OBVIOUS
      <4> QED BY <3>1, <4>1 DEF JobsOf, TripRows
    <3> QED BY <2>1, <3>2
  <2>4. DesksOf(r)' = {} /\ CountsOf(r)' = {} /\ CallsOf(r)' = {}
    BY <1>6, <1>7, <2>1 DEF DesksOf, CountsOf
  <2>5. tripJob'[j].pc = "check"
    BY <1>0, <1>4 DEF JobShape
  <2>6. Processed(r)'
    BY <2>1, <2>2, <2>3, <2>4, <2>5 DEF Processed
  <2> QED BY <2>2, <2>6 DEF Orderly
<1> QED BY <1>8, <1>9

\* A booking is processed further only when its rider has no other trip.
LEMMA CheckOrder ==
  ASSUME BookingShape, BookingShape', NEW j \in Replicas, Sched!Check(j),
         NEW r \in Riders, Orderly(r)
  PROVE  Orderly(r)'
<1>0. JobShape /\ tripJob[j].pc = "check" /\ tripJob[j] \in TripJobRow
  BY DEF BookingShape, JobShape, Sched!Check, Sched!At
<1>1. PICK t : t = tripJob[j].at
  OBVIOUS
<1>2. t \in InJob(j)
  BY <1>0, <1>1 DEF InJob
<1>3. UNCHANGED <<now, trip, upcoming, desk, counts, calls, doubled, missed, left>>
  BY DEF Sched!Check, Sched!history
<1>4. Aging(r)
  BY <1>3, NothingAges
<1>5. CallsOf(r)' = CallsOf(r)
  BY <1>3 DEF CallsOf
<1>6. CASE Sched!UnderWay(t) = {} /\ Sched!Step(j, "ask")
  <2>1. PICK x : x = [tripJob[j] EXCEPT !.pc = "ask"]
    OBVIOUS
  <2>2. tripJob' = [tripJob EXCEPT ![j] = x] /\ x.pc = "ask" /\ x.at = t /\ x.todo = tripJob[j].todo
    BY <1>0, <1>1, <1>6, <2>1 DEF Sched!Step, JobShape, TripJobRow
  <2>3. x.todo \cup (IF x.pc = "idle" THEN {} ELSE {x.at}) = InJob(j)
    BY <1>0, <1>1, <2>2 DEF InJob
  <2>4. CASE RiderOf[t] # r
    BY <1>3, <1>4, <1>5, <2>2, <2>3, <2>4, JobStays
  <2>5. CASE RiderOf[t] = r
    <3>1. /\ DesksOf(r) = {} /\ CountsOf(r) = {} /\ CallsOf(r) = {} /\ JobsOf(r) = {<<j, t>>}
          /\ t \in TripRows /\ Kept(t) /\ OneOfEach(r) /\ OneAtATime(r)
      BY <1>2, <2>5, HeldBooking
    <3>2. TripsOf(r, Moving) \ {t} = {}
      <4>1. Moving \subseteq Open \ {"NO_DRIVER"}
        BY DEF Moving, Open
      <4> QED BY <1>6, <2>5, <4>1, SameRows DEF Sched!UnderWay, TripsOf
    <3>3. NoOther(r)
      BY <3>1, <3>2 DEF NoOther, OfKind, Kept
    <3>4. Kept(t)' /\ OneOfEach(r)' /\ OneAtATime(r)' /\ NoOther(r)'
      BY <1>3, <3>1, <3>3, SameTrips
    <3>5. JobsOf(r)' = {<<j, t>>}
      <4>1. \A i \in Replicas : InJob(i)' = InJob(i)
        BY <1>0, <2>2, <2>3 DEF InJob, JobShape
      <4>2. JobsOf(r)' = JobsOf(r)
        <5>1. \A w \in Replicas \X TripRows : w[1] \in Replicas
          OBVIOUS
        <5> QED BY <4>1, <5>1 DEF JobsOf, TripRows
      <4> QED BY <3>1, <4>2
    <3>6. DesksOf(r)' = {} /\ CountsOf(r)' = {} /\ CallsOf(r)' = {}
      BY <1>3, <1>5, <3>1 DEF DesksOf, CountsOf
    <3>7. Processed(r)'
      BY <3>1, <3>4, <3>5, <3>6 DEF Processed
    <3> QED BY <3>4, <3>7 DEF Orderly
  <2> QED BY <2>4, <2>5
<1>7. ASSUME NEW y, tripJob' = [tripJob EXCEPT ![j].pc = "expire", ![j].found = y]
      PROVE  Orderly(r)'
  <2>1. PICK x : x = [tripJob[j] EXCEPT !.pc = "expire", !.found = y]
    OBVIOUS
  <2>2. /\ tripJob' = [tripJob EXCEPT ![j] = x] /\ x.pc = "expire" /\ x.at = t
        /\ x.todo = tripJob[j].todo
    BY <1>0, <1>1, <1>7, <2>1 DEF JobShape, TripJobRow
  <2>3. x.todo \cup (IF x.pc = "idle" THEN {} ELSE {x.at}) = InJob(j)
    BY <1>0, <1>1, <2>2 DEF InJob
  <2> QED BY <1>3, <1>4, <1>5, <2>2, <2>3, JobStays
<1> QED BY <1>1, <1>6, <1>7 DEF Sched!Check

\* A job is done with the trip it was at, and with nothing of another rider.
LEMMA NextTripStays ==
  ASSUME BookingShape, BookingShape', NEW j \in Replicas, Sched!NextTrip(j), tripJob[j].pc # "idle",
         NEW r \in Riders, Orderly(r), Aging(r), RiderOf[tripJob[j].at] # r,
         desk' = desk, counts' = counts, CallsOf(r)' = CallsOf(r),
         \A t \in TripRows : RiderOf[t] = r => trip'[t] = trip[t]
  PROVE  Orderly(r)'
<1>0. JobShape
  BY DEF BookingShape
<1>1. PICK x : /\ tripJob' = [tripJob EXCEPT ![j] = x] /\ x.pc = "idle"
               /\ x.todo = InJob(j) \ {tripJob[j].at}
  BY <1>0, NextTripRow
<1>2. \A t \in TripRows : RiderOf[t] = r =>
           (t \in x.todo \cup (IF x.pc = "idle" THEN {} ELSE {x.at}) <=> t \in InJob(j))
  BY <1>1
<1> QED BY <1>1, <1>2, JobStays

\* A job is done with the only booking of its rider.
LEMMA NextTripFrees ==
  ASSUME BookingShape, NEW j \in Replicas, Sched!NextTrip(j), tripJob[j].pc # "idle",
         NEW r, JobsOf(r) = {<<j, tripJob[j].at>>}
  PROVE  JobsOf(r)' = {}
<1>0. JobShape
  BY DEF BookingShape
<1>1. PICK x : /\ tripJob' = [tripJob EXCEPT ![j] = x] /\ x.pc = "idle"
               /\ x.todo = InJob(j) \ {tripJob[j].at}
  BY <1>0, NextTripRow
<1> QED BY <1>1, JobLeaves

\* The booking that waited is left, or missed, for good.
LEMMA ForsakenCount ==
  ASSUME trip' = trip, NEW t \in TripRows, Kept(t), NEW r, RiderOf[t] = r, t \in (missed \cup left)'
  PROVE  CountedFor(r)'
<1>1. TripRows' = TripRows
  BY DEF TripRows
<1>2. \A u \in TripsOf(r, {"PENDING"})' : trip'[u].kind = "SCHEDULED" => u \in OfKind(r, "SCHEDULED", Live)
  BY <1>1 DEF TripsOf, OfKind, Live
<1>3. \A u \in OfKind(r, "SCHEDULED", Live) : u = t
  BY DEF Kept, Sole
<1> QED BY <1>1, <1>2, <1>3 DEF CountedFor, Waiting

\* The driver service knows the rider, and the booking goes on, or it does not.
LEMMA AskModeOrder ==
  ASSUME BookingShape, BookingShape', NEW j \in Replicas, Sched!AskMode(j),
         NEW r \in Riders, Orderly(r)
  PROVE  Orderly(r)'
<1>0. JobShape /\ tripJob[j].pc = "ask" /\ tripJob[j] \in TripJobRow
  BY DEF BookingShape, JobShape, Sched!AskMode, Sched!At
<1>1. PICK t : t = tripJob[j].at
  OBVIOUS
<1>2. t \in InJob(j)
  BY <1>0, <1>1 DEF InJob
<1>3. UNCHANGED <<now, trip, upcoming, desk, counts, doubled, missed>> /\ left \subseteq left'
  BY DEF Sched!AskMode
<1>4. Aging(r)
  BY <1>3, NothingAges
<1>5. CASE Sched!Step(j, "expire") /\ calls' = calls
  <2>1. PICK x : x = [tripJob[j] EXCEPT !.pc = "expire"]
    OBVIOUS
  <2>2. /\ tripJob' = [tripJob EXCEPT ![j] = x] /\ x.pc = "expire" /\ x.at = t
        /\ x.todo = tripJob[j].todo
    BY <1>0, <1>1, <1>5, <2>1 DEF Sched!Step, JobShape, TripJobRow
  <2>3. x.todo \cup (IF x.pc = "idle" THEN {} ELSE {x.at}) = InJob(j)
    BY <1>0, <1>1, <2>2 DEF InJob
  <2>4. CallsOf(r)' = CallsOf(r)
    BY <1>5 DEF CallsOf
  <2> QED BY <1>3, <1>4, <2>2, <2>3, <2>4, JobStays
<1>6. CASE Sched!NextTrip(j) /\ calls' = calls \cup {<<j, t>>}
  <2>0. <<j, t>>[1] = j /\ <<j, t>>[2] = t
    OBVIOUS
  <2>1. CASE RiderOf[t] # r
    <3>1. CallsOf(r)' = CallsOf(r)
      BY <1>6, <2>0, <2>1 DEF CallsOf
    <3> QED BY <1>0, <1>1, <1>3, <1>4, <1>6, <2>1, <3>1, NextTripStays
  <2>2. CASE RiderOf[t] = r
    <3>1. /\ DesksOf(r) = {} /\ CountsOf(r) = {} /\ CallsOf(r) = {} /\ JobsOf(r) = {<<j, t>>}
          /\ t \in TripRows /\ Kept(t) /\ OneOfEach(r) /\ OneAtATime(r) /\ NoOther(r)
      BY <1>0, <1>1, <1>2, <2>2, HeldBooking
    <3>2. JobsOf(r)' = {}
      BY <1>0, <1>1, <1>6, <3>1, NextTripFrees
    <3>3. DesksOf(r)' = {} /\ CountsOf(r)' = {}
      BY <1>3, <3>1 DEF DesksOf, CountsOf
    <3>4. PICK c : c = <<j, t>>
      OBVIOUS
    <3>5. CallsOf(r)' = {c} /\ c \in calls' /\ c[2] = t
      BY <1>6, <2>0, <2>2, <3>1, <3>4 DEF CallsOf
    <3>6. OneOfEach(r)' /\ OneAtATime(r)' /\ NoOther(r)' /\ Kept(t)'
      BY <1>3, <3>1, SameTrips
    <3>7. Kept(c[2])'
      BY <3>5, <3>6 DEF Kept, Untaken, Sole, OfKind, TripsOf
    <3>8. Dispatched(r)'
      BY <3>2, <3>3, <3>5, <3>6, <3>7 DEF Dispatched
    <3> QED BY <3>6, <3>8 DEF Orderly
  <2> QED BY <2>1, <2>2
<1>7. CASE Sched!NextTrip(j) /\ left' = left \cup {t} /\ calls' = calls
  <2>1. CallsOf(r)' = CallsOf(r)
    BY <1>7 DEF CallsOf
  <2>2. CASE RiderOf[t] # r
    BY <1>0, <1>1, <1>3, <1>4, <1>7, <2>1, <2>2, NextTripStays
  <2>3. CASE RiderOf[t] = r
    <3>1. /\ DesksOf(r) = {} /\ CountsOf(r) = {} /\ CallsOf(r) = {} /\ JobsOf(r) = {<<j, t>>}
          /\ t \in TripRows /\ Kept(t) /\ OneOfEach(r) /\ OneAtATime(r)
      BY <1>2, <2>3, HeldBooking
    <3>2. JobsOf(r)' = {}
      BY <1>0, <1>1, <1>7, <3>1, NextTripFrees
    <3>3. DesksOf(r)' = {} /\ CountsOf(r)' = {} /\ CallsOf(r)' = {}
      BY <1>3, <2>1, <3>1 DEF DesksOf, CountsOf
    <3>4. CountedFor(r)'
      BY <1>3, <1>7, <2>3, <3>1, ForsakenCount
    <3>5. OneOfEach(r)' /\ OneAtATime(r)'
      BY <1>3, <3>1, SameTrips
    <3> QED BY <3>2, <3>3, <3>4, <3>5, NowFree
  <2> QED BY <2>2, <2>3
<1> QED BY <1>1, <1>5, <1>6, <1>7 DEF Sched!AskMode

\* No answer: the booking stays where it is.
LEMMA AskInVainOrder ==
  ASSUME BookingShape, BookingShape', NEW j \in Replicas, Sched!AskInVain(j),
         NEW r \in Riders, Orderly(r)
  PROVE  Orderly(r)'
<1>0. JobShape /\ tripJob[j].pc = "ask"
  BY DEF BookingShape, Sched!AskInVain, Sched!At
<1>1. PICK t : t = tripJob[j].at
  OBVIOUS
<1>2. t \in InJob(j)
  BY <1>0, <1>1 DEF InJob
<1>3. /\ UNCHANGED <<now, trip, upcoming, desk, counts, calls, doubled, left>>
      /\ missed' = missed \cup {t} /\ Sched!NextTrip(j)
  BY <1>1 DEF Sched!AskInVain
<1>4. Aging(r)
  BY <1>3, NothingAges
<1>5. CallsOf(r)' = CallsOf(r)
  BY <1>3 DEF CallsOf
<1>6. CASE RiderOf[t] # r
  BY <1>0, <1>1, <1>3, <1>4, <1>5, <1>6, NextTripStays
<1>7. CASE RiderOf[t] = r
  <2>1. /\ DesksOf(r) = {} /\ CountsOf(r) = {} /\ CallsOf(r) = {} /\ JobsOf(r) = {<<j, t>>}
        /\ t \in TripRows /\ Kept(t) /\ OneOfEach(r) /\ OneAtATime(r)
    BY <1>2, <1>7, HeldBooking
  <2>2. JobsOf(r)' = {}
    BY <1>0, <1>1, <1>3, <2>1, NextTripFrees
  <2>3. DesksOf(r)' = {} /\ CountsOf(r)' = {} /\ CallsOf(r)' = {}
    BY <1>3, <1>5, <2>1 DEF DesksOf, CountsOf
  <2>4. CountedFor(r)'
    BY <1>3, <1>7, <2>1, ForsakenCount
  <2>5. OneOfEach(r)' /\ OneAtATime(r)'
    BY <1>3, <2>1, SameTrips
  <2> QED BY <2>2, <2>3, <2>4, <2>5, NowFree
<1> QED BY <1>6, <1>7

\* Who has lost his booking has none left.
LEMMA ExpireBookingOrder ==
  ASSUME BookingShape, BookingShape', NEW j \in Replicas, Sched!ExpireBooking(j),
         NEW r \in Riders, Orderly(r)
  PROVE  Orderly(r)'
<1>0. /\ JobShape /\ TripShape /\ tripJob[j].pc = "expire"
      /\ tripJob[j].at \in TripRows
  BY DEF BookingShape, JobShape, Sched!ExpireBooking, Sched!At
<1>1. PICK t : t = tripJob[j].at
  OBVIOUS
<1>2. t \in InJob(j)
  BY <1>0, <1>1 DEF InJob
<1>3. /\ UNCHANGED <<now, upcoming, desk, counts, calls, doubled, missed, left>>
      /\ Sched!NextTrip(j) /\ Sched!Write(t, "EXPIRED")
  BY <1>1 DEF Sched!ExpireBooking, Sched!history
<1>4. Aging(r)
  BY <1>3, EndAges
<1>5. CallsOf(r)' = CallsOf(r)
  BY <1>3 DEF CallsOf
<1>6. trip'[t].st = "EXPIRED" /\ \A u \in TripRows : u # t => trip'[u] = trip[u]
  BY <1>0, <1>1, <1>3 DEF Sched!Write, TripShape, TripRow
<1>7. CASE RiderOf[t] # r
  <2>1. \A u \in TripRows : RiderOf[u] = r => trip'[u] = trip[u]
    BY <1>6, <1>7
  <2> QED BY <1>0, <1>1, <1>3, <1>4, <1>5, <1>7, <2>1, NextTripStays
<1>8. CASE RiderOf[t] = r
  <2>1. /\ DesksOf(r) = {} /\ CountsOf(r) = {} /\ CallsOf(r) = {} /\ JobsOf(r) = {<<j, t>>}
        /\ t \in TripRows /\ Kept(t) /\ OneOfEach(r) /\ OneAtATime(r)
    BY <1>2, <1>8, HeldBooking
  <2>2. JobsOf(r)' = {}
    BY <1>0, <1>1, <1>3, <2>1, NextTripFrees
  <2>3. DesksOf(r)' = {} /\ CountsOf(r)' = {} /\ CallsOf(r)' = {}
    BY <1>3, <1>5, <2>1 DEF DesksOf, CountsOf
  <2>4. \A u \in OfKind(r, "SCHEDULED", Live)' : u \in OfKind(r, "SCHEDULED", Live) /\ u # t
    BY <1>4, <1>6, TripsAge DEF OfKind, TripsOf, Live
  <2>5. OfKind(r, "SCHEDULED", Live)' = {}
    BY <1>8, <2>1, <2>4 DEF Kept, Sole
  <2>6. CountedFor(r)'
    BY <2>5 DEF CountedFor, OfKind, TripsOf, Waiting, Live
  <2>7. OneOfEach(r)' /\ OneAtATime(r)'
    BY <1>4, <2>1, TripsStayApart
  <2> QED BY <2>2, <2>3, <2>6, <2>7, NowFree
<1> QED BY <1>7, <1>8

\* A job that stops has missed the bookings it had before it.
LEMMA AbortOrder ==
  ASSUME BookingShape, BookingShape', NEW j \in Replicas, Sched!Abort(j),
         NEW r \in Riders, Orderly(r)
  PROVE  Orderly(r)'
<1>1. PICK x : x = Sched!Resting
  OBVIOUS
<1>2. tripJob' = [tripJob EXCEPT ![j] = x] /\ x.pc = "idle" /\ x.todo = {}
  BY <1>1 DEF Sched!Abort, Sched!Resting
<1>3. /\ UNCHANGED <<now, trip, upcoming, desk, counts, calls, doubled, left>>
      /\ missed' = missed \cup InJob(j)
  BY SameRows DEF Sched!Abort
<1>4. Aging(r)
  BY <1>3, NothingAges
<1>5. CallsOf(r)' = CallsOf(r)
  BY <1>3 DEF CallsOf
<1>6. CASE \A t \in InJob(j) : RiderOf[t] # r
  <2>1. \A t \in TripRows : RiderOf[t] = r =>
           (t \in x.todo \cup (IF x.pc = "idle" THEN {} ELSE {x.at}) <=> t \in InJob(j))
    BY <1>2, <1>6
  <2> QED BY <1>2, <1>3, <1>4, <1>5, <2>1, JobStays
<1>7. ASSUME NEW t \in InJob(j), RiderOf[t] = r PROVE Orderly(r)'
  <2>1. /\ DesksOf(r) = {} /\ CountsOf(r) = {} /\ CallsOf(r) = {} /\ JobsOf(r) = {<<j, t>>}
        /\ t \in TripRows /\ Kept(t) /\ OneOfEach(r) /\ OneAtATime(r)
    BY <1>7, HeldBooking
  <2>2. JobsOf(r)' = {}
    BY <1>2, <2>1, JobLeaves
  <2>3. DesksOf(r)' = {} /\ CountsOf(r)' = {} /\ CallsOf(r)' = {}
    BY <1>3, <1>5, <2>1 DEF DesksOf, CountsOf
  <2>4. CountedFor(r)'
    BY <1>3, <1>7, <2>1, ForsakenCount
  <2>5. OneOfEach(r)' /\ OneAtATime(r)'
    BY <1>3, <2>1, SameTrips
  <2> QED BY <2>2, <2>3, <2>4, <2>5, NowFree
<1> QED BY <1>6, <1>7

\* A call of the job sends the booking to drivers, or expires it.
LEMMA DispatchOrder ==
  ASSUME BookingShape, BookingShape', Sched!Dispatch, NEW r \in Riders, Orderly(r)
  PROVE  Orderly(r)'
<1>0. TripShape /\ DeskShape /\ RestShape
  BY DEF BookingShape
<1>1. PICK c \in calls :
        /\ calls' = calls \ {c}
        /\ trip' = IF trip[c[2]].st \in {"PENDING", "REJECTED_BY_DRIVER"}
                   THEN [trip EXCEPT ![c[2]].out = TRUE]
                   ELSE [trip EXCEPT ![c[2]].st = "EXPIRED"]
  BY DEF Sched!Dispatch
<1>2. PICK t : t = c[2]
  OBVIOUS
<1>3. t \in TripRows
  BY <1>0, <1>1, <1>2 DEF RestShape
<1>4. UNCHANGED <<now, upcoming, desk, counts, tripJob, doubled, missed, left>>
  BY DEF Sched!Dispatch, Sched!history
<1>5. DesksOf(r)' = DesksOf(r) /\ CountsOf(r)' = CountsOf(r) /\ JobsOf(r)' = JobsOf(r)
  BY <1>4 DEF DesksOf, CountsOf, JobsOf, InJob, TripRows
<1>6. CASE RiderOf[t] # r
  <2>1. \A u \in TripRows : RiderOf[u] = r => trip'[u] = trip[u]
    BY <1>0, <1>1, <1>2, <1>6 DEF TripShape
  <2>2. CallsOf(r)' = CallsOf(r)
    BY <1>1, <1>2, <1>6 DEF CallsOf
  <2>3. Aging(r)
    BY <1>4, <2>1, NothingAges
  <2>4. \A h \in DesksOf(r) : \A u \in desk[h].old : trip'[u] = trip[u]
    <3>1. \A h \in DesksOf(r) : DeskRow(desk[h]) /\ desk[h].of = r
      BY <1>0 DEF DesksOf, DeskShape
    <3> QED BY <2>1, <3>1 DEF DeskRow
  <2> QED BY <1>4, <1>5, <2>2, <2>3, <2>4, OrderStays DEF SameWork
<1>7. CASE RiderOf[t] = r
  <2>1. c \in CallsOf(r)
    BY <1>1, <1>2, <1>7 DEF CallsOf
  <2>2. Dispatched(r)
    BY <2>1 DEF Orderly, Free, Asking, Counting, Processed
  <2>3. PICK d \in calls : CallsOf(r) = {d} /\ Kept(d[2]) /\ NoOther(r)
    BY <2>2 DEF Dispatched
  <2>4. d = c
    BY <2>1, <2>3
  <2>5. /\ trip[t].kind = "SCHEDULED" /\ Untaken(t) /\ NoOther(r)
        /\ \A u \in OfKind(r, "SCHEDULED", Live) : u = t
        /\ OneOfEach(r) /\ OneAtATime(r)
    BY <1>2, <1>7, <2>3, <2>4 DEF Kept, Sole, Orderly
  <2>6. CallsOf(r)' = {}
    BY <1>1, <2>3, <2>4 DEF CallsOf
  <2>7. DesksOf(r)' = {} /\ CountsOf(r)' = {} /\ JobsOf(r)' = {}
    BY <1>5, <2>2 DEF Dispatched
  <2>8. CASE trip' = [trip EXCEPT ![t].out = TRUE]
    <3>1. /\ trip'[t].out
          /\ \A u \in TripRows : trip'[u].st = trip[u].st /\ trip'[u].kind = trip[u].kind
          /\ \A u \in TripRows : u # t => trip'[u] = trip[u]
      BY <1>0, <1>3, <2>8 DEF TripShape, TripRow
    <3>2. OneOfEach(r)'
      BY <2>5, <3>1 DEF OneOfEach, TripsOf, TripRows
    <3>3. NoOther(r)'
      BY <2>5, <3>1 DEF NoOther, OfKind, TripsOf, TripRows
    <3>4. OneAtATime(r)'
      BY <3>3 DEF OneAtATime, NoOther
    <3>5. \A u \in TripsOf(r, {"PENDING"})' : trip'[u].kind = "SCHEDULED" => u = t
      BY <2>5, <3>1 DEF TripsOf, OfKind, Live, TripRows
    <3>6. CountedFor(r)'
      BY <3>1, <3>5 DEF CountedFor, Waiting
    <3> QED BY <2>6, <2>7, <3>2, <3>4, <3>6, NowFree
  <2>9. CASE Sched!Write(t, "EXPIRED")
    <3>1. Aging(r)
      BY <1>4, <2>9, EndAges
    <3>2. OneOfEach(r)' /\ OneAtATime(r)'
      BY <2>5, <3>1, TripsStayApart
    <3>3. trip'[t].st = "EXPIRED"
      BY <1>0, <1>3, <2>9 DEF Sched!Write, TripShape, TripRow
    <3>4. \A u \in OfKind(r, "SCHEDULED", Live)' : u \in OfKind(r, "SCHEDULED", Live) /\ u # t
      BY <3>1, <3>3, TripsAge DEF OfKind, TripsOf, Live
    <3>5. OfKind(r, "SCHEDULED", Live)' = {}
      BY <2>5, <3>4
    <3>6. CountedFor(r)'
      BY <3>5 DEF CountedFor, OfKind, TripsOf, Waiting, Live
    <3> QED BY <2>6, <2>7, <3>2, <3>6, NowFree
  <2> QED BY <1>1, <1>2, <2>8, <2>9 DEF Sched!Write
<1> QED BY <1>6, <1>7

-----------------------------------------------------------------------------
(* Drivers, riders, time *)

\* The clock disturbs nobody.
LEMMA NextSlotOrder ==
  ASSUME BookingShape, BookingShape', Sched!NextSlot, NEW r \in Riders, Orderly(r)
  PROVE  Orderly(r)'
<1>1. UNCHANGED <<trip, upcoming, desk, counts, tripJob, calls, doubled, left>> /\ missed \subseteq missed'
  BY DEF Sched!NextSlot, Sched!jobs
<1>2. Aging(r)
  BY <1>1, NothingAges
<1>3. SameWork(r)
  BY <1>1 DEF SameWork, DesksOf, CountsOf, JobsOf, CallsOf, InJob, TripRows
<1> QED BY <1>1, <1>2, <1>3, OrderStays

\* A trip that has aged strains the request that retires it.
LEMMA MovedOrder ==
  ASSUME BookingShape, BookingShape', NEW t \in TripRows, NEW st, Sched!Moved(t, st), Ages(t),
         NEW r \in Riders, Orderly(r), r \notin strained'
  PROVE  Orderly(r)'
<1>0. TripShape /\ DeskShape /\ RestShape
  BY DEF BookingShape
<1>1. /\ trip' = [trip EXCEPT ![t].st = st]
      /\ (\E h \in Handlers : t \in desk[h].old) => RiderOf[t] # r
  BY DEF Sched!Moved, Sched!Write
<1>2. UNCHANGED <<now, upcoming, desk, counts, tripJob, calls, doubled, missed, left>>
  BY DEF Sched!Moved, Sched!jobs
<1>3. \A u \in TripRows : u # t => trip'[u] = trip[u]
  BY <1>0, <1>1 DEF TripShape
<1>4. upcoming[r] \in Nat
  BY <1>0 DEF RestShape
<1>5. Aging(r)
  BY <1>2, <1>3, <1>4 DEF Aging
<1>6. SameWork(r)
  BY <1>2 DEF SameWork, DesksOf, CountsOf, JobsOf, CallsOf, InJob, TripRows
<1>7. \A h \in DesksOf(r) : \A u \in desk[h].old : trip'[u] = trip[u]
  <2>1. ASSUME NEW h \in DesksOf(r), NEW u \in desk[h].old PROVE trip'[u] = trip[u]
    <3>1. h \in Handlers /\ desk[h].pc # "idle" /\ desk[h].of = r
      BY DEF DesksOf
    <3>2. u \in TripRows /\ RiderOf[u] = r
      BY <1>0, <3>1 DEF DeskShape, DeskRow
    <3> QED BY <1>1, <1>3, <3>1, <3>2
  <2> QED BY <2>1
<1> QED BY <1>2, <1>5, <1>6, <1>7, OrderStays

\* Drivers and riders only bring trips nearer to their end.
LEMMA TripMoves ==
  ASSUME BookingShape, NEW t \in TripRows,
         Sched!DriverAnswers(t) \/ Sched!RideEnds(t) \/ Sched!CancelBooking(t) \/ Sched!CancelTrip(t)
  PROVE  Ages(t) /\ \E st : Sched!Moved(t, st)
<1>0. trip \in [TripRows -> TripRow]
  BY DEF BookingShape, TripShape
<1>1. PICK st : Sched!Moved(t, st) /\
        \/ /\ trip[t].out /\ trip[t].st \in {"PENDING", "REJECTED_BY_DRIVER"}
           /\ st \in {"ACCEPTED_BY_DRIVER"} \/ trip[t].st = "PENDING"
           /\ st \in {"ACCEPTED_BY_DRIVER", "REJECTED_BY_DRIVER", "NO_DRIVER", "EXPIRED"}
        \/ trip[t].st = "ACCEPTED_BY_DRIVER" /\ st \in {"COMPLETED", "CANCELLED"}
        \/ st \in {"BOOKING_CANCELLED", "CANCELLED"}
  BY DEF Sched!DriverAnswers, Sched!RideEnds, Sched!CancelBooking, Sched!CancelTrip, Sched!Offered
<1>2. /\ trip'[t].st = st /\ trip'[t].kind = trip[t].kind /\ trip'[t].out = trip[t].out
  BY <1>0, <1>1 DEF Sched!Moved, Sched!Write, TripRow
<1>3. Ages(t)
  BY <1>1, <1>2 DEF Ages, OutOn, Waiting, Untaken, Live, Moving
<1> QED BY <1>1, <1>3

\* So they leave the riders in order.
LEMMA TripMovesOrder ==
  ASSUME BookingShape, BookingShape', NEW t \in TripRows,
         Sched!DriverAnswers(t) \/ Sched!RideEnds(t) \/ Sched!CancelBooking(t) \/ Sched!CancelTrip(t),
         NEW r \in Riders, Orderly(r), r \notin strained'
  PROVE  Orderly(r)'
<1>1. Ages(t)
  BY TripMoves
<1>2. PICK st : Sched!Moved(t, st)
  BY TripMoves
<1> QED BY <1>1, <1>2, MovedOrder

-----------------------------------------------------------------------------
(* The invariant holds *)

\* At first nobody has anything.
LEMMA BookingInit == Sched!Init => BookingInv
<1> SUFFICES ASSUME Sched!Init PROVE BookingInv
  OBVIOUS
<1>1. /\ trip = [t \in TripRows |-> [st |-> "none", kind |-> "none", at |-> 0, out |-> FALSE]]
      /\ upcoming = [r \in Riders |-> 0] /\ counts = {} /\ calls = {}
      /\ desk = [h \in Handlers |-> Sched!Idle] /\ tripJob = [j \in Replicas |-> Sched!Resting]
      /\ missed = {} /\ left = {}
  BY SameRows DEF Sched!Init, Sched!NoTrip
<1>2. TripShape
  BY <1>1 DEF TripShape, TripRow
<1>3. DeskShape
  <2>1. Sched!Idle \in DeskRec /\ Sched!Idle.pc = "idle"
    BY DEF Sched!Idle, DeskRec
  <2> QED BY <1>1, <2>1 DEF DeskShape
<1>4. JobShape
  <2>1. Sched!Resting \in TripJobRow /\ Sched!Resting.pc = "idle" /\ Sched!Resting.todo = {}
    BY DEF Sched!Resting, TripJobRow
  <2> QED BY <1>1, <2>1 DEF JobShape
<1>5. RestShape
  BY <1>1 DEF RestShape
<1>6. ASSUME NEW r \in Riders PROVE Orderly(r)
  <2>1. DesksOf(r) = {} /\ CountsOf(r) = {} /\ CallsOf(r) = {}
    BY <1>1 DEF DesksOf, CountsOf, CallsOf, Sched!Idle
  <2>2. JobsOf(r) = {}
    <3>1. \A j \in Replicas : InJob(j) = {}
      BY <1>1 DEF InJob, Sched!Resting
    <3>2. \A w \in Replicas \X TripRows : w[1] \in Replicas
      OBVIOUS
    <3> QED BY <3>1, <3>2 DEF JobsOf
  <2>3. TripsOf(r, Live) = {} /\ TripsOf(r, {"PENDING"}) = {} /\ OfKind(r, "SCHEDULED", Moving) = {}
    BY <1>1 DEF TripsOf, OfKind, Live, Moving
  <2> QED BY <2>1, <2>2, <2>3 DEF Orderly, Free, CountedFor, OneOfEach, OneAtATime
<1> QED BY <1>2, <1>3, <1>4, <1>5, <1>6 DEF BookingInv, BookingShape

\* Every step keeps the shapes.
LEMMA BookingShapeKept ==
  ASSUME BookingShape, [Sched!Next]_(Sched!vars)
  PROVE  BookingShape'
<1>1. CASE UNCHANGED Sched!vars
  <2>1. UNCHANGED <<trip, upcoming, desk, counts, tripJob, calls>>
    BY <1>1 DEF Sched!vars, Sched!jobs
  <2>2. TripRows' = TripRows /\ Riders' = Riders
    BY DEF TripRows, Riders
  <2> QED BY <2>1, <2>2 DEF BookingShape, TripShape, TripRow, DeskShape, DeskRow, DeskRec,
             JobShape, TripJobRow, RestShape
<1>2. CASE Sched!Next
  BY <1>2, RequestShape, JobStepShape, OtherShape, SameRows DEF Sched!Next
<1> QED BY <1>1, <1>2

\* Who has been strained stays so.
LEMMA StrainGrows ==
  ASSUME [Sched!Next]_(Sched!vars)
  PROVE  strained \subseteq strained'
<1>1. CASE UNCHANGED Sched!vars
  BY <1>1 DEF Sched!vars, Sched!history
<1>2. ASSUME NEW h \in Handlers, Sched!Requests(h) PROVE strained \subseteq strained'
  <2>1. ASSUME NEW r, NEW x, Sched!Arrive(h, r, x) PROVE strained \subseteq strained'
    BY <2>1 DEF Sched!Arrive
  <2>2. ASSUME NEW r, NEW k, NEW at, Sched!Ask(h, r, k, at) PROVE \E x : Sched!Arrive(h, r, x)
    BY <2>2 DEF Sched!Ask
  <2>3. ASSUME NEW r, NEW k, Sched!AskRefused(h, r, k) PROVE \E x : Sched!Arrive(h, r, x)
    BY <2>3 DEF Sched!AskRefused
  <2>4. ASSUME NEW t, Sched!Decline(h, t) PROVE \E r, x : Sched!Arrive(h, r, x)
    BY <2>4 DEF Sched!Decline
  <2>5. ASSUME \/ Sched!TurnDown(h) \/ Sched!ExpireOld(h) \/ Sched!Save(h) \/ Sched!Balance(h)
               \/ Sched!WriteDecline(h) \/ Sched!ReadCustomer(h) \/ Sched!LowerDeclined(h)
               \/ Sched!Fail(h)
        PROVE  strained \subseteq strained'
    BY <2>5 DEF Sched!TurnDown, Sched!ExpireOld, Sched!Save, Sched!Balance, Sched!WriteDecline,
       Sched!ReadCustomer, Sched!LowerDeclined, Sched!Fail, Sched!history
  <2> QED BY <1>2, <2>1, <2>2, <2>3, <2>4, <2>5 DEF Sched!Requests
<1>3. ASSUME NEW j \in Replicas,
             Sched!Cron(j) \/ Sched!JobSteps(j) \/ Sched!AskInVain(j) \/ Sched!Abort(j)
      PROVE  strained \subseteq strained'
  BY <1>3 DEF Sched!Cron, Sched!JobSteps, Sched!AskInVain, Sched!Abort, Sched!Take, Sched!Lower,
     Sched!Check, Sched!AskMode, Sched!ExpireBooking, Sched!history
<1>4. ASSUME Sched!CountBooking \/ Sched!Dispatch \/ Sched!NextSlot
      PROVE  strained \subseteq strained'
  BY <1>4 DEF Sched!CountBooking, Sched!Dispatch, Sched!NextSlot, Sched!history
<1>5. ASSUME NEW t \in TripRows, \/ Sched!DriverAnswers(t) \/ Sched!RideEnds(t)
                                 \/ Sched!CancelBooking(t) \/ Sched!CancelTrip(t)
      PROVE  strained \subseteq strained'
  BY <1>5 DEF Sched!DriverAnswers, Sched!RideEnds, Sched!CancelBooking, Sched!CancelTrip, Sched!Moved
<1> QED BY <1>1, <1>2, <1>3, <1>4, <1>5, SameRows DEF Sched!Next

\* Every step leaves in order whom it does not strain.
LEMMA OrderKept ==
  ASSUME BookingInv, [Sched!Next]_(Sched!vars), NEW r \in Riders, r \notin strained'
  PROVE  Orderly(r)'
<1>1. BookingShape /\ BookingShape'
  BY BookingShapeKept DEF BookingInv
<1>2. Orderly(r)
  BY StrainGrows DEF BookingInv
<1>3. CASE UNCHANGED Sched!vars
  <2>1. UNCHANGED <<now, trip, upcoming, desk, counts, tripJob, calls, doubled, missed, left>>
    BY <1>3 DEF Sched!vars, Sched!jobs, Sched!history
  <2>2. Aging(r)
    BY <1>1, <2>1, NothingAges
  <2>3. SameWork(r)
    BY <2>1 DEF SameWork, DesksOf, CountsOf, JobsOf, CallsOf, InJob, TripRows
  <2> QED BY <1>1, <1>2, <2>1, <2>2, <2>3, OrderStays
<1>4. ASSUME NEW h \in Handlers, Sched!Requests(h) PROVE Orderly(r)'
  BY <1>1, <1>2, <1>4, RequestOrder
<1>5. ASSUME NEW j \in Replicas,
             Sched!Cron(j) \/ Sched!JobSteps(j) \/ Sched!AskInVain(j) \/ Sched!Abort(j)
      PROVE  Orderly(r)'
  BY <1>1, <1>2, <1>5, CronOrder, TakeOrder, LowerOrder, CheckOrder, AskModeOrder, AskInVainOrder,
     ExpireBookingOrder, AbortOrder DEF Sched!JobSteps
<1>6. CASE Sched!CountBooking \/ Sched!Dispatch \/ Sched!NextSlot
  BY <1>1, <1>2, <1>6, CountBookingOrder, DispatchOrder, NextSlotOrder
<1>7. ASSUME NEW t \in TripRows, \/ Sched!DriverAnswers(t) \/ Sched!RideEnds(t)
                                 \/ Sched!CancelBooking(t) \/ Sched!CancelTrip(t)
      PROVE  Orderly(r)'
  BY <1>1, <1>2, <1>7, TripMovesOrder
<1> QED BY <1>3, <1>4, <1>5, <1>6, <1>7, SameRows DEF Sched!Next

\* The invariant is inductive.
LEMMA BookingStep == BookingInv /\ [Sched!Next]_(Sched!vars) => BookingInv'
<1> SUFFICES ASSUME BookingInv, [Sched!Next]_(Sched!vars) PROVE BookingInv'
  OBVIOUS
<1>1. BookingShape'
  BY BookingShapeKept DEF BookingInv
<1>2. Riders' = Riders
  BY DEF Riders, TripRows
<1>3. \A r \in Riders : r \notin strained' => Orderly(r)'
  BY OrderKept
<1> QED BY <1>1, <1>2, <1>3 DEF BookingInv

\* Trips and bookings of every behaviour satisfy the invariant.
LEMMA BookingsAlways == Sched!Spec => []BookingInv
BY BookingInit, BookingStep, PTL DEF Sched!Spec

-----------------------------------------------------------------------------
(* What follows *)

\* A set with one element at most.
LEMMA AtMostOne ==
  ASSUME NEW S, \A x, y \in S : x = y
  PROVE  Cardinality(S) \in {0, 1} /\ (Cardinality(S) = 1 => S # {})
<1>1. CASE S = {}
  BY <1>1, FS_EmptySet
<1>2. ASSUME NEW x \in S PROVE Cardinality(S) = 1
  <2>1. S = {x}
    OBVIOUS
  <2> QED BY <2>1, FS_Singleton
<1> QED BY <1>1, <1>2

\* A rider never has drivers for two trips, unless requests and jobs overlapped
\* or the rider asked for a trip while a booking was being offered to drivers.
THEOREM OneRideHolds == Sched!Spec => []OneRide
<1>1. BookingInv => OneRide
  <2> SUFFICES ASSUME BookingInv, NEW r \in Riders \ (strained \cup doubled)
               PROVE  Cardinality(TripsOf(r, {"ACCEPTED_BY_DRIVER"})) <= 1
    BY DEF OneRide
  <2>1. OneOfEach(r) /\ OneAtATime(r)
    BY DEF BookingInv, Orderly
  <2>2. ASSUME NEW t \in TripsOf(r, {"ACCEPTED_BY_DRIVER"}), NEW u \in TripsOf(r, {"ACCEPTED_BY_DRIVER"})
        PROVE  t = u
    <3>1. t \in TripsOf(r, Live) /\ u \in TripsOf(r, Live)
      BY DEF TripsOf, Live
    <3>2. trip[t].kind \in Both /\ trip[u].kind \in Both /\ (trip[t].kind = trip[u].kind => t = u)
      BY <2>1, <3>1 DEF OneOfEach
    <3>3. t \in OfKind(r, trip[t].kind, Moving) /\ u \in OfKind(r, trip[u].kind, Moving)
          /\ OutOn(t) /\ OutOn(u)
      BY DEF TripsOf, OfKind, Moving, OutOn
    <3>4. trip[t].kind = trip[u].kind
      BY <2>1, <3>2, <3>3 DEF OneAtATime, Both
    <3> QED BY <3>2, <3>4
  <2>3. Cardinality(TripsOf(r, {"ACCEPTED_BY_DRIVER"})) \in {0, 1}
    BY <2>2, AtMostOne
  <2> QED BY <2>3
<1> QED BY <1>1, BookingsAlways, PTL

\* The customer row never shows fewer bookings than wait, for a rider who has
\* nothing under way and whose requests never overlapped or failed.
THEOREM UpcomingAlwaysCovers == Sched!Spec => []UpcomingCovers
<1>1. BookingInv => UpcomingCovers
  <2> SUFFICES ASSUME BookingInv, NEW r \in Riders \ (strained \cup Engaged)
               PROVE  Cardinality({t \in TripsOf(r, {"PENDING"}) \ (missed \cup left) : Waiting(t)})
                          <= upcoming[r]
    BY DEF UpcomingCovers
  <2>1. BookingShape /\ Orderly(r)
    BY DEF BookingInv
  <2>2. Free(r) /\ OneOfEach(r)
    BY <2>1, FreeRider
  <2>3. PICK S : S = {t \in TripsOf(r, {"PENDING"}) \ (missed \cup left) : Waiting(t)}
    OBVIOUS
  <2>4. \A t \in S : t \in TripsOf(r, Live) /\ trip[t].kind = "SCHEDULED"
    BY <2>3 DEF TripsOf, Live, Waiting
  <2>5. \A t, u \in S : t = u
    BY <2>2, <2>4 DEF OneOfEach
  <2>6. Cardinality(S) \in {0, 1} /\ (Cardinality(S) = 1 => S # {})
    BY <2>5, AtMostOne
  <2>7. upcoming[r] \in Nat /\ (S # {} => upcoming[r] >= 1)
    BY <2>1, <2>2, <2>3 DEF BookingShape, RestShape, Free, CountedFor
  <2>8. Cardinality(S) <= upcoming[r]
    BY <2>6, <2>7
  <2> QED BY <2>3, <2>8
<1> QED BY <1>1, BookingsAlways, PTL

\* Trip t is not expired by this step, or no driver had it.
SparesTaken(t) ==
    trip[t].st \in {"ACCEPTED_BY_DRIVER", "COMPLETED"} /\ RiderOf[t] \notin strained
        => trip'[t].st # "EXPIRED"

\* A step that leaves t alone, or expires one that no driver had.
LEMMA Spared ==
  ASSUME TripShape, NEW t \in TripRows, NEW u,
         \/ trip' = trip
         \/ /\ \E st \in Open \cup {"COMPLETED", "EXPIRED", "CANCELLED"} : Sched!Write(u, st)
            /\ u \in TripRows /\ RiderOf[u] \notin strained =>
                   trip[u].st \notin {"ACCEPTED_BY_DRIVER", "COMPLETED"}
         \/ \E b \in BOOLEAN : trip' = [trip EXCEPT ![u].out = b]
         \/ \E row \in TripRow : row.st = "PENDING" /\ trip' = [trip EXCEPT ![u] = row]
         \/ \E st \in Open \cup {"COMPLETED", "CANCELLED"} : Sched!Write(u, st)
  PROVE  SparesTaken(t)
<1>1. trip \in [TripRows -> TripRow] /\ "EXPIRED" \notin Open
  BY DEF TripShape, Open
<1>2. CASE trip' = trip
  BY <1>2 DEF SparesTaken
<1>3. CASE t # u
  <2>1. trip'[t] = trip[t]
    BY <1>1, <1>3 DEF Sched!Write
  <2> QED BY <2>1 DEF SparesTaken
<1>4. CASE t = u
  <2>1. CASE \E b \in BOOLEAN : trip' = [trip EXCEPT ![u].out = b]
    <3>1. trip'[t].st = trip[t].st
      BY <1>1, <1>4, <2>1 DEF TripRow
    <3> QED BY <3>1 DEF SparesTaken
  <2>2. CASE \E row \in TripRow : row.st = "PENDING" /\ trip' = [trip EXCEPT ![u] = row]
    <3>1. trip'[t].st = "PENDING"
      BY <1>1, <1>4, <2>2
    <3> QED BY <3>1 DEF SparesTaken
  <2>3. CASE \E st \in Open \cup {"COMPLETED", "CANCELLED"} : Sched!Write(u, st)
    <3>1. trip'[t].st \in Open \cup {"COMPLETED", "CANCELLED"}
      BY <1>1, <1>4, <2>3 DEF Sched!Write, TripRow
    <3> QED BY <1>1, <3>1 DEF SparesTaken
  <2> QED BY <1>2, <1>4, <2>1, <2>2, <2>3 DEF SparesTaken
<1> QED BY <1>3, <1>4

\* A request retires trips for which no driver was found, or expires a new one.
LEMMA RequestSpares ==
  ASSUME BookingInv, NEW h \in Handlers, Sched!Requests(h), NEW t \in TripRows
  PROVE  SparesTaken(t)
<1>0. TripShape /\ DeskShape /\ desk[h] \in DeskRec /\ (desk[h].pc = "idle" \/ DeskRow(desk[h]))
  BY DEF BookingInv, BookingShape, DeskShape
<1>1. ASSUME desk[h].pc # "idle", desk[h].of \notin strained
      PROVE  Relies(desk[h].of, desk[h]) /\ desk[h].of \in Riders
  <2>1. desk[h].of \in Riders
    BY <1>0, <1>1 DEF DeskRow
  <2>2. Orderly(desk[h].of)
    BY <1>1, <2>1 DEF BookingInv
  <2> QED BY <1>1, <2>1, <2>2, OneHandler
<1>2. CASE Sched!ExpireOld(h)
  <2>1. PICK u \in desk[h].old : Sched!Write(u, "EXPIRED")
    BY <1>2 DEF Sched!ExpireOld
  <2>2. desk[h].pc = "expire" /\ u \in TripRows /\ RiderOf[u] = desk[h].of
    BY <1>0, <1>2 DEF Sched!ExpireOld, DeskRow
  <2>3. RiderOf[u] \notin strained => trip[u].st \in {"PENDING", "NO_DRIVER"}
    BY <1>1, <2>2 DEF Relies, Creates
  <2> QED BY <1>0, <2>1, <2>2, <2>3, Spared
<1>3. CASE Sched!Save(h)
  <2>1. PICK u \in TripRows :
          trip' = [trip EXCEPT ![u] = [st |-> "PENDING", kind |-> desk[h].kind,
                                          at |-> desk[h].at, out |-> FALSE]]
    BY <1>3, SameRows DEF Sched!Save
  <2>2. PICK row : row = [st |-> "PENDING", kind |-> desk[h].kind, at |-> desk[h].at, out |-> FALSE]
    OBVIOUS
  <2>3. row \in TripRow /\ row.st = "PENDING"
    BY <1>0, <2>2 DEF DeskRec, TripRow, Open
  <2> QED BY <1>0, <2>1, <2>2, <2>3, Spared
<1>4. CASE Sched!Balance(h)
  <2>1. PICK u : u = desk[h].trip
    OBVIOUS
  <2>2. desk[h].pc = "balance" /\ u \in TripRows /\ RiderOf[u] = desk[h].of
    BY <1>0, <1>4, <2>1 DEF Sched!Balance, DeskRow
  <2>3. RiderOf[u] \notin strained => trip[u].st \notin {"ACCEPTED_BY_DRIVER", "COMPLETED"}
    BY <1>1, <2>1, <2>2 DEF Relies, Created, Untaken
  <2>4. PICK b : b = (trip[u].st = "PENDING")
    OBVIOUS
  <2>5. trip' = trip \/ Sched!Write(u, "EXPIRED") \/ trip' = [trip EXCEPT ![u].out = b]
    BY <1>4, <2>1, <2>4 DEF Sched!Balance
  <2>6. b \in BOOLEAN
    BY <2>4
  <2> QED BY <1>0, <2>2, <2>3, <2>5, <2>6, Spared
<1>5. CASE Sched!WriteDecline(h)
  <2>1. PICK u : u = desk[h].trip
    OBVIOUS
  <2>2. Sched!Write(u, "CANCELLED")
    BY <1>5, <2>1 DEF Sched!WriteDecline
  <2> QED BY <1>0, <2>2, Spared
<1>7. CASE Sched!TurnDown(h)
  <2>1. PICK u \in desk[h].old : Sched!Write(u, "EXPIRED")
    BY <1>7 DEF Sched!TurnDown
  <2>2. desk[h].pc = "clear" /\ u \in TripRows /\ RiderOf[u] = desk[h].of
    BY <1>0, <1>7 DEF Sched!TurnDown, DeskRow
  <2>3. RiderOf[u] \notin strained => trip[u].st \in {"PENDING", "NO_DRIVER"}
    BY <1>1, <2>2 DEF Relies
  <2> QED BY <1>0, <2>1, <2>2, <2>3, Spared
<1>6. ASSUME \/ \E r \in Riders, k \in Both, at \in 0..LastSlot : Sched!Ask(h, r, k, at)
             \/ \E r \in Riders, k \in Both : Sched!AskRefused(h, r, k)
             \/ \E u \in TripRows : Sched!Decline(h, u)
             \/ Sched!ReadCustomer(h) \/ Sched!LowerDeclined(h) \/ Sched!Fail(h)
      PROVE  SparesTaken(t)
  <2>1. trip' = trip
    BY <1>6 DEF Sched!Ask, Sched!AskRefused, Sched!Decline, Sched!ReadCustomer,
       Sched!LowerDeclined, Sched!Fail
  <2> QED BY <1>0, <2>1, Spared
<1> QED BY <1>2, <1>3, <1>4, <1>5, <1>6, <1>7, SameRows DEF Sched!Requests, Both

\* A job, or a call of it, has a trip no driver was asked to take.
LEMMA JobSpares ==
  ASSUME BookingInv, NEW t \in TripRows,
         \/ Sched!Dispatch
         \/ \E j \in Replicas : Sched!Cron(j) \/ Sched!JobSteps(j) \/ Sched!AskInVain(j) \/ Sched!Abort(j)
  PROVE  SparesTaken(t)
<1>0. TripShape /\ JobShape /\ RestShape /\ BookingShape
  BY DEF BookingInv, BookingShape
<1>1. ASSUME NEW j \in Replicas, Sched!ExpireBooking(j) PROVE SparesTaken(t)
  <2>1. PICK u : u = tripJob[j].at
    OBVIOUS
  <2>2. Sched!Write(u, "EXPIRED") /\ tripJob[j].pc = "expire"
    BY <1>1, <2>1 DEF Sched!ExpireBooking, Sched!At
  <2>3. u \in InJob(j) /\ u \in TripRows /\ RiderOf[u] \in Riders
    BY <1>0, <2>1, <2>2 DEF InJob, JobShape, Riders
  <2>4. RiderOf[u] \notin strained => Kept(u)
    BY <1>0, <2>3, HeldBooking DEF BookingInv
  <2> QED BY <1>0, <2>2, <2>3, <2>4, Spared DEF Kept, Untaken
<1>2. CASE Sched!Dispatch
  <2>1. PICK c \in calls :
        trip' = IF trip[c[2]].st \in {"PENDING", "REJECTED_BY_DRIVER"}
                   THEN [trip EXCEPT ![c[2]].out = TRUE]
                   ELSE [trip EXCEPT ![c[2]].st = "EXPIRED"]
    BY <1>2 DEF Sched!Dispatch
  <2>2. PICK u : u = c[2]
    OBVIOUS
  <2>3. u \in TripRows /\ RiderOf[u] \in Riders /\ c \in CallsOf(RiderOf[u])
    BY <1>0, <2>1, <2>2 DEF RestShape, Riders, CallsOf
  <2>4. ASSUME RiderOf[u] \notin strained PROVE Kept(u)
    <3>1. Orderly(RiderOf[u])
      BY <2>3, <2>4 DEF BookingInv
    <3>2. Dispatched(RiderOf[u])
      BY <2>3, <3>1 DEF Orderly, Free, Asking, Counting, Processed
    <3>3. PICK d \in calls : CallsOf(RiderOf[u]) = {d} /\ Kept(d[2])
      BY <3>2 DEF Dispatched
    <3>4. d = c
      BY <2>3, <3>3
    <3> QED BY <2>2, <3>3, <3>4
  <2> QED BY <1>0, <2>1, <2>2, <2>3, <2>4, Spared DEF Kept, Untaken, Sched!Write
<1>3. ASSUME NEW j \in Replicas,
             \/ Sched!Cron(j) \/ Sched!AskInVain(j) \/ Sched!Abort(j)
             \/ Sched!Take(j) \/ Sched!Lower(j) \/ Sched!Check(j) \/ Sched!AskMode(j)
      PROVE  SparesTaken(t)
  <2>1. trip' = trip
    BY <1>3 DEF Sched!Cron, Sched!AskInVain, Sched!Abort, Sched!Take, Sched!Lower, Sched!Check,
       Sched!AskMode
  <2> QED BY <1>0, <2>1, Spared
<1> QED BY <1>1, <1>2, <1>3 DEF Sched!JobSteps

\* Drivers and riders expire only trips no driver has.
LEMMA MovesSpare ==
  ASSUME BookingInv, NEW t \in TripRows, NEW u \in TripRows,
         Sched!DriverAnswers(u) \/ Sched!RideEnds(u) \/ Sched!CancelBooking(u) \/ Sched!CancelTrip(u)
  PROVE  SparesTaken(t)
<1>0. TripShape
  BY DEF BookingInv, BookingShape
<1>1. CASE Sched!DriverAnswers(u)
  <2>1. trip[u].st \notin {"ACCEPTED_BY_DRIVER", "COMPLETED"}
    BY <1>1 DEF Sched!DriverAnswers, Sched!Offered
  <2>2. \E st \in Open \cup {"COMPLETED", "EXPIRED", "CANCELLED"} : Sched!Write(u, st)
    BY <1>1 DEF Sched!DriverAnswers, Sched!Moved, Open
  <2> QED BY <1>0, <2>1, <2>2, Spared
<1>2. CASE Sched!RideEnds(u) \/ Sched!CancelBooking(u) \/ Sched!CancelTrip(u)
  <2>1. \E st \in Open \cup {"COMPLETED", "CANCELLED"} : Sched!Write(u, st)
    BY <1>2 DEF Sched!RideEnds, Sched!CancelBooking, Sched!CancelTrip, Sched!Moved, Open
  <2> QED BY <1>0, <2>1, Spared
<1> QED BY <1>1, <1>2

\* A trip a driver has taken is expired neither by a new request of its rider nor
\* by the job, unless one of them had found it while it was being offered.
THEOREM TakenAlwaysKept == Sched!Spec => TakenIsKept
<1>1. ASSUME BookingInv, [Sched!Next]_(Sched!vars)
      PROVE  [\A t \in TripRows :
         trip[t].st \in {"ACCEPTED_BY_DRIVER", "COMPLETED"} /\ RiderOf[t] \notin strained
             => trip'[t].st # "EXPIRED"]_trip
  <2>1. CASE UNCHANGED Sched!vars
    BY <2>1 DEF Sched!vars
  <2>2. ASSUME Sched!Next, NEW t \in TripRows PROVE SparesTaken(t)
    <3>1. TripShape
      BY <1>1 DEF BookingInv, BookingShape
    <3>2. CASE Sched!CountBooking \/ Sched!NextSlot
      <4>1. trip' = trip
        BY <3>2 DEF Sched!CountBooking, Sched!NextSlot
      <4> QED BY <3>1, <4>1, Spared
    <3> QED BY <1>1, <2>2, <3>2, RequestSpares, JobSpares, MovesSpare, SameRows DEF Sched!Next
  <2> QED BY <1>1, <2>1, <2>2 DEF SparesTaken
<1>2. BookingInv /\ [Sched!Next]_(Sched!vars) =>
        [\A t \in TripRows :
         trip[t].st \in {"ACCEPTED_BY_DRIVER", "COMPLETED"} /\ RiderOf[t] \notin strained
             => trip'[t].st # "EXPIRED"]_trip
  BY <1>1
<1> QED BY <1>2, BookingsAlways, PTL DEF Sched!Spec, TakenIsKept
=============================================================================
