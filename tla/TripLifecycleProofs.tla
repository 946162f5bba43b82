------------------------- MODULE TripLifecycleProofs -------------------------
(* What holds of TripLifecycle for every set of trips, riders, drivers and   *)
(* handlers, every number of offers and every setting of the limits: that a  *)
(* fare is taken before a trip is completed, that a trip's row, its rider's  *)
(* money and its offers agree, that a trip which is over stays over, and     *)
(* that a rider has one trip at a time.                                      *)
EXTENDS TripLifecycle, TLAPS, WellFoundedInduction

-----------------------------------------------------------------------------
(* Rows *)

\* Each handler's last write leaves a well-formed row, whatever it was at first.
LEMMA WrittenRowType ==
    ASSUME NEW row \in TripRow, NEW seen \in TripRow, NEW j \in JobRecord
    PROVE  WrittenRow(j, row, seen) \in TripRow
<1>1. PreviousAfter(seen, row.previous) \in TripPreviousStatus
  BY DEF PreviousAfter, TripRow, TripPreviousStatus
<1>2. PaymentAfter(j.plan, row.payment) \in TransactionStatus
  BY DEF PaymentAfter, TripRow, TransactionStatus
<1>3. j.driver \in Drivers \cup {None} /\ seen.cancelledByDriver + 1 \in Nat
  BY DEF JobRecord, TripRow
<1>4. CASE j.op = "accept"
  BY <1>3, <1>4 DEF WrittenRow, TripRow, TripStatus, TransactionStatus, TripPreviousStatus
<1>5. CASE j.op = "cancelByDriver"
  BY <1>1, <1>3, <1>5 DEF WrittenRow, CancelledRow, TripRow, TripStatus, TransactionStatus,
     TripPreviousStatus
<1>6. CASE j.op = "cancelByRider"
  BY <1>2, <1>6 DEF WrittenRow, TripRow, TripStatus
<1>7. CASE j.op = "cancelByAdmin"
  BY <1>7 DEF WrittenRow, TripRow, TripStatus, TransactionStatus
<1>8. CASE j.op = "complete"
  BY <1>8 DEF WrittenRow, TripRow, TripStatus, TransactionStatus
<1>9. CASE j.op \in {"reject", "arrive", "start"}
  BY <1>9 DEF WrittenRow, TripRow, TripStatus
<1>10. CASE j.op \notin {"accept", "cancelByDriver", "cancelByRider", "cancelByAdmin", "complete",
                         "reject", "arrive", "start"}
  BY <1>10 DEF WrittenRow, TripRow, TripStatus
<1>. QED BY <1>4, <1>5, <1>6, <1>7, <1>8, <1>9, <1>10

\* The rows the dispatcher and a creation write are well formed too.
LEMMA UpdatedRowType ==
    ASSUME NEW row \in TripRow
    PROVE  /\ [row EXCEPT !.status = "EXPIRED", !.expiredAt = TRUE] \in TripRow
           /\ [row EXCEPT !.status = "CANCELLED_BY_DRIVER", !.cancelledAt = TRUE] \in TripRow
           /\ [row EXCEPT !.status = "NO_DRIVER"] \in TripRow
           /\ [row EXCEPT !.status = "PENDING"] \in TripRow
           /\ [row EXCEPT !.driver = None, !.cancelledAt = FALSE,
                          !.assignedAt = FALSE, !.payment = "none"] \in TripRow
BY DEF TripRow, TripStatus, TransactionStatus

\* So is a new row.
LEMMA NewRowType ==
    ASSUME NEW status \in TripStatus
    PROVE  NewTrip(status) \in TripRow
BY DEF NewTrip, TripRow, TripPreviousStatus, TransactionStatus

\* A row put in its place leaves the table of trips well formed.
LEMMA PutType ==
    ASSUME TypeOK, NEW h, NEW t \in Trips, NEW row \in TripRow, Put(h, t, row)
    PROVE  /\ trip' \in [Trips -> TripRow]
           /\ strained' \subseteq Trips
BY DEF Put, TypeOK

\* A handler that returns leaves well-formed variables behind.
LEMMA LeaveType ==
    ASSUME TypeOK, NEW h \in Handlers, Leave(h)
    PROVE  /\ job' \in [Handlers -> JobRecord]
           /\ pc' \in [Handlers -> PCs]
           /\ saw' \in [Handlers -> TripRow]
           /\ todo' \in [Handlers -> SUBSET Drivers]
<1>1. NoJob \in JobRecord
  BY DEF NoJob, Job, JobRecord, Ops
<1>2. NewTrip("none") \in TripRow
  BY NewRowType DEF TripStatus
<1>. QED BY <1>1, <1>2 DEF Leave, GoTo, TypeOK, PCs

-----------------------------------------------------------------------------
(* Where a handler stands *)

\* What the job of a handler must have at each place: a trip, the offer or the
\* trip it is going to write and, if it is to charge the rider, a confirmation
\* still ahead or just behind.
Placed(j, p) ==
    /\ p # "idle" => j.trip \in Trips
    /\ p = "expire" => j.old \in Trips
    /\ p \in {"expireOffer", "hold"} => j.offer \in Offers
    /\ p = "mark" /\ j.op = "accept" => j.offer \in Offers
    /\ j.op = "complete" => j.plan = "confirm"
    /\ j.plan = "confirm" => /\ p \in {"confirm", "write"}
                             /\ j.op \in {"complete", "cancelByRider"}

Shape == \A h \in Handlers : Placed(job[h], pc[h])

\* An offer is of a trip, and the offer a handler remembers exists.
OffersKnown ==
    /\ \A o \in Offers : offer[o].status # "none" => offer[o].trip \in Trips
    /\ \A h \in Handlers : job[h].offer \in Offers => offer[job[h].offer].status # "none"

\* What every step does to offers, but for the one that inserts a new one:
\* they are answered, never asked again.
OffersKept ==
    \A o \in Offers :
        /\ offer'[o].driver = offer[o].driver /\ offer'[o].trip = offer[o].trip
        /\ offer'[o].status = "PENDING" => offer[o].status = "PENDING"
        /\ offer'[o].status = "none" <=> offer[o].status = "none"

\* A handler that begins: the two kinds of first step have this in common.
Started(h, j, p) ==
    /\ pc[h] = "idle"
    /\ j \in JobRecord /\ p \in PCs /\ Placed(j, p)
    /\ p # "idle" /\ (p = "write" => j.plan # "confirm")
    /\ job' = [job EXCEPT ![h] = j]
    /\ pc' = [pc EXCEPT ![h] = p]
    /\ saw' \in [Handlers -> TripRow]
    /\ j.offer \in Offers => offer[j.offer].status # "none"
    /\ UNCHANGED <<trip, money, todo, strained>>

\* NULL is not a row number.
LEMMA NoneIsNoOffer == None \notin Offers
BY IdsAssumption DEF Offers

\* A job that fits the place its handler begins at.
Fits(j, p) ==
    /\ j \in JobRecord /\ p \in PCs /\ Placed(j, p)
    /\ p # "idle" /\ (p = "write" => j.plan # "confirm")
    /\ j.offer \in Offers => offer[j.offer].status # "none"

\* A handler begins with a job that fits, having read the trip.
LEMMA BeginStarts ==
    ASSUME TypeOK, NEW h \in Handlers, NEW j, NEW p, Begin(h, j, p), Fits(j, p)
    PROVE  UNCHANGED offer /\ Started(h, j, p)
<1>1. saw' \in [Handlers -> TripRow]
  BY DEF Begin, TypeOK, Fits, Placed
<1>. QED BY <1>1 DEF Begin, Fits, GoTo, Started

\* Every request starts its handler at a place its job fits.
LEMMA RequestBegins ==
    ASSUME TypeOK, NEW h \in Handlers, NEW t \in Trips, Request(h, t)
    PROVE  \E j, p : Begin(h, j, p) /\ Fits(j, p)
<1>. USE DEF Job, JobRecord, Fits, Placed, Ops, PCs
<1>. USE NoneIsNoOffer
<1>1. CASE Create(h, t)
  <2>1. CASE Begin(h, Job("create", t, None, None, "none", None), "save")
    BY <2>1
  <2>2. ASSUME NEW s \in Trips, NEW o \in Pending(Offers) \cup {None},
               Begin(h, Job("create", t, None, o, "none", s), "expire")
        PROVE  \E j, p : Begin(h, j, p) /\ Fits(j, p)
    BY <2>2 DEF Pending
  <2>. QED BY <1>1, <2>1, <2>2 DEF Create, Running, Pending, OffersOf
<1>2. ASSUME NEW d \in Drivers, Accept(h, t, d) PROVE \E j, p : Begin(h, j, p) /\ Fits(j, p)
  BY <1>2 DEF Accept
<1>3. CASE Reject(h, t)
  BY <1>3 DEF Reject
<1>4. CASE Arrive(h, t) \/ Start(h, t)
  BY <1>4 DEF Arrive, Start
<1>5. CASE Complete(h, t)
  BY <1>5 DEF Complete
<1>6. CASE CancelByRider(h, t)
  BY <1>6 DEF CancelByRider
<1>7. CASE CancelBooking(h, t)
  BY <1>7 DEF CancelBooking
<1>8. CASE CancelByDriver(h, t)
  <2>1. trip[t].driver \in Drivers \cup {None}
    BY DEF TypeOK, TripRow
  <2>. QED BY <1>8, <2>1 DEF CancelByDriver
<1>9. ASSUME NEW super \in BOOLEAN, CancelByAdmin(h, t, super)
      PROVE  \E j, p : Begin(h, j, p) /\ Fits(j, p)
  BY <1>9 DEF CancelByAdmin
<1>10. CASE AcceptWithAllCabs(h, t) \/ DeclineWithAllCabs(h, t)
  BY <1>10 DEF AcceptWithAllCabs, DeclineWithAllCabs
<1>. QED
  BY <1>1, <1>2, <1>3, <1>4, <1>5, <1>6, <1>7, <1>8, <1>9, <1>10 DEF Request

\* A request starts its handler and leaves the offers alone; the cron job starts
\* a dispatcher after it has let offers expire.
LEMMA AllStart ==
    ASSUME TypeOK, NEW h \in Handlers, NEW t \in Trips,
           Request(h, t) \/ \E S \in SUBSET Offers : ExpireOffers(h, t, S)
    PROVE  /\ offer' \in [Offers -> OfferRow] /\ OffersKept
           /\ \E j, p : Started(h, j, p)
<1>1. CASE Request(h, t)
  <2>1. UNCHANGED offer /\ \E j, p : Started(h, j, p)
    BY <1>1, RequestBegins, BeginStarts
  <2>. QED BY <2>1 DEF TypeOK, OffersKept
<1>2. ASSUME NEW S \in SUBSET Offers, ExpireOffers(h, t, S)
      PROVE  /\ offer' \in [Offers -> OfferRow] /\ OffersKept
             /\ \E j, p : Started(h, j, p)
  <2> DEFINE j == Job("dispatch", t, None, None, "none", None)
  <2>1. offer' \in [Offers -> OfferRow]
    <3>1. \A o \in Offers : [offer[o] EXCEPT !.status = "EXPIRED"] \in OfferRow
      BY DEF TypeOK, OfferRow, OfferStatus
    <3>. QED BY <1>2, <3>1 DEF TypeOK, ExpireOffers
  <2>2. OffersKept
    <3>1. \A o \in Offers : offer'[o] = IF o \in S THEN [offer[o] EXCEPT !.status = "EXPIRED"]
                                       ELSE offer[o]
      BY <1>2 DEF ExpireOffers
    <3>2. \A o \in S : offer[o].status = "PENDING"
      BY <1>2 DEF ExpireOffers, Pending
    <3>. QED BY <3>1, <3>2 DEF TypeOK, OfferRow, OffersKept
  <2>3. j \in JobRecord /\ Placed(j, "emit") /\ j.plan # "confirm" /\ j.offer \notin Offers
    BY NoneIsNoOffer DEF Job, JobRecord, Placed, Ops
  <2>4. Started(h, j, "emit")
    BY <1>2, <2>3 DEF TypeOK, ExpireOffers, GoTo, Started, PCs
  <2>. QED BY <2>1, <2>2, <2>4
<1>. QED BY <1>1, <1>2

\* A started handler keeps types and shape.
LEMMA StartedType ==
    ASSUME TypeOK, Shape, NEW h \in Handlers, NEW j, NEW p, Started(h, j, p),
           offer' \in [Offers -> OfferRow], late' \in Nat
    PROVE  TypeOK' /\ Shape'
<1>1. TypeOK'
  BY DEF TypeOK, Started, money
<1>2. Shape'
  BY DEF TypeOK, Shape, Started, Placed
<1>. QED BY <1>1, <1>2

\* So does a handler that returns.
LEMMA LeaveShape ==
    ASSUME TypeOK, Shape, NEW h \in Handlers, Leave(h)
    PROVE  Shape'
BY DEF TypeOK, Shape, Leave, GoTo, NoJob, Job, Placed

\* Going on as a dispatcher keeps types and shape: the trip is the same.
LEMMA DispatchType ==
    ASSUME TypeOK, Shape, NEW h \in Handlers, pc[h] # "idle",
           NEW p \in {"emit", "look"}, Dispatch(h, p)
    PROVE  /\ job' \in [Handlers -> JobRecord]
           /\ pc' \in [Handlers -> PCs]
           /\ saw' \in [Handlers -> TripRow]
           /\ todo' \in [Handlers -> SUBSET Drivers]
           /\ Shape'
<1>1. job[h].trip \in Trips
  BY DEF Shape, Placed
<1>2. Job("dispatch", job[h].trip, None, None, "none", None) \in JobRecord
  BY <1>1 DEF Job, JobRecord, Ops
<1>3. NewTrip("none") \in TripRow
  BY NewRowType DEF TripStatus
<1>4. Shape'
  BY <1>1 DEF TypeOK, Shape, Dispatch, GoTo, Job, Placed
<1>. QED BY <1>2, <1>3, <1>4 DEF TypeOK, Dispatch, GoTo, PCs

\* Every step of a handler keeps types and shape: it writes the rows its job
\* names, and moves on to a place that job fits.
LEMMA StepType ==
    ASSUME TypeOK, Shape, OffersKnown, NEW h \in Handlers, Step(h)
    PROVE  TypeOK' /\ Shape'
<1> DEFINE t == job[h].trip
<1>1. late' \in Nat
  BY DEF Step, TypeOK
<1>2. pc[h] # "idle" => t \in Trips /\ trip[t] \in TripRow
  BY DEF Shape, Placed, TypeOK
<1>3. CASE ExpireOld(h)
  <2>1. job[h].old \in Trips
    BY <1>3 DEF Shape, Placed, ExpireOld
  <2>2. /\ trip' \in [Trips -> TripRow]
        /\ strained' \subseteq Trips
    BY <1>3, <2>1, PutType, UpdatedRowType DEF ExpireOld, TypeOK
  <2>3. job[h].offer \in Offers \cup {None}
    BY DEF TypeOK, JobRecord
  <2>4. Shape'
    BY <1>3, <2>3 DEF TypeOK, Shape, ExpireOld, GoTo, local, Placed
  <2>. QED BY <1>1, <1>3, <2>2, <2>4 DEF TypeOK, ExpireOld, GoTo, PCs, local, money
<1>4. CASE ExpireOldOffer(h)
  <2>1. offer' \in [Offers -> OfferRow]
    BY <1>4 DEF TypeOK, ExpireOldOffer, OfferRow, OfferStatus
  <2>2. Shape'
    BY <1>4 DEF TypeOK, Shape, ExpireOldOffer, GoTo, local, Placed
  <2>. QED BY <1>1, <1>4, <2>1, <2>2
           DEF TypeOK, ExpireOldOffer, GoTo, PCs, local, money
<1>5. CASE Save(h)
  <2>1. trip' \in [Trips -> TripRow] /\ strained' \subseteq Trips
    <3>1. NewTrip("PENDING") \in TripRow
      BY NewRowType DEF TripStatus
    <3>. QED BY <1>2, <1>5, <3>1 DEF Save, TypeOK
  <2>2. Shape'
    BY <1>5 DEF TypeOK, Shape, Save, GoTo, local, Placed
  <2>. QED BY <1>1, <1>5, <2>1, <2>2 DEF TypeOK, Save, GoTo, PCs, local, money
<1>6. CASE Balance(h)
  <2>1. CASE Put(h, t, [trip[t] EXCEPT !.status = "EXPIRED", !.expiredAt = TRUE]) /\ Leave(h)
    BY <1>1, <1>2, <1>6, <2>1, PutType, UpdatedRowType, LeaveType, LeaveShape
       DEF TypeOK, Balance, money
  <2>2. CASE Dispatch(h, "emit") /\ UNCHANGED <<trip, strained>>
    BY <1>1, <1>6, <2>2, DispatchType DEF TypeOK, Balance, money
  <2>3. ASSUME NEW d \in Drivers, todo' = [todo EXCEPT ![h] = {d}],
               GoTo(h, "offer"), UNCHANGED <<trip, job, saw, strained>>
        PROVE  TypeOK' /\ Shape'
    <3>1. Shape'
      BY <1>6, <2>3 DEF TypeOK, Shape, Balance, GoTo, Placed
    <3>. QED BY <1>1, <1>6, <2>3, <3>1 DEF TypeOK, Balance, GoTo, PCs, money
  <2>. QED BY <1>6, <2>1, <2>2, <2>3 DEF Balance
<1>7. CASE Emit(h)
  <2>1. CASE GoTo(h, "look") /\ UNCHANGED local
    <3>1. Shape'
      BY <1>7, <2>1 DEF TypeOK, Shape, Emit, GoTo, local, Placed
    <3>. QED BY <1>1, <1>7, <2>1, <3>1 DEF TypeOK, Emit, GoTo, PCs, local, money
  <2>2. CASE Leave(h)
    BY <1>1, <1>7, <2>2, LeaveType, LeaveShape DEF TypeOK, Emit, money
  <2>. QED BY <1>7, <2>1, <2>2 DEF Emit
<1>8. CASE Look(h)
  <2>1. PICK plan \in {"noDriver", "expired", "accepted", "ask"}, p \in {"settle", "search"} :
           job' = [job EXCEPT ![h].plan = plan] /\ GoTo(h, p)
    BY <1>8 DEF Look
  <2>2. job' \in [Handlers -> JobRecord]
    <3>1. [job[h] EXCEPT !.plan = plan] \in JobRecord
      BY DEF TypeOK, JobRecord
    <3>. QED BY <2>1, <3>1 DEF TypeOK
  <2>3. Shape'
    BY <1>8, <2>1 DEF TypeOK, Shape, Look, GoTo, Placed, JobRecord
  <2>. QED BY <1>1, <1>2, <1>8, <2>1, <2>2, <2>3
           DEF TypeOK, Look, GoTo, PCs, money
<1>9. CASE Search(h)
  <2>1. ASSUME NEW plan \in NoDriverPlans(saw[h]), job' = [job EXCEPT ![h].plan = plan],
               GoTo(h, "settle"), UNCHANGED <<saw, todo>>
        PROVE  TypeOK' /\ Shape'
    <3>1. plan \in {"noDriver", "cancelled", "expired"}
      BY <2>1 DEF NoDriverPlans
    <3>2. job' \in [Handlers -> JobRecord]
      <4>1. [job[h] EXCEPT !.plan = plan] \in JobRecord
        BY <3>1 DEF TypeOK, JobRecord
      <4>. QED BY <2>1, <4>1 DEF TypeOK
    <3>3. Shape'
      BY <1>9, <2>1, <3>1 DEF TypeOK, Shape, Search, GoTo, Placed, JobRecord
    <3>. QED BY <1>1, <1>9, <2>1, <3>2, <3>3 DEF TypeOK, Search, GoTo, PCs, money
  <2>2. CASE Leave(h)
    BY <1>1, <1>9, <2>2, LeaveType, LeaveShape DEF TypeOK, Search, money
  <2>3. ASSUME NEW S \in SUBSET Drivers, NEW p \in {"reset", "offer"},
               todo' = [todo EXCEPT ![h] = S],
               GoTo(h, p), UNCHANGED <<job, saw>>
        PROVE  TypeOK' /\ Shape'
    <3>2. todo' \in [Handlers -> SUBSET Drivers]
      BY <2>3 DEF TypeOK
    <3>3. Shape'
      BY <1>9, <2>3 DEF TypeOK, Shape, Search, GoTo, Placed
    <3>. QED BY <1>1, <1>9, <2>3, <3>2, <3>3 DEF TypeOK, Search, GoTo, PCs, money
  <2>. QED BY <1>9, <2>1, <2>2, <2>3 DEF Search
<1>10. CASE SettleSearch(h)
  BY <1>1, <1>2, <1>10, PutType, UpdatedRowType, LeaveType, LeaveShape
     DEF TypeOK, SettleSearch, money
<1>11. CASE Reset(h)
  <2>1. Shape'
    BY <1>11 DEF TypeOK, Shape, Reset, GoTo, local, Placed
  <2>. QED BY <1>1, <1>2, <1>11, <2>1, PutType, UpdatedRowType
           DEF TypeOK, Reset, GoTo, PCs, local, money
<1>12. ASSUME NEW d \in Drivers, Ask(h, d) PROVE TypeOK' /\ Shape'
  <2>1. offer' \in [Offers -> OfferRow]
    <3>1. t \in Trips /\ saw[h].cancelledByDriver \in Nat
      BY <1>2, <1>12 DEF Ask, TypeOK, TripRow
    <3>2. RequestedStatus(saw[h]) \in Asked
      BY DEF RequestedStatus, Asked
    <3>3. PICK asked \in Asked, group \in Nat :
             offer' = [offer EXCEPT ![FreshOffer] =
                         [status |-> "PENDING", trip |-> t, driver |-> d, asked |-> asked,
                          group |-> group]]
      BY <1>12, <3>1, <3>2 DEF Ask, Asked
    <3>4. [status |-> "PENDING", trip |-> t, driver |-> d, asked |-> asked, group |-> group]
             \in OfferRow
      BY <3>1 DEF OfferRow, OfferStatus
    <3>. QED BY <3>3, <3>4 DEF TypeOK
  <2>2. CASE Leave(h)
    BY <1>1, <1>12, <2>1, <2>2, LeaveType, LeaveShape DEF TypeOK, Ask, money
  <2>3. CASE todo' = [todo EXCEPT ![h] = @ \ {d}] /\ UNCHANGED <<pc, job, saw>>
    BY <1>1, <1>12, <2>1, <2>3 DEF TypeOK, Shape, Ask, money
  <2>. QED BY <1>12, <2>2, <2>3 DEF Ask
<1>13. CASE MatchOffer(h)
  <2>1. ASSUME NEW o \in Pending(Offers), job' = [job EXCEPT ![h].offer = o],
               trip' = [trip EXCEPT ![t].cab = @ \/ ~saw[h].cab],
               strained' = IF offer[o].trip = t THEN strained
                           ELSE strained \cup {t, offer[o].trip},
               GoTo(h, "hold"), UNCHANGED <<saw, todo>>
        PROVE  TypeOK' /\ Shape'
    <3>1. t \in Trips /\ o \in Offers /\ offer[o].trip \in Trips
      BY <1>2, <1>13, <2>1 DEF MatchOffer, Pending, OffersKnown
    <3>2. trip' \in [Trips -> TripRow]
      <4>1. [trip[t] EXCEPT !.cab = @ \/ ~saw[h].cab] \in TripRow
        BY <1>2, <1>13 DEF MatchOffer, TypeOK, TripRow
      <4>. QED BY <2>1, <4>1 DEF TypeOK
    <3>3. job' \in [Handlers -> JobRecord]
      <4>1. [job[h] EXCEPT !.offer = o] \in JobRecord
        BY <3>1 DEF TypeOK, JobRecord
      <4>. QED BY <2>1, <4>1 DEF TypeOK
    <3>4. Shape'
      BY <1>13, <2>1, <3>1 DEF TypeOK, Shape, MatchOffer, GoTo, Placed, JobRecord
    <3>5. strained' \subseteq Trips
      BY <2>1, <3>1 DEF TypeOK
    <3>. QED BY <1>1, <1>13, <2>1, <3>2, <3>3, <3>4, <3>5
             DEF TypeOK, MatchOffer, GoTo, PCs, money
  <2>2. CASE Leave(h) /\ UNCHANGED <<trip, strained>>
    BY <1>1, <1>13, <2>2, LeaveType, LeaveShape DEF TypeOK, MatchOffer, money
  <2>. QED BY <1>13, <2>1, <2>2 DEF MatchOffer
<1>14. CASE MarkAccepted(h)
  <2>1. offer' \in [Offers -> OfferRow]
    BY <1>14 DEF TypeOK, MarkAccepted, OfferRow, OfferStatus
  <2>2. Shape'
    BY <1>14 DEF TypeOK, Shape, MarkAccepted, GoTo, local, Placed
  <2>. QED BY <1>1, <1>14, <2>1, <2>2
           DEF TypeOK, MarkAccepted, GoTo, PCs, local, money
<1>15. CASE MarkCancelled(h)
  <2>1. CASE GoTo(h, "write") /\ UNCHANGED local
    <3>1. offer' \in [Offers -> OfferRow]
      BY <1>15 DEF TypeOK, MarkCancelled, OfferRow, OfferStatus
    <3>2. Shape'
      BY <1>15, <2>1 DEF TypeOK, Shape, MarkCancelled, GoTo, local, Placed
    <3>. QED BY <1>1, <1>15, <2>1, <3>1, <3>2
             DEF TypeOK, MarkCancelled, GoTo, PCs, local, money
  <2>2. CASE Leave(h) /\ UNCHANGED offer
    BY <1>1, <1>15, <2>2, LeaveType, LeaveShape DEF TypeOK, MarkCancelled, money
  <2>. QED BY <1>15, <2>1, <2>2 DEF MarkCancelled
<1>16. CASE MarkDeclined(h)
  <2>1. ASSUME NEW o \in Offers, offer[o].status # "none",
               offer' = [offer EXCEPT ![o].status = "DECLINED"],
               strained' = IF offer[o].trip # t \/ offer[o].status = "ACCEPTED"
                           THEN strained \cup {offer[o].trip} ELSE strained,
               GoTo(h, "write"), UNCHANGED local
        PROVE  TypeOK' /\ Shape'
    <3>1. offer' \in [Offers -> OfferRow]
      BY <2>1 DEF TypeOK, OfferRow, OfferStatus
    <3>2. strained' \subseteq Trips
      BY <2>1 DEF TypeOK, OffersKnown
    <3>3. Shape'
      BY <1>16, <2>1 DEF TypeOK, Shape, MarkDeclined, GoTo, local, Placed
    <3>. QED BY <1>1, <1>16, <2>1, <3>1, <3>2, <3>3
             DEF TypeOK, MarkDeclined, GoTo, PCs, local, money
  <2>2. CASE Leave(h) /\ UNCHANGED <<offer, strained>>
    BY <1>1, <1>16, <2>2, LeaveType, LeaveShape DEF TypeOK, MarkDeclined, money
  <2>. QED BY <1>16, <2>1, <2>2 DEF MarkDeclined
<1>17. CASE Hold(h)
  <2>1. CASE GoTo(h, "mark") /\ held' = [held EXCEPT ![t] = @ + 1]
             /\ UNCHANGED <<trip, offer, paid, local, strained>>
    <3>1. Shape'
      BY <1>17, <2>1 DEF TypeOK, Shape, Hold, GoTo, local, Placed
    <3>2. held' \in [Trips -> Nat] /\ paid' \in [Trips -> Nat]
      <4>1. t \in Trips /\ held[t] \in Nat /\ paid[t] \in Nat
        BY <1>2, <1>17 DEF TypeOK, Hold
      <4>. QED BY <2>1, <4>1 DEF TypeOK
    <3>. QED BY <1>1, <2>1, <3>1, <3>2 DEF TypeOK, GoTo, PCs, local
  <2>2. CASE Refused(h)
    BY <1>1, <2>2, LeaveType, LeaveShape DEF TypeOK, Refused, money
  <2>. QED BY <1>17, <2>1, <2>2 DEF Hold
<1>18. CASE Confirm(h)
  <2>1. CASE held[t] > 0 /\ held' = [held EXCEPT ![t] = @ - 1]
             /\ paid' = [paid EXCEPT ![t] = @ + 1] /\ GoTo(h, "write")
             /\ UNCHANGED <<trip, offer, local, strained>>
    <3>1. Shape'
      BY <1>18, <2>1 DEF TypeOK, Shape, Confirm, GoTo, local, Placed
    <3>2. held' \in [Trips -> Nat] /\ paid' \in [Trips -> Nat]
      <4>1. t \in Trips /\ held[t] \in Nat /\ paid[t] \in Nat
        BY <1>2, <1>18 DEF TypeOK, Confirm
      <4>. QED BY <2>1, <4>1 DEF TypeOK
    <3>. QED BY <1>1, <2>1, <3>1, <3>2 DEF TypeOK, GoTo, PCs, local
  <2>2. CASE Refused(h)
    BY <1>1, <2>2, LeaveType, LeaveShape DEF TypeOK, Refused, money
  <2>. QED BY <1>18, <2>1, <2>2 DEF Confirm
<1>19. CASE Release(h)
  <2>1. ASSUME NEW p \in {"mark", "write"}, p = "mark" => job[h].op = "cancelByDriver",
               held[t] > 0, held' = [held EXCEPT ![t] = @ - 1], GoTo(h, p),
               UNCHANGED <<trip, offer, paid, local, strained>>
        PROVE  TypeOK' /\ Shape'
    <3>1. Shape'
      BY <1>19, <2>1 DEF TypeOK, Shape, Release, GoTo, local, Placed
    <3>2. held' \in [Trips -> Nat] /\ paid' \in [Trips -> Nat]
      <4>1. t \in Trips /\ held[t] \in Nat /\ paid[t] \in Nat
        BY <1>2, <1>19 DEF TypeOK, Release
      <4>. QED BY <2>1, <4>1 DEF TypeOK
    <3>. QED BY <1>1, <2>1, <3>1, <3>2 DEF TypeOK, GoTo, PCs, local
  <2>2. CASE Refused(h)
    BY <1>1, <2>2, LeaveType, LeaveShape DEF TypeOK, Refused, money
  <2>. QED BY <1>19, <2>1, <2>2 DEF Release
<1>20. CASE WriteTrip(h)
  <2>1. /\ trip' \in [Trips -> TripRow]
        /\ strained' \subseteq Trips
    <3>1. WrittenRow(job[h], trip[t], saw[h]) \in TripRow
      BY <1>2, <1>20, WrittenRowType DEF TypeOK, WriteTrip
    <3>. QED BY <1>2, <1>20, <3>1, PutType DEF WriteTrip
  <2>2. CASE Dispatch(h, "emit")
    BY <1>1, <1>20, <2>1, <2>2, DispatchType DEF TypeOK, WriteTrip, money
  <2>3. CASE GoTo(h, "again") /\ UNCHANGED local /\ job[h].op = "cancelByDriver"
    <3>1. Shape'
      BY <1>20, <2>3 DEF TypeOK, Shape, WriteTrip, GoTo, local, Placed
    <3>. QED BY <1>1, <1>20, <2>1, <2>3, <3>1 DEF TypeOK, WriteTrip, GoTo, PCs, local, money
  <2>4. CASE Leave(h)
    BY <1>1, <1>20, <2>1, <2>4, LeaveType, LeaveShape DEF TypeOK, WriteTrip, money
  <2>. QED BY <1>20, <2>2, <2>3, <2>4 DEF WriteTrip
<1>21. CASE PendAgain(h)
  BY <1>1, <1>2, <1>21, PutType, UpdatedRowType, DispatchType
     DEF TypeOK, PendAgain, money
<1>. QED
  BY <1>3, <1>4, <1>5, <1>6, <1>7, <1>8, <1>9, <1>10, <1>11, <1>12, <1>13, <1>14,
     <1>15, <1>16, <1>17, <1>18, <1>19, <1>20, <1>21 DEF Step

-----------------------------------------------------------------------------
(* Offers *)

\* A handler's step answers offers, or inserts one for a driver it asks.
LEMMA StepOffers ==
    ASSUME TypeOK, Shape, OffersKnown, NEW h \in Handlers, Step(h),
           \A d \in Drivers : ~Ask(h, d)
    PROVE  OffersKept
<1>1. CASE UNCHANGED offer
  BY <1>1 DEF OffersKept
<1>2. ASSUME NEW o \in Offers, NEW status \in {"EXPIRED", "ACCEPTED", "CANCELLED", "DECLINED"},
             offer[o].status # "none", offer' = [offer EXCEPT ![o].status = status]
      PROVE  OffersKept
  BY <1>2 DEF TypeOK, OfferRow, OffersKept
<1>3. CASE ExpireOldOffer(h)
  <2>1. job[h].offer \in Offers /\ offer[job[h].offer].status # "none"
    BY <1>3 DEF ExpireOldOffer, Shape, Placed, OffersKnown
  <2>. QED BY <1>2, <1>3, <2>1 DEF ExpireOldOffer
<1>4. CASE MarkAccepted(h)
  <2>1. job[h].offer \in Offers /\ offer[job[h].offer].status # "none"
    BY <1>4 DEF MarkAccepted, Shape, Placed, OffersKnown
  <2>. QED BY <1>2, <1>4, <2>1 DEF MarkAccepted
<1>5. CASE MarkCancelled(h)
  BY <1>1, <1>2, <1>5 DEF MarkCancelled, OffersOf
<1>6. CASE MarkDeclined(h)
  BY <1>1, <1>2, <1>6 DEF MarkDeclined
<1>7. CASE \/ ExpireOld(h) \/ Save(h) \/ Balance(h) \/ Emit(h) \/ Look(h) \/ Search(h)
           \/ SettleSearch(h) \/ Reset(h) \/ MatchOffer(h) \/ Hold(h) \/ Confirm(h)
           \/ Release(h) \/ WriteTrip(h) \/ PendAgain(h)
  BY <1>1, <1>7 DEF ExpireOld, Save, Balance, Emit, Look, Search, SettleSearch, Reset,
     MatchOffer, Hold, Confirm, Release, Refused, WriteTrip, PendAgain
<1>. QED BY <1>3, <1>4, <1>5, <1>6, <1>7 DEF Step

\* A handler moves itself only, and remembers an offer it has just found.
Alone(h) ==
    /\ \A g \in Handlers \ {h} : job'[g] = job[g] /\ pc'[g] = pc[g] /\ todo'[g] = todo[g]
    /\ job'[h].offer \in Offers /\ job'[h].offer # job[h].offer
          => offer[job'[h].offer].status # "none"

\* A handler that returns has nobody left to ask.
LEMMA LeaveAlone ==
    ASSUME TypeOK, NEW h \in Handlers, Leave(h)
    PROVE  Alone(h) /\ todo'[h] = {} /\ pc'[h] = "idle" /\ job'[h].plan = "none"
BY NoneIsNoOffer DEF TypeOK, Leave, GoTo, Alone, NoJob, Job

\* Going on as a dispatcher touches nobody else and no driver to ask.
LEMMA DispatchAlone ==
    ASSUME TypeOK, NEW h \in Handlers, NEW p \in {"emit", "look"}, Dispatch(h, p)
    PROVE  Alone(h) /\ todo'[h] = todo[h] /\ pc'[h] = p
BY NoneIsNoOffer DEF TypeOK, Dispatch, GoTo, Alone, Job

\* Whatever the step, no other handler moves.
LEMMA StepAlone ==
    ASSUME TypeOK, NEW h \in Handlers, Step(h)
    PROVE  Alone(h)
<1>1. ASSUME NEW p, GoTo(h, p), UNCHANGED local PROVE Alone(h)
  BY <1>1 DEF TypeOK, GoTo, local, Alone
<1>2. ASSUME NEW p, NEW D, GoTo(h, p), UNCHANGED job, todo' = [todo EXCEPT ![h] = D]
      PROVE  Alone(h)
  BY <1>2 DEF TypeOK, GoTo, Alone
<1>3. ASSUME NEW p, NEW plan, GoTo(h, p), job' = [job EXCEPT ![h].plan = plan], UNCHANGED todo
      PROVE  Alone(h)
  BY <1>3 DEF TypeOK, JobRecord, GoTo, Alone
<1>. USE LeaveAlone, DispatchAlone
<1>4. CASE ExpireOld(h) \/ ExpireOldOffer(h) \/ Save(h) \/ Reset(h)
  BY <1>1, <1>4 DEF ExpireOld, ExpireOldOffer, Save, Reset
<1>5. CASE Balance(h)
  BY <1>2, <1>5 DEF Balance
<1>6. CASE Emit(h) \/ SettleSearch(h)
  BY <1>1, <1>6 DEF Emit, SettleSearch
<1>7. CASE Look(h)
  BY <1>3, <1>7 DEF Look
<1>8. CASE Search(h)
  BY <1>2, <1>3, <1>8 DEF Search
<1>9. ASSUME NEW d \in Drivers, Ask(h, d) PROVE Alone(h)
  BY <1>9 DEF Ask, Alone, TypeOK
<1>10. CASE MatchOffer(h)
  BY <1>10 DEF MatchOffer, Pending, Alone, TypeOK, JobRecord, GoTo
<1>11. CASE MarkAccepted(h) \/ MarkCancelled(h) \/ MarkDeclined(h)
  BY <1>1, <1>11 DEF MarkAccepted, MarkCancelled, MarkDeclined
<1>12. CASE Hold(h) \/ Confirm(h) \/ Release(h)
  BY <1>1, <1>12 DEF Hold, Confirm, Release, Refused
<1>13. CASE WriteTrip(h) \/ PendAgain(h)
  BY <1>1, <1>13 DEF WriteTrip, PendAgain
<1>. QED
  BY <1>4, <1>5, <1>6, <1>7, <1>8, <1>9, <1>10, <1>11, <1>12, <1>13 DEF Step

\* A driver who is asked has the new offer; the others are as they were.
LEMMA AskOffer ==
    ASSUME TypeOK, NEW h \in Handlers, NEW d \in Drivers, Ask(h, d)
    PROVE  /\ \A o \in Offers : o # FreshOffer => offer'[o] = offer[o]
           /\ FreshOffer \in Offers =>
                /\ offer'[FreshOffer].driver = d
                /\ offer'[FreshOffer].trip = job[h].trip
                /\ offer'[FreshOffer].status = "PENDING"
BY DEF Ask, TypeOK

\* A handler's step keeps the offers known.
LEMMA StepKnown ==
    ASSUME TypeOK, Shape, OffersKnown, NEW h \in Handlers, Step(h)
    PROVE  OffersKnown'
<1>1. Alone(h)
  BY StepAlone
<1>2. CASE OffersKept
  BY <1>1, <1>2 DEF Alone, OffersKept, OffersKnown
<1>3. ASSUME NEW d \in Drivers, Ask(h, d) PROVE OffersKnown'
  <2>2. job[h].trip \in Trips
    BY <1>3 DEF Ask, Shape, Placed
  <2>3. \A o \in Offers : o # FreshOffer => offer'[o] = offer[o]
    BY <1>3, AskOffer
  <2>4. FreshOffer \in Offers => /\ offer'[FreshOffer].trip = job[h].trip
                                 /\ offer'[FreshOffer].status = "PENDING"
    BY <1>3, AskOffer
  <2>5. \A g \in Handlers : job'[g].offer \in Offers => offer[job'[g].offer].status # "none"
    BY <1>1 DEF Alone, OffersKnown
  <2>6. \A o \in Offers : offer'[o].status # "none" => offer'[o].trip \in Trips
    BY <2>2, <2>3, <2>4 DEF OffersKnown
  <2>. QED BY <2>3, <2>4, <2>5, <2>6 DEF OffersKnown
<1>. QED BY <1>2, <1>3, StepOffers

-----------------------------------------------------------------------------
(* Fares *)

\* FareTaken alone is not inductive: a handler about to write the outcome of a
\* confirmation must still know that the fare was taken.
FareInv ==
    /\ FareTaken
    /\ \A h \in Handlers :
          pc[h] = "write" /\ job[h].plan = "confirm" => paid[job[h].trip] > 0

\* Row t is not marked as completed, or its fare as deducted.
NotCharged(t) ==
    /\ trip'[t].completed => trip[t].completed
    /\ trip'[t].payment = "DEDUCTED" => trip[t].payment = "DEDUCTED"

\* The last write of a handler that took no fare charges nothing.
LEMMA WrittenRowFare ==
    ASSUME NEW row \in TripRow, NEW seen \in TripRow, NEW j \in JobRecord,
           j.op # "complete", j.plan # "confirm"
    PROVE  /\ WrittenRow(j, row, seen).completed => row.completed
           /\ WrittenRow(j, row, seen).payment = "DEDUCTED" => row.payment = "DEDUCTED"
<1>1. CASE j.op = "accept"
  BY <1>1 DEF WrittenRow, TripRow
<1>2. CASE j.op = "cancelByDriver"
  BY <1>2 DEF WrittenRow, CancelledRow, TripRow
<1>3. CASE j.op = "cancelByRider"
  BY <1>3 DEF WrittenRow, PaymentAfter, TripRow
<1>4. CASE j.op = "cancelByAdmin"
  BY <1>4 DEF WrittenRow, TripRow
<1>5. CASE j.op \notin {"accept", "cancelByDriver", "cancelByRider", "cancelByAdmin"}
  BY <1>5 DEF WrittenRow, TripRow
<1>. QED BY <1>1, <1>2, <1>3, <1>4, <1>5

\* Nothing can go wrong while no row is charged and no handler is about to.
LEMMA FareFrame ==
    ASSUME FareInv, UNCHANGED paid, \A t \in Trips : NotCharged(t),
           \A h \in Handlers : pc'[h] = "write" /\ job'[h].plan = "confirm"
              => pc[h] = "write" /\ job[h] = job'[h]
    PROVE  FareInv'
BY DEF FareInv, FareTaken, NotCharged

\* A handler's step charges a rider only after the payment service has.
LEMMA StepFare ==
    ASSUME TypeOK, Shape, FareInv, NEW h \in Handlers, Step(h)
    PROVE  FareInv'
<1> DEFINE t == job[h].trip
<1>1. Alone(h)
  BY StepAlone
<1>2. pc[h] # "idle" => t \in Trips
  BY DEF Shape, Placed
<1>3. ASSUME UNCHANGED paid, pc'[h] = "write" => job'[h].plan # "confirm",
             \A s \in Trips : NotCharged(s)
      PROVE  FareInv'
  BY <1>1, <1>3, FareFrame DEF Alone
<1>4. ASSUME UNCHANGED trip PROVE \A s \in Trips : NotCharged(s)
  BY <1>4 DEF NotCharged
<1>5. pc[h] # "idle" => (job[h].plan = "confirm" => pc[h] \in {"confirm", "write"})
  BY DEF Shape, Placed
<1>. USE LeaveAlone, DispatchAlone
<1>6. CASE ExpireOld(h)
  <2>1. \A s \in Trips : NotCharged(s)
    BY <1>6 DEF ExpireOld, Put, TypeOK, TripRow, NotCharged
  <2>. QED BY <1>3, <1>6, <2>1 DEF ExpireOld, GoTo, TypeOK, money
<1>7. CASE ExpireOldOffer(h)
  BY <1>3, <1>4, <1>7 DEF ExpireOldOffer, GoTo, TypeOK, money
<1>8. CASE Save(h)
  <2>1. \A s \in Trips : NotCharged(s)
    BY <1>8 DEF Save, NewTrip, TypeOK, NotCharged
  <2>. QED BY <1>3, <1>8, <2>1 DEF Save, GoTo, TypeOK, money
<1>9. CASE Balance(h)
  <2>1. \A s \in Trips : NotCharged(s)
    <3>1. CASE trip' = [trip EXCEPT ![t] = [trip[t] EXCEPT !.status = "EXPIRED",
                                                           !.expiredAt = TRUE]]
      BY <3>1 DEF TypeOK, TripRow, NotCharged
    <3>. QED BY <1>4, <1>9, <3>1 DEF Balance, Put
  <2>2. pc'[h] # "write"
    BY <1>9 DEF Balance, GoTo, TypeOK
  <2>. QED BY <1>3, <1>9, <2>1, <2>2 DEF Balance, money
<1>10. CASE Emit(h)
  BY <1>3, <1>4, <1>10 DEF Emit, GoTo, TypeOK, money
<1>11. CASE Look(h)
  BY <1>3, <1>4, <1>11 DEF Look, GoTo, TypeOK, money
<1>12. CASE Search(h)
  BY <1>3, <1>4, <1>12 DEF Search, GoTo, TypeOK, money
<1>13. CASE SettleSearch(h)
  <2>1. \A s \in Trips : NotCharged(s)
    BY <1>13 DEF SettleSearch, Put, TypeOK, TripRow, NotCharged
  <2>. QED BY <1>3, <1>13, <2>1 DEF SettleSearch, money
<1>14. CASE Reset(h)
  <2>1. \A s \in Trips : NotCharged(s)
    BY <1>14 DEF Reset, Put, TypeOK, TripRow, NotCharged
  <2>. QED BY <1>3, <1>14, <2>1 DEF Reset, GoTo, TypeOK, money
<1>15. ASSUME NEW d \in Drivers, Ask(h, d) PROVE FareInv'
  BY <1>3, <1>4, <1>15 DEF Ask, money
<1>16. CASE MatchOffer(h)
  <2>1. \A s \in Trips : NotCharged(s)
    <3>1. ASSUME NEW cab, trip' = [trip EXCEPT ![t].cab = cab]
          PROVE  \A s \in Trips : NotCharged(s)
      BY <3>1 DEF TypeOK, TripRow, NotCharged
    <3>. QED BY <1>4, <1>16, <3>1 DEF MatchOffer
  <2>2. pc'[h] # "write"
    BY <1>16 DEF MatchOffer, GoTo, TypeOK
  <2>. QED BY <1>3, <1>16, <2>1, <2>2 DEF MatchOffer, money
<1>17. CASE MarkAccepted(h) \/ MarkCancelled(h) \/ MarkDeclined(h)
  BY <1>3, <1>4, <1>5, <1>17 DEF MarkAccepted, MarkCancelled, MarkDeclined, local, money
<1>18. CASE Hold(h)
  BY <1>3, <1>4, <1>18 DEF Hold, Refused, GoTo, TypeOK, money
<1>19. CASE Release(h)
  BY <1>3, <1>4, <1>5, <1>19 DEF Release, Refused, local, money
<1>20. CASE Confirm(h)
  <2>1. CASE Refused(h)
    BY <1>3, <1>4, <2>1 DEF Refused, money
  <2>2. CASE /\ paid' = [paid EXCEPT ![t] = @ + 1]
             /\ UNCHANGED <<trip, local>>
    <3>1. t \in Trips /\ \A s \in Trips : paid[s] \in Nat
      BY <1>2, <1>20 DEF Confirm, TypeOK
    <3>2. \A s \in Trips : paid'[s] \in Nat /\ (paid[s] > 0 => paid'[s] > 0)
      BY <2>2, <3>1 DEF TypeOK
    <3>3. paid'[t] > 0
      BY <2>2, <3>1 DEF TypeOK
    <3>4. \A g \in Handlers : pc[g] # "idle" => job[g].trip \in Trips
      BY DEF Shape, Placed
    <3>5. \A g \in Handlers : pc'[g] = "write" /\ job'[g].plan = "confirm"
             => paid'[job'[g].trip] > 0
      BY <1>1, <2>2, <3>2, <3>3, <3>4 DEF FareInv, Alone, local
    <3>. QED BY <2>2, <3>2, <3>5 DEF FareInv, FareTaken
  <2>. QED BY <1>20, <2>1, <2>2 DEF Confirm
<1>21. CASE WriteTrip(h)
  <2>1. t \in Trips /\ UNCHANGED paid /\ pc'[h] # "write"
    BY <1>2, <1>21 DEF WriteTrip, money, GoTo, TypeOK
  <2>2. /\ trip'[t] = WrittenRow(job[h], trip[t], saw[h])
        /\ \A s \in Trips \ {t} : trip'[s] = trip[s]
    BY <1>21, <2>1 DEF WriteTrip, Put, TypeOK
  <2>3. CASE job[h].plan = "confirm"
    <3>1. paid'[t] > 0
      BY <1>21, <2>1, <2>3 DEF WriteTrip, FareInv
    <3>. QED BY <1>1, <2>1, <2>2, <3>1 DEF FareInv, FareTaken, Alone
  <2>4. CASE job[h].plan # "confirm"
    <3>1. job[h].op # "complete"
      BY <1>21, <2>4 DEF WriteTrip, Shape, Placed
    <3>2. NotCharged(t)
      BY <2>1, <2>2, <2>4, <3>1, WrittenRowFare DEF TypeOK, NotCharged
    <3>. QED BY <1>3, <2>1, <2>2, <3>2 DEF NotCharged
  <2>. QED BY <2>3, <2>4
<1>22. CASE PendAgain(h)
  <2>1. \A s \in Trips : NotCharged(s)
    BY <1>22 DEF PendAgain, Put, TypeOK, TripRow, NotCharged
  <2>. QED BY <1>3, <1>22, <2>1 DEF PendAgain, money
<1>. QED
  BY <1>6, <1>7, <1>8, <1>9, <1>10, <1>11, <1>12, <1>13, <1>14, <1>15, <1>16, <1>17,
     <1>18, <1>19, <1>20, <1>21, <1>22 DEF Step

-----------------------------------------------------------------------------
(* The inductive invariant and the theorems *)

IInv == TypeOK /\ Shape /\ OffersKnown /\ FareInv

\* The service starts with no trip, no offer and nobody at work.
LEMMA InitIInv == Init => IInv
<1>. SUFFICES ASSUME Init PROVE IInv
  OBVIOUS
<1>1. TypeOK
  <2>1. NewTrip("none") \in TripRow
    BY NewRowType DEF TripStatus
  <2>2. NoOffer \in OfferRow /\ NoJob \in JobRecord
    BY DEF NoOffer, OfferRow, OfferStatus, Asked, NoJob, Job, JobRecord, Ops
  <2>. QED BY <2>1, <2>2 DEF Init, TypeOK, PCs
<1>2. Shape /\ OffersKnown
  BY NoneIsNoOffer DEF Init, Shape, OffersKnown, Placed, NoJob, Job, NoOffer
<1>3. FareInv
  BY DEF Init, FareInv, FareTaken, NewTrip
<1>. QED BY <1>1, <1>2, <1>3 DEF IInv

\* A first step keeps the invariant: the handler has nothing to ask or to charge.
LEMMA StartedIInv ==
    ASSUME IInv, NEW h \in Handlers, NEW j, NEW p, Started(h, j, p),
           offer' \in [Offers -> OfferRow], OffersKept, late' \in Nat
    PROVE  IInv'
<1>1. TypeOK' /\ Shape'
  BY StartedType DEF IInv
<1>2. OffersKnown'
  BY DEF IInv, TypeOK, OffersKnown, OffersKept, Started
<1>3. FareInv'
  BY FareFrame DEF IInv, TypeOK, FareInv, Started, money, NotCharged
<1>. QED BY <1>1, <1>2, <1>3 DEF IInv

\* A handler that dies leaves what it has written and forgets the rest.
LEMMA DieIInv ==
    ASSUME IInv, NEW h \in Handlers, Die(h)
    PROVE  IInv'
<1>1. TypeOK' /\ Shape'
  <2>1. job[h].trip \in Trips /\ job[h].old \in Trips \cup {None}
    BY DEF Die, IInv, TypeOK, Shape, Placed, JobRecord
  <2>. QED BY <2>1, LeaveType, LeaveShape DEF Die, IInv, TypeOK, money
<1>2. Leave(h) /\ Alone(h) /\ todo'[h] = {} /\ pc'[h] = "idle"
  BY LeaveAlone DEF Die, IInv
<1>3. OffersKept /\ UNCHANGED <<trip, offer, paid>>
  BY DEF Die, money, OffersKept
<1>4. OffersKnown'
  BY <1>2, <1>3 DEF Alone, IInv, OffersKnown
<1>5. FareInv'
  BY <1>2, <1>3, FareFrame DEF Alone, IInv, NotCharged
<1>. QED BY <1>1, <1>4, <1>5 DEF IInv

\* Every step keeps the invariant; its parts need each other.
LEMMA NextIInv == IInv /\ [Next]_vars => IInv'
<1>. SUFFICES ASSUME IInv, [Next]_vars PROVE IInv'
  OBVIOUS
<1>1. CASE UNCHANGED vars
  BY <1>1 DEF vars, money, local, IInv, TypeOK, Shape, OffersKnown, FareInv, FareTaken
<1>2. ASSUME NEW h \in Handlers, NEW t \in Trips,
             (InTime(t) /\ Request(h, t))
                \/ (UNCHANGED late /\ \E S \in SUBSET Offers : ExpireOffers(h, t, S))
      PROVE  IInv'
  <2>1. late' \in Nat
    BY <1>2 DEF InTime, IInv, TypeOK
  <2>2. /\ offer' \in [Offers -> OfferRow] /\ OffersKept
        /\ \E j, p : Started(h, j, p)
    BY <1>2, AllStart DEF IInv
  <2>. QED BY <2>1, <2>2, StartedIInv
<1>3. ASSUME NEW h \in Handlers, Step(h) PROVE IInv'
  BY <1>3, StepType, StepKnown, StepFare DEF IInv
<1>. QED BY <1>1, <1>2, <1>3, DieIInv DEF Next, Cron

\* The inductive invariant holds in every state the service can reach.
LEMMA AlwaysIInv == Spec => []IInv
<1>. QED BY InitIInv, NextIInv, PTL DEF Spec

\* Every row and handler keeps the shape the entities declare, whatever the
\* trips, drivers, limits and number of handlers.
THEOREM TypeCorrect == Spec => []TypeOK
<1>1. IInv => TypeOK
  BY DEF IInv
<1>. QED BY <1>1, AlwaysIInv, PTL

\* A trip is marked as completed, or its fare as deducted, only after the
\* payment service has taken the fare, even by a handler with a stale row.
THEOREM FareTakenHolds == Spec => []FareTaken
<1>1. IInv => FareTaken
  BY DEF IInv, FareInv
<1>. QED BY <1>1, AlwaysIInv, PTL

-----------------------------------------------------------------------------
(* Rows *)

\* What the columns of a row that nobody overwrote say about each other.
Sound(row) ==
    /\ row.status \in OnTheWay <=> row.payment = "BLOCKED"
    /\ row.status \in OnTheWay => row.driver # None /\ row.assignedAt /\ ~row.expiredAt
    /\ row.status \in OnTheWay => Live(row)
    /\ row.status \notin OnTheWay /\ Live(row)
          => row.driver = None /\ ~row.assignedAt /\ ~row.startedAt
    /\ row.startedAt /\ Live(row) => row.status = "STARTED"
    /\ row.status \in {"DRIVER_ARRIVED", "STARTED"} => row.reachedAt
    /\ row.startedAt \/ row.completed => row.reachedAt
    /\ row.reachedAt => row.status \notin Searching \cup {"none", "NO_DRIVER", "ACCEPTED_BY_DRIVER"}
    /\ row.status \in {"CANCELLED_BY_DRIVER", "CANCELLED_BY_RIDER", "CANCELLED_BY_ADMIN"}
          => row.cancelledAt
    /\ row.status = "EXPIRED" => row.expiredAt
    /\ row.status = "COMPLETED" => row.completed
    /\ row.payment = "DEDUCTED" => row.status \in {"COMPLETED", "CANCELLED_BY_RIDER"}
    /\ row.previous = "CANCELLED_BEFORE_ARRIVED" => row.expiredAt

\* What tripAcceptedByDriver asks of a row.
Acceptable(row) ==
    /\ Known(row) /\ ~row.cancelledAt /\ ~row.expiredAt /\ ~row.reachedAt
    /\ row.status # "ACCEPTED_BY_DRIVER"

-----------------------------------------------------------------------------
(* Handlers *)

\* The places each operation passes.
Stands(j, p) ==
    /\ j.op = "none" <=> p = "idle"
    /\ j.op = "create" => p \in {"expire", "expireOffer", "save", "balance", "offer"}
    /\ j.op = "dispatch" => p \in {"emit", "look", "search", "settle", "reset", "offer"}
    /\ j.op = "accept" => p \in {"match", "hold", "mark", "write"} /\ j.driver # None
    /\ j.op = "reject" => p \in {"mark", "write"}
    /\ j.op \in {"arrive", "start", "cancelBooking", "allCabs", "noCab"} => p = "write"
    /\ j.op = "complete" => p \in {"confirm", "write"}
    /\ j.op = "cancelByRider" => /\ j.plan \in {"confirm", "release", "write"}
                                 /\ p \in {j.plan, "write"}
    /\ j.op = "cancelByDriver" => p \in {"release", "mark", "write", "again"}
    /\ j.op = "cancelByAdmin" => p \in {"release", "write"}
    /\ j.old # None => j.op = "create"

\* The creation has not inserted its trip yet.
Unsaved(j, p) == j.op = "create" /\ p \in {"expire", "expireOffer", "save"}

\* What a handler found in the row it read, and still finds there as long as
\* nobody else has written the row.
Reads(j, p, seen, row) ==
    /\ j.op = "create" /\ p = "balance" => row.status = "PENDING"
    /\ j.op = "accept" => Acceptable(row)
    /\ j.op = "reject" => Known(row) /\ Live(row) /\ ~row.expiredAt /\ ~row.assignedAt
    /\ j.op = "arrive" => row.status = "ACCEPTED_BY_DRIVER"
    /\ j.op = "start" => row.status = "DRIVER_ARRIVED"
    /\ j.op = "complete" => row.status = "STARTED"
    /\ j.op = "cancelByRider" =>
          /\ Known(row) /\ Live(row) /\ ~row.expiredAt
          /\ j.plan = "write" <=> row.status \notin OnTheWay
    /\ j.op = "cancelBooking" => row.status \in Searching
    /\ j.op \in {"allCabs", "noCab"} => row.status = "NO_DRIVER"
    /\ j.op = "cancelByDriver" /\ p # "again" =>
          /\ row.status \in OnTheWay /\ j.driver = row.driver
          /\ seen.status = row.status /\ seen.reachedAt = row.reachedAt
    /\ p = "again" => row.status = "CANCELLED_BY_DRIVER" /\ ~row.reachedAt
    /\ p \in {"look", "search", "settle", "reset"} => row.status \in Searching \cup {"NO_DRIVER"}
    /\ p = "search" => seen.status = row.status /\ seen.previous = row.previous
    /\ p = "reset" => row.status = "PENDING" /\ row.previous = "CANCELLED_BEFORE_ARRIVED"

\* The same of the trip a creation retires.
ReadsOld(p, row) ==
    /\ p = "expire" => row.status \in {"PENDING", "NO_DRIVER"}
    /\ p \in {"expireOffer", "save", "balance"} => row.status = "EXPIRED"

\* The handler has moved money and has yet to write it down.
Moved(j, p) ==
    \/ j.op \in {"accept", "cancelByDriver"} /\ p \in {"mark", "write"}
    \/ j.op \in {"complete", "cancelByAdmin"} /\ p = "write"
    \/ j.op = "cancelByRider" /\ j.plan # "write" /\ p = "write"

Movers(t) == {h \in Handlers : job[h].trip = t /\ Moved(job[h], pc[h])}

\* The handlers that changed the accepted offer and have yet to write the trip.
At(t, op) == {h \in Handlers : job[h].trip = t /\ job[h].op = op /\ pc[h] = "write"}

Readers(t) == {h \in Handlers : job[h].trip = t /\ pc[h] \notin {"idle", "emit", "offer"}}

Retirers(t) == {h \in Handlers : job[h].old = t /\ pc[h] \notin {"idle", "emit", "offer"}}

-----------------------------------------------------------------------------
(* The invariant *)

\* Trips, strained or not: a handler but the one that is to insert it finds its
\* trip in the table, and so do offers.
Existing ==
    /\ \A h \in Handlers : Stands(job[h], pc[h])
    /\ \A h \in Handlers :
          IF Unsaved(job[h], pc[h])
          THEN /\ trip[job[h].trip].status = "none"
               /\ \A g \in Handlers : job[g].trip = job[h].trip => g = h
          ELSE pc[h] # "idle" => trip[job[h].trip].status # "none"
    /\ \A h \in Handlers :
          job[h].old # None => /\ trip[job[h].old].status # "none"
                               /\ job[h].old # job[h].trip
                               /\ RiderOf[job[h].old] = RiderOf[job[h].trip]
    /\ \A o \in Offers : offer[o].status # "none" => trip[offer[o].trip].status # "none"

\* The offer a handler remembers is the driver's, or the retired trip's; if it
\* is of another trip than the one accepted, both trips are strained.
OffersRemembered ==
    \A h \in Handlers :
        /\ job[h].op = "accept" /\ pc[h] # "match" =>
              /\ job[h].offer \in Offers
              /\ offer[job[h].offer].driver = job[h].driver
              /\ \/ offer[job[h].offer].trip = job[h].trip
                 \/ {offer[job[h].offer].trip, job[h].trip} \subseteq strained
        /\ job[h].op = "create" /\ job[h].offer \in Offers =>
              job[h].old # None /\ offer[job[h].offer].trip = job[h].old

RowHolds(t) ==
    /\ Sound(trip[t])
    /\ \A h \in Readers(t) : Reads(job[h], pc[h], saw[h], trip[t])
    /\ \A h \in Retirers(t) : ReadsOld(pc[h], trip[t])

\* The trip's money is as the row says, or as the one handler that has moved it
\* is about to write.  (Two that have moved it will strain the trip.)
MoneyHolds(t) ==
    /\ Movers(t) = {} => /\ held[t] = IF trip[t].payment = "BLOCKED" THEN 1 ELSE 0
                         /\ paid[t] = IF trip[t].payment = "DEDUCTED" THEN 1 ELSE 0
    /\ \A h \in Movers(t) : Movers(t) = {h} =>
          IF job[h].op = "accept" THEN held[t] = 1 /\ paid[t] = 0
          ELSE /\ trip[t].status \in OnTheWay /\ held[t] = 0
               /\ paid[t] = IF job[h].plan = "confirm" THEN 1 ELSE 0
    /\ trip[t].status \in OnTheWay => \A g, h \in Movers(t) : g = h

\* The accepted offers of a trip.
Taken(t) == {o \in Offers : offer[o].trip = t /\ offer[o].status = "ACCEPTED"}

\* Offer o is the one accepted offer of trip t, and driver d's.
OnlyOffer(t, o, d) == Taken(t) = {o} /\ offer[o].driver = d

OffersHold(t) ==
    /\ trip[t].status \in OnTheWay /\ At(t, "cancelByDriver") = {} =>
          \E o \in Offers : OnlyOffer(t, o, trip[t].driver)
    /\ Acceptable(trip[t]) /\ At(t, "accept") = {} => Taken(t) = {}
    /\ \A h \in At(t, "accept") :
          At(t, "accept") = {h} => OnlyOffer(t, job[h].offer, job[h].driver)

Books(t) == RowHolds(t) /\ MoneyHolds(t) /\ OffersHold(t)

TripHolds(t) == t \notin strained => Books(t)

\* What a creation has found of its rider's trips stays true: nothing runs, but
\* the trip it is about to retire.
RiderHolds(u) ==
    Undisturbed(u) =>
        /\ \A t \in Trips : RiderOf[t] = u => \A s \in Running(t) : t \in Running(t) => s = t
        /\ \A h \in Handlers : Unsaved(job[h], pc[h]) /\ RiderOf[job[h].trip] = u =>
              Running(job[h].trip) \subseteq IF pc[h] = "expire" THEN {job[h].old} ELSE {}

BooksInv ==
    /\ IInv /\ Existing /\ OffersRemembered
    /\ \A t \in Trips : TripHolds(t)
    /\ \A t \in Trips : RiderHolds(RiderOf[t])

-----------------------------------------------------------------------------
(* Lemmas about rows *)

\* The rows differ in their cab type at most, as tripAcceptedByDriver leaves them.
Like(a, b) ==
    /\ a.status = b.status /\ a.previous = b.previous /\ a.driver = b.driver
    /\ a.payment = b.payment /\ a.completed = b.completed
    /\ a.cancelledAt = b.cancelledAt /\ a.expiredAt = b.expiredAt
    /\ a.assignedAt = b.assignedAt /\ a.reachedAt = b.reachedAt /\ a.startedAt = b.startedAt

\* Nothing that is said of a row depends on its cab type.
LEMMA LikeHolds ==
    ASSUME NEW a, NEW b, Like(a, b), Sound(b)
    PROVE  /\ Sound(a)
           /\ Acceptable(a) <=> Acceptable(b)
           /\ \A j, p, seen : Reads(j, p, seen, b) => Reads(j, p, seen, a)
           /\ \A p : ReadsOld(p, b) => ReadsOld(p, a)
BY DEF Like, Sound, Acceptable, Reads, ReadsOld, Known, Live

\* A row no handler has written yet, and a new one, are sound.
LEMMA NewSound == Sound(NewTrip("none")) /\ Sound(NewTrip("PENDING"))
BY DEF Sound, NewTrip, OnTheWay, Live, Searching

\* What the dispatcher and a creation write when they look no further.
GivenUp(row) == {[row EXCEPT !.status = "EXPIRED", !.expiredAt = TRUE],
                 [row EXCEPT !.status = "CANCELLED_BY_DRIVER", !.cancelledAt = TRUE],
                 [row EXCEPT !.status = "NO_DRIVER"]}

\* A row somebody still looks for a driver for stays sound, and is not made
\* acceptable, by that.
LEMMA SearchedSound ==
    ASSUME NEW row \in TripRow, Sound(row), row.status \in Searching \cup {"NO_DRIVER"},
           NEW new \in GivenUp(row)
    PROVE  /\ Sound(new) /\ new.status \notin OnTheWay
           /\ new.payment = row.payment
           /\ Acceptable(new) => Acceptable(row)
           /\ row.status \notin OnTheWay \cup Final
BY DEF GivenUp, Sound, TripRow, OnTheWay, Live, Searching, Acceptable, Known, Final

\* So does the reset of a trip its driver gave back.
LEMMA ResetSound ==
    ASSUME NEW row \in TripRow, Sound(row), row.status = "PENDING",
           row.previous = "CANCELLED_BEFORE_ARRIVED",
           NEW new, new = [row EXCEPT !.driver = None, !.cancelledAt = FALSE,
                                      !.assignedAt = FALSE, !.payment = "none"]
    PROVE  /\ Sound(new) /\ new.status = row.status
           /\ new.payment \notin {"BLOCKED", "DEDUCTED"}
           /\ ~Acceptable(new)
           /\ row.payment \notin {"BLOCKED", "DEDUCTED"}
BY DEF Sound, TripRow, OnTheWay, Live, Searching, Acceptable

\* And the row that is made pending again.
LEMMA PendSound ==
    ASSUME NEW row \in TripRow, Sound(row), row.status = "CANCELLED_BY_DRIVER",
           ~row.reachedAt, NEW new, new = [row EXCEPT !.status = "PENDING"]
    PROVE  /\ Sound(new) /\ new.status = "PENDING"
           /\ new.payment = row.payment /\ row.payment \notin {"BLOCKED", "DEDUCTED"}
           /\ ~Acceptable(new)
BY DEF Sound, TripRow, OnTheWay, Live, Searching, Acceptable

\* A handler's last write keeps a row sound that it has read rightly.
LEMMA WrittenSound ==
    ASSUME NEW row \in TripRow, NEW seen \in TripRow, NEW j \in JobRecord,
           Sound(row), Stands(j, "write"), Reads(j, "write", seen, row)
    PROVE  Sound(WrittenRow(j, row, seen))
<1>. USE DEF Sound, Reads, TripRow, OnTheWay, Live, Known, Searching
<1>1. CASE j.op = "accept"
  BY <1>1 DEF WrittenRow, Acceptable, Stands
<1>2. CASE j.op = "cancelByDriver"
  BY <1>2 DEF WrittenRow, CancelledRow, PreviousAfter
<1>3. CASE j.op = "cancelByRider"
  <2>1. PICK pay : /\ pay # "BLOCKED"
                   /\ WrittenRow(j, row, seen) =
                        [row EXCEPT !.status = "CANCELLED_BY_RIDER",
                                    !.cancelledAt = TRUE, !.payment = pay]
    <3>1. PaymentAfter(j.plan, row.payment) # "BLOCKED"
      BY <1>3 DEF PaymentAfter, Stands
    <3>. QED BY <1>3, <3>1 DEF WrittenRow
  <2>. QED BY <2>1
<1>4. CASE j.op = "cancelByAdmin"
  <2>1. WrittenRow(j, row, seen) = [row EXCEPT !.status = "CANCELLED_BY_ADMIN",
                                               !.cancelledAt = TRUE, !.payment = "RELEASED"]
    BY <1>4 DEF WrittenRow
  <2>. QED BY <2>1
<1>5. CASE j.op \in {"arrive", "start", "complete"}
  BY <1>5 DEF WrittenRow
<1>6. CASE j.op = "reject"
  BY <1>6 DEF WrittenRow, TripStatus
<1>7. CASE j.op = "cancelBooking"
  BY <1>7 DEF WrittenRow
<1>8. CASE j.op = "allCabs"
  BY <1>8 DEF WrittenRow
<1>9. CASE j.op = "noCab"
  BY <1>9 DEF WrittenRow
<1>10. j.op \notin {"none", "create", "dispatch"}
  BY DEF Stands
<1>. QED BY <1>1, <1>2, <1>3, <1>4, <1>5, <1>6, <1>7, <1>8, <1>9, <1>10 DEF JobRecord, Ops

\* What the last write means for the books: a handler that moved money sets the
\* payment to what it did, another one leaves it open or closed as it was; only
\* an acceptance puts a driver on the way, and nothing makes a row acceptable.
LEMMA WrittenBooks ==
    ASSUME NEW row \in TripRow, NEW seen \in TripRow, NEW j \in JobRecord, NEW new,
           Sound(row), Stands(j, "write"), Reads(j, "write", seen, row),
           j.op = "complete" => j.plan = "confirm",
           j.op \notin {"complete", "cancelByRider"} => j.plan # "confirm",
           new = WrittenRow(j, row, seen)
    PROVE  /\ j.op = "accept" => new.status \in OnTheWay /\ new.driver = j.driver
           /\ j.op # "accept" => /\ Acceptable(new) => Acceptable(row)
                                 /\ new.status \in OnTheWay =>
                                       row.status \in OnTheWay /\ new.driver = row.driver
           /\ j.op = "cancelByDriver" => new.status \notin OnTheWay
           /\ IF ~Moved(j, "write")
              THEN /\ new.payment = "BLOCKED" <=> row.payment = "BLOCKED"
                   /\ new.payment = "DEDUCTED" <=> row.payment = "DEDUCTED"
              ELSE IF j.op = "accept" THEN new.payment = "BLOCKED"
              ELSE IF j.plan = "confirm" THEN new.payment = "DEDUCTED"
              ELSE new.payment = "RELEASED"
<1>. USE DEF Sound, Reads, TripRow, OnTheWay, Live, Known, Searching, WrittenRow, Moved
<1>1. CASE j.op = "accept"
  BY <1>1 DEF Acceptable, Stands
<1>2. CASE j.op = "cancelByDriver"
  BY <1>2 DEF CancelledRow, Acceptable
<1>3. CASE j.op = "cancelByRider"
  BY <1>3 DEF PaymentAfter, Acceptable, Stands
<1>4. CASE j.op = "cancelByAdmin"
  BY <1>4 DEF Acceptable
<1>5. CASE j.op \in {"arrive", "start", "complete"}
  BY <1>5 DEF Acceptable
<1>6. CASE j.op \in {"reject", "cancelBooking", "allCabs", "noCab"}
  BY <1>6 DEF Acceptable
<1>. QED BY <1>1, <1>2, <1>3, <1>4, <1>5, <1>6 DEF Stands, JobRecord, Ops

\* The last write does not relabel a trip that is over.
LEMMA WrittenFinal ==
    ASSUME NEW row \in TripRow, NEW seen \in TripRow, NEW j \in JobRecord,
           Sound(row), Stands(j, "write"), Reads(j, "write", seen, row),
           j.op = "cancelByAdmin" => row.status \in OnTheWay, row.status \in Final
    PROVE  WrittenRow(j, row, seen).status = row.status
<1>. USE DEF Sound, Reads, TripRow, OnTheWay, Live, Known, Searching, Acceptable, Final
<1>1. j.op \in {"none", "create", "dispatch", "accept", "reject", "arrive", "start", "complete",
               "cancelByRider", "cancelBooking", "cancelByDriver", "cancelByAdmin", "allCabs", "noCab"}
  BY DEF JobRecord, Ops
<1>2. j.op = "allCabs" => WrittenRow(j, row, seen).status = row.status
  BY DEF WrittenRow
<1>. QED BY <1>1, <1>2 DEF Stands

\* The operations that pass each place.
LEMMA PlaceTells ==
    ASSUME NEW j \in JobRecord, NEW p, Stands(j, p)
    PROVE  /\ p \in {"expire", "expireOffer", "save", "balance"} => j.op = "create"
           /\ p \in {"emit", "look", "search", "settle", "reset"} => j.op = "dispatch"
           /\ p = "offer" => j.op \in {"create", "dispatch"}
           /\ p \in {"match", "hold"} => j.op = "accept"
           /\ p = "mark" => j.op \in {"accept", "reject", "cancelByDriver"}
           /\ p = "confirm" => j.op \in {"complete", "cancelByRider"}
           /\ p = "release" => j.op \in {"cancelByRider", "cancelByDriver", "cancelByAdmin"}
           /\ p = "again" => j.op = "cancelByDriver"
           /\ p = "write" => j.op \notin {"none", "create", "dispatch"}
BY DEF Stands, JobRecord, Ops

-----------------------------------------------------------------------------
(* A handler that begins *)

\* What a handler that begins job j of trip t at place p has just checked.
Checked(j, p, t, seen) ==
    /\ p # "idle" /\ j.trip = t /\ Stands(j, p) /\ ~Moved(j, p)
    /\ IF Unsaved(j, p) THEN trip[t].status = "none" /\ \A g \in Handlers : job[g].trip # t
       ELSE trip[t].status # "none"
    /\ j.old # None => /\ p = "expire" /\ j.old \in Running(t)
                       /\ trip[j.old].status \in {"PENDING", "NO_DRIVER"}
    /\ Unsaved(j, p) /\ j.old = None => p = "save" /\ Running(t) = {}
    /\ Unsaved(j, p) => p # "expireOffer"
    /\ j.op = "accept" => p = "match"
    /\ j.offer \in Offers => j.old # None /\ offer[j.offer].trip = j.old
    /\ Sound(trip[t]) => Reads(j, p, seen, trip[t])

\* Every request has made the checks of its operation.
LEMMA RequestChecks ==
    ASSUME TypeOK, NEW h \in Handlers, NEW t \in Trips, Request(h, t)
    PROVE  \E j, p : /\ Begin(h, j, p)
                     /\ Checked(j, p, t, IF j.op \in Remembers THEN trip[t] ELSE saw[h])
<1> DEFINE Done(j, p) == Begin(h, j, p)
                            /\ Checked(j, p, t, IF j.op \in Remembers THEN trip[t] ELSE saw[h])
<1>. USE DEF Job, Checked, Stands, Moved, Unsaved, Remembers, Reads
<1>. USE NoneIsNoOffer, IdsAssumption
<1>0. trip[t] \in TripRow
  BY DEF TypeOK
<1>1. CASE Create(h, t)
  <2>1. CASE Running(t) = {} /\ Begin(h, Job("create", t, None, None, "none", None), "save")
    <3>1. Done(Job("create", t, None, None, "none", None), "save")
      BY <1>1, <2>1 DEF Create
    <3>. QED BY <3>1
  <2>2. ASSUME NEW s \in Running(t), trip[s].status \in {"PENDING", "NO_DRIVER"},
               NEW o \in Pending(OffersOf(s)) \cup {None},
               Begin(h, Job("create", t, None, o, "none", s), "expire")
        PROVE  \E j, p : Done(j, p)
    <3>1. s # None /\ (o \in Offers => offer[o].trip = s)
      BY <2>2 DEF Running, Pending, OffersOf
    <3>2. trip[t].status = "none" /\ \A g \in Handlers : job[g].trip # t
      BY <1>1 DEF Create
    <3> DEFINE j == Job("create", t, None, o, "none", s)
    <3>3. Checked(j, "expire", t, saw[h])
      BY <2>2, <3>1, <3>2
    <3>4. Done(j, "expire")
      BY <2>2, <3>3
    <3>. QED BY <3>4
  <2>. QED BY <1>1, <2>1, <2>2 DEF Create
<1>2. ASSUME NEW d \in Drivers, Accept(h, t, d) PROVE \E j, p : Done(j, p)
  <2>1. Done(Job("accept", t, d, None, "none", None), "match")
    BY <1>2 DEF Accept, Acceptable, Known
  <2>. QED BY <2>1
<1>3. CASE Reject(h, t)
  <2>1. Done(Job("reject", t, None, None, "none", None), "mark")
    BY <1>3 DEF Reject, Known
  <2>. QED BY <2>1
<1>4. CASE Arrive(h, t)
  <2>1. Done(Job("arrive", t, None, None, "none", None), "write")
    BY <1>4 DEF Arrive
  <2>. QED BY <2>1
<1>5. CASE Start(h, t)
  <2>1. Done(Job("start", t, None, None, "none", None), "write")
    BY <1>5 DEF Start
  <2>. QED BY <2>1
<1>6. CASE Complete(h, t)
  <2>1. Done(Job("complete", t, None, None, "confirm", None), "confirm")
    BY <1>6 DEF Complete, Known, Sound
  <2>. QED BY <2>1
<1>7. CASE CancelByRider(h, t)
  <2>1. PICK q \in {"confirm", "release", "write"} :
           /\ Begin(h, Job("cancelByRider", t, None, None, q, None), q)
           /\ q = "write" <=> ~trip[t].startedAt /\ ~trip[t].assignedAt
    BY <1>7 DEF CancelByRider
  <2>2. Sound(trip[t]) => (q = "write" <=> trip[t].status \notin OnTheWay)
    BY <1>7, <2>1 DEF CancelByRider, Sound
  <2>3. Done(Job("cancelByRider", t, None, None, q, None), q)
    BY <1>7, <2>1, <2>2 DEF CancelByRider, Known
  <2>. QED BY <2>3
<1>8. CASE CancelBooking(h, t)
  <2>1. Done(Job("cancelBooking", t, None, None, "none", None), "write")
    BY <1>8 DEF CancelBooking, Searching
  <2>. QED BY <2>1
<1>9. CASE CancelByDriver(h, t)
  <2>1. Done(Job("cancelByDriver", t, trip[t].driver, None, "release", None), "release")
    BY <1>9 DEF CancelByDriver, Known, Sound
  <2>. QED BY <2>1
<1>10. ASSUME NEW super \in BOOLEAN, CancelByAdmin(h, t, super) PROVE \E j, p : Done(j, p)
  <2>1. Done(Job("cancelByAdmin", t, None, None, "release", None), "release")
    BY <1>10 DEF CancelByAdmin
  <2>. QED BY <2>1
<1>11. CASE AcceptWithAllCabs(h, t)
  <2>1. Done(Job("allCabs", t, None, None, "none", None), "write")
    BY <1>11 DEF AcceptWithAllCabs
  <2>. QED BY <2>1
<1>12. CASE DeclineWithAllCabs(h, t)
  <2>1. Done(Job("noCab", t, None, None, "none", None), "write")
    BY <1>12 DEF DeclineWithAllCabs
  <2>. QED BY <2>1
<1>. QED
  BY <1>1, <1>2, <1>3, <1>4, <1>5, <1>6, <1>7, <1>8, <1>9, <1>10, <1>11, <1>12 DEF Request

-----------------------------------------------------------------------------
(* The books of one trip *)

\* Only handler h moves.
Moves(h) ==
    \A g \in Handlers \ {h} : job'[g] = job[g] /\ pc'[g] = pc[g] /\ saw'[g] = saw[g]

\* The step of h leaves the trip, its money and, while they matter, its accepted
\* offers alone, and if h goes on to read the trip it has read it as it is.
Spares(h, t) ==
    /\ Moves(h)
    /\ Like(trip'[t], trip[t])
    /\ held'[t] = held[t] /\ paid'[t] = paid[t]
    /\ \/ /\ Taken(t)' = Taken(t)
          /\ \A o \in Taken(t) : offer'[o].driver = offer[o].driver
       \/ trip[t].status \notin OnTheWay /\ ~Acceptable(trip[t])
    /\ h \notin Movers(t) /\ h \notin Movers(t)'
    /\ h \in Readers(t)' => Reads(job'[h], pc'[h], saw'[h], trip'[t])
    /\ h \in Retirers(t)' => ReadsOld(pc'[h], trip'[t])

\* Such a step keeps the books of the trip.
LEMMA SparedBooks ==
    ASSUME NEW h \in Handlers, NEW t \in Trips, Books(t), Spares(h, t)
    PROVE  Books(t)'
<1>1. Sound(trip'[t])
  BY LikeHolds DEF Books, RowHolds, Spares
<1>2. Movers(t)' = Movers(t) /\ \A g \in Movers(t) : job'[g] = job[g] /\ pc'[g] = pc[g]
  BY DEF Spares, Moves, Movers
<1>3. /\ At(t, "accept") \subseteq Movers(t) /\ At(t, "cancelByDriver") \subseteq Movers(t)
      /\ At(t, "accept")' \subseteq Movers(t)' /\ At(t, "cancelByDriver")' \subseteq Movers(t)'
  BY DEF At, Movers, Moved
<1>4. At(t, "accept")' = At(t, "accept") /\ At(t, "cancelByDriver")' = At(t, "cancelByDriver")
  BY <1>2, <1>3 DEF At
<1>5. RowHolds(t)'
  <2>1. \A g \in Readers(t)' : Reads(job'[g], pc'[g], saw'[g], trip'[t])
    <3>1. \A g \in Readers(t)' \ {h} : g \in Readers(t) /\ Reads(job'[g], pc'[g], saw'[g], trip[t])
      BY DEF Books, RowHolds, Spares, Moves, Readers
    <3>. QED BY <3>1, LikeHolds DEF Books, RowHolds, Spares
  <2>2. \A g \in Retirers(t)' : ReadsOld(pc'[g], trip'[t])
    <3>1. \A g \in Retirers(t)' \ {h} : ReadsOld(pc'[g], trip[t])
      BY DEF Books, RowHolds, Spares, Moves, Retirers
    <3>. QED BY <3>1, LikeHolds DEF Books, RowHolds, Spares
  <2>. QED BY <1>1, <2>1, <2>2 DEF RowHolds
<1>6. MoneyHolds(t)'
  BY <1>2 DEF Books, MoneyHolds, Spares, Like
<1>7. OffersHold(t)'
  <2>1. Acceptable(trip'[t]) <=> Acceptable(trip[t])
    BY LikeHolds DEF Books, RowHolds, Spares
  <2>2. trip'[t].status = trip[t].status /\ trip'[t].driver = trip[t].driver
    BY DEF Spares, Like
  <2>3. CASE trip[t].status \notin OnTheWay /\ ~Acceptable(trip[t])
    <3>1. At(t, "accept") \subseteq Readers(t) /\ \A g \in At(t, "accept") : job[g].op = "accept"
      BY DEF At, Readers
    <3>2. At(t, "accept") = {}
      BY <2>3, <3>1 DEF Books, RowHolds, Reads
    <3>. QED BY <1>4, <2>1, <2>2, <2>3, <3>2 DEF OffersHold
  <2>4. CASE /\ Taken(t)' = Taken(t)
             /\ \A o \in Taken(t) : offer'[o].driver = offer[o].driver
    <3>1. \A o, d : OnlyOffer(t, o, d) => Taken(t)' = {o} /\ offer'[o].driver = d
      BY <2>4 DEF OnlyOffer
    <3>2. trip[t].status \in OnTheWay /\ At(t, "cancelByDriver") = {} =>
             \E o \in Offers : Taken(t)' = {o} /\ offer'[o].driver = trip[t].driver
      BY <3>1 DEF Books, OffersHold
    <3>3. \A g \in At(t, "accept") : job'[g] = job[g] /\
             (At(t, "accept") = {g} =>
                 Taken(t)' = {job[g].offer} /\ offer'[job[g].offer].driver = job[g].driver)
      BY <1>2, <1>3, <3>1 DEF Books, OffersHold
    <3>4. Acceptable(trip[t]) /\ At(t, "accept") = {} => Taken(t)' = {}
      BY <2>4 DEF Books, OffersHold
    <3>. QED BY <1>4, <2>1, <2>2, <3>2, <3>3, <3>4 DEF OffersHold, OnlyOffer
  <2>. QED BY <2>3, <2>4 DEF Spares
<1>. QED BY <1>5, <1>6, <1>7 DEF Books

\* Handler h has written row t, nobody else deciding about it, and what it wrote
\* agrees with the money and the offers.
Settles(h, t) ==
    /\ Moves(h) /\ Deciding(t) \subseteq {h}
    /\ Sound(trip'[t])
    /\ held'[t] = IF trip'[t].payment = "BLOCKED" THEN 1 ELSE 0
    /\ paid'[t] = IF trip'[t].payment = "DEDUCTED" THEN 1 ELSE 0
    /\ trip'[t].status \in OnTheWay =>
          \E o \in Offers : Taken(t)' = {o} /\ offer'[o].driver = trip'[t].driver
    /\ Acceptable(trip'[t]) => Taken(t)' = {}
    /\ h \notin Movers(t)'
    /\ h \in Readers(t)' => Reads(job'[h], pc'[h], saw'[h], trip'[t])
    /\ h \in Retirers(t)' => ReadsOld(pc'[h], trip'[t])

\* Such a step leaves the books of the trip in order, whatever they were.
LEMMA SettledBooks ==
    ASSUME NEW h \in Handlers, NEW t \in Trips, Settles(h, t)
    PROVE  Books(t)'
<1>1. Readers(t)' \subseteq {h} /\ Retirers(t)' \subseteq {h}
  BY DEF Settles, Moves, Deciding, Readers, Retirers
<1>2. Movers(t)' = {}
  <2>1. \A j, p : Moved(j, p) => p \notin {"idle", "emit", "offer"}
    BY DEF Moved
  <2>2. Movers(t)' \subseteq Readers(t)'
    BY <2>1 DEF Movers, Readers
  <2>. QED BY <1>1, <2>2 DEF Settles
<1>3. At(t, "accept")' = {}
  BY <1>2 DEF At, Movers, Moved
<1>4. RowHolds(t)'
  BY <1>1 DEF RowHolds, Settles
<1>5. MoneyHolds(t)'
  BY <1>2 DEF MoneyHolds, Settles
<1>6. OffersHold(t)'
  BY <1>3 DEF OffersHold, OnlyOffer, Settles
<1>. QED BY <1>4, <1>5, <1>6 DEF Books

\* A handler alone with its trip knows what money has moved: its own.
LEMMA AloneMoney ==
    ASSUME NEW h \in Handlers, NEW t \in Trips, Books(t), Deciding(t) \subseteq {h},
           h \in Readers(t), job[h].trip = t
    PROVE  IF ~Moved(job[h], pc[h])
           THEN /\ held[t] = IF trip[t].payment = "BLOCKED" THEN 1 ELSE 0
                /\ paid[t] = IF trip[t].payment = "DEDUCTED" THEN 1 ELSE 0
           ELSE IF job[h].op = "accept" THEN held[t] = 1 /\ paid[t] = 0
           ELSE /\ trip[t].status \in OnTheWay /\ held[t] = 0
                /\ paid[t] = IF job[h].plan = "confirm" THEN 1 ELSE 0
<1>1. \A j, p : Moved(j, p) => p \notin {"idle", "emit", "offer"}
  BY DEF Moved
<1>2. Movers(t) = IF Moved(job[h], pc[h]) THEN {h} ELSE {}
  BY <1>1 DEF Movers, Deciding
<1>. QED BY <1>2 DEF Books, MoneyHolds

-----------------------------------------------------------------------------
(* What a step leaves alone *)

\* A handler that returns moves alone.
LEMMA LeaveMoves ==
    ASSUME TypeOK, NEW h \in Handlers, Leave(h)
    PROVE  Moves(h) /\ pc'[h] = "idle" /\ job'[h] = NoJob
BY DEF TypeOK, Leave, GoTo, Moves

\* So does one that goes on as a dispatcher.
LEMMA DispatchMoves ==
    ASSUME TypeOK, NEW h \in Handlers, NEW p, Dispatch(h, p)
    PROVE  /\ Moves(h) /\ pc'[h] = p
           /\ job'[h] = Job("dispatch", job[h].trip, None, None, "none", None)
BY DEF TypeOK, Dispatch, GoTo, Moves

\* A handler that only goes on to another place moves alone.
LEMMA GoesMoves ==
    ASSUME TypeOK, NEW h \in Handlers, NEW p, GoTo(h, p), UNCHANGED local
    PROVE  Moves(h) /\ pc'[h] = p /\ job'[h] = job[h] /\ saw'[h] = saw[h]
BY DEF TypeOK, GoTo, local, Moves

\* The trip h serves stays the same, until h returns.
Serves(h) ==
    /\ Moves(h)
    /\ (pc'[h] = "idle" /\ job'[h] = NoJob) \/ job'[h].trip = job[h].trip
    /\ job'[h].old \in {job[h].old, None}

\* Every step is its handler's alone, and of the trip the handler serves.
LEMMA StepServes ==
    ASSUME TypeOK, NEW h \in Handlers, Step(h)
    PROVE  Serves(h)
<1>. USE LeaveMoves, DispatchMoves, GoesMoves DEF Serves
<1>1. job[h] \in JobRecord
  BY DEF TypeOK
<1>2. Leave(h) => Serves(h)
  BY DEF NoJob, Job
<1>3. ASSUME NEW p, Dispatch(h, p) PROVE Serves(h)
  <2>1. Moves(h) /\ job'[h] = Job("dispatch", job[h].trip, None, None, "none", None)
    BY <1>3
  <2>. QED BY <2>1 DEF Job
<1>4. CASE ExpireOld(h) \/ ExpireOldOffer(h) \/ Save(h) \/ Reset(h) \/ MarkAccepted(h)
  BY <1>4 DEF ExpireOld, ExpireOldOffer, Save, Reset, MarkAccepted
<1>5. CASE Balance(h)
  BY <1>2, <1>3, <1>5 DEF Balance, TypeOK, GoTo, Moves
<1>6. CASE Emit(h) \/ SettleSearch(h)
  BY <1>2, <1>6 DEF Emit, SettleSearch
<1>7. CASE Look(h)
  BY <1>1, <1>7 DEF Look, TypeOK, JobRecord, GoTo, Moves
<1>8. CASE Search(h)
  <2>1. ASSUME NEW plan, job' = [job EXCEPT ![h].plan = plan], GoTo(h, "settle"),
               UNCHANGED <<saw, todo>>
        PROVE  Serves(h)
    BY <1>1, <2>1 DEF TypeOK, JobRecord, GoTo, Moves
  <2>2. ASSUME NEW p, GoTo(h, p), UNCHANGED <<job, saw>>
        PROVE  Serves(h)
    BY <2>2 DEF TypeOK, GoTo, Moves
  <2>. QED BY <1>2, <1>8, <2>1, <2>2 DEF Search
<1>9. ASSUME NEW d \in Drivers, Ask(h, d) PROVE Serves(h)
  BY <1>2, <1>9 DEF Ask, Moves
<1>10. CASE MatchOffer(h)
  BY <1>1, <1>2, <1>10 DEF MatchOffer, TypeOK, JobRecord, GoTo, Moves
<1>11. CASE MarkCancelled(h) \/ MarkDeclined(h)
  BY <1>2, <1>11 DEF MarkCancelled, MarkDeclined
<1>12. CASE Hold(h) \/ Confirm(h) \/ Release(h)
  BY <1>2, <1>12 DEF Hold, Confirm, Release, Refused
<1>13. CASE WriteTrip(h) \/ PendAgain(h)
  BY <1>2, <1>3, <1>13 DEF WriteTrip, PendAgain
<1>. QED
  BY <1>4, <1>5, <1>6, <1>7, <1>8, <1>9, <1>10, <1>11, <1>12, <1>13 DEF Step

\* The rows of other trips, and their money, stay as they are.
Elsewhere(h) ==
    /\ strained \subseteq strained'
    /\ \A t \in Trips : t \notin {job[h].trip, job[h].old} => trip'[t] = trip[t]
    /\ \A t \in Trips : t # job[h].trip => held'[t] = held[t] /\ paid'[t] = paid[t]

\* A step writes no trip its job does not name, and heals none.
LEMMA StepElsewhere ==
    ASSUME TypeOK, Shape, NEW h \in Handlers, Step(h)
    PROVE  Elsewhere(h)
<1>1. ASSUME NEW t \in Trips, NEW row, t \in {job[h].trip, job[h].old}, Put(h, t, row),
             UNCHANGED money
      PROVE  Elsewhere(h)
  BY <1>1 DEF TypeOK, Put, money, Elsewhere
<1>2. ASSUME strained \subseteq strained', UNCHANGED <<trip, money>> PROVE Elsewhere(h)
  BY <1>2 DEF money, Elsewhere
<1>3. pc[h] # "idle" => job[h].trip \in Trips
  BY DEF Shape, Placed
<1>4. pc[h] = "expire" => job[h].old \in Trips
  BY DEF Shape, Placed
<1>5. CASE ExpireOld(h)
  BY <1>1, <1>4, <1>5 DEF ExpireOld
<1>6. CASE SettleSearch(h) \/ Reset(h) \/ WriteTrip(h) \/ PendAgain(h)
  BY <1>1, <1>3, <1>6 DEF SettleSearch, Reset, WriteTrip, PendAgain
<1>7. CASE Balance(h)
  BY <1>1, <1>2, <1>3, <1>7 DEF Balance
<1>8. CASE Save(h)
  BY <1>8 DEF Save, TypeOK, money, Elsewhere
<1>9. CASE MatchOffer(h)
  BY <1>9 DEF MatchOffer, TypeOK, money, Elsewhere
<1>10. CASE Hold(h) \/ Confirm(h) \/ Release(h)
  BY <1>10 DEF Hold, Confirm, Release, Refused, TypeOK, money, Elsewhere
<1>11. CASE MarkAccepted(h) \/ MarkCancelled(h) \/ MarkDeclined(h)
  BY <1>2, <1>11 DEF MarkAccepted, MarkCancelled, MarkDeclined
<1>12. CASE \/ ExpireOldOffer(h) \/ Emit(h) \/ Look(h) \/ Search(h)
            \/ \E d \in Drivers : Ask(h, d)
  BY <1>2, <1>12 DEF ExpireOldOffer, Emit, Look, Search, Ask
<1>. QED
  BY <1>5, <1>6, <1>7, <1>8, <1>9, <1>10, <1>11, <1>12 DEF Step

\* The row a new offer is put in is a free one: there is a first free number.
LEMMA FreshIsNew ==
    ASSUME \E o \in Offers : offer[o].status = "none"
    PROVE  FreshOffer \in Offers /\ offer[FreshOffer].status = "none"
<1> DEFINE free == {o \in Offers : offer[o].status = "none"}
<1>1. free \subseteq Nat /\ free # {}
  BY LimitsAssumption DEF Offers
<1>2. \E x \in free : \A y \in free : <<y, x>> \notin OpToRel(<, Nat)
  <2>. HIDE DEF free
  <2>. QED BY <1>1, NatLessThanWellFounded, WFMin
<1>3. \A x, y \in Nat : <<y, x>> \notin OpToRel(<, Nat) => x <= y
  BY DEF OpToRel
<1>4. \E x \in free : \A y \in free : x <= y
  BY <1>1, <1>2, <1>3
<1>. QED BY <1>4 DEF FreshOffer

\* A handler that is about to mark an offer of its trip.
Marks(h) == pc[h] = "mark" /\ job[h].op \in {"accept", "cancelByDriver"}

\* Any other step leaves the accepted offers of an unstrained trip as they are.
LEMMA StepTaken ==
    ASSUME TypeOK, Shape, OffersKnown, OffersRemembered, Existing,
           NEW h \in Handlers, Step(h), NEW t \in Trips, t \notin strained',
           t = job[h].trip => ~Marks(h),
           t = job[h].old => pc[h] # "expireOffer"
    PROVE  Taken(t)' = Taken(t) /\ \A o \in Taken(t) : offer'[o].driver = offer[o].driver
<1> DEFINE Same == Taken(t)' = Taken(t) /\ \A o \in Taken(t) : offer'[o].driver = offer[o].driver
<1>1. ASSUME UNCHANGED offer PROVE Same
  BY <1>1 DEF Taken
<1>2. ASSUME NEW x \in Offers, NEW st \in OfferStatus, offer' = [offer EXCEPT ![x].status = st],
             offer[x].trip = t => st # "ACCEPTED" /\ offer[x].status # "ACCEPTED"
      PROVE  Same
  BY <1>2 DEF Taken, TypeOK, OfferRow
<1>3. t \notin strained
  BY StepElsewhere DEF Elsewhere
<1>4. CASE ExpireOldOffer(h)
  <2>1. job[h].offer \in Offers /\ job[h].op = "create" /\ offer[job[h].offer].trip = job[h].old
    <3>1. job[h].op = "create"
      BY <1>4, PlaceTells DEF ExpireOldOffer, TypeOK, Existing
    <3>. QED BY <1>4, <3>1 DEF ExpireOldOffer, Shape, Placed, OffersRemembered
  <2>. QED BY <1>2, <1>4, <2>1 DEF ExpireOldOffer, OfferStatus
<1>5. CASE MarkAccepted(h)
  <2>1. job[h].offer \in Offers /\ offer[job[h].offer].trip # t
    BY <1>3, <1>5 DEF MarkAccepted, Marks, OffersRemembered
  <2>. QED BY <1>2, <1>5, <2>1 DEF MarkAccepted, OfferStatus
<1>6. CASE MarkCancelled(h)
  <2>1. t # job[h].trip
    BY <1>6 DEF MarkCancelled, Marks
  <2>. QED BY <1>1, <1>2, <1>6, <2>1 DEF MarkCancelled, OffersOf, OfferStatus
<1>7. CASE MarkDeclined(h)
  <2>1. CASE UNCHANGED offer
    BY <1>1, <2>1
  <2>2. ASSUME NEW o \in Offers, offer' = [offer EXCEPT ![o].status = "DECLINED"],
               strained' = IF offer[o].trip # job[h].trip \/ offer[o].status = "ACCEPTED"
                           THEN strained \cup {offer[o].trip} ELSE strained
        PROVE  Same
    BY <1>2, <2>2 DEF OfferStatus
  <2>. QED BY <1>7, <2>1, <2>2 DEF MarkDeclined
<1>8. ASSUME NEW d \in Drivers, Ask(h, d) PROVE Same
  <2>1. /\ FreshOffer \in Offers => offer[FreshOffer].status = "none"
        /\ \A o \in Offers : o # FreshOffer => offer'[o] = offer[o]
        /\ FreshOffer \in Offers => offer'[FreshOffer].status = "PENDING"
    BY <1>8, AskOffer, FreshIsNew DEF Ask
  <2>. QED BY <2>1 DEF Taken
<1>9. CASE \/ ExpireOld(h) \/ Save(h) \/ Balance(h) \/ Emit(h) \/ Look(h) \/ Search(h)
           \/ SettleSearch(h) \/ Reset(h) \/ MatchOffer(h) \/ Hold(h) \/ Confirm(h)
           \/ Release(h) \/ WriteTrip(h) \/ PendAgain(h)
  BY <1>1, <1>9 DEF ExpireOld, Save, Balance, Emit, Look, Search, SettleSearch, Reset,
     MatchOffer, Hold, Confirm, Release, Refused, WriteTrip, PendAgain
<1>. QED BY <1>4, <1>5, <1>6, <1>7, <1>8, <1>9 DEF Step

-----------------------------------------------------------------------------
(* Handlers find their trips *)

\* A step takes its handler to a place of its operation.
LEMMA StepStands ==
    ASSUME TypeOK, Existing, NEW h \in Handlers, Step(h)
    PROVE  Stands(job'[h], pc'[h])
<1>1. job[h] \in JobRecord /\ Stands(job[h], pc[h])
  BY DEF TypeOK, Existing
<1>. USE PlaceTells, NoneIsNoOffer
<1>2. Leave(h) => Stands(job'[h], pc'[h])
  BY LeaveMoves DEF Stands, NoJob, Job
<1>3. ASSUME NEW p \in {"emit", "look"}, Dispatch(h, p) PROVE Stands(job'[h], pc'[h])
  <2>1. pc'[h] = p /\ job'[h] = Job("dispatch", job[h].trip, None, None, "none", None)
    BY <1>3, DispatchMoves
  <2>. QED BY <2>1 DEF Stands, Job
<1>4. ASSUME NEW p, GoTo(h, p), UNCHANGED local, Stands(job[h], p)
      PROVE  Stands(job'[h], pc'[h])
  BY <1>4, GoesMoves
<1>5. CASE ExpireOld(h) \/ ExpireOldOffer(h) \/ Save(h)
  BY <1>1, <1>4, <1>5 DEF ExpireOld, ExpireOldOffer, Save, Stands
<1>6. CASE Balance(h)
  <2>1. job[h].op = "create" /\ pc[h] = "balance"
    BY <1>1, <1>6 DEF Balance
  <2>2. CASE GoTo(h, "offer") /\ UNCHANGED job
    BY <1>1, <2>1, <2>2 DEF GoTo, TypeOK, Stands
  <2>. QED BY <1>2, <1>3, <1>6, <2>2 DEF Balance
<1>7. CASE Emit(h) \/ SettleSearch(h) \/ Reset(h)
  BY <1>1, <1>2, <1>4, <1>7 DEF Emit, SettleSearch, Reset, Stands
<1>8. ASSUME pc[h] \in {"look", "search"}, NEW plan, NEW p \in {"settle", "search"}, GoTo(h, p),
             job' = [job EXCEPT ![h].plan = plan]
      PROVE  Stands(job'[h], pc'[h])
  <2>1. job[h].op = "dispatch"
    BY <1>1, <1>8
  <2>2. pc'[h] = p /\ job'[h].op = "dispatch" /\ job'[h].old = job[h].old
    BY <1>1, <1>8, <2>1 DEF GoTo, TypeOK, JobRecord
  <2>. QED BY <1>1, <2>1, <2>2 DEF Stands
<1>9. CASE Look(h)
  BY <1>8, <1>9 DEF Look
<1>10. CASE Search(h)
  <2>1. ASSUME NEW p \in {"reset", "offer"}, GoTo(h, p), UNCHANGED <<job, saw>>
        PROVE  Stands(job'[h], pc'[h])
    <3>1. job[h].op = "dispatch"
      BY <1>1, <1>10 DEF Search
    <3>2. pc'[h] = p /\ job'[h] = job[h]
      BY <2>1 DEF GoTo, TypeOK
    <3>. QED BY <1>1, <3>1, <3>2 DEF Stands
  <2>. QED BY <1>2, <1>8, <1>10, <2>1 DEF Search
<1>11. ASSUME NEW d \in Drivers, Ask(h, d) PROVE Stands(job'[h], pc'[h])
  BY <1>1, <1>2, <1>11 DEF Ask
<1>12. CASE MatchOffer(h)
  <2>1. job[h].op = "accept"
    BY <1>1, <1>12 DEF MatchOffer
  <2>2. ASSUME NEW o, job' = [job EXCEPT ![h].offer = o], GoTo(h, "hold")
        PROVE  Stands(job'[h], pc'[h])
    <3>1. /\ pc'[h] = "hold" /\ job'[h].op = "accept" /\ job'[h].old = job[h].old
          /\ job'[h].driver = job[h].driver
      BY <1>1, <2>1, <2>2 DEF GoTo, TypeOK, JobRecord
    <3>. QED BY <1>1, <2>1, <3>1 DEF Stands
  <2>. QED BY <1>2, <1>12, <2>2 DEF MatchOffer
<1>13. CASE MarkAccepted(h) \/ MarkCancelled(h) \/ MarkDeclined(h)
  BY <1>1, <1>2, <1>4, <1>13 DEF MarkAccepted, MarkCancelled, MarkDeclined, Stands
<1>14. CASE Hold(h) \/ Confirm(h)
  BY <1>1, <1>2, <1>4, <1>14 DEF Hold, Confirm, Refused, Stands
<1>15. CASE Release(h)
  BY <1>1, <1>2, <1>4, <1>15 DEF Release, Refused, Stands
<1>16. CASE WriteTrip(h) \/ PendAgain(h)
  BY <1>1, <1>2, <1>3, <1>4, <1>16 DEF WriteTrip, PendAgain, Stands
<1>. QED
  BY <1>5, <1>6, <1>7, <1>9, <1>10, <1>11, <1>12, <1>13, <1>14, <1>15, <1>16 DEF Step

\* A trip that is in the table stays there, and a creation that inserts it leaves
\* it there.
LEMMA StepInserted ==
    ASSUME TypeOK, Shape, Existing, NEW h \in Handlers, Step(h), NEW t \in Trips,
           trip[t].status # "none" \/ (pc[h] = "save" /\ t = job[h].trip)
    PROVE  trip'[t].status # "none"
<1>1. pc[h] # "idle" => job[h].trip \in Trips
  BY DEF Shape, Placed
<1>2. ASSUME NEW s \in Trips, NEW row, Put(h, s, row), row.status # "none", pc[h] # "save"
      PROVE  trip'[t].status # "none"
  BY <1>2 DEF Put, TypeOK
<1>3. CASE UNCHANGED trip /\ pc[h] # "save"
  BY <1>3
<1>4. CASE ExpireOld(h)
  <2>1. job[h].old \in Trips
    BY <1>4 DEF ExpireOld, Shape, Placed
  <2>2. [trip[job[h].old] EXCEPT !.status = "EXPIRED", !.expiredAt = TRUE].status # "none"
    BY <2>1 DEF TypeOK, TripRow
  <2>. QED BY <1>2, <1>4, <2>1, <2>2 DEF ExpireOld
<1>5. CASE Save(h)
  BY <1>5 DEF Save, TypeOK, NewTrip
<1>6. CASE Balance(h)
  <2>1. [trip[job[h].trip] EXCEPT !.status = "EXPIRED", !.expiredAt = TRUE].status # "none"
    BY <1>1, <1>6 DEF Balance, TypeOK, TripRow
  <2>. QED BY <1>1, <1>2, <1>3, <1>6, <2>1 DEF Balance
<1>7. CASE SettleSearch(h) \/ PendAgain(h)
  <2>1. \A row \in TripRow : /\ [row EXCEPT !.status = "NO_DRIVER"].status # "none"
                              /\ [row EXCEPT !.status = "PENDING"].status # "none"
                              /\ [row EXCEPT !.status = "CANCELLED_BY_DRIVER",
                                             !.cancelledAt = TRUE].status # "none"
                              /\ [row EXCEPT !.status = "EXPIRED", !.expiredAt = TRUE].status
                                    # "none"
    BY DEF TripRow
  <2>2. PICK row : Put(h, job[h].trip, row) /\ row.status # "none"
    BY <1>1, <1>7, <2>1 DEF SettleSearch, PendAgain, TypeOK
  <2>. QED BY <1>1, <1>2, <1>7, <2>2 DEF SettleSearch, PendAgain
<1>8. CASE Reset(h) \/ WriteTrip(h)
  <2>1. job[h] \in JobRecord /\ Stands(job[h], pc[h]) /\ pc[h] \in {"reset", "write"}
    BY <1>8 DEF Reset, WriteTrip, TypeOK, Existing
  <2>2. job[h].op # "create"
    BY <2>1, PlaceTells
  <2>3. trip[job[h].trip].status # "none"
    BY <2>1, <2>2 DEF Existing, Unsaved
  <2>4. CASE Reset(h)
    <3>1. [trip[job[h].trip] EXCEPT !.driver = None, !.cancelledAt = FALSE, !.assignedAt = FALSE,
                                    !.payment = "none"].status # "none"
      BY <1>1, <2>1, <2>3 DEF TypeOK, TripRow
    <3>. QED BY <1>1, <1>2, <2>1, <2>4, <3>1 DEF Reset
  <2>5. CASE WriteTrip(h)
    <3>1. WrittenRow(job[h], trip[job[h].trip], saw[h]).status # "none"
      <4>. DEFINE row == trip[job[h].trip]  j == job[h]  seen == saw[h]
      <4>1. row \in TripRow /\ row.status # "none"
        BY <1>1, <2>1, <2>3 DEF TypeOK
      <4>2. CancelledRow(row, seen).status # "none"
        BY <4>1 DEF CancelledRow, TripRow
      <4>. HIDE DEF row, j, seen
      <4>3. WrittenRow(j, row, seen).status # "none"
        BY <4>1, <4>2 DEF WrittenRow, TripRow
      <4>. QED BY <4>3 DEF row, j, seen
    <3>. QED BY <1>1, <1>2, <2>1, <2>5, <3>1 DEF WriteTrip
  <2>. QED BY <1>8, <2>4, <2>5
<1>9. CASE MatchOffer(h)
  <2>1. ASSUME NEW c, trip' = [trip EXCEPT ![job[h].trip].cab = c]
        PROVE  trip'[t].status = trip[t].status
    BY <2>1 DEF TypeOK, TripRow
  <2>. QED BY <1>3, <1>9, <2>1 DEF MatchOffer
<1>10. CASE \/ ExpireOldOffer(h) \/ Emit(h) \/ Look(h) \/ Search(h) \/ MarkAccepted(h)
            \/ MarkCancelled(h) \/ MarkDeclined(h) \/ Hold(h) \/ Confirm(h) \/ Release(h)
            \/ \E d \in Drivers : Ask(h, d)
  BY <1>3, <1>10 DEF ExpireOldOffer, Emit, Look, Search, MarkAccepted, MarkCancelled,
     MarkDeclined, Hold, Confirm, Release, Refused, Ask
<1>. QED BY <1>4, <1>5, <1>6, <1>7, <1>8, <1>9, <1>10 DEF Step

\* NULL is not a trip.
LEMMA NoneIsNoTrip == None \notin Trips
BY IdsAssumption

\* Whoever takes a step is at work.
LEMMA StepBusy ==
    ASSUME NEW h \in Handlers, Step(h)
    PROVE  pc[h] # "idle"
BY DEF Step, ExpireOld, ExpireOldOffer, Save, Balance, Emit, Look, Search, SettleSearch, Reset,
   Ask, MatchOffer, MarkAccepted, MarkCancelled, MarkDeclined, Hold, Confirm, Release, WriteTrip,
   PendAgain

\* A creation has its trip inserted by its save, and only then.
LEMMA StepUnsaved ==
    ASSUME TypeOK, Existing, NEW h \in Handlers, Step(h)
    PROVE  /\ Unsaved(job'[h], pc'[h]) => Unsaved(job[h], pc[h]) /\ pc[h] # "save"
           /\ Unsaved(job[h], pc[h]) /\ pc[h] # "save" =>
                 /\ Unsaved(job'[h], pc'[h])
                 /\ trip'[job[h].trip] = trip[job[h].trip]
<1>1. job[h] \in JobRecord /\ Stands(job[h], pc[h])
  BY DEF TypeOK, Existing
<1>. USE LeaveMoves, DispatchMoves, GoesMoves
<1>2. CASE ExpireOld(h)
  <2>1. job[h].op = "create" /\ pc[h] = "expire"
    BY <1>1, <1>2, PlaceTells DEF ExpireOld
  <2>2. pc'[h] \in {"save", "expireOffer"} /\ job'[h] = job[h]
    BY <1>2 DEF ExpireOld
  <2>3. trip[job[h].trip].status = "none" /\ (job[h].old # None => job[h].old # job[h].trip)
    BY <2>1 DEF Existing, Unsaved
  <2>4. trip'[job[h].trip] = trip[job[h].trip]
    BY <1>2, <2>3, NoneIsNoTrip DEF ExpireOld, Put, TypeOK
  <2>. QED BY <2>1, <2>2, <2>4 DEF Unsaved
<1>3. CASE ExpireOldOffer(h)
  <2>1. job[h].op = "create" /\ pc[h] = "expireOffer"
    BY <1>1, <1>3, PlaceTells DEF ExpireOldOffer
  <2>. QED BY <1>3, <2>1 DEF ExpireOldOffer, Unsaved
<1>4. CASE Save(h)
  BY <1>4 DEF Save, Unsaved
<1>5. ASSUME pc[h] \notin {"expire", "expireOffer", "save"},
             pc'[h] \notin {"expire", "expireOffer", "save"}
      PROVE  ~Unsaved(job[h], pc[h]) /\ ~Unsaved(job'[h], pc'[h])
  BY <1>5 DEF Unsaved
<1>6. CASE Balance(h) \/ Emit(h) \/ SettleSearch(h) \/ Reset(h)
  BY <1>5, <1>6 DEF Balance, Emit, SettleSearch, Reset, GoTo, TypeOK
<1>7. CASE Look(h) \/ Search(h) \/ MatchOffer(h)
  BY <1>5, <1>7 DEF Look, Search, MatchOffer, GoTo, TypeOK
<1>8. ASSUME NEW d \in Drivers, Ask(h, d)
      PROVE  ~Unsaved(job[h], pc[h]) /\ ~Unsaved(job'[h], pc'[h])
  BY <1>5, <1>8 DEF Ask
<1>9. CASE MarkAccepted(h) \/ MarkCancelled(h) \/ MarkDeclined(h)
  BY <1>5, <1>9 DEF MarkAccepted, MarkCancelled, MarkDeclined
<1>10. CASE Hold(h) \/ Confirm(h) \/ Release(h)
  BY <1>5, <1>10 DEF Hold, Confirm, Release, Refused
<1>11. CASE WriteTrip(h) \/ PendAgain(h)
  BY <1>5, <1>11 DEF WriteTrip, PendAgain
<1>. QED BY <1>2, <1>3, <1>4, <1>6, <1>7, <1>8, <1>9, <1>10, <1>11 DEF Step

\* Every step keeps it so that handlers and offers find their trips.
LEMMA StepExisting ==
    ASSUME TypeOK, Shape, OffersKnown, Existing, NEW h \in Handlers, Step(h)
    PROVE  Existing'
<1>1. Serves(h) /\ Elsewhere(h)
  BY StepServes, StepElsewhere
<1>2. \A g \in Handlers : Stands(job[g], pc[g])'
  BY <1>1, StepStands DEF Serves, Moves, Existing
<1>3. \A t \in Trips : trip[t].status # "none" => trip'[t].status # "none"
  BY StepInserted
<1>4. \A g \in Handlers : pc[g] # "idle" => job[g].trip \in Trips
  BY DEF Shape, Placed
<1>5. \A g \in Handlers : job[g].old \in Trips \cup {None}
  BY DEF TypeOK, JobRecord
<1>6. \A g \in Handlers : job'[g].old # None =>
         /\ trip'[job'[g].old].status # "none"
         /\ job'[g].old # job'[g].trip
         /\ RiderOf[job'[g].old] = RiderOf[job'[g].trip]
  <2>1. job'[h].old # None => job'[h].old = job[h].old /\ job'[h].trip = job[h].trip
    BY <1>1 DEF Serves, NoJob, Job
  <2>. QED BY <1>1, <1>3, <1>5, <2>1 DEF Serves, Moves, Existing
<1>7. \A o \in Offers : offer'[o].status # "none" => trip'[offer'[o].trip].status # "none"
  <2>1. CASE OffersKept
    BY <1>3, <2>1 DEF OffersKept, OffersKnown, Existing
  <2>2. ASSUME NEW d \in Drivers, Ask(h, d)
        PROVE  \A o \in Offers : offer'[o].status # "none" => trip'[offer'[o].trip].status # "none"
    <3>1. ~Unsaved(job[h], pc[h]) /\ pc[h] # "idle"
      BY <2>2 DEF Ask, Unsaved
    <3>2. trip[job[h].trip].status # "none" /\ job[h].trip \in Trips
      BY <1>4, <3>1 DEF Existing
    <3>3. FreshOffer \in Offers => offer'[FreshOffer].trip = job[h].trip
      BY <2>2, AskOffer
    <3>4. \A o \in Offers : o # FreshOffer => offer'[o] = offer[o]
      BY <2>2, AskOffer
    <3>. QED BY <1>3, <3>2, <3>3, <3>4 DEF OffersKnown, Existing
  <2>. QED BY <2>1, <2>2, StepOffers
<1>8. ASSUME NEW g \in Handlers
      PROVE  IF Unsaved(job'[g], pc'[g])
             THEN /\ trip'[job'[g].trip].status = "none"
                  /\ \A f \in Handlers : job'[f].trip = job'[g].trip => f = g
             ELSE pc'[g] # "idle" => trip'[job'[g].trip].status # "none"
  <2>1. pc'[g] # "idle" => job'[g].trip = job[g].trip /\ job[g].trip \in Trips
    <3>1. pc[h] # "idle" /\ (pc'[h] # "idle" => job'[h].trip = job[h].trip)
      BY <1>1, StepBusy DEF Serves
    <3>. QED BY <1>1, <1>4, <3>1 DEF Serves, Moves
  <2>2. \A f \in Handlers : job'[f].trip \in Trips => job'[f].trip = job[f].trip
    BY <1>1, NoneIsNoTrip DEF Serves, Moves, NoJob, Job
  <2>3. CASE Unsaved(job'[g], pc'[g])
    <3>1. Unsaved(job[g], pc[g]) /\ ~(g = h /\ pc[g] = "save")
      BY <1>1, <2>3, StepUnsaved DEF Serves, Moves
    <3>2. trip[job[g].trip].status = "none" /\ \A f \in Handlers : job[f].trip = job[g].trip => f = g
      BY <3>1 DEF Existing
    <3>3. pc'[g] # "idle"
      BY <2>3 DEF Unsaved
    <3>4. trip'[job[g].trip] = trip[job[g].trip]
      <4>1. CASE g = h
        BY <3>1, <4>1, StepUnsaved
      <4>2. CASE g # h
        <5>1. job[g].trip \in Trips /\ job[g].trip # job[h].trip
          BY <2>1, <3>2, <3>3, <4>2
        <5>2. job[g].trip # job[h].old
          BY <3>2, <5>1, NoneIsNoTrip DEF Existing
        <5>. QED BY <1>1, <5>1, <5>2 DEF Elsewhere
      <4>. QED BY <4>1, <4>2
    <3>. QED BY <2>1, <2>2, <2>3, <3>2, <3>3, <3>4
  <2>4. CASE ~Unsaved(job'[g], pc'[g]) /\ pc'[g] # "idle"
    <3>1. trip[job[g].trip].status # "none" \/ (g = h /\ pc[g] = "save")
      <4>1. CASE g = h
        BY <2>4, <4>1, StepUnsaved, StepBusy DEF Existing
      <4>2. CASE g # h
        BY <1>1, <2>4, <4>2 DEF Serves, Moves, Existing
      <4>. QED BY <4>1, <4>2
    <3>. QED BY <2>1, <2>4, <3>1, StepInserted
  <2>. QED BY <2>3, <2>4
<1>. QED BY <1>2, <1>6, <1>7, <1>8 DEF Existing

\* An offer stays the same driver's, and of the same trip.
LEMMA StepOffersStay ==
    ASSUME TypeOK, Shape, OffersKnown, NEW h \in Handlers, Step(h),
           NEW o \in Offers, offer[o].status # "none"
    PROVE  offer'[o].driver = offer[o].driver /\ offer'[o].trip = offer[o].trip
<1>1. CASE OffersKept
  BY <1>1 DEF OffersKept
<1>2. ASSUME NEW d \in Drivers, Ask(h, d)
      PROVE  offer'[o] = offer[o]
  BY <1>2, AskOffer, FreshIsNew DEF Ask
<1>. QED BY <1>1, <1>2, StepOffers

\* The offer that h remembers is still the one it found, or one just found.
LEMMA StepRemembers ==
    ASSUME TypeOK, Existing, OffersRemembered, NEW h \in Handlers, Step(h)
    PROVE  \/ pc'[h] = "idle" /\ job'[h] = NoJob
           \/ job'[h].op = "dispatch" /\ job'[h].offer = None
           \/ /\ job'[h].op = job[h].op /\ job'[h].offer = job[h].offer
              /\ job'[h].driver = job[h].driver /\ job'[h].trip = job[h].trip
              /\ job'[h].old = job[h].old
              /\ pc[h] # "match" \/ pc'[h] = "match"
           \/ /\ job'[h].op = job[h].op /\ job'[h].driver = job[h].driver
              /\ job'[h].trip = job[h].trip
              /\ job'[h].op = "accept" /\ job'[h].offer \in Offers
              /\ offer[job'[h].offer].status # "none"
              /\ offer[job'[h].offer].driver = job[h].driver
              /\ \/ offer[job'[h].offer].trip = job[h].trip
                 \/ {offer[job'[h].offer].trip, job[h].trip} \subseteq strained'
<1> DEFINE Same == /\ job'[h].op = job[h].op /\ job'[h].offer = job[h].offer
                   /\ job'[h].driver = job[h].driver /\ job'[h].trip = job[h].trip
                   /\ job'[h].old = job[h].old
                   /\ pc[h] # "match" \/ pc'[h] = "match"
<1>1. job[h] \in JobRecord
  BY DEF TypeOK
<1>2. Leave(h) => pc'[h] = "idle" /\ job'[h] = NoJob
  BY LeaveMoves
<1>3. ASSUME NEW p, Dispatch(h, p) PROVE job'[h].op = "dispatch" /\ job'[h].offer = None
  <2>1. job'[h] = Job("dispatch", job[h].trip, None, None, "none", None)
    BY <1>3, DispatchMoves
  <2>. QED BY <2>1 DEF Job
<1>4. ASSUME NEW p, GoTo(h, p), UNCHANGED job, pc[h] # "match" PROVE Same
  BY <1>4
<1>5. ASSUME NEW plan, job' = [job EXCEPT ![h].plan = plan], pc[h] # "match" PROVE Same
  BY <1>1, <1>5 DEF TypeOK, JobRecord
<1>6. CASE ExpireOld(h) \/ ExpireOldOffer(h) \/ Save(h) \/ Balance(h) \/ Emit(h)
  BY <1>2, <1>3, <1>4, <1>6 DEF ExpireOld, ExpireOldOffer, Save, Balance, Emit, local
<1>7. CASE Look(h) \/ Search(h)
  BY <1>2, <1>4, <1>5, <1>7 DEF Look, Search
<1>8. CASE SettleSearch(h) \/ Reset(h) \/ WriteTrip(h) \/ PendAgain(h)
  BY <1>2, <1>3, <1>4, <1>8 DEF SettleSearch, Reset, WriteTrip, PendAgain, local
<1>9. ASSUME NEW d \in Drivers, Ask(h, d)
      PROVE  Same \/ (pc'[h] = "idle" /\ job'[h] = NoJob)
  BY <1>2, <1>9 DEF Ask
<1>10. CASE MatchOffer(h)
  <2>1. ASSUME NEW o \in Pending(Offers), offer[o].driver = job[h].driver,
               job' = [job EXCEPT ![h].offer = o],
               strained' = IF offer[o].trip = job[h].trip THEN strained
                           ELSE strained \cup {job[h].trip, offer[o].trip}
        PROVE  /\ job'[h].op = job[h].op /\ job'[h].driver = job[h].driver
               /\ job'[h].trip = job[h].trip
               /\ job'[h].op = "accept" /\ job'[h].offer \in Offers
               /\ offer[job'[h].offer].status # "none"
               /\ offer[job'[h].offer].driver = job[h].driver
               /\ \/ offer[job'[h].offer].trip = job[h].trip
                  \/ {offer[job'[h].offer].trip, job[h].trip} \subseteq strained'
    <3>1. job[h].op = "accept"
      BY <1>1, <1>10, PlaceTells DEF MatchOffer, Existing
    <3>2. job'[h] = [job[h] EXCEPT !.offer = o]
      BY <2>1 DEF TypeOK
    <3>3. /\ job'[h].op = "accept" /\ job'[h].driver = job[h].driver
          /\ job'[h].trip = job[h].trip /\ job'[h].offer = o
      BY <1>1, <3>1, <3>2 DEF JobRecord
    <3>. QED BY <2>1, <3>1, <3>3 DEF Pending
  <2>. QED BY <1>2, <1>10, <2>1 DEF MatchOffer
<1>11. CASE MarkAccepted(h) \/ MarkCancelled(h) \/ MarkDeclined(h)
  BY <1>2, <1>4, <1>11 DEF MarkAccepted, MarkCancelled, MarkDeclined, local
<1>12. CASE Hold(h) \/ Confirm(h) \/ Release(h)
  BY <1>2, <1>4, <1>12 DEF Hold, Confirm, Release, Refused, local
<1>. QED BY <1>6, <1>7, <1>8, <1>9, <1>10, <1>11, <1>12 DEF Step

\* So the offers remembered stay the driver's, or the retired trip's.
LEMMA StepRemembered ==
    ASSUME TypeOK, Shape, OffersKnown, Existing, OffersRemembered, NEW h \in Handlers, Step(h)
    PROVE  OffersRemembered'
<1>1. Moves(h) /\ strained \subseteq strained'
  BY StepServes, StepElsewhere DEF Serves, Elsewhere
<1>2. \A o \in Offers : offer[o].status # "none" =>
         offer'[o].driver = offer[o].driver /\ offer'[o].trip = offer[o].trip
  BY StepOffersStay
<1>3. \A g \in Handlers : job[g].offer \in Offers => offer[job[g].offer].status # "none"
  BY DEF OffersKnown
<1>4. ASSUME NEW g \in Handlers, g # h
      PROVE  /\ job'[g].op = "accept" /\ pc'[g] # "match" =>
                   /\ job'[g].offer \in Offers
                   /\ offer'[job'[g].offer].driver = job'[g].driver
                   /\ \/ offer'[job'[g].offer].trip = job'[g].trip
                      \/ {offer'[job'[g].offer].trip, job'[g].trip} \subseteq strained'
             /\ job'[g].op = "create" /\ job'[g].offer \in Offers =>
                   job'[g].old # None /\ offer'[job'[g].offer].trip = job'[g].old
  BY <1>1, <1>2, <1>3, <1>4 DEF Moves, OffersRemembered
<1>5. /\ job'[h].op = "accept" /\ pc'[h] # "match" =>
            /\ job'[h].offer \in Offers
            /\ offer'[job'[h].offer].driver = job'[h].driver
            /\ \/ offer'[job'[h].offer].trip = job'[h].trip
               \/ {offer'[job'[h].offer].trip, job'[h].trip} \subseteq strained'
      /\ job'[h].op = "create" /\ job'[h].offer \in Offers =>
            job'[h].old # None /\ offer'[job'[h].offer].trip = job'[h].old
  <2>1. CASE pc'[h] = "idle" /\ job'[h] = NoJob
    BY <2>1 DEF NoJob, Job
  <2>2. CASE job'[h].op = "dispatch"
    BY <2>2
  <2>3. CASE /\ job'[h].op = job[h].op /\ job'[h].offer = job[h].offer
             /\ job'[h].driver = job[h].driver /\ job'[h].trip = job[h].trip
             /\ job'[h].old = job[h].old
             /\ pc[h] # "match" \/ pc'[h] = "match"
    BY <1>1, <1>2, <1>3, <2>3 DEF OffersRemembered
  <2>4. CASE /\ job'[h].driver = job[h].driver /\ job'[h].trip = job[h].trip
             /\ job'[h].op = "accept" /\ job'[h].offer \in Offers
             /\ offer[job'[h].offer].status # "none"
             /\ offer[job'[h].offer].driver = job[h].driver
             /\ \/ offer[job'[h].offer].trip = job[h].trip
                \/ {offer[job'[h].offer].trip, job[h].trip} \subseteq strained'
    BY <1>2, <2>4
  <2>. QED BY <2>1, <2>2, <2>3, <2>4, StepRemembers
<1>. QED BY <1>4, <1>5 DEF OffersRemembered

-----------------------------------------------------------------------------
(* A step and the books of the trips *)

Strengthened == /\ TypeOK /\ Shape /\ OffersKnown
                /\ Existing /\ OffersRemembered

\* A trip the handler has nothing to do with is spared.
LEMMA AwaySpared ==
    ASSUME Strengthened, NEW h \in Handlers, Step(h), NEW t \in Trips, t \notin strained',
           t # job[h].trip, t # job[h].old
    PROVE  Spares(h, t)
<1>1. Serves(h) /\ Elsewhere(h)
  BY StepServes, StepElsewhere DEF Strengthened
<1>2. Taken(t)' = Taken(t) /\ \A o \in Taken(t) : offer'[o].driver = offer[o].driver
  BY StepTaken DEF Strengthened
<1>3. job'[h].trip # t /\ job'[h].old # t
  BY <1>1, NoneIsNoTrip DEF Serves, NoJob, Job
<1>4. Like(trip'[t], trip[t])
  BY <1>1 DEF Elsewhere, Like
<1>. QED BY <1>1, <1>2, <1>3, <1>4 DEF Spares, Serves, Elsewhere, Movers, Readers, Retirers

\* A Put that strains nobody was made by the only handler deciding.
LEMMA PutAlone ==
    ASSUME NEW h \in Handlers, NEW t \in Trips, NEW row, TypeOK, Put(h, t, row), t \notin strained'
    PROVE  Deciding(t) \subseteq {h} /\ trip'[t] = row
BY DEF Put, TypeOK

\* Whoever moved money, or changed the accepted offer, is still deciding.
LEMMA MoversDecide ==
    ASSUME NEW t
    PROVE  /\ Movers(t) \subseteq Deciding(t)
           /\ \A h \in Movers(t) : job[h].trip = t /\ Moved(job[h], pc[h])
<1>1. \A j, p : Moved(j, p) => p \notin {"idle", "emit", "offer"}
  BY DEF Moved
<1>. QED BY <1>1 DEF Movers, Deciding

\* Whoever changed the accepted offer has moved money too.
LEMMA AtMoves ==
    ASSUME NEW t
    PROVE  At(t, "accept") \subseteq Movers(t) /\ At(t, "cancelByDriver") \subseteq Movers(t)
BY DEF At, Movers, Moved

\* The step a creation takes at each place.
LEMMA CreationSteps ==
    ASSUME NEW h \in Handlers, Step(h)
    PROVE  /\ pc[h] = "expire" => ExpireOld(h)
           /\ pc[h] = "expireOffer" => ExpireOldOffer(h)
           /\ pc[h] = "save" => Save(h)
           /\ pc[h] = "balance" => Balance(h)
           /\ pc[h] = "offer" => \E d \in Drivers : Ask(h, d)
BY DEF Step, ExpireOld, ExpireOldOffer, Save, Balance, Emit, Look, Search, SettleSearch, Reset,
   Ask, MatchOffer, MarkAccepted, MarkCancelled, MarkDeclined, Hold, Confirm, Release, WriteTrip,
   PendAgain

\* The trip a creation retires: its row says so, and its offers no longer matter.
LEMMA OldBooks ==
    ASSUME Strengthened, NEW h \in Handlers, Step(h), NEW t \in Trips, t \notin strained',
           t = job[h].old, Books(t)
    PROVE  Books(t)'
<1>1. Serves(h) /\ Elsewhere(h) /\ Moves(h)
  BY StepServes, StepElsewhere DEF Strengthened, Serves
<1>2. /\ job[h] \in JobRecord /\ Stands(job[h], pc[h]) /\ job[h].op = "create"
      /\ t # None /\ job[h].trip # t
  BY NoneIsNoTrip DEF Strengthened, TypeOK, Existing, Stands
<1>3. pc[h] \in {"expire", "expireOffer", "save", "balance", "offer"}
  BY <1>2 DEF Stands
<1>4. job'[h].trip # t
  BY <1>1, <1>2, NoneIsNoTrip DEF Serves, NoJob, Job
<1>5. held'[t] = held[t] /\ paid'[t] = paid[t]
  BY <1>1, <1>2 DEF Elsewhere
<1>6. ReadsOld(pc[h], trip[t])
  <2>1. pc[h] # "offer" => h \in Retirers(t)
    BY <1>3 DEF Retirers
  <2>. QED BY <2>1 DEF Books, RowHolds, ReadsOld
<1>7. pc[h] # "expireOffer" =>
         Taken(t)' = Taken(t) /\ \A o \in Taken(t) : offer'[o].driver = offer[o].driver
  BY <1>2, StepTaken DEF Strengthened
<1>8. CASE pc[h] = "expire"
  <2> DEFINE new == [trip[t] EXCEPT !.status = "EXPIRED", !.expiredAt = TRUE]
  <2>1. ExpireOld(h)
    BY <1>8, CreationSteps
  <2>2. Deciding(t) \subseteq {h} /\ trip'[t] = new
    BY <2>1, PutAlone DEF ExpireOld, Strengthened
  <2>3. Movers(t) = {}
    BY <1>2, <2>2, MoversDecide
  <2>4. /\ Sound(new) /\ new.status \notin OnTheWay /\ new.payment = trip[t].payment
        /\ Acceptable(new) => Acceptable(trip[t])
    <3>1. trip[t] \in TripRow /\ Sound(trip[t]) /\ trip[t].status \in Searching \cup {"NO_DRIVER"}
      BY <1>6, <1>8 DEF ReadsOld, Books, RowHolds, Strengthened, TypeOK, Searching
    <3>2. new \in GivenUp(trip[t])
      BY DEF GivenUp
    <3>. HIDE DEF new
    <3>. QED BY <3>1, <3>2, SearchedSound
  <2>5. Acceptable(new) => Taken(t)' = {}
    BY <1>7, <1>8, <2>3, <2>4, AtMoves DEF Books, OffersHold
  <2>6. new.status = "EXPIRED"
    BY DEF Strengthened, TypeOK, TripRow
  <2>. HIDE DEF new
  <2>7. /\ held[t] = IF new.payment = "BLOCKED" THEN 1 ELSE 0
        /\ paid[t] = IF new.payment = "DEDUCTED" THEN 1 ELSE 0
    BY <2>3, <2>4 DEF Books, MoneyHolds
  <2>8. pc'[h] # "expire"
    BY <2>1 DEF ExpireOld, GoTo, Strengthened, TypeOK
  <2>9. h \notin Movers(t)' /\ h \notin Readers(t)' /\ ReadsOld(pc'[h], new)
    BY <1>4, <2>6, <2>8 DEF Movers, Readers, ReadsOld
  <2>10. Settles(h, t)
    BY <1>1, <1>5, <2>2, <2>4, <2>5, <2>7, <2>9 DEF Settles
  <2>. QED BY <2>10, SettledBooks
<1>9. CASE pc[h] # "expire"
  <2>1. trip'[t] = trip[t]
    BY <1>2, <1>3, <1>9, CreationSteps
       DEF ExpireOldOffer, Save, Balance, Put, Ask, Strengthened, TypeOK
  <2>2. trip[t].status = "EXPIRED" => trip[t].status \notin OnTheWay /\ ~Acceptable(trip[t])
    BY DEF Books, RowHolds, Sound, OnTheWay, Acceptable
  <2>3. h \in Retirers(t)' => ReadsOld(pc'[h], trip[t])
    <3>1. CASE pc[h] \in {"expireOffer", "save"}
      BY <1>6, <3>1, CreationSteps DEF ExpireOldOffer, Save, GoTo, ReadsOld, Strengthened, TypeOK
    <3>2. CASE pc[h] = "balance"
      <4>1. Leave(h) \/ Dispatch(h, "emit") \/ GoTo(h, "offer")
        BY <3>2, CreationSteps DEF Balance
      <4>. QED BY <4>1, LeaveMoves, DispatchMoves DEF Retirers, GoTo, Strengthened, TypeOK
    <3>3. CASE pc[h] = "offer"
      <4>1. pc'[h] = "idle" \/ pc'[h] = "offer"
        BY <3>3, CreationSteps, LeaveMoves DEF Ask, Strengthened
      <4>. QED BY <4>1 DEF Retirers
    <3>. QED BY <1>3, <1>9, <3>1, <3>2, <3>3
  <2>. QED BY <1>1, <1>2, <1>4, <1>5, <1>6, <1>7, <2>1, <2>2, <2>3, SparedBooks
           DEF Spares, ReadsOld, Like, Movers, Readers
<1>. QED BY <1>8, <1>9

\* A handler's own trip, as long as it neither writes the row nor moves money.
LEMMA OwnKept ==
    ASSUME Strengthened, NEW h \in Handlers, Step(h), NEW t \in Trips, t \notin strained',
           t = job[h].trip, Books(t), ~Marks(h), Like(trip'[t], trip[t]), UNCHANGED money,
           ~Moved(job[h], pc[h]), ~Moved(job'[h], pc'[h]),
           pc'[h] \notin {"idle", "emit", "offer"} => Reads(job'[h], pc'[h], saw'[h], trip[t])
    PROVE  Books(t)'
<1>1. Serves(h) /\ Moves(h)
  BY StepServes DEF Strengthened, Serves
<1>2. job[h].old # t
  BY NoneIsNoTrip DEF Strengthened, Existing
<1>3. Taken(t)' = Taken(t) /\ \A o \in Taken(t) : offer'[o].driver = offer[o].driver
  BY <1>2, StepTaken DEF Strengthened
<1>4. job'[h].old # t
  BY <1>1, <1>2, NoneIsNoTrip DEF Serves
<1>5. \A j, p, seen : Reads(j, p, seen, trip[t]) => Reads(j, p, seen, trip'[t])
  BY LikeHolds DEF Books, RowHolds
<1>6. h \notin Movers(t) /\ h \notin Movers(t)' /\ h \notin Retirers(t)'
  BY <1>4 DEF Movers, Retirers
<1>7. Spares(h, t)
  BY <1>1, <1>3, <1>5, <1>6 DEF Spares, Readers, money
<1>. QED BY <1>7, SparedBooks

\* What the row of a trip that its handler reads says to it.
LEMMA OwnReads ==
    ASSUME Strengthened, NEW h \in Handlers, NEW t \in Trips, t = job[h].trip, Books(t),
           pc[h] \notin {"idle", "emit", "offer"}
    PROVE  Sound(trip[t]) /\ trip[t] \in TripRow /\ Reads(job[h], pc[h], saw[h], trip[t])
BY DEF Books, RowHolds, Readers, Strengthened, TypeOK

\* A handler's own trip, when its row is written with money and offers in order.
LEMMA OwnPut ==
    ASSUME Strengthened, NEW h \in Handlers, Step(h), NEW t \in Trips, t \notin strained',
           t = job[h].trip, NEW row, Put(h, t, row), Sound(row), UNCHANGED money,
           held[t] = IF row.payment = "BLOCKED" THEN 1 ELSE 0,
           paid[t] = IF row.payment = "DEDUCTED" THEN 1 ELSE 0,
           row.status \in OnTheWay => \E o \in Offers : OnlyOffer(t, o, row.driver),
           Acceptable(row) => Taken(t) = {},
           pc[h] # "mark", ~Moved(job'[h], pc'[h]),
           pc'[h] \notin {"idle", "emit", "offer"} => Reads(job'[h], pc'[h], saw'[h], row)
    PROVE  Books(t)'
<1>1. Serves(h) /\ Moves(h)
  BY StepServes DEF Strengthened, Serves
<1>2. job[h].old # t
  BY NoneIsNoTrip DEF Strengthened, Existing
<1>3. Taken(t)' = Taken(t) /\ \A o \in Taken(t) : offer'[o].driver = offer[o].driver
  BY <1>2, StepTaken DEF Strengthened, Marks
<1>4. job'[h].old # t
  BY <1>1, <1>2, NoneIsNoTrip DEF Serves
<1>5. Deciding(t) \subseteq {h} /\ trip'[t] = row
  BY PutAlone DEF Strengthened
<1>6. row.status \in OnTheWay =>
         \E o \in Offers : Taken(t)' = {o} /\ offer'[o].driver = row.driver
  BY <1>3 DEF OnlyOffer
<1>7. h \notin Movers(t)' /\ h \notin Retirers(t)'
  BY <1>4 DEF Movers, Retirers
<1>8. Settles(h, t)
  BY <1>1, <1>3, <1>5, <1>6, <1>7 DEF Settles, Readers, money
<1>. QED BY <1>8, SettledBooks

\* An untouched row whose only handler has moved nothing agrees with the books.
LEMMA AloneBooks ==
    ASSUME Strengthened, NEW h \in Handlers, NEW t \in Trips, t = job[h].trip, Books(t),
           Deciding(t) \subseteq {h}, ~Moved(job[h], pc[h])
    PROVE  /\ held[t] = IF trip[t].payment = "BLOCKED" THEN 1 ELSE 0
           /\ paid[t] = IF trip[t].payment = "DEDUCTED" THEN 1 ELSE 0
           /\ trip[t].status \in OnTheWay => \E o \in Offers : OnlyOffer(t, o, trip[t].driver)
           /\ Acceptable(trip[t]) => Taken(t) = {}
<1>1. Movers(t) = {}
  BY MoversDecide
<1>2. At(t, "accept") = {} /\ At(t, "cancelByDriver") = {}
  BY <1>1, AtMoves
<1>. QED BY <1>1, <1>2 DEF Books, MoneyHolds, OffersHold

\* What the dispatcher, or a creation, writes on its own trip when it gives up.
LEMMA SearchedPut ==
    ASSUME Strengthened, NEW h \in Handlers, Step(h), NEW t \in Trips, t \notin strained',
           t = job[h].trip, Books(t), trip[t].status \in Searching \cup {"NO_DRIVER"},
           pc[h] \in {"balance", "settle"}, Leave(h), UNCHANGED money,
           NEW new \in GivenUp(trip[t]),
           Put(h, t, new)
    PROVE  Books(t)'
<1>1. Sound(trip[t]) /\ trip[t] \in TripRow
  BY OwnReads
<1>2. /\ Sound(new) /\ new.status \notin OnTheWay
      /\ new.payment = trip[t].payment
      /\ Acceptable(new) => Acceptable(trip[t])
  BY <1>1, SearchedSound
<1>3. ~Moved(job[h], pc[h]) /\ ~Moved(job'[h], pc'[h]) /\ pc'[h] = "idle"
  BY LeaveMoves DEF Moved, Strengthened
<1>4. Deciding(t) \subseteq {h}
  BY PutAlone DEF Strengthened
<1>. QED BY <1>2, <1>3, <1>4, AloneBooks, OwnPut

-----------------------------------------------------------------------------
(* A handler and its own trip, step by step *)

OwnStep(h, t) ==
    /\ Strengthened /\ Step(h) /\ t = job[h].trip
    /\ t \notin strained' /\ Books(t)

\* A handler that returns without having moved anything.
LEMMA OwnLeaves ==
    ASSUME NEW h \in Handlers, NEW t \in Trips, OwnStep(h, t), ~Marks(h), Leave(h),
           UNCHANGED <<trip, money>>, ~Moved(job[h], pc[h])
    PROVE  Books(t)'
<1>1. pc'[h] = "idle"
  BY LeaveMoves DEF OwnStep, Strengthened
<1>2. ~Moved(job'[h], pc'[h])
  BY <1>1 DEF Moved
<1>. QED BY <1>1, <1>2, OwnKept DEF OwnStep, Like

\* The insertion of the trip: nobody else knows it yet, and it has no offers.
LEMMA OwnSave ==
    ASSUME NEW h \in Handlers, NEW t \in Trips, OwnStep(h, t), Save(h)
    PROVE  Books(t)'
<1>1. job[h].op = "create" /\ pc[h] = "save"
  BY PlaceTells DEF OwnStep, Strengthened, TypeOK, Existing, Save
<1>2. trip[t].status = "none" /\ \A g \in Handlers : job[g].trip = t => g = h
  BY <1>1 DEF OwnStep, Strengthened, Existing, Unsaved
<1>3. \A g \in Handlers : job[g].old # t
  BY <1>2, NoneIsNoTrip DEF OwnStep, Strengthened, Existing
<1>4. Deciding(t) \subseteq {h} /\ Movers(t) = {}
  BY <1>1, <1>2, <1>3 DEF Deciding, Movers, Moved
<1>5. held[t] = 0 /\ paid[t] = 0
  BY <1>2, <1>4 DEF OwnStep, Books, RowHolds, MoneyHolds, Sound, OnTheWay
<1>6. Taken(t)' = {}
  BY <1>2 DEF OwnStep, Strengthened, Existing, Save, Taken
<1>7. trip'[t] = NewTrip("PENDING") /\ UNCHANGED money
  BY DEF OwnStep, Strengthened, TypeOK, Save
<1>8. Moves(h) /\ pc'[h] = "balance" /\ job'[h] = job[h]
  BY GoesMoves DEF OwnStep, Strengthened, Save
<1>9. NewTrip("PENDING").payment = "none" /\ NewTrip("PENDING").status = "PENDING"
  BY DEF NewTrip
<1>10. Reads(job'[h], pc'[h], saw'[h], trip'[t])
  BY <1>1, <1>7, <1>8, <1>9 DEF Reads
<1>11. h \notin Movers(t)' /\ h \notin Retirers(t)'
  BY <1>1, <1>3, <1>8 DEF Movers, Moved, Retirers
<1>12. Settles(h, t)
  BY <1>4, <1>5, <1>6, <1>7, <1>8, <1>9, <1>10, <1>11, NewSound DEF Settles, OnTheWay, money
<1>. QED BY <1>12, SettledBooks

\* A creation that retires another trip leaves its own alone.
LEMMA OwnCreation ==
    ASSUME NEW h \in Handlers, NEW t \in Trips, OwnStep(h, t),
           ExpireOld(h) \/ ExpireOldOffer(h) \/ Balance(h)
    PROVE  Books(t)'
<1>. USE DEF OwnStep, Strengthened
<1>1. job[h].op = "create" /\ pc[h] \in {"expire", "expireOffer", "balance"}
  BY PlaceTells DEF TypeOK, Existing, ExpireOld, ExpireOldOffer, Balance
<1>2. ~Marks(h) /\ ~Moved(job[h], pc[h])
  BY <1>1 DEF Marks, Moved
<1>3. CASE ExpireOld(h) \/ ExpireOldOffer(h)
  <2>1. trip'[t] = trip[t]
    BY <1>3, NoneIsNoTrip DEF ExpireOld, ExpireOldOffer, Put, Existing, TypeOK
  <2>2. pc'[h] \in {"expireOffer", "save"} /\ job'[h] = job[h] /\ UNCHANGED money
    BY <1>3, GoesMoves DEF ExpireOld, ExpireOldOffer
  <2>3. Reads(job'[h], pc'[h], saw'[h], trip[t]) /\ ~Moved(job'[h], pc'[h])
    BY <1>1, <2>2 DEF Reads, Moved
  <2>. QED BY <1>2, <2>1, <2>2, <2>3, OwnKept DEF Like
<1>4. CASE Balance(h)
  <2>1. CASE Put(h, t, [trip[t] EXCEPT !.status = "EXPIRED", !.expiredAt = TRUE]) /\ Leave(h)
    <3>1. trip[t].status = "PENDING"
      BY <1>1, <1>4, OwnReads DEF Balance, Reads
    <3>2. PICK new \in GivenUp(trip[t]) : Put(h, t, new)
      BY <2>1 DEF GivenUp
    <3>. QED BY <1>4, <2>1, <3>1, <3>2, SearchedPut DEF Balance, Searching
  <2>2. CASE /\ UNCHANGED <<trip, strained>>
             /\ Dispatch(h, "emit") \/ (GoTo(h, "offer") /\ UNCHANGED <<job, saw>>)
    <3>1. pc'[h] \in {"emit", "offer"}
      BY <2>2, DispatchMoves DEF GoTo, TypeOK
    <3>2. ~Moved(job'[h], pc'[h])
      BY <3>1 DEF Moved
    <3>. QED BY <1>2, <1>4, <2>2, <3>1, <3>2, OwnKept DEF Balance, Like
  <2>. QED BY <1>4, <2>1, <2>2 DEF Balance
<1>. QED BY <1>3, <1>4

\* A dispatcher that only reads goes on with what it has read.
LEMMA OwnSearch ==
    ASSUME NEW h \in Handlers, NEW t \in Trips, OwnStep(h, t),
           \/ Emit(h) \/ Look(h) \/ Search(h)
           \/ \E d \in Drivers : Ask(h, d)
    PROVE  Books(t)'
<1>. USE DEF OwnStep, Strengthened
<1>1. job[h] \in JobRecord /\ Stands(job[h], pc[h])
  BY DEF TypeOK, Existing
<1>2. pc[h] \in {"emit", "look", "search", "offer"} /\ UNCHANGED <<trip, money>>
  BY DEF Emit, Look, Search, Ask
<1>3. ~Marks(h) /\ ~Moved(job[h], pc[h])
  BY <1>2 DEF Marks, Moved
<1>4. job[h].op \in {"create", "dispatch"} /\ (pc[h] # "offer" => job[h].op = "dispatch")
  BY <1>1, <1>2, PlaceTells
<1>5. CASE Leave(h)
  BY <1>2, <1>3, <1>5, OwnLeaves
<1>6. ASSUME pc'[h] \in {"look", "search", "settle", "reset"}, job'[h].op = "dispatch",
             trip[t].status \in Searching \cup {"NO_DRIVER"},
             pc'[h] = "search" => saw'[h] = trip[t],
             pc'[h] = "reset" => /\ trip[t].status = "PENDING"
                                 /\ trip[t].previous = "CANCELLED_BEFORE_ARRIVED"
      PROVE  Books(t)'
  <2>1. Reads(job'[h], pc'[h], saw'[h], trip[t]) /\ ~Moved(job'[h], pc'[h])
    BY <1>6 DEF Reads, Moved
  <2>. QED BY <1>2, <1>3, <2>1, OwnKept DEF Like
<1>7. CASE Emit(h)
  BY <1>4, <1>5, <1>6, <1>7, GoesMoves DEF Emit
<1>8. CASE Look(h)
  <2>1. trip[t].status \in Searching \cup {"NO_DRIVER"}
    BY <1>8, OwnReads DEF Look, Reads
  <2>2. job'[h].op = job[h].op
    BY <1>1, <1>8 DEF Look, TypeOK, JobRecord
  <2>3. pc'[h] \in {"search", "settle"} /\ saw'[h] = trip[t]
    BY <1>8 DEF Look, GoTo, TypeOK
  <2>. QED BY <1>4, <1>6, <1>8, <2>1, <2>2, <2>3 DEF Look
<1>9. CASE Search(h)
  <2>1. /\ trip[t].status \in Searching \cup {"NO_DRIVER"}
        /\ saw[h].status = trip[t].status /\ saw[h].previous = trip[t].previous
    BY <1>9, OwnReads DEF Search, Reads
  <2>2. ASSUME NEW plan, job' = [job EXCEPT ![h].plan = plan], GoTo(h, "settle")
        PROVE  Books(t)'
    <3>1. job'[h].op = job[h].op
      BY <1>1, <2>2 DEF TypeOK, JobRecord
    <3>2. pc'[h] = "settle"
      BY <2>2 DEF GoTo, TypeOK
    <3>. QED BY <1>4, <1>6, <1>9, <2>1, <3>1, <3>2 DEF Search
  <2>3. ASSUME UNCHANGED <<job, saw>>,
               GoTo(h, IF RequestedStatus(saw[h]) = "CANCELLED_BY_DRIVER" THEN "reset" ELSE "offer")
        PROVE  Books(t)'
    <3>1. CASE RequestedStatus(saw[h]) = "CANCELLED_BY_DRIVER"
      <4>1. trip[t].status = "PENDING" /\ trip[t].previous = "CANCELLED_BEFORE_ARRIVED"
        BY <2>1, <3>1 DEF RequestedStatus
      <4>2. pc'[h] = "reset"
        BY <2>3, <3>1 DEF GoTo, TypeOK
      <4>. QED BY <1>4, <1>6, <1>9, <2>1, <2>3, <4>1, <4>2 DEF Search
    <3>2. CASE RequestedStatus(saw[h]) # "CANCELLED_BY_DRIVER"
      <4>1. pc'[h] = "offer"
        BY <2>3, <3>2 DEF GoTo, TypeOK
      <4>2. ~Moved(job'[h], pc'[h])
        BY <4>1 DEF Moved
      <4>. QED BY <1>2, <1>3, <4>1, <4>2, OwnKept DEF Like
    <3>. QED BY <3>1, <3>2
  <2>4. \/ Leave(h)
        \/ \E plan : job' = [job EXCEPT ![h].plan = plan] /\ GoTo(h, "settle")
        \/ /\ UNCHANGED <<job, saw>>
           /\ GoTo(h, IF RequestedStatus(saw[h]) = "CANCELLED_BY_DRIVER" THEN "reset" ELSE "offer")
    BY <1>9 DEF Search
  <2>. QED BY <1>5, <2>2, <2>3, <2>4
<1>10. ASSUME NEW d \in Drivers, Ask(h, d) PROVE Books(t)'
  <2>1. CASE UNCHANGED pc
    <3>1. pc'[h] = "offer" /\ ~Moved(job'[h], pc'[h])
      BY <1>10, <2>1 DEF Ask, Moved
    <3>. QED BY <1>2, <1>3, <3>1, OwnKept DEF Like
  <2>. QED BY <1>5, <1>10, <2>1 DEF Ask
<1>. QED BY <1>7, <1>8, <1>9, <1>10

\* What a dispatcher writes: that it gives up, or that the trip can be asked for
\* again, in the row its driver gave back.
LEMMA OwnDispatch ==
    ASSUME NEW h \in Handlers, NEW t \in Trips, OwnStep(h, t),
           SettleSearch(h) \/ Reset(h) \/ PendAgain(h)
    PROVE  Books(t)'
<1>. USE DEF OwnStep, Strengthened
<1>1. job[h] \in JobRecord /\ Stands(job[h], pc[h])
  BY DEF TypeOK, Existing
<1>2. pc[h] \in {"settle", "reset", "again"} /\ UNCHANGED money
  BY DEF SettleSearch, Reset, PendAgain
<1>3. Reads(job[h], pc[h], saw[h], trip[t]) /\ Sound(trip[t]) /\ trip[t] \in TripRow
  BY <1>2, OwnReads
<1>4. ~Moved(job[h], pc[h])
  BY <1>2 DEF Moved
<1>5. CASE SettleSearch(h)
  <2>1. PICK new \in GivenUp(trip[t]) : Put(h, t, new)
    BY <1>5 DEF SettleSearch, GivenUp
  <2>2. trip[t].status \in Searching \cup {"NO_DRIVER"}
    BY <1>3, <1>5 DEF SettleSearch, Reads
  <2>. QED BY <1>2, <1>5, <2>1, <2>2, SearchedPut DEF SettleSearch
<1>6. CASE Reset(h)
  <2>1. PICK new : /\ Put(h, t, new)
                   /\ new = [trip[t] EXCEPT !.driver = None, !.cancelledAt = FALSE,
                                            !.assignedAt = FALSE, !.payment = "none"]
    BY <1>6 DEF Reset
  <2>2. trip[t].status = "PENDING" /\ trip[t].previous = "CANCELLED_BEFORE_ARRIVED"
    BY <1>3, <1>6 DEF Reset, Reads
  <2>3. /\ Sound(new) /\ new.status = trip[t].status
        /\ new.payment \notin {"BLOCKED", "DEDUCTED"} /\ ~Acceptable(new)
        /\ trip[t].payment \notin {"BLOCKED", "DEDUCTED"}
    BY <1>3, <2>1, <2>2, ResetSound
  <2>4. held[t] = 0 /\ paid[t] = 0
    BY <1>4, <2>1, <2>3, AloneBooks, PutAlone
  <2>5. pc'[h] = "offer" /\ ~Moved(job'[h], pc'[h])
    BY <1>6, GoesMoves DEF Reset, Moved
  <2>. QED BY <1>2, <1>6, <2>1, <2>2, <2>3, <2>4, <2>5, OwnPut DEF OnTheWay, Reset
<1>7. CASE PendAgain(h)
  <2>1. PICK new : Put(h, t, new) /\ new = [trip[t] EXCEPT !.status = "PENDING"]
    BY <1>7 DEF PendAgain
  <2>2. trip[t].status = "CANCELLED_BY_DRIVER" /\ ~trip[t].reachedAt
    BY <1>3, <1>7 DEF PendAgain, Reads
  <2>3. /\ Sound(new) /\ new.status = "PENDING" /\ new.payment = trip[t].payment
        /\ trip[t].payment \notin {"BLOCKED", "DEDUCTED"} /\ ~Acceptable(new)
    BY <1>3, <2>1, <2>2, PendSound
  <2>4. held[t] = 0 /\ paid[t] = 0
    BY <1>4, <2>1, <2>3, AloneBooks, PutAlone
  <2>5. pc'[h] = "look" /\ job'[h].op = "dispatch"
    <3>1. Dispatch(h, "look")
      BY <1>7 DEF PendAgain
    <3>2. pc'[h] = "look" /\ job'[h] = Job("dispatch", job[h].trip, None, None, "none", None)
      BY <3>1, DispatchMoves
    <3>. QED BY <3>2 DEF Job
  <2>6. Reads(job'[h], pc'[h], saw'[h], new) /\ ~Moved(job'[h], pc'[h])
    BY <2>3, <2>5 DEF Reads, Moved, Searching
  <2>. QED BY <1>2, <1>7, <2>1, <2>3, <2>4, <2>6, OwnPut DEF OnTheWay, PendAgain
<1>. QED BY <1>5, <1>6, <1>7

\* An acceptance that finds the driver's offer, and a rejection.
LEMMA OwnAnswer ==
    ASSUME NEW h \in Handlers, NEW t \in Trips, OwnStep(h, t), MatchOffer(h) \/ MarkDeclined(h)
    PROVE  Books(t)'
<1>. USE DEF OwnStep, Strengthened
<1>1. job[h] \in JobRecord /\ Stands(job[h], pc[h]) /\ trip[t] \in TripRow
  BY DEF TypeOK, Existing
<1>2. pc[h] \in {"match", "mark"} /\ UNCHANGED money
  BY DEF MatchOffer, MarkDeclined
<1>3. Reads(job[h], pc[h], saw[h], trip[t])
  BY <1>2, OwnReads
<1>4. CASE MatchOffer(h)
  <2>1. job[h].op = "accept" /\ ~Marks(h) /\ ~Moved(job[h], pc[h])
    BY <1>1, <1>4, PlaceTells DEF MatchOffer, Marks, Moved
  <2>2. CASE Leave(h) /\ UNCHANGED trip
    BY <1>2, <2>1, <2>2, OwnLeaves
  <2>3. ASSUME NEW o \in Pending(Offers), job' = [job EXCEPT ![h].offer = o],
               trip' = [trip EXCEPT ![t].cab = @ \/ ~saw[h].cab], GoTo(h, "hold")
        PROVE  Books(t)'
    <3>1. Like(trip'[t], trip[t])
      <4> DEFINE yes == trip[t].cab \/ ~saw[h].cab
      <4>1. trip'[t] = [trip[t] EXCEPT !.cab = yes]
        BY <2>3 DEF TypeOK
      <4>. HIDE DEF yes
      <4>. QED BY <1>1, <4>1 DEF Like, TripRow
    <3>2. job'[h].op = "accept" /\ pc'[h] = "hold"
      BY <1>1, <2>1, <2>3 DEF TypeOK, JobRecord, GoTo
    <3>3. Acceptable(trip[t])
      BY <1>3, <2>1 DEF Reads
    <3>4. Reads(job'[h], pc'[h], saw'[h], trip[t]) /\ ~Moved(job'[h], pc'[h])
      BY <3>2, <3>3 DEF Reads, Moved
    <3>. QED BY <1>2, <2>1, <3>1, <3>4, OwnKept
  <2>. QED BY <1>4, <2>2, <2>3 DEF MatchOffer
<1>5. CASE MarkDeclined(h)
  <2>1. job[h].op = "reject" /\ ~Marks(h) /\ ~Moved(job[h], pc[h])
    BY <1>5 DEF MarkDeclined, Marks, Moved
  <2>2. UNCHANGED trip
    BY <1>5 DEF MarkDeclined
  <2>3. CASE Leave(h)
    BY <1>2, <2>1, <2>2, <2>3, OwnLeaves
  <2>4. CASE GoTo(h, "write") /\ UNCHANGED local
    <3>1. pc'[h] = "write" /\ job'[h] = job[h]
      BY <2>4, GoesMoves
    <3>2. Reads(job'[h], pc'[h], saw'[h], trip[t]) /\ ~Moved(job'[h], pc'[h])
      BY <1>3, <2>1, <3>1 DEF Reads, Moved
    <3>. QED BY <1>2, <2>1, <2>2, <3>2, OwnKept DEF Like
  <2>. QED BY <1>5, <2>3, <2>4 DEF MarkDeclined
<1>. QED BY <1>4, <1>5

\* While somebody is on the way with the hold still open, nobody has moved money.
LEMMA OpenHold ==
    ASSUME NEW t \in Trips, Books(t), trip[t].status \in OnTheWay, held[t] # 0
    PROVE  /\ Movers(t) = {} /\ held[t] = 1 /\ paid[t] = 0
<1>1. ASSUME NEW g \in Movers(t) PROVE FALSE
  <2>1. Movers(t) = {g}
    BY <1>1 DEF Books, MoneyHolds
  <2>2. job[g].op = "accept"
    BY <1>1, <2>1 DEF Books, MoneyHolds
  <2>3. g \in Readers(t)
    BY <1>1, MoversDecide DEF Movers, Moved, Readers
  <2>. QED BY <2>2, <2>3 DEF Books, RowHolds, Reads, Sound, Acceptable, OnTheWay
<1>2. Movers(t) = {}
  BY <1>1
<1>. QED BY <1>2 DEF Books, RowHolds, MoneyHolds, Sound

\* A handler that starts to move money: if it is the only one, it knows what it did.
LEMMA JoinsBooks ==
    ASSUME NEW h \in Handlers, NEW t \in Trips, OwnStep(h, t), UNCHANGED <<trip, offer>>,
           job'[h] = job[h], h \notin Movers(t), h \in Movers(t)',
           pc'[h] = "write" => job[h].op \notin {"accept", "cancelByDriver"},
           Reads(job'[h], pc'[h], saw'[h], trip[t]),
           trip[t].status \in OnTheWay => Movers(t) = {},
           Movers(t) = {} =>
              IF job[h].op = "accept" THEN held'[t] = 1 /\ paid'[t] = 0
              ELSE /\ trip[t].status \in OnTheWay /\ held'[t] = 0
                   /\ paid'[t] = IF job[h].plan = "confirm" THEN 1 ELSE 0
    PROVE  Books(t)'
<1>1. Moves(h)
  BY StepServes DEF OwnStep, Strengthened, Serves
<1>2. job[h].old # t
  BY NoneIsNoTrip DEF OwnStep, Strengthened, Existing
<1>3. Movers(t)' = Movers(t) \cup {h}
  BY <1>1 DEF Movers, Moves
<1>4. /\ At(t, "accept")' = At(t, "accept") /\ At(t, "cancelByDriver")' = At(t, "cancelByDriver")
      /\ h \notin At(t, "accept")
  <2>1. h \notin At(t, "accept") /\ h \notin At(t, "cancelByDriver")
    BY AtMoves
  <2>. QED BY <1>1, <2>1 DEF At, Moves
<1>5. RowHolds(t)'
  BY <1>1, <1>2 DEF OwnStep, Books, RowHolds, Readers, Retirers, Moves
<1>6. MoneyHolds(t)'
  <2>1. \A g \in Movers(t)' : Movers(t)' = {g} => Movers(t) = {} /\ g = h
    BY <1>3
  <2>. QED BY <1>3, <2>1 DEF MoneyHolds
<1>7. OffersHold(t)'
  <2>1. \A g \in At(t, "accept") : job'[g] = job[g]
    BY <1>1, <1>4 DEF At, Moves
  <2>2. Taken(t)' = Taken(t) /\ \A o, d : OnlyOffer(t, o, d) => Taken(t)' = {o} /\ offer'[o].driver = d
    BY DEF Taken, OnlyOffer
  <2>3. OffersHold(t)
    BY DEF OwnStep, Books
  <2>. QED BY <1>4, <2>1, <2>2, <2>3 DEF OffersHold, OnlyOffer
<1>. QED BY <1>5, <1>6, <1>7 DEF Books

\* The calls of the payment service.
LEMMA OwnMoney ==
    ASSUME NEW h \in Handlers, NEW t \in Trips, OwnStep(h, t), Hold(h) \/ Confirm(h) \/ Release(h)
    PROVE  Books(t)'
<1>. USE DEF OwnStep, Strengthened
<1>1. job[h] \in JobRecord /\ Stands(job[h], pc[h]) /\ Placed(job[h], pc[h])
  BY DEF TypeOK, Existing, Shape
<1>2. pc[h] \in {"hold", "confirm", "release"} /\ UNCHANGED <<trip, offer>>
  BY DEF Hold, Confirm, Release, Refused
<1>3. Reads(job[h], pc[h], saw[h], trip[t]) /\ Sound(trip[t])
  BY <1>2, OwnReads
<1>4. ~Marks(h) /\ ~Moved(job[h], pc[h]) /\ h \notin Movers(t)
  BY <1>2 DEF Marks, Moved, Movers
<1>5. CASE Refused(h)
  BY <1>4, <1>5, OwnLeaves DEF Refused
<1>6. MoneyHolds(t) /\ (trip[t].status \in OnTheWay <=> trip[t].payment = "BLOCKED")
  BY <1>3 DEF Books, Sound
<1>7. CASE Hold(h)
  <2>1. job[h].op = "accept" /\ Acceptable(trip[t])
    BY <1>1, <1>3, <1>7, PlaceTells DEF Hold, Reads
  <2>2. trip[t].status \notin OnTheWay /\ trip[t].payment \notin {"BLOCKED", "DEDUCTED"}
    BY <1>3, <2>1 DEF Sound, Acceptable, OnTheWay
  <2>3. CASE held' = [held EXCEPT ![t] = @ + 1] /\ GoTo(h, "mark") /\ UNCHANGED <<paid, local>>
    <3>1. pc'[h] = "mark" /\ job'[h] = job[h] /\ saw'[h] = saw[h]
      BY <2>3, GoesMoves
    <3>2. h \in Movers(t)' /\ Reads(job'[h], pc'[h], saw'[h], trip[t])
      BY <2>1, <3>1 DEF Movers, Moved, Reads
    <3>3. Movers(t) = {} => held'[t] = 1 /\ paid'[t] = 0
      BY <2>2, <2>3 DEF Books, MoneyHolds, TypeOK
    <3>. QED BY <1>2, <1>4, <2>1, <2>2, <3>1, <3>2, <3>3, JoinsBooks
  <2>. QED BY <1>5, <1>7, <2>3 DEF Hold
<1>8. CASE Confirm(h)
  <2>1. /\ job[h].op \in {"complete", "cancelByRider"} /\ job[h].plan = "confirm"
        /\ trip[t].status \in OnTheWay
    <3>1. job[h].op \in {"complete", "cancelByRider"}
      BY <1>1, <1>8, PlaceTells DEF Confirm
    <3>2. job[h].plan = "confirm"
      BY <1>1, <1>8, <3>1 DEF Confirm, Stands, Placed
    <3>. QED BY <1>3, <3>1, <3>2 DEF Reads, OnTheWay
  <2>2. CASE /\ held[t] > 0 /\ held' = [held EXCEPT ![t] = @ - 1]
             /\ paid' = [paid EXCEPT ![t] = @ + 1]
             /\ GoTo(h, "write") /\ UNCHANGED local
    <3>1. pc'[h] = "write" /\ job'[h] = job[h] /\ saw'[h] = saw[h]
      BY <2>2, GoesMoves
    <3>2. h \in Movers(t)' /\ Reads(job'[h], pc'[h], saw'[h], trip[t])
      BY <1>3, <2>1, <3>1 DEF Movers, Moved, Reads
    <3>3. Movers(t) = {} /\ held[t] = 1 /\ paid[t] = 0
      BY <2>1, <2>2, OpenHold DEF TypeOK
    <3>4. held'[t] = 0 /\ paid'[t] = 1
      BY <2>2, <3>3 DEF TypeOK
    <3>. QED BY <1>2, <1>4, <2>1, <3>1, <3>2, <3>3, <3>4, JoinsBooks
  <2>. QED BY <1>5, <1>8, <2>2 DEF Confirm
<1>9. CASE Release(h)
  <2>1. /\ job[h].op \in {"cancelByRider", "cancelByDriver", "cancelByAdmin"}
        /\ job[h].plan # "confirm" /\ (job[h].op = "cancelByRider" => job[h].plan # "write")
    <3>1. job[h].op \in {"cancelByRider", "cancelByDriver", "cancelByAdmin"}
      BY <1>1, <1>9, PlaceTells DEF Release
    <3>2. pc[h] = "release"
      BY <1>9 DEF Release
    <3>. QED BY <1>1, <3>1, <3>2 DEF Stands, Placed
  <2>2. CASE /\ held[t] > 0 /\ held' = [held EXCEPT ![t] = @ - 1]
             /\ GoTo(h, IF job[h].op = "cancelByDriver" THEN "mark" ELSE "write")
             /\ UNCHANGED <<paid, local>>
    <3>1. /\ pc'[h] = IF job[h].op = "cancelByDriver" THEN "mark" ELSE "write"
          /\ job'[h] = job[h] /\ saw'[h] = saw[h]
      BY <2>2, GoesMoves
    <3>2. h \in Movers(t)' /\ Reads(job'[h], pc'[h], saw'[h], trip[t])
      <4>1. pc[h] # "again" /\ pc'[h] # "again" /\ pc'[h] \notin {"look", "search", "settle", "reset"}
        BY <1>2, <3>1
      <4>2. h \in Movers(t)'
        BY <2>1, <3>1 DEF Movers, Moved
      <4>. QED BY <1>3, <2>1, <3>1, <4>1, <4>2 DEF Reads
    <3>3. held[t] # 0
      BY <2>2 DEF TypeOK
    <3>4. trip[t].status \in OnTheWay => Movers(t) = {} /\ held[t] = 1 /\ paid[t] = 0
      BY <3>3, OpenHold
    <3>5. Movers(t) = {} => trip[t].status \in OnTheWay
      BY <1>6, <3>3 DEF MoneyHolds
    <3>6. Movers(t) = {} => trip[t].status \in OnTheWay /\ held'[t] = 0 /\ paid'[t] = 0
      BY <2>2, <3>4, <3>5 DEF TypeOK
    <3>. QED BY <1>2, <1>4, <2>1, <3>1, <3>2, <3>4, <3>6, JoinsBooks
  <2>. QED BY <1>5, <1>9, <2>2 DEF Release
<1>. QED BY <1>7, <1>8, <1>9

\* The offer that is accepted, and the one the driver's cancellation gives back:
\* the handler has moved money before, and finds the offer it looks for.
LEMMA OwnMark ==
    ASSUME NEW h \in Handlers, NEW t \in Trips, OwnStep(h, t), MarkAccepted(h) \/ MarkCancelled(h)
    PROVE  Books(t)'
<1>. USE DEF OwnStep, Strengthened
<1>1. /\ pc[h] = "mark" /\ job[h].op \in {"accept", "cancelByDriver"}
      /\ UNCHANGED <<trip, money>>
  BY DEF MarkAccepted, MarkCancelled
<1>2. Reads(job[h], pc[h], saw[h], trip[t]) /\ Sound(trip[t])
  BY <1>1, OwnReads
<1>3. h \in Movers(t) /\ t \notin strained
  <2>1. t \notin strained
    BY StepElsewhere DEF Elsewhere
  <2>. QED BY <1>1, <2>1 DEF Movers, Moved
<1>4. job[h].old # t
  BY NoneIsNoTrip DEF Existing
<1>5. ASSUME GoTo(h, "write"), UNCHANGED local
      PROVE  /\ RowHolds(t)' /\ MoneyHolds(t)'
             /\ Movers(t)' = Movers(t)
             /\ \A g \in Handlers : job'[g] = job[g]
             /\ At(t, job[h].op)' = At(t, job[h].op) \cup {h}
  <2>1. /\ Moves(h) /\ pc'[h] = "write" /\ job'[h] = job[h] /\ saw'[h] = saw[h]
    BY <1>5, GoesMoves
  <2>2. Reads(job'[h], pc'[h], saw'[h], trip[t])
    BY <1>1, <1>2, <2>1 DEF Reads
  <2>3. Movers(t)' = Movers(t) /\ \A g \in Handlers : job'[g] = job[g]
    BY <1>1, <1>3, <2>1 DEF Movers, Moves, Moved
  <2>4. RowHolds(t)'
    BY <1>1, <1>4, <2>1, <2>2 DEF Books, RowHolds, Readers, Retirers, Moves
  <2>5. MoneyHolds(t)'
    BY <1>1, <2>3 DEF Books, MoneyHolds, Movers, money
  <2>6. At(t, job[h].op)' = {g \in Handlers : job[g].trip = t /\ job[g].op = job[h].op /\ pc'[g] = "write"}
    BY <2>1, <2>3 DEF At
  <2>. QED BY <2>1, <2>3, <2>4, <2>5, <2>6 DEF At, Moves
<1>6. CASE MarkAccepted(h)
  <2>1. /\ job[h].op = "accept" /\ Acceptable(trip[t])
        /\ job[h].offer \in Offers /\ offer[job[h].offer].driver = job[h].driver
        /\ offer[job[h].offer].trip = t
    BY <1>1, <1>2, <1>3, <1>6 DEF MarkAccepted, Reads, OffersRemembered
  <2>2. GoTo(h, "write") /\ UNCHANGED local /\ h \notin At(t, "accept")
    BY <1>1, <1>6 DEF MarkAccepted, At
  <2>3. At(t, "accept")' = At(t, "accept") \cup {h}
    BY <1>5, <2>1, <2>2
  <2>4. trip[t].status \notin OnTheWay
    BY <1>2, <2>1 DEF Sound, Acceptable, OnTheWay
  <2>5. At(t, "accept") = {} => Taken(t) = {}
    BY <2>1 DEF Books, OffersHold
  <2>6. /\ Taken(t)' = Taken(t) \cup {job[h].offer}
        /\ offer'[job[h].offer].driver = job[h].driver
    BY <1>6, <2>1 DEF MarkAccepted, Taken, TypeOK, OfferRow
  <2>7. \A g \in At(t, "accept")' : At(t, "accept")' = {g} =>
           Taken(t)' = {job'[g].offer} /\ offer'[job'[g].offer].driver = job'[g].driver
    BY <1>5, <2>2, <2>3, <2>5, <2>6
  <2>8. OffersHold(t)'
    BY <1>1, <2>3, <2>4, <2>7 DEF OffersHold, OnlyOffer
  <2>. QED BY <1>5, <2>2, <2>8 DEF Books
<1>7. CASE MarkCancelled(h)
  <2>1. /\ job[h].op = "cancelByDriver" /\ trip[t].status \in OnTheWay
        /\ job[h].driver = trip[t].driver
    BY <1>1, <1>2, <1>7 DEF MarkCancelled, Reads
  <2>2. Movers(t) = {h}
    BY <1>3, <2>1 DEF Books, MoneyHolds
  <2>3. At(t, "cancelByDriver") = {}
    BY <1>1, <2>2, AtMoves DEF At
  <2>4. PICK o \in Offers : Taken(t) = {o} /\ offer[o].driver = trip[t].driver
    BY <2>1, <2>3 DEF Books, OffersHold, OnlyOffer
  <2>5. o \in OffersOf(t) /\ offer[o].status = "ACCEPTED"
    BY <2>4 DEF Taken, OffersOf
  <2>6. GoTo(h, "write") /\ UNCHANGED local
    BY <1>7, <2>1, <2>4, <2>5 DEF MarkCancelled
  <2>7. At(t, "cancelByDriver")' # {} /\ At(t, "accept")' = {}
    <3>1. Movers(t)' = {h} /\ job'[h].op # "accept"
      BY <1>5, <2>1, <2>2, <2>6
    <3>2. At(t, "accept")' \subseteq Movers(t)'
      BY DEF At, Movers, Moved
    <3>3. At(t, "accept")' = {}
      BY <3>1, <3>2 DEF At
    <3>. QED BY <1>5, <2>1, <2>6, <3>3
  <2>8. ~Acceptable(trip[t])
    BY <1>2, <2>1 DEF Sound, Acceptable, OnTheWay
  <2>9. OffersHold(t)'
    BY <1>1, <2>7, <2>8 DEF OffersHold
  <2>. QED BY <1>5, <2>6, <2>9 DEF Books
<1>. QED BY <1>6, <1>7

\* The last write of a handler that is alone with its trip.
LEMMA OwnWrite ==
    ASSUME NEW h \in Handlers, NEW t \in Trips, OwnStep(h, t), WriteTrip(h)
    PROVE  Books(t)'
<1>. USE DEF OwnStep, Strengthened
<1>1. /\ job[h] \in JobRecord /\ Stands(job[h], "write") /\ Placed(job[h], "write")
      /\ pc[h] = "write" /\ UNCHANGED money /\ saw[h] \in TripRow
  BY DEF TypeOK, Existing, Shape, WriteTrip
<1>2. Reads(job[h], "write", saw[h], trip[t]) /\ Sound(trip[t]) /\ trip[t] \in TripRow
  BY <1>1, OwnReads
<1>3. PICK new : Put(h, t, new) /\ new = WrittenRow(job[h], trip[t], saw[h])
  BY DEF WriteTrip
<1>4. Sound(new)
  BY <1>1, <1>2, <1>3, WrittenSound
<1>5. /\ job[h].op = "complete" => job[h].plan = "confirm"
      /\ job[h].op \notin {"complete", "cancelByRider"} => job[h].plan # "confirm"
  BY <1>1 DEF Placed
<1>6. /\ job[h].op = "accept" => new.status \in OnTheWay /\ new.driver = job[h].driver
      /\ job[h].op # "accept" => /\ Acceptable(new) => Acceptable(trip[t])
                                 /\ new.status \in OnTheWay =>
                                       trip[t].status \in OnTheWay /\ new.driver = trip[t].driver
      /\ job[h].op = "cancelByDriver" => new.status \notin OnTheWay
      /\ IF ~Moved(job[h], "write")
         THEN /\ new.payment = "BLOCKED" <=> trip[t].payment = "BLOCKED"
              /\ new.payment = "DEDUCTED" <=> trip[t].payment = "DEDUCTED"
         ELSE IF job[h].op = "accept" THEN new.payment = "BLOCKED"
         ELSE IF job[h].plan = "confirm" THEN new.payment = "DEDUCTED"
         ELSE new.payment = "RELEASED"
  BY <1>1, <1>2, <1>3, <1>5, WrittenBooks
<1>7. Deciding(t) \subseteq {h} /\ h \in Readers(t)
  BY <1>1, <1>3, PutAlone DEF Readers
<1>8. /\ held[t] = IF new.payment = "BLOCKED" THEN 1 ELSE 0
      /\ paid[t] = IF new.payment = "DEDUCTED" THEN 1 ELSE 0
  BY <1>1, <1>6, <1>7, AloneMoney
<1>9. \A op \in {"accept", "cancelByDriver"} :
         At(t, op) = IF job[h].op = op THEN {h} ELSE {}
  <2>1. \A op \in {"accept", "cancelByDriver"} : At(t, op) \subseteq {h}
    BY <1>7, MoversDecide, AtMoves
  <2>. QED BY <1>1, <2>1 DEF At
<1>10. new.status \in OnTheWay => \E o \in Offers : OnlyOffer(t, o, new.driver)
  <2>1. CASE job[h].op = "accept"
    <3>1. job[h].offer \in Offers
      BY <1>1, <2>1 DEF OffersRemembered
    <3>2. OnlyOffer(t, job[h].offer, job[h].driver)
      BY <1>9, <2>1 DEF Books, OffersHold
    <3>. QED BY <1>6, <2>1, <3>1, <3>2
  <2>2. CASE job[h].op # "accept"
    BY <1>6, <1>9, <2>2 DEF Books, OffersHold
  <2>. QED BY <2>1, <2>2
<1>11. Acceptable(new) => Taken(t) = {}
  <2>1. CASE job[h].op = "accept"
    BY <1>4, <1>6, <2>1 DEF Sound, Acceptable, OnTheWay
  <2>2. CASE job[h].op # "accept"
    BY <1>6, <1>9, <2>2 DEF Books, OffersHold
  <2>. QED BY <2>1, <2>2
<1>12. /\ ~Moved(job'[h], pc'[h])
       /\ pc'[h] \notin {"idle", "emit", "offer"} => Reads(job'[h], pc'[h], saw'[h], new)
  <2>1. CASE Leave(h)
    BY <2>1, LeaveMoves DEF Moved
  <2>2. CASE Dispatch(h, "emit")
    BY <2>2, DispatchMoves DEF Moved
  <2>3. CASE /\ job[h].op = "cancelByDriver" /\ saw[h].status = "ACCEPTED_BY_DRIVER"
             /\ GoTo(h, "again") /\ UNCHANGED local
    <3>1. pc'[h] = "again" /\ job'[h] = job[h] /\ saw'[h] = saw[h]
      BY <2>3, GoesMoves
    <3>2. ~trip[t].reachedAt
      BY <1>2, <2>3 DEF Reads, Sound
    <3>3. new = CancelledRow(trip[t], saw[h])
      BY <1>3, <2>3 DEF WrittenRow
    <3>4. new.status = "CANCELLED_BY_DRIVER" /\ ~new.reachedAt
      BY <1>2, <3>2, <3>3 DEF CancelledRow, TripRow
    <3>. QED BY <2>3, <3>1, <3>4 DEF Moved, Reads
  <2>. QED BY <2>1, <2>2, <2>3 DEF WriteTrip
<1>. QED BY <1>1, <1>3, <1>4, <1>8, <1>10, <1>11, <1>12, OwnPut

\* So no handler spoils the books of its own trip.
LEMMA OwnBooks ==
    ASSUME NEW h \in Handlers, NEW t \in Trips, OwnStep(h, t)
    PROVE  Books(t)'
BY OwnSave, OwnCreation, OwnSearch, OwnDispatch, OwnAnswer, OwnMoney, OwnMark, OwnWrite
   DEF OwnStep, Step

\* Nor of any other, unless it strains it.
LEMMA StepHolds ==
    ASSUME Strengthened, NEW h \in Handlers, Step(h), NEW t \in Trips, TripHolds(t)
    PROVE  TripHolds(t)'
<1>1. SUFFICES ASSUME t \notin strained' PROVE Books(t)'
  BY DEF TripHolds
<1>2. Books(t)
  BY <1>1, StepElsewhere DEF TripHolds, Elsewhere, Strengthened
<1>3. CASE t = job[h].trip
  BY <1>1, <1>2, <1>3, OwnBooks DEF OwnStep
<1>4. CASE t = job[h].old
  BY <1>1, <1>2, <1>4, OldBooks
<1>5. CASE t \notin {job[h].trip, job[h].old}
  BY <1>1, <1>2, <1>5, AwaySpared, SparedBooks
<1>. QED BY <1>3, <1>4, <1>5

-----------------------------------------------------------------------------
(* A handler that begins, or dies *)

\* The offers keep their trip and driver, and whether they were accepted.
OffersStand ==
    \A o \in Offers :
        /\ offer'[o].trip = offer[o].trip /\ offer'[o].driver = offer[o].driver
        /\ offer'[o].status = "none" <=> offer[o].status = "none"
        /\ offer'[o].status = "ACCEPTED" <=> offer[o].status = "ACCEPTED"

\* Handler h begins job j of trip t at place p, having checked what it must.
Enters(h, j, p, t) ==
    /\ pc[h] = "idle" /\ job' = [job EXCEPT ![h] = j] /\ pc' = [pc EXCEPT ![h] = p]
    /\ Moves(h) /\ OffersStand
    /\ UNCHANGED <<trip, money, strained>>
    /\ Checked(j, p, t, saw'[h])

\* A request makes its checks; the cron job knows the trip from its offers.
LEMMA AllEnter ==
    ASSUME TypeOK, Existing, NEW h \in Handlers, NEW t \in Trips,
           Request(h, t) \/ \E S \in SUBSET Offers : ExpireOffers(h, t, S)
    PROVE  \E j, p : Enters(h, j, p, t)
<1>1. CASE Request(h, t)
  <2>1. PICK j, p : /\ Begin(h, j, p)
                    /\ Checked(j, p, t, IF j.op \in Remembers THEN trip[t] ELSE saw[h])
    BY <1>1, RequestChecks
  <2>2. saw'[h] = IF j.op \in Remembers THEN trip[t] ELSE saw[h]
    BY <2>1 DEF Begin, TypeOK, Checked
  <2>3. Moves(h)
    BY <2>1 DEF Begin, TypeOK, GoTo, Moves
  <2>. QED BY <2>1, <2>2, <2>3 DEF Enters, Begin, GoTo, OffersStand, money
<1>2. ASSUME NEW S \in SUBSET Offers, ExpireOffers(h, t, S)
      PROVE  \E j, p : Enters(h, j, p, t)
  <2> DEFINE j == Job("dispatch", t, None, None, "none", None)
  <2>1. Moves(h) /\ job' = [job EXCEPT ![h] = j] /\ pc' = [pc EXCEPT ![h] = "emit"]
    BY <1>2 DEF ExpireOffers, TypeOK, GoTo, Moves
  <2>2. OffersStand
    <3>1. \A o \in Offers : offer'[o] = IF o \in S THEN [offer[o] EXCEPT !.status = "EXPIRED"]
                                       ELSE offer[o]
      BY <1>2 DEF ExpireOffers
    <3>2. \A o \in S : offer[o].status = "PENDING"
      BY <1>2 DEF ExpireOffers, Pending
    <3>. QED BY <3>1, <3>2 DEF TypeOK, OfferRow, OffersStand
  <2>3. trip[t].status # "none"
    <3>1. PICK o \in OffersOf(t) : TRUE
      BY <1>2 DEF ExpireOffers, Pending
    <3>. QED BY <3>1 DEF OffersOf, Existing
  <2>4. Checked(j, "emit", t, saw'[h])
    BY <2>3, NoneIsNoOffer DEF Checked, Job, Stands, Moved, Unsaved, Reads
  <2>5. Enters(h, j, "emit", t)
    BY <1>2, <2>1, <2>2, <2>4 DEF Enters, ExpireOffers
  <2>. QED BY <2>5
<1>. QED BY <1>1, <1>2

\* A handler that begins finds its trip, and is alone with a trip it creates.
LEMMA EntersExisting ==
    ASSUME Strengthened, NEW h \in Handlers, NEW t \in Trips, NEW j, NEW p, Enters(h, j, p, t)
    PROVE  Existing' /\ OffersRemembered'
<1>. USE DEF Strengthened
<1>1. job'[h] = j /\ pc'[h] = p /\ Moves(h) /\ Checked(j, p, t, saw'[h]) /\ UNCHANGED trip
  BY DEF Enters, TypeOK
<1>2. \A g \in Handlers : Stands(job'[g], pc'[g])
  BY <1>1 DEF Moves, Checked, Existing
<1>3. \A g \in Handlers : Unsaved(job'[g], pc'[g]) =>
         /\ trip'[job'[g].trip].status = "none"
         /\ \A f \in Handlers : job'[f].trip = job'[g].trip => f = g
  <2>1. CASE Unsaved(j, p)
    BY <1>1, <2>1 DEF Moves, Checked, Existing
  <2>2. CASE ~Unsaved(j, p)
    <3>1. trip[t].status # "none" /\ j.trip = t
      BY <1>1, <2>2 DEF Checked
    <3>. QED BY <1>1, <2>2, <3>1 DEF Moves, Existing
  <2>. QED BY <2>1, <2>2
<1>4. \A g \in Handlers : ~Unsaved(job'[g], pc'[g]) /\ pc'[g] # "idle" =>
         trip'[job'[g].trip].status # "none"
  BY <1>1 DEF Moves, Checked, Existing
<1>5. \A g \in Handlers : job'[g].old # None =>
         /\ trip'[job'[g].old].status # "none" /\ job'[g].old # job'[g].trip
         /\ RiderOf[job'[g].old] = RiderOf[job'[g].trip]
  <2>1. j.old # None => /\ trip[j.old].status # "none" /\ j.old # j.trip
                        /\ RiderOf[j.old] = RiderOf[j.trip]
    <3>1. j.old # None => Unsaved(j, p) /\ trip[t].status = "none"
      BY <1>1 DEF Checked, Stands, Unsaved
    <3>. QED BY <1>1, <3>1 DEF Checked, Running
  <2>. QED BY <1>1, <2>1 DEF Moves, Existing
<1>6. \A o \in Offers : offer'[o].status # "none" => trip'[offer'[o].trip].status # "none"
  BY <1>1 DEF Enters, OffersStand, Existing
<1>7. Existing'
  BY <1>2, <1>3, <1>4, <1>5, <1>6 DEF Existing
<1>8. OffersRemembered'
  <2>1. /\ job'[h].op = "accept" => pc'[h] = "match"
        /\ job'[h].op = "create" /\ job'[h].offer \in Offers =>
              job'[h].old # None /\ offer[job'[h].offer].trip = job'[h].old
    BY <1>1 DEF Checked
  <2>2. \A o \in Offers : offer'[o].trip = offer[o].trip /\ offer'[o].driver = offer[o].driver
    BY DEF Enters, OffersStand
  <2>3. UNCHANGED strained
    BY DEF Enters
  <2>. QED BY <1>1, <2>1, <2>2, <2>3 DEF Moves, OffersRemembered
<1>. QED BY <1>7, <1>8

\* It has moved nothing yet, and what it reads is the row.
LEMMA EntersHolds ==
    ASSUME Strengthened, NEW h \in Handlers, NEW t \in Trips, NEW j, NEW p, Enters(h, j, p, t),
           NEW u \in Trips, TripHolds(u)
    PROVE  TripHolds(u)'
<1>. USE DEF Strengthened
<1>1. job'[h] = j /\ pc'[h] = p /\ Moves(h) /\ Checked(j, p, t, saw'[h]) /\ UNCHANGED <<trip, money>>
  BY DEF Enters, TypeOK
<1>2. SUFFICES ASSUME Books(u) PROVE Books(u)'
  BY DEF TripHolds, Enters
<1>3. Taken(u)' = Taken(u) /\ \A o \in Taken(u) : offer'[o].driver = offer[o].driver
  BY DEF Taken, Enters, OffersStand
<1>4. h \notin Movers(u) /\ h \notin Movers(u)'
  BY <1>1 DEF Movers, Moved, Enters, Checked
<1>5. h \in Readers(u)' => Reads(job'[h], pc'[h], saw'[h], trip'[u])
  BY <1>1, <1>2 DEF Readers, Checked, Books, RowHolds
<1>6. h \in Retirers(u)' => ReadsOld(pc'[h], trip'[u])
  BY <1>1, NoneIsNoTrip DEF Retirers, Checked, ReadsOld
<1>7. Spares(h, u)
  BY <1>1, <1>3, <1>4, <1>5, <1>6 DEF Spares, Like, money
<1>. QED BY <1>2, <1>7, SparedBooks

\* A handler that dies strains its trips; the others never heard of it.
LEMMA DieHolds ==
    ASSUME Strengthened, NEW h \in Handlers, Die(h)
    PROVE  /\ Existing' /\ OffersRemembered'
           /\ \A u \in Trips : TripHolds(u) => TripHolds(u)'
<1>. USE DEF Strengthened
<1>1. Moves(h) /\ pc'[h] = "idle" /\ job'[h] = NoJob /\ UNCHANGED <<trip, offer, money>>
  BY LeaveMoves DEF Die
<1>2. strained \subseteq strained' /\ \A u \in Trips : u \in {job[h].trip, job[h].old} => u \in strained'
  BY NoneIsNoTrip DEF Die
<1>3. Stands(NoJob, "idle") /\ ~Unsaved(NoJob, "idle") /\ NoJob.trip = None /\ NoJob.old = None
      /\ NoJob.op = "none"
  BY DEF Stands, Unsaved, NoJob, Job
<1>4. \A g \in Handlers : Unsaved(job[g], pc[g]) => job[g].trip \in Trips
  BY DEF Shape, Placed, Unsaved
<1>5. Existing'
  BY <1>1, <1>3, <1>4, NoneIsNoTrip DEF Existing, Moves
<1>6. OffersRemembered'
  BY <1>1, <1>2, <1>3 DEF OffersRemembered, Moves
<1>7. ASSUME NEW u \in Trips, TripHolds(u) PROVE TripHolds(u)'
  <2>1. SUFFICES ASSUME u \notin strained' PROVE Books(u)'
    BY DEF TripHolds
  <2>2. Books(u) /\ u # job[h].trip /\ u # job[h].old
    BY <1>2, <1>7, <2>1 DEF TripHolds
  <2>3. Taken(u)' = Taken(u) /\ \A o \in Taken(u) : offer'[o].driver = offer[o].driver
    BY <1>1 DEF Taken
  <2>4. Spares(h, u)
    BY <1>1, <1>3, <2>2, <2>3, NoneIsNoTrip DEF Spares, Like, Movers, Readers, Retirers, money
  <2>. QED BY <2>2, <2>4, SparedBooks
<1>. QED BY <1>5, <1>6, <1>7

-----------------------------------------------------------------------------
(* Trips that run, and trips that are over *)

\* What checkRiderHasTripRunning takes for unfinished.
Unfinished(row) ==
    /\ row.status \notin {"none", "BOOKING_CANCELLED"}
    /\ ~row.completed /\ ~row.cancelledAt /\ ~row.expiredAt

\* The rows nobody revives or relabels: a row that runs ran before, and a row
\* that is over keeps its status.
Ages(new, row) ==
    /\ Unfinished(new) => Unfinished(row)
    /\ row.status \in Final => new.status = row.status

\* The last write of a handler alone with its trip revives nothing.
LEMMA WrittenAges ==
    ASSUME NEW row \in TripRow, NEW seen \in TripRow, NEW j \in JobRecord,
           Sound(row), Stands(j, "write"), Reads(j, "write", seen, row),
           j.op = "cancelByAdmin" => row.status \in OnTheWay
    PROVE  Ages(WrittenRow(j, row, seen), row)
<1>1. row.status \in Final => WrittenRow(j, row, seen).status = row.status
  BY WrittenFinal
<1>2. ASSUME Unfinished(WrittenRow(j, row, seen)) PROVE Unfinished(row)
  <2>. USE <1>2 DEF Sound, Reads, TripRow, OnTheWay, Live, Known, Searching, Acceptable, Unfinished
  <2>1. j.op \in {"accept", "reject", "arrive", "start", "complete", "cancelByRider", "cancelBooking",
                 "cancelByDriver", "cancelByAdmin", "allCabs", "noCab"}
    BY DEF JobRecord, Ops, Stands
  <2>2. CASE j.op \in {"accept", "reject", "arrive", "start"}
    BY <2>2 DEF WrittenRow
  <2>3. CASE j.op \in {"complete", "cancelBooking", "noCab", "cancelByAdmin"}
    BY <2>3 DEF WrittenRow
  <2>4. CASE j.op = "cancelByRider"
    <3>1. ~row.cancelledAt /\ ~row.completed
      BY <2>4
    <3>. QED BY <2>4, <3>1
  <2>5. CASE j.op = "cancelByDriver"
    BY <2>5
  <2>6. CASE j.op = "allCabs"
    BY <2>6 DEF WrittenRow
  <2>. QED BY <2>1, <2>2, <2>3, <2>4, <2>5, <2>6
<1>. QED BY <1>1, <1>2 DEF Ages

\* The dispatcher and the creations revive nothing either.
LEMMA UpdatedAges ==
    ASSUME NEW row \in TripRow, Sound(row), NEW new,
           \/ row.status \in Searching \cup {"NO_DRIVER"} /\ new \in GivenUp(row)
           \/ /\ row.status = "PENDING" /\ row.previous = "CANCELLED_BEFORE_ARRIVED"
              /\ new = [row EXCEPT !.driver = None, !.cancelledAt = FALSE,
                                   !.assignedAt = FALSE, !.payment = "none"]
           \/ row.status = "CANCELLED_BY_DRIVER" /\ new = [row EXCEPT !.status = "PENDING"]
    PROVE  Ages(new, row)
BY DEF GivenUp, Ages, Unfinished, Sound, TripRow, Searching, Final

\* What a step does to a trip that nobody else is writing; an insertion apart.
LEMMA StepAges ==
    ASSUME Strengthened, NEW h \in Handlers, Step(h), NEW t \in Trips, t \notin strained', Books(t),
           ~(pc[h] = "save" /\ t = job[h].trip)
    PROVE  /\ Ages(trip'[t], trip[t])
           /\ pc[h] = "expire" /\ t = job[h].old => ~Unfinished(trip'[t])
<1>. USE DEF Strengthened
<1>1. job[h] \in JobRecord /\ Stands(job[h], pc[h]) /\ trip[t] \in TripRow /\ Sound(trip[t])
  BY DEF TypeOK, Existing, Books, RowHolds
<1>2. \A row : Ages(row, row)
  BY DEF Ages
<1>3. CASE t \notin {job[h].trip, job[h].old}
  BY <1>2, <1>3, StepElsewhere DEF Elsewhere
<1>4. CASE t = job[h].old
  <2>1. job[h].op = "create" /\ t # None /\ job[h].trip # t
    BY <1>1, <1>4, NoneIsNoTrip DEF Existing, Stands
  <2>2. pc[h] \in {"expire", "expireOffer", "save", "balance", "offer"}
    BY <1>1, <2>1 DEF Stands
  <2>3. CASE pc[h] = "expire"
    <3>1. ReadsOld("expire", trip[t])
      BY <1>4, <2>3 DEF Books, RowHolds, Retirers
    <3>2. trip'[t] = [trip[t] EXCEPT !.status = "EXPIRED", !.expiredAt = TRUE]
      <4>1. ExpireOld(h)
        BY <2>3, CreationSteps
      <4>. QED BY <1>4, <4>1, PutAlone DEF ExpireOld
    <3>3. trip'[t] \in GivenUp(trip[t]) /\ trip[t].status \in Searching \cup {"NO_DRIVER"}
      BY <3>1, <3>2 DEF GivenUp, ReadsOld, Searching
    <3>4. ~Unfinished(trip'[t])
      BY <1>1, <3>2 DEF Unfinished, TripRow
    <3>. QED BY <1>1, <3>3, <3>4, UpdatedAges
  <2>4. CASE pc[h] # "expire"
    <3>1. trip'[t] = trip[t]
      BY <1>4, <2>1, <2>2, <2>4, CreationSteps
         DEF ExpireOldOffer, Save, Balance, Put, Ask, TypeOK
    <3>. QED BY <1>2, <2>4, <3>1
  <2>. QED BY <2>3, <2>4
<1>5. CASE t = job[h].trip
  <2>1. t # job[h].old
    BY <1>5, NoneIsNoTrip DEF Existing
  <2>2. CASE trip'[t] = trip[t]
    BY <1>2, <2>1, <2>2
  <2>3. CASE ExpireOld(h)
    BY <2>1, <2>2, <2>3 DEF ExpireOld, Put, TypeOK
  <2>4. CASE Save(h)
    BY <1>5, <2>4 DEF Save
  <2>5. CASE \/ ExpireOldOffer(h) \/ Emit(h) \/ Look(h) \/ Search(h) \/ \E d \in Drivers : Ask(h, d)
             \/ MarkAccepted(h) \/ MarkCancelled(h) \/ MarkDeclined(h)
             \/ Hold(h) \/ Confirm(h) \/ Release(h)
    BY <2>2, <2>5 DEF ExpireOldOffer, Emit, Look, Search, Ask, MarkAccepted, MarkCancelled,
       MarkDeclined, Hold, Confirm, Release, Refused
  <2>6. ASSUME NEW new, Put(h, t, new), Ages(new, trip[t]) PROVE Ages(trip'[t], trip[t])
    BY <2>6, PutAlone
  <2>7. pc[h] \notin {"idle", "emit", "offer"} => Reads(job[h], pc[h], saw[h], trip[t])
    BY <1>5, OwnReads
  <2>8. CASE Balance(h) \/ SettleSearch(h)
    <3>1. pc[h] \in {"balance", "settle"} /\ (pc[h] = "balance" => job[h].op = "create")
      BY <1>1, <2>8, PlaceTells DEF Balance, SettleSearch
    <3>2. trip[t].status \in Searching \cup {"NO_DRIVER"}
      BY <2>7, <3>1 DEF Reads, Searching
    <3>3. UNCHANGED trip \/ \E new \in GivenUp(trip[t]) : Put(h, t, new)
      BY <1>5, <2>8 DEF Balance, SettleSearch, GivenUp
    <3>. QED BY <1>1, <2>1, <2>2, <2>6, <3>2, <3>3, UpdatedAges
  <2>9. CASE Reset(h) \/ PendAgain(h)
    <3>1. PICK new : /\ Put(h, t, new)
                     /\ \/ /\ pc[h] = "reset"
                           /\ new = [trip[t] EXCEPT !.driver = None, !.cancelledAt = FALSE,
                                                    !.assignedAt = FALSE, !.payment = "none"]
                        \/ pc[h] = "again" /\ new = [trip[t] EXCEPT !.status = "PENDING"]
      BY <1>5, <2>9 DEF Reset, PendAgain
    <3>2. Reads(job[h], pc[h], saw[h], trip[t])
      BY <2>7, <3>1
    <3>3. \/ /\ trip[t].status = "PENDING" /\ trip[t].previous = "CANCELLED_BEFORE_ARRIVED"
             /\ new = [trip[t] EXCEPT !.driver = None, !.cancelledAt = FALSE,
                                      !.assignedAt = FALSE, !.payment = "none"]
          \/ trip[t].status = "CANCELLED_BY_DRIVER" /\ new = [trip[t] EXCEPT !.status = "PENDING"]
      BY <3>1, <3>2 DEF Reads
    <3>. QED BY <1>1, <2>1, <2>6, <3>1, <3>3, UpdatedAges
  <2>10. CASE MatchOffer(h)
    <3>1. CASE UNCHANGED trip
      BY <2>2, <3>1
    <3>2. CASE trip' = [trip EXCEPT ![t].cab = @ \/ ~saw[h].cab]
      <4> DEFINE yes == trip[t].cab \/ ~saw[h].cab
      <4>1. trip'[t] = [trip[t] EXCEPT !.cab = yes]
        BY <3>2 DEF TypeOK
      <4>. HIDE DEF yes
      <4>. QED BY <1>1, <2>1, <4>1 DEF Ages, Unfinished, TripRow
    <3>. QED BY <1>5, <2>10, <3>1, <3>2 DEF MatchOffer
  <2>11. CASE WriteTrip(h)
    <3>1. PICK new : Put(h, t, new) /\ new = WrittenRow(job[h], trip[t], saw[h])
      BY <1>5, <2>11 DEF WriteTrip
    <3>2. pc[h] = "write" /\ saw[h] \in TripRow
      BY <2>11 DEF WriteTrip, TypeOK
    <3>3. Deciding(t) \subseteq {h} /\ h \in Readers(t)
      BY <1>5, <3>1, <3>2, PutAlone DEF Readers
    <3>4. job[h].op = "cancelByAdmin" => trip[t].status \in OnTheWay
      BY <1>5, <3>2, <3>3, AloneMoney DEF Moved
    <3>. QED BY <1>1, <2>1, <2>6, <2>7, <3>1, <3>2, <3>4, WrittenAges
  <2>. QED BY <2>1, <2>3, <2>4, <2>5, <2>8, <2>9, <2>10, <2>11 DEF Step
<1>. QED BY <1>3, <1>4, <1>5

\* What RiderHolds says of rider u, in terms of the rows.
RowsOf(u) ==
    /\ \A s, t \in Trips :
          RiderOf[s] = u /\ RiderOf[t] = u /\ Unfinished(trip[s]) /\ Unfinished(trip[t]) => s = t
    /\ \A h \in Handlers, s \in Trips :
          /\ Unsaved(job[h], pc[h]) /\ RiderOf[job[h].trip] = u
          /\ RiderOf[s] = u /\ Unfinished(trip[s])
          => pc[h] = "expire" /\ s = job[h].old

\* The two say the same.
LEMMA RowsAgree ==
    ASSUME NEW u
    PROVE  RiderHolds(u) <=> (Undisturbed(u) => RowsOf(u))
BY DEF RiderHolds, RowsOf, Running, Unfinished

\* A rider's trips after a step of a handler: a new one runs alone.
LEMMA StepRider ==
    ASSUME Strengthened, \A t \in Trips : TripHolds(t), NEW h \in Handlers, Step(h), NEW u,
           Undisturbed(u) => RowsOf(u), Undisturbed(u)'
    PROVE  RowsOf(u)'
<1>. USE DEF Strengthened
<1>1. Serves(h) /\ Elsewhere(h)
  BY StepServes, StepElsewhere
<1>2. Undisturbed(u) /\ RowsOf(u)
  BY <1>1 DEF Undisturbed, Elsewhere
<1>3. \A t \in Trips : RiderOf[t] = u => t \notin strained' /\ Books(t)
  BY <1>2 DEF Undisturbed, TripHolds
<1>4. \A g \in Handlers : Unsaved(job'[g], pc'[g]) =>
         /\ Unsaved(job[g], pc[g]) /\ job'[g].trip = job[g].trip /\ job'[g].old \in {job[g].old, None}
         /\ g = h => pc[h] # "save"
         /\ g # h => pc'[g] = pc[g] /\ job'[g] = job[g]
  <2>1. Unsaved(job'[h], pc'[h]) => pc'[h] # "idle"
    BY DEF Unsaved
  <2>. QED BY <1>1, <2>1, StepUnsaved DEF Serves, Moves
<1>5. CASE pc[h] = "save" /\ RiderOf[job[h].trip] = u
  <2> DEFINE t == job[h].trip
  <2>1. Save(h) /\ t \in Trips /\ Unsaved(job[h], pc[h])
    BY <1>5, CreationSteps, PlaceTells DEF TypeOK, Existing, Shape, Placed, Unsaved
  <2>2. \A s \in Trips : RiderOf[s] = u => ~Unfinished(trip[s])
    BY <1>2, <1>5, <2>1 DEF RowsOf
  <2>3. \A s \in Trips : s # t => trip'[s] = trip[s]
    BY <2>1 DEF Save, TypeOK
  <2>4. \A g \in Handlers \ {h} : ~(job[g].op = "create" /\ RiderOf[job[g].trip] = u)
    BY <1>3, <1>5, <2>1 DEF Save
  <2>5. \A g \in Handlers : Unsaved(job'[g], pc'[g]) => RiderOf[job'[g].trip] # u
    BY <1>4, <1>5, <2>4 DEF Unsaved
  <2>. HIDE DEF t
  <2>6. \A s \in Trips : RiderOf[s] = u /\ Unfinished(trip'[s]) => s = t
    BY <2>2, <2>3
  <2>. QED BY <2>5, <2>6 DEF RowsOf
<1>6. CASE ~(pc[h] = "save" /\ RiderOf[job[h].trip] = u)
  <2>1. ASSUME NEW s \in Trips, RiderOf[s] = u
        PROVE  /\ Unfinished(trip'[s]) => Unfinished(trip[s])
               /\ pc[h] = "expire" /\ s = job[h].old => ~Unfinished(trip'[s])
    <3>1. Ages(trip'[s], trip[s]) /\ (pc[h] = "expire" /\ s = job[h].old => ~Unfinished(trip'[s]))
      BY <1>3, <1>6, <2>1, StepAges
    <3>. QED BY <3>1 DEF Ages
  <2>2. ASSUME NEW g \in Handlers, NEW s \in Trips, Unsaved(job'[g], pc'[g]),
               RiderOf[job'[g].trip] = u, RiderOf[s] = u, Unfinished(trip'[s])
        PROVE  pc'[g] = "expire" /\ s = job'[g].old
    <3>1. pc[g] = "expire" /\ s = job[g].old
      BY <1>2, <1>4, <2>1, <2>2 DEF RowsOf
    <3>2. g # h
      BY <2>1, <2>2, <3>1
    <3>. QED BY <1>4, <2>2, <3>1, <3>2
  <2>. QED BY <1>2, <2>1, <2>2 DEF RowsOf
<1>. QED BY <1>5, <1>6

\* And after one begins: a creation has looked at the rider's trips.
LEMMA EntersRider ==
    ASSUME Strengthened, NEW h \in Handlers, NEW t \in Trips, NEW j, NEW p, Enters(h, j, p, t),
           NEW u, Undisturbed(u) => RowsOf(u), Undisturbed(u)'
    PROVE  RowsOf(u)'
<1>1. /\ job'[h] = j /\ pc'[h] = p /\ Moves(h) /\ Checked(j, p, t, saw'[h])
      /\ UNCHANGED <<trip, strained>>
  BY DEF Enters, Strengthened, TypeOK
<1>2. RowsOf(u)
  BY <1>1 DEF Undisturbed
<1>3. ASSUME NEW s \in Trips, Unsaved(j, p), RiderOf[t] = u, RiderOf[s] = u, Unfinished(trip[s])
      PROVE  p = "expire" /\ s = j.old
  <2>1. s \in Running(t)
    BY <1>3 DEF Running, Unfinished
  <2>2. /\ p = "expire" /\ j.old \in Running(t)
    BY <1>1, <1>3, <2>1 DEF Checked
  <2>3. j.old \in Trips /\ RiderOf[j.old] = u /\ Unfinished(trip[j.old])
    BY <1>3, <2>2 DEF Running, Unfinished
  <2>. QED BY <1>2, <1>3, <2>2, <2>3 DEF RowsOf
<1>4. j.trip = t
  BY <1>1 DEF Checked
<1>. QED BY <1>1, <1>2, <1>3, <1>4 DEF RowsOf, Moves

-----------------------------------------------------------------------------
(* The inductive invariant and the theorems *)

\* Nothing has happened yet, so everything agrees.
LEMMA InitBooks == Init => BooksInv
<1>. SUFFICES ASSUME Init PROVE BooksInv
  OBVIOUS
<1>. USE DEF Init
<1>1. /\ \A h \in Handlers : job[h] = NoJob /\ pc[h] = "idle"
      /\ \A t \in Trips : trip[t] = NewTrip("none") /\ held[t] = 0 /\ paid[t] = 0
      /\ \A o \in Offers : offer[o] = NoOffer
  OBVIOUS
<1>2. NoJob.op = "none" /\ NoJob.trip = None /\ NoJob.old = None /\ NoOffer.status = "none"
  BY DEF NoJob, Job, NoOffer
<1>3. /\ NewTrip("none").status = "none" /\ NewTrip("none").payment = "none"
  BY DEF NewTrip
<1>4. Existing /\ OffersRemembered
  BY <1>1, <1>2 DEF Existing, OffersRemembered, Stands, Unsaved
<1>5. ASSUME NEW t \in Trips PROVE TripHolds(t)
  <2>1. /\ Movers(t) = {} /\ At(t, "accept") = {} /\ Readers(t) = {} /\ Retirers(t) = {}
        /\ Taken(t) = {}
    BY <1>1, <1>2 DEF Movers, Moved, At, Readers, Retirers, Taken
  <2>2. RowHolds(t)
    BY <1>1, <2>1, NewSound DEF RowHolds
  <2>3. MoneyHolds(t)
    BY <1>1, <1>3, <2>1 DEF MoneyHolds, OnTheWay
  <2>4. OffersHold(t)
    BY <1>1, <1>3, <2>1 DEF OffersHold, OnTheWay
  <2>. QED BY <2>2, <2>3, <2>4 DEF TripHolds, Books
<1>6. ASSUME NEW u PROVE RowsOf(u)
  BY <1>1, <1>2, <1>3 DEF RowsOf, Unsaved, Unfinished
<1>. QED BY <1>4, <1>5, <1>6, InitIInv, RowsAgree DEF BooksInv

\* Every step keeps the books of every trip, and the parts need each other: the
\* money is known only as long as the rows are what their handlers have read.
LEMMA NextBooks == BooksInv /\ [Next]_vars => BooksInv'
<1>. SUFFICES ASSUME BooksInv, [Next]_vars PROVE BooksInv'
  OBVIOUS
<1>1. IInv' /\ Strengthened
  BY NextIInv DEF BooksInv, IInv, Strengthened
<1>2. \A t \in Trips : TripHolds(t) /\ (Undisturbed(RiderOf[t]) => RowsOf(RiderOf[t]))
  BY RowsAgree DEF BooksInv
<1>3. SUFFICES /\ Existing' /\ OffersRemembered' /\ \A t \in Trips : TripHolds(t)'
               /\ \A t \in Trips : Undisturbed(RiderOf[t])' => RowsOf(RiderOf[t])'
  <2>1. \A t \in Trips : RiderHolds(RiderOf[t])' <=> (Undisturbed(RiderOf[t])' => RowsOf(RiderOf[t])')
    BY RowsAgree DEF RiderHolds, RowsOf, Undisturbed, Running, Unfinished
  <2>. QED BY <1>1, <2>1 DEF BooksInv
<1>4. CASE UNCHANGED vars
  <2>. USE <1>4 DEF vars, money, local
  <2>1. Existing' /\ OffersRemembered'
    BY DEF BooksInv, Existing, OffersRemembered
  <2>2. ASSUME NEW t \in Trips PROVE TripHolds(t)'
    <3>1. TripHolds(t)
      BY <1>2
    <3>. QED BY <3>1 DEF TripHolds, Books, RowHolds, MoneyHolds, OffersHold, OnlyOffer, Taken,
                Movers, Readers, Retirers, At
  <2>3. ASSUME NEW t \in Trips, Undisturbed(RiderOf[t])' PROVE RowsOf(RiderOf[t])'
    BY <1>2, <2>3 DEF Undisturbed, RowsOf
  <2>. QED BY <2>1, <2>2, <2>3
<1>5. ASSUME NEW h \in Handlers, NEW t \in Trips,
             Request(h, t) \/ \E S \in SUBSET Offers : ExpireOffers(h, t, S)
      PROVE  /\ Existing' /\ OffersRemembered' /\ \A u \in Trips : TripHolds(u)'
             /\ \A u \in Trips : Undisturbed(RiderOf[u])' => RowsOf(RiderOf[u])'
  <2>1. PICK j, p : Enters(h, j, p, t)
    BY <1>1, <1>5, AllEnter DEF Strengthened
  <2>. QED BY <1>1, <1>2, <2>1, EntersExisting, EntersHolds, EntersRider
<1>6. ASSUME NEW h \in Handlers, Step(h)
      PROVE  /\ Existing' /\ OffersRemembered' /\ \A u \in Trips : TripHolds(u)'
             /\ \A u \in Trips : Undisturbed(RiderOf[u])' => RowsOf(RiderOf[u])'
  <2>1. Existing' /\ OffersRemembered'
    BY <1>1, <1>6, StepExisting, StepRemembered DEF Strengthened
  <2>2. \A u \in Trips : TripHolds(u)'
    BY <1>1, <1>2, <1>6, StepHolds
  <2>3. \A u \in Trips : Undisturbed(RiderOf[u])' => RowsOf(RiderOf[u])'
    BY <1>1, <1>2, <1>6, StepRider
  <2>. QED BY <2>1, <2>2, <2>3
<1>7. ASSUME NEW h \in Handlers, Die(h)
      PROVE  /\ Existing' /\ OffersRemembered' /\ \A u \in Trips : TripHolds(u)'
             /\ \A u \in Trips : Undisturbed(RiderOf[u])' => RowsOf(RiderOf[u])'
  <2>1. /\ Moves(h) /\ pc'[h] = "idle" /\ UNCHANGED trip /\ strained \subseteq strained'
    BY <1>1, <1>7, LeaveMoves DEF Die, Strengthened
  <2>2. ASSUME NEW u \in Trips, Undisturbed(RiderOf[u])' PROVE RowsOf(RiderOf[u])'
    <3>1. RowsOf(RiderOf[u])
      BY <1>2, <2>1, <2>2 DEF Undisturbed
    <3>2. ~Unsaved(job'[h], pc'[h])
      BY <2>1 DEF Unsaved
    <3>. QED BY <2>1, <3>1, <3>2 DEF RowsOf, Moves
  <2>. QED BY <1>1, <1>2, <1>7, <2>2, DieHolds
<1>. QED BY <1>4, <1>5, <1>6, <1>7 DEF Next, Cron

\* So it holds in every state the service can reach.
LEMMA AlwaysBooks == Spec => []BooksInv
BY InitBooks, NextBooks, PTL DEF Spec

\* A trip nobody is at work on has moved no money its row does not tell of.
LEMMA QuietBooks ==
    ASSUME BooksInv, NEW t \in Trips, Quiet(t)
    PROVE  Books(t) /\ Movers(t) = {} /\ At(t, "cancelByDriver") = {}
BY MoversDecide, AtMoves DEF BooksInv, TripHolds, Quiet

\* The trips row, in one service, and the money of the trip, in another, agree
\* whenever no handler is at work on the trip.
THEOREM MoneyFollowsTripHolds == Spec => []MoneyFollowsTrip
<1>1. BooksInv => MoneyFollowsTrip
  <2>. SUFFICES ASSUME BooksInv, NEW t \in Trips, Quiet(t)
                PROVE  /\ held[t] = IF trip[t].payment = "BLOCKED" THEN 1 ELSE 0
                       /\ paid[t] = IF trip[t].payment = "DEDUCTED" THEN 1 ELSE 0
                       /\ trip[t].status \in OnTheWay <=> trip[t].payment = "BLOCKED"
    BY DEF MoneyFollowsTrip
  <2>. QED BY QuietBooks DEF Books, RowHolds, MoneyHolds, Sound
<1>. QED BY <1>1, AlwaysBooks, PTL

\* Whoever is driving a trip has the one accepted offer of it.
THEOREM DriverHoldsOfferHolds == Spec => []DriverHoldsOffer
<1>1. BooksInv => DriverHoldsOffer
  <2>. SUFFICES ASSUME BooksInv, NEW t \in Trips, Quiet(t), trip[t].status \in OnTheWay
                PROVE  \E o \in OffersOf(t) :
                          /\ offer[o].driver = trip[t].driver
                          /\ \A x \in OffersOf(t) : offer[x].status = "ACCEPTED" <=> x = o
    BY DEF DriverHoldsOffer
  <2>1. PICK o \in Offers : Taken(t) = {o} /\ offer[o].driver = trip[t].driver
    BY QuietBooks DEF Books, OffersHold, OnlyOffer
  <2>2. o \in OffersOf(t) /\ \A x \in OffersOf(t) : offer[x].status = "ACCEPTED" <=> x = o
    BY <2>1 DEF Taken, OffersOf
  <2>. QED BY <2>1, <2>2
<1>. QED BY <1>1, AlwaysBooks, PTL

\* A rider has one unfinished trip, even while a new one is being created.
THEOREM OneRunningTripHolds == Spec => []OneRunningTrip
<1>1. BooksInv => OneRunningTrip
  BY DEF BooksInv, RiderHolds, OneRunningTrip
<1>. QED BY <1>1, AlwaysBooks, PTL

\* A trip that is over stays over: late accepts, rejects, dispatches and the super
\* admin do not revive or relabel it.
THEOREM FinalStaysHolds == Spec => FinalStays
<1>1. BooksInv /\ [Next]_vars =>
         [\A t \in Trips : trip[t].status \in Final /\ t \notin strained'
             => trip'[t].status = trip[t].status]_vars
  <2>. SUFFICES ASSUME BooksInv, [Next]_vars, NEW t \in Trips, trip[t].status \in Final,
                       t \notin strained'
                PROVE  trip'[t].status = trip[t].status
    OBVIOUS
  <2>1. Strengthened
    BY DEF BooksInv, IInv, Strengthened
  <2>2. CASE UNCHANGED vars
    BY <2>2 DEF vars
  <2>3. ASSUME NEW h \in Handlers, NEW u \in Trips,
               Request(h, u) \/ \E S \in SUBSET Offers : ExpireOffers(h, u, S)
        PROVE  UNCHANGED trip
    BY <2>1, <2>3, AllEnter DEF Enters, Strengthened
  <2>4. ASSUME NEW h \in Handlers, Die(h) PROVE UNCHANGED trip
    BY <2>4 DEF Die
  <2>5. ASSUME NEW h \in Handlers, Step(h) PROVE trip'[t].status = trip[t].status
    <3>1. Books(t)
      BY <2>1, <2>5, StepElsewhere DEF Strengthened, Elsewhere, BooksInv, TripHolds
    <3>2. ~(pc[h] = "save" /\ t = job[h].trip)
      <4>1. pc[h] = "save" => Unsaved(job[h], pc[h])
        BY <2>1, PlaceTells DEF Strengthened, TypeOK, Existing, Unsaved
      <4>. QED BY <2>1, <4>1 DEF Strengthened, Existing, Final
    <3>3. Ages(trip'[t], trip[t])
      BY <2>1, <2>5, <3>1, <3>2, StepAges
    <3>. QED BY <3>3 DEF Ages
  <2>. QED BY <2>2, <2>3, <2>4, <2>5 DEF Next, Cron
<1>. QED BY <1>1, AlwaysBooks, PTL DEF Spec, FinalStays
=============================================================================
