------------------------------- MODULE Charges -------------------------------
(***************************************************************************)
(* What a kilometre costs: the rows administrators edit and the redis keys *)
(* trips are priced from.                                                  *)
(*                                                                         *)
(* CabChargesService, CustomizedChargesService and CabTypeService of       *)
(* driver-services write a row and then, from a second read of it or from  *)
(* memory, the key; getCabChargeConfig of rides-service looks at the keys  *)
(* only.  Nothing is a transaction and nothing expires, so a key that was  *)
(* written wrongly stays wrong.                                            *)
(*                                                                         *)
(* One kind of cab and one multiplier.  A rate stands for base fare and    *)
(* the costs per kilometre and minute; multipliers are always in force.    *)
(* A charge is of a city and a day (both are required of administrators),  *)
(* so that of the four fields a trip asks for only the first can be there. *)
(***************************************************************************)
EXTENDS Integers, FiniteSets, TLC

CONSTANTS
    Cities, Names, Days, Rates, Ids, Handlers, None,
    NameOf,         \* [Cities -> Names]: the names at first
    CabRate,        \* what the cab costs at first
    MaxFaults       \* bound: calls cut short, losses of redis, renamed cities

VARIABLES
    row,            \* cab_charges: city, day and rate
    cab,            \* the cab type: its rate, 0 if it was removed
    factor,         \* customized_charges: city and rate
    name,           \* of each city
    entry,          \* redis cab-charge-<cab>: the rate at a city's name and a day, or 0
    cabKey,         \* redis cab-type-<cab>: its rate, or 0
    factorKey,      \* redis fare-multiplier-<name>-<id>: the rate, or 0
    synced,         \* the tables whose "-synced" key is set
    job,            \* what each handler is doing
    faults,
    astray          \* history: cities and tables whose keys nothing keeps right

chargeVars == <<row, cab, factor, name, entry, cabKey, factorKey, synced, job, faults, astray>>

Nowhere == ""       \* the name of a city that was not read

Idle == [table |-> "none", step |-> "none", id |-> None, places |-> {}, cols |-> <<>>,
         was |-> None, read |-> None, of |-> {}, list |-> {}]

At(h, table, step) == job[h].table = table /\ job[h].step = step

Working(table) == {h \in Handlers : job[h].table = table /\ job[h].step \notin {"ask", "fill"}}

Place(r) == <<r.city, r.day>>

\* A row as findOne reads it: with the name its city has now.
Image(r) == [field |-> <<name[r.city], r.day>>, rate |-> r.rate]

Rows == {i \in Ids : row[i] # None}

\* The cities of which another call is changing a charge that this one changes too.
Meets(i, places) ==
    {p[1] : p \in UNION {places \cup job[g].places : g \in
        {g \in Working("charge") : job[g].id = i \/ job[g].places \cap places # {}}}}

-----------------------------------------------------------------------------
(* CabChargesService *)

\* The unique index refuses what checkDuplicateEntry lets through.
CreateCharge(h, i, c, d, rate) ==
    /\ job[h] = Idle /\ i \notin Rows /\ cab # 0
    /\ \A g \in Handlers : job[g].id # i
    /\ \A k \in Rows : Place(row[k]) # <<c, d>>
    /\ row' = [row EXCEPT ![i] = [city |-> c, day |-> d, rate |-> rate]]
    /\ job' = [job EXCEPT ![h] = [Idle EXCEPT !.table = "charge", !.step = "find", !.id = i,
                                              !.places = {<<c, d>>}]]
    /\ astray' = astray \cup Meets(i, {<<c, d>>})
    /\ UNCHANGED <<cab, factor, name, entry, cabKey, factorKey, synced, faults>>

\* Some of the columns; the row is read as it was, for its old key.
UpdateCharge(h, i, cols) ==
    /\ job[h] = Idle /\ i \in Rows
    /\ LET places == {Place(row[i]), Place(cols @@ row[i])}
       IN  /\ job' = [job EXCEPT ![h] = [Idle EXCEPT !.table = "charge", !.step = "write",
                                                     !.id = i, !.places = places, !.cols = cols,
                                                     !.was = Image(row[i])]]
           /\ astray' = astray \cup Meets(i, places)
    /\ UNCHANGED <<row, cab, factor, name, entry, cabKey, factorKey, synced, faults>>

WriteCharge(h) ==
    LET i == job[h].id
        new == job[h].cols @@ row[i]
        refused == i \in Rows /\ \E k \in Rows \ {i} : Place(row[k]) = Place(new)
    IN  /\ At(h, "charge", "write")
        /\ row' = IF i \in Rows /\ ~refused THEN [row EXCEPT ![i] = new] ELSE row
        /\ job' = [job EXCEPT ![h] = IF refused THEN Idle ELSE [@ EXCEPT !.step = "find"]]
        /\ UNCHANGED <<cab, factor, name, entry, cabKey, factorKey, synced, faults, astray>>

FindCharge(h) ==
    /\ At(h, "charge", "find")
    /\ job' = [job EXCEPT ![h] = IF job[h].id \in Rows
                                 THEN [@ EXCEPT !.step = "set", !.read = Image(row[job[h].id])]
                                 ELSE Idle]
    /\ UNCHANGED <<row, cab, factor, name, entry, cabKey, factorKey, synced, faults, astray>>

\* Mutant: the key of the row as it was is not removed.
RefreshedOnly(was, read) == [entry EXCEPT ![read.field] = read.rate]

\* removeRedisEntry of the row as it was, if there was one, and updateRedisEntry.
Refreshed(was, read) ==
    [f \in DOMAIN entry |->
        IF f = read.field THEN read.rate
        ELSE IF was # None /\ f = was.field THEN 0
        ELSE entry[f]]

SetEntry(h) ==
    /\ At(h, "charge", "set")
    /\ entry' = Refreshed(job[h].was, job[h].read)
    /\ job' = [job EXCEPT ![h] = Idle]
    /\ UNCHANGED <<row, cab, factor, name, cabKey, factorKey, synced, faults, astray>>

RemoveCharge(h, i) ==
    /\ job[h] = Idle /\ i \in Rows
    /\ job' = [job EXCEPT ![h] = [Idle EXCEPT !.table = "charge", !.step = "delete", !.id = i,
                                              !.places = {Place(row[i])}, !.was = Image(row[i])]]
    /\ astray' = astray \cup Meets(i, {Place(row[i])})
    /\ UNCHANGED <<row, cab, factor, name, entry, cabKey, factorKey, synced, faults>>

DeleteCharge(h) ==
    /\ At(h, "charge", "delete")
    /\ row' = [row EXCEPT ![job[h].id] = None]
    /\ job' = [job EXCEPT ![h].step = "drop"]
    /\ UNCHANGED <<cab, factor, name, entry, cabKey, factorKey, synced, faults, astray>>

DropEntry(h) ==
    /\ At(h, "charge", "drop")
    /\ entry' = [entry EXCEPT ![job[h].was.field] = 0]
    /\ job' = [job EXCEPT ![h] = Idle]
    /\ UNCHANGED <<row, cab, factor, name, cabKey, factorKey, synced, faults, astray>>

-----------------------------------------------------------------------------
(* Lists of charges and of cabs, the first of which fills redis *)

Listed(cs) == {[city |-> row[i].city, field |-> <<name[row[i].city], row[i].day>>,
                rate |-> row[i].rate] : i \in {i \in Rows : row[i].city \in cs}}

\* All charges or those of a city.
ListCharges(h, cs) ==
    /\ job[h] = Idle /\ "charge" \notin synced
    /\ job' = [job EXCEPT ![h] = [Idle EXCEPT !.table = "charge", !.step = "ask", !.of = cs,
                                              !.list = Listed(cs)]]
    /\ UNCHANGED <<row, cab, factor, name, entry, cabKey, factorKey, synced, faults, astray>>

ListCabs(h) ==
    /\ job[h] = Idle /\ "cab" \notin synced
    /\ job' = [job EXCEPT ![h] = [Idle EXCEPT !.table = "cab", !.step = "ask",
                                              !.list = {cab} \ {0}]]
    /\ UNCHANGED <<row, cab, factor, name, entry, cabKey, factorKey, synced, faults, astray>>

AskSynced(h) ==
    /\ job[h].step = "ask"
    /\ job' = [job EXCEPT ![h] = IF @.table \in synced THEN Idle ELSE [@ EXCEPT !.step = "fill"]]
    /\ UNCHANGED <<row, cab, factor, name, entry, cabKey, factorKey, synced, faults, astray>>

\* The cab's hash is made anew of the listed charges, be they all or not; nothing is
\* done to it if there are none.
FillCharges(h) ==
    LET list == job[h].list
        cs == job[h].of
        untouched == list = Listed(cs) /\ Working("charge") = {}
    IN  /\ At(h, "charge", "fill")
        /\ entry' = IF list = {} THEN entry
                    ELSE [f \in DOMAIN entry |->
                             IF \E x \in list : x.field = f
                             THEN (CHOOSE x \in list : x.field = f).rate ELSE 0]
        /\ synced' = synced \cup {"charge"}
        /\ astray' = IF list = {} THEN astray
                     ELSE (astray \ Cities) \cup (IF untouched THEN Cities \ cs ELSE Cities)
        /\ job' = [job EXCEPT ![h] = Idle]
        /\ UNCHANGED <<row, cab, factor, name, cabKey, factorKey, faults>>

FillCabs(h) ==
    LET list == job[h].list
    IN  /\ At(h, "cab", "fill")
        /\ cabKey' = IF list = {} THEN cabKey ELSE CHOOSE rate \in list : TRUE
        /\ synced' = synced \cup {"cab"}
        /\ astray' = IF list # {cab} \ {0} \/ Working("cab") # {} THEN astray \cup {"cab"}
                     ELSE IF list = {} THEN astray ELSE astray \ {"cab"}
        /\ job' = [job EXCEPT ![h] = Idle]
        /\ UNCHANGED <<row, cab, factor, name, entry, factorKey, faults>>

-----------------------------------------------------------------------------
(* CabTypeService *)

UpdateCab(h, rate) ==
    /\ job[h] = Idle /\ cab # 0
    /\ cab' = rate
    /\ job' = [job EXCEPT ![h] = [Idle EXCEPT !.table = "cab", !.step = "find"]]
    /\ astray' = IF Working("cab") = {} THEN astray ELSE astray \cup {"cab"}
    /\ UNCHANGED <<row, factor, name, entry, cabKey, factorKey, synced, faults>>

UpdateCabOrder(h) == UpdateCab(h, cab)

FindCab(h) ==
    /\ At(h, "cab", "find")
    /\ job' = [job EXCEPT ![h] = IF cab = 0 THEN Idle
                                 ELSE [@ EXCEPT !.step = "set", !.read = cab]]
    /\ UNCHANGED <<row, cab, factor, name, entry, cabKey, factorKey, synced, faults, astray>>

SetCab(h) ==
    /\ At(h, "cab", "set")
    /\ cabKey' = job[h].read
    /\ job' = [job EXCEPT ![h] = Idle]
    /\ UNCHANGED <<row, cab, factor, name, entry, factorKey, synced, faults, astray>>

RemoveCab(h) ==
    /\ job[h] = Idle /\ cab # 0
    /\ job' = [job EXCEPT ![h] = [Idle EXCEPT !.table = "cab", !.step = "delete"]]
    /\ astray' = IF Working("cab") = {} THEN astray ELSE astray \cup {"cab"}
    /\ UNCHANGED <<row, cab, factor, name, entry, cabKey, factorKey, synced, faults>>

\* A cab with charges is not deleted: they refer to it.
DeleteCab(h) ==
    /\ At(h, "cab", "delete")
    /\ cab' = IF Rows = {} THEN 0 ELSE cab
    /\ job' = [job EXCEPT ![h] = IF Rows = {} THEN [@ EXCEPT !.step = "drop"] ELSE Idle]
    /\ UNCHANGED <<row, factor, name, entry, cabKey, factorKey, synced, faults, astray>>

DropCab(h) ==
    /\ At(h, "cab", "drop")
    /\ cabKey' = 0
    /\ job' = [job EXCEPT ![h] = Idle]
    /\ UNCHANGED <<row, cab, factor, name, entry, factorKey, synced, faults, astray>>

-----------------------------------------------------------------------------
(* CustomizedChargesService *)

FactorJob(h, step, read, cols) ==
    /\ job' = [job EXCEPT ![h] = [Idle EXCEPT !.table = "factor", !.step = step, !.read = read,
                                              !.cols = cols]]
    /\ astray' = IF Working("factor") = {} THEN astray ELSE astray \cup {"factor"}

CreateFactor(h, c, rate) ==
    /\ job[h] = Idle /\ factor = None
    /\ factor' = [city |-> c, rate |-> rate]
    /\ FactorJob(h, "find", None, <<>>)
    /\ UNCHANGED <<row, cab, name, entry, cabKey, factorKey, synced, faults>>

FindFactor(h) ==
    /\ At(h, "factor", "find")
    /\ job' = [job EXCEPT ![h] = IF factor = None THEN Idle
                                 ELSE [@ EXCEPT !.step = "set", !.read =
                                          [at |-> name[factor.city], rate |-> factor.rate]]]
    /\ UNCHANGED <<row, cab, factor, name, entry, cabKey, factorKey, synced, faults, astray>>

\* What is sent is laid over what was read; a city that is sent is an id, without a name.
UpdateFactor(h, cols) ==
    /\ job[h] = Idle /\ factor # None
    /\ LET new == cols @@ factor
       IN  FactorJob(h, "write", [at |-> IF "city" \in DOMAIN cols THEN Nowhere
                                         ELSE name[factor.city],
                                  rate |-> new.rate], cols)
    /\ UNCHANGED <<row, cab, factor, name, entry, cabKey, factorKey, synced, faults>>

WriteFactor(h) ==
    /\ At(h, "factor", "write")
    /\ factor' = IF factor = None THEN None ELSE job[h].cols @@ factor
    /\ job' = [job EXCEPT ![h].step = "set"]
    /\ UNCHANGED <<row, cab, name, entry, cabKey, factorKey, synced, faults, astray>>

SetFactor(h) ==
    LET read == job[h].read
    IN  /\ At(h, "factor", "set")
        /\ factorKey' = [factorKey EXCEPT ![read.at] = read.rate]
        /\ job' = [job EXCEPT ![h] = Idle]
        /\ astray' = IF read.at = Nowhere THEN astray \cup {"factor"} ELSE astray
        /\ UNCHANGED <<row, cab, factor, name, entry, cabKey, synced, faults>>

RemoveFactor(h) ==
    /\ job[h] = Idle /\ factor # None
    /\ FactorJob(h, "delete", [at |-> name[factor.city], rate |-> 0], <<>>)
    /\ UNCHANGED <<row, cab, factor, name, entry, cabKey, factorKey, synced, faults>>

\* The key is then written like any other: with nothing.
DeleteFactor(h) ==
    /\ At(h, "factor", "delete")
    /\ factor' = None
    /\ job' = [job EXCEPT ![h].step = "set"]
    /\ UNCHANGED <<row, cab, name, entry, cabKey, factorKey, synced, faults, astray>>

-----------------------------------------------------------------------------
(* Cities, and what goes wrong *)

\* The keys stay under the old name.
UpdateCity(c, n) ==
    /\ faults < MaxFaults /\ \A k \in Cities : name[k] # n
    /\ faults' = faults + 1
    /\ name' = [name EXCEPT ![c] = n]
    /\ astray' = astray \cup {c} \cup (IF factor = None /\ Working("factor") = {} THEN {}
                                     ELSE {"factor"})
    /\ UNCHANGED <<row, cab, factor, entry, cabKey, factorKey, synced, job>>

\* An administrator has the cabs filled in again.
KeyClearRedis ==
    /\ faults < MaxFaults /\ "cab" \in synced
    /\ faults' = faults + 1
    /\ synced' = synced \ {"cab"}
    /\ UNCHANGED <<row, cab, factor, name, entry, cabKey, factorKey, job, astray>>

\* A call fails or its handler stops: what was written stays, what was not is not.
Fail(h) ==
    /\ job[h] # Idle /\ faults < MaxFaults
    /\ faults' = faults + 1
    /\ job' = [job EXCEPT ![h] = Idle]
    /\ astray' = IF job[h].step \in {"ask", "fill"} THEN astray
                 ELSE astray \cup {p[1] : p \in job[h].places}
                             \cup ({job[h].table} \cap {"cab", "factor"})
    /\ UNCHANGED <<row, cab, factor, name, entry, cabKey, factorKey, synced>>

LoseRedis ==
    /\ faults < MaxFaults
    /\ faults' = faults + 1
    /\ entry' = [f \in DOMAIN entry |-> 0]
    /\ cabKey' = 0
    /\ factorKey' = [n \in DOMAIN factorKey |-> 0]
    /\ synced' = {}
    /\ astray' = Cities \cup {"cab"}
                    \cup (IF factor = None /\ Working("factor") = {} THEN {} ELSE {"factor"})
    /\ UNCHANGED <<row, cab, factor, name, job>>

-----------------------------------------------------------------------------
Init ==
    /\ row = [i \in Ids |-> None]
    /\ cab = CabRate /\ cabKey = CabRate
    /\ factor = None
    /\ name = NameOf
    /\ entry = [f \in Names \X Days |-> 0]
    /\ factorKey = [n \in Names \cup {Nowhere} |-> 0]
    /\ synced = {}
    /\ job = [h \in Handlers |-> Idle]
    /\ faults = 0
    /\ astray = {}

ChargeNext(h) ==
    \/ \E i \in Ids :
          \/ \E c \in Cities, d \in Days, rate \in Rates : CreateCharge(h, i, c, d, rate)
          \/ \E cols \in [{"city"} -> Cities] \cup [{"day"} -> Days] \cup [{"rate"} -> Rates] :
                UpdateCharge(h, i, cols)
          \/ RemoveCharge(h, i)
    \/ WriteCharge(h) \/ FindCharge(h) \/ SetEntry(h) \/ DeleteCharge(h) \/ DropEntry(h)
    \/ \E cs \in {Cities} \cup {{c} : c \in Cities} : ListCharges(h, cs)
    \/ AskSynced(h) \/ FillCharges(h)

CabNext(h) ==
    \/ \E rate \in Rates : UpdateCab(h, rate)
    \/ UpdateCabOrder(h) \/ FindCab(h) \/ SetCab(h) \/ RemoveCab(h) \/ DeleteCab(h) \/ DropCab(h)
    \/ ListCabs(h) \/ AskSynced(h) \/ FillCabs(h)

FactorNext(h) ==
    \/ \E c \in Cities, rate \in Rates : CreateFactor(h, c, rate)
    \/ \E cols \in [{"city"} -> Cities] \cup [{"rate"} -> Rates] : UpdateFactor(h, cols)
    \/ FindFactor(h) \/ WriteFactor(h) \/ SetFactor(h) \/ RemoveFactor(h) \/ DeleteFactor(h)

\* What befalls the charges from outside.
CityFaults ==
    \/ \E c \in Cities, n \in Names : UpdateCity(c, n)
    \/ LoseRedis

Faults == CityFaults \/ KeyClearRedis \/ \E h \in Handlers : Fail(h)

Next ==
    \/ \E h \in Handlers : ChargeNext(h) \/ CabNext(h) \/ FactorNext(h)
    \/ Faults

Spec == Init /\ [][Next]_chargeVars

-----------------------------------------------------------------------------
TypeOK ==
    /\ \A i \in Rows : row[i].city \in Cities /\ row[i].day \in Days /\ row[i].rate \in Rates
    /\ {cab, cabKey} \subseteq Rates \cup {0, CabRate}
    /\ factor # None => factor.city \in Cities /\ factor.rate \in Rates
    /\ name \in [Cities -> Names]
    /\ entry \in [Names \X Days -> Rates \cup {0}]
    /\ factorKey \in [Names \cup {Nowhere} -> Rates \cup {0}]
    /\ synced \subseteq {"charge", "cab"}
    /\ \A h \in Handlers : job[h].table \in {"none", "charge", "cab", "factor"}
    /\ faults \in 0..MaxFaults
    /\ astray \subseteq Cities \cup {"cab", "factor"}

\* getCabChargeConfig: what a trip in a city of that name costs; the cab's own rate where
\* no charge is found.
CabCharge(n, d) == IF entry[<<n, d>>] # 0 THEN entry[<<n, d>>] ELSE cabKey
FareMultiplier(n) == IF factorKey[n] # 0 THEN factorKey[n] ELSE 1

\* And what administrators set.
OwnRates(c, d) == {row[i].rate : i \in {i \in Rows : Place(row[i]) = <<c, d>>}}

\* The states TLC goes on from: where a city or table has gone astray nothing is claimed
\* but the way back, by a list after redis was lost, and of that the calls that do not
\* overlap.
Followed ==
    \/ astray \ {"cab"} = {}
    \/ Cities \subseteq astray /\ "charge" \notin synced /\ Cardinality(Working("charge")) <= 1

\* A trip is priced as administrators set, however charges, multipliers and cabs were
\* made, moved, changed, listed and removed, also when redis was lost and filled in
\* again; as long as no call is changing what it is priced by, and none has overlapped
\* another on that, been cut short, renamed the city or filled redis with a part only.
PricedAsConfigured ==
    /\ \A c \in Cities \ astray, d \in Days :
          (\A h \in Working("charge") : <<c, d>> \notin job[h].places) =>
              CabCharge(name[c], d) \in IF OwnRates(c, d) = {} THEN {cabKey} ELSE OwnRates(c, d)
    /\ ("factor" \notin astray /\ Working("factor") = {}) =>
          \A c \in Cities \ astray :
              FareMultiplier(name[c]) = IF factor # None /\ factor.city = c THEN factor.rate ELSE 1
    /\ ("cab" \notin astray /\ Working("cab") = {}) => cabKey = cab
=============================================================================
