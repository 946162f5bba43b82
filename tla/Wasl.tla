-------------------------------- MODULE Wasl --------------------------------
(***************************************************************************)
(* Whether the transport authority (WASL) lets a captain drive, and until  *)
(* when: driver-services CaptainService, HandleWASLDriversService.         *)
(*                                                                         *)
(* A captain is created PENDING, or INVALID if his registration failed.    *)
(* Every five minutes a job asks WASL about all that are PENDING; the      *)
(* administrator may ask about each of them, or switch the status of one.  *)
(* At midnight two jobs run side by side: one reminds captains before      *)
(* their eligibility ends, one takes the approval from those whose         *)
(* eligibility has ended.  Every replica runs every job, each from what it *)
(* read before it waited for WASL and the customers of rides-service.      *)
(***************************************************************************)
EXTENDS Eligibility

CONSTANTS
    Drivers,
    Workers,    \* bound: jobs and requests under way at once
    Replicas,   \* how many replicas run the jobs of midnight
    Fleets,     \* the verdicts that may occur among a captain's vehicles
    Periods,    \* days before the end at which a captain is reminded
    Ends,       \* last days that WASL gives
    LastDay     \* bound

VARIABLE nights     \* how often each job of midnight was begun today

waslVars == <<today, waslRow, decision, waslJob, nights, reminders, checkedEnds, changed,
              unasked, remindedTwice, cutReminders>>

Statuses == {"PENDING", "VALID", "INVALID"}

\* Days are numbers, and the reminders of a captain are counted.
Calendar ==
    Ends \subseteq Nat /\ DOMAIN Periods \subseteq Nat /\ Fleets \subseteq SUBSET Statuses

Nights == {"remind", "expire"}

\* The column's default is a day long past.
Default == 0

\* Of a captain and of each of his vehicles; of the vehicles, which verdicts occur.
Undecided == [status |-> "PENDING", vehicles |-> {}, until |-> Default]

Idle == [op |-> "none", list |-> {}, saw |-> <<>>, day |-> 0]

\* What a worker may know of a captain.
News == [wasl |-> "PENDING", until |-> Default, told |-> 0]

\* A worker at op with the captains it read, and what it goes by later on.
At(w, op) == waslJob[w].op = op

Begin(w, op, list, saw) ==
    /\ At(w, "none")
    /\ waslJob' = [waslJob EXCEPT ![w] =
                      [op |-> op, list |-> list, saw |-> saw, day |-> today]]

Finish(w) == waslJob' = [waslJob EXCEPT ![w] = Idle]

\* The worker is done with d.
Next1(w, d) ==
    IF waslJob[w].list = {d} THEN Finish(w)
    ELSE waslJob' = [waslJob EXCEPT ![w].list = @ \ {d}]

Pending == {d \in Drivers : waslRow[d].wasl = "PENDING"}

-----------------------------------------------------------------------------
(* WASL's decision *)

Decide(d, status, vehicles, until) ==
    /\ decision[d].status = "PENDING"
    /\ decision' = [decision EXCEPT ![d] =
                       [status |-> status, vehicles |-> vehicles, until |-> until]]
    /\ decision' # decision
    /\ UNCHANGED <<today, waslRow, waslJob, nights, reminders, checkedEnds, changed,
                   unasked, remindedTwice, cutReminders>>

\* findAndNotifyDriversForWASLEligibility: one answer for all that are PENDING.
ReadPending(w) ==
    /\ Pending # {}
    /\ Begin(w, "ask", Pending, <<>>)
    /\ UNCHANGED <<today, waslRow, decision, nights, reminders, checkedEnds, changed,
                   unasked, remindedTwice, cutReminders>>

OneVehicleDoes(c) == c.status = "VALID" /\ "VALID" \in c.vehicles

\* Whom WASL has not decided stays as he is.
AskAll(w) ==
    LET decided == {d \in waslJob[w].list : decision[d].status # "PENDING"}
    IN  /\ At(w, "ask")
        /\ IF decided = {} THEN Finish(w)
           ELSE waslJob' = [waslJob EXCEPT ![w].op = "decide", ![w].list = decided,
                                   ![w].saw = [d \in decided |->
                                       [News EXCEPT !.wasl = IF OneVehicleDoes(decision[d])
                                                             THEN "VALID" ELSE "INVALID",
                                                    !.until = decision[d].until]]]
        /\ UNCHANGED <<today, waslRow, decision, nights, reminders, checkedEnds, changed,
                       unasked, remindedTwice, cutReminders>>

Store(d, status, until) ==
    waslRow' = [waslRow EXCEPT ![d].wasl = status, ![d].until = until]

\* The approved first, then the rejected, whose date is left alone.
WriteDecision(w) ==
    \E d \in waslJob[w].list :
        /\ At(w, "decide")
        /\ \/ waslJob[w].saw[d].wasl = "VALID"
           \/ \A e \in waslJob[w].list : waslJob[w].saw[e].wasl = "INVALID"
        /\ LET saw == waslJob[w].saw[d] IN
           Store(d, saw.wasl, IF saw.wasl = "VALID" THEN saw.until ELSE waslRow[d].until)
        /\ Next1(w, d)
        /\ changed' = changed \cup {d}
        /\ UNCHANGED <<today, decision, nights, reminders, checkedEnds, unasked,
                       remindedTwice, cutReminders>>

\* findAndNotifyDriversForWASLEligibilityOneByOne: a captain WASL does not answer for
\* ends it, as a failure does (Fail).
BeginOneByOne(w) ==
    /\ Pending # {}
    /\ Begin(w, "each", Pending, <<>>)
    /\ UNCHANGED <<today, waslRow, decision, nights, reminders, checkedEnds, changed,
                   unasked, remindedTwice, cutReminders>>

\* Neither he nor any of his vehicles; whom WASL has not decided counts as accepted.
NoneRefused(c) == c.status # "INVALID" /\ "INVALID" \notin c.vehicles

\* The date that WASL gives is stored whatever becomes of the captain.
OneByOne(w) ==
    \E d \in waslJob[w].list :
        LET c == decision[d] IN
        /\ At(w, "each")
        /\ Store(d, IF NoneRefused(c) THEN "VALID" ELSE "INVALID",
                 IF c.status = "VALID" THEN c.until ELSE waslRow[d].until)
        /\ unasked' = IF c.status = "PENDING" THEN unasked \cup {d} ELSE unasked
        /\ Next1(w, d)
        /\ changed' = changed \cup {d}
        /\ UNCHANGED <<today, decision, nights, reminders, checkedEnds, remindedTwice,
                       cutReminders>>

\* changeWaslStatus: PENDING becomes VALID, anything else PENDING.
ReadStatus(w, d) ==
    /\ Begin(w, "switch", {d}, [e \in {d} |-> [News EXCEPT !.wasl = waslRow[d].wasl]])
    /\ UNCHANGED <<today, waslRow, decision, nights, reminders, checkedEnds, changed,
                   unasked, remindedTwice, cutReminders>>

WriteStatus(w) ==
    \E d \in waslJob[w].list :
        /\ At(w, "switch")
        /\ waslRow' = [waslRow EXCEPT ![d].wasl =
                      IF waslJob[w].saw[d].wasl = "PENDING" THEN "VALID" ELSE "PENDING"]
        /\ Finish(w)
        /\ changed' = changed \cup {d}
        /\ unasked' = unasked \cup {d}
        /\ UNCHANGED <<today, decision, nights, reminders, checkedEnds, remindedTwice,
                       cutReminders>>

-----------------------------------------------------------------------------
(* Midnight *)

Tonight(op) ==
    /\ nights[op] < Replicas
    /\ nights' = [nights EXCEPT ![op] = @ + 1]

\* told + 1 reminders are due within as many days.
Due(d) ==
    /\ waslRow[d].sub /\ waslRow[d].wasl = "VALID" /\ waslRow[d].until > today
    /\ waslRow[d].told \in DOMAIN Periods
    /\ waslRow[d].until <= today + Periods[waslRow[d].told]

FindDue(w) ==
    LET due == {d \in Drivers : Due(d)}
    IN  /\ Tonight("remind")
        /\ IF due = {} THEN At(w, "none") /\ UNCHANGED waslJob
           ELSE Begin(w, "tell", due,
                      [d \in due |-> [News EXCEPT !.told = waslRow[d].told]])
        /\ remindedTwice' = remindedTwice \cup
               {d \in due : \E v \in Reminding(d) :
                                waslJob[v].saw[d].told = waslRow[d].told}
        /\ UNCHANGED <<today, waslRow, decision, reminders, checkedEnds, changed, unasked,
                       cutReminders>>

\* The count is stored before anybody is told.
WriteTold(w) ==
    \E d \in waslJob[w].list :
        /\ At(w, "tell")
        /\ waslRow' = [waslRow EXCEPT ![d].told = waslJob[w].saw[d].told + 1]
        /\ waslJob' = [waslJob EXCEPT ![w].list = @ \ {d},
                                  ![w].op = IF waslJob[w].list = {d} THEN "send" ELSE @]
        /\ UNCHANGED <<today, decision, nights, reminders, checkedEnds, changed, unasked,
                       remindedTwice, cutReminders>>

Remind(w) ==
    LET saw == waslJob[w].saw
    IN  /\ At(w, "send")
        /\ reminders' = [d \in Drivers |-> [k \in DOMAIN Periods |->
               reminders[d][k] + (IF d \in DOMAIN saw /\ saw[d].told = k THEN 1 ELSE 0)]]
        /\ Finish(w)
        /\ UNCHANGED <<today, waslRow, decision, nights, checkedEnds, changed, unasked,
                       remindedTwice, cutReminders>>

\* Mutant: looks at those that ended the day before only.
EndedYesterday(d) ==
    LET c == waslRow[d] IN c.sub /\ c.approved /\ c.wasl = "VALID" /\ c.until + 1 = today

Ended(d) ==
    LET c == waslRow[d] IN c.sub /\ c.approved /\ c.wasl = "VALID" /\ c.until < today

FindEnded(w) ==
    LET ended == {d \in Drivers : Ended(d)}
    IN  /\ Tonight("expire")
        /\ IF ended = {} THEN At(w, "none") /\ checkedEnds' = TRUE /\ UNCHANGED waslJob
           ELSE Begin(w, "expire", ended, <<>>) /\ UNCHANGED checkedEnds
        /\ UNCHANGED <<today, waslRow, decision, reminders, changed, unasked,
                       remindedTwice, cutReminders>>

WriteEnded(w) ==
    /\ At(w, "expire")
    /\ waslRow' = [d \in Drivers |-> IF d \in waslJob[w].list
                                     THEN [waslRow[d] EXCEPT !.approved = FALSE]
                                     ELSE waslRow[d]]
    /\ checkedEnds' = (checkedEnds \/ waslJob[w].day = today)
    /\ Finish(w)
    /\ UNCHANGED <<today, decision, nights, reminders, changed, unasked, remindedTwice,
                   cutReminders>>

-----------------------------------------------------------------------------
\* A call or a write fails, or the process stops: what was not written yet is not.
Fail(w) ==
    LET saw == waslJob[w].saw
    IN  /\ ~At(w, "none")
        /\ cutReminders' = cutReminders \cup
               IF At(w, "tell") \/ At(w, "send")
               THEN {d \in DOMAIN saw : waslRow[d].told > saw[d].told} ELSE {}
        /\ Finish(w)
        /\ UNCHANGED <<today, waslRow, decision, nights, reminders, checkedEnds, changed,
                       unasked, remindedTwice>>

\* changeDriverStatus by an administrator, and driverSubStatus as the payment
\* service tells it.
Change(d, approved, sub) ==
    /\ waslRow' = [waslRow EXCEPT ![d].approved = approved, ![d].sub = sub]
    /\ waslRow' # waslRow
    /\ changed' = changed \cup {d}
    /\ UNCHANGED <<today, decision, waslJob, nights, reminders, checkedEnds, unasked,
                   remindedTwice, cutReminders>>

NextDay ==
    /\ today < LastDay
    /\ today' = today + 1
    /\ nights' = [op \in Nights |-> 0]
    /\ checkedEnds' = FALSE /\ changed' = {}
    /\ UNCHANGED <<waslRow, decision, waslJob, reminders, unasked, remindedTwice,
                   cutReminders>>

Init ==
    /\ today = 1
    /\ waslRow \in [Drivers ->
           {[wasl |-> s, until |-> Default, told |-> 0, approved |-> TRUE, sub |-> TRUE] :
               s \in {"PENDING", "INVALID"}}]
    /\ decision = [d \in Drivers |-> Undecided]
    /\ waslJob = [w \in Workers |-> Idle]
    /\ nights = [op \in Nights |-> 0]
    /\ reminders = [d \in Drivers |-> [k \in DOMAIN Periods |-> 0]]
    /\ checkedEnds = FALSE /\ changed = {} /\ remindedTwice = {} /\ cutReminders = {}
    /\ unasked = {d \in Drivers : waslRow[d].wasl = "INVALID"}

Next ==
    \/ NextDay
    \/ \E d \in Drivers :
          \/ \E vehicles \in Fleets :
                \/ Decide(d, "PENDING", vehicles, Default)
                \/ Decide(d, "INVALID", vehicles, Default)
                \/ \E e \in Ends : Decide(d, "VALID", vehicles, e)
          \/ Change(d, ~waslRow[d].approved, waslRow[d].sub)
          \/ Change(d, waslRow[d].approved, ~waslRow[d].sub)
          \/ \E w \in Workers : ReadStatus(w, d)
    \/ \E w \in Workers :
          \/ ReadPending(w) \/ AskAll(w) \/ WriteDecision(w)
          \/ BeginOneByOne(w) \/ OneByOne(w) \/ WriteStatus(w)
          \/ FindDue(w) \/ WriteTold(w) \/ Remind(w) \/ FindEnded(w) \/ WriteEnded(w)
          \/ Fail(w)

Spec == Init /\ [][Next]_waslVars

-----------------------------------------------------------------------------
TypeOK ==
    /\ today \in 1..LastDay
    /\ \A d \in Drivers :
          /\ waslRow[d].wasl \in Statuses /\ waslRow[d].until \in Ends \cup {Default}
          /\ waslRow[d].told \in Nat
          /\ waslRow[d].approved \in BOOLEAN /\ waslRow[d].sub \in BOOLEAN
    /\ \A w \in Workers : /\ waslJob[w].list \subseteq Drivers
                          /\ At(w, "none") <=> waslJob[w] = Idle
    /\ nights \in [Nights -> 0..Replicas]
    /\ reminders \in [Drivers -> [DOMAIN Periods -> Nat]]
=============================================================================
