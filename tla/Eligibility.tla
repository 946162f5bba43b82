----------------------------- MODULE Eligibility -----------------------------
(* What is kept of captains' eligibilities, and of the reminders (Wasl).      *)
EXTENDS Naturals

VARIABLES
    today,
    waslRow,        \* captain rows: isWASLApproved, eligibilityExpiryDate and so on
    decision,       \* WASL: what it decided of a captain, and until when
    waslJob,        \* what each worker is doing
    reminders,      \* how often a captain was reminded of each period
    checkedEnds,    \* history: whether the check for ended eligibilities is done for today
    changed,        \* history: captains whose row was changed today by others
    unasked,        \* history: captains whose status does not come from a decision of WASL
    remindedTwice,  \* history: captains whom two replicas were reminding at once
    cutReminders    \* history: captains whom a reminder that failed halfway left out

Reminding(d) ==
    {w \in DOMAIN waslJob :
        waslJob[w].op \in {"tell", "send"} /\ d \in DOMAIN waslJob[w].saw}

\* Nobody drives whom WASL refuses, or with vehicles that it all refuses; nobody is
\* kept from driving whom WASL accepts with all his vehicles.
Borne(status, c) ==
    /\ status = "VALID" => c.status = "VALID" /\ c.vehicles # {"INVALID"}
    /\ status = "INVALID" => c.status = "INVALID" \/ c.vehicles # {"VALID"}

\* A captain is valid only if WASL decided so, and until the day WASL gave.  Of a
\* captain with vehicles of both kinds nothing more can be said: the job that asks
\* about all accepts him, the one that asks about each refuses him.
StatusIsWasls ==
    \A d \in DOMAIN waslRow \ unasked :
        /\ Borne(waslRow[d].wasl, decision[d])
        /\ waslRow[d].wasl = "VALID" => waslRow[d].until = decision[d].until

\* Once the check of midnight is done, nobody is approved whose eligibility has ended,
\* also if the check failed on earlier nights.
EndedAreOff ==
    checkedEnds => \A d \in DOMAIN waslRow \ changed :
                       waslRow[d].approved /\ waslRow[d].sub /\ waslRow[d].wasl = "VALID" =>
                           waslRow[d].until >= today

\* The reminders follow one another: of each period that the count covers a captain
\* was reminded once, or is about to be.
RemindedInTurn ==
    \A d \in DOMAIN waslRow \ (remindedTwice \cup cutReminders) :
        \A k \in DOMAIN reminders[d] :
            reminders[d][k] =
                IF k < waslRow[d].told /\ \A w \in Reminding(d) : waslJob[w].saw[d].told # k
                THEN 1 ELSE 0

\* What the rows say of eligibilities is what WASL decided, is acted upon in time and
\* told in time, whatever jobs, replicas and administrators do meanwhile; but for
\* captains an administrator decided about, reminders that two replicas read at once,
\* and reminders that failed halfway, which are counted and not repeated.
EligibilityKept == StatusIsWasls /\ EndedAreOff /\ RemindedInTurn
=============================================================================
