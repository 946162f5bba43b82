------------------------------- MODULE Accounts -------------------------------
(***************************************************************************)
(* How riders and drivers get an account, and whose it is.                 *)
(*                                                                         *)
(* authentication-service OtpService.verifyOtp signs a mobile number up,   *)
(* as a guest or with a national id that the Yakeen authority vouches for; *)
(* customerUpdateOrCraeteWithKyc, which drivers sign up with and riders    *)
(* are verified with later, looks for the number and the id among the      *)
(* customers of rides-service, asks Yakeen, and has the customer stored.   *)
(* It is a chain of awaited calls between two services, in no transaction; *)
(* the customer table has unique userIds and mobile numbers, but not ids.  *)
(*                                                                         *)
(* Codes, tokens and logins are left out: they find an account, or none.   *)
(***************************************************************************)
EXTENDS CustomerTable, Naturals, FiniteSetsExt

CONSTANTS
    Ids,        \* national ids
    Handlers    \* bound: requests at work at once

VARIABLE job    \* what each handler is doing

accountVars == <<account, job, proven, claimedTwice, unseen>>

\* The column of an account without an id is empty; the table is finite.
FiniteTable == IsFiniteSet(Mobiles) /\ None \notin Mobiles \cup Ids

\* The two ranges of userIds; a number counts from the start of its range.
Kinds == {"rider", "driver"}

NoAccount == [kind |-> "none", number |-> 0, id |-> None]

Idle == [step |-> "none", kind |-> "none", mobile |-> None, id |-> None,
         found |-> NoAccount, number |-> 0]

Working == {h \in Handlers : job[h] # Idle}

At(h, step) == job[h].step = step

Goto(h, step) == job' = [job EXCEPT ![h].step = step]
Finish(h)     == job' = [job EXCEPT ![h] = Idle]

\* lastUserId; numbers start after the first of the range.
LastUserId(kind) ==
    Max({0} \cup {account[m].number : m \in {n \in Mobiles : account[n].kind = kind}})

-----------------------------------------------------------------------------
(* Requests *)

Begin(h, step, kind, m, i) ==
    LET claimed == {m, i} \ {None}
    IN  /\ job[h] = Idle
        /\ job' = [job EXCEPT ![h] = [Idle EXCEPT !.step = step, !.kind = kind, !.mobile = m,
                                                  !.id = i]]
        /\ claimedTwice' = claimedTwice \cup
               (claimed \cap UNION {{job[g].mobile, job[g].id} : g \in Working})
        /\ UNCHANGED <<account, proven, unseen>>

\* verifyOtp for a rider who signs up, with an id or as a guest.
SignUp(h, m, i) == Begin(h, "registered", "rider", m, i)

\* verifyOtp for a driver who signs up.
SignUpDriver(h, m, i) == Begin(h, "byMobile", "driver", m, i)

\* kyc, of a rider who is signed in.
Kyc(h, m, i) == account[m] # NoAccount /\ Begin(h, "byMobile", "rider", m, i)

-----------------------------------------------------------------------------
(* Looking for the customer; a row that cannot be read counts as none *)

Registered(h) ==
    /\ At(h, "registered")
    /\ \/ account[job[h].mobile] # NoAccount /\ Finish(h)
       \/ Goto(h, IF job[h].id = None THEN "last" ELSE "byMobile")
    /\ UNCHANGED <<account, proven, claimedTwice, unseen>>

FindByMobile(h) ==
    /\ At(h, "byMobile")
    /\ \E row \in {account[job[h].mobile], NoAccount} :
          job' = [job EXCEPT ![h].step = "byId", ![h].found = row]
    /\ UNCHANGED <<account, proven, claimedTwice, unseen>>

\* Mutant: the id that the number has already is not looked at.
ConflictOfId(j, others) == others \ {j.mobile} # {}

\* The number has another id, or the id another number; others has the number at
\* which the id was found.
Conflict(j, others) ==
    \/ j.found.id \notin {None, j.id}
    \/ others \ {j.mobile} # {}

\* An id that is found at the number itself has been verified before.
FindById(h) ==
    LET j == job[h]
        owners == {m \in Mobiles : account[m].id = j.id}
        Decide(others) ==
            IF Conflict(j, others) \/ others # {} THEN Finish(h) ELSE Goto(h, "yakeen")
    IN  /\ At(h, "byId")
        /\ \/ /\ IF owners = {} THEN Decide({}) ELSE \E m \in owners : Decide({m})
              /\ UNCHANGED unseen
           \/ /\ Decide({})
              /\ unseen' = unseen \cup {j.id}
        /\ UNCHANGED <<account, proven, claimedTwice>>

\* getCitizenDataFromYakeen and getIqamaDataFromYakeen vouch for the person or refuse.
AskYakeen(h) ==
    /\ At(h, "yakeen")
    /\ Finish(h) \/ Goto(h, IF job[h].found = NoAccount THEN "last" ELSE "update")
    /\ UNCHANGED <<account, proven, claimedTwice, unseen>>

-----------------------------------------------------------------------------
(* upsert-customer *)

ReadLast(h) ==
    /\ At(h, "last")
    /\ job' = [job EXCEPT ![h].step = "insert", ![h].number = LastUserId(job[h].kind) + 1]
    /\ UNCHANGED <<account, proven, claimedTwice, unseen>>

\* The unique columns refuse a number or a mobile that is taken.
Insert(h) ==
    LET j == job[h]
        taken == \E m \in Mobiles : account[m].kind = j.kind /\ account[m].number = j.number
    IN  /\ At(h, "insert")
        /\ IF taken \/ account[j.mobile] # NoAccount
           THEN UNCHANGED <<account, proven>>
           ELSE /\ account' = [account EXCEPT ![j.mobile] =
                                   [kind |-> j.kind, number |-> j.number, id |-> j.id]]
                /\ proven' = [proven EXCEPT ![j.mobile] = j.id]
        /\ Finish(h)
        /\ UNCHANGED <<claimedTwice, unseen>>

Update(h) ==
    LET m == job[h].mobile
    IN  /\ At(h, "update")
        /\ account' = [account EXCEPT ![m].id = job[h].id]
        /\ proven' = IF proven[m] = None THEN [proven EXCEPT ![m] = job[h].id] ELSE proven
        /\ Finish(h)
        /\ UNCHANGED <<claimedTwice, unseen>>

\* A call fails or the handler stops; nothing has been written then.
Stop(h) ==
    /\ job[h] # Idle
    /\ Finish(h)
    /\ UNCHANGED <<account, proven, claimedTwice, unseen>>

-----------------------------------------------------------------------------
Init ==
    /\ account = [m \in Mobiles |-> NoAccount]
    /\ job = [h \in Handlers |-> Idle]
    /\ proven = [m \in Mobiles |-> None]
    /\ claimedTwice = {} /\ unseen = {}

Next ==
    \E h \in Handlers :
        \/ \E m \in Mobiles :
              \/ SignUp(h, m, None)
              \/ \E i \in Ids : SignUp(h, m, i) \/ SignUpDriver(h, m, i) \/ Kyc(h, m, i)
        \/ Registered(h) \/ FindByMobile(h) \/ FindById(h) \/ AskYakeen(h)
        \/ ReadLast(h) \/ Insert(h) \/ Update(h) \/ Stop(h)

Spec == Init /\ [][Next]_accountVars

-----------------------------------------------------------------------------
TypeOK ==
    /\ \A m \in Mobiles : account[m] # NoAccount => /\ account[m].kind \in Kinds
                                                    /\ account[m].number \in Nat \ {0}
                                                    /\ account[m].id \in Ids \cup {None}
    /\ \A h \in Working : /\ job[h].mobile \in Mobiles /\ job[h].id \in Ids \cup {None}
                          /\ job[h].kind \in Kinds
    /\ proven \in [Mobiles -> Ids \cup {None}]
    /\ claimedTwice \subseteq Mobiles \cup Ids /\ unseen \subseteq Ids
===============================================================================
