----------------------------- MODULE ChatGroups -----------------------------
(***************************************************************************)
(* Who is in a chat group: chat-service GroupsService.                     *)
(*                                                                         *)
(* The members of a group are kept three times: as rows of group_members,  *)
(* from which createGroupMessage stores a copy for each of them; as the    *)
(* receivers of the group's conversation, by which it appears in their     *)
(* chat lists; and as a list in redis, by which the socket gateway         *)
(* delivers.  Every request changes the three one after the other, the     *)
(* last two from what it read before.                                      *)
(*                                                                         *)
(* One consumer serves its messages in turn, but they carry no key and the *)
(* service may run in several replicas: a handler is one of those.  Titles,*)
(* pictures and administrators of a group, and deleteGroup, whose mark     *)
(* nothing looks at, are left out.                                         *)
(***************************************************************************)
EXTENDS Rosters, Naturals, Sequences

CONSTANTS
    Users, Handlers,
    MaxStops        \* bound: handlers that stop or whose database call fails

VARIABLE stops

chatVars ==
    <<member, receivers, roster, groupJob, stops, crowdedGroups, cutGroups, revived>>

Membership == {"none", "in", "out"}

NotCreated == [u \in Users |-> "none"]

Idle == [op |-> "none", group |-> "none", users |-> {}, steps |-> <<>>,
         found |-> NotCreated, listed |-> {}]

Created(g) == receivers[g] # NotCreated

-----------------------------------------------------------------------------
(* Requests *)

\* createGroup.  Nobody knows the group before it answers, so its writes are one step.
\* The members named in the request are not added: the controller looks for the id of
\* the group beside the place where the answer has it.
CreateGroup(g, u) ==
    /\ member[g] = NotCreated /\ On(g) = {}
    /\ LET rows == [NotCreated EXCEPT ![u] = "in"]
       IN  /\ member' = [member EXCEPT ![g] = rows]
           /\ receivers' = [receivers EXCEPT ![g] = rows]
           /\ roster' = [roster EXCEPT ![g] = {u}]
    /\ UNCHANGED <<groupJob, stops, crowdedGroups, cutGroups, revived>>

Begin(h, g, op, S, steps) ==
    /\ groupJob[h] = Idle
    /\ groupJob' = [groupJob EXCEPT
           ![h] = [Idle EXCEPT !.op = op, !.group = g, !.users = S, !.steps = steps]]
    /\ crowdedGroups' = IF On(g) = {} THEN crowdedGroups ELSE crowdedGroups \cup {g}
    /\ UNCHANGED <<member, receivers, roster, stops, cutGroups, revived>>

AddGroupMembers(h, g, S) ==
    /\ Created(g) /\ S # {}
    /\ Begin(h, g, "add", S, <<"rows", "revive", "find", "receivers", "read", "sync">>)

\* A member who leaves, or whom somebody removes; who may, the gateway has decided.
RemoveGroupMember(h, g, u) ==
    /\ Created(g)
    /\ Begin(h, g, "remove", {u}, <<"rows", "find", "receivers", "read", "sync">>)

-----------------------------------------------------------------------------
(* The steps of a handler *)

At(h, step) == groupJob[h] # Idle /\ Head(groupJob[h].steps) = step

Go(h, j) ==
    groupJob' = [groupJob EXCEPT ![h] = IF Len(j.steps) = 1 THEN Idle
                                        ELSE [j EXCEPT !.steps = Tail(@)]]

\* The upserts: an addition leaves the mark on a row that was deleted, a removal
\* makes the row of a user who never was a member.
WriteRows(h) ==
    LET j == groupJob[h]
        row(u) == IF j.op = "remove" THEN "out"
                  ELSE IF member[j.group][u] = "none" THEN "in" ELSE member[j.group][u]
    IN  /\ At(h, "rows")
        /\ member' = [member EXCEPT ![j.group] =
                          [u \in Users |-> IF u \in j.users THEN row(u) ELSE @[u]]]
        /\ Go(h, j)
        /\ UNCHANGED <<receivers, roster, stops, crowdedGroups, cutGroups, revived>>

\* The mark is taken off every row of the users, of whatever group.
Revive(h) ==
    LET j == groupJob[h]
        back(g) == {u \in j.users : member[g][u] = "out"}
    IN  /\ At(h, "revive")
        /\ member' = [g \in Groups |->
                          [u \in Users |-> IF u \in back(g) THEN "in" ELSE member[g][u]]]
        /\ revived' = revived \cup {g \in Groups \ {j.group} : back(g) # {}}
        /\ Go(h, j)
        /\ UNCHANGED <<receivers, roster, stops, crowdedGroups, cutGroups>>

FindConversation(h) ==
    LET j == groupJob[h]
    IN  /\ At(h, "find")
        /\ Go(h, [j EXCEPT !.found = receivers[j.group]])
        /\ UNCHANGED <<member, receivers, roster, stops, crowdedGroups, cutGroups, revived>>

\* Mutant: an addition appends those who are not receivers yet and nothing else.
WriteReceiversNew(h) ==
    LET j == groupJob[h]
    IN  /\ At(h, "receivers")
        /\ receivers' = [receivers EXCEPT ![j.group] =
               [u \in Users |-> IF u \in j.users
                                THEN CASE j.op = "add" /\ j.found[u] = "none" -> "in"
                                       [] j.op = "remove" /\ j.found[u] # "none" -> "out"
                                       [] OTHER -> j.found[u]
                                ELSE j.found[u]]]
        /\ Go(h, j)
        /\ UNCHANGED <<member, roster, stops, crowdedGroups, cutGroups, revived>>

\* The whole list is written, from the one that was read.
WriteReceivers(h) ==
    LET j == groupJob[h]
    IN  /\ At(h, "receivers")
        /\ receivers' = [receivers EXCEPT ![j.group] =
               [u \in Users |-> IF u \in j.users
                                THEN CASE j.op = "add" -> "in"
                                       [] j.op = "remove" /\ j.found[u] # "none" -> "out"
                                       [] OTHER -> "none"
                                ELSE j.found[u]]]
        /\ Go(h, j)
        /\ UNCHANGED <<member, roster, stops, crowdedGroups, cutGroups, revived>>

\* syncGroupMemberToRedis: the rows are read, then the list is replaced.
ReadRows(h) ==
    LET j == groupJob[h]
    IN  /\ At(h, "read")
        /\ Go(h, [j EXCEPT !.listed = In(member[j.group])])
        /\ UNCHANGED <<member, receivers, roster, stops, crowdedGroups, cutGroups, revived>>

Sync(h) ==
    LET j == groupJob[h]
    IN  /\ At(h, "sync")
        /\ roster' = [roster EXCEPT ![j.group] = j.listed]
        /\ Go(h, j)
        /\ UNCHANGED <<member, receivers, stops, crowdedGroups, cutGroups, revived>>

\* The handler stops or a call of it fails, which only answers an error; the bound is
\* on those that had written something.
Stop(h) ==
    /\ groupJob[h] # Idle
    /\ groupJob' = [groupJob EXCEPT ![h] = Idle]
    /\ \/ At(h, "rows") /\ UNCHANGED <<stops, cutGroups>>
       \/ /\ ~At(h, "rows") /\ stops < MaxStops
          /\ stops' = stops + 1
          /\ cutGroups' = cutGroups \cup {groupJob[h].group}
    /\ UNCHANGED <<member, receivers, roster, crowdedGroups, revived>>

-----------------------------------------------------------------------------
Init ==
    /\ member = [g \in Groups |-> NotCreated]
    /\ receivers = [g \in Groups |-> NotCreated]
    /\ roster = [g \in Groups |-> {}]
    /\ groupJob = [h \in Handlers |-> Idle]
    /\ stops = 0
    /\ crowdedGroups = {} /\ cutGroups = {} /\ revived = {}

Step(h) ==
    WriteRows(h) \/ Revive(h) \/ FindConversation(h) \/ WriteReceivers(h) \/ ReadRows(h)
    \/ Sync(h) \/ Stop(h)

Next ==
    \/ \E g \in Groups, u \in Users : CreateGroup(g, u)
    \/ \E h \in Handlers :
          \/ \E g \in Groups :
                \/ \E S \in SUBSET Users : AddGroupMembers(h, g, S)
                \/ \E u \in Users : RemoveGroupMember(h, g, u)
          \/ Step(h)

Spec == Init /\ [][Next]_chatVars

-----------------------------------------------------------------------------
TypeOK ==
    /\ member \in [Groups -> [Users -> Membership]]
    /\ receivers \in [Groups -> [Users -> Membership]]
    /\ roster \in [Groups -> SUBSET Users]
    /\ \A h \in Handlers : groupJob[h] # Idle => /\ groupJob[h].group \in Groups
                                                 /\ groupJob[h].users \subseteq Users
    /\ stops \in 0..MaxStops
    /\ crowdedGroups \cup cutGroups \cup revived \subseteq Groups
=============================================================================
