------------------------------- MODULE Rosters -------------------------------
(* The three lists of a group's members (ChatGroups), and those who change them. *)

CONSTANT Groups

\* A handler without a group is at work on none.
ASSUME GroupsAssumption == "none" \notin Groups

VARIABLES
    member,         \* group_members: "none", "in", or "out" with isDeleted
    receivers,      \* of the conversation; "out" with a lastAction
    roster,         \* the list in redis, without those that are deleted
    groupJob,       \* what each handler is doing
    crowdedGroups,  \* history: groups with two handlers at work on them
    cutGroups,      \* history: groups whose handler stopped
    revived         \* history: groups changed by an addition to another group

\* Those who are in, of rows or of receivers.
In(rows) == {u \in DOMAIN rows : rows[u] = "in"}

\* Handlers at work on the group.
On(g) == {h \in DOMAIN groupJob : groupJob[h].group = g}

\* Those who get the stored copies of a group's messages, those who see the group in
\* their list and those to whom its messages are delivered are the same, whatever was
\* added and removed: but for groups with two handlers at once, with one that was cut
\* short, or with a member revived by an addition to another group, which the code
\* does not set right.
RosterAgrees ==
    \A g \in Groups \ (crowdedGroups \cup cutGroups \cup revived) :
        On(g) = {} => /\ In(receivers[g]) = In(member[g])
                      /\ roster[g] = In(member[g])
=============================================================================
