----------------------------- MODULE Connections -----------------------------
(* The keys and the column that say where a user is (Presence), and what the  *)
(* other services take them for.                                              *)
EXTENDS Null

CONSTANTS
    SocketUsers,     \* riders and captains with the app
    Sockets,         \* connections; an id is used once
    SocketHandlers   \* bound: messages being handled at once

VARIABLES
    userKey,    \* socket-user-<user>
    clientKey,  \* socket-client-<connection>
    online,     \* captains.isOnline
    events,     \* DRIVER_ONLINE_STATUS events under way: user and status
    socketJob,  \* what each handler is doing
    last,       \* history: the connection a user is subscribed on, or was when
                \* the gateway stopped
    signedOff,  \* history: users who have unsubscribed
    muddled     \* history: users with handlers or events that overlap or were
                \* cut short, or who share a connection

NoMessage == [op |-> "none", socket |-> None, user |-> None, saw |-> None]

Working == {h \in SocketHandlers : socketJob[h] # NoMessage}

\* Users the connection has to do with.
UsersOf(s) == {u \in SocketUsers : clientKey[s] = u \/ userKey[u] = s \/ last[u] = s}

\* Users a handler is at work for, on their connection or another one.
UsersAt(h) == UsersOf(socketJob[h].socket) \cup ({socketJob[h].user} \ {None})

\* Users with an event under way or a handler at work.
AtWork == {e.user : e \in events} \cup UNION {UsersAt(h) : h \in Working}

Quiet(u) == u \notin muddled /\ u \notin AtWork

\* Messages for a user go to the connection that was subscribed last, however many
\* there were and whenever the end of an older one is noticed.  Handlers of one
\* user that overlap are the exception, and connections of several users.
Reachable == \A u \in SocketUsers : Quiet(u) => userKey[u] = last[u]

\* A captain who is connected is online, also over a stop of the gateway and the
\* change of connections, and one who is not is offline, unless he has
\* unsubscribed.
OnlineAgrees ==
    \A u \in SocketUsers :
        Quiet(u) => online[u] = (userKey[u] # None \/ u \in signedOff)
=============================================================================
