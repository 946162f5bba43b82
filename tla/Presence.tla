------------------------------ MODULE Presence ------------------------------
(***************************************************************************)
(* Who is connected: AppsocketHandler of the socket gateway, and isOnline  *)
(* of the captain's row, without which a captain is not offered trips.     *)
(*                                                                         *)
(* Two redis keys tie a user to a connection: socket-user-<user> names the *)
(* connection that messages for the user go to, socket-client-<connection> *)
(* the user it belongs to.  Every handler reads one of them, awaits, and   *)
(* writes both.  A connection that is lost is often noticed after the next *)
(* one is there.  isOnline follows by events without a key, which may      *)
(* overtake each other.                                                    *)
(***************************************************************************)
EXTENDS Connections, Naturals

CONSTANT MaxStops       \* bound: stops of the gateway

VARIABLES
    up,         \* open connections
    used,       \* connections ever opened
    stops

keys         == <<userKey, clientKey>>
connections  == <<up, used, stops>>
presenceVars == <<connections, keys, online, events, socketJob, last, signedOff, muddled>>

\* The null value is no user and no connection.
NoneApart == None \notin SocketUsers \cup Sockets

\* A handler begins with what it reads; u is the user it is for, if it knows one.
\* It overlaps those at work for the same users or on the same connection, and those
\* that will delete its connection's key.
Begin(h, op, s, u, saw) ==
    LET them   == UsersOf(s) \cup ({u} \ {None})
        others == {g \in Working : \/ s \in {socketJob[g].socket, socketJob[g].saw}
                                  \/ UsersAt(g) \cap them # {}}
    IN  /\ socketJob[h] = NoMessage
        /\ socketJob' = [socketJob EXCEPT ![h] = [op |-> op, socket |-> s, user |-> u, saw |-> saw]]
        /\ muddled' = muddled \cup (UNION {them \cup UsersAt(g) : g \in others})
                              \cup (them \cap {e.user : e \in events})
                              \cup (IF op = "subscribe" /\ them # {u} THEN them ELSE {})

Done(h) == socketJob' = [socketJob EXCEPT ![h] = NoMessage]

\* The user's keys are taken away, if the handler found a user.
Clear(s, u) ==
    /\ userKey' = [x \in SocketUsers |-> IF x = u THEN None ELSE userKey[x]]
    /\ clientKey' = [clientKey EXCEPT ![s] = None]
    /\ last' = [x \in SocketUsers |-> IF last[x] = s THEN None ELSE last[x]]

-----------------------------------------------------------------------------
Open(s) ==
    /\ s \notin used
    /\ up' = up \cup {s} /\ used' = used \cup {s}
    /\ UNCHANGED <<stops, keys, online, events, socketJob, last, signedOff, muddled>>

\* handleSubscribeUser: getSocketFromUser, then the keys.
Subscribe(h, s, u) ==
    /\ s \in up
    /\ Begin(h, "subscribe", s, u, userKey[u])
    /\ UNCHANGED <<connections, keys, online, events, last, signedOff>>

\* Mutant: the connection before this one keeps its key.
ForgetKept(s, old) == clientKey

\* The key of the connection before this one is deleted, so that its end will
\* find no user.
Forget(s, old) == [x \in Sockets |-> IF x = old /\ x # s THEN None ELSE clientKey[x]]

\* Mutant: the test is the wrong way round.
AnnounceLate(u, old) ==
    events' = IF old # None THEN events \cup {[user |-> u, status |-> TRUE]} ELSE events

\* Only a user without a connection is announced.
Announce(u, old) ==
    events' = IF old = None THEN events \cup {[user |-> u, status |-> TRUE]} ELSE events

WriteSubscribe(h) ==
    LET s == socketJob[h].socket
        u == socketJob[h].user IN
    /\ socketJob[h].op = "subscribe"
    /\ Announce(u, socketJob[h].saw)
    /\ clientKey' = [Forget(s, socketJob[h].saw) EXCEPT ![s] = u]
    /\ userKey' = [userKey EXCEPT ![u] = s]
    /\ last' = [last EXCEPT ![u] = s]
    /\ signedOff' = signedOff \ {u}
    /\ Done(h)
    /\ UNCHANGED <<connections, online, muddled>>

\* handleUnsubscribeUser; it tells nobody that the user is gone.
Unsubscribe(h, s) ==
    /\ s \in up
    /\ Begin(h, "unsubscribe", s, clientKey[s], None)
    /\ UNCHANGED <<connections, keys, online, events, last, signedOff>>

WriteUnsubscribe(h) ==
    /\ socketJob[h].op = "unsubscribe"
    /\ Clear(socketJob[h].socket, socketJob[h].user)
    /\ signedOff' = signedOff \cup ({socketJob[h].user} \ {None})
    /\ Done(h)
    /\ UNCHANGED <<connections, online, events, muddled>>

\* handleDisconnect, at any time after the connection was lost.
Disconnect(h, s) ==
    /\ s \in up
    /\ up' = up \ {s}
    /\ Begin(h, "disconnect", s, clientKey[s], None)
    /\ UNCHANGED <<used, stops, keys, online, events, last, signedOff>>

WriteDisconnect(h) ==
    LET u == socketJob[h].user IN
    /\ socketJob[h].op = "disconnect"
    /\ Clear(socketJob[h].socket, u)
    /\ events' = IF u # None THEN events \cup {[user |-> u, status |-> FALSE]} ELSE events
    /\ Done(h)
    /\ UNCHANGED <<connections, online, signedOff, muddled>>

\* The gateway stops: its connections are lost, and the keys stay.
Stop ==
    /\ stops < MaxStops
    /\ stops' = stops + 1
    /\ up' = {}
    /\ muddled' = muddled \cup UNION {UsersAt(h) : h \in Working}
    /\ socketJob' = [h \in SocketHandlers |-> NoMessage]
    /\ UNCHANGED <<used, keys, online, events, last, signedOff>>

\* updateDriverOnlineStatus
Deliver(e) ==
    /\ events' = events \ {e}
    /\ online' = [online EXCEPT ![e.user] = e.status]
    /\ UNCHANGED <<connections, keys, socketJob, last, signedOff, muddled>>

-----------------------------------------------------------------------------
Init ==
    /\ up = {} /\ used = {} /\ stops = 0
    /\ userKey = [u \in SocketUsers |-> None]
    /\ clientKey = [s \in Sockets |-> None]
    /\ online = [u \in SocketUsers |-> FALSE]
    /\ events = {}
    /\ socketJob = [h \in SocketHandlers |-> NoMessage]
    /\ last = [u \in SocketUsers |-> None]
    /\ signedOff = {} /\ muddled = {}

Next ==
    \/ \E s \in Sockets : Open(s)
    \/ \E h \in SocketHandlers, s \in Sockets :
           \/ Unsubscribe(h, s) \/ Disconnect(h, s)
           \/ \E u \in SocketUsers : Subscribe(h, s, u)
    \/ \E h \in SocketHandlers : WriteSubscribe(h) \/ WriteUnsubscribe(h) \/ WriteDisconnect(h)
    \/ \E e \in events : Deliver(e)
    \/ Stop

Spec == Init /\ [][Next]_presenceVars

-----------------------------------------------------------------------------
Keys == [op : {"none", "subscribe", "unsubscribe", "disconnect"},
         socket : Sockets \cup {None}, user : SocketUsers \cup {None}, saw : Sockets \cup {None}]

\* Every key and handler has the shape the gateway gives it.
TypeOK ==
    /\ up \subseteq used /\ used \subseteq Sockets
    /\ userKey \in [SocketUsers -> Sockets \cup {None}]
    /\ clientKey \in [Sockets -> SocketUsers \cup {None}]
    /\ online \in [SocketUsers -> BOOLEAN]
    /\ events \subseteq [user : SocketUsers, status : BOOLEAN]
    /\ socketJob \in [SocketHandlers -> Keys]
    /\ last \in [SocketUsers -> Sockets \cup {None}]
    /\ signedOff \cup muddled \subseteq SocketUsers
=============================================================================
