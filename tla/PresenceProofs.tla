---------------------------- MODULE PresenceProofs ----------------------------
(* That messages reach the connection a user is on, and that a captain is     *)
(* online when he is connected, for every set of users and connections and    *)
(* any number of handlers and stops.                                          *)
EXTENDS Presence, TLAPS

-----------------------------------------------------------------------------
(* The invariant *)

\* What a handler has.
Shape ==
    \A h \in SocketHandlers :
        /\ socketJob[h].op = "none" <=> socketJob[h] = NoMessage
        /\ socketJob[h].op # "none" => socketJob[h].socket \in Sockets
        /\ socketJob[h].op = "subscribe" => socketJob[h].user \in SocketUsers

\* The two keys of a user and the connection he is on name each other,
Tied(u) ==
    /\ userKey[u] = last[u]
    /\ \A s \in Sockets : clientKey[s] = u <=> userKey[u] = s

\* and nobody else has to do with that connection.
Alone(u) == \A s \in Sockets : userKey[u] = s => UsersOf(s) \subseteq {u}

\* The users of the connection a handler is at work on.
Near(h) == UsersOf(socketJob[h].socket)

\* At most one handler is at work for a user, alone on its connection, and what it
\* has read is still so.
Served(u) ==
    \A h \in Working : u \in UsersAt(h) =>
        /\ socketJob[h].user = u /\ Near(h) \subseteq {u}
        /\ socketJob[h].op = "subscribe" => socketJob[h].saw = userKey[u]
        /\ socketJob[h].op # "subscribe" => socketJob[h].socket = userKey[u]
        /\ \A g \in Working \ {h} :
              u \notin UsersAt(g) /\ socketJob[h].socket \notin {socketJob[g].socket, socketJob[g].saw}

\* Nobody but the user himself is about to delete his connection's key.
Spared(u) ==
    \A h \in Working :
        userKey[u] \in Sockets /\ socketJob[h].saw = userKey[u] => socketJob[h].user = u

Connected(u) == userKey[u] # None \/ u \in signedOff

\* An event under way says how it is; it is there without a handler at work.
Announced(u) ==
    /\ \A e \in events : e.user = u => e.status = Connected(u)
    /\ (\A e \in events : e.user # u) => online[u] = Connected(u)
    /\ \A h \in Working : u \in UsersAt(h) => \A e \in events : e.user # u
    /\ u \in signedOff => userKey[u] = None

PresenceInv ==
    /\ TypeOK /\ Shape
    /\ \A u \in SocketUsers \ muddled :
          Tied(u) /\ Alone(u) /\ Served(u) /\ Spared(u) /\ Announced(u)

-----------------------------------------------------------------------------
(* Handlers *)

\* Who is at work, and what an idle handler has.
LEMMA WorkingOnes ==
    ASSUME TypeOK, Shape
    PROVE  /\ Working = {h \in SocketHandlers : socketJob[h].op # "none"}
           /\ \A h \in Working : /\ socketJob[h] \in Keys /\ socketJob[h].socket \in Sockets
                                 /\ UsersAt(h) \subseteq SocketUsers
           /\ \A h \in Working : socketJob[h].op = "subscribe" => socketJob[h].user \in SocketUsers
           /\ NoMessage \in Keys /\ NoMessage.op = "none"
<1>1. Working = {h \in SocketHandlers : socketJob[h].op # "none"}
  BY DEF Shape, Working
<1>2. \A h \in Working : socketJob[h] \in Keys /\ socketJob[h].socket \in Sockets
  BY <1>1 DEF TypeOK, Shape
<1>3. \A h \in Working : UsersAt(h) \subseteq SocketUsers
  BY <1>2 DEF UsersAt, UsersOf, Keys
<1>4. NoMessage \in Keys /\ NoMessage.op = "none"
  BY DEF NoMessage, Keys
<1>. QED BY <1>1, <1>2, <1>3, <1>4 DEF Shape

\* A handler that begins overlaps nobody who stays unmuddled.
LEMMA BeginPresence ==
    ASSUME NoneApart, PresenceInv, NEW h \in SocketHandlers, NEW op \in {"subscribe", "unsubscribe", "disconnect"},
           NEW s \in Sockets, NEW u \in SocketUsers \cup {None}, NEW saw \in Sockets \cup {None},
           Begin(h, op, s, u, saw),
           op = "subscribe" => u \in SocketUsers /\ saw = userKey[u],
           op # "subscribe" => u = clientKey[s] /\ saw = None,
           up' \subseteq used', used' \subseteq Sockets,
           UNCHANGED <<keys, online, events, last, signedOff>>
    PROVE  PresenceInv'
<1> DEFINE j == [op |-> op, socket |-> s, user |-> u, saw |-> saw]
           them == UsersOf(s) \cup ({u} \ {None})
           others == {g \in Working : s \in {socketJob[g].socket, socketJob[g].saw} \/ UsersAt(g) \cap them # {}}
<1>0. TypeOK /\ Shape
  BY DEF PresenceInv
<1>1. /\ socketJob[h] = NoMessage /\ socketJob' = [socketJob EXCEPT ![h] = j]
      /\ muddled' = muddled \cup (UNION {them \cup UsersAt(g) : g \in others})
                            \cup (them \cap {e.user : e \in events})
                            \cup (IF op = "subscribe" /\ them # {u} THEN them ELSE {})
  BY DEF Begin
<1>2. j \in Keys /\ j.op = op /\ j.socket = s /\ j.user = u /\ j.saw = saw
  BY DEF Keys
<1> HIDE DEF j
<1>3. socketJob'[h] = j /\ \A g \in SocketHandlers \ {h} : socketJob'[g] = socketJob[g]
  BY <1>0, <1>1 DEF TypeOK
<1>4. /\ them \subseteq SocketUsers /\ UsersOf(s) \subseteq them
      /\ \A g \in Working : UsersAt(g) \subseteq SocketUsers /\ g \in SocketHandlers
  BY <1>0, WorkingOnes DEF UsersOf, Working
<1>11. \A v : v \in muddled' <=> \/ v \in muddled
                                 \/ \E g \in others : v \in them \/ v \in UsersAt(g)
                                 \/ v \in them /\ \E e \in events : e.user = v
                                 \/ op = "subscribe" /\ them # {u} /\ v \in them
  <2> DEFINE over == UNION {them \cup UsersAt(g) : g \in others}
             told == {e.user : e \in events}
             shared == IF op = "subscribe" /\ them # {u} THEN them ELSE {}
  <2>1. muddled' = muddled \cup over \cup (them \cap told) \cup shared
    BY <1>1
  <2> HIDE DEF them, others
  <2>2. \A v : v \in over <=> \E g \in others : v \in them \/ v \in UsersAt(g)
    OBVIOUS
  <2>3. \A v : v \in told <=> \E e \in events : e.user = v
    OBVIOUS
  <2>4. \A v : v \in shared <=> op = "subscribe" /\ them # {u} /\ v \in them
    OBVIOUS
  <2> HIDE DEF over, told, shared
  <2>. QED BY <2>1, <2>2, <2>3, <2>4
<1>5. muddled' \subseteq SocketUsers /\ muddled \subseteq muddled'
  <2>1. muddled \subseteq SocketUsers
    BY <1>0 DEF TypeOK
  <2>2. \A g \in others : UsersAt(g) \subseteq SocketUsers
    BY <1>4
  <2> HIDE DEF them, others
  <2>. QED BY <1>4, <1>11, <2>1, <2>2
<1>6. TypeOK'
  <2>1. socketJob' \in [SocketHandlers -> Keys]
    BY <1>0, <1>1, <1>2 DEF TypeOK
  <2>. QED BY <1>0, <1>5, <2>1 DEF TypeOK, keys
<1>7. Shape'
  <2>1. j # NoMessage
    BY <1>0, <1>2, WorkingOnes
  <2>2. op # "none"
    OBVIOUS
  <2>. QED BY <1>0, <1>2, <1>3, <2>1, <2>2 DEF Shape
<1>8. Working' = Working \cup {h} /\ h \notin Working
  BY <1>0, <1>1, <1>2, <1>3, WorkingOnes DEF Working
<1>9. /\ \A t : UsersOf(t)' = UsersOf(t)
      /\ \A g \in Working : UsersAt(g)' = UsersAt(g) /\ socketJob'[g] = socketJob[g] /\ Near(g)' = Near(g)
      /\ UsersAt(h)' = them /\ Near(h)' = UsersOf(s)
  <2>1. \A t : UsersOf(t)' = UsersOf(t)
    BY DEF UsersOf, keys
  <2>2. \A g \in Working : socketJob'[g] = socketJob[g]
    BY <1>3, <1>4, <1>8
  <2>3. \A g \in Working : Near(g)' = Near(g)
    BY <2>2 DEF Near, UsersOf, keys
  <2>4. Near(h)' = UsersOf(s)
    BY <1>2, <1>3 DEF Near, UsersOf, keys
  <2>5. \A g \in SocketHandlers : UsersAt(g) = Near(g) \cup ({socketJob[g].user} \ {None})
    BY DEF UsersAt, Near
  <2>6. \A g \in SocketHandlers : UsersAt(g)' = Near(g)' \cup ({socketJob'[g].user} \ {None})
    BY DEF UsersAt, Near
  <2>7. \A g \in Working : UsersAt(g)' = UsersAt(g)
    BY <1>4, <2>2, <2>3, <2>5, <2>6
  <2>8. UsersAt(h)' = them
    BY <1>2, <1>3, <2>4, <2>6
  <2>. QED BY <2>1, <2>2, <2>3, <2>4, <2>7, <2>8
<1>10. ASSUME NEW v \in SocketUsers \ muddled'
       PROVE  Tied(v)' /\ Alone(v)' /\ Served(v)' /\ Spared(v)' /\ Announced(v)'
  <2>0. v \notin muddled /\ Tied(v) /\ Alone(v) /\ Served(v) /\ Spared(v) /\ Announced(v)
    BY <1>5, <1>10 DEF PresenceInv
  <2>1. ASSUME v \in them
        PROVE  others = {} /\ (\A e \in events : e.user # v) /\ (op = "subscribe" => them = {u})
    <3> HIDE DEF them, others
    <3>. QED BY <1>10, <1>11, <2>1
  <2>2. \A g \in Working : v \in UsersAt(g) =>
           UsersAt(g) \cap them = {} /\ s \notin {socketJob[g].socket, socketJob[g].saw}
    <3> TAKE g \in Working
    <3> SUFFICES ASSUME v \in UsersAt(g) PROVE g \notin others
      OBVIOUS
    <3>. QED BY <1>10, <1>11
  <2>3. Tied(v)' /\ Alone(v)'
    BY <1>9, <2>0 DEF Tied, Alone, keys
  <2>4. Served(v)'
    <3>1. ASSUME NEW g \in Working, v \in UsersAt(g)
          PROVE  socketJob[g].socket \notin {s, saw} /\ v \notin them
      <4>1. UsersAt(g) \cap them = {} /\ s # socketJob[g].socket
        BY <2>2, <3>1
      <4>2. saw # socketJob[g].socket
        <5>1. SUFFICES ASSUME saw = socketJob[g].socket PROVE FALSE
          OBVIOUS
        <5>2. socketJob[g].socket \in Sockets
          BY <1>0, WorkingOnes
        <5>3. op = "subscribe" /\ u \in SocketUsers /\ saw = userKey[u]
          BY <5>1, <5>2 DEF NoneApart
        <5>4. u \in UsersAt(g)
          BY <5>1, <5>3 DEF UsersAt, UsersOf
        <5>5. u \in them
          BY <5>3 DEF NoneApart
        <5>. QED BY <4>1, <5>4, <5>5
      <4>. QED BY <3>1, <4>1, <4>2
    <3>2. ASSUME NEW g \in Working, v \in UsersAt(g)
          PROVE  /\ socketJob[g].user = v /\ Near(g) \subseteq {v}
                 /\ socketJob[g].op = "subscribe" => socketJob[g].saw = userKey[v]
                 /\ socketJob[g].op # "subscribe" => socketJob[g].socket = userKey[v]
                 /\ \A f \in Working' \ {g} : v \notin UsersAt(f)'
                        /\ socketJob[g].socket \notin {socketJob'[f].socket, socketJob'[f].saw}
      <4>1. \A f \in Working \ {g} :
               v \notin UsersAt(f) /\ socketJob[g].socket \notin {socketJob[f].socket, socketJob[f].saw}
        BY <2>0, <3>2 DEF Served
      <4>2. v \notin UsersAt(h)' /\ socketJob[g].socket \notin {socketJob'[h].socket, socketJob'[h].saw}
        BY <1>2, <1>3, <1>9, <3>1, <3>2
      <4>3. \A f \in Working' \ {g} : v \notin UsersAt(f)'
                        /\ socketJob[g].socket \notin {socketJob'[f].socket, socketJob'[f].saw}
        BY <1>8, <1>9, <4>1, <4>2
      <4>. QED BY <2>0, <3>2, <4>3 DEF Served
    <3>3. ASSUME v \in them
          PROVE  /\ u = v /\ UsersOf(s) \subseteq {v}
                 /\ op = "subscribe" => saw = userKey[v]
                 /\ op # "subscribe" => s = userKey[v]
                 /\ \A f \in Working : v \notin UsersAt(f)
                        /\ s \notin {socketJob[f].socket, socketJob[f].saw}
      <4>1. \A f \in Working : v \notin UsersAt(f) /\ s \notin {socketJob[f].socket, socketJob[f].saw}
        BY <2>1, <3>3
      <4>2. CASE op = "subscribe"
        <5>1. them = {u}
          BY <2>1, <3>3, <4>2
        <5>. QED BY <3>3, <4>1, <4>2, <5>1
      <4>3. CASE op # "subscribe"
        <5>1. v \in UsersOf(s)
          BY <3>3, <4>3 DEF UsersOf
        <5>2. userKey[v] = s /\ clientKey[s] = v
          BY <2>0, <5>1 DEF UsersOf, Tied
        <5>. QED BY <2>0, <4>1, <4>3, <5>2 DEF Alone
      <4>. QED BY <4>2, <4>3
    <3>4. UNCHANGED userKey
      BY DEF keys
    <3>5. ASSUME NEW g \in Working', v \in UsersAt(g)'
          PROVE  /\ socketJob'[g].user = v /\ Near(g)' \subseteq {v}
                 /\ socketJob'[g].op = "subscribe" => socketJob'[g].saw = userKey'[v]
                 /\ socketJob'[g].op # "subscribe" => socketJob'[g].socket = userKey'[v]
                 /\ \A f \in Working' \ {g} : v \notin UsersAt(f)'
                        /\ socketJob'[g].socket \notin {socketJob'[f].socket, socketJob'[f].saw}
      <4>1. CASE g \in Working
        <5>1. v \in UsersAt(g) /\ socketJob'[g] = socketJob[g] /\ userKey' = userKey
          BY <1>9, <3>4, <3>5, <4>1
        <5>3. Near(g)' = Near(g)
          BY <1>9, <4>1
        <5>. QED BY <3>2, <4>1, <5>1, <5>3
      <4>2. CASE g = h
        <5>1. v \in them
          BY <1>9, <3>5, <4>2
        <5>2. socketJob'[g] = j /\ j.op = op /\ j.socket = s /\ j.user = u /\ j.saw = saw
          BY <1>2, <1>3, <4>2
        <5>3. \A f \in Working' \ {g} : v \notin UsersAt(f)' /\ s \notin {socketJob'[f].socket, socketJob'[f].saw}
          BY <1>8, <1>9, <3>3, <4>2, <5>1
        <5>4. Near(g)' = UsersOf(s) /\ userKey' = userKey
          BY <1>9, <3>4, <4>2
        <5>. QED BY <3>3, <5>1, <5>2, <5>3, <5>4
      <4>. QED BY <1>8, <4>1, <4>2
    <3>. QED BY <3>5 DEF Served
  <2>5. Spared(v)'
    <3>1. ASSUME userKey[v] \in Sockets, saw = userKey[v] PROVE u = v
      <4>1. op = "subscribe" /\ u \in SocketUsers /\ saw = userKey[u]
        BY <3>1 DEF NoneApart
      <4>2. u \in UsersOf(userKey[v])
        BY <3>1, <4>1 DEF UsersOf
      <4>. QED BY <2>0, <3>1, <4>2 DEF Alone
    <3>2. \A g \in Working' :
             userKey'[v] \in Sockets /\ socketJob'[g].saw = userKey'[v] => socketJob'[g].user = v
      BY <1>2, <1>3, <1>8, <1>9, <2>0, <3>1 DEF Spared, keys
    <3>. QED BY <3>2 DEF Spared
  <2>6. Announced(v)'
    <3>1. \A g \in Working' : v \in UsersAt(g)' => \A e \in events : e.user # v
      BY <1>8, <1>9, <2>0, <2>1 DEF Announced
    <3>. QED BY <2>0, <3>1 DEF Announced, Connected, keys
  <2>. QED BY <2>3, <2>4, <2>5, <2>6
<1>. QED BY <1>6, <1>7, <1>10 DEF PresenceInv

\* A handler that is done is at work for nobody, and the others as before.
LEMMA DonePresence ==
    ASSUME TypeOK, Shape, NEW h \in Working, Done(h)
    PROVE  /\ socketJob' \in [SocketHandlers -> Keys] /\ Shape'
           /\ Working' = Working \ {h}
           /\ \A g \in Working \ {h} : socketJob'[g] = socketJob[g]
<1>1. /\ socketJob' = [socketJob EXCEPT ![h] = NoMessage] /\ h \in SocketHandlers
      /\ socketJob \in [SocketHandlers -> Keys]
  BY DEF Done, Working, TypeOK
<1>2. NoMessage \in Keys /\ NoMessage.op = "none"
  BY WorkingOnes
<1>3. socketJob'[h] = NoMessage /\ \A g \in SocketHandlers \ {h} : socketJob'[g] = socketJob[g]
  BY <1>1
<1>4. socketJob' \in [SocketHandlers -> Keys]
  BY <1>1, <1>2
<1>5. Shape'
  BY <1>2, <1>3 DEF Shape
<1>6. Working' = Working \ {h}
  BY <1>1, <1>3 DEF Working
<1>. QED BY <1>1, <1>3, <1>4, <1>5, <1>6 DEF Working

\* What holds for a user who is no business of the handler that writes.
Apart(u, h) ==
    /\ u # socketJob[h].user /\ u \notin Near(h) /\ u \notin UsersAt(h)
    /\ socketJob[h].saw \in Sockets => clientKey[socketJob[h].saw] # u

\* A user who is not muddled is the handler's own or no business of it.
LEMMA Strangers ==
    ASSUME PresenceInv, NEW h \in Working, NEW u \in SocketUsers \ muddled, u # socketJob[h].user
    PROVE  Apart(u, h)
<1>1. Tied(u) /\ Served(u) /\ Spared(u)
  BY DEF PresenceInv
<1>2. u \notin UsersAt(h)
  BY <1>1 DEF Served
<1>3. u \notin Near(h)
  BY <1>2 DEF UsersAt, Near
<1>4. socketJob[h].saw \in Sockets => clientKey[socketJob[h].saw] # u
  BY <1>1 DEF Tied, Spared
<1>. QED BY <1>2, <1>3, <1>4 DEF Apart

\* The keys of a stranger stay as they are, and so does what others do for him.
LEMMA StrangersStay ==
    ASSUME NoneApart, PresenceInv, NEW h \in Working, Done(h),
           NEW u \in SocketUsers \ muddled, u # socketJob[h].user,
           userKey'[u] = userKey[u], last'[u] = last[u], online' = online,
           u \in signedOff' <=> u \in signedOff,
           \A e : e.user = u => (e \in events' <=> e \in events),
           \A s \in Sockets : clientKey'[s] = u <=> clientKey[s] = u,
           \A s \in Sockets : s # socketJob[h].socket => UsersOf(s)' \subseteq UsersOf(s)
    PROVE  Tied(u)' /\ Alone(u)' /\ Served(u)' /\ Spared(u)' /\ Announced(u)'
<1>0. TypeOK /\ Shape /\ Tied(u) /\ Alone(u) /\ Served(u) /\ Spared(u) /\ Announced(u)
  BY DEF PresenceInv
<1>1. /\ Working' = Working \ {h} /\ \A g \in Working \ {h} : socketJob'[g] = socketJob[g]
      /\ socketJob[h].socket \in Sockets /\ \A g \in Working : socketJob[g].socket \in Sockets
  BY <1>0, DonePresence, WorkingOnes
<1>2. Apart(u, h)
  BY Strangers
<1>3. userKey[u] # socketJob[h].socket /\ last[u] # socketJob[h].socket
  BY <1>1, <1>2 DEF Apart, Near, UsersOf
<1>4. Tied(u)'
  BY <1>0 DEF Tied
<1>5. Alone(u)'
  BY <1>0, <1>3 DEF Alone
<1>6. \A g \in Working \ {h} : u \in UsersAt(g)' => u \in UsersAt(g)
  <2> SUFFICES ASSUME NEW g \in Working \ {h}, u \in UsersAt(g)', u \notin UsersAt(g)
               PROVE  FALSE
    OBVIOUS
  <2>1. socketJob'[g] = socketJob[g] /\ socketJob[g].socket \in Sockets
    BY <1>1
  <2>2. u \in UsersOf(socketJob[g].socket)'
    BY <2>1 DEF UsersAt
  <2>. QED BY <2>1, <2>2 DEF UsersAt, UsersOf
<1>7. Served(u)'
  <2>1. ASSUME NEW g \in Working \ {h}, u \in UsersAt(g)
        PROVE  /\ socketJob[g].user = u /\ Near(g)' \subseteq {u}
               /\ socketJob[g].op = "subscribe" => socketJob[g].saw = userKey[u]
               /\ socketJob[g].op # "subscribe" => socketJob[g].socket = userKey[u]
               /\ \A f \in Working \ {h} : f # g =>
                     u \notin UsersAt(f) /\ socketJob[g].socket \notin {socketJob[f].socket, socketJob[f].saw}
    <3>1. /\ socketJob[g].user = u /\ Near(g) \subseteq {u}
          /\ socketJob[g].op = "subscribe" => socketJob[g].saw = userKey[u]
          /\ socketJob[g].op # "subscribe" => socketJob[g].socket = userKey[u]
          /\ \A f \in Working \ {g} :
                u \notin UsersAt(f) /\ socketJob[g].socket \notin {socketJob[f].socket, socketJob[f].saw}
      BY <1>0, <2>1 DEF Served
    <3>2. socketJob[g].socket # socketJob[h].socket /\ socketJob[g].socket \in Sockets
      BY <1>1, <3>1
    <3>3. socketJob'[g].socket = socketJob[g].socket
      BY <1>1
    <3>4. Near(g)' \subseteq Near(g)
      BY <3>2, <3>3 DEF Near, UsersOf
    <3>. QED BY <3>1, <3>4
  <2>2. ASSUME NEW g \in Working', u \in UsersAt(g)'
        PROVE  /\ socketJob'[g].user = u /\ Near(g)' \subseteq {u}
               /\ socketJob'[g].op = "subscribe" => socketJob'[g].saw = userKey'[u]
               /\ socketJob'[g].op # "subscribe" => socketJob'[g].socket = userKey'[u]
               /\ \A f \in Working' \ {g} :
                     u \notin UsersAt(f)' /\ socketJob'[g].socket \notin {socketJob'[f].socket, socketJob'[f].saw}
    <3>1. g \in Working \ {h} /\ u \in UsersAt(g) /\ socketJob'[g] = socketJob[g]
      BY <1>1, <1>6, <2>2
    <3>2. \A f \in Working' \ {g} :
             u \notin UsersAt(f)' /\ socketJob'[g].socket \notin {socketJob'[f].socket, socketJob'[f].saw}
      BY <1>1, <1>6, <2>1, <3>1
    <3>. QED BY <2>1, <3>1, <3>2
  <2>. QED BY <2>2 DEF Served
<1>8. Spared(u)'
  BY <1>0, <1>1 DEF Spared
<1>9. Announced(u)'
  <2>1. \A e : e.user = u => (e \in events' <=> e \in events)
    OBVIOUS
  <2>2. Connected(u)' <=> Connected(u)
    BY DEF Connected
  <2>3. \A e \in events' : e.user = u => e.status = Connected(u)
    BY <1>0, <2>1 DEF Announced
  <2>4. (\A e \in events' : e.user # u) => \A e \in events : e.user # u
    BY <2>1
  <2>5. \A g \in Working' : u \in UsersAt(g)' => \A e \in events' : e.user # u
    BY <1>0, <1>1, <1>6, <2>1 DEF Announced
  <2>. QED BY <1>0, <2>2, <2>3, <2>4, <2>5 DEF Announced, Connected
<1>. QED BY <1>4, <1>5, <1>7, <1>8, <1>9

\* A handler that has subscribed its user leaves him reachable and announced, and
\* nobody else disturbed.
LEMMA WriteSubscribePresence ==
    ASSUME NoneApart, PresenceInv, NEW h \in SocketHandlers, WriteSubscribe(h)
    PROVE  PresenceInv'
<1>0. TypeOK /\ Shape
  BY DEF PresenceInv
<1> PICK s : s = socketJob[h].socket
  OBVIOUS
<1> PICK x : x = socketJob[h].user
  OBVIOUS
<1> PICK old : old = socketJob[h].saw
  OBVIOUS
<1>1. /\ h \in Working /\ s \in Sockets /\ x \in SocketUsers /\ socketJob[h].op = "subscribe"
      /\ old \in Sockets \cup {None} /\ x # None /\ s # None
  BY <1>0, WorkingOnes DEF WriteSubscribe, Keys, NoneApart
<1>2. /\ clientKey' = [Forget(s, old) EXCEPT ![s] = x]
      /\ userKey' = [userKey EXCEPT ![x] = s] /\ last' = [last EXCEPT ![x] = s]
      /\ signedOff' = signedOff \ {x} /\ Announce(x, old) /\ Done(h)
      /\ UNCHANGED <<connections, online, muddled>>
  BY DEF WriteSubscribe
<1>3. /\ clientKey'[s] = x
      /\ \A t \in Sockets \ {s} : clientKey'[t] = IF t = old THEN None ELSE clientKey[t]
      /\ clientKey' \in [Sockets -> SocketUsers \cup {None}]
  BY <1>0, <1>1, <1>2 DEF Forget, TypeOK
<1>4. /\ userKey'[x] = s /\ last'[x] = s
      /\ \A v \in SocketUsers \ {x} : userKey'[v] = userKey[v] /\ last'[v] = last[v]
      /\ userKey' \in [SocketUsers -> Sockets \cup {None}]
      /\ last' \in [SocketUsers -> Sockets \cup {None}]
  BY <1>0, <1>1, <1>2 DEF TypeOK
<1>5. events' = IF old = None THEN events \cup {[user |-> x, status |-> TRUE]} ELSE events
  BY <1>2 DEF Announce
<1>6. /\ socketJob' \in [SocketHandlers -> Keys] /\ Shape' /\ Working' = Working \ {h}
      /\ \A g \in Working \ {h} : socketJob'[g] = socketJob[g]
  BY <1>0, <1>1, <1>2, DonePresence
<1>7. TypeOK'
  <2>1. events' \subseteq [user : SocketUsers, status : BOOLEAN]
    <3>1. [user |-> x, status |-> TRUE] \in [user : SocketUsers, status : BOOLEAN]
      BY <1>1
    <3>2. events \subseteq [user : SocketUsers, status : BOOLEAN]
      BY <1>0 DEF TypeOK
    <3>. QED BY <1>5, <3>1, <3>2, Zenon
  <2>. QED BY <1>0, <1>2, <1>3, <1>4, <1>6, <2>1 DEF TypeOK, connections
<1>8. \A t \in Sockets : t # s => UsersOf(t)' \subseteq UsersOf(t)
  <2>1. SUFFICES ASSUME NEW t \in Sockets, t # s, NEW v \in UsersOf(t)' PROVE v \in UsersOf(t)
    OBVIOUS
  <2>2. v \in SocketUsers /\ (clientKey'[t] = v \/ userKey'[v] = t \/ last'[v] = t)
    BY DEF UsersOf
  <2>3. CASE clientKey'[t] = v
    BY <1>3, <2>1, <2>2, <2>3 DEF UsersOf, NoneApart
  <2>4. CASE clientKey'[t] # v
    BY <1>4, <2>1, <2>2, <2>4 DEF UsersOf
  <2>. QED BY <2>3, <2>4
<1>9. ASSUME NEW u \in SocketUsers \ muddled, u # x
       PROVE  Tied(u)' /\ Alone(u)' /\ Served(u)' /\ Spared(u)' /\ Announced(u)'
  <2>1. Apart(u, h)
    BY <1>1, <1>9, Strangers
  <2>2. \A t \in Sockets : clientKey'[t] = u <=> clientKey[t] = u
    <3>1. clientKey[s] # u
      BY <2>1 DEF Apart, Near, UsersOf
    <3>2. old \in Sockets => clientKey[old] # u
      BY <2>1 DEF Apart
    <3>. QED BY <1>3, <1>9, <3>1, <3>2 DEF NoneApart
  <2>3. \A e : e.user = u => (e \in events' <=> e \in events)
    BY <1>5, <1>9
  <2>4. userKey'[u] = userKey[u] /\ last'[u] = last[u] /\ online' = online
    BY <1>2, <1>4, <1>9
  <2>5. u \in signedOff' <=> u \in signedOff
    BY <1>2, <1>9
  <2>. QED BY <1>1, <1>2, <1>8, <1>9, <2>2, <2>3, <2>4, <2>5, StrangersStay
<1>10. ASSUME x \notin muddled
       PROVE  Tied(x)' /\ Alone(x)' /\ Served(x)' /\ Spared(x)' /\ Announced(x)'
  <2>0. Tied(x) /\ Alone(x) /\ Served(x) /\ Spared(x) /\ Announced(x)
    BY <1>1, <1>10 DEF PresenceInv
  <2>1. x \in UsersAt(h)
    BY <1>1 DEF UsersAt
  <2>2. /\ Near(h) \subseteq {x} /\ old = userKey[x]
        /\ \A g \in Working \ {h} : x \notin UsersAt(g) /\ s \notin {socketJob[g].socket, socketJob[g].saw}
    BY <1>1, <2>0, <2>1 DEF Served
  <2>3. \A t \in Sockets : t # s => clientKey'[t] # x
    BY <1>1, <1>3, <2>0, <2>2 DEF Tied
  <2>4. Tied(x)'
    BY <1>3, <1>4, <2>3 DEF Tied
  <2>5. Alone(x)'
    <3>1. UsersOf(s)' \subseteq {x}
      <4>1. SUFFICES ASSUME NEW v \in SocketUsers, v # x, v \in UsersOf(s)' PROVE FALSE
        BY DEF UsersOf
      <4>2. v \in UsersOf(s)
        BY <1>3, <1>4, <4>1 DEF UsersOf
      <4>. QED BY <2>2, <4>1, <4>2 DEF Near
    <3>. QED BY <1>4, <3>1 DEF Alone
  <2>6. \A g \in Working' : x \notin UsersAt(g)'
    <3>1. SUFFICES ASSUME NEW g \in Working \ {h}, x \in UsersAt(g)' PROVE FALSE
      BY <1>6
    <3>2. socketJob'[g] = socketJob[g] /\ socketJob[g].socket # s /\ x \notin UsersAt(g)
      BY <1>6, <2>2
    <3>3. socketJob[g].socket \in Sockets
      BY <1>0, WorkingOnes
    <3>4. x # socketJob[g].user
      BY <1>1, <3>2 DEF UsersAt
    <3>5. x \in UsersOf(socketJob[g].socket)'
      BY <3>1, <3>2, <3>4 DEF UsersAt
    <3>. QED BY <1>4, <2>3, <3>2, <3>3, <3>5 DEF UsersOf
  <2>7. Served(x)'
    BY <2>6 DEF Served
  <2>8. Spared(x)'
    BY <1>4, <1>6, <2>2 DEF Spared
  <2>9. Announced(x)'
    <3>1. \A e \in events : e.user # x
      BY <1>1, <2>0, <2>1 DEF Announced
    <3>2. Connected(x)'
      BY <1>1, <1>4 DEF Connected
    <3>3. \A e \in events' : e.user = x => e.status = TRUE
      BY <1>5, <3>1
    <3>4. (\A e \in events' : e.user # x) => online'[x] = TRUE
      <4>1. SUFFICES ASSUME \A e \in events' : e.user # x PROVE online[x] = TRUE
        BY <1>2
      <4>2. old # None
        <5>1. SUFFICES ASSUME old = None PROVE FALSE
          OBVIOUS
        <5>2. [user |-> x, status |-> TRUE] \in events'
          BY <1>5, <5>1
        <5>. QED BY <4>1, <5>2
      <4>3. Connected(x) /\ online[x] = Connected(x)
        BY <2>0, <2>2, <3>1, <4>2 DEF Connected, Announced
      <4>. QED BY <1>0, <1>1, <4>3 DEF TypeOK
    <3>5. x \notin signedOff'
      BY <1>2
    <3>6. Connected(x)' = TRUE
      BY <3>2 DEF Connected
    <3>. QED BY <2>6, <3>3, <3>4, <3>5, <3>6 DEF Announced
  <2>. QED BY <2>4, <2>5, <2>7, <2>8, <2>9
<1>. QED BY <1>2, <1>6, <1>7, <1>9, <1>10 DEF PresenceInv
\* A handler that has cleared its user's keys leaves him without a connection, and
\* nobody else disturbed; what it tells of him is true.
LEMMA ClearPresence ==
    ASSUME NoneApart, PresenceInv, NEW h \in SocketHandlers, socketJob[h].op \in {"unsubscribe", "disconnect"},
           Clear(socketJob[h].socket, socketJob[h].user), Done(h),
           UNCHANGED <<connections, online, muddled>>,
           events' \subseteq [user : SocketUsers, status : BOOLEAN], signedOff' \subseteq SocketUsers,
           \A u \in SocketUsers \ {socketJob[h].user} :
              /\ u \in signedOff' <=> u \in signedOff
              /\ \A e : e.user = u => (e \in events' <=> e \in events),
           LET u == socketJob[h].user IN
              u # None =>
                 \/ u \in signedOff' /\ events' = events
                 \/ signedOff' = signedOff /\ events' = events \cup {[user |-> u, status |-> FALSE]}
    PROVE  PresenceInv'
<1>0. TypeOK /\ Shape
  BY DEF PresenceInv
<1> PICK s : s = socketJob[h].socket
  OBVIOUS
<1> PICK x : x = socketJob[h].user
  OBVIOUS
<1>1. /\ h \in Working /\ s \in Sockets /\ x \in SocketUsers \cup {None} /\ socketJob[h].op # "subscribe"
      /\ s # None /\ socketJob[h] \in Keys
  BY <1>0, WorkingOnes DEF Keys, NoneApart
<1>2. /\ clientKey'[s] = None /\ \A t \in Sockets \ {s} : clientKey'[t] = clientKey[t]
      /\ clientKey' \in [Sockets -> SocketUsers \cup {None}]
  BY <1>0, <1>1 DEF Clear, TypeOK
<1>3. /\ userKey' \in [SocketUsers -> Sockets \cup {None}]
      /\ last' \in [SocketUsers -> Sockets \cup {None}]
      /\ \A u \in SocketUsers : userKey'[u] = IF u = x THEN None ELSE userKey[u]
      /\ \A u \in SocketUsers : last'[u] = IF last[u] = s THEN None ELSE last[u]
  BY <1>0, <1>1 DEF Clear, TypeOK
<1>4. /\ socketJob' \in [SocketHandlers -> Keys] /\ Shape' /\ Working' = Working \ {h}
      /\ \A g \in Working \ {h} : socketJob'[g] = socketJob[g]
  BY <1>0, <1>1, DonePresence
<1>5. TypeOK'
  BY <1>0, <1>2, <1>3, <1>4 DEF TypeOK, connections
<1>6. \A t \in Sockets : UsersOf(t)' \subseteq UsersOf(t)
  <2>1. SUFFICES ASSUME NEW t \in Sockets, NEW v \in UsersOf(t)' PROVE v \in UsersOf(t)
    OBVIOUS
  <2>2. v \in SocketUsers /\ (clientKey'[t] = v \/ userKey'[v] = t \/ last'[v] = t)
    BY DEF UsersOf
  <2>. QED BY <1>2, <1>3, <2>1, <2>2 DEF UsersOf, NoneApart
<1>7. ASSUME NEW u \in SocketUsers \ muddled, u # x
      PROVE  Tied(u)' /\ Alone(u)' /\ Served(u)' /\ Spared(u)' /\ Announced(u)'
  <2>1. clientKey[s] # u /\ last[u] # s
    BY <1>1, <1>7, Strangers DEF Apart, Near, UsersOf
  <2>2. \A t \in Sockets : clientKey'[t] = u <=> clientKey[t] = u
    BY <1>2, <1>7, <2>1 DEF NoneApart
  <2>3. userKey'[u] = userKey[u] /\ last'[u] = last[u] /\ online' = online
    BY <1>3, <1>7, <2>1
  <2>4. \A e : e.user = u => (e \in events' <=> e \in events)
    BY <1>7
  <2>5. u \in signedOff' <=> u \in signedOff
    BY <1>7
  <2>. QED BY <1>1, <1>6, <1>7, <2>2, <2>3, <2>4, <2>5, StrangersStay
<1>8. ASSUME x \in SocketUsers \ muddled
      PROVE  Tied(x)' /\ Alone(x)' /\ Served(x)' /\ Spared(x)' /\ Announced(x)'
  <2>0. x # None /\ Tied(x) /\ Alone(x) /\ Served(x) /\ Spared(x) /\ Announced(x)
    BY <1>8 DEF PresenceInv, NoneApart
  <2>1. x \in UsersAt(h)
    BY <2>0 DEF UsersAt
  <2>2. s = userKey[x] /\ \A g \in Working \ {h} : x \notin UsersAt(g)
    BY <1>1, <2>0, <2>1 DEF Served
  <2>3. \A t \in Sockets : clientKey'[t] # x
    BY <1>2, <2>0, <2>2 DEF Tied
  <2>4. userKey'[x] = None /\ last'[x] = None
    BY <1>3, <1>8, <2>0, <2>2 DEF Tied
  <2>5. Tied(x)' /\ Alone(x)' /\ Spared(x)'
    BY <2>3, <2>4 DEF Tied, Alone, Spared, NoneApart
  <2>6. \A g \in Working' : x \notin UsersAt(g)'
    <3>1. SUFFICES ASSUME NEW g \in Working \ {h}, x \in UsersAt(g)' PROVE FALSE
      BY <1>4
    <3>2. socketJob'[g] = socketJob[g] /\ x \notin UsersAt(g) /\ socketJob[g].socket \in Sockets
      BY <1>0, <1>4, <2>2, WorkingOnes
    <3>3. x \in UsersOf(socketJob[g].socket)'
      BY <2>0, <3>1, <3>2 DEF UsersAt
    <3>. QED BY <2>3, <2>4, <3>2, <3>3 DEF UsersOf, NoneApart
  <2>7. Served(x)'
    BY <2>6 DEF Served
  <2>8. Announced(x)'
    <3>1. \A e \in events : e.user # x
      BY <1>1, <2>0, <2>1 DEF Announced
    <3>2. userKey[x] # None /\ x \notin signedOff
      BY <1>1, <2>0, <2>2 DEF Announced
    <3>3. online[x] = Connected(x) /\ Connected(x)
      BY <2>0, <3>1, <3>2 DEF Announced, Connected
    <3>4. online'[x] = TRUE
      BY <1>0, <1>8, <3>3 DEF TypeOK
    <3>5. CASE x \in signedOff' /\ events' = events
      <4>1. Connected(x)' = TRUE
        BY <3>5 DEF Connected
      <4>. QED BY <2>4, <2>6, <3>1, <3>4, <3>5, <4>1 DEF Announced
    <3>6. CASE signedOff' = signedOff /\ events' = events \cup {[user |-> x, status |-> FALSE]}
      <4>1. Connected(x)' = FALSE
        BY <2>4, <3>2, <3>6 DEF Connected
      <4>2. [user |-> x, status |-> FALSE] \in events'
        BY <3>6
      <4>3. \A e \in events' : e.user = x => e.status = FALSE
        BY <3>1, <3>6
      <4>. QED BY <2>4, <2>6, <4>1, <4>2, <4>3 DEF Announced
    <3>. QED BY <2>0, <3>5, <3>6
  <2>. QED BY <2>5, <2>7, <2>8
<1>. QED BY <1>4, <1>5, <1>7, <1>8 DEF PresenceInv

\* An unsubscribed user is known to have signed off.
LEMMA WriteUnsubscribePresence ==
    ASSUME NoneApart, PresenceInv, NEW h \in SocketHandlers, WriteUnsubscribe(h)
    PROVE  PresenceInv'
<1>1. TypeOK /\ socketJob[h] \in Keys
  BY DEF PresenceInv, TypeOK
<1>2. events' \subseteq [user : SocketUsers, status : BOOLEAN] /\ signedOff' \subseteq SocketUsers
  BY <1>1 DEF WriteUnsubscribe, TypeOK, Keys
<1>. QED BY <1>2, ClearPresence DEF WriteUnsubscribe

\* A user whose connection ended is announced as gone.
LEMMA WriteDisconnectPresence ==
    ASSUME NoneApart, PresenceInv, NEW h \in SocketHandlers, WriteDisconnect(h)
    PROVE  PresenceInv'
<1>1. TypeOK /\ socketJob[h] \in Keys
  BY DEF PresenceInv, TypeOK
<1>2. \A u \in SocketUsers : [user |-> u, status |-> FALSE] \in [user : SocketUsers, status : BOOLEAN]
  OBVIOUS
<1>3. events' \subseteq [user : SocketUsers, status : BOOLEAN]
  <2>1. events \subseteq [user : SocketUsers, status : BOOLEAN] /\ socketJob[h].user \in SocketUsers \cup {None}
    BY <1>1 DEF TypeOK, Keys
  <2>. QED BY <1>2, <2>1, Zenon DEF WriteDisconnect
<1>4. signedOff' \subseteq SocketUsers /\ signedOff' = signedOff
  BY <1>1 DEF WriteDisconnect, TypeOK
<1>5. /\ socketJob[h].op \in {"unsubscribe", "disconnect"}
      /\ Clear(socketJob[h].socket, socketJob[h].user) /\ Done(h) /\ UNCHANGED <<connections, online, muddled>>
      /\ events' = IF socketJob[h].user # None THEN events \cup {[user |-> socketJob[h].user, status |-> FALSE]}
                   ELSE events
  BY DEF WriteDisconnect
<1>6. \A u \in SocketUsers \ {socketJob[h].user} : \A e : e.user = u => (e \in events' <=> e \in events)
  BY <1>5
<1>. QED BY <1>3, <1>4, <1>5, <1>6, ClearPresence

-----------------------------------------------------------------------------
(* The other steps *)

\* A new connection is nobody's yet: no key, no handler and no event is touched.
LEMMA OpenPresence ==
    ASSUME PresenceInv, NEW s \in Sockets, Open(s)
    PROVE  PresenceInv'
<1>1. TypeOK' /\ UNCHANGED <<keys, online, events, socketJob, last, signedOff, muddled>>
  BY DEF PresenceInv, TypeOK, Open, keys
<1>2. /\ Shape' /\ Working' = Working /\ \A t : UsersOf(t)' = UsersOf(t)
      /\ \A h : UsersAt(h)' = UsersAt(h) /\ Near(h)' = Near(h)
  BY <1>1 DEF PresenceInv, Shape, Working, UsersOf, UsersAt, Near, keys
<1>3. ASSUME NEW u \in SocketUsers \ muddled
      PROVE  Tied(u)' /\ Alone(u)' /\ Served(u)' /\ Spared(u)' /\ Announced(u)'
  <2>1. Tied(u) /\ Alone(u) /\ Served(u) /\ Spared(u) /\ Announced(u)
    BY DEF PresenceInv
  <2>2. Tied(u)' /\ Alone(u)' /\ Spared(u)' /\ Announced(u)'
    BY <1>1, <1>2, <2>1 DEF Tied, Alone, Spared, Announced, Connected, keys
  <2>3. Served(u)'
    BY <1>1, <1>2, <2>1 DEF Served, keys
  <2>. QED BY <2>1, <2>2, <2>3
<1>. QED BY <1>1, <1>2, <1>3 DEF PresenceInv

\* Those whom a handler was at work for when the gateway stopped are muddled; the
\* others lose no key.
LEMMA StopPresence ==
    ASSUME PresenceInv, Stop
    PROVE  PresenceInv'
<1>0. TypeOK /\ Shape
  BY DEF PresenceInv
<1>1. /\ socketJob' = [h \in SocketHandlers |-> NoMessage] /\ up' = {}
      /\ muddled' = muddled \cup UNION {UsersAt(h) : h \in Working}
      /\ UNCHANGED <<used, keys, online, events, last, signedOff>>
  BY DEF Stop
<1>2. NoMessage \in Keys /\ NoMessage.op = "none" /\ Working' = {}
  BY <1>0, <1>1, WorkingOnes DEF Working
<1>3. \A h \in Working : UsersAt(h) \subseteq SocketUsers
  BY <1>0, WorkingOnes
<1>4. muddled' \subseteq SocketUsers /\ muddled \subseteq muddled'
  BY <1>0, <1>1, <1>3 DEF TypeOK
<1>5. TypeOK' /\ Shape'
  BY <1>0, <1>1, <1>2, <1>4 DEF TypeOK, Shape, keys
<1>6. \A s : UsersOf(s)' = UsersOf(s)
  BY <1>1 DEF UsersOf, keys
<1>7. ASSUME NEW u \in SocketUsers \ muddled'
      PROVE  Tied(u)' /\ Alone(u)' /\ Served(u)' /\ Spared(u)' /\ Announced(u)'
  <2>1. Tied(u) /\ Alone(u) /\ Announced(u)
    BY <1>4 DEF PresenceInv
  <2>2. Tied(u)' /\ Alone(u)'
    BY <1>1, <1>6, <2>1 DEF Tied, Alone, keys
  <2>3. Served(u)' /\ Spared(u)'
    BY <1>2 DEF Served, Spared
  <2>4. Announced(u)'
    BY <1>1, <1>2, <2>1 DEF Announced, Connected, keys
  <2>. QED BY <2>2, <2>3, <2>4
<1>. QED BY <1>5, <1>7 DEF PresenceInv

\* An event that arrives makes its user's row say how it is.
LEMMA DeliverPresence ==
    ASSUME PresenceInv, NEW e \in events, Deliver(e)
    PROVE  PresenceInv'
<1>0. TypeOK /\ Shape
  BY DEF PresenceInv
<1>1. /\ events' = events \ {e} /\ online' = [online EXCEPT ![e.user] = e.status]
      /\ UNCHANGED <<connections, keys, socketJob, last, signedOff, muddled>>
  BY DEF Deliver
<1>2. e.user \in SocketUsers /\ e.status \in BOOLEAN
  BY <1>0 DEF TypeOK
<1>3. TypeOK' /\ Shape'
  BY <1>0, <1>1, <1>2 DEF TypeOK, Shape, connections, keys
<1>4. /\ Working' = Working /\ \A t : UsersOf(t)' = UsersOf(t)
      /\ \A h : UsersAt(h)' = UsersAt(h) /\ Near(h)' = Near(h)
  BY <1>1 DEF Working, UsersOf, UsersAt, Near, keys
<1>5. ASSUME NEW u \in SocketUsers \ muddled
      PROVE  Tied(u)' /\ Alone(u)' /\ Served(u)' /\ Spared(u)' /\ Announced(u)'
  <2>1. Tied(u) /\ Alone(u) /\ Served(u) /\ Spared(u) /\ Announced(u)
    BY DEF PresenceInv
  <2>2. Tied(u)' /\ Alone(u)' /\ Spared(u)'
    BY <1>1, <1>4, <2>1 DEF Tied, Alone, Spared, keys
  <2>3. Served(u)'
    BY <1>1, <1>4, <2>1 DEF Served, keys
  <2>4. Connected(u)' = Connected(u)
    BY <1>1 DEF Connected, keys
  <2>5. CASE e.user = u
    <3>1. online'[u] = e.status /\ e.status = Connected(u)
      BY <1>0, <1>1, <2>1, <2>5 DEF TypeOK, Announced
    <3>. QED BY <1>1, <1>4, <2>1, <2>2, <2>3, <2>4, <3>1 DEF Announced, keys
  <2>6. CASE e.user # u
    <3>1. online'[u] = online[u]
      BY <1>0, <1>1, <2>6 DEF TypeOK
    <3>2. \A d : d.user = u => (d \in events' <=> d \in events)
      BY <1>1, <2>6
    <3>3. (\A d \in events' : d.user # u) <=> (\A d \in events : d.user # u)
      BY <3>2
    <3>. QED BY <1>1, <1>4, <2>1, <2>2, <2>3, <2>4, <3>1, <3>2, <3>3 DEF Announced, keys
  <2>. QED BY <2>5, <2>6
<1>. QED BY <1>1, <1>3, <1>5 DEF PresenceInv

-----------------------------------------------------------------------------
(* The theorems *)

\* At first nobody is connected.
LEMMA InitPresence ==
    ASSUME NoneApart, Init
    PROVE  PresenceInv
<1>1. NoMessage \in Keys /\ NoMessage.op = "none"
  BY DEF NoMessage, Keys
<1>2. Working = {}
  BY DEF Init, Working
<1>3. TypeOK /\ Shape
  BY <1>1 DEF Init, TypeOK, Shape
<1>4. ASSUME NEW u \in SocketUsers
      PROVE  Tied(u) /\ Alone(u) /\ Served(u) /\ Spared(u) /\ Announced(u)
  BY <1>2 DEF Init, Tied, Alone, Served, Spared, Announced, Connected, NoneApart
<1>. QED BY <1>3, <1>4 DEF PresenceInv

\* Every step keeps the invariant.
LEMMA NextPresence ==
    ASSUME NoneApart, PresenceInv, [Next]_presenceVars
    PROVE  PresenceInv'
<1>1. ASSUME NEW s \in Sockets, Open(s) PROVE PresenceInv'
  BY <1>1, OpenPresence
<1>2. ASSUME NEW h \in SocketHandlers, NEW s \in Sockets, NEW u \in SocketUsers, Subscribe(h, s, u)
      PROVE  PresenceInv'
  <2>1. up' \subseteq used' /\ used' \subseteq Sockets /\ userKey[u] \in Sockets \cup {None}
    BY <1>2 DEF Subscribe, PresenceInv, TypeOK, connections
  <2>. QED BY <1>2, <2>1, BeginPresence DEF Subscribe
<1>3. ASSUME NEW h \in SocketHandlers, NEW s \in Sockets, Unsubscribe(h, s) PROVE PresenceInv'
  <2>1. up' \subseteq used' /\ used' \subseteq Sockets /\ clientKey[s] \in SocketUsers \cup {None}
    BY <1>3 DEF Unsubscribe, PresenceInv, TypeOK, connections
  <2>. QED BY <1>3, <2>1, BeginPresence DEF Unsubscribe
<1>4. ASSUME NEW h \in SocketHandlers, NEW s \in Sockets, Disconnect(h, s) PROVE PresenceInv'
  <2>1. up' \subseteq used' /\ used' \subseteq Sockets /\ clientKey[s] \in SocketUsers \cup {None}
    BY <1>4 DEF Disconnect, PresenceInv, TypeOK
  <2>. QED BY <1>4, <2>1, BeginPresence DEF Disconnect
<1>5. ASSUME NEW h \in SocketHandlers, WriteSubscribe(h) \/ WriteUnsubscribe(h) \/ WriteDisconnect(h)
      PROVE  PresenceInv'
  BY <1>5, WriteSubscribePresence, WriteUnsubscribePresence, WriteDisconnectPresence
<1>6. ASSUME NEW e \in events, Deliver(e) PROVE PresenceInv'
  BY <1>6, DeliverPresence
<1>7. CASE Stop
  BY <1>7, StopPresence
<1>8. CASE UNCHANGED presenceVars
  <2>1. UNCHANGED <<up, used, userKey, clientKey, online, events, socketJob, last, signedOff, muddled>>
    BY <1>8 DEF presenceVars, connections, keys
  <2>2. TypeOK' /\ Shape' /\ Working' = Working
    BY <2>1 DEF PresenceInv, TypeOK, Shape, Working
  <2>3. (\A t : UsersOf(t)' = UsersOf(t)) /\ \A h : UsersAt(h)' = UsersAt(h) /\ Near(h)' = Near(h)
    BY <2>1 DEF UsersOf, UsersAt, Near
  <2>4. ASSUME NEW u \in SocketUsers \ muddled
        PROVE  Tied(u)' /\ Alone(u)' /\ Served(u)' /\ Spared(u)' /\ Announced(u)'
    <3>1. Tied(u) /\ Alone(u) /\ Served(u) /\ Spared(u) /\ Announced(u)
      BY DEF PresenceInv
    <3>2. Tied(u)' /\ Alone(u)' /\ Spared(u)'
      BY <2>1, <2>2, <2>3, <3>1 DEF Tied, Alone, Spared
    <3>3. Served(u)'
      BY <2>1, <2>2, <2>3, <3>1 DEF Served
    <3>4. Announced(u)'
      BY <2>1, <2>2, <2>3, <3>1 DEF Announced, Connected
    <3>. QED BY <3>2, <3>3, <3>4
  <2>. QED BY <2>1, <2>2, <2>4 DEF PresenceInv
<1>. QED BY <1>1, <1>2, <1>3, <1>4, <1>5, <1>6, <1>7, <1>8 DEF Next

\* The invariant holds of every behaviour.
LEMMA PresenceInvariant == ASSUME NoneApart PROVE Spec => []PresenceInv
<1>1. Init => PresenceInv
  BY InitPresence
<1>2. PresenceInv /\ [Next]_presenceVars => PresenceInv'
  BY NextPresence
<1>. QED BY <1>1, <1>2, PTL DEF Spec

\* Messages for a user go to the connection that was subscribed last, however many
\* connections and users there are and whenever the end of an older one is noticed
\* (handleSubscribeUser deletes the key of the connection before).
THEOREM ReachableHolds == ASSUME NoneApart PROVE Spec => []Reachable
<1>1. PresenceInv => Reachable
  BY DEF PresenceInv, Tied, Reachable, Quiet
<1>. QED BY <1>1, PresenceInvariant, PTL

\* When no handler is at work for a captain and no DRIVER_ONLINE_STATUS event is under
\* way, his row says whether he is connected, unless one of his handlers ever began
\* before the one ahead of it was done and its event had arrived.
THEOREM OnlineAgreesHolds == ASSUME NoneApart PROVE Spec => []OnlineAgrees
<1>1. PresenceInv => OnlineAgrees
  <2> SUFFICES ASSUME PresenceInv, NEW u \in SocketUsers, Quiet(u)
               PROVE  online[u] = (userKey[u] # None \/ u \in signedOff)
    BY DEF OnlineAgrees
  <2>1. Announced(u)
    BY DEF PresenceInv, Quiet
  <2>2. \A e \in events : e.user # u
    BY DEF Quiet, AtWork
  <2>. QED BY <2>1, <2>2 DEF Announced, Connected
<1>. QED BY <1>1, PresenceInvariant, PTL

\* Every key and every handler keeps the shape the gateway gives it.
THEOREM PresenceTypes == ASSUME NoneApart PROVE Spec => []TypeOK
<1>1. PresenceInv => TypeOK
  BY DEF PresenceInv
<1>. QED BY <1>1, PresenceInvariant, PTL
=============================================================================
