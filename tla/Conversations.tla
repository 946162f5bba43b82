---------------------------- MODULE Conversations ----------------------------
(***************************************************************************)
(* One conversation of two users: which of them has put it away, and which *)
(* messages each has in it.                                                *)
(*                                                                         *)
(* chat-service MessagesService stores a copy of every message for each of *)
(* the two.  A user who deletes a conversation loses his copies and is put *)
(* on deletedFor, so that it leaves his list; the next message takes the   *)
(* column away, so that it comes back.  None of the two is awaited by the  *)
(* handler that starts it.                                                 *)
(*                                                                         *)
(* A handler is a message of the chat topic, which several replicas serve. *)
(* Delivery and read marks, archiving and notifications are left out.      *)
(***************************************************************************)
EXTENDS Inboxes, Naturals

CONSTANTS
    Users, Handlers,
    MaxSent,        \* bound: messages sent
    MaxStops        \* bound: handlers that stop or whose database call fails

VARIABLES sent, stops

conversationVars == <<deletedFor, copies, sendJob, sent, stops, disturbed>>

Begin(h, j) ==
    /\ sendJob[h] = Resting
    /\ sendJob' = [sendJob EXCEPT ![h] = j]

\* Handler h does its step, then the steps of next are to be done, in any order.
Do(h, step, next) ==
    /\ step \in sendJob[h].doing
    /\ LET left == (sendJob[h].doing \ {step}) \cup next
       IN  sendJob' = [sendJob EXCEPT ![h] =
                          IF left = {} THEN Resting ELSE [@ EXCEPT !.doing = left]]

-----------------------------------------------------------------------------
(* createPersonalMessage *)

Send(h, u) ==
    /\ sent < MaxSent
    /\ sent' = sent + 1
    /\ Begin(h, [Resting EXCEPT !.op = "send", !.user = u, !.doing = {"copyForReceiver"},
                                !.message = sent + 1])
    /\ UNCHANGED <<deletedFor, copies, stops, disturbed>>

Give(h, step, next, S) ==
    /\ Do(h, step, {next})
    /\ copies' = [u \in Users |-> IF u \in S THEN copies[u] \cup {sendJob[h].message}
                                  ELSE copies[u]]
    /\ UNCHANGED <<deletedFor, sent, stops, disturbed>>

CopyForReceiver(h) == Give(h, "copyForReceiver", "copyForSender", Users \ {sendJob[h].user})
CopyForSender(h)   == Give(h, "copyForSender", "find", {sendJob[h].user})

\* Mutant: the column is taken away only if the sender has put the conversation away.
FindForSender(h) ==
    /\ Do(h, "find", IF Hidden(sendJob[h].user) THEN {"unset"} ELSE {})
    /\ UNCHANGED <<deletedFor, copies, sent, stops, disturbed>>

\* updateConversationData, if there is a list; an empty one is one.
Find(h) ==
    /\ Do(h, "find", IF deletedFor = None THEN {} ELSE {"unset"})
    /\ UNCHANGED <<deletedFor, copies, sent, stops, disturbed>>

Unset(h) ==
    /\ Do(h, "unset", {})
    /\ deletedFor' = None
    /\ UNCHANGED <<copies, sent, stops, disturbed>>

-----------------------------------------------------------------------------
(* markAllAsDelete and getConversationDetail *)

\* All messages, and with hide the conversation too; save is not awaited, so that the
\* two writes are in any order.
Clear(h, u, hide) ==
    /\ Begin(h, [Resting EXCEPT !.op = "clear", !.user = u,
                                !.doing = {"delete"} \cup IF hide THEN {"push"} ELSE {}])
    /\ UNCHANGED <<deletedFor, copies, sent, stops, disturbed>>

Push(h) ==
    LET u == sendJob[h].user
    IN  /\ Do(h, "push", {})
        /\ deletedFor' = IF deletedFor = None THEN {u} ELSE deletedFor \cup {u}
        /\ disturbed' = disturbed \cup IF "delete" \in sendJob[h].doing THEN {} ELSE {u}
        /\ UNCHANGED <<copies, sent, stops>>

DeleteAll(h) ==
    /\ Do(h, "delete", {})
    /\ copies' = [copies EXCEPT ![sendJob[h].user] = {}]
    /\ UNCHANGED <<deletedFor, sent, stops, disturbed>>

\* Opening a conversation takes it back: the whole row is written as it was found.
Open(h, u) ==
    /\ deletedFor # None
    /\ Begin(h, [Resting EXCEPT !.op = "open", !.user = u, !.doing = {"restore"},
                                !.found = deletedFor])
    /\ UNCHANGED <<deletedFor, copies, sent, stops, disturbed>>

Restore(h) ==
    LET list == sendJob[h].found \ {sendJob[h].user}
    IN  /\ Do(h, "restore", {})
        /\ deletedFor' = list
        /\ disturbed' = disturbed \cup IF deletedFor = sendJob[h].found THEN {} ELSE list
        /\ UNCHANGED <<copies, sent, stops>>

\* deleteMessage: a user's own copy.
DeleteMessage(u) ==
    /\ \E m \in copies[u] : copies' = [copies EXCEPT ![u] = @ \ {m}]
    /\ UNCHANGED <<deletedFor, sendJob, sent, stops, disturbed>>

\* What is left to do is not done.
Stop(h) ==
    /\ sendJob[h] # Resting /\ stops < MaxStops
    /\ stops' = stops + 1
    /\ sendJob' = [sendJob EXCEPT ![h] = Resting]
    /\ disturbed' = disturbed \cup CASE sendJob[h].op = "send" -> Users
                                      [] sendJob[h].op = "clear" -> {sendJob[h].user}
                                      [] OTHER -> {}
    /\ UNCHANGED <<deletedFor, copies, sent>>

-----------------------------------------------------------------------------
\* createConversation has been called for the first message.
Init ==
    /\ deletedFor = {}
    /\ copies = [u \in Users |-> {}]
    /\ sendJob = [h \in Handlers |-> Resting]
    /\ sent = 0 /\ stops = 0
    /\ disturbed = {}

Next ==
    \/ \E h \in Handlers :
          \/ \E u \in Users : \/ Send(h, u) \/ Open(h, u)
                             \/ \E hide \in BOOLEAN : Clear(h, u, hide)
          \/ CopyForReceiver(h) \/ CopyForSender(h) \/ Find(h) \/ Unset(h)
          \/ Push(h) \/ DeleteAll(h) \/ Restore(h) \/ Stop(h)
    \/ \E u \in Users : DeleteMessage(u)

Spec == Init /\ [][Next]_conversationVars

-----------------------------------------------------------------------------
TypeOK ==
    /\ deletedFor = None \/ deletedFor \subseteq Users
    /\ copies \in [Users -> SUBSET (1..MaxSent)]
    /\ \A h \in Handlers :
          sendJob[h] # Resting => sendJob[h].user \in Users /\ sendJob[h].doing # {}
    /\ sent \in 0..MaxSent /\ stops \in 0..MaxStops
    /\ disturbed \subseteq Users
=============================================================================
