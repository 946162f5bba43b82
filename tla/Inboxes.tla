------------------------------- MODULE Inboxes -------------------------------
(* What each of two users has of their conversation (Conversations).          *)
EXTENDS Null

VARIABLES
    deletedFor,     \* of the conversation: users who have put it away; None once it
                    \* was unset
    copies,         \* of each user, the messages he has
    sendJob,        \* what each handler is doing
    disturbed       \* history: users with a write that came late or not at all

Resting == [op |-> "none", user |-> "none", doing |-> {}, message |-> 0, found |-> None]

Hidden(u) == deletedFor # None /\ u \in deletedFor

\* A conversation a user does not see has no message for him once nobody is at work on
\* it, however messages and deletions interleave; not so if his deletion's save came
\* after its deleteMany, if somebody who opened the conversation wrote back a list that
\* had changed, or if a handler stopped half way.
HiddenIsEmpty ==
    (\A h \in DOMAIN sendJob : sendJob[h] = Resting) =>
        \A u \in DOMAIN copies \ disturbed : Hidden(u) => copies[u] = {}
=============================================================================
