---------------------------- MODULE CustomerTable ----------------------------
(* The customer rows that sign-up and verification write (Accounts), and what *)
(* everybody else takes them for: one row a person.                           *)
EXTENDS Null

CONSTANT Mobiles        \* mobile numbers

VARIABLES
    account,        \* the customer row of each number
    proven,         \* history: the id each number's account was verified for first
    claimedTwice,   \* history: numbers and ids that two handlers were at work on
    unseen          \* history: ids that could not be looked up

\* A person has one account and an account stays the same person's, however sign-ups
\* and verifications of several numbers interleave and stop: but for ids and numbers
\* with two requests at once, and for ids that could not be looked up, which the code
\* takes for unknown.
OneAccountEach ==
    /\ \A m, n \in Mobiles :
          /\ account[m].id = account[n].id
          /\ account[m].id \notin {None} \cup claimedTwice \cup unseen
          => m = n
    /\ \A m \in Mobiles \ claimedTwice : account[m].id = proven[m]
=============================================================================
