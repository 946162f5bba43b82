------------------------------ MODULE RatingRows ------------------------------
(* Reviews and the rating rows that are made of them (Reviews), and what is   *)
(* promised of them.                                                          *)
EXTENDS Integers, Sequences, FiniteSets, Functions

VARIABLES
    review,         \* trip_feedback, by id
    meta,           \* the rows of user_ratings_meta of each user
    reviewJob,      \* what each handler is doing
    metaOverlapped, \* history: users whose row two handlers had read at once
    uncounted       \* history: users with a review that was cut short or changed

Unrated == [rating |-> 0, count |-> 0]

\* What was said of a user, and how many stars it makes.
ReviewsOf(u) == {i \in DOMAIN review : review[i].for = u}
StarsOf(u) == SumFunctionOnSet([i \in ReviewsOf(u) |-> review[i].rating], ReviewsOf(u))

\* The rating of a user is one row that counts each of his reviews once, and their mean
\* but for what n roundings to two decimals may add up to; a user is exempt while a
\* review of him is being saved, and from the first time that two were counted at once,
\* one was cut short, or one was changed by an administrator.
RatingAgrees ==
    \A u \in DOMAIN meta \ (metaOverlapped \cup uncounted) :
        (\A h \in DOMAIN reviewJob : reviewJob[h].for = u => reviewJob[h].step = "store") =>
            LET row == IF meta[u] = <<>> THEN Unrated ELSE meta[u][1]
                n == Cardinality(ReviewsOf(u))
                gap == row.rating * n - StarsOf(u)
            IN  /\ Len(meta[u]) <= 1
                /\ row.count = n
                /\ 4 * gap \in -(n * (n + 1)) .. n * (n + 1)
=============================================================================
