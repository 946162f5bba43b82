------------------------------- MODULE Reviews -------------------------------
(***************************************************************************)
(* What riders and captains say of each other after a trip, and the rating *)
(* that is made of it.                                                     *)
(*                                                                         *)
(* rides-service TripsService.saveReview checks the trip and asks the      *)
(* reviews service, whose ReviewService stores the review, then reads the  *)
(* rated user's row of user_ratings_meta and writes it back with one more  *)
(* review in its mean.  All of it is awaited, nothing is a transaction.    *)
(*                                                                         *)
(* The trips are completed ones: of others no review is taken.  A user is  *)
(* a person in a role, as a rating row is.  Ratings are in hundredths.     *)
(***************************************************************************)
EXTENDS RatingRows

CONSTANTS
    Trips, Users, Handlers,
    RatedBy,        \* [Trips -> [Sides -> Users]]: whom each side of a trip rates
    Ratings,        \* what may be given, in hundredths of a star
    MaxReviews,     \* bound: reviews stored
    MaxFaults       \* bound: calls that fail, handlers that stop, reviews removed

VARIABLE faults

Sides == {"rider", "captain"}

\* Who is rated is a user; ratings are not negative, requests finitely many.
Reviewing ==
    /\ "none" \notin Users /\ RatedBy \in [Trips -> [Sides -> Users]]
    /\ Ratings \subseteq Nat /\ IsFiniteSet(Handlers)

reviewVars == <<review, meta, reviewJob, faults, metaOverlapped, uncounted>>

Idle == [step |-> "none", for |-> "none", rating |-> 0, at |-> 0, row |-> Unrated]

At(h, step) == reviewJob[h].step = step

Removed == [for |-> "none", rating |-> 0]

-----------------------------------------------------------------------------
(* saveReview and createReview *)

\* The columns in which an earlier review of the trip would show are not read, so
\* that the refusal of a second one never comes.
SaveReview(h, t, side, rating) ==
    /\ reviewJob[h] = Idle
    /\ reviewJob' = [reviewJob EXCEPT ![h] =
                       [Idle EXCEPT !.step = "store", !.for = RatedBy[t][side],
                                    !.rating = rating]]
    /\ UNCHANGED <<review, meta, faults, metaOverlapped, uncounted>>

Store(h) ==
    /\ At(h, "store") /\ Len(review) < MaxReviews
    /\ review' = Append(review, [for |-> reviewJob[h].for,
                                 rating |-> reviewJob[h].rating])
    /\ reviewJob' = [reviewJob EXCEPT ![h].step = "find"]
    /\ UNCHANGED <<meta, faults, metaOverlapped, uncounted>>

\* Any of the rows, if the user should have several; 0 is none.
FindMeta(h) ==
    LET u == reviewJob[h].for
        others == {g \in Handlers \ {h} : At(g, "count") /\ reviewJob[g].for = u}
    IN  /\ At(h, "find")
        /\ \E i \in IF meta[u] = <<>> THEN {0} ELSE DOMAIN meta[u] :
              reviewJob' = [reviewJob EXCEPT
                                ![h].step = "count", ![h].at = i,
                                ![h].row = IF i = 0 THEN Unrated ELSE meta[u][i]]
        /\ metaOverlapped' =
               IF others = {} THEN metaOverlapped ELSE metaOverlapped \cup {u}
        /\ UNCHANGED <<review, meta, faults, uncounted>>

\* Mutant: the sum is made with the number of reviews that includes the new one.
MeanOverNew(row, rating) ==
    LET n == row.count + 1
    IN  (2 * (row.rating * n + rating) + n) \div (2 * n)

\* The mean with one more rating, to two decimals.
Mean(row, rating) ==
    LET n == row.count + 1
    IN  (2 * (row.rating * row.count + rating) + n) \div (2 * n)

Count(h) ==
    LET j == reviewJob[h]
        row == [rating |-> Mean(j.row, j.rating), count |-> j.row.count + 1]
    IN  /\ At(h, "count")
        /\ meta' = [meta EXCEPT ![j.for] = IF j.at = 0 THEN Append(@, row)
                                           ELSE [@ EXCEPT ![j.at] = row]]
        /\ reviewJob' = [reviewJob EXCEPT ![h] = Idle]
        /\ UNCHANGED <<review, faults, metaOverlapped, uncounted>>

\* A call fails or the handler stops, and the answer is an error; a review that was
\* stored stays.
Fail(h) ==
    /\ reviewJob[h] # Idle
    /\ reviewJob' = [reviewJob EXCEPT ![h] = Idle]
    /\ \/ At(h, "store") /\ UNCHANGED <<faults, uncounted>>
       \/ /\ ~At(h, "store") /\ faults < MaxFaults
          /\ faults' = faults + 1
          /\ uncounted' = uncounted \cup {reviewJob[h].for}
    /\ UNCHANGED <<review, meta, metaOverlapped>>

-----------------------------------------------------------------------------
(* Administrators; neither touches the rating made of the review *)

UpdateReview(i, rating) ==
    /\ review[i].for # "none" /\ faults < MaxFaults
    /\ faults' = faults + 1
    /\ review' = [review EXCEPT ![i].rating = rating]
    /\ uncounted' = uncounted \cup {review[i].for}
    /\ UNCHANGED <<meta, reviewJob, metaOverlapped>>

RemoveReview(i) ==
    /\ review[i].for # "none" /\ faults < MaxFaults
    /\ faults' = faults + 1
    /\ review' = [review EXCEPT ![i] = Removed]
    /\ uncounted' = uncounted \cup {review[i].for}
    /\ UNCHANGED <<meta, reviewJob, metaOverlapped>>

-----------------------------------------------------------------------------
Init ==
    /\ review = <<>>
    /\ meta = [u \in Users |-> <<>>]
    /\ reviewJob = [h \in Handlers |-> Idle]
    /\ faults = 0
    /\ metaOverlapped = {} /\ uncounted = {}

Next ==
    \/ \E h \in Handlers :
          \/ \E t \in Trips, side \in Sides, rating \in Ratings : SaveReview(h, t, side, rating)
          \/ Store(h) \/ FindMeta(h) \/ Count(h) \/ Fail(h)
    \/ \E i \in DOMAIN review :
          \/ \E rating \in Ratings : UpdateReview(i, rating)
          \/ RemoveReview(i)

Spec == Init /\ [][Next]_reviewVars

-----------------------------------------------------------------------------
TypeOK ==
    /\ Len(review) <= MaxReviews
    /\ \A i \in DOMAIN review : review[i].for \in Users \cup {"none"} /\ review[i].rating \in Nat
    /\ \A u \in Users : \A i \in DOMAIN meta[u] :
          meta[u][i].rating \in Nat /\ meta[u][i].count \in Nat \ {0}
    /\ \A h \in Handlers : reviewJob[h].step \in {"none", "store", "find", "count"}
    /\ faults \in 0..MaxFaults
    /\ metaOverlapped \cup uncounted \subseteq Users
=============================================================================
