------------------------------ MODULE Reviews ------------------------------
(***************************************************************************)
(* ReviewsService.create: a party of a returned loan reviews the other one *)
(* and the reviewee's averageRating and reviewCount are computed again.    *)
(* A user's row holds that summary; it is kept here as the set of reviews  *)
(* it was computed from.  Calls run in slots, one statement at a time.     *)
(***************************************************************************)
EXTENDS Naturals

CONSTANTS
  Loans,     \* borrow requests (the transactions of reviews)
  Users,
  Lender,    \* Lender[l]: the owner of the lent book
  Borrower,  \* Borrower[l]: the requester
  Slots      \* HTTP requests that can be served at the same time

ASSUME ReviewsAssumption ==
  /\ Lender \in [Loans -> Users] /\ Borrower \in [Loans -> Users]
  /\ \A l \in Loans : Lender[l] # Borrower[l]

Reviews == [loan : Loans, reviewer : Users]
Causes  == {"overlap", "stop", "delete"}

VARIABLES
  status,    \* status[l] of the borrow request
  written,   \* written[v]: rows of reviews that reviewer v.reviewer has on v.loan
  rating,    \* rating[u]: reviews that averageRating and reviewCount sum up
  call,      \* call[s]: the review slot s handles, by its next statement
  disturbed, \* history: slots whose recalculation (the last one) was not alone
  behind     \* history, behind[u]: what may have left the rating out of date

vars == <<status, written, rating, call, disturbed, behind>>

Idle == [at |-> "idle"]
Stored == {v \in Reviews : written[v] > 0}

\* The reviewee is the other party.
Reviewee(v) == IF v.reviewer = Lender[v.loan] THEN Borrower[v.loan] ELSE Lender[v.loan]

Handles(s, at) == call[s].at = at
Proceeds(s, at) == call' = [call EXCEPT ![s].at = at]

\* Slots between the aggregate and the update of u's rating.
Recalculating(u) == {s \in Slots : Handles(s, "update") /\ Reviewee(call[s].review) = u}

\* Something a summary read earlier may not know of happens to the users us.
Disturbs(us, cause) ==
  /\ disturbed' = disturbed \cup UNION {Recalculating(u) : u \in us}
  /\ behind' = [u \in Users |-> IF u \in us THEN behind[u] \cup {cause} ELSE behind[u]]

Init ==
  /\ status = [l \in Loans |-> "ACCEPTED"]
  /\ written = [v \in Reviews |-> 0]
  /\ rating = [u \in Users |-> {}]
  /\ call = [s \in Slots |-> Idle]
  /\ disturbed = {}
  /\ behind = [u \in Users |-> {}]

-----------------------------------------------------------------------------
(* POST /reviews.                                                          *)
MayReview(v) ==
  /\ status[v.loan] = "RETURNED"
  /\ v.reviewer \in {Lender[v.loan], Borrower[v.loan]}

ReadsTransaction(s) ==
  /\ call[s] = Idle
  /\ \E v \in Reviews :
       /\ MayReview(v)
       /\ call' = [call EXCEPT ![s] = [at |-> "find", review |-> v]]
  /\ UNCHANGED <<status, written, rating, disturbed, behind>>

FindsExisting(s) ==
  /\ Handles(s, "find")
  /\ call[s].review \notin Stored
  /\ Proceeds(s, "insert")
  /\ UNCHANGED <<status, written, rating, disturbed, behind>>

\* The unique index on transaction and reviewer.
NoUniqueOnInsert(v) == TRUE
UniqueOnInsert(v) == v \notin Stored

Inserts(s) ==
  LET v == call[s].review IN
  /\ Handles(s, "insert")
  /\ status[v.loan] # "deleted"
  /\ UniqueOnInsert(v)
  /\ written' = [written EXCEPT ![v] = @ + 1]
  /\ Proceeds(s, "aggregate")
  /\ UNCHANGED <<status, rating, disturbed, behind>>

\* recalculateUserRating reads the aggregate of the reviews whose reviewee is u,
\* and writes it in a statement of its own.
SummaryOfGiven(u) == {v \in Stored : v.reviewer = u}
SummaryByReviewer(u) == {v.reviewer : v \in {w \in Stored : Reviewee(w) = u}}
Summary(u) == {v \in Stored : Reviewee(v) = u}

Aggregates(s) ==
  LET v == call[s].review
      u == Reviewee(v)
      others == Recalculating(u)
      causes == (IF others = {} THEN {} ELSE {"overlap"})
                  \cup (IF v \in Stored THEN {} ELSE {"delete"}) IN
  /\ Handles(s, "aggregate")
  /\ call' = [call EXCEPT ![s] = [at |-> "update", review |-> @.review, read |-> Summary(u)]]
  /\ disturbed' = IF others = {} THEN disturbed \ {s} ELSE disturbed \cup others \cup {s}
  /\ behind' = [behind EXCEPT ![u] = @ \cup causes]
  /\ UNCHANGED <<status, written, rating>>

Updates(s) ==
  LET u == Reviewee(call[s].review) IN
  /\ Handles(s, "update")
  /\ rating' = [rating EXCEPT ![u] = call[s].read]
  /\ behind' = IF s \in disturbed THEN behind ELSE [behind EXCEPT ![u] = {}]
  /\ call' = [call EXCEPT ![s] = Idle]
  /\ UNCHANGED <<status, written, disturbed>>

\* A check fails, a statement throws, or the server goes down.
Stops(s) ==
  /\ call[s] # Idle
  /\ call' = [call EXCEPT ![s] = Idle]
  /\ IF call[s].at \in {"aggregate", "update"}
     THEN Disturbs({Reviewee(call[s].review)}, "stop")
     ELSE UNCHANGED <<disturbed, behind>>
  /\ UNCHANGED <<status, written, rating>>

-----------------------------------------------------------------------------
(* The loan is returned; or its book is deleted, and the reviews with it.  *)
Returned(l) ==
  /\ status[l] = "ACCEPTED"
  /\ status' = [status EXCEPT ![l] = "RETURNED"]
  /\ UNCHANGED <<written, rating, call, disturbed, behind>>

BookDeleted(l) ==
  /\ status[l] # "deleted"
  /\ status' = [status EXCEPT ![l] = "deleted"]
  /\ written' = [v \in Reviews |-> IF v.loan = l THEN 0 ELSE written[v]]
  /\ Disturbs({Reviewee(v) : v \in {w \in Stored : w.loan = l}}, "delete")
  /\ UNCHANGED <<rating, call>>

Next ==
  \/ \E s \in Slots : \/ ReadsTransaction(s) \/ FindsExisting(s) \/ Inserts(s)
                      \/ Aggregates(s) \/ Updates(s) \/ Stops(s)
  \/ \E l \in Loans : Returned(l) \/ BookDeleted(l)

Spec == Init /\ [][Next]_vars

-----------------------------------------------------------------------------
TypeOK ==
  /\ status \in [Loans -> {"ACCEPTED", "RETURNED", "deleted"}]
  /\ written \in [Reviews -> Nat]
  /\ rating \in [Users -> SUBSET Reviews]
  /\ \A s \in Slots :
       \/ call[s] = Idle
       \/ call[s].at \in {"find", "insert", "aggregate"} /\ call[s].review \in Reviews
       \/ Handles(s, "update") /\ call[s].review \in Reviews /\ call[s].read \subseteq Reviews
  /\ disturbed \subseteq Slots
  /\ behind \in [Users -> SUBSET Causes]

\* 'One review per person per transaction': a review submitted twice at the
\* same time passes the look-up twice and is stored once.
OneReviewPerParty == \A v \in Reviews : written[v] <= 1

\* The reviews about u.
Received(u) == {v \in Stored : Reviewee(v) = u}

\* Every review has been recalculated for, or the call that will is in flight.
Settled(u) ==
  \A s \in Slots : call[s].at \in {"aggregate", "update"} => Reviewee(call[s].review) # u

\* A recalculation that runs alone repairs everything: since the last one,
\* only overlapping ones, a call broken off or a deleted book can leave a
\* user's average and count out of step with the reviews received.
RatingIsRepaired == \A u \in Users : Settled(u) /\ behind[u] = {} => rating[u] = Received(u)

\* A user who has been reviewed is never shown as unrated for good: the last
\* recalculation to write has counted the review it was made for.
ReviewedIsRated ==
  \A u \in Users :
    Settled(u) /\ behind[u] \subseteq {"overlap"} /\ Received(u) # {} => rating[u] # {}
=============================================================================
