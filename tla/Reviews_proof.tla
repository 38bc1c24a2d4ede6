--------------------------- MODULE Reviews_proof ---------------------------
(***************************************************************************)
(* Reviews for any number of loans, users and calls at a time.             *)
(***************************************************************************)
EXTENDS Reviews, TLAPS

\* What a slot can hold: a call gets its summary from the aggregate.
Asking    == [at : {"find", "insert", "aggregate"}, review : Reviews]
Updating  == [at : {"update"}, review : Reviews, read : SUBSET Reviews]
Calls     == {Idle} \cup Asking \cup Updating
CallTypes == call \in [Slots -> Calls]
TypesInv  == TypeOK /\ CallTypes

\* Reviews of u that are stored and whose own call has yet to read the summary.
Owing(u) == {v \in Received(u) : \E s \in Slots : Handles(s, "aggregate") /\ call[s].review = v}

\* read is what a summary taken now would say, but for the reviews in Owing(u).
Accounts(read, u) == Received(u) \ Owing(u) \subseteq read /\ read \subseteq Received(u)

\* Of two recalculations for one user both are disturbed, so that one which is
\* not is the only one, and behind[u] says that u's rating may be out of date
\* while a disturbed one is under way.
OverlapInv(u) ==
  /\ \A s, k \in Recalculating(u) : s # k => s \in disturbed
  /\ \A s \in Recalculating(u) : s \in disturbed => behind[u] # {}

\* What the next update will write, and what the last one has written.
SummaryInv(u) ==
  /\ \A s \in Recalculating(u) : s \notin disturbed => Accounts(call[s].read, u)
  /\ Recalculating(u) = {} /\ behind[u] = {} => Accounts(rating[u], u)

\* With overlaps only, no summary on its way is empty, and the rating is not
\* either once a review has been counted.
CountedInv(u) ==
  behind[u] \subseteq {"overlap"} =>
    /\ \A s \in Recalculating(u) : call[s].read # {}
    /\ Recalculating(u) = {} /\ rating[u] = {} => Received(u) \subseteq Owing(u)

RatingInv(u) == OverlapInv(u) /\ SummaryInv(u) /\ CountedInv(u)

ReviewInv == TypesInv /\ OneReviewPerParty /\ \A u \in Users : RatingInv(u)

-----------------------------------------------------------------------------
LEMMA RevieweeType == \A v \in Reviews : Reviewee(v) \in Users
BY ReviewsAssumption DEF ReviewsAssumption, Reviewee, Reviews

LEMMA ReviewInit == Init => ReviewInv
<1> SUFFICES ASSUME Init PROVE ReviewInv
  OBVIOUS
<1> USE DEF Init, Idle
<1>1. TypesInv /\ OneReviewPerParty
  BY DEF TypesInv, TypeOK, CallTypes, Calls, OneReviewPerParty
<1>2. ASSUME NEW u \in Users PROVE Received(u) = {} /\ Recalculating(u) = {}
  BY DEF Received, Stored, Recalculating, Handles
<1> QED
  BY <1>1, <1>2
  DEF ReviewInv, RatingInv, OverlapInv, SummaryInv, CountedInv, Accounts

LEMMA TypesStep == TypesInv /\ [Next]_vars => TypesInv'
<1> SUFFICES ASSUME TypesInv, [Next]_vars PROVE TypesInv'
  OBVIOUS
<1> USE RevieweeType DEF TypesInv, TypeOK, CallTypes, Calls, Asking, Updating, Causes, Handles, Proceeds
<1>1. ASSUME NEW s \in Slots, ReadsTransaction(s) PROVE TypesInv'
  BY <1>1 DEF ReadsTransaction
<1>2. ASSUME NEW s \in Slots, FindsExisting(s) PROVE TypesInv'
  BY <1>2 DEF FindsExisting, Idle
<1>3. ASSUME NEW s \in Slots, Inserts(s) PROVE TypesInv'
  BY <1>3 DEF Inserts, Idle
<1>4. ASSUME NEW s \in Slots, Aggregates(s) PROVE TypesInv'
  BY <1>4 DEF Aggregates, Idle, Summary, Stored, Recalculating
<1>5. ASSUME NEW s \in Slots, Updates(s) PROVE TypesInv'
  BY <1>5 DEF Updates, Idle
<1>6. ASSUME NEW s \in Slots, Stops(s) PROVE TypesInv'
  BY <1>6 DEF Stops, Idle, Disturbs, Recalculating
<1>7. ASSUME NEW l \in Loans, Returned(l) PROVE TypesInv'
  BY <1>7 DEF Returned
<1>8. ASSUME NEW l \in Loans, BookDeleted(l) PROVE TypesInv'
  BY <1>8 DEF BookDeleted, Disturbs, Recalculating
<1>9. CASE UNCHANGED vars
  BY <1>9 DEF vars
<1> QED
  BY <1>1, <1>2, <1>3, <1>4, <1>5, <1>6, <1>7, <1>8, <1>9 DEF Next

-----------------------------------------------------------------------------
(* Three kinds of steps, as user u sees them.                              *)

\* Nobody's summary of u changes; a review of u may come in, and owes its call.
LEMMA QuietStep ==
  ASSUME NEW u, RatingInv(u),
         Recalculating(u)' = Recalculating(u),
         \A s \in Recalculating(u) :
           call'[s].read = call[s].read /\ (s \in disturbed' <=> s \in disturbed),
         behind'[u] = behind[u], rating'[u] = rating[u],
         Received(u) \subseteq Received(u)',
         Received(u)' \ Owing(u)' \subseteq Received(u) \ Owing(u)
  PROVE  RatingInv(u)'
<1>1. OverlapInv(u)'
  BY DEF RatingInv, OverlapInv
<1>2. SummaryInv(u)'
  BY DEF RatingInv, SummaryInv, Accounts
<1>3. CountedInv(u)'
  BY DEF RatingInv, CountedInv
<1> QED BY <1>1, <1>2, <1>3 DEF RatingInv

\* A call about u breaks off, or a review of u is deleted.
LEMMA DisturbingStep ==
  ASSUME NEW u, NEW c \in {"stop", "delete"}, c \in behind'[u],
         Recalculating(u)' \subseteq disturbed'
  PROVE  RatingInv(u)'
BY DEF RatingInv, OverlapInv, SummaryInv, CountedInv

\* A call reads a new summary of u.
LEMMA AggregateStep ==
  ASSUME TypesInv, NEW s \in Slots, NEW u \in Users, RatingInv(u), Aggregates(s),
         Reviewee(call[s].review) = u
  PROVE  RatingInv(u)'
<1> DEFINE v == call[s].review
<1>1. v \in Reviews /\ s \notin Recalculating(u)
  BY DEF Aggregates, Handles, TypesInv, CallTypes, Calls, Asking, Updating, Idle, Recalculating
<1>2. /\ call'[s] = [at |-> "update", review |-> v, read |-> Summary(u)]
      /\ \A k \in Slots \ {s} : call'[k] = call[k]
  BY DEF Aggregates, TypesInv, CallTypes
<1>3. Received(u)' = Received(u)
  BY DEF Aggregates, Received, Stored
<1>4. Recalculating(u)' = Recalculating(u) \cup {s}
  BY <1>1, <1>2 DEF Recalculating, Handles, Reviewee
<1>5. Recalculating(u) = {} => disturbed' = disturbed \ {s}
  BY DEF Aggregates
<1>6. Recalculating(u) # {} => disturbed' = disturbed \cup Recalculating(u) \cup {s} /\ "overlap" \in behind'[u]
  BY DEF Aggregates, TypesInv, TypeOK
<1>7. behind[u] \subseteq behind'[u] /\ (v \notin Stored => "delete" \in behind'[u])
  BY DEF Aggregates, TypesInv, TypeOK
<1>8. OverlapInv(u)'
  BY <1>4, <1>5, <1>6 DEF OverlapInv
<1>9. SummaryInv(u)'
  <2>1. call'[s].read = Received(u)
    BY <1>2 DEF Summary, Received
  <2>2. Recalculating(u) # {} => Recalculating(u)' \subseteq disturbed'
    BY <1>4, <1>6
  <2> QED BY <1>3, <1>4, <2>1, <2>2 DEF SummaryInv, Accounts
<1>10. CountedInv(u)'
  <2>1. v \in Stored => call'[s].read # {}
    BY <1>1, <1>2 DEF Summary
  <2> QED BY <1>1, <1>2, <1>4, <1>7, <2>1 DEF RatingInv, CountedInv, Recalculating
<1> QED BY <1>8, <1>9, <1>10 DEF RatingInv

\* A call writes the summary it has read.
LEMMA UpdateStep ==
  ASSUME TypesInv, NEW s \in Slots, NEW u \in Users, RatingInv(u), Updates(s),
         Reviewee(call[s].review) = u
  PROVE  RatingInv(u)'
<1>1. s \in Recalculating(u)
  BY DEF Updates, Recalculating
<1>2. call' = [call EXCEPT ![s] = Idle] /\ \A k \in Slots : call'[k] = IF k = s THEN Idle ELSE call[k]
  BY DEF Updates, TypesInv, CallTypes
<1>3. Received(u)' = Received(u) /\ disturbed' = disturbed
  BY DEF Updates, Received, Stored
<1>4. Recalculating(u)' = Recalculating(u) \ {s}
  BY <1>2 DEF Recalculating, Handles, Idle, Reviewee
<1>5. Owing(u)' = Owing(u)
  BY <1>2, <1>3 DEF Owing, Handles, Idle, Updates
<1>6. rating'[u] = call[s].read
  BY DEF Updates, TypesInv, TypeOK
<1>7. CASE s \in disturbed
  <2>1. behind' = behind
    BY <1>7 DEF Updates
  <2>2. behind[u] # {}
    BY <1>1, <1>7 DEF RatingInv, OverlapInv
  <2>3. \A k \in Recalculating(u)' : call'[k] = call[k]
    BY <1>2, <1>4 DEF Recalculating
  <2>4. OverlapInv(u)' /\ SummaryInv(u)'
    BY <1>3, <1>4, <1>5, <2>1, <2>2, <2>3 DEF RatingInv, OverlapInv, SummaryInv, Accounts
  <2>5. CountedInv(u)'
    BY <1>1, <1>4, <1>6, <2>1, <2>3 DEF RatingInv, CountedInv
  <2> QED BY <2>4, <2>5 DEF RatingInv
<1>8. CASE s \notin disturbed
  <2>1. Recalculating(u) = {s}
    BY <1>1, <1>8 DEF RatingInv, OverlapInv
  <2>2. Recalculating(u)' = {}
    BY <1>4, <2>1
  <2>3. Accounts(rating[u], u)'
    BY <1>1, <1>3, <1>5, <1>6, <1>8 DEF RatingInv, SummaryInv, Accounts
  <2> QED BY <2>2, <2>3 DEF RatingInv, OverlapInv, SummaryInv, CountedInv, Accounts
<1> QED BY <1>7, <1>8

-----------------------------------------------------------------------------
LEMMA RatingStep ==
  ASSUME TypesInv, NEW u \in Users, RatingInv(u), [Next]_vars
  PROVE  RatingInv(u)'
<1>a. CallTypes
  BY DEF TypesInv
<1>1. ASSUME NEW s \in Slots, ReadsTransaction(s) \/ FindsExisting(s) PROVE RatingInv(u)'
  <2>1. /\ call[s].at # "update" /\ call[s].at # "aggregate"
        /\ call'[s].at # "update" /\ call'[s].at # "aggregate"
        /\ \A k \in Slots \ {s} : call'[k] = call[k]
    BY <1>1, <1>a
    DEF ReadsTransaction, FindsExisting, Handles, Proceeds, CallTypes, Calls, Asking, Updating, Idle
  <2>2. Recalculating(u)' = Recalculating(u) /\ \A k \in Recalculating(u) : call'[k] = call[k]
    BY <2>1 DEF Recalculating, Handles, Reviewee
  <2>3. UNCHANGED <<written, rating, disturbed, behind>>
    BY <1>1 DEF ReadsTransaction, FindsExisting
  <2>4. Received(u)' = Received(u)
    BY <2>3 DEF Received, Stored
  <2>5. Owing(u)' = Owing(u)
    BY <2>1, <2>4 DEF Owing, Handles
  <2> QED BY <2>2, <2>3, <2>4, <2>5, QuietStep
<1>2. ASSUME NEW s \in Slots, Inserts(s) PROVE RatingInv(u)'
  <2> DEFINE v == call[s].review
  <2>1. /\ call[s].at = "insert" /\ call'[s].at = "aggregate" /\ call'[s].review = v /\ v \in Reviews
        /\ \A k \in Slots \ {s} : call'[k] = call[k]
    BY <1>2, <1>a DEF Inserts, Handles, Proceeds, CallTypes, Calls, Asking, Updating, Idle
  <2>2. Recalculating(u)' = Recalculating(u) /\ \A k \in Recalculating(u) : call'[k] = call[k]
    BY <2>1 DEF Recalculating, Handles, Reviewee
  <2>3. UNCHANGED <<rating, disturbed, behind>>
    BY <1>2 DEF Inserts
  <2>4. \A w \in Reviews : written'[w] = IF w = v THEN written[w] + 1 ELSE written[w]
    BY <1>2 DEF Inserts, TypesInv, TypeOK
  <2>5. Received(u) \subseteq Received(u)' /\ \A w \in Received(u)' : w = v \/ w \in Received(u)
    BY <2>4 DEF Received, Stored, Reviewee, TypesInv, TypeOK
  <2>6. Owing(u) \subseteq Owing(u)' /\ (v \in Received(u)' => v \in Owing(u)')
    BY <2>1, <2>5 DEF Owing, Handles
  <2>7. Received(u)' \ Owing(u)' \subseteq Received(u) \ Owing(u)
    BY <2>5, <2>6
  <2> QED BY <2>2, <2>3, <2>5, <2>7, QuietStep
<1>3. ASSUME NEW s \in Slots, Aggregates(s) PROVE RatingInv(u)'
  <2>1. CASE Reviewee(call[s].review) = u
    BY <1>3, <2>1, AggregateStep
  <2>2. CASE Reviewee(call[s].review) # u
    <3>1. /\ call[s].at = "aggregate" /\ call'[s].at = "update" /\ call'[s].review = call[s].review
          /\ \A k \in Slots \ {s} : call'[k] = call[k]
      BY <1>3, <1>a DEF Aggregates, Handles, CallTypes
    <3>2. Recalculating(u)' = Recalculating(u) /\ \A k \in Recalculating(u) : call'[k] = call[k]
      BY <2>2, <3>1 DEF Recalculating, Handles, Reviewee
    <3>3. UNCHANGED <<rating, written>> /\ behind'[u] = behind[u]
      BY <1>3, <2>2 DEF Aggregates, TypesInv, TypeOK
    <3>4. \A k \in Recalculating(u) : k # s /\ k \notin Recalculating(Reviewee(call[s].review))
      BY <2>2, <3>1 DEF Recalculating, Handles
    <3>5. \A k \in Recalculating(u) : k \in disturbed' <=> k \in disturbed
      BY <1>3, <3>4 DEF Aggregates
    <3>6. Received(u)' = Received(u)
      BY <3>3 DEF Received, Stored
    <3>7. Owing(u)' = Owing(u)
      BY <2>2, <3>1, <3>6 DEF Owing, Handles, Received
    <3> QED BY <3>2, <3>3, <3>5, <3>6, <3>7, QuietStep
  <2> QED BY <2>1, <2>2
<1>4. ASSUME NEW s \in Slots, Updates(s) PROVE RatingInv(u)'
  <2>1. CASE Reviewee(call[s].review) = u
    BY <1>4, <2>1, UpdateStep
  <2>2. CASE Reviewee(call[s].review) # u
    <3>1. /\ call[s].at = "update" /\ call'[s] = Idle /\ \A k \in Slots \ {s} : call'[k] = call[k]
      BY <1>4, <1>a DEF Updates, Handles, CallTypes
    <3>2. Recalculating(u)' = Recalculating(u) /\ \A k \in Recalculating(u) : call'[k] = call[k]
      BY <2>2, <3>1 DEF Recalculating, Handles, Reviewee, Idle
    <3>3. UNCHANGED <<disturbed, written>> /\ behind'[u] = behind[u] /\ rating'[u] = rating[u]
      BY <1>4, <2>2 DEF Updates, TypesInv, TypeOK
    <3>4. Received(u)' = Received(u)
      BY <3>3 DEF Received, Stored
    <3>5. Owing(u)' = Owing(u)
      BY <3>1, <3>4 DEF Owing, Handles, Idle
    <3> QED BY <3>2, <3>3, <3>4, <3>5, QuietStep
  <2> QED BY <2>1, <2>2
<1>5. ASSUME NEW s \in Slots, Stops(s) PROVE RatingInv(u)'
  <2>1. call'[s] = Idle /\ (\A k \in Slots \ {s} : call'[k] = call[k]) /\ UNCHANGED <<written, rating>>
    BY <1>5, <1>a DEF Stops, CallTypes
  <2>2. CASE call[s].at \in {"aggregate", "update"} /\ Reviewee(call[s].review) = u
    <3>1. Recalculating(u)' \subseteq Recalculating(u)
      BY <2>1 DEF Recalculating, Handles, Reviewee, Idle
    <3>2. Recalculating(u) \subseteq disturbed' /\ "stop" \in behind'[u]
      BY <1>5, <2>2 DEF Stops, Disturbs
    <3> QED BY <3>1, <3>2, DisturbingStep
  <2>3. CASE ~(call[s].at \in {"aggregate", "update"} /\ Reviewee(call[s].review) = u)
    <3>1. Recalculating(u)' = Recalculating(u) /\ \A k \in Recalculating(u) : call'[k] = call[k]
      BY <2>1, <2>3 DEF Recalculating, Handles, Reviewee, Idle
    <3>2. /\ behind'[u] = behind[u]
          /\ \A k \in Recalculating(u) : k \in disturbed' <=> k \in disturbed
      <4>1. CASE call[s].at \in {"aggregate", "update"}
        BY <1>5, <2>3, <4>1 DEF Stops, Disturbs, Recalculating
      <4>2. CASE call[s].at \notin {"aggregate", "update"}
        BY <1>5, <4>2 DEF Stops
      <4> QED BY <4>1, <4>2
    <3>3. Received(u)' = Received(u)
      BY <2>1 DEF Received, Stored
    <3>4. Owing(u)' = Owing(u)
      BY <2>1, <2>3, <3>3 DEF Owing, Handles, Idle, Received
    <3> QED BY <2>1, <3>1, <3>2, <3>3, <3>4, QuietStep
  <2> QED BY <2>2, <2>3
<1>6. ASSUME NEW l \in Loans, Returned(l) PROVE RatingInv(u)'
  <2>1. UNCHANGED <<written, rating, call, disturbed, behind>>
    BY <1>6 DEF Returned
  <2> QED BY <2>1, QuietStep DEF Received, Stored, Owing, Recalculating, Handles
<1>7. ASSUME NEW l \in Loans, BookDeleted(l) PROVE RatingInv(u)'
  <2> DEFINE us == {Reviewee(v) : v \in {w \in Stored : w.loan = l}}
  <2>1. UNCHANGED <<rating, call>> /\ Disturbs(us, "delete")
    BY <1>7 DEF BookDeleted
  <2>2. Recalculating(u)' = Recalculating(u)
    BY <2>1 DEF Recalculating, Handles
  <2>3. CASE u \in us
    <3>1. Recalculating(u) \subseteq disturbed' /\ "delete" \in behind'[u]
      BY <2>1, <2>3 DEF Disturbs
    <3> QED BY <2>2, <3>1, DisturbingStep
  <2>4. CASE u \notin us
    <3>1. Received(u)' = Received(u)
      BY <1>7, <2>4 DEF BookDeleted, Received, Stored
    <3>2. Owing(u)' = Owing(u)
      BY <2>1, <3>1 DEF Owing, Handles
    <3>3. behind'[u] = behind[u]
      BY <2>1, <2>4 DEF Disturbs
    <3>4. \A k \in Recalculating(u) : k \in disturbed' <=> k \in disturbed
      BY <2>1, <2>4 DEF Disturbs, Recalculating
    <3> QED BY <2>1, <2>2, <3>1, <3>2, <3>3, <3>4, QuietStep
  <2> QED BY <2>3, <2>4
<1>8. CASE UNCHANGED vars
  BY <1>8, QuietStep DEF vars, Received, Stored, Owing, Recalculating, Handles
<1> QED BY <1>1, <1>2, <1>3, <1>4, <1>5, <1>6, <1>7, <1>8 DEF Next

LEMMA OneReviewStep ==
  ASSUME TypesInv, OneReviewPerParty, [Next]_vars
  PROVE  OneReviewPerParty'
<1> USE DEF OneReviewPerParty, TypesInv, TypeOK
<1>1. ASSUME NEW s \in Slots, Inserts(s) PROVE OneReviewPerParty'
  BY <1>1 DEF Inserts, UniqueOnInsert, Stored
<1>2. ASSUME NEW l \in Loans, BookDeleted(l) PROVE OneReviewPerParty'
  BY <1>2 DEF BookDeleted
<1>3. ASSUME NEW s \in Slots,
             \/ ReadsTransaction(s) \/ FindsExisting(s) \/ Aggregates(s) \/ Updates(s) \/ Stops(s)
      PROVE  OneReviewPerParty'
  BY <1>3 DEF ReadsTransaction, FindsExisting, Aggregates, Updates, Stops
<1>4. ASSUME NEW l \in Loans, Returned(l) PROVE OneReviewPerParty'
  BY <1>4 DEF Returned
<1>5. CASE UNCHANGED vars
  BY <1>5 DEF vars
<1> QED BY <1>1, <1>2, <1>3, <1>4, <1>5 DEF Next

LEMMA ReviewInvHolds == Spec => []ReviewInv
<1>1. ReviewInv /\ [Next]_vars => ReviewInv'
  BY TypesStep, RatingStep, OneReviewStep DEF ReviewInv
<1> QED BY <1>1, ReviewInit, PTL DEF Spec

-----------------------------------------------------------------------------
\* Every call holds the review and the summary its next statement needs.
THEOREM ReviewTypeCorrect == Spec => []TypeOK
<1>1. ReviewInv => TypeOK
  BY DEF ReviewInv, TypesInv
<1> QED BY <1>1, ReviewInvHolds, PTL

\* A review submitted any number of times at once is stored once.
THEOREM ReviewIsWrittenOnce == Spec => []OneReviewPerParty
<1>1. ReviewInv => OneReviewPerParty
  BY DEF ReviewInv
<1> QED BY <1>1, ReviewInvHolds, PTL

\* Once the calls about a user have ended, the user's average and count are
\* those of the reviews received, if the last recalculation ran alone and
\* nothing was broken off or deleted since.
THEOREM LoneRecalculationRepairs == Spec => []RatingIsRepaired
<1>1. ReviewInv => RatingIsRepaired
  <2> SUFFICES ASSUME ReviewInv, NEW u \in Users, Settled(u), behind[u] = {}
               PROVE  rating[u] = Received(u)
    BY DEF RatingIsRepaired
  <2>1. Recalculating(u) = {} /\ Owing(u) = {}
    BY DEF Settled, Recalculating, Owing, Received, Handles
  <2> QED BY <2>1 DEF ReviewInv, RatingInv, SummaryInv, Accounts
<1> QED BY <1>1, ReviewInvHolds, PTL

\* However many recalculations overlap, a user with a review ends up rated.
THEOREM OverlapsLeaveARating == Spec => []ReviewedIsRated
<1>1. ReviewInv => ReviewedIsRated
  <2> SUFFICES ASSUME ReviewInv, NEW u \in Users, Settled(u), behind[u] \subseteq {"overlap"},
                      Received(u) # {}
               PROVE  rating[u] # {}
    BY DEF ReviewedIsRated
  <2>1. Recalculating(u) = {} /\ Owing(u) = {}
    BY DEF Settled, Recalculating, Owing, Received, Handles
  <2> QED BY <2>1 DEF ReviewInv, RatingInv, CountedInv
<1> QED BY <1>1, ReviewInvHolds, PTL
=============================================================================
