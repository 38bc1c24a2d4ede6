------------------------ MODULE Notifications_proof ------------------------
(***************************************************************************)
(* The queue's counts for any jobs and any number of attempts.             *)
(***************************************************************************)
EXTENDS Notifications, TLAPS

\* Past its row, the job at hand is sure to have one.
Written == {"token", "push", "done"}
AtHand(j) == working = j
HasWritten(j) == AtHand(j) /\ step \in Written
HasPushed(j) == AtHand(j) /\ step = "done"

\* A job leaves a row for each attempt that failed, each stall and the attempt
\* under way, and a push for each stall and the attempt that completes.
RowsCounted(j) ==
  rows[j] <= made[j] + stalls[j] + (IF HasWritten(j) \/ state[j] = "completed" THEN 1 ELSE 0)
PushesCounted(j) ==
  pushes[j] <= stalls[j] + (IF HasPushed(j) \/ state[j] = "completed" THEN 1 ELSE 0)

JobInv(j) ==
  /\ AtHand(j) <=> state[j] = "active"
  /\ made[j] = Attempts => state[j] = "failed"
  /\ HasWritten(j) => rows[j] > 0
  /\ state[j] = "completed" /\ j \notin gone => rows[j] > 0
  /\ RowsCounted(j) /\ PushesCounted(j)

QueueInv ==
  /\ TypeOK
  /\ working = Nothing <=> step = "none"
  /\ \A j \in Jobs : JobInv(j)

LEMMA QueueInit == Init => QueueInv
<1> SUFFICES ASSUME Init PROVE QueueInv
  OBVIOUS
<1> USE NotificationsAssumption DEF NotificationsAssumption, Init
<1>1. TypeOK
  BY DEF TypeOK, Nothing, Phones
<1>2. ASSUME NEW j \in Jobs PROVE JobInv(j)
  BY <1>2 DEF JobInv, AtHand, HasWritten, HasPushed, RowsCounted, PushesCounted, Written
<1> QED BY <1>1, <1>2 DEF QueueInv

LEMMA QueueStep == QueueInv /\ [Next]_vars => QueueInv'
<1> SUFFICES ASSUME QueueInv, [Next]_vars PROVE QueueInv'
  OBVIOUS
<1> USE NotificationsAssumption DEF NotificationsAssumption, QueueInv, TypeOK, queueVars
<1>a. \A j \in Jobs : j # Nothing
  OBVIOUS
<1>1. ASSUME NEW j \in Jobs, Added(j) PROVE QueueInv'
  BY <1>1, <1>a DEF Added, JobInv, AtHand, HasWritten, HasPushed, RowsCounted, PushesCounted, Written
<1>2. ASSUME NEW j \in Jobs, Taken(j) PROVE QueueInv'
  BY <1>2, <1>a DEF Taken, FirstStatement, JobInv, AtHand, HasWritten, HasPushed, RowsCounted,
                    PushesCounted, Written
<1>3. ASSUME NEW j \in Jobs, RequestDeleted(j) PROVE QueueInv'
  BY <1>3 DEF RequestDeleted, JobInv, AtHand, HasWritten, HasPushed, RowsCounted,
              PushesCounted, Written
<1>4. ASSUME NEW u \in Users, SavesPushToken(u) PROVE QueueInv'
  BY <1>4 DEF SavesPushToken, Phones, JobInv, AtHand, HasWritten, HasPushed, RowsCounted,
              PushesCounted, Written
<1>5. CASE AttemptFails
  BY <1>5, <1>a DEF AttemptFails, MayThrow, RetriesLeft, Leaves, JobInv, AtHand, HasWritten,
                    HasPushed, RowsCounted, PushesCounted, Written
<1>6. CASE ProcessDies
  BY <1>6, <1>a DEF ProcessDies, Leaves, JobInv, AtHand, HasWritten, HasPushed, RowsCounted,
                    PushesCounted, Written
<1>7. CASE ReadsRequest
  BY <1>7, <1>a DEF ReadsRequest, IfGone, Leaves, JobInv, AtHand, HasWritten, HasPushed,
                    RowsCounted, PushesCounted, Written
<1>8. CASE WritesRow
  BY <1>8, <1>a DEF WritesRow, JobInv, AtHand, HasWritten, HasPushed, RowsCounted,
                    PushesCounted, Written
<1>9. CASE ReadsToken
  BY <1>9, <1>a DEF ReadsToken, Leaves, JobInv, AtHand, HasWritten, HasPushed, RowsCounted,
                    PushesCounted, Written
<1>10. CASE Pushes
  BY <1>10, <1>a DEF Pushes, JobInv, AtHand, HasWritten, HasPushed, RowsCounted,
                     PushesCounted, Written
<1>11. CASE Completes
  BY <1>11, <1>a DEF Completes, Leaves, JobInv, AtHand, HasWritten, HasPushed, RowsCounted,
                     PushesCounted, Written
<1>12. CASE UNCHANGED vars
  BY <1>12 DEF vars, JobInv, AtHand, HasWritten, HasPushed, RowsCounted, PushesCounted, Written
<1> QED
  BY <1>1, <1>2, <1>3, <1>4, <1>5, <1>6, <1>7, <1>8, <1>9, <1>10, <1>11, <1>12 DEF Next, Handler

LEMMA QueueInvHolds == Spec => []QueueInv
BY QueueInit, QueueStep, PTL DEF Spec

\* Every column and counter of the queue keeps its type, whatever fails.
THEOREM QueueTypeCorrect == Spec => []TypeOK
<1>1. QueueInv => TypeOK
  BY DEF QueueInv
<1> QED BY <1>1, QueueInvHolds, PTL

\* sendPush saves before it pushes: no completed job is without its notification.
THEOREM CompletedJobsAreSaved == Spec => []CompletedIsSaved
<1>1. QueueInv => CompletedIsSaved
  BY DEF QueueInv, JobInv, CompletedIsSaved
<1> QED BY <1>1, QueueInvHolds, PTL

\* A push is repeated only after the process died between it and the job's end.
THEOREM RetriesDoNotPushAgain == Spec => []OnePushButForStalls
<1>1. ASSUME QueueInv, NEW j \in Jobs PROVE pushes[j] <= 1 + stalls[j]
  <2>1. pushes[j] \in Nat /\ stalls[j] \in Nat
    BY <1>1 DEF QueueInv, TypeOK
  <2> QED BY <1>1, <2>1 DEF QueueInv, JobInv, PushesCounted
<1>2. QueueInv => OnePushButForStalls
  BY <1>1 DEF OnePushButForStalls
<1> QED BY <1>2, QueueInvHolds, PTL

\* A job writes no more notifications than it had attempts and stalls.
THEOREM RowsAreBounded == Spec => []RowsWithinAttempts
<1>1. ASSUME QueueInv, NEW j \in Jobs PROVE rows[j] <= Attempts + stalls[j]
  <2> USE <1>1 DEF QueueInv, JobInv, AtHand, HasWritten, RowsCounted
  <2>1. /\ made[j] \in Nat /\ made[j] <= Attempts /\ stalls[j] \in Nat
        /\ rows[j] \in Nat /\ Attempts \in Nat
    BY NotificationsAssumption DEF NotificationsAssumption, TypeOK
  <2>2. CASE made[j] = Attempts
    BY <2>1, <2>2
  <2>3. CASE made[j] # Attempts
    BY <2>1, <2>3
  <2> QED BY <2>2, <2>3
<1>2. QueueInv => RowsWithinAttempts
  BY <1>1 DEF RowsWithinAttempts
<1> QED BY <1>2, QueueInvHolds, PTL
============================================================================
