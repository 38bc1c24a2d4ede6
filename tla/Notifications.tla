--------------------------- MODULE Notifications ---------------------------
(***************************************************************************)
(* NotificationProcessor.process and NotificationsService.sendPush: how a  *)
(* job of the notifications queue becomes a row of notifications and a     *)
(* push to the user's phone.  The queue (BullMQ) hands the processor one   *)
(* job at a time, again after a failed attempt while attempts are left,    *)
(* and again after a stall (the process died while it had the job).        *)
(***************************************************************************)
EXTENDS Naturals

CONSTANTS
  Jobs,       \* jobs that may be added
  Messages,   \* those of Jobs named message.new; the others name a request
  Users,
  Recipient,  \* Recipient[j]: the user to be notified
  Attempts,   \* attempts given when the job is added
  MaxStalls   \* bound: process deaths in a behaviour

Nothing == "nothing"

ASSUME NotificationsAssumption ==
  /\ Nothing \notin Jobs
  /\ Messages \subseteq Jobs /\ Recipient \in [Jobs -> Users]
  /\ Attempts \in Nat \ {0} /\ MaxStalls \in Nat

Phones == {"none", "invalid", "valid"}   \* users' pushToken

VARIABLES
  state,   \* state[j] in the queue; "delayed" waits for its back-off
  made,    \* made[j]: attempts that failed
  gone,    \* jobs whose request has been deleted
  working, \* the job being processed, or Nothing
  step,    \* its next statement
  rows,    \* rows[j]: notifications written for j
  pushes,  \* pushes[j]: pushes delivered to the phone for j
  phone,   \* phone[u]: pushToken of u
  stalls   \* stalls[j]: times the process died while it had j (bounded by MaxStalls)

vars == <<state, made, gone, working, step, rows, pushes, phone, stalls>>
queueVars == <<state, made, stalls>>

Init ==
  /\ state = [j \in Jobs |-> "none"]
  /\ made = [j \in Jobs |-> 0] /\ stalls = [j \in Jobs |-> 0]
  /\ gone = {}
  /\ working = Nothing /\ step = "none"
  /\ rows = [j \in Jobs |-> 0] /\ pushes = [j \in Jobs |-> 0]
  /\ phone \in [Users -> Phones]

-----------------------------------------------------------------------------
(* The queue.                                                              *)
Added(j) ==
  /\ state[j] = "none"
  /\ state' = [state EXCEPT ![j] = "waiting"]
  /\ UNCHANGED <<made, gone, working, step, rows, pushes, phone, stalls>>

\* handleNewMessage goes by the job's data and looks nothing up.
FirstStatement(j) == IF j \in Messages THEN "row" ELSE "request"

Taken(j) ==
  /\ working = Nothing
  /\ state[j] \in {"waiting", "delayed"}
  /\ state' = [state EXCEPT ![j] = "active"]
  /\ working' = j /\ step' = FirstStatement(j)
  /\ UNCHANGED <<made, gone, rows, pushes, phone, stalls>>

Leaves(outcome) ==
  /\ state' = [state EXCEPT ![working] = outcome]
  /\ working' = Nothing /\ step' = "none"

RetriesOneMore(j) == made[j] < Attempts
RetriesLeft(j) == made[j] + 1 < Attempts

\* A statement before the push throws, and process with it; errors of the push
\* are caught.
MayThrowAfterPush == {"request", "row", "token", "done"}
MayThrow == {"request", "row", "token"}

AttemptFails ==
  /\ step \in MayThrow
  /\ made' = [made EXCEPT ![working] = @ + 1]
  /\ Leaves(IF RetriesLeft(working) THEN "delayed" ELSE "failed")
  /\ UNCHANGED <<gone, rows, pushes, phone, stalls>>

ProcessDies ==
  /\ working # Nothing
  /\ stalls[working] < MaxStalls
  /\ stalls' = [stalls EXCEPT ![working] = @ + 1]
  /\ Leaves("waiting")
  /\ UNCHANGED <<made, gone, rows, pushes, phone>>

-----------------------------------------------------------------------------
(* The handlers.                                                           *)
IfGoneAgain == "delayed"
IfGone == "completed"

ReadsRequest ==
  /\ step = "request"
  /\ IF working \in gone
     THEN Leaves(IfGone)
     ELSE step' = "row" /\ UNCHANGED <<state, working>>
  /\ UNCHANGED <<made, gone, rows, pushes, phone, stalls>>

\* sendPush writes the row before anything else.
MayNotWriteRow ==
  /\ step = "row"
  /\ rows' \in {rows, [rows EXCEPT ![working] = @ + 1]}
  /\ step' = "token"
  /\ UNCHANGED <<queueVars, gone, working, pushes, phone>>
WritesRow ==
  /\ step = "row"
  /\ rows' = [rows EXCEPT ![working] = @ + 1]
  /\ step' = "token"
  /\ UNCHANGED <<queueVars, gone, working, pushes, phone>>

ReadsToken ==
  /\ step = "token"
  /\ IF phone[Recipient[working]] = "valid"
     THEN step' = "push" /\ UNCHANGED <<state, working>>
     ELSE Leaves("completed")
  /\ UNCHANGED <<made, gone, rows, pushes, phone, stalls>>

\* The push is delivered, or its failure is logged; either way the job is done.
Pushes ==
  /\ step = "push"
  /\ pushes' \in {pushes, [pushes EXCEPT ![working] = @ + 1]}
  /\ step' = "done"
  /\ UNCHANGED <<queueVars, gone, working, rows, phone>>

Completes ==
  /\ step = "done"
  /\ Leaves("completed")
  /\ UNCHANGED <<made, gone, rows, pushes, phone, stalls>>

-----------------------------------------------------------------------------
(* Meanwhile a book is deleted with its requests, and a user's phone       *)
(* registers its token (savePushToken).                                    *)
RequestDeleted(j) ==
  /\ j \notin Messages /\ j \notin gone
  /\ gone' = gone \cup {j}
  /\ UNCHANGED <<queueVars, working, step, rows, pushes, phone>>

SavesPushToken(u) ==
  /\ \E token \in {"invalid", "valid"} \ {phone[u]} : phone' = [phone EXCEPT ![u] = token]
  /\ UNCHANGED <<queueVars, gone, working, step, rows, pushes>>

Handler == ReadsRequest \/ WritesRow \/ ReadsToken \/ Pushes \/ Completes
Next ==
  \/ \E j \in Jobs : Added(j) \/ Taken(j) \/ RequestDeleted(j)
  \/ Handler \/ AttemptFails \/ ProcessDies
  \/ \E u \in Users : SavesPushToken(u)

Spec == Init /\ [][Next]_vars

\* The queue passes no job over for ever, and each statement of the processor
\* ends, with or without an error.
FairSpec ==
  /\ Spec
  /\ WF_vars(Handler \/ AttemptFails)
  /\ \A j \in Jobs : SF_vars(Taken(j))

-----------------------------------------------------------------------------
TypeOK ==
  /\ state \in [Jobs -> {"none", "waiting", "delayed", "active", "completed", "failed"}]
  /\ made \in [Jobs -> 0 .. Attempts] /\ stalls \in [Jobs -> 0 .. MaxStalls]
  /\ gone \subseteq Jobs /\ working \in Jobs \cup {Nothing}
  /\ step \in {"none", "request", "row", "token", "push", "done"}
  /\ rows \in [Jobs -> Nat] /\ pushes \in [Jobs -> Nat]
  /\ phone \in [Users -> Phones]

\* 'Always saves to DB regardless of delivery outcome': a job is not completed
\* without its notification, unless there was no request left to notify of.
CompletedIsSaved == \A j \in Jobs : state[j] = "completed" /\ j \notin gone => rows[j] > 0

\* A retry never pushes twice: everything that may throw comes before the push.
\* Only the death of the process between the push and the job's completion does.
OnePushButForStalls == \A j \in Jobs : pushes[j] <= 1 + stalls[j]

\* Every job added is carried out or given up after its attempts; none is
\* retried for ever or left waiting behind the others.
JobsSettle == \A j \in Jobs : state[j] = "waiting" ~> state[j] \in {"completed", "failed"}

\* Retries are bounded: a job leaves no more notifications than it had attempts.
RowsWithinAttempts == \A j \in Jobs : rows[j] <= Attempts + stalls[j]
=============================================================================
