----------------------------- MODULE Messaging -----------------------------
(***************************************************************************)
(* Chat and the notifications queue together: the job message.new that the *)
(* gateway adds is one that the processor carries out.  Both run in one    *)
(* process and die together; Redis keeps the jobs.                         *)
(***************************************************************************)
EXTENDS Chat, Naturals

CONSTANTS Attempts, MaxStalls  \* as in Notifications

VARIABLES
  state, made, gone, working, step, rows, pushes, phone, stalls

queueVars == <<state, made, gone, working, step, rows, pushes, phone, stalls>>

\* Messages are the queue's only jobs here.
Queue == INSTANCE Notifications
  WITH Jobs <- Messages, Messages <- Messages,
       Recipient <- [m \in Messages |-> Addressee(m)]

ASSUME MessagingAssumption ==
  /\ Attempts \in Nat \ {0} /\ MaxStalls \in Nat
  /\ Queue!Nothing \notin Messages

MessagingInit == Init /\ Queue!Init

ChatMoves == OwnStep /\ UNCHANGED queueVars

\* notificationQueue.add.
AddsJob(m) == SendAddsJob(m) /\ Queue!Added(m)

WorkerMoves ==
  /\ \/ Queue!Handler \/ Queue!AttemptFails
     \/ \E m \in Messages : Queue!Taken(m)
     \/ \E u \in Users : Queue!SavesPushToken(u)
  /\ UNCHANGED vars

ProcessDies ==
  /\ ServerDies
  /\ IF working = Queue!Nothing THEN UNCHANGED queueVars ELSE Queue!ProcessDies

MessagingNext ==
  \/ ChatMoves
  \/ \E m \in Messages : AddsJob(m)
  \/ WorkerMoves
  \/ ProcessDies

MessagingSpec == MessagingInit /\ [][MessagingNext]_<<vars, queueVars>>

\* A handler in flight goes on or breaks off; the queue is fair as in
\* Notifications.
MessagingFairSpec ==
  /\ MessagingSpec
  /\ \A m \in Messages :
       WF_<<vars, queueVars>>(\/ ~(send[m] = "unsent") /\ SendStep(m) /\ UNCHANGED queueVars
                              \/ SendStops(m) /\ UNCHANGED queueVars
                              \/ AddsJob(m))
  /\ WF_<<vars, queueVars>>((Queue!Handler \/ Queue!AttemptFails) /\ UNCHANGED vars)
  /\ \A m \in Messages : SF_<<vars, queueVars>>(Queue!Taken(m) /\ UNCHANGED vars)

-----------------------------------------------------------------------------
\* From the gateway's look at the sockets to the list of notifications, with
\* retries and restarts in between: nobody is notified of a message they were
\* connected for all the time it was sent, nor of one sent by POST; and a message
\* sent to somebody away all that time has its job, which never completes
\* without the notification.
NotifiedAreTheAway ==
  \A m \in Messages :
    /\ rows[m] > 0 => m \notin RestMessages /\ "away" \in presence[m]
    /\ m \notin RestMessages /\ send[m] = "over" /\ presence[m] = {"away"} =>
         state[m] # "none" /\ (state[m] = "completed" => rows[m] > 0)

\* From the gateway to the list of notifications: a message that is stored and
\* whose recipient stays away is written to the recipient's notifications, if
\* its handler does not break off and its job does not use up its attempts.
EveryMessageGetsThrough ==
  \A m \in Messages \ RestMessages :
    send[m] = "lastMessage" ~> \/ send[m] = "stopped" \/ presence[m] # {"away"}
                           \/ rows[m] > 0 \/ state[m] = "failed"
=============================================================================
