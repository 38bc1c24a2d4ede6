-------------------------- MODULE Messaging_proof --------------------------
(***************************************************************************)
(* The gateway and the queue together, for any number of messages.         *)
(***************************************************************************)
EXTENDS Messaging, Chat_proof

QueueFacts == INSTANCE Notifications_proof
  WITH Jobs <- Messages, Messages <- Messages,
       Recipient <- [m \in Messages |-> Addressee(m)]

LEMMA QueueAssumptions == QueueFacts!NotificationsAssumption
<1>1. \A m \in Messages : Addressee(m) \in Users
  <2> SUFFICES ASSUME NEW m \in Messages PROVE \E u \in Users : u # Sender[m]
    BY DEF Addressee
  <2> QED BY ChatAssumption DEF ChatAssumption
<1>2. Queue!Nothing = QueueFacts!Nothing
  BY DEF Queue!Nothing, QueueFacts!Nothing
<1> QED BY <1>1, <1>2, MessagingAssumption DEF MessagingAssumption, QueueFacts!NotificationsAssumption

-----------------------------------------------------------------------------
\* Together they do nothing that either could not do alone: what is proved of
\* Chat and of Notifications holds of the composition.
THEOREM EachKeepsItsOwnSpec == MessagingSpec => Spec /\ Queue!Spec
<1>1. MessagingInit => Init /\ Queue!Init
  BY DEF MessagingInit
<1>2. [MessagingNext]_<<vars, queueVars>> => [Next]_vars
  BY DEF MessagingNext, ChatMoves, AddsJob, WorkerMoves, ProcessDies, Next
<1>3. [MessagingNext]_<<vars, queueVars>> => [Queue!Next]_(Queue!vars)
  BY DEF MessagingNext, ChatMoves, AddsJob, WorkerMoves, ProcessDies, queueVars,
         Queue!Next, Queue!vars
<1> QED BY <1>1, <1>2, <1>3, PTL DEF MessagingSpec, Spec, Queue!Spec

\* The queue of Messaging is the one the facts are about.
LEMMA SameQueue == Queue!Spec => QueueFacts!Spec
<1>1. Queue!Init => QueueFacts!Init
  BY DEF Queue!Init, QueueFacts!Init, Queue!Nothing, QueueFacts!Nothing, Queue!Phones,
         QueueFacts!Phones
<1>2. [Queue!Next]_(Queue!vars) => [QueueFacts!Next]_(QueueFacts!vars)
  <2> SUFFICES ASSUME Queue!Next PROVE QueueFacts!Next
    BY DEF Queue!vars, QueueFacts!vars
  <2> USE DEF Queue!Nothing, QueueFacts!Nothing, Queue!Leaves, QueueFacts!Leaves,
              Queue!queueVars, QueueFacts!queueVars
  <2>1. ASSUME NEW m \in Messages, Queue!Added(m) \/ Queue!Taken(m) \/ Queue!RequestDeleted(m)
        PROVE  QueueFacts!Next
    BY <2>1 DEF Queue!Added, QueueFacts!Added, Queue!Taken, QueueFacts!Taken,
                Queue!FirstStatement, QueueFacts!FirstStatement,
                Queue!RequestDeleted, QueueFacts!RequestDeleted, QueueFacts!Next
  <2>2. CASE Queue!ReadsRequest \/ Queue!WritesRow
    BY <2>2 DEF Queue!ReadsRequest, QueueFacts!ReadsRequest, Queue!IfGone, QueueFacts!IfGone,
                Queue!WritesRow, QueueFacts!WritesRow, QueueFacts!Handler, QueueFacts!Next
  <2>3. CASE Queue!ReadsToken \/ Queue!Pushes \/ Queue!Completes
    BY <2>3 DEF Queue!ReadsToken, QueueFacts!ReadsToken, Queue!Pushes, QueueFacts!Pushes,
                Queue!Completes, QueueFacts!Completes, QueueFacts!Handler, QueueFacts!Next
  <2>4. CASE Queue!AttemptFails \/ Queue!ProcessDies
    BY <2>4 DEF Queue!AttemptFails, QueueFacts!AttemptFails, Queue!MayThrow, QueueFacts!MayThrow,
                Queue!RetriesLeft, QueueFacts!RetriesLeft, Queue!ProcessDies,
                QueueFacts!ProcessDies, QueueFacts!Next
  <2>5. ASSUME NEW u \in Users, Queue!SavesPushToken(u) PROVE QueueFacts!Next
    BY <2>5 DEF Queue!SavesPushToken, QueueFacts!SavesPushToken, QueueFacts!Next
  <2> QED BY <2>1, <2>2, <2>3, <2>4, <2>5 DEF Queue!Next, Queue!Handler
<1> QED BY <1>1, <1>2, PTL DEF Queue!Spec, QueueFacts!Spec

-----------------------------------------------------------------------------
\* What ties the two together: the jobs the gateway has added are those the
\* queue knows, and a job it does not know has left no trace.  Nothing takes
\* the rest path to the queue, and no message is forgotten as a request is.
PathInv(m) ==
  m \in RestMessages => send[m] \in {"unsent", "create", "lastMessage", "over", "stopped"} /\ m \notin jobs
BridgeInv ==
  /\ \A m \in Messages :
       /\ m \in jobs <=> state[m] # "none"
       /\ state[m] = "none" => rows[m] = 0
       /\ PathInv(m)
  /\ gone = {}

LEMMA BridgeInit == MessagingInit => BridgeInv
BY DEF MessagingInit, Init, Queue!Init, BridgeInv, PathInv

LEMMA BridgeStep ==
  ASSUME BridgeInv, TypeOK, QueueFacts!QueueInv, [MessagingNext]_<<vars, queueVars>>
  PROVE  BridgeInv'
<1> USE DEF BridgeInv, PathInv, TypeOK, toldVars
<1>1. CASE ChatMoves
  <2>1. jobs' = jobs
    BY <1>1 DEF ChatMoves, OwnStep, SendStep, SendChecks, SendCreates, SendUpdatesLast, SendEmits,
                SendLooks, SendStops, MarkStep, MarkChecks, MarkUpdates, MarkEnds, SocketStep,
                Connects, JoinsChat, Disconnects, SocketTurns, ChatDeleted
  <2>2. \A m \in Messages : PathInv(m)'
    <3>1. CASE UNCHANGED send
      BY <2>1, <3>1
    <3>2. ASSUME NEW k \in Messages, SendStep(k) \/ SendStops(k) PROVE \A m \in Messages : PathInv(m)'
      BY <2>1, <3>2 DEF SendStep, SendChecks, SendCreates, SendUpdatesLast, AfterUpdate, SendEmits,
                        SendLooks, SendStops, Goes
    <3> QED BY <1>1, <3>1, <3>2
            DEF ChatMoves, OwnStep, MarkStep, MarkChecks, MarkUpdates, MarkEnds, SocketStep,
                Connects, JoinsChat, Disconnects, SocketTurns, ChatDeleted, rowVars
  <2> QED BY <1>1, <2>1, <2>2 DEF ChatMoves, queueVars
<1>2. ASSUME NEW k \in Messages, AddsJob(k) PROVE BridgeInv'
  <2>1. /\ send[k] = "push" /\ send' = [send EXCEPT ![k] = "over"] /\ jobs' = jobs \cup {k}
        /\ state' = [state EXCEPT ![k] = "waiting"] /\ UNCHANGED <<rows, gone>>
    BY <1>2 DEF AddsJob, SendAddsJob, Goes, Queue!Added
  <2>2. state \in [Messages -> {"none", "waiting", "delayed", "active", "completed", "failed"}]
    BY DEF QueueFacts!QueueInv, QueueFacts!TypeOK
  <2> QED BY <2>1, <2>2
\* The worker and the death of the process touch the job at hand only.
<1>3. /\ state \in [Messages -> {"none", "waiting", "delayed", "active", "completed", "failed"}]
      /\ rows \in [Messages -> Nat]
      /\ step # "none" \/ working # Queue!Nothing => working \in Messages /\ state[working] = "active"
  BY DEF QueueFacts!QueueInv, QueueFacts!TypeOK, QueueFacts!JobInv, QueueFacts!AtHand,
         QueueFacts!Nothing, Queue!Nothing
<1> DEFINE TouchesOneJob ==
      /\ UNCHANGED gone
      /\ \A m \in Messages : \/ UNCHANGED <<state[m], rows[m]>>
                             \/ state[m] # "none" /\ state'[m] # "none"
<1>4. CASE WorkerMoves
  <2>1. UNCHANGED <<send, jobs>>
    BY <1>4 DEF WorkerMoves, vars
  <2>2. TouchesOneJob
    <3>1. CASE Queue!Handler
      BY <1>3, <3>1 DEF Queue!Handler, Queue!ReadsRequest, Queue!IfGone, Queue!WritesRow,
         Queue!ReadsToken, Queue!Pushes, Queue!Completes, Queue!Leaves, Queue!queueVars
    <3>2. CASE Queue!AttemptFails
      BY <1>3, <3>2 DEF Queue!AttemptFails, Queue!MayThrow, Queue!Leaves
    <3>3. ASSUME NEW k \in Messages, Queue!Taken(k) PROVE TouchesOneJob
      BY <1>3, <3>3 DEF Queue!Taken
    <3>4. ASSUME NEW u \in Users, Queue!SavesPushToken(u) PROVE TouchesOneJob
      BY <3>4 DEF Queue!SavesPushToken, Queue!queueVars
    <3> QED BY <1>4, <3>1, <3>2, <3>3, <3>4 DEF WorkerMoves
  <2> QED BY <2>1, <2>2
<1>5. CASE ProcessDies
  <2>1. jobs' = jobs /\ \A m \in Messages : PathInv(m)'
    BY <1>5 DEF ProcessDies, ServerDies, SendSteps
  <2>2. TouchesOneJob
    BY <1>3, <1>5 DEF ProcessDies, queueVars, Queue!ProcessDies, Queue!Leaves
  <2> QED BY <2>1, <2>2
<1>6. CASE UNCHANGED <<vars, queueVars>>
  BY <1>6 DEF vars, queueVars
<1> QED BY <1>1, <1>2, <1>4, <1>5, <1>6 DEF MessagingNext

\* Nobody is notified of a message they were there for, or of one sent by POST,
\* and a message sent to somebody away has its job, which does not complete
\* without the notification: through any retries, restarts and comings and
\* goings of sockets.
THEOREM TheAwayAndOnlyTheyAreNotified == MessagingSpec => []NotifiedAreTheAway
<1>1. MessagingSpec => []ChatInv /\ []QueueFacts!QueueInv
  <2>1. QueueFacts!Spec => []QueueFacts!QueueInv
    BY QueueAssumptions, QueueFacts!QueueInvHolds
  <2> QED BY <2>1, EachKeepsItsOwnSpec, SameQueue, ChatInvHolds, PTL
<1>2. ChatInv => TypeOK
  BY DEF ChatInv, TypesInv
<1>3. MessagingSpec => []BridgeInv
  <2>1. BridgeInv /\ TypeOK /\ QueueFacts!QueueInv /\ [MessagingNext]_<<vars, queueVars>> => BridgeInv'
    BY BridgeStep
  <2> QED BY <1>1, <1>2, <2>1, BridgeInit, PTL DEF MessagingSpec
<1>4. ChatInv /\ QueueFacts!QueueInv /\ BridgeInv => NotifiedAreTheAway
  <2> SUFFICES ASSUME ChatInv, QueueFacts!QueueInv, BridgeInv, NEW m \in Messages
               PROVE  /\ rows[m] > 0 => m \notin RestMessages /\ "away" \in presence[m]
                      /\ m \notin RestMessages /\ send[m] = "over" /\ presence[m] = {"away"} =>
                           state[m] # "none" /\ (state[m] = "completed" => rows[m] > 0)
    BY DEF NotifiedAreTheAway
  <2>1. rows[m] > 0 => m \in jobs
    BY DEF BridgeInv
  <2>2. m \in jobs => m \notin RestMessages /\ "away" \in presence[m]
    BY DEF BridgeInv, PathInv, ChatInv, PushIsForTheAway
  <2>3. m \notin RestMessages /\ send[m] = "over" /\ presence[m] = {"away"} => state[m] # "none"
    BY DEF BridgeInv, ChatInv, PushIsForTheAway
  <2>4. state[m] = "completed" => rows[m] > 0
    BY DEF BridgeInv, QueueFacts!QueueInv, QueueFacts!JobInv
  <2> QED BY <2>1, <2>2, <2>3, <2>4
<1> QED BY <1>1, <1>3, <1>4, PTL
=============================================================================
