----------------------------- MODULE Chat_proof -----------------------------
(***************************************************************************)
(* Chat for any number of messages and sockets.                            *)
(***************************************************************************)
EXTENDS Chat, TLAPS

\* Between its check and its look-up a handler's history names every state its
\* recipient is seen in, and its job is decided accordingly.
Watches(m) == send[m] \in SendSteps \ {"push"}
HistoryIsCurrent(m) == Watches(m) => Presence(Addressee(m)) \in presence[m]
PushIsForTheAway(m) ==
  /\ send[m] = "push" \/ m \in jobs => "away" \in presence[m]
  /\ send[m] = "over" /\ m \notin RestMessages /\ m \notin jobs =>
       presence[m] \cap {"online", "joined"} # {}
  /\ send[m] \in SendSteps \cup {"unsent"} => m \notin jobs

\* A recipient who was not in the room when the message went out, and has not
\* been seen outside it, is away until a socket of theirs connects.
MissedWhileAway(m) ==
  /\ m \in heard => "joined" \in presence[m] /\ send[m] \in {"look", "push", "over", "stopped"}
  /\ send[m] = "look" /\ m \notin heard =>
       "online" \in presence[m] \/ Presence(Addressee(m)) = "away"
  /\ send[m] = "over" /\ m \notin RestMessages /\ m \notin jobs \cup heard =>
       "online" \in presence[m]

\* What a reader has to mark is to be marked still, or has been.
DueInv(u) ==
  /\ marking[u] = "update" /\ open => due[u] \subseteq Marked(u)
  /\ marking[u] = "emit" /\ open => due[u] \subseteq read

TypesInv == TypeOK /\ \A m \in Messages : send[m] = "lastMessage" /\ open => m \in stored

ChatInv ==
  /\ TypesInv
  /\ \A m \in Messages : HistoryIsCurrent(m) /\ PushIsForTheAway(m) /\ MissedWhileAway(m)
  /\ \A u \in Users : DueInv(u)

-----------------------------------------------------------------------------
\* Types, given that a message whose lastMessage is due has its row.
LEMMA TypeStep == TypesInv /\ [Next]_vars => TypesInv'
<1> SUFFICES ASSUME TypesInv, [Next]_vars PROVE TypesInv'
  OBVIOUS
<1> USE ChatAssumption DEF ChatAssumption, TypesInv, TypeOK, SendSteps, Goes, rowVars, toldVars,
                       historyVars
<1>1. ASSUME NEW m \in Messages, SendChecks(m) PROVE TypesInv'
  BY <1>1 DEF SendChecks, Presence
<1>2. ASSUME NEW m \in Messages, SendCreates(m) PROVE TypesInv'
  BY <1>2 DEF SendCreates
<1>3. ASSUME NEW m \in Messages, SendUpdatesLast(m) PROVE TypesInv'
  BY <1>3 DEF SendUpdatesLast, AfterUpdate
<1>4. ASSUME NEW m \in Messages, SendEmits(m) \/ SendLooks(m) \/ SendAddsJob(m) \/ SendStops(m) PROVE TypesInv'
  BY <1>4 DEF SendEmits, SendLooks, SendAddsJob, SendStops
<1>5. ASSUME NEW u \in Users, MarkChecks(u) \/ MarkUpdates(u) \/ MarkEnds(u) PROVE TypesInv'
  BY <1>5 DEF MarkChecks, MarkUpdates, MarkEnds, Marked
<1>6. ASSUME NEW k \in Sockets, NEW st \in {"off", "on", "joined"}, SocketTurns(k, st) PROVE TypesInv'
  BY <1>6 DEF SocketTurns, Presence
<1>7. CASE ChatDeleted
  BY <1>7 DEF ChatDeleted
<1>8. CASE ServerDies
  BY <1>8 DEF ServerDies
<1>9. CASE UNCHANGED vars
  BY <1>9 DEF vars
<1> QED
  BY <1>1, <1>2, <1>3, <1>4, <1>5, <1>6, <1>7, <1>8, <1>9
  DEF Next, OwnStep, SendStep, MarkStep, SocketStep, Connects, JoinsChat, Disconnects

-----------------------------------------------------------------------------
(* What a reader has to mark is still to be marked, or has been.           *)
LEMMA DueStep ==
  TypesInv /\ (\A u \in Users : DueInv(u)) /\ [Next]_vars => (\A u \in Users : DueInv(u))'
<1> SUFFICES ASSUME TypesInv, \A v \in Users : DueInv(v), [Next]_vars, NEW u \in Users
             PROVE  DueInv(u)'
  OBVIOUS
<1> USE DEF TypesInv, TypeOK, DueInv, Marked, rowVars, toldVars, historyVars
<1>1. ASSUME NEW v \in Users, MarkStep(v) PROVE DueInv(u)'
  BY <1>1 DEF MarkStep, MarkChecks, MarkUpdates, MarkEnds
<1>2. ASSUME NEW m \in Messages, SendStep(m) \/ SendAddsJob(m) \/ SendStops(m) PROVE DueInv(u)'
  BY <1>2
  DEF SendStep, SendChecks, SendCreates, SendUpdatesLast, SendEmits, SendLooks, SendAddsJob, SendStops
<1>3. ASSUME NEW k \in Sockets, NEW st \in {"off", "on", "joined"}, SocketTurns(k, st)
      PROVE  DueInv(u)'
  BY <1>3 DEF SocketTurns
<1>4. CASE ChatDeleted
  BY <1>4 DEF ChatDeleted
<1>5. CASE ServerDies
  BY <1>5 DEF ServerDies
<1>6. CASE UNCHANGED vars
  BY <1>6 DEF vars
<1> QED
  BY <1>1, <1>2, <1>3, <1>4, <1>5, <1>6 DEF Next, OwnStep, SocketStep, Connects, JoinsChat, Disconnects

-----------------------------------------------------------------------------
(* The history names every state the recipient is seen in.                 *)
AnnouncedInv ==
  \A m \in Messages : HistoryIsCurrent(m) /\ PushIsForTheAway(m) /\ MissedWhileAway(m)

LEMMA PresenceValues ==
  /\ \A u \in Users : Presence(u) \in {"away", "online", "joined"}
  /\ \A u \in Users : Presence(u) = "away" <=> Present(u) = {}
BY DEF Presence

\* Nobody goes from away to the chat's room without having connected first.
LEMMA FromAwayToOnline ==
  ASSUME TypesInv, NEW k \in Sockets, Connects(k) \/ JoinsChat(k) \/ Disconnects(k),
         NEW u \in Users, Presence(u) = "away"
  PROVE  Presence(u)' \in {"away", "online"}
<1> USE DEF TypesInv, TypeOK
<1>1. \A i \in Sockets : Owner[i] = u => net[i] = "off"
  BY DEF Presence, Present
<1>2. CASE Connects(k)
  <2>1. Present(u)' \cap Room' = {}
    BY <1>1, <1>2 DEF Connects, SocketTurns, Present, Room
  <2> QED BY <2>1 DEF Presence
<1>3. CASE JoinsChat(k) \/ Disconnects(k)
  <2>1. Present(u)' = {}
    BY <1>1, <1>3 DEF JoinsChat, Disconnects, SocketTurns, Present
  <2> QED BY <2>1 DEF Presence
<1> QED BY <1>2, <1>3

LEMMA AnnouncedStep == TypesInv /\ AnnouncedInv /\ [Next]_vars => AnnouncedInv'
<1> SUFFICES ASSUME TypesInv, AnnouncedInv, [Next]_vars PROVE AnnouncedInv'
  OBVIOUS
<1> USE ChatAssumption DEF ChatAssumption
<1> USE DEF TypesInv, TypeOK, AnnouncedInv, HistoryIsCurrent, PushIsForTheAway,
            MissedWhileAway, Watches, SendSteps, Goes, rowVars, toldVars, historyVars
<1>1. UNCHANGED net => \A u \in Users : Presence(u)' = Presence(u)
  BY DEF Presence, Present, Room
<1>2. \A m \in Messages : Addressee(m) \in Users
  <2> SUFFICES ASSUME NEW m \in Messages PROVE \E u \in Users : u # Sender[m]
    BY DEF Addressee
  <2> QED OBVIOUS
<1>3. ASSUME NEW m \in Messages, SendChecks(m) PROVE AnnouncedInv'
  BY <1>1, <1>2, <1>3 DEF SendChecks
<1>4. ASSUME NEW m \in Messages, SendCreates(m) \/ SendUpdatesLast(m) PROVE AnnouncedInv'
  BY <1>1, <1>2, <1>4 DEF SendCreates, SendUpdatesLast, AfterUpdate
<1>5. ASSUME NEW m \in Messages, SendEmits(m) PROVE AnnouncedInv'
  <2>1. Hearers(m) # {} <=> Presence(Addressee(m)) = "joined"
    BY <1>5 DEF Hearers, Presence, Present, Room
  <2> QED BY <1>1, <1>2, <1>5, <2>1, PresenceValues DEF SendEmits
<1>6. ASSUME NEW m \in Messages, SendLooks(m) PROVE AnnouncedInv'
  BY <1>1, <1>2, <1>6, PresenceValues DEF SendLooks, Found
<1>7. ASSUME NEW m \in Messages, SendAddsJob(m) \/ SendStops(m) PROVE AnnouncedInv'
  BY <1>1, <1>2, <1>7 DEF SendAddsJob, SendStops
<1>8. ASSUME NEW u \in Users, MarkStep(u) PROVE AnnouncedInv'
  BY <1>1, <1>2, <1>8 DEF MarkStep, MarkChecks, MarkUpdates, MarkEnds
<1>9. ASSUME NEW k \in Sockets, Connects(k) \/ JoinsChat(k) \/ Disconnects(k)
      PROVE  AnnouncedInv'
  <2>1. PICK st \in {"off", "on", "joined"} : SocketTurns(k, st)
    BY <1>9 DEF Connects, JoinsChat, Disconnects
  <2>2. ASSUME NEW u \in Users, u # Owner[k] PROVE Presence(u)' = Presence(u)
    BY <2>1, <2>2 DEF SocketTurns, Presence, Present, Room
  <2>3. \A m \in Messages :
          presence'[m] = IF m \in Unannounced /\ Addressee(m) = Owner[k]
                         THEN presence[m] \cup {Presence(Owner[k])'} ELSE presence[m]
    BY <2>1 DEF SocketTurns
  <2>4. UNCHANGED <<send, jobs, heard>>
    BY <2>1 DEF SocketTurns
  <2> SUFFICES ASSUME NEW m \in Messages
               PROVE  (HistoryIsCurrent(m) /\ PushIsForTheAway(m) /\ MissedWhileAway(m))'
    OBVIOUS
  <2>5. HistoryIsCurrent(m)'
    BY <1>2, <2>2, <2>3, <2>4 DEF Unannounced
  <2>6. presence[m] \subseteq presence'[m]
    BY <2>3
  <2>7. PushIsForTheAway(m)'
    BY <2>4, <2>6
  <2>8. send[m] = "look" /\ m \notin heard =>
          "online" \in presence'[m] \/ Presence(Addressee(m))' = "away"
    <3> SUFFICES ASSUME send[m] = "look", Presence(Addressee(m)) = "away"
                 PROVE  "online" \in presence'[m] \/ Presence(Addressee(m))' = "away"
      BY <2>6
    <3>1. Presence(Addressee(m))' \in {"away", "online"}
      BY <1>2, <1>9, FromAwayToOnline
    <3>2. Presence(Addressee(m))' \in presence'[m]
      BY <2>4, <2>5
    <3> QED BY <3>1, <3>2
  <2>9. MissedWhileAway(m)'
    BY <2>4, <2>6, <2>8
  <2> QED BY <2>5, <2>7, <2>9
<1>10. CASE ChatDeleted
  BY <1>1, <1>2, <1>10 DEF ChatDeleted
<1>11. CASE ServerDies
  BY <1>11 DEF ServerDies
<1>12. CASE UNCHANGED vars
  BY <1>1, <1>2, <1>12 DEF vars
<1> QED
  BY <1>3, <1>4, <1>5, <1>6, <1>7, <1>8, <1>9, <1>10, <1>11, <1>12
  DEF Next, OwnStep, SendStep, SocketStep

-----------------------------------------------------------------------------
LEMMA ChatInvHolds == Spec => []ChatInv
<1>1. Init => ChatInv
  BY ChatAssumption
  DEF ChatAssumption, Init, ChatInv, TypesInv, TypeOK, SendSteps, DueInv,
      HistoryIsCurrent, Watches, PushIsForTheAway, MissedWhileAway
<1>2. ChatInv /\ [Next]_vars => ChatInv'
  BY TypeStep, AnnouncedStep, DueStep DEF ChatInv, AnnouncedInv
<1> QED BY <1>1, <1>2, PTL DEF Spec

\* Every row and handler keeps its type: lastMessage repeats a message that exists.
THEOREM ChatTypeCorrect == Spec => []TypeOK
<1>1. ChatInv => TypeOK
  BY DEF ChatInv, TypesInv
<1> QED BY <1>1, ChatInvHolds, PTL

\* Whoever was away all the while has the job, whoever was connected all the
\* while has not.
THEOREM TheAwayAreNotified == Spec => []MessagesAreAnnounced
<1>1. ChatInv => MessagesAreAnnounced
  BY DEF ChatInv, PushIsForTheAway, MessagesAreAnnounced
<1> QED BY <1>1, ChatInvHolds, PTL

\* Between the room's event and the user's job a message is lost only to those
\* connected outside the room, whatever sockets do between the two looks.
THEOREM OnlyOutsideTheRoomMisses == Spec => []HeardOrQueued
<1>1. ChatInv => HeardOrQueued
  BY DEF ChatInv, PushIsForTheAway, MissedWhileAway, HeardOrQueued
<1> QED BY <1>1, ChatInvHolds, PTL

\* messages_read claims no more than what has been marked.
THEOREM ReadMeansRead == Spec => []ReceiptsAreTrue
<1>1. ChatInv => ReceiptsAreTrue
  BY DEF ChatInv, DueInv, ReceiptsAreTrue
<1> QED BY <1>1, ChatInvHolds, PTL
=============================================================================
