-------------------------------- MODULE Chat --------------------------------
(***************************************************************************)
(* One chat: ChatGateway (web sockets) and ChatsService.sendMessage (REST) *)
(* with the chat's rows.  Each message is sent by a handler of its own,    *)
(* one statement at a time, while the two participants' sockets come, join *)
(* the chat's room and go.                                                 *)
(***************************************************************************)
CONSTANTS
  Users,        \* the two participants
  Messages,     \* messages that may be sent
  Sender,       \* Sender[m]
  RestMessages, \* those of Messages sent by POST /chats/:id/messages
  Sockets,      \* connections that may be open
  Owner,        \* Owner[k]: who connects with k
  NoMessage     \* a chat whose lastMessage is null

ASSUME ChatAssumption ==
  /\ \E u, v \in Users : u # v /\ Users = {u, v}
  /\ Sender \in [Messages -> Users] /\ RestMessages \subseteq Messages
  /\ Owner \in [Sockets -> Users]
  /\ NoMessage \notin Messages

VARIABLES
  open,       \* the chat has not been deleted
  send,       \* send[m]: the next statement of the handler that sends m
  stored,     \* rows of messages
  read,       \* those with a readAt
  last,       \* the message that the column lastMessage repeats
  marking,    \* marking[u]: the next statement of u's mark_read
  net,        \* net[k]: "off", "on" (in its user's room) or "joined" (the chat's too)
  jobs,       \* messages with a job message.new
  heard,      \* messages whose new_message reached a socket of the recipient
  presence,   \* history, presence[m]: what its recipient has been up to the look-up
  due         \* history, due[u]: what u's mark_read has to mark

rowVars == <<open, stored, read, last>>
toldVars == <<jobs, heard>>
historyVars == <<presence, due>>
vars == <<rowVars, send, marking, net, toldVars, historyVars>>

Addressee(m) == CHOOSE u \in Users : u # Sender[m]
Present(u) == {k \in Sockets : Owner[k] = u /\ net[k] # "off"}
Room == {k \in Sockets : net[k] = "joined"}

SendSteps == {"create", "lastMessage", "emit", "look", "push"}
Goes(m, next) == send' = [send EXCEPT ![m] = next]

Init ==
  /\ open = TRUE
  /\ send = [m \in Messages |-> "unsent"]
  /\ stored = {} /\ read = {} /\ last = NoMessage
  /\ marking = [u \in Users |-> "idle"]
  /\ net = [k \in Sockets |-> "off"]
  /\ jobs = {} /\ heard = {}
  /\ presence = [m \in Messages |-> {}]
  /\ due = [u \in Users |-> {}]

-----------------------------------------------------------------------------
(* Sending.                                                                *)
\* Connected or not, and if so, in the chat's room or elsewhere in the app.
Presence(u) ==
  IF Present(u) = {} THEN "away"
  ELSE IF Present(u) \cap Room = {} THEN "online" ELSE "joined"

\* ensureAuthed and ensureChatParticipant.
Admits(u) == open /\ Present(u) # {}

\* POST needs no socket; sendMessage is over when lastMessage is written.
MaySend(m) == IF m \in RestMessages THEN open ELSE Admits(Sender[m])
AfterUpdate(m) == IF m \in RestMessages THEN "over" ELSE "emit"

SendChecks(m) ==
  /\ send[m] = "unsent" /\ MaySend(m)
  /\ Goes(m, "create")
  /\ presence' = [presence EXCEPT ![m] = {Presence(Addressee(m))}]
  /\ UNCHANGED <<rowVars, marking, net, toldVars, due>>

\* The foreign key refuses a message of a deleted chat.
SendCreates(m) ==
  /\ send[m] = "create" /\ open
  /\ stored' = stored \cup {m}
  /\ Goes(m, "lastMessage")
  /\ UNCHANGED <<open, read, last, marking, net, toldVars, historyVars>>

SendUpdatesLast(m) ==
  /\ send[m] = "lastMessage" /\ open
  /\ last' = m
  /\ Goes(m, AfterUpdate(m))
  /\ UNCHANGED <<open, stored, read, marking, net, toldVars, historyVars>>

\* new_message goes to whoever is in the chat's room now, and is not kept.
Hearers(m) == {k \in Room : Owner[k] = Addressee(m)}

SendEmits(m) ==
  /\ send[m] = "emit"
  /\ heard' = IF Hearers(m) = {} THEN heard ELSE heard \cup {m}
  /\ Goes(m, "look")
  /\ UNCHANGED <<rowVars, marking, net, jobs, historyVars>>

\* fetchSockets of the recipient's room.
FoundInChat(m) == Room
FoundAnyone(m) == {k \in Sockets : net[k] # "off"}
Found(m) == Present(Addressee(m))

SendLooks(m) ==
  /\ send[m] = "look"
  /\ Goes(m, IF Found(m) = {} THEN "push" ELSE "over")
  /\ UNCHANGED <<rowVars, marking, net, toldVars, historyVars>>

SendAddsJob(m) ==
  /\ send[m] = "push"
  /\ jobs' = jobs \cup {m}
  /\ Goes(m, "over")
  /\ UNCHANGED <<rowVars, marking, net, heard, historyVars>>

\* A statement throws, also for want of the chat or of the queue; the client is
\* told SEND_MESSAGE_FAILED.
SendStops(m) ==
  /\ send[m] \in SendSteps
  /\ Goes(m, "stopped")
  /\ UNCHANGED <<rowVars, marking, net, toldVars, historyVars>>

-----------------------------------------------------------------------------
(* Reading.                                                                *)
MarkChecks(u) ==
  /\ marking[u] = "idle" /\ Admits(u)
  /\ marking' = [marking EXCEPT ![u] = "update"]
  /\ due' = [due EXCEPT ![u] = {m \in stored : Sender[m] # u}]
  /\ UNCHANGED <<rowVars, send, net, toldVars, presence>>

MarkedOwn(u) == {m \in stored : Sender[m] = u}
MarkedUnsent(u) == {m \in Messages : Sender[m] # u}
Marked(u) == {m \in stored : Sender[m] # u}

MarkUpdates(u) ==
  /\ marking[u] = "update"
  /\ read' = read \cup Marked(u)
  /\ marking' = [marking EXCEPT ![u] = "emit"]
  /\ UNCHANGED <<open, stored, last, send, net, toldVars, historyVars>>

\* messages_read goes out, or the update has thrown.
MarkEnds(u) ==
  /\ marking[u] # "idle"
  /\ marking' = [marking EXCEPT ![u] = "idle"]
  /\ due' = [due EXCEPT ![u] = {}]
  /\ UNCHANGED <<rowVars, send, net, toldVars, presence>>

-----------------------------------------------------------------------------
(* Sockets.                                                                *)
Unannounced == {m \in Messages : send[m] \in SendSteps \ {"push"}}

\* k now is in state st; handlers in flight have it in their history.
SocketTurns(k, st) ==
  /\ net' = [net EXCEPT ![k] = st]
  /\ presence' = [m \in Messages |->
       IF m \in Unannounced /\ Addressee(m) = Owner[k]
       THEN presence[m] \cup {Presence(Owner[k])'} ELSE presence[m]]
  /\ UNCHANGED <<rowVars, send, marking, toldVars, due>>

Connects(k) == net[k] = "off" /\ SocketTurns(k, "on")
JoinsChat(k) == net[k] = "on" /\ open /\ SocketTurns(k, "joined")
Disconnects(k) == net[k] # "off" /\ SocketTurns(k, "off")

(* The book is deleted, with its requests, chats and messages.             *)
ChatDeleted ==
  /\ open
  /\ open' = FALSE
  /\ stored' = {} /\ read' = {} /\ last' = NoMessage
  /\ UNCHANGED <<send, marking, net, toldVars, historyVars>>

(* The server goes down: handlers and rooms are lost, rows and jobs stay.  *)
ServerDies ==
  /\ net' = [k \in Sockets |-> "off"]
  /\ send' = [m \in Messages |-> IF send[m] \in SendSteps THEN "stopped" ELSE send[m]]
  /\ marking' = [u \in Users |-> "idle"]
  /\ due' = [u \in Users |-> {}]
  /\ UNCHANGED <<rowVars, toldVars, presence>>

SendStep(m) ==
  SendChecks(m) \/ SendCreates(m) \/ SendUpdatesLast(m) \/ SendEmits(m) \/ SendLooks(m)
MarkStep(u) == MarkChecks(u) \/ MarkUpdates(u) \/ MarkEnds(u)
SocketStep(k) == Connects(k) \/ JoinsChat(k) \/ Disconnects(k)

\* All steps but SendAddsJob and ServerDies touch nothing outside the chat.
OwnStep ==
  \/ \E m \in Messages : SendStep(m) \/ SendStops(m)
  \/ \E u \in Users : MarkStep(u)
  \/ \E k \in Sockets : SocketStep(k)
  \/ ChatDeleted

Next == OwnStep \/ (\E m \in Messages : SendAddsJob(m)) \/ ServerDies

Spec == Init /\ [][Next]_vars

-----------------------------------------------------------------------------
TypeOK ==
  /\ open \in BOOLEAN
  /\ send \in [Messages -> SendSteps \cup {"unsent", "over", "stopped"}]
  /\ stored \subseteq Messages /\ read \subseteq stored
  /\ last \in stored \cup {NoMessage}
  /\ marking \in [Users -> {"idle", "update", "emit"}]
  /\ net \in [Sockets -> {"off", "on", "joined"}]
  /\ jobs \subseteq Messages /\ heard \subseteq Messages
  /\ presence \in [Messages -> SUBSET {"away", "online", "joined"}]
  /\ due \in [Users -> SUBSET Messages]

\* 'Check if recipient is offline -> enqueue push notification': a recipient who
\* was away from the check to the look-up has a job, one who was connected all
\* that time has none; one who came or went may have one or not.
MessagesAreAnnounced ==
  \A m \in Messages \ RestMessages : send[m] = "over" =>
    /\ presence[m] = {"away"} => m \in jobs
    /\ "away" \notin presence[m] => m \notin jobs

\* The event goes to the chat's room and the job depends on the user's, looked at
\* one after the other while sockets come and go.  A message is neither heard nor
\* queued only if the recipient was connected outside the chat's room meanwhile,
\* and it is both only if the recipient was in the room and then away.
HeardOrQueued ==
  \A m \in Messages \ RestMessages : send[m] = "over" =>
    /\ m \notin jobs \cup heard => "online" \in presence[m]
    /\ m \in jobs \cap heard => {"joined", "away"} \subseteq presence[m]

\* When messages_read goes out, everything the other had written by the time
\* the reader's call began is marked, whatever has been sent meanwhile.
ReceiptsAreTrue == \A u \in Users : marking[u] = "emit" /\ open => due[u] \subseteq read
=============================================================================
