------------------------ MODULE BorrowRequests_proof ------------------------
(***************************************************************************)
(* Theorems about BorrowRequests, for every value of its constants.        *)
(***************************************************************************)
EXTENDS BorrowRequests, TLAPS

\* What a call in flight remembers is told by the statement it stands before.
LEMMA CallTypes ==
  ASSUME NEW c \in Calls
  PROVE  /\ c.at \in {"find", "insert"} => c.user \in Users /\ c.book \in Books
         /\ c.at \in {"accept", "reject", "return"} =>
              c.user \in Users /\ c.request \in Requests
         /\ c.at = "enqueue" => c.user \in Users /\ c.job \in Jobs
         /\ c.at = "edit" => c.user \in Users /\ c.book \in Books /\ c.to \in EditStatuses
         /\ c.at = "delete" => c.user \in Users /\ c.book \in Books
         /\ c.at = "idle" <=> c = Idle
<1> DEFINE A == [at : {"find", "insert"}, user : Users, book : Books]
           B == [at : {"accept", "reject", "return"}, user : Users, request : Requests]
           C == [at : {"enqueue"}, user : Users, job : Jobs]
           D == [at : {"edit"}, user : Users, book : Books, to : EditStatuses]
           E == [at : {"delete"}, user : Users, book : Books]
<1>1. \/ c = Idle \/ c \in A \/ c \in B \/ c \in C \/ c \in D \/ c \in E
  BY DEF Calls
<1>2. c = Idle => c.at = "idle"
  BY DEF Idle
<1>3. c \in A => c.at \in {"find", "insert"} /\ c.user \in Users /\ c.book \in Books
  OBVIOUS
<1>4. c \in B => c.at \in {"accept", "reject", "return"} /\ c.user \in Users /\ c.request \in Requests
  OBVIOUS
<1>5. c \in C => c.at = "enqueue" /\ c.user \in Users /\ c.job \in Jobs
  OBVIOUS
<1>6. c \in D => c.at = "edit" /\ c.user \in Users /\ c.book \in Books /\ c.to \in EditStatuses
  OBVIOUS
<1>7. c \in E => c.at = "delete" /\ c.user \in Users /\ c.book \in Books
  OBVIOUS
<1> HIDE DEF A, B, C, D, E
<1> QED BY <1>1, <1>2, <1>3, <1>4, <1>5, <1>6, <1>7

\* A write ends with a call that is about to add its job.
LEMMA EnqueueTyped ==
  ASSUME call \in [Slots -> Calls], NEW s \in Slots, call[s].user \in Users,
         NEW name \in JobNames, NEW r \in Requests, Enqueues(s, name, r)
  PROVE  call' \in [Slots -> Calls]
BY DEF Enqueues, Proceeds, Job, Jobs, Calls

\* One step keeps every column of every table within its enum.
LEMMA TypeStep == TypeOK /\ [Next]_vars => TypeOK'
<1> USE LendingAssumption DEF LendingAssumption
<1> SUFFICES ASSUME TypeOK, [Next]_vars PROVE TypeOK'
  OBVIOUS
<1> USE DEF TypeOK, BookStatus, RequestStatus, JobNames, sweepVars
<1>1. ASSUME NEW s \in Slots, BookStep(s) PROVE TypeOK'
  <2>1. CASE ListsBook(s)
    BY <2>1 DEF ListsBook
  <2>2. CASE EditReads(s)
    BY <2>2 DEF EditReads, Proceeds, Calls
  <2>3. CASE EditWrites(s)
    BY <2>3, CallTypes DEF EditWrites, Ends, Calls, Listed
  <2>4. CASE RemoveReads(s)
    BY <2>4 DEF RemoveReads, Proceeds, Calls
  <2>5. CASE RemoveDeletes(s)
    BY <2>5 DEF RemoveDeletes, AfterCascade, Ends, Calls
  <2> QED BY <1>1, <2>1, <2>2, <2>3, <2>4, <2>5 DEF BookStep
<1>2. ASSUME NEW s \in Slots, RequestStep(s) PROVE TypeOK'
  <2>1. CASE CreateReadsBook(s)
    BY <2>1 DEF CreateReadsBook, Proceeds, Calls
  <2>2. CASE CreateFindsPending(s)
    <3>1. [call[s] EXCEPT !.at = "insert"] \in Calls
      BY <2>2 DEF CreateFindsPending, Calls, Idle
    <3> QED BY <2>2, <3>1 DEF CreateFindsPending, Proceeds
  <2>3. CASE CreateInserts(s)
    BY <2>3, CallTypes, EnqueueTyped DEF CreateInserts
  <2>4. CASE AcceptReads(s)
    BY <2>4 DEF AcceptReads, DecisionReads, Proceeds, Calls
  <2>5. CASE AcceptCommits(s)
    BY <2>5, CallTypes, EnqueueTyped DEF AcceptCommits, AfterAccept, WithChat
  <2>6. CASE RejectReads(s)
    BY <2>6 DEF RejectReads, DecisionReads, Proceeds, Calls
  <2>7. CASE RejectCommits(s)
    BY <2>7, CallTypes, EnqueueTyped DEF RejectCommits
  <2>8. CASE ReturnReads(s)
    BY <2>8 DEF ReturnReads, Proceeds, Calls
  <2>9. CASE ReturnCommits(s)
    BY <2>9, CallTypes, EnqueueTyped DEF ReturnCommits, AfterReturn
  <2> QED
    BY <1>2, <2>1, <2>2, <2>3, <2>4, <2>5, <2>6, <2>7, <2>8, <2>9 DEF RequestStep
<1>3. ASSUME NEW s \in Slots, AddsJob(s) PROVE TypeOK'
  BY <1>3, CallTypes DEF AddsJob, Ends, Calls
<1>4. ASSUME NEW s \in Slots, Stops(s) PROVE TypeOK'
  BY <1>4 DEF Stops, Ends, Calls
<1>5. CASE SweepStep
  BY <1>5 DEF SweepStep, SweepReads, SweepMarks, SweepStops
<1>6. CASE UNCHANGED vars
  BY <1>6 DEF vars
<1> QED BY <1>1, <1>2, <1>3, <1>4, <1>5, <1>6 DEF Next

\* Every column of every table holds a value of its enum, whatever the
\* handlers and the sweep do.
THEOREM TypeCorrect == Spec => []TypeOK
<1>1. Init => TypeOK
  BY DEF Init, TypeOK, Calls
<1> QED BY <1>1, TypeStep, PTL DEF Spec

SlotStep(s) == BookStep(s) \/ RequestStep(s) \/ AddsJob(s) \/ Stops(s)

-----------------------------------------------------------------------------
\* What a return or the sweep has read as lent keeps its chat until its book,
\* and with it the request, is deleted.
LEMMA KeptStays ==
  ASSUME RowsInv, [Next]_vars, NEW r \in Requests, Kept(r)
  PROVE  Kept(r)'
<1> USE DEF RowsInv, TypeOK, Kept, RequestStatus
<1>1. ASSUME NEW s \in Slots, RemoveDeletes(s) PROVE Kept(r)'
  BY <1>1 DEF RemoveDeletes, AfterCascade, Live, NoOrphans
<1>2. CASE /\ chats \subseteq chats'
           /\ status[r] = "deleted" => status'[r] = "deleted"
  BY <1>2
<1>3. ASSUME NEW s \in Slots, BookStep(s), ~RemoveDeletes(s) PROVE Kept(r)'
  BY <1>2, <1>3 DEF BookStep, ListsBook, EditReads, EditWrites, RemoveReads
<1>4. ASSUME NEW s \in Slots, RequestStep(s) PROVE Kept(r)'
  BY <1>2, <1>4, CallTypes
  DEF RequestStep, CreateReadsBook, CreateFindsPending, CreateInserts, AcceptReads,
      AcceptCommits, AfterAccept, WithChat, RejectReads, RejectCommits, DecisionReads,
      ReturnReads, ReturnCommits, Live, Pending
<1>5. ASSUME NEW s \in Slots, AddsJob(s) \/ Stops(s) PROVE Kept(r)'
  BY <1>2, <1>5 DEF AddsJob, Stops
<1>6. CASE SweepStep
  BY <1>2, <1>6 DEF SweepStep, SweepReads, SweepMarks, SweepStops, Live
<1>7. CASE UNCHANGED vars
  BY <1>7 DEF vars
<1> QED BY <1>1, <1>3, <1>4, <1>5, <1>6, <1>7 DEF Next

\* RowsInv is inductive, however the calls overlap.
LEMMA RowsInvStep == RowsInv /\ [Next]_vars => RowsInv'
<1> SUFFICES ASSUME RowsInv, [Next]_vars PROVE RowsInv'
  OBVIOUS
<1> USE LendingAssumption DEF LendingAssumption
<1> USE DEF RowsInv
<1>1. TypeOK'
  BY TypeStep
<1>2. \A r \in Requests : Kept(r) => Kept(r)'
  BY KeptStays
<1>3. NoOrphans'
  <2> USE DEF NoOrphans, TypeOK, Live, Listed
  <2>1. ASSUME NEW s \in Slots, BookStep(s) PROVE NoOrphans'
    <3>1. CASE ListsBook(s)
      BY <3>1 DEF ListsBook, BookStatus
    <3>2. CASE EditWrites(s)
      BY <3>2, CallTypes DEF EditWrites
    <3>3. CASE RemoveDeletes(s)
      <4> DEFINE b == call[s].book
      <4>1. \A r \in Requests : Live(r)' => Live(r) /\ r.book # b
        BY <3>3 DEF RemoveDeletes, AfterCascade, RequestStatus
      <4>2. \A r \in chats' : r \in Requests /\ r \in chats /\ r.book # b
        BY <3>3 DEF RemoveDeletes
      <4>3. \A r \in Requests : r.book # b => status'[r] = status[r] /\ book'[r.book] = book[r.book]
        BY <3>3 DEF RemoveDeletes, AfterCascade
      <4> QED BY <4>1, <4>2, <4>3
    <3>4. CASE UNCHANGED <<book, status, chats>>
      BY <3>4
    <3> QED BY <2>1, <3>1, <3>2, <3>3, <3>4 DEF BookStep, EditReads, RemoveReads
  <2>2. ASSUME NEW s \in Slots, RequestStep(s) PROVE NoOrphans'
    <3>1. CASE CreateInserts(s)
      BY <2>2, <3>1 DEF CreateInserts, RequestStatus
    <3>2. CASE AcceptCommits(s)
      BY <3>2, CallTypes DEF AcceptCommits, AfterAccept, WithChat, Pending, RequestStatus, BookStatus
    <3>3. CASE RejectCommits(s)
      BY <3>3, CallTypes DEF RejectCommits, RequestStatus
    <3>4. CASE ReturnCommits(s)
      BY <3>4, CallTypes DEF ReturnCommits, AfterReturn, RequestStatus, BookStatus
    <3>5. CASE UNCHANGED <<book, status, chats>>
      BY <3>5
    <3> QED
      BY <2>2, <3>1, <3>2, <3>3, <3>4, <3>5
      DEF RequestStep, CreateReadsBook, CreateFindsPending, AcceptReads, RejectReads,
          DecisionReads, ReturnReads
  <2>3. ASSUME NEW s \in Slots, AddsJob(s) \/ Stops(s) PROVE NoOrphans'
    BY <2>3 DEF AddsJob, Stops
  <2>4. CASE SweepStep
    BY <2>4 DEF SweepStep, SweepReads, SweepMarks, SweepStops, RequestStatus, BookStatus
  <2>5. CASE UNCHANGED vars
    BY <2>5 DEF vars
  <2> QED BY <2>1, <2>2, <2>3, <2>4, <2>5 DEF Next
<1>4. ChatBacksLoan'
  <2> SUFFICES ASSUME NEW r \in Requests, status'[r] \in LentOnce PROVE r \in chats'
    BY DEF ChatBacksLoan
  <2> USE DEF LentOnce
  <2>1. Kept(r) => r \in chats'
    BY <1>2 DEF Kept
  <2>2. CASE status[r] \in LentOnce
    BY <2>1, <2>2 DEF ChatBacksLoan, Kept
  <2>3. ASSUME NEW s \in Slots, AcceptCommits(s), status[r] \notin LentOnce
        PROVE  r \in chats'
    BY <2>3, CallTypes DEF AcceptCommits, AfterAccept, WithChat, TypeOK
  <2>4. ASSUME NEW s \in Slots, ReturnCommits(s), status[r] \notin LentOnce
        PROVE  r \in chats'
    BY <2>1, <2>4, CallTypes DEF ReturnCommits, TypeOK
  <2>5. ASSUME SweepMarks, status[r] \notin LentOnce PROVE r \in chats'
    BY <2>1, <2>5 DEF SweepMarks, TypeOK
  <2>6. ASSUME NEW s \in Slots, SlotStep(s), ~AcceptCommits(s), ~ReturnCommits(s)
        PROVE  status[r] \in LentOnce
    BY <2>6, CallTypes
    DEF SlotStep, BookStep, RequestStep, AddsJob, Stops, ListsBook, EditReads, EditWrites,
        RemoveReads, RemoveDeletes, AfterCascade, CreateReadsBook, CreateFindsPending,
        CreateInserts, AcceptReads, RejectReads, RejectCommits, DecisionReads, ReturnReads,
        TypeOK
  <2> QED
    BY <2>2, <2>3, <2>4, <2>5, <2>6
    DEF Next, SlotStep, SweepStep, SweepReads, SweepStops, vars
<1>5. ASSUME NEW t \in Slots, call'[t].at = "return" PROVE Kept(call[t].request)'
  <2>1. CASE call'[t] = call[t]
    <3>1. call[t].request \in Requests /\ Kept(call[t].request)
      BY <1>5, <2>1, CallTypes DEF TypeOK
    <3> QED BY <1>2, <2>1, <3>1 DEF Kept
  <2>2. CASE ReturnReads(t)
    <3>1. PICK r \in Requests : status[r] = "ACCEPTED" /\ call'[t].request = r
      BY <2>2 DEF ReturnReads, Proceeds, CanReturn, TypeOK
    <3>2. Kept(r)'
      BY <1>2, <3>1 DEF ChatBacksLoan, LentOnce, Kept
    <3> QED BY <3>1, <3>2 DEF Kept
  <2>3. ASSUME NEW s \in Slots, SlotStep(s), s # t PROVE call'[t] = call[t]
    BY <2>3
    DEF SlotStep, BookStep, RequestStep, AddsJob, Stops, ListsBook, EditReads, EditWrites,
        RemoveReads, RemoveDeletes, CreateReadsBook, CreateFindsPending, CreateInserts,
        AcceptReads, AcceptCommits, RejectReads, RejectCommits, DecisionReads, ReturnReads,
        ReturnCommits, Ends, Proceeds, Enqueues, TypeOK
  <2>4. ASSUME SlotStep(t) PROVE ReturnReads(t) \/ call'[t] = call[t]
    BY <1>5, <2>4
    DEF SlotStep, BookStep, RequestStep, AddsJob, Stops, ListsBook, EditReads, EditWrites,
        RemoveReads, RemoveDeletes, CreateReadsBook, CreateFindsPending, CreateInserts,
        AcceptReads, AcceptCommits, RejectReads, RejectCommits, DecisionReads,
        ReturnCommits, Ends, Proceeds, Enqueues, Idle, Calls, TypeOK
  <2>5. call'[t] = call[t] \/ ReturnReads(t)
    BY <2>3, <2>4 DEF Next, SlotStep, SweepStep, SweepReads, SweepMarks, SweepStops, vars
  <2> QED BY <2>1, <2>2, <2>5
<1>6. ASSUME NEW r \in sweep' PROVE Kept(r)'
  <2>1. r \in Requests
    BY <1>1, <1>6 DEF TypeOK
  <2>2. r \in sweep \/ status[r] = "ACCEPTED"
    BY <1>6
    DEF Next, vars, sweepVars, BookStep, RequestStep, SweepStep, AddsJob, Stops, ListsBook,
        EditReads, EditWrites, RemoveReads, RemoveDeletes, CreateReadsBook,
        CreateFindsPending, CreateInserts, AcceptReads, AcceptCommits, RejectReads,
        RejectCommits, DecisionReads, ReturnReads, ReturnCommits, SweepReads, SweepMarks,
        SweepStops
  <2>3. Kept(r)
    BY <2>1, <2>2 DEF ChatBacksLoan, LentOnce, Kept
  <2> QED BY <1>2, <2>1, <2>3 DEF Kept
<1> QED BY <1>1, <1>3, <1>4, <1>5, <1>6

LEMMA RowsInvHolds == Spec => []RowsInv
<1>1. Init => RowsInv
  BY DEF Init, RowsInv, TypeOK, NoOrphans, ChatBacksLoan, Calls, Idle, Live, RequestStatus,
         LentOnce
<1> QED BY <1>1, RowsInvStep, PTL DEF Spec

\* However calls overlap with each other and with the sweep, deleting a book
\* leaves no request or chat of it behind.
THEOREM NothingIsOrphaned == Spec => []NoOrphans
<1>1. RowsInv => NoOrphans
  BY DEF RowsInv
<1> QED BY <1>1, RowsInvHolds, PTL

\* Whoever has borrowed a book has the chat with its owner, also when the loan
\* is decided, returned and marked by several calls at once.
THEOREM LoansHaveChats == Spec => []ChatBacksLoan
<1>1. RowsInv => ChatBacksLoan
  BY DEF RowsInv
<1> QED BY <1>1, RowsInvHolds, PTL

-----------------------------------------------------------------------------
\* The moves a request's status makes, given that calls still apply.
Moves(r) ==
  \/ status'[r] = status[r]
  \/ status[r] = "none" /\ status'[r] = "PENDING"
  \/ status[r] = "PENDING" /\ status'[r] \in {"ACCEPTED", "REJECTED"}
  \/ status[r] \in LentOnce /\ status'[r] = "RETURNED"
  \/ status[r] = "ACCEPTED" /\ status'[r] = "OVERDUE"
  \/ status[r] = "RETURNED" /\ status'[r] = "OVERDUE" /\ r \in overtaken
  \/ status[r] \in RequestStatus /\ status'[r] = "deleted"

\* Every step moves every request along these lines: the write of a call moves
\* the row its check read, and updateMany moves only pending rows.
LEMMA EveryMove ==
  ASSUME LifeInv, [Next]_vars, NEW r \in Requests
  PROVE  Moves(r)
<1> USE DEF LifeInv, TypeOK, Moves, LentOnce, RequestStatus
<1>1. ASSUME NEW s \in Slots, BookStep(s) PROVE Moves(r)
  BY <1>1 DEF BookStep, ListsBook, EditReads, EditWrites, RemoveReads, RemoveDeletes,
              AfterCascade, Live
<1>2. ASSUME NEW s \in Slots, RequestStep(s) PROVE Moves(r)
  <2> USE CallTypes DEF CallStillApplies
  <2>1. CASE CreateInserts(s)
    BY <2>1 DEF CreateInserts
  <2>2. CASE AcceptCommits(s)
    BY <2>2 DEF AcceptCommits, AfterAccept, Live, Pending
  <2>3. CASE RejectCommits(s)
    BY <2>3 DEF RejectCommits, Live
  <2>4. CASE ReturnCommits(s)
    BY <2>4 DEF ReturnCommits, Live
  <2>5. CASE UNCHANGED status
    BY <2>5
  <2> QED
    BY <1>2, <2>1, <2>2, <2>3, <2>4, <2>5
    DEF RequestStep, CreateReadsBook, CreateFindsPending, AcceptReads, RejectReads,
        DecisionReads, ReturnReads
<1>3. ASSUME NEW s \in Slots, AddsJob(s) \/ Stops(s) PROVE Moves(r)
  BY <1>3 DEF AddsJob, Stops
<1>4. CASE SweepStep
  BY <1>4 DEF SweepStep, SweepReads, SweepMarks, SweepStops, SweptWereLent, Live
<1>5. CASE UNCHANGED vars
  BY <1>5 DEF vars
<1> QED BY <1>1, <1>2, <1>3, <1>4, <1>5 DEF Next

\* A loan once noted as returned under the sweep stays noted.
LEMMA OvertakenGrows == [Next]_vars => overtaken \subseteq overtaken'
BY DEF Next, vars, sweepVars, BookStep, RequestStep, SweepStep, AddsJob, Stops, ListsBook,
       EditReads, EditWrites, RemoveReads, RemoveDeletes, CreateReadsBook,
       CreateFindsPending, CreateInserts, AcceptReads, AcceptCommits, RejectReads,
       RejectCommits, DecisionReads, ReturnReads, ReturnCommits, SweepReads, SweepMarks,
       SweepStops

\* What a job says of its request stays true along these moves.
LEMMA AgreementLasts ==
  ASSUME TypeOK, NEW j \in Jobs, Agrees(j), Moves(j.request), overtaken \subseteq overtaken'
  PROVE  Agrees(j)'
BY DEF TypeOK, Jobs, Agrees, Moves, LentOnce, RequestStatus

\* A step of one slot leaves true what the call in another slot has read: it
\* does not decide that call's request, whose owner has no second call.
LEMMA BystanderStillApplies ==
  ASSUME OneCallPerOwner, LifeInv, [Next]_vars,
         NEW s \in Slots, SlotStep(s), NEW t \in Slots, s # t
  PROVE  CallStillApplies(t)'
<1> DEFINE c == call[t]
<1> USE LendingAssumption DEF LendingAssumption, LifeInv, TypeOK
<1>1. call'[t] = c
  BY DEF SlotStep, BookStep, RequestStep, AddsJob, Stops, ListsBook, EditReads, EditWrites,
         RemoveReads, RemoveDeletes, CreateReadsBook, CreateFindsPending, CreateInserts,
         AcceptReads, AcceptCommits, RejectReads, RejectCommits, DecisionReads,
         ReturnReads, ReturnCommits, Ends, Proceeds, Enqueues
<1>2. ASSUME NEW b \in Books, call[s] # Idle, c # Idle, Owner[b] = call[s].user
      PROVE  Owner[b] # c.user
  BY <1>2 DEF OneCallPerOwner, CallStillApplies
<1>3. \A r \in Requests : Moves(r)
  BY EveryMove
<1>5. c.at \in {"accept", "reject"} => status'[c.request] \in {"PENDING", "deleted"}
  <2> SUFFICES ASSUME c.at \in {"accept", "reject"}
               PROVE  status'[c.request] \in {"PENDING", "deleted"}
    OBVIOUS
  <2> DEFINE r == c.request
  <2>1. r \in Requests /\ c # Idle /\ Owner[r.book] = c.user /\ status[r] \in {"PENDING", "deleted"}
    BY CallTypes DEF CallStillApplies, Idle
  <2>2. CASE AcceptCommits(s)
    <3> DEFINE q == call[s].request
    <3>1. q \in Requests /\ call[s] # Idle /\ Owner[q.book] = call[s].user
      BY <2>2, CallTypes DEF AcceptCommits, CallStillApplies, Idle
    <3>2. q.book # r.book
      BY <1>2, <2>1, <3>1
    <3> QED BY <2>1, <2>2, <3>1, <3>2 DEF AcceptCommits, AfterAccept
  <2>3. CASE RejectCommits(s)
    <3> DEFINE q == call[s].request
    <3>1. q \in Requests /\ call[s] # Idle /\ Owner[q.book] = call[s].user
      BY <2>3, CallTypes DEF RejectCommits, CallStillApplies, Idle
    <3>2. q # r
      BY <1>2, <2>1, <3>1
    <3> QED BY <2>1, <2>3, <3>1, <3>2 DEF RejectCommits
  <2>4. CASE ReturnCommits(s)
    BY <2>1, <2>4, CallTypes DEF ReturnCommits, CallStillApplies, LentOnce, Live, RequestStatus
  <2>5. CASE RemoveDeletes(s)
    BY <2>1, <2>5 DEF RemoveDeletes, AfterCascade, Live, RequestStatus
  <2>6. CASE CreateInserts(s)
    BY <2>1, <2>6 DEF CreateInserts
  <2>7. CASE UNCHANGED status
    BY <2>1, <2>7
  <2> QED
    BY <2>2, <2>3, <2>4, <2>5, <2>6, <2>7
    DEF SlotStep, BookStep, RequestStep, AddsJob, Stops, ListsBook, EditReads, EditWrites,
        RemoveReads, CreateReadsBook, CreateFindsPending, AcceptReads, RejectReads,
        DecisionReads, ReturnReads
<1>6. c.at = "return" => status'[c.request] \in LentOnce \cup {"deleted"}
  BY <1>3, CallTypes DEF CallStillApplies, Moves, LentOnce
<1>7. c.at = "enqueue" => Agrees(c.job)'
  <2> SUFFICES ASSUME c.at = "enqueue" PROVE Agrees(c.job)'
    OBVIOUS
  <2>1. c.job \in Jobs /\ Agrees(c.job)
    BY CallTypes DEF CallStillApplies
  <2>2. Moves(c.job.request)
    BY <1>3, <2>1 DEF Jobs
  <2>3. \A j \in Jobs : Agrees(j) /\ Moves(j.request) => Agrees(j)'
    BY AgreementLasts, OvertakenGrows
  <2> QED BY <1>1, <2>1, <2>2, <2>3
<1>8. c # Idle => c.user \in Caller[t]
  BY DEF CallStillApplies
<1>9. c.at \in {"accept", "reject"} => Owner[c.request.book] = c.user
  BY DEF CallStillApplies
<1> QED BY <1>1, <1>5, <1>6, <1>7, <1>8, <1>9 DEF CallStillApplies, Agrees

\* After its own step, a call's check has just been made or its write just done.
LEMMA CallerStillApplies ==
  ASSUME LifeInv, [Next]_vars, NEW s \in Slots, SlotStep(s)
  PROVE  CallStillApplies(s)'
<1> USE LendingAssumption DEF LendingAssumption, LifeInv, TypeOK
<1> USE DEF CallStillApplies, Idle
<1>1. CASE BookStep(s)
  BY <1>1 DEF BookStep, ListsBook, EditReads, EditWrites, RemoveReads, RemoveDeletes,
              Proceeds, Ends
<1>2. CASE RequestStep(s)
  <2>1. CASE CreateReadsBook(s)
    BY <2>1 DEF CreateReadsBook, Proceeds
  <2>2. CASE CreateFindsPending(s)
    BY <2>2, CallTypes DEF CreateFindsPending, Proceeds, Calls
  <2>3. CASE CreateInserts(s)
    BY <2>3, CallTypes DEF CreateInserts, Enqueues, Proceeds, Job, Agrees, LentOnce
  <2>4. CASE AcceptReads(s) \/ RejectReads(s)
    BY <2>4 DEF AcceptReads, RejectReads, DecisionReads, Proceeds, CanDecide, Pending
  <2>5. CASE AcceptCommits(s)
    BY <2>5, CallTypes
    DEF AcceptCommits, AfterAccept, Enqueues, Proceeds, Job, Agrees, LentOnce
  <2>6. CASE RejectCommits(s)
    BY <2>6, CallTypes DEF RejectCommits, Enqueues, Proceeds, Job, Agrees
  <2>7. CASE ReturnReads(s)
    BY <2>7 DEF ReturnReads, Proceeds, CanReturn, LentOnce
  <2>8. CASE ReturnCommits(s)
    BY <2>8, CallTypes DEF ReturnCommits, Enqueues, Proceeds, Job, Agrees
  <2> QED BY <1>2, <2>1, <2>2, <2>3, <2>4, <2>5, <2>6, <2>7, <2>8 DEF RequestStep
<1>3. CASE AddsJob(s) \/ Stops(s)
  BY <1>3 DEF AddsJob, Stops, Ends
<1> QED BY <1>1, <1>2, <1>3 DEF SlotStep

\* A loan that is returned while the sweep holds it is noted.
LEMMA ReturnsAreNoted ==
  ASSUME TypeOK, [Next]_vars, NEW r \in sweep, status'[r] = "RETURNED", status[r] # "RETURNED"
  PROVE  r \in overtaken'
<1> USE DEF TypeOK
<1>1. ASSUME NEW s \in Slots, ReturnCommits(s) PROVE r \in overtaken'
  BY <1>1, CallTypes DEF ReturnCommits
<1>2. ASSUME NEW s \in Slots, SlotStep(s), ~ReturnCommits(s) PROVE status'[r] # "RETURNED"
  BY <1>2, CallTypes
  DEF SlotStep, BookStep, RequestStep, AddsJob, Stops, ListsBook, EditReads, EditWrites,
      RemoveReads, RemoveDeletes, AfterCascade, CreateReadsBook, CreateFindsPending,
      CreateInserts, AcceptReads, AcceptCommits, AfterAccept, RejectReads, RejectCommits,
      DecisionReads, ReturnReads
<1>3. SweepStep \/ UNCHANGED vars => status'[r] # "RETURNED"
  BY DEF SweepStep, SweepReads, SweepMarks, SweepStops, vars
<1> QED BY <1>1, <1>2, <1>3 DEF Next, SlotStep

\* LifeInv is inductive as long as no owner has two calls in flight.
LEMMA LifeInvStep ==
  ASSUME OneCallPerOwner, LifeInv, [Next]_vars
  PROVE  LifeInv'
<1> USE LendingAssumption DEF LendingAssumption
<1> USE DEF LifeInv
<1>1. TypeOK'
  BY TypeStep
<1>2. \A r \in Requests : Moves(r)
  BY EveryMove
<1>3. JobsAgreeWithRows'
  <2>1. ASSUME NEW j \in jobs' PROVE j \in Jobs /\ Agrees(j)
    BY <2>1, CallTypes
    DEF Next, vars, BookStep, RequestStep, SweepStep, AddsJob, Stops, ListsBook, EditReads,
        EditWrites, RemoveReads, RemoveDeletes, CreateReadsBook, CreateFindsPending,
        CreateInserts, AcceptReads, AcceptCommits, RejectReads, RejectCommits, DecisionReads,
        ReturnReads, ReturnCommits, SweepReads, SweepMarks, SweepStops,
        TypeOK, JobsAgreeWithRows, CallStillApplies
  <2>2. ASSUME NEW j \in jobs' PROVE Agrees(j)'
    <3>1. j \in Jobs /\ Agrees(j) /\ Moves(j.request)
      BY <1>2, <2>1, <2>2 DEF Jobs
    <3>2. \A k \in Jobs : Agrees(k) /\ Moves(k.request) => Agrees(k)'
      BY AgreementLasts, OvertakenGrows
    <3> QED BY <3>1, <3>2
  <2> QED BY <2>2 DEF JobsAgreeWithRows
<1>4. SweptWereLent'
  <2> SUFFICES ASSUME NEW r \in sweep'
               PROVE  /\ status'[r] \in LentOnce \cup {"deleted"}
                      /\ status'[r] = "RETURNED" => r \in overtaken'
    BY DEF SweptWereLent
  <2>1. r \in Requests
    BY <1>1 DEF TypeOK
  <2>2. \/ r \in sweep
        \/ status[r] = "ACCEPTED" /\ status' = status
    BY DEF Next, vars, sweepVars, BookStep, RequestStep, SweepStep, AddsJob, Stops, ListsBook,
           EditReads, EditWrites, RemoveReads, RemoveDeletes, CreateReadsBook,
           CreateFindsPending, CreateInserts, AcceptReads, AcceptCommits, RejectReads,
           RejectCommits, DecisionReads, ReturnReads, ReturnCommits, SweepReads, SweepMarks,
           SweepStops
  <2>3. CASE r \in sweep
    <3>1. status'[r] \in LentOnce \cup {"deleted"}
      BY <1>2, <2>1, <2>3 DEF SweptWereLent, Moves, LentOnce
    <3>2. status'[r] = "RETURNED" => r \in overtaken'
      BY <2>3, ReturnsAreNoted, OvertakenGrows DEF SweptWereLent
    <3> QED BY <3>1, <3>2
  <2> QED BY <2>2, <2>3 DEF LentOnce
<1>5. ASSUME NEW t \in Slots PROVE CallStillApplies(t)'
  <2>1. ASSUME NEW s \in Slots, SlotStep(s) PROVE CallStillApplies(t)'
    BY <2>1, BystanderStillApplies, CallerStillApplies
  <2>2. CASE UNCHANGED <<call, jobs, chats>> /\ (SweepStep \/ UNCHANGED vars)
    <3> DEFINE c == call[t]
    <3>1. c.at \in {"accept", "reject"} => status'[c.request] \in {"PENDING", "deleted"}
      BY <2>2, CallTypes
      DEF SweepStep, SweepReads, SweepMarks, SweepStops, vars, CallStillApplies, SweptWereLent,
          Live, RequestStatus, LentOnce, TypeOK
    <3>2. c.at = "return" => status'[c.request] \in LentOnce \cup {"deleted"}
      BY <1>2, CallTypes DEF CallStillApplies, Moves, LentOnce, TypeOK
    <3>3. c.at = "enqueue" => Agrees(c.job)'
      <4> SUFFICES ASSUME c.at = "enqueue" PROVE Agrees(c.job)'
        OBVIOUS
      <4>1. c.job \in Jobs /\ Agrees(c.job)
        BY CallTypes DEF CallStillApplies, TypeOK
      <4>2. Moves(c.job.request)
        BY <1>2, <4>1 DEF Jobs
      <4>3. \A j \in Jobs : Agrees(j) /\ Moves(j.request) => Agrees(j)'
        BY AgreementLasts, OvertakenGrows
      <4> QED BY <2>2, <4>1, <4>2, <4>3
    <3> QED BY <2>2, <3>1, <3>2, <3>3 DEF CallStillApplies
  <2> QED
    BY <2>1, <2>2
    DEF Next, vars, SlotStep, SweepStep, SweepReads, SweepMarks, SweepStops
<1> QED BY <1>1, <1>3, <1>4, <1>5

LEMMA LifeInvHolds == ASSUME OneCallPerOwner PROVE Spec => []LifeInv
<1>1. Init => LifeInv
  BY DEF Init, LifeInv, TypeOK, JobsAgreeWithRows, SweptWereLent, CallStillApplies, Calls, Idle
<1>2. LifeInv /\ [Next]_vars => LifeInv'
  BY LifeInvStep
<1> QED BY <1>1, <1>2, PTL DEF Spec

\* With one call per owner, what is queued stays true of its request, whenever
\* it is carried out; the one exception is a loan that was returned while the
\* sweep held it and that the sweep then marked OVERDUE.
THEOREM QueuedStaysTrue == ASSUME OneCallPerOwner PROVE Spec => []JobsAgreeWithRows
<1>1. LifeInv => JobsAgreeWithRows
  BY DEF LifeInv
<1> QED BY <1>1, LifeInvHolds, PTL

\* With one call per owner, a decision on a request is final.
THEOREM DecisionsAreFinal == ASSUME OneCallPerOwner PROVE Spec => DecisionIsFinal
<1>1. LifeInv /\ [Next]_vars =>
        [\A r \in Requests :
           /\ status[r] = "REJECTED" => status'[r] \in {"REJECTED", "deleted"}
           /\ status[r] = "ACCEPTED" => status'[r] \in LentOnce \cup {"deleted"}
           /\ status[r] \in {"RETURNED", "OVERDUE"} =>
                status'[r] \in {"RETURNED", "OVERDUE", "deleted"}
           /\ status[r] = "RETURNED" /\ status'[r] = "OVERDUE" => r \in overtaken]_vars
  BY EveryMove DEF Moves, LentOnce
<1> QED BY <1>1, LifeInvHolds, PTL DEF Spec, DecisionIsFinal

\* With one call per owner, and no owner setting BORROWED by hand, a book that
\* reads BORROWED always has a loan that can be returned.
THEOREM BorrowedBooksComeBack ==
  ASSUME OneCallPerOwner, "BORROWED" \notin EditStatuses
  PROVE  Spec => []NoStuckBook
<1>1. Init => NoStuckBook
  BY DEF Init, NoStuckBook
<1>2. LifeInv /\ NoStuckBook /\ [Next]_vars => NoStuckBook'
  <2> SUFFICES ASSUME LifeInv, NoStuckBook, [Next]_vars,
                      NEW b \in Books, book'[b] = "BORROWED"
               PROVE  \E r \in Requests : r.book = b /\ status'[r] = "ACCEPTED"
    BY DEF NoStuckBook
  <2> USE LendingAssumption DEF LendingAssumption, LifeInv, TypeOK
  <2>1. ASSUME NEW s \in Slots, AcceptCommits(s), call[s].request.book = b
        PROVE  \E r \in Requests : r.book = b /\ status'[r] = "ACCEPTED"
    BY <2>1, CallTypes DEF AcceptCommits, AfterAccept
  <2>2. CASE /\ book[b] = "BORROWED"
             /\ \A r \in Requests :
                  r.book = b /\ status[r] = "ACCEPTED" => status'[r] = "ACCEPTED"
    BY <2>2 DEF NoStuckBook
  <2>3. ASSUME NEW s \in Slots, BookStep(s)
        PROVE  /\ book[b] = "BORROWED"
               /\ \A r \in Requests :
                    r.book = b /\ status[r] = "ACCEPTED" => status'[r] = "ACCEPTED"
    BY <2>3, CallTypes
    DEF BookStep, ListsBook, EditReads, EditWrites, RemoveReads, RemoveDeletes, AfterCascade
  <2>4. ASSUME NEW s \in Slots, RequestStep(s),
               ~(AcceptCommits(s) /\ call[s].request.book = b)
        PROVE  /\ book[b] = "BORROWED"
               /\ \A r \in Requests :
                    r.book = b /\ status[r] = "ACCEPTED" => status'[r] = "ACCEPTED"
    <3>1. CASE AcceptCommits(s)
      BY <2>4, <3>1, CallTypes DEF AcceptCommits, AfterAccept, Pending
    <3>2. CASE RejectCommits(s)
      BY <3>2, CallTypes DEF RejectCommits, CallStillApplies
    <3>3. CASE ReturnCommits(s)
      BY <3>3, CallTypes DEF ReturnCommits, AfterReturn
    <3>4. CASE CreateInserts(s)
      BY <3>4 DEF CreateInserts
    <3>5. CASE UNCHANGED <<book, status>>
      BY <3>5
    <3> QED
      BY <2>4, <3>1, <3>2, <3>3, <3>4, <3>5
      DEF RequestStep, CreateReadsBook, CreateFindsPending, AcceptReads, RejectReads,
          DecisionReads, ReturnReads
  <2>5. CASE SweepStep
    BY <2>2, <2>5 DEF SweepStep, SweepReads, SweepMarks, SweepStops
  <2>6. CASE UNCHANGED <<book, status>>
    BY <2>2, <2>6
  <2> QED
    BY <2>1, <2>2, <2>3, <2>4, <2>5, <2>6 DEF Next, AddsJob, Stops, vars
<1> QED BY <1>1, <1>2, LifeInvHolds, PTL DEF Spec

-----------------------------------------------------------------------------
\* A return, or the sweep, that finds the status already changed under it only
\* moves the request between RETURNED and OVERDUE: to each request the
\* interleaved handlers do what RequestLife does in one step.
THEOREM ImplementsLife == ASSUME OneCallPerOwner PROVE Spec => ImplementsRequestLife
<1>1. Init => Life!Init
  BY DEF Init, Life!Init
<1>2. LifeInv /\ [Next]_vars => [Life!Next]_<<status, chats>>
  <2> SUFFICES ASSUME LifeInv, [Next]_vars
               PROVE  Life!Next \/ UNCHANGED <<status, chats>>
    OBVIOUS
  <2> USE DEF LifeInv, TypeOK
  <2>1. ASSUME NEW s \in Slots, RemoveDeletes(s)
        PROVE  Life!Next \/ UNCHANGED <<status, chats>>
    <3> DEFINE b == call[s].book
    <3>1. CASE \E r \in Requests : r.book = b
      <4>1. status' = [r \in Requests |->
              IF r.book = b /\ status[r] # "none" THEN "deleted" ELSE status[r]]
        BY <2>1 DEF RemoveDeletes, AfterCascade, Live, RequestStatus
      <4> QED BY <2>1, <3>1, <4>1 DEF RemoveDeletes, Life!Next, Life!Drop
    <3>2. CASE ~\E r \in Requests : r.book = b
      <4>1. status' = status
        BY <2>1, <3>2 DEF RemoveDeletes, AfterCascade
      <4>2. chats' = chats
        BY <2>1, <3>2 DEF RemoveDeletes
      <4> QED BY <4>1, <4>2
    <3> QED BY <3>1, <3>2
  <2>2. ASSUME NEW s \in Slots, CreateInserts(s) PROVE Life!Next
    <3>1. PICK r \in Requests :
            /\ r.book = call[s].book /\ r.requester = call[s].user /\ status[r] = "none"
            /\ status' = [status EXCEPT ![r] = "PENDING"]
      BY <2>2 DEF CreateInserts
    <3>2. UNCHANGED chats
      BY <2>2 DEF CreateInserts
    <3> QED BY <3>1, <3>2 DEF Life!Next, Life!Open, Life!SetStatus
  <2>3. ASSUME NEW s \in Slots, AcceptCommits(s) PROVE Life!Next
    BY <2>3, CallTypes
    DEF AcceptCommits, AfterAccept, WithChat, CallStillApplies, Live, Pending, RequestStatus,
        Life!Next, Life!Accept
  <2>4. ASSUME NEW s \in Slots, RejectCommits(s) PROVE Life!Next
    BY <2>4, CallTypes
    DEF RejectCommits, CallStillApplies, Live, RequestStatus, Life!Next, Life!Reject, Life!SetStatus
  <2>5. ASSUME NEW s \in Slots, ReturnCommits(s)
        PROVE  Life!Next \/ UNCHANGED <<status, chats>>
    <3> DEFINE r == call[s].request
    <3>1. /\ r \in Requests /\ status[r] \in LentOnce
          /\ status' = [status EXCEPT ![r] = "RETURNED"] /\ UNCHANGED chats
      BY <2>5, CallTypes DEF ReturnCommits, CallStillApplies, Live, RequestStatus
    <3>2. CASE status[r] = "RETURNED"
      BY <3>1, <3>2
    <3>3. CASE status[r] # "RETURNED"
      BY <3>1, <3>3 DEF LentOnce, Life!Next, Life!Return, Life!SetStatus
    <3> QED BY <3>2, <3>3
  <2>6. ASSUME SweepMarks PROVE Life!Next \/ UNCHANGED <<status, chats>>
    <3>1. PICK r \in sweep : /\ Live(r) /\ status' = [status EXCEPT ![r] = "OVERDUE"]
                             /\ UNCHANGED chats
      BY <2>6 DEF SweepMarks
    <3>2. r \in Requests /\ status[r] \in LentOnce
      BY <3>1 DEF SweptWereLent, Live, RequestStatus
    <3>3. CASE status[r] = "OVERDUE"
      BY <3>1, <3>2, <3>3
    <3>4. CASE status[r] # "OVERDUE"
      BY <3>1, <3>2, <3>4 DEF LentOnce, Life!Next, Life!FallOverdue, Life!SetStatus
    <3> QED BY <3>3, <3>4
  <2>7. CASE UNCHANGED <<status, chats>>
    BY <2>7
  <2> QED
    BY <2>1, <2>2, <2>3, <2>4, <2>5, <2>6, <2>7
    DEF Next, vars, BookStep, RequestStep, SweepStep, AddsJob, Stops, ListsBook, EditReads,
        EditWrites, RemoveReads, CreateReadsBook, CreateFindsPending, AcceptReads, RejectReads,
        DecisionReads, ReturnReads, SweepReads, SweepStops
<1> QED BY <1>1, <1>2, LifeInvHolds, PTL DEF Spec, ImplementsRequestLife, Life!Spec

-----------------------------------------------------------------------------
(* Without overlapping calls the endpoints are atomic: BorrowRequests      *)
(* implements LendingLedger, and inherits what is proved of it.            *)
\* The three facts of the ledger: no one of them is inductive alone, together
\* they are.
LedgerInv ==
  /\ book \in [Books -> {"unlisted", "AVAILABLE", "BORROWED", "deleted"}]
  /\ DOMAIN status = Requests /\ status = [r \in Requests |-> status[r]]
  /\ Ledger!AtMostOneLoan /\ Ledger!BorrowedIffLent /\ Ledger!NobodyWaitsForALentBook

\* In the ledger a book is lent to one person at most, reads BORROWED exactly
\* while it is, and has no pending request then.
THEOREM LedgerIsSound ==
  Ledger!Spec =>
    [](Ledger!AtMostOneLoan /\ Ledger!BorrowedIffLent /\ Ledger!NobodyWaitsForALentBook)
<1> USE LendingAssumption
    DEF LendingAssumption, Ledger!AtMostOneLoan, Ledger!BorrowedIffLent,
        Ledger!NobodyWaitsForALentBook, Ledger!Lent, Ledger!Pending
<1>1. Ledger!Init => LedgerInv
  BY DEF Ledger!Init, LedgerInv
<1>2. LedgerInv /\ [Ledger!Next]_(Ledger!ledger) => LedgerInv'
  <2> SUFFICES ASSUME LedgerInv, [Ledger!Next]_(Ledger!ledger) PROVE LedgerInv'
    OBVIOUS
  <2> USE DEF LedgerInv
  <2>1. ASSUME NEW b \in Books, Ledger!ListBook(b) PROVE LedgerInv'
    BY <2>1 DEF Ledger!ListBook
  <2>2. ASSUME NEW b \in Books, Ledger!RemoveBook(b) PROVE LedgerInv'
    BY <2>2 DEF Ledger!RemoveBook
  <2>3. ASSUME NEW r \in Requests, Ledger!Create(r) PROVE LedgerInv'
    BY <2>3 DEF Ledger!Create
  <2>4. ASSUME NEW r \in Requests, Ledger!Accept(r) PROVE LedgerInv'
    BY <2>4 DEF Ledger!Accept
  <2>5. ASSUME NEW r \in Requests, Ledger!Reject(r) PROVE LedgerInv'
    BY <2>5 DEF Ledger!Reject
  <2>6. ASSUME NEW r \in Requests, Ledger!Return(r) PROVE LedgerInv'
    BY <2>6 DEF Ledger!Return
  <2>7. CASE UNCHANGED Ledger!ledger
    BY <2>7 DEF Ledger!ledger
  <2> QED BY <2>1, <2>2, <2>3, <2>4, <2>5, <2>6, <2>7 DEF Ledger!Next
<1>3. LedgerInv =>
        Ledger!AtMostOneLoan /\ Ledger!BorrowedIffLent /\ Ledger!NobodyWaitsForALentBook
  BY DEF LedgerInv
<1> QED BY <1>1, <1>2, <1>3, PTL DEF Ledger!Spec

LEMMA SerialInvStep ==
  ASSUME NothingOverlaps, SerialInv, [Next]_vars
  PROVE  SerialInv'
<1> USE LendingAssumption DEF LendingAssumption, NothingOverlaps, SerialInv, sweepVars
<1>1. TypeOK'
  BY TypeStep
<1>2. ASSUME NEW s \in Slots, BookStep(s) PROVE SerialInv'
  <2> USE DEF TypeOK, Calls
  <2>1. CASE ListsBook(s)
    BY <1>1, <2>1 DEF ListsBook, CallIsCurrent, Idle
  <2>2. CASE RemoveReads(s)
    BY <1>1, <2>2 DEF RemoveReads, Proceeds, CallIsCurrent, Listed
  <2>3. CASE RemoveDeletes(s)
    BY <1>1, <2>3 DEF RemoveDeletes, Ends, CallIsCurrent, Idle
  <2>4. ~EditReads(s) /\ ~EditWrites(s)
    BY CallTypes DEF EditReads, EditWrites
  <2> QED BY <1>2, <2>1, <2>2, <2>3, <2>4 DEF BookStep
<1>3. ASSUME NEW s \in Slots, RequestStep(s) PROVE SerialInv'
  <2> USE DEF TypeOK
  <2>1. CASE CreateReadsBook(s)
    BY <1>1, <2>1 DEF CreateReadsBook, Proceeds, CallIsCurrent, CanAsk, Listed
  <2>2. CASE CreateFindsPending(s)
    BY <1>1, <2>2, CallTypes
    DEF CreateFindsPending, Proceeds, CallIsCurrent, CanAsk, Listed, HasPending, Pending, Calls
  <2>3. CASE CreateInserts(s)
    BY <1>1, <2>3 DEF CreateInserts, Enqueues, Proceeds, CallIsCurrent
  <2>4. CASE AcceptReads(s) \/ RejectReads(s)
    BY <1>1, <2>4
    DEF AcceptReads, RejectReads, DecisionReads, Proceeds, CallIsCurrent, CanDecide, Pending
  <2>5. CASE AcceptCommits(s)
    BY <1>1, <2>5, CallTypes DEF AcceptCommits, Enqueues, Proceeds, CallIsCurrent
  <2>6. CASE RejectCommits(s)
    BY <1>1, <2>6 DEF RejectCommits, Enqueues, Proceeds, CallIsCurrent
  <2>7. CASE ReturnReads(s)
    BY <1>1, <2>7 DEF ReturnReads, Proceeds, CallIsCurrent, CanReturn
  <2>8. CASE ReturnCommits(s)
    BY <1>1, <2>8, CallTypes DEF ReturnCommits, AfterReturn, Enqueues, Proceeds, CallIsCurrent
  <2> QED BY <1>3, <2>1, <2>2, <2>3, <2>4, <2>5, <2>6, <2>7, <2>8 DEF RequestStep
<1>4. ASSUME NEW s \in Slots, AddsJob(s) \/ Stops(s) PROVE SerialInv'
  BY <1>1, <1>4 DEF AddsJob, Stops, Ends, CallIsCurrent, Idle, TypeOK
<1>5. ~SweepStep
  BY DEF SweepStep, SweepReads, SweepMarks, SweepStops
<1>6. CASE UNCHANGED vars
  BY <1>1, <1>6
  DEF vars, CallIsCurrent, CanAsk, Listed, HasPending, Pending
<1> QED BY <1>2, <1>3, <1>4, <1>5, <1>6 DEF Next

LEMMA SerialInvHolds == ASSUME NothingOverlaps PROVE Spec => []SerialInv
<1>1. Init => SerialInv
  BY DEF Init, SerialInv, TypeOK, CallIsCurrent, Calls, Idle
<1>2. SerialInv /\ [Next]_vars => SerialInv'
  BY SerialInvStep
<1> QED BY <1>1, <1>2, PTL DEF Spec

\* One call at a time, each endpoint reads, checks and writes as if in one step.
THEOREM SerialCallsAreAtomic == ASSUME NothingOverlaps PROVE Spec => ImplementsLedger
<1>1. Init => Ledger!Init
  BY DEF Init, Ledger!Init
<1>2. SerialInv /\ [Next]_vars => [Ledger!Next]_(Ledger!ledger)
  <2> SUFFICES ASSUME SerialInv, [Next]_vars
               PROVE  Ledger!Next \/ UNCHANGED <<book, status, chats>>
    BY DEF Ledger!ledger
  <2> USE LendingAssumption DEF LendingAssumption, SerialInv, TypeOK
  <2>1. ASSUME NEW s \in Slots, ListsBook(s) PROVE Ledger!Next
    BY <2>1 DEF ListsBook, Ledger!Next, Ledger!ListBook
  <2>2. ASSUME NEW s \in Slots, RemoveDeletes(s) PROVE Ledger!Next
    <3> DEFINE b == call[s].book
    <3>1. b \in Books /\ book[b] \in {"AVAILABLE", "BORROWED"}
      BY <2>2, CallTypes DEF RemoveDeletes, Listed, BookStatus
    <3>2. status' = [r \in Requests |->
            IF r.book = b /\ status[r] # "none" THEN "deleted" ELSE status[r]]
      BY <2>2 DEF RemoveDeletes, AfterCascade, Live, RequestStatus
    <3> QED BY <2>2, <3>1, <3>2 DEF RemoveDeletes, Ledger!Next, Ledger!RemoveBook
  <2>3. ASSUME NEW s \in Slots, CreateInserts(s) PROVE Ledger!Next
    <3>1. PICK r \in Requests :
            /\ r.book = call[s].book /\ r.requester = call[s].user /\ status[r] = "none"
            /\ status' = [status EXCEPT ![r] = "PENDING"]
      BY <2>3 DEF CreateInserts
    <3>2. CanAsk(r.requester, r.book) /\ ~HasPending(r.requester, r.book)
      BY <2>3, <3>1 DEF CreateInserts, CallIsCurrent
    <3>3. book[r.book] = "AVAILABLE" /\ Owner[r.book] # r.requester
      BY <3>2 DEF CanAsk, Listed, BookStatus
    <3>4. \A q \in Requests :
            q.book = r.book /\ q.requester = r.requester => ~Ledger!Pending(q)
      BY <3>2 DEF HasPending, Pending, Ledger!Pending
    <3>5. UNCHANGED <<book, chats>>
      BY <2>3 DEF CreateInserts
    <3> QED BY <3>1, <3>3, <3>4, <3>5 DEF Ledger!Next, Ledger!Create
  <2>4. ASSUME NEW s \in Slots, AcceptCommits(s) PROVE Ledger!Next
    BY <2>4, CallTypes
    DEF AcceptCommits, AfterAccept, WithChat, CallIsCurrent, Pending,
        Ledger!Next, Ledger!Accept, Ledger!Pending
  <2>5. ASSUME NEW s \in Slots, RejectCommits(s) PROVE Ledger!Next
    BY <2>5, CallTypes
    DEF RejectCommits, CallIsCurrent, Pending, Ledger!Next, Ledger!Reject, Ledger!Pending
  <2>6. ASSUME NEW s \in Slots, ReturnCommits(s) PROVE Ledger!Next
    BY <2>6, CallTypes
    DEF ReturnCommits, AfterReturn, CallIsCurrent, Ledger!Next, Ledger!Return, Ledger!Lent
  <2>7. ~\E s \in Slots : EditWrites(s)
    BY CallTypes DEF EditWrites, NothingOverlaps
  <2>8. CASE UNCHANGED <<book, status, chats>>
    BY <2>8
  <2> QED
    BY <2>1, <2>2, <2>3, <2>4, <2>5, <2>6, <2>7, <2>8
    DEF Next, vars, BookStep, RequestStep, SweepStep, AddsJob, Stops, EditReads, RemoveReads,
        CreateReadsBook, CreateFindsPending, AcceptReads, RejectReads, DecisionReads,
        ReturnReads, SweepReads, SweepMarks, SweepStops
<1> QED BY <1>1, <1>2, SerialInvHolds, PTL DEF Spec, ImplementsLedger, Ledger!Spec

\* So no book is lent to two people at once, and a lent book reads BORROWED.
THEOREM SerialLendingIsSound ==
  ASSUME NothingOverlaps
  PROVE  Spec => [](AtMostOneLoan /\ LentBookIsBorrowed)
<1> DEFINE LF == Ledger!AtMostOneLoan /\ Ledger!BorrowedIffLent
<1>1. LF => AtMostOneLoan /\ LentBookIsBorrowed
  BY LendingAssumption
  DEF LendingAssumption, Ledger!AtMostOneLoan, Ledger!BorrowedIffLent, Ledger!Lent,
      AtMostOneLoan, LentBookIsBorrowed
<1>2. Ledger!Spec => [](LF /\ Ledger!NobodyWaitsForALentBook)
  BY LedgerIsSound
<1> HIDE DEF LF
<1> QED BY <1>1, <1>2, SerialCallsAreAtomic, PTL DEF ImplementsLedger

\* Hence create refuses whoever asks for a book that is lent.
THEOREM SerialLentReadsBorrowed == ASSUME NothingOverlaps PROVE Spec => []LentBookIsBorrowed
BY SerialLendingIsSound, PTL
=============================================================================
