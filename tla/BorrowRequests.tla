--------------------------- MODULE BorrowRequests ---------------------------
(***************************************************************************)
(* BorrowRequestsService and the writes of BooksService, as their calls    *)
(* interleave.  A call runs in a slot (one HTTP request being served); it  *)
(* first reads and checks, then writes, and every await in between lets    *)
(* the other slots and the nightly sweep run.  Each action is one database *)
(* statement, or one $transaction, together with the checks up to the next *)
(* await.  A call whose check fails throws and changes nothing.            *)
(***************************************************************************)
EXTENDS Naturals

CONSTANTS
  Users,          \* user ids
  Books,          \* book ids that may ever be listed
  Owner,          \* Owner[b]: the user who lists b (ownerId is never updated)
  Requests,       \* rows of borrow_requests that may ever be created
  Slots,          \* HTTP requests that can be served at the same time
  Caller,         \* Caller[s]: the users whose calls slot s may serve
  EditStatuses,   \* the statuses owners set by hand through PATCH /books/:id
  LoansFallDue    \* whether the 08:00 sweep may find loans past their due date

RequestStatus == {"PENDING", "ACCEPTED", "REJECTED", "RETURNED", "OVERDUE"}
BookStatus    == {"AVAILABLE", "BORROWED", "OVERDUE"}

ASSUME LendingAssumption ==
  /\ Owner \in [Books -> Users]
  \* a row is its immutable columns, and a number to tell rows apart
  /\ Requests \subseteq [book : Books, requester : Users, n : Nat]
  /\ Caller \in [Slots -> SUBSET Users]
  /\ EditStatuses \subseteq BookStatus
  /\ LoansFallDue \in BOOLEAN

JobNames == {"request.received", "request.accepted",
             "request.rejected", "request.returned"}
Jobs == [name : JobNames, request : Requests]
Job(name, r) == [name |-> name, request |-> r]

VARIABLES
  book,    \* book[b]: its status column, or "unlisted" / "deleted"
  status,  \* status[r]: its status column, or "none" / "deleted"
  chats,   \* requests that have their row in chats (user1 owner, user2 requester)
  call,    \* call[s]: what slot s is doing, named by its next statement
  jobs,    \* jobs ever added to the notifications queue
  sweep,   \* loans the running sweep has read as past due and not handled yet
  overtaken \* history: the loans that were returned while a sweep held them

sweepVars == <<sweep, overtaken>>
vars == <<book, status, chats, call, jobs, sweepVars>>

Idle == [at |-> "idle"]
Calls == {Idle}
  \cup [at : {"find", "insert"}, user : Users, book : Books]
  \cup [at : {"accept", "reject", "return"}, user : Users, request : Requests]
  \cup [at : {"enqueue"}, user : Users, job : Jobs]
  \cup [at : {"edit"}, user : Users, book : Books, to : EditStatuses]
  \cup [at : {"delete"}, user : Users, book : Books]

\* The statuses of a request that was accepted once.
LentOnce == {"ACCEPTED", "RETURNED", "OVERDUE"}

Listed(b)  == book[b] \in BookStatus
Live(r)    == status[r] \in RequestStatus
Pending(r) == status[r] = "PENDING"

Ends(s)         == call' = [call EXCEPT ![s] = Idle]
Proceeds(s, c)  == call' = [call EXCEPT ![s] = c]
Enqueues(s, name, r) ==
  Proceeds(s, [at |-> "enqueue", user |-> call[s].user, job |-> Job(name, r)])

Init ==
  /\ book = [b \in Books |-> "unlisted"]
  /\ status = [r \in Requests |-> "none"]
  /\ chats = {}
  /\ call = [s \in Slots |-> Idle]
  /\ jobs = {}
  /\ sweep = {}
  /\ overtaken = {}

-----------------------------------------------------------------------------
(* POST /books: a single insert.                                           *)
ListsBook(s) ==
  /\ call[s] = Idle
  /\ \E b \in Books :
       /\ Owner[b] \in Caller[s]
       /\ book[b] = "unlisted"
       /\ book' = [book EXCEPT ![b] = "AVAILABLE"]
  /\ UNCHANGED <<status, chats, call, jobs, sweepVars>>

(* PATCH /books/:id with a status; the other columns are not modelled.     *)
EditReads(s) ==
  /\ call[s] = Idle
  /\ \E b \in Books, to \in EditStatuses :
       /\ Owner[b] \in Caller[s]
       /\ Listed(b)
       /\ Proceeds(s, [at |-> "edit", user |-> Owner[b], book |-> b, to |-> to])
  /\ UNCHANGED <<book, status, chats, jobs, sweepVars>>

EditWrites(s) ==
  /\ call[s].at = "edit"
  /\ Listed(call[s].book)
  /\ book' = [book EXCEPT ![call[s].book] = call[s].to]
  /\ Ends(s)
  /\ UNCHANGED <<status, chats, jobs, sweepVars>>

(* DELETE /books/:id: the delete cascades to the requests and their chats. *)
RemoveReads(s) ==
  /\ call[s] = Idle
  /\ \E b \in Books :
       /\ Owner[b] \in Caller[s]
       /\ Listed(b)
       /\ Proceeds(s, [at |-> "delete", user |-> Owner[b], book |-> b])
  /\ UNCHANGED <<book, status, chats, jobs, sweepVars>>

AfterCascadeNoRequests(b) == status   \* no onDelete: Cascade
AfterCascade(b) ==
  [r \in Requests |-> IF r.book = b /\ Live(r) THEN "deleted" ELSE status[r]]

RemoveDeletes(s) ==
  LET b == call[s].book IN
  /\ call[s].at = "delete"
  /\ Listed(b)
  /\ book' = [book EXCEPT ![b] = "deleted"]
  /\ status' = AfterCascade(b)
  /\ chats' = {r \in chats : r.book # b}
  /\ Ends(s)
  /\ UNCHANGED <<jobs, sweepVars>>

-----------------------------------------------------------------------------
(* POST /borrow-requests: read the book, look for a pending request of the *)
(* same user, insert.  Only the status BORROWED is refused.                *)
CanAskBorrowed(u, b) == Listed(b) /\ Owner[b] # u
CanAsk(u, b) == Listed(b) /\ Owner[b] # u /\ book[b] # "BORROWED"

CreateReadsBook(s) ==
  /\ call[s] = Idle
  /\ \E u \in Caller[s], b \in Books :
       /\ CanAsk(u, b)
       /\ Proceeds(s, [at |-> "find", user |-> u, book |-> b])
  /\ UNCHANGED <<book, status, chats, jobs, sweepVars>>

HasPendingUnchecked(u, b) == FALSE
HasPending(u, b) == \E r \in Requests : r.book = b /\ r.requester = u /\ Pending(r)

CreateFindsPending(s) ==
  LET c == call[s] IN
  /\ c.at = "find"
  /\ ~HasPending(c.user, c.book)
  /\ Proceeds(s, [c EXCEPT !.at = "insert"])
  /\ UNCHANGED <<book, status, chats, jobs, sweepVars>>

CreateInserts(s) ==
  LET c == call[s] IN
  /\ c.at = "insert"
  /\ Listed(c.book)
  /\ \E r \in Requests :
       /\ r.book = c.book /\ r.requester = c.user
       /\ status[r] = "none"
       /\ status' = [status EXCEPT ![r] = "PENDING"]
       /\ Enqueues(s, "request.received", r)
  /\ UNCHANGED <<book, chats, jobs, sweepVars>>

-----------------------------------------------------------------------------
(* PATCH /borrow-requests/:id/accept and /reject: by the owner of the book, *)
(* of a request read as PENDING.  The writes do not check it again.        *)
CanDecideAny(u, r) == Live(r) /\ Owner[r.book] = u
CanDecide(u, r) == Live(r) /\ Owner[r.book] = u /\ Pending(r)

DecisionReads(s, verdict) ==
  /\ call[s] = Idle
  /\ \E u \in Caller[s], r \in Requests :
       /\ CanDecide(u, r)
       /\ Proceeds(s, [at |-> verdict, user |-> u, request |-> r])
  /\ UNCHANGED <<book, status, chats, jobs, sweepVars>>

AcceptReads(s) == DecisionReads(s, "accept")
RejectReads(s) == DecisionReads(s, "reject")

AfterAcceptWrongEnum(r) == [status EXCEPT ![r] = "BORROWED"]
AfterAcceptAlone(r) == [status EXCEPT ![r] = "ACCEPTED"]
AfterAcceptRejectsAll(r) ==
  [q \in Requests |->
     IF q = r THEN "ACCEPTED"
     ELSE IF q.book = r.book /\ Live(q) THEN "REJECTED" ELSE status[q]]
\* The request becomes ACCEPTED, the book's other pending requests REJECTED.
AfterAccept(r) ==
  [q \in Requests |->
     IF q = r THEN "ACCEPTED"
     ELSE IF q.book = r.book /\ Pending(q) THEN "REJECTED" ELSE status[q]]

WithoutChat(r) == chats
WithChat(r) == chats \cup {r}

AcceptCommits(s) ==
  LET r == call[s].request IN
  /\ call[s].at = "accept"
  /\ Live(r)
  /\ status' = AfterAccept(r)
  /\ book' = [book EXCEPT ![r.book] = "BORROWED"]
  /\ chats' = WithChat(r)
  /\ Enqueues(s, "request.accepted", r)
  /\ UNCHANGED <<jobs, sweepVars>>

RejectCommits(s) ==
  LET r == call[s].request IN
  /\ call[s].at = "reject"
  /\ Live(r)
  /\ status' = [status EXCEPT ![r] = "REJECTED"]
  /\ Enqueues(s, "request.rejected", r)
  /\ UNCHANGED <<book, chats, jobs, sweepVars>>

-----------------------------------------------------------------------------
(* PATCH /borrow-requests/:id/return: by the owner or the borrower.        *)
CanReturn(u, r) == Live(r) /\ u \in {Owner[r.book], r.requester} /\ status[r] = "ACCEPTED"

ReturnReads(s) ==
  /\ call[s] = Idle
  /\ \E u \in Caller[s], r \in Requests :
       /\ CanReturn(u, r)
       /\ Proceeds(s, [at |-> "return", user |-> u, request |-> r])
  /\ UNCHANGED <<book, status, chats, jobs, sweepVars>>

AfterReturnForgotten(b) == book
AfterReturn(b) == [book EXCEPT ![b] = "AVAILABLE"]

ReturnCommits(s) ==
  LET r == call[s].request IN
  /\ call[s].at = "return"
  /\ Live(r)
  /\ status' = [status EXCEPT ![r] = "RETURNED"]
  /\ book' = AfterReturn(r.book)
  /\ Enqueues(s, "request.returned", r)
  /\ overtaken' = overtaken \cup ({r} \cap sweep)
  /\ UNCHANGED <<chats, jobs, sweep>>

-----------------------------------------------------------------------------
(* The job is added after the commit; a failure of the queue is swallowed. *)
AddsJob(s) ==
  /\ call[s].at = "enqueue"
  /\ jobs' = jobs \cup {call[s].job}
  /\ Ends(s)
  /\ UNCHANGED <<book, status, chats, sweepVars>>

(* A call in flight stops before its next statement takes effect: a later  *)
(* check throws, the row it names is gone, the database aborts the         *)
(* statement, the queue refuses the job, or the server goes down.          *)
Stops(s) ==
  /\ call[s] # Idle
  /\ Ends(s)
  /\ UNCHANGED <<book, status, chats, jobs, sweepVars>>

(* The sweep of NotificationProcessor: a snapshot of the loans past due,   *)
(* each marked in a transaction of its own in no stated order.  An error   *)
(* (a row deleted meanwhile) or a restart drops the rest of the snapshot.  *)
SweepReads ==
  /\ LoansFallDue
  /\ sweep = {}
  /\ sweep' \in SUBSET {r \in Requests : status[r] = "ACCEPTED"}
  /\ sweep' # {}
  /\ UNCHANGED <<book, status, chats, call, jobs, overtaken>>

SweepMarks ==
  /\ \E r \in sweep :
       /\ Live(r)
       /\ status' = [status EXCEPT ![r] = "OVERDUE"]
       /\ book' = [book EXCEPT ![r.book] = "OVERDUE"]
       /\ sweep' = sweep \ {r}
  /\ UNCHANGED <<chats, call, jobs, overtaken>>

SweepStops ==
  /\ sweep # {}
  /\ sweep' = {}
  /\ UNCHANGED <<book, status, chats, call, jobs, overtaken>>

-----------------------------------------------------------------------------
BookStep(s) ==
  \/ ListsBook(s) \/ EditReads(s) \/ EditWrites(s)
  \/ RemoveReads(s) \/ RemoveDeletes(s)
RequestStep(s) ==
  \/ CreateReadsBook(s) \/ CreateFindsPending(s) \/ CreateInserts(s)
  \/ AcceptReads(s) \/ AcceptCommits(s) \/ RejectReads(s) \/ RejectCommits(s)
  \/ ReturnReads(s) \/ ReturnCommits(s)
SweepStep == SweepReads \/ SweepMarks \/ SweepStops

Next ==
  \/ \E s \in Slots : BookStep(s) \/ RequestStep(s) \/ AddsJob(s) \/ Stops(s)
  \/ SweepStep

Spec == Init /\ [][Next]_vars

-----------------------------------------------------------------------------
(* Properties.                                                             *)

\* Every column holds a value of its enum and every call in flight carries
\* what its handler has read.
TypeOK ==
  /\ book \in [Books -> BookStatus \cup {"unlisted", "deleted"}]
  /\ status \in [Requests -> RequestStatus \cup {"none", "deleted"}]
  /\ chats \subseteq Requests
  /\ call \in [Slots -> Calls]
  /\ jobs \subseteq Jobs
  /\ sweep \subseteq Requests
  /\ overtaken \subseteq Requests

\* Deleting a book while calls on its requests are in flight leaves no request
\* without its book and no chat without its request.
NoOrphans ==
  /\ \A r \in Requests : Live(r) => Listed(r.book)
  /\ \A r \in chats : Live(r)

\* Whoever was ever lent the book can talk to its owner: accept's upsert gave
\* the request a chat, and nothing but the cascade takes it away.
ChatBacksLoan ==
  \A r \in Requests : status[r] \in LentOnce => r \in chats

\* 'You already have a pending request for this book': create looks before it
\* inserts, so that no user has two pending requests for one book.
OnePendingPerRequester ==
  \A q, r \in Requests :
    Pending(q) /\ Pending(r) /\ q.book = r.book /\ q.requester = r.requester => q = r

\* A decision is final whatever the other slots do between a call's check and
\* its write: a rejection stays, a loan never becomes a request or a new loan
\* again, and one that was returned becomes OVERDUE only if the sweep had read
\* it as lent before.
DecisionIsFinal ==
  [][\A r \in Requests :
       /\ status[r] = "REJECTED" => status'[r] \in {"REJECTED", "deleted"}
       /\ status[r] = "ACCEPTED" => status'[r] \in LentOnce \cup {"deleted"}
       /\ status[r] \in {"RETURNED", "OVERDUE"} =>
            status'[r] \in {"RETURNED", "OVERDUE", "deleted"}
       /\ status[r] = "RETURNED" /\ status'[r] = "OVERDUE" => r \in overtaken]_vars

\* A book is shown as borrowed only while somebody holds it: otherwise create
\* would refuse every request for it and there would be no loan to return.
NoStuckBook ==
  \A b \in Books : book[b] = "BORROWED" =>
    \E r \in Requests : r.book = b /\ status[r] = "ACCEPTED"

\* A queued notification is sent later from its name alone, without a look at
\* the status, so it must still be true of the request then (if that was not
\* deleted): an accepted request was lent, a rejected one is rejected, a returned
\* one is returned.  The code breaks this in one place, and there only: a loan
\* returned after the sweep has read it and before the sweep marks it is OVERDUE
\* in the end, while its borrower is told 'Return Confirmed'.
Agrees(j) ==
  LET r == j.request IN
  /\ status[r] # "none"
  /\ j.name = "request.accepted" => status[r] \in LentOnce \cup {"deleted"}
  /\ j.name = "request.rejected" => status[r] \in {"REJECTED", "deleted"}
  /\ j.name = "request.returned" =>
       \/ status[r] \in {"RETURNED", "deleted"}
       \/ status[r] = "OVERDUE" /\ r \in overtaken
JobsAgreeWithRows == \A j \in jobs : Agrees(j)

\* No copy is lent to two people at once: create refuses a book that is
\* BORROWED ('This book is currently borrowed').
AtMostOneLoan ==
  \A q, r \in Requests :
    status[q] = "ACCEPTED" /\ status[r] = "ACCEPTED" /\ q.book = r.book => q = r

\* While a book is lent it reads BORROWED, so that nobody else can ask for it.
LentBookIsBorrowed ==
  \A r \in Requests : status[r] = "ACCEPTED" => book[r.book] = "BORROWED"

\* Every call gets on with its statements, and parties try to return again
\* until a call of theirs is neither refused nor broken off.
CallsRunOn == \A s \in Slots :
  WF_vars(call[s] # Idle /\ (BookStep(s) \/ RequestStep(s) \/ AddsJob(s) \/ Stops(s)))
ReturnsAreRetried == \A s \in Slots : SF_vars(ReturnReads(s)) /\ SF_vars(ReturnCommits(s))
FairSpec == Spec /\ CallsRunOn /\ ReturnsAreRetried

\* "... is overdue. Please return it as soon as possible.": parties who keep
\* trying to return an overdue book succeed in the end.
OverdueIsReturned ==
  \A r \in Requests : status[r] = "OVERDUE" ~> status[r] \in {"RETURNED", "deleted"}

-----------------------------------------------------------------------------
(* What holds however calls overlap: what a return or the sweep has read as *)
(* lent keeps its chat.                                                    *)
Kept(r) == r \in chats \/ status[r] = "deleted"

RowsInv ==
  /\ TypeOK /\ NoOrphans /\ ChatBacksLoan
  /\ \A s \in Slots : call[s].at = "return" => Kept(call[s].request)
  /\ \A r \in sweep : Kept(r)

(* Why decisions are final when no owner has two calls in flight: what a   *)
(* call has read stays true enough until it writes, for a pending request  *)
(* is decided by its owner alone.  Borrowers may overlap their own calls.  *)
OneCallPerOwner == \A s, t \in Slots : s # t =>
  \A b \in Books : Owner[b] \notin Caller[s] \cap Caller[t]

CallStillApplies(s) ==
  LET c == call[s] IN
  /\ c # Idle => c.user \in Caller[s]
  /\ c.at \in {"accept", "reject"} =>
       Owner[c.request.book] = c.user /\ status[c.request] \in {"PENDING", "deleted"}
  /\ c.at = "return" => status[c.request] \in LentOnce \cup {"deleted"}
  /\ c.at = "enqueue" => Agrees(c.job)

SweptWereLent ==
  \A r \in sweep :
    /\ status[r] \in LentOnce \cup {"deleted"}
    /\ status[r] = "RETURNED" => r \in overtaken

LifeInv ==
  /\ TypeOK /\ JobsAgreeWithRows /\ SweptWereLent
  /\ \A s \in Slots : CallStillApplies(s)

\* The handlers together do to each request what RequestLife allows, several
\* statements of a call coming to one step of it.
Life == INSTANCE RequestLife
  WITH Requests <- Requests, status <- status, chats <- chats
ImplementsRequestLife == Life!Spec

-----------------------------------------------------------------------------
\* Without overlapping calls, sweeps and hand edits, each endpoint is one
\* atomic step of LendingLedger.
Ledger == INSTANCE LendingLedger
  WITH Books <- Books, Owner <- Owner, Requests <- Requests,
       book <- book, status <- status, chats <- chats
ImplementsLedger == Ledger!Spec

(* Why: what the one call in flight has read is still so when it writes.   *)
NothingOverlaps ==
  /\ \A s, t \in Slots : s = t
  /\ EditStatuses = {}
  /\ LoansFallDue = FALSE

CallIsCurrent(s) ==
  LET c == call[s] IN
  /\ c.at \in {"find", "insert"} => CanAsk(c.user, c.book)
  /\ c.at = "insert" => ~HasPending(c.user, c.book)
  /\ c.at \in {"accept", "reject"} => Pending(c.request)
  /\ c.at = "return" => status[c.request] = "ACCEPTED"
  /\ c.at = "delete" => Listed(c.book)

SerialInv ==
  /\ TypeOK
  /\ sweep = {}
  /\ \A b \in Books : book[b] # "OVERDUE"
  /\ \A s \in Slots : CallIsCurrent(s)
=============================================================================
