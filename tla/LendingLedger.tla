--------------------------- MODULE LendingLedger ---------------------------
(***************************************************************************)
(* What lending comes to when no two calls overlap, no loan falls due and  *)
(* no owner edits a status by hand: every endpoint is one step on the      *)
(* books, the requests and the chats.  The invariants stated here are what *)
(* the checks of BorrowRequestsService are meant to keep.                  *)
(***************************************************************************)
CONSTANTS Books, Owner, Requests
VARIABLES book, status, chats

ledger == <<book, status, chats>>

Pending(r) == status[r] = "PENDING"
Lent(r)    == status[r] = "ACCEPTED"

Init ==
  /\ book = [b \in Books |-> "unlisted"]
  /\ status = [r \in Requests |-> "none"]
  /\ chats = {}

ListBook(b) ==
  /\ book[b] = "unlisted"
  /\ book' = [book EXCEPT ![b] = "AVAILABLE"]
  /\ UNCHANGED <<status, chats>>

RemoveBook(b) ==
  /\ book[b] \in {"AVAILABLE", "BORROWED"}
  /\ book' = [book EXCEPT ![b] = "deleted"]
  /\ status' = [r \in Requests |->
       IF r.book = b /\ status[r] # "none" THEN "deleted" ELSE status[r]]
  /\ chats' = {r \in chats : r.book # b}

Create(r) ==
  /\ status[r] = "none"
  /\ book[r.book] = "AVAILABLE"
  /\ Owner[r.book] # r.requester
  /\ \A q \in Requests : q.book = r.book /\ q.requester = r.requester => ~Pending(q)
  /\ status' = [status EXCEPT ![r] = "PENDING"]
  /\ UNCHANGED <<book, chats>>

Accept(r) ==
  /\ Pending(r)
  /\ status' = [q \in Requests |->
       IF q = r THEN "ACCEPTED"
       ELSE IF q.book = r.book /\ Pending(q) THEN "REJECTED" ELSE status[q]]
  /\ book' = [book EXCEPT ![r.book] = "BORROWED"]
  /\ chats' = chats \cup {r}

Reject(r) ==
  /\ Pending(r)
  /\ status' = [status EXCEPT ![r] = "REJECTED"]
  /\ UNCHANGED <<book, chats>>

Return(r) ==
  /\ Lent(r)
  /\ status' = [status EXCEPT ![r] = "RETURNED"]
  /\ book' = [book EXCEPT ![r.book] = "AVAILABLE"]
  /\ UNCHANGED chats

Next ==
  \/ \E b \in Books : ListBook(b) \/ RemoveBook(b)
  \/ \E r \in Requests : Create(r) \/ Accept(r) \/ Reject(r) \/ Return(r)

Spec == Init /\ [][Next]_ledger

-----------------------------------------------------------------------------
\* No copy is lent to two people at once.
AtMostOneLoan ==
  \A q, r \in Requests : Lent(q) /\ Lent(r) /\ q.book = r.book => q = r

\* A book reads BORROWED exactly while it is lent, and then nobody is waiting
\* for it: accepting one request closed the others.
BorrowedIffLent ==
  \A b \in Books : book[b] = "BORROWED" <=> \E r \in Requests : r.book = b /\ Lent(r)
NobodyWaitsForALentBook ==
  \A q, r \in Requests : Lent(q) /\ q.book = r.book => ~Pending(r)
=============================================================================
