---------------------------- MODULE RequestLife ----------------------------
(***************************************************************************)
(* What the lending component promises of one borrow request, book status  *)
(* aside: a decision is made once, on a pending request, in one step with  *)
(* the chat it opens and the competing requests it closes; a loan ends as  *)
(* returned or overdue and is never lent again.  BorrowRequests implements *)
(* it as long as each owner has one call in flight.                        *)
(***************************************************************************)
CONSTANT Requests
VARIABLES status, chats

Init == status = [r \in Requests |-> "none"] /\ chats = {}

SetStatus(r, st) == status' = [status EXCEPT ![r] = st]

\* Nothing is promised of the requester's other requests for the book: two
\* creates that overlap may both open one.
Open(r) == status[r] = "none" /\ SetStatus(r, "PENDING") /\ UNCHANGED chats

Accept(r) ==
  /\ status[r] = "PENDING"
  /\ status' = [q \in Requests |->
       IF q = r THEN "ACCEPTED"
       ELSE IF q.book = r.book /\ status[q] = "PENDING" THEN "REJECTED" ELSE status[q]]
  /\ chats' = chats \cup {r}

Reject(r) == status[r] = "PENDING" /\ SetStatus(r, "REJECTED") /\ UNCHANGED chats

\* A return already under way wins over the sweep, and a sweep already under
\* way wins over the return.
Return(r) == status[r] \in {"ACCEPTED", "OVERDUE"} /\ SetStatus(r, "RETURNED") /\ UNCHANGED chats
FallOverdue(r) == status[r] \in {"ACCEPTED", "RETURNED"} /\ SetStatus(r, "OVERDUE") /\ UNCHANGED chats

\* The book is deleted, with every request for it.
Drop(b) ==
  /\ status' = [r \in Requests |->
       IF r.book = b /\ status[r] # "none" THEN "deleted" ELSE status[r]]
  /\ chats' = {r \in chats : r.book # b}

Next ==
  \/ \E r \in Requests :
       Open(r) \/ Accept(r) \/ Reject(r) \/ Return(r) \/ FallOverdue(r)
  \/ \E r \in Requests : Drop(r.book)

Spec == Init /\ [][Next]_<<status, chats>>
=============================================================================
