------------------------- MODULE MCBorrowRequests -------------------------
(***************************************************************************)
(* Instances of BorrowRequests for TLC.  o owns the books, u and v borrow. *)
(***************************************************************************)
EXTENDS BorrowRequests, FiniteSets, TLC
CONSTANTS o, u, v

MCOwner == [b \in Books |-> o]

\* Each borrower may ask once, or twice, for each book.
Once  == [book : Books, requester : Users \ {o}, n : {1}]
Twice == [book : Books, requester : Users \ {o}, n : {1, 2}]

\* One call at a time for each user: a slot per user.
OneCallEach == [s \in Slots |-> {s}]
\* One call at a time of the owner; the other slots serve any borrower.
OwnerOnce == [s \in Slots |-> IF s = o THEN {o} ELSE Users \ {o}]
\* Every slot serves anyone.
Anyone == [s \in Slots |-> Users]

\* Bounds: at most two requests are ever made, by one borrower or by both; and
\* a borrower's row 1 is made before row 2 (rows of one user are alike).
Made == {r \in Requests : status[r] # "none"}
TwoRequests ==
  /\ Cardinality(Made) <= 2
  /\ \A r \in Made : [r EXCEPT !.n = 1] \in Made

Borrowers == Permutations(Users \ {o})
BorrowersAndSlots == Borrowers \cup Permutations(Slots \ {o})
============================================================================
