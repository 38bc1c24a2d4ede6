------------------------------ MODULE Sessions ------------------------------
(***************************************************************************)
(* AuthService: the account behind one e-mail address and its session, the *)
(* refresh token that Redis keeps under refresh_token:<user>.  Registering *)
(* and logging in store a token, refreshing replaces it, logging out and   *)
(* the suspend.user job delete it.  No statement touches two accounts.     *)
(*                                                                         *)
(* A token says whose it is and when it was signed, in whole seconds: the  *)
(* tokens of an account are the seconds, and two signed in the same second *)
(* are the same.  Its key in Redis expires after the token itself does, so *)
(* that the key's expiry changes nothing.                                  *)
(***************************************************************************)
EXTENDS Naturals

CONSTANTS
  Slots,      \* HTTP requests that can be served at the same time
  NoToken,    \* what Redis answers when it has no token
  Life,       \* seconds a refresh token is valid (JWT_REFRESH_EXPIRATION)
  LastSecond  \* bound: the clock stops there

ASSUME SessionsAssumption ==
  Life \in Nat \ {0} /\ LastSecond \in Nat /\ NoToken \notin Nat

Tokens   == 0 .. LastSecond
Methods  == {"password", "google"}
Entries  == {"register", "login", "google"}    \* calls that need no session
JobState == {"none", "adding", "queued"}

VARIABLES
  now,       \* the clock
  rows,      \* rows of users with this e-mail
  methods,   \* which of the row's password and googleId are set
  suspended, \* accountStatus = SUSPENDED
  stored,    \* the token in Redis, or NoToken
  issued,    \* tokens that clients have received
  call,      \* call[s]: the call slot s serves, by its next statement
  job,       \* the suspend.user job
  out,       \* history: the session was ended and nobody has logged in since
  retired,   \* history: tokens that left Redis when nothing could bring them back
  alone,     \* history: no other call or job got between the last call's statements
  holds      \* history: the token answered to a call that ran alone, while it is the last

accountVars == <<rows, methods, suspended>>
historyVars == <<out, retired, alone, holds>>
vars == <<now, accountVars, stored, issued, call, job, historyVars>>

Idle == [at |-> "idle"]
InFlight == {s \in Slots : call[s] # Idle}
Handles(s, at) == call[s].at = at
Proceeds(s, at) == call' = [call EXCEPT ![s].at = at]

\* Calls past their checks, which will store a token unless they break off.
Entering == {s \in Slots : call[s].at \in {"insert", "link", "sign", "store"}}

\* A call begins; with others in flight it is not alone, and neither are they.
Begins(s, op, at) ==
  /\ call[s] = Idle
  /\ call' = [call EXCEPT ![s] = [op |-> op, at |-> at]]
  /\ alone' = (InFlight = {})
  /\ out' = (out /\ op \notin Entries)

\* Redis now has t instead of the token it had.
Keeps(t) ==
  /\ stored' = t
  /\ holds' = NoToken
  /\ retired' = IF /\ stored \notin {NoToken, t}
                   /\ stored < now
                   /\ \A s \in Slots : Handles(s, "store") => call[s].token # stored
                THEN retired \cup {stored}
                ELSE retired

Init ==
  /\ now = 0
  /\ rows = 0 /\ methods = {} /\ suspended = FALSE
  /\ stored = NoToken /\ issued = {}
  /\ call = [s \in Slots |-> Idle]
  /\ job = "none"
  /\ out = FALSE /\ retired = {} /\ alone = TRUE /\ holds = NoToken

-----------------------------------------------------------------------------
(* Accounts.                                                               *)
RegisterFindsNone(s) ==
  /\ rows = 0
  /\ Begins(s, "register", "insert")
  /\ UNCHANGED <<now, accountVars, stored, issued, job, retired, holds>>

\* login, and adminLogin for an account with that role.
LoginChecks(s) ==
  /\ rows > 0 /\ "password" \in methods
  /\ Begins(s, "login", "sign")
  /\ UNCHANGED <<now, accountVars, stored, issued, job, retired, holds>>

GoogleFinds(s) ==
  /\ Begins(s, "google", CASE rows = 0             -> "insert"
                           [] "google" \in methods -> "sign"
                           [] OTHER                -> "link")
  /\ UNCHANGED <<now, accountVars, stored, issued, job, retired, holds>>

\* The unique index on email.
NoUniqueEmail == TRUE
UniqueEmail == rows = 0

Inserts(s) ==
  /\ Handles(s, "insert")
  /\ UniqueEmail
  /\ rows' = rows + 1
  /\ methods' = {IF call[s].op = "google" THEN "google" ELSE "password"}
  /\ Proceeds(s, "sign")
  /\ UNCHANGED <<now, suspended, stored, issued, job, historyVars>>

Links(s) ==
  /\ Handles(s, "link")
  /\ methods' = methods \cup {"google"}
  /\ Proceeds(s, "sign")
  /\ UNCHANGED <<now, rows, suspended, stored, issued, job, historyVars>>

-----------------------------------------------------------------------------
(* Sessions.                                                               *)
Valid(t) == now < t + Life

AcceptsSigned(t) == Valid(t)
Accepts(t) == Valid(t) /\ t = stored

\* The user is looked up as well; no endpoint deletes users.
RefreshCompares(s) ==
  /\ \E t \in issued : Accepts(t)
  /\ Begins(s, "refresh", "sign")
  /\ UNCHANGED <<now, accountVars, stored, issued, job, retired, holds>>

\* generateTokens: the payload is the account, its e-mail and the time.
SignedUntimed == 0
SignedMillis == now * 1000
Signed == now

Signs(s) ==
  /\ Handles(s, "sign")
  /\ call' = [call EXCEPT ![s] = [op |-> @.op, at |-> "store", token |-> Signed]]
  /\ UNCHANGED <<now, accountVars, stored, issued, job, historyVars>>

\* storeRefreshToken.  An error of Redis is logged and the call goes on.
StoredOfLogin(c) == IF c.op = "refresh" THEN stored ELSE c.token
StoredOf(c) == c.token

Stores(s) ==
  /\ Handles(s, "store")
  /\ Keeps(StoredOf(call[s]))
  /\ Proceeds(s, "answer")
  /\ UNCHANGED <<now, accountVars, issued, job, out, alone>>

StoreFails(s) ==
  /\ Handles(s, "store")
  /\ Proceeds(s, "answer")
  /\ alone' = FALSE /\ holds' = NoToken
  /\ UNCHANGED <<now, accountVars, stored, issued, job, out, retired>>

Answers(s) ==
  /\ Handles(s, "answer")
  /\ issued' = issued \cup {call[s].token}
  /\ call' = [call EXCEPT ![s] = Idle]
  /\ holds' = IF alone THEN call[s].token ELSE holds
  /\ UNCHANGED <<now, accountVars, stored, job, out, retired, alone>>

\* The guard lets in who has been issued a token and is not suspended.
LogoutEnters(s) ==
  /\ issued # {} /\ ~suspended
  /\ Begins(s, "logout", "delete")
  /\ UNCHANGED <<now, accountVars, stored, issued, job, retired, holds>>

LogoutDeletes(s) ==
  /\ Handles(s, "delete")
  /\ Keeps(NoToken)
  /\ call' = [call EXCEPT ![s] = Idle]
  /\ out' = (Entering = {})
  /\ UNCHANGED <<now, accountVars, issued, job, alone>>

\* A check fails, a statement throws (a delete's error is swallowed), or the
\* server goes down.
Stops(s) ==
  /\ call[s] # Idle
  /\ call' = [call EXCEPT ![s] = Idle]
  /\ UNCHANGED <<now, accountVars, stored, issued, job, historyVars>>

-----------------------------------------------------------------------------
(* Suspension.                                                             *)
\* handleAction SUSPEND: first the status, then the job.
Suspends ==
  /\ rows > 0 /\ job = "none"
  /\ suspended' = TRUE /\ job' = "adding"
  /\ UNCHANGED <<now, rows, methods, stored, issued, call, historyVars>>

AddsJob ==
  /\ job = "adding"
  /\ job' = "queued"
  /\ UNCHANGED <<now, accountVars, stored, issued, call, historyVars>>

\* The administrator's updateUserStatus adds no job.
SetsStatus ==
  /\ rows > 0
  /\ suspended' \in BOOLEAN
  /\ UNCHANGED <<now, rows, methods, stored, issued, call, job, historyVars>>

JobDeletes ==
  /\ job = "queued"
  /\ Keeps(NoToken)
  /\ job' = "none"
  /\ alone' = (alone /\ InFlight = {})
  /\ out' = (Entering = {})
  /\ UNCHANGED <<now, accountVars, issued, call>>

\* Not added, or given up after its attempts.
JobLost ==
  /\ job # "none"
  /\ job' = "none"
  /\ UNCHANGED <<now, accountVars, stored, issued, call, historyVars>>

Tick ==
  /\ now < LastSecond
  /\ now' = now + 1
  /\ UNCHANGED <<accountVars, stored, issued, call, job, historyVars>>

Next ==
  \/ \E s \in Slots :
       \/ RegisterFindsNone(s) \/ LoginChecks(s) \/ GoogleFinds(s)
       \/ Inserts(s) \/ Links(s)
       \/ RefreshCompares(s) \/ Signs(s) \/ Stores(s) \/ StoreFails(s) \/ Answers(s)
       \/ LogoutEnters(s) \/ LogoutDeletes(s) \/ Stops(s)
  \/ Suspends \/ AddsJob \/ SetsStatus \/ JobDeletes \/ JobLost
  \/ Tick

Spec == Init /\ [][Next]_vars

-----------------------------------------------------------------------------
TypeOK ==
  /\ now \in 0 .. LastSecond
  /\ rows \in Nat /\ methods \subseteq Methods /\ suspended \in BOOLEAN
  /\ stored \in Tokens \cup {NoToken} /\ issued \subseteq Tokens
  /\ \A s \in Slots :
       \/ call[s] = Idle
       \/ call[s].at \in {"insert", "link", "sign", "delete"}
       \/ call[s].at \in {"store", "answer"} /\ call[s].token \in Tokens
  /\ job \in JobState
  /\ out \in BOOLEAN /\ alone \in BOOLEAN
  /\ retired \subseteq Tokens /\ holds \in Tokens \cup {NoToken}

\* 'User with this email already exists': registering twice, or registering
\* while signing in with Google for the first time, makes one account.
OneAccountPerEmail == rows <= 1

\* A session ended by a logout or by the suspend.user job ('invalidate all
\* sessions') stays ended until somebody logs in again, whatever tokens clients
\* still hold: only a call already past its checks could store another one.
EndedStaysEnded == out => stored = NoToken

\* A token that is replaced or deleted after its second is over, while no call in
\* flight is about to store the same one, is never good again, through any
\* interleaving of later logins and refreshes.
RetiredStaysRetired == stored \notin retired

\* Who logs in or refreshes without anything else going on is not locked out:
\* the token in the answer is the one the next refresh will find.
LoneCallerStaysIn == holds # NoToken => stored = holds
=============================================================================
