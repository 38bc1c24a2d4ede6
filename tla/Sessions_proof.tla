--------------------------- MODULE Sessions_proof ---------------------------
(***************************************************************************)
(* Sessions for any number of calls at a time and any life of a token.     *)
(***************************************************************************)
EXTENDS Sessions, TLAPS

\* What a slot can hold: a call gets its token when it is signed.
Operations == Entries \cup {"refresh", "logout"}
Unsigned   == [op : Operations, at : {"insert", "link", "sign", "delete"}]
Signing    == [op : Operations, at : {"store", "answer"}, token : Tokens]
Calls      == {Idle} \cup Unsigned \cup Signing
CallTypes  == call \in [Slots -> Calls]

Flags  == suspended \in BOOLEAN /\ out \in BOOLEAN /\ alone \in BOOLEAN
Values ==
  /\ now \in 0 .. LastSecond /\ rows \in Nat /\ methods \subseteq Methods
  /\ stored \in Tokens \cup {NoToken} /\ issued \subseteq Tokens
  /\ job \in JobState
  /\ retired \subseteq Tokens /\ holds \in Tokens \cup {NoToken}

TypesInv == Values /\ CallTypes

\* A session that has ended has no call that would store a token, and none can
\* begin: a refresh has nothing to compare with.
EndedInv == out => stored = NoToken /\ Entering = {}

\* A retired token is in nobody's hands who would store it, and its second is
\* over, so that it is not signed again.
RetiredInv ==
  \A t \in retired : t < now /\ stored # t /\ \A s \in Slots : Handles(s, "store") => call[s].token # t

\* A call that is alone is the only one in flight, and answers what it stored.
AloneInv ==
  alone =>
    /\ \A s, k \in Slots : call[s] # Idle /\ call[k] # Idle => s = k
    /\ \A s \in Slots : Handles(s, "answer") => stored = call[s].token

SessionInv ==
  /\ Flags /\ TypesInv /\ OneAccountPerEmail
  /\ EndedInv /\ RetiredInv /\ AloneInv /\ LoneCallerStaysIn

-----------------------------------------------------------------------------
LEMMA SessionInit == Init => SessionInv
<1> SUFFICES ASSUME Init PROVE SessionInv
  OBVIOUS
<1> USE SessionsAssumption DEF SessionsAssumption, Init, Idle
<1>1. Flags
  BY DEF Flags
<1>2. TypesInv
  BY DEF TypesInv, Values, CallTypes, Calls, Tokens, JobState
<1>3. OneAccountPerEmail /\ EndedInv /\ RetiredInv
  BY DEF OneAccountPerEmail, EndedInv, RetiredInv
<1>4. AloneInv /\ LoneCallerStaysIn
  BY DEF AloneInv, LoneCallerStaysIn, Handles
<1> QED BY <1>1, <1>2, <1>3, <1>4 DEF SessionInv

LEMMA FlagsStep == Flags /\ [Next]_vars => Flags'
BY DEF Flags, Next, vars, accountVars, historyVars, Begins, Keeps, RegisterFindsNone, LoginChecks,
       GoogleFinds, Inserts, Links, RefreshCompares, Signs, Stores, StoreFails, Answers,
       LogoutEnters, LogoutDeletes, Stops, Suspends, AddsJob, SetsStatus, JobDeletes, JobLost, Tick

\* What the steps that set a flag do, said without equations between truth values.
LEMMA BeginsEffect ==
  ASSUME NEW s \in Slots, NEW op, NEW at, Begins(s, op, at)
  PROVE  /\ call[s] = Idle /\ call' = [call EXCEPT ![s] = [op |-> op, at |-> at]]
         /\ out' => out /\ op \notin Entries
         /\ alone' => InFlight = {}
BY DEF Begins

LEMMA LogoutEffect ==
  ASSUME NEW s \in Slots, LogoutDeletes(s)
  PROVE  /\ Handles(s, "delete") /\ Keeps(NoToken)
         /\ call' = [call EXCEPT ![s] = Idle]
         /\ out' => Entering = {}
         /\ UNCHANGED <<now, accountVars, issued, job, alone>>
BY DEF LogoutDeletes

LEMMA JobEffect ==
  ASSUME JobDeletes
  PROVE  /\ Keeps(NoToken) /\ job' = "none"
         /\ alone' => alone /\ InFlight = {}
         /\ out' => Entering = {}
         /\ UNCHANGED <<now, accountVars, issued, call>>
BY DEF JobDeletes

\* A step of a call changes its own slot, and what it is at there.
LEMMA CallEffect ==
  ASSUME CallTypes, NEW s \in Slots
  PROVE  /\ \A c : call' = [call EXCEPT ![s] = c] =>
               \A k \in Slots : call'[k] = IF k = s THEN c ELSE call[k]
         /\ \A at : Proceeds(s, at) /\ call[s] # Idle =>
               /\ call'[s].at = at
               /\ call[s].at \in {"store", "answer"} => call'[s].token = call[s].token
               /\ \A k \in Slots \ {s} : call'[k] = call[k]
<1>1. \A c : call' = [call EXCEPT ![s] = c] => \A k \in Slots : call'[k] = IF k = s THEN c ELSE call[k]
  BY DEF CallTypes
<1>2. ASSUME NEW at, Proceeds(s, at), call[s] # Idle
      PROVE  /\ call'[s].at = at
             /\ call[s].at \in {"store", "answer"} => call'[s].token = call[s].token
             /\ \A k \in Slots \ {s} : call'[k] = call[k]
  <2>1. call[s] \in Unsigned \cup Signing
    BY <1>2 DEF CallTypes, Calls
  <2> QED BY <1>2, <2>1 DEF Proceeds, CallTypes, Unsigned, Signing
<1> QED BY <1>1, <1>2

LEMMA TypesStep == TypesInv /\ [Next]_vars => TypesInv'
<1> SUFFICES ASSUME TypesInv, [Next]_vars PROVE TypesInv'
  OBVIOUS
<1> USE SessionsAssumption
    DEF SessionsAssumption, TypesInv, Values, CallTypes, Calls, Unsigned, Signing, Operations, Entries,
        Methods, JobState, Tokens, Idle, Handles, Proceeds, Keeps, accountVars, historyVars
<1>1. ASSUME NEW s \in Slots, RegisterFindsNone(s) \/ LoginChecks(s) \/ LogoutEnters(s)
      PROVE  TypesInv'
  <2>1. PICK op \in Operations, at \in {"insert", "sign", "delete"} : Begins(s, op, at)
    BY <1>1 DEF RegisterFindsNone, LoginChecks, LogoutEnters
  <2>2. UNCHANGED <<now, accountVars, stored, issued, job, retired, holds>>
    BY <1>1 DEF RegisterFindsNone, LoginChecks, LogoutEnters
  <2> QED BY <2>1, <2>2, BeginsEffect
<1>2. ASSUME NEW s \in Slots, GoogleFinds(s) PROVE TypesInv'
  BY <1>2, BeginsEffect DEF GoogleFinds
<1>3. ASSUME NEW s \in Slots, Inserts(s) \/ Links(s) PROVE TypesInv'
  BY <1>3 DEF Inserts, Links, UniqueEmail
<1>4. ASSUME NEW s \in Slots, RefreshCompares(s) PROVE TypesInv'
  BY <1>4, BeginsEffect DEF RefreshCompares
<1>5. ASSUME NEW s \in Slots, Signs(s) PROVE TypesInv'
  BY <1>5 DEF Signs, Signed
<1>6. ASSUME NEW s \in Slots, Stores(s) \/ StoreFails(s) \/ Answers(s) PROVE TypesInv'
  BY <1>6 DEF Stores, StoreFails, Answers, StoredOf
<1>7. ASSUME NEW s \in Slots, LogoutDeletes(s) \/ Stops(s) PROVE TypesInv'
  BY <1>7, LogoutEffect DEF Stops
<1>8. CASE Suspends \/ AddsJob \/ SetsStatus \/ JobDeletes \/ JobLost
  BY <1>8, JobEffect DEF Suspends, AddsJob, SetsStatus, JobLost
<1>9. CASE Tick
  BY <1>9 DEF Tick
<1>10. CASE UNCHANGED vars
  BY <1>10 DEF vars
<1> QED
  BY <1>1, <1>2, <1>3, <1>4, <1>5, <1>6, <1>7, <1>8, <1>9, <1>10 DEF Next

-----------------------------------------------------------------------------
LEMMA EndedStep == TypesInv /\ EndedInv /\ [Next]_vars => EndedInv'
<1> SUFFICES ASSUME TypesInv, EndedInv, [Next]_vars PROVE EndedInv'
  OBVIOUS
<1>a. CallTypes /\ (stored \in Nat \/ stored = NoToken) /\ issued \subseteq Nat /\ NoToken \notin Nat
  BY SessionsAssumption DEF SessionsAssumption, TypesInv, Values, Tokens
<1> USE <1>a DEF EndedInv, Entering, Handles, accountVars, historyVars
<1>1. ASSUME NEW s \in Slots, RegisterFindsNone(s) \/ LoginChecks(s) \/ GoogleFinds(s)
      PROVE  EndedInv'
  <2>1. PICK op \in Entries, at \in {"insert", "link", "sign"} : Begins(s, op, at)
    BY <1>1 DEF RegisterFindsNone, LoginChecks, GoogleFinds, Entries
  <2> QED BY <2>1, BeginsEffect
<1>2. ASSUME NEW s \in Slots, RefreshCompares(s) PROVE EndedInv'
  <2>1. stored \in Nat /\ ~out
    BY <1>2 DEF RefreshCompares, Accepts
  <2> QED BY <1>2, <2>1, BeginsEffect DEF RefreshCompares
<1>3. ASSUME NEW s \in Slots, LogoutEnters(s) PROVE EndedInv'
  <2>1. call' = [call EXCEPT ![s] = [op |-> "logout", at |-> "delete"]] /\ stored' = stored /\ (out' => out)
    BY <1>3, BeginsEffect DEF LogoutEnters
  <2> QED BY <2>1, CallEffect
<1>4. ASSUME NEW s \in Slots, Inserts(s) \/ Links(s) \/ Signs(s) \/ Stores(s) \/ StoreFails(s)
      PROVE  EndedInv'
  <2>1. s \in Entering
    BY <1>4 DEF Inserts, Links, Signs, Stores, StoreFails
  <2>2. ~out /\ out' = out
    BY <1>4, <2>1 DEF Inserts, Links, Signs, Stores, StoreFails
  <2> QED BY <2>2
<1>5. ASSUME NEW s \in Slots, Answers(s) \/ Stops(s) PROVE EndedInv'
  <2>1. call' = [call EXCEPT ![s] = Idle] /\ stored' = stored /\ out' = out
    BY <1>5 DEF Answers, Stops
  <2>2. \A k \in Slots : call'[k].at \in {"insert", "link", "sign", "store"} => call'[k] = call[k]
    BY <2>1, CallEffect DEF Idle
  <2> QED BY <2>1, <2>2
<1>6. ASSUME NEW s \in Slots, LogoutDeletes(s) PROVE EndedInv'
  <2>1. call' = [call EXCEPT ![s] = Idle] /\ stored' = NoToken /\ (out' => Entering = {})
    BY <1>6, LogoutEffect DEF Keeps
  <2>2. \A k \in Slots : call'[k].at \in {"insert", "link", "sign", "store"} => call'[k] = call[k]
    BY <2>1, CallEffect DEF Idle
  <2> QED BY <2>1, <2>2
<1>7. CASE JobDeletes
  BY <1>7, JobEffect DEF Keeps
<1>8. CASE Suspends \/ AddsJob \/ SetsStatus \/ JobLost \/ Tick
  BY <1>8 DEF Suspends, AddsJob, SetsStatus, JobLost, Tick
<1>9. CASE UNCHANGED vars
  BY <1>9 DEF vars
<1> QED
  BY <1>1, <1>2, <1>3, <1>4, <1>5, <1>6, <1>7, <1>8, <1>9 DEF Next

\* Replacing the token of Redis retires it only if it cannot come back.
LEMMA KeepsRetires ==
  ASSUME TypesInv, RetiredInv, NEW t, t \notin retired, Keeps(t), now' = now,
         \A k \in Slots : call'[k].at = "store" => call'[k] = call[k]
  PROVE  RetiredInv'
BY DEF RetiredInv, Keeps, Handles, TypesInv, Values, Tokens

\* No other step retires a token, and none gives a call an older one than now.
LEMMA NothingRetires ==
  ASSUME TypesInv, RetiredInv, UNCHANGED <<stored, retired>>, now' \in Nat, now <= now',
         \A k \in Slots : call'[k].at = "store" => call'[k] = call[k] \/ call'[k].token = now
  PROVE  RetiredInv'
<1>1. now \in Nat /\ retired \subseteq Nat
  BY SessionsAssumption DEF SessionsAssumption, TypesInv, Values, Tokens
<1>2. \A t \in retired : t < now'
  BY <1>1 DEF RetiredInv
<1>3. \A t \in retired : \A k \in Slots : call'[k].at = "store" => call'[k].token # t
  BY <1>1 DEF RetiredInv, Handles
<1> QED BY <1>2, <1>3 DEF RetiredInv, Handles

LEMMA RetiredStep == TypesInv /\ RetiredInv /\ [Next]_vars => RetiredInv'
<1> SUFFICES ASSUME TypesInv, RetiredInv, [Next]_vars PROVE RetiredInv'
  OBVIOUS
<1> DEFINE OldTokens == \A k \in Slots : call'[k].at = "store" => call'[k] = call[k]
<1>a. CallTypes /\ now \in Nat /\ retired \subseteq Nat /\ NoToken \notin Nat
  BY SessionsAssumption DEF SessionsAssumption, TypesInv, Values, Tokens
<1> USE <1>a DEF accountVars, historyVars
<1>1. ASSUME NEW s \in Slots,
             \/ RegisterFindsNone(s) \/ LoginChecks(s) \/ GoogleFinds(s)
             \/ RefreshCompares(s) \/ LogoutEnters(s)
      PROVE  RetiredInv'
  <2>1. PICK op, at : Begins(s, op, at) /\ at \in {"insert", "link", "sign", "delete"}
    BY <1>1 DEF RegisterFindsNone, LoginChecks, GoogleFinds, RefreshCompares, LogoutEnters
  <2>2. UNCHANGED <<now, stored, retired>>
    BY <1>1 DEF RegisterFindsNone, LoginChecks, GoogleFinds, RefreshCompares, LogoutEnters
  <2>3. OldTokens
    BY <2>1, BeginsEffect, CallEffect
  <2> QED BY <2>2, <2>3, NothingRetires
<1>2. ASSUME NEW s \in Slots, Inserts(s) \/ Links(s) \/ StoreFails(s) PROVE RetiredInv'
  <2>1. PICK at \in {"sign", "answer"} : Proceeds(s, at)
    BY <1>2 DEF Inserts, Links, StoreFails
  <2>2. UNCHANGED <<now, stored, retired>> /\ call[s] # Idle
    BY <1>2 DEF Inserts, Links, StoreFails, Handles, Idle
  <2>3. OldTokens
    BY <2>1, <2>2, CallEffect
  <2> QED BY <2>2, <2>3, NothingRetires
<1>3. ASSUME NEW s \in Slots, Signs(s) PROVE RetiredInv'
  <2>1. UNCHANGED <<now, stored, retired>>
    BY <1>3 DEF Signs
  <2>2. \A k \in Slots : call'[k].at = "store" => call'[k] = call[k] \/ call'[k].token = now
    BY <1>3, CallEffect DEF Signs, Signed
  <2> QED BY <2>1, <2>2, NothingRetires
<1>4. ASSUME NEW s \in Slots, Stores(s) PROVE RetiredInv'
  <2>1. Keeps(call[s].token) /\ Proceeds(s, "answer") /\ Handles(s, "store") /\ now' = now
    BY <1>4 DEF Stores, StoredOf
  <2>2. call[s].token \notin retired
    BY <2>1 DEF RetiredInv
  <2>3. call[s] # Idle
    BY <2>1 DEF Handles, Idle
  <2>4. OldTokens
    BY <2>1, <2>3, CallEffect
  <2> QED BY <2>1, <2>2, <2>4, KeepsRetires
<1>5. ASSUME NEW s \in Slots, Answers(s) \/ Stops(s) PROVE RetiredInv'
  <2>1. call' = [call EXCEPT ![s] = Idle] /\ UNCHANGED <<now, stored, retired>>
    BY <1>5 DEF Answers, Stops
  <2>2. OldTokens
    BY <2>1, CallEffect DEF Idle
  <2> QED BY <2>1, <2>2, NothingRetires
<1>6. ASSUME NEW s \in Slots, LogoutDeletes(s) PROVE RetiredInv'
  <2>1. call' = [call EXCEPT ![s] = Idle] /\ Keeps(NoToken) /\ now' = now
    BY <1>6, LogoutEffect
  <2>2. OldTokens
    BY <2>1, CallEffect DEF Idle
  <2> QED BY <2>1, <2>2, KeepsRetires
<1>7. CASE JobDeletes
  <2>1. Keeps(NoToken) /\ now' = now /\ call' = call
    BY <1>7, JobEffect
  <2> QED BY <2>1, KeepsRetires
<1>8. CASE Suspends \/ AddsJob \/ SetsStatus \/ JobLost
  <2>1. UNCHANGED <<now, call, stored, retired>>
    BY <1>8 DEF Suspends, AddsJob, SetsStatus, JobLost
  <2> QED BY <2>1, NothingRetires
<1>9. CASE Tick
  <2>1. UNCHANGED <<call, stored, retired>> /\ now' = now + 1
    BY <1>9 DEF Tick
  <2> QED BY <2>1, NothingRetires
<1>10. CASE UNCHANGED vars
  BY <1>10, NothingRetires DEF vars
<1> QED
  BY <1>1, <1>2, <1>3, <1>4, <1>5, <1>6, <1>7, <1>8, <1>9, <1>10 DEF Next

LEMMA AloneStep ==
  TypesInv /\ AloneInv /\ LoneCallerStaysIn /\ [Next]_vars => (AloneInv /\ LoneCallerStaysIn)'
<1> DEFINE Lone == AloneInv /\ LoneCallerStaysIn
<1> SUFFICES ASSUME TypesInv, Lone, [Next]_vars PROVE Lone'
  OBVIOUS
<1>a. CallTypes /\ NoToken \notin Nat
  BY SessionsAssumption DEF SessionsAssumption, TypesInv
<1> USE <1>a DEF AloneInv, LoneCallerStaysIn, InFlight, Handles, accountVars, historyVars
<1>1. ASSUME NEW s \in Slots,
             \/ RegisterFindsNone(s) \/ LoginChecks(s) \/ GoogleFinds(s)
             \/ RefreshCompares(s) \/ LogoutEnters(s)
      PROVE  Lone'
  <2>1. PICK op, at : Begins(s, op, at) /\ at \in {"insert", "link", "sign", "delete"}
    BY <1>1 DEF RegisterFindsNone, LoginChecks, GoogleFinds, RefreshCompares, LogoutEnters
  <2>2. UNCHANGED <<stored, holds>>
    BY <1>1 DEF RegisterFindsNone, LoginChecks, GoogleFinds, RefreshCompares, LogoutEnters
  <2> QED BY <2>1, <2>2, BeginsEffect, CallEffect DEF Idle
<1>2. ASSUME NEW s \in Slots, Inserts(s) \/ Links(s) PROVE Lone'
  <2>1. Proceeds(s, "sign") /\ UNCHANGED <<stored, holds, alone>> /\ call[s] # Idle
    BY <1>2 DEF Inserts, Links, Idle
  <2> QED BY <2>1, CallEffect DEF Idle
<1>3. ASSUME NEW s \in Slots, Signs(s) PROVE Lone'
  <2>1. UNCHANGED <<stored, holds, alone>> /\ call[s] # Idle
    BY <1>3 DEF Signs, Idle
  <2> QED BY <1>3, <2>1, CallEffect DEF Signs, Idle
<1>4. ASSUME NEW s \in Slots, Stores(s) PROVE Lone'
  <2>1. /\ Proceeds(s, "answer") /\ stored' = call[s].token /\ holds' = NoToken /\ alone' = alone
        /\ call[s] # Idle /\ call[s].at = "store"
    BY <1>4 DEF Stores, StoredOf, Keeps, Idle
  <2> QED BY <2>1, CallEffect DEF Idle
<1>5. ASSUME NEW s \in Slots, StoreFails(s) PROVE Lone'
  BY <1>5 DEF StoreFails
<1>6. ASSUME NEW s \in Slots, Answers(s) PROVE Lone'
  <2>1. /\ call' = [call EXCEPT ![s] = Idle] /\ UNCHANGED <<stored, alone>>
        /\ holds' = IF alone THEN call[s].token ELSE holds
        /\ call[s].at = "answer"
    BY <1>6 DEF Answers
  <2> QED BY <2>1, CallEffect DEF Idle
<1>7. ASSUME NEW s \in Slots, Stops(s) PROVE Lone'
  <2>1. call' = [call EXCEPT ![s] = Idle] /\ UNCHANGED <<stored, alone, holds>>
    BY <1>7 DEF Stops
  <2> QED BY <2>1, CallEffect DEF Idle
<1>8. ASSUME NEW s \in Slots, LogoutDeletes(s) PROVE Lone'
  <2>1. call' = [call EXCEPT ![s] = Idle] /\ call[s] # Idle
    BY <1>8, LogoutEffect DEF Idle
  <2>2. \A k \in Slots : call'[k] = IF k = s THEN Idle ELSE call[k]
    BY <2>1 DEF CallTypes
  <2>3. holds' = NoToken /\ alone' = alone
    BY <1>8, LogoutEffect DEF Keeps
  <2>4. alone' => \A k \in Slots : call'[k] = Idle
    BY <2>1, <2>2, <2>3
  <2> QED BY <2>3, <2>4 DEF Idle
<1>9. CASE JobDeletes
  <2>1. call' = call /\ holds' = NoToken /\ (alone' => InFlight = {})
    BY <1>9, JobEffect DEF Keeps
  <2> QED BY <2>1 DEF Idle
<1>10. CASE Suspends \/ AddsJob \/ SetsStatus \/ JobLost \/ Tick
  BY <1>10 DEF Suspends, AddsJob, SetsStatus, JobLost, Tick
<1>11. CASE UNCHANGED vars
  BY <1>11 DEF vars
<1> QED
  BY <1>1, <1>2, <1>3, <1>4, <1>5, <1>6, <1>7, <1>8, <1>9, <1>10, <1>11 DEF Next

LEMMA SessionInvHolds == Spec => []SessionInv
<1>1. TypesInv /\ OneAccountPerEmail /\ [Next]_vars => OneAccountPerEmail'
  <2> SUFFICES ASSUME TypesInv, OneAccountPerEmail, [Next]_vars PROVE OneAccountPerEmail'
    OBVIOUS
  <2>1. rows' = rows \/ (rows = 0 /\ rows' = rows + 1)
    <3>1. ASSUME NEW s \in Slots, Inserts(s) PROVE rows = 0 /\ rows' = rows + 1
      BY <3>1 DEF Inserts, UniqueEmail
    <3>2. ASSUME NEW s \in Slots, RegisterFindsNone(s) \/ LoginChecks(s) \/ GoogleFinds(s) \/ Links(s)
          PROVE  rows' = rows
      BY <3>2 DEF RegisterFindsNone, LoginChecks, GoogleFinds, Links, accountVars
    <3>3. ASSUME NEW s \in Slots,
                 \/ RefreshCompares(s) \/ Signs(s) \/ Stores(s) \/ StoreFails(s) \/ Answers(s)
                 \/ LogoutEnters(s) \/ LogoutDeletes(s) \/ Stops(s)
          PROVE  rows' = rows
      BY <3>3
      DEF RefreshCompares, Signs, Stores, StoreFails, Answers, LogoutEnters, LogoutDeletes, Stops,
          accountVars
    <3>4. CASE Suspends \/ AddsJob \/ SetsStatus \/ JobDeletes \/ JobLost \/ Tick
      BY <3>4 DEF Suspends, AddsJob, SetsStatus, JobDeletes, JobLost, Tick, accountVars
    <3>5. CASE UNCHANGED vars
      BY <3>5 DEF vars, accountVars
    <3> QED BY <3>1, <3>2, <3>3, <3>4, <3>5 DEF Next
  <2> QED BY <2>1 DEF OneAccountPerEmail
<1>2. SessionInv /\ [Next]_vars => SessionInv'
  BY <1>1, FlagsStep, TypesStep, EndedStep, RetiredStep, AloneStep DEF SessionInv
<1> QED BY <1>2, SessionInit, PTL DEF Spec

-----------------------------------------------------------------------------
\* The clock, the account's row, the tokens and the calls keep their types.
THEOREM SessionTypeCorrect == Spec => []TypeOK
<1>1. SessionInv => TypeOK
  BY DEF SessionInv, Flags, TypesInv, Values, CallTypes, Calls, Unsigned, Signing, TypeOK
<1> QED BY <1>1, SessionInvHolds, PTL

\* However many registrations and first Google logins overlap, the e-mail
\* address gets one row.
THEOREM EmailHasOneAccount == Spec => []OneAccountPerEmail
<1>1. SessionInv => OneAccountPerEmail
  BY DEF SessionInv
<1> QED BY <1>1, SessionInvHolds, PTL

\* After a logout or a suspend.user job that no entering call overlapped, Redis
\* holds no token until somebody logs in.
THEOREM EndedSessionStaysEnded == Spec => []EndedStaysEnded
<1>1. SessionInv => EndedStaysEnded
  BY DEF SessionInv, EndedInv, EndedStaysEnded
<1> QED BY <1>1, SessionInvHolds, PTL

\* Rotation: what a refresh replaced or a logout deleted, after its second and
\* with no call about to store it too, is never stored again.
THEOREM RetiredTokenStaysRetired == Spec => []RetiredStaysRetired
<1>1. SessionInv => RetiredStaysRetired
  BY DEF SessionInv, RetiredInv, RetiredStaysRetired
<1> QED BY <1>1, SessionInvHolds, PTL

\* The token in the answer to a call that ran alone is the one that is stored.
THEOREM LoneCallerHoldsTheStoredToken == Spec => []LoneCallerStaysIn
<1>1. SessionInv => LoneCallerStaysIn
  BY DEF SessionInv
<1> QED BY <1>1, SessionInvHolds, PTL
=============================================================================
