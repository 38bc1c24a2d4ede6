--------------------------- MODULE Reports_proof ---------------------------
(***************************************************************************)
(* Reports for any number of reporters, administrators and calls at once.  *)
(***************************************************************************)
EXTENDS Reports, FiniteSetTheorems, TLAPS

\* The statement a call stands before, and the call once it has run.
At(c)   == IF c.todo = <<>> THEN "idle" ELSE Head(c.todo)
Rest(c) == IF Tail(c.todo) = <<>> THEN Idle ELSE [c EXCEPT !.todo = Tail(c.todo)]

\* What is left of a call of each kind, at any moment.
CallsOf(act, todos) == [about : Reporters, act : {act}, todo : todos]
CreateCalls  == CallsOf("create", {<<"find", "insert", "count">>, <<"insert", "count">>,
                                   <<"count">>, <<"hide", "alert">>, <<"alert">>})
RemoveCalls  == CallsOf("REMOVE", {<<"hide", "review", "log">>, <<"review", "log">>, <<"log">>})
WarnCalls    == CallsOf("WARN", {<<"warn", "push", "review", "log">>, <<"push", "review", "log">>,
                                 <<"review", "log">>, <<"log">>})
SuspendCalls == CallsOf("SUSPEND", {<<"suspend", "expel", "push", "review", "log">>,
                                    <<"expel", "push", "review", "log">>,
                                    <<"push", "review", "log">>, <<"review", "log">>, <<"log">>})
DismissCalls == CallsOf("DISMISS", {<<"dismiss", "discount", "log">>, <<"discount", "log">>,
                                    <<"show", "log">>, <<"log">>})
Calls == {Idle} \cup CreateCalls \cup RemoveCalls \cup WarnCalls \cup SuspendCalls \cup DismissCalls

\* The calls that stand between what they count and what they show.
Counting == {s \in Slots : Upcoming(s) = "count"}
Hiding   == {s \in Slots : IsCreate(s) /\ Upcoming(s) = "hide"}
Showing  == {s \in Slots : Upcoming(s) = "show"}

CallInv == call \in [Slots -> Calls]

\* An administrator's call is about a report that exists, has decided it when
\* it comes to log the action, and has queued the job of a suspension by then.
DoneAt(s) ==
  /\ call[s].act \in Actions => report[call[s].about] # "none"
  /\ call[s].act \in Actions /\ Upcoming(s) \in {"discount", "show", "log"} =>
       report[call[s].about] # "PENDING"
  /\ call[s].act = "SUSPEND" /\ Upcoming(s) \in {"push", "review", "log"} =>
       "suspend.user" \in queue
DoneInv == \A s \in Slots : DoneAt(s)

LoggedInv ==
  \A entry \in log :
    /\ report[entry.about] \notin {"none", "PENDING"}
    /\ entry.action = "SUSPEND" => "suspend.user" \in queue

\* A call that was cut off can only leave the count too low.
CountInv ==
  /\ discounts \in Nat
  /\ kind # "MESSAGE" => count + discounts + Cardinality(Counting) <= Cardinality(Filed)
  /\ CountIsExact

HideInv ==
  /\ Hiding # {} => Cardinality(Filed) >= Threshold
  /\ HiddenOnlyByMany

\* While nobody interferes, whoever takes the count across the threshold is
\* about to change what is seen, and no one is about to do the opposite.
SeenInv ==
  /\ Showing # {} => discounts >= 1
  /\ live /\ ~byHand /\ ~raced /\ ~lost =>
       /\ kind = "BOOK" =>
            /\ count >= Threshold => hidden \/ Hiding # {}
            /\ count < Threshold => ~hidden \/ Showing # {}
            /\ Hiding # {} => count >= Threshold
            /\ Showing # {} => count < Threshold
       /\ kind = "MESSAGE" /\ discounts = 0 /\ Cardinality(Filed) >= Threshold =>
            hidden \/ Hiding # {} \/ Counting # {}

ReportInv ==
  /\ TypeOK /\ CallInv
  /\ DoneInv /\ LoggedInv
  /\ CountInv /\ HideInv /\ SeenInv

-----------------------------------------------------------------------------
(* Calls, statement by statement.                                          *)
Leads(c, from, to) ==
  /\ At(c) = from /\ At(Rest(c)) = to
  /\ Rest(c) \in Calls /\ Rest(c).about = c.about /\ Rest(c).act = c.act
Finishes(c, from) == At(c) = from /\ Rest(c) = Idle

LEMMA OneLeft ==
  ASSUME NEW c, NEW a, c.todo = <<a>>
  PROVE  Finishes(c, a)
BY DEF Finishes, At, Rest

LEMMA TwoLeft ==
  ASSUME NEW c, NEW a, NEW b, NEW act, NEW todos,
         c \in CallsOf(act, todos), c.todo = <<a, b>>, <<b>> \in todos,
         CallsOf(act, todos) \subseteq Calls
  PROVE  Leads(c, a, b)
<1>1. c = [about |-> c.about, act |-> act, todo |-> <<a, b>>] /\ c.about \in Reporters
  BY DEF CallsOf
<1>2. Tail(c.todo) = <<b>> /\ <<b>> # <<>>
  OBVIOUS
<1>3. Rest(c) = [about |-> c.about, act |-> act, todo |-> <<b>>]
  BY <1>1, <1>2 DEF Rest
<1>4. Rest(c) \in CallsOf(act, todos)
  BY <1>1, <1>3 DEF CallsOf
<1> QED BY <1>1, <1>3, <1>4 DEF At, Leads

LEMMA ThreeLeft ==
  ASSUME NEW c, NEW a, NEW b, NEW d, NEW act, NEW todos,
         c \in CallsOf(act, todos), c.todo = <<a, b, d>>, <<b, d>> \in todos,
         CallsOf(act, todos) \subseteq Calls
  PROVE  Leads(c, a, b)
<1>1. c = [about |-> c.about, act |-> act, todo |-> <<a, b, d>>] /\ c.about \in Reporters
  BY DEF CallsOf
<1>2. Tail(c.todo) = <<b, d>> /\ <<b, d>> # <<>>
  OBVIOUS
<1>3. Rest(c) = [about |-> c.about, act |-> act, todo |-> <<b, d>>]
  BY <1>1, <1>2 DEF Rest
<1>4. Rest(c) \in CallsOf(act, todos)
  BY <1>1, <1>3 DEF CallsOf
<1> QED BY <1>1, <1>3, <1>4 DEF At, Leads

LEMMA FourLeft ==
  ASSUME NEW c, NEW a, NEW b, NEW d, NEW e, NEW act, NEW todos,
         c \in CallsOf(act, todos), c.todo = <<a, b, d, e>>, <<b, d, e>> \in todos,
         CallsOf(act, todos) \subseteq Calls
  PROVE  Leads(c, a, b)
<1>1. c = [about |-> c.about, act |-> act, todo |-> <<a, b, d, e>>] /\ c.about \in Reporters
  BY DEF CallsOf
<1>2. Tail(c.todo) = <<b, d, e>> /\ <<b, d, e>> # <<>>
  OBVIOUS
<1>3. Rest(c) = [about |-> c.about, act |-> act, todo |-> <<b, d, e>>]
  BY <1>1, <1>2 DEF Rest
<1>4. Rest(c) \in CallsOf(act, todos)
  BY <1>1, <1>3 DEF CallsOf
<1> QED BY <1>1, <1>3, <1>4 DEF At, Leads

LEMMA FiveLeft ==
  ASSUME NEW c, NEW a, NEW b, NEW d, NEW e, NEW f, NEW act, NEW todos,
         c \in CallsOf(act, todos), c.todo = <<a, b, d, e, f>>, <<b, d, e, f>> \in todos,
         CallsOf(act, todos) \subseteq Calls
  PROVE  Leads(c, a, b)
<1>1. c = [about |-> c.about, act |-> act, todo |-> <<a, b, d, e, f>>] /\ c.about \in Reporters
  BY DEF CallsOf
<1>2. Tail(c.todo) = <<b, d, e, f>> /\ <<b, d, e, f>> # <<>>
  OBVIOUS
<1>3. Rest(c) = [about |-> c.about, act |-> act, todo |-> <<b, d, e, f>>]
  BY <1>1, <1>2 DEF Rest
<1>4. Rest(c) \in CallsOf(act, todos)
  BY <1>1, <1>3 DEF CallsOf
<1> QED BY <1>1, <1>3, <1>4 DEF At, Leads

LEMMA CreateLeads ==
  ASSUME NEW c \in CreateCalls
  PROVE  /\ c.act = "create" /\ c.about \in Reporters
         /\ \/ Leads(c, "find", "insert")
            \/ Leads(c, "insert", "count")
            \/ Finishes(c, "count")
            \/ Leads(c, "hide", "alert")
            \/ Finishes(c, "alert")
<1> DEFINE todos == {<<"find", "insert", "count">>, <<"insert", "count">>, <<"count">>, <<"hide", "alert">>, <<"alert">>}
<1>1. c \in CallsOf("create", todos) /\ CallsOf("create", todos) \subseteq Calls
  BY DEF CreateCalls, Calls
<1>2. c.act = "create" /\ c.about \in Reporters /\ c.todo \in todos
  BY <1>1 DEF CallsOf
<1>3. c.todo = <<"find", "insert", "count">> => Leads(c, "find", "insert")
  BY <1>1, ThreeLeft
<1>4. c.todo = <<"insert", "count">> => Leads(c, "insert", "count")
  BY <1>1, TwoLeft
<1>5. c.todo = <<"count">> => Finishes(c, "count")
  BY OneLeft
<1>6. c.todo = <<"hide", "alert">> => Leads(c, "hide", "alert")
  BY <1>1, TwoLeft
<1>7. c.todo = <<"alert">> => Finishes(c, "alert")
  BY OneLeft
<1> QED BY <1>2, <1>3, <1>4, <1>5, <1>6, <1>7

LEMMA RemoveLeads ==
  ASSUME NEW c \in RemoveCalls
  PROVE  /\ c.act = "REMOVE" /\ c.about \in Reporters
         /\ \/ Leads(c, "hide", "review")
            \/ Leads(c, "review", "log")
            \/ Finishes(c, "log")
<1> DEFINE todos == {<<"hide", "review", "log">>, <<"review", "log">>, <<"log">>}
<1>1. c \in CallsOf("REMOVE", todos) /\ CallsOf("REMOVE", todos) \subseteq Calls
  BY DEF RemoveCalls, Calls
<1>2. c.act = "REMOVE" /\ c.about \in Reporters /\ c.todo \in todos
  BY <1>1 DEF CallsOf
<1>3. c.todo = <<"hide", "review", "log">> => Leads(c, "hide", "review")
  BY <1>1, ThreeLeft
<1>4. c.todo = <<"review", "log">> => Leads(c, "review", "log")
  BY <1>1, TwoLeft
<1>5. c.todo = <<"log">> => Finishes(c, "log")
  BY OneLeft
<1> QED BY <1>2, <1>3, <1>4, <1>5

LEMMA WarnLeads ==
  ASSUME NEW c \in WarnCalls
  PROVE  /\ c.act = "WARN" /\ c.about \in Reporters
         /\ \/ Leads(c, "warn", "push")
            \/ Leads(c, "push", "review")
            \/ Leads(c, "review", "log")
            \/ Finishes(c, "log")
<1> DEFINE todos == {<<"warn", "push", "review", "log">>, <<"push", "review", "log">>, <<"review", "log">>, <<"log">>}
<1>1. c \in CallsOf("WARN", todos) /\ CallsOf("WARN", todos) \subseteq Calls
  BY DEF WarnCalls, Calls
<1>2. c.act = "WARN" /\ c.about \in Reporters /\ c.todo \in todos
  BY <1>1 DEF CallsOf
<1>3. c.todo = <<"warn", "push", "review", "log">> => Leads(c, "warn", "push")
  BY <1>1, FourLeft
<1>4. c.todo = <<"push", "review", "log">> => Leads(c, "push", "review")
  BY <1>1, ThreeLeft
<1>5. c.todo = <<"review", "log">> => Leads(c, "review", "log")
  BY <1>1, TwoLeft
<1>6. c.todo = <<"log">> => Finishes(c, "log")
  BY OneLeft
<1> QED BY <1>2, <1>3, <1>4, <1>5, <1>6

LEMMA SuspendLeads ==
  ASSUME NEW c \in SuspendCalls
  PROVE  /\ c.act = "SUSPEND" /\ c.about \in Reporters
         /\ \/ Leads(c, "suspend", "expel")
            \/ Leads(c, "expel", "push")
            \/ Leads(c, "push", "review")
            \/ Leads(c, "review", "log")
            \/ Finishes(c, "log")
<1> DEFINE todos == {<<"suspend", "expel", "push", "review", "log">>, <<"expel", "push", "review", "log">>, <<"push", "review", "log">>, <<"review", "log">>, <<"log">>}
<1>1. c \in CallsOf("SUSPEND", todos) /\ CallsOf("SUSPEND", todos) \subseteq Calls
  BY DEF SuspendCalls, Calls
<1>2. c.act = "SUSPEND" /\ c.about \in Reporters /\ c.todo \in todos
  BY <1>1 DEF CallsOf
<1>3. c.todo = <<"suspend", "expel", "push", "review", "log">> => Leads(c, "suspend", "expel")
  BY <1>1, FiveLeft
<1>4. c.todo = <<"expel", "push", "review", "log">> => Leads(c, "expel", "push")
  BY <1>1, FourLeft
<1>5. c.todo = <<"push", "review", "log">> => Leads(c, "push", "review")
  BY <1>1, ThreeLeft
<1>6. c.todo = <<"review", "log">> => Leads(c, "review", "log")
  BY <1>1, TwoLeft
<1>7. c.todo = <<"log">> => Finishes(c, "log")
  BY OneLeft
<1> QED BY <1>2, <1>3, <1>4, <1>5, <1>6, <1>7

LEMMA DismissLeads ==
  ASSUME NEW c \in DismissCalls
  PROVE  /\ c.act = "DISMISS" /\ c.about \in Reporters
         /\ \/ Leads(c, "dismiss", "discount")
            \/ Leads(c, "discount", "log")
            \/ Leads(c, "show", "log")
            \/ Finishes(c, "log")
<1> DEFINE todos == {<<"dismiss", "discount", "log">>, <<"discount", "log">>, <<"show", "log">>, <<"log">>}
<1>1. c \in CallsOf("DISMISS", todos) /\ CallsOf("DISMISS", todos) \subseteq Calls
  BY DEF DismissCalls, Calls
<1>2. c.act = "DISMISS" /\ c.about \in Reporters /\ c.todo \in todos
  BY <1>1 DEF CallsOf
<1>3. c.todo = <<"dismiss", "discount", "log">> => Leads(c, "dismiss", "discount")
  BY <1>1, ThreeLeft
<1>4. c.todo = <<"discount", "log">> => Leads(c, "discount", "log")
  BY <1>1, TwoLeft
<1>5. c.todo = <<"show", "log">> => Leads(c, "show", "log")
  BY <1>1, TwoLeft
<1>6. c.todo = <<"log">> => Finishes(c, "log")
  BY OneLeft
<1> QED BY <1>2, <1>3, <1>4, <1>5, <1>6

LEMMA IdleCall == Idle \in Calls /\ At(Idle) = "idle" /\ Idle.act = "none"
BY DEF Idle, Calls, At

\* Every call that may stand before a statement, and what it comes to next.
LEMMA Program ==
  ASSUME CallInv, NEW s \in Slots
  PROVE  /\ Upcoming(s) = "idle" <=> call[s] = Idle
         /\ call[s] # Idle => call[s].about \in Reporters /\ call[s].act \in Actions \cup {"create"}
         /\ Upcoming(s) = "find" => IsCreate(s) /\ Leads(call[s], "find", "insert")
         /\ Upcoming(s) = "insert" => IsCreate(s) /\ Leads(call[s], "insert", "count")
         /\ Upcoming(s) = "count" => IsCreate(s)
         /\ Upcoming(s) = "hide" /\ IsCreate(s) => Leads(call[s], "hide", "alert")
         /\ Upcoming(s) = "alert" => IsCreate(s) /\ Finishes(call[s], "alert")
         /\ Upcoming(s) = "hide" /\ ~IsCreate(s) =>
              call[s].act = "REMOVE" /\ Leads(call[s], "hide", "review")
         /\ Upcoming(s) = "warn" => call[s].act = "WARN" /\ Leads(call[s], "warn", "push")
         /\ Upcoming(s) = "suspend" => call[s].act = "SUSPEND" /\ Leads(call[s], "suspend", "expel")
         /\ Upcoming(s) = "expel" => call[s].act = "SUSPEND" /\ Leads(call[s], "expel", "push")
         /\ Upcoming(s) = "push" =>
              call[s].act \in {"WARN", "SUSPEND"} /\ Leads(call[s], "push", "review")
         /\ Upcoming(s) = "review" =>
              call[s].act \in {"REMOVE", "WARN", "SUSPEND"} /\ Leads(call[s], "review", "log")
         /\ Upcoming(s) = "dismiss" =>
              call[s].act = "DISMISS" /\ Leads(call[s], "dismiss", "discount")
         /\ Upcoming(s) = "discount" => call[s].act = "DISMISS" /\ Leads(call[s], "discount", "log")
         /\ Upcoming(s) = "show" => call[s].act = "DISMISS" /\ Leads(call[s], "show", "log")
         /\ Upcoming(s) = "log" => call[s].act \in Actions /\ Finishes(call[s], "log")
<1> DEFINE c == call[s]
<1>1. c \in Calls /\ Upcoming(s) = At(c)
  BY DEF CallInv, Upcoming, At
<1> HIDE DEF c
<1>2. CASE c = Idle
  BY <1>1, <1>2, IdleCall DEF c
<1>3. CASE c \in CreateCalls
  <2>1. c # Idle
    BY <1>3, CreateLeads, IdleCall
  <2> QED BY <1>1, <1>3, <2>1, CreateLeads DEF c, IsCreate, Leads, Finishes
<1>4. CASE c \in RemoveCalls
  <2>1. c # Idle
    BY <1>4, RemoveLeads, IdleCall
  <2> QED BY <1>1, <1>4, <2>1, RemoveLeads DEF c, IsCreate, Leads, Finishes, Actions
<1>5. CASE c \in WarnCalls
  <2>1. c # Idle
    BY <1>5, WarnLeads, IdleCall
  <2> QED BY <1>1, <1>5, <2>1, WarnLeads DEF c, IsCreate, Leads, Finishes, Actions
<1>6. CASE c \in SuspendCalls
  <2>1. c # Idle
    BY <1>6, SuspendLeads, IdleCall
  <2> QED BY <1>1, <1>6, <2>1, SuspendLeads DEF c, IsCreate, Leads, Finishes, Actions
<1>7. CASE c \in DismissCalls
  <2>1. c # Idle
    BY <1>7, DismissLeads, IdleCall
  <2> QED BY <1>1, <1>7, <2>1, DismissLeads DEF c, IsCreate, Leads, Finishes, Actions
<1> QED BY <1>1, <1>2, <1>3, <1>4, <1>5, <1>6, <1>7 DEF Calls

LEMMA AdvanceLeads ==
  ASSUME CallInv, NEW s \in Slots, Advances(s), NEW a, NEW b, Leads(call[s], a, b), b # "idle"
  PROVE  /\ CallInv'
         /\ Upcoming(s)' = b /\ call'[s].act = call[s].act /\ call'[s].about = call[s].about
         /\ \A k \in Slots \ {s} : call'[k] = call[k]
<1>1. call' = [call EXCEPT ![s] = Rest(call[s])]
  BY DEF Advances, Goes, Rest
<1>2. call'[s] = Rest(call[s]) /\ Rest(call[s]) \in Calls /\ At(Rest(call[s])) = b
  BY <1>1 DEF CallInv, Leads
<1>3. Upcoming(s)' = b
  BY <1>2 DEF Upcoming, At
<1> QED BY <1>1, <1>2, <1>3 DEF CallInv, Leads

LEMMA AdvanceFinishes ==
  ASSUME CallInv, NEW s \in Slots, Advances(s), NEW a, Finishes(call[s], a)
  PROVE  /\ CallInv' /\ Upcoming(s)' = "idle" /\ call'[s] = Idle
         /\ \A k \in Slots \ {s} : call'[k] = call[k]
<1>1. call' = [call EXCEPT ![s] = Rest(call[s])]
  BY DEF Advances, Goes, Rest
<1>2. call'[s] = Idle
  BY <1>1 DEF CallInv, Finishes
<1> QED BY <1>1, <1>2, IdleCall DEF CallInv, Upcoming, At

\* The same for the two statements that choose what comes next.
LEMMA GoesOn ==
  ASSUME CallInv, NEW s \in Slots, NEW todo, Goes(s, todo), todo # <<>>,
         [call[s] EXCEPT !.todo = todo] \in Calls
  PROVE  /\ CallInv'
         /\ Upcoming(s)' = Head(todo) /\ call'[s].act = call[s].act
         /\ call'[s].about = call[s].about
         /\ \A k \in Slots \ {s} : call'[k] = call[k]
<1>1. call' = [call EXCEPT ![s] = [call[s] EXCEPT !.todo = todo]]
  BY DEF Goes
<1>2. call'[s] = [call[s] EXCEPT !.todo = todo]
  BY <1>1 DEF CallInv
<1>3. \E r \in Calls : r = call[s] /\ r = [about |-> r.about, act |-> r.act, todo |-> r.todo]
  BY DEF CallInv, Calls, CreateCalls, RemoveCalls, WarnCalls, SuspendCalls, DismissCalls, CallsOf, Idle
<1>4. /\ call'[s].todo = todo /\ call'[s].act = call[s].act /\ call'[s].about = call[s].about
  BY <1>2, <1>3
<1> QED BY <1>1, <1>2, <1>4 DEF CallInv, Upcoming

LEMMA SetsStep ==
  ASSUME NEW s \in Slots, \A k \in Slots \ {s} : call'[k] = call[k]
  PROVE  /\ Upcoming(s)' = "count" => Counting' = Counting \cup {s}
         /\ Upcoming(s)' # "count" => Counting' = Counting \ {s}
         /\ IsCreate(s)' /\ Upcoming(s)' = "hide" => Hiding' = Hiding \cup {s}
         /\ ~(IsCreate(s)' /\ Upcoming(s)' = "hide") => Hiding' = Hiding \ {s}
         /\ Upcoming(s)' = "show" => Showing' = Showing \cup {s}
         /\ Upcoming(s)' # "show" => Showing' = Showing \ {s}
<1>1. \A k \in Slots \ {s} : Upcoming(k)' = Upcoming(k) /\ IsCreate(k)' = IsCreate(k)
  BY DEF Upcoming, IsCreate
<1> QED BY <1>1 DEF Counting, Hiding, Showing

LEMMA Sizes ==
  /\ IsFiniteSet(Counting) /\ Cardinality(Counting) \in Nat
  /\ IsFiniteSet(Filed) /\ Cardinality(Filed) \in Nat
  /\ Threshold \in Nat \ {0}
<1>1. Counting \subseteq Slots /\ Filed \subseteq Reporters
  BY DEF Counting, Filed
<1> QED BY <1>1, FS_Subset, FS_CardinalityType, ReportsAssumption DEF ReportsAssumption

-----------------------------------------------------------------------------
LEMMA ReportInit == Init => ReportInv
<1> SUFFICES ASSUME Init PROVE ReportInv
  OBVIOUS
<1>1. TypeOK
  <2>1. live \in BOOLEAN /\ hidden \in BOOLEAN
    BY DEF Init
  <2> QED BY <2>1 DEF Init, TypeOK, Accounts
<1>2. CallInv
  BY IdleCall DEF Init, CallInv
<1>3. \A s \in Slots : call[s] = Idle /\ Upcoming(s) = "idle"
  BY DEF Init, Upcoming, Idle
<1>4. DoneInv /\ LoggedInv
  BY <1>3, IdleCall DEF DoneInv, DoneAt, LoggedInv, Actions, Init
<1>5. Counting = {} /\ Hiding = {} /\ Showing = {} /\ Filed = {}
  BY <1>3 DEF Counting, Hiding, Showing, Filed, Init
<1>6. Cardinality(Counting) = 0 /\ Cardinality(Filed) = 0
  BY <1>5, FS_EmptySet
<1>7. CountInv
  BY <1>6 DEF CountInv, CountIsExact, Counting, Init
<1>8. HideInv /\ SeenInv
  BY <1>5, <1>6, Sizes DEF HideInv, HiddenOnlyByMany, SeenInv, Init
<1> QED BY <1>1, <1>2, <1>4, <1>7, <1>8 DEF ReportInv

LEMMA TypeStep == TypeOK /\ CallInv /\ [Next]_vars => TypeOK'
<1> SUFFICES ASSUME TypeOK, CallInv, [Next]_vars PROVE TypeOK'
  OBVIOUS
<1> DEFINE Flags == live' \in BOOLEAN /\ hidden' \in BOOLEAN
<1> DEFINE Columns ==
      /\ kind' \in Kinds /\ count' \in Int
      /\ report' \in [Reporters -> {"none", "PENDING", "REVIEWED", "DISMISSED"}]
      /\ account' \in Accounts
      /\ queue' \subseteq {"auto.hidden", "suspend.user"}
      /\ log' \subseteq [about : Reporters, action : Actions]
<1>1. Flags
  BY DEF TypeOK, historyVars, vars, Next, CreateStep, ActionStep, CreateValidates, CreateFinds,
         CreateInserts, CreateCounts, CreateHides, CreateAlerts, SetHidden, ActionStarts,
         ActionHides, ActionJudges, ActionExpels, ActionNotifies, ActionMarks, ActionDiscounts,
         ActionShows, ActionLogs, Stops, TargetDeleted, ToggleBookHidden, UpdateUserStatus
<1>2. Columns
  <2> USE DEF TypeOK, historyVars
  <2>1. ASSUME NEW s \in Slots, CreateStep(s) PROVE Columns
    <3>1. CASE CreateValidates(s) \/ CreateFinds(s) \/ CreateHides(s) \/ CreateAlerts(s)
      BY <3>1 DEF CreateValidates, CreateFinds, CreateHides, CreateAlerts
    <3>2. CASE CreateInserts(s)
      BY <3>2 DEF CreateInserts
    <3>3. CASE CreateCounts(s)
      <4>1. count' = count \/ count' = count + 1
        BY <3>3 DEF CreateCounts
      <4> QED BY <3>3, <4>1 DEF CreateCounts
    <3> QED BY <2>1, <3>1, <3>2, <3>3 DEF CreateStep
  <2>2. ASSUME NEW s \in Slots, ActionStep(s) PROVE Columns
    <3>1. CASE ActionStarts(s) \/ ActionHides(s) \/ ActionNotifies(s) \/ ActionShows(s)
      BY <3>1 DEF ActionStarts, ActionHides, ActionNotifies, ActionShows
    <3>2. CASE ActionJudges(s) \/ ActionExpels(s)
      BY <3>2 DEF ActionJudges, ActionExpels, Accounts
    <3>3. CASE ActionDiscounts(s)
      BY <3>3 DEF ActionDiscounts
    <3>4. CASE ActionMarks(s)
      BY <3>4 DEF ActionMarks, Outcome
    <3>5. CASE ActionLogs(s)
      <4>1. call[s].about \in Reporters /\ call[s].act \in Actions
        BY <3>5, Program, IdleCall DEF ActionLogs
      <4> QED BY <3>5, <4>1 DEF ActionLogs
    <3> QED BY <2>2, <3>1, <3>2, <3>3, <3>4, <3>5 DEF ActionStep
  <2>3. ASSUME NEW s \in Slots, Stops(s) PROVE Columns
    BY <2>3 DEF Stops
  <2>4. CASE TargetDeleted \/ ToggleBookHidden \/ UpdateUserStatus
    BY <2>4 DEF TargetDeleted, ToggleBookHidden, UpdateUserStatus
  <2>5. CASE UNCHANGED vars
    BY <2>5 DEF vars
  <2> QED BY <2>1, <2>2, <2>3, <2>4, <2>5 DEF Next
<1> QED BY <1>1, <1>2 DEF TypeOK

-----------------------------------------------------------------------------
(* What the steps of a call do to the other calls and to the log.          *)
LEMMA DoneStep ==
  ASSUME CallInv, DoneInv, LoggedInv, TypeOK, NEW s \in Slots,
         \A k \in Slots \ {s} : call'[k] = call[k],
         \A p \in Reporters : report[p] # "none" =>
           report'[p] = report[p] \/ report'[p] \in {"REVIEWED", "DISMISSED"},
         queue \subseteq queue', DoneAt(s)'
  PROVE  DoneInv' /\ (log' = log => LoggedInv')
<1>1. ASSUME NEW k \in Slots, k # s PROVE DoneAt(k)'
  <2>1. call'[k] = call[k] /\ Upcoming(k)' = Upcoming(k) /\ DoneAt(k)
    BY <1>1 DEF Upcoming, DoneInv
  <2>2. call[k].act \in Actions => call[k].about \in Reporters
    BY Program, IdleCall DEF Actions
  <2>3. call[k].act = "SUSPEND" => call[k].act \in Actions
    BY DEF Actions
  <2> QED BY <2>1, <2>2, <2>3 DEF DoneAt
<1>2. log' = log => LoggedInv'
  <2>1. \A entry \in log : entry.about \in Reporters
    BY DEF TypeOK
  <2> QED BY <2>1 DEF LoggedInv
<1> QED BY <1>1, <1>2 DEF DoneInv

Crossings == CountInv /\ HideInv /\ SeenInv

LEMMA AsideStep ==
  ASSUME Crossings,
         UNCHANGED <<Counting, Hiding, Showing, Filed, kind, live, hidden, count, byHand, discounts,
                     raced, lost>>
  PROVE  Crossings'
BY DEF Crossings, CountInv, CountIsExact, Counting, HideInv, HiddenOnlyByMany, SeenInv

\* A call moves on that neither comes from nor gets to where it counts or shows.
LEMMA PassingStep ==
  ASSUME Crossings, NEW s \in Slots, \A k \in Slots \ {s} : call'[k] = call[k],
         Upcoming(s) \notin {"count", "show"}, ~(IsCreate(s) /\ Upcoming(s) = "hide"),
         Upcoming(s)' \notin {"count", "show"}, ~(IsCreate(s)' /\ Upcoming(s)' = "hide"),
         UNCHANGED <<Filed, kind, live, hidden, count, byHand, discounts, raced, lost>>
  PROVE  Crossings'
<1>1. s \notin Counting /\ s \notin Hiding /\ s \notin Showing
  BY DEF Counting, Hiding, Showing
<1>2. Counting' = Counting /\ Hiding' = Hiding /\ Showing' = Showing
  BY <1>1, SetsStep
<1> QED BY <1>2, AsideStep

LEMMA InsertStep ==
  ASSUME ReportInv, NEW s \in Slots, CreateInserts(s)
  PROVE  ReportInv'
<1> DEFINE p == call[s].about
<1> USE DEF ReportInv
<1>1. IsCreate(s) /\ Leads(call[s], "insert", "count") /\ p \in Reporters /\ Advances(s)
  BY Program, IdleCall DEF CreateInserts
<1>2. /\ CallInv' /\ Upcoming(s)' = "count" /\ call'[s].act = "create"
      /\ \A k \in Slots \ {s} : call'[k] = call[k]
  BY <1>1, AdvanceLeads DEF IsCreate
<1>3. /\ UNCHANGED <<kind, live, hidden, count, queue, log, byHand, discounts, raced, lost>>
      /\ p \notin Filed /\ Filed' = Filed \cup {p}
      /\ \A r \in Reporters : report[r] # "none" => report'[r] = report[r]
  BY <1>1 DEF CreateInserts, MayInsert, Filed, TypeOK, historyVars
<1>4. DoneAt(s)'
  BY <1>2 DEF DoneAt, Actions
<1>5. DoneInv' /\ LoggedInv'
  BY <1>2, <1>3, <1>4, DoneStep
<1>6. s \notin Counting /\ Counting' = Counting \cup {s}
  BY <1>2, SetsStep DEF Counting, CreateInserts
<1>7. Hiding' = Hiding /\ Showing' = Showing
  <2>1. s \notin Hiding /\ s \notin Showing
    BY DEF Hiding, Showing, CreateInserts
  <2> QED BY <1>2, <2>1, SetsStep
<1>8. /\ Cardinality(Counting') = Cardinality(Counting) + 1
      /\ Cardinality(Filed') = Cardinality(Filed) + 1
  BY <1>3, <1>6, Sizes, FS_AddElement
<1>9. CountInv'
  BY <1>3, <1>8, Sizes DEF CountInv, CountIsExact, Counting, TypeOK
<1>10. HideInv'
  BY <1>3, <1>7, <1>8, Sizes DEF HideInv, HiddenOnlyByMany
<1>11. SeenInv'
  BY <1>3, <1>6, <1>7 DEF SeenInv
<1>12. TypeOK'
  BY TypeStep DEF Next, CreateStep
<1> QED BY <1>2, <1>5, <1>9, <1>10, <1>11, <1>12

LEMMA CountStep ==
  ASSUME ReportInv, NEW s \in Slots, CreateCounts(s)
  PROVE  ReportInv'
<1> DEFINE counted == IF kind = "MESSAGE" THEN Cardinality(Filed) ELSE count + 1
<1> USE DEF ReportInv
<1>1. Upcoming(s) = "count" /\ IsCreate(s) /\ call[s] # Idle /\ call[s].about \in Reporters
  BY Program, IdleCall DEF CreateCounts
<1>2. /\ CallInv' /\ (Reached(counted) => Upcoming(s)' = "hide" /\ IsCreate(s)')
      /\ (~Reached(counted) => Upcoming(s)' = "idle")
      /\ call'[s].act \in {"create", "none"}
      /\ \A k \in Slots \ {s} : call'[k] = call[k]
  <2>1. CASE Reached(counted)
    <3>1. Goes(s, <<"hide", "alert">>)
      BY <2>1 DEF CreateCounts, UponReached
    <3>2. call[s] \in CreateCalls
      BY <1>1, CreateLeads, RemoveLeads, WarnLeads, SuspendLeads, DismissLeads
      DEF CallInv, Calls, IsCreate
    <3>3. [call[s] EXCEPT !.todo = <<"hide", "alert">>] \in CreateCalls
      BY <3>2 DEF CreateCalls, CallsOf
    <3>4. [call[s] EXCEPT !.todo = <<"hide", "alert">>] \in Calls
      BY <3>3 DEF Calls
    <3>5. <<"hide", "alert">> # <<>> /\ Head(<<"hide", "alert">>) = "hide"
      OBVIOUS
    <3> QED BY <1>1, <2>1, <3>1, <3>4, <3>5, GoesOn DEF IsCreate
  <2>2. CASE ~Reached(counted)
    <3>1. call' = [call EXCEPT ![s] = Idle]
      BY <2>2 DEF CreateCounts, Goes
    <3> QED BY <2>2, <3>1, IdleCall DEF CallInv, Upcoming, At
  <2> QED BY <2>1, <2>2
<1>3. /\ UNCHANGED <<kind, live, hidden, report, queue, log, byHand, discounts, lost>>
      /\ kind = "MESSAGE" => count' = count
      /\ kind # "MESSAGE" => count' = count + 1
      /\ Filed' = Filed
  BY DEF CreateCounts, Filed
<1>4. ~raced' => ~raced /\ (Reached(counted) => Showing = {})
  BY DEF CreateCounts, SomeAbout, Showing
<1>5. DoneInv' /\ LoggedInv'
  <2>1. DoneAt(s)'
    BY <1>2 DEF DoneAt, Actions
  <2> QED BY <1>2, <1>3, <2>1, DoneStep
<1>6. s \in Counting /\ Counting' = Counting \ {s}
  BY <1>1, <1>2, SetsStep DEF Counting
<1>7. Cardinality(Counting') = Cardinality(Counting) - 1 /\ Cardinality(Counting) >= 1
  BY <1>6, Sizes, FS_RemoveElement, FS_CardinalityType, FS_Subset
<1>8. Showing' = Showing
  <2>1. s \notin Showing
    BY <1>1 DEF Showing
  <2> QED BY <1>2, <2>1, SetsStep
<1>9. (Reached(counted) => Hiding' = Hiding \cup {s}) /\ (~Reached(counted) => Hiding' = Hiding)
  <2>1. s \notin Hiding
    BY <1>1 DEF Hiding
  <2> QED BY <1>2, <2>1, SetsStep
<1>10. CountInv'
  BY <1>3, <1>7, Sizes DEF CountInv, CountIsExact, Counting, TypeOK
<1>11. HideInv'
  <2>1. kind # "MESSAGE" => count + 1 <= Cardinality(Filed)
    BY <1>7, Sizes DEF CountInv, TypeOK
  <2>2. Reached(counted) => Cardinality(Filed) >= Threshold
    BY <2>1, Sizes DEF Reached, TypeOK
  <2> QED BY <1>3, <1>9, <2>2 DEF HideInv, HiddenOnlyByMany
<1>12. SeenInv'
  <2>1. kind = "BOOK" => (Reached(counted) <=> count' >= Threshold)
    BY <1>3 DEF Reached
  <2>2. kind = "MESSAGE" => (Reached(counted) <=> Cardinality(Filed) >= Threshold)
    BY DEF Reached
  <2>3. kind = "BOOK" /\ ~Reached(counted) => count < Threshold
    BY Sizes DEF Reached, TypeOK
  <2> QED BY <1>3, <1>4, <1>8, <1>9, <2>1, <2>2, <2>3, Sizes DEF SeenInv, TypeOK
<1>13. TypeOK'
  BY TypeStep DEF Next, CreateStep
<1> QED BY <1>2, <1>5, <1>10, <1>11, <1>12, <1>13

LEMMA HideStep ==
  ASSUME ReportInv, NEW s \in Slots, CreateHides(s)
  PROVE  ReportInv'
<1> USE DEF ReportInv
<1>1. IsCreate(s) /\ Upcoming(s) = "hide" /\ Leads(call[s], "hide", "alert") /\ Advances(s)
  BY Program DEF CreateHides
<1>2. /\ CallInv' /\ Upcoming(s)' = "alert" /\ call'[s].act = "create"
      /\ \A k \in Slots \ {s} : call'[k] = call[k]
  BY <1>1, AdvanceLeads DEF IsCreate
<1>3. /\ UNCHANGED <<kind, live, count, report, queue, log, byHand, discounts, raced, lost>>
      /\ Filed' = Filed
  BY DEF CreateHides, Filed, historyVars
<1>4. (kind = "USER" => hidden' = hidden) /\ (kind # "USER" => hidden')
  BY DEF CreateHides, SetHidden
<1>5. DoneInv' /\ LoggedInv'
  <2>1. DoneAt(s)'
    BY <1>2 DEF DoneAt, Actions
  <2> QED BY <1>2, <1>3, <2>1, DoneStep
<1>6. s \in Hiding /\ Counting' = Counting /\ Showing' = Showing
  <2>1. s \in Hiding /\ s \notin Counting /\ s \notin Showing
    BY <1>1 DEF Hiding, Counting, Showing
  <2> QED BY <1>2, <2>1, SetsStep
<1>7. Hiding' \subseteq Hiding
  BY <1>2, SetsStep
<1>8. CountInv'
  BY <1>3, <1>6 DEF CountInv, CountIsExact, Counting
<1>9. HideInv'
  BY <1>3, <1>6, <1>7 DEF HideInv, HiddenOnlyByMany
<1>10. SeenInv'
  <2>1. kind \in {"BOOK", "MESSAGE"} => hidden'
    BY <1>4
  <2>2. live /\ ~byHand /\ ~raced /\ ~lost /\ kind = "BOOK" => count >= Threshold /\ Showing = {}
    BY <1>6, Sizes DEF SeenInv, TypeOK
  <2> QED BY <1>3, <1>6, <1>7, <2>1, <2>2, Sizes DEF SeenInv, TypeOK
<1>11. TypeOK'
  BY TypeStep DEF Next, CreateStep
<1> QED BY <1>2, <1>5, <1>8, <1>9, <1>10, <1>11

LEMMA DiscountStep ==
  ASSUME ReportInv, NEW s \in Slots, ActionDiscounts(s)
  PROVE  ReportInv'
<1> DEFINE left == IF kind = "MESSAGE"
                   THEN Cardinality({p \in Reporters : report[p] = "PENDING"}) ELSE count - 1
<1> DEFINE next == IF Below(left) THEN <<"show", "log">> ELSE <<"log">>
<1> USE DEF ReportInv
<1>1. /\ Upcoming(s) = "discount" /\ call[s].act = "DISMISS" /\ ~IsCreate(s)
      /\ call[s].about \in Reporters /\ call[s] \in Calls
  BY Program, IdleCall DEF ActionDiscounts, IsCreate, CallInv
<1>2. /\ CallInv' /\ (Below(left) => Upcoming(s)' = "show") /\ (~Below(left) => Upcoming(s)' = "log")
      /\ call'[s].act = "DISMISS" /\ call'[s].about = call[s].about
      /\ \A k \in Slots \ {s} : call'[k] = call[k]
  <2>1. Goes(s, next)
    BY DEF ActionDiscounts
  <2>2. call[s] \in DismissCalls
    BY <1>1, IdleCall, CreateLeads, RemoveLeads, WarnLeads, SuspendLeads DEF Calls
  <2>3. \A todo \in {<<"show", "log">>, <<"log">>} : [call[s] EXCEPT !.todo = todo] \in DismissCalls
    BY <2>2 DEF DismissCalls, CallsOf
  <2>4. next \in {<<"show", "log">>, <<"log">>}
    OBVIOUS
  <2>5. [call[s] EXCEPT !.todo = next] \in Calls
    <3> HIDE DEF next
    <3> QED BY <2>3, <2>4 DEF Calls
  <2>6. /\ next # <<>> /\ (Below(left) => Head(next) = "show") /\ (~Below(left) => Head(next) = "log")
    OBVIOUS
  <2> HIDE DEF next, left
  <2> QED BY <1>1, <2>1, <2>5, <2>6, GoesOn
<1>3. /\ UNCHANGED <<kind, live, hidden, report, queue, log, byHand, lost>>
      /\ discounts' = discounts + 1
      /\ kind = "MESSAGE" => count' = count
      /\ kind # "MESSAGE" => count' = count - 1
      /\ Filed' = Filed
  BY DEF ActionDiscounts, Filed
<1>4. ~raced' => ~raced /\ (Below(left) => Hiding = {})
  BY DEF ActionDiscounts, Hiding
<1>5. DoneInv' /\ LoggedInv'
  <2>1. DoneAt(s)
    BY DEF DoneInv
  <2>2. DoneAt(s)'
    BY <1>1, <1>2, <1>3, <2>1 DEF DoneAt, Actions
  <2> QED BY <1>2, <1>3, <2>2, DoneStep
<1>6. Counting' = Counting /\ Hiding' = Hiding
  <2>1. s \notin Counting /\ s \notin Hiding
    BY <1>1 DEF Counting, Hiding
  <2>2. Upcoming(s)' # "count" /\ Upcoming(s)' # "hide"
    BY <1>2
  <2> QED BY <1>2, <2>1, <2>2, SetsStep
<1>7. /\ Below(left) => Showing' = Showing \cup {s}
      /\ ~Below(left) => Showing' = Showing
  <2>1. s \notin Showing
    BY <1>1 DEF Showing
  <2>2. ~Below(left) => Upcoming(s)' # "show"
    BY <1>2
  <2> QED BY <1>2, <2>1, <2>2, SetsStep
<1>8. CountInv'
  <2>1. Cardinality(Counting') = Cardinality(Counting) /\ Cardinality(Filed') = Cardinality(Filed)
    BY <1>3, <1>6
  <2> QED BY <1>3, <2>1, Sizes DEF CountInv, CountIsExact, Counting, TypeOK
<1>9. HideInv'
  BY <1>3, <1>6 DEF HideInv, HiddenOnlyByMany
<1>10. SeenInv'
  <2>1. kind = "BOOK" => (Below(left) <=> count' < Threshold)
    BY <1>3 DEF Below
  <2>2. kind = "BOOK" /\ count' >= Threshold => count >= Threshold
    BY <1>3, Sizes DEF TypeOK
  <2>3. discounts' >= 1 /\ discounts' # 0
    BY <1>3 DEF CountInv
  <2>4. kind = "BOOK" /\ count >= Threshold => ~(count < Threshold)
    BY Sizes DEF TypeOK
  <2>5. kind = "BOOK" /\ count' >= Threshold => ~(count' < Threshold)
    BY <1>3, Sizes DEF TypeOK
  <2>6. kind = "BOOK" /\ ~(count' < Threshold) => count' >= Threshold
    BY <1>3, Sizes DEF TypeOK
  <2> HIDE DEF left
  <2> QED BY <1>3, <1>4, <1>6, <1>7, <2>1, <2>2, <2>3, <2>4, <2>5, <2>6 DEF SeenInv
<1>11. TypeOK'
  BY TypeStep DEF Next, ActionStep
<1> QED BY <1>2, <1>5, <1>8, <1>9, <1>10, <1>11

LEMMA ShowStep ==
  ASSUME ReportInv, NEW s \in Slots, ActionShows(s)
  PROVE  ReportInv'
<1> USE DEF ReportInv
<1>1. /\ Upcoming(s) = "show" /\ call[s].act = "DISMISS" /\ ~IsCreate(s)
      /\ Leads(call[s], "show", "log") /\ Advances(s)
  BY Program DEF ActionShows, IsCreate
<1>2. /\ CallInv' /\ Upcoming(s)' = "log"
      /\ call'[s].act = "DISMISS" /\ call'[s].about = call[s].about
      /\ \A k \in Slots \ {s} : call'[k] = call[k]
  BY <1>1, AdvanceLeads
<1>3. /\ UNCHANGED <<kind, live, count, report, queue, log, byHand, discounts, raced, lost>>
      /\ Filed' = Filed
  BY DEF ActionShows, Filed, historyVars
<1>4. (kind = "USER" => hidden' = hidden) /\ (kind # "USER" => ~hidden')
  BY DEF ActionShows, SetHidden
<1>5. DoneInv' /\ LoggedInv'
  <2>1. DoneAt(s)
    BY DEF DoneInv
  <2>2. DoneAt(s)'
    BY <1>1, <1>2, <1>3, <2>1 DEF DoneAt, Actions
  <2> QED BY <1>2, <1>3, <2>2, DoneStep
<1>6. s \in Showing /\ Counting' = Counting /\ Hiding' = Hiding
  <2>1. s \in Showing /\ s \notin Counting /\ s \notin Hiding
    BY <1>1 DEF Hiding, Counting, Showing
  <2>2. Upcoming(s)' # "count" /\ Upcoming(s)' # "hide"
    BY <1>2
  <2> QED BY <1>2, <2>1, <2>2, SetsStep
<1>7. Showing' \subseteq Showing
  BY <1>2, SetsStep
<1>8. CountInv'
  BY <1>3, <1>6 DEF CountInv, CountIsExact, Counting
<1>9. HideInv'
  <2>1. hidden' => hidden
    BY <1>4
  <2> QED BY <1>3, <1>6, <2>1 DEF HideInv, HiddenOnlyByMany
<1>10. SeenInv'
  <2>1. discounts >= 1 /\ discounts # 0
    BY <1>6 DEF SeenInv, CountInv
  <2>2. kind = "BOOK" => ~hidden'
    BY <1>4
  <2>3. live /\ ~byHand /\ ~raced /\ ~lost /\ kind = "BOOK" => count < Threshold /\ Hiding = {}
    BY <1>6, Sizes DEF SeenInv, TypeOK
  <2>4. kind = "BOOK" /\ count < Threshold => ~(count >= Threshold)
    BY Sizes DEF TypeOK
  <2> QED BY <1>3, <1>6, <1>7, <2>1, <2>2, <2>3, <2>4 DEF SeenInv
<1>11. TypeOK'
  BY TypeStep DEF Next, ActionStep
<1> QED BY <1>2, <1>5, <1>8, <1>9, <1>10, <1>11

LEMMA StopStep ==
  ASSUME ReportInv, NEW s \in Slots, Stops(s)
  PROVE  ReportInv'
<1> USE DEF ReportInv
<1>1. /\ CallInv' /\ Upcoming(s)' = "idle" /\ call'[s] = Idle
      /\ \A k \in Slots \ {s} : call'[k] = call[k]
  BY IdleCall DEF Stops, CallInv, Upcoming, At
<1>2. /\ UNCHANGED <<kind, live, hidden, count, report, queue, log, byHand, discounts, raced>>
      /\ Filed' = Filed
  BY DEF Stops, Filed
<1>3. ~lost' => ~lost /\ s \notin Counting /\ s \notin Hiding /\ s \notin Showing
  <2>1. ~lost' => ~lost /\ ~InMidstOfCounting(s)
    BY DEF Stops
  <2> QED BY <2>1, Program DEF InMidstOfCounting, Counting, Hiding, Showing
<1>4. DoneInv' /\ LoggedInv'
  <2>1. DoneAt(s)'
    BY <1>1, IdleCall DEF DoneAt, Actions
  <2> QED BY <1>1, <1>2, <2>1, DoneStep
<1>5. Counting' = Counting \ {s} /\ Hiding' = Hiding \ {s} /\ Showing' = Showing \ {s}
  BY <1>1, SetsStep
<1>6. Cardinality(Counting') <= Cardinality(Counting) /\ Cardinality(Counting') \in Nat
  BY <1>5, Sizes, FS_Subset, FS_CardinalityType
<1>7. CountInv'
  <2>1. kind # "MESSAGE" => count + discounts + Cardinality(Counting') <= Cardinality(Filed)
    BY <1>6, Sizes DEF CountInv, TypeOK
  <2>2. ~lost' => Counting' = Counting
    BY <1>3, <1>5
  <2>3. CountIsExact'
    BY <1>2, <1>3, <2>2 DEF CountInv, CountIsExact, Counting
  <2> QED BY <1>2, <2>1, <2>3 DEF CountInv
<1>8. HideInv'
  BY <1>2, <1>5 DEF HideInv, HiddenOnlyByMany
<1>9. SeenInv'
  <2>1. ~lost' => Counting' = Counting /\ Hiding' = Hiding /\ Showing' = Showing
    BY <1>3, <1>5
  <2> QED BY <1>2, <1>3, <1>5, <2>1 DEF SeenInv
<1>10. TypeOK'
  BY TypeStep DEF Next
<1> QED BY <1>1, <1>4, <1>7, <1>8, <1>9, <1>10

\* The statements of a call that neither count, nor hide for reports, nor show.
LEMMA QuietStep ==
  ASSUME ReportInv, NEW s \in Slots,
         CreateValidates(s) \/ CreateFinds(s) \/ CreateAlerts(s)
  PROVE  ReportInv'
<1> USE DEF ReportInv
<1>1. /\ UNCHANGED <<kind, live, hidden, count, report, log, byHand, discounts, raced, lost>>
      /\ Filed' = Filed /\ queue \subseteq queue'
  BY DEF CreateValidates, CreateFinds, CreateAlerts, Filed, historyVars
<1>2. TypeOK'
  BY TypeStep DEF Next, CreateStep
<1>3. CASE CreateValidates(s)
  <2>1. Upcoming(s) = "idle"
    BY <1>3, Program DEF CreateValidates, Starts
  <2>2. PICK p \in Reporters : call' = [call EXCEPT ![s] =
          [about |-> p, act |-> "create", todo |-> <<"find", "insert", "count">>]]
    BY <1>3 DEF CreateValidates, Starts
  <2>3. /\ call'[s] = [about |-> p, act |-> "create", todo |-> <<"find", "insert", "count">>]
        /\ \A k \in Slots \ {s} : call'[k] = call[k]
    BY <2>2 DEF CallInv
  <2>4. call'[s] \in CreateCalls
    BY <2>3 DEF CreateCalls, CallsOf
  <2>5. CallInv'
    BY <2>2, <2>3, <2>4 DEF CallInv, Calls
  <2>6. Upcoming(s)' = "find" /\ call'[s].act = "create"
    BY <2>3 DEF Upcoming
  <2>7. DoneAt(s)'
    BY <2>6 DEF DoneAt, Actions
  <2>8. DoneInv' /\ LoggedInv'
    BY <1>1, <2>3, <2>7, DoneStep
  <2>9. Crossings'
    BY <1>1, <2>1, <2>3, <2>6, PassingStep DEF Crossings
  <2> QED BY <1>2, <2>5, <2>8, <2>9 DEF Crossings
<1>4. CASE CreateFinds(s)
  <2>1. Upcoming(s) = "find" /\ IsCreate(s) /\ Leads(call[s], "find", "insert") /\ Advances(s)
    BY <1>4, Program DEF CreateFinds
  <2>2. /\ CallInv' /\ Upcoming(s)' = "insert" /\ call'[s].act = "create"
        /\ \A k \in Slots \ {s} : call'[k] = call[k]
    BY <2>1, AdvanceLeads DEF IsCreate
  <2>3. DoneAt(s)'
    BY <2>2 DEF DoneAt, Actions
  <2>4. DoneInv' /\ LoggedInv'
    BY <1>1, <2>2, <2>3, DoneStep
  <2>5. Crossings'
    BY <1>1, <2>1, <2>2, PassingStep DEF Crossings
  <2> QED BY <1>2, <2>2, <2>4, <2>5 DEF Crossings
<1>5. CASE CreateAlerts(s)
  <2>1. Upcoming(s) = "alert" /\ Finishes(call[s], "alert") /\ Advances(s)
    BY <1>5, Program DEF CreateAlerts
  <2>2. /\ CallInv' /\ Upcoming(s)' = "idle" /\ call'[s] = Idle
        /\ \A k \in Slots \ {s} : call'[k] = call[k]
    BY <2>1, AdvanceFinishes
  <2>3. DoneAt(s)'
    BY <2>2, IdleCall DEF DoneAt, Actions
  <2>4. DoneInv' /\ LoggedInv'
    BY <1>1, <2>2, <2>3, DoneStep
  <2>5. Crossings'
    BY <1>1, <2>1, <2>2, PassingStep DEF Crossings
  <2> QED BY <1>2, <2>2, <2>4, <2>5 DEF Crossings
<1> QED BY <1>3, <1>4, <1>5

LEMMA HandlingStarts ==
  ASSUME ReportInv, NEW s \in Slots, ActionStarts(s)
  PROVE  ReportInv'
<1> USE DEF ReportInv
<1>1. /\ UNCHANGED <<kind, live, hidden, count, report, queue, log, byHand, discounts, raced, lost>>
      /\ Filed' = Filed
  BY DEF ActionStarts, Filed, historyVars
<1>2. Upcoming(s) = "idle"
  BY Program DEF ActionStarts, Starts
<1>3. PICK p \in Filed, act \in Actions :
        call' = [call EXCEPT ![s] = [about |-> p, act |-> act, todo |-> Statements(act)]]
  BY DEF ActionStarts, Starts
<1>4. /\ call'[s] = [about |-> p, act |-> act, todo |-> Statements(act)]
      /\ \A k \in Slots \ {s} : call'[k] = call[k]
  BY <1>3 DEF CallInv
<1>5. p \in Reporters /\ report[p] # "none"
  BY DEF Filed
\* The first statement of each kind of action.
<1>6. /\ call'[s] \in Calls /\ act # "create"
      /\ Upcoming(s)' \in {"hide", "warn", "suspend", "dismiss"}
  <2>1. CASE act = "REMOVE"
    <3>1. Statements(act) = <<"hide", "review", "log">>
      BY <2>1 DEF Statements
    <3>2. call'[s] \in RemoveCalls
      BY <1>4, <1>5, <2>1, <3>1 DEF RemoveCalls, CallsOf
    <3> QED BY <1>4, <2>1, <3>1, <3>2 DEF Calls, Upcoming
  <2>2. CASE act = "WARN"
    <3>1. Statements(act) = <<"warn", "push", "review", "log">>
      BY <2>2 DEF Statements
    <3>2. call'[s] \in WarnCalls
      BY <1>4, <1>5, <2>2, <3>1 DEF WarnCalls, CallsOf
    <3> QED BY <1>4, <2>2, <3>1, <3>2 DEF Calls, Upcoming
  <2>3. CASE act = "SUSPEND"
    <3>1. Statements(act) = <<"suspend", "expel", "push", "review", "log">>
      BY <2>3 DEF Statements
    <3>2. call'[s] \in SuspendCalls
      BY <1>4, <1>5, <2>3, <3>1 DEF SuspendCalls, CallsOf
    <3> QED BY <1>4, <2>3, <3>1, <3>2 DEF Calls, Upcoming
  <2>4. CASE act = "DISMISS"
    <3>1. Statements(act) = <<"dismiss", "discount", "log">>
      BY <2>4 DEF Statements
    <3>2. call'[s] \in DismissCalls
      BY <1>4, <1>5, <2>4, <3>1 DEF DismissCalls, CallsOf
    <3> QED BY <1>4, <2>4, <3>1, <3>2 DEF Calls, Upcoming
  <2> QED BY <2>1, <2>2, <2>3, <2>4 DEF Actions
<1>7. CallInv'
  BY <1>3, <1>4, <1>6 DEF CallInv
<1>8. DoneAt(s)'
  BY <1>1, <1>4, <1>5, <1>6 DEF DoneAt
<1>9. DoneInv' /\ LoggedInv'
  BY <1>1, <1>4, <1>8, DoneStep
<1>10. ~IsCreate(s)'
  BY <1>4, <1>6 DEF IsCreate
<1>11. Crossings'
  BY <1>1, <1>2, <1>4, <1>6, <1>10, PassingStep DEF Crossings
<1>12. TypeOK'
  BY TypeStep DEF Next, ActionStep
<1> QED BY <1>7, <1>9, <1>11, <1>12 DEF Crossings

\* From one statement of an action to the next, the visibility left alone.
LEMMA HandlingStep ==
  ASSUME ReportInv, NEW s \in Slots,
         ActionJudges(s) \/ ActionExpels(s) \/ ActionNotifies(s) \/ ActionMarks(s)
  PROVE  ReportInv'
<1> USE DEF ReportInv
<1>1. /\ call[s].act \in Actions /\ call[s].about \in Reporters /\ call[s].act # "create"
      /\ Upcoming(s) \in {"warn", "suspend", "expel", "push", "review", "dismiss"} /\ Advances(s)
      /\ DoneAt(s)
  BY Program, IdleCall
  DEF ActionJudges, ActionExpels, ActionNotifies, ActionMarks, Actions, DoneInv
<1>2. /\ UNCHANGED <<kind, live, hidden, count, log, byHand, discounts, raced, lost>>
      /\ queue \subseteq queue'
      /\ Upcoming(s) = "expel" => "suspend.user" \in queue'
      /\ Upcoming(s) \notin {"review", "dismiss"} => report' = report
      /\ Upcoming(s) \in {"review", "dismiss"} =>
           report' = [report EXCEPT ![call[s].about] = Outcome(Upcoming(s))]
  BY <1>1 DEF ActionJudges, ActionExpels, ActionNotifies, ActionMarks, historyVars
<1>3. \A p \in Reporters : report[p] # "none" =>
        report'[p] = report[p] \/ report'[p] \in {"REVIEWED", "DISMISSED"}
  BY <1>1, <1>2 DEF TypeOK, Outcome
<1>4. Upcoming(s) \in {"review", "dismiss"} =>
        report'[call[s].about] \in {"REVIEWED", "DISMISSED"}
  BY <1>1, <1>2 DEF TypeOK, Outcome
<1>5. Filed' = Filed
  <2>1. report[call[s].about] # "none"
    BY <1>1 DEF DoneAt
  <2> QED BY <1>1, <1>2, <1>3, <2>1 DEF Filed, TypeOK
<1>6. PICK next \in {"push", "expel", "review", "log", "discount"} :
        /\ Leads(call[s], Upcoming(s), next)
        /\ next \in {"log", "discount"} => Upcoming(s) \in {"review", "dismiss"}
        /\ call[s].act = "SUSPEND" /\ next = "push" => Upcoming(s) = "expel"
        /\ next = "review" => Upcoming(s) = "push"
        /\ Upcoming(s) = "expel" => next = "push"
  BY <1>1, Program
<1>7. /\ CallInv' /\ Upcoming(s)' = next
      /\ call'[s].act = call[s].act /\ call'[s].about = call[s].about
      /\ \A k \in Slots \ {s} : call'[k] = call[k]
  BY <1>1, <1>6, AdvanceLeads
<1>8. DoneAt(s)'
  <2>1. report'[call[s].about] # "none"
    BY <1>1, <1>3 DEF DoneAt
  <2>2. next \in {"discount", "log"} => report'[call[s].about] # "PENDING"
    BY <1>4, <1>6
  <2>3. call[s].act = "SUSPEND" /\ next \in {"push", "review", "log"} => "suspend.user" \in queue'
    <3>1. call[s].act = "SUSPEND" => Upcoming(s) # "dismiss"
      BY Program
    <3> QED BY <1>1, <1>2, <1>6, <3>1 DEF DoneAt
  <2> QED BY <1>6, <1>7, <2>1, <2>2, <2>3 DEF DoneAt
<1>9. DoneInv' /\ LoggedInv'
  BY <1>2, <1>3, <1>7, <1>8, DoneStep
<1>10. Crossings'
  <2>1. Upcoming(s) \notin {"count", "show", "hide"} /\ Upcoming(s)' \notin {"count", "show", "hide"}
    BY <1>1, <1>6, <1>7
  <2> QED BY <1>2, <1>5, <1>7, <2>1, PassingStep DEF Crossings
<1>11. TypeOK'
  BY TypeStep DEF Next, ActionStep
<1> QED BY <1>7, <1>9, <1>10, <1>11 DEF Crossings

LEMMA LogStep ==
  ASSUME ReportInv, NEW s \in Slots, ActionLogs(s)
  PROVE  ReportInv'
<1> USE DEF ReportInv
<1>1. /\ Upcoming(s) = "log" /\ Finishes(call[s], "log") /\ Advances(s)
      /\ call[s].act \in Actions /\ call[s].about \in Reporters
  BY Program, IdleCall DEF ActionLogs
<1>2. /\ UNCHANGED <<kind, live, hidden, count, report, queue, byHand, discounts, raced, lost>>
      /\ Filed' = Filed
      /\ log' = log \cup {[about |-> call[s].about, action |-> call[s].act]}
  BY DEF ActionLogs, Filed, historyVars
<1>3. /\ CallInv' /\ Upcoming(s)' = "idle" /\ call'[s] = Idle
      /\ \A k \in Slots \ {s} : call'[k] = call[k]
  BY <1>1, AdvanceFinishes
<1>4. DoneInv'
  <2>1. DoneAt(s)'
    BY <1>3, IdleCall DEF DoneAt, Actions
  <2> QED BY <1>2, <1>3, <2>1, DoneStep
\* What the call has done is what its entry says.
<1>5. LoggedInv'
  <2>1. DoneAt(s)
    BY DEF DoneInv
  <2>2. /\ report[call[s].about] \notin {"none", "PENDING"}
        /\ call[s].act = "SUSPEND" => "suspend.user" \in queue
    BY <1>1, <2>1 DEF DoneAt
  <2> QED BY <1>2, <2>2 DEF LoggedInv
<1>6. Crossings'
  BY <1>1, <1>2, <1>3, PassingStep DEF Crossings
<1>7. TypeOK'
  BY TypeStep DEF Next, ActionStep
<1> QED BY <1>3, <1>4, <1>5, <1>6, <1>7 DEF Crossings

\* An administrator hides the content: from then on byHand is set.
LEMMA RemovalStep ==
  ASSUME ReportInv, NEW s \in Slots, ActionHides(s)
  PROVE  ReportInv'
<1> USE DEF ReportInv
<1>1. /\ Upcoming(s) = "hide" /\ ~IsCreate(s) /\ call[s].act = "REMOVE"
      /\ Leads(call[s], "hide", "review") /\ Advances(s) /\ call[s].act \in Actions
  BY Program DEF ActionHides, Actions
<1>2. /\ CallInv' /\ Upcoming(s)' = "review"
      /\ call'[s].act = "REMOVE" /\ call'[s].about = call[s].about
      /\ \A k \in Slots \ {s} : call'[k] = call[k]
  BY <1>1, AdvanceLeads
<1>3. /\ UNCHANGED <<kind, live, count, report, queue, log, discounts, raced, lost>>
      /\ Filed' = Filed /\ byHand'
  BY DEF ActionHides, Filed
<1>4. DoneInv' /\ LoggedInv'
  <2>1. DoneAt(s)
    BY DEF DoneInv
  <2>2. DoneAt(s)'
    BY <1>1, <1>2, <1>3, <2>1 DEF DoneAt
  <2> QED BY <1>2, <1>3, <2>2, DoneStep
<1>5. Counting' = Counting /\ Hiding' = Hiding /\ Showing' = Showing
  <2>1. s \notin Hiding /\ s \notin Counting /\ s \notin Showing
    BY <1>1 DEF Hiding, Counting, Showing
  <2> QED BY <1>2, <2>1, SetsStep
<1>6. CountInv'
  BY <1>3, <1>5 DEF CountInv, CountIsExact, Counting
<1>7. HideInv' /\ SeenInv'
  BY <1>3, <1>5 DEF HideInv, HiddenOnlyByMany, SeenInv
<1>8. TypeOK'
  BY TypeStep DEF Next, ActionStep
<1> QED BY <1>2, <1>4, <1>6, <1>7, <1>8

\* What happens outside the calls.
LEMMA OutsideStep ==
  ASSUME ReportInv,
         TargetDeleted \/ ToggleBookHidden \/ UpdateUserStatus \/ UNCHANGED vars
  PROVE  ReportInv'
<1> USE DEF ReportInv
<1>1. /\ UNCHANGED <<kind, count, report, call, queue, log, discounts, raced, lost>>
      /\ \/ UNCHANGED <<live, hidden, byHand>>
         \/ byHand'
         \/ ~live' /\ UNCHANGED <<hidden, byHand>>
  BY DEF TargetDeleted, ToggleBookHidden, UpdateUserStatus, vars, historyVars
<1>2. Counting' = Counting /\ Hiding' = Hiding /\ Showing' = Showing /\ Filed' = Filed
  BY <1>1 DEF Counting, Hiding, Showing, Filed, Upcoming, IsCreate
<1>3. CallInv' /\ DoneInv' /\ LoggedInv'
  BY <1>1 DEF CallInv, DoneInv, DoneAt, LoggedInv, Upcoming
<1>4. CountInv'
  BY <1>1, <1>2 DEF CountInv, CountIsExact, Counting
<1>5. HideInv' /\ SeenInv'
  BY <1>1, <1>2 DEF HideInv, HiddenOnlyByMany, SeenInv
<1>6. TypeOK'
  BY TypeStep DEF Next
<1> QED BY <1>3, <1>4, <1>5, <1>6

LEMMA ReportInvHolds == Spec => []ReportInv
<1>1. ReportInv /\ [Next]_vars => ReportInv'
  <2> SUFFICES ASSUME ReportInv, [Next]_vars PROVE ReportInv'
    OBVIOUS
  <2>1. ASSUME NEW s \in Slots, CreateStep(s) PROVE ReportInv'
    BY <2>1, QuietStep, InsertStep, CountStep, HideStep DEF CreateStep
  <2>2. ASSUME NEW s \in Slots, ActionStep(s) PROVE ReportInv'
    BY <2>2, HandlingStarts, RemovalStep, HandlingStep, DiscountStep, ShowStep, LogStep
    DEF ActionStep
  <2>3. ASSUME NEW s \in Slots, Stops(s) PROVE ReportInv'
    BY <2>3, StopStep
  <2>4. CASE TargetDeleted \/ ToggleBookHidden \/ UpdateUserStatus \/ UNCHANGED vars
    BY <2>4, OutsideStep
  <2> QED BY <2>1, <2>2, <2>3, <2>4 DEF Next
<1> QED BY <1>1, ReportInit, PTL DEF Spec

-----------------------------------------------------------------------------
\* Reports, the account and the log of actions keep the form of their columns.
THEOREM ReportTypeCorrect == Spec => []TypeOK
<1>1. ReportInv => TypeOK
  BY DEF ReportInv
<1> QED BY <1>1, ReportInvHolds, PTL

\* Content is hidden without a moderator only when as many different people as
\* the threshold asks for have reported it, however their reports, dismissals
\* and broken-off calls interleave.
THEOREM ManyHide == Spec => []HiddenOnlyByMany
<1>1. ReportInv => HiddenOnlyByMany
  BY DEF ReportInv, HideInv
<1> QED BY <1>1, ReportInvHolds, PTL

\* reportCount is the number of reports less the dismissals, but for the calls
\* about to count: no two increments or decrements get in each other's way.
THEOREM NoReportIsMiscounted == Spec => []CountIsExact
<1>1. ReportInv => CountIsExact
  BY DEF ReportInv, CountInv
<1> QED BY <1>1, ReportInvHolds, PTL

\* Nothing is in the log of actions that was not carried through.
THEOREM LogTellsTheTruth == Spec => []LoggedMeansDone
<1>1. ReportInv => LoggedMeansDone
  BY DEF ReportInv, LoggedInv, LoggedMeansDone
<1> QED BY <1>1, ReportInvHolds, PTL

\* Calls that cross the threshold in opposite directions agree on what is seen
\* in the end, if each had shown its outcome before the other decided.
THEOREM VisibilitySettles == Spec => []VisibilityFollowsReports
<1>1. ReportInv => VisibilityFollowsReports
  <2> SUFFICES ASSUME ReportInv, live, ~byHand, ~raced, ~lost,
                      \A s \in Slots : ~InMidstOfCounting(s)
               PROVE  /\ kind = "BOOK" => (hidden <=> count >= Threshold)
                      /\ kind = "MESSAGE" /\ discounts = 0 =>
                           (hidden <=> Cardinality(Filed) >= Threshold)
    BY DEF VisibilityFollowsReports
  <2>1. Counting = {} /\ Hiding = {} /\ Showing = {}
    BY Program DEF ReportInv, InMidstOfCounting, Counting, Hiding, Showing
  <2>2. count < Threshold \/ count >= Threshold
    BY Sizes DEF ReportInv, TypeOK
  <2>3. count < Threshold => ~(count >= Threshold)
    BY Sizes DEF ReportInv, TypeOK
  <2>4. kind = "BOOK" => (hidden <=> count >= Threshold)
    BY <2>1, <2>2, <2>3 DEF ReportInv, SeenInv
  <2>5. kind = "MESSAGE" /\ discounts = 0 => (hidden <=> Cardinality(Filed) >= Threshold)
    BY <2>1 DEF ReportInv, SeenInv, HideInv, HiddenOnlyByMany
  <2> QED BY <2>4, <2>5
<1> QED BY <1>1, ReportInvHolds, PTL
=============================================================================
