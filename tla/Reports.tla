------------------------------ MODULE Reports ------------------------------
(***************************************************************************)
(* ReportsService: users report one piece of content (or one user), the    *)
(* content is hidden once enough of them have, and administrators act on   *)
(* the reports.  Reports of different targets have no state in common.  A  *)
(* call is the list of statements it has still to run; any other call may  *)
(* run between two of them, and a call may stop before any of them.        *)
(***************************************************************************)
EXTENDS Naturals, Integers, FiniteSets, Sequences

CONSTANTS
  Reporters,   \* users who may report the target (its owner may not)
  Threshold,   \* AUTO_HIDE_THRESHOLD
  Slots,       \* HTTP requests that can be served at the same time
  MaxActions   \* bound: administrator calls in a behaviour

ASSUME ReportsAssumption ==
  /\ IsFiniteSet(Reporters) /\ IsFiniteSet(Slots)
  /\ Threshold \in Nat \ {0}
  /\ MaxActions \in Nat

Kinds    == {"BOOK", "MESSAGE", "USER"}
Actions  == {"REMOVE", "WARN", "SUSPEND", "DISMISS"}
Accounts == {"ACTIVE", "WARNED", "SUSPENDED"}

VARIABLES
  kind,      \* targetType
  live,      \* the target's row still exists
  hidden,    \* its isHidden column (a user has none)
  count,     \* its reportCount column (a message has none)
  report,    \* report[p]: status of p's report, unique per reporter and target
  account,   \* accountStatus of the user, the book's owner or the sender
  call,      \* call[s]: whose report slot s handles and the statements left
  queue,     \* jobs added to the moderation queue
  log,       \* rows of admin_actions, as [about, action]
  handled,   \* administrator calls so far, bounded by MaxActions
  byHand,    \* history: an administrator has set the visibility
  discounts, \* history: dismissals that have counted down
  raced,     \* history: a report was about to hide while a dismissal was to show
  lost       \* history: a call stopped between what it counts and what it shows

vars == <<kind, live, hidden, count, report, account, call, queue, log,
          handled, byHand, discounts, raced, lost>>
historyVars == <<byHand, discounts, raced, lost>>

Idle == [about |-> "nobody", act |-> "none", todo |-> <<>>]

Filed     == {p \in Reporters : report[p] # "none"}
Upcoming(s) == IF call[s].todo = <<>> THEN "idle" ELSE Head(call[s].todo)
Goes(s, todo) ==
  call' = [call EXCEPT ![s] = IF todo = <<>> THEN Idle ELSE [@ EXCEPT !.todo = todo]]
Advances(s) == Goes(s, Tail(call[s].todo))
IsCreate(s) == call[s].act = "create"
SomeAbout(statement) == \E s \in Slots : Upcoming(s) = statement

Init ==
  /\ kind \in Kinds
  /\ live = TRUE /\ hidden = FALSE /\ count = 0
  /\ report = [p \in Reporters |-> "none"]
  /\ account = "ACTIVE"
  /\ call = [s \in Slots |-> Idle]
  /\ queue = {} /\ log = {} /\ handled = 0
  /\ byHand = FALSE /\ discounts = 0 /\ raced = FALSE /\ lost = FALSE

-----------------------------------------------------------------------------
(* POST /reports.                                                          *)
Starts(s, about, act, todo) ==
  /\ call[s] = Idle
  /\ call' = [call EXCEPT ![s] = [about |-> about, act |-> act, todo |-> todo]]

CreateValidates(s) ==
  /\ live
  /\ \E p \in Reporters : Starts(s, p, "create", <<"find", "insert", "count">>)
  /\ UNCHANGED <<kind, live, hidden, count, report, account, queue, log, handled, historyVars>>

CreateFinds(s) ==
  /\ Upcoming(s) = "find"
  /\ report[call[s].about] = "none"
  /\ Advances(s)
  /\ UNCHANGED <<kind, live, hidden, count, report, account, queue, log, handled, historyVars>>

\* The unique index refuses a second report of the same reporter.
MayInsertAgain(p) == TRUE
MayInsert(p) == report[p] = "none"

CreateInserts(s) ==
  LET p == call[s].about IN
  /\ Upcoming(s) = "insert"
  /\ MayInsert(p)
  /\ report' = [report EXCEPT ![p] = "PENDING"]
  /\ Advances(s)
  /\ UNCHANGED <<kind, live, hidden, count, account, queue, log, handled, historyVars>>

\* A book or a user is counted by an atomic increment of its column, a message
\* by the rows of reports that name it.
Reached(n) == n >= Threshold
UponReached == <<"hide", "alert">>

CreateCounts(s) ==
  LET counted == IF kind = "MESSAGE" THEN Cardinality(Filed) ELSE count + 1 IN
  /\ Upcoming(s) = "count"
  /\ kind # "MESSAGE" => live
  /\ count' = IF kind = "MESSAGE" THEN count ELSE count + 1
  /\ Goes(s, IF Reached(counted) THEN UponReached ELSE <<>>)
  /\ raced' = (raced \/ (Reached(counted) /\ SomeAbout("show")))
  /\ UNCHANGED <<kind, live, hidden, report, account, queue, log, handled, byHand, discounts, lost>>

\* setHidden; on a user it does nothing.
SetHidden(v) ==
  /\ kind # "USER" => live
  /\ hidden' = IF kind = "USER" THEN hidden ELSE v

CreateHides(s) ==
  /\ IsCreate(s) /\ Upcoming(s) = "hide"
  /\ SetHidden(TRUE)
  /\ Advances(s)
  /\ UNCHANGED <<kind, live, count, report, account, queue, log, handled, historyVars>>

CreateAlerts(s) ==
  /\ Upcoming(s) = "alert"
  /\ queue' = queue \cup {"auto.hidden"}
  /\ Advances(s)
  /\ UNCHANGED <<kind, live, hidden, count, report, account, log, handled, historyVars>>

-----------------------------------------------------------------------------
(* handleAction: its statements in order.  The report's status is not      *)
(* checked.  Resolving the target's user and updating the user are one     *)
(* step: a target deleted in between would only let the update go ahead.   *)
StatementsLogFirst(act) ==
  CASE act = "REMOVE"  -> <<"log", "hide", "review">>
    [] act = "WARN"    -> <<"log", "warn", "push", "review">>
    [] act = "SUSPEND" -> <<"log", "suspend", "expel", "push", "review">>
    [] act = "DISMISS" -> <<"log", "dismiss", "discount">>
Statements(act) ==
  CASE act = "REMOVE"  -> <<"hide", "review", "log">>
    [] act = "WARN"    -> <<"warn", "push", "review", "log">>
    [] act = "SUSPEND" -> <<"suspend", "expel", "push", "review", "log">>
    [] act = "DISMISS" -> <<"dismiss", "discount", "log">>

ActionStarts(s) ==
  /\ handled < MaxActions
  /\ handled' = handled + 1
  /\ \E p \in Filed, act \in Actions : Starts(s, p, act, Statements(act))
  /\ UNCHANGED <<kind, live, hidden, count, report, account, queue, log, historyVars>>

ActionHides(s) ==
  /\ ~IsCreate(s) /\ Upcoming(s) = "hide"
  /\ SetHidden(TRUE)
  /\ byHand' = TRUE
  /\ Advances(s)
  /\ UNCHANGED <<kind, live, count, report, account, queue, log, handled, discounts, raced, lost>>

\* resolveTargetUserId: a report on a user names the user itself, others look
\* up the owner or sender of what they are about.
ResolvesUser == kind # "USER" => live

ActionJudges(s) ==
  /\ \/ Upcoming(s) = "warn" /\ account' = "WARNED"
     \/ Upcoming(s) = "suspend" /\ account' = "SUSPENDED"
  /\ ResolvesUser
  /\ Advances(s)
  /\ UNCHANGED <<kind, live, hidden, count, report, queue, log, handled, historyVars>>

ActionExpels(s) ==
  /\ Upcoming(s) = "expel"
  /\ queue' = queue \cup {"suspend.user"}
  /\ Advances(s)
  /\ UNCHANGED <<kind, live, hidden, count, report, account, log, handled, historyVars>>

\* sendPush: rows of notifications, not kept here.
ActionNotifies(s) ==
  /\ Upcoming(s) = "push"
  /\ Advances(s)
  /\ UNCHANGED <<kind, live, hidden, count, report, account, queue, log, handled, historyVars>>

OutcomeNoEnum(step) == step
Outcome(step) == IF step = "review" THEN "REVIEWED" ELSE "DISMISSED"

ActionMarks(s) ==
  /\ Upcoming(s) \in {"review", "dismiss"}
  /\ report' = [report EXCEPT ![call[s].about] = Outcome(Upcoming(s))]
  /\ Advances(s)
  /\ UNCHANGED <<kind, live, hidden, count, account, queue, log, handled, historyVars>>

\* decrementReportCount has no floor in the database; a message counts the
\* rows still pending.  Below the threshold the target is shown again.
BelowOrAt(n) == n <= Threshold
Below(n) == n < Threshold

ActionDiscounts(s) ==
  LET left == IF kind = "MESSAGE"
              THEN Cardinality({p \in Reporters : report[p] = "PENDING"}) ELSE count - 1 IN
  /\ Upcoming(s) = "discount"
  /\ kind # "MESSAGE" => live
  /\ count' = IF kind = "MESSAGE" THEN count ELSE count - 1
  /\ discounts' = discounts + 1
  /\ Goes(s, IF Below(left) THEN <<"show", "log">> ELSE <<"log">>)
  /\ raced' = (raced \/ (Below(left) /\ \E k \in Slots : IsCreate(k) /\ Upcoming(k) = "hide"))
  /\ UNCHANGED <<kind, live, hidden, report, account, queue, log, handled, byHand, lost>>

ActionShows(s) ==
  /\ Upcoming(s) = "show"
  /\ SetHidden(FALSE)
  /\ Advances(s)
  /\ UNCHANGED <<kind, live, count, report, account, queue, log, handled, historyVars>>

ActionLogs(s) ==
  /\ Upcoming(s) = "log"
  /\ log' = log \cup {[about |-> call[s].about, action |-> call[s].act]}
  /\ Advances(s)
  /\ UNCHANGED <<kind, live, hidden, count, report, account, queue, handled, historyVars>>

-----------------------------------------------------------------------------
(* A call stops: a check fails, a statement throws, the server goes down.  *)
InMidstOfCounting(s) ==
  \/ IsCreate(s) /\ Upcoming(s) \in {"count", "hide"}
  \/ Upcoming(s) = "show"

Stops(s) ==
  /\ call[s] # Idle
  /\ call' = [call EXCEPT ![s] = Idle]
  /\ lost' = (lost \/ InMidstOfCounting(s))
  /\ UNCHANGED <<kind, live, hidden, count, report, account, queue, log, handled, byHand, discounts, raced>>

(* The owner deletes the book, and with it its requests, chats, messages.  *)
TargetDeleted ==
  /\ live /\ kind # "USER"
  /\ live' = FALSE
  /\ UNCHANGED <<kind, hidden, count, report, account, call, queue, log, handled, historyVars>>

(* AdminService.toggleBookHidden and updateUserStatus.                     *)
ToggleBookHidden ==
  /\ live /\ kind = "BOOK"
  /\ handled < MaxActions
  /\ handled' = handled + 1
  /\ hidden' \in BOOLEAN
  /\ byHand' = TRUE
  /\ UNCHANGED <<kind, live, count, report, account, call, queue, log, discounts, raced, lost>>

UpdateUserStatus ==
  /\ handled < MaxActions
  /\ handled' = handled + 1
  /\ account' \in Accounts
  /\ UNCHANGED <<kind, live, hidden, count, report, call, queue, log, historyVars>>

CreateStep(s) ==
  \/ CreateValidates(s) \/ CreateFinds(s) \/ CreateInserts(s)
  \/ CreateCounts(s) \/ CreateHides(s) \/ CreateAlerts(s)
ActionStep(s) ==
  \/ ActionStarts(s) \/ ActionHides(s) \/ ActionJudges(s) \/ ActionExpels(s)
  \/ ActionNotifies(s) \/ ActionMarks(s) \/ ActionDiscounts(s) \/ ActionShows(s)
  \/ ActionLogs(s)

Next ==
  \/ \E s \in Slots : CreateStep(s) \/ ActionStep(s) \/ Stops(s)
  \/ TargetDeleted \/ ToggleBookHidden \/ UpdateUserStatus

Spec == Init /\ [][Next]_vars

-----------------------------------------------------------------------------
TypeOK ==
  /\ kind \in Kinds /\ live \in BOOLEAN /\ hidden \in BOOLEAN /\ count \in Int
  /\ report \in [Reporters -> {"none", "PENDING", "REVIEWED", "DISMISSED"}]
  /\ account \in Accounts
  /\ queue \subseteq {"auto.hidden", "suspend.user"}
  /\ log \subseteq [about : Reporters, action : Actions]

\* Content that no moderator hides is hidden only when that many different
\* people have reported it, dismissed or not: nobody hides a book alone by
\* reporting it twice.
HiddenOnlyByMany == hidden /\ ~byHand => Cardinality(Filed) >= Threshold

\* Reports and dismissals that arrive together agree on what is seen in the
\* end: a book is hidden exactly while its count is at the threshold, a message
\* (until a report is dismissed) while that many have reported it.  Except when
\* one call had yet to hide what another had yet to show, when one broke off in
\* between, or when an administrator chose.
VisibilityFollowsReports ==
  live /\ ~byHand /\ ~raced /\ ~lost /\ (\A s \in Slots : ~InMidstOfCounting(s)) =>
    /\ kind = "BOOK" => (hidden <=> count >= Threshold)
    /\ kind = "MESSAGE" /\ discounts = 0 => (hidden <=> Cardinality(Filed) >= Threshold)

\* reportCount is the number of reports less the dismissals, but for calls in
\* flight: no increment or decrement is lost or made twice by concurrent calls.
\* A report that is dismissed twice is deducted twice.
CountIsExact ==
  kind # "MESSAGE" /\ ~lost =>
    count + discounts + Cardinality({s \in Slots : Upcoming(s) = "count"})
      = Cardinality(Filed)

\* The log of administrators' actions records only what was carried through:
\* the report is decided, and a suspension has its job to end the sessions.
LoggedMeansDone ==
  \A entry \in log :
    /\ report[entry.about] # "PENDING"
    /\ entry.action = "SUSPEND" => "suspend.user" \in queue
=============================================================================
