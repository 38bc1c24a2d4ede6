---------------------------- MODULE DueReminder ----------------------------
(***************************************************************************)
(* The daily job of NotificationProcessor: at 08:00 it reads the accepted  *)
(* loans, reminds of those due in three days or one, and marks those past  *)
(* due.  It works loan by loan from what it read, while loans are returned *)
(* and books deleted; an error or a restart cuts the rest of the run.      *)
(***************************************************************************)
EXTENDS Integers

CONSTANTS
  Loans,       \* borrow requests
  LoanDays,    \* accept lends for this many days
  DayTicks,    \* ticks of the clock in a day
  CronTick,    \* the tick of the day at which the job fires
  QuietTicks,  \* no second notice to a loan within these ticks (20 hours)
  LastTick     \* bound: the end of time

Never == -1
Nobody == "nobody"

ASSUME DueReminderAssumption ==
  /\ LoanDays \in Nat /\ DayTicks \in Nat \ {0} /\ LastTick \in Nat
  /\ CronTick \in 0 .. DayTicks - 1
  /\ QuietTicks \in 0 .. DayTicks
  /\ Nobody \notin Loans

Notices == {"three_days", "one_day", "overdue_borrower", "overdue_lender"}
Statuses == {"PENDING", "ACCEPTED", "RETURNED", "OVERDUE", "deleted"}

VARIABLES
  clock,
  fired,       \* the job has had its chance at this tick
  status,      \* status[l] of the request
  dueDate,     \* dueDate[l], Never before accept
  notifiedAt,  \* lastNotifiedAt[l]
  returning,   \* loans with a return call between its check and its write
  todo,        \* loans of the running job not looked at yet
  current,     \* the loan the job is busy with, or Nobody
  step,        \* the statement it runs next for that loan
  sent,        \* sent[l][n]: notifications of kind n written for l
  cut          \* history: a morning was missed or a run cut short

vars == <<clock, fired, status, dueDate, notifiedAt, returning, todo, current, step, sent, cut>>
loanVars == <<status, dueDate, returning>>
runVars  == <<todo, current, step>>

Running == todo # {} \/ current # Nobody

Init ==
  /\ clock = 0 /\ fired = FALSE
  /\ status = [l \in Loans |-> "PENDING"]
  /\ dueDate = [l \in Loans |-> Never]
  /\ notifiedAt = [l \in Loans |-> Never]
  /\ returning = {}
  /\ todo = {} /\ current = Nobody /\ step = "none"
  /\ sent = [l \in Loans |-> [n \in Notices |-> 0]]
  /\ cut = FALSE

-----------------------------------------------------------------------------
(* What users do to a loan meanwhile.                                      *)
Accept(l) ==
  /\ status[l] = "PENDING"
  /\ status' = [status EXCEPT ![l] = "ACCEPTED"]
  /\ dueDate' = [dueDate EXCEPT ![l] = clock + LoanDays * DayTicks]
  /\ UNCHANGED <<clock, fired, notifiedAt, returning, runVars, sent, cut>>

ReturnReads(l) ==
  /\ status[l] = "ACCEPTED"
  /\ returning' = returning \cup {l}
  /\ UNCHANGED <<clock, fired, status, dueDate, notifiedAt, runVars, sent, cut>>

ReturnCommits(l) ==
  /\ l \in returning
  /\ status' = IF status[l] = "deleted" THEN status ELSE [status EXCEPT ![l] = "RETURNED"]
  /\ returning' = returning \ {l}
  /\ UNCHANGED <<clock, fired, dueDate, notifiedAt, runVars, sent, cut>>

BookDeleted(l) ==
  /\ status[l] # "deleted"
  /\ status' = [status EXCEPT ![l] = "deleted"]
  /\ UNCHANGED <<clock, fired, dueDate, notifiedAt, returning, runVars, sent, cut>>

-----------------------------------------------------------------------------
(* The job.  clock stands for now, as a run ends within its tick.          *)
AtCron == clock % DayTicks = CronTick /\ ~fired

Fires ==
  /\ AtCron
  /\ fired' = TRUE
  /\ todo' = {l \in Loans : status[l] = "ACCEPTED"}
  /\ UNCHANGED <<clock, loanVars, notifiedAt, current, step, sent, cut>>

\* Math.ceil of the days from now to the due date.
DaysLeftFloor(l) == (dueDate[l] - clock) \div DayTicks
DaysLeft(l) == -((clock - dueDate[l]) \div DayTicks)

QuietStill(l) == notifiedAt[l] # Never /\ notifiedAt[l] > clock - QuietTicks

\* The notice the days left call for.
ReminderLate(l) == IF DaysLeft(l) = 3 THEN {"three_days"} ELSE IF DaysLeft(l) = 0 THEN {"one_day"} ELSE {}
ReminderUpTo(l) == IF DaysLeft(l) \in 2 .. 3 THEN {"three_days"} ELSE IF DaysLeft(l) = 1 THEN {"one_day"} ELSE {}
Reminder(l) == IF DaysLeft(l) = 3 THEN {"three_days"} ELSE IF DaysLeft(l) = 1 THEN {"one_day"} ELSE {}

Sends(l, n) == sent' = [sent EXCEPT ![l][n] = @ + 1]
Takes(l, next) ==
  /\ current = Nobody /\ l \in todo
  /\ todo' = todo \ {l}
  /\ current' = (IF next = "none" THEN Nobody ELSE l) /\ step' = next

Skips(l) ==
  /\ QuietStill(l) \/ (Reminder(l) = {} /\ DaysLeft(l) > 0)
  /\ Takes(l, "none")
  /\ UNCHANGED <<clock, fired, loanVars, notifiedAt, sent, cut>>

Reminds(l) ==
  /\ ~QuietStill(l)
  /\ \E n \in Reminder(l) : Sends(l, n)
  /\ Takes(l, "stamp")
  /\ UNCHANGED <<clock, fired, loanVars, notifiedAt, cut>>

OverdueRowNoEnum(l) == [status EXCEPT ![l] = "DUE_SOON"]
OverdueRow(l) == [status EXCEPT ![l] = "OVERDUE"]

\* The transaction fails if the row is gone, and with it the whole run.
MarksOverdue(l) ==
  /\ ~QuietStill(l) /\ DaysLeft(l) <= 0
  /\ status[l] # "deleted"
  /\ status' = OverdueRow(l)
  /\ Takes(l, "borrower")
  /\ UNCHANGED <<clock, fired, dueDate, returning, notifiedAt, sent, cut>>

NotifiesBorrowerOnly(l) ==
  /\ current = l
  /\ step \in {"borrower", "lender"} /\ Sends(l, "overdue_borrower") /\ step' = "stamp"
  /\ UNCHANGED <<clock, fired, loanVars, notifiedAt, todo, current, cut>>
NotifiesParty(l) ==
  /\ current = l
  /\ \/ step = "borrower" /\ Sends(l, "overdue_borrower") /\ step' = "lender"
     \/ step = "lender" /\ Sends(l, "overdue_lender") /\ step' = "stamp"
  /\ UNCHANGED <<clock, fired, loanVars, notifiedAt, todo, current, cut>>

Stamps(l) ==
  /\ current = l /\ step = "stamp"
  /\ status[l] # "deleted"
  /\ notifiedAt' = [notifiedAt EXCEPT ![l] = clock]
  /\ current' = Nobody /\ step' = "none"
  /\ UNCHANGED <<clock, fired, loanVars, todo, sent, cut>>

\* A statement throws, or the server restarts: the loans left are not handled.
RunCut ==
  /\ Running
  /\ todo' = {} /\ current' = Nobody /\ step' = "none"
  /\ cut' = TRUE
  /\ UNCHANGED <<clock, fired, loanVars, notifiedAt, sent>>

\* The server is down at 08:00: the job does not make up for it.
MorningMissed ==
  /\ AtCron
  /\ fired' = TRUE /\ cut' = TRUE
  /\ UNCHANGED <<clock, loanVars, notifiedAt, runVars, sent>>

Tick ==
  /\ ~Running /\ ~AtCron
  /\ clock < LastTick
  /\ clock' = clock + 1 /\ fired' = FALSE
  /\ UNCHANGED <<loanVars, notifiedAt, runVars, sent, cut>>

UserStep(l) == Accept(l) \/ ReturnReads(l) \/ ReturnCommits(l) \/ BookDeleted(l)
JobStep(l)  == Skips(l) \/ Reminds(l) \/ MarksOverdue(l) \/ NotifiesParty(l) \/ Stamps(l)

Next ==
  \/ \E l \in Loans : UserStep(l) \/ JobStep(l)
  \/ Fires \/ RunCut \/ MorningMissed \/ Tick

Spec == Init /\ [][Next]_vars

-----------------------------------------------------------------------------
TypeOK ==
  /\ clock \in 0 .. LastTick /\ fired \in BOOLEAN /\ cut \in BOOLEAN
  /\ status \in [Loans -> Statuses]
  /\ dueDate \in [Loans -> Int] /\ notifiedAt \in [Loans -> Int]
  /\ returning \subseteq Loans /\ todo \subseteq Loans
  /\ current \in Loans \cup {Nobody}
  /\ step \in {"none", "borrower", "lender", "stamp"}
  /\ sent \in [Loans -> [Notices -> Nat]]

Out(l) == status[l] \in {"ACCEPTED", "OVERDUE"}

\* Whatever hour a loan was accepted, its borrower has had both reminders by
\* the time it falls due, if every morning's run got through.
RemindedInTime ==
  \A l \in Loans : ~cut /\ Out(l) /\ clock >= dueDate[l] =>
    sent[l]["three_days"] = 1 /\ sent[l]["one_day"] = 1

\* No notice is written twice for a loan, even when a run breaks off between a
\* notice and the lastNotifiedAt that records it.
NoSecondNotice == \A l \in Loans : \A n \in Notices : sent[l][n] <= 1

\* A loan is never called overdue before its due date.
NotOverdueEarly == \A l \in Loans : status[l] = "OVERDUE" => clock >= dueDate[l]

\* A loan stays ACCEPTED for less than a day past its due date, and once it is
\* OVERDUE both sides are told, unless a run was cut short.
OverdueIsHandled ==
  \A l \in Loans : ~cut /\ ~Running =>
    /\ status[l] = "ACCEPTED" => clock < dueDate[l] + DayTicks
    /\ status[l] = "OVERDUE" =>
         sent[l]["overdue_borrower"] = 1 /\ sent[l]["overdue_lender"] = 1
=============================================================================
