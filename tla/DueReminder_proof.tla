------------------------- MODULE DueReminder_proof -------------------------
(***************************************************************************)
(* DueReminder for any number of loans, any length of a day and of a loan. *)
(***************************************************************************)
EXTENDS DueReminder, TLAPS

Morning(c) == c % DayTicks = CronTick

\* The mornings on which l has three days left, and one day.
ThreeDaysBefore(l) ==
  {c \in Int : Morning(c) /\ dueDate[l] - 3 * DayTicks <= c /\ c < dueDate[l] - 2 * DayTicks}
OneDayBefore(l) ==
  {c \in Int : Morning(c) /\ dueDate[l] - DayTicks <= c /\ c < dueDate[l]}

\* The job has had its chance at tick c as far as l is concerned.
Reached(c, l) == c < clock \/ (c = clock /\ fired /\ l \notin todo)

RunInv ==
  /\ Running => fired /\ Morning(clock)
  /\ current = Nobody <=> step = "none"
  /\ current \notin todo

\* The job is only ever busy with loans that have been lent.
LentInv(l) ==
  /\ l \in todo => status[l] \in {"ACCEPTED", "RETURNED", "deleted"}
  /\ l \in todo \/ current = l => status[l] # "PENDING"
  /\ status[l] = "PENDING" => \A n \in Notices : sent[l][n] = 0

\* A notice is stamped on a morning that is over for l: the quiet period,
\* shorter than a day, never silences the job itself.
StampInv(l) == notifiedAt[l] # Never => Morning(notifiedAt[l]) /\ Reached(notifiedAt[l], l)

EarlyInv(l) == status[l] = "OVERDUE" => clock >= dueDate[l]

\* A reminder has been sent only when its morning is over.
ReminderInv(l) ==
  /\ sent[l]["three_days"] <= 1 /\ sent[l]["one_day"] <= 1
  /\ sent[l]["three_days"] = 1 => \A c \in ThreeDaysBefore(l) : Reached(c, l)
  /\ sent[l]["one_day"] = 1 => \A c \in OneDayBefore(l) : Reached(c, l)

\* And when it is over it has been sent, if no run was cut.
RemindedInv(l) ==
  LoanDays > 3 /\ ~cut /\ (Out(l) \/ l \in todo) =>
    /\ (\E c \in ThreeDaysBefore(l) : Reached(c, l)) => sent[l]["three_days"] = 1
    /\ (\E c \in OneDayBefore(l) : Reached(c, l)) => sent[l]["one_day"] = 1

\* Overdue notices follow the step the job is at.
OverdueInv(l) ==
  /\ status[l] \in {"PENDING", "ACCEPTED"} \/ l \in todo \/ (current = l /\ step = "borrower") =>
       sent[l]["overdue_borrower"] = 0 /\ sent[l]["overdue_lender"] = 0
  /\ current = l /\ step = "lender" =>
       sent[l]["overdue_borrower"] = 1 /\ sent[l]["overdue_lender"] = 0
  /\ current = l /\ step \in {"borrower", "lender"} => status[l] \notin {"PENDING", "ACCEPTED"}
  /\ sent[l]["overdue_borrower"] <= 1 /\ sent[l]["overdue_lender"] <= 1
  /\ ~cut /\ status[l] = "OVERDUE" =>
       \/ current = l /\ step \in {"borrower", "lender"}
       \/ sent[l]["overdue_borrower"] = 1 /\ sent[l]["overdue_lender"] = 1

\* No morning after the due date leaves a loan ACCEPTED.
LateInv(l) ==
  LoanDays > 0 /\ ~cut /\ status[l] = "ACCEPTED" =>
    \A c \in Int : Morning(c) /\ c >= dueDate[l] => ~Reached(c, l)

LoanInv(l) ==
  /\ LentInv(l) /\ StampInv(l) /\ EarlyInv(l) /\ ReminderInv(l) /\ RemindedInv(l)
  /\ OverdueInv(l) /\ LateInv(l)

ReminderJobInv == TypeOK /\ RunInv /\ \A l \in Loans : LoanInv(l)

-----------------------------------------------------------------------------
(* Days and mornings.                                                      *)
LEMMA Division ==
  ASSUME NEW a \in Int
  PROVE  /\ a \div DayTicks \in Int
         /\ DayTicks * (a \div DayTicks) <= a /\ a < DayTicks * (a \div DayTicks) + DayTicks
BY DueReminderAssumption DEF DueReminderAssumption

LEMMA Remainder ==
  ASSUME NEW a \in Int, NEW q \in Int, NEW r \in 0 .. DayTicks - 1, a = DayTicks * q + r
  PROVE  a % DayTicks = r
BY DueReminderAssumption DEF DueReminderAssumption

\* Two mornings are a day apart at least.
LEMMA MorningsApart ==
  ASSUME NEW a \in Int, NEW b \in Int, Morning(a), Morning(b), a < b
  PROVE  b - a >= DayTicks
<1> USE DueReminderAssumption DEF DueReminderAssumption
<1> DEFINE q == a \div DayTicks
<1> DEFINE r == b \div DayTicks
<1>1. ASSUME NEW c \in Int PROVE c % DayTicks = c - DayTicks * (c \div DayTicks)
  <2> DEFINE k == c \div DayTicks
  <2> DEFINE m == c - DayTicks * k
  <2>1. k \in Int /\ m \in 0 .. DayTicks - 1 /\ c = DayTicks * k + m
    BY Division
  <2> HIDE DEF k, m
  <2>2. c % DayTicks = m
    BY <2>1, Remainder
  <2> QED BY <2>2 DEF k, m
<1>2. b - a = DayTicks * r - DayTicks * q /\ q \in Int /\ r \in Int
  BY <1>1, Division DEF Morning
<1> HIDE DEF q, r
<1>3. b - a = DayTicks * (r - q)
  BY <1>2
<1>4. r - q >= 1
  BY <1>2, <1>3
<1> QED BY <1>2, <1>3, <1>4

\* Every day has one.
LEMMA MorningEveryDay ==
  ASSUME NEW a \in Int
  PROVE  \E c \in Int : Morning(c) /\ a <= c /\ c < a + DayTicks
<1> USE DueReminderAssumption DEF DueReminderAssumption
<1> DEFINE q == (CronTick - a) \div DayTicks
<1>1. q \in Int /\ DayTicks * q <= CronTick - a /\ CronTick - a < DayTicks * q + DayTicks
  BY Division
<1> HIDE DEF q
<1> DEFINE c == DayTicks * (-q) + CronTick
<1>2. c \in Int /\ a <= c /\ c < a + DayTicks
  BY <1>1
<1>3. c % DayTicks = CronTick
  BY <1>1, <1>2, Remainder
<1> QED BY <1>2, <1>3 DEF Morning

\* What Math.ceil makes of the time left.
LEMMA DaysLeftMeans ==
  ASSUME NEW l \in Loans, clock \in Int, dueDate[l] \in Int
  PROVE  /\ DaysLeft(l) = 3 <=> dueDate[l] - 3 * DayTicks <= clock /\ clock < dueDate[l] - 2 * DayTicks
         /\ DaysLeft(l) = 1 <=> dueDate[l] - DayTicks <= clock /\ clock < dueDate[l]
         /\ DaysLeft(l) <= 0 <=> clock >= dueDate[l]
         /\ DaysLeft(l) \in Int
<1> USE DueReminderAssumption DEF DueReminderAssumption, DaysLeft
<1>1. DaysLeft(l) = 3 <=> dueDate[l] - 3 * DayTicks <= clock /\ clock < dueDate[l] - 2 * DayTicks
  OBVIOUS
<1>2. DaysLeft(l) = 1 <=> dueDate[l] - DayTicks <= clock /\ clock < dueDate[l]
  OBVIOUS
<1>3. DaysLeft(l) <= 0 <=> clock >= dueDate[l]
  OBVIOUS
<1>4. DaysLeft(l) \in Int
  OBVIOUS
<1> QED BY <1>1, <1>2, <1>3, <1>4

-----------------------------------------------------------------------------
LEMMA ReminderJobInit == Init => ReminderJobInv
<1> SUFFICES ASSUME Init PROVE ReminderJobInv
  OBVIOUS
<1> USE DueReminderAssumption DEF DueReminderAssumption
<1>1. TypeOK
  <2>1. clock \in 0 .. LastTick /\ dueDate \in [Loans -> Int] /\ notifiedAt \in [Loans -> Int]
    BY DEF Init, Never
  <2>2. fired \in BOOLEAN /\ cut \in BOOLEAN
    BY DEF Init
  <2>3. status \in [Loans -> Statuses] /\ sent \in [Loans -> [Notices -> Nat]]
    BY DEF Init, Statuses
  <2> QED BY <2>1, <2>2, <2>3 DEF Init, TypeOK
<1>2. RunInv
  BY DEF Init, RunInv, Running
<1>3. ASSUME NEW l \in Loans PROVE LoanInv(l)
  <2>1. /\ status[l] = "PENDING" /\ notifiedAt[l] = Never /\ l \notin todo /\ current # l
        /\ \A n \in Notices : sent[l][n] = 0
    BY DEF Init
  <2>2. /\ sent[l]["three_days"] = 0 /\ sent[l]["one_day"] = 0
        /\ sent[l]["overdue_borrower"] = 0 /\ sent[l]["overdue_lender"] = 0
    BY <2>1 DEF Notices
  <2>3. LentInv(l) /\ StampInv(l) /\ EarlyInv(l) /\ LateInv(l)
    BY <2>1 DEF LentInv, StampInv, EarlyInv, LateInv
  <2>4. ReminderInv(l) /\ RemindedInv(l) /\ OverdueInv(l)
    BY <2>1, <2>2 DEF ReminderInv, RemindedInv, OverdueInv, Out
  <2> QED BY <2>3, <2>4 DEF LoanInv
<1> QED BY <1>1, <1>2, <1>3 DEF ReminderJobInv

-----------------------------------------------------------------------------
LEMMA TypeStep == TypeOK /\ [Next]_vars => TypeOK'
<1> SUFFICES ASSUME TypeOK, [Next]_vars PROVE TypeOK'
  OBVIOUS
<1> DEFINE Ticking == clock' \in 0 .. LastTick
<1> DEFINE Flags == fired' \in BOOLEAN /\ cut' \in BOOLEAN
<1> DEFINE Rest ==
      /\ status' \in [Loans -> Statuses]
      /\ dueDate' \in [Loans -> Int] /\ notifiedAt' \in [Loans -> Int]
      /\ returning' \subseteq Loans /\ todo' \subseteq Loans
      /\ current' \in Loans \cup {Nobody}
      /\ step' \in {"none", "borrower", "lender", "stamp"}
      /\ sent' \in [Loans -> [Notices -> Nat]]
<1> USE DEF loanVars, runVars
<1>1. Ticking
  <2>1. clock' = clock \/ (clock < LastTick /\ clock' = clock + 1)
    BY DEF Next, vars, UserStep, JobStep, Accept, ReturnReads, ReturnCommits, BookDeleted, Skips,
           Reminds, MarksOverdue, NotifiesParty, Stamps, Fires, RunCut, MorningMissed, Tick
  <2>2. clock \in 0 .. LastTick /\ LastTick \in Nat
    BY DueReminderAssumption DEF DueReminderAssumption, TypeOK
  <2> QED BY <2>1, <2>2
<1>2. Flags
  BY DEF TypeOK, Next, vars, UserStep, JobStep, Accept, ReturnReads, ReturnCommits, BookDeleted, Skips,
         Reminds, MarksOverdue, NotifiesParty, Stamps, Fires, RunCut, MorningMissed, Tick
<1>3. Rest
  <2> USE DEF TypeOK, Statuses, Takes, Sends
  <2>1. ASSUME NEW l \in Loans, Accept(l) PROVE Rest
    <3>1. clock + LoanDays * DayTicks \in Int
      BY DueReminderAssumption DEF DueReminderAssumption
    <3> QED BY <2>1, <3>1 DEF Accept
  <2>2. ASSUME NEW l \in Loans, ReturnReads(l) \/ ReturnCommits(l) \/ BookDeleted(l) PROVE Rest
    BY <2>2 DEF ReturnReads, ReturnCommits, BookDeleted
  <2>3. ASSUME NEW l \in Loans, Skips(l) PROVE Rest
    BY <2>3 DEF Skips
  <2>4. ASSUME NEW l \in Loans, Reminds(l) PROVE Rest
    <3>1. \A n \in Reminder(l) : n \in Notices
      BY DEF Reminder, Notices
    <3> QED BY <2>4, <3>1 DEF Reminds
  <2>5. ASSUME NEW l \in Loans, MarksOverdue(l) PROVE Rest
    BY <2>5 DEF MarksOverdue, OverdueRow
  <2>6. ASSUME NEW l \in Loans, NotifiesParty(l) PROVE Rest
    <3>1. "overdue_borrower" \in Notices /\ "overdue_lender" \in Notices
      BY DEF Notices
    <3>2. CASE step = "borrower"
      BY <2>6, <3>1, <3>2 DEF NotifiesParty
    <3>3. CASE step = "lender"
      BY <2>6, <3>1, <3>3 DEF NotifiesParty
    <3> QED BY <2>6, <3>2, <3>3 DEF NotifiesParty
  <2>7. ASSUME NEW l \in Loans, Stamps(l) PROVE Rest
    BY <2>7 DEF Stamps
  <2>8. CASE Fires \/ RunCut \/ MorningMissed \/ Tick
    BY <2>8 DEF Fires, RunCut, MorningMissed, Tick
  <2>9. CASE UNCHANGED vars
    BY <2>9 DEF vars
  <2> QED
    BY <2>1, <2>2, <2>3, <2>4, <2>5, <2>6, <2>7, <2>8, <2>9 DEF Next, UserStep, JobStep
<1> QED BY <1>1, <1>2, <1>3 DEF TypeOK

LEMMA RunStep == TypeOK /\ RunInv /\ [Next]_vars => RunInv'
<1> SUFFICES ASSUME TypeOK, RunInv, [Next]_vars PROVE RunInv'
  OBVIOUS
<1>a. Nobody \notin Loans
  BY DueReminderAssumption DEF DueReminderAssumption
<1> USE <1>a DEF TypeOK, RunInv, Running, AtCron, Morning, Takes, loanVars, runVars
<1>1. ASSUME NEW l \in Loans, UserStep(l) PROVE RunInv'
  BY <1>1 DEF UserStep, Accept, ReturnReads, ReturnCommits, BookDeleted
<1>2. ASSUME NEW l \in Loans, JobStep(l) PROVE RunInv'
  <2>1. CASE Skips(l)
    BY <2>1 DEF Skips
  <2>2. CASE Reminds(l)
    BY <2>2 DEF Reminds
  <2>3. CASE MarksOverdue(l)
    BY <2>3 DEF MarksOverdue
  <2>4. CASE NotifiesParty(l)
    BY <2>4 DEF NotifiesParty
  <2>5. CASE Stamps(l)
    BY <2>5 DEF Stamps
  <2> QED BY <1>2, <2>1, <2>2, <2>3, <2>4, <2>5 DEF JobStep
<1>3. CASE Fires \/ RunCut \/ MorningMissed \/ Tick
  BY <1>3 DEF Fires, RunCut, MorningMissed, Tick
<1>4. CASE UNCHANGED vars
  BY <1>4 DEF vars
<1> QED BY <1>1, <1>2, <1>3, <1>4 DEF Next

-----------------------------------------------------------------------------
(* One loan, step by step.                                                 *)
LEMMA Numbers ==
  ASSUME TypeOK, NEW l \in Loans
  PROVE  /\ clock \in Nat /\ dueDate[l] \in Int /\ notifiedAt[l] \in Int
         /\ DayTicks \in Nat \ {0} /\ QuietTicks \in Nat /\ QuietTicks <= DayTicks
         /\ LoanDays \in Nat /\ l # Nobody
         /\ \A n \in Notices : sent[l][n] \in Nat
BY DueReminderAssumption DEF DueReminderAssumption, TypeOK

\* A step that does not concern l.
LEMMA ElsewhereStep ==
  ASSUME NEW l \in Loans, LoanInv(l), UNCHANGED <<clock, fired, cut>>,
         status'[l] = status[l], dueDate'[l] = dueDate[l], notifiedAt'[l] = notifiedAt[l],
         sent'[l] = sent[l], l \in todo' <=> l \in todo,
         current' = l <=> current = l, current = l => step' = step
  PROVE  LoanInv(l)'
<1> USE DEF LoanInv, Reached, ThreeDaysBefore, OneDayBefore
<1>1. LentInv(l)' /\ StampInv(l)' /\ EarlyInv(l)'
  BY DEF LentInv, StampInv, EarlyInv
<1>2. ReminderInv(l)'
  BY DEF ReminderInv
<1>3. RemindedInv(l)'
  BY DEF RemindedInv, Out
<1>4. OverdueInv(l)'
  BY DEF OverdueInv
<1>5. LateInv(l)'
  BY DEF LateInv
<1> QED BY <1>1, <1>2, <1>3, <1>4, <1>5

\* l is given back or its book is deleted.
LEMMA LeavesStep ==
  ASSUME NEW l \in Loans, LoanInv(l), UNCHANGED <<clock, fired, cut, todo, current, step>>,
         status'[l] \in {"RETURNED", "deleted"}, dueDate'[l] = dueDate[l],
         notifiedAt'[l] = notifiedAt[l], sent'[l] = sent[l]
  PROVE  LoanInv(l)'
<1> USE DEF LoanInv, Reached, ThreeDaysBefore, OneDayBefore
<1>1. LentInv(l)' /\ StampInv(l)' /\ EarlyInv(l)'
  BY DEF LentInv, StampInv, EarlyInv
<1>2. ReminderInv(l)'
  BY DEF ReminderInv
<1>3. RemindedInv(l)'
  BY DEF RemindedInv, Out
<1>4. OverdueInv(l)'
  BY DEF OverdueInv
<1>5. LateInv(l)'
  BY DEF LateInv
<1> QED BY <1>1, <1>2, <1>3, <1>4, <1>5

LEMMA AcceptStep ==
  ASSUME TypeOK, NEW l \in Loans, LoanInv(l), Accept(l)
  PROVE  LoanInv(l)'
<1> USE DEF LoanInv
<1>1. /\ UNCHANGED <<clock, fired, cut, todo, current, step>>
      /\ status[l] = "PENDING" /\ status'[l] = "ACCEPTED" /\ dueDate'[l] = clock + LoanDays * DayTicks
      /\ notifiedAt'[l] = notifiedAt[l] /\ sent'[l] = sent[l]
  BY DEF Accept, TypeOK, runVars
<1>2. /\ sent[l]["three_days"] = 0 /\ sent[l]["one_day"] = 0
      /\ sent[l]["overdue_borrower"] = 0 /\ sent[l]["overdue_lender"] = 0
      /\ l \notin todo /\ current # l
  BY <1>1 DEF LentInv, Notices
<1>3. clock \in Int /\ DayTicks \in Nat \ {0} /\ LoanDays \in Nat
  BY Numbers
<1>4. LentInv(l)' /\ StampInv(l)' /\ EarlyInv(l)'
  BY <1>1, <1>2 DEF LentInv, StampInv, EarlyInv, Reached
<1>5. ReminderInv(l)'
  BY <1>1, <1>2 DEF ReminderInv
<1>6. RemindedInv(l)'
  <2>1. LoanDays > 3 => LoanDays * DayTicks >= 4 * DayTicks
    BY <1>3
  <2>2. LoanDays > 3 => dueDate'[l] >= clock + 4 * DayTicks /\ dueDate'[l] \in Int
    BY <1>1, <1>3, <2>1
  <2>3. LoanDays > 3 => \A c \in ThreeDaysBefore(l)' \cup OneDayBefore(l)' : c > clock
    BY <1>3, <2>2 DEF ThreeDaysBefore, OneDayBefore
  <2> QED BY <1>1, <1>3, <2>3 DEF RemindedInv, Reached, ThreeDaysBefore, OneDayBefore
<1>7. OverdueInv(l)'
  BY <1>1, <1>2 DEF OverdueInv
<1>8. LateInv(l)'
  <2>1. LoanDays > 0 => LoanDays * DayTicks >= DayTicks
    BY <1>3
  <2>2. LoanDays > 0 => dueDate'[l] > clock
    BY <1>1, <1>3, <2>1
  <2> QED BY <1>1, <1>3, <2>2 DEF LateInv, Reached
<1> QED BY <1>4, <1>5, <1>6, <1>7, <1>8

\* A loan is not looked at twice within the quiet period: it is shorter than
\* the day between two runs.
LEMMA QuietNever ==
  ASSUME TypeOK, RunInv, NEW l \in Loans, l \in todo, StampInv(l)
  PROVE  ~QuietStill(l)
<1>1. Morning(clock)
  BY DEF RunInv, Running
<1>2. notifiedAt[l] # Never => Morning(notifiedAt[l]) /\ notifiedAt[l] < clock
  BY DEF StampInv, Reached
<1>3. notifiedAt[l] # Never => clock - notifiedAt[l] >= DayTicks
  BY <1>1, <1>2, Numbers, MorningsApart
<1> QED BY <1>3, Numbers DEF QuietStill

\* The job takes l up: what was over for l still is, and this morning now is.
LEMMA TakenUp ==
  ASSUME TypeOK, RunInv, NEW l \in Loans, Takes(l, "none") \/ Takes(l, "stamp") \/ Takes(l, "borrower"),
         UNCHANGED <<clock, fired>>
  PROVE  /\ Morning(clock) /\ l \in todo /\ l \notin todo' /\ current # l
         /\ \A c \in Int : Reached(c, l)' <=> c < clock \/ c = clock
         /\ \A c \in Int : Reached(c, l) <=> c < clock
<1>1. Running /\ l \in todo /\ todo' = todo \ {l} /\ current = Nobody
  BY DEF Takes, Running
<1>2. fired /\ Morning(clock)
  BY <1>1 DEF RunInv
<1> QED BY <1>1, <1>2, Numbers DEF Reached

LEMMA SkipStep ==
  ASSUME TypeOK, RunInv, NEW l \in Loans, LoanInv(l), Skips(l)
  PROVE  LoanInv(l)'
<1> USE DEF LoanInv
<1>1. /\ UNCHANGED <<clock, fired, cut, status, dueDate, notifiedAt, sent>>
      /\ Takes(l, "none") /\ current' # l
  BY Numbers DEF Skips, Takes, loanVars
<1>2. /\ Morning(clock) /\ l \in todo /\ l \notin todo' /\ current # l
      /\ \A c \in Int : Reached(c, l)' <=> c < clock \/ c = clock
      /\ \A c \in Int : Reached(c, l) <=> c < clock
  BY <1>1, TakenUp
<1>3. Reminder(l) = {} /\ DaysLeft(l) > 0
  BY <1>2, QuietNever DEF Skips
<1>4. clock \notin ThreeDaysBefore(l) /\ clock \notin OneDayBefore(l) /\ clock < dueDate[l]
  BY <1>3, Numbers, DaysLeftMeans DEF Reminder, ThreeDaysBefore, OneDayBefore
<1>5. ThreeDaysBefore(l)' = ThreeDaysBefore(l) /\ OneDayBefore(l)' = OneDayBefore(l)
  BY <1>1 DEF ThreeDaysBefore, OneDayBefore
<1>6. \A c \in ThreeDaysBefore(l) \cup OneDayBefore(l) : c \in Int
  BY DEF ThreeDaysBefore, OneDayBefore
<1>7. LentInv(l)' /\ EarlyInv(l)'
  BY <1>1, <1>2 DEF LentInv, EarlyInv
<1>8. StampInv(l)'
  BY <1>1, <1>2, Numbers DEF StampInv
<1>9. ReminderInv(l)'
  BY <1>1, <1>2, <1>5, <1>6 DEF ReminderInv
<1>10. RemindedInv(l)'
  BY <1>1, <1>2, <1>4, <1>5, <1>6 DEF RemindedInv, Out
<1>11. OverdueInv(l)'
  BY <1>1, <1>2 DEF OverdueInv, LentInv
<1>12. LateInv(l)'
  BY <1>1, <1>2, <1>4, Numbers DEF LateInv
<1> QED BY <1>7, <1>8, <1>9, <1>10, <1>11, <1>12

LEMMA RemindStep ==
  ASSUME TypeOK, RunInv, NEW l \in Loans, LoanInv(l), Reminds(l)
  PROVE  LoanInv(l)'
<1> USE DEF LoanInv
<1>1. /\ UNCHANGED <<clock, fired, cut, status, dueDate, notifiedAt>>
      /\ Takes(l, "stamp") /\ current' = l /\ step' = "stamp"
  BY Numbers DEF Reminds, Takes, loanVars
<1>2. /\ Morning(clock) /\ l \in todo /\ l \notin todo' /\ current # l
      /\ \A c \in Int : Reached(c, l)' <=> c < clock \/ c = clock
      /\ \A c \in Int : Reached(c, l) <=> c < clock
  BY <1>1, TakenUp
<1>3. /\ clock \in ThreeDaysBefore(l) <=> DaysLeft(l) = 3
      /\ clock \in OneDayBefore(l) <=> DaysLeft(l) = 1
      /\ DaysLeft(l) = 3 \/ DaysLeft(l) = 1 => clock < dueDate[l]
  BY <1>2, Numbers, DaysLeftMeans DEF ThreeDaysBefore, OneDayBefore
<1>4. ThreeDaysBefore(l)' = ThreeDaysBefore(l) /\ OneDayBefore(l)' = OneDayBefore(l)
  BY <1>1 DEF ThreeDaysBefore, OneDayBefore
<1>5. \A c \in ThreeDaysBefore(l) \cup OneDayBefore(l) : c \in Int
  BY DEF ThreeDaysBefore, OneDayBefore
\* The window holds no later morning than this one.
<1>6. /\ DaysLeft(l) = 3 => \A c \in ThreeDaysBefore(l) : c <= clock
      /\ DaysLeft(l) = 1 => \A c \in OneDayBefore(l) : c <= clock
  <2>1. ASSUME NEW c \in Int, Morning(c), c < clock + DayTicks PROVE c <= clock
    BY <1>2, <2>1, Numbers, MorningsApart
  <2>2. /\ DaysLeft(l) = 3 => \A c \in ThreeDaysBefore(l) : Morning(c) /\ c < clock + DayTicks
        /\ DaysLeft(l) = 1 => \A c \in OneDayBefore(l) : Morning(c) /\ c < clock + DayTicks
    BY Numbers, DaysLeftMeans DEF ThreeDaysBefore, OneDayBefore
  <2> QED BY <1>5, <2>1, <2>2
<1>7. LentInv(l)' /\ EarlyInv(l)'
  <2>1. status[l] # "PENDING"
    BY <1>2 DEF LentInv
  <2> QED BY <1>1, <1>2, <2>1 DEF LentInv, EarlyInv
<1>8. StampInv(l)'
  BY <1>1, <1>2, Numbers DEF StampInv
<1>9. LateInv(l)'
  <2>1. clock < dueDate[l]
    BY <1>3 DEF Reminds, Reminder
  <2> QED BY <1>1, <1>2, <2>1, Numbers DEF LateInv
<1>10. PICK n \in Reminder(l) : sent' = [sent EXCEPT ![l][n] = @ + 1]
  BY DEF Reminds, Sends
<1>11. CASE n = "three_days"
  <2>1. DaysLeft(l) = 3
    BY <1>11 DEF Reminder
  <2>2. sent[l]["three_days"] = 0
    BY <1>2, <1>3, <2>1, Numbers DEF ReminderInv, Notices
  <2>3. /\ sent'[l]["three_days"] = 1 /\ sent'[l]["one_day"] = sent[l]["one_day"]
        /\ sent'[l]["overdue_borrower"] = sent[l]["overdue_borrower"]
        /\ sent'[l]["overdue_lender"] = sent[l]["overdue_lender"]
    BY <1>10, <1>11, <2>2 DEF TypeOK, Notices
  <2>4. ReminderInv(l)'
    BY <1>2, <1>4, <1>5, <1>6, <2>1, <2>3, Numbers DEF ReminderInv
  <2>5. RemindedInv(l)'
    BY <1>1, <1>2, <1>3, <1>4, <1>5, <2>1, <2>3 DEF RemindedInv, Out
  <2>6. OverdueInv(l)'
    BY <1>1, <1>2, <2>3 DEF OverdueInv, LentInv
  <2> QED BY <1>7, <1>8, <1>9, <2>4, <2>5, <2>6
<1>12. CASE n = "one_day"
  <2>1. DaysLeft(l) = 1
    BY <1>12 DEF Reminder
  <2>2. sent[l]["one_day"] = 0
    BY <1>2, <1>3, <2>1, Numbers DEF ReminderInv, Notices
  <2>3. /\ sent'[l]["one_day"] = 1 /\ sent'[l]["three_days"] = sent[l]["three_days"]
        /\ sent'[l]["overdue_borrower"] = sent[l]["overdue_borrower"]
        /\ sent'[l]["overdue_lender"] = sent[l]["overdue_lender"]
    BY <1>10, <1>12, <2>2 DEF TypeOK, Notices
  <2>4. ReminderInv(l)'
    BY <1>2, <1>4, <1>5, <1>6, <2>1, <2>3, Numbers DEF ReminderInv
  <2>5. RemindedInv(l)'
    BY <1>1, <1>2, <1>3, <1>4, <1>5, <2>1, <2>3 DEF RemindedInv, Out
  <2>6. OverdueInv(l)'
    BY <1>1, <1>2, <2>3 DEF OverdueInv, LentInv
  <2> QED BY <1>7, <1>8, <1>9, <2>4, <2>5, <2>6
<1> QED BY <1>10, <1>11, <1>12 DEF Reminder

LEMMA OverdueStep ==
  ASSUME TypeOK, RunInv, NEW l \in Loans, LoanInv(l), MarksOverdue(l)
  PROVE  LoanInv(l)'
<1> USE DEF LoanInv
<1>1. /\ UNCHANGED <<clock, fired, cut, dueDate, notifiedAt, sent>> /\ status'[l] = "OVERDUE"
      /\ Takes(l, "borrower") /\ current' = l /\ step' = "borrower"
  BY Numbers DEF MarksOverdue, OverdueRow, Takes, TypeOK
<1>2. /\ Morning(clock) /\ l \in todo /\ l \notin todo' /\ current # l
      /\ \A c \in Int : Reached(c, l)' <=> c < clock \/ c = clock
      /\ \A c \in Int : Reached(c, l) <=> c < clock
  BY <1>1, TakenUp
<1>3. clock >= dueDate[l]
  BY Numbers, DaysLeftMeans DEF MarksOverdue
<1>4. clock \notin ThreeDaysBefore(l) /\ clock \notin OneDayBefore(l)
  BY <1>3, Numbers DEF ThreeDaysBefore, OneDayBefore
<1>5. ThreeDaysBefore(l)' = ThreeDaysBefore(l) /\ OneDayBefore(l)' = OneDayBefore(l)
  BY <1>1 DEF ThreeDaysBefore, OneDayBefore
<1>6. \A c \in ThreeDaysBefore(l) \cup OneDayBefore(l) : c \in Int
  BY DEF ThreeDaysBefore, OneDayBefore
<1>7. LentInv(l)' /\ EarlyInv(l)' /\ LateInv(l)'
  BY <1>1, <1>2, <1>3 DEF LentInv, EarlyInv, LateInv
<1>8. StampInv(l)'
  BY <1>1, <1>2, Numbers DEF StampInv
<1>9. ReminderInv(l)'
  BY <1>1, <1>2, <1>5, <1>6 DEF ReminderInv
<1>10. RemindedInv(l)'
  BY <1>1, <1>2, <1>4, <1>5, <1>6 DEF RemindedInv
<1>11. OverdueInv(l)'
  BY <1>1, <1>2 DEF OverdueInv
<1> QED BY <1>7, <1>8, <1>9, <1>10, <1>11

LEMMA NotifyStep ==
  ASSUME TypeOK, RunInv, NEW l \in Loans, LoanInv(l), NotifiesParty(l)
  PROVE  LoanInv(l)'
<1> USE DEF LoanInv
<1>1. /\ UNCHANGED <<clock, fired, cut, status, dueDate, notifiedAt, todo, current>>
      /\ current = l /\ l \notin todo /\ status[l] \notin {"PENDING", "ACCEPTED"}
  BY DEF NotifiesParty, loanVars, RunInv, OverdueInv
<1>2. LentInv(l)' /\ StampInv(l)' /\ EarlyInv(l)' /\ LateInv(l)'
  BY <1>1 DEF LentInv, StampInv, EarlyInv, LateInv, Reached
<1>3. CASE step = "borrower"
  <2>1. step' = "lender" /\ sent' = [sent EXCEPT ![l]["overdue_borrower"] = @ + 1]
    BY <1>3 DEF NotifiesParty, Sends
  <2>2. /\ sent'[l]["overdue_borrower"] = 1 /\ sent'[l]["overdue_lender"] = 0
        /\ sent'[l]["three_days"] = sent[l]["three_days"] /\ sent'[l]["one_day"] = sent[l]["one_day"]
    BY <1>1, <1>3, <2>1 DEF TypeOK, Notices, OverdueInv
  <2>3. ReminderInv(l)' /\ RemindedInv(l)'
    BY <1>1, <2>2 DEF ReminderInv, RemindedInv, Out, Reached, ThreeDaysBefore, OneDayBefore
  <2>4. OverdueInv(l)'
    BY <1>1, <2>1, <2>2 DEF OverdueInv
  <2> QED BY <1>2, <2>3, <2>4
<1>4. CASE step = "lender"
  <2>1. step' = "stamp" /\ sent' = [sent EXCEPT ![l]["overdue_lender"] = @ + 1]
    BY <1>4 DEF NotifiesParty, Sends
  <2>2. /\ sent'[l]["overdue_borrower"] = 1 /\ sent'[l]["overdue_lender"] = 1
        /\ sent'[l]["three_days"] = sent[l]["three_days"] /\ sent'[l]["one_day"] = sent[l]["one_day"]
    BY <1>1, <1>4, <2>1 DEF TypeOK, Notices, OverdueInv
  <2>3. ReminderInv(l)' /\ RemindedInv(l)'
    BY <1>1, <2>2 DEF ReminderInv, RemindedInv, Out, Reached, ThreeDaysBefore, OneDayBefore
  <2>4. OverdueInv(l)'
    BY <1>1, <2>1, <2>2 DEF OverdueInv
  <2> QED BY <1>2, <2>3, <2>4
<1> QED BY <1>3, <1>4 DEF NotifiesParty

LEMMA StampStep ==
  ASSUME TypeOK, RunInv, NEW l \in Loans, LoanInv(l), Stamps(l)
  PROVE  LoanInv(l)'
<1> USE DEF LoanInv
<1>1. /\ UNCHANGED <<clock, fired, cut, status, dueDate, todo, sent>>
      /\ current = l /\ step = "stamp" /\ l \notin todo /\ current' # l
      /\ notifiedAt'[l] = clock
  BY Numbers DEF Stamps, loanVars, RunInv, TypeOK
<1>2. fired /\ Morning(clock)
  BY <1>1, Numbers DEF RunInv, Running
<1>3. StampInv(l)'
  BY <1>1, <1>2 DEF StampInv, Reached, Morning
<1>4. LentInv(l)' /\ EarlyInv(l)' /\ LateInv(l)'
  BY <1>1 DEF LentInv, EarlyInv, LateInv, Reached
<1>5. ReminderInv(l)' /\ RemindedInv(l)'
  BY <1>1 DEF ReminderInv, RemindedInv, Out, Reached, ThreeDaysBefore, OneDayBefore
<1>6. OverdueInv(l)'
  BY <1>1 DEF OverdueInv
<1> QED BY <1>3, <1>4, <1>5, <1>6

\* What happens to another loan does not concern l.
LEMMA OtherStep ==
  ASSUME TypeOK, NEW k \in Loans, NEW l \in Loans, k # l, LoanInv(l), UserStep(k) \/ JobStep(k)
  PROVE  LoanInv(l)'
<1> DEFINE Same ==
      /\ UNCHANGED <<clock, fired, cut>>
      /\ status'[l] = status[l] /\ dueDate'[l] = dueDate[l] /\ notifiedAt'[l] = notifiedAt[l]
      /\ sent'[l] = sent[l]
      /\ l \in todo' <=> l \in todo
      /\ current' = l <=> current = l
      /\ current = l => step' = step
<1> USE Numbers DEF TypeOK, loanVars, runVars, Takes, Sends
<1>1. CASE Accept(k) \/ ReturnReads(k) \/ ReturnCommits(k) \/ BookDeleted(k)
  <2>1. Same
    BY <1>1 DEF Accept, ReturnReads, ReturnCommits, BookDeleted
  <2> QED BY <2>1, ElsewhereStep
<1>2. CASE Skips(k) \/ Reminds(k) \/ MarksOverdue(k)
  <2>1. Same
    BY <1>2 DEF Skips, Reminds, MarksOverdue, OverdueRow
  <2> QED BY <2>1, ElsewhereStep
<1>3. CASE NotifiesParty(k) \/ Stamps(k)
  <2>1. Same
    BY <1>3 DEF NotifiesParty, Stamps
  <2> QED BY <2>1, ElsewhereStep
<1> QED BY <1>1, <1>2, <1>3 DEF UserStep, JobStep

LEMMA OwnStep ==
  ASSUME TypeOK, RunInv, NEW l \in Loans, LoanInv(l), UserStep(l) \/ JobStep(l)
  PROVE  LoanInv(l)'
<1>1. CASE Accept(l)
  BY <1>1, AcceptStep
<1>2. CASE ReturnReads(l)
  BY <1>2, ElsewhereStep DEF ReturnReads, runVars
<1>3. CASE ReturnCommits(l)
  <2>1. status'[l] \in {"RETURNED", "deleted"}
    BY <1>3 DEF ReturnCommits, TypeOK
  <2> QED BY <1>3, <2>1, LeavesStep DEF ReturnCommits, runVars
<1>4. CASE BookDeleted(l)
  <2>1. status'[l] = "deleted"
    BY <1>4 DEF BookDeleted, TypeOK
  <2> QED BY <1>4, <2>1, LeavesStep DEF BookDeleted, runVars
<1> QED
  BY <1>1, <1>2, <1>3, <1>4, SkipStep, RemindStep, OverdueStep, NotifyStep, StampStep
  DEF UserStep, JobStep

LEMMA FireStep ==
  ASSUME TypeOK, RunInv, NEW l \in Loans, LoanInv(l), Fires
  PROVE  LoanInv(l)'
<1> USE DEF LoanInv
<1>1. /\ UNCHANGED <<clock, cut, status, dueDate, notifiedAt, current, step, sent>>
      /\ ~fired /\ fired' /\ (l \in todo' <=> status[l] = "ACCEPTED")
  BY DEF Fires, AtCron, loanVars
<1>2. todo = {} /\ current = Nobody /\ current # l
  BY <1>1, Numbers DEF RunInv, Running
<1>3. /\ \A c \in Int : Reached(c, l)' <=> c < clock \/ (c = clock /\ status[l] # "ACCEPTED")
      /\ \A c \in Int : Reached(c, l) <=> c < clock
  BY <1>1, Numbers DEF Reached
<1>4. status[l] = "OVERDUE" => clock \notin ThreeDaysBefore(l) /\ clock \notin OneDayBefore(l)
  BY Numbers DEF EarlyInv, ThreeDaysBefore, OneDayBefore
<1>5. ThreeDaysBefore(l)' = ThreeDaysBefore(l) /\ OneDayBefore(l)' = OneDayBefore(l)
  BY <1>1 DEF ThreeDaysBefore, OneDayBefore
<1>6. \A c \in ThreeDaysBefore(l) \cup OneDayBefore(l) : c \in Int
  BY DEF ThreeDaysBefore, OneDayBefore
<1>7. LentInv(l)' /\ EarlyInv(l)'
  BY <1>1, <1>2 DEF LentInv, EarlyInv
<1>8. StampInv(l)'
  BY <1>1, <1>3, Numbers DEF StampInv
<1>9. ReminderInv(l)'
  BY <1>1, <1>3, <1>5, <1>6 DEF ReminderInv
<1>10. RemindedInv(l)'
  BY <1>1, <1>2, <1>3, <1>4, <1>5, <1>6 DEF RemindedInv, Out
<1>11. OverdueInv(l)'
  BY <1>1, <1>2 DEF OverdueInv
<1>12. LateInv(l)'
  BY <1>1, <1>3 DEF LateInv
<1> QED BY <1>7, <1>8, <1>9, <1>10, <1>11, <1>12

\* A run is cut short, or a morning missed: from then on cut is set.
LEMMA CutStep ==
  ASSUME TypeOK, RunInv, NEW l \in Loans, LoanInv(l), RunCut \/ MorningMissed
  PROVE  LoanInv(l)'
<1> USE DEF LoanInv
<1>1. /\ UNCHANGED <<clock, status, dueDate, notifiedAt, sent>>
      /\ cut' /\ (fired => fired') /\ todo' = {} /\ current' # l
  BY Numbers DEF RunCut, MorningMissed, AtCron, RunInv, Running, loanVars, runVars
<1>2. \A c \in Int : Reached(c, l) => Reached(c, l)'
  BY <1>1 DEF Reached
<1>3. ThreeDaysBefore(l)' = ThreeDaysBefore(l) /\ OneDayBefore(l)' = OneDayBefore(l)
  BY <1>1 DEF ThreeDaysBefore, OneDayBefore
<1>4. \A c \in ThreeDaysBefore(l) \cup OneDayBefore(l) : c \in Int
  BY DEF ThreeDaysBefore, OneDayBefore
<1>5. LentInv(l)' /\ EarlyInv(l)'
  BY <1>1 DEF LentInv, EarlyInv
<1>6. StampInv(l)'
  BY <1>1, <1>2, Numbers DEF StampInv
<1>7. ReminderInv(l)'
  BY <1>1, <1>2, <1>3, <1>4 DEF ReminderInv
<1>8. RemindedInv(l)' /\ LateInv(l)'
  BY <1>1 DEF RemindedInv, LateInv
<1>9. OverdueInv(l)'
  BY <1>1 DEF OverdueInv
<1> QED BY <1>5, <1>6, <1>7, <1>8, <1>9

\* The clock leaves a morning only when the job has had its chance and is done.
LEMMA TickStep ==
  ASSUME TypeOK, RunInv, NEW l \in Loans, LoanInv(l), Tick
  PROVE  LoanInv(l)'
<1> USE DEF LoanInv
<1>1. /\ UNCHANGED <<cut, status, dueDate, notifiedAt, todo, current, step, sent>>
      /\ clock' = clock + 1 /\ ~fired' /\ l \notin todo /\ (Morning(clock) => fired)
  BY DEF Tick, AtCron, Morning, Running, loanVars, runVars
<1>2. /\ \A c \in Int : Reached(c, l)' /\ Morning(c) => Reached(c, l)
      /\ \A c \in Int : Reached(c, l) => Reached(c, l)'
  BY <1>1, Numbers DEF Reached
<1>3. ThreeDaysBefore(l)' = ThreeDaysBefore(l) /\ OneDayBefore(l)' = OneDayBefore(l)
  BY <1>1 DEF ThreeDaysBefore, OneDayBefore
<1>4. \A c \in ThreeDaysBefore(l) \cup OneDayBefore(l) : c \in Int /\ Morning(c)
  BY DEF ThreeDaysBefore, OneDayBefore
<1>5. LentInv(l)' /\ EarlyInv(l)'
  BY <1>1, Numbers DEF LentInv, EarlyInv
<1>6. StampInv(l)'
  BY <1>1, <1>2, Numbers DEF StampInv
<1>7. ReminderInv(l)'
  BY <1>1, <1>2, <1>3, <1>4 DEF ReminderInv
<1>8. RemindedInv(l)'
  BY <1>1, <1>2, <1>3, <1>4 DEF RemindedInv, Out
<1>9. OverdueInv(l)'
  BY <1>1 DEF OverdueInv
<1>10. LateInv(l)'
  BY <1>1, <1>2 DEF LateInv
<1> QED BY <1>5, <1>6, <1>7, <1>8, <1>9, <1>10

LEMMA ReminderJobStep == ReminderJobInv /\ [Next]_vars => ReminderJobInv'
<1> SUFFICES ASSUME ReminderJobInv, [Next]_vars PROVE ReminderJobInv'
  OBVIOUS
<1>1. TypeOK /\ RunInv /\ TypeOK' /\ RunInv'
  BY TypeStep, RunStep DEF ReminderJobInv
<1>2. ASSUME NEW l \in Loans PROVE LoanInv(l)'
  <2>1. LoanInv(l)
    BY DEF ReminderJobInv
  <2>2. ASSUME NEW k \in Loans, UserStep(k) \/ JobStep(k) PROVE LoanInv(l)'
    BY <1>1, <2>1, <2>2, OwnStep, OtherStep
  <2>3. CASE Fires
    BY <1>1, <2>1, <2>3, FireStep
  <2>4. CASE RunCut \/ MorningMissed
    BY <1>1, <2>1, <2>4, CutStep
  <2>5. CASE Tick
    BY <1>1, <2>1, <2>5, TickStep
  <2>6. CASE UNCHANGED vars
    BY <2>1, <2>6, ElsewhereStep DEF vars
  <2> QED BY <2>2, <2>3, <2>4, <2>5, <2>6 DEF Next
<1> QED BY <1>1, <1>2 DEF ReminderJobInv

LEMMA ReminderJobInvHolds == Spec => []ReminderJobInv
BY ReminderJobInit, ReminderJobStep, PTL DEF Spec

-----------------------------------------------------------------------------
\* Statuses, dates and notices stay what they are meant to be.
THEOREM ReminderTypeCorrect == Spec => []TypeOK
<1>1. ReminderJobInv => TypeOK
  BY DEF ReminderJobInv
<1> QED BY <1>1, ReminderJobInvHolds, PTL

\* The job never marks a loan OVERDUE before its due date, whatever the clock
\* reads when the loan is accepted.
THEOREM NeverOverdueEarly == Spec => []NotOverdueEarly
<1>1. ReminderJobInv => NotOverdueEarly
  BY DEF ReminderJobInv, LoanInv, EarlyInv, NotOverdueEarly
<1> QED BY <1>1, ReminderJobInvHolds, PTL

\* No loan gets a notice of one kind twice, though the run may break off
\* between the notice and the lastNotifiedAt that records it: mornings are a
\* day apart, and the days left fall by one from each to the next.
THEOREM NoticeIsWrittenOnce == Spec => []NoSecondNotice
<1>1. ReminderJobInv => NoSecondNotice
  BY DEF ReminderJobInv, LoanInv, ReminderInv, OverdueInv, NoSecondNotice, Notices
<1> QED BY <1>1, ReminderJobInvHolds, PTL

\* With a loan of more than three days (the code lends for 14), a borrower has
\* had both reminders by the due date, if every morning's run got through.
THEOREM BothRemindersInTime ==
  ASSUME LoanDays > 3
  PROVE  Spec => []RemindedInTime
<1>1. ReminderJobInv => RemindedInTime
  <2> SUFFICES ASSUME ReminderJobInv, NEW l \in Loans, ~cut, Out(l), clock >= dueDate[l]
               PROVE  sent[l]["three_days"] = 1 /\ sent[l]["one_day"] = 1
    BY DEF RemindedInTime
  <2>1. TypeOK /\ RemindedInv(l)
    BY DEF ReminderJobInv, LoanInv
  <2>2. \E c \in ThreeDaysBefore(l) : c < clock
    <3>1. dueDate[l] - 3 * DayTicks \in Int
      BY <2>1, Numbers
    <3>2. PICK c \in Int : /\ Morning(c) /\ dueDate[l] - 3 * DayTicks <= c
                           /\ c < dueDate[l] - 3 * DayTicks + DayTicks
      BY <3>1, MorningEveryDay
    <3> QED BY <2>1, <3>2, Numbers DEF ThreeDaysBefore
  <2>3. \E c \in OneDayBefore(l) : c < clock
    <3>1. dueDate[l] - DayTicks \in Int
      BY <2>1, Numbers
    <3>2. PICK c \in Int : /\ Morning(c) /\ dueDate[l] - DayTicks <= c
                           /\ c < dueDate[l] - DayTicks + DayTicks
      BY <3>1, MorningEveryDay
    <3> QED BY <2>1, <3>2, Numbers DEF OneDayBefore
  <2> QED BY <2>1, <2>2, <2>3 DEF RemindedInv, Reached
<1> QED BY <1>1, ReminderJobInvHolds, PTL

\* With a loan of a day at least, no loan stays ACCEPTED for a day past its due
\* date, and both sides of an OVERDUE loan have been told once the job is idle,
\* unless a run was cut short.
THEOREM OverdueLoansAreHandled ==
  ASSUME LoanDays > 0
  PROVE  Spec => []OverdueIsHandled
<1>1. ReminderJobInv => OverdueIsHandled
  <2> SUFFICES ASSUME ReminderJobInv, NEW l \in Loans, ~cut, ~Running
               PROVE  /\ status[l] = "ACCEPTED" => clock < dueDate[l] + DayTicks
                      /\ status[l] = "OVERDUE" =>
                           sent[l]["overdue_borrower"] = 1 /\ sent[l]["overdue_lender"] = 1
    BY DEF OverdueIsHandled
  <2>1. TypeOK /\ LateInv(l) /\ OverdueInv(l) /\ current # l
    BY Numbers DEF ReminderJobInv, LoanInv, Running
  <2>2. ASSUME status[l] = "ACCEPTED" PROVE clock < dueDate[l] + DayTicks
    <3>1. PICK c \in Int : Morning(c) /\ dueDate[l] <= c /\ c < dueDate[l] + DayTicks
      BY <2>1, Numbers, MorningEveryDay
    <3>2. ~(c < clock)
      BY <2>1, <2>2, <3>1, Numbers DEF LateInv, Reached
    <3> QED BY <2>1, <3>1, <3>2, Numbers
  <2>3. status[l] = "OVERDUE" => sent[l]["overdue_borrower"] = 1 /\ sent[l]["overdue_lender"] = 1
    BY <2>1 DEF OverdueInv
  <2> QED BY <2>2, <2>3
<1> QED BY <1>1, ReminderJobInvHolds, PTL
=============================================================================
