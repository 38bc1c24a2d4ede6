SPECIFICATION Spec
CONSTANTS
  Loans = {l1, l2}
  LoanDays = 4
  DayTicks = 4
  CronTick = 1
  QuietTicks = 4
  LastTick = 23
SYMMETRY Symmetry
CHECK_DEADLOCK FALSE
INVARIANTS TypeOK RemindedInTime NoSecondNotice NotOverdueEarly OverdueIsHandled
