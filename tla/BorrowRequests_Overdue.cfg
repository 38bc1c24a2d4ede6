SPECIFICATION FairSpec
CONSTANTS
  o = o
  u = u
  v = v
  Users = {o, u}
  Books = {b1}
  Owner <- MCOwner
  Requests <- Once
  Slots = {o, u}
  Caller <- OneCallEach
  EditStatuses = {}
  LoansFallDue = TRUE
CHECK_DEADLOCK FALSE
PROPERTIES OverdueIsReturned
