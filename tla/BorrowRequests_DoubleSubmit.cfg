SPECIFICATION Spec
CONSTANTS
  o = o
  u = u
  v = v
  Users = {o, u}
  Books = {b1}
  Owner <- MCOwner
  Requests <- Twice
  Slots = {o, s1, s2}
  Caller <- OwnerOnce
  EditStatuses = {}
  LoansFallDue = FALSE
CHECK_DEADLOCK FALSE
INVARIANTS OnePendingPerRequester
