SPECIFICATION Spec
CONSTANTS
  o = o
  u = u
  v = v

  Users = {o, u, v}
  Books = {b1}
  Owner <- MCOwner
  Requests <- Twice
  Slots = {s1}
  Caller <- Anyone
  EditStatuses = {}
  LoansFallDue = FALSE
CHECK_DEADLOCK FALSE
INVARIANTS AtMostOneLoan
PROPERTIES ImplementsLedger
