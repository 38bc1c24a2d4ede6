SPECIFICATION Spec
CONSTANTS
  o = o
  u = u
  v = v
  Users = {o, u, v}
  Books = {b1}
  Owner <- MCOwner
  Requests <- Once
  Slots = {o, u, v}
  Caller <- OneCallEach
  EditStatuses = {}
  LoansFallDue = FALSE
SYMMETRY Borrowers
CHECK_DEADLOCK FALSE
INVARIANTS AtMostOneLoan
