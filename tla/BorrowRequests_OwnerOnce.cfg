SPECIFICATION Spec
CONSTANTS
  o = o
  u = u
  v = v
  Users = {o, u, v}
  Books = {b1}
  Owner <- MCOwner
  Requests <- Twice
  Slots = {o, s1, s2}
  Caller <- OwnerOnce
  EditStatuses = {"AVAILABLE"}
  LoansFallDue = TRUE
SYMMETRY BorrowersAndSlots
CONSTRAINT TwoRequests
CHECK_DEADLOCK FALSE
INVARIANTS TypeOK NoOrphans ChatBacksLoan NoStuckBook JobsAgreeWithRows
PROPERTIES DecisionIsFinal ImplementsRequestLife
