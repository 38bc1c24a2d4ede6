SPECIFICATION FairSpec
CONSTANTS
  ben = ben
  Users = {ben}
  Recipient <- MCRecipient
  Jobs = {j1, j2}
  Messages = {j2}
  Attempts = 3
  MaxStalls = 1
CHECK_DEADLOCK FALSE
INVARIANTS TypeOK CompletedIsSaved OnePushButForStalls RowsWithinAttempts
PROPERTIES JobsSettle
