SPECIFICATION MessagingFairSpec
CONSTANTS
  ana = ana
  ben = ben
  a1 = a1
  Users = {ana, ben}
  Messages = {m1}
  Sender <- MCSender
  RestMessages = {}
  Sockets = {a1, b1}
  Owner <- MCOwner
  NoMessage = NoMessage
  Attempts = 2
  MaxStalls = 1
CHECK_DEADLOCK FALSE
INVARIANTS NotifiedAreTheAway
PROPERTIES EveryMessageGetsThrough
