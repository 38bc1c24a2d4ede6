SPECIFICATION Spec
CONSTANTS
  ana = ana
  ben = ben
  m1 = m1
  a1 = a1
  Users = {ana, ben}
  Messages = {m1, m2}
  Sender <- MCSender
  RestMessages = {m2}
  Sockets = {a1, b1, b2}
  Owner <- MCOwner
  NoMessage = NoMessage
SYMMETRY Symmetry
CHECK_DEADLOCK FALSE
INVARIANTS TypeOK MessagesAreAnnounced HeardOrQueued ReceiptsAreTrue
