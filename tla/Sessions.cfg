SPECIFICATION Spec
CONSTANTS
  Slots = {s1, s2, s3}
  NoToken = NoToken
  Life = 2
  LastSecond = 2
SYMMETRY Symmetry
CHECK_DEADLOCK FALSE
INVARIANTS TypeOK OneAccountPerEmail EndedStaysEnded RetiredStaysRetired LoneCallerStaysIn
