SPECIFICATION Spec
CONSTANTS
  Reporters = {p1, p2, p3}
  Threshold = 2
  Slots = {s1, s2}
  MaxActions = 2
SYMMETRY Symmetry
CHECK_DEADLOCK FALSE
INVARIANTS TypeOK HiddenOnlyByMany VisibilityFollowsReports CountIsExact LoggedMeansDone
