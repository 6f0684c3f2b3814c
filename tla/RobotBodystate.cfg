SPECIFICATION Spec
CONSTANTS
  GoalieType = 2
  EnableGetup = TRUE
  TrackHead = FALSE
INVARIANT
  BodystateDenotesIdle
