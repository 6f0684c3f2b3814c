SPECIFICATION Spec
CONSTANTS
  GoalieType = 3
  EnableGetup = TRUE
  TrackHead = TRUE
INVARIANTS
  TypeOK
  FallCheckMatchesGame
  BodyFollowsGame
  HeadAwake
PROPERTIES
  ReturnFromPenalty
  NoFallReactionInSet
  KickOnlyWhenAsked
