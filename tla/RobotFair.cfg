SPECIFICATION FairSpec
CONSTANTS
  GoalieType = 2
  EnableGetup = TRUE
  TrackHead = FALSE
PROPERTIES
  FollowsReferee
  LeavesThePitch
  
  StandsStillInSet
  WalksInTheGame
