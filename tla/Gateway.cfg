SPECIFICATION FairSpec
CONSTANTS
  NumServos = 2
  Ids = {1, 2}
  Lists = {"first", "other"}
  IdList <- MCIdList
  FirstList = "first"
  Requests <- MCRequests
  MaxCalls = 2
INVARIANTS
  TypeOK
  AnswersPaired
  ConfirmedInForce
PROPERTIES
  SlotsKeepBeingAsked
  GoalsReachServos
  OneTalker
  FreshFeedback
CHECK_DEADLOCK FALSE
