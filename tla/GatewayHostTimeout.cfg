SPECIFICATION Spec
CONSTANTS
  NumServos = 2
  Ids = {1, 2}
  Lists = {"first", "other"}
  IdList <- MCIdList
  FirstList = "first"
  Requests <- MCRequests
  MaxCalls = 2
INVARIANTS
  HostResetAfterSilence
CHECK_DEADLOCK FALSE
