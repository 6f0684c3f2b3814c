SPECIFICATION FairSpec
CONSTANTS
  NFRAME = 3
  PFRAME = 5
  THRESHOLD_COUNT = 2
  NUM_CHIRP_COUNT = 2
  Symbols = {"A", "B"}
  MaxFailures = 2
  MaxDetections = 2
INVARIANTS
  TypeOK
  UnfilledBounded
  SnapshotWhole
PROPERTIES
  ReceiverFollows
CHECK_DEADLOCK FALSE
