SPECIFICATION FairSpec
CONSTANTS
  Announcements = {1, 2, 3}
  Penalties = {0, 3}
  MaxArrivals = 2
INVARIANTS TypeOK OneKickoff
PROPERTIES ButtonsOnlyInSilence ButtonFlipsPenalty FollowsController
