SPECIFICATION FairSpec
CONSTANTS
  maxQueueSize = 2
  LutParts = 2
  SocketCap = 3
  MaxArrivals = 6
INVARIANT TypeOK
PROPERTIES FreshEnough NewestShown ImplementsFifo
