SPECIFICATION Spec
CONSTANTS
  maxQueueSize = 2
  Callers = {"receive"}
  SocketCap = 2
  MaxArrivals = 4
INVARIANT NothingStranded
