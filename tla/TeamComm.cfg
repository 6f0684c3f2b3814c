SPECIFICATION Spec
CONSTANTS
  maxQueueSize = 2
  Callers = {"receive", "size"}
  SocketCap = 3
  MaxArrivals = 6
INVARIANTS TypeOK FrontMarked InOrderOnce
PROPERTIES FreshEnough ImplementsFifo
