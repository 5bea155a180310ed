SPECIFICATION FairSpec
CONSTANTS
  gateway = gateway
  other = other
  Clients <- MCClients
  MaxRequests = 2
  BufferLen = 2
  Patient <- MCPatient
  Stopping <- LastStops
INVARIANTS TypeOK HandleAlive
PROPERTIES FeedsInOrder HandlesFreed RequestsHandled
CHECK_DEADLOCK FALSE
