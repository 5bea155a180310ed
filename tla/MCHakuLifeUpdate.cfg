SPECIFICATION FairSpec
CONSTANTS
  Masters <- MCMasters
  Blocked <- MCBlocked
  NoEvent = NoEvent
  Events <- AllEvents
  MaxBatch = 1
PROPERTY UpdateRestarts
