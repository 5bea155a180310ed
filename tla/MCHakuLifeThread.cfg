SPECIFICATION FairSpec
CONSTANTS
  Masters <- MCMasters
  Blocked <- MCBlocked
  NoEvent = NoEvent
  Events <- FewEvents
  MaxBatch = 2
PROPERTY ReadsNotHeldUp
