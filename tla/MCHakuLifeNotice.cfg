SPECIFICATION Spec
CONSTANTS
  Masters <- MCMasters
  Blocked <- MCBlocked
  NoEvent = NoEvent
  Events <- FewEvents
  MaxBatch = 1
INVARIANT NoticeIsTrue
