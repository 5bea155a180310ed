SPECIFICATION FairSpec
CONSTANTS
  Addr = {a, b, c, d}
  NULL = NULL
  Time <- MCTime
  Window = 2
  ClockStepsBack = TRUE
INVARIANTS TypeOK NoDangling WellLinked AllFreed
PROPERTIES CountsFlow LoopsEnd
