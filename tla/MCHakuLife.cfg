SPECIFICATION PluginsReturnSpec
CONSTANTS
  Masters <- MCMasters
  Blocked <- MCBlocked
  NoEvent = NoEvent
  Events <- AllEvents
  MaxBatch = 3
INVARIANTS TypeOK ExitMatchesQuitFile GenQuitsForCause BlockedIgnored
PROPERTIES WakeNotice StopObeyed SleepWakes
