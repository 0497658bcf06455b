CONSTANTS
  Clients = {c1, c2}
  Links <- MCLinks
  Parts = {"handle", "all"}
  Names <- MCNames
  InitialAcm <- MCInitialAcm
  Threads = 3
  MaxOutstanding = 2
  Prompt = TRUE
SPECIFICATION FairSpec
CHECK_DEADLOCK FALSE
INVARIANTS TypeOK UnmanagedUntouched NoTimeoutWhilePrompt
PROPERTIES EveryRequestAnswered
