CONSTANTS
  Clients = {c1, c2}
  Links <- MCLinks
  Parts = {"handle", "all"}
  Names <- MCNames
  InitialAcm <- MCInitialAcm
  Threads = 3
  MaxOutstanding = 2
  Prompt = TRUE
SPECIFICATION Spec
CHECK_DEADLOCK FALSE
PROPERTIES ChecksOffOnlyWhenAsked
