CONSTANTS
  Clients = {c1, c2}
  Links <- MCLinks
  Parts = {"handle", "all"}
  Names <- MCNames
  InitialAcm <- MCInitialAcm
  Threads = 2
  MaxOutstanding = 1
  Prompt = FALSE
SPECIFICATION Spec
CHECK_DEADLOCK FALSE
PROPERTIES TruthfulReply ChecksOffOnlyWhenAsked ImplementsToggleService
