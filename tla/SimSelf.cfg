SPECIFICATION FairSpec
CONSTANTS
  NumProcesses = 2
  InitialNumbers = {1, 2}
  CR <- Processes
  Rank <- Processes
  ManagerState <- MCManagerState
  ManagerInit <- MCManagerInit
  ManagerRC <- MCManagerRC
  Proposals <- NoProposals
  MaxRcTag = 0
  MaxOps = 2
  MaxSessions = 2
  MaxCalls = 2
  Calls = {"group_from_self"}
  Synchronised = TRUE
  TellSessions = TRUE
PROPERTY CallsReturn
CHECK_DEADLOCK FALSE
