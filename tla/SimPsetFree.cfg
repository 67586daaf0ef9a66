SPECIFICATION Spec
CONSTANTS
  NumProcesses = 2
  InitialNumbers = {2}
  CR <- Processes
  Rank <- Processes
  ManagerState <- MCManagerState
  ManagerInit <- MCManagerInit
  ManagerRC <- MCManagerRC
  Proposals <- NoProposals
  MaxRcTag = 0
  MaxOps = 1
  MaxSessions = 1
  MaxCalls = 1
  Calls = {"pset_free"}
  Synchronised = FALSE
  TellSessions = TRUE
PROPERTY FreedByAll
