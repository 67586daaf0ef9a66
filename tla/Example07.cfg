SPECIFICATION FairExample
CONSTANTS
  NumProcesses = 2
  CR <- Processes
  Rank <- Processes
  ManagerState <- MCManagerState
  ManagerInit <- MCManagerInit
  ManagerRC <- MCManagerRC
  Proposals <- NoProposals
  MaxRcTag = 3
  MaxOps = 2
  MaxSessions = 5
  MaxCalls = 0
  Calls = {}
  Synchronised = FALSE
  TellSessions = FALSE
  Programs = {"07"}
  MaxIter = 3
PROPERTY BarriersPass
CHECK_DEADLOCK FALSE
