SPECIFICATION Spec
CONSTANTS
  NumProcesses = 3
  MaxRank = 5
  InitialNumbers = {1}
  CR <- Processes
  Rank <- Ranks
  ManagerState <- MCManagerState
  ManagerInit <- MCManagerInit
  ManagerRC <- MCManagerRC
  Proposals <- NoProposals
  MaxRcTag = 3
  MaxOps = 0
  MaxSessions = 0
INVARIANT StartsExist
