SPECIFICATION FairSpec
CONSTANTS
  NumProcesses = 3
  InitialNumbers = {1, 2}
  CR <- Processes
  Rank <- Processes
  ManagerState <- MCManagerState
  ManagerInit <- MCManagerInit
  ManagerRC <- MCManagerRC
  Proposals <- NoProposals
  MaxRcTag = 3
  MaxOps = 4
  MaxSessions = 4
  MaxCalls = 4
  Calls = {"session_get_psets", "RC_get", "RC_accept"}
  Synchronised = TRUE
  TellSessions = TRUE
INVARIANTS TypeOK SimInv OffersInTurn RunningAgree FaultFree
PROPERTIES ImplementsScheduler Termination CallsReturn
