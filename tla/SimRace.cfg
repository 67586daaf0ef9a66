SPECIFICATION Spec
CONSTANTS
  NumProcesses = 2
  InitialNumbers = {1, 2}
  CR <- Processes
  Rank <- Processes
  ManagerState <- MCManagerState
  ManagerInit <- MCManagerInit
  ManagerRC <- MCManagerRC
  Proposals <- NoProposals
  MaxRcTag = 3
  MaxOps = 4
  MaxSessions = 4
  MaxCalls = 4
  Calls = {"RC_get", "RC_accept"}
  Synchronised = FALSE
  TellSessions = TRUE
INVARIANT AcceptAssertion
