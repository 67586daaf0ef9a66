SPECIFICATION Spec
CONSTANTS
  NumProcesses = 2
  InitialNumbers = {2}
  CR <- Processes
  Rank <- Processes
  ManagerState <- MCManagerState
  ManagerInit <- MCManagerInit
  ManagerRC <- MCManagerRC
  Proposals <- PlainProposal
  MaxRcTag = 0
  MaxOps = 1
  MaxSessions = 1
  MaxCalls = 1
  Calls = {"pset_create_op"}
  Synchronised = FALSE
  TellSessions = TRUE
PROPERTY ProposalsHonoured
