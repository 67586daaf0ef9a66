SPECIFICATION FairExample
CONSTANTS
  NumProcesses = 3
  CR <- Processes
  Rank <- Processes
  ManagerState <- MCManagerState
  ManagerInit <- MCManagerInit
  ManagerRC <- MCManagerRC
  Proposals <- NoProposals
  MaxRcTag = 3
  MaxOps = 2
  MaxSessions = 5
  MaxCalls = 0
  Calls = {}
  Synchronised = FALSE
  TellSessions = FALSE
  Programs = {"06", "07"}
  MaxIter = 2
INVARIANTS OvertakenAborts GroupFound OneOffer OnlyAskedLeave CommsAgree ExampleInv
PROPERTIES AskedLeave WorkGoesOn
CHECK_DEADLOCK FALSE
