SPECIFICATION Spec
CONSTANTS
  NumProcesses = 3
  InitialNumbers = {1, 2}
  CR <- Processes
  Rank <- Processes
  ManagerState <- MCManagerState
  ManagerInit <- MCManagerInit
  ManagerRC <- MCManagerRC
  Proposals <- NoProposals
  MaxRcTag = 3
  MaxOps = 0
  MaxSessions = 0
INVARIANTS TypeOK RunningHaveState BackrefsExact PendingShutdownsAgree UnstartedMembersOffered
  OffersAgree NoCorruption LogAgrees OriginsAgree
PROPERTIES PsetsStable OneShutdownAtATime ImplementsService
