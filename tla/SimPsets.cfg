SPECIFICATION Spec
CONSTANTS
  NumProcesses = 2
  InitialNumbers = {1, 2}
  CR <- Processes
  Rank <- Processes
  ManagerState <- MCManagerState
  ManagerInit <- MCManagerInit
  ManagerRC <- MCManagerRC
  Proposals <- MCProposals
  MaxRcTag = 1
  MaxOps = 3
  MaxSessions = 3
  MaxCalls = 3
  Calls = {"session_init", "session_finalize", "session_get_info", "add_scheduling_hints",
    "session_get_psets", "session_get_pset_info", "group_from_session_pset", "pset_create_op", "pset_free", "RC_get", "RC_accept"}
  Synchronised = TRUE
  TellSessions = TRUE
INVARIANTS AnswerAwaited OnlyHintsAbort SessionsDistinct PsetsTold
