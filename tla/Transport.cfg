SPECIFICATION FairSpec
CONSTANTS
  Client = {1, 2}
  Request <- MCRequest
  InfoAnswer <- MCInfoAnswer
  MaxCalls = 2
INVARIANTS NothingLeft TransportInv
PROPERTIES ImplementsMessaging EveryCallReturns
