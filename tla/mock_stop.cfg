SPECIFICATION FairMock
CONSTANTS
  QueueSize = 2
  MaxRequests = 2
PROPERTY StopReturns
CHECK_DEADLOCK FALSE
