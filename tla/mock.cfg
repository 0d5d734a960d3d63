SPECIFICATION FairMock
CONSTANTS
  QueueSize = 2
  MaxRequests = 5
PROPERTIES
  SeamSpec
  AcceptedIsAnswered
CHECK_DEADLOCK FALSE
