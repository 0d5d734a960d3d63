SPECIFICATION AnsweringSpec
CONSTANTS
  Footprints <- MCFootprints
  Worlds <- MCWorlds
  Stride = 2
  MaxFrames = 4
  Ids = {1, 2, 3, 4}
INVARIANTS
  SingleInFlight
  CountersAddUp
  AnswerIsCurrent
  StrongestSignWins
PROPERTY GateReopens
CHECK_DEADLOCK FALSE
