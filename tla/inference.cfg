SPECIFICATION Spec
CONSTANTS
  Pixels = {1, 2}
  NumQueries = 2
  Probs = {3, 6}
  Scores = {1, 5}
  MaxClasses = 3
  Configs <- MCConfigs
  MaxRuns = 3
  MaxFrames = 3
  MaxCrashes = 2
INVARIANTS
  AnswersTheCall
  LabelsKeepTheirNames
  ThingsHaveInstances
  TracksAreThisRuns
PROPERTY CallsComeBack
CHECK_DEADLOCK FALSE
