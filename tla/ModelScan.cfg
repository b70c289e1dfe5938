SPECIFICATION ScanSpec
CONSTANTS
  NoFile = NoFile
  NoModel = NoModel
  StandIn <- MCStandIn
  Silent = Silent
  Raises = Raises
  NaN = NaN
  MockObject <- MCMockObject
  Distance <- MCDistance
  StatsDiffer <- MCStatsDiffer
  Sparse <- MCSparse
  Collapsed <- MCCollapsed
  Unlike <- MCUnlike
  Replacements <- MCReplacements
  Situations <- MCSituations
  MaxCalls = 1
  MaxEdits = 2
  MaxFailures = 1
INVARIANTS
  
  JudgedIsNamed
CHECK_DEADLOCK FALSE
