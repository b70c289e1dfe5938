SPECIFICATION ScanSpec
CONSTANTS
  NoSplit = NoSplit
  NoYaml = NoYaml
  NoContributor = NoContributor
  NoLabel = NoLabel
  NoBox = NoBox
  NoBatch = NoBatch
  Trees <- MCTrees
  Edits <- MCEdits
  Alike <- MCAlike
  Patched <- MCPatched
  Position <- MCPosition
  Callers = {NoContributor, "erin"}
  Batches = {"b1"}
  Analyst = "analyst"
  MaxCalls = 1
  MaxEdits = 1
  MaxFailures = 1
INVARIANTS
  RegisteredIsSound
  RelabelledIsWarned
  AttributionHonest
  Traceable
  DuplicatesAreTold
  LostFindingIsNoted
CHECK_DEADLOCK FALSE
