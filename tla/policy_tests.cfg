SPECIFICATION Spec
CONSTANTS
  Inputs <- MCInputs
  Reasons <- MCReasons
  Dirs <- MCDirs
  DefaultDir = "here"
  Suites <- MCSuites
  StartDisks <- MCDisks
  SavedTexts <- MCSaved
  MaxEdits = 1
INVARIANTS TypeOK PassPredictsHook
PROPERTY TestGate
CHECK_DEADLOCK FALSE
