SPECIFICATION Spec
CONSTANTS
  p1 = p1
  p2 = p2
  Procs <- TwoProcs
  OwnCommand = "own"
  StartDocs <- Lists
  Saves <- SavedLists
  MaxSaves = 1
  MaxClock = 1
SYMMETRY Alike
INVARIANTS TypeOK NeverTorn ForeignHooksKept UserDocsRecoverable
PROPERTIES RenameDoesItsJob ReplacedAtOnce
CHECK_DEADLOCK FALSE
