SPECIFICATION FairSpec
CONSTANTS
  StartLists <- Starts
  UserHooks <- Added
  MaxEdits = 2
  MaxGroups = 2
  MaxHandlers = 2
INVARIANT TrustTypeOK
PROPERTIES ReportIsTrue RerunMovesNothing SetupConverges
CHECK_DEADLOCK FALSE
