SPECIFICATION TrustSpec
CONSTANTS
  StartLists <- OneApproved
  UserHooks <- NoHooks
  MaxEdits = 0
  MaxGroups = 2
  MaxHandlers = 2
PROPERTY OtherHooksStayEnabled
CHECK_DEADLOCK FALSE
