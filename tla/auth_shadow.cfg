SPECIFICATION Spec
CONSTANTS
  Objects <- TwoObjects
  Actions <- TwoActions
  Who <- TwoWho
  Ids <- FourIds
  Times <- Instants
  Policies <- SomePolicies
  Successors <- NextPolicies
  Requests <- SomeRequests
  Manifests <- SomeManifests
  MaxChanges = 1
INVARIANTS TypeOK ConformantReportsDecideRight
PROPERTY WaitingGrantsNothing
CHECK_DEADLOCK FALSE
