SPECIFICATION Spec
CONSTANTS
  h1 = h1
  h2 = h2
  Hooks <- OneHook
  Envs <- AllEnvs
  StartFiles <- AllDisks
  Edits <- NoEdits
  MaxEdits = 0
  TemplateKnob = "abstain"
  TemplateRules <- AllowFirst
  MigDeny <- NoRules
  MigAllow <- NoRules
INVARIANTS TypeOK FailClosed AdvisoryStaysAdvisory NoMatchAbstains AllowNeedsRule
PROPERTY ContractSpec
CHECK_DEADLOCK FALSE
