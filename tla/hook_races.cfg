SPECIFICATION Spec
CONSTANTS
  h1 = h1
  h2 = h2
  Hooks <- TwoHooks
  Envs <- RaceEnvs
  StartFiles <- RaceDisks
  Edits <- RaceEdits
  MaxEdits = 1
  TemplateKnob = "abstain"
  TemplateRules <- DenyFirst
  MigDeny <- DenyRules
  MigAllow <- AllowRules
SYMMETRY Alike
CONSTRAINT StillPromised
INVARIANTS ReadableKnobProtects TornPolicyNeverAllows
CHECK_DEADLOCK FALSE
