SPECIFICATION Spec
CONSTANTS
  w1 = w1
  w2 = w2
  Hooks <- TwoWrappers
  Scripts <- Sh
  Configs <- NoConfig
INVARIANT BlocksByDefault
CHECK_DEADLOCK FALSE
