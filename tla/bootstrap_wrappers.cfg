SPECIFICATION Spec
CONSTANTS
  w1 = w1
  w2 = w2
  Hooks <- TwoWrappers
  Scripts <- Both
  Configs <- Layers
INVARIANTS TypeOK FailsClosedWhenAlone AbstainNeedsAWord
PROPERTY CompleteBinaryStays
CHECK_DEADLOCK FALSE
