CONSTANTS
  Harts = {0, 1}
  MaxDisables = 0
  AffMasks = {{1}}
  FifoDepth = 2
  Scripts <- OrderScripts
SPECIFICATION Spec
PROPERTY TransfersServed
