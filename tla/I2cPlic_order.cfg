CONSTANTS
  Harts = {0, 1}
  MaxDisables = 1
  AffMasks = {{0, 1}}
  FifoDepth = 2
  Scripts <- OrderScripts
SPECIFICATION Spec
INVARIANT StopInBusOrder
