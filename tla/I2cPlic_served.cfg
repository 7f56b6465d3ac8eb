CONSTANTS
  Harts = {0, 1}
  MaxDisables = 2
  AffMasks = {{0, 1}}
  FifoDepth = 2
  Scripts <- ServedScripts
SPECIFICATION Spec
INVARIANT TypeOK
INVARIANT WriteBytesInOrder
INVARIANT ReadBytesOwnTransfer
PROPERTY TransfersServed
