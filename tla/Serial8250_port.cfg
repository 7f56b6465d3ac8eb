CONSTANTS
  MaxTx = 2
  MaxXchar = 1
  MaxCon = 1
  MaxRx = 3
  RxFifoSize = 2
  MaxOpens = 1
  MaxTermios = 0
  Oops = FALSE
SPECIFICATION Spec
INVARIANT TypeOK
INVARIANT IerInSync
INVARIANT TxInOrder
INVARIANT RxDeliveredFaithfully
INVARIANT RxAccounted
PROPERTY TxDrains
