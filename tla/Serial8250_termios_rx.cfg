CONSTANTS
  MaxTx = 2
  MaxXchar = 1
  MaxCon = 1
  MaxRx = 3
  RxFifoSize = 2
  MaxOpens = 1
  MaxTermios = 1
  Oops = FALSE
SPECIFICATION Spec
INVARIANT RxAccounted
