CONSTANTS
  Eps = {"ep1out"}
  EpNum <- MCEpNum
  EpIn <- MCEpIn
  Reqs = {"c1", "c2"}
  ReqEp <- MCReqEp
  Lengths = {1, 2}
  MaxPkt = 1
  FwOps <- MCDequeueOps
  UvcEarlyEnable = FALSE
  NoEp = NoEp
  NoReq = NoReq
SPECIFICATION Spec
INVARIANT CallbackOnce
