CONSTANTS
  Eps = {"ep3in", "ep4in"}
  EpNum <- MCEpNum
  EpIn <- MCEpIn
  Reqs = {"e1", "e2", "f1"}
  ReqEp <- MCReqEp
  Lengths = {1, 2}
  MaxPkt = 1
  FwOps <- MCAllOps
  UvcEarlyEnable = FALSE
  NoEp = NoEp
  NoReq = NoReq
SPECIFICATION Spec
INVARIANT ChannelBinding
