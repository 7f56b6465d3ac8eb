CONSTANTS
  Eps = {"ep5in"}
  EpNum <- MCEpNum
  EpIn <- MCEpIn
  Reqs = {"d1", "d2"}
  ReqEp <- MCReqEp
  Lengths = {1, 2}
  MaxPkt = 1
  FwOps <- MCUvcOps
  UvcEarlyEnable = TRUE
  NoEp = NoEp
  NoReq = NoReq
SPECIFICATION Spec
INVARIANT ChannelBinding
