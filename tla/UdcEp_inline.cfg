CONSTANTS
  Eps = {"ep1out", "ep7in", "ep5in"}
  EpNum <- MCEpNum
  EpIn <- MCEpIn
  Reqs = {"b1", "b2", "c1", "c2"}
  ReqEp <- MCReqEp
  Lengths = {1, 2, 3}
  MaxPkt = 2
  FwOps <- MCInlineOps
  UvcEarlyEnable = FALSE
  NoEp = NoEp
  NoReq = NoReq
SPECIFICATION Spec
INVARIANT TypeOK
INVARIANT SuccessOnlyIfMoved
INVARIANT DepthOne
INVARIANT ChannelBinding
 
\* once every request has been given back the gadget queues no more
CHECK_DEADLOCK FALSE
