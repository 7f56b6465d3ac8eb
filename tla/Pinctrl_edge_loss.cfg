CONSTANTS
  Pins = {1, 2}
  Callers = {"c1"}
  Own <- MCOwn
  Types <- MCTypes
  MaxCalls = 2
  MaxEdges = 2
SPECIFICATION Spec
PROPERTY EnabledEdgesDelivered
