CONSTANTS
  Setups <- MCSetupsAll
  Eps <- MCEps
  MaxPkt0 = 2
  FilterOk = {TRUE, FALSE}
SPECIFICATION Spec
INVARIANT TypeOK
 
INVARIANT InDataExact
PROPERTY AnsweredEventually
