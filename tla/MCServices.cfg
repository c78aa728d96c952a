CONSTANTS
  Request = {q1}
  MaxRetry = 1
  MaxPr = 2
  MaxRow = 2
  MaxPrCrash = 1
  ScriptLine = 2
  AgentLine = 1
  HistoryMax = 1
  LagLimit = 2
  RunProcess = {1, 2}
  Stopper = {s1}
  MaxRunFault = 1
  MaxAsk = 2
SPECIFICATION SvSpec
CHECK_DEADLOCK FALSE
INVARIANTS
  
  SubscribedIsStored
  RunAgentIsHeld
PROPERTIES
  
  ViewerIsTold
  RunEndIsRecorded
  
  CodexEndIsSignalled
