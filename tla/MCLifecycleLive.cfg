SPECIFICATION FairSpec
CONSTANTS
  Req = {r1}
  MaxProc = 2
  MaxReq = 2
  MaxCrash = 1
  MaxCut = 1
INVARIANTS RunningIsOwned
PROPERTIES ExitIsRecorded ExitIsReleased 
