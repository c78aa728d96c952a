SPECIFICATION Spec
CONSTANTS
  Req = {r1, r2}
  MaxProc = 3
  MaxReq = 2
  MaxCrash = 0
  MaxCut = 0
SYMMETRY ReqSymmetry
INVARIANTS
  TypeOK
  LiveIsTracked
  RunningIsOwned
  KillSticks
  ReleasedWhenDone
PROPERTIES
  ChainAfterSuccess
