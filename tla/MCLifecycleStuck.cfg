SPECIFICATION Spec
CONSTANTS
  Req = {r1, r2}
  MaxProc = 2
  MaxReq = 1
  MaxCrash = 0
  MaxCut = 0
SYMMETRY ReqSymmetry
INVARIANTS InProgressMeansRunning
