CONSTANTS
  Attempt = {a1}
  Run = {r1}
  MaxStart = 2
  MaxCrash = 1
  MaxLoss = 1
SPECIFICATION WtSpec
PROPERTIES DeleteSparesRunning
