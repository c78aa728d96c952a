CONSTANTS
  Attempt = {a1}
  Run = {r1}
  MaxStart = 2
  MaxCrash = 1
  MaxLoss = 1
  Task = {t1, t2}
  Capacity = 1
  MaxWrite = 2
  Text = {"a"}
  Tab = {b1, b2}
  MaxVersion = 4
  MaxDraftCrash = 1
  File = {f1, f2}
  Content = {"a", "large"}
  Large = "large"
  MaxBytes = 3
  DiffCapacity = 2
  MaxChange = 2
SPECIFICATION WsSpec
SYMMETRY Symmetric
INVARIANTS
  KanbanHidesAgents
  BoardInStep
  
  
  DiffInStep
PROPERTIES
  
  OrphansGone
  
