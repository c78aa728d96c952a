CONSTANTS
  File = {f1, f2}
  Content = {"a", "large"}
  Large = "large"
  MaxBytes = 3
  DiffCapacity = 1
  MaxChange = 2
SPECIFICATION DsSpec
PROPERTY StreamIsReturned
CHECK_DEADLOCK FALSE
