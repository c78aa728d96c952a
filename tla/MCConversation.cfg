CONSTANTS
    Agent = {"claude", "amp", "codex", "cursor", "acp", "opencode", "copilot"}
    Call = {c1}
    MaxLine = 5
    MaxErr = 2
    c1 = c1
SPECIFICATION Spec
INVARIANTS
    
    TextIsShown
    OwnEntry
    
 
CHECK_DEADLOCK FALSE
