CONSTANTS
    Exec = {e1}
    Call = {c1}
    NoCall = NoCall
    Responder = {r1, r2}
    MaxCut = 1
    e1 = e1
    c1 = c1
    r1 = r1
    r2 = r2
SPECIFICATION FairSpec
PROPERTIES
    ImplementsOutcome
    AgentResumes
