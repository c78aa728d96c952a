CONSTANTS
    Exec = {e1}
    Call = {c1, c2}
    NoCall = NoCall
    Responder = {r1}
    MaxCut = 0
    e1 = e1
    c1 = c1
    c2 = c2
    r1 = r1
SPECIFICATION Spec
INVARIANT HookedIsAsked
