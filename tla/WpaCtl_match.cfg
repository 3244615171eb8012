SPECIFICATION Spec
CONSTANTS
    Callers = {c1}
    Dialer = c1
    None = None
    Ops = {"RAW"}
    Events = {"CONNECTED"}
    MaxOps = 2
    MaxEvents = 0
    MayFail = FALSE
    Prompt = FALSE
INVARIANT ResponseMatches
CHECK_DEADLOCK FALSE
