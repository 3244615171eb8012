SPECIFICATION Spec
CONSTANTS
    Callers = {c1}
    Dialer = c1
    None = None
    Ops = {"RAW"}
    Events = {"CONNECTED"}
    MaxOps = 1
    MaxEvents = 1
    MayFail = TRUE
    Prompt = TRUE
INVARIANT HolderRuns
CHECK_DEADLOCK FALSE
