SPECIFICATION FairSpec
CONSTANTS
    Callers = {c1}
    Dialer = c1
    None = None
    Ops = {"STATUS", "SERV_DISC_REQ", "SCAN"}
    Events = {"CONNECTED", "DISCONNECTED", "GROUP_STARTED", "FIND_STOPPED", "SCAN_RESULTS", "SERV_DISC_REQ", "OTHER"}
    MaxOps = 1
    MaxEvents = 1
    MayFail = FALSE
    Prompt = FALSE
PROPERTY CommandEnds
CHECK_DEADLOCK FALSE
