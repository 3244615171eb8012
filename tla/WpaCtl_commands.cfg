SPECIFICATION Spec
CONSTANTS
    Callers = {c1, c2}
    Dialer = c1
    None = None
    Ops = {"STATUS", "SERV_DISC_REQ", "SCAN", "GROUP_REMOVE", "SET_POSTFIX", "RAW"}
    Events = {"CONNECTED", "OTHER"}
    MaxOps = 1
    MaxEvents = 1
    MayFail = TRUE
    Prompt = FALSE
INVARIANTS TypeOK OneCommand AnswerAttributed RepeatOverwrites
PROPERTY ChannelStable
CHECK_DEADLOCK FALSE
