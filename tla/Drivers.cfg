SPECIFICATION MCSpec
CONSTANTS
    s1 = s1
    s2 = s2
    m1 = m1
    m2 = m2
    None = None
    Stations = {s1, s2}
    Cluster <- TwoClusters
    Messages = {m1, m2}
    OutQueueSize = 2
    MaxStarts = 2
    MaxRestarts = 1
    Tasks = {reader, console_task}
    BeaconBands = {0, 5}
    BeaconSize = 23
    LoraSf = 12
    LoraCr = 5
    Scan = 2
    Lengths <- EdgeLengths
    BufferSize = 512
INVARIANTS TypeOK QueueBounded SentWasStored TimerAlive DriverTypes LinkKept ModeComplete
INVARIANTS DriverFreed PagesDrawn FramesParsed
CHECK_DEADLOCK FALSE
