SPECIFICATION FairSpec
CONSTANTS
    s1 = s1
    s2 = s2
    m1 = m1
    m2 = m2
    None = None
    Stations = {s1, s2}
    Cluster <- TwoClusters
    Messages = {m1, m2}
    OutQueueSize = 2
    MaxStarts = 1
    MaxRestarts = 0
PROPERTY QueuedIsSent
