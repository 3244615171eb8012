SPECIFICATION MCSpec
CONSTANTS
    BleClients = {b1, b2}
    SppClients = {s1, s2}
    None = None
    Mtus = {100, 300}
    DefaultMtu = 23
    ServerMtu = 200
    MaxMessage = 990
    MaxQueue = 2
    MaxTasks = 3
INVARIANTS TypeOK SingleClient LinkKnown HandleOpen FragmentsCover RunHasTask
PROPERTIES Reachable AdvertisingStays
CHECK_DEADLOCK FALSE
