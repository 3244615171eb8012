SPECIFICATION DiscoverySpec
CONSTANTS
    Nics = {n1, n2}
    None = None
    Range = 2
    MaxPending = 2
    Devices = {d1, d2}
    NoDevice = NoDevice
    MaxNets = 2
    Tails <- TestTails
    MaxGroups = 3
    Nans = {w1}
    MaxReports = 2
INVARIANT ResponseParsed
CHECK_DEADLOCK FALSE
