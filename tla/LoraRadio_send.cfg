SPECIFICATION FairSpec
CONSTANTS
    LoraModes = {2}
    RcvQSize = 2
    Bands = 2
PROPERTY SendEnds
