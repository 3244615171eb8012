SPECIFICATION FairSpec
CONSTANTS
    LoraModes = {0, 1, 2, 3}
    RcvQSize = 2
    Bands = 2
INVARIANTS TypeOK EventPerPacket
PROPERTY PacketHandled
