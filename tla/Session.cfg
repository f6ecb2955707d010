SPECIFICATION Spec
CONSTANTS
    alice = alice
    bob = bob
    Peer = {alice, bob}
    HostnameIsIp <- Addresses
    MaxUsers = 2
    Backlog = 1
    MaxFd = 5
    PeerType = {"request", "accept", "message", "discontinue"}
    MaxPackets = 1
SYMMETRY Symmetry
INVARIANTS
    TypeOK
    ServerSocketsOpen
    KeyboardIsNobodys
PROPERTIES
    TrafficClosesNothing
\* A client that is gone has nothing left to do.
CHECK_DEADLOCK FALSE
