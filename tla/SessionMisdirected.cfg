SPECIFICATION Spec
CONSTANTS
    alice = alice
    bob = bob
    Peer = {alice, bob}
    HostnameIsIp <- Addresses
    MaxUsers = 2
    Backlog = 1
    MaxFd = 5
    PeerType = {"request", "accept", "message", "discontinue"}
    MaxPackets = 1
SYMMETRY Symmetry
INVARIANTS
    SentToItsUser
CHECK_DEADLOCK FALSE
