SPECIFICATION FairSpec
CONSTANTS
    alice = alice
    Peer = {alice}
    HostnameIsIp <- Addresses
    MaxUsers = 1
    Backlog = 1
    MaxFd = 6
    PeerType = {"request", "message"}
    MaxPackets = 2
PROPERTIES
    MessagesAreShown
\* A client that is gone has nothing left to do.
CHECK_DEADLOCK FALSE
