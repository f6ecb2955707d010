SPECIFICATION Spec
CONSTANTS
    alice = alice
    bob = bob
    Client = {alice, bob}
    UdpPort <- OnePort
    TcpPort <- OnePort
    HostnameIsIp <- Addresses
    MaxUsers = 2
    InitTimeout = 1
    MaxTimeout = 2
    Backlog = 1
    MaxFd = 5
    MaxLines = 2
    Lossy = {"discovery", "reply", "closing"}
    Faults = {"kill", "pollerror", "unresolved"}
SYMMETRY Symmetry
INVARIANTS
    TypeOK
    ServerSocketsOpen
    NeverListsSelf
    NoDuplicateUsers
    DisplayedHostsAreListed
PROPERTIES
    BackoffRestartsWithSearch
    ImplementsPresence
\* A LAN on which nothing is in flight and nobody searches is at rest.
CHECK_DEADLOCK FALSE
