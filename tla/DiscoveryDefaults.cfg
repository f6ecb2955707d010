SPECIFICATION FairSpec
CONSTANTS
    alice = alice
    bob = bob
    carol = carol
    Client = {alice, bob, carol}
    UdpPort <- DefaultUdp
    TcpPort <- DefaultTcp
    HostnameIsIp <- Names
    MaxUsers = 2
    InitTimeout = 1
    MaxTimeout = 2
    Backlog = 1
    MaxFd = 5
    MaxLines = 1
    Lossy = {"discovery"}
    Faults = {}
PROPERTIES
    NobodyStaysAlone
\* A LAN on which nothing is in flight and nobody searches is at rest.
CHECK_DEADLOCK FALSE
