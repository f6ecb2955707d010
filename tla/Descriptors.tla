---------------------------- MODULE Descriptors ----------------------------
(***************************************************************************)
(* The descriptor table of a client's process.  0 is standard input; 1 and *)
(* 2 are never touched and left out; init() opens the UDP socket and then  *)
(* the listening socket, which get the two lowest numbers free.            *)
(***************************************************************************)
EXTENDS Integers

CONSTANT MaxFd          \* highest descriptor the process may hold

ASSUME DescriptorAssumption == MaxFd \in Nat /\ MaxFd >= 4

StdinFd == 0
UdpFd == 3
TcpFd == 4
Fd == {StdinFd} \cup UdpFd..MaxFd
NoFd == -1                       \* what socket() and accept() return on error

FreshTable ==
    [f \in Fd |-> CASE f = StdinFd -> "stdin"
                    [] f = UdpFd   -> "udp"
                    [] f = TcpFd   -> "listen"
                    [] OTHER       -> "closed"]

FreeFds(table) == {f \in Fd : table[f] = "closed"}

\* The kernel hands out the lowest number that is free.
LowestFree(table) ==
    IF FreeFds(table) = {}
    THEN NoFd
    ELSE CHOOSE f \in FreeFds(table) : \A g \in FreeFds(table) : f <= g

\* close(f): an error, without effect, when f is not open.
CloseFd(table, f) ==
    [g \in Fd |-> IF g = f THEN "closed" ELSE table[g]]
=============================================================================
