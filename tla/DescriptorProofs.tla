------------------------- MODULE DescriptorProofs -------------------------
(***************************************************************************)
(* Facts about descriptor tables of every size.                            *)
(***************************************************************************)
EXTENDS Descriptors, SetInduction

\* Descriptors are numbers, so LeastElement applies to sets of them.
LEMMA FdIsNat == Fd \subseteq Nat
  BY DescriptorAssumption DEF Fd, StdinFd, UdpFd

\* What the kernel hands out is free, or nothing is.
LEMMA LowestFreeIsFree ==
    ASSUME NEW table
    PROVE  \/ LowestFree(table) = NoFd
           \/ LowestFree(table) \in Fd /\ table[LowestFree(table)] = "closed"
<1>1. CASE FreeFds(table) = {}
  BY <1>1 DEF LowestFree
<1>2. CASE FreeFds(table) /= {}
  <2>1. FreeFds(table) \subseteq Fd
    BY DEF FreeFds
  <2>2. \E f \in FreeFds(table) : \A g \in FreeFds(table) : f <= g
    BY <1>2, <2>1, FdIsNat, LeastElement
  <2>3. LowestFree(table) \in FreeFds(table)
    BY <1>2, <2>2 DEF LowestFree
  <2>4. QED
    BY <2>3 DEF FreeFds
<1>3. QED
  BY <1>1, <1>2

\* The server sockets have numbers of the table.
LEMMA ServerFds == UdpFd \in Fd /\ TcpFd \in Fd
  BY DescriptorAssumption DEF Fd, UdpFd, TcpFd, StdinFd

\* init() opens them both.
LEMMA FreshServerSockets == FreshTable[UdpFd] = "udp" /\ FreshTable[TcpFd] = "listen"
<1>1. UdpFd /= StdinFd /\ TcpFd /= StdinFd /\ TcpFd /= UdpFd
  BY DEF UdpFd, TcpFd, StdinFd
<1>2. QED
  BY <1>1, ServerFds, Zenon DEF FreshTable
=============================================================================
