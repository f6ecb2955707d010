---------------------------- MODULE MCDiscovery ----------------------------
(* Constants of Discovery for TLC.                                         *)
EXTENDS Discovery, TLC

\* Everybody is configured alike, with one number for both ports: setUDPPort()
\* and setTCPPort() store them the wrong way round.
OnePort == [c \in Client |-> 50550]

\* The defaults of LP2PM_Macros.h: two numbers.
DefaultUdp == [c \in Client |-> 50550]
DefaultTcp == [c \in Client |-> 50551]

\* gethostname() gives a dotted address.
Addresses == [c \in Client |-> TRUE]

\* gethostname() gives a name.
Names == [c \in Client |-> FALSE]

Symmetry == Permutations(Client)
=============================================================================
