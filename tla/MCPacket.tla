------------------------------ MODULE MCPacket ------------------------------
(* Constants of Packet for TLC: the shortest and the longest strings that  *)
(* fit, and ports on both sides of the byte boundary.                      *)
EXTENDS Packet

Filled(n) == [i \in 1..n |-> 97]

Names == {<<>>, Filled(NameLength - 1)}
Texts == {<<>>, <<99>>, Filled(MaxSize - MsgPos - 1)}
BothSides == {255, 256}
=============================================================================
