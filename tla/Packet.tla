------------------------------- MODULE Packet -------------------------------
(***************************************************************************)
(* LP2PM_Packet: a buffer of bytes in which every field has its place.     *)
(*                                                                         *)
(*     0      5     7    9    11                                           *)
(*     LP2PM  type  udp  tcp  hostname 0 username 0   Discovery, Reply,    *)
(*                                                    Closing              *)
(*     LP2PM  type  username 0                        Request              *)
(*     LP2PM  type  message 0                         Message              *)
(*     LP2PM  type                                    Accept, Decline,     *)
(*                                                    Discontinue          *)
(*                                                                         *)
(* Numbers of 16 bits are split in two bytes, strings end with a 0.  A     *)
(* sender fills the same packet again and again (outgoing_packet of a      *)
(* user), a receiver reads into the same one (UDP_in_packet of the client, *)
(* incoming_packet of a user).                                             *)
(***************************************************************************)
EXTENDS Naturals, Sequences

CONSTANTS
    MaxSize,      \* LP2PM_DEFAULT_MAX_PACKET_SIZE
    NameLength,   \* MAX_USERNAME_LENGTH and MAX_HOSTNAME_LENGTH
    Name,         \* user and host names, as sequences of bytes
    Text,         \* messages
    Port          \* port numbers

Byte == 0..255
Word == 0..65535

Signature == <<76, 80, 50, 80, 77>>   \* LP2PM_SIGNATURE

TypePos == 5
UdpPos == 7
TcpPos == 9
HostnamePos == 11
UserReqPos == 7
MsgPos == 7

Discovery == 1
Reply == 2
Closing == 3
Request == 4
Accept == 5
Decline == 6
Message == 7
Discontinue == 10

IsString(s) == s \in Seq(Byte \ {0})

\* Names and messages are kept in arrays with room for the final 0.
ASSUME PacketAssumption ==
    /\ NameLength \in Nat
    /\ MaxSize \in Nat /\ MaxSize >= HostnamePos + 2 * NameLength
    /\ \A n \in Name : IsString(n) /\ Len(n) < NameLength
    /\ \A t \in Text : IsString(t) /\ Len(t) < MaxSize - MsgPos
    /\ Port \subseteq Word

Index == 0..(MaxSize - 1)

\* The fields of a packet, as the getters that make sense for its type see it.
Fields ==
    [type : {Discovery, Reply, Closing}, udp : Port, tcp : Port,
     hostname : Name, username : Name]
    \cup [type : {Request}, username : Name]
    \cup [type : {Message}, msg : Text]
    \cup [type : {Accept, Decline, Discontinue}]

VARIABLES
    out,       \* the sender's packet
    sent,      \* what it was filled with, or nothing yet
    in,        \* the receiver's packet
    received,  \* what the packet it read was filled with, or nothing yet
    aborted    \* an assertion of the sender has failed

vars == <<out, sent, in, received, aborted>>

Nothing == [type |-> 0]

Contents == [data : [Index -> Byte], size : 0..MaxSize]

TypeOK ==
    /\ out \in Contents
    /\ in \in Contents
    /\ sent \in Fields \cup {Nothing}
    /\ received \in Fields \cup {Nothing}
    /\ aborted \in BOOLEAN

Zeroed == [i \in Index |-> 0]

Empty == [data |-> Zeroed, size |-> 0]

Init ==
    /\ out = Empty
    /\ sent = Nothing
    /\ in = Empty
    /\ received = Nothing
    /\ aborted = FALSE

-----------------------------------------------------------------------------
(* Writing.                                                                *)

\* clearPacket(); its memset() resets the size on the way.
\* Variant: it does not.
ClearKeepsSize(p) == [p EXCEPT !.data = Zeroed]

Clear(p) == Empty

AddSignature(p) ==
    [data |-> [i \in Index |-> IF i < Len(Signature) THEN Signature[i + 1]
                               ELSE p.data[i]],
     size |-> p.size + Len(Signature)]

\* addType(), addUDP(), addTCP(): two bytes, the high one first.
AddWord(p, w, pos) ==
    [data |-> [p.data EXCEPT ![pos] = w \div 256, ![pos + 1] = w % 256],
     size |-> p.size + 2]

\* What addString() requires.  Variant: >= instead of >.
FitsWithByteToSpare(s, offset) == Len(s) + 1 + offset < MaxSize

Fits(s, offset) == Len(s) + 1 + offset <= MaxSize

\* addString() where it fits.
AddString(p, s, offset) ==
    [data |-> [i \in Index |->
                  IF i \in offset..(offset + Len(s) - 1) THEN s[i - offset + 1]
                  ELSE IF i = offset + Len(s) THEN 0
                  ELSE p.data[i]],
     size |-> p.size + Len(s) + 1]

\* What every creator starts with.
Started(type) == AddWord(AddSignature(Clear(out)), type, TypePos)

Ports(m) == AddWord(AddWord(Started(m.type), m.udp, UdpPos), m.tcp, TcpPos)

\* The packet p becomes s at offset on the way to p2; an assertion stops the
\* program when there is no room.
Fill(m, p, s, offset) ==
    IF Fits(s, offset)
    THEN out' = AddString(p, s, offset) /\ sent' = m /\ UNCHANGED aborted
    ELSE aborted' = TRUE /\ UNCHANGED <<out, sent>>

CreateAnnouncement(m) ==
    LET p == Ports(m)
        q == AddString(p, m.hostname, p.size)
    IN  /\ m.type \in {Discovery, Reply, Closing}
        /\ IF Fits(m.hostname, p.size)
           THEN Fill(m, q, m.username, q.size)
           ELSE aborted' = TRUE /\ UNCHANGED <<out, sent>>

CreateRequest(m) ==
    LET p == Started(m.type)
    IN  /\ m.type = Request
        /\ Fill(m, p, m.username, p.size)

CreateMessage(m) ==
    /\ m.type = Message
    /\ Fill(m, Started(m.type), m.msg, MsgPos)

CreateBare(m) ==
    /\ m.type \in {Accept, Decline, Discontinue}
    /\ out' = Started(m.type)
    /\ sent' = m
    /\ UNCHANGED aborted

Create(m) ==
    /\ ~aborted
    /\ \/ CreateAnnouncement(m)
       \/ CreateRequest(m)
       \/ CreateMessage(m)
       \/ CreateBare(m)
    /\ UNCHANGED <<in, received>>

-----------------------------------------------------------------------------
(* Reading.                                                                *)

\* setSize() ignores what is not below the size of the buffer.
SetSize(p, n) == IF n >= MaxSize THEN p ELSE [p EXCEPT !.size = n]

\* The bytes of the sender's packet read into one that was cleared.
Read(p) == [p EXCEPT !.data = [i \in Index |-> IF i < out.size THEN out.data[i]
                                               ELSE p.data[i]]]

\* recvfrom() by UDP tells the packet its size, read() by TCP does not.  A
\* packet that was created may as well be lost: then it never arrives.
Arrive ==
    /\ sent /= Nothing
    /\ ~aborted
    /\ \/ /\ sent.type \in {Discovery, Reply, Closing}
          /\ in' = SetSize(Read(Clear(in)), out.size)
       \/ /\ sent.type \notin {Discovery, Reply, Closing}
          /\ in' = Read(Clear(in))
    /\ received' = sent
    /\ UNCHANGED <<out, sent, aborted>>

Next == Arrive \/ \E m \in Fields : Create(m)

Spec == Init /\ [][Next]_vars

\* getType(), getUDPPort(), getTCPPort()
WordAt(p, pos) == 256 * p.data[pos] + p.data[pos + 1]

\* A string that begins at pos and is not ended runs on behind the buffer.
Ended(p, pos) == \E e \in Index : e >= pos /\ p.data[e] = 0

StringAt(p, pos) ==
    LET end == CHOOSE e \in Index : /\ e >= pos
                                    /\ p.data[e] = 0
                                    /\ \A i \in pos..(e - 1) : p.data[i] /= 0
    IN  [i \in 1..(end - pos) |-> p.data[pos + i - 1]]

\* getUsername() asks for the type before it knows where to look.
\* Variant: the hostname's 0 is not counted.
UsernamePosWithoutZero(p) ==
    IF WordAt(p, TypePos) = Request THEN UserReqPos
    ELSE Len(StringAt(p, HostnamePos)) + HostnamePos

UsernamePos(p) ==
    IF WordAt(p, TypePos) = Request THEN UserReqPos
    ELSE Len(StringAt(p, HostnamePos)) + 1 + HostnamePos

-----------------------------------------------------------------------------
\* The strings that the getters of a packet of this type return.
StringPositions(p, type) ==
    IF type \in {Discovery, Reply, Closing} THEN {HostnamePos, UsernamePos(p)}
    ELSE IF type \in {Request, Message} THEN {MsgPos}
    ELSE {}

\* However often the two packets were used before, and whatever was longer
\* or of another type, the handler reads what the sender wrote; no getter
\* runs past the end of the buffer, a full one included.
RoundTrip ==
    received /= Nothing =>
        /\ WordAt(in, TypePos) = received.type
        /\ \A pos \in StringPositions(in, received.type) : Ended(in, pos)
        /\ received.type \in {Discovery, Reply, Closing} =>
              /\ WordAt(in, UdpPos) = received.udp
              /\ WordAt(in, TcpPos) = received.tcp
              /\ StringAt(in, HostnamePos) = received.hostname
              /\ StringAt(in, UsernamePos(in)) = received.username
        /\ received.type = Request =>
              StringAt(in, UsernamePos(in)) = received.username
        /\ received.type = Message => StringAt(in, MsgPos) = received.msg

\* No name and no message the program can hold is too long for a packet: the
\* longest message ends exactly where the buffer does.
NeverAborts == ~aborted

-----------------------------------------------------------------------------
(* The inductive invariant behind RoundTrip.                               *)

\* The string s stands at pos, and so does its 0.
Holds(p, pos, s) ==
    /\ pos + Len(s) < MaxSize
    /\ \A i \in 1..Len(s) : p.data[pos + i - 1] = s[i]
    /\ p.data[pos + Len(s)] = 0

\* The bytes of p are those of m, each field in its place.
Carries(p, m) ==
    /\ WordAt(p, TypePos) = m.type
    /\ m.type \in {Discovery, Reply, Closing} =>
          /\ WordAt(p, UdpPos) = m.udp
          /\ WordAt(p, TcpPos) = m.tcp
          /\ Holds(p, HostnamePos, m.hostname)
          /\ Holds(p, HostnamePos + Len(m.hostname) + 1, m.username)
    /\ m.type = Request => Holds(p, UserReqPos, m.username)
    /\ m.type = Message => Holds(p, MsgPos, m.msg)

\* How many bytes m takes.
Extent(m) ==
    CASE m.type \in {Discovery, Reply, Closing} ->
            HostnamePos + Len(m.hostname) + 1 + Len(m.username) + 1
      [] m.type = Request -> UserReqPos + Len(m.username) + 1
      [] m.type = Message -> MsgPos + Len(m.msg) + 1
      [] OTHER            -> TypePos + 2

IInv ==
    /\ TypeOK
    /\ NeverAborts
    /\ sent /= Nothing => Carries(out, sent) /\ out.size = Extent(sent)
    /\ received /= Nothing => Carries(in, received)
=============================================================================
