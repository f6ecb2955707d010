---------------------------- MODULE PacketProofs ----------------------------
(***************************************************************************)
(* Proofs about Packet for every size of the buffer and every name,        *)
(* message and port that the program can hold.                             *)
(***************************************************************************)
EXTENDS Packet, TLAPS

-----------------------------------------------------------------------------
(* Bytes, words and strings                                                *)

\* The buffer has room for the words.
LEMMA RoomForWords == MaxSize \in Nat /\ MaxSize >= HostnamePos + 2 * NameLength /\ MaxSize >= 11
<1>1. 2 * NameLength >= 0
  BY PacketAssumption
<1>2. QED
  BY <1>1, PacketAssumption DEF HostnamePos

\* A packet while it is being filled: the size has no limit yet.
Buffer == [data : [Index -> Byte], size : Nat]

\* It is a packet if it fits.
LEMMA BufferFits ==
    ASSUME NEW p \in Buffer, p.size <= MaxSize
    PROVE  p \in Contents
<1>1. p.size \in 0..MaxSize
  BY RoomForWords DEF Buffer
<1>2. QED
  BY <1>1 DEF Buffer, Contents

\* The numbers of 16 bits, for the proofs that need no more than their bounds.
LEMMA WordsAre == \A w : w \in Word <=> w \in Nat /\ w <= 65535
<1>1. PICK last \in Nat : last = 65535
  OBVIOUS
<1>2. Word = 0..last
  BY <1>1 DEF Word
<1>3. ASSUME NEW w PROVE w \in Word <=> w \in Nat /\ w <= last
  BY <1>2
<1>4. QED
  BY <1>1, <1>3

\* A number of 16 bits is put together again from its two bytes.
LEMMA WordSplit ==
    ASSUME NEW w \in Word
    PROVE  /\ w \div 256 \in Byte
           /\ w % 256 \in Byte
           /\ 256 * (w \div 256) + (w % 256) = w
<1>1. w \in Nat /\ w <= 65535
  BY WordsAre
<1>2. w \div 256 \in Nat /\ w % 256 \in 0..255
  BY <1>1
<1>3. w = 256 * (w \div 256) + (w % 256)
  BY <1>1
<1>4. w \div 256 \in 0..255
  BY <1>1, <1>2, <1>3
<1>5. QED
  BY <1>2, <1>3, <1>4 DEF Byte

\* AddWord() writes its word at pos, leaves all other bytes alone and adds 2
\* to the size.
LEMMA AddWordSpec ==
    ASSUME NEW p \in Buffer, NEW w \in Word, NEW pos \in Nat, pos + 1 < MaxSize
    PROVE  LET q == AddWord(p, w, pos)
           IN  /\ q \in Buffer
               /\ q.size = p.size + 2
               /\ WordAt(q, pos) = w
               /\ \A i \in Index \ {pos, pos + 1} : q.data[i] = p.data[i]
<1> DEFINE q == AddWord(p, w, pos)
<1>1. pos \in Index /\ pos + 1 \in Index /\ pos /= pos + 1
  BY PacketAssumption DEF Index
<1>2. q.data = [p.data EXCEPT ![pos] = w \div 256, ![pos + 1] = w % 256]
  BY DEF AddWord
<1>3. q.size = p.size + 2
  BY DEF AddWord
<1>4. p.data \in [Index -> Byte] /\ p.size \in Nat
  BY DEF Buffer
<1>5. q.data \in [Index -> Byte]
  <2> DEFINE high == w \div 256
             low  == w % 256
  <2>1. high \in Byte /\ low \in Byte
    BY WordSplit
  <2>2. q.data = [p.data EXCEPT ![pos] = high, ![pos + 1] = low]
    BY <1>2
  <2> HIDE DEF high, low, q
  <2>3. QED
    BY <1>4, <2>1, <2>2
<1>6. q \in Buffer
  BY <1>3, <1>4, <1>5 DEF Buffer, AddWord
<1>7. q.data[pos] = w \div 256 /\ q.data[pos + 1] = w % 256
  BY <1>1, <1>2, <1>4
<1>8. WordAt(q, pos) = w
  BY <1>7, WordSplit DEF WordAt
<1>9. \A i \in Index \ {pos, pos + 1} : q.data[i] = p.data[i]
  BY <1>2, <1>4
<1>10. QED
  BY <1>3, <1>6, <1>8, <1>9

\* AddString() writes the string and its 0 at offset, where there is room.
LEMMA AddStringSpec ==
    ASSUME NEW p \in Buffer, NEW s, IsString(s), NEW offset \in Nat,
           Fits(s, offset)
    PROVE  LET q == AddString(p, s, offset)
           IN  /\ q \in Buffer
               /\ q.size = p.size + Len(s) + 1
               /\ Holds(q, offset, s)
               /\ \A i \in Index : i < offset => q.data[i] = p.data[i]
<1> DEFINE q == AddString(p, s, offset)
<1>1. Len(s) \in Nat /\ \A i \in 1..Len(s) : s[i] \in Byte
  BY DEF IsString
<1>2. p.data \in [Index -> Byte] /\ p.size \in Nat
  BY DEF Buffer
<1>3. MaxSize \in Nat /\ offset + Len(s) < MaxSize
  BY <1>1, PacketAssumption DEF Fits
<1>4. q.data = [i \in Index |->
                  IF i \in offset..(offset + Len(s) - 1) THEN s[i - offset + 1]
                  ELSE IF i = offset + Len(s) THEN 0
                  ELSE p.data[i]]
  BY DEF AddString
<1>5. q.size = p.size + Len(s) + 1
  BY DEF AddString
<1>6. q.data \in [Index -> Byte]
  <2>1. SUFFICES ASSUME NEW i \in Index PROVE q.data[i] \in Byte
    BY <1>4
  <2>2. CASE i \in offset..(offset + Len(s) - 1)
    <3>1. i - offset + 1 \in 1..Len(s)
      BY <1>1, <2>2
    <3>2. QED
      BY <1>1, <1>4, <2>2, <3>1
  <2>3. CASE i \notin offset..(offset + Len(s) - 1)
    <3>1. 0 \in Byte
      BY DEF Byte
    <3>2. QED
      BY <1>2, <1>4, <2>3, <3>1
  <2>4. QED
    BY <2>2, <2>3
<1>7. q \in Buffer
  <2>1. q.size \in Nat
    BY <1>1, <1>2, <1>5
  <2>2. QED
    BY <1>6, <2>1 DEF Buffer, AddString
<1>8. Holds(q, offset, s)
  <2>1. \A i \in 1..Len(s) : q.data[offset + i - 1] = s[i]
    <3>1. TAKE i \in 1..Len(s)
    <3>2. /\ offset + i - 1 \in Index
          /\ offset + i - 1 \in offset..(offset + Len(s) - 1)
          /\ (offset + i - 1) - offset + 1 = i
      BY <1>1, <1>3 DEF Index
    <3>3. QED
      BY <1>4, <3>2
  <2>2. q.data[offset + Len(s)] = 0
    <3>1. /\ offset + Len(s) \in Index
          /\ offset + Len(s) \notin offset..(offset + Len(s) - 1)
      BY <1>1, <1>3 DEF Index
    <3>2. QED
      BY <1>4, <3>1
  <2>3. QED
    BY <1>3, <2>1, <2>2 DEF Holds
<1>9. \A i \in Index : i < offset => q.data[i] = p.data[i]
  <2>1. TAKE i \in Index
  <2>2. HAVE i < offset
  <2>3. i \notin offset..(offset + Len(s) - 1) /\ i /= offset + Len(s)
    BY <1>1, <2>2 DEF Index
  <2>4. QED
    BY <1>4, <2>3
<1>10. QED
  BY <1>5, <1>7, <1>8, <1>9

\* A getter finds the string that stands where it looks, and its end.
LEMMA StringIsRead ==
    ASSUME NEW p, NEW s, IsString(s), NEW pos \in Nat, Holds(p, pos, s)
    PROVE  Ended(p, pos) /\ StringAt(p, pos) = s
<1> DEFINE End(e) == /\ e >= pos
                     /\ p.data[e] = 0
                     /\ \A i \in pos..(e - 1) : p.data[i] /= 0
           last == pos + Len(s)
<1>1. Len(s) \in Nat /\ \A i \in 1..Len(s) : s[i] /= 0
  BY DEF IsString
<1>2. /\ last \in Index
      /\ p.data[last] = 0
      /\ \A i \in 1..Len(s) : p.data[pos + i - 1] = s[i]
  BY <1>1, PacketAssumption DEF Holds, Index
<1>3. \A i \in pos..(last - 1) : p.data[i] /= 0
  <2>1. TAKE i \in pos..(last - 1)
  <2>2. i - pos + 1 \in 1..Len(s) /\ pos + (i - pos + 1) - 1 = i
    BY <1>1
  <2>3. QED
    BY <1>1, <1>2, <2>2
<1>4. last >= pos
  BY <1>1
<1>5. End(last)
  BY <1>2, <1>3, <1>4
<1>6. \A e \in Index : End(e) => e = last
  <2>1. TAKE e \in Index
  <2>2. HAVE End(e)
  <2>3. e \in Nat /\ last \in Nat
    BY <1>1 DEF Index
  <2>4. ~(e < last)
    <3>1. SUFFICES ASSUME e < last PROVE FALSE
      OBVIOUS
    <3>2. e \in pos..(last - 1)
      BY <2>2, <2>3, <3>1
    <3>3. QED
      BY <1>3, <2>2, <3>2
  <2>5. ~(last < e)
    <3>1. SUFFICES ASSUME last < e PROVE FALSE
      OBVIOUS
    <3>2. last \in pos..(e - 1)
      BY <1>4, <2>3, <3>1
    <3>3. QED
      BY <1>2, <2>2, <3>2
  <2>6. QED
    BY <2>3, <2>4, <2>5
<1>7. (CHOOSE e \in Index : End(e)) = last
  BY <1>2, <1>5, <1>6
<1>8. StringAt(p, pos) = [i \in 1..(last - pos) |-> p.data[pos + i - 1]]
  BY <1>7 DEF StringAt
<1>9. last - pos = Len(s)
  BY <1>1
<1>10. StringAt(p, pos) = [i \in 1..Len(s) |-> s[i]]
  BY <1>2, <1>8, <1>9
<1>11. s = [i \in 1..Len(s) |-> s[i]]
  BY DEF IsString
<1>12. Ended(p, pos)
  BY <1>2, <1>4 DEF Ended
<1>13. QED
  BY <1>10, <1>11, <1>12

-----------------------------------------------------------------------------
(* Creating                                                                *)

\* Every creator starts with the signature and the type, 7 bytes in all.
LEMMA StartedSpec ==
    ASSUME NEW type \in 1..10
    PROVE  /\ Started(type) \in Buffer
           /\ Started(type).size = 7
           /\ WordAt(Started(type), TypePos) = type
<1> DEFINE p == AddSignature(Clear(out))
<1>1. Len(Signature) = 5 /\ \A i \in 1..5 : Signature[i] \in Byte
  BY DEF Signature, Byte
<1>2. 0 \in Byte
  BY DEF Byte
<1>3. p.data = [i \in Index |-> IF i < 5 THEN Signature[i + 1] ELSE 0]
  BY <1>1 DEF AddSignature, Clear, Empty, Zeroed
<1>4. p.data \in [Index -> Byte]
  <2>1. SUFFICES ASSUME NEW i \in Index PROVE p.data[i] \in Byte
    BY <1>3
  <2>2. CASE i < 5
    BY <1>1, <1>3, <2>2 DEF Index
  <2>3. CASE ~(i < 5)
    BY <1>2, <1>3, <2>3
  <2>4. QED
    BY <2>2, <2>3
<1>5. p.size = 5
  BY <1>1 DEF AddSignature, Clear, Empty
<1>6. p \in Buffer
  BY <1>4, <1>5 DEF Buffer, AddSignature
<1>7. type \in Word /\ TypePos \in Nat /\ TypePos + 1 < MaxSize
  <2> HIDE DEF p
  <2>1. type \in Word
    BY WordsAre
  <2>2. TypePos \in Nat /\ TypePos + 1 < MaxSize
    BY RoomForWords DEF TypePos
  <2>3. QED
    BY <2>1, <2>2
<1>8. Started(type) = AddWord(p, type, TypePos)
  BY DEF Started
<1>9. QED
  BY <1>5, <1>6, <1>7, <1>8, AddWordSpec

\* What is written behind the words leaves them alone.
LEMMA WordKept ==
    ASSUME NEW p, NEW q, NEW pos \in Nat, NEW offset \in Nat, pos + 1 < offset,
           offset <= MaxSize, \A i \in Index : i < offset => q.data[i] = p.data[i]
    PROVE  WordAt(q, pos) = WordAt(p, pos)
<1>1. pos \in Index /\ pos + 1 \in Index /\ pos < offset
  BY PacketAssumption DEF Index
<1>2. QED
  BY <1>1 DEF WordAt

\* So does a string behind a string.
LEMMA StringKept ==
    ASSUME NEW p, NEW q, NEW s, IsString(s), NEW pos \in Nat, NEW offset \in Nat,
           Holds(p, pos, s), pos + Len(s) < offset,
           \A i \in Index : i < offset => q.data[i] = p.data[i]
    PROVE  Holds(q, pos, s)
<1>1. Len(s) \in Nat
  BY DEF IsString
<1>2. pos + Len(s) < MaxSize
  BY DEF Holds
<1>3. \A i \in 1..Len(s) : q.data[pos + i - 1] = p.data[pos + i - 1]
  <2>1. TAKE i \in 1..Len(s)
  <2>2. pos + i - 1 \in Index /\ pos + i - 1 < offset
    BY <1>1, <1>2, PacketAssumption DEF Index
  <2>3. QED
    BY <2>2
<1>4. q.data[pos + Len(s)] = p.data[pos + Len(s)]
  <2>1. pos + Len(s) \in Index
    BY <1>1, <1>2, PacketAssumption DEF Index
  <2>2. QED
    BY <2>1
<1>5. QED
  BY <1>2, <1>3, <1>4 DEF Holds

\* A packet with type, ports and two strings, the longest there is.
LEMMA AnnouncementSpec ==
    ASSUME NEW m, m \in [type : {Discovery, Reply, Closing}, udp : Port, tcp : Port,
                         hostname : Name, username : Name]
    PROVE  LET p == Ports(m)
               q == AddString(p, m.hostname, p.size)
               r == AddString(q, m.username, q.size)
           IN  /\ Fits(m.hostname, p.size)
               /\ Fits(m.username, q.size)
               /\ r \in Contents
               /\ r.size = Extent(m)
               /\ Carries(r, m)
<1> DEFINE a == Started(m.type)
           b == AddWord(a, m.udp, UdpPos)
           p == AddWord(b, m.tcp, TcpPos)
           q == AddString(p, m.hostname, p.size)
           r == AddString(q, m.username, q.size)
           h == m.hostname
           u == m.username
<1>1. m.type \in {1, 2, 3} /\ m.type \in 1..10
  BY DEF Discovery, Reply, Closing
<1>2. m.udp \in Word /\ m.tcp \in Word
  BY PacketAssumption
<1>3. /\ IsString(h) /\ Len(h) \in Nat /\ Len(h) < NameLength
      /\ IsString(u) /\ Len(u) \in Nat /\ Len(u) < NameLength
      /\ NameLength \in Nat
  BY PacketAssumption DEF IsString
<1>4. a \in Buffer /\ a.size = 7 /\ WordAt(a, TypePos) = m.type
  BY <1>1, StartedSpec
<1>5. /\ b \in Buffer /\ b.size = 9 /\ WordAt(b, UdpPos) = m.udp
      /\ \A i \in Index \ {7, 8} : b.data[i] = a.data[i]
  <2>1. UdpPos = 7 /\ UdpPos \in Nat /\ UdpPos + 1 < MaxSize
    BY RoomForWords DEF UdpPos
  <2>2. /\ b \in Buffer /\ b.size = a.size + 2 /\ WordAt(b, UdpPos) = m.udp
        /\ \A i \in Index \ {UdpPos, UdpPos + 1} : b.data[i] = a.data[i]
    BY <1>2, <1>4, <2>1, AddWordSpec
  <2>3. QED
    BY <1>4, <2>1, <2>2
<1>6. /\ p \in Buffer /\ p.size = 11 /\ WordAt(p, TcpPos) = m.tcp
      /\ \A i \in Index \ {9, 10} : p.data[i] = b.data[i]
  BY <1>2, <1>5, RoomForWords, AddWordSpec DEF TcpPos
<1>7. WordAt(p, TypePos) = m.type /\ WordAt(p, UdpPos) = m.udp
  <2>1. {5, 6, 7, 8} \subseteq Index
    BY RoomForWords DEF Index
  <2>2. /\ \A i \in {5, 6} : p.data[i] = a.data[i]
        /\ \A i \in {7, 8} : p.data[i] = b.data[i]
    BY <1>5, <1>6, <2>1
  <2>3. QED
    BY <1>4, <1>5, <2>2 DEF WordAt, TypePos, UdpPos
<1>8. 11 + 2 * NameLength <= MaxSize
  BY RoomForWords DEF HostnamePos
<1>9. Fits(h, 11)
  BY <1>3, <1>8, RoomForWords DEF Fits
<1>10. /\ q \in Buffer /\ q.size = 12 + Len(h) /\ Holds(q, 11, h)
       /\ \A i \in Index : i < 11 => q.data[i] = p.data[i]
  BY <1>3, <1>6, <1>9, AddStringSpec
<1>11. Fits(u, q.size)
  BY <1>3, <1>8, <1>10, RoomForWords DEF Fits
<1>x. r = AddString(q, u, q.size)
  OBVIOUS
<1> HIDE DEF p, q, r
<1>12. /\ r \in Buffer /\ r.size = 13 + Len(h) + Len(u) /\ Holds(r, 12 + Len(h), u)
       /\ \A i \in Index : i < 12 + Len(h) => r.data[i] = q.data[i]
  <2>1. q.size \in Nat
    BY <1>3, <1>10
  <2>2. /\ r \in Buffer /\ r.size = q.size + Len(u) + 1 /\ Holds(r, q.size, u)
        /\ \A i \in Index : i < q.size => r.data[i] = q.data[i]
    <3>1. q \in Buffer /\ IsString(u) /\ q.size \in Nat /\ Fits(u, q.size)
      BY <1>3, <1>10, <1>11, <2>1
    <3> HIDE DEF u
    <3>2. QED
      BY <1>x, <3>1, AddStringSpec
  <2>3. QED
    BY <1>3, <1>10, <2>2
<1>13. \A i \in Index : i < 11 => r.data[i] = p.data[i]
  <2>1. TAKE i \in Index
  <2>2. HAVE i < 11
  <2>3. i < 12 + Len(h)
    BY <1>3, <2>2 DEF Index
  <2>4. QED
    BY <1>10, <1>12, <2>2, <2>3
<1>14. /\ WordAt(r, TypePos) = m.type
       /\ WordAt(r, UdpPos) = m.udp
       /\ WordAt(r, TcpPos) = m.tcp
  <2>1. {5, 6, 7, 8, 9, 10} \subseteq Index
    BY RoomForWords DEF Index
  <2>2. \A i \in {5, 6, 7, 8, 9, 10} : r.data[i] = p.data[i]
    BY <1>13, <2>1
  <2>3. /\ WordAt(r, TypePos) = WordAt(p, TypePos)
        /\ WordAt(r, UdpPos) = WordAt(p, UdpPos)
        /\ WordAt(r, TcpPos) = WordAt(p, TcpPos)
    BY <2>2 DEF WordAt, TypePos, UdpPos, TcpPos
  <2>4. QED
    BY <1>6, <1>7, <2>3
<1>15. Holds(r, HostnamePos, h)
  <2>1. 11 + Len(h) < 12 + Len(h) /\ 12 + Len(h) \in Nat /\ 11 \in Nat
    BY <1>3
  <2>2. Holds(r, 11, h)
    BY <1>3, <1>10, <1>12, <2>1, StringKept
  <2>3. QED
    BY <2>2 DEF HostnamePos
<1>16. HostnamePos + Len(h) + 1 = 12 + Len(h)
  BY <1>3 DEF HostnamePos
<1>17. r.size = Extent(m)
  <2>1. m.type \in {Discovery, Reply, Closing}
    OBVIOUS
  <2>2. Extent(m) = HostnamePos + Len(h) + 1 + Len(u) + 1
    BY <2>1 DEF Extent, Discovery, Reply, Closing, Request, Message
  <2>3. QED
    BY <1>3, <1>12, <2>2 DEF HostnamePos
<1>18. Carries(r, m)
  <2>1. m.type /= Request /\ m.type /= Message
    BY <1>1 DEF Request, Message
  <2>2. QED
    BY <1>12, <1>14, <1>15, <1>16, <2>1 DEF Carries
<1>19. p = Ports(m) /\ p.size = 11
  BY <1>6 DEF Ports, p
<1>20. r \in Contents
  <2>1. r.size <= MaxSize
    BY <1>3, <1>8, <1>12, RoomForWords
  <2>2. QED
    BY <1>3, <1>12, <2>1, BufferFits
<1>21. QED
  BY <1>9, <1>11, <1>17, <1>18, <1>19, <1>20 DEF q, r

\* A packet with type and one string behind it.
LEMMA OneStringSpec ==
    ASSUME NEW type \in 1..10, NEW s, IsString(s), Len(s) + 8 <= MaxSize
    PROVE  LET p == Started(type)
               r == AddString(p, s, 7)
           IN  /\ p.size = 7
               /\ Fits(s, 7)
               /\ r \in Contents
               /\ r.size = 8 + Len(s)
               /\ WordAt(r, TypePos) = type
               /\ Holds(r, 7, s)
<1> DEFINE p == Started(type)
           r == AddString(p, s, 7)
<1>1. p \in Buffer /\ p.size = 7 /\ WordAt(p, TypePos) = type
  BY StartedSpec
<1>2. Len(s) \in Nat
  BY DEF IsString
<1>3. Fits(s, 7)
  BY <1>2, RoomForWords DEF Fits
<1>4. /\ r \in Buffer /\ r.size = 7 + Len(s) + 1 /\ Holds(r, 7, s)
      /\ \A i \in Index : i < 7 => r.data[i] = p.data[i]
  BY <1>1, <1>3, AddStringSpec
<1>5. r.size = 8 + Len(s)
  BY <1>2, <1>4
<1>6. r \in Contents
  BY <1>4, <1>5, BufferFits
<1>7. WordAt(r, TypePos) = type
  <2>1. TypePos \in Nat /\ 7 \in Nat /\ TypePos + 1 < 7 /\ 7 <= MaxSize
    BY RoomForWords DEF TypePos
  <2>2. WordAt(r, TypePos) = WordAt(p, TypePos)
    BY <1>4, <2>1, WordKept
  <2>3. QED
    BY <1>1, <2>2
<1>8. QED
  BY <1>1, <1>3, <1>4, <1>5, <1>6, <1>7

\* What the creators make of their arguments.
LEMMA AnnouncementStep ==
    ASSUME NEW m \in Fields, CreateAnnouncement(m)
    PROVE  /\ out' \in Contents
           /\ sent' = m
           /\ Carries(out', m)
           /\ out'.size = Extent(m)
           /\ UNCHANGED aborted
<1> DEFINE p == Ports(m)
           q == AddString(p, m.hostname, p.size)
           r == AddString(q, m.username, q.size)
<1>1. m \in [type : {Discovery, Reply, Closing}, udp : Port, tcp : Port,
             hostname : Name, username : Name]
  BY DEF CreateAnnouncement, Fields, Discovery, Reply, Closing, Request, Message,
         Accept, Decline, Discontinue
<1>2. /\ Fits(m.hostname, p.size)
      /\ Fits(m.username, q.size)
      /\ r \in Contents
      /\ r.size = Extent(m)
      /\ Carries(r, m)
  BY <1>1, AnnouncementSpec
<1>3. Fill(m, q, m.username, q.size)
  BY <1>2 DEF CreateAnnouncement
<1> HIDE DEF p, q
<1>4. out' = r /\ sent' = m /\ UNCHANGED aborted
  BY <1>2, <1>3 DEF Fill
<1> HIDE DEF r
<1>5. QED
  BY <1>2, <1>4

\* So does createRC(), with the name alone,
LEMMA RequestStep ==
    ASSUME NEW m \in Fields, CreateRequest(m)
    PROVE  /\ out' \in Contents
           /\ sent' = m
           /\ Carries(out', m)
           /\ out'.size = Extent(m)
           /\ UNCHANGED aborted
<1> DEFINE p == Started(m.type)
           r == AddString(p, m.username, 7)
<1>1. m.type = Request /\ m.type \in 1..10
  BY DEF CreateRequest, Request
<1>2. m.username \in Name
  BY <1>1 DEF Fields, Discovery, Reply, Closing, Request, Message,
         Accept, Decline, Discontinue
<1>3. IsString(m.username) /\ Len(m.username) \in Nat /\ Len(m.username) < NameLength
  BY <1>2, PacketAssumption DEF IsString
<1>4. Len(m.username) + 8 <= MaxSize
  BY <1>3, RoomForWords, PacketAssumption DEF HostnamePos
<1>5. /\ p.size = 7
      /\ Fits(m.username, 7)
      /\ r \in Contents
      /\ r.size = 8 + Len(m.username)
      /\ WordAt(r, TypePos) = m.type
      /\ Holds(r, 7, m.username)
  BY <1>1, <1>3, <1>4, OneStringSpec
<1>6. out' = r /\ sent' = m /\ UNCHANGED aborted
  BY <1>5 DEF CreateRequest, Fill
<1> HIDE DEF p, r
<1>7. Extent(m) = UserReqPos + Len(m.username) + 1
  BY <1>1 DEF Extent, Discovery, Reply, Closing, Request, Message
<1>8. r.size = Extent(m)
  BY <1>3, <1>5, <1>7 DEF UserReqPos
<1>9. Carries(r, m)
  BY <1>1, <1>5 DEF Carries, UserReqPos, Discovery, Reply, Closing, Request, Message
<1>10. QED
  BY <1>5, <1>6, <1>8, <1>9

\* createMsg(), with the message,
LEMMA MessageStep ==
    ASSUME NEW m \in Fields, CreateMessage(m)
    PROVE  /\ out' \in Contents
           /\ sent' = m
           /\ Carries(out', m)
           /\ out'.size = Extent(m)
           /\ UNCHANGED aborted
<1> DEFINE p == Started(m.type)
           r == AddString(p, m.msg, 7)
<1>1. m.type = Message /\ m.type \in 1..10
  BY DEF CreateMessage, Message
<1>2. m.msg \in Text
  BY <1>1 DEF Fields, Discovery, Reply, Closing, Request, Message,
         Accept, Decline, Discontinue
<1>3. IsString(m.msg) /\ Len(m.msg) \in Nat /\ Len(m.msg) < MaxSize - 7
  BY <1>2, PacketAssumption DEF IsString, MsgPos
<1>4. Len(m.msg) + 8 <= MaxSize
  BY <1>3, RoomForWords
<1>5. /\ p.size = 7
      /\ Fits(m.msg, 7)
      /\ r \in Contents
      /\ r.size = 8 + Len(m.msg)
      /\ WordAt(r, TypePos) = m.type
      /\ Holds(r, 7, m.msg)
  BY <1>1, <1>3, <1>4, OneStringSpec
<1>6. out' = r /\ sent' = m /\ UNCHANGED aborted
  BY <1>5 DEF CreateMessage, Fill, MsgPos
<1> HIDE DEF p, r
<1>7. Extent(m) = MsgPos + Len(m.msg) + 1
  BY <1>1 DEF Extent, Discovery, Reply, Closing, Request, Message
<1>8. r.size = Extent(m)
  BY <1>3, <1>5, <1>7 DEF MsgPos
<1>9. Carries(r, m)
  BY <1>1, <1>5 DEF Carries, MsgPos, Discovery, Reply, Closing, Request, Message
<1>10. QED
  BY <1>5, <1>6, <1>8, <1>9

\* and the creators without a string.
LEMMA BareStep ==
    ASSUME NEW m \in Fields, CreateBare(m)
    PROVE  /\ out' \in Contents
           /\ sent' = m
           /\ Carries(out', m)
           /\ out'.size = Extent(m)
           /\ UNCHANGED aborted
<1> DEFINE p == Started(m.type)
<1>1. m.type \in {5, 6, 10} /\ m.type \in 1..10
  BY DEF CreateBare, Accept, Decline, Discontinue
<1>2. p \in Buffer /\ p.size = 7 /\ WordAt(p, TypePos) = m.type
  BY <1>1, StartedSpec
<1>3. p \in Contents
  BY <1>2, RoomForWords, BufferFits
<1>4. out' = p /\ sent' = m /\ UNCHANGED aborted
  BY DEF CreateBare
<1> HIDE DEF p
<1>5. Extent(m) = 7
  BY <1>1 DEF Extent, TypePos, Discovery, Reply, Closing, Request, Message
<1>6. Carries(p, m)
  BY <1>1, <1>2 DEF Carries, Discovery, Reply, Closing, Request, Message
<1>7. QED
  BY <1>2, <1>3, <1>4, <1>5, <1>6

-----------------------------------------------------------------------------
(* Receiving                                                               *)

\* What was read as far as the packet goes carries the same fields.
LEMMA PrefixCarries ==
    ASSUME NEW m \in Fields, NEW p, NEW q, Carries(p, m), Extent(m) <= MaxSize,
           \A i \in Index : i < Extent(m) => q.data[i] = p.data[i]
    PROVE  Carries(q, m)
<1>1. CASE m.type \in {Discovery, Reply, Closing}
  <2> DEFINE h == m.hostname
             u == m.username
  <2>1. h \in Name /\ u \in Name /\ m.type /= Request /\ m.type /= Message
    BY <1>1 DEF Fields, Discovery, Reply, Closing, Request, Message,
           Accept, Decline, Discontinue
  <2>2. IsString(h) /\ Len(h) \in Nat /\ IsString(u) /\ Len(u) \in Nat
    BY <2>1, PacketAssumption DEF IsString
  <2>3. Extent(m) = 13 + Len(h) + Len(u)
    <3>1. Extent(m) = HostnamePos + Len(h) + 1 + Len(u) + 1
      BY <1>1 DEF Extent, Discovery, Reply, Closing, Request, Message
    <3> HIDE DEF h, u
    <3>2. QED
      BY <2>2, <3>1 DEF HostnamePos
  <2>4. /\ WordAt(p, TypePos) = m.type
        /\ WordAt(p, UdpPos) = m.udp
        /\ WordAt(p, TcpPos) = m.tcp
        /\ Holds(p, HostnamePos, h)
        /\ Holds(p, HostnamePos + Len(h) + 1, u)
    BY <1>1 DEF Carries
  <2> HIDE DEF h, u
  <2>5. /\ TypePos \in Nat /\ TypePos + 1 < Extent(m)
        /\ UdpPos \in Nat /\ UdpPos + 1 < Extent(m)
        /\ TcpPos \in Nat /\ TcpPos + 1 < Extent(m)
        /\ Extent(m) \in Nat
    BY <2>2, <2>3 DEF TypePos, UdpPos, TcpPos
  <2>6. /\ WordAt(q, TypePos) = m.type
        /\ WordAt(q, UdpPos) = m.udp
        /\ WordAt(q, TcpPos) = m.tcp
    BY <2>4, <2>5, WordKept
  <2>7. /\ HostnamePos \in Nat /\ HostnamePos + Len(h) < Extent(m)
        /\ HostnamePos + Len(h) + 1 \in Nat
        /\ (HostnamePos + Len(h) + 1) + Len(u) < Extent(m)
    BY <2>2, <2>3 DEF HostnamePos
  <2>8. Holds(q, HostnamePos, h)
    BY <2>2, <2>4, <2>5, <2>7, StringKept
  <2>9. Holds(q, HostnamePos + Len(h) + 1, u)
    BY <2>2, <2>4, <2>5, <2>7, StringKept
  <2>10. QED
    BY <2>1, <2>6, <2>8, <2>9 DEF Carries, h, u
<1>2. CASE m.type = Request
  <2> DEFINE u == m.username
  <2>1. u \in Name /\ m.type \notin {Discovery, Reply, Closing} /\ m.type /= Message
    BY <1>2 DEF Fields, Discovery, Reply, Closing, Request, Message,
           Accept, Decline, Discontinue
  <2>2. IsString(u) /\ Len(u) \in Nat
    BY <2>1, PacketAssumption DEF IsString
  <2>3. Extent(m) = 7 + Len(u) + 1
    BY <1>2, <2>1 DEF Extent, UserReqPos
  <2>4. WordAt(p, TypePos) = m.type /\ Holds(p, 7, u)
    BY <1>2 DEF Carries, UserReqPos
  <2> HIDE DEF u
  <2>5. /\ TypePos \in Nat /\ TypePos + 1 < Extent(m) /\ Extent(m) \in Nat
        /\ 7 \in Nat /\ 7 + Len(u) < Extent(m)
    BY <2>2, <2>3 DEF TypePos
  <2>6. WordAt(q, TypePos) = m.type
    BY <2>4, <2>5, WordKept
  <2>7. Holds(q, 7, u)
    BY <2>2, <2>4, <2>5, StringKept
  <2>8. QED
    BY <2>1, <2>6, <2>7 DEF Carries, UserReqPos, u
<1>3. CASE m.type = Message
  <2> DEFINE t == m.msg
  <2>1. t \in Text /\ m.type \notin {Discovery, Reply, Closing} /\ m.type /= Request
    BY <1>3 DEF Fields, Discovery, Reply, Closing, Request, Message,
           Accept, Decline, Discontinue
  <2>2. IsString(t) /\ Len(t) \in Nat
    BY <2>1, PacketAssumption DEF IsString
  <2>3. Extent(m) = 7 + Len(t) + 1
    BY <1>3, <2>1 DEF Extent, MsgPos
  <2>4. WordAt(p, TypePos) = m.type /\ Holds(p, 7, t)
    BY <1>3 DEF Carries, MsgPos
  <2> HIDE DEF t
  <2>5. /\ TypePos \in Nat /\ TypePos + 1 < Extent(m) /\ Extent(m) \in Nat
        /\ 7 \in Nat /\ 7 + Len(t) < Extent(m)
    BY <2>2, <2>3 DEF TypePos
  <2>6. WordAt(q, TypePos) = m.type
    BY <2>4, <2>5, WordKept
  <2>7. Holds(q, 7, t)
    BY <2>2, <2>4, <2>5, StringKept
  <2>8. QED
    BY <2>1, <2>6, <2>7 DEF Carries, MsgPos, t
<1>4. CASE m.type \notin {Discovery, Reply, Closing, Request, Message}
  <2>1. Extent(m) = 7
    BY <1>4 DEF Extent, TypePos
  <2>2. TypePos \in Nat /\ TypePos + 1 < Extent(m) /\ Extent(m) \in Nat
    BY <2>1 DEF TypePos
  <2>3. WordAt(q, TypePos) = m.type
    BY <2>2, WordKept DEF Carries
  <2>4. QED
    BY <1>4, <2>3 DEF Carries
<1>5. QED
  BY <1>1, <1>2, <1>3, <1>4

\* The receiver's packet carries what the sender's did.
LEMMA ArriveStep ==
    ASSUME IInv, Arrive
    PROVE  /\ in' \in Contents
           /\ Carries(in', sent)
<1> DEFINE filled == [i \in Index |-> IF i < out.size THEN out.data[i] ELSE 0]
<1>1. /\ out \in Contents /\ sent \in Fields
      /\ Carries(out, sent) /\ out.size = Extent(sent)
  BY DEF IInv, TypeOK, Arrive
<1>2. out.data \in [Index -> Byte] /\ out.size \in Nat /\ out.size <= MaxSize
  BY <1>1, RoomForWords DEF Contents
<1>3. 0 \in Byte /\ 0 \in 0..MaxSize
  BY RoomForWords DEF Byte
<1>4. filled \in [Index -> Byte]
  BY <1>2, <1>3
<1>5. Read(Clear(in)) = [data |-> filled, size |-> 0]
  BY DEF Read, Clear, Empty, Zeroed
<1>6. \/ in' = SetSize([data |-> filled, size |-> 0], out.size)
      \/ in' = [data |-> filled, size |-> 0]
  BY <1>5 DEF Arrive
<1> HIDE DEF filled
<1>7. \/ in' = [data |-> filled, size |-> 0]
      \/ out.size < MaxSize /\ in' = [data |-> filled, size |-> out.size]
  BY <1>2, <1>6, RoomForWords DEF SetSize
<1>8. in'.data = filled /\ in' \in Contents
  <2>1. CASE in' = [data |-> filled, size |-> 0]
    BY <1>3, <1>4, <2>1 DEF Contents
  <2>2. CASE out.size < MaxSize /\ in' = [data |-> filled, size |-> out.size]
    <3>1. out.size \in 0..MaxSize
      BY <1>2, RoomForWords
    <3>2. QED
      BY <1>4, <2>2, <3>1 DEF Contents
  <2>3. QED
    BY <1>7, <2>1, <2>2
<1>9. \A i \in Index : i < Extent(sent) => in'.data[i] = out.data[i]
  BY <1>1, <1>8 DEF filled
<1>10. Extent(sent) <= MaxSize
  BY <1>1, <1>2
<1>11. QED
  BY <1>1, <1>8, <1>9, <1>10, PrefixCarries

-----------------------------------------------------------------------------
(* The invariant                                                           *)

\* A cleared packet is a packet.
LEMMA EmptyFits == Empty \in Contents
<1>1. 0 \in Byte /\ 0 \in 0..MaxSize
  BY RoomForWords DEF Byte
<1>2. QED
  BY <1>1 DEF Empty, Zeroed, Contents

\* Both packets are new at first.
LEMMA InitInvariant == Init => IInv
  BY EmptyFits DEF Init, IInv, TypeOK, NeverAborts

\* A step fills the sender's packet or the receiver's.
LEMMA StepInvariant == IInv /\ [Next]_vars => IInv'
<1> SUFFICES ASSUME IInv, [Next]_vars
             PROVE  IInv'
  OBVIOUS
<1>1. ASSUME NEW m \in Fields, Create(m) PROVE IInv'
  <2>1. UNCHANGED <<in, received>>
    BY <1>1 DEF Create
  <2>2. /\ out' \in Contents
        /\ sent' = m
        /\ Carries(out', m)
        /\ out'.size = Extent(m)
        /\ UNCHANGED aborted
    BY <1>1, AnnouncementStep, RequestStep, MessageStep, BareStep DEF Create
  <2>3. TypeOK' /\ NeverAborts'
    BY <1>1, <2>1, <2>2 DEF IInv, TypeOK, NeverAborts
  <2>4. Carries(out', sent') /\ out'.size = Extent(sent')
    BY <2>2
  <2>5. received' /= Nothing => Carries(in', received')
    BY <2>1 DEF IInv
  <2>6. QED
    BY <2>3, <2>4, <2>5 DEF IInv
<1>2. CASE Arrive
  <2>1. UNCHANGED <<out, sent, aborted>> /\ received' = sent /\ sent /= Nothing
    BY <1>2 DEF Arrive
  <2>2. in' \in Contents /\ Carries(in', sent)
    BY <1>2, ArriveStep
  <2>3. TypeOK' /\ NeverAborts'
    BY <2>1, <2>2 DEF IInv, TypeOK, NeverAborts
  <2>4. Carries(out', sent') /\ out'.size = Extent(sent')
    BY <2>1 DEF IInv
  <2>5. Carries(in', received')
    BY <2>1, <2>2
  <2>6. QED
    BY <2>3, <2>4, <2>5 DEF IInv
<1>3. CASE UNCHANGED vars
  BY <1>3 DEF vars, IInv, TypeOK, NeverAborts, Carries, Extent, Holds, WordAt
<1>4. QED
  BY <1>1, <1>2, <1>3 DEF Next

\* The inductive invariant: the sender's packet carries, in full, what it was
\* last filled with, and the receiver's packet what it last read.
THEOREM PacketInvariance == Spec => []IInv
<1>1. QED
  BY InitInvariant, StepInvariant, PTL DEF Spec

\* Every byte is a byte and the size never exceeds the buffer, however the
\* packet is reused.
THEOREM PacketTypes == Spec => []TypeOK
<1>1. IInv => TypeOK
  BY DEF IInv
<1>2. QED
  BY <1>1, PacketInvariance, PTL

\* No name or message that the program can hold trips an assertion.
THEOREM CreatorsNeverAbort == Spec => []NeverAborts
<1>1. IInv => NeverAborts
  BY DEF IInv
<1>2. QED
  BY <1>1, PacketInvariance, PTL

\* A packet that carries m is read as m.
LEMMA CarriedIsRead ==
    ASSUME TypeOK, received /= Nothing, Carries(in, received)
    PROVE  RoundTrip
<1> USE DEF Discovery, Reply, Closing, Request, Message, Accept, Decline, Discontinue
<1>1. received \in Fields /\ WordAt(in, TypePos) = received.type
  BY DEF TypeOK, Carries
<1>2. CASE received.type \in {Discovery, Reply, Closing}
  <2> DEFINE h == received.hostname
             u == received.username
  <2>1. h \in Name /\ u \in Name /\ received.type \notin {Request, Message}
    BY <1>1, <1>2 DEF Fields
  <2>2. IsString(h) /\ Len(h) \in Nat /\ IsString(u) /\ Len(u) \in Nat
    BY <2>1, PacketAssumption DEF IsString
  <2>3. /\ WordAt(in, UdpPos) = received.udp
        /\ WordAt(in, TcpPos) = received.tcp
        /\ Holds(in, HostnamePos, h)
        /\ Holds(in, HostnamePos + Len(h) + 1, u)
    BY <1>2 DEF Carries
  <2>4. HostnamePos \in Nat /\ HostnamePos + Len(h) + 1 \in Nat
    BY <2>2 DEF HostnamePos
  <2>5. Ended(in, HostnamePos) /\ StringAt(in, HostnamePos) = h
    BY <2>2, <2>3, <2>4, StringIsRead
  <2>6. UsernamePos(in) = HostnamePos + Len(h) + 1
    <3>1. UsernamePos(in) = Len(h) + 1 + HostnamePos
      BY <1>1, <1>2, <2>5 DEF UsernamePos
    <3>2. QED
      BY <2>2, <3>1 DEF HostnamePos
  <2>7. Ended(in, UsernamePos(in)) /\ StringAt(in, UsernamePos(in)) = u
    BY <2>2, <2>3, <2>4, <2>6, StringIsRead
  <2>8. StringPositions(in, received.type) = {HostnamePos, UsernamePos(in)}
    BY <1>2 DEF StringPositions
  <2>9. QED
    BY <1>1, <2>1, <2>3, <2>5, <2>7, <2>8 DEF RoundTrip
<1>3. CASE received.type = Request
  <2> DEFINE u == received.username
  <2>1. u \in Name /\ received.type \notin {Discovery, Reply, Closing, Message}
    BY <1>1, <1>3 DEF Fields
  <2>2. IsString(u)
    BY <2>1, PacketAssumption
  <2>3. UsernamePos(in) = 7 /\ StringPositions(in, received.type) = {7}
    BY <1>1, <1>3 DEF UsernamePos, StringPositions, UserReqPos, MsgPos
  <2>4. Holds(in, 7, u) /\ 7 \in Nat
    BY <1>3 DEF Carries, UserReqPos
  <2>5. Ended(in, 7) /\ StringAt(in, 7) = u
    BY <2>2, <2>4, StringIsRead
  <2>6. QED
    BY <1>1, <2>1, <2>3, <2>5 DEF RoundTrip
<1>4. CASE received.type = Message
  <2> DEFINE t == received.msg
  <2>1. t \in Text /\ received.type \notin {Discovery, Reply, Closing, Request}
    BY <1>1, <1>4 DEF Fields
  <2>2. IsString(t)
    BY <2>1, PacketAssumption
  <2>3. StringPositions(in, received.type) = {7}
    BY <1>4 DEF StringPositions, MsgPos
  <2>4. Holds(in, 7, t) /\ 7 \in Nat
    BY <1>4 DEF Carries, MsgPos
  <2>5. Ended(in, 7) /\ StringAt(in, 7) = t
    BY <2>2, <2>4, StringIsRead
  <2>6. QED
    BY <1>1, <2>1, <2>3, <2>5 DEF RoundTrip, MsgPos
<1>5. CASE received.type \notin {Discovery, Reply, Closing, Request, Message}
  BY <1>1, <1>5 DEF RoundTrip, StringPositions
<1>6. QED
  BY <1>2, <1>3, <1>4, <1>5

\* Whatever the sender wrote is what the receiver's getters return, for every
\* name, message and port.
THEOREM WhatIsSentIsRead == Spec => []RoundTrip
<1>1. IInv => RoundTrip
  BY CarriedIsRead DEF IInv, RoundTrip
<1>2. QED
  BY <1>1, PacketInvariance, PTL
=============================================================================
