-------------------------- MODULE SessionProofs ---------------------------
(***************************************************************************)
(* Proofs about Session for every set of peers, every size of the list, of *)
(* the backlog and of the descriptor table, and any number of packets.     *)
(***************************************************************************)
EXTENDS Session, DescriptorProofs, SequenceTheorems

-----------------------------------------------------------------------------
(* The list                                                                *)

\* A list without one of its users is a list of the same users.
LEMMA RemoveAtType ==
    ASSUME NEW S, NEW s \in Seq(S), NEW i \in DOMAIN s
    PROVE  RemoveAt(s, i) \in Seq(S)
<1>1. i \in 1..Len(s)
  OBVIOUS
<1>2. SubSeq(s, 1, i - 1) \in Seq(S) /\ SubSeq(s, i + 1, Len(s)) \in Seq(S)
  BY <1>1, SubSeqProperties
<1>3. QED
  BY <1>2, ConcatProperties DEF RemoveAt

\* Position() finds a user who is listed.
LEMMA PositionType ==
    ASSUME NEW n, Listed(n)
    PROVE  Position(n) \in DOMAIN users /\ users[Position(n)].name = n
  BY DEF Listed, Position

\* insert() makes a list of a list and a user.
LEMMA InsertedType ==
    ASSUME NEW S, users \in Seq(S), NEW u \in S
    PROVE  Inserted(u) \in Seq(S)
<1>1. <<u>> \in Seq(S)
  OBVIOUS
<1>2. <<u>> \o users \in Seq(S)
  BY <1>1, ConcatProperties
<1>3. QED
  BY <1>2 DEF Inserted

\* A list may be changed user by user.
LEMMA MappedType ==
    ASSUME NEW S, NEW s \in Seq(S), NEW t,
           DOMAIN t = DOMAIN s, t = [i \in DOMAIN s |-> t[i]],
           \A i \in DOMAIN s : t[i] \in S
    PROVE  t \in Seq(S)
<1>1. DOMAIN s = 1..Len(s) /\ Len(s) \in Nat
  OBVIOUS
<1>2. t \in [1..Len(s) -> S]
  BY <1>1
<1>3. QED
  BY <1>1, <1>2, SeqDef

\* userConnected() and userDisconnected() change neither names nor sockets.
LEMMA WithConnectedType ==
    ASSUME users \in Seq(Node), NEW n, NEW value \in {0, 1}
    PROVE  /\ WithConnected(n, value) \in Seq(Node)
           /\ DOMAIN WithConnected(n, value) = DOMAIN users
           /\ \A i \in DOMAIN users : WithConnected(n, value)[i].fd = users[i].fd
<1> DEFINE t == WithConnected(n, value)
<1>1. \A i \in DOMAIN users : users[i] \in Node
  BY ElementOfSeq
<1>2. \A i \in DOMAIN users : t[i] \in Node /\ t[i].fd = users[i].fd
  BY <1>1 DEF WithConnected, Node
<1>3. DOMAIN t = DOMAIN users /\ t = [i \in DOMAIN users |-> t[i]]
  BY DEF WithConnected
<1>4. t \in Seq(Node)
  BY <1>2, <1>3, MappedType
<1>5. QED
  BY <1>2, <1>3, <1>4

-----------------------------------------------------------------------------
(* Descriptors and connections                                             *)

\* The table of a process that has just run init() is a table.
LEMMA FreshTableType == FreshTable \in [Fd -> FdUse]
  BY DEF FreshTable, FdUse

\* A connection on which nothing has arrived is a connection.
LEMMA FreshType == Fresh \in Connection
  BY DEF Fresh, Connection

\* close() makes a table out of a table, whatever is closed, and leaves the
\* other numbers alone.
LEMMA CloseType ==
    ASSUME fds \in [Fd -> FdUse], NEW c \in [Fd -> Connection], NEW S, Close(S, c)
    PROVE  /\ fds' \in [Fd -> FdUse]
           /\ conn' \in [Fd -> Connection]
           /\ \A f \in Fd : fds'[f] = IF f \in S THEN "closed" ELSE fds[f]
  BY FreshType DEF Close, FdUse

\* read() leaves nothing behind.
LEMMA TakenType ==
    ASSUME conn \in [Fd -> Connection], NEW f
    PROVE  Taken(f) \in [Fd -> Connection]
<1>1. <<>> \in Seq(PacketType)
  OBVIOUS
<1>2. QED
  BY <1>1 DEF Taken, Connection

\* Reading keys takes one packet at most from descriptor 0.
LEMMA KeysTakenType ==
    ASSUME TypeOK, fds[StdinFd] \in Peer => conn[StdinFd].in /= <<>>
    PROVE  KeysTaken \in [Fd -> Connection]
<1>1. StdinFd \in Fd
  BY DEF Fd
<1>2. conn[StdinFd].in \in Seq(PacketType)
  BY <1>1 DEF TypeOK, Connection
<1>3. CASE fds[StdinFd] \in Peer
  <2>1. Tail(conn[StdinFd].in) \in Seq(PacketType)
    BY <1>2, <1>3, HeadTailProperties
  <2>2. QED
    BY <1>3, <2>1 DEF KeysTaken, TypeOK, Connection
<1>4. CASE fds[StdinFd] \notin Peer
  BY <1>4 DEF KeysTaken, TypeOK
<1>5. QED
  BY <1>3, <1>4

\* A packet that arrives is one more.
LEMMA ArrivedType ==
    ASSUME NEW c \in Connection, NEW type \in PeerType
    PROVE  Arrived(c, type) \in Connection
<1>1. type \in PacketType
  BY SessionAssumption
<1>2. Append(c.in, type) \in Seq(PacketType)
  BY <1>1, AppendProperties DEF Connection
<1>3. QED
  BY <1>2 DEF Arrived, Connection

\* No peer has the name of another use of a descriptor.
LEMMA PeersAreNoUses ==
    /\ "closed" \notin Peer /\ "stdin" \notin Peer
    /\ "udp" \notin Peer /\ "listen" \notin Peer
  BY SessionAssumption

\* Writing nothing is an output.
LEMMA SilenceType == Silence \in Output
  BY DEF Silence, Output

\* The top of the loop and the end of the process are places.
LEMMA AtPollType == AtPoll \in Place /\ [AtPoll EXCEPT !.step = "dead"] \in Place
  BY DEF AtPoll, Place

\* What a sender does leaves the types alone.
LEMMA SendType ==
    ASSUME TypeOK, NEW n \in Peer \cup {Nobody}, NEW f, NEW type \in PacketType,
           NEW c \in [Fd -> Connection], Send(n, f, type, c)
    PROVE  fds' \in [Fd -> FdUse] /\ conn' \in [Fd -> Connection] /\ out' \in Output
<1>1. CASE Written(n, f, type, c)
  <2>1. out' \in Output
    BY <1>1, SilenceType DEF Written, Output
  <2>2. QED
    BY <1>1, <2>1 DEF Written, TypeOK
<1>2. CASE WriteFailed(f, c)
  BY <1>2, CloseType, SilenceType DEF WriteFailed, TypeOK
<1>3. QED
  BY <1>1, <1>2 DEF Send

\* A process that is gone is back in the state of one that has just started,
\* but for where it is.
LEMMA DiesType ==
    ASSUME Dies
    PROVE  TypeOK'
<1>1. conn' \in [Fd -> Connection]
  BY FreshType DEF Dies
<1>2. users' \in Seq(Node) /\ backlog' \in Seq([peer : Peer, conn : Connection])
  BY DEF Dies
<1>3. QED
  BY <1>1, <1>2, FreshTableType, SilenceType, AtPollType DEF Dies, TypeOK

-----------------------------------------------------------------------------
(* Types                                                                   *)

\* init() sets every variable to a value of its type.
LEMMA InitType == Init => TypeOK
<1> SUFFICES ASSUME Init PROVE TypeOK
  OBVIOUS
<1>1. conn \in [Fd -> Connection]
  BY FreshType DEF Init
<1>2. users \in Seq(Node) /\ backlog \in Seq([peer : Peer, conn : Connection])
  BY DEF Init
<1>3. QED
  BY <1>1, <1>2, FreshTableType, SilenceType, AtPollType DEF Init, TypeOK

\* socket() and accept() return a number of the table or -1.
LEMMA LowestFreeType == LowestFree(fds) \in Fd \cup {NoFd}
  BY LowestFreeIsFree

\* The three handlers of datagrams.
LEMMA UDPHandlerType ==
    ASSUME TypeOK, NEW p \in Peer, UDPHandler(p)
    PROVE  TypeOK'
<1>1. CASE DiscoveryMsgHandler(p)
  <2>1. [name |-> p, fd |-> StdinFd, connected |-> Disconnected] \in Node
    BY DEF Node, Fd, Disconnected
  <2>2. users' \in Seq(Node)
    BY <1>1, <2>1, InsertedType DEF DiscoveryMsgHandler, TypeOK
  <2>3. fds' \in [Fd -> FdUse] /\ conn' \in [Fd -> Connection]
    BY <1>1, CloseType DEF DiscoveryMsgHandler, TypeOK
  <2>4. QED
    BY <1>1, <2>2, <2>3, SilenceType DEF DiscoveryMsgHandler, TypeOK
<1>2. CASE ReplyConnected(p)
  <2>1. [name |-> p, fd |-> ReplySocket(fds), connected |-> 1] \in Node
    BY LowestFreeType DEF Node, ReplySocket
  <2>2. users' \in Seq(Node)
    BY <1>2, <2>1, InsertedType DEF ReplyConnected, TypeOK
  <2>3. out' \in Output
    BY <1>2 DEF ReplyConnected, Output, PacketType
  <2>4. QED
    BY <1>2, <2>2, <2>3 DEF ReplyConnected, TypeOK
<1>3. CASE ReplyNotConnected(p)
  <2>1. [name |-> p, fd |-> ReplySocket(fds), connected |-> Disconnected] \in Node
    BY LowestFreeType DEF Node, ReplySocket, Disconnected
  <2>2. users' \in Seq(Node)
    BY <1>3, <2>1, InsertedType DEF ReplyNotConnected, TypeOK
  <2>3. QED
    BY <1>3, <2>2, SilenceType DEF ReplyNotConnected, TypeOK
<1>4. CASE ReplyUnresolved(p)
  <2>1. [name |-> p, fd |-> StdinFd, connected |-> Disconnected] \in Node
    BY DEF Node, Fd, Disconnected
  <2>2. users' \in Seq(Node)
    BY <1>4, <2>1, InsertedType DEF ReplyUnresolved, TypeOK
  <2>3. fds' \in [Fd -> FdUse] /\ conn' \in [Fd -> Connection]
    BY <1>4, CloseType DEF ReplyUnresolved, TypeOK
  <2>4. out' \in Output
    BY <1>4, SilenceType DEF ReplyUnresolved, Output, PacketType
  <2>5. QED
    BY <1>4, <2>2, <2>3, <2>4 DEF ReplyUnresolved, TypeOK
<1>5. CASE ReplySigpipe(p)
  BY <1>5, DiesType DEF ReplySigpipe, SendDies
<1>6. CASE ClosingMsgHandler(p)
  <2>1. users' \in Seq(Node)
    BY <1>6, PositionType, RemoveAtType DEF ClosingMsgHandler, TypeOK
  <2>2. fds' \in [Fd -> FdUse] /\ conn' \in [Fd -> Connection]
    BY <1>6, CloseType DEF ClosingMsgHandler, TypeOK
  <2>3. cursor' \in [index : Nat, node : Peer \cup {"unset", "freed"}]
    BY <1>6 DEF ClosingMsgHandler, TypeOK
  <2>4. QED
    BY <1>6, <2>1, <2>2, <2>3, SilenceType DEF ClosingMsgHandler, TypeOK
<1>7. QED
  BY <1>1, <1>2, <1>3, <1>4, <1>5, <1>6 DEF UDPHandler, ReplyMsgHandler

\* accept() and the read() behind it.
LEMMA AcceptType ==
    ASSUME TypeOK, Accept
    PROVE  TypeOK'
<1> DEFINE f == LowestFree(fds)
<1>1. f \in Fd /\ backlog /= <<>>
  BY LowestFreeType DEF Accept
<1>2. Head(backlog) \in [peer : Peer, conn : Connection]
  BY <1>1, HeadTailProperties DEF TypeOK
<1>3. Tail(backlog) \in Seq([peer : Peer, conn : Connection])
  BY <1>1, HeadTailProperties DEF TypeOK
<1>4. fds' \in [Fd -> FdUse] /\ conn' \in [Fd -> Connection]
  BY <1>1, <1>2 DEF Accept, TypeOK, FdUse
<1>5. at' \in Place
  BY <1>1 DEF Accept, Place
<1>6. QED
  BY <1>3, <1>4, <1>5, SilenceType DEF Accept, TypeOK

\* What FirstRequest makes of the list: the new number for one of its users.
LEMMA FirstRequestUsers ==
    ASSUME TypeOK, at.fd \in Fd, FirstRequest
    PROVE  /\ users' \in Seq(Node)
           /\ DOMAIN users' = DOMAIN users
           /\ \A i \in DOMAIN users : users'[i].fd \in {users[i].fd, at.fd}
<1>1. users \in Seq(Node) /\ \A i \in DOMAIN users : users[i] \in Node
  BY ElementOfSeq DEF TypeOK
<1>2. DOMAIN users' = DOMAIN users /\ users' = [i \in DOMAIN users |-> users'[i]]
  BY DEF FirstRequest
<1>3. \A i \in DOMAIN users : users'[i] \in Node
  BY <1>1 DEF FirstRequest, Node
<1>4. \A i \in DOMAIN users : users'[i].fd \in {users[i].fd, at.fd}
  BY <1>1 DEF FirstRequest, Node
<1>5. users' \in Seq(Node)
  BY <1>1, <1>2, <1>3, MappedType
<1>6. QED
  BY <1>2, <1>4, <1>5

\* The first packet on a connection, whatever it is.
LEMMA TCPMessageReceivedType ==
    ASSUME TypeOK, at.step = "accepted" => at.fd \in Fd, TCPMessageReceived
    PROVE  TypeOK'
<1>1. CASE FirstRequest
  <2>1. users' \in Seq(Node)
    BY <1>1, FirstRequestUsers DEF FirstRequest
  <2>2. conn' \in [Fd -> Connection]
    BY <1>1, TakenType DEF FirstRequest, TypeOK
  <2>3. QED
    BY <1>1, <2>1, <2>2, SilenceType, AtPollType DEF FirstRequest, TypeOK
<1>2. CASE FirstRequestCrash
  BY <1>2, DiesType DEF FirstRequestCrash
<1>3. CASE NoRequest
  <2>1. conn' \in [Fd -> Connection]
    BY <1>3, TakenType DEF NoRequest, TypeOK
  <2>2. QED
    BY <1>3, <2>1, SilenceType, AtPollType DEF NoRequest, TypeOK
<1>4. QED
  BY <1>1, <1>2, <1>3 DEF TCPMessageReceived

\* Return is pressed, or a packet is there whose bytes are read as keys.
LEMMA ReturnKeys ==
    ASSUME TypeOK, Return
    PROVE  KeysTaken \in [Fd -> Connection]
<1>1. fds[StdinFd] \in Peer => conn[StdinFd].in /= <<>>
  BY PeersAreNoUses DEF Return, FirstIs
<1>2. QED
  BY <1>1, KeysTakenType

\* A command that is typed and sent.
LEMMA TypedType ==
    ASSUME TypeOK, NEW n \in Peer, NEW type \in PacketType, Typed(n, type)
    PROVE  /\ fds' \in [Fd -> FdUse] /\ conn' \in [Fd -> Connection]
           /\ out' \in Output
           /\ UNCHANGED <<away, cursor, backlog, at>>
<1>1. KeysTaken \in [Fd -> Connection]
  BY ReturnKeys DEF Typed
<1>2. QED
  BY <1>1, SendType DEF Typed

\* The commands of the user, and packets that are read as keys.
LEMMA KeyboardReceivedType ==
    ASSUME TypeOK, KeyboardReceived
    PROVE  TypeOK'
<1>1. CASE OtherKeys
  <2>1. conn' \in [Fd -> Connection]
    BY <1>1, KeysTakenType DEF OtherKeys, FirstIs
  <2>2. QED
    BY <1>1, <2>1, SilenceType DEF OtherKeys, TypeOK
<1>2. CASE NothingSent
  BY <1>2, ReturnKeys, SilenceType DEF NothingSent, TypeOK
<1>3. ASSUME NEW b \in BOOLEAN, ChangeStatus(b) PROVE TypeOK'
  BY <1>3, ReturnKeys, SilenceType DEF ChangeStatus, TypeOK
<1>4. CASE CommandCrash
  BY <1>4, DiesType DEF CommandCrash
<1>5. ASSUME NEW n \in Peer, SendMessage(n) PROVE TypeOK'
  <2>1. "message" \in PacketType
    BY DEF PacketType
  <2>2. Typed(n, "message") /\ UNCHANGED users
    BY <1>5 DEF SendMessage
  <2>3. QED
    BY <2>1, <2>2, TypedType DEF TypeOK
<1>6. ASSUME NEW n \in Peer, SendRequestOrAccept(n) PROVE TypeOK'
  <2>1. PICK type \in {"request", "accept"} : Typed(n, type)
    BY <1>6 DEF SendRequestOrAccept
  <2>2. type \in PacketType /\ UNCHANGED users
    BY <1>6 DEF PacketType, SendRequestOrAccept
  <2>3. QED
    BY <2>1, <2>2, TypedType DEF TypeOK
<1>7. ASSUME NEW n \in Peer, SendDeclineOrDiscontinue(n) PROVE TypeOK'
  <2>1. PICK type \in {"decline", "discontinue"} : Typed(n, type)
    BY <1>7 DEF SendDeclineOrDiscontinue
  <2>2. type \in PacketType
    BY DEF PacketType
  <2>3. users' \in Seq(Node)
    BY <1>7, WithConnectedType DEF SendDeclineOrDiscontinue, TypeOK, Disconnected
  <2>4. QED
    BY <2>1, <2>2, <2>3, TypedType DEF TypeOK
<1>8. ASSUME NEW n \in Peer, CommandDies(n) PROVE TypeOK'
  BY <1>8, DiesType DEF CommandDies, SendDies
<1>9. QED
  BY <1>1, <1>2, <1>3, <1>4, <1>5, <1>6, <1>7, <1>8 DEF KeyboardReceived

\* Whoever getUser() finds, the number that is read is his, or 0.
LEMMA GetUserSocket ==
    ASSUME TypeOK, NEW i \in DOMAIN users, NEW n \in GetUser(i)
    PROVE  /\ n \in Peer \cup {Nobody}
           /\ SocketOf(n) = StdinFd \/ \E j \in DOMAIN users : SocketOf(n) = users[j].fd
           /\ SocketOf(n) \in Fd \cup {NoFd}
<1>1. \A j \in DOMAIN users : users[j] \in Node
  BY ElementOfSeq DEF TypeOK
<1>2. n = Nobody \/ \E j \in DOMAIN users : n = users[j].name
  BY DEF GetUser
<1>3. CASE n = Nobody
  BY <1>3 DEF SocketOf, Fd
<1>4. CASE n /= Nobody
  <2>1. Position(n) \in DOMAIN users
    BY <1>2, <1>4, PositionType DEF Listed
  <2>2. SocketOf(n) = users[Position(n)].fd
    BY <1>4 DEF SocketOf
  <2>3. users[Position(n)].fd \in Fd \cup {NoFd}
    BY <1>1, <2>1 DEF Node
  <2>4. n \in Peer
    BY <1>1, <1>2, <1>4 DEF Node
  <2>5. QED
    BY <2>1, <2>2, <2>3, <2>4
<1>5. QED
  BY <1>3, <1>4

\* getUser() in the loop over the users.
LEMMA UserReadyType ==
    ASSUME TypeOK, NEW i \in DOMAIN users, UserReady(i) \/ UserReadyCrash(i)
    PROVE  TypeOK'
<1>1. CASE UserReady(i)
  <2>1. PICK n \in GetUser(i) :
          /\ cursor' = [index |-> i - 1, node |-> IF n = Nobody THEN "freed" ELSE n]
          /\ at' = [step |-> "reading", user |-> n, fd |-> SocketOf(n)]
    BY <1>1 DEF UserReady
  <2>2. n \in Peer \cup {Nobody} /\ SocketOf(n) \in Fd \cup {NoFd}
    BY GetUserSocket
  <2>3. i - 1 \in Nat
    BY DEF TypeOK
  <2>4. cursor' \in [index : Nat, node : Peer \cup {"unset", "freed"}]
    BY <2>1, <2>2, <2>3
  <2>5. at' \in Place
    BY <2>1, <2>2 DEF Place
  <2>6. QED
    BY <1>1, <2>4, <2>5, SilenceType DEF UserReady, TypeOK
<1>2. CASE UserReadyCrash(i)
  BY <1>2, DiesType DEF UserReadyCrash
<1>3. QED
  BY <1>1, <1>2

\* The handlers of packets on a user's socket.
LEMMA TCPHandlerType ==
    ASSUME TypeOK, TCPHandler
    PROVE  TypeOK'
<1>1. Taken(at.fd) \in [Fd -> Connection]
  BY TakenType DEF TypeOK
<1>2. at.user \in Peer \cup {Nobody}
  BY DEF TypeOK, Place
<1>3. WithConnected(at.user, 1) \in Seq(Node)
      /\ WithConnected(at.user, Disconnected) \in Seq(Node)
  BY WithConnectedType DEF TypeOK, Disconnected
<1>4. CASE RequestMsgHandler
  <2> DEFINE type == IF away THEN "decline" ELSE "accept"
  <2>1. type \in PacketType
    BY DEF PacketType
  <2>2. Send(at.user, at.fd, type, Taken(at.fd))
    BY <1>4 DEF RequestMsgHandler
  <2>3. fds' \in [Fd -> FdUse] /\ conn' \in [Fd -> Connection] /\ out' \in Output
    BY <1>1, <1>2, <2>1, <2>2, SendType
  <2>4. users' \in Seq(Node)
    BY <1>3, <1>4 DEF RequestMsgHandler
  <2>5. QED
    BY <1>4, <2>3, <2>4, AtPollType DEF RequestMsgHandler, TypeOK
<1>5. CASE RequestDies
  BY <1>5, DiesType DEF RequestDies, SendDies
<1>6. CASE AcceptMsgHandler
  BY <1>1, <1>3, <1>6, SilenceType, AtPollType DEF AcceptMsgHandler, TypeOK
<1>7. CASE DisconnectMsgHandler
  <2>1. fds' \in [Fd -> FdUse] /\ conn' \in [Fd -> Connection]
    BY <1>1, <1>7, CloseType DEF DisconnectMsgHandler, TypeOK
  <2>2. QED
    BY <1>3, <1>7, <2>1, SilenceType, AtPollType DEF DisconnectMsgHandler, TypeOK
<1>8. CASE MessageMsgHandler
  <2>1. fds[at.fd] \in Peer
    BY <1>8 DEF MessageMsgHandler, Handles, Readable
  <2>2. out' \in Output
    BY <1>2, <1>8, <2>1 DEF MessageMsgHandler, Output
  <2>3. QED
    BY <1>1, <1>8, <2>2, AtPollType DEF MessageMsgHandler, TypeOK
<1>9. CASE UnknownPacket
  BY <1>9, SilenceType, AtPollType DEF UnknownPacket, TypeOK
<1>10. QED
  BY <1>4, <1>5, <1>6, <1>7, <1>8, <1>9 DEF TCPHandler

\* What peers do: they connect, write, and close.
LEMMA PeersType ==
    ASSUME TypeOK, Peers
    PROVE  TypeOK'
<1> DEFINE B == [peer : Peer, conn : Connection]
<1>1. ASSUME NEW p \in Peer, Connect(p) PROVE TypeOK'
  <2>1. [peer |-> p, conn |-> Fresh] \in B
    BY FreshType
  <2>2. backlog' \in Seq(B)
    BY <1>1, <2>1, AppendProperties DEF Connect, TypeOK
  <2>3. QED
    BY <1>1, <2>2, SilenceType DEF Connect, TypeOK
<1>2. ASSUME NEW i \in DOMAIN backlog, NEW type \in PeerType, PeerWritesFirst(i, type)
      PROVE  TypeOK'
  <2>1. backlog[i] \in B
    <3>1. backlog \in Seq(B) /\ i \in 1..Len(backlog)
      BY DEF TypeOK
    <3>2. QED
      BY <3>1, ElementOfSeq
  <2>2. Arrived(backlog[i].conn, type) \in Connection
    BY <2>1, ArrivedType
  <2>3. [backlog[i] EXCEPT !.conn = Arrived(@, type)] \in B
    BY <2>1, <2>2
  <2>4. backlog' = [backlog EXCEPT ![i] = [backlog[i] EXCEPT !.conn = Arrived(@, type)]]
    BY <1>2 DEF PeerWritesFirst
  <2>5. backlog' \in Seq(B)
    BY <2>3, <2>4, ExceptSeq DEF TypeOK
  <2>6. QED
    BY <1>2, <2>5, SilenceType DEF PeerWritesFirst, TypeOK
<1>3. ASSUME NEW i \in DOMAIN backlog, PeerClosesFirst(i)
      PROVE  TypeOK'
  <2>1. backlog[i] \in B
    <3>1. backlog \in Seq(B) /\ i \in 1..Len(backlog)
      BY DEF TypeOK
    <3>2. QED
      BY <3>1, ElementOfSeq
  <2>2. [backlog[i] EXCEPT !.conn = Ended(@)] \in B
    BY <2>1 DEF Ended, Connection
  <2>3. backlog' = [backlog EXCEPT ![i] = [backlog[i] EXCEPT !.conn = Ended(@)]]
    BY <1>3 DEF PeerClosesFirst
  <2>4. backlog' \in Seq(B)
    BY <2>2, <2>3, ExceptSeq DEF TypeOK
  <2>5. QED
    BY <1>3, <2>4, SilenceType DEF PeerClosesFirst, TypeOK
<1>4. ASSUME NEW f \in Fd, NEW type \in PeerType, PeerWrites(f, type)
      PROVE  TypeOK'
  <2>1. Arrived(conn[f], type) \in Connection
    BY ArrivedType DEF TypeOK
  <2>2. conn' \in [Fd -> Connection]
    BY <1>4, <2>1 DEF PeerWrites, TypeOK
  <2>3. QED
    BY <1>4, <2>2, SilenceType DEF PeerWrites, TypeOK
<1>5. ASSUME NEW f \in Fd, PeerCloses(f)
      PROVE  TypeOK'
  <2>1. Ended(conn[f]) \in Connection
    BY DEF TypeOK, Ended, Connection
  <2>2. conn' \in [Fd -> Connection]
    BY <1>5, <2>1 DEF PeerCloses, TypeOK
  <2>3. QED
    BY <1>5, <2>2, SilenceType DEF PeerCloses, TypeOK
<1>6. QED
  BY <1>1, <1>2, <1>3, <1>4, <1>5 DEF Peers

\* Every step keeps the types, provided that accept() returned a number.
LEMMA TypeStep ==
    ASSUME TypeOK, AcceptedIsPeers, [Next]_vars
    PROVE  TypeOK'
<1>1. ASSUME NEW p \in Peer, UDPHandler(p) PROVE TypeOK'
  BY <1>1, UDPHandlerType
<1>2. CASE Accept
  BY <1>2, AcceptType
<1>3. CASE TCPMessageReceived
  BY <1>3, TCPMessageReceivedType DEF AcceptedIsPeers
<1>4. CASE KeyboardReceived
  BY <1>4, KeyboardReceivedType
<1>5. ASSUME NEW i \in DOMAIN users, UserReady(i) \/ UserReadyCrash(i) PROVE TypeOK'
  BY <1>5, UserReadyType
<1>6. CASE TCPHandler
  BY <1>6, TCPHandlerType
<1>7. CASE Peers
  BY <1>7, PeersType
<1>8. CASE UNCHANGED vars
  BY <1>8 DEF vars, TypeOK
<1>9. QED
  BY <1>1, <1>2, <1>3, <1>4, <1>5, <1>6, <1>7, <1>8 DEF Next

-----------------------------------------------------------------------------
(* Which numbers are in use                                                *)

\* The numbers of a user's socket in the next state that keep IInv: one that
\* a user has now, or one that is no server socket and no keyboard.
Harmless(f) ==
    \/ \E j \in DOMAIN users : f = users[j].fd
    \/ f \notin ServerNumbers /\ (f = StdinFd => fds'[StdinFd] /= "stdin")

\* Server sockets, keyboard and peers are told apart by what fds says.
LEMMA Numbers ==
    /\ UdpFd \in Fd /\ TcpFd \in Fd /\ StdinFd \in Fd
    /\ StdinFd \notin ServerNumbers /\ NoFd \notin ServerNumbers /\ NoFd /= StdinFd
<1>1. StdinFd \in Fd
  BY DEF Fd
<1>2. QED
  BY <1>1, ServerFds DEF ServerNumbers, UdpFd, TcpFd, StdinFd, NoFd

\* A step that closes some numbers S, and no server socket, and gives users
\* harmless numbers keeps the invariant.
LEMMA ClosingKeeps ==
    ASSUME IInv, TypeOK', NEW S, S \cap ServerNumbers = {},
           \A f \in Fd : fds'[f] = IF f \in S THEN "closed" ELSE fds[f],
           \A i \in DOMAIN users' : Harmless(users'[i].fd),
           at'.fd \notin ServerNumbers,
           at'.step = "accepted" => at' = at /\ S = {}
    PROVE  IInv'
<1>1. ServerSocketsOpen'
  BY Numbers DEF IInv, ServerSocketsOpen, ServerNumbers
<1>2. SocketsApart'
  BY DEF IInv, SocketsApart, Harmless, ServerNumbers
<1>3. AcceptedIsPeers'
  BY DEF IInv, AcceptedIsPeers
<1>4. ASSUME fds'[StdinFd] = "stdin", NEW i \in DOMAIN users'
      PROVE  users'[i].fd /= StdinFd
  <2>1. fds[StdinFd] = "stdin"
    BY <1>4, Numbers
  <2>2. \A j \in DOMAIN users : users[j].fd /= StdinFd
    BY <2>1 DEF IInv, KeyboardIsNobodys
  <2>3. QED
    BY <1>4, <2>2 DEF Harmless
<1>5. KeyboardIsNobodys'
  BY <1>4 DEF KeyboardIsNobodys
<1>6. QED
  BY <1>1, <1>2, <1>3, <1>5 DEF IInv

\* A step that leaves the table alone and gives users harmless numbers keeps
\* the invariant,
LEMMA SameTableKeeps ==
    ASSUME IInv, TypeOK', fds' = fds,
           \A i \in DOMAIN users' : Harmless(users'[i].fd),
           at'.fd \notin ServerNumbers,
           at'.step = "accepted" => at' = at
    PROVE  IInv'
<1> DEFINE S == {}
<1>1. S \cap ServerNumbers = {} /\ S = {}
  OBVIOUS
<1>2. \A f \in Fd : fds'[f] = IF f \in S THEN "closed" ELSE fds[f]
  OBVIOUS
<1> HIDE DEF S
<1>3. QED
  BY <1>1, <1>2, ClosingKeeps

\* and so does one that leaves the list alone too.
LEMMA QuietKeeps ==
    ASSUME IInv, TypeOK', fds' = fds, users' = users,
           at'.fd \notin ServerNumbers,
           at'.step = "accepted" => at' = at
    PROVE  IInv'
<1>1. \A i \in DOMAIN users' : Harmless(users'[i].fd)
  BY DEF Harmless
<1>2. QED
  BY <1>1, SameTableKeeps

\* The top of the loop reads no socket.
LEMMA PollReadsNone ==
    /\ AtPoll.fd \notin ServerNumbers
    /\ AtPoll.step /= "accepted"
  BY Numbers DEF AtPoll

\* A process that is gone holds what a new one would.
LEMMA DiesKeeps ==
    ASSUME Dies
    PROVE  IInv'
<1>1. ServerSocketsOpen'
  BY FreshServerSockets DEF Dies, ServerSocketsOpen
<1>2. users' = <<>> /\ at'.fd = NoFd /\ at'.step = "dead"
  BY DEF Dies, AtPoll
<1>3. SocketsApart' /\ AcceptedIsPeers' /\ KeyboardIsNobodys'
  BY <1>2, Numbers DEF SocketsApart, AcceptedIsPeers, KeyboardIsNobodys
<1>4. QED
  BY <1>1, <1>3, DiesType DEF IInv

\* What the kernel hands out is no server socket, and no keyboard either.
LEMMA FreeIsHarmless ==
    ASSUME IInv, fds' = fds
    PROVE  Harmless(LowestFree(fds))
<1>1. CASE LowestFree(fds) = NoFd
  BY <1>1, Numbers DEF Harmless
<1>2. CASE fds[LowestFree(fds)] = "closed"
  BY <1>2 DEF IInv, ServerSocketsOpen, ServerNumbers, Harmless
<1>3. QED
  BY <1>1, <1>2, LowestFreeIsFree

\* insert() adds one user and keeps the sockets of the others.
LEMMA InsertedKeeps ==
    ASSUME users \in Seq(Node), NEW u \in Node, Harmless(u.fd), users' = Inserted(u)
    PROVE  \A i \in DOMAIN users' : Harmless(users'[i].fd)
<1>1. CASE users' = users
  BY <1>1 DEF Harmless
<1>2. CASE users' = <<u>> \o users
  <2>1. Len(users') = Len(users) + 1 /\ DOMAIN users' = 1..(Len(users) + 1)
    BY <1>2
  <2>2. users'[1] = u /\ \A i \in 2..(Len(users) + 1) : users'[i] = users[i - 1]
    BY <1>2
  <2>3. ASSUME NEW i \in DOMAIN users', i /= 1 PROVE Harmless(users'[i].fd)
    <3>1. i - 1 \in DOMAIN users /\ users'[i] = users[i - 1]
      BY <2>1, <2>2, <2>3
    <3>2. QED
      BY <3>1 DEF Harmless
  <2>4. QED
    BY <2>2, <2>3
<1>3. QED
  BY <1>1, <1>2 DEF Inserted

\* remove() keeps the sockets of the others.
LEMMA RemovedKeeps ==
    ASSUME users \in Seq(Node), NEW k \in DOMAIN users, users' = RemoveAt(users, k)
    PROVE  \A i \in DOMAIN users' : Harmless(users'[i].fd)
<1>1. k \in 1..Len(users) /\ Len(users) \in Nat
  OBVIOUS
<1>2. /\ Len(users') = Len(users) - 1
      /\ DOMAIN users' = 1..(Len(users) - 1)
      /\ \A i \in 1..(Len(users) - 1) : users'[i] = users[IF i < k THEN i ELSE i + 1]
  <2> DEFINE s == SubSeq(users, 1, k - 1)
             t == SubSeq(users, k + 1, Len(users))
  <2>1. /\ s \in Seq(Node) /\ Len(s) = k - 1
        /\ \A i \in 1..(k - 1) : s[i] = users[i]
    BY <1>1, SubSeqProperties
  <2>2. /\ t \in Seq(Node) /\ Len(t) = Len(users) - k
        /\ \A i \in 1..(Len(users) - k) : t[i] = users[k + i]
    BY <1>1, SubSeqProperties
  <2>3. users' = s \o t
    BY DEF RemoveAt
  <2> HIDE DEF s, t
  <2>4. /\ users' \in Seq(Node) /\ Len(users') = Len(users) - 1
        /\ \A i \in 1..(Len(users) - 1) :
              users'[i] = IF i <= k - 1 THEN s[i] ELSE t[i - (k - 1)]
    <3>1. /\ s \o t \in Seq(Node) /\ Len(s \o t) = Len(s) + Len(t)
          /\ \A i \in 1..(Len(s) + Len(t)) :
                (s \o t)[i] = IF i <= Len(s) THEN s[i] ELSE t[i - Len(s)]
      BY <2>1, <2>2, ConcatProperties
    <3>2. Len(s) + Len(t) = Len(users) - 1 /\ Len(s) = k - 1
      BY <1>1, <2>1, <2>2
    <3>3. QED
      BY <2>3, <3>1, <3>2, Zenon
  <2>5. DOMAIN users' = 1..(Len(users) - 1)
    BY <2>4, LenProperties
  <2>6. ASSUME NEW i \in 1..(Len(users) - 1)
        PROVE  users'[i] = users[IF i < k THEN i ELSE i + 1]
    <3>1. CASE i < k
      BY <1>1, <2>1, <2>4, <3>1
    <3>2. CASE ~(i < k)
      <4>1. i - (k - 1) \in 1..(Len(users) - k)
        BY <1>1, <3>2
      <4>2. k + (i - (k - 1)) = i + 1 /\ ~(i <= k - 1)
        BY <1>1, <3>2
      <4>3. t[i - (k - 1)] = users[i + 1]
        BY <2>2, <4>1, <4>2, Zenon
      <4>4. QED
        BY <2>4, <3>2, <4>2, <4>3, Zenon
    <3>3. QED
      BY <3>1, <3>2
  <2>7. QED
    BY <2>4, <2>5, <2>6
<1>3. ASSUME NEW i \in DOMAIN users' PROVE Harmless(users'[i].fd)
  <2>1. i \in 1..(Len(users) - 1)
    BY <1>2, <1>3
  <2>2. (IF i < k THEN i ELSE i + 1) \in DOMAIN users
    BY <1>1, <2>1
  <2>3. QED
    BY <1>2, <2>1, <2>2 DEF Harmless
<1>4. QED
  BY <1>3

\* Datagrams put 0 or a free number in the list, and close 0 and the socket
\* of the user who leaves.
LEMMA UDPHandlerKeeps ==
    ASSUME IInv, NEW p \in Peer, UDPHandler(p)
    PROVE  IInv'
<1>1. TypeOK' /\ users \in Seq(Node) /\ StdinFd \in Fd
  BY UDPHandlerType, Numbers DEF IInv, TypeOK
<1>2. CASE DiscoveryMsgHandler(p)
  <2> DEFINE u == [name |-> p, fd |-> StdinFd, connected |-> Disconnected]
  <2>1. \A f \in Fd : fds'[f] = IF f \in {StdinFd} THEN "closed" ELSE fds[f]
    BY <1>2 DEF DiscoveryMsgHandler, Close, Shut
  <2>2. Harmless(StdinFd)
    BY <1>1, <2>1, Numbers DEF Harmless
  <2>3. u \in Node /\ u.fd = StdinFd
    BY <1>1 DEF Node, Disconnected
  <2>4. users' = Inserted(u)
    BY <1>2 DEF DiscoveryMsgHandler
  <2> HIDE DEF u
  <2>5. \A i \in DOMAIN users' : Harmless(users'[i].fd)
    BY <1>1, <2>2, <2>3, <2>4, InsertedKeeps
  <2>6. at' = AtPoll
    BY <1>2 DEF DiscoveryMsgHandler
  <2>7. {StdinFd} \cap ServerNumbers = {}
    BY Numbers
  <2>8. QED
    BY <1>1, <2>1, <2>5, <2>6, <2>7, PollReadsNone, ClosingKeeps
<1>3. CASE ReplyConnected(p) \/ ReplyNotConnected(p)
  <2>1. PICK b \in {0, 1} :
          users' = Inserted([name |-> p, fd |-> LowestFree(fds), connected |-> b])
    BY <1>3 DEF ReplyConnected, ReplyNotConnected, ReplySocket, Disconnected
  <2> DEFINE u == [name |-> p, fd |-> LowestFree(fds), connected |-> b]
  <2>2. fds' = fds /\ at' = AtPoll
    BY <1>3 DEF ReplyConnected, ReplyNotConnected, ReplyArrives
  <2>3. u \in Node /\ u.fd = LowestFree(fds) /\ users' = Inserted(u)
    BY <2>1, LowestFreeType DEF Node
  <2>4. Harmless(LowestFree(fds))
    BY <2>2, FreeIsHarmless
  <2> HIDE DEF u
  <2>5. \A i \in DOMAIN users' : Harmless(users'[i].fd)
    BY <1>1, <2>3, <2>4, InsertedKeeps
  <2>6. QED
    BY <1>1, <2>2, <2>5, PollReadsNone, SameTableKeeps
<1>4. CASE ReplyUnresolved(p)
  <2> DEFINE u == [name |-> p, fd |-> StdinFd, connected |-> Disconnected]
  <2>1. \A f \in Fd : fds'[f] = IF f \in {StdinFd} THEN "closed" ELSE fds[f]
    BY <1>4 DEF ReplyUnresolved, Close, Shut
  <2>2. Harmless(StdinFd)
    BY <1>1, <2>1, Numbers DEF Harmless
  <2>3. u \in Node /\ u.fd = StdinFd
    BY <1>1 DEF Node, Disconnected
  <2>4. users' = Inserted(u)
    BY <1>4 DEF ReplyUnresolved
  <2> HIDE DEF u
  <2>5. \A i \in DOMAIN users' : Harmless(users'[i].fd)
    BY <1>1, <2>2, <2>3, <2>4, InsertedKeeps
  <2>6. at' = AtPoll
    BY <1>4 DEF ReplyUnresolved, ReplyArrives
  <2>7. {StdinFd} \cap ServerNumbers = {}
    BY Numbers
  <2>8. QED
    BY <1>1, <2>1, <2>5, <2>6, <2>7, PollReadsNone, ClosingKeeps
<1>5. CASE ReplySigpipe(p)
  BY <1>5, DiesKeeps DEF ReplySigpipe, SendDies
<1>6. CASE ClosingMsgHandler(p)
  <2> DEFINE k == Position(p)
             S == {users[k].fd, StdinFd}
  <2>1. k \in DOMAIN users /\ users' = RemoveAt(users, k)
    BY <1>6, PositionType DEF ClosingMsgHandler
  <2>2. \A f \in Fd : fds'[f] = IF f \in S THEN "closed" ELSE fds[f]
    BY <1>6 DEF ClosingMsgHandler, Close, Shut
  <2>3. \A i \in DOMAIN users' : Harmless(users'[i].fd)
    BY <1>1, <2>1, RemovedKeeps
  <2>4. S \cap ServerNumbers = {}
    BY <2>1, Numbers DEF IInv, SocketsApart
  <2>5. at' = AtPoll
    BY <1>6 DEF ClosingMsgHandler
  <2> HIDE DEF S
  <2>6. QED
    BY <1>1, <2>2, <2>3, <2>4, <2>5, PollReadsNone, ClosingKeeps
<1>7. QED
  BY <1>2, <1>3, <1>4, <1>5, <1>6 DEF UDPHandler, ReplyMsgHandler

\* accept() returns a number that was free.
LEMMA AcceptKeeps ==
    ASSUME IInv, Accept
    PROVE  IInv'
<1> DEFINE f == LowestFree(fds)
<1>1. TypeOK' /\ fds \in [Fd -> FdUse]
  BY AcceptType DEF IInv, TypeOK
<1>2. f \in Fd /\ fds[f] = "closed"
  BY LowestFreeIsFree DEF Accept
<1>3. Head(backlog).peer \in Peer
  <2>1. backlog \in Seq([peer : Peer, conn : Connection]) /\ backlog /= <<>>
    BY DEF Accept, IInv, TypeOK
  <2>2. Head(backlog) \in [peer : Peer, conn : Connection]
    BY <2>1, HeadTailProperties
  <2>3. QED
    BY <2>2
<1>4. /\ fds' = [fds EXCEPT ![f] = Head(backlog).peer]
      /\ users' = users /\ at'.fd = f
  BY DEF Accept
<1> HIDE DEF f
<1>5. f \notin ServerNumbers
  BY <1>2 DEF IInv, ServerSocketsOpen, ServerNumbers
<1>6. ServerSocketsOpen'
  BY <1>1, <1>4, <1>5, Numbers DEF IInv, ServerSocketsOpen, ServerNumbers
<1>7. SocketsApart'
  BY <1>4, <1>5 DEF IInv, SocketsApart
<1>8. AcceptedIsPeers'
  BY <1>1, <1>2, <1>3, <1>4 DEF AcceptedIsPeers
<1>9. fds'[StdinFd] = "stdin" => fds[StdinFd] = "stdin"
  BY <1>1, <1>3, <1>4, PeersAreNoUses, Numbers
<1>10. KeyboardIsNobodys'
  BY <1>4, <1>9 DEF IInv, KeyboardIsNobodys
<1>11. QED
  BY <1>1, <1>6, <1>7, <1>8, <1>10 DEF IInv

\* A user who gets the socket that accept() returned gets a connection.
LEMMA TCPMessageReceivedKeeps ==
    ASSUME IInv, TCPMessageReceived
    PROVE  IInv'
<1>1. TypeOK'
  BY TCPMessageReceivedType DEF IInv, AcceptedIsPeers
<1>2. CASE FirstRequest
  <2>1. at.fd \in Fd /\ fds[at.fd] \in Peer /\ at.fd \notin ServerNumbers
    BY <1>2 DEF FirstRequest, IInv, AcceptedIsPeers, SocketsApart
  <2>2. /\ DOMAIN users' = DOMAIN users
        /\ \A i \in DOMAIN users : users'[i].fd \in {users[i].fd, at.fd}
    BY <1>2, <2>1, FirstRequestUsers DEF IInv
  <2>3. fds' = fds /\ at' = AtPoll
    BY <1>2 DEF FirstRequest
  <2>4. Harmless(at.fd)
    BY <2>1, <2>3, PeersAreNoUses DEF Harmless
  <2>5. \A i \in DOMAIN users' : Harmless(users'[i].fd)
    BY <2>2, <2>4 DEF Harmless
  <2>6. QED
    BY <1>1, <2>3, <2>5, PollReadsNone, SameTableKeeps
<1>3. CASE FirstRequestCrash
  BY <1>3, DiesKeeps DEF FirstRequestCrash
<1>4. CASE NoRequest
  BY <1>1, <1>4, PollReadsNone, QuietKeeps DEF NoRequest
<1>5. QED
  BY <1>2, <1>3, <1>4 DEF TCPMessageReceived

\* A sender closes at most the number it was given.
LEMMA SendCloses ==
    ASSUME NEW n, NEW f, NEW type, NEW c, Send(n, f, type, c)
    PROVE  \E S \in SUBSET {f} :
             /\ \A g \in Fd : fds'[g] = IF g \in S THEN "closed" ELSE fds[g]
             /\ \A g \in S : g \in Fd => fds[g] \notin Peer \/ conn[g].ended
<1>1. CASE Written(n, f, type, c)
  <2>1. \A g \in Fd : fds'[g] = IF g \in {} THEN "closed" ELSE fds[g]
    BY <1>1 DEF Written
  <2>2. {} \in SUBSET {f}
    OBVIOUS
  <2>3. QED
    BY <2>1, <2>2
<1>2. CASE WriteFailed(f, c)
  <2>1. \A g \in Fd : fds'[g] = IF g \in {f} THEN "closed" ELSE fds[g]
    BY <1>2 DEF WriteFailed, Close
  <2>2. f \in Fd => fds[f] \notin Peer \/ conn[f].ended
    BY <1>2 DEF WriteFailed
  <2>3. QED
    BY <2>1, <2>2
<1>3. QED
  BY <1>1, <1>2 DEF Send

\* A packet to a user's number, or to the one that was read, closes no
\* server socket.
LEMMA SendKeeps ==
    ASSUME IInv, TypeOK', NEW n, NEW f, f \notin ServerNumbers,
           NEW type, NEW c, Send(n, f, type, c),
           \A i \in DOMAIN users' : Harmless(users'[i].fd),
           at' = AtPoll
    PROVE  IInv'
<1>1. PICK S \in SUBSET {f} :
        \A g \in Fd : fds'[g] = IF g \in S THEN "closed" ELSE fds[g]
  BY SendCloses
<1>2. S \cap ServerNumbers = {}
  OBVIOUS
<1>3. QED
  BY <1>1, <1>2, PollReadsNone, ClosingKeeps

\* The socket of a user who is listed is no server socket.
LEMMA SocketOfUser ==
    ASSUME IInv, NEW n \in Peer, Listed(n)
    PROVE  SocketOf(n) \notin ServerNumbers
<1>1. n /= Nobody
  BY SessionAssumption
<1>2. QED
  BY <1>1, PositionType DEF SocketOf, IInv, SocketsApart

\* Whatever is typed keeps the invariant.
LEMMA KeyboardReceivedKeeps ==
    ASSUME IInv, KeyboardReceived
    PROVE  IInv'
<1>1. TypeOK' /\ users \in Seq(Node)
  BY KeyboardReceivedType DEF IInv, TypeOK
<1>2. \A i \in DOMAIN users : Harmless(users[i].fd)
  BY DEF Harmless
<1>3. CASE OtherKeys
  BY <1>1, <1>3, PollReadsNone, QuietKeeps DEF OtherKeys, KeyboardTurn
<1>4. CASE NothingSent
  BY <1>1, <1>4, PollReadsNone, QuietKeeps DEF NothingSent, Return, KeyboardTurn
<1>5. ASSUME NEW b \in BOOLEAN, ChangeStatus(b) PROVE IInv'
  BY <1>1, <1>5, PollReadsNone, QuietKeeps DEF ChangeStatus, Return, KeyboardTurn
<1>6. CASE CommandCrash
  BY <1>6, DiesKeeps DEF CommandCrash
<1>7. ASSUME NEW n \in Peer, NEW type \in PacketType, Typed(n, type),
             \A i \in DOMAIN users' : Harmless(users'[i].fd)
      PROVE  IInv'
  <2>1. SocketOf(n) \notin ServerNumbers /\ at' = AtPoll
    BY <1>7, SocketOfUser DEF Typed, Return, KeyboardTurn
  <2>2. Send(n, SocketOf(n), type, KeysTaken)
    BY <1>7 DEF Typed
  <2>3. QED
    BY <1>1, <1>7, <2>1, <2>2, SendKeeps
<1>8. ASSUME NEW n \in Peer, SendMessage(n) PROVE IInv'
  <2>1. Typed(n, "message") /\ users' = users /\ "message" \in PacketType
    BY <1>8 DEF SendMessage, PacketType
  <2>2. QED
    BY <1>2, <1>7, <2>1
<1>9. ASSUME NEW n \in Peer, SendRequestOrAccept(n) PROVE IInv'
  <2>1. PICK type \in {"request", "accept"} : Typed(n, type)
    BY <1>9 DEF SendRequestOrAccept
  <2>2. users' = users /\ type \in PacketType
    BY <1>9 DEF SendRequestOrAccept, PacketType
  <2>3. QED
    BY <1>2, <1>7, <2>1, <2>2
<1>10. ASSUME NEW n \in Peer, SendDeclineOrDiscontinue(n) PROVE IInv'
  <2>1. PICK type \in {"decline", "discontinue"} : Typed(n, type)
    BY <1>10 DEF SendDeclineOrDiscontinue
  <2>2. users' = WithConnected(n, Disconnected) /\ type \in PacketType
    BY <1>10 DEF SendDeclineOrDiscontinue, PacketType
  <2>3. \A i \in DOMAIN users' : Harmless(users'[i].fd)
    BY <1>1, <1>2, <2>2, WithConnectedType DEF Disconnected
  <2>4. QED
    BY <1>7, <2>1, <2>2, <2>3
<1>11. ASSUME NEW n \in Peer, CommandDies(n) PROVE IInv'
  BY <1>11, DiesKeeps DEF CommandDies, SendDies
<1>12. QED
  BY <1>3, <1>4, <1>5, <1>6, <1>8, <1>9, <1>10, <1>11 DEF KeyboardReceived

\* getUser() finds no server socket.
LEMMA UserReadyKeeps ==
    ASSUME IInv, NEW i \in DOMAIN users, UserReady(i) \/ UserReadyCrash(i)
    PROVE  IInv'
<1>1. TypeOK'
  BY UserReadyType DEF IInv
<1>2. CASE UserReady(i)
  <2>1. PICK n \in GetUser(i) : at' = [step |-> "reading", user |-> n, fd |-> SocketOf(n)]
    BY <1>2 DEF UserReady
  <2>2. SocketOf(n) \notin ServerNumbers
    BY GetUserSocket, Numbers DEF IInv, SocketsApart
  <2>3. QED
    BY <1>1, <1>2, <2>1, <2>2, QuietKeeps DEF UserReady
<1>3. CASE UserReadyCrash(i)
  BY <1>3, DiesKeeps DEF UserReadyCrash
<1>4. QED
  BY <1>2, <1>3

\* The handlers of packets close no server socket.
LEMMA TCPHandlerKeeps ==
    ASSUME IInv, TCPHandler
    PROVE  IInv'
<1>1. TypeOK' /\ users \in Seq(Node) /\ at.fd \notin ServerNumbers
  BY TCPHandlerType DEF IInv, TypeOK, SocketsApart
<1>2. ASSUME NEW value \in {0, 1}, users' = WithConnected(at.user, value)
      PROVE  \A i \in DOMAIN users' : Harmless(users'[i].fd)
  BY <1>1, <1>2, WithConnectedType DEF Harmless
<1>3. CASE RequestMsgHandler
  <2>1. Send(at.user, at.fd, IF away THEN "decline" ELSE "accept", Taken(at.fd))
    BY <1>3 DEF RequestMsgHandler
  <2>2. \A i \in DOMAIN users' : Harmless(users'[i].fd)
    BY <1>2, <1>3 DEF RequestMsgHandler, Disconnected
  <2>3. at' = AtPoll
    BY <1>3 DEF RequestMsgHandler
  <2>4. QED
    BY <1>1, <2>1, <2>2, <2>3, SendKeeps
<1>4. CASE RequestDies
  BY <1>4, DiesKeeps DEF RequestDies, SendDies
<1>5. CASE AcceptMsgHandler
  <2>1. \A i \in DOMAIN users' : Harmless(users'[i].fd)
    BY <1>2, <1>5 DEF AcceptMsgHandler
  <2>2. QED
    BY <1>1, <1>5, <2>1, PollReadsNone, SameTableKeeps DEF AcceptMsgHandler
<1>6. CASE DisconnectMsgHandler
  <2>1. \A i \in DOMAIN users' : Harmless(users'[i].fd)
    BY <1>2, <1>6 DEF DisconnectMsgHandler, Disconnected
  <2>2. fds' = fds
    BY <1>6 DEF DisconnectMsgHandler, DisconnectCloses, Close, IInv, TypeOK
  <2>3. QED
    BY <1>1, <1>6, <2>1, <2>2, PollReadsNone, SameTableKeeps DEF DisconnectMsgHandler
<1>7. CASE MessageMsgHandler
  BY <1>1, <1>7, PollReadsNone, QuietKeeps DEF MessageMsgHandler
<1>8. CASE UnknownPacket
  BY <1>1, <1>8, PollReadsNone, QuietKeeps DEF UnknownPacket
<1>9. QED
  BY <1>3, <1>4, <1>5, <1>6, <1>7, <1>8 DEF TCPHandler

\* Peers have no part in the table or the list.
LEMMA PeersKeep ==
    ASSUME IInv, Peers
    PROVE  IInv'
<1>1. TypeOK'
  BY PeersType DEF IInv
<1>2. fds' = fds /\ users' = users /\ at' = at
  BY DEF Peers, Connect, PeerWritesFirst, PeerClosesFirst, PeerWrites, PeerCloses
<1>3. QED
  BY <1>1, <1>2, QuietKeeps DEF IInv, SocketsApart

\* The invariant is inductive: it holds at first,
LEMMA InitInvariant == Init => IInv
<1> SUFFICES ASSUME Init PROVE IInv
  OBVIOUS
<1>1. ServerSocketsOpen
  BY FreshServerSockets DEF Init, ServerSocketsOpen
<1>2. users = <<>> /\ at.fd = NoFd /\ at.step = "poll"
  BY DEF Init, AtPoll
<1>3. SocketsApart /\ AcceptedIsPeers /\ KeyboardIsNobodys
  BY <1>2, Numbers DEF SocketsApart, AcceptedIsPeers, KeyboardIsNobodys
<1>4. QED
  BY <1>1, <1>3, InitType DEF IInv

\* and every step keeps it.
LEMMA StepInvariant == IInv /\ [Next]_vars => IInv'
<1> SUFFICES ASSUME IInv, [Next]_vars PROVE IInv'
  OBVIOUS
<1>1. ASSUME NEW p \in Peer, UDPHandler(p) PROVE IInv'
  BY <1>1, UDPHandlerKeeps
<1>2. ASSUME NEW i \in DOMAIN users, UserReady(i) \/ UserReadyCrash(i) PROVE IInv'
  BY <1>2, UserReadyKeeps
<1>3. CASE UNCHANGED vars
  <2>1. TypeOK'
    BY TypeStep DEF IInv
  <2>2. fds' = fds /\ users' = users /\ at' = at
    BY <1>3 DEF vars
  <2>3. QED
    BY <2>1, <2>2, QuietKeeps DEF IInv, SocketsApart
<1>4. QED
  BY <1>1, <1>2, <1>3, AcceptKeeps, TCPMessageReceivedKeeps, KeyboardReceivedKeeps,
     TCPHandlerKeeps, PeersKeep DEF Next

-----------------------------------------------------------------------------
(* Which connections are closed                                            *)

\* A sender closes a connection only when write() failed, which it does when
\* the peer is gone.
LEMMA SendClosesNothing ==
    ASSUME NEW n, NEW f, NEW type, NEW c, Send(n, f, type, c)
    PROVE  ClosesNothing
<1>1. PICK S \in SUBSET {f} :
        /\ \A g \in Fd : fds'[g] = IF g \in S THEN "closed" ELSE fds[g]
        /\ \A g \in S : g \in Fd => fds[g] \notin Peer \/ conn[g].ended
  BY SendCloses
<1>2. ASSUME NEW g \in Fd, fds[g] \in Peer, ~conn[g].ended
      PROVE  fds'[g] = fds[g]
  BY <1>1, <1>2
<1>3. QED
  BY <1>2 DEF ClosesNothing

\* A step that leaves the table alone closes nothing, nor does one that
\* ends with the process.
LEMMA SameTableClosesNothing ==
    ASSUME fds' = fds \/ at'.step = "dead"
    PROVE  ClosesNothing
  BY DEF ClosesNothing

\* The process is gone.
LEMMA DiesClosesNothing ==
    ASSUME Dies
    PROVE  ClosesNothing
<1>1. at'.step = "dead"
  BY DEF Dies, AtPoll
<1>2. QED
  BY <1>1, SameTableClosesNothing

\* No step but a datagram's closes the connection of a peer who is there.
LEMMA StepClosesNothing == IInv /\ Next => ClosesNothing
<1> SUFFICES ASSUME IInv, Next PROVE ClosesNothing
  OBVIOUS
<1>1. ASSUME NEW p \in Peer, UDPHandler(p) PROVE ClosesNothing
  BY <1>1 DEF ClosesNothing
<1>2. CASE Accept
  <2>1. fds[LowestFree(fds)] = "closed"
    BY <1>2, LowestFreeIsFree DEF Accept
  <2>2. \A g \in Fd : g /= LowestFree(fds) => fds'[g] = fds[g]
    BY <1>2 DEF Accept, IInv, TypeOK
  <2>3. QED
    BY <2>1, <2>2, PeersAreNoUses DEF ClosesNothing
<1>3. CASE TCPMessageReceived
  BY <1>3, DiesClosesNothing, SameTableClosesNothing
  DEF TCPMessageReceived, FirstRequest, FirstRequestCrash, NoRequest
<1>4. CASE KeyboardReceived
  <2>1. ASSUME NEW n \in Peer, NEW type, Typed(n, type) PROVE ClosesNothing
    BY <2>1, SendClosesNothing DEF Typed
  <2>2. ASSUME NEW n \in Peer, SendMessage(n) \/ SendRequestOrAccept(n)
                                              \/ SendDeclineOrDiscontinue(n)
        PROVE  ClosesNothing
    BY <2>1, <2>2 DEF SendMessage, SendRequestOrAccept, SendDeclineOrDiscontinue
  <2>3. ASSUME NEW n \in Peer, CommandDies(n) PROVE ClosesNothing
    BY <2>3, DiesClosesNothing DEF CommandDies, SendDies
  <2>4. CASE OtherKeys \/ NothingSent \/ \E b \in BOOLEAN : ChangeStatus(b)
    BY <2>4, SameTableClosesNothing DEF OtherKeys, NothingSent, ChangeStatus
  <2>5. CASE CommandCrash
    BY <2>5, DiesClosesNothing DEF CommandCrash
  <2>6. QED
    BY <1>4, <2>2, <2>3, <2>4, <2>5 DEF KeyboardReceived
<1>5. ASSUME NEW i \in DOMAIN users, UserReady(i) \/ UserReadyCrash(i)
      PROVE  ClosesNothing
  BY <1>5, DiesClosesNothing, SameTableClosesNothing DEF UserReady, UserReadyCrash
<1>6. CASE TCPHandler
  <2>1. CASE RequestMsgHandler
    BY <2>1, SendClosesNothing DEF RequestMsgHandler
  <2>2. CASE RequestDies
    BY <2>2, DiesClosesNothing DEF RequestDies, SendDies
  <2>3. CASE DisconnectMsgHandler
    BY <2>3, SameTableClosesNothing
    DEF DisconnectMsgHandler, DisconnectCloses, Close, IInv, TypeOK
  <2>4. CASE AcceptMsgHandler \/ MessageMsgHandler \/ UnknownPacket
    BY <2>4, SameTableClosesNothing DEF AcceptMsgHandler, MessageMsgHandler, UnknownPacket
  <2>5. QED
    BY <1>6, <2>1, <2>2, <2>3, <2>4 DEF TCPHandler
<1>7. CASE Peers
  BY <1>7, SameTableClosesNothing
  DEF Peers, Connect, PeerWritesFirst, PeerClosesFirst, PeerWrites, PeerCloses
<1>8. QED
  BY <1>1, <1>2, <1>3, <1>4, <1>5, <1>6, <1>7 DEF Next

-----------------------------------------------------------------------------
(* Theorems                                                                *)

\* The inductive invariant holds in every state that a client reaches.
THEOREM Invariance == Spec => []IInv
  BY InitInvariant, StepInvariant, PTL DEF Spec

\* Every variable keeps its type, whatever arrives and whatever is typed.
THEOREM TypeCorrect == Spec => []TypeOK
<1>1. IInv => TypeOK
  BY DEF IInv
<1>2. QED
  BY <1>1, Invariance, PTL

\* The UDP and the listening socket are never closed, although destructors,
\* remove() and senders close numbers that are long out of date.
THEOREM ServerSocketsStayOpen == Spec => []ServerSocketsOpen
<1>1. IInv => ServerSocketsOpen
  BY DEF IInv
<1>2. QED
  BY <1>1, Invariance, PTL

\* No user's socket is the keyboard, although every user starts with socket
\* 0, and accept(), socket() and the destructors move that number about.
THEOREM KeyboardStaysNobodys == Spec => []KeyboardIsNobodys
<1>1. IInv => KeyboardIsNobodys
  BY DEF IInv
<1>2. QED
  BY <1>1, Invariance, PTL

\* What peers write and what the user types closes no connection whose peer
\* is there: senders close the number they write to, whosever it is by then,
\* but only when the write fails.
THEOREM TrafficClosesNoConnection == Spec => TrafficClosesNothing
<1>1. IInv /\ [Next]_vars => [ClosesNothing]_vars
  BY StepClosesNothing
<1>2. QED
  BY <1>1, Invariance, PTL DEF Spec, TrafficClosesNothing
=============================================================================
