------------------------------ MODULE Session ------------------------------
(***************************************************************************)
(* One LP2PM_Client and the conversations of its user: the connections     *)
(* that peers open, the packets they send, the commands typed, and the     *)
(* packets that go out.  Discovery shows how users enter and leave the     *)
(* list; here the order of the list, the cursor of getUser() and the       *)
(* numbers of the sockets matter, and the host window, the broadcast       *)
(* timeout and the datagrams on the wire do not: a datagram may arrive at  *)
(* any time.                                                               *)
(*                                                                         *)
(* The peers speak the protocol: REQUEST first, then what they like.  They *)
(* may be silent, and may close their end at any time.  What they write is *)
(* there in order; read() takes all of it.                                 *)
(*                                                                         *)
(* The process is one thread.  It stops in two places, each a read() that  *)
(* waits for a peer: after accept(), and at a user's socket.               *)
(***************************************************************************)
EXTENDS Descriptors, SequencesExt, FiniteSetsExt

CONSTANTS
    Peer,           \* the clients (user@host) it may meet
    HostnameIsIp,   \* HostnameIsIp[p]: p's hostname is its dotted address
    MaxUsers,       \* LP2PM_DEFAULT_MAX_USERS
    Backlog,        \* pending connections listen() keeps
    PeerType,       \* the types of packets the peers send
    MaxPackets      \* bound of the model: packets that wait to be read

PacketType == {"request", "accept", "decline", "message", "data", "discontinue"}

Nobody == "nobody"

ASSUME SessionAssumption ==
    /\ Nobody \notin Peer
    /\ Peer \cap {"closed", "stdin", "udp", "listen", "unset", "freed"} = {}
    /\ HostnameIsIp \in [Peer -> BOOLEAN]
    /\ PeerType \subseteq PacketType
    /\ MaxUsers \in Nat /\ Backlog \in Nat /\ MaxPackets \in Nat

VARIABLES
    users,      \* UserList: the nodes from head to end
    away,       \* user_availability_status is STATUS_AWAY
    cursor,     \* last_index and last_p of getUser()
    fds,        \* the descriptor table; a peer stands for a connection to it
    conn,       \* what has arrived on each connection
    backlog,    \* connections waiting for accept()
    at,         \* where the process is, and the user and descriptor it reads
    out         \* what the last step wrote to a peer or to the message window

vars == <<users, away, cursor, fds, conn, backlog, at, out>>

FdUse == {"closed", "stdin", "udp", "listen"} \cup Peer

Node == [name : Peer, fd : Fd \cup {NoFd}, connected : {0, 1}]

\* in: packets not yet read; ended: the peer has closed its end.
Connection == [in : Seq(PacketType), ended : BOOLEAN]

Place == [step : {"poll", "accepted", "reading", "dead"},
          user : Peer \cup {Nobody}, fd : Fd \cup {NoFd}]

\* user: whose packet the client takes it for; peer: whose connection it is.
Output == [what : PacketType \cup {"shown", "nothing"},
           user : Peer \cup {Nobody}, peer : Peer \cup {Nobody}]

TypeOK ==
    /\ users \in Seq(Node)
    /\ away \in BOOLEAN
    /\ cursor \in [index : Nat, node : Peer \cup {"unset", "freed"}]
    /\ fds \in [Fd -> FdUse]
    /\ conn \in [Fd -> Connection]
    /\ backlog \in Seq([peer : Peer, conn : Connection])
    /\ at \in Place
    /\ out \in Output

Fresh == [in |-> <<>>, ended |-> FALSE]
AtPoll == [step |-> "poll", user |-> Nobody, fd |-> NoFd]
Silence == [what |-> "nothing", user |-> Nobody, peer |-> Nobody]

Init ==
    /\ users = <<>>
    /\ away = FALSE
    /\ cursor = [index |-> 0, node |-> "unset"]
    /\ fds = FreshTable
    /\ conn = [f \in Fd |-> Fresh]
    /\ backlog = <<>>
    /\ at = AtPoll
    /\ out = Silence

\* A signal or a null pointer: the process is gone with all it held.
Dies ==
    /\ users' = <<>>
    /\ away' = FALSE
    /\ cursor' = [index |-> 0, node |-> "unset"]
    /\ fds' = FreshTable
    /\ conn' = [f \in Fd |-> Fresh]
    /\ backlog' = <<>>
    /\ at' = [AtPoll EXCEPT !.step = "dead"]
    /\ out' = Silence

-----------------------------------------------------------------------------
(* The list and its users.                                                 *)

Listed(n) == \E i \in DOMAIN users : users[i].name = n

Position(n) == CHOOSE i \in DOMAIN users : users[i].name = n

\* insert() puts the user in front, or refuses.
Inserted(u) == IF Len(users) >= MaxUsers THEN users ELSE <<u>> \o users

\* A node that was freed is left with TCP_socket = 0 by shutdown().
SocketOf(n) == IF n = Nobody THEN StdinFd ELSE users[Position(n)].fd

\* userConnected(), userDisconnected(): user_connected becomes 1, or 0.
\* Variant: "to -1 (disconnected)" (LP2PM_User.h:83).
MinusOne == -1

Disconnected == 0

WithConnected(n, value) ==
    [i \in DOMAIN users |->
        IF users[i].name = n THEN [users[i] EXCEPT !.connected = value] ELSE users[i]]

\* The descriptors shutdown() closes when a user with socket f is destroyed.
\* Variant: 0 taken to mean that there is no socket.
ShutUnlessZero(f) == {f} \ {StdinFd}

Shut(f) == {f}

\* close() of some descriptors; what waits on them is gone.
Close(S, c) ==
    /\ fds' = [f \in Fd |-> IF f \in S THEN "closed" ELSE fds[f]]
    /\ conn' = [f \in Fd |-> IF f \in S THEN Fresh ELSE c[f]]

-----------------------------------------------------------------------------
(* Packets out: a sender of the client, for user n with socket f.  c is    *)
(* what is left to read.                                                   *)

Written(n, f, type, c) ==
    /\ f \in Fd
    /\ fds[f] \in Peer \cup {"stdin"}
    /\ out' = IF fds[f] \in Peer
              THEN [what |-> type, user |-> n, peer |-> fds[f]] ELSE Silence
    /\ conn' = c
    /\ UNCHANGED fds

\* write() returned an error: the sender closes the number.
WriteFailed(f, c) ==
    /\ f \in Fd => \/ fds[f] \notin Peer \cup {"stdin"}
                   \/ fds[f] \in Peer /\ conn[f].ended
    /\ Close({f}, c)
    /\ out' = Silence

Send(n, f, type, c) == Written(n, f, type, c) \/ WriteFailed(f, c)

\* SIGPIPE, the other outcome at a connection whose peer is gone.
SendDies(f) ==
    /\ f \in Fd
    /\ fds[f] \in Peer /\ conn[f].ended
    /\ Dies

-----------------------------------------------------------------------------
(* Datagrams.                                                              *)

DiscoveryMsgHandler(p) ==
    /\ at = AtPoll
    /\ ~Listed(p)
    /\ users' = Inserted([name |-> p, fd |-> StdinFd, connected |-> Disconnected])
    /\ Close(Shut(StdinFd), conn)
    /\ out' = Silence
    /\ UNCHANGED <<away, cursor, backlog, at>>

\* The socket of establishTCP(); it is closed when the handler returns, and
\* the node keeps the number.
\* Variant: LP2PM_Client::TCP_socket taken for LP2PM_User::TCP_socket.
ReplySocketOfClient(table) == TcpFd

ReplySocket(table) == LowestFree(table)

ReplyArrives(p) == at = AtPoll /\ ~Listed(p)

ReplyConnected(p) ==
    /\ ReplyArrives(p)
    /\ ReplySocket(fds) /= NoFd
    /\ users' = Inserted([name |-> p, fd |-> ReplySocket(fds), connected |-> 1])
    /\ out' = [what |-> "request", user |-> p, peer |-> p]
    /\ UNCHANGED <<away, cursor, fds, conn, backlog, at>>

\* socket() or connect() failed; write() returned an error.
ReplyNotConnected(p) ==
    /\ ReplyArrives(p)
    /\ users' = Inserted([name |-> p, fd |-> ReplySocket(fds), connected |-> Disconnected])
    /\ out' = Silence
    /\ UNCHANGED <<away, cursor, fds, conn, backlog, at>>

\* gethostbyname() failed: the REQUEST goes to descriptor 0, which the
\* destructor closes.
ReplyUnresolved(p) ==
    /\ ReplyArrives(p)
    /\ users' = Inserted([name |-> p, fd |-> StdinFd, connected |-> Disconnected])
    /\ out' = IF fds[StdinFd] \in Peer
              THEN [what |-> "request", user |-> p, peer |-> fds[StdinFd]]
              ELSE Silence
    /\ Close(Shut(StdinFd), conn)
    /\ UNCHANGED <<away, cursor, backlog, at>>

\* SIGPIPE at a socket that is not connected, or at descriptor 0.
ReplySigpipe(p) ==
    \/ ReplyArrives(p) /\ ReplySocket(fds) /= NoFd /\ Dies
    \/ ReplyArrives(p) /\ SendDies(StdinFd)

ReplyMsgHandler(p) ==
    \/ ReplyConnected(p)
    \/ ReplyNotConnected(p)
    \/ ReplyUnresolved(p)
    \/ ReplySigpipe(p)

\* remove() shuts the node down, and its destructor does so again.
ClosingMsgHandler(p) ==
    /\ at = AtPoll
    /\ Listed(p)
    /\ users' = RemoveAt(users, Position(p))
    /\ cursor' = IF cursor.node = p THEN [cursor EXCEPT !.node = "freed"] ELSE cursor
    /\ Close(Shut(users[Position(p)].fd) \cup Shut(StdinFd), conn)
    /\ out' = Silence
    /\ UNCHANGED <<away, backlog, at>>

UDPHandler(p) ==
    \/ DiscoveryMsgHandler(p)
    \/ ReplyMsgHandler(p)
    \/ ClosingMsgHandler(p)

-----------------------------------------------------------------------------
(* TCPMessageReceived().                                                   *)

\* accept().  When it fails, nothing changes and poll() says the same again.
Accept ==
    LET f == LowestFree(fds)
    IN  /\ at = AtPoll
        /\ backlog /= <<>>
        /\ f /= NoFd
        /\ fds' = [fds EXCEPT ![f] = Head(backlog).peer]
        /\ conn' = [conn EXCEPT ![f] = Head(backlog).conn]
        /\ backlog' = Tail(backlog)
        /\ at' = [step |-> "accepted", user |-> Nobody, fd |-> f]
        /\ out' = Silence
        /\ UNCHANGED <<users, away, cursor>>

\* read() would return.
Readable(f) ==
    /\ f \in Fd
    /\ fds[f] \in Peer
    /\ conn[f].in /= <<>> \/ conn[f].ended

\* It returns everything that is there; the client looks at the first packet.
FirstIs(f, types) == conn[f].in /= <<>> /\ Head(conn[f].in) \in types

Taken(f) == [conn EXCEPT ![f].in = <<>>]

Found(p) == Listed(p) /\ HostnameIsIp[p]

\* The node gets the new socket and forgets the one it had.
FirstRequest ==
    LET f == at.fd
        p == fds[f]
    IN  /\ at.step = "accepted"
        /\ FirstIs(f, {"request"})
        /\ Found(p)
        /\ users' = [i \in DOMAIN users |->
                        IF users[i].name = p THEN [users[i] EXCEPT !.fd = f]
                                             ELSE users[i]]
        /\ conn' = Taken(f)
        /\ at' = AtPoll
        /\ out' = Silence
        /\ UNCHANGED <<away, cursor, fds, backlog>>

FirstRequestCrash ==
    /\ at.step = "accepted"
    /\ FirstIs(at.fd, {"request"})
    /\ ~Found(fds[at.fd])
    /\ Dies

\* No packet of type REQUEST: the socket is neither kept nor closed.
NoRequest ==
    /\ at.step = "accepted"
    /\ Readable(at.fd)
    /\ ~FirstIs(at.fd, {"request"})
    /\ conn' = Taken(at.fd)
    /\ at' = AtPoll
    /\ out' = Silence
    /\ UNCHANGED <<users, away, cursor, fds, backlog>>

TCPMessageReceived ==
    \/ FirstRequest
    \/ FirstRequestCrash
    \/ NoRequest

-----------------------------------------------------------------------------
(* keyboardReceived(), looked at when no connection waits.                 *)

KeyboardTurn == at = AtPoll /\ backlog = <<>>

\* What is left when the keys of one packet have been read from descriptor 0.
KeysTaken ==
    IF fds[StdinFd] \in Peer
    THEN [conn EXCEPT ![StdinFd].in = Tail(@)] ELSE conn

\* Return was pressed; or descriptor 0 is a connection, and the packet has a
\* byte 10, which is the type of a DISCONTINUE.
Return ==
    /\ KeyboardTurn
    /\ fds[StdinFd] /= "stdin" => Readable(StdinFd) /\ FirstIs(StdinFd, {"discontinue"})

\* The bytes of another packet, typed into a line.
OtherKeys ==
    /\ KeyboardTurn
    /\ Readable(StdinFd)
    /\ FirstIs(StdinFd, PacketType \ {"discontinue"})
    /\ conn' = KeysTaken
    /\ out' = Silence
    /\ UNCHANGED <<users, away, cursor, fds, backlog, at>>

\* No command, or a message to a user who is not connected.
NothingSent ==
    /\ Return
    /\ conn' = KeysTaken
    /\ out' = Silence
    /\ UNCHANGED <<users, away, cursor, fds, backlog, at>>

ChangeStatus(b) ==
    /\ Return
    /\ away' = b
    /\ conn' = KeysTaken
    /\ out' = Silence
    /\ UNCHANGED <<users, cursor, fds, backlog, at>>

\* A name that is not in the list.  The buffers of getToLine() are not
\* terminated, so a name that is in the list may not be found either.
CommandCrash ==
    /\ Return
    /\ Dies

Typed(n, type) ==
    /\ Return
    /\ Listed(n)
    /\ Send(n, SocketOf(n), type, KeysTaken)
    /\ UNCHANGED <<away, cursor, backlog, at>>

SendMessage(n) ==
    /\ Typed(n, "message")
    /\ users[Position(n)].connected /= 0
    /\ UNCHANGED users

SendRequestOrAccept(n) ==
    /\ \E type \in {"request", "accept"} : Typed(n, type)
    /\ UNCHANGED users

SendDeclineOrDiscontinue(n) ==
    /\ \E type \in {"decline", "discontinue"} : Typed(n, type)
    /\ users' = WithConnected(n, Disconnected)

CommandDies(n) ==
    /\ Return
    /\ Listed(n)
    /\ SendDies(SocketOf(n))

KeyboardReceived ==
    \/ OtherKeys
    \/ NothingSent
    \/ \E b \in BOOLEAN : ChangeStatus(b)
    \/ CommandCrash
    \/ \E n \in Peer : \/ SendMessage(n)
                       \/ SendRequestOrAccept(n)
                       \/ SendDeclineOrDiscontinue(n)
                       \/ CommandDies(n)

-----------------------------------------------------------------------------
(* User sockets: the first user in the list whose socket is ready, when    *)
(* nothing before it is.                                                   *)

\* The users the loop looks at.  Variant: all but the last.
AllButLast == 1..(Len(users) - 1)

Polled == DOMAIN users

FirstReady(i) ==
    /\ KeyboardTurn
    /\ ~Readable(StdinFd)
    /\ i \in Polled
    /\ Readable(users[i].fd)
    /\ \A j \in 1..(i - 1) : ~Readable(users[j].fd)

\* The places getUser(i - 1) may arrive at: 0 when it runs off the end.
Steps(i) ==
    IF cursor.node = "unset" \/ i - 1 < cursor.index THEN i
    ELSE Position(cursor.node) + (i - 1 - cursor.index)

\* From a node that was freed: that node, or whatever is in its place now.
GetUser(i) ==
    IF cursor.node = "freed" /\ i - 1 >= cursor.index
    THEN {Nobody} \cup {users[j].name : j \in DOMAIN users}
    ELSE {users[j].name : j \in DOMAIN users \cap {Steps(i)}}

UserReady(i) ==
    /\ FirstReady(i)
    /\ \E n \in GetUser(i) :
          /\ cursor' = [index |-> i - 1, node |-> IF n = Nobody THEN "freed" ELSE n]
          /\ at' = [step |-> "reading", user |-> n, fd |-> SocketOf(n)]
    /\ out' = Silence
    /\ UNCHANGED <<users, away, fds, conn, backlog>>

\* getUser() returned NULL, or what it found is no user.
UserReadyCrash(i) ==
    /\ FirstReady(i)
    /\ GetUser(i) = {} \/ Nobody \in GetUser(i)
    /\ Dies

-----------------------------------------------------------------------------
(* TCPHandler(): the packet is that of at.user, from at.fd.                *)

Handles(types) ==
    /\ at.step = "reading"
    /\ Readable(at.fd)
    /\ FirstIs(at.fd, types)

RequestMsgHandler ==
    /\ Handles({"request"})
    /\ users' = WithConnected(at.user, IF away THEN Disconnected ELSE 1)
    /\ Send(at.user, at.fd, IF away THEN "decline" ELSE "accept", Taken(at.fd))
    /\ at' = AtPoll
    /\ UNCHANGED <<away, cursor, backlog>>

RequestDies ==
    /\ Handles({"request"})
    /\ SendDies(at.fd)

AcceptMsgHandler ==
    /\ Handles({"accept"})
    /\ users' = WithConnected(at.user, 1)
    /\ conn' = Taken(at.fd)
    /\ at' = AtPoll
    /\ out' = Silence
    /\ UNCHANGED <<away, cursor, fds, backlog>>

\* What declineMsgHandler() and discontinueMsgHandler() close.
\* Variant: the close() that is commented out in both.
DisconnectClosesSocket(f) == {f}

DisconnectCloses(f) == {}

DisconnectMsgHandler ==
    /\ Handles({"decline", "discontinue"})
    /\ users' = WithConnected(at.user, Disconnected)
    /\ Close(DisconnectCloses(at.fd), Taken(at.fd))
    /\ at' = AtPoll
    /\ out' = Silence
    /\ UNCHANGED <<away, cursor, backlog>>

MessageMsgHandler ==
    /\ Handles({"message", "data"})
    /\ conn' = Taken(at.fd)
    /\ at' = AtPoll
    /\ out' = [what |-> "shown", user |-> at.user, peer |-> fds[at.fd]]
    /\ UNCHANGED <<users, away, cursor, fds, backlog>>

\* An error, the end of the connection, or a key: no packet of any type.
\* (read() waits for a connection that is neither readable nor at its end.)
UnknownPacket ==
    /\ at.step = "reading"
    /\ at.fd \in Fd /\ fds[at.fd] \in Peer =>
          conn[at.fd].in = <<>> /\ conn[at.fd].ended
    /\ at' = AtPoll
    /\ out' = Silence
    /\ UNCHANGED <<users, away, cursor, fds, conn, backlog>>

TCPHandler ==
    \/ RequestMsgHandler
    \/ RequestDies
    \/ AcceptMsgHandler
    \/ DisconnectMsgHandler
    \/ MessageMsgHandler
    \/ UnknownPacket

-----------------------------------------------------------------------------
(* Peers.                                                                  *)

Waiting ==
    SumFunction([f \in Fd |-> Len(conn[f].in)])
    + SumFunction([i \in DOMAIN backlog |-> Len(backlog[i].conn.in)])

Connect(p) ==
    /\ at.step /= "dead"
    /\ Len(backlog) < Backlog
    /\ backlog' = Append(backlog, [peer |-> p, conn |-> Fresh])
    /\ out' = Silence
    /\ UNCHANGED <<users, away, cursor, fds, conn, at>>

\* The connection c after its peer has written type, or has closed it.
Arrived(c, type) == [c EXCEPT !.in = Append(@, type)]
Ended(c) == [c EXCEPT !.ended = TRUE]

\* The first packet on a connection is a REQUEST.
PeerWritesFirst(i, type) ==
    /\ Waiting < MaxPackets
    /\ i \in DOMAIN backlog
    /\ ~backlog[i].conn.ended
    /\ backlog[i].conn.in = <<>> => type = "request"
    /\ backlog' = [backlog EXCEPT ![i].conn = Arrived(@, type)]
    /\ out' = Silence
    /\ UNCHANGED <<users, away, cursor, fds, conn, at>>

PeerWrites(f, type) ==
    /\ Waiting < MaxPackets
    /\ fds[f] \in Peer
    /\ ~conn[f].ended
    /\ at.step = "accepted" /\ at.fd = f /\ conn[f].in = <<>> => type = "request"
    /\ conn' = [conn EXCEPT ![f] = Arrived(@, type)]
    /\ out' = Silence
    /\ UNCHANGED <<users, away, cursor, fds, backlog, at>>

PeerClosesFirst(i) ==
    /\ i \in DOMAIN backlog
    /\ ~backlog[i].conn.ended
    /\ backlog' = [backlog EXCEPT ![i].conn = Ended(@)]
    /\ out' = Silence
    /\ UNCHANGED <<users, away, cursor, fds, conn, at>>

PeerCloses(f) ==
    /\ fds[f] \in Peer
    /\ ~conn[f].ended
    /\ conn' = [conn EXCEPT ![f] = Ended(@)]
    /\ out' = Silence
    /\ UNCHANGED <<users, away, cursor, fds, backlog, at>>

Peers ==
    \/ \E p \in Peer : Connect(p)
    \/ \E i \in DOMAIN backlog : \/ \E type \in PeerType : PeerWritesFirst(i, type)
                                 \/ PeerClosesFirst(i)
    \/ \E f \in Fd : \/ \E type \in PeerType : PeerWrites(f, type)
                     \/ PeerCloses(f)

Next ==
    \/ \E p \in Peer : UDPHandler(p)
    \/ Accept
    \/ TCPMessageReceived
    \/ KeyboardReceived
    \/ \E i \in DOMAIN users : UserReady(i) \/ UserReadyCrash(i)
    \/ TCPHandler
    \/ Peers

Spec == Init /\ [][Next]_vars

\* The loop goes on.  Nothing is assumed of the peers: a read() that waits
\* for one may wait for ever.
Fairness ==
    /\ WF_vars(Accept)
    /\ WF_vars(TCPMessageReceived)
    /\ WF_vars(\E i \in DOMAIN users : UserReady(i) \/ UserReadyCrash(i))
    /\ WF_vars(TCPHandler)
    /\ WF_vars(Readable(StdinFd) /\ KeyboardReceived)

FairSpec == Spec /\ Fairness

-----------------------------------------------------------------------------
(* What the code does keep.                                                *)

\* Whatever numbers the destructors and the senders close, the UDP socket and
\* the listening socket stay open, and no user's packets go there.
ServerSocketsOpen ==
    /\ fds[UdpFd] = "udp"
    /\ fds[TcpFd] = "listen"

\* As long as descriptor 0 is the keyboard it is no listed user's socket,
\* although every user starts with TCP_socket = 0: no command, and no answer
\* to a packet, is written to the terminal, and what is typed is never read
\* as a packet.  (replyMsgHandler() may write to it, for a user whose host has
\* no address and who is not yet in the list.)
KeyboardIsNobodys ==
    fds[StdinFd] = "stdin" => \A i \in DOMAIN users : users[i].fd /= StdinFd

\* Packets and commands, whoever they are taken for and whichever number
\* they go to, never close a connection whose peer is still there; only a
\* datagram or the end of the process does.
ClosesNothing ==
    \A f \in Fd : fds[f] \in Peer /\ ~conn[f].ended =>
        \/ fds'[f] = fds[f]
        \/ at'.step = "dead"
        \/ \E p \in Peer : UDPHandler(p)

TrafficClosesNothing == [][ClosesNothing]_vars

-----------------------------------------------------------------------------
(* Why it is kept: the inductive invariant of SessionProofs.               *)

\* The numbers that are read, written and closed.
ServerNumbers == {UdpFd, TcpFd}

SocketsApart ==
    /\ at.fd \notin ServerNumbers
    /\ \A i \in DOMAIN users : users[i].fd \notin ServerNumbers

AcceptedIsPeers ==
    at.step = "accepted" => at.fd \in Fd /\ fds[at.fd] \in Peer

IInv ==
    /\ TypeOK
    /\ ServerSocketsOpen
    /\ SocketsApart
    /\ AcceptedIsPeers
    /\ KeyboardIsNobodys

-----------------------------------------------------------------------------
(* What the comments say and the code does not do.                         *)

\* "Send a Message to known host" (LP2PM_Client.cc:853), and the like above
\* each sender: what is sent to a user goes to that user.
SentToItsUser ==
    out.what \in PacketType => out.peer = out.user

\* f is the socket that p has in the list, and it is p's.
Own(p, f) ==
    /\ fds[f] = p
    /\ \E i \in DOMAIN users : users[i].name = p /\ users[i].fd = f

\* A message is the first thing to read on p's own socket f; or it is there,
\* perhaps behind other packets.
MessageFirst(p, f) == Own(p, f) /\ FirstIs(f, {"message"})
MessageWaits(p, f) == Own(p, f) /\ "message" \in Range(conn[f].in)

\* It is shown, unless user, connection or process end before.
ShownOrGone(p, f) == (out.what = "shown" /\ out.peer = p) \/ ~Own(p, f)

\* The loop gets as far as the users, and getUser() finds p.
LoopReaches(p) ==
    /\ backlog = <<>>
    /\ fds[StdinFd] \notin Peer
    /\ \A i \in DOMAIN users : users[i].name = p => GetUser(i) = {p}

\* No other user's socket is ready.
OthersQuiet(p) ==
    \A i \in DOMAIN users : users[i].name /= p => ~Readable(users[i].fd)

\* "capable of sending and receiving messages from users on the same LAN"
\* (README.md:7), as far as the code goes: a message that is first on its
\* user's socket is shown in the end, if no read() waits for ever, the loop
\* reaches the user, and nobody else is ready in his place.
MessagesAreShown ==
    \A p \in Peer :
        []<>(at = AtPoll) /\ <>[](LoopReaches(p) /\ OthersQuiet(p)) =>
            \A f \in Fd : MessageFirst(p, f) ~> ShownOrGone(p, f)

\* The same of every message that has arrived.  One read() takes all that is
\* there and the handler looks at the first packet.
LaterMessagesAreShown ==
    \A p \in Peer :
        []<>(at = AtPoll) /\ <>[](LoopReaches(p) /\ OthersQuiet(p)) =>
            \A f \in Fd : MessageWaits(p, f) ~> ShownOrGone(p, f)
=============================================================================
