----------------------------- MODULE Discovery -----------------------------
(***************************************************************************)
(* LP2PM_Client seen from the network: how clients on one LAN find each    *)
(* other (Discovery, Reply and Closing datagrams), how the one that gets a *)
(* Reply connects over TCP, and what all this does to the descriptor table *)
(* of the process.                                                         *)
(*                                                                         *)
(* Every client is a single-threaded process around poll(); one handler    *)
(* runs to completion before the next event, so a handler is one action.   *)
(* The datagram network may delay and reorder everything, and lose the     *)
(* types in Lossy.  A client is named by its user@host pair, which never   *)
(* changes; one client runs per host.                                      *)
(*                                                                         *)
(* LP2PM_User has no copy constructor but a destructor that closes its     *)
(* socket, and UserList takes users by value: every handler that builds a  *)
(* user closes the user's descriptor on the way out.  Descriptor numbers   *)
(* are reused by the kernel, lowest first, so the table is part of the     *)
(* state.                                                                  *)
(***************************************************************************)
EXTENDS Descriptors, Sequences, FiniteSets

CONSTANTS
    Client,         \* the clients (user@host) that may run on the LAN
    UdpPort,        \* UdpPort[c], TcpPort[c]: the ports c is configured with
    TcpPort,
    HostnameIsIp,   \* HostnameIsIp[c]: c's hostname is its dotted address
    MaxUsers,       \* LP2PM_DEFAULT_MAX_USERS
    InitTimeout,    \* init_broadcast_timeout
    MaxTimeout,     \* max_broadcast_timeout
    Backlog,        \* pending connections listen() keeps
    MaxLines,       \* bound of the model: lines of the host window per peer
    Lossy,          \* types of datagrams the network may lose
    Faults          \* what else may go wrong: a subset of Fault

Fault == {"kill", "pollerror", "unresolved"}

MsgType == {"discovery", "reply", "closing"}

ASSUME ConfigAssumption ==
    /\ UdpPort \in [Client -> Nat]
    /\ TcpPort \in [Client -> Nat]
    /\ HostnameIsIp \in [Client -> BOOLEAN]
    /\ InitTimeout \in Nat \ {0}
    /\ MaxTimeout \in Nat /\ InitTimeout <= MaxTimeout
    /\ Lossy \subseteq MsgType
    /\ Faults \subseteq Fault

ASSUME BoundAssumption ==
    /\ MaxUsers \in Nat
    /\ Backlog \in Nat
    /\ MaxLines \in Nat

\* What a descriptor refers to; a client is the peer of a connection.
FdUse == {"closed", "stdin", "udp", "listen"} \cup Client

-----------------------------------------------------------------------------
VARIABLES
    running,    \* running[c]: the process of c is up
    users,      \* users[c]: the nodes of c's UserList (order left out)
    hosts,      \* hosts[c][d]: lines of c's host window that show d
    timeout,    \* timeout[c]: current_broadcast_timeout
    fds,        \* fds[c]: the descriptor table of c's process
    backlog,    \* backlog[c]: connections waiting for accept() at c
    net         \* datagrams in flight

vars == <<running, users, hosts, timeout, fds, backlog, net>>

User == [name : Client, udp : Nat, tcp : Nat,
         fd : Fd \cup {NoFd}, connected : BOOLEAN]

\* "request": the REQUEST packet is there to be read; "eof": the peer died
\* after connect() and before write().
Connection == [from : Client, data : {"request", "eof"}]

Datagram == [type : MsgType, from : Client, to : Client]

TypeOK ==
    /\ running \in [Client -> BOOLEAN]
    /\ users \in [Client -> SUBSET User]
    /\ hosts \in [Client -> [Client -> 0..MaxLines]]
    /\ timeout \in [Client -> InitTimeout..MaxTimeout]
    /\ fds \in [Client -> [Fd -> FdUse]]
    /\ backlog \in [Client -> Seq(Connection)]
    /\ net \in SUBSET Datagram

NoLines == [d \in Client |-> 0]

Init ==
    /\ running = [c \in Client |-> FALSE]
    /\ users = [c \in Client |-> {}]
    /\ hosts = [c \in Client |-> NoLines]
    /\ timeout = [c \in Client |-> InitTimeout]
    /\ fds = [c \in Client |-> FreshTable]
    /\ backlog = [c \in Client |-> <<>>]
    /\ net = {}

-----------------------------------------------------------------------------
(* UserList and LP2PM_User, as the handlers use them.                      *)

\* Variant: retrieve() that overlooks who is not connected.
ListedConnected(c, d) == \E u \in users[c] : u.name = d /\ u.connected

\* retrieve()
Listed(c, d) == \E u \in users[c] : u.name = d

\* Variants: a timeout does not ask whether there are users; isEmpty() returns
\* head instead of !head.
NotAsked(c) == TRUE

HasHead(c) == users[c] /= {}

\* isEmpty()
IsEmpty(c) == users[c] = {}

\* LP2PM_User() followed by init(): setUDPPort() stores into TCP_port and
\* setTCPPort() into UDP_port; TCP_socket starts as 0.
NewUser(d) ==
    [name |-> d, udp |-> TcpPort[d], tcp |-> UdpPort[d],
     fd |-> StdinFd, connected |-> FALSE]

\* insert() refuses a user when the list is full; no caller looks.
InsertUser(list, u) ==
    IF Cardinality(list) >= MaxUsers THEN list ELSE list \cup {u}

\* Variant: no filter.
HostIsNeverMe(c, d) == FALSE

\* hostIsMe()
HostIsMe(c, d) == c = d

(* Datagrams: a broadcast goes to the sender's own UDP port on every host, *)
(* the sender's included; a unicast reaches the client that listens there. *)

Broadcast(c, type) ==
    {[type |-> type, from |-> c, to |-> d] :
        d \in {e \in Client : UdpPort[e] = UdpPort[c]}}

ReplyTo(c, u) ==
    IF u.udp = UdpPort[u.name]
    THEN {[type |-> "reply", from |-> c, to |-> u.name]}
    ELSE {}

\* gethostbyname() may fail for a host seen on the network.
Resolution == IF "unresolved" \in Faults THEN BOOLEAN ELSE {TRUE}

\* The process is gone, and with it everything it held.
Gone(c) ==
    /\ running' = [running EXCEPT ![c] = FALSE]
    /\ users' = [users EXCEPT ![c] = {}]
    /\ hosts' = [hosts EXCEPT ![c] = NoLines]
    /\ timeout' = [timeout EXCEPT ![c] = InitTimeout]
    /\ fds' = [fds EXCEPT ![c] = FreshTable]

\* The broadcast timeout: doubled up to the maximum by a timeout, set back
\* when the last user leaves.  Variants: no maximum, no reset.
DoubledWithoutMaximum(t) == 2 * t

Doubled(t) == IF 2 * t > MaxTimeout THEN MaxTimeout ELSE 2 * t

TimeoutNotReset(list, t) == t

TimeoutAfterRemoval(list, t) == IF list = {} THEN InitTimeout ELSE t

\* The host window: remove() takes out one matching line, if there is one.
\* Variant: the display is not told.
HostKept(lines) == lines

HostRemoved(lines) == IF lines > 0 THEN lines - 1 ELSE 0

-----------------------------------------------------------------------------
(* The process: start, poll() timing out or failing, death.                *)

\* init() and start(): the state of a client that is not running is fresh.
Start(c) ==
    /\ ~running[c]
    /\ running' = [running EXCEPT ![c] = TRUE]
    /\ UNCHANGED <<users, hosts, timeout, fds, backlog, net>>

\* poll() returns 0 after current_broadcast_timeout; with users in the list
\* that changes nothing.  It never does so when descriptor 0 is closed
\* (POLLNVAL) or taken by a connection at its end (always readable).
Timeout(c) ==
    /\ running[c]
    /\ IsEmpty(c)
    /\ fds[c][StdinFd] = "stdin"
    /\ backlog[c] = <<>>
    /\ net' = net \cup Broadcast(c, "discovery")
    /\ timeout' = [timeout EXCEPT ![c] = Doubled(@)]
    /\ UNCHANGED <<running, users, hosts, fds, backlog>>

\* poll() returns -1 (a signal: the window was resized): listenForAction()
\* returns and start() says goodbye.
PollError(c) ==
    /\ "pollerror" \in Faults
    /\ running[c]
    /\ net' = net \cup Broadcast(c, "closing")
    /\ backlog' = [backlog EXCEPT ![c] = <<>>]
    /\ Gone(c)

\* SIGINT, SIGTERM, a crash elsewhere: no Closing message.
Kill(c) ==
    /\ "kill" \in Faults
    /\ running[c]
    /\ backlog' = [backlog EXCEPT ![c] = <<>>]
    /\ Gone(c)
    /\ UNCHANGED net

-----------------------------------------------------------------------------
(* UDPMessageReceived(): m.to takes m from its UDP socket.                 *)

Receives(m, type) ==
    /\ m \in net
    /\ m.type = type
    /\ running[m.to]
    /\ net' = net \ {m}

OwnBroadcast(m) ==
    /\ \E type \in {"discovery", "closing"} : Receives(m, type)
    /\ HostIsMe(m.to, m.from)
    /\ UNCHANGED <<running, users, hosts, timeout, fds, backlog>>

\* A Discovery or Reply of a user that is in the list, a Closing of one that
\* is not: the handler returns early.
NothingToDo(m) ==
    /\ \/ /\ \E type \in {"discovery", "reply"} : Receives(m, type)
          /\ Listed(m.to, m.from)
       \/ /\ Receives(m, "closing")
          /\ ~Listed(m.to, m.from)
    /\ m.type /= "reply" => ~HostIsMe(m.to, m.from)
    /\ UNCHANGED <<running, users, hosts, timeout, fds, backlog>>

\* The new user leaves with TCP_socket = 0, and its destructor closes that.
DiscoveryMsgHandler(m) ==
    LET c == m.to
        u == NewUser(m.from)
    IN  /\ m \in net /\ m.type = "discovery" /\ running[c]
        /\ ~HostIsMe(c, m.from)
        /\ ~Listed(c, m.from)
        /\ hosts[c][m.from] < MaxLines
        /\ \E resolved \in Resolution :
              net' = (net \ {m}) \cup (IF resolved THEN ReplyTo(c, u) ELSE {})
        /\ users' = [users EXCEPT ![c] = InsertUser(@, u)]
        /\ fds' = [fds EXCEPT ![c] = CloseFd(@, u.fd)]
        /\ hosts' = [hosts EXCEPT ![c][m.from] = @ + 1]
        /\ UNCHANGED <<running, timeout, backlog>>

\* The three sockets of establishTCP(): connected, not connected, and none
\* because the name did not resolve.  Whichever it is, the node keeps the
\* number and the destructor closes the descriptor.
\* Variant: LP2PM_Client::TCP_socket taken for LP2PM_User::TCP_socket.
ReplySocketOfClient(c) == TcpFd

ReplySocket(c) == LowestFree(fds[c])

CanConnect(c, d) ==
    /\ ReplySocket(c) /= NoFd
    /\ running[d]
    /\ NewUser(d).tcp = TcpPort[d]
    /\ Len(backlog[d]) < Backlog

ReplyFromUnlisted(m) ==
    /\ Receives(m, "reply")
    /\ ~Listed(m.to, m.from)

ReplyConnected(m) ==
    LET c == m.to
        d == m.from
        u == [NewUser(d) EXCEPT !.fd = ReplySocket(c), !.connected = TRUE]
    IN  /\ ReplyFromUnlisted(m)
        /\ CanConnect(c, d)
        /\ users' = [users EXCEPT ![c] = InsertUser(@, u)]
        /\ backlog' = [backlog EXCEPT ![d] =
                          Append(@, [from |-> c, data |-> "request"])]
        /\ UNCHANGED <<running, hosts, timeout, fds>>

\* connect() or socket() failed, and write() only returned an error.
ReplyNotConnected(m) ==
    LET c == m.to
        u == [NewUser(m.from) EXCEPT !.fd = ReplySocket(c)]
    IN  /\ ReplyFromUnlisted(m)
        /\ ~CanConnect(c, m.from)
        /\ users' = [users EXCEPT ![c] = InsertUser(@, u)]
        /\ UNCHANGED <<running, hosts, timeout, fds, backlog>>

\* TCP_socket stays 0: the REQUEST is written to descriptor 0.
ReplyUnresolved(m) ==
    LET c == m.to
        u == NewUser(m.from)
    IN  /\ "unresolved" \in Faults
        /\ ReplyFromUnlisted(m)
        /\ users' = [users EXCEPT ![c] = InsertUser(@, u)]
        /\ fds' = [fds EXCEPT ![c] = CloseFd(@, u.fd)]
        /\ UNCHANGED <<running, hosts, timeout, backlog>>

\* SIGPIPE, the other outcome of write() on a socket that is not connected
\* or whose peer is gone.
ReplySigpipe(m) ==
    LET c == m.to
    IN  /\ ReplyFromUnlisted(m)
        /\ \/ ReplySocket(c) /= NoFd /\ ~CanConnect(c, m.from)
           \/ "unresolved" \in Faults /\ fds[c][StdinFd] \in Client
        /\ backlog' = [backlog EXCEPT ![c] = <<>>]
        /\ Gone(c)

\* Killed after connect() and before write().
ReplyKilled(m) ==
    LET c == m.to
        d == m.from
    IN  /\ "kill" \in Faults
        /\ ReplyFromUnlisted(m)
        /\ CanConnect(c, d)
        /\ backlog' = [backlog EXCEPT
                          ![d] = Append(@, [from |-> c, data |-> "eof"]),
                          ![c] = <<>>]
        /\ Gone(c)

ReplyMsgHandler(m) ==
    \/ ReplyConnected(m)
    \/ ReplyNotConnected(m)
    \/ ReplyUnresolved(m)
    \/ ReplySigpipe(m)
    \/ ReplyKilled(m)

\* remove() shuts the node down, which closes its TCP_socket and makes it 0;
\* then the node's destructor shuts it down again, which closes 0.
ClosingMsgHandler(m) ==
    LET c == m.to
    IN  /\ Receives(m, "closing")
        /\ ~HostIsMe(c, m.from)
        /\ \E u \in users[c] :
              /\ u.name = m.from
              /\ users' = [users EXCEPT ![c] = @ \ {u}]
              /\ fds' = [fds EXCEPT ![c] = CloseFd(CloseFd(@, u.fd), StdinFd)]
              /\ timeout' = [timeout EXCEPT ![c] =
                                TimeoutAfterRemoval(users[c] \ {u}, @)]
        /\ hosts' = [hosts EXCEPT ![c][m.from] = HostRemoved(@)]
        /\ UNCHANGED <<running, backlog>>

Receive(m) ==
    \/ OwnBroadcast(m)
    \/ NothingToDo(m)
    \/ DiscoveryMsgHandler(m)
    \/ ReplyMsgHandler(m)
    \/ ClosingMsgHandler(m)

-----------------------------------------------------------------------------
(* TCPMessageReceived(): accept() the first pending connection and read    *)
(* its packet, in one handler.                                             *)

Accepted(c) == LowestFree(fds[c])

Accepts(c, data) ==
    /\ running[c]
    /\ backlog[c] /= <<>>
    /\ Head(backlog[c]).data = data
    /\ Accepted(c) /= NoFd

\* retrieve() is asked for a host named like the peer's dotted address.
Found(c, d) == Listed(c, d) /\ HostnameIsIp[d]

\* The node forgets the descriptor it had; the packet is not dispatched.
AcceptRequest(c) ==
    LET d == Head(backlog[c]).from
    IN  /\ Accepts(c, "request")
        /\ Found(c, d)
        /\ users' = [users EXCEPT ![c] =
                        {IF u.name = d THEN [u EXCEPT !.fd = Accepted(c)] ELSE u :
                            u \in @}]
        /\ fds' = [fds EXCEPT ![c][Accepted(c)] = d]
        /\ backlog' = [backlog EXCEPT ![c] = Tail(@)]
        /\ UNCHANGED <<running, hosts, timeout, net>>

\* retrieve() found nobody: the assignment goes through a null pointer.
AcceptCrash(c) ==
    /\ Accepts(c, "request")
    /\ ~Found(c, Head(backlog[c]).from)
    /\ backlog' = [backlog EXCEPT ![c] = <<>>]
    /\ Gone(c)
    /\ UNCHANGED net

\* No packet of type REQUEST: the socket is neither kept nor closed.
AcceptNoRequest(c) ==
    /\ Accepts(c, "eof")
    /\ fds' = [fds EXCEPT ![c][Accepted(c)] = Head(backlog[c]).from]
    /\ backlog' = [backlog EXCEPT ![c] = Tail(@)]
    /\ UNCHANGED <<running, users, hosts, timeout, net>>

TCPMessageReceived(c) ==
    \/ AcceptRequest(c)
    \/ AcceptCrash(c)
    \/ AcceptNoRequest(c)

-----------------------------------------------------------------------------
(* The datagram network.                                                   *)

Lose(m) ==
    /\ m \in net
    /\ m.type \in Lossy
    /\ net' = net \ {m}
    /\ UNCHANGED <<running, users, hosts, timeout, fds, backlog>>

\* Nobody listens at the port.
Undeliverable(m) ==
    /\ m \in net
    /\ ~running[m.to]
    /\ net' = net \ {m}
    /\ UNCHANGED <<running, users, hosts, timeout, fds, backlog>>

Next ==
    \/ \E c \in Client : \/ Start(c)
                         \/ Timeout(c)
                         \/ PollError(c)
                         \/ Kill(c)
                         \/ TCPMessageReceived(c)
    \/ \E m \in net : \/ Receive(m)
                      \/ Lose(m)
                      \/ Undeliverable(m)

Spec == Init /\ [][Next]_vars

\* poll() is called again after every handler, so what is ready is handled;
\* clients that are down are started again; a datagram that is sent over and
\* over is received in the end.
Fairness ==
    /\ \A c \in Client : /\ WF_vars(Start(c))
                         /\ WF_vars(Timeout(c))
                         /\ WF_vars(TCPMessageReceived(c))
    /\ \A m \in Datagram : IF m.type \in Lossy THEN SF_vars(Receive(m))
                                               ELSE WF_vars(Receive(m))

FairSpec == Spec /\ Fairness

-----------------------------------------------------------------------------
(* What the code does keep.                                                *)

\* However many descriptors the destructors close (0 and whatever number a
\* node holds), the UDP socket and the listening socket that
\* establishUDPserver() and establishTCPserver() opened are never hit.
ServerSocketsOpen ==
    \A c \in Client : running[c] => /\ fds[c][UdpFd] = "udp"
                                    /\ fds[c][TcpFd] = "listen"

\* A client is never in its own list, although its UDP socket receives every
\* broadcast it sends: hostIsMe() filters Discovery and Closing, and nobody
\* sends a Reply that it would have to filter.
NeverListsSelf ==
    \A c \in Client : ~Listed(c, c)

\* One node per user@host, whatever crosses on the wire: remove() takes out
\* one node only, so a second one would outlive the user's Closing.
NoDuplicateUsers ==
    \A c \in Client : \A u, v \in users[c] : u.name = v.name => u = v

\* The list of a client has room for all the others.
RoomForAll == IsFiniteSet(Client) /\ Cardinality(Client) <= MaxUsers + 1

\* As long as the list has room for everybody, the host window shows nobody
\* who is not in the list, and nobody twice: discoveryMsgHandler() and
\* closingMsgHandler() keep the two in step.
DisplayedHostsAreListed ==
    RoomForAll =>
        \A c, d \in Client : hosts[c][d] <= (IF Listed(c, d) THEN 1 ELSE 0)

\* closingMsgHandler() undoes the back-off exactly when the last user leaves;
\* nothing else that happens to a running client shortens its timeout, so a
\* search that goes on never speeds up.
BackoffStep(c) ==
    running[c] /\ running'[c] =>
        IF users[c] /= {} /\ users'[c] = {}
        THEN timeout'[c] = InitTimeout
        ELSE timeout'[c] >= timeout[c]

BackoffRestartsWithSearch == [][\A c \in Client : BackoffStep(c)]_vars

\* Seen as who is up, who knows whom and which words are in flight, the
\* clients behave as Presence says, whatever the network does: no handler
\* touches the list of another client; a client that lists somebody does not
\* broadcast; a Discovery or Reply adds its sender and nobody else, if there is
\* room; a Discovery is answered once, and not at all when its sender is listed
\* already (their datagrams may have crossed); a Reply is never answered; a user
\* leaves a list by his own Closing only.
Known(c) == {u.name : u \in users[c]}

P == INSTANCE Presence WITH up <- running, knows <- [c \in Client |-> Known(c)],
                            words <- net, Room <- MaxUsers

ImplementsPresence == P!Spec

\* "It currently uses local network broadcasts to discover other users on the
\* same network" (README.md:7).  With the default ports a Reply never arrives
\* (setUDPPort() and setTCPPort() store them the wrong way round), so that
\* clients need not find each other; but nobody stays alone.  Each comes to know
\* another client or to be known by one, for good, although any Discovery may be
\* lost, clients start in any order, and each stops searching when it knows
\* somebody: who is not heard goes on.
NobodyStaysAlone ==
    <>[](\A c \in Client : \E d \in Client \ {c} : Listed(c, d) \/ Listed(d, c))

-----------------------------------------------------------------------------
(* The inductive invariant behind the safety properties.                   *)

\* No node holds the number of a server socket, so no destructor closes one.
SocketsApart ==
    \A c \in Client : /\ fds[c][UdpFd] = "udp"
                      /\ fds[c][TcpFd] = "listen"
                      /\ \A u \in users[c] : u.fd \notin {UdpFd, TcpFd}

\* The filter of UDPMessageReceived() lets every Reply through.
RepliesFromOthers ==
    \A m \in net : m.type = "reply" => m.from /= m.to

ListsAreFinite == \A c \in Client : IsFiniteSet(users[c])

IInv ==
    /\ TypeOK
    /\ ListsAreFinite
    /\ SocketsApart
    /\ RepliesFromOthers
    /\ NeverListsSelf
    /\ NoDuplicateUsers

-----------------------------------------------------------------------------
(* What the comments say and the code does not do.                         *)

\* "Standard Input" (LP2PM_Client.cc:168): what the loop polls as the keyboard
\* is standard input.
KeyboardIsPolled ==
    \A c \in Client : running[c] => fds[c][StdinFd] = "stdin"
=============================================================================
