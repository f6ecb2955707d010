-------------------------- MODULE DiscoveryProofs --------------------------
(***************************************************************************)
(* Proofs about Discovery for every set of clients, every configuration    *)
(* and every choice of faults.                                             *)
(***************************************************************************)
EXTENDS Discovery, DescriptorProofs, FiniteSetTheorems, FunctionTheorems

-----------------------------------------------------------------------------
(* Descriptors                                                             *)

\* The table of a process that has just run init() is a table.
LEMMA FreshTableType == FreshTable \in [Fd -> FdUse]
  BY DEF FreshTable, FdUse

\* close() makes a table out of a table, whatever number it is given.
LEMMA CloseFdType ==
    ASSUME NEW table \in [Fd -> FdUse], NEW f
    PROVE  CloseFd(table, f) \in [Fd -> FdUse]
  BY DEF CloseFd, FdUse

-----------------------------------------------------------------------------
(* Users and datagrams                                                     *)

\* init() fills in every field of a user.
LEMMA NewUserType ==
    ASSUME NEW d \in Client
    PROVE  NewUser(d) \in User
  BY ConfigAssumption DEF NewUser, User, Fd

\* So does establishTCP(), whether or not it got a socket.
LEMMA ReplyUserType ==
    ASSUME NEW d \in Client, NEW table, NEW b \in BOOLEAN
    PROVE  [NewUser(d) EXCEPT !.fd = LowestFree(table), !.connected = b] \in User
<1>1. LowestFree(table) \in Fd \cup {NoFd}
  BY LowestFreeIsFree
<1>2. QED
  BY <1>1, ConfigAssumption DEF NewUser, User

\* What a broadcast and a Reply put on the wire.
LEMMA BroadcastType ==
    ASSUME NEW c \in Client, NEW type \in MsgType
    PROVE  Broadcast(c, type) \subseteq Datagram
  BY DEF Broadcast, Datagram

\* sendReplyMsg() puts datagrams on the network.
LEMMA ReplyToType ==
    ASSUME NEW c \in Client, NEW u \in User
    PROVE  ReplyTo(c, u) \subseteq Datagram
  BY DEF ReplyTo, Datagram, User, MsgType

\* A client that is gone is back in the state of one that never ran.
LEMMA GoneType ==
    ASSUME TypeOK, NEW c \in Client, Gone(c)
    PROVE  /\ running' \in [Client -> BOOLEAN]
           /\ users' \in [Client -> SUBSET User]
           /\ hosts' \in [Client -> [Client -> 0..MaxLines]]
           /\ timeout' \in [Client -> InitTimeout..MaxTimeout]
           /\ fds' \in [Client -> [Fd -> FdUse]]
<1>1. NoLines \in [Client -> 0..MaxLines]
  BY BoundAssumption DEF NoLines
<1>2. InitTimeout \in InitTimeout..MaxTimeout
  BY ConfigAssumption
<1>3. QED
  BY <1>1, <1>2, FreshTableType DEF Gone, TypeOK

\* insert() keeps a list a list, full or not.
LEMMA InsertUserType ==
    ASSUME NEW list \in SUBSET User, NEW u \in User
    PROVE  InsertUser(list, u) \in SUBSET User
  BY DEF InsertUser

-----------------------------------------------------------------------------
(* Every variable keeps its type.                                          *)

\* Init is well typed.
LEMMA TypeInit == Init => TypeOK
<1> SUFFICES ASSUME Init PROVE TypeOK
  OBVIOUS
<1>1. NoLines \in [Client -> 0..MaxLines]
  BY BoundAssumption DEF NoLines
<1>2. InitTimeout \in InitTimeout..MaxTimeout
  BY ConfigAssumption
<1>3. <<>> \in Seq(Connection)
  OBVIOUS
<1>4. QED
  BY <1>1, <1>2, <1>3, FreshTableType DEF Init, TypeOK

\* Every action of Next assigns values of the right type.
LEMMA TypeStep == TypeOK /\ [Next]_vars => TypeOK'
<1> SUFFICES ASSUME TypeOK, [Next]_vars PROVE TypeOK'
  OBVIOUS
<1>1. ASSUME NEW c \in Client, Start(c) PROVE TypeOK'
  BY <1>1 DEF Start, TypeOK
<1>2. ASSUME NEW c \in Client, Timeout(c) PROVE TypeOK'
  <2>1. \A t \in InitTimeout..MaxTimeout : Doubled(t) \in InitTimeout..MaxTimeout
    BY ConfigAssumption DEF Doubled
  <2>2. timeout' \in [Client -> InitTimeout..MaxTimeout]
    BY <1>2, <2>1 DEF Timeout, TypeOK
  <2>3. net' \in SUBSET Datagram
    BY <1>2, BroadcastType DEF Timeout, TypeOK, MsgType
  <2>4. QED
    BY <1>2, <2>2, <2>3 DEF Timeout, TypeOK
<1>3. ASSUME NEW c \in Client, PollError(c) PROVE TypeOK'
  <2>1. net' \in SUBSET Datagram
    BY <1>3, BroadcastType DEF PollError, TypeOK, MsgType
  <2>2. backlog' \in [Client -> Seq(Connection)]
    BY <1>3 DEF PollError, TypeOK
  <2>3. QED
    BY <1>3, <2>1, <2>2, GoneType DEF PollError, TypeOK
<1>4. ASSUME NEW c \in Client, Kill(c) PROVE TypeOK'
  <2>1. backlog' \in [Client -> Seq(Connection)] /\ net' \in SUBSET Datagram
    BY <1>4 DEF Kill, TypeOK
  <2>2. QED
    BY <1>4, <2>1, GoneType DEF Kill, TypeOK
<1>5. ASSUME NEW c \in Client, TCPMessageReceived(c) PROVE TypeOK'
  <2> DEFINE d == Head(backlog[c]).from
  <2>1. Accepts(c, "request") \/ Accepts(c, "eof")
    BY <1>5 DEF TCPMessageReceived, AcceptRequest, AcceptCrash, AcceptNoRequest
  <2>2. /\ d \in Client
        /\ Tail(backlog[c]) \in Seq(Connection)
    <3>1. backlog[c] \in Seq(Connection) /\ backlog[c] /= <<>>
      BY <2>1 DEF TypeOK, Accepts
    <3>2. Head(backlog[c]) \in Connection /\ Tail(backlog[c]) \in Seq(Connection)
      BY <3>1
    <3>3. QED
      BY <3>2 DEF Connection
  <2>3. Accepted(c) \in Fd
    BY <2>1, LowestFreeIsFree DEF Accepts, Accepted
  <2>4. CASE AcceptRequest(c)
    <3>1. \A u \in users[c] : [u EXCEPT !.fd = Accepted(c)] \in User
      <4>1. \A u \in User : [u EXCEPT !.fd = Accepted(c)] \in User
        BY <2>3 DEF User
      <4>2. QED
        BY <4>1 DEF TypeOK
    <3>2. users' \in [Client -> SUBSET User]
      BY <2>4, <3>1 DEF AcceptRequest, TypeOK
    <3>3. fds' \in [Client -> [Fd -> FdUse]]
      BY <2>4, <2>2, <2>3 DEF AcceptRequest, TypeOK, FdUse
    <3>4. backlog' \in [Client -> Seq(Connection)]
      BY <2>4, <2>2 DEF AcceptRequest, TypeOK
    <3>5. QED
      BY <2>4, <3>2, <3>3, <3>4 DEF AcceptRequest, TypeOK
  <2>5. CASE AcceptCrash(c)
    <3>1. backlog' \in [Client -> Seq(Connection)] /\ net' \in SUBSET Datagram
      BY <2>5 DEF AcceptCrash, TypeOK
    <3>2. QED
      BY <2>5, <3>1, GoneType DEF AcceptCrash, TypeOK
  <2>6. CASE AcceptNoRequest(c)
    <3>1. fds' \in [Client -> [Fd -> FdUse]]
      BY <2>6, <2>2, <2>3 DEF AcceptNoRequest, TypeOK, FdUse
    <3>2. backlog' \in [Client -> Seq(Connection)]
      BY <2>6, <2>2 DEF AcceptNoRequest, TypeOK
    <3>3. QED
      BY <2>6, <3>1, <3>2 DEF AcceptNoRequest, TypeOK
  <2>7. QED
    BY <1>5, <2>4, <2>5, <2>6 DEF TCPMessageReceived
<1>6. ASSUME NEW m \in net, Receive(m) PROVE TypeOK'
  <2>1. m \in Datagram /\ m.from \in Client /\ m.to \in Client
    BY DEF TypeOK, Datagram
  <2>2. CASE OwnBroadcast(m) \/ NothingToDo(m)
    BY <2>2 DEF OwnBroadcast, NothingToDo, Receives, TypeOK
  <2>3. CASE DiscoveryMsgHandler(m)
    <3>1. NewUser(m.from) \in User
      BY <2>1, NewUserType
    <3>2. net' \in SUBSET Datagram
      BY <2>3, <2>1, <3>1, ReplyToType DEF DiscoveryMsgHandler, TypeOK
    <3>3. users' \in [Client -> SUBSET User]
      BY <2>3, <2>1, <3>1, InsertUserType DEF DiscoveryMsgHandler, TypeOK
    <3>4. fds' \in [Client -> [Fd -> FdUse]]
      BY <2>3, <2>1, CloseFdType DEF DiscoveryMsgHandler, TypeOK
    <3>5. hosts' \in [Client -> [Client -> 0..MaxLines]]
      <4>1. hosts[m.to][m.from] + 1 \in 0..MaxLines
        BY <2>3, <2>1, BoundAssumption DEF DiscoveryMsgHandler, TypeOK
      <4>2. QED
        BY <2>3, <2>1, <4>1 DEF DiscoveryMsgHandler, TypeOK
    <3>6. QED
      BY <2>3, <3>2, <3>3, <3>4, <3>5 DEF DiscoveryMsgHandler, TypeOK
  <2>4. CASE ReplyMsgHandler(m)
    <3>1. net' \in SUBSET Datagram
      BY <2>4 DEF ReplyMsgHandler, ReplyConnected, ReplyNotConnected,
           ReplyUnresolved, ReplySigpipe, ReplyKilled, ReplyFromUnlisted,
           Receives, TypeOK
    <3>2. \A data \in {"request", "eof"} :
            [from |-> m.to, data |-> data] \in Connection
      BY <2>1 DEF Connection
    <3>3. CASE ReplyConnected(m)
      <4>1. [NewUser(m.from) EXCEPT !.fd = ReplySocket(m.to), !.connected = TRUE] \in User
        BY <2>1, ReplyUserType DEF ReplySocket
      <4>2. users' \in [Client -> SUBSET User]
        BY <3>3, <2>1, <4>1, InsertUserType DEF ReplyConnected, TypeOK
      <4>3. backlog' \in [Client -> Seq(Connection)]
        BY <3>3, <2>1, <3>2 DEF ReplyConnected, TypeOK
      <4>4. QED
        BY <3>3, <3>1, <4>2, <4>3 DEF ReplyConnected, TypeOK
    <3>4. CASE ReplyNotConnected(m)
      <4>1. [NewUser(m.from) EXCEPT !.fd = ReplySocket(m.to)] \in User
        <5>1. ReplySocket(m.to) \in Fd \cup {NoFd}
          BY LowestFreeIsFree DEF ReplySocket
        <5>2. QED
          BY <2>1, <5>1, NewUserType DEF User
      <4>2. users' \in [Client -> SUBSET User]
        BY <3>4, <2>1, <4>1, InsertUserType DEF ReplyNotConnected, TypeOK
      <4>3. QED
        BY <3>4, <3>1, <4>2 DEF ReplyNotConnected, TypeOK
    <3>5. CASE ReplyUnresolved(m)
      <4>1. users' \in [Client -> SUBSET User]
        BY <3>5, <2>1, NewUserType, InsertUserType DEF ReplyUnresolved, TypeOK
      <4>2. fds' \in [Client -> [Fd -> FdUse]]
        BY <3>5, <2>1, CloseFdType DEF ReplyUnresolved, TypeOK
      <4>3. QED
        BY <3>5, <3>1, <4>1, <4>2 DEF ReplyUnresolved, TypeOK
    <3>6. CASE ReplySigpipe(m)
      <4>1. backlog' \in [Client -> Seq(Connection)]
        BY <3>6, <2>1 DEF ReplySigpipe, TypeOK
      <4>2. QED
        BY <3>6, <3>1, <2>1, <4>1, GoneType DEF ReplySigpipe, TypeOK
    <3>7. CASE ReplyKilled(m)
      <4>1. backlog' \in [Client -> Seq(Connection)]
        <5>1. Append(backlog[m.from], [from |-> m.to, data |-> "eof"]) \in Seq(Connection)
          BY <2>1, <3>2 DEF TypeOK
        <5> DEFINE longer == [backlog EXCEPT
                ![m.from] = Append(@, [from |-> m.to, data |-> "eof"])]
        <5>2. longer \in [Client -> Seq(Connection)]
          BY <2>1, <5>1 DEF TypeOK
        <5>3. backlog' = [longer EXCEPT ![m.to] = <<>>]
          BY <3>7 DEF ReplyKilled
        <5>4. <<>> \in Seq(Connection)
          OBVIOUS
        <5> HIDE DEF longer
        <5>5. QED
          BY <5>2, <5>3, <5>4
      <4>2. QED
        BY <3>7, <3>1, <2>1, <4>1, GoneType DEF ReplyKilled, TypeOK
    <3>8. QED
      BY <2>4, <3>3, <3>4, <3>5, <3>6, <3>7 DEF ReplyMsgHandler
  <2>5. CASE ClosingMsgHandler(m)
    <3>1. PICK u \in users[m.to] :
             /\ users' = [users EXCEPT ![m.to] = @ \ {u}]
             /\ fds' = [fds EXCEPT ![m.to] = CloseFd(CloseFd(@, u.fd), StdinFd)]
             /\ timeout' = [timeout EXCEPT ![m.to] =
                               TimeoutAfterRemoval(users[m.to] \ {u}, @)]
      BY <2>5 DEF ClosingMsgHandler
    <3>2. users' \in [Client -> SUBSET User]
      BY <3>1 DEF TypeOK
    <3>3. fds' \in [Client -> [Fd -> FdUse]]
      BY <3>1, <2>1, CloseFdType DEF TypeOK
    <3>4. timeout' \in [Client -> InitTimeout..MaxTimeout]
      <4>1. \A t \in InitTimeout..MaxTimeout :
               TimeoutAfterRemoval(users[m.to] \ {u}, t) \in InitTimeout..MaxTimeout
        BY ConfigAssumption DEF TimeoutAfterRemoval
      <4>2. QED
        BY <3>1, <2>1, <4>1 DEF TypeOK
    <3>5. hosts' \in [Client -> [Client -> 0..MaxLines]]
      <4>1. \A n \in 0..MaxLines : HostRemoved(n) \in 0..MaxLines
        BY BoundAssumption DEF HostRemoved
      <4>2. hosts' = [hosts EXCEPT ![m.to][m.from] = HostRemoved(@)]
        BY <2>5 DEF ClosingMsgHandler
      <4>3. hosts[m.to] \in [Client -> 0..MaxLines]
        BY <2>1 DEF TypeOK
      <4>4. HostRemoved(hosts[m.to][m.from]) \in 0..MaxLines
        BY <2>1, <4>1, <4>3
      <4>5. QED
        BY <2>1, <4>2, <4>4 DEF TypeOK
    <3>6. QED
      BY <2>5, <3>2, <3>3, <3>4, <3>5 DEF ClosingMsgHandler, Receives, TypeOK
  <2>6. QED
    BY <1>6, <2>2, <2>3, <2>4, <2>5 DEF Receive
<1>7. ASSUME NEW m \in net, Lose(m) \/ Undeliverable(m) PROVE TypeOK'
  BY <1>7 DEF Lose, Undeliverable, TypeOK
<1>8. CASE UNCHANGED vars
  BY <1>8 DEF vars, TypeOK
<1>9. QED
  BY <1>1, <1>2, <1>3, <1>4, <1>5, <1>6, <1>7, <1>8 DEF Next

\* In every reachable state of any number of clients every variable has its
\* type; above all no handler stores a descriptor number outside the table,
\* and doubling keeps the timeout between its two limits.
THEOREM TypeCorrect == Spec => []TypeOK
<1>1. QED
  BY TypeInit, TypeStep, PTL DEF Spec
-----------------------------------------------------------------------------
(* What a step may do to a list and to a descriptor table.                 *)

Frame(c) ==
    \A x \in Client \ {c} : /\ running'[x] = running[x]
                            /\ users'[x] = users[x]
                            /\ fds'[x] = fds[x]

StaysUp(c) == running[c] /\ running'[c]

GoesUp(c) ==
    /\ ~running[c] /\ running'[c]
    /\ users'[c] = users[c]
    /\ fds'[c] = fds[c]

GoesDown(c) ==
    /\ running[c] /\ ~running'[c]
    /\ users'[c] = {}
    /\ fds'[c] = FreshTable

Adds(c) ==
    /\ StaysUp(c)
    /\ \E u \in User :
          /\ u.name /= c
          /\ ~Listed(c, u.name)
          /\ u.fd \in {StdinFd, LowestFree(fds[c])}
          /\ users'[c] = InsertUser(users[c], u)
    /\ fds'[c] \in {fds[c], CloseFd(fds[c], StdinFd)}

Drops(c) ==
    /\ StaysUp(c)
    /\ \E u \in users[c] :
          /\ users'[c] = users[c] \ {u}
          /\ fds'[c] = CloseFd(CloseFd(fds[c], u.fd), StdinFd)

Attached(c, d) ==
    {IF u.name = d THEN [u EXCEPT !.fd = LowestFree(fds[c])] ELSE u : u \in users[c]}

Attaches(c) ==
    /\ StaysUp(c)
    /\ LowestFree(fds[c]) /= NoFd
    /\ \E d \in Client :
          /\ fds'[c] = [fds[c] EXCEPT ![LowestFree(fds[c])] = d]
          /\ users'[c] \in {users[c], Attached(c, d)}

Change(c) ==
    Frame(c) /\ (GoesUp(c) \/ GoesDown(c) \/ Adds(c) \/ Drops(c) \/ Attaches(c))

Same == UNCHANGED <<running, users, fds>>

\* Whatever ends a process ends it in the same way.
LEMMA GoneChange ==
    ASSUME TypeOK, NEW c \in Client, running[c], Gone(c)
    PROVE  Change(c)
<1>1. Frame(c)
  BY DEF Gone, Frame, TypeOK
<1>2. GoesDown(c)
  BY DEF Gone, GoesDown, TypeOK
<1>3. QED
  BY <1>1, <1>2 DEF Change

\* Every step leaves the lists and the tables alone or changes those of one
\* client in one of five ways.
LEMMA StepChange ==
    ASSUME TypeOK, RepliesFromOthers, [Next]_vars
    PROVE  Same \/ \E c \in Client : Change(c)
<1>1. ASSUME NEW c \in Client, Start(c) PROVE Change(c)
  BY <1>1 DEF Start, TypeOK, Change, Frame, GoesUp
<1>2. ASSUME NEW c \in Client, Timeout(c) PROVE Same
  BY <1>2 DEF Timeout, Same
<1>3. ASSUME NEW c \in Client, PollError(c) \/ Kill(c) PROVE Change(c)
  BY <1>3, GoneChange DEF PollError, Kill
<1>4. ASSUME NEW c \in Client, TCPMessageReceived(c) PROVE Change(c)
  <2> DEFINE d == Head(backlog[c]).from
  <2>1. Accepts(c, "request") \/ Accepts(c, "eof")
    BY <1>4 DEF TCPMessageReceived, AcceptRequest, AcceptCrash, AcceptNoRequest
  <2>2. d \in Client
    <3>1. backlog[c] \in Seq(Connection) /\ backlog[c] /= <<>>
      BY <2>1 DEF TypeOK, Accepts
    <3>2. Head(backlog[c]) \in Connection
      BY <3>1
    <3>3. QED
      BY <3>2 DEF Connection
  <2>3. CASE AcceptRequest(c)
    <3>1. users' = [users EXCEPT ![c] = Attached(c, d)]
      BY <2>3 DEF AcceptRequest, Attached, Accepted
    <3>2. fds' = [fds EXCEPT ![c] = [fds[c] EXCEPT ![LowestFree(fds[c])] = d]]
      BY <2>3 DEF AcceptRequest, Accepted
    <3>3. running' = running /\ running[c] /\ LowestFree(fds[c]) /= NoFd
      BY <2>3 DEF AcceptRequest, Accepts, Accepted
    <3>4. Frame(c)
      BY <3>1, <3>2, <3>3 DEF Frame, TypeOK
    <3>5. Attaches(c)
      BY <3>1, <3>2, <3>3, <2>2 DEF Attaches, StaysUp, TypeOK
    <3>6. QED
      BY <3>4, <3>5 DEF Change
  <2>4. CASE AcceptCrash(c)
    BY <2>4, GoneChange DEF AcceptCrash, Accepts
  <2>5. CASE AcceptNoRequest(c)
    <3>1. users' = users
      BY <2>5 DEF AcceptNoRequest
    <3>2. fds' = [fds EXCEPT ![c] = [fds[c] EXCEPT ![LowestFree(fds[c])] = d]]
      BY <2>5 DEF AcceptNoRequest, Accepted
    <3>3. running' = running /\ running[c] /\ LowestFree(fds[c]) /= NoFd
      BY <2>5 DEF AcceptNoRequest, Accepts, Accepted
    <3>4. Frame(c)
      BY <3>1, <3>2, <3>3 DEF Frame, TypeOK
    <3>5. Attaches(c)
      BY <3>1, <3>2, <3>3, <2>2 DEF Attaches, StaysUp, TypeOK
    <3>6. QED
      BY <3>4, <3>5 DEF Change
  <2>6. QED
    BY <1>4, <2>3, <2>4, <2>5 DEF TCPMessageReceived
<1>5. ASSUME NEW m \in net, Receive(m) PROVE Same \/ Change(m.to)
  <2>1. m \in Datagram /\ m.from \in Client /\ m.to \in Client
    BY DEF TypeOK, Datagram
  <2> DEFINE c == m.to
             d == m.from
  <2>2. CASE OwnBroadcast(m) \/ NothingToDo(m)
    BY <2>2 DEF OwnBroadcast, NothingToDo, Same
  <2>3. CASE DiscoveryMsgHandler(m)
    <3>1. NewUser(d) \in User /\ NewUser(d).name = d /\ NewUser(d).fd = StdinFd
      BY <2>1, NewUserType DEF NewUser
    <3>2. /\ running[c] /\ running' = running
          /\ ~HostIsMe(c, d) /\ ~Listed(c, d)
          /\ users' = [users EXCEPT ![c] = InsertUser(@, NewUser(d))]
          /\ fds' = [fds EXCEPT ![c] = CloseFd(@, NewUser(d).fd)]
      BY <2>3 DEF DiscoveryMsgHandler
    <3>3. Frame(c)
      BY <3>2, <2>1 DEF Frame, TypeOK
    <3>4. users'[c] = InsertUser(users[c], NewUser(d)) /\ fds'[c] = CloseFd(fds[c], StdinFd)
      BY <3>1, <3>2, <2>1 DEF TypeOK
    <3>5. Adds(c)
      BY <3>1, <3>2, <3>4 DEF Adds, StaysUp, HostIsMe
    <3>6. QED
      BY <3>3, <3>5 DEF Change
  <2>4. CASE ReplyMsgHandler(m)
    <3>1. ReplyFromUnlisted(m)
      BY <2>4 DEF ReplyMsgHandler, ReplyConnected, ReplyNotConnected,
           ReplyUnresolved, ReplySigpipe, ReplyKilled
    <3>2. running[c] /\ ~Listed(c, d) /\ c /= d
      BY <3>1 DEF ReplyFromUnlisted, Receives, RepliesFromOthers
    <3>3. CASE ReplySigpipe(m) \/ ReplyKilled(m)
      BY <3>2, <3>3, <2>1, GoneChange DEF ReplySigpipe, ReplyKilled
    <3>4. ASSUME NEW u \in User, u.name = d,
                 u.fd \in {StdinFd, LowestFree(fds[c])},
                 running' = running,
                 users' = [users EXCEPT ![c] = InsertUser(@, u)],
                 \/ fds' = fds
                 \/ fds' = [fds EXCEPT ![c] = CloseFd(@, StdinFd)]
          PROVE  Change(c)
      <4>1. Frame(c)
        BY <3>4, <2>1 DEF Frame, TypeOK
      <4>2. users'[c] = InsertUser(users[c], u)
        BY <3>4, <2>1 DEF TypeOK
      <4>3. fds'[c] \in {fds[c], CloseFd(fds[c], StdinFd)}
        BY <3>4, <2>1 DEF TypeOK
      <4>4. Adds(c)
        BY <3>2, <3>4, <4>2, <4>3 DEF Adds, StaysUp
      <4>5. QED
        BY <4>1, <4>4 DEF Change
    <3>5. CASE ReplyConnected(m)
      <4> DEFINE u == [NewUser(d) EXCEPT !.fd = ReplySocket(c), !.connected = TRUE]
      <4>1. u \in User
        BY <2>1, ReplyUserType DEF ReplySocket
      <4>2. u.name = d /\ u.fd = LowestFree(fds[c])
        BY DEF NewUser, ReplySocket
      <4>3. running' = running /\ fds' = fds /\ users' = [users EXCEPT ![c] = InsertUser(@, u)]
        BY <3>5 DEF ReplyConnected
      <4> HIDE DEF u
      <4>4. QED
        BY <3>4, <4>1, <4>2, <4>3
    <3>6. CASE ReplyNotConnected(m)
      <4> DEFINE u == [NewUser(d) EXCEPT !.fd = ReplySocket(c)]
      <4>1. u \in User
        <5>1. ReplySocket(c) \in Fd \cup {NoFd}
          BY LowestFreeIsFree DEF ReplySocket
        <5>2. QED
          BY <2>1, <5>1, NewUserType DEF User
      <4>2. u.name = d /\ u.fd = LowestFree(fds[c])
        BY DEF NewUser, ReplySocket
      <4>3. running' = running /\ fds' = fds /\ users' = [users EXCEPT ![c] = InsertUser(@, u)]
        BY <3>6 DEF ReplyNotConnected
      <4> HIDE DEF u
      <4>4. QED
        BY <3>4, <4>1, <4>2, <4>3
    <3>7. CASE ReplyUnresolved(m)
      <4>1. NewUser(d) \in User /\ NewUser(d).name = d /\ NewUser(d).fd = StdinFd
        BY <2>1, NewUserType DEF NewUser
      <4>2. /\ running' = running
            /\ users' = [users EXCEPT ![c] = InsertUser(@, NewUser(d))]
            /\ fds' = [fds EXCEPT ![c] = CloseFd(@, StdinFd)]
        BY <3>7, <4>1 DEF ReplyUnresolved
      <4>3. QED
        BY <3>4, <4>1, <4>2
    <3>8. QED
      BY <2>4, <3>3, <3>5, <3>6, <3>7 DEF ReplyMsgHandler
  <2>5. CASE ClosingMsgHandler(m)
    <3>1. PICK u \in users[c] :
             /\ users' = [users EXCEPT ![c] = @ \ {u}]
             /\ fds' = [fds EXCEPT ![c] = CloseFd(CloseFd(@, u.fd), StdinFd)]
      BY <2>5 DEF ClosingMsgHandler
    <3>2. running[c] /\ running' = running
      BY <2>5 DEF ClosingMsgHandler, Receives
    <3>3. Frame(c)
      BY <3>1, <3>2, <2>1 DEF Frame, TypeOK
    <3>4. /\ users'[c] = users[c] \ {u}
          /\ fds'[c] = CloseFd(CloseFd(fds[c], u.fd), StdinFd)
      BY <3>1, <2>1 DEF TypeOK
    <3>5. Drops(c)
      BY <3>2, <3>4 DEF Drops, StaysUp
    <3>6. QED
      BY <3>3, <3>5 DEF Change
  <2>6. QED
    BY <1>5, <2>2, <2>3, <2>4, <2>5 DEF Receive
<1>6. ASSUME NEW m \in net, Lose(m) \/ Undeliverable(m) PROVE Same
  BY <1>6 DEF Lose, Undeliverable, Same
<1>7. CASE UNCHANGED vars
  BY <1>7 DEF vars, Same
<1>8. \A m \in net : m.to \in Client
  BY DEF TypeOK, Datagram
<1>9. QED
  BY <1>1, <1>2, <1>3, <1>4, <1>5, <1>6, <1>7, <1>8 DEF Next

-----------------------------------------------------------------------------
(* The invariant is inductive.                                             *)

\* The descriptor handed out next is not one of the server sockets.
LEMMA NextFdApart ==
    ASSUME SocketsApart, NEW c \in Client
    PROVE  LowestFree(fds[c]) \notin {UdpFd, TcpFd}
<1>1. fds[c][UdpFd] /= "closed" /\ fds[c][TcpFd] /= "closed"
  BY DEF SocketsApart
<1>2. NoFd \notin {UdpFd, TcpFd}
  BY DEF NoFd, UdpFd, TcpFd
<1>3. QED
  BY <1>1, <1>2, LowestFreeIsFree

\* The numbers of the server sockets are in use, so neither socket() nor
\* accept() hands them out, so no node holds them, so nobody closes them.
LEMMA SocketsApartStep ==
    ASSUME TypeOK, SocketsApart, NEW c \in Client, Change(c)
    PROVE  SocketsApart'
<1> DEFINE Apart(x) == /\ fds[x][UdpFd] = "udp"
                       /\ fds[x][TcpFd] = "listen"
                       /\ \A u \in users[x] : u.fd \notin {UdpFd, TcpFd}
<1>1. StdinFd \notin {UdpFd, TcpFd}
  BY DEF StdinFd, UdpFd, TcpFd
<1>2. \A table, f : f \notin {UdpFd, TcpFd} =>
         /\ CloseFd(table, f)[UdpFd] = table[UdpFd]
         /\ CloseFd(table, f)[TcpFd] = table[TcpFd]
  BY ServerFds DEF CloseFd
<1>3. \A x \in Client : Apart(x)
  BY DEF SocketsApart
<1>4. \A x \in Client \ {c} : Apart(x)'
  BY <1>3 DEF Change, Frame
<1>5. Apart(c)'
  <2>1. CASE GoesUp(c)
    BY <2>1, <1>3 DEF GoesUp
  <2>2. CASE GoesDown(c)
    BY <2>2, FreshServerSockets DEF GoesDown
  <2>3. CASE Adds(c)
    <3>1. PICK u \in User : /\ u.fd \in {StdinFd, LowestFree(fds[c])}
                            /\ users'[c] = InsertUser(users[c], u)
      BY <2>3 DEF Adds
    <3>2. u.fd \notin {UdpFd, TcpFd}
      BY <3>1, <1>1, NextFdApart
    <3>3. \A v \in users'[c] : v \in users[c] \/ v = u
      BY <3>1 DEF InsertUser
    <3>4. fds'[c][UdpFd] = fds[c][UdpFd] /\ fds'[c][TcpFd] = fds[c][TcpFd]
      BY <2>3, <1>1, <1>2 DEF Adds
    <3>5. QED
      BY <1>3, <3>2, <3>3, <3>4
  <2>4. CASE Drops(c)
    <3>1. PICK u \in users[c] :
             /\ users'[c] = users[c] \ {u}
             /\ fds'[c] = CloseFd(CloseFd(fds[c], u.fd), StdinFd)
      BY <2>4 DEF Drops
    <3>2. u.fd \notin {UdpFd, TcpFd}
      BY <1>3
    <3>3. fds'[c][UdpFd] = fds[c][UdpFd] /\ fds'[c][TcpFd] = fds[c][TcpFd]
      BY <3>1, <3>2, <1>1, <1>2
    <3>4. QED
      BY <1>3, <3>1, <3>3
  <2>5. CASE Attaches(c)
    <3> DEFINE f == LowestFree(fds[c])
    <3>1. f \notin {UdpFd, TcpFd}
      BY NextFdApart
    <3> HIDE DEF f
    <3>2. PICK d \in Client : /\ fds'[c] = [fds[c] EXCEPT ![f] = d]
                              /\ users'[c] \in {users[c], Attached(c, d)}
      BY <2>5 DEF Attaches, f
    <3>3. fds[c] \in [Fd -> FdUse]
      BY DEF TypeOK
    <3>4. fds'[c][UdpFd] = fds[c][UdpFd] /\ fds'[c][TcpFd] = fds[c][TcpFd]
      BY <3>1, <3>2, <3>3, ServerFds
    <3>5. \A v \in Attached(c, d) : v \in users[c] \/ v.fd = f
      <4>1. \A u \in users[c] : [u EXCEPT !.fd = f].fd = f
        BY DEF TypeOK, User
      <4>2. \A v \in Attached(c, d) : \E u \in users[c] :
               v = IF u.name = d THEN [u EXCEPT !.fd = f] ELSE u
        BY DEF Attached, f
      <4>3. ASSUME NEW v \in Attached(c, d) PROVE v \in users[c] \/ v.fd = f
        <5>1. PICK u \in users[c] : v = IF u.name = d THEN [u EXCEPT !.fd = f] ELSE u
          BY <4>2
        <5>2. CASE u.name = d
          BY <5>1, <5>2, <4>1
        <5>3. CASE u.name /= d
          BY <5>1, <5>3
        <5>4. QED
          BY <5>2, <5>3
      <4>4. QED
        BY <4>3
    <3>6. QED
      BY <1>3, <3>1, <3>2, <3>4, <3>5
  <2>6. QED
    BY <2>1, <2>2, <2>3, <2>4, <2>5 DEF Change
<1>6. QED
  BY <1>4, <1>5 DEF SocketsApart

\* The names in a list: what a change does to them.
LEMMA KnownChange ==
    ASSUME TypeOK, NoDuplicateUsers, NEW c \in Client, Change(c)
    PROVE  \/ Known(c)' = Known(c) /\ (GoesUp(c) \/ StaysUp(c))
           \/ Known(c)' = {} /\ GoesDown(c)
           \/ StaysUp(c) /\ \E d \in Client \ {c} :
                 d \notin Known(c) /\ Known(c)' = Known(c) \cup {d}
           \/ StaysUp(c) /\ \E d \in Known(c) : Known(c)' = Known(c) \ {d}
<1>1. CASE GoesUp(c)
  BY <1>1 DEF GoesUp, Known
<1>2. CASE GoesDown(c)
  BY <1>2 DEF GoesDown, Known
<1>3. CASE Adds(c)
  <2>1. PICK u \in User : /\ u.name /= c
                          /\ ~Listed(c, u.name)
                          /\ users'[c] = InsertUser(users[c], u)
    BY <1>3 DEF Adds
  <2>2. u.name \in Client \ {c} /\ u.name \notin Known(c)
    BY <2>1 DEF User, Listed, Known
  <2>3. users'[c] = users[c] \/ users'[c] = users[c] \cup {u}
    BY <2>1 DEF InsertUser
  <2>4. Known(c)' = Known(c) \/ Known(c)' = Known(c) \cup {u.name}
    BY <2>3 DEF Known
  <2>5. QED
    BY <1>3, <2>2, <2>4 DEF Adds
<1>4. CASE Drops(c)
  <2>1. PICK u \in users[c] : users'[c] = users[c] \ {u}
    BY <1>4 DEF Drops
  <2>2. \A v \in users[c] : v.name = u.name => v = u
    BY DEF NoDuplicateUsers
  <2>3. Known(c)' = Known(c) \ {u.name}
    BY <2>1, <2>2 DEF Known
  <2>4. u.name \in Known(c)
    BY DEF Known
  <2>5. QED
    BY <1>4, <2>3, <2>4 DEF Drops
<1>5. CASE Attaches(c)
  <2>1. PICK d \in Client : users'[c] \in {users[c], Attached(c, d)}
    BY <1>5 DEF Attaches
  <2>2. \A u \in users[c] : [u EXCEPT !.fd = LowestFree(fds[c])].name = u.name
    BY DEF TypeOK, User
  <2>3. {u.name : u \in Attached(c, d)} = {u.name : u \in users[c]}
    <3>1. \A v \in Attached(c, d) : \E u \in users[c] : v.name = u.name
      BY <2>2 DEF Attached
    <3>2. \A u \in users[c] : \E v \in Attached(c, d) : v.name = u.name
      BY <2>2 DEF Attached
    <3>3. QED
      BY <3>1, <3>2
  <2>4. Known(c)' = Known(c)
    BY <2>1, <2>3 DEF Known
  <2>5. QED
    BY <1>5, <2>4 DEF Attaches
<1>6. QED
  BY <1>1, <1>2, <1>3, <1>4, <1>5 DEF Change

\* A user is added to the list of somebody else.
LEMMA NeverListsSelfStep ==
    ASSUME TypeOK, NoDuplicateUsers, NeverListsSelf, NEW c \in Client, Change(c)
    PROVE  NeverListsSelf'
<1>1. \A x \in Client : x \notin Known(x)
  BY DEF NeverListsSelf, Listed, Known
<1>2. c \notin Known(c)'
  BY <1>1, KnownChange
<1>3. \A x \in Client \ {c} : x \notin Known(x)'
  BY <1>1 DEF Change, Frame, Known
<1>4. QED
  BY <1>2, <1>3 DEF NeverListsSelf, Listed, Known

\* A user is added only where retrieve() found nobody of that name.
LEMMA NoDuplicateUsersStep ==
    ASSUME TypeOK, NoDuplicateUsers, NEW c \in Client, Change(c)
    PROVE  NoDuplicateUsers'
<1> DEFINE Unique(x) == \A u, v \in users[x] : u.name = v.name => u = v
<1>1. \A x \in Client : Unique(x)
  BY DEF NoDuplicateUsers
<1>2. \A x \in Client \ {c} : Unique(x)'
  BY <1>1 DEF Change, Frame
<1>3. Unique(c)'
  <2>1. CASE GoesUp(c) \/ GoesDown(c) \/ Drops(c)
    BY <2>1, <1>1 DEF GoesUp, GoesDown, Drops
  <2>2. CASE Adds(c)
    BY <2>2, <1>1 DEF Adds, InsertUser, Listed
  <2>3. CASE Attaches(c)
    <3>1. PICK d \in Client : users'[c] \in {users[c], Attached(c, d)}
      BY <2>3 DEF Attaches
    <3>2. \A u \in users[c] : [u EXCEPT !.fd = LowestFree(fds[c])].name = u.name
      BY DEF TypeOK, User
    <3>3. \A v \in Attached(c, d) : \E u \in users[c] :
             /\ v.name = u.name
             /\ v = IF u.name = d THEN [u EXCEPT !.fd = LowestFree(fds[c])] ELSE u
      BY <3>2 DEF Attached
    <3>4. \A v, w \in Attached(c, d) : v.name = w.name => v = w
      BY <1>1, <3>3
    <3>5. QED
      BY <1>1, <3>1, <3>4
  <2>4. QED
    BY <2>1, <2>2, <2>3 DEF Change
<1>4. QED
  BY <1>2, <1>3 DEF NoDuplicateUsers

\* insert() adds one node, and no handler adds more.
LEMMA ListsAreFiniteStep ==
    ASSUME ListsAreFinite, NEW c \in Client, Change(c)
    PROVE  ListsAreFinite'
<1>1. IsFiniteSet(users[c]) /\ \A x \in Client \ {c} : users'[x] = users[x]
  BY DEF ListsAreFinite, Change, Frame
<1>2. IsFiniteSet(users'[c])
  <2>1. CASE GoesUp(c) \/ GoesDown(c)
    BY <1>1, <2>1, FS_EmptySet DEF GoesUp, GoesDown
  <2>2. CASE Adds(c)
    <3>1. PICK u \in User : users'[c] = InsertUser(users[c], u)
      BY <2>2 DEF Adds
    <3>2. IsFiniteSet(users[c] \cup {u})
      BY <1>1, FS_AddElement
    <3>3. QED
      BY <1>1, <3>1, <3>2 DEF InsertUser
  <2>3. CASE Drops(c)
    <3>1. users'[c] \subseteq users[c]
      BY <2>3 DEF Drops
    <3>2. QED
      BY <1>1, <3>1, FS_Subset
  <2>4. CASE Attaches(c)
    <3>1. PICK d \in Client : users'[c] \in {users[c], Attached(c, d)}
      BY <2>4 DEF Attaches
    <3> DEFINE New(u) == IF u.name = d THEN [u EXCEPT !.fd = LowestFree(fds[c])] ELSE u
               f == [u \in users[c] |-> New(u)]
    <3>2. Attached(c, d) = {New(u) : u \in users[c]}
      BY DEF Attached
    <3> HIDE DEF New
    <3>3. f \in Surjection(users[c], Attached(c, d))
      BY <3>2, Fun_IsSurj
    <3>4. IsFiniteSet(Attached(c, d))
      BY <1>1, <3>3, FS_Surjection
    <3>5. QED
      BY <1>1, <3>1, <3>4
  <2>5. QED
    BY <2>1, <2>2, <2>3, <2>4 DEF Change
<1>3. QED
  BY <1>1, <1>2 DEF ListsAreFinite

\* No Reply is addressed to its sender: who is answered is somebody else.
LEMMA RepliesFromOthersStep ==
    ASSUME TypeOK, RepliesFromOthers, [Next]_vars
    PROVE  RepliesFromOthers'
<1>1. ASSUME NEW c \in Client,
             \/ Start(c) \/ Kill(c) \/ TCPMessageReceived(c)
      PROVE  RepliesFromOthers'
  BY <1>1 DEF Start, Kill, TCPMessageReceived, AcceptRequest, AcceptCrash,
       AcceptNoRequest, RepliesFromOthers
<1>2. ASSUME NEW c \in Client, Timeout(c) \/ PollError(c)
      PROVE  RepliesFromOthers'
  <2>1. PICK type \in {"discovery", "closing"} : net' = net \cup Broadcast(c, type)
    BY <1>2 DEF Timeout, PollError
  <2>2. \A m \in Broadcast(c, type) : m.type /= "reply"
    BY DEF Broadcast
  <2>3. QED
    BY <2>1, <2>2 DEF RepliesFromOthers
<1>3. ASSUME NEW m \in net, Receive(m) PROVE RepliesFromOthers'
  <2>1. CASE DiscoveryMsgHandler(m)
    <3>1. net' \subseteq net \cup ReplyTo(m.to, NewUser(m.from))
      BY <2>1 DEF DiscoveryMsgHandler
    <3>2. m.from /= m.to
      BY <2>1 DEF DiscoveryMsgHandler, HostIsMe
    <3>3. \A r \in ReplyTo(m.to, NewUser(m.from)) : r.from = m.to /\ r.to = m.from
      BY DEF ReplyTo, NewUser
    <3>4. QED
      BY <3>1, <3>2, <3>3 DEF RepliesFromOthers
  <2>2. CASE OwnBroadcast(m) \/ NothingToDo(m) \/ ClosingMsgHandler(m)
    BY <2>2 DEF OwnBroadcast, NothingToDo, ClosingMsgHandler, Receives, RepliesFromOthers
  <2>3. CASE ReplyMsgHandler(m)
    BY <2>3 DEF ReplyMsgHandler, ReplyConnected, ReplyNotConnected,
         ReplyUnresolved, ReplySigpipe, ReplyKilled, ReplyFromUnlisted,
         Receives, RepliesFromOthers
  <2>4. QED
    BY <1>3, <2>1, <2>2, <2>3 DEF Receive
<1>4. ASSUME NEW m \in net, Lose(m) \/ Undeliverable(m)
      PROVE  RepliesFromOthers'
  BY <1>4 DEF Lose, Undeliverable, RepliesFromOthers
<1>5. CASE UNCHANGED vars
  BY <1>5 DEF vars, RepliesFromOthers
<1>6. QED
  BY <1>1, <1>2, <1>3, <1>4, <1>5 DEF Next

\* The invariant holds when nobody runs.
LEMMA InitInvariant == Init => IInv
<1> SUFFICES ASSUME Init PROVE IInv
  OBVIOUS
<1>1. TypeOK
  BY TypeInit
<1>2. SocketsApart
  BY FreshServerSockets DEF Init, SocketsApart
<1>3. RepliesFromOthers /\ NeverListsSelf /\ NoDuplicateUsers /\ ListsAreFinite
  BY FS_EmptySet DEF Init, ListsAreFinite, RepliesFromOthers, NeverListsSelf, Listed, NoDuplicateUsers
<1>4. QED
  BY <1>1, <1>2, <1>3 DEF IInv

\* And every step keeps it.
LEMMA StepInvariant == IInv /\ [Next]_vars => IInv'
<1> SUFFICES ASSUME IInv, [Next]_vars PROVE IInv'
  OBVIOUS
<1> USE DEF IInv
<1>1. TypeOK'
  BY TypeStep
<1>2. RepliesFromOthers'
  BY RepliesFromOthersStep
<1>3. CASE Same
  <2>1. SocketsApart'
    BY <1>3 DEF Same, SocketsApart
  <2>2. NeverListsSelf'
    BY <1>3 DEF Same, NeverListsSelf, Listed
  <2>3. NoDuplicateUsers'
    BY <1>3 DEF Same, NoDuplicateUsers
  <2>4. ListsAreFinite'
    BY <1>3 DEF Same, ListsAreFinite
  <2>5. QED
    BY <1>1, <1>2, <2>1, <2>2, <2>3, <2>4
<1>4. ASSUME NEW c \in Client, Change(c) PROVE IInv'
  BY <1>1, <1>2, <1>4, SocketsApartStep, NeverListsSelfStep, NoDuplicateUsersStep,
     ListsAreFiniteStep
<1>5. QED
  BY <1>3, <1>4, StepChange

\* The inductive invariant of Discovery: types, server sockets that no node
\* refers to, Replies that come from others, lists without oneself and
\* without duplicates.
THEOREM Invariance == Spec => []IInv
<1>1. QED
  BY InitInvariant, StepInvariant, PTL DEF Spec

-----------------------------------------------------------------------------
(* Safety                                                                  *)

\* The destructors of users never close a server socket of a running client.
THEOREM ServerSocketsStayOpen == Spec => []ServerSocketsOpen
<1>1. IInv => ServerSocketsOpen
  BY DEF IInv, SocketsApart, ServerSocketsOpen
<1>2. QED
  BY <1>1, Invariance, PTL

\* No client ever has itself in its list.
THEOREM NobodyListsItself == Spec => []NeverListsSelf
<1>1. IInv => NeverListsSelf
  BY DEF IInv
<1>2. QED
  BY <1>1, Invariance, PTL

\* No client ever has two nodes for one user.
THEOREM UsersAreUnique == Spec => []NoDuplicateUsers
<1>1. IInv => NoDuplicateUsers
  BY DEF IInv
<1>2. QED
  BY <1>1, Invariance, PTL

-----------------------------------------------------------------------------
(* The host window and the back-off                                        *)

\* What a step may do to what client x shows and how long it waits: it keeps
\* both and loses no user; x dies; x searches again; x shows a user it has
\* just heard of; x parts with a user.
Keeps(x) ==
    /\ hosts'[x] = hosts[x]
    /\ timeout'[x] = timeout[x]
    /\ Known(x) \subseteq Known(x)'

Dies(x) == ~running'[x] /\ hosts'[x] = NoLines

Searches(x) ==
    /\ hosts'[x] = hosts[x]
    /\ users[x] = {} /\ users'[x] = {}
    /\ timeout'[x] = Doubled(timeout[x])

Shows(x) ==
    /\ timeout'[x] = timeout[x]
    /\ \E d \in Client \ {x} :
          /\ ~Listed(x, d)
          /\ users'[x] = InsertUser(users[x], NewUser(d))
          /\ hosts'[x] = [hosts[x] EXCEPT ![d] = @ + 1]

Parts(x) ==
    \E u \in users[x] :
        /\ users'[x] = users[x] \ {u}
        /\ hosts'[x] = [hosts[x] EXCEPT ![u.name] = HostRemoved(@)]
        /\ timeout'[x] = TimeoutAfterRemoval(users[x] \ {u}, timeout[x])

Effect(x) == Keeps(x) \/ Dies(x) \/ Searches(x) \/ Shows(x) \/ Parts(x)

\* A client none of whose users, lines and timeout change is in the first
\* case.
LEMMA UnchangedKeeps ==
    ASSUME NEW x \in Client, users'[x] = users[x], hosts'[x] = hosts[x],
           timeout'[x] = timeout[x]
    PROVE  Keeps(x)
  BY DEF Keeps, Known

\* The end of one client's process is no news to the others.
LEMMA GoneEffect ==
    ASSUME TypeOK, NEW c \in Client, Gone(c), NEW x \in Client
    PROVE  Effect(x)
<1>1. CASE x = c
  BY <1>1 DEF Gone, TypeOK, Effect, Dies
<1>2. CASE x /= c
  <2>1. users'[x] = users[x] /\ hosts'[x] = hosts[x] /\ timeout'[x] = timeout[x]
    BY <1>2 DEF Gone, TypeOK
  <2>2. QED
    BY <2>1, UnchangedKeeps DEF Effect
<1>3. QED
  BY <1>1, <1>2

\* A user more in the list of a client that shows nothing new.
LEMMA InsertEffect ==
    ASSUME TypeOK, NEW c \in Client, NEW u, NEW x \in Client,
           users' = [users EXCEPT ![c] = InsertUser(@, u)],
           UNCHANGED <<hosts, timeout>>
    PROVE  Effect(x)
<1>1. users[x] \subseteq users'[x]
  BY DEF TypeOK, InsertUser
<1>2. Known(x) \subseteq Known(x)'
  BY <1>1 DEF Known
<1>3. QED
  BY <1>2 DEF Effect, Keeps

\* Every step has one of the five effects on each client.
LEMMA StepEffect ==
    ASSUME TypeOK, [Next]_vars, NEW x \in Client
    PROVE  Effect(x)
<1> USE DEF Effect
<1>1. ASSUME NEW c \in Client, Start(c) PROVE Effect(x)
  BY <1>1, UnchangedKeeps DEF Start
<1>2. ASSUME NEW c \in Client, Timeout(c) PROVE Effect(x)
  <2>1. CASE x = c
    BY <1>2, <2>1 DEF Timeout, IsEmpty, TypeOK, Searches
  <2>2. CASE x /= c
    <3>1. users'[x] = users[x] /\ hosts'[x] = hosts[x] /\ timeout'[x] = timeout[x]
      BY <1>2, <2>2 DEF Timeout, TypeOK
    <3>2. QED
      BY <3>1, UnchangedKeeps
  <2>3. QED
    BY <2>1, <2>2
<1>3. ASSUME NEW c \in Client, PollError(c) \/ Kill(c) PROVE Effect(x)
  BY <1>3, GoneEffect DEF PollError, Kill
<1>4. ASSUME NEW c \in Client, TCPMessageReceived(c) PROVE Effect(x)
  <2>1. CASE AcceptRequest(c)
    <3> DEFINE d == Head(backlog[c]).from
               New(u) == IF u.name = d THEN [u EXCEPT !.fd = Accepted(c)] ELSE u
    <3>1. /\ users' = [users EXCEPT ![c] = {New(u) : u \in @}]
          /\ UNCHANGED <<hosts, timeout>>
      BY <2>1 DEF AcceptRequest
    <3>2. \A u \in users[c] : New(u).name = u.name
      BY DEF TypeOK, User
    <3> HIDE DEF New
    <3>3. CASE x = c
      <4>1. users'[x] = {New(u) : u \in users[x]}
        BY <3>1, <3>3 DEF TypeOK
      <4>2. Known(x) \subseteq Known(x)'
        BY <3>2, <3>3, <4>1 DEF Known
      <4>3. QED
        BY <3>1, <4>2 DEF Keeps
    <3>4. CASE x /= c
      <4>1. users'[x] = users[x]
        BY <3>1, <3>4 DEF TypeOK
      <4>2. QED
        BY <3>1, <4>1, UnchangedKeeps
    <3>5. QED
      BY <3>3, <3>4
  <2>2. CASE AcceptCrash(c)
    BY <2>2, GoneEffect DEF AcceptCrash
  <2>3. CASE AcceptNoRequest(c)
    BY <2>3, UnchangedKeeps DEF AcceptNoRequest
  <2>4. QED
    BY <1>4, <2>1, <2>2, <2>3 DEF TCPMessageReceived
<1>5. ASSUME NEW m \in net, Receive(m) PROVE Effect(x)
  <2>1. m.from \in Client /\ m.to \in Client
    BY DEF TypeOK, Datagram
  <2>2. CASE OwnBroadcast(m) \/ NothingToDo(m)
    BY <2>2, UnchangedKeeps DEF OwnBroadcast, NothingToDo
  <2>3. CASE DiscoveryMsgHandler(m)
    <3>1. /\ m.from \in Client \ {m.to} /\ ~Listed(m.to, m.from)
          /\ users' = [users EXCEPT ![m.to] = InsertUser(@, NewUser(m.from))]
          /\ hosts' = [hosts EXCEPT ![m.to][m.from] = @ + 1]
          /\ timeout' = timeout
      BY <2>1, <2>3 DEF DiscoveryMsgHandler, HostIsMe
    <3>2. CASE x = m.to
      <4>1. users'[x] = InsertUser(users[x], NewUser(m.from))
        BY <3>1, <3>2 DEF TypeOK
      <4>2. hosts'[x] = [hosts[x] EXCEPT ![m.from] = @ + 1]
        BY <3>1, <3>2 DEF TypeOK
      <4>3. Shows(x)
        BY <3>1, <3>2, <4>1, <4>2 DEF Shows
      <4>4. QED
        BY <4>3
    <3>3. CASE x /= m.to
      <4>1. users'[x] = users[x] /\ hosts'[x] = hosts[x]
        BY <3>1, <3>3 DEF TypeOK
      <4>2. QED
        BY <3>1, <4>1, UnchangedKeeps
    <3>4. QED
      BY <3>2, <3>3
  <2>4. CASE ReplyMsgHandler(m)
    <3>1. CASE ReplySigpipe(m) \/ ReplyKilled(m)
      BY <2>1, <3>1, GoneEffect DEF ReplySigpipe, ReplyKilled
    <3>2. CASE ReplyConnected(m) \/ ReplyNotConnected(m) \/ ReplyUnresolved(m)
      <4>1. /\ \E u : users' = [users EXCEPT ![m.to] = InsertUser(@, u)]
            /\ UNCHANGED <<hosts, timeout>>
        BY <3>2 DEF ReplyConnected, ReplyNotConnected, ReplyUnresolved
      <4>2. QED
        BY <2>1, <4>1, InsertEffect
    <3>3. QED
      BY <2>4, <3>1, <3>2 DEF ReplyMsgHandler
  <2>5. CASE ClosingMsgHandler(m)
    <3>1. PICK u \in users[m.to] :
             /\ u.name = m.from
             /\ users' = [users EXCEPT ![m.to] = @ \ {u}]
             /\ timeout' = [timeout EXCEPT ![m.to] =
                               TimeoutAfterRemoval(users[m.to] \ {u}, @)]
      BY <2>5 DEF ClosingMsgHandler
    <3>2. hosts' = [hosts EXCEPT ![m.to][m.from] = HostRemoved(@)]
      BY <2>5 DEF ClosingMsgHandler
    <3>3. CASE x = m.to
      <4>1. users'[x] = users[x] \ {u}
        BY <3>1, <3>3 DEF TypeOK
      <4>2. timeout'[x] = TimeoutAfterRemoval(users[x] \ {u}, timeout[x])
        BY <3>1, <3>3 DEF TypeOK
      <4>3. hosts'[x] = [hosts[x] EXCEPT ![u.name] = HostRemoved(@)]
        BY <2>1, <3>1, <3>2, <3>3 DEF TypeOK
      <4>4. Parts(x)
        BY <3>1, <3>3, <4>1, <4>2, <4>3 DEF Parts
      <4>5. QED
        BY <4>4
    <3>4. CASE x /= m.to
      <4>1. users'[x] = users[x] /\ hosts'[x] = hosts[x] /\ timeout'[x] = timeout[x]
        BY <3>1, <3>2, <3>4 DEF TypeOK
      <4>2. QED
        BY <4>1, UnchangedKeeps
    <3>5. QED
      BY <3>3, <3>4
  <2>6. QED
    BY <1>5, <2>2, <2>3, <2>4, <2>5 DEF Receive
<1>6. ASSUME NEW m \in net, Lose(m) \/ Undeliverable(m) PROVE Effect(x)
  BY <1>6, UnchangedKeeps DEF Lose, Undeliverable
<1>7. CASE UNCHANGED vars
  BY <1>7, UnchangedKeeps DEF vars
<1>8. QED
  BY <1>1, <1>2, <1>3, <1>4, <1>5, <1>6, <1>7 DEF Next

\* A list that knows neither its own client nor d is not full when there is
\* room for everybody: no two of its users have one name.
LEMMA RoomForOneMore ==
    ASSUME IInv, RoomForAll, NEW c \in Client, NEW d \in Client \ {c}, ~Listed(c, d)
    PROVE  ~(Cardinality(users[c]) >= MaxUsers)
<1> DEFINE Others == (Client \ {c}) \ {d}
           f == [u \in users[c] |-> u.name]
<1>1. IsFiniteSet(Client \ {c}) /\ Cardinality(Client \ {c}) = Cardinality(Client) - 1
  BY FS_RemoveElement DEF RoomForAll
<1>2. IsFiniteSet(Others) /\ Cardinality(Others) = Cardinality(Client \ {c}) - 1
  <2> DEFINE S == Client \ {c}
  <2>1. d \in S /\ IsFiniteSet(S)
    BY <1>1
  <2> HIDE DEF S
  <2>2. /\ IsFiniteSet(S \ {d})
        /\ Cardinality(S \ {d}) = IF d \in S THEN Cardinality(S) - 1 ELSE Cardinality(S)
    BY <2>1, FS_RemoveElement
  <2>3. QED
    BY <2>1, <2>2 DEF S
<1>3. f \in [users[c] -> Others]
  BY DEF IInv, TypeOK, User, NeverListsSelf, Listed
<1>4. \A u, v \in users[c] : f[u] = f[v] => u = v
  BY DEF IInv, NoDuplicateUsers
<1> HIDE DEF f, Others
<1>5. f \in Injection(users[c], Others)
  BY <1>3, <1>4, Fun_IsInj
<1>6. IsFiniteSet(users[c]) /\ Cardinality(users[c]) <= Cardinality(Others)
  BY <1>2, <1>5, FS_Injection
<1>7. /\ Cardinality(users[c]) \in Nat
      /\ Cardinality(Client) \in Nat
      /\ Cardinality(Client) <= MaxUsers + 1
  BY <1>6, FS_CardinalityType DEF RoomForAll
<1>8. QED
  BY <1>1, <1>2, <1>6, <1>7, BoundAssumption

\* What a client shows follows what it lists.
LEMMA DisplayedStep ==
    ASSUME IInv, IInv', DisplayedHostsAreListed, [Next]_vars
    PROVE  DisplayedHostsAreListed'
<1> SUFFICES ASSUME RoomForAll, NEW c \in Client, NEW d \in Client
             PROVE  hosts'[c][d] <= (IF Listed(c, d)' THEN 1 ELSE 0)
  BY DEF DisplayedHostsAreListed, RoomForAll
<1>1. hosts[c] \in [Client -> 0..MaxLines] /\ hosts[c][d] \in Nat
  BY BoundAssumption DEF IInv, TypeOK
<1>2. hosts[c][d] <= (IF Listed(c, d) THEN 1 ELSE 0)
  BY DEF DisplayedHostsAreListed
<1>3. CASE Keeps(c)
  <2>1. Listed(c, d) => Listed(c, d)'
    BY <1>3 DEF Keeps, Known, Listed
  <2>2. QED
    BY <1>1, <1>2, <1>3, <2>1 DEF Keeps
<1>4. CASE Dies(c)
  BY <1>4 DEF Dies, NoLines
<1>5. CASE Searches(c)
  BY <1>1, <1>2, <1>5 DEF Searches, Listed
<1>6. CASE Shows(c)
  <2>1. PICK e \in Client \ {c} :
           /\ ~Listed(c, e)
           /\ users'[c] = InsertUser(users[c], NewUser(e))
           /\ hosts'[c] = [hosts[c] EXCEPT ![e] = @ + 1]
    BY <1>6 DEF Shows
  <2>2. ~(Cardinality(users[c]) >= MaxUsers)
    BY <2>1, RoomForOneMore
  <2>3. users'[c] = users[c] \cup {NewUser(e)}
    BY <2>1, <2>2 DEF InsertUser
  <2>4. Listed(c, d)' <=> Listed(c, d) \/ d = e
    <3>1. NewUser(e).name = e
      BY DEF NewUser
    <3>2. QED
      BY <2>3, <3>1 DEF Listed
  <2>5. CASE d = e
    <3>1. hosts[c][d] = 0
      BY <1>1, <1>2, <2>1, <2>5
    <3>2. hosts'[c][d] = 1
      BY <1>1, <2>1, <2>5, <3>1
    <3>3. QED
      BY <2>4, <2>5, <3>2
  <2>6. CASE d /= e
    BY <1>1, <1>2, <2>1, <2>4, <2>6
  <2>7. QED
    BY <2>5, <2>6
<1>7. CASE Parts(c)
  <2>1. PICK u \in users[c] :
           /\ users'[c] = users[c] \ {u}
           /\ hosts'[c] = [hosts[c] EXCEPT ![u.name] = HostRemoved(@)]
    BY <1>7 DEF Parts
  <2>2. CASE d = u.name
    <3>1. hosts[c][d] <= 1
      BY <1>1, <1>2
    <3>2. hosts'[c][d] = 0
      BY <1>1, <2>1, <2>2, <3>1 DEF HostRemoved
    <3>3. QED
      BY <3>2
  <2>3. CASE d /= u.name
    <3>1. Listed(c, d)' <=> Listed(c, d)
      BY <2>1, <2>3 DEF Listed
    <3>2. hosts'[c][d] = hosts[c][d]
      BY <1>1, <2>1, <2>3
    <3>3. QED
      BY <1>2, <3>1, <3>2
  <2>4. QED
    BY <2>2, <2>3
<1>8. Effect(c)
  BY StepEffect DEF IInv
<1>9. QED
  BY <1>3, <1>4, <1>5, <1>6, <1>7, <1>8 DEF Effect

\* With at most MaxUsers others, however many clients that is, nobody is shown
\* who is not in the list, and nobody twice.
THEOREM DisplayedAreListed == Spec => []DisplayedHostsAreListed
<1>1. Init => DisplayedHostsAreListed
  BY DEF Init, NoLines, DisplayedHostsAreListed, Listed
<1>2. IInv /\ IInv' /\ DisplayedHostsAreListed /\ [Next]_vars => DisplayedHostsAreListed'
  BY DisplayedStep
<1>3. QED
  BY <1>1, <1>2, Invariance, PTL DEF Spec

\* For every pair of limits the timeout of a client that stays up shrinks only
\* when its last user leaves, and then to its first value.
THEOREM BackoffIsUndone == Spec => BackoffRestartsWithSearch
<1>1. ASSUME IInv, [Next]_vars, NEW c \in Client
      PROVE  BackoffStep(c)
  <2> SUFFICES ASSUME running'[c]
               PROVE  IF users[c] /= {} /\ users'[c] = {}
                      THEN timeout'[c] = InitTimeout
                      ELSE timeout'[c] >= timeout[c]
    BY DEF BackoffStep
  <2>1. /\ timeout[c] \in Nat /\ timeout[c] <= MaxTimeout
        /\ MaxTimeout \in Nat
    <3>1. timeout[c] \in InitTimeout..MaxTimeout
      BY <1>1 DEF IInv, TypeOK
    <3>2. QED
      BY <3>1, ConfigAssumption
  <2>2. CASE Keeps(c)
    <3>1. users[c] /= {} => users'[c] /= {}
      BY <2>2 DEF Keeps, Known
    <3>2. QED
      BY <2>1, <2>2, <3>1 DEF Keeps
  <2>3. CASE Searches(c)
    BY <2>1, <2>3 DEF Searches, Doubled
  <2>4. CASE Shows(c)
    <3>1. users[c] \subseteq users'[c]
      BY <2>4 DEF Shows, InsertUser
    <3>2. QED
      BY <2>1, <2>4, <3>1 DEF Shows
  <2>5. CASE Parts(c)
    BY <2>1, <2>5 DEF Parts, TimeoutAfterRemoval
  <2>6. QED
    BY <1>1, <2>2, <2>3, <2>4, <2>5, StepEffect DEF IInv, Effect, Dies
<1>2. IInv /\ [Next]_vars => [\A c \in Client : BackoffStep(c)]_vars
  BY <1>1
<1>3. QED
  BY <1>2, Invariance, PTL DEF Spec, BackoffRestartsWithSearch

-----------------------------------------------------------------------------
(* Refinement                                                              *)

\* The names a client knows, and how a step changes them.
K == [c \in Client |-> Known(c)]

\* Presence counts as FiniteSets does.
LEMMA SameCardinality == \A S : P!Cardinality(S) = Cardinality(S)
  BY DEF P!Cardinality, Cardinality

\* There are as many names as nodes.
LEMMA KnownCardinality ==
    ASSUME IInv, NEW c \in Client
    PROVE  Cardinality(Known(c)) = Cardinality(users[c]) /\ Cardinality(users[c]) \in Nat
<1> DEFINE f == [u \in users[c] |-> u.name]
<1>1. IsFiniteSet(users[c]) /\ \A u, v \in users[c] : u.name = v.name => u = v
  BY DEF IInv, ListsAreFinite, NoDuplicateUsers
<1>2. f \in [users[c] -> Known(c)] /\ \A d \in Known(c) : \E u \in users[c] : f[u] = d
  BY DEF Known
<1>3. \A u, v \in users[c] : f[u] = f[v] => u = v
  BY <1>1
<1> HIDE DEF f
<1>4. f \in Injection(users[c], Known(c)) /\ f \in Surjection(users[c], Known(c))
  BY <1>2, <1>3, Fun_IsInj, Fun_IsSurj
<1>5. Cardinality(Known(c)) = Cardinality(users[c])
  BY <1>1, <1>4, FS_Surjection
<1>6. QED
  BY <1>1, <1>5, FS_CardinalityType

\* The end of a process.
LEMMA GoneStops ==
    ASSUME TypeOK, NEW c \in Client, running[c], Gone(c)
    PROVE  P!Stops(c)
<1>1. users' = [users EXCEPT ![c] = {}] /\ running' = [running EXCEPT ![c] = FALSE]
  BY DEF Gone
<1>2. \A x \in Client : Known(x)' = IF x = c THEN {} ELSE Known(x)
  BY <1>1 DEF TypeOK, Known
<1>3. K' = [K EXCEPT ![c] = {}]
  BY <1>2 DEF K
<1>4. QED
  BY <1>1, <1>3 DEF P!Stops, K

\* It may end without a word.
LEMMA GoneLeaves ==
    ASSUME TypeOK, NEW c \in Client, running[c], Gone(c), net' = net
    PROVE  P!Leave(c)
<1>1. P!Says(c, "closing")
  <2>1. {} \in SUBSET Client
        /\ net' = net \cup {[type |-> "closing", from |-> c, to |-> d] : d \in {}}
    OBVIOUS
  <2>2. QED
    BY <2>1 DEF P!Says
<1>2. QED
  BY <1>1, GoneStops DEF P!Leave

\* A broadcast is heard by those at the sender's port.
LEMMA BroadcastSays ==
    ASSUME NEW c \in Client, NEW type, net' = net \cup Broadcast(c, type)
    PROVE  P!Says(c, type)
<1>1. {e \in Client : UdpPort[e] = UdpPort[c]} \in SUBSET Client
  OBVIOUS
<1>2. QED
  BY <1>1 DEF P!Says, Broadcast

\* A datagram of a stranger, whatever it does to sockets and descriptors.
LEMMA StrangerIsLearned ==
    ASSUME IInv, NEW m \in net, m.type \in {"discovery", "reply"},
           running[m.to], running' = running,
           ~Listed(m.to, m.from), m.from /= m.to,
           NEW u, u.name = m.from,
           users' = [users EXCEPT ![m.to] = InsertUser(@, u)],
           \/ net' = net \ {m}
           \/ /\ m.type = "discovery"
              /\ net' = (net \ {m}) \cup {[type |-> "reply", from |-> m.to, to |-> m.from]}
    PROVE  P!Learn(m)
<1> DEFINE c == m.to
<1>1. c \in Client
  BY DEF IInv, TypeOK, Datagram
<1>2. m.from \notin Known(c)
  BY DEF Listed, Known
<1>3. Cardinality(Known(c)) = Cardinality(users[c]) /\ Cardinality(users[c]) \in Nat
  BY <1>1, KnownCardinality
<1>4. users'[c] = IF Cardinality(Known(c)) < MaxUsers THEN users[c] \cup {u} ELSE users[c]
  <2>1. users'[c] = InsertUser(users[c], u)
    BY <1>1 DEF IInv, TypeOK
  <2> DEFINE n == Cardinality(users[c])
  <2>2. n \in Nat /\ MaxUsers \in Nat /\ Cardinality(Known(c)) = n
    BY <1>3, BoundAssumption
  <2>3. users'[c] = IF n >= MaxUsers THEN users[c] ELSE users[c] \cup {u}
    BY <2>1 DEF InsertUser
  <2> HIDE DEF n
  <2>4. QED
    BY <2>2, <2>3
<1>5. Known(c)' = IF Cardinality(Known(c)) < MaxUsers
                  THEN Known(c) \cup {m.from} ELSE Known(c)
  <2>1. {v.name : v \in users[c] \cup {u}} = Known(c) \cup {m.from}
    BY DEF Known
  <2>2. Known(c)' = {v.name : v \in users'[c]} /\ Known(c) = {v.name : v \in users[c]}
    BY DEF Known
  <2>3. CASE Cardinality(Known(c)) < MaxUsers
    BY <1>4, <2>1, <2>2, <2>3, Zenon
  <2>4. CASE ~(Cardinality(Known(c)) < MaxUsers)
    BY <1>4, <2>2, <2>4, Zenon
  <2>5. QED
    BY <2>3, <2>4
<1>6. \A x \in Client \ {c} : Known(x)' = Known(x)
  BY <1>1 DEF IInv, TypeOK, Known
<1>7. K[c] = Known(c) /\ P!Cardinality(K[c]) = Cardinality(Known(c))
  BY <1>1, SameCardinality DEF K
<1>8. K' = [K EXCEPT ![c] = IF P!Cardinality(K[c]) < MaxUsers
                            THEN K[c] \cup {m.from} ELSE K[c]]
  <2> DEFINE new == IF P!Cardinality(K[c]) < MaxUsers THEN K[c] \cup {m.from} ELSE K[c]
  <2>1. Known(c)' = new
    BY <1>5, <1>7
  <2> HIDE DEF new
  <2>2. K' = [K EXCEPT ![c] = new]
    BY <1>1, <1>6, <2>1 DEF K
  <2>3. QED
    BY <2>2 DEF new
<1>9. m.from \notin K[c]
  BY <1>2, <1>7
<1>10. QED
  BY <1>8, <1>9 DEF P!Learn, K

\* A datagram that is only taken off the network.
LEMMA DatagramVanishes ==
    ASSUME NEW m \in net, net' = net \ {m}, running' = running, users' = users
    PROVE  P!Vanish(m)
<1>1. K' = K
  BY DEF K, Known
<1>2. QED
  BY <1>1 DEF P!Vanish, K

\* What UDPMessageReceived() does to the lists and the network.
LEMMA ReceiveIsHeard ==
    ASSUME IInv, NEW m \in net, Receive(m)
    PROVE  P!Fail(m) \/ P!Vanish(m) \/ P!Learn(m) \/ P!Forget(m)
<1> DEFINE c == m.to
           d == m.from
<1>1. TypeOK /\ c \in Client /\ d \in Client
  BY DEF IInv, TypeOK, Datagram
<1>2. CASE OwnBroadcast(m) \/ NothingToDo(m)
  BY <1>2, DatagramVanishes DEF OwnBroadcast, NothingToDo, Receives
<1>3. CASE DiscoveryMsgHandler(m)
  <2> DEFINE u == NewUser(d)
  <2>1. /\ m.type = "discovery" /\ running[c] /\ running' = running
        /\ ~Listed(c, d) /\ d /= c /\ u.name = d
        /\ users' = [users EXCEPT ![c] = InsertUser(@, u)]
    BY <1>3 DEF DiscoveryMsgHandler, HostIsMe, NewUser
  <2>2. ReplyTo(c, u) \in {{}, {[type |-> "reply", from |-> c, to |-> d]}}
    BY <2>1 DEF ReplyTo
  <2>3. \/ net' = net \ {m}
        \/ net' = (net \ {m}) \cup {[type |-> "reply", from |-> c, to |-> d]}
    BY <1>3, <2>2 DEF DiscoveryMsgHandler
  <2> HIDE DEF u
  <2>4. QED
    BY <2>1, <2>3, StrangerIsLearned
<1>4. CASE ReplyMsgHandler(m)
  <2>1. ReplyFromUnlisted(m)
    BY <1>4 DEF ReplyMsgHandler, ReplyConnected, ReplyNotConnected,
         ReplyUnresolved, ReplySigpipe, ReplyKilled
  <2>2. /\ m.type = "reply" /\ running[c] /\ net' = net \ {m}
        /\ ~Listed(c, d) /\ d /= c
    BY <2>1 DEF ReplyFromUnlisted, Receives, IInv, RepliesFromOthers
  <2>3. CASE ReplySigpipe(m) \/ ReplyKilled(m)
    <3>1. Gone(c)
      BY <2>3 DEF ReplySigpipe, ReplyKilled
    <3>2. P!Stops(c)
      BY <1>1, <2>2, <3>1, GoneStops
    <3>3. QED
      BY <2>2, <3>2 DEF P!Fail
  <2>4. CASE ReplyConnected(m) \/ ReplyNotConnected(m) \/ ReplyUnresolved(m)
    <3>1. /\ running' = running
          /\ \E u : u.name = d /\ users' = [users EXCEPT ![c] = InsertUser(@, u)]
      <4>1. /\ NewUser(d).name = d
            /\ [NewUser(d) EXCEPT !.fd = ReplySocket(c)].name = d
            /\ [NewUser(d) EXCEPT !.fd = ReplySocket(c), !.connected = TRUE].name = d
        BY DEF NewUser
      <4>2. QED
        BY <2>4, <4>1 DEF ReplyConnected, ReplyNotConnected, ReplyUnresolved
    <3>2. QED
      BY <2>2, <3>1, StrangerIsLearned
  <2>5. QED
    BY <1>4, <2>3, <2>4 DEF ReplyMsgHandler
<1>5. CASE ClosingMsgHandler(m)
  <2>1. PICK u \in users[c] : u.name = d /\ users' = [users EXCEPT ![c] = @ \ {u}]
    BY <1>5 DEF ClosingMsgHandler
  <2>2. /\ m.type = "closing" /\ running[c] /\ running' = running
        /\ net' = net \ {m} /\ d /= c
    BY <1>5 DEF ClosingMsgHandler, Receives, HostIsMe
  <2>3. \A v \in users[c] : v.name = u.name => v = u
    BY <1>1 DEF IInv, NoDuplicateUsers
  <2>4. Known(c)' = Known(c) \ {d} /\ d \in Known(c)
    <3>1. users'[c] = users[c] \ {u}
      BY <1>1, <2>1 DEF TypeOK
    <3>2. QED
      BY <2>1, <2>3, <3>1 DEF Known
  <2>5. \A x \in Client \ {c} : Known(x)' = Known(x)
    BY <1>1, <2>1 DEF TypeOK, Known
  <2>6. K' = [K EXCEPT ![c] = @ \ {d}] /\ d \in K[c]
    BY <1>1, <2>4, <2>5 DEF K
  <2>7. QED
    BY <2>2, <2>6 DEF P!Forget, K
<1>6. QED
  BY <1>2, <1>3, <1>4, <1>5 DEF Receive

\* What TCPMessageReceived() does to them.
LEMMA AcceptIsUnheard ==
    ASSUME IInv, NEW c \in Client, TCPMessageReceived(c)
    PROVE  P!Leave(c) \/ UNCHANGED P!vars
<1>1. CASE AcceptRequest(c)
  <2> DEFINE d == Head(backlog[c]).from
             New(u) == IF u.name = d THEN [u EXCEPT !.fd = Accepted(c)] ELSE u
  <2>1. /\ users' = [users EXCEPT ![c] = {New(u) : u \in @}]
        /\ UNCHANGED <<running, net>>
    BY <1>1 DEF AcceptRequest
  <2>2. \A u \in users[c] : New(u).name = u.name
    BY DEF IInv, TypeOK, User
  <2> HIDE DEF New
  <2>3. users'[c] = {New(u) : u \in users[c]} /\ \A x \in Client \ {c} : users'[x] = users[x]
    BY <2>1 DEF IInv, TypeOK
  <2>4. \A x \in Client : Known(x)' = Known(x)
    <3>1. Known(c)' = Known(c)
      BY <2>2, <2>3 DEF Known
    <3>2. QED
      BY <2>3, <3>1 DEF Known
  <2>5. K' = K
    BY <2>4 DEF K
  <2>6. QED
    BY <2>1, <2>5 DEF P!vars, K
<1>2. CASE AcceptCrash(c)
  BY <1>2, GoneLeaves DEF AcceptCrash, Accepts, IInv
<1>3. CASE AcceptNoRequest(c)
  BY <1>3 DEF AcceptNoRequest, P!vars, Known
<1>4. QED
  BY <1>1, <1>2, <1>3 DEF TCPMessageReceived

\* Discovery implements Presence: for every number of clients, every setting of
\* the ports, every size of the lists and every choice of faults, each step is
\* a step of Presence or changes nothing that Presence speaks of.
THEOREM Refinement == Spec => ImplementsPresence
<1>1. Init => P!Init
  BY DEF Init, P!Init, Known
<1>2. IInv /\ [Next]_vars => [P!Next]_P!vars
  <2> SUFFICES ASSUME IInv, [Next]_vars PROVE [P!Next]_P!vars
    OBVIOUS
  <2>1. ASSUME NEW c \in Client, Start(c) PROVE P!Enter(c)
    BY <2>1 DEF Start, P!Enter, Known
  <2>2. ASSUME NEW c \in Client, Timeout(c) PROVE P!Search(c)
    <3>1. P!Says(c, "discovery")
      BY <2>2, BroadcastSays DEF Timeout
    <3>2. running[c] /\ running' = running /\ users' = users /\ K[c] = {}
      BY <2>2 DEF Timeout, IsEmpty, K, Known
    <3>3. K' = K
      BY <3>2 DEF K, Known
    <3>4. QED
      BY <3>1, <3>2, <3>3 DEF P!Search, K
  <2>3. ASSUME NEW c \in Client, PollError(c) PROVE P!Leave(c)
    <3>1. P!Says(c, "closing")
      BY <2>3, BroadcastSays DEF PollError
    <3>2. P!Stops(c)
      BY <2>3, GoneStops DEF PollError, IInv
    <3>3. QED
      BY <3>1, <3>2 DEF P!Leave
  <2>4. ASSUME NEW c \in Client, Kill(c) PROVE P!Leave(c)
    BY <2>4, GoneLeaves DEF Kill, IInv
  <2>5. ASSUME NEW c \in Client, TCPMessageReceived(c)
        PROVE  P!Leave(c) \/ UNCHANGED P!vars
    BY <2>5, AcceptIsUnheard
  <2>6. ASSUME NEW m \in net, Receive(m)
        PROVE  P!Fail(m) \/ P!Vanish(m) \/ P!Learn(m) \/ P!Forget(m)
    BY <2>6, ReceiveIsHeard
  <2>7. ASSUME NEW m \in net, Lose(m) \/ Undeliverable(m) PROVE P!Vanish(m)
    BY <2>7, DatagramVanishes DEF Lose, Undeliverable
  <2>8. CASE UNCHANGED vars
    BY <2>8 DEF vars, P!vars, Known
  <2>9. QED
    BY <2>1, <2>2, <2>3, <2>4, <2>5, <2>6, <2>7, <2>8 DEF Next, P!Next
<1>3. QED
  BY <1>1, <1>2, Invariance, PTL DEF Spec, ImplementsPresence, P!Spec
=============================================================================
