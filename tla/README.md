# LP2PM in TLA+

A verification development for P2P Messaging System (`LP2PM_*`): a terminal
messenger whose clients find each other on a LAN by UDP broadcast and talk over
TCP. It holds TLA+ modules translated from the source, the TLC configurations
that check them on small instances, and proofs that TLAPS checks for instances
of every size.

Run a configuration with `tlc -config DiscoverySafety.cfg MCDiscovery.tla`, the
proofs with `tlapm` on `SetInduction.tla`, `DescriptorProofs.tla`,
`DiscoveryProofs.tla`, `SessionProofs.tla`, `InputProofs.tla`,
`UserListProofs.tla`, `PacketProofs.tla` and `MessageWindowProofs.tla`.
`PROJECT.json` maps every definition to the lines it models and lists runs, mutants, findings,
hazards and theorems.

## 1. The system

| Component | State | Operations | Talks to |
|---|---|---|---|
| Client (`LP2PM_Client`) | `UDP_socket`, `TCP_socket`, `users`, `current_broadcast_timeout`, the packets just read, availability | the `poll()` loop `listenForAction()`; a handler per event: UDP, TCP connection, keyboard, user socket, timeout, error; a sender per packet type | everything below; other clients by UDP and TCP |
| User (`LP2PM_User`) | name, host, ports, `TCP_socket`, `user_connected`, two packets, message history | `init()`, `establishTCP()`, `shutdown()`, destructor | the kernel's descriptor table |
| UserList | linked `UserNode`s, `size`, the static cursor of `getUser()` | `insert`, `remove`, `pop`, `retrieve`, `getUser`, `clearList` | owns the users |
| HostList | linked `HostNode`s, `length` | `push`, `remove`, `retrieve`, `get` | owned by Display |
| Packet (`LP2PM_Packet`) | 512 bytes, `packet_size` | a `create*` per type, getters by position, `setSize` | Client, User |
| Display (`LP2PM_Display`) | message and console histories, To and Message lines, the panel on top | `updateDisplay(ch)`, `getToLine`, `addNewMessage`, `addNewHost`, ... | called by Client |
| Exception, Macros | none | none | |

A client is one thread around `poll()`. A handler runs to its end before the
next event is looked at, so concurrency is between clients, and between a
client and the network and the kernel. Hard are therefore:

* datagrams that cross, overtake each other or get lost (Discovery, Reply,
  Closing) against lists that each client keeps for itself;
* the death of a process at any point, without a Closing;
* descriptors: `LP2PM_User` has a destructor that closes its socket and no copy
  constructor, and `UserList` takes users by value, so the same number is
  closed again and again while the kernel gives it to others;
* two lists of the same people, `users` and the host window, updated apart;
* the static cursor of `getUser()`, which outlives the nodes it points to;
* limits: number of users, 512 bytes, 32 characters, three words.

What makes each component correct:

* **Discovery**: clients that stay up find each other (with the default ports only
  some do, see `NobodyStaysAlone`); nobody lists himself or
  anybody twice; whom the host window shows is in the list, and stands there
  once; back-off ends with the search; nothing that happens to a user touches the server sockets.
* **UserList**: after any sequence of calls the list is the sequence of users
  inserted and not removed; no node leaks or dangles. (`getUser(i)` should be the
  i-th user, and is not: `GetUserStale`.)
* **Sessions**: what is sent to a user goes to that user; no packet and no
  command closes somebody's connection; no user's socket is the keyboard or a
  server socket.
* **Event loop**: a message that has arrived is shown in the end. (That takes
  conditions, see `MessagesAreShown`.)
* **Packet**: what is read is what was written, however often the buffer was
  used; nothing the program can hold is too long for it.
* **Display**: a history is the last lines added; wrapping loses no word and
  ends; the To line is parsed into the command and the names that were typed. (The
  command is; nothing ends the names.)

`PROJECT.json` lists the hazards behind these with the line where each bites.

### How the code is read

The repository does not compile as it stands. Its names are read as follows.

| Written | Read as | Where |
|---|---|---|
| `temp_tcp_socket` | `new_tcp_socket` | `LP2PM_Client.cc:329` |
| `userUnavailableMsgHandler`, `sendDicontinueComMsg`, `sendDeclineMsg` | the decline handler, the senders of Discontinue and Decline | `:550`, `:421`, `:415` |
| `establishTCP()` without arguments, with `port` | the user's own `TCP_port` | `LP2PM_User.cc:50`, `:68` |
| `tcp_port` | `TCP_port` | `LP2PM_Client.cc:137` |
| `user->closeTCPSocket()` | `close(user->TCP_socket)` | `:754` |
| `user_established` | nothing | `LP2PM_User.cc:128` |
| `LP2PM_Userlist::`, `toUppercase` | `UserList::`, `toUpperCase` | `LP2PM_Userlist.cc:6-13` |
| `sendUDPPacketUni(user->outgoing_packet, ...)` | the packet's address | `LP2PM_Client.cc:930` |
| `tcp_connection`, `user->username` and other private members used outside | accessible | several |

## 2. The modules

| Module | What it is |
|---|---|
| `Descriptors` | the descriptor table of a process, used by the next two |
| `Discovery` | the clients of a LAN as the network and the kernel see them |
| `Presence` | what discovery promises: who is up, who knows whom, which words are in flight |
| `Session` | one client, its user and the peers it meets: connections, packets, commands |
| `InputLines` | the To line and the Message line, up to the command that goes to `Session` |
| `UserList` | the linked list on a heap, with the cursor of `getUser()` |
| `UserSequence` | what a user list is: a bounded sequence of users |
| `Packet` | the buffer of a packet, byte by byte, at the sender and at the receiver |
| `MessageWindow` | the message window and the console of the display |
| `MC...` | constants for TLC |
| `SetInduction` | induction over the naturals, for the proofs |
| `DescriptorProofs`, `DiscoveryProofs`, `SessionProofs`, `InputProofs`, `UserListProofs`, `PacketProofs`, `MessageWindowProofs` | theorems |

`Discovery` and `Session` look at the same client from two sides. `Discovery` has
several clients, whose lists are sets; what a client does with a connection once
it is accepted is left out. `Session` has one client, whose list is a sequence,
and peers that do what the protocol allows; which datagrams arrive when is left
open, so that every order `Discovery` allows is covered. Both use `Descriptors`.

### Discovery

| Variable | Code |
|---|---|
| `running` | the process exists |
| `users[c]` | the `UserNode`s of `users`; their order is left to `UserList` |
| `hosts[c][d]` | how many lines of `HostList` show `d` |
| `timeout[c]` | `current_broadcast_timeout` |
| `fds[c]` | the descriptor table of the process: standard input, the UDP and the listening socket, connections |
| `backlog[c]` | connections that wait for `accept()` |
| `net` | datagrams in flight |

| Action | Code |
|---|---|
| `Start` | constructor, `init()`, `start()` |
| `Timeout` | `poll()` returned 0 |
| `PollError` | `poll()` returned -1; Closing is broadcast and the process ends |
| `Kill` | the process ends, no Closing |
| `OwnBroadcast` | the filter of `UDPMessageReceived()` |
| `NothingToDo` | the early returns of the three handlers |
| `DiscoveryMsgHandler` | the whole handler: user built, Reply sent, inserted, shown, local copy destroyed |
| `ReplyConnected`, `ReplyNotConnected`, `ReplyUnresolved`, `ReplySigpipe`, `ReplyKilled` | the outcomes of `replyMsgHandler()`: `establishTCP()` succeeds, fails in `connect()` or `socket()`, fails in `gethostbyname()`, `write()` raises SIGPIPE, the process dies between `connect()` and `write()` |
| `ClosingMsgHandler` | `remove()`, `removeHost()`, the reset of the timeout |
| `AcceptRequest`, `AcceptCrash`, `AcceptNoRequest` | `TCPMessageReceived()`: user found, null pointer, no REQUEST |
| `Lose`, `Undeliverable` | the network |

Abstractions, and why they are sound for the properties:

* A client is its `user@host` pair and one client runs per host. Descriptors 1
  and 2 are never opened or closed by the code and are left out.
* `net` is a set: two identical datagrams in flight at the same time count as
  one. Datagrams arrive in any order.
* Sockets are opened in `init()`; that `socket()` or `bind()` fails there is not
  modelled (the return values are ignored, and nothing works afterwards).
* A peer's connection is at its end as soon as it is accepted, because the
  other side's destructor has closed it. The reads from such a socket (user
  sockets, event 4 of the loop) change nothing of this state.
* `connect()` to a full backlog fails. (The kernel may also let it wait.)
* A packet that the program did not write is not modelled.
* The keyboard and the packets on a connection are left to `Session`.

### Presence

`Presence` has no ports, sockets, descriptors, windows or timeouts: `up`, `knows`
and `words`, onto which `Discovery` maps `running`, the names in `users`, and
`net`. It says what a client does with others for any setting of the ports and any
fault: it asks around only while it knows nobody (`Search`); it learns of a peer by
that peer's own question or answer, once, and only while there is room (`Learn`);
it answers a question at most once, only if the asker was a stranger, and never
answers an answer; it forgets on a goodbye (`Forget`) and when it goes down
(`Leave`; `Fail` is going down over a word). Words are lost, delayed and overtaken,
and outlive who said them, but are not made up and not heard twice. Stale
entries are part of it: a goodbye that is lost, or arrives before the question,
leaves one, as in the code.

### Session

| Variable | Code |
|---|---|
| `users` | the `UserNode`s from `head` on: name, `TCP_socket`, `user_connected` |
| `away` | `user_availability_status` |
| `cursor` | the statics `last_index` and `last_p` of `getUser()` |
| `fds`, `conn` | the descriptor table, and what has arrived on each connection |
| `backlog` | connections that wait for `accept()`, and what has arrived on them |
| `at` | at `poll()`, in the `read()` after `accept()`, in the `read()` of a user's socket, or gone |
| `out` | what the last step wrote: a packet to a peer, or a message to the window |

| Action | Code |
|---|---|
| `DiscoveryMsgHandler`, `ReplyConnected`, `ReplyNotConnected`, `ReplyUnresolved`, `ReplySigpipe`, `ClosingMsgHandler` | the datagram handlers, with what they do to list and descriptors |
| `Accept`; `FirstRequest`, `FirstRequestCrash`, `NoRequest` | `TCPMessageReceived()` up to its `read()`; what follows it |
| `NothingSent`, `ChangeStatus`, `CommandCrash`, `SendMessage`, `SendRequestOrAccept`, `SendDeclineOrDiscontinue`, `CommandDies`, `OtherKeys` | `keyboardReceived()` |
| `UserReady`, `UserReadyCrash` | the loop over the user sockets, `getUser()` |
| `RequestMsgHandler`, `RequestDies`, `AcceptMsgHandler`, `DisconnectMsgHandler`, `MessageMsgHandler`, `UnknownPacket` | the `read()` and `TCPHandler()` with its handlers |
| `Connect`, `PeerWrites`, `PeerWritesFirst`, `PeerCloses`, `PeerClosesFirst` | the peers (external) |

A sender is `Send`: `write()` succeeds, or it fails and the sender closes the
number, or SIGPIPE ends the process (`SendDies`). Whether a write to a connection
whose peer is gone succeeds, fails or kills is up to the kernel, so all three are
possible. `KeyboardTurn` and `FirstReady` are the `else if` chain of the loop.

Abstractions, and why they are sound for the properties:

* One `read()` returns everything that has arrived and the first packet is
  handled; that it returns a part of a packet is not modelled.
* A datagram may arrive whenever the process is at `poll()`. The host window,
  the timeout and the Reply's datagram are in `Discovery`.
* When `accept()` fails nothing changes, so it is no action.
* A node that was freed is what `shutdown()` left, with socket 0, until its memory
  is used again: then it may be any other user.
* The client at the other end is not a second instance of this module: a peer
  sends a REQUEST first, then anything, is silent or closes. A peer running the
  same code does less than that.
* A descriptor that poll() is told about and that is closed, or is the UDP or the
  listening socket, is not `POLLIN`-ready for the code; a user's number never is
  a server socket's (proved).

### InputLines

`to_line`, `to_i`, `msg_line`, `msg_i` and `top` are the members of those names.
`Tab`, `Backspace` and `AddCharacter` are `updateDisplay()`; `Return` is
`keyboardReceived()` with `getToLine()`, `getMsgLine()` and `updateDisplay()` in
the order of the code, and its outcome is `result`. `toArguments` is modelled as
the rows lie in memory: `ToArguments` is the array after all `strcpy()`, so a word
that is too long runs into the next row and is cut by the next word. Once
something is written behind an array (`overrun`) nothing more happens. Whether
the user that is found is connected is free; that he is not found is
`CommandCrash` of `Session`. The line is known by its characters; `Says` reads
the same line by its text alone, without rows or buffers. `parseUserHost()` copies
each name with its length as the limit of `strncpy()`, so no final 0 is written into
`dest_user` and `dest_host`, which nobody initialises. `GetToLine` is therefore a
set: the names are followed by any `Leftover`, what memory holds up to the first 0,
or by nothing when a 0 happens to be there. An empty name is all leftover. `Words` goes through
the line once, as the loop of `parseToLineArguments()` does. `Nobody` and `Target`
are what `getToLine()` returns without and with names. `InputAssumption` says what
the sizes in `LP2PM_Macros.h` and `toupper()` satisfy: a name (32) fits into a row
(40), a row and an address into the array (3 rows), the commands are different
words that fit into a row, and upper case makes and removes no blank.

### UserList

The heap is explicit: `head`, and `next` and `user` of every node, `allocated`.
A freed node keeps its `next`, and its address may be returned by the next
`new`. The cursor of `getUser()` is part of the state; from a freed node the
model lets it find anything. (`Session` has the same cursor over a sequence.)
`retrieve()` ignores case, `remove()` does not:
names are folded by the constant operator `Folded`. Inserting without
`retrieve()` having failed is not modelled: both callers look first.

### Packet

`out` is a packet that its owner fills again and again, as `outgoing_packet` of
a user or a local packet of the client; `in` is one that is read into again and
again (`UDP_in_packet`, `incoming_packet`). `sent` and `received` remember what
was asked of the creator. `CreateAnnouncement`, `CreateRequest`,
`CreateMessage` and `CreateBare` are the creators by the fields they write;
`Arrive` is `clearPacket()`, `recvfrom()` and `setSize()`, or `read()`, which
leaves the size alone. A failed assertion sets `aborted`, after which nothing
happens. `Started`, `Ports` and the operators below them are the private `add*`
functions in the order of the calls.

Names and messages are legal C strings, kept in arrays with room for the final
0 (`PacketAssumption`); the branches of `addHostname()` and `addUsername()` for
longer ones are therefore unreachable and left out. A read returns exactly one
packet: UDP guarantees it, TCP does not, and what follows from that is in
`Session`. The type DATA has no creator in the source.

### MessageWindow

`messages` and `console` are `msg_history` and `console_history`, a row being the
text before the first 0. `AddNewMessage` is `addNewMessage()` with `addNewLine()`,
`insertMsgLine()` and `moveMsgsUp()` under it: `Pieces` are the rows that the
recursion of `addNewLine()` inserts, `Endless` says that it never returns, after
which the process has `crashed`. `AddNewConsoleLine` is the function of that
name. `said` remembers the messages.

`strncpy()` has its last two arguments swapped in the source and is read as
copying `msg`. It overwrites the last 0 of a row of exactly `MAX_MSGS_CHARS`
characters. `moveMsgsUp()` then copies on into the row behind, which is
`clear_msg_line`; source and target overlap, the target lies below, and the copy
goes upwards, so the row arrives whole and its last character is cut off.
Characters are members of the constant `Char`; the header `user@host: ` is any
sequence.

## 3. What is checked

| Run | Shows |
|---|---|
| `DiscoverySafety` | types; server sockets stay open; nobody lists himself or anybody twice; every displayed host is listed, and displayed once; how the timeout backs off and starts over; the LAN implements `Presence` |
| `DiscoveryDefaults` | three clients with the default ports and real host names: each comes to know another or to be known by one |
| `Session` | types; server sockets stay open; the keyboard is no listed user's socket; packets and commands close no live connection |
| `SessionShown` | a message that is first on its user's socket is shown in the end, under conditions that are all in the property |
| `InputLines` | cursors stand at the ends of their lines; a line is taken for the command it says, and then overruns nothing; what is sent is shown; which lines overrun the arrays |
| `UserList` | the list is well formed, holds no user twice, and implements `UserSequence` |
| `Packet` | the getters return what the creators were given, across all reuses; no assertion fails |
| `MessageWindow` | the window shows the end of what was said; messages are cut at words; the recursion ends unless a word is as long as a row |
| `KeyboardLost`, `SessionMisdirected`, `SessionCoalesced`, `GetUserStale` | each finds one counterexample, see section 4 |

Every property of a passing run has a mutant in `PROJECT.json`: a change to one
mapped definition under which TLC finds that property violated. The variants
stand in the modules before the definitions they vary.

**Bounds.** *Discovery*: two clients with one peer each are enough for everything
a handler does, since a handler involves one peer; crossing, overtaking and
restarts all occur with two. `MaxFd = 5` leaves one free descriptor besides 0, so
both reuse and exhaustion happen; `Backlog = 1` makes `connect()` fail;
`MaxLines = 2` leaves the host window room for a wrong second line. The timeout
counts in units of the initial one and doubles once. `DiscoverySafety` loses
datagrams of every type. It gives both ports one number and clients the names of
their addresses, which the code does not do by default: only then do Replies
arrive and connections get accepted, and only then is every action taken.
`DiscoveryDefaults` has the ports of `LP2PM_Macros.h` and host names that are no
addresses, and three clients, so that one can be left out by two who know each
other.

*Session*: two peers, so that a number can pass from one user to another; a list
of two; one free descriptor, one pending connection. One packet waits at a time
(`MaxPackets = 1`); the four packet types are one of each kind of handler.
`SessionShown` has one peer and two free descriptors, so that he can have a
connection of his own and open others on which he is silent, and two packets that
wait, so that one `read()` may take both. Two users are beyond a liveness run's
states; `OthersQuiet`, and
`GetUser(i) = {p}` for a cursor that other users moved, are therefore conditions
that the passing run does not put to the test.

*InputLines*: lines of up to six characters over two letters, a blank and `@`; all
words of one or two letters are commands; what is left in memory is nothing, or one
character that cannot be typed. Rows of three and names of two
characters let words fill a row, run over it and run over the array.

*UserList* has room for three users, the least with a first, a middle and a last
node. *Packet* has a buffer of 19 bytes and arrays of 4 for names, so that the
longest announcement and the longest message both fill it to the last byte; ports
are 255 and 256, on both sides of the byte boundary. *MessageWindow* has four rows
of four characters, of which console lines may spoil two, and messages that are
empty, fit, fill a row with and without the 0, take up to four rows, and have a
word that is too long at the end or in front. `said` keeps as many messages as
there are rows; older ones are out of sight.

**Deadlock** is checked for `UserList` and `Packet`, not for `Discovery`: a LAN
on which nothing is in flight and every client knows somebody is at rest, and
that is no error. Nor is it for `MessageWindow`, `Session` and `InputLines`, where
a crash, or an overrun, is the end.

**Fairness** (`DiscoveryDefaults`). The loop calls `poll()` again after every
handler, so a timeout and a waiting connection are handled in the end (weak
fairness of `Timeout`, `TCPMessageReceived`) and so is a datagram in the socket
(weak fairness of `Receive`). A datagram the network may lose is received if it is
sent again and again (strong fairness), which is what one expects of a LAN. Stopped
clients are started (weak fairness of `Start`); nobody is killed in this run.

`NobodyStaysAlone` is what the code achieves under its own defaults. That all clients
come to list each other is false there, for three reasons: no Reply arrives, because
`setUDPPort()` and `setTCPPort()` store the ports the wrong way round; if it does,
because both ports have one number, accepting the connection that follows ends the
process unless the peer's host name is its address; and a client that knows somebody
stops searching.

**Fairness** (`SessionShown`, `SessionCoalesced`). The loop
calls `poll()` again after every handler, and what is ready at the front of the
chain is handled: weak fairness of `Accept`, `TCPMessageReceived`, of the loop over
the users, of `TCPHandler`, and of `KeyboardReceived` when descriptor 0 is a
connection with something to read. Nothing is assumed of anybody else: the user
need not type (nor does he type without pause), datagrams need not arrive, and
peers may be silent for ever.

What a message needs to be shown stands in `MessagesAreShown` itself: it is the
first thing to read on its user's own socket; no `read()` waits for ever
(`[]<>(at = AtPoll)`); and from some time on the loop reaches the user
(`LoopReaches`: no connection is left in the backlog, descriptor 0 is no connection,
`getUser()` finds the user who is ready) and no other user's socket is ready
(`OthersQuiet`). These are conditions of the property and not of the specification,
whose behaviours include those in which they fail: a peer that connects and says
nothing stops the client in the `read()` after `accept()`; a failing `accept()`
starves everything behind it; a user ahead in the list whose connection has ended is
ready for ever. `SessionCoalesced` drops the condition that the message is first,
and finds a counterexample.

## 4. What the code does not do

Each run below is a counterexample to a sentence of the repository.

* **KeyboardLost.** The destructor of a user without a connection closes
  descriptor 0. After the first Discovery the keyboard is gone and the loop
  never times out again.
* **SessionMisdirected.** A node keeps the number of its socket whatever becomes
  of the socket, and starts with 0. After descriptor 0 is closed the next
  connection gets that number; a REQUEST for a user whose name cannot be resolved
  is then written to that connection.
* **SessionCoalesced.** A peer connects and sends a REQUEST and a message; both
  are there when the client reads. `TCPMessageReceived()` takes both, looks at the
  first, and the message is gone.
* **GetUserStale.** `getUser()` resumes from a stale cursor.

`EndsUnlessLongWord` is a property that holds and a bug all the same: a word of
`MAX_MSGS_CHARS` characters, a pasted URL for instance, or a long To line, ends
the program.

Seen and not run:

* `setUDPPort()` stores into `TCP_port` and `setTCPPort()` into `UDP_port`
  (`LP2PM_User.cc:93-94`). A Reply goes to the searcher's TCP port number, so with the
  default ports it never arrives.
* `TCPMessageReceived()` looks for a user whose *host name* is the peer's address,
  and stores through the null pointer when there is none (`AcceptCrash`,
  `FirstRequestCrash`).
* `strncpy()` in `parseUserHost()` writes no final 0, so `retrieve()` and the message
  window get the name that was typed with what the stack held behind it
  (`LP2PM_Display.cc:361`).
* One silent peer stops the whole client (`LP2PM_Client.cc:335`), and a connection
  that its peer has closed is ready for ever and never closed here, so the users
  behind it in the list are not read (`:224`).
* A client broadcasts only while its own list is empty, so three clients may come
  to rest without all knowing each other.
* `addNewConsoleLine()` writes into `msg_history`, so the console stays blank
  (`LP2PM_Display.cc:455`).
* Byte 10 is Return and also the type of a DISCONTINUE: once descriptor 0 is a
  connection, such a packet sends whatever stands in the To line.
* F1 is compared with a `char` and never matches (`LP2PM_Client.cc:369`); comments
  on the packet layout, on threads (`LP2PM_Client.h:112`), on "50 seconds"
  (`LP2PM_Macros.h:96`), on -1 for "disconnected" (`LP2PM_User.h:83`, the code
  says 0, and -1 would read as connected).

## 5. What is proved

`DiscoveryProofs`, for every set of clients, every configuration of ports, host
names, timeouts, limits and faults (assumptions `ConfigAssumption` and
`BoundAssumption`, which only give the constants their types, a positive
timeout, and room for the two server sockets):

| Theorem | States |
|---|---|
| `TypeCorrect` | `Spec => []TypeOK` |
| `Invariance` | `Spec => []IInv` |
| `ServerSocketsStayOpen` | `Spec => []ServerSocketsOpen` |
| `NobodyListsItself` | `Spec => []NeverListsSelf` |
| `UsersAreUnique` | `Spec => []NoDuplicateUsers` |
| `DisplayedAreListed` | `Spec => []DisplayedHostsAreListed` |
| `BackoffIsUndone` | `Spec => BackoffRestartsWithSearch` |
| `Refinement` | `Spec => ImplementsPresence` |

`ServerSocketsOpen` is not inductive: a node that held the number of the UDP
socket would close it when it is removed. `SocketsApart` adds that no node
does. It is kept because `socket()` and `accept()` return numbers that are free
and the server sockets' are not (`LowestFreeIsFree`, from the least element of a
set of naturals); the only other number a node can hold is 0. `NeverListsSelf`
needs `RepliesFromOthers`: `UDPMessageReceived()` does not filter Replies, so
nobody must send one to himself; that follows from the filter on Discoveries.

`StepChange` carries the rest: every step leaves lists and tables alone or
changes those of one client in one of five ways (up, down, a user more, a user
less, a user's descriptor). The invariants are then proved for five cases instead
of eighteen actions.

The refinement goes by what happens in `Presence`: `BroadcastSays`, `GoneLeaves`
and `GoneStops` are the words and ends of a client, `StrangerIsLearned` is the user
more with its answer, `ReceiveIsHeard` the handlers, `AcceptIsUnheard` what TCP
does. A full list counts nodes and a full `knows` counts names; they agree
(`KnownCardinality`) because no two nodes have one name and lists are finite, hence
`ListsAreFinite` in `IInv`. A search needs an empty list, an answer a stranger: both
come from the guards of the handlers, not from the invariant.

`DisplayedHostsAreListed` has a hypothesis, `RoomForAll`: no more clients than a
list holds, and oneself. `insert()` refuses when the list is full, and
`discoveryMsgHandler()` shows the host nevertheless (a hazard); with
`NeverListsSelf` and `NoDuplicateUsers` a list that misses somebody has room for
him. `BackoffRestartsWithSearch` takes no more than `TypeOK` from the invariant,
and `StepEffect`: the timeout is between its first value and its maximum,
doubling stays there, and each kind of step says what becomes of it.

`SessionProofs`, for every set of peers, every size of the list, the backlog and
the descriptor table, and any number of packets (`SessionAssumption` types the
constants and keeps the names of peers apart from those of other uses of a
descriptor):

| Theorem | States |
|---|---|
| `TypeCorrect` | `Spec => []TypeOK` |
| `Invariance` | `Spec => []IInv` |
| `ServerSocketsStayOpen` | `Spec => []ServerSocketsOpen` |
| `KeyboardStaysNobodys` | `Spec => []KeyboardIsNobodys` |
| `TrafficClosesNoConnection` | `Spec => TrafficClosesNothing` |

Numbers are closed in three places (a destructor, `remove()`, a sender whose write
failed), and every one of them may be out of date. What keeps the server sockets
open is that no number that is ever read, written or closed is theirs:
`SocketsApart`, for the users' numbers and for the one a `read()` waits at. A user
gets a new number from `socket()` (free, hence neither a server socket nor an open
keyboard), from `accept()` by way of `at` (`AcceptedIsPeers`: a peer's connection
until the `read()` returns, since nothing else runs in between), or it is 0 after
0 has been closed. `Harmless` is that list; `ClosingKeeps` shows that a step that
hands out harmless numbers and closes no server socket keeps the invariant, and
the actions are instances of it. For `TrafficClosesNothing` it is enough that a
sender closes only after a failed write (`SendCloses`).

`InputProofs`, for every alphabet, every set of commands and every size of lines
and arrays (`InputAssumption`):

| Theorem | States |
|---|---|
| `TypeCorrect` | `Spec => []TypeOK` |
| `CursorsStayAtLineEnds` | `Spec => []CursorsAtLineEnds` |
| `SentMessagesAreShown` | `Spec => []SentIsShown` |
| `OnlyLongLinesOverrun` | `Spec => []OverrunNeedsLongLine` |
| `TypedIsRead` | `Spec => CommandIsWhatIsTyped` |

The four invariants together are inductive. `Erased` needs the cursor at the
line's end to shorten it by one; the rest is about `Return`. `WordsOfLine` says
what the loop makes of a line: one word more than there are blanks, each a run of
the line without a blank (`AreWordsOf`, kept by each character: `NextCharacter`).
`ArgumentIs` is about the array: a word that no later word runs over is read back
as it was written. That is always so for the last one (`LastArgumentIs`), which is
why the names do not depend on what a long first word does; and for a command in
front, which is shorter than its row. A word in row k that runs over the array's
end is either as long as a name's buffer or in a row too many, and there are as
many rows as blanks and one (`OnlyLongLinesDoNotFit`). `StatusIsRead`,
`AddressIsRead` and `RequestIsRead` are the three kinds of line of `Says`.
`TypedIsRead` says of the names no more than is so: what was typed is read, and
behind it any leftover, for every set of leftovers.

`UserListProofs`, for every set of addresses, names and ways to fold them, and
every limit (`ListAssumption`):

| Theorem | States |
|---|---|
| `Invariance` | `Spec => []IInv` |
| `TypeCorrect` | `Spec => []TypeOK` |
| `ListIsWellFormed` | `Spec => []WellFormed` |
| `UsersStayDistinct` | `Spec => []UsersAreDistinct` |
| `Refinement` | `Spec => ImplementsUserSequence` |

`WellFormed` speaks of what is reached by following `next`, and is not inductive
as it stands: nothing in it says where a removal leaves the links. `IInv` is that
the allocated nodes form a chain, a function from positions to nodes in which
each node's `next` is the one at the next position and no two hold one user.
`insert()`, `remove()` and `pop()` are then operations on that function, and the
abstract sequence is its composition with `user`. That no node occurs twice needs
no conjunct: two positions with one node would hold one user.

`PacketProofs`, for every size of the buffer and of the arrays that agree with
`PacketAssumption`, all names, messages and ports:

| Theorem | States |
|---|---|
| `PacketInvariance` | `Spec => []IInv` |
| `PacketTypes` | `Spec => []TypeOK` |
| `CreatorsNeverAbort` | `Spec => []NeverAborts` |
| `WhatIsSentIsRead` | `Spec => []RoundTrip` |

`RoundTrip` speaks of the receiver only. `IInv` adds that the sender's packet
`Carries` its fields (each string stands at its place with its 0 behind it) and
that its size is their `Extent`, so that reading `size` bytes reads all of them
(`PrefixCarries`). `AddWordSpec` and `AddStringSpec` say what the writers change
and what they leave alone, `WordKept` and `StringKept` that a later field does
not disturb an earlier one. `StringIsRead` ties `Holds` to the getters: the first
0 after `pos` is the string's own, because no byte of a C string is 0.

`MessageWindowProofs`, for every alphabet, every set of messages and console
texts and every size of the window of which console lines leave a row and a
column (`WindowAssumption`):

| Theorem | States |
|---|---|
| `TypeCorrect` | `Spec => []TypeOK` |
| `EndsExactly` | `Spec => []EndsUnlessLongWord` |
| `RowsAreShown` | `Spec => []LastRowsShown` |
| `WrapsBetweenWords` | `Spec => []WrapsAtWords` |

`IInv` is the conjunction of the first three; the fourth follows from
`EndsUnlessLongWord` (while the process runs no message has a long word) and
`PiecesWrap`, which is about `addNewLine()` alone. `EndlessIs` shows that the
recursion stops exactly when there is no long word: `LongFromStep` moves one
sentence on. `LastRowsShown` is kept because a row without its 0 ends in a blank
(`Row`), so that losing its last column to the copy in `moveMsgsUp()` changes
nothing that is seen (`ShowsNextRow`); `ShowsMessage` repeats that for the pieces
of a message. `KeptIs` covers the messages that `said` forgets.

Recursive functions are `CHOOSE` expressions, and nothing is known of one before
it is shown to exist. `SetInduction` derives upward and downward induction, about
*sets* of numbers, from the well-foundedness of `<`; `PiecesExist`, `FlattenIs`,
`InsertedIs` and `WordsAre` use it to build the function up to n, and again to show
that its values have their type. That is how induction over data is done here
without theorems that take an operator.

Only model-checked: liveness under fairness, `NobodyStaysAlone` and
`MessagesAreShown`. Every other property of a passing run has a theorem.

## 6. Plan

Done: discovery and its abstraction; sessions, commands and the order of events;
the input lines; the user list and its abstraction; packets; the message window;
proofs of every safety property, action property and refinement that a run checks.

Left:

1. Hazards without a property, where a text of the repository promises something.
2. The lines of the host window on the screen (`clearHostDisplay()`,
   `updateHostDisplay()`), which `Discovery` only counts.
3. `Session` over `UserList` instead of over a sequence with a cursor: the list
   operations of a session as an implementation of `UserSequence`.
4. Two clients as two instances of `Session` on one LAN. The state space of one
   with two peers is some 650,000 states, so this needs coarser steps.

## 7. Not modelled

Curses windows and panels, which are output; `LP2PM_Exception`, which is never
thrown; `findUser()`, `retrieveIPv4()`, `connectToRequestedClient()`,
`enableUDPdirect()` and `checkSockaddr()`, which nobody calls;
`getLocalHostInfo()`, called once by the constructor, whose result is the name of
the client; the message history of a user (`LP2PM_User.cc:166`), which is written
and never read. The links of `HostList` repeat those of `UserList`.
