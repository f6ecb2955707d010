---------------------------- MODULE InputLines -----------------------------
(***************************************************************************)
(* The To line and the Message line of LP2PM_Display: the keys that edit   *)
(* them, and what keyboardReceived() makes of them on Return, up to the    *)
(* command that goes to Session.                                           *)
(*                                                                         *)
(* The words of the To line are copied into the rows of toArguments, which *)
(* lie one behind the other: a word that is too long for its row runs into *)
(* the next one.  The names are copied without a '\0' into arrays that     *)
(* nobody has initialised, and are read with what is left behind them.     *)
(***************************************************************************)
EXTENDS Integers, SequencesExt, FiniteSetsExt

CONSTANTS
    Capital,        \* toupper(), a function on the characters that are typed
    Command,        \* the commands' words in capitals, by type
    MaxToChars,     \* MAX_TO_CHARS
    MaxMsgChars,    \* MAX_MSG_CHARS
    MaxWords,       \* MAX_TO_LINE_ARGUS
    WordSize,       \* MAX_TO_LINE_LEN, the '\0' included
    NameSize,       \* MAX_USERNAME_LENGTH, MAX_HOSTNAME_LENGTH
    Byte,           \* the characters there are in memory, without '\0'
    Leftover        \* what memory holds up to the first '\0'

Char == DOMAIN Capital
Blank == " "
At == "@"
Nul == "NUL"

StatusType == {"away", "here"}
RequestType == {"request", "accept", "decline", "discontinue"}

\* toupper() makes and takes away no blank; the commands are different words
\* without '@' that fit into a row; a name fits into a row, and an address
\* into the rows behind the first one.  A '\0' may already be where a name ends.
ASSUME InputAssumption ==
    /\ {Blank, At} \subseteq Char /\ Char \subseteq Byte /\ Nul \notin Byte
    /\ Leftover \subseteq Seq(Byte) /\ <<>> \in Leftover
    /\ \A ch \in Char : Capital[ch] = Blank <=> ch = Blank
    /\ Capital[At] = At
    /\ DOMAIN Command = StatusType \cup RequestType
    /\ \A t \in DOMAIN Command :
          /\ Command[t] \in Seq({Capital[ch] : ch \in Char} \ {Blank, At})
          /\ Len(Command[t]) < WordSize
          /\ \A u \in DOMAIN Command : Command[t] = Command[u] => t = u
    /\ MaxToChars \in Nat /\ MaxMsgChars \in Nat
    /\ MaxWords \in Nat /\ WordSize \in Nat /\ NameSize \in Nat
    /\ NameSize <= WordSize
    /\ WordSize + 2 * NameSize <= MaxWords * WordSize

VARIABLES
    top,        \* the panel on top: where characters go
    to_line, to_i,
    msg_line, msg_i,
    result,     \* what the last key made the client do
    overrun     \* something was written behind the end of an array

vars == <<top, to_line, to_i, msg_line, msg_i, result, overrun>>

\* shown: the lines given to addNewMessage(), with whom they name.
NoResult == [type |-> "none", user |-> <<>>, host |-> <<>>, msg |-> <<>>,
             sent |-> FALSE, shown |-> <<>>]

TypeOK ==
    /\ top \in {"to", "msg"}
    /\ to_line \in Seq(Char) /\ Len(to_line) <= MaxToChars
    /\ msg_line \in Seq(Char) /\ Len(msg_line) <= MaxMsgChars
    /\ to_i \in Nat /\ msg_i \in Nat
    /\ result.type \in {"none", "unknown", "message"} \cup DOMAIN Command
    /\ result.user \in Seq(Byte) /\ result.host \in Seq(Byte)
    /\ overrun \in BOOLEAN

Init ==
    /\ top = "to"
    /\ to_line = <<>> /\ to_i = 0
    /\ msg_line = <<>> /\ msg_i = 0
    /\ result = NoResult
    /\ overrun = FALSE

-----------------------------------------------------------------------------
(* Keys other than Return.  Those that isprint() refuses change nothing.   *)

Tab ==
    /\ ~overrun
    /\ top' = IF top = "to" THEN "msg" ELSE "to"
    /\ result' = NoResult
    /\ UNCHANGED <<to_line, to_i, msg_line, msg_i, overrun>>

\* erase(i, 1), counted from 0
Erased(line, i) == SubSeq(line, 1, i) \o SubSeq(line, i + 2, Len(line))

\* Variant: the cursor stays where it was.
CursorNotMoved(i) == i

CursorMoved(i) == i - 1

Backspace ==
    /\ ~overrun
    /\ IF top = "to" /\ to_i > 0
       THEN to_i' = CursorMoved(to_i) /\ to_line' = Erased(to_line, to_i - 1)
       ELSE UNCHANGED <<to_line, to_i>>
    /\ IF top = "msg" /\ msg_i > 0
       THEN msg_i' = CursorMoved(msg_i) /\ msg_line' = Erased(msg_line, msg_i - 1)
       ELSE UNCHANGED <<msg_line, msg_i>>
    /\ result' = NoResult
    /\ UNCHANGED <<top, overrun>>

\* Variant: one character more than the window has columns.
HasRoomForOneMore(line, limit) == Len(line) <= limit

HasRoom(line, limit) == Len(line) < limit

AddCharacter(ch) ==
    /\ ~overrun
    /\ IF top = "to" /\ HasRoom(to_line, MaxToChars)
       THEN to_i' = to_i + 1 /\ to_line' = Append(to_line, ch)
       ELSE UNCHANGED <<to_line, to_i>>
    /\ IF top = "msg" /\ HasRoom(msg_line, MaxMsgChars)
       THEN msg_i' = msg_i + 1 /\ msg_line' = Append(msg_line, ch)
       ELSE UNCHANGED <<msg_line, msg_i>>
    /\ result' = NoResult
    /\ UNCHANGED <<top, overrun>>

-----------------------------------------------------------------------------
(* parseToLineArguments().                                                 *)

\* Every blank begins a word; nToArgus is their number.
WithCharacter(words, ch) ==
    IF ch = Blank THEN Append(words, <<>>)
    ELSE [words EXCEPT ![Len(words)] = Append(@, ch)]

\* words[i]: those of the first i characters
Words(line) ==
    LET words[i \in 0..Len(line)] ==
            IF i = 0 THEN <<<<>>>> ELSE WithCharacter(words[i - 1], line[i])
    IN  words[Len(line)]

\* Where row k begins, counted from 0, and where a word w copied there ends.
Row(k) == (k - 1) * WordSize
RowEnd(k, w) == Row(k) + Len(w) + 1

\* Variant: an array with one row less.
WordsFitFewer(words) ==
    \A k \in DOMAIN words : RowEnd(k, words[k]) <= Row(MaxWords)

WordsFit(words) ==
    \A k \in DOMAIN words : RowEnd(k, words[k]) <= Row(MaxWords + 1)

\* The array: at each place the last word that was copied over it.
ToArguments(words) ==
    [j \in 1..Row(MaxWords + 1) |->
        LET over == {k \in DOMAIN words : Row(k) < j /\ j <= RowEnd(k, words[k])}
            k == Max(over)
        IN  IF over = {} THEN Nul ELSE Append(words[k], Nul)[j - Row(k)]]

\* toArguments[k - 1] as a C string
Argument(array, k) ==
    LET end == Min({j \in DOMAIN array : j > Row(k) /\ array[j] = Nul})
    IN  SubSeq(array, Row(k) + 1, end - 1)

-----------------------------------------------------------------------------
(* getToLine().                                                            *)

Upper(s) == [i \in DOMAIN s |-> Capital[s[i]]]

\* strncpy() of as many characters as there are and fit: no '\0' is added.
CopyOfName(s) == SubSeq(s, 1, IF Len(s) < NameSize THEN Len(s) ELSE NameSize)

\* dest_user and dest_host before they are written to.
Uninitialised == [user : Leftover, host : Leftover]

\* parseUserHost(): the strings that are in the two buffers afterwards, with
\* what old leaves behind the names.  Without an '@' strcpy() copies the whole
\* word and its '\0' to the first buffer.
ParseUserHost(s, old) ==
    LET i == SelectInSeq(s, LAMBDA ch : ch = At)
    IN  IF i = 0
        THEN [found |-> FALSE, fits |-> Len(s) < NameSize,
              user |-> s, host |-> old.host]
        ELSE [found |-> TRUE, fits |-> TRUE,
              user |-> CopyOfName(SubSeq(s, 1, i - 1)) \o old.user,
              host |-> CopyOfName(SubSeq(s, i + 1, Len(s))) \o old.host]

\* The types whose command is s.  Variant: without toUpperCase().
CommandAsWritten(types, s) == {t \in types : s = Command[t]}

CommandOf(types, s) == {t \in types : Upper(s) = Command[t]}

\* What getToLine() may return and write: no name (what is left in the buffers is
\* not used then), or what parseUserHost() wrote.
Nobody(type) == [type |-> type, user |-> <<>>, host |-> <<>>, fits |-> TRUE]

Target(type, target) ==
    [type |-> type, user |-> target.user, host |-> target.host, fits |-> target.fits]

GetToLine(line) ==
    LET words  == Words(line)
        array  == ToArguments(words)
        single == Len(words) = 1
        types  == CommandOf(IF single THEN StatusType ELSE RequestType,
                            Argument(array, 1))
        name   == Argument(array, Len(words))
        return(target) ==
            IF ~WordsFit(words) THEN [Nobody("unknown") EXCEPT !.fits = FALSE]
            ELSE IF Len(words) > 2 THEN Nobody("unknown")
            ELSE IF single /\ types /= {} THEN Nobody(CHOOSE t \in types : TRUE)
            ELSE IF ~target.found THEN Target("unknown", target)
            ELSE IF single THEN Target("message", target)
            ELSE Target(IF types = {} THEN "unknown" ELSE CHOOSE t \in types : TRUE, target)
    IN  {return(ParseUserHost(name, old)) : old \in Uninitialised}

-----------------------------------------------------------------------------
(* keyboardReceived().                                                     *)

\* getMsgLine(): dest_msg has room for every line.  Variant: called after
\* updateDisplay(), which clears the lines.
MsgLineCleared(line) == <<>>

MsgLine(line) == line

\* connected: the user that is found is connected.  (A user who is not found
\* is the end of the process, see Session.)
Return(connected) ==
    \E to \in GetToLine(to_line) :
        LET msg  == MsgLine(msg_line)
            sent == to.type = "message" /\ connected
            line(whom, text) == [to |-> whom, text |-> text]
        IN  /\ ~overrun
            /\ overrun' = ~to.fits
            /\ IF to.fits
               THEN /\ to_line' = <<>> /\ to_i' = 0
                    /\ msg_line' = <<>> /\ msg_i' = 0
                    /\ result' = [type |-> to.type, user |-> to.user, host |-> to.host,
                                  msg |-> msg, sent |-> sent,
                                  shown |-> <<line(to_line, msg_line)>>
                                      \o IF sent THEN <<line(to.user, msg)>> ELSE <<>>]
               ELSE /\ result' = NoResult
                    /\ UNCHANGED <<to_line, to_i, msg_line, msg_i>>
            /\ UNCHANGED top

\* After an overrun nothing is known.
Next ==
    \/ Tab
    \/ Backspace
    \/ \E ch \in Char : AddCharacter(ch)
    \/ \E connected \in BOOLEAN : Return(connected)

Spec == Init /\ [][Next]_vars

-----------------------------------------------------------------------------
(* What correct editing and parsing is.                                    *)

\* to_i and msg_i are where the next character goes, at the end of the lines,
\* after any sequence of keys in either window: backspace() erases at to_i,
\* and erase() throws when that is beyond the end.
CursorsAtLineEnds ==
    to_i = Len(to_line) /\ msg_i = Len(msg_line)

\* The names that fit into a buffer, with its '\0'.
IsName(s) == Len(s) < NameSize /\ \A i \in DOMAIN s : s[i] \notin {Blank, At}

\* user@host, in all ways to read it.
Addresses(s) ==
    {a \in {[user |-> SubSeq(s, 1, i - 1), host |-> SubSeq(s, i + 1, Len(s))] :
               i \in {i \in DOMAIN s : s[i] = At}} :
        IsName(a.user) /\ IsName(a.host)}

\* What is said of the user s names.
SaysOf(type, s) ==
    {[type |-> type, user |-> a.user, host |-> a.host] : a \in Addresses(s)}

\* What a line says, by the text of the line alone.
Says(line) ==
    {[type |-> t, user |-> <<>>, host |-> <<>>] :
        t \in {t \in StatusType : Upper(line) = Command[t]}}
    \cup SaysOf("message", line)
    \cup UNION {SaysOf(t, SubSeq(line, Len(Command[t]) + 2, Len(line))) :
                t \in {t \in RequestType :
                         IsPrefix(Append(Command[t], Blank), Upper(line))}}

\* What can be read where a name was copied.
ReadsOf(name) == {name \o left : left \in Leftover}

\* A line that says something, with names that fit, is taken for that command
\* and no other, whatever the lengths of its words do to the rows of
\* toArguments, writes nothing behind them, and the names it gives are those
\* that are typed, up to the '\0' that is missing behind each of them.
CommandIsWhatIsTyped ==
    [][overrun' \/ result'.type /= "none" => \A c \in Says(to_line) :
           /\ ~overrun' /\ result'.type = c.type
           /\ result'.user \in ReadsOf(c.user)
           /\ result'.host \in ReadsOf(c.host)]_vars

\* A message that is sent is the one the user sees, once as it was typed and
\* once as it was sent, although the line it was typed in is cleared in between.
SentIsShown ==
    result.sent => /\ Len(result.shown) = 2
                   /\ \A i \in 1..2 : result.shown[i].text = result.msg

\* Nothing is written behind toArguments or the buffers for the names unless
\* the line has too many blanks, or a word as long as a name's buffer.
OverrunNeedsLongLine ==
    overrun =>
        \/ Cardinality({i \in DOMAIN to_line : to_line[i] = Blank}) >= MaxWords
        \/ \E i \in 1..(Len(to_line) - NameSize + 1) :
              \A j \in i..(i + NameSize - 1) : to_line[j] /= Blank

-----------------------------------------------------------------------------
(* The inductive invariant of InputProofs.                                 *)

IInv == TypeOK /\ CursorsAtLineEnds /\ SentIsShown /\ OverrunNeedsLongLine
=============================================================================
