--------------------------- MODULE MessageWindow ---------------------------
(***************************************************************************)
(* The message window and the console window of LP2PM_Display, as the rows *)
(* of characters they are drawn from.  A new message is cut into rows at   *)
(* blanks; each row comes in at the bottom and moves all others up.        *)
(*                                                                         *)
(* A row is what its array holds before the first '\0'.  The rows of       *)
(* msg_history are followed by clear_msg_line, which is blank.             *)
(***************************************************************************)
EXTENDS Naturals, SequencesExt

CONSTANTS
    Columns,        \* MAX_MSGS_CHARS, the '\0' included
    Lines,          \* MAX_MSGS_LINES
    ConsoleColumns, \* MAX_CONSOLE_CHARS
    ConsoleLines,   \* MAX_CONSOLE_LINES
    Char,           \* the characters of what is shown
    Header,         \* "user@host: "
    Text,           \* messages
    ConsoleText     \* lines for the console

Blank == " "

ASSUME WindowAssumption ==
    /\ Columns \in Nat \ {0} /\ ConsoleColumns \in Nat \ {0}
    /\ Lines \in Nat /\ ConsoleLines \in 1..(Lines - 1)
    /\ ConsoleLines < Columns
    /\ Blank \in Char
    /\ Header \cup Text \cup ConsoleText \subseteq Seq(Char)
    /\ \A t \in ConsoleText : Len(t) < ConsoleColumns

VARIABLES
    messages,   \* msg_history
    console,    \* console_history
    crashed,    \* the stack has overflowed
    said        \* the last messages that were added, as many as there are rows

vars == <<messages, console, crashed, said>>

Message == {h \o t : h \in Header, t \in Text}

\* Between two calls every row has its '\0'.
TypeOK ==
    /\ messages \in [1..Lines -> Seq(Char)]
    /\ \A i \in 1..Lines : Len(messages[i]) < Columns
    /\ console \in [1..ConsoleLines -> Seq(Char)]
    /\ \A i \in 1..ConsoleLines : Len(console[i]) < ConsoleColumns
    /\ crashed \in BOOLEAN
    /\ said \in Seq(Message) /\ Len(said) <= Lines

Init ==
    /\ messages = [i \in 1..Lines |-> <<>>]
    /\ console = [i \in 1..ConsoleLines |-> <<>>]
    /\ crashed = FALSE
    /\ said = <<>>

-----------------------------------------------------------------------------
(* Rows.                                                                   *)

Blanks(n) == [i \in 1..n |-> Blank]

\* A row that was copied into one of blanks, and ended in its last column.
\* The copy of a row without '\0' runs on into the row behind and leaves
\* blanks there, which is where moveMsgsUp() is about to put them.
Copied(row, width) ==
    IF Len(row) < width
    THEN row \o Blanks(width - 1 - Len(row))
    ELSE SubSeq(row, 1, width - 1)

\* strncpy() of n characters over the beginning of a row: no '\0' is added.
Overwritten(row, s, n) ==
    LET new == SubSeq(s, 1, IF Len(s) < n THEN Len(s) ELSE n)
    IN  new \o SubSeq(row, Len(new) + 1, Len(row))

\* moveMsgsUp(), moveConsoleUp()
MovedUp(rows, width) ==
    [i \in DOMAIN rows |->
        IF i < Len(rows) THEN Copied(rows[i + 1], width) ELSE Blanks(width - 1)]

\* insertMsgLine()
InsertMsgLine(rows, s) ==
    [MovedUp(rows, Columns) EXCEPT ![Lines] = Overwritten(@, s, Columns)]

-----------------------------------------------------------------------------
(* addNewLine()                                                            *)

\* What addNewLine() inserts as it is.  Variant: <= instead of <.
FitsWithoutEnd(n) == n <= Columns

FitsOnRow(n) == n < Columns

\* How much of the line behind offset i goes on the next row: the words that
\* end, with their blank, in the first Columns characters.
\* Variants: one character more, one less.
SentenceTooLong(line, i) ==
    LET blanks == {k \in 1..(Columns + 1) : i + k <= Len(line) /\ line[i + k] = Blank}
    IN  Max(blanks \cup {0})

SentenceTooShort(line, i) ==
    Max({k \in 1..(Columns - 1) : line[i + k] = Blank} \cup {0})

Sentence(line, i) ==
    Max({k \in 1..Columns : line[i + k] = Blank} \cup {0})

\* addNewLine() calls itself with the same line when there is no such word.
Endless(line) ==
    LET f[i \in 0..Len(line)] ==
            /\ ~FitsOnRow(Len(line) - i)
            /\ Sentence(line, i) = 0 \/ f[i + Sentence(line, i)]
    IN  f[0]

\* The rows it inserts when it ends.
Pieces(line) ==
    LET f[i \in 0..Len(line)] ==
            IF FitsOnRow(Len(line) - i)
            THEN <<SubSeq(line, i + 1, Len(line))>>
            ELSE LET n == Sentence(line, i)
                 IN  <<SubSeq(line, i + 1, i + n)>> \o f[i + n]
    IN  f[0]

-----------------------------------------------------------------------------
\* insertMsgLine() of one piece after the other.
Inserted(rows, pieces) ==
    LET after[k \in 0..Len(pieces)] ==
            IF k = 0 THEN rows ELSE InsertMsgLine(after[k - 1], pieces[k])
    IN  after[Len(pieces)]

LastOf(s, n) == SubSeq(s, IF Len(s) > n THEN Len(s) - n + 1 ELSE 1, Len(s))

AddNewMessage(m) ==
    /\ ~crashed
    /\ crashed' = Endless(m)
    /\ messages' = IF Endless(m) THEN messages
                   ELSE Inserted(messages, Pieces(m))
    /\ said' = LastOf(Append(said, m), Lines)
    /\ UNCHANGED console

\* The line goes into the message window, as many characters of it as the
\* console has lines; the console gets blanks.
\* Variant: the message window's number of lines.
LastMessageRow == Lines

ConsoleRow == ConsoleLines

AddNewConsoleLine(t) ==
    /\ ~crashed
    /\ console' = MovedUp(console, ConsoleColumns)
    /\ messages' = [messages EXCEPT ![ConsoleRow] = Overwritten(@, t, ConsoleLines)]
    /\ UNCHANGED <<crashed, said>>

Next ==
    \/ \E m \in Message : AddNewMessage(m)
    \/ \E t \in ConsoleText : AddNewConsoleLine(t)

Spec == Init /\ [][Next]_vars

-----------------------------------------------------------------------------
(* What the code does keep.                                                *)

\* Row i according to what was said: the rows of all messages, from the
\* bottom up.
RowSaid(i) ==
    LET all == FlattenSeq([k \in DOMAIN said |-> Pieces(said[k])])
        k   == Len(all) + i
    IN  IF k > Lines THEN all[k - Lines] ELSE <<>>

\* What is seen in column k; a row may have Columns characters while
\* addNewLine() is at work, and loses the last one when it moves up.
Seen(row, k) == IF k <= Len(row) THEN row[k] ELSE Blank

\* The window shows the last rows of what was said, in order and with nothing
\* between them, and cuts off nothing that could be seen; console lines that
\* stray into it never reach the rows below ConsoleLines nor the columns
\* behind.
LastRowsShown ==
    ~crashed =>
        \A i \in 1..Lines, k \in 1..Columns :
            i > ConsoleLines \/ k > ConsoleLines =>
                Seen(messages[i], k) = Seen(RowSaid(i), k)

\* A reference for wrapping: nothing is lost or split, and every row takes as
\* many words as it can.
IsWrapping(line, pieces) ==
    /\ FlattenSeq(pieces) = line
    /\ Len(Last(pieces)) < Columns
    /\ \A i \in 1..(Len(pieces) - 1) :
          LET rest == FlattenSeq(SubSeq(pieces, i + 1, Len(pieces)))
              room == Columns - Len(pieces[i])
          IN  /\ Len(pieces[i]) \in 1..Columns
              /\ Last(pieces[i]) = Blank
              /\ Len(rest) >= room
              /\ \A k \in 1..room : rest[k] /= Blank

WrapsAtWords ==
    ~crashed => \A i \in DOMAIN said : IsWrapping(said[i], Pieces(said[i]))

HasLongWord(line) ==
    \E i \in 0..(Len(line) - Columns) : \A k \in 1..Columns : line[i + k] /= Blank

\* The recursion of addNewLine() comes to an end exactly for the messages
\* that have no word as long as a row, names and To line included.
EndsUnlessLongWord ==
    crashed <=> \E i \in DOMAIN said : HasLongWord(said[i])
=============================================================================
