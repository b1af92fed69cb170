----------------------------- MODULE LineEditor -----------------------------
(***************************************************************************)
(* What the text editor promises: a page of lines with a cursor on one of  *)
(* them, and a file that a page is read from and written to.  The editor   *)
(* keeps one array of characters; nothing here knows that.  How the page   *)
(* scrolls is left open, but after every step the cursor's line is shown;  *)
(* and so is when the file is opened or saved.                             *)
(***************************************************************************)
EXTENDS Integers, Sequences

CONSTANTS
  Room,         \* characters that fit, line ends included
  Chars,        \* characters other than line ends
  NewLine,      \* the character that ends a line
  Height        \* lines on the screen

VARIABLES
  lines, row, col,
  top,          \* the first line on the screen
  file

page == <<lines, row, col>>

SplitText(text) ==
  LET split[n \in 0 .. Len(text)] ==
        IF n = 0 THEN <<<<>>>>
        ELSE LET ls == split[n - 1]
             IN IF text[n] = NewLine THEN Append(ls, <<>>)
                ELSE [ls EXCEPT ![Len(ls)] = Append(@, text[n])]
  IN split[Len(text)]

JoinLines(ls) ==
  LET join[n \in 1 .. Len(ls)] ==
        IF n = 1 THEN ls[1] ELSE join[n - 1] \o <<NewLine>> \o ls[n]
  IN join[Len(ls)]

Size == Len(JoinLines(lines))

Here == lines[row]
Before == SubSeq(Here, 1, col)
After == SubSeq(Here, col + 1, Len(Here))

Init == lines = <<<<>>>> /\ row = 1 /\ col = 0 /\ top = 1

Open(text) ==
  /\ lines' = SplitText(SubSeq(text, 1, IF Len(text) < Room THEN Len(text) ELSE Room))
  /\ row' = 1 /\ col' = 0
  /\ UNCHANGED file

Type(c) ==
  /\ Size < Room
  /\ lines' = [lines EXCEPT ![row] = Before \o <<c>> \o After]
  /\ col' = col + 1
  /\ UNCHANGED <<row, file>>

Break ==
  /\ Size < Room
  /\ lines' = SubSeq(lines, 1, row - 1) \o <<Before, After>> \o SubSeq(lines, row + 1, Len(lines))
  /\ row' = row + 1 /\ col' = 0
  /\ UNCHANGED file

EraseInLine ==
  /\ col > 0
  /\ lines' = [lines EXCEPT ![row] = SubSeq(Here, 1, col - 1) \o After]
  /\ col' = col - 1
  /\ UNCHANGED <<row, file>>

JoinWithPrevious ==
  /\ col = 0 /\ row > 1
  /\ lines' = SubSeq(lines, 1, row - 2) \o <<lines[row - 1] \o Here>>
                \o SubSeq(lines, row + 1, Len(lines))
  /\ row' = row - 1 /\ col' = Len(lines[row - 1])
  /\ UNCHANGED file

Goto(r, c) == row' = r /\ col' = c /\ UNCHANGED <<lines, file>>

Left ==
  \/ col > 0 /\ Goto(row, col - 1)
  \/ col = 0 /\ row > 1 /\ Goto(row - 1, Len(lines[row - 1]))

Right ==
  \/ col < Len(Here) /\ Goto(row, col + 1)
  \/ col = Len(Here) /\ row < Len(lines) /\ Goto(row + 1, 0)

Shorter(m, n) == IF m < n THEN m ELSE n

Up == row > 1 /\ Goto(row - 1, Shorter(col, Len(lines[row - 1])))
Down == row < Len(lines) /\ Goto(row + 1, Shorter(col, Len(lines[row + 1])))

Save == file' = JoinLines(lines) /\ UNCHANGED page

\* A write that fails may leave the file cut short.
SaveFails == file' = <<>> /\ UNCHANGED page

Shown == row \in top .. top + Height - 1

Step ==
  \/ \E n \in 0 .. Len(file) : Open(SubSeq(file, 1, n))     \* reading may fail
  \/ \E c \in Chars : Type(c)
  \/ Break \/ EraseInLine \/ JoinWithPrevious
  \/ Left \/ Right \/ Up \/ Down
  \/ Save \/ SaveFails

Next == Step /\ Shown'

Spec == Init /\ [][Next]_<<page, top, file>>
=============================================================================
