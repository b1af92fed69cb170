--------------------------- MODULE ConsoleProofs ---------------------------
(***************************************************************************)
(* Proofs about the console: the terminal (putchar, the line of input with *)
(* its recalled lines, the viewport) and the page of the editor, in every  *)
(* interleaving with the mouse's interrupts that Console allows; for every *)
(* size of the screen, the line and the ring, and all files.               *)
(*                                                                         *)
(* The steps of the console are first sorted into the few that matter to   *)
(* the terminal (TermStep); cells are compared by their place in reading   *)
(* order, in which putchar moves the cursor by one.                        *)
(***************************************************************************)
EXTENDS Console, SequenceTheorems, WellFoundedInduction, TLAPS

-----------------------------------------------------------------------------

\* The console's modes and putchar's stages; a text, the columns, the kept lines.
Modes == {"boot", "prompt", "key", "command", "edit"}
Stages == {"put", "limit", "follow", "scroll"}
Text == Seq(Characters)
Columns == 0 .. Cols - 1
Grid == [0 .. Lines - 1 -> [Columns -> Characters]]

\* The characters that putchar has not stored yet.
Pending == IF stage = "put" THEN todo ELSE Tail(todo)

\* Where the cursor is, and where the line of input began, in reading order.
Cursor == Place(total_lines, cursor_x)
Start == Place(start_line, start_x)

ScreenTypes ==
  /\ console_history \in Grid
  /\ cursor_x \in 0 .. Cols - 1
  /\ total_lines \in 0 .. Lines /\ (total_lines = Lines => stage = "limit")
  /\ viewport_top \in Nat /\ viewport_top + Rows <= Lines + 1
  /\ follow_output \in BOOLEAN

PrintTypes ==
  /\ mode \in Modes
  /\ stage \in Stages
  /\ todo \in Text /\ (stage # "put" => todo # <<>>)
  /\ mode \in {"boot", "edit"} => todo = <<>>
  /\ mode = "command" => todo \in {<<>>, <<NL>>}
  /\ mode # "key" => \A i \in 1 .. Len(todo) : todo[i] # BS

InputTypes ==
  /\ buff \in Text /\ Len(buff) < BufferSize
  /\ start_x \in 0 .. Cols - 1 /\ start_line \in 0 .. Lines - 1
  /\ saved_input \in Text
  /\ capped \in BOOLEAN
  /\ history_entries \in [0 .. HistorySize - 1 -> Text]
  /\ history_head \in 0 .. HistorySize - 1
  /\ history_count \in 0 .. HistorySize
  /\ browse_idx \in Nat

TermTypes == ScreenTypes /\ PrintTypes /\ InputTypes

\* A line of input: no control characters.
Plain(s) == \A i \in 1 .. Len(s) : s[i] \notin {NL, BS}

\* Nothing that the arrows can recall holds a control character.
PlainInv ==
  /\ Plain(buff) /\ ((saved_input = Unwritten /\ browse_idx = 0) \/ Plain(saved_input))
  /\ \A i \in 0 .. HistorySize - 1 : Plain(history_entries[i])

\* A backspace is on its way to the screen.  Shown: how many characters of
\* buff the screen shows.
Erasing == Pending = <<BS>>
Shown == IF Erasing THEN Len(buff) + 1 ELSE Len(buff) - Len(Pending)

SuffixOf(s, t) ==
  Len(s) <= Len(t) /\ \A i \in 1 .. Len(s) : s[i] = t[Len(t) - Len(s) + i]

\* What is still to be stored is a backspace or the end of buff.
InputPending == (Erasing /\ stage = "put") \/ SuffixOf(Pending, buff)

\* The cells from the cursor on are blank, but for the last line, which
\* scrolling copies.
BlankBelow ==
  \A y \in 0 .. Lines - 2, x \in Columns :
    Place(y, x) >= Cursor => console_history[y][x] = Blank

\* While input waits for keys, the cells from where it began show the part of
\* buff that has been stored; capped: the last line was reached, and only an
\* upper bound of the cursor is kept.
KeyEcho ==
  /\ InputPending
  /\ Cursor <= Start + Shown
  /\ ~capped =>
       /\ Cursor = Start + Shown
       /\ \A y \in 0 .. Lines - 1, x \in Columns :
            LET i == Place(y, x) - Start + 1
            IN i \in 1 .. Shown /\ i <= Len(buff) => console_history[y][x] = buff[i]

\* What the echo rests on.
EchoInv == BlankBelow /\ (mode = "key" => KeyEcho)

\* A line of input, with the rest of the line it begins on, fits the screen:
\* terminal.c reads at most 511 characters into buff[512], and the screen of
\* terminal.h has 48 rows of 128.
InputFitsScreen == Rows > 1 /\ BufferSize - 1 <= (Rows - 1) * Cols

\* The newline that ends a line of input is about to be stored.
Leaving == mode = "command" /\ todo # <<>> /\ stage = "put" /\ capped

\* Where a line of input that reached the last line must have begun.
CappedInv ==
  /\ mode = "key" => Shown < BufferSize
  /\ mode = "key" /\ capped =>
       /\ Start >= Lines * Cols - (BufferSize - 1)
       /\ Cursor >= (Lines - 1) * Cols - (BufferSize - 1) + Shown
  /\ Leaving => total_lines >= Lines - Rows

\* The viewport never starts below the cursor, and is at the bottom as long as
\* it follows the output.
ViewInv ==
  /\ mode = "key" /\ ~capped => viewport_top <= start_line
  /\ mode # "key" /\ ~Leaving => viewport_top <= total_lines
  /\ stage = "put" /\ follow_output /\ ~Leaving /\ ~(mode = "key" /\ capped) => AtBottom
-----------------------------------------------------------------------------
\* The steps of the console that the terminal sees.
PutStep(action) == ~Printed /\ stage = "put" /\ action /\ stage' = "limit"
                   /\ UNCHANGED <<viewport, todo, ring, line, capped, mode>>

Prints ==
  /\ mode \in {"boot", "command"} /\ mode' = "prompt"
  /\ Printed /\ todo' \in Seq(Characters \ {BS})
  /\ UNCHANGED <<screen, viewport, stage, ring, line, capped>>

ClearsScreen ==
  /\ mode \in {"command", "edit"} /\ mode' = "prompt"
  /\ Printed /\ todo' \in Seq(Characters \ {BS})
  /\ terminal_clear
  /\ UNCHANGED <<follow_output, stage, ring, line, capped>>

Wheel ==
  /\ ScrollUp \/ ScrollDown
  /\ UNCHANGED <<screen, todo, stage, ring, line, capped, mode>>

Quiet ==
  /\ UNCHANGED termVars
  /\ mode' = mode \/ (mode = "command" /\ mode' = "edit" /\ Printed)

Recalls == mode = "key" /\ UNCHANGED mode /\ (KeyUp \/ KeyDown)
Types == mode = "key" /\ UNCHANGED mode /\ \E c \in Letters : Typed(c)
Erases == mode = "key" /\ UNCHANGED mode /\ Erase
Enters == mode = "key" /\ mode' = "command" /\ Enter
Listens == mode = "prompt" /\ mode' = "key" /\ Printed /\ CallInput

TermStep ==
  \/ PutStep(Head(todo) = NL /\ NewLine)
  \/ PutStep(Head(todo) = BS /\ BackSpace)
  \/ PutStep(Head(todo) \notin {NL, BS} /\ Show(Head(todo)))
  \/ Limit /\ UNCHANGED mode
  \/ Follow /\ UNCHANGED mode
  \/ Scroll /\ UNCHANGED mode
  \/ Listens \/ Types \/ Erases \/ Recalls \/ Enters
  \/ Prints \/ ClearsScreen \/ Wheel \/ Quiet

\* The shell prints no backspace.
LEMMA NoBackspace == \A reply \in {<<>>, Reply} : reply \o Prompt \in Seq(Characters \ {BS})
<1> DEFINE S == Characters \ {BS}
<1>1. <<>> \in Seq(S) /\ Reply \in Seq(S) /\ Prompt \in Seq(S)
  BY ConsoleAssumption
<1> HIDE DEF S
<1>2. <<>> \o Prompt \in Seq(S) /\ Reply \o Prompt \in Seq(S)
  BY <1>1
<1>. QED  BY <1>2 DEF S

\* Every step of the console is one of them.
LEMMA TermSteps == ASSUME TermTypes, [Next]_vars PROVE TermStep
<1>1. CASE Boot
  BY <1>1 DEF Boot, TermStep, Quiet
<1>2. CASE Booted
  BY <1>2, ConsoleAssumption DEF Booted, TermStep, Prints, Output, Runs, TermTypes,
     PrintTypes, Printed
<1>3. CASE Printing
  <2>1. PutCharStep /\ UNCHANGED mode
    BY <1>3 DEF Printing
  <2>2. CASE PutChar
    BY <2>1, <2>2 DEF PutChar, TermStep, PutStep
  <2>. QED  BY <2>1, <2>2 DEF PutCharStep, TermStep
<1>4. CASE Listen
  BY <1>4 DEF Listen, TermStep, Listens, Runs
<1>5. CASE \E c \in Letters : Editing(Typed(c))
  BY <1>5 DEF Editing, Key, TermStep, Types, Runs
<1>6. CASE Editing(Erase)
  BY <1>6 DEF Editing, Key, TermStep, Erases, Runs
<1>7. CASE Editing(KeyUp) \/ Editing(KeyDown)
  BY <1>7 DEF Editing, Key, TermStep, Recalls, Runs
<1>8. CASE Entered
  BY <1>8 DEF Entered, Key, TermStep, Enters, Runs
<1>9. CASE Replies
  <2>1. PICK reply \in {<<>>, Reply} : Command(Prompts(reply)
             /\ UNCHANGED <<screen, viewport, edVars, budget>>)
    BY <1>9 DEF Replies
  <2>2. reply \o Prompt \in Seq(Characters \ {BS})
    BY NoBackspace
  <2>. QED  BY <2>1, <2>2 DEF Command, Prompts, Output, Prints, TermStep, Runs
<1>10. CASE Clears
  <2>1. <<>> \o Prompt \in Seq(Characters \ {BS})
    BY NoBackspace
  <2>. QED  BY <1>10, <2>1 DEF Clears, Command, Prompts, Output, ClearsScreen, TermStep,
               Runs
<1>11. CASE EditCommand
  BY <1>11 DEF EditCommand, Command, TermStep, Quiet, Runs, termVars, viewport, screen
<1>12. CASE Edit
  BY <1>12 DEF Edit, TermStep, Quiet
<1>13. CASE LeaveEditor
  <2>1. <<>> \o Prompt \in Seq(Characters \ {BS})
    BY NoBackspace
  <2>. QED
    BY <1>13, <2>1 DEF LeaveEditor, Prompts, Output, ClearsScreen, TermStep, Runs,
       TermTypes, PrintTypes, Printed
<1>14. CASE Moved \/ TypedEarly
  BY <1>14 DEF Moved, TypedEarly, TermStep, Quiet
<1>15. CASE Interrupt
  <2>1. UNCHANGED mode
    BY <1>15 DEF Interrupt
  <2>2. CASE UNCHANGED termVars
    BY <2>1, <2>2 DEF TermStep, Quiet
  <2>3. CASE get_mouse_event(mouse_byte'[4])
    BY <2>1, <2>3 DEF get_mouse_event, TermStep, Quiet, Wheel, termVars, viewport
  <2>. QED  BY <1>15, <2>2, <2>3 DEF Interrupt
<1>16. CASE UNCHANGED vars
  BY <1>16 DEF vars, TermStep, Quiet
<1>. QED
  BY <1>1, <1>2, <1>3, <1>4, <1>5, <1>6, <1>7, <1>8, <1>9, <1>10, <1>11, <1>12, <1>13,
     <1>14, <1>15, <1>16
     DEF Next, Shell
-----------------------------------------------------------------------------
(***************************************************************************)
(* Places in reading order.                                                *)
(***************************************************************************)
LEMMA PlaceOrder ==
  ASSUME NEW y \in Nat, NEW x \in Columns, NEW y2 \in Nat, NEW x2 \in Columns
  PROVE  /\ Place(y, x) \in Nat
         /\ y < y2 => Place(y, x) < Place(y2, x2)
         /\ Place(y, x) <= Place(y2, x2) => y <= y2
         /\ Place(y, x) = Place(y2, x2) => y = y2 /\ x = x2
<1>1. \A a, b \in Nat : a < b => a * Cols + Cols <= b * Cols
  <2>1. TAKE a, b \in Nat
  <2>2. HAVE a < b
  <2>3. PICK d \in Nat : b = a + 1 + d
    BY <2>2, b - a - 1 \in Nat
  <2>4. b * Cols = a * Cols + Cols + d * Cols /\ d * Cols >= 0
    BY <2>3, TerminalAssumption
  <2>. QED  BY <2>4, TerminalAssumption
<1>2. y * Cols \in Nat /\ y2 * Cols \in Nat
  BY TerminalAssumption
<1>. QED  BY <1>1, <1>2, TerminalAssumption DEF Place, Columns

\* Places are natural numbers.
LEMMA PlaceNat == \A y \in Nat, x \in Columns : Place(y, x) \in Nat
BY TerminalAssumption, PlaceOrder

\* The neighbours of a place.
LEMMA PlaceNext ==
  ASSUME NEW y \in Nat, NEW x \in Columns
  PROVE  /\ x < Cols - 1 => Place(y, x + 1) = Place(y, x) + 1
         /\ x > 0 => Place(y, x - 1) = Place(y, x) - 1
         /\ Place(y + 1, 0) = Place(y, Cols - 1) + 1
         /\ Place(y, 0) = Place(y, x) - x
         /\ y > 0 => Place(y, 0) = Place(y - 1, Cols - 1) + 1
<1>1. (y + 1) * Cols = y * Cols + Cols /\ (y - 1) * Cols = y * Cols - Cols
  BY TerminalAssumption
<1>2. y * Cols \in Nat
  BY TerminalAssumption
<1>. QED  BY <1>1, <1>2, TerminalAssumption DEF Place, Columns

\* How putchar wraps the cursor at the end of a line.
LEMMA CursorWraps ==
  ASSUME NEW x \in Columns
  PROVE  /\ x < Cols - 1 => (x + 1) % Cols = x + 1 /\ (x + 1) \div Cols = 0
         /\ x = Cols - 1 => (x + 1) % Cols = 0 /\ (x + 1) \div Cols = 1
BY TerminalAssumption DEF Columns

\* The last line's first place.
LEMMA ScreenSize == (Lines - 1) * Cols = Lines * Cols - Cols /\ Lines * Cols \in Nat
BY TerminalAssumption
-----------------------------------------------------------------------------
\* A cell that is set leaves the kept lines well-formed.
LEMMA CellType ==
  ASSUME console_history \in Grid, NEW y \in Int,
         0 <= y, NEW x \in Columns, NEW c \in Characters
  PROVE  WithCell(y, x, c) \in Grid
<1>1. CASE y < Lines
  <2>1. y \in 0 .. Lines - 1
    BY <1>1, TerminalAssumption
  <2>2. [console_history[y] EXCEPT ![x] = c] \in [Columns -> Characters]
    BY <2>1 DEF Grid
  <2>. QED  BY <1>1, <2>1, <2>2 DEF WithCell, Grid
<1>2. CASE ~(y < Lines)
  BY <1>2 DEF WithCell
<1>. QED  BY <1>1, <1>2

\* Storing a character keeps the types.
LEMMA PutTypes ==
  ASSUME TermTypes,
         \/ PutStep(Head(todo) = NL /\ NewLine)
         \/ PutStep(Head(todo) = BS /\ BackSpace)
         \/ PutStep(Head(todo) \notin {NL, BS} /\ Show(Head(todo)))
  PROVE  TermTypes'
<1>. USE TerminalAssumption
<1>1. /\ todo # <<>> /\ todo \in Text /\ Head(todo) \in Characters
      /\ total_lines \in 0 .. Lines - 1 /\ cursor_x \in Columns
      /\ stage' = "limit" /\ UNCHANGED <<viewport, todo, ring, line, capped, mode>>
  BY DEF TermTypes, PrintTypes, ScreenTypes, PutStep, Printed, Text, Columns
<1>2. console_history \in Grid
  BY DEF TermTypes, ScreenTypes
<1>4. /\ console_history' \in Grid
      /\ cursor_x' \in Columns
      /\ total_lines' \in 0 .. Lines
  <2>1. CASE NewLine
    BY <1>1, <1>2, <2>1 DEF NewLine, Columns, Grid
  <2>2. CASE BackSpace
    <3>1. CASE cursor_x > 0
      BY <1>1, <1>2, <2>2, <3>1, CellType DEF BackSpace, Columns
    <3>2. CASE cursor_x = 0 /\ total_lines > 0
      <4>1. console_history' = WithCell(total_lines - 1, Cols - 1, Blank)
            /\ cursor_x' = Cols - 1 /\ total_lines' = total_lines - 1
        BY <2>2, <3>2 DEF BackSpace
      <4>2. Cols - 1 \in Columns
        BY DEF Columns
      <4>. QED  BY <1>1, <1>2, <3>2, <4>1, <4>2, CellType
    <3>3. CASE cursor_x = 0 /\ total_lines = 0
      BY <1>1, <1>2, <2>2, <3>3, CellType DEF BackSpace
    <3>. QED  BY <1>1, <3>1, <3>2, <3>3 DEF Columns
  <2>3. CASE Show(Head(todo))
    <3>1. console_history' \in Grid
      BY <1>1, <1>2, <2>3, CellType DEF Show
    <3>2. (cursor_x + 1) % Cols \in Columns /\ (cursor_x + 1) \div Cols \in {0, 1}
      BY <1>1, CursorWraps DEF Columns
    <3>. QED  BY <1>1, <2>3, <3>1, <3>2 DEF Show
  <2>. QED  BY <2>1, <2>2, <2>3 DEF PutStep
<1>5. ScreenTypes'
  BY <1>1, <1>4 DEF TermTypes, ScreenTypes, viewport, Columns
<1>6. PrintTypes'
  BY <1>1 DEF TermTypes, PrintTypes, Stages
<1>7. InputTypes'
  BY <1>1 DEF TermTypes, InputTypes, ring, line
<1>. QED  BY <1>5, <1>6, <1>7 DEF TermTypes

\* Texts of at most one character.
LEMMA Singles == <<>> \in Text /\ <<NL>> \in Text /\ <<BS>> \in Text
  /\ \A c \in Characters : <<c>> \in Text
BY TerminalAssumption DEF Text

\* A text without characters is empty.
LEMMA EmptyText == ASSUME NEW s \in Text, Len(s) = 0 PROVE s = <<>>
BY DEF Text

\* What is left of a text after its first character.
LEMMA SuffixType == ASSUME NEW s \in Text, s # <<>>
  PROVE /\ Tail(s) \in Text /\ Len(Tail(s)) = Len(s) - 1
        /\ \A i \in 1 .. Len(Tail(s)) : Tail(s)[i] = s[i + 1]
BY DEF Text

\* Replace, what the arrows do to the line of input.
LEMMA Replaced ==
  ASSUME TermTypes, NEW src \in Text, Replace(src)
  PROVE  /\ buff' \in Text /\ Len(buff') < BufferSize /\ todo' = buff'
         /\ Len(buff') <= Len(src)
         /\ \A i \in 1 .. Len(buff') : buff'[i] = src[i]
         /\ console_history' = ErasedCells
         /\ console_history' \in Grid
         /\ cursor_x' = start_x /\ total_lines' = start_line
         /\ UNCHANGED <<viewport, stage, ring, start_x, start_line, capped>>
<1>. DEFINE n == IF Len(src) < BufferSize THEN Len(src) ELSE BufferSize - 1
<1>1. n \in 0 .. Len(src) /\ n < BufferSize
  BY TerminalAssumption DEF Text
<1>2. SubSeq(src, 1, n) \in Text /\ Len(SubSeq(src, 1, n)) = n
      /\ \A i \in 1 .. n : SubSeq(src, 1, n)[i] = src[i]
  BY <1>1 DEF Text
<1>3. buff' = SubSeq(src, 1, n)
  BY DEF Replace
<1>4. ErasedCells \in Grid
  BY TerminalAssumption DEF ErasedCells, TermTypes, ScreenTypes, Grid, Columns
<1>5. /\ buff' \in Text /\ Len(buff') < BufferSize /\ Len(buff') <= Len(src)
      /\ \A i \in 1 .. Len(buff') : buff'[i] = src[i]
  <2>1. Len(buff') = n /\ buff' \in Text /\ \A i \in 1 .. n : buff'[i] = src[i]
    BY <1>2, <1>3
  <2> HIDE DEF n
  <2>. QED  BY <2>1, <1>1
<1>6. /\ todo' = buff' /\ console_history' = ErasedCells
      /\ cursor_x' = start_x /\ total_lines' = start_line
      /\ UNCHANGED <<viewport, stage, ring, start_x, start_line, capped>>
  BY DEF Replace, Output
<1>. HIDE DEF n
<1>. QED  BY <1>4, <1>5, <1>6

\* The arrows replace the line by a recalled one or by the saved one.
LEMMA RecallIsReplace ==
  ASSUME TermTypes, Recalls
  PROVE  /\ Printed
         /\ saved_input' \in Text /\ browse_idx' \in Nat
         /\ \/ saved_input' = saved_input \/ saved_input' = buff
            \/ saved_input' \in Garbage
         /\ \E src \in {saved_input'} \cup {history_entries[i] : i \in 0 .. HistorySize - 1} :
              src \in Text /\ Replace(src)
         /\ UNCHANGED mode /\ mode = "key"
<1>. DEFINE source == IF browse_idx' = 0 THEN saved_input' ELSE history_entries[Slot(browse_idx')]
<1>1. Printed /\ UNCHANGED mode /\ mode = "key" /\ Replace(source)
  BY DEF Recalls, KeyUp, KeyDown
<1>2. saved_input' \in Text /\ browse_idx' \in Nat
  <2>1. CASE KeyUp
    BY <2>1 DEF KeyUp, TermTypes, InputTypes
  <2>2. CASE KeyDown
    BY <2>2, TerminalAssumption DEF KeyDown, TermTypes, InputTypes, Text
  <2>. QED  BY <2>1, <2>2 DEF Recalls
<1>3. Slot(browse_idx') \in 0 .. HistorySize - 1
  <2> DEFINE n == history_head - browse_idx' + HistorySize
  <2>1. n \in Int /\ HistorySize \in Nat \ {0}
    BY <1>2, TerminalAssumption DEF TermTypes, InputTypes
  <2> HIDE DEF n
  <2>2. n % HistorySize \in 0 .. HistorySize - 1
    BY <2>1
  <2>. QED  BY <2>2 DEF Slot, n
<1>4. source \in Text
  BY <1>2, <1>3 DEF TermTypes, InputTypes
<1>5. \/ saved_input' = saved_input \/ saved_input' = buff \/ saved_input' \in Garbage
  BY DEF Recalls, KeyUp, KeyDown
<1>. QED  BY <1>1, <1>2, <1>3, <1>4, <1>5

\* Every step keeps the terminal's types.
LEMMA TermTypesKept == ASSUME TermTypes, TermStep PROVE TermTypes'
<1>. USE TerminalAssumption
<1>1. CASE \/ PutStep(Head(todo) = NL /\ NewLine)
           \/ PutStep(Head(todo) = BS /\ BackSpace)
           \/ PutStep(Head(todo) \notin {NL, BS} /\ Show(Head(todo)))
  BY <1>1, PutTypes
<1>2. CASE Limit /\ UNCHANGED mode
  <2>1. ScreenTypes'
    BY <1>2 DEF Limit, TermTypes, ScreenTypes, viewport
  <2>2. PrintTypes' /\ InputTypes'
    BY <1>2 DEF Limit, TermTypes, PrintTypes, InputTypes, Stages, ring, line
  <2>. QED  BY <2>1, <2>2 DEF TermTypes
<1>3. CASE (Follow \/ Scroll) /\ UNCHANGED mode
  <2>1. stage \in {"follow", "scroll"} /\ todo # <<>> /\ todo \in Text
    BY <1>3 DEF Follow, Scroll, TermTypes, PrintTypes
  <2>2. /\ Tail(todo) \in Text
        /\ (\A i \in 1 .. Len(todo) : todo[i] # BS) =>
              \A i \in 1 .. Len(Tail(todo)) : Tail(todo)[i] # BS
        /\ Len(todo) = 1 => Tail(todo) = <<>>
    <3>1. Tail(todo) \in Text /\ Len(Tail(todo)) = Len(todo) - 1
          /\ \A i \in 1 .. Len(Tail(todo)) : Tail(todo)[i] = todo[i + 1]
      BY <2>1, SuffixType
    <3>2. Len(todo) \in Nat
      BY <2>1 DEF Text
    <3>. QED  BY <3>1, <3>2, EmptyText
  <2>3. ScreenTypes'
    BY <1>3 DEF Follow, Scroll, TermTypes, ScreenTypes, viewport, screen, NewTop
  <2>4. InputTypes'
    BY <1>3 DEF Follow, Scroll, TermTypes, InputTypes, ring, line
  <2>7. mode = "command" => Tail(todo) = <<>>
    <3>1. mode = "command" => Len(todo) = 1
      BY <2>1 DEF TermTypes, PrintTypes
    <3>. QED  BY <2>2, <3>1
  <2>8. mode' = mode /\ PrintTypes
    BY <1>3 DEF TermTypes
  <2>5. ASSUME todo' = todo /\ stage' = "scroll" PROVE PrintTypes'
    BY <2>1, <2>5, <2>8 DEF PrintTypes, Stages
  <2>6. ASSUME todo' = Tail(todo) /\ stage' = "put" PROVE PrintTypes'
    BY <2>1, <2>2, <2>6, <2>7, <2>8 DEF PrintTypes, Stages
  <2>. QED  BY <1>3, <2>3, <2>4, <2>5, <2>6 DEF TermTypes, Follow, Scroll
<1>4. CASE Listens
  <2>1. total_lines # Lines
    BY <1>4 DEF Listens, Printed, TermTypes, PrintTypes, ScreenTypes
  <2>2. ScreenTypes' /\ PrintTypes'
    BY <1>4 DEF Listens, CallInput, TermTypes, ScreenTypes, PrintTypes, screen, viewport,
       Modes
  <2>4. buff' = <<>> /\ saved_input' = <<NL>> /\ start_x' = cursor_x
        /\ start_line' = total_lines
        /\ browse_idx' = 0 /\ capped' = FALSE /\ UNCHANGED ring
    BY <1>4 DEF Listens, CallInput, Unwritten
  <2>3. InputTypes'
    <3>1. cursor_x \in Columns /\ total_lines \in 0 .. Lines - 1
      BY <2>1 DEF TermTypes, ScreenTypes, Columns
    <3>2. Len(buff') = 0
      BY <2>4
    <3>3. /\ history_entries' \in [0 .. HistorySize - 1 -> Text]
          /\ history_head' \in 0 .. HistorySize - 1
          /\ history_count' \in 0 .. HistorySize
      BY <2>4 DEF TermTypes, InputTypes, ring
    <3>4. /\ buff' \in Text /\ Len(buff') < BufferSize
          /\ start_x' \in 0 .. Cols - 1 /\ start_line' \in 0 .. Lines - 1
          /\ saved_input' \in Text
      BY <2>4, <3>1, <3>2, Singles DEF Columns
    <3>5. capped' \in BOOLEAN /\ browse_idx' \in Nat
      BY <2>4
    <3>. QED  BY <3>3, <3>4, <3>5 DEF InputTypes
  <2>. QED  BY <2>2, <2>3 DEF TermTypes
<1>5. CASE Types
  <2>1. PICK c \in Letters : Typed(c)
    BY <1>5 DEF Types
  <2>2. ScreenTypes' /\ PrintTypes'
    BY <1>5, <2>1 DEF Types, Typed, Output, TermTypes, ScreenTypes, PrintTypes, screen,
       viewport, Text
  <2>3. InputTypes'
    BY <1>5, <2>1 DEF Types, Typed, TermTypes, InputTypes, ring, Text
  <2>. QED  BY <2>2, <2>3 DEF TermTypes
<1>6. CASE Erases
  <2>1. ScreenTypes' /\ PrintTypes'
    BY <1>6 DEF Erases, Erase, Output, TermTypes, ScreenTypes, PrintTypes, screen, viewport,
       Text, BS
  <2>2. InputTypes'
    BY <1>6 DEF Erases, Erase, TermTypes, InputTypes, ring, Text
  <2>. QED  BY <2>1, <2>2 DEF TermTypes
<1>7. CASE Recalls
  <2>1. PICK src \in Text : Replace(src)
    BY <1>7, RecallIsReplace
  <2>2. stage = "put"
    BY <1>7, RecallIsReplace DEF TermTypes, PrintTypes, Printed
  <2>3. ScreenTypes'
    BY <2>1, <2>2, Replaced DEF TermTypes, ScreenTypes, InputTypes, viewport
  <2>4. PrintTypes'
    BY <1>7, <2>1, <2>2, Replaced, RecallIsReplace DEF TermTypes, PrintTypes
  <2>5. InputTypes'
    BY <1>7, <2>1, Replaced, RecallIsReplace DEF TermTypes, InputTypes, ring
  <2>. QED  BY <2>3, <2>4, <2>5 DEF TermTypes
<1>8. CASE Enters
  <2>1. ScreenTypes' /\ PrintTypes'
    BY <1>8 DEF Enters, Enter, Output, TermTypes, ScreenTypes, PrintTypes, screen, viewport,
       Text, BS, NL, Modes
  <2>2. (history_head + 1) % HistorySize \in 0 .. HistorySize - 1
    BY DEF TermTypes, InputTypes
  <2>3. InputTypes'
    BY <1>8, <2>2 DEF Enters, Enter, history_push, TermTypes, InputTypes, ring, line
  <2>. QED  BY <2>1, <2>3 DEF TermTypes
<1>9. CASE Prints
  <2>1. ScreenTypes' /\ InputTypes'
    BY <1>9 DEF Prints, TermTypes, ScreenTypes, InputTypes, screen, viewport, ring, line
  <2>2. stage = "put"
    BY <1>9 DEF Prints, TermTypes, PrintTypes, Printed
  <2>3. PrintTypes'
    BY <1>9, <2>2 DEF Prints, TermTypes, PrintTypes, Modes, Text
  <2>. QED  BY <2>1, <2>3 DEF TermTypes
<1>10. CASE ClearsScreen
  <2>1. ScreenTypes'
    BY <1>10 DEF ClearsScreen, terminal_clear, TermTypes, ScreenTypes, BlankRow, Grid,
       Columns
  <2>2. InputTypes'
    BY <1>10 DEF ClearsScreen, TermTypes, InputTypes, ring, line
  <2>3. stage = "put"
    BY <1>10 DEF ClearsScreen, TermTypes, PrintTypes, Printed
  <2>4. PrintTypes'
    BY <1>10, <2>3 DEF ClearsScreen, TermTypes, PrintTypes, Modes, Text
  <2>. QED  BY <2>1, <2>2, <2>4 DEF TermTypes
<1>11. CASE Wheel
  <2>3. /\ viewport_top' \in Nat /\ viewport_top' + Rows <= Lines + 1
        /\ follow_output' \in BOOLEAN
    <3>1. viewport_top \in Nat /\ total_lines \in 0 .. Lines
          /\ viewport_top + Rows <= Lines + 1
      BY DEF TermTypes, ScreenTypes
    <3>2. CASE ScrollUp
      BY <3>1, <3>2 DEF ScrollUp
    <3>3. CASE ScrollDown
      BY <3>1, <3>3 DEF ScrollDown
    <3>. QED  BY <1>11, <3>2, <3>3 DEF Wheel
  <2>1. ScreenTypes'
    BY <1>11, <2>3 DEF Wheel, TermTypes, ScreenTypes, screen
  <2>2. PrintTypes' /\ InputTypes'
    BY <1>11 DEF Wheel, TermTypes, PrintTypes, InputTypes, ring, line
  <2>. QED  BY <2>1, <2>2 DEF TermTypes
<1>12. CASE Quiet
  <2>1. ScreenTypes' /\ InputTypes'
    BY <1>12 DEF Quiet, termVars, screen, viewport, ring, line, TermTypes, ScreenTypes,
       InputTypes
  <2>2. PrintTypes'
    BY <1>12 DEF Quiet, termVars, TermTypes, PrintTypes, Modes, Printed
  <2>. QED  BY <2>1, <2>2 DEF TermTypes
<1>. QED
  BY <1>1, <1>2, <1>3, <1>4, <1>5, <1>6, <1>7, <1>8, <1>9, <1>10, <1>11, <1>12 DEF TermStep

\* The types hold at the start.
LEMMA TermTypesInit == Init => TermTypes
<1>. SUFFICES ASSUME Init PROVE TermTypes
  OBVIOUS
<1>. USE TerminalAssumption
<1>1. ScreenTypes
  BY DEF Init, TerminalInit, ScreenTypes, BlankRow, Grid, Columns
<1>2. PrintTypes
  BY Singles DEF Init, TerminalInit, PrintTypes, Modes, Stages
<1>3. InputTypes
  BY Singles DEF Init, TerminalInit, InputTypes, Columns, Unwritten
<1>. QED  BY <1>1, <1>2, <1>3 DEF TermTypes
-----------------------------------------------------------------------------
\* What an unwritten array holds may be anything; the echo of control
\* characters in it would be no line.
PrintableGarbage == \A g \in Garbage : Plain(g)

\* The arrows bring no control character into the line.
LEMMA RecallsPlain ==
  ASSUME PrintableGarbage, TermTypes, PlainInv, Recalls
  PROVE  /\ Plain(saved_input') /\ saved_input' \in Text
         /\ \E src \in Text : Plain(src) /\ Replace(src)
<1>1. Plain(saved_input')
  <2>1. CASE KeyUp
    BY <2>1 DEF KeyUp, PlainInv
  <2>2. CASE KeyDown
    <3>1. saved_input = Unwritten \/ Plain(saved_input)
      BY DEF PlainInv
    <3>2. CASE saved_input = Unwritten /\ browse_idx' = 0
      BY <2>2, <3>2 DEF KeyDown, PrintableGarbage
    <3>3. CASE ~(saved_input = Unwritten /\ browse_idx' = 0)
      <4>1. saved_input' = saved_input
        BY <2>2, <3>3 DEF KeyDown
      <4>2. saved_input # Unwritten \/ browse_idx # 0 \/ browse_idx' = 0
        BY <2>2 DEF KeyDown
      <4>. QED  BY <3>3, <4>1, <4>2 DEF PlainInv
    <3>. QED  BY <3>2, <3>3
  <2>. QED  BY <2>1, <2>2 DEF Recalls
<1>. QED  BY <1>1, RecallIsReplace DEF PlainInv

\* Every step keeps the recallable lines free of control characters.
LEMMA PlainKept == ASSUME PrintableGarbage, TermTypes, TermStep, PlainInv PROVE PlainInv'
<1>1. CASE UNCHANGED <<buff, saved_input, browse_idx, history_entries>>
  BY <1>1 DEF PlainInv, Plain
<1>2. CASE Listens
  BY <1>2 DEF Listens, CallInput, PlainInv, Plain, ring
<1>3. CASE Types
  <2>1. PICK c \in Letters : Typed(c)
    BY <1>3 DEF Types
  <2>2. buff' = Append(buff, c) /\ buff \in Text /\ c \in Characters /\ c \notin {NL, BS}
    BY <2>1, TerminalAssumption DEF Typed, TermTypes, InputTypes
  <2>3. Plain(buff')
    BY <2>2 DEF PlainInv, Plain, Text
  <2>4. UNCHANGED <<saved_input, browse_idx, history_entries>>
    BY <2>1 DEF Typed, ring
  <2>. QED  BY <2>3, <2>4 DEF PlainInv
<1>4. CASE Erases
  <2>1. buff' = SubSeq(buff, 1, Len(buff) - 1) /\ buff \in Text
    BY <1>4 DEF Erases, Erase, TermTypes, InputTypes
  <2>2. Plain(buff')
    BY <2>1 DEF PlainInv, Plain, Text
  <2>3. UNCHANGED <<saved_input, browse_idx, history_entries>>
    BY <1>4 DEF Erases, Erase, ring
  <2>. QED  BY <2>2, <2>3 DEF PlainInv
<1>5. CASE Recalls
  <2>1. PICK src \in Text : Plain(src) /\ Replace(src)
    BY <1>5, RecallsPlain
  <2>2. Plain(buff')
    <3>1. Len(src) \in Nat /\ buff' \in Text /\ Len(buff') <= Len(src)
          /\ \A i \in 1 .. Len(buff') : buff'[i] = src[i]
      BY <2>1, Replaced DEF Text
    <3>2. Len(buff') \in Nat
      BY <3>1 DEF Text
    <3>. QED  BY <2>1, <3>1, <3>2 DEF Plain
  <2>3. UNCHANGED history_entries
    BY <2>1 DEF Replace, ring
  <2>. QED  BY <1>5, <2>2, <2>3, RecallsPlain DEF PlainInv
<1>6. CASE Enters
  <2>1. UNCHANGED <<buff, saved_input, browse_idx>>
    BY <1>6 DEF Enters, Enter, line
  <2>2. \A i \in 0 .. HistorySize - 1 : history_entries'[i] \in {history_entries[i], buff}
    BY <1>6 DEF Enters, Enter, history_push, ring, TermTypes, InputTypes
  <2>3. \A i \in 0 .. HistorySize - 1 : Plain(history_entries'[i])
    BY <2>2 DEF PlainInv
  <2>. QED  BY <2>1, <2>3 DEF PlainInv
<1>. QED
  BY <1>1, <1>2, <1>3, <1>4, <1>5, <1>6
     DEF TermStep, PutStep, Limit, Follow, Scroll, Prints, ClearsScreen, Wheel, Quiet,
         ring, line, termVars

\* They are free of them at the start.
LEMMA PlainInit == Init => PlainInv
BY DEF Init, TerminalInit, PlainInv, Plain

-----------------------------------------------------------------------------
\* What the types say of the terms below.
LEMMA TermFacts ==
  ASSUME TermTypes
  PROVE  /\ total_lines \in Nat /\ cursor_x \in Columns /\ Cursor \in Nat
         /\ start_line \in Nat /\ start_x \in Columns /\ Start \in Nat
         /\ Len(buff) \in Nat /\ Len(todo) \in Nat /\ buff \in Text /\ todo \in Text
         /\ console_history \in Grid
         /\ stage = "put" => total_lines \in 0 .. Lines - 1
<1>1. /\ total_lines \in Nat /\ cursor_x \in Columns
      /\ start_line \in Nat /\ start_x \in Columns
      /\ buff \in Text /\ todo \in Text
      /\ console_history \in Grid
      /\ stage = "put" => total_lines \in 0 .. Lines - 1
  BY TerminalAssumption DEF TermTypes, ScreenTypes, InputTypes, PrintTypes, Columns
<1>2. Cursor \in Nat /\ Start \in Nat
  BY <1>1, PlaceOrder DEF Cursor, Start
<1>. QED  BY <1>1, <1>2 DEF Text

\* putchar ends where it began, or one place on, or one place back.
LEMMA NewLineMoves ==
  ASSUME TermTypes, stage = "put", NewLine
  PROVE  /\ Cursor' > Cursor
         /\ \A y \in 0 .. Lines - 1, x \in Columns :
              Place(y, x) >= Cursor' => console_history'[y][x] = console_history[y][x]
<1>1. total_lines' = total_lines + 1 /\ cursor_x' = 0 /\ 0 \in Columns
  BY TerminalAssumption DEF NewLine, Columns
<1>2. Cursor' > Cursor
  BY <1>1, TermFacts, PlaceOrder DEF Cursor
<1>3. ASSUME NEW y \in 0 .. Lines - 1, NEW x \in Columns, Place(y, x) >= Cursor'
      PROVE  console_history'[y][x] = console_history[y][x]
  <2>1. y # total_lines
    BY <1>1, <1>3, TermFacts, PlaceOrder DEF Cursor
  <2>. QED  BY <2>1, TermFacts DEF NewLine, Grid
<1>. QED  BY <1>2, <1>3

\* A cell that is set, and the others.
LEMMA CellsKept ==
  ASSUME console_history \in Grid, NEW y \in 0 .. Lines - 1, NEW x \in Columns,
         NEW y2 \in 0 .. Lines - 1, NEW x2 \in Columns, NEW c
  PROVE  /\ WithCell(y, x, c)[y][x] = c
         /\ Place(y2, x2) # Place(y, x) => WithCell(y, x, c)[y2][x2] = console_history[y2][x2]
<1>1. WithCell(y, x, c) = [console_history EXCEPT ![y][x] = c]
  BY TerminalAssumption DEF WithCell
<1>2. Place(y2, x2) # Place(y, x) => y # y2 \/ x # x2
  OBVIOUS
<1>. QED  BY <1>1, <1>2 DEF Grid

\* A backspace moves the cursor one place back, if there is one, and blanks it.
LEMMA BackSpaceMoves ==
  ASSUME TermTypes, stage = "put", BackSpace
  PROVE  /\ Cursor' = IF Cursor = 0 THEN 0 ELSE Cursor - 1
         /\ \A y \in 0 .. Lines - 1, x \in Columns :
              console_history'[y][x] =
                IF Place(y, x) = Cursor' THEN Blank ELSE console_history[y][x]
<1>1. total_lines \in 0 .. Lines - 1 /\ cursor_x \in Columns
  BY TermFacts
<1>2. /\ total_lines' \in 0 .. Lines - 1 /\ cursor_x' \in Columns
      /\ console_history' = WithCell(total_lines', cursor_x', Blank)
      /\ Cursor' = IF Cursor = 0 THEN 0 ELSE Cursor - 1
  <2>1. CASE cursor_x > 0
    <3>1. cursor_x' = cursor_x - 1 /\ total_lines' = total_lines
          /\ console_history' = WithCell(total_lines', cursor_x', Blank)
      BY <2>1 DEF BackSpace
    <3>2. cursor_x - 1 \in Columns /\ total_lines \in Nat
      BY <1>1, <2>1, TerminalAssumption DEF Columns
    <3>3. Place(total_lines, cursor_x - 1) = Place(total_lines, cursor_x) - 1
          /\ Place(total_lines, cursor_x - 1) \in Nat
      BY <1>1, <2>1, <3>2, PlaceNext, PlaceOrder, TerminalAssumption
    <3>. QED  BY <1>1, <3>1, <3>2, <3>3 DEF Cursor
  <2>2. CASE cursor_x = 0 /\ total_lines > 0
    <3>1. cursor_x' = Cols - 1 /\ total_lines' = total_lines - 1
          /\ console_history' = WithCell(total_lines', cursor_x', Blank)
      BY <2>2 DEF BackSpace
    <3>2. Cols - 1 \in Columns /\ 0 \in Columns /\ total_lines - 1 \in Nat
          /\ total_lines \in Nat
      BY <1>1, <2>2, TerminalAssumption DEF Columns
    <3>3. Place(total_lines, 0) = Place(total_lines - 1, Cols - 1) + 1
          /\ Place(total_lines - 1, Cols - 1) \in Nat
      BY <1>1, <2>2, <3>2, PlaceNext, PlaceOrder
    <3>4. Cursor = Place(total_lines - 1, Cols - 1) + 1
          /\ Cursor' = Place(total_lines - 1, Cols - 1)
      BY <2>2, <3>1, <3>3 DEF Cursor
    <3>5. total_lines - 1 \in 0 .. Lines - 1
      BY <1>1, <2>2, TerminalAssumption
    <3>6. Cursor # 0 /\ Cursor' = Cursor - 1
      BY <3>3, <3>4
    <3>. QED  BY <3>1, <3>2, <3>5, <3>6
  <2>3. CASE cursor_x = 0 /\ total_lines = 0
    <3>1. cursor_x' = 0 /\ total_lines' = 0
          /\ console_history' = WithCell(total_lines', cursor_x', Blank)
      BY <2>3 DEF BackSpace
    <3>2. Place(0, 0) = 0
      BY TerminalAssumption DEF Place
    <3>. QED  BY <1>1, <2>3, <3>1, <3>2 DEF Cursor
  <2>. QED  BY <1>1, <2>1, <2>2, <2>3 DEF Columns
<1>3. ASSUME NEW y \in 0 .. Lines - 1, NEW x \in Columns
      PROVE  console_history'[y][x] =
               IF Place(y, x) = Cursor' THEN Blank ELSE console_history[y][x]
  <2> DEFINE u == total_lines'  v == cursor_x'
  <2>1. u \in 0 .. Lines - 1 /\ v \in Columns /\ console_history' = WithCell(u, v, Blank)
        /\ Cursor' = Place(u, v)
    BY <1>2 DEF Cursor
  <2> HIDE DEF u, v
  <2>2. Place(y, x) = Place(u, v) => y = u /\ x = v
    BY <2>1, PlaceOrder, TerminalAssumption
  <2>. QED  BY <2>1, <2>2, CellsKept, TermFacts
<1>. QED  BY <1>2, <1>3

\* A character is stored at the cursor, which moves one place on.
LEMMA ShowMoves ==
  ASSUME TermTypes, stage = "put", NEW c, Show(c)
  PROVE  /\ Cursor' = Cursor + 1
         /\ \A y \in 0 .. Lines - 1, x \in Columns :
              console_history'[y][x] =
                IF Place(y, x) = Cursor THEN c ELSE console_history[y][x]
<1>1. total_lines \in 0 .. Lines - 1 /\ cursor_x \in Columns
  BY TermFacts
<1>2. Cursor' = Cursor + 1
  <2>1. CASE cursor_x < Cols - 1
    BY <1>1, <2>1, CursorWraps, PlaceNext DEF Show, Cursor
  <2>2. CASE cursor_x = Cols - 1
    BY <1>1, <2>2, CursorWraps, PlaceNext DEF Show, Cursor
  <2>. QED  BY <1>1, <2>1, <2>2, TerminalAssumption DEF Columns
<1>3. ASSUME NEW y \in 0 .. Lines - 1, NEW x \in Columns
      PROVE  console_history'[y][x] =
               IF Place(y, x) = Cursor THEN c ELSE console_history[y][x]
  <2>1. Place(y, x) = Place(total_lines, cursor_x) => y = total_lines /\ x = cursor_x
    BY <1>1, PlaceOrder, TerminalAssumption
  <2>. QED  BY <1>1, <2>1, CellsKept, TermFacts DEF Show, Cursor
<1>. QED  BY <1>2, <1>3

-----------------------------------------------------------------------------
\* No step leaves a character below the cursor.
LEMMA BlankKept == ASSUME TermTypes, TermStep, BlankBelow,
                          mode = "key" => KeyEcho
                   PROVE  BlankBelow'
<1>. USE TerminalAssumption
<1>9. Cursor' \in Nat
  <2>1. TermTypes'
    BY TermTypesKept
  <2>2. total_lines' \in Nat /\ cursor_x' \in Columns
    BY <2>1 DEF TermTypes, ScreenTypes, Columns
  <2>. QED  BY <2>2, PlaceNat DEF Cursor
<1>1. CASE PutStep(Head(todo) = NL /\ NewLine)
  <2>1. Cursor' > Cursor /\ Cursor' \in Nat
    BY <1>1, <1>9, NewLineMoves, TermFacts DEF PutStep
  <2>2. ASSUME NEW y \in 0 .. Lines - 2, NEW x \in Columns, Place(y, x) >= Cursor'
        PROVE  console_history'[y][x] = Blank
    <3>1. y \in 0 .. Lines - 1 /\ Place(y, x) \in Nat
      BY PlaceNat
    <3>2. Place(y, x) >= Cursor
      BY <2>1, <2>2, <3>1, TermFacts
    <3>. QED  BY <1>1, <2>2, <3>1, <3>2, NewLineMoves DEF PutStep, BlankBelow
  <2>. QED  BY <2>2 DEF BlankBelow
<1>2. CASE PutStep(Head(todo) = BS /\ BackSpace)
  <2>1. ASSUME NEW y \in 0 .. Lines - 2, NEW x \in Columns, Place(y, x) >= Cursor'
        PROVE  console_history'[y][x] = Blank
    <3>0. y \in 0 .. Lines - 1 /\ Place(y, x) \in Nat
      BY PlaceNat
    <3>1. y \in 0 .. Lines - 1 /\ Place(y, x) \in Nat /\ Cursor \in Nat /\ Cursor' \in Nat
      BY <1>9, <3>0, TermFacts
    <3>2. stage = "put"
      BY <1>2 DEF PutStep
    <3>. QED  BY <1>2, <2>1, <3>1, <3>2, BackSpaceMoves DEF PutStep, BlankBelow
  <2>. QED  BY <2>1 DEF BlankBelow
<1>3. CASE PutStep(Head(todo) \notin {NL, BS} /\ Show(Head(todo)))
  <2>1. ASSUME NEW y \in 0 .. Lines - 2, NEW x \in Columns, Place(y, x) >= Cursor'
        PROVE  console_history'[y][x] = Blank
    <3>0. y \in 0 .. Lines - 1 /\ Place(y, x) \in Nat
      BY PlaceNat
    <3>1. y \in 0 .. Lines - 1 /\ Place(y, x) \in Nat /\ Cursor \in Nat /\ Cursor' \in Nat
      BY <1>9, <3>0, TermFacts
    <3>2. stage = "put"
      BY <1>3 DEF PutStep
    <3>. QED  BY <1>3, <2>1, <3>1, <3>2, ShowMoves DEF PutStep, BlankBelow
  <2>. QED  BY <2>1 DEF BlankBelow
<1>4. CASE Limit /\ UNCHANGED mode
  <2>1. UNCHANGED <<console_history, cursor_x>>
    BY <1>4 DEF Limit
  <2>2. CASE total_lines >= Lines
    <3>1. total_lines' = Lines - 1
      BY <1>4, <2>2 DEF Limit
    <3>2. \A y \in 0 .. Lines - 2, x \in Columns : Place(y, x) < Cursor'
      BY <2>1, <3>1, TermFacts, PlaceOrder DEF Cursor
    <3>3. \A y \in 0 .. Lines - 2, x \in Columns : Place(y, x) \in Nat
      BY PlaceNat
    <3>4. Cursor' \in Nat
      BY <1>9
    <3>. QED  BY <3>2, <3>3, <3>4 DEF BlankBelow
  <2>3. CASE ~(total_lines >= Lines)
    BY <1>4, <2>1, <2>3 DEF Limit, BlankBelow, Cursor
  <2>. QED  BY <2>2, <2>3
<1>5. CASE UNCHANGED screen
  BY <1>5 DEF screen, BlankBelow, Cursor
<1>6. CASE Recalls
  <2>1. PICK src \in Text : Replace(src)
    BY <1>6, RecallIsReplace
  <2>2. console_history' = ErasedCells /\ cursor_x' = start_x /\ total_lines' = start_line
    BY <2>1, Replaced
  <2>3. Cursor' = Start
    BY <2>2 DEF Cursor, Start
  <2>4. Cursor <= Start + Len(buff)
    <3>1. Printed /\ mode = "key"
      BY <1>6, RecallIsReplace
    <3>2. Pending = <<>>
      BY <3>1 DEF Printed, Pending, TermTypes, PrintTypes
    <3>3. Shown = Len(buff)
      BY <3>2, TermFacts DEF Shown, Erasing
    <3>. QED  BY <3>1, <3>3 DEF KeyEcho
  <2>5. ASSUME NEW y \in 0 .. Lines - 2, NEW x \in Columns, Place(y, x) >= Start
        PROVE  ErasedCells[y][x] = Blank
    <3>1. ErasedCells[y][x] = IF Place(y, x) - Start \in 0 .. Len(buff) - 1
                                THEN Blank ELSE console_history[y][x]
      BY DEF ErasedCells, Columns, Start
    <3>2. Place(y, x) \in Nat
      BY PlaceNat
    <3>3. CASE Place(y, x) < Start + Len(buff)
      BY <2>5, <3>1, <3>2, <3>3, TermFacts
    <3>4. CASE Place(y, x) >= Start + Len(buff)
      BY <2>4, <2>5, <3>1, <3>2, <3>4, TermFacts DEF BlankBelow
    <3>. QED  BY <3>2, <3>3, <3>4, TermFacts
  <2>. QED  BY <2>2, <2>3, <2>5 DEF BlankBelow
<1>7. CASE ClearsScreen
  BY <1>7 DEF ClearsScreen, terminal_clear, BlankBelow, BlankRow, Columns
<1>. QED
  BY <1>1, <1>2, <1>3, <1>4, <1>5, <1>6, <1>7
     DEF TermStep, Follow, Scroll, Listens, CallInput, Types, Typed, Erases, Erase, Enters, Enter,
         Prints, Wheel, Quiet, termVars

-----------------------------------------------------------------------------
\* What is left of a line of input, character by character.
LEMMA PlainSuffix ==
  ASSUME NEW s \in Text, NEW t \in Text, SuffixOf(s, t), Plain(t)
  PROVE  /\ s # <<BS>> /\ s # <<NL>>
         /\ s # <<>> => /\ Head(s) = t[Len(t) - Len(s) + 1] /\ Head(s) \notin {NL, BS}
                        /\ Tail(s) \in Text /\ SuffixOf(Tail(s), t)
                        /\ Len(Tail(s)) = Len(s) - 1
<1>1. Len(s) \in Nat /\ Len(t) \in Nat /\ Len(s) <= Len(t)
  BY DEF SuffixOf, Text
<1>2. \A i \in 1 .. Len(s) : s[i] = t[Len(t) - Len(s) + i] /\ s[i] \notin {NL, BS}
  BY <1>1 DEF SuffixOf, Plain
<1>3. s # <<BS>> /\ s # <<NL>>
  BY <1>2
<1>4. ASSUME s # <<>>
      PROVE  /\ Head(s) = t[Len(t) - Len(s) + 1] /\ Head(s) \notin {NL, BS}
             /\ Tail(s) \in Text /\ SuffixOf(Tail(s), t)
             /\ Len(Tail(s)) = Len(s) - 1
  <2>1. Len(s) >= 1 /\ Head(s) = s[1]
    BY <1>4 DEF Text
  <2>2. Tail(s) \in Text /\ Len(Tail(s)) = Len(s) - 1
        /\ \A i \in 1 .. Len(Tail(s)) : Tail(s)[i] = s[i + 1]
    BY <1>4, SuffixType
  <2>3. SuffixOf(Tail(s), t)
    <3> DEFINE u == Tail(s)
    <3>0. Len(u) = Len(s) - 1 /\ \A i \in 1 .. Len(u) : u[i] = s[i + 1]
      BY <2>2
    <3> HIDE DEF u
    <3>1. ASSUME NEW i \in 1 .. Len(u)
          PROVE  u[i] = t[Len(t) - Len(u) + i]
      <4>1. i + 1 \in 1 .. Len(s) /\ Len(t) - Len(s) + (i + 1) = Len(t) - Len(u) + i
        BY <1>1, <2>1, <3>0
      <4>. QED  BY <1>2, <3>0, <4>1
    <3>2. SuffixOf(u, t)
      BY <1>1, <2>1, <3>0, <3>1 DEF SuffixOf
    <3>. QED  BY <3>2 DEF u
  <2>. QED  BY <1>1, <1>2, <2>1, <2>2, <2>3
<1>. QED  BY <1>3, <1>4

\* How the characters shown and those to be stored make up the line.
LEMMA KeyPending ==
  ASSUME TermTypes, PlainInv, KeyEcho
  PROVE  /\ Pending \in Text
         /\ Erasing => stage = "put" /\ todo = <<BS>> /\ Shown = Len(buff) + 1
         /\ ~Erasing => SuffixOf(Pending, buff) /\ Shown = Len(buff) - Len(Pending)
         /\ Shown \in Nat
         /\ Printed => ~Erasing /\ Shown = Len(buff)
<1>1. Pending \in Text
  BY TermFacts, SuffixType DEF Pending, TermTypes, PrintTypes
<1>2. Erasing => stage = "put" /\ todo = <<BS>>
  <2>1. SuffixOf(Pending, buff) => ~Erasing
    BY <1>1, TermFacts, PlainSuffix DEF Erasing, PlainInv
  <2>. QED  BY <2>1 DEF KeyEcho, InputPending, Pending, Erasing
<1>3. ~Erasing => SuffixOf(Pending, buff)
  BY DEF KeyEcho, InputPending
<1>4. Shown \in Nat
  BY <1>1, <1>3, TermFacts DEF Shown, SuffixOf, Text
<1>5. Printed => Pending = <<>>
  BY DEF Printed, Pending, TermTypes, PrintTypes
<1>. QED  BY <1>1, <1>2, <1>3, <1>4, <1>5, TermFacts DEF Shown, Erasing

\* Every step keeps the stored part of the line on the screen.
LEMMA KeyEchoKept ==
  ASSUME PrintableGarbage, TermTypes, PlainInv, TermStep,
         mode = "key" => KeyEcho, mode' = "key"
  PROVE  KeyEcho'
<1>. USE TerminalAssumption
<1>1. TermTypes' /\ PlainInv'
  BY TermTypesKept, PlainKept
<1>2. /\ buff' \in Text /\ Len(buff') \in Nat /\ todo' \in Text /\ Len(todo') \in Nat
      /\ Cursor' \in Nat /\ Start' \in Nat
  <2>1. /\ buff' \in Text /\ todo' \in Text /\ total_lines' \in Nat /\ cursor_x' \in Columns
        /\ start_line' \in Nat /\ start_x' \in Columns
    BY <1>1 DEF TermTypes, ScreenTypes, InputTypes, PrintTypes, Columns
  <2>2. Cursor' \in Nat /\ Start' \in Nat
    BY <2>1, PlaceNat DEF Cursor, Start
  <2>. QED  BY <2>1, <2>2 DEF Text
<1>20. TermTypes /\ PlainInv /\ PrintableGarbage
  OBVIOUS
<1>3. CASE PutStep(Head(todo) = NL /\ NewLine)
  <2>1. mode = "key" /\ KeyEcho /\ stage = "put" /\ todo # <<>> /\ Head(todo) = NL
    BY <1>3 DEF PutStep, Printed
  <2>2. Pending = todo /\ Head(todo) # BS
    BY <2>1 DEF Pending, NL, BS
  <2>3. ~Erasing
    BY <2>1, <2>2 DEF Erasing
  <2>. QED  BY <2>1, <2>2, <2>3, KeyPending, PlainSuffix, TermFacts DEF PlainInv
<1>4. CASE PutStep(Head(todo) = BS /\ BackSpace)
  <2>1. mode = "key" /\ KeyEcho /\ stage = "put" /\ todo # <<>> /\ Head(todo) = BS
        /\ stage' = "limit" /\ UNCHANGED <<todo, buff, start_x, start_line, capped>>
    BY <1>4 DEF PutStep, Printed, line
  <2>2. Pending = todo
    BY <2>1 DEF Pending
  <2>3. Erasing /\ Shown = Len(buff) + 1 /\ todo = <<BS>>
    BY <2>1, <2>2, KeyPending, PlainSuffix, TermFacts DEF PlainInv
  <2>4. Pending' = <<>> /\ ~Erasing' /\ Shown' = Len(buff)
    BY <2>1, <2>3, TermFacts DEF Pending, Erasing, Shown
  <2>5. InputPending'
    BY <1>2, <2>1, <2>4 DEF InputPending, SuffixOf
  <2>6. Start' = Start /\ Cursor' = IF Cursor = 0 THEN 0 ELSE Cursor - 1
    BY <1>4, <2>1, BackSpaceMoves DEF Start, PutStep
  <2>7. Cursor' <= Start' + Shown'
    BY <2>1, <2>3, <2>4, <2>6, TermFacts DEF KeyEcho
  <2>8. ASSUME ~capped'
        PROVE  /\ Cursor' = Start' + Shown'
               /\ \A y \in 0 .. Lines - 1, x \in Columns :
                    LET i == Place(y, x) - Start' + 1
                    IN i \in 1 .. Shown' /\ i <= Len(buff') => console_history'[y][x] = buff'[i]
    <3>1. ~capped /\ Cursor = Start + Len(buff) + 1
      BY <2>1, <2>3, <2>8, TermFacts DEF KeyEcho
    <3>2. Cursor' = Start + Len(buff)
      BY <2>6, <3>1, TermFacts
    <3>3. ASSUME NEW y \in 0 .. Lines - 1, NEW x \in Columns,
                 Place(y, x) - Start + 1 \in 1 .. Len(buff)
          PROVE  console_history'[y][x] = buff[Place(y, x) - Start + 1]
      <4>0. Place(y, x) \in Nat
        BY PlaceNat
      <4>1. Place(y, x) # Start + Len(buff) /\ Place(y, x) # Cursor'
        BY <3>2, <3>3, <4>0, TermFacts
      <4>2. console_history'[y][x] = console_history[y][x]
        BY <1>4, <2>1, <4>1, BackSpaceMoves DEF PutStep
      <4>3. Place(y, x) - Start + 1 \in 1 .. Shown /\ Place(y, x) - Start + 1 <= Len(buff)
        BY <2>3, <3>3, TermFacts
      <4>. QED  BY <2>1, <3>1, <4>2, <4>3 DEF KeyEcho
    <3>. QED  BY <2>1, <2>4, <2>6, <3>2, <3>3
  <2>. QED  BY <2>5, <2>7, <2>8 DEF KeyEcho
<1>5. CASE PutStep(Head(todo) \notin {NL, BS} /\ Show(Head(todo)))
  <2>1. mode = "key" /\ KeyEcho /\ stage = "put" /\ todo # <<>>
        /\ Head(todo) \notin {NL, BS}
        /\ stage' = "limit" /\ UNCHANGED <<todo, buff, start_x, start_line, capped>>
        /\ Show(Head(todo))
    BY <1>5 DEF PutStep, Printed, line
  <2>2. Pending = todo /\ Pending' = Tail(todo)
    BY <2>1 DEF Pending
  <2>3. ~Erasing /\ SuffixOf(todo, buff) /\ Shown = Len(buff) - Len(todo)
    BY <2>1, <2>2, KeyPending
  <2>4. /\ Head(todo) = buff[Len(buff) - Len(todo) + 1]
        /\ Tail(todo) \in Text /\ SuffixOf(Tail(todo), buff) /\ Len(Tail(todo)) = Len(todo) - 1
    BY <2>1, <2>3, PlainSuffix, TermFacts DEF PlainInv
  <2>5. ~Erasing' /\ InputPending'
    <3>1. Tail(todo) # <<BS>>
      BY <2>4, PlainSuffix, TermFacts DEF PlainInv
    <3>. QED  BY <2>1, <2>2, <2>4, <3>1 DEF Erasing, InputPending
  <2>6. Shown' = Shown + 1 /\ Shown \in Nat
    <3>1. Len(Tail(todo)) = Len(todo) - 1 /\ Len(todo) \in Nat /\ Len(buff) \in Nat
      BY <2>4, TermFacts
    <3>2. Shown' = Len(buff) - Len(Tail(todo))
      BY <2>1, <2>2, <2>5 DEF Shown
    <3>. QED  BY <2>1, <2>3, <3>1, <3>2, KeyPending
  <2>7. Start' = Start /\ Cursor' = Cursor + 1
    BY <2>1, ShowMoves DEF Start
  <2>8. Cursor' <= Start' + Shown'
    BY <2>1, <2>6, <2>7, TermFacts DEF KeyEcho
  <2>9. ASSUME ~capped'
        PROVE  /\ Cursor' = Start' + Shown'
               /\ \A y \in 0 .. Lines - 1, x \in Columns :
                    LET i == Place(y, x) - Start' + 1
                    IN i \in 1 .. Shown' /\ i <= Len(buff') => console_history'[y][x] = buff'[i]
    <3>1. ~capped /\ Cursor = Start + Shown
      BY <2>1, <2>9 DEF KeyEcho
    <3>2. ASSUME NEW y \in 0 .. Lines - 1, NEW x \in Columns,
                 Place(y, x) - Start + 1 \in 1 .. Shown + 1,
                 Place(y, x) - Start + 1 <= Len(buff)
          PROVE  console_history'[y][x] = buff[Place(y, x) - Start + 1]
      <4>1. Place(y, x) \in Nat
        BY PlaceNat
      <4>2. console_history'[y][x] =
              IF Place(y, x) = Cursor THEN Head(todo) ELSE console_history[y][x]
        BY <2>1, ShowMoves
      <4>3. CASE Place(y, x) = Cursor
        <5>1. Place(y, x) - Start + 1 = Len(buff) - Len(todo) + 1
          BY <2>3, <3>1, <4>3, TermFacts
        <5>. QED  BY <2>4, <4>2, <4>3, <5>1
      <4>4. CASE Place(y, x) # Cursor
        <5>1. Place(y, x) - Start + 1 \in 1 .. Shown
          BY <2>6, <3>1, <3>2, <4>1, <4>4, TermFacts
        <5>. QED  BY <2>1, <3>1, <3>2, <4>2, <4>4, <5>1 DEF KeyEcho
      <4>. QED  BY <4>3, <4>4
    <3>3. Cursor' = Start' + Shown'
      BY <2>6, <2>7, <3>1, TermFacts
    <3>. QED  BY <2>1, <2>6, <2>7, <3>2, <3>3
  <2>. QED  BY <2>5, <2>8, <2>9 DEF KeyEcho
<1>6. CASE Limit /\ UNCHANGED mode
  <2>1. mode = "key" /\ KeyEcho /\ stage = "limit" /\ stage' = "follow"
        /\ UNCHANGED <<todo, buff, start_x, start_line, console_history, cursor_x>>
        /\ total_lines' = (IF total_lines >= Lines THEN Lines - 1 ELSE total_lines)
        /\ capped' = (capped \/ total_lines >= Lines)
    BY <1>6 DEF Limit, line
  <2>2. Pending' = Pending /\ (Erasing' <=> Erasing) /\ Shown' = Shown /\ Start' = Start
    BY <2>1 DEF Pending, Erasing, Shown, Start
  <2>3. InputPending' /\ ~Erasing
    BY <2>1, <2>2, KeyPending DEF InputPending
  <2>4. Cursor' <= Cursor /\ (~capped' => Cursor' = Cursor)
    <3>1. CASE total_lines >= Lines
      <4>1. /\ capped'
            /\ total_lines' = Lines - 1 /\ Lines - 1 \in Nat /\ Lines - 1 < total_lines
        <5>1. total_lines \in Nat /\ Lines \in Nat \ {0}
          BY TermFacts
        <5>2. capped' /\ total_lines' = Lines - 1
          BY <2>1, <3>1
        <5>. QED  BY <3>1, <5>1, <5>2
      <4>2. Place(Lines - 1, cursor_x) < Place(total_lines, cursor_x)
        BY <4>1, TermFacts, PlaceOrder
      <4>3. Cursor' = Place(Lines - 1, cursor_x) /\ Place(Lines - 1, cursor_x) \in Nat
        BY <2>1, <4>1, TermFacts, PlaceNat DEF Cursor
      <4>. QED  BY <4>1, <4>2, <4>3, TermFacts DEF Cursor
    <3>2. CASE ~(total_lines >= Lines)
      BY <2>1, <3>2, TermFacts DEF Cursor
    <3>. QED  BY <3>1, <3>2
  <2>5. Cursor' <= Start' + Shown'
    BY <1>2, <2>1, <2>2, <2>4, KeyPending, TermFacts DEF KeyEcho
  <2>. QED  BY <2>1, <2>2, <2>3, <2>4, <2>5 DEF KeyEcho
<1>7. CASE (Follow \/ Scroll) /\ UNCHANGED mode
  <2>1. mode = "key" /\ KeyEcho /\ stage \in {"follow", "scroll"}
        /\ UNCHANGED <<buff, start_x, start_line, console_history, cursor_x, total_lines, capped>>
        /\ \/ todo' = todo /\ stage' = "scroll"
           \/ todo' = Tail(todo) /\ stage' = "put"
    <3>1. mode = "key" /\ KeyEcho
      BY <1>7
    <3>2. /\ stage \in {"follow", "scroll"}
          /\ UNCHANGED <<buff, start_x, start_line, console_history, cursor_x, total_lines, capped>>
      BY <1>7 DEF Follow, Scroll, line, screen
    <3>3. \/ todo' = todo /\ stage' = "scroll"
          \/ todo' = Tail(todo) /\ stage' = "put"
      BY <1>7 DEF Follow, Scroll
    <3>. QED  BY <3>1, <3>2, <3>3
  <2>2. Pending' = Pending /\ (Erasing' <=> Erasing) /\ Shown' = Shown /\ Start' = Start
        /\ Cursor' = Cursor
    BY <2>1 DEF Pending, Erasing, Shown, Start, Cursor
  <2>3. InputPending' /\ ~Erasing
    BY <2>1, <2>2, KeyPending DEF InputPending
  <2>. QED  BY <2>1, <2>2, <2>3 DEF KeyEcho
<1>8. CASE Listens
  <2>1. /\ buff' = <<>> /\ start_x' = cursor_x /\ start_line' = total_lines /\ todo' = <<>>
        /\ UNCHANGED <<cursor_x, total_lines>> /\ stage' = "put"
    BY <1>8, <1>20 DEF Listens, CallInput, Printed, TermTypes, PrintTypes, screen
  <2>2. Pending' = <<>> /\ ~Erasing' /\ Shown' = 0
    BY <2>1 DEF Pending, Erasing, Shown
  <2>3. Cursor' = Start'
    BY <2>1 DEF Cursor, Start
  <2>4. InputPending'
    BY <2>1, <2>2 DEF InputPending, SuffixOf
  <2>5. Cursor' = Start' + Shown' /\ Cursor' <= Start' + Shown'
    <3>1. PICK n \in Nat : n = Start' /\ n = Cursor'
      BY <1>2, <2>3
    <3>2. PICK k \in Nat : k = Shown' /\ k = 0
      BY <2>2
    <3>3. n = n + k /\ n <= n + k
      BY <3>2
    <3>. QED  BY <3>1, <3>2, <3>3
  <2>6. \A i : ~(i \in 1 .. Shown')
    BY <2>2
  <2>. QED  BY <2>4, <2>5, <2>6 DEF KeyEcho
<1>9. CASE Types
  <2>1. PICK c \in Letters : Typed(c)
    BY <1>9 DEF Types
  <2>2. mode = "key" /\ KeyEcho /\ Printed /\ buff' = Append(buff, c) /\ todo' = <<c>>
        /\ UNCHANGED <<console_history, cursor_x, total_lines, start_x, start_line, capped, stage>>
    BY <1>9, <2>1 DEF Types, Typed, Output, screen
  <2>3. stage = "put" /\ ~Erasing /\ Shown = Len(buff)
    BY <1>20, <2>2, KeyPending DEF Printed, TermTypes, PrintTypes
  <2>4. Pending' = <<c>> /\ c # BS
    BY <2>2, <2>3 DEF Pending
  <2>5. /\ Len(buff') = Len(buff) + 1 /\ buff'[Len(buff) + 1] = c
        /\ \A i \in 1 .. Len(buff) : buff'[i] = buff[i]
    BY <2>2, TermFacts DEF Text
  <2>6. ~Erasing' /\ Shown' = Len(buff)
    BY <2>4, <2>5, TermFacts DEF Erasing, Shown
  <2>7. InputPending'
    BY <2>4, <2>5, TermFacts DEF InputPending, SuffixOf
  <2>8. Start' = Start /\ Cursor' = Cursor
    BY <2>2 DEF Start, Cursor
  <2>. QED  BY <2>2, <2>3, <2>5, <2>6, <2>7, <2>8, TermFacts, PlaceNat DEF KeyEcho
<1>10. CASE Erases
  <2>1. mode = "key" /\ KeyEcho /\ Printed /\ buff # <<>>
        /\ buff' = SubSeq(buff, 1, Len(buff) - 1) /\ todo' = <<BS>>
        /\ UNCHANGED <<console_history, cursor_x, total_lines, start_x, start_line, capped, stage>>
    BY <1>10 DEF Erases, Erase, Output, screen
  <2>2. stage = "put" /\ ~Erasing /\ Shown = Len(buff)
    BY <1>20, <2>1, KeyPending DEF Printed, TermTypes, PrintTypes
  <2>3. /\ Len(buff') = Len(buff) - 1 /\ \A i \in 1 .. Len(buff') : buff'[i] = buff[i]
    BY <2>1, TermFacts DEF Text
  <2>4. Pending' = <<BS>> /\ Erasing' /\ InputPending'
    BY <2>1, <2>2 DEF Pending, Erasing, InputPending
  <2>5. Shown' = Len(buff)
    BY <2>3, <2>4, TermFacts DEF Shown
  <2>6. Start' = Start /\ Cursor' = Cursor
    BY <2>1 DEF Start, Cursor
  <2>7. ASSUME ~capped', NEW y \in 0 .. Lines - 1, NEW x \in Columns,
               Place(y, x) - Start' + 1 \in 1 .. Shown', Place(y, x) - Start' + 1 <= Len(buff')
        PROVE  console_history'[y][x] = buff'[Place(y, x) - Start' + 1]
    <3>1. Place(y, x) \in Nat
      BY PlaceNat
    <3>2. PICK i \in Int : i = Place(y, x) - Start + 1
      BY <3>1, TermFacts
    <3>3. i \in 1 .. Shown /\ i <= Len(buff) /\ i \in 1 .. Len(buff')
      BY <2>2, <2>3, <2>5, <2>6, <2>7, <3>2, TermFacts
    <3>4. console_history[y][x] = buff[i]
      BY <2>1, <2>7, <3>2, <3>3 DEF KeyEcho
    <3>. QED  BY <2>1, <2>3, <2>6, <3>2, <3>3, <3>4
  <2>8. Cursor' <= Start' + Shown' /\ (~capped' => Cursor' = Start' + Shown')
    BY <2>1, <2>2, <2>5, <2>6 DEF KeyEcho
  <2>. QED  BY <2>4, <2>7, <2>8 DEF KeyEcho
<1>11. CASE Recalls
  <2>1. PICK src \in Text : Replace(src)
    BY <1>11, RecallIsReplace
  <2>2. /\ todo' = buff' /\ cursor_x' = start_x /\ total_lines' = start_line
        /\ UNCHANGED <<stage, start_x, start_line>>
    BY <2>1, Replaced
  <2>3. stage = "put"
    BY <1>11, RecallIsReplace DEF Printed, TermTypes, PrintTypes
  <2>4. Pending' = buff'
    BY <2>2, <2>3 DEF Pending
  <2>5. SuffixOf(buff', buff') /\ buff' # <<BS>>
    BY <1>1, <1>2 DEF SuffixOf, PlainInv, Plain
  <2>6. ~Erasing' /\ InputPending' /\ Shown' = 0
    BY <1>2, <2>4, <2>5 DEF Erasing, InputPending, Shown
  <2>7. Cursor' = Start'
    BY <2>2 DEF Cursor, Start
  <2>8. Cursor' <= Start' + Shown' /\ Cursor' = Start' + Shown'
    <3>1. PICK c \in Nat : c = Start'
      BY <1>2
    <3>. HIDE TerminalAssumption
    <3>2. c <= c + 0 /\ c = c + 0
      OBVIOUS
    <3>. QED  BY <2>6, <2>7, <3>1, <3>2
  <2>9. \A y \in 0 .. Lines - 1, x \in Columns :
           (Place(y, x) - Start + 1)' \notin 1 .. Shown'
    BY <2>6
  <2>. QED  BY <2>6, <2>8, <2>9 DEF KeyEcho
<1>12. CASE Wheel \/ Quiet
  <2>1. mode = "key"
        /\ UNCHANGED <<console_history, cursor_x, total_lines, buff, start_x, start_line,
                       todo, stage, capped>>
    BY <1>12 DEF Wheel, Quiet, termVars, screen, line
  <2>. QED
    BY <2>1 DEF KeyEcho, InputPending, Erasing, Pending, Shown, Cursor, Start
<1>. QED
  BY <1>3, <1>4, <1>5, <1>6, <1>7, <1>8, <1>9, <1>10, <1>11, <1>12
     DEF TermStep, Enters, Prints, ClearsScreen
-----------------------------------------------------------------------------

\* The invariant holds at the start.
LEMMA EchoInit == Init => EchoInv
<1>. SUFFICES ASSUME Init PROVE EchoInv
  OBVIOUS
<1>1. console_history = [y \in 0 .. Lines - 1 |-> BlankRow] /\ mode = "boot"
  BY DEF Init, TerminalInit
<1>2. \A y \in 0 .. Lines - 2 : y \in 0 .. Lines - 1
  BY TerminalAssumption
<1>. QED  BY <1>1, <1>2 DEF EchoInv, BlankBelow, BlankRow, Columns

\* Every natural number is the place of one cell.
LEMMA CellPlace ==
  ASSUME NEW k \in Nat
  PROVE  /\ k \div Cols \in Nat /\ k % Cols \in Columns
         /\ Place(k \div Cols, k % Cols) = k
BY TerminalAssumption DEF Place, Columns

\* Once all is stored, the invariant is the echo.
LEMMA EchoSeen ==
  ASSUME TermTypes, PlainInv, EchoInv, mode = "key", Printed, ~capped
  PROVE  InputEchoed
<1>1. KeyEcho /\ BlankBelow
  BY DEF EchoInv
<1>2. Shown = Len(buff) /\ Cursor = Start + Len(buff)
  BY <1>1, KeyPending DEF KeyEcho
<1>3. total_lines \in 0 .. Lines - 1 /\ cursor_x \in Columns
  BY TermFacts DEF Printed, TermTypes, PrintTypes
<1>4. ASSUME NEW i \in 1 .. Len(buff) PROVE Cell(Start + i - 1) = buff[i]
  <2>1. PICK k \in Nat : k = Start + i - 1
    BY TermFacts
  <2>2. PICK y, x : y = k \div Cols /\ x = k % Cols
    OBVIOUS
  <2>3. y \in Nat /\ x \in Columns /\ Place(y, x) = k
    BY <2>1, <2>2, CellPlace
  <2>4. Place(y, x) <= Cursor /\ Place(y, x) - Start + 1 = i
    BY <1>2, <2>1, <2>3, TermFacts
  <2>5. y <= total_lines
    BY <1>3, <2>3, <2>4, PlaceOrder DEF Cursor
  <2>6. y \in 0 .. Lines - 1
    BY <1>3, <2>3, <2>5, TerminalAssumption
  <2>7. i \in 1 .. Shown /\ i <= Len(buff)
    BY <1>2, TermFacts
  <2>8. console_history[y][x] = buff[i]
    BY <1>1, <2>3, <2>4, <2>6, <2>7 DEF KeyEcho
  <2>9. Cell(k) = console_history[y][x]
    BY <2>2 DEF Cell
  <2>. QED  BY <2>1, <2>8, <2>9
<1>5. ASSUME total_lines < Lines - 1, NEW x \in cursor_x .. Cols - 1
      PROVE  console_history[total_lines][x] = Blank
  <2>1. x \in Columns /\ total_lines \in 0 .. Lines - 2
    BY <1>3, <1>5, TerminalAssumption DEF Columns
  <2>2. Place(total_lines, x) >= Cursor
    <3>1. total_lines * Cols \in Nat /\ x >= cursor_x /\ cursor_x \in Nat
      BY <1>3, <1>5, TerminalAssumption DEF Columns
    <3>. QED  BY <3>1 DEF Place, Cursor
  <2>. QED  BY <1>1, <2>1, <2>2 DEF BlankBelow
<1>. QED  BY <1>2, <1>4, <1>5 DEF InputEchoed, Cursor, Start

\* The inductive invariant of the echo, and its step.
EchoIInv == TermTypes /\ PlainInv /\ EchoInv

\* The step of the whole invariant.
LEMMA EchoStep == ASSUME PrintableGarbage, EchoIInv, [Next]_vars PROVE EchoIInv'
<1>1. TermTypes /\ PlainInv /\ EchoInv /\ TermStep
  BY TermSteps DEF EchoIInv
<1>2. TermTypes' /\ PlainInv'
  BY <1>1, TermTypesKept, PlainKept
<1>3. BlankBelow'
  BY <1>1, BlankKept DEF EchoInv
<1>4. mode' = "key" => KeyEcho'
  BY <1>1, KeyEchoKept DEF EchoInv
<1>. QED  BY <1>2, <1>3, <1>4 DEF EchoIInv, EchoInv

(***************************************************************************)
(* EchoedAtKey for every size of screen and every history: whenever input  *)
(* waits for a key, the cells from where it began to the cursor show the   *)
(* characters of buff, and the rest of the cursor's line is blank.  So storing *)
(* a character step by step (terminal.c, putchar), erasing across the ends of *)
(* lines and replacing the line by a recalled one agree with each other.  The *)
(* hypothesis is about the saved line that the code reads before it has    *)
(* written it: that its bytes are no control characters.                   *)
(***************************************************************************)
THEOREM ConsoleEcho == ASSUME PrintableGarbage PROVE Spec => []EchoedAtKey
<1>1. Init => EchoIInv
  BY TermTypesInit, PlainInit, EchoInit DEF EchoIInv
<1>2. EchoIInv /\ [Next]_vars => EchoIInv'
  BY EchoStep
<1>3. EchoIInv => EchoedAtKey
  <2>1. ASSUME EchoIInv, mode = "key", Printed, ~capped PROVE InputEchoed
    BY <2>1, EchoSeen DEF EchoIInv
  <2>2. capped => InputEchoed
    BY DEF InputEchoed
  <2>3. ASSUME EchoIInv PROVE capped \in BOOLEAN
    BY <2>3 DEF EchoIInv, TermTypes, InputTypes
  <2>. QED  BY <2>1, <2>2, <2>3 DEF EchoedAtKey
<1>. QED  BY <1>1, <1>2, <1>3, PTL DEF Spec
-----------------------------------------------------------------------------

\* The inductive invariant of the viewport.
ViewIInv == EchoIInv /\ CappedInv /\ ViewInv

\* InputFitsScreen as arithmetic on places.
LEMMA FitsScreen ==
  ASSUME InputFitsScreen
  PROVE  /\ Rows \in Nat /\ Rows > 1 /\ Lines \in Nat /\ Lines >= Rows
         /\ BufferSize - 1 <= Rows * Cols - Cols
         /\ Lines * Cols \in Nat /\ Rows * Cols \in Nat /\ Cols \in Nat \ {0}
         /\ Place(Lines - Rows, 0) = Lines * Cols - Rows * Cols
         /\ Place(Lines - 1, 0) = Lines * Cols - Cols
         /\ 0 \in Columns
<1>1. (Rows - 1) * Cols = Rows * Cols - Cols
      /\ (Lines - Rows) * Cols = Lines * Cols - Rows * Cols
  BY TerminalAssumption
<1>2. (Lines - 1) * Cols = Lines * Cols - Cols
  BY ScreenSize
<1>3. Lines * Cols \in Nat /\ Rows * Cols \in Nat /\ Cols \in Nat \ {0}
  BY TerminalAssumption
<1>. QED  BY <1>1, <1>2, <1>3, TerminalAssumption DEF InputFitsScreen, Place, Columns

\* The line of the cursor, from how far the input reaches.
LEMMA InputLines ==
  ASSUME InputFitsScreen, TermTypes, PlainInv, KeyEcho, Shown < BufferSize, ~capped
  PROVE  start_line <= total_lines /\ total_lines <= start_line + Rows - 1
<1>1. Shown \in Nat /\ Cursor = Start + Shown
  BY KeyPending DEF KeyEcho
<1>2. start_line <= total_lines
  BY <1>1, TermFacts, PlaceOrder DEF Start, Cursor
<1>3. Place(start_line + Rows - 1, start_x) = Start + (Rows * Cols - Cols)
  <2>1. (start_line + Rows - 1) * Cols = start_line * Cols + (Rows * Cols - Cols)
        /\ start_line * Cols \in Nat /\ Rows * Cols \in Nat /\ Cols \in Nat
    BY TermFacts, TerminalAssumption
  <2>2. start_x \in Nat
    BY TermFacts, TerminalAssumption DEF Columns
  <2>. QED  BY <2>1, <2>2 DEF Place, Start
<1>4. Cursor <= Place(start_line + Rows - 1, start_x)
  BY <1>1, <1>3, FitsScreen, TermFacts, TerminalAssumption
<1>5. start_line + Rows - 1 \in Nat
  BY TermFacts, TerminalAssumption
<1>6. total_lines <= start_line + Rows - 1
  <2>1. PICK n \in Nat : n = start_line + Rows - 1
    BY <1>5
  <2>2. Place(total_lines, cursor_x) <= Place(n, start_x)
    BY <1>4, <2>1 DEF Cursor
  <2>3. total_lines <= n
    BY <2>1, <2>2, TermFacts, PlaceOrder
  <2>. QED  BY <2>1, <2>3
<1>. QED  BY <1>2, <1>6

\* How a step of input moves the cursor, and with it the number of
\* characters shown.
LEMMA KeyCounts ==
  ASSUME PrintableGarbage, EchoIInv, TermStep, mode = "key", mode' = "key",
         Shown < BufferSize
  PROVE  /\ Start' = Start
         /\ Shown' < BufferSize
         /\ \/ /\ capped' = capped
               /\ \/ Cursor' = Cursor /\ Shown' = Shown
                  \/ Cursor' = Cursor + 1 /\ Shown' = Shown + 1
                  \/ Cursor' = (IF Cursor = 0 THEN 0 ELSE Cursor - 1) /\ Shown' = Shown - 1
                  \/ Cursor' = Start /\ Shown' = 0
            \/ /\ capped' /\ total_lines >= Lines /\ ~Erasing
               /\ Cursor' = Cursor - Cols /\ Shown' = Shown
<1>. USE TerminalAssumption
<1>1. /\ TermTypes /\ PlainInv /\ KeyEcho
      /\ TermTypes' /\ PlainInv' /\ KeyEcho'
  <2>1. EchoIInv'
    BY TermTypesKept, PlainKept, BlankKept, KeyEchoKept DEF EchoIInv, EchoInv
  <2>. QED  BY <2>1 DEF EchoIInv, EchoInv
<1>2. /\ buff' \in Text /\ Len(buff') \in Nat /\ Len(buff') < BufferSize
      /\ buff \in Text /\ Len(buff) \in Nat /\ Len(buff) < BufferSize
      /\ todo' \in Text
  <2>1. buff' \in Text /\ Len(buff') < BufferSize /\ todo' \in Text
    BY <1>1 DEF TermTypes, InputTypes, PrintTypes
  <2>2. buff \in Text /\ Len(buff) < BufferSize
    BY <1>1 DEF TermTypes, InputTypes
  <2>. QED  BY <2>1, <2>2 DEF Text
<1>3. CASE PutStep(Head(todo) = NL /\ NewLine)
  <2>1. stage = "put" /\ todo # <<>> /\ Head(todo) = NL
    BY <1>3 DEF PutStep, Printed
  <2>2. Pending = todo /\ Head(todo) # BS
    BY <2>1 DEF Pending, NL, BS
  <2>3. ~Erasing
    BY <2>1, <2>2 DEF Erasing
  <2>. QED  BY <1>1, <2>1, <2>2, <2>3, KeyPending, PlainSuffix, TermFacts DEF PlainInv
<1>4. CASE PutStep(Head(todo) = BS /\ BackSpace)
  <2>1. stage = "put" /\ todo # <<>> /\ Head(todo) = BS
        /\ stage' = "limit" /\ UNCHANGED <<todo, buff, start_x, start_line, capped>>
    BY <1>4 DEF PutStep, Printed, line
  <2>2. Pending = todo
    BY <2>1 DEF Pending
  <2>3. Erasing /\ Shown = Len(buff) + 1 /\ todo = <<BS>>
    BY <1>1, <2>1, <2>2, KeyPending, PlainSuffix, TermFacts DEF PlainInv
  <2>4. Pending' = <<>> /\ ~Erasing' /\ Shown' = Len(buff)
    BY <2>1, <2>3, TermFacts DEF Pending, Erasing, Shown
  <2>6. Start' = Start /\ Cursor' = IF Cursor = 0 THEN 0 ELSE Cursor - 1
    BY <1>1, <1>4, <2>1, BackSpaceMoves DEF Start, PutStep
  <2>7. Shown' = Shown - 1 /\ Shown' < BufferSize
    BY <1>2, <2>3, <2>4
  <2>. QED  BY <2>1, <2>6, <2>7
<1>5. CASE PutStep(Head(todo) \notin {NL, BS} /\ Show(Head(todo)))
  <2>1. stage = "put" /\ todo # <<>> /\ Head(todo) \notin {NL, BS}
        /\ stage' = "limit" /\ UNCHANGED <<todo, buff, start_x, start_line, capped>>
        /\ Show(Head(todo))
    BY <1>5 DEF PutStep, Printed, line
  <2>2. Pending = todo /\ Pending' = Tail(todo)
    BY <2>1 DEF Pending
  <2>3. ~Erasing /\ SuffixOf(todo, buff) /\ Shown = Len(buff) - Len(todo)
    BY <1>1, <2>1, <2>2, KeyPending
  <2>4. Tail(todo) \in Text /\ SuffixOf(Tail(todo), buff) /\ Len(Tail(todo)) = Len(todo) - 1
    BY <1>1, <2>1, <2>3, PlainSuffix, TermFacts DEF PlainInv
  <2>5. ~Erasing'
    <3>1. Tail(todo) # <<BS>>
      BY <1>1, <2>4, PlainSuffix, TermFacts DEF PlainInv
    <3>. QED  BY <2>1, <2>2, <3>1 DEF Erasing
  <2>6. Shown' = Shown + 1 /\ Shown' < BufferSize
    <3>1. Len(Tail(todo)) = Len(todo) - 1 /\ Len(todo) \in Nat /\ Len(Tail(todo)) \in Nat
      BY <1>1, <2>4, TermFacts DEF Text
    <3>2. Shown' = Len(buff) - Len(Tail(todo))
      BY <2>1, <2>2, <2>5 DEF Shown
    <3>3. PICK b, t, u \in Nat : b = Len(buff) /\ t = Len(todo) /\ u = Len(Tail(todo))
      BY <1>2, <3>1
    <3>4. b < BufferSize /\ u = t - 1 /\ Shown = b - t
      BY <1>2, <2>3, <3>1, <3>3
    <3>5. Shown' = b - u
      BY <3>2, <3>3
    <3>6. PICK s, s2 \in Int : s = Shown /\ s2 = Shown'
      BY <3>4, <3>5
    <3>7. s2 = s + 1 /\ s2 < BufferSize
      BY <3>4, <3>5, <3>6
    <3>. QED  BY <3>6, <3>7
  <2>7. Start' = Start /\ Cursor' = Cursor + 1
    BY <1>1, <2>1, ShowMoves DEF Start
  <2>. QED  BY <2>1, <2>6, <2>7
<1>6. CASE Limit /\ UNCHANGED mode
  <2>1. stage = "limit" /\ stage' = "follow"
        /\ UNCHANGED <<todo, buff, start_x, start_line, cursor_x>>
        /\ total_lines' = (IF total_lines >= Lines THEN Lines - 1 ELSE total_lines)
        /\ capped' = (capped \/ total_lines >= Lines)
    BY <1>6 DEF Limit, line
  <2>2. Pending' = Pending /\ (Erasing' <=> Erasing) /\ Shown' = Shown /\ Start' = Start
    BY <2>1 DEF Pending, Erasing, Shown, Start
  <2>3. ~Erasing
    BY <1>1, <2>1, KeyPending
  <2>4. CASE total_lines >= Lines
    <3>1. capped' /\ total_lines' = Lines - 1
      BY <2>1, <2>4
    <3>2. total_lines = Lines
      BY <1>1, <2>4, TermFacts DEF TermTypes, ScreenTypes
    <3>3. Cursor' = Cursor - Cols
      <4>1. cursor_x' = cursor_x /\ cursor_x \in Nat
        BY <1>1, <2>1, TermFacts DEF Columns
      <4>2. (Lines - 1) * Cols = Lines * Cols - Cols /\ Lines * Cols \in Nat
        BY ScreenSize
      <4>3. Place(Lines - 1, cursor_x) = Place(Lines, cursor_x) - Cols
        BY <4>1, <4>2 DEF Place
      <4>. QED  BY <3>1, <3>2, <4>1, <4>3 DEF Cursor
    <3>. QED  BY <2>2, <2>3, <2>4, <3>1, <3>3
  <2>5. CASE ~(total_lines >= Lines)
    <3>1. Cursor' = Cursor /\ capped' = capped
      BY <1>1, <2>1, <2>5, TermFacts DEF Cursor, TermTypes, InputTypes
    <3>. QED  BY <2>2, <3>1
  <2>. QED  BY <2>4, <2>5
<1>7. CASE (Follow \/ Scroll) /\ UNCHANGED mode
  <2>1. /\ stage \in {"follow", "scroll"}
        /\ UNCHANGED <<buff, start_x, start_line, cursor_x, total_lines, capped>>
    BY <1>7 DEF Follow, Scroll, line, screen
  <2>2. \/ todo' = todo /\ stage' = "scroll"
        \/ todo' = Tail(todo) /\ stage' = "put"
    BY <1>7 DEF Follow, Scroll
  <2>3. Pending' = Pending /\ (Erasing' <=> Erasing) /\ Shown' = Shown /\ Start' = Start
        /\ Cursor' = Cursor
    BY <2>1, <2>2 DEF Pending, Erasing, Shown, Start, Cursor
  <2>. QED  BY <2>1, <2>3
<1>9. CASE Types
  <2>1. PICK c \in Letters : Typed(c)
    BY <1>9 DEF Types
  <2>2. Printed /\ buff' = Append(buff, c) /\ todo' = <<c>>
        /\ UNCHANGED <<cursor_x, total_lines, start_x, start_line, capped, stage>>
    BY <2>1 DEF Typed, Output, screen
  <2>3. stage = "put" /\ ~Erasing /\ Shown = Len(buff)
    BY <1>1, <2>2, KeyPending DEF Printed, TermTypes, PrintTypes
  <2>4. Pending' = <<c>> /\ c # BS
    BY <2>2, <2>3 DEF Pending
  <2>5. Len(buff') = Len(buff) + 1
    BY <1>2, <2>2 DEF Text
  <2>6. ~Erasing' /\ Shown' = Len(buff)
    BY <1>2, <2>4, <2>5 DEF Erasing, Shown
  <2>8. Start' = Start /\ Cursor' = Cursor
    BY <2>2 DEF Start, Cursor
  <2>. QED  BY <1>2, <2>2, <2>3, <2>6, <2>8
<1>10. CASE Erases
  <2>1. Printed /\ buff # <<>>
        /\ buff' = SubSeq(buff, 1, Len(buff) - 1) /\ todo' = <<BS>>
        /\ UNCHANGED <<cursor_x, total_lines, start_x, start_line, capped, stage>>
    BY <1>10 DEF Erases, Erase, Output, screen
  <2>2. stage = "put" /\ ~Erasing /\ Shown = Len(buff)
    BY <1>1, <2>1, KeyPending DEF Printed, TermTypes, PrintTypes
  <2>3. Len(buff') = Len(buff) - 1
    BY <1>2, <2>1 DEF Text
  <2>4. Pending' = <<BS>> /\ Erasing'
    BY <2>1, <2>2 DEF Pending, Erasing
  <2>5. Shown' = Len(buff)
    BY <1>2, <2>3, <2>4 DEF Shown
  <2>6. Start' = Start /\ Cursor' = Cursor
    BY <2>1 DEF Start, Cursor
  <2>. QED  BY <1>2, <2>1, <2>2, <2>5, <2>6
<1>11. CASE Recalls
  <2>1. PICK src \in Text : Replace(src)
    BY <1>1, <1>11, RecallIsReplace
  <2>2. /\ todo' = buff' /\ cursor_x' = start_x /\ total_lines' = start_line
        /\ UNCHANGED <<stage, start_x, start_line, capped>>
    BY <1>1, <2>1, Replaced
  <2>3. stage = "put"
    BY <1>1, <1>11, RecallIsReplace DEF Printed, TermTypes, PrintTypes
  <2>4. Pending' = buff'
    BY <2>2, <2>3 DEF Pending
  <2>5. buff' # <<BS>>
    BY <1>1, <1>2 DEF PlainInv, Plain
  <2>6. ~Erasing' /\ Shown' = 0
    BY <1>2, <2>4, <2>5 DEF Erasing, Shown
  <2>7. Cursor' = Start /\ Start' = Start
    BY <2>2 DEF Cursor, Start
  <2>. QED  BY <2>2, <2>6, <2>7
<1>12. CASE Wheel \/ Quiet
  <2>1. UNCHANGED <<cursor_x, total_lines, buff, start_x, start_line, todo, stage, capped>>
    BY <1>12 DEF Wheel, Quiet, termVars, screen, line
  <2>2. Start' = Start /\ Shown' = Shown /\ Cursor' = Cursor
    BY <2>1 DEF Erasing, Pending, Shown, Cursor, Start
  <2>. QED  BY <2>1, <2>2
<1>. QED
  BY <1>3, <1>4, <1>5, <1>6, <1>7, <1>9, <1>10, <1>11, <1>12
     DEF TermStep, Listens, Enters, Prints, ClearsScreen

\* Every step keeps the bounds on a line that reached the last line.
LEMMA CappedKept ==
  ASSUME InputFitsScreen, PrintableGarbage, EchoIInv, CappedInv, TermStep
  PROVE  CappedInv'
<1>. USE TerminalAssumption
<1>1. TermTypes /\ PlainInv /\ (mode = "key" => KeyEcho) /\ EchoIInv'
  <2>1. EchoIInv'
    BY TermTypesKept, PlainKept, BlankKept, KeyEchoKept DEF EchoIInv, EchoInv
  <2>. QED  BY <2>1 DEF EchoIInv, EchoInv
<1>2. TermTypes' /\ PlainInv' /\ (mode' = "key" => KeyEcho')
  BY <1>1 DEF EchoIInv, EchoInv
<1>3. CASE mode = "key" /\ mode' = "key"
  <2>1. KeyEcho /\ Shown < BufferSize
    BY <1>1, <1>3 DEF CappedInv
  <2>2. PICK n \in Nat : n = Lines * Cols
    BY FitsScreen
  <2>3. (Lines - 1) * Cols = n - Cols
    BY <2>2, ScreenSize
  <2>4. PICK at, from, shown, b \in Nat :
          at = Cursor /\ from = Start /\ shown = Shown /\ b = BufferSize - 1
    BY <1>1, <2>1, TermFacts, KeyPending
  <2>5. at <= from + shown /\ (~capped => at = from + shown) /\ shown <= b + 1
    BY <2>1, <2>4 DEF KeyEcho
  <2>6. capped => from >= n - b /\ at >= n - Cols - b + shown
    BY <1>3, <2>2, <2>3, <2>4 DEF CappedInv
  <2>7. ~Erasing => shown <= b
    BY <1>1, <2>1, <2>4, KeyPending, TermFacts DEF Shown
  <2>8. total_lines >= Lines => at >= n
    <3>1. HAVE total_lines >= Lines
    <3>2. total_lines = Lines /\ cursor_x \in Nat
      BY <1>1, <3>1, TermFacts DEF TermTypes, ScreenTypes, Columns
    <3>. QED  BY <2>2, <2>4, <3>2 DEF Cursor, Place
  <2>9. PICK at2, shown2 \in Int : at2 = Cursor' /\ shown2 = Shown'
    <3>1. mode' = "key" /\ KeyEcho'
      BY <1>2, <1>3
    <3>2. \/ Shown' = Shown \/ Shown' = Shown + 1 \/ Shown' = Shown - 1 \/ Shown' = 0
      BY <1>3, <2>1, KeyCounts
    <3>3. \/ Cursor' = Cursor \/ Cursor' = Cursor + 1 \/ Cursor' = (IF Cursor = 0 THEN 0 ELSE Cursor - 1)
          \/ Cursor' = Start \/ Cursor' = Cursor - Cols
      BY <1>3, <2>1, KeyCounts
    <3>. QED  BY <2>4, <3>2, <3>3
  <2>10. /\ Start' = from
         /\ shown2 < BufferSize
         /\ \/ /\ capped' = capped
               /\ \/ at2 = at /\ shown2 = shown
                  \/ at2 = at + 1 /\ shown2 = shown + 1
                  \/ at2 = (IF at = 0 THEN 0 ELSE at - 1) /\ shown2 = shown - 1
                  \/ at2 = from /\ shown2 = 0
            \/ /\ capped' /\ total_lines >= Lines /\ ~Erasing
               /\ at2 = at - Cols /\ shown2 = shown
    BY <1>3, <2>1, <2>4, <2>9, KeyCounts
  <2>11. ASSUME capped' PROVE from >= n - b /\ at2 >= n - Cols - b + shown2
    <3>1. CASE /\ capped
               /\ \/ at2 = at /\ shown2 = shown
                  \/ at2 = at + 1 /\ shown2 = shown + 1
                  \/ at2 = (IF at = 0 THEN 0 ELSE at - 1) /\ shown2 = shown - 1
                  \/ at2 = from /\ shown2 = 0
      BY <2>6, <3>1
    <3>2. CASE total_lines >= Lines /\ ~Erasing /\ at2 = at - Cols /\ shown2 = shown
      BY <2>5, <2>6, <2>7, <2>8, <3>2
    <3>. QED  BY <2>10, <2>11, <3>1, <3>2
  <2>12. ~Leaving'
    BY <1>3 DEF Leaving
  <2>13. Shown' < BufferSize
    BY <2>9, <2>10
  <2>14. capped' => /\ Start' >= Lines * Cols - (BufferSize - 1)
                    /\ Cursor' >= (Lines - 1) * Cols - (BufferSize - 1) + Shown'
    <3>1. HAVE capped'
    <3>2. from >= n - b /\ at2 >= n - Cols - b + shown2
      BY <2>11, <3>1
    <3>. QED  BY <2>2, <2>3, <2>4, <2>9, <2>10, <3>2
  <2>. QED  BY <2>12, <2>13, <2>14 DEF CappedInv
<1>4. CASE mode # "key" /\ mode' = "key"
  <2>1. Listens
    BY <1>4 DEF TermStep, PutStep, Types, Erases, Recalls, Enters, Prints, ClearsScreen,
       Wheel, Quiet
  <2>2. ~capped' /\ ~Leaving' /\ buff' = <<>> /\ todo' = <<>> /\ stage' = "put"
    BY <1>1, <2>1 DEF Listens, CallInput, Leaving, Printed, TermTypes, PrintTypes
  <2>3. Shown' = 0
    BY <2>2 DEF Shown, Erasing, Pending
  <2>. QED  BY <2>2, <2>3 DEF CappedInv
<1>5. CASE mode' # "key"
  <2>1. ASSUME Leaving' PROVE total_lines' >= Lines - Rows
    <3>1. mode' = "command" /\ todo' # <<>> /\ stage' = "put" /\ capped'
      BY <2>1 DEF Leaving
    <3>2. CASE Enters
      <4>1. mode = "key" /\ KeyEcho /\ Printed /\ UNCHANGED <<total_lines, capped>>
        BY <1>1, <3>2 DEF Enters, Enter, screen
      <4>2. Shown \in Nat
        BY <1>1, <4>1, KeyPending
      <4>3. Cursor >= (Lines - 1) * Cols - (BufferSize - 1) + Shown
        BY <3>1, <4>1 DEF CappedInv
      <4>4. Place(Lines - Rows, 0) <= Cursor
        BY <4>2, <4>3, FitsScreen, ScreenSize, TermFacts, <1>1
      <4>5. Lines - Rows \in Nat /\ 0 \in Columns
        BY FitsScreen
      <4>6. Lines - Rows <= total_lines
        BY <1>1, <4>4, <4>5, TermFacts, PlaceOrder DEF Cursor
      <4>. QED  BY <1>1, <4>1, <4>6, TermFacts
    <3>3. CASE mode = "command" /\ (Follow \/ Scroll)
      <4>1. todo \in {<<>>, <<NL>>}
        BY <1>1, <3>3 DEF TermTypes, PrintTypes
      <4>2. todo' = Tail(todo) /\ stage # "put"
        BY <3>1, <3>3 DEF Follow, Scroll
      <4>3. todo = <<NL>>
        BY <1>1, <4>1, <4>2 DEF TermTypes, PrintTypes
      <4>. QED  BY <3>1, <4>2, <4>3
    <3>4. CASE Wheel \/ Quiet
      <4>1. Leaving /\ total_lines' = total_lines
        BY <3>1, <3>4 DEF Wheel, Quiet, Leaving, termVars, screen, Printed
      <4>. QED  BY <4>1 DEF CappedInv
    <3>. QED
      BY <3>1, <3>2, <3>3, <3>4
         DEF TermStep, PutStep, Limit, Listens, Types, Erases, Recalls, Prints, ClearsScreen
  <2>. QED  BY <1>5, <2>1 DEF CappedInv
<1>. QED  BY <1>3, <1>4, <1>5

\* Every step keeps the viewport where the cursor is, or where the reader
\* left it.
LEMMA ViewKept ==
  ASSUME InputFitsScreen, PrintableGarbage, EchoIInv, CappedInv, ViewInv, TermStep
  PROVE  ViewInv'
<1>. USE TerminalAssumption
<1>1. TermTypes /\ PlainInv /\ (mode = "key" => KeyEcho /\ Shown < BufferSize)
  BY DEF EchoIInv, EchoInv, CappedInv
<1>2. TermTypes'
  BY <1>1, TermTypesKept
<1>3. /\ total_lines \in 0 .. Lines /\ (total_lines = Lines => stage = "limit")
      /\ viewport_top \in Nat /\ viewport_top + Rows <= Lines + 1
      /\ start_line \in Nat /\ follow_output \in BOOLEAN /\ capped \in BOOLEAN
      /\ stage \in Stages
  BY <1>1 DEF TermTypes, ScreenTypes, InputTypes, PrintTypes
<1>4. Rows \in Nat /\ Rows > 1 /\ Rows <= Lines /\ Lines \in Nat
  BY FitsScreen
<1>5. mode = "key" /\ ~capped =>
        start_line <= total_lines /\ total_lines <= start_line + Rows - 1
  BY <1>1, InputLines
<1>6. /\ mode = "key" /\ ~capped => viewport_top <= start_line
      /\ mode # "key" /\ ~Leaving => viewport_top <= total_lines
      /\ stage = "put" /\ follow_output /\ ~Leaving /\ ~(mode = "key" /\ capped) =>
           viewport_top >= total_lines - Rows + 1
  BY DEF ViewInv, AtBottom
<1>7. mode # "key" => Head(todo) # BS \/ Printed
  BY <1>1, TermFacts DEF TermTypes, PrintTypes, Printed, Text
<1>8. Leaving => total_lines >= Lines - Rows
  BY DEF CappedInv
<1>9. Printed => ~Leaving /\ stage = "put"
  BY <1>1 DEF Printed, Leaving, TermTypes, PrintTypes
<1> DEFINE G1 == mode' = "key" /\ ~capped' => viewport_top' <= start_line'
           G2 == mode' # "key" /\ ~Leaving' => viewport_top' <= total_lines'
           G3 == stage' = "put" /\ follow_output' /\ ~Leaving' /\ ~(mode' = "key" /\ capped')
                   => viewport_top' >= total_lines' - Rows + 1
<1>10. SUFFICES G1 /\ G2 /\ G3
  BY DEF ViewInv, AtBottom
<1>11. CASE \/ PutStep(Head(todo) = NL /\ NewLine)
            \/ PutStep(Head(todo) = BS /\ BackSpace)
            \/ PutStep(Head(todo) \notin {NL, BS} /\ Show(Head(todo)))
  <2>1. /\ stage' = "limit" /\ ~Printed /\ stage = "put"
        /\ UNCHANGED <<viewport_top, mode, todo, capped, start_line>>
    BY <1>11 DEF PutStep, viewport, line
  <2>2. G1 /\ G3
    BY <1>6, <2>1
  <2>3. ASSUME mode # "key", NewLine, Head(todo) = NL PROVE viewport_top' <= total_lines'
    <3>1. viewport_top' = viewport_top /\ total_lines' = total_lines + 1
      BY <2>1, <2>3 DEF NewLine
    <3>2. viewport_top <= total_lines \/ total_lines >= Lines - Rows
      BY <1>6, <1>8, <2>3
    <3>. QED  BY <1>3, <1>4, <3>1, <3>2
  <2>4. ASSUME mode # "key", Head(todo) \notin {NL, BS}, Show(Head(todo))
        PROVE  viewport_top' <= total_lines'
    <3>1. ~Leaving
      BY <1>1, <2>1, <2>4 DEF Leaving, TermTypes, PrintTypes, Printed
    <3>2. (cursor_x + 1) \div Cols \in {0, 1}
      BY <1>1, TermFacts, CursorWraps DEF Columns
    <3>3. PICK d \in {0, 1} : total_lines' = total_lines + d
      BY <2>4, <3>2 DEF Show
    <3>. QED  BY <1>3, <1>6, <2>1, <2>4, <3>1, <3>3
  <2>5. mode # "key" => Head(todo) # BS
    BY <1>7, <2>1
  <2>6. ASSUME mode # "key" PROVE viewport_top' <= total_lines'
    BY <1>11, <2>3, <2>4, <2>5, <2>6 DEF PutStep
  <2>. QED  BY <2>1, <2>2, <2>6
<1>12. CASE Limit /\ UNCHANGED mode
  <2>1. /\ stage' = "follow" /\ stage = "limit" /\ mode' = mode
        /\ UNCHANGED <<viewport_top, start_line>>
    BY <1>12 DEF Limit, viewport, line
  <2>2. ~capped' => ~capped
    BY <1>12 DEF Limit
  <2>3. total_lines' = IF total_lines >= Lines THEN Lines - 1 ELSE total_lines
    BY <1>12 DEF Limit
  <2>4. ~Leaving
    BY <2>1 DEF Leaving
  <2>5. mode # "key" => viewport_top <= total_lines'
    BY <1>3, <1>4, <1>6, <2>3, <2>4
  <2>. QED  BY <1>6, <2>1, <2>2, <2>5
<1>13. CASE Follow /\ UNCHANGED mode
  <2>1. /\ stage = "follow" /\ UNCHANGED <<viewport_top, follow_output, total_lines, start_line, capped, mode>>
    BY <1>13 DEF Follow, viewport, line, screen
  <2>2. stage' = "put" => ~follow_output
    BY <1>13 DEF Follow
  <2>3. ~Leaving
    BY <2>1 DEF Leaving
  <2>. QED  BY <1>6, <2>1, <2>2, <2>3
<1>14. CASE Scroll /\ UNCHANGED mode
  <2>1. /\ stage = "scroll" /\ UNCHANGED <<total_lines, start_line, capped, mode>>
    BY <1>14 DEF Scroll, line, screen
  <2>2. viewport_top' = IF total_lines - Rows + 1 < 0 THEN 0 ELSE total_lines - Rows + 1
    BY <1>14 DEF Scroll, NewTop
  <2>3. viewport_top' <= total_lines /\ viewport_top' >= total_lines - Rows + 1
    BY <1>3, <1>4, <2>2
  <2>4. mode = "key" /\ ~capped => viewport_top' <= start_line
    BY <1>3, <1>4, <1>5, <2>2
  <2>. QED  BY <2>1, <2>3, <2>4
<1>15. CASE Listens
  <2>1. /\ mode = "prompt" /\ mode' = "key" /\ Printed /\ start_line' = total_lines
        /\ UNCHANGED <<viewport_top, follow_output, total_lines>>
    BY <1>15 DEF Listens, CallInput, viewport, screen
  <2>. QED  BY <1>6, <1>9, <2>1
<1>16. CASE Types \/ Erases
  <2>1. /\ mode = "key" /\ mode' = "key" /\ Printed /\ stage' = stage
        /\ UNCHANGED <<viewport_top, follow_output, total_lines, start_line, capped>>
    BY <1>16 DEF Types, Typed, Erases, Erase, viewport, screen
  <2>. QED  BY <1>6, <1>9, <2>1
<1>17. CASE Recalls
  <2>1. PICK src \in Text : Replace(src)
    BY <1>1, <1>17, RecallIsReplace
  <2>2. /\ mode = "key" /\ mode' = "key" /\ Printed /\ total_lines' = start_line
        /\ UNCHANGED <<viewport_top, follow_output, start_line, capped>>
    BY <1>1, <1>17, <2>1, RecallIsReplace DEF Replace, viewport
  <2>3. ~capped => start_line <= total_lines
    BY <1>5, <2>2
  <2>4. ASSUME follow_output, ~capped PROVE viewport_top >= start_line - Rows + 1
    <3>1. viewport_top >= total_lines - Rows + 1 /\ start_line <= total_lines
      BY <1>6, <1>9, <2>2, <2>3, <2>4
    <3>. QED  BY <1>3, <1>4, <3>1
  <2>. QED  BY <1>6, <2>2, <2>4
<1>18. CASE Enters
  <2>1. /\ mode = "key" /\ mode' = "command" /\ Printed /\ todo' = <<NL>> /\ stage' = stage
        /\ UNCHANGED <<viewport_top, follow_output, total_lines, capped>>
    BY <1>18 DEF Enters, Enter, Output, viewport, screen
  <2>2. ~Leaving' => ~capped
    BY <1>9, <2>1 DEF Leaving
  <2>3. ~capped => viewport_top <= total_lines
    BY <1>3, <1>5, <1>6, <2>1
  <2>. QED  BY <1>6, <1>9, <2>1, <2>2, <2>3
<1>19. CASE Prints
  <2>1. /\ mode # "key" /\ mode' = "prompt" /\ Printed
        /\ UNCHANGED <<viewport_top, follow_output, total_lines>>
    BY <1>19 DEF Prints, viewport, screen
  <2>. QED  BY <1>6, <1>9, <2>1
<1>20. CASE ClearsScreen
  <2>1. mode' = "prompt" /\ viewport_top' = 0 /\ total_lines' = 0
    BY <1>20 DEF ClearsScreen, terminal_clear
  <2>. QED  BY <1>4, <2>1
<1>21. CASE Wheel
  <2>1. UNCHANGED <<mode, total_lines, todo, stage, capped, start_line>>
    BY <1>21 DEF Wheel, screen, line
  <2>2. Leaving' <=> Leaving
    BY <2>1 DEF Leaving
  <2>3. CASE ScrollUp
    <3>1. viewport_top' <= viewport_top /\ viewport_top' \in Nat
      BY <1>3, <2>3 DEF ScrollUp
    <3>2. follow_output' => follow_output /\ ~(viewport_top >= total_lines - Rows + 1)
      BY <2>3 DEF ScrollUp, AtBottom
    <3>3. G1
      BY <1>3, <1>6, <2>1, <3>1
    <3>4. G2
      BY <1>3, <1>6, <2>1, <2>2, <3>1
    <3>. QED  BY <1>6, <2>1, <2>2, <3>2, <3>3, <3>4
  <2>4. CASE ScrollDown
    <3>1. viewport_top' = IF viewport_top + Rows <= total_lines THEN viewport_top + 1 ELSE viewport_top
      BY <2>4 DEF ScrollDown
    <3>2. follow_output' => follow_output \/ viewport_top >= total_lines - Rows + 1
      BY <2>4 DEF ScrollDown, AtBottom
    <3>3. viewport_top' >= viewport_top
          /\ (viewport_top' = viewport_top \/ viewport_top' <= total_lines - Rows + 1)
      BY <1>3, <1>4, <3>1
    <3>4. G1
      <4>1. total_lines - Rows + 1 <= start_line \/ mode # "key" \/ capped
        BY <1>3, <1>4, <1>5
      <4>. QED  BY <1>3, <1>4, <1>6, <2>1, <3>1, <3>3, <4>1
    <3>5. G2
      BY <1>3, <1>4, <1>6, <2>1, <2>2, <3>3, <3>1
    <3>6. G3
      <4>1. ASSUME stage = "put", follow_output', ~Leaving, ~(mode = "key" /\ capped)
            PROVE  viewport_top >= total_lines - Rows + 1
        BY <1>6, <3>2, <4>1
      <4>2. viewport_top >= total_lines - Rows + 1 => viewport_top' >= total_lines - Rows + 1
        BY <1>3, <1>4, <3>1
      <4>. QED  BY <2>1, <2>2, <4>1, <4>2
    <3>. QED  BY <3>4, <3>5, <3>6
  <2>. QED  BY <1>21, <2>3, <2>4 DEF Wheel
<1>22. CASE Quiet
  <2>1. UNCHANGED <<viewport_top, follow_output, total_lines, todo, stage, capped, start_line>>
    BY <1>22 DEF Quiet, termVars, viewport, screen, line
  <2>2. (mode' = mode /\ (Leaving' <=> Leaving)) \/ (mode # "key" /\ mode' # "key"
        /\ ~Leaving)
    BY <1>9, <1>22, <2>1 DEF Quiet, Leaving
  <2>3. G1
    BY <1>6, <2>1, <2>2
  <2>4. G2
    BY <1>6, <2>1, <2>2
  <2>5. G3
    BY <1>6, <2>1, <2>2
  <2>. QED  BY <2>3, <2>4, <2>5
<1>. QED
  BY <1>11, <1>12, <1>13, <1>14, <1>15, <1>16, <1>17, <1>18, <1>19, <1>20, <1>21, <1>22
     DEF TermStep

\* The bounds hold at the start.
LEMMA ViewInit == ASSUME InputFitsScreen PROVE Init => CappedInv /\ ViewInv
<1>. SUFFICES ASSUME Init PROVE CappedInv /\ ViewInv
  OBVIOUS
<1>1. mode = "boot" /\ capped = FALSE /\ viewport_top = 0 /\ total_lines = 0
  BY DEF Init, TerminalInit
<1>. QED
  BY <1>1, FitsScreen DEF CappedInv, ViewInv, Leaving, AtBottom

\* Once all is stored, the invariant is the property.
LEMMA ViewSeen ==
  ASSUME InputFitsScreen, ViewIInv
  PROVE  ViewportSound
<1>. USE TerminalAssumption
<1>1. TermTypes /\ PlainInv /\ (mode = "key" => KeyEcho /\ Shown < BufferSize) /\ ViewInv
  BY DEF ViewIInv, EchoIInv, EchoInv, CappedInv
<1>2. /\ cursor_x \in 0 .. Cols - 1 /\ viewport_top \in Nat /\ viewport_top + Rows <= Lines + 1
      /\ total_lines \in 0 .. Lines /\ (total_lines = Lines => stage = "limit")
      /\ start_line \in Nat
  BY <1>1 DEF TermTypes, ScreenTypes, InputTypes
<1>3. ASSUME Printed, follow_output, ~capped
      PROVE  viewport_top <= total_lines /\ total_lines < viewport_top + Rows
  <2>1. stage = "put" /\ ~Leaving
    BY <1>1, <1>3 DEF Printed, TermTypes, PrintTypes, Leaving
  <2>2. viewport_top >= total_lines - Rows + 1
    BY <1>1, <1>3, <2>1 DEF ViewInv, AtBottom
  <2>3. viewport_top <= total_lines
    <3>1. CASE mode = "key"
      <4>1. viewport_top <= start_line
        BY <1>1, <1>3, <3>1 DEF ViewInv
      <4>2. start_line <= total_lines
        BY <1>1, <1>3, <3>1, InputLines
      <4>. QED  BY <1>2, <4>1, <4>2
    <3>2. CASE mode # "key"
      BY <1>1, <2>1, <3>2 DEF ViewInv
    <3>. QED  BY <3>1, <3>2
  <2>. QED  BY <1>2, <2>2, <2>3
<1>. QED  BY <1>2, <1>3 DEF ViewportSound

\* The step of the whole invariant.
LEMMA ViewStep ==
  ASSUME InputFitsScreen, PrintableGarbage, ViewIInv, [Next]_vars PROVE ViewIInv'
<1>1. EchoIInv'
  BY EchoStep DEF ViewIInv
<1>2. TermStep
  BY TermSteps DEF ViewIInv, EchoIInv
<1>. QED  BY <1>1, <1>2, CappedKept, ViewKept DEF ViewIInv

(***************************************************************************)
(* ViewportSound for every size of screen on which a line of input fits:   *)
(* whatever is printed, typed, erased, recalled and scrolled by keys or by the *)
(* mouse, the viewport stays within the lines kept (console_history, 1000 of *)
(* them), and once all is printed an output that is followed shows the cursor's *)
(* line.                                                                   *)
(***************************************************************************)
THEOREM ConsoleViewport ==
  ASSUME InputFitsScreen, PrintableGarbage PROVE Spec => []ViewportSound
<1>1. Init => ViewIInv
  BY TermTypesInit, PlainInit, EchoInit, ViewInit DEF EchoIInv, ViewIInv
<1>2. ViewIInv /\ [Next]_vars => ViewIInv'
  BY ViewStep
<1>3. ViewIInv => ViewportSound
  BY ViewSeen
<1>. QED  BY <1>1, <1>2, <1>3, PTL DEF Spec
-----------------------------------------------------------------------------

\* The ring of recalled lines is the lines entered, the last one first; a line
\* that is browsed has one to come back to.
RecallInv ==
  /\ entered \in Seq(Text) /\ Len(entered) = history_count
  /\ \A i \in 1 .. history_count : entered[i] = history_entries[Slot(i)]
  /\ browse_idx <= history_count
  /\ \A i \in 0 .. HistorySize - 1 : Len(history_entries[i]) < BufferSize
  /\ browse_idx > 0 => saved_input # Unwritten /\ Len(saved_input) < BufferSize

RecallIInv == TermTypes /\ PlainInv /\ RecallInv

\* Indices into the ring, at most once around it.
LEMMA RingMod ==
  ASSUME NEW a \in 0 .. 2 * HistorySize - 1
  PROVE  a % HistorySize = IF a < HistorySize THEN a ELSE a - HistorySize
BY TerminalAssumption

\* The slot of the i-th last line.
LEMMA SlotBack ==
  ASSUME history_head \in 0 .. HistorySize - 1, NEW i \in 1 .. HistorySize
  PROVE  Slot(i) = IF i <= history_head THEN history_head - i ELSE history_head - i + HistorySize
<1>1. history_head - i + HistorySize \in 0 .. 2 * HistorySize - 1
  BY TerminalAssumption
<1>2. PICK a \in 0 .. 2 * HistorySize - 1 : a = history_head - i + HistorySize
  BY <1>1
<1>3. a % HistorySize = IF a < HistorySize THEN a ELSE a - HistorySize
  BY RingMod
<1>. QED  BY <1>2, <1>3, TerminalAssumption DEF Slot

\* history_push moves every line one slot back.
LEMMA SlotMoves ==
  ASSUME history_head \in 0 .. HistorySize - 1,
         history_head' = (history_head + 1) % HistorySize
  PROVE  /\ history_head' \in 0 .. HistorySize - 1
         /\ Slot(1)' = history_head
         /\ \A i \in 2 .. HistorySize : Slot(i)' = Slot(i - 1) /\ Slot(i - 1) # history_head
<1>. USE TerminalAssumption
<1>1. history_head' = IF history_head + 1 < HistorySize THEN history_head + 1 ELSE 0
  <2>1. PICK a \in 0 .. 2 * HistorySize - 1 : a = history_head + 1
    BY TerminalAssumption
  <2>2. a % HistorySize = IF a < HistorySize THEN a ELSE a - HistorySize
    BY RingMod
  <2>3. history_head' = a % HistorySize
    BY <2>1
  <2>. QED  BY <2>1, <2>2, <2>3
<1>2. history_head' \in 0 .. HistorySize - 1
  BY <1>1
<1>3. ASSUME NEW i \in 1 .. HistorySize
      PROVE  Slot(i)' = IF i <= history_head' THEN history_head' - i
                        ELSE history_head' - i + HistorySize
  <2>1. PICK h \in 0 .. HistorySize - 1 : h = history_head'
    BY <1>2
  <2>2. PICK a \in 0 .. 2 * HistorySize - 1 : a = h - i + HistorySize
    BY h - i + HistorySize \in 0 .. 2 * HistorySize - 1
  <2>3. a % HistorySize = IF a < HistorySize THEN a ELSE a - HistorySize
    BY RingMod
  <2>4. Slot(i)' = a % HistorySize
    BY <2>1, <2>2 DEF Slot
  <2>. QED  BY <2>1, <2>2, <2>3, <2>4
<1>4. Slot(1)' = history_head
  BY <1>1, <1>3, 1 \in 1 .. HistorySize
<1>5. ASSUME NEW i \in 2 .. HistorySize
      PROVE  Slot(i)' = Slot(i - 1) /\ Slot(i - 1) # history_head
  <2>1. PICK j \in 1 .. HistorySize : j = i - 1
    OBVIOUS
  <2>2. Slot(j) = IF j <= history_head THEN history_head - j ELSE history_head - j + HistorySize
    BY SlotBack
  <2>. QED  BY <1>1, <1>3, <2>1, <2>2
<1>. QED  BY <1>2, <1>4, <1>5

\* No line has been entered at the start.
LEMMA RecallInit == Init => RecallInv
<1>. SUFFICES ASSUME Init PROVE RecallInv
  OBVIOUS
<1>1. /\ history_entries = [i \in 0 .. HistorySize - 1 |-> <<>>]
      /\ history_count = 0 /\ entered = <<>> /\ browse_idx = 0
  BY DEF Init, TerminalInit
<1>. QED  BY <1>1, TerminalAssumption DEF RecallInv

\* A line that is entered becomes the last one, and the oldest may be lost.
LEMMA PushKeeps ==
  ASSUME TermTypes, RecallInv, history_push
  PROVE  /\ entered' \in Seq(Text) /\ Len(entered') = history_count'
         /\ \A i \in 1 .. history_count' : entered'[i] = history_entries'[Slot(i)']
         /\ history_count' >= history_count /\ history_count' \in Nat
         /\ \A i \in 0 .. HistorySize - 1 : Len(history_entries'[i]) < BufferSize
<1>. USE TerminalAssumption
<1>1. /\ history_head \in 0 .. HistorySize - 1 /\ history_count \in 0 .. HistorySize
      /\ history_entries \in [0 .. HistorySize - 1 -> Text]
      /\ buff \in Text /\ Len(buff) < BufferSize
  BY DEF TermTypes, InputTypes
<1>2. /\ entered \in Seq(Text) /\ Len(entered) = history_count
      /\ \A i \in 1 .. history_count : entered[i] = history_entries[Slot(i)]
      /\ \A i \in 0 .. HistorySize - 1 : Len(history_entries[i]) < BufferSize
  BY DEF RecallInv
<1>3. CASE buff = <<>>
  <2>1. UNCHANGED ring
    BY <1>3 DEF history_push
  <2>2. /\ entered' = entered /\ history_count' = history_count
        /\ history_entries' = history_entries
        /\ \A i : Slot(i)' = Slot(i)
    BY <2>1 DEF ring, Slot
  <2>. QED  BY <1>1, <1>2, <2>2
<1>4. CASE buff # <<>>
  <2>1. /\ history_entries' = [history_entries EXCEPT ![history_head] = buff]
        /\ history_head' = (history_head + 1) % HistorySize
        /\ history_count' = (IF history_count < HistorySize THEN history_count + 1 ELSE history_count)
        /\ entered' = SubSeq(<<buff>> \o entered, 1, history_count')
    BY <1>4 DEF history_push
  <2>2. PICK n \in 1 .. HistorySize : n = history_count'
    BY <1>1, <2>1
  <2>3. n <= history_count + 1 /\ n >= history_count
    BY <1>1, <2>1, <2>2
  <2>4. PICK s \in Seq(Text) : s = <<buff>> \o entered
    <3>1. <<buff>> \in Seq(Text)
      BY <1>1
    <3>2. <<buff>> \o entered \in Seq(Text)
      BY <1>2, <3>1, ConcatProperties
    <3>. QED  BY <3>2
  <2>5. Len(s) = history_count + 1 /\ s[1] = buff
        /\ \A i \in 2 .. Len(s) : s[i] = entered[i - 1]
    BY <1>1, <1>2, <2>4
  <2>6. entered' = SubSeq(s, 1, n)
    BY <2>1, <2>2, <2>4
  <2>7. entered' \in Seq(Text) /\ Len(entered') = n /\ \A i \in 1 .. n : entered'[i] = s[i]
    BY <1>1, <2>3, <2>5, <2>6
  <2>8. ASSUME NEW i \in 1 .. n PROVE entered'[i] = history_entries'[Slot(i)']
    <3>1. CASE i = 1
      <4>1. Slot(i)' = history_head
        BY <1>1, <2>1, <3>1, SlotMoves
      <4>. QED  BY <1>1, <2>1, <2>5, <2>7, <3>1, <4>1
    <3>2. CASE i # 1
      <4>1. PICK j \in 1 .. history_count : j = i - 1
        BY <1>1, <2>3, <3>2
      <4>2. i \in 2 .. HistorySize /\ i \in 2 .. Len(s)
        BY <1>1, <2>3, <2>5, <3>2
      <4>3. Slot(i)' = Slot(j) /\ Slot(j) # history_head
        BY <1>1, <2>1, <4>1, <4>2, SlotMoves
      <4>4. entered'[i] = entered[j] /\ entered[j] = history_entries[Slot(j)]
        BY <1>2, <2>5, <2>7, <4>1, <4>2
      <4>5. Slot(j) \in 0 .. HistorySize - 1
        BY <1>1, <4>1, SlotBack
      <4>. QED  BY <1>1, <2>1, <4>3, <4>4, <4>5
    <3>. QED  BY <3>1, <3>2
  <2>9. \A i \in 0 .. HistorySize - 1 : history_entries'[i] \in {history_entries[i], buff}
    BY <1>1, <2>1
  <2>10. \A i \in 0 .. HistorySize - 1 : Len(history_entries'[i]) < BufferSize
    BY <1>1, <1>2, <2>9
  <2>. QED  BY <1>1, <2>2, <2>3, <2>7, <2>8, <2>10
<1>. QED  BY <1>3, <1>4

\* What the keys for older and newer lines bring.
LEMMA RecallsRight ==
  ASSUME PrintableGarbage, TermTypes, PlainInv, RecallInv, Recalls
  PROVE  /\ browse_idx' \in 0 .. history_count
         /\ browse_idx' > 0 => saved_input' # Unwritten /\ Len(saved_input') < BufferSize
         /\ browse_idx' # browse_idx =>
              buff' = IF browse_idx' = 0 THEN saved_input' ELSE entered[browse_idx']
         /\ UNCHANGED ring
<1>. USE TerminalAssumption
<1>1. /\ browse_idx \in 0 .. history_count /\ history_count \in 0 .. HistorySize
      /\ history_head \in 0 .. HistorySize - 1
      /\ history_entries \in [0 .. HistorySize - 1 -> Text]
      /\ buff \in Text /\ Len(buff) < BufferSize
  BY DEF TermTypes, InputTypes, RecallInv
<1>2. buff # Unwritten
  BY DEF PlainInv, Plain, Unwritten
<1>3. /\ browse_idx > 0 => saved_input # Unwritten /\ Len(saved_input) < BufferSize
      /\ \A i \in 1 .. history_count : entered[i] = history_entries[Slot(i)]
      /\ \A i \in 0 .. HistorySize - 1 : Len(history_entries[i]) < BufferSize
  BY DEF RecallInv
<1>4. /\ browse_idx' \in 0 .. history_count
      /\ browse_idx' > 0 \/ browse_idx' # browse_idx =>
           saved_input' # Unwritten /\ Len(saved_input') < BufferSize
  <2>1. CASE KeyUp
    <3>1. browse_idx' = IF browse_idx < history_count THEN browse_idx + 1 ELSE browse_idx
      BY <2>1 DEF KeyUp
    <3>2. saved_input' = IF browse_idx = 0 THEN buff ELSE saved_input
      BY <2>1 DEF KeyUp
    <3>. QED  BY <1>1, <1>2, <1>3, <3>1, <3>2
  <2>2. CASE KeyDown
    <3>1. browse_idx' = IF browse_idx > 0 THEN browse_idx - 1 ELSE 0
      BY <2>2 DEF KeyDown
    <3>2. browse_idx > 0 => saved_input' = saved_input
      BY <1>3, <2>2 DEF KeyDown
    <3>. QED  BY <1>1, <1>3, <3>1, <3>2
  <2>. QED  BY <2>1, <2>2 DEF Recalls
<1>5. ASSUME browse_idx' # browse_idx
      PROVE  buff' = IF browse_idx' = 0 THEN saved_input' ELSE entered[browse_idx']
  <2>1. PICK src : /\ src = (IF browse_idx' = 0 THEN saved_input'
                             ELSE history_entries[Slot(browse_idx')])
                   /\ Replace(src)
    BY DEF Recalls, KeyUp, KeyDown
  <2>2. PICK n \in 0 .. history_count : n = browse_idx'
    BY <1>4
  <2>3. n > 0 => Slot(n) \in 0 .. HistorySize - 1
    BY <1>1, SlotBack
  <2>4. src \in Text
    BY <1>1, <2>1, <2>2, <2>3, RecallIsReplace
  <2>5. Len(src) < BufferSize
    BY <1>3, <1>4, <1>5, <2>1, <2>2, <2>3
  <2>6. buff' = SubSeq(src, 1, Len(src))
    BY <2>1, <2>5 DEF Replace
  <2>7. SubSeq(src, 1, Len(src)) = src
    BY <2>4 DEF Text
  <2>8. n > 0 => entered[n] = history_entries[Slot(n)]
    BY <1>1, <1>3, <2>2
  <2>. QED  BY <1>1, <2>1, <2>2, <2>6, <2>7, <2>8
<1>6. UNCHANGED ring
  BY DEF Recalls, KeyUp, KeyDown, Replace
<1>. QED  BY <1>4, <1>5, <1>6

\* Every step keeps the ring.
LEMMA RecallKept ==
  ASSUME PrintableGarbage, TermTypes, PlainInv, RecallInv, TermStep
  PROVE  RecallInv'
<1>1. CASE UNCHANGED <<ring, browse_idx, saved_input>>
  BY <1>1 DEF RecallInv, ring, Slot
<1>2. CASE Listens
  <2>1. UNCHANGED ring /\ browse_idx' = 0 /\ history_count \in Nat
    BY <1>2, TerminalAssumption DEF Listens, CallInput, TermTypes, InputTypes
  <2>. QED  BY <2>1 DEF RecallInv, ring, Slot
<1>3. CASE Recalls
  <2>1. /\ browse_idx' \in 0 .. history_count
        /\ browse_idx' > 0 => saved_input' # Unwritten /\ Len(saved_input') < BufferSize
        /\ UNCHANGED ring
    BY <1>3, RecallsRight
  <2>. QED  BY <2>1 DEF RecallInv, ring, Slot, Unwritten
<1>4. CASE Enters
  <2>1. history_push /\ UNCHANGED <<browse_idx, saved_input>>
    BY <1>4 DEF Enters, Enter, line
  <2>2. /\ entered' \in Seq(Text) /\ Len(entered') = history_count'
        /\ \A i \in 1 .. history_count' : entered'[i] = history_entries'[Slot(i)']
        /\ history_count' >= history_count /\ history_count' \in Nat
        /\ \A i \in 0 .. HistorySize - 1 : Len(history_entries'[i]) < BufferSize
    BY <2>1, PushKeeps
  <2>3. browse_idx' <= history_count'
    BY <2>1, <2>2, TerminalAssumption DEF RecallInv, TermTypes, InputTypes
  <2>. QED  BY <2>1, <2>2, <2>3 DEF RecallInv, Unwritten
<1>. QED
  BY <1>1, <1>2, <1>3, <1>4
     DEF TermStep, PutStep, Limit, Follow, Scroll, Types, Typed, Erases, Erase,
         Prints, ClearsScreen, Wheel, Quiet, line, termVars

\* The step of the whole invariant.
LEMMA RecallStep ==
  ASSUME PrintableGarbage, RecallIInv, [Next]_vars PROVE RecallIInv'
<1>1. TermStep /\ TermTypes /\ PlainInv /\ RecallInv
  BY TermSteps DEF RecallIInv
<1>. QED  BY <1>1, TermTypesKept, PlainKept, RecallKept DEF RecallIInv

\* What RecallAgrees says of one step, and that every step does so.
RecallAction ==
  browse_idx' # browse_idx /\ saved_input' # Unwritten =>
    buff' = IF browse_idx' = 0 THEN saved_input' ELSE entered[browse_idx']

\* Every step does what RecallAction says.
LEMMA RecallActs ==
  ASSUME PrintableGarbage, RecallIInv, [Next]_vars PROVE RecallAction
<1>1. TermStep /\ TermTypes /\ PlainInv /\ RecallInv
  BY TermSteps DEF RecallIInv
<1>2. CASE Recalls
  BY <1>1, <1>2, RecallsRight DEF RecallAction
<1>3. CASE Listens
  BY <1>3 DEF Listens, CallInput, RecallAction
<1>4. CASE UNCHANGED browse_idx
  BY <1>4 DEF RecallAction
<1>. QED
  BY <1>1, <1>2, <1>3, <1>4
     DEF TermStep, PutStep, Limit, Follow, Scroll, Types, Typed, Erases, Erase, Enters, Enter,
         Prints, ClearsScreen, Wheel, Quiet, line, termVars

(***************************************************************************)
(* RecallAgrees for every capacity of the ring: an arrow brings the line that *)
(* was entered so many lines ago, however often the ring has wrapped, and  *)
(* coming back from the recalled lines brings what had been typed.         *)
(***************************************************************************)
THEOREM ConsoleRecall == ASSUME PrintableGarbage PROVE Spec => RecallAgrees
<1>1. Init => RecallIInv
  BY TermTypesInit, PlainInit, RecallInit DEF RecallIInv
<1>2. RecallIInv /\ [Next]_vars => RecallIInv'
  BY RecallStep
<1>3. RecallIInv /\ [Next]_vars => [RecallAction]_termVars
  BY RecallActs
<1>4. Spec => [][RecallAction]_termVars
  BY <1>1, <1>2, <1>3, PTL DEF Spec
<1>5. [][RecallAction]_termVars => RecallAgrees
  BY PTL DEF RecallAgrees, RecallAction
<1>. QED  BY <1>4, <1>5, PTL
-----------------------------------------------------------------------------

\* What the page may hold.
Contents == Held \cup Printables \cup {EOL}
Page0 == Seq(Contents)

\* The page, the cursor in it, and the file.
PageTypes ==
  /\ ed_buf \in Page0 /\ Len(ed_buf) <= EDITOR_MAX_FILESIZE - 1
  /\ ed_cur \in 0 .. Len(ed_buf)
  /\ ed_dirty \in BOOLEAN /\ fs \in BOOLEAN /\ damaged \in BOOLEAN
  /\ file \in Page0

PageIInv == PageTypes /\ (mode = "edit" => CleanMatchesFile)
-----------------------------------------------------------------------------
\* Min picks the least of a set of natural numbers.
LEMMA LeastNatural ==
  ASSUME NEW S, S \subseteq Nat, S # {}
  PROVE  Min(S) \in S /\ \A i \in S : Min(S) <= i
<1>1. PICK n \in S : \A i \in S : ~ (<<i, n>> \in OpToRel(<, Nat))
  BY WFMin, NatLessThanWellFounded
<1>2. \A i \in S : ~(i < n)
  BY <1>1 DEF OpToRel
<1>3. \E x \in S : \A y \in S : x =< y
  BY <1>2
<1>. QED  BY <1>3, Zenon DEF Min

\* The part of a text that the page has room for.
LEMMA KeptFits ==
  ASSUME NEW text \in Page0
  PROVE  /\ Kept(text) \in Page0 /\ Len(Kept(text)) <= EDITOR_MAX_FILESIZE - 1
         /\ Len(text) <= EDITOR_MAX_FILESIZE - 1 => Kept(text) = text
<1>. DEFINE n == Min({Len(text), EDITOR_MAX_FILESIZE - 1})
<1>1. Len(text) \in Nat /\ EDITOR_MAX_FILESIZE - 1 \in Nat
  BY EditorAssumption DEF Page0
<1>2. n \in {Len(text), EDITOR_MAX_FILESIZE - 1} /\ n <= Len(text)
      /\ n <= EDITOR_MAX_FILESIZE - 1
  BY <1>1, LeastNatural
<1>. HIDE DEF n
<1>3. /\ SubSeq(text, 1, n) \in Page0 /\ Len(SubSeq(text, 1, n)) = n
      /\ n = Len(text) => SubSeq(text, 1, n) = text
  BY <1>1, <1>2 DEF Page0
<1>4. Kept(text) = SubSeq(text, 1, n)
  BY DEF Kept, n
<1>5. Len(text) <= EDITOR_MAX_FILESIZE - 1 => n = Len(text)
  BY <1>1, <1>2
<1>. QED  BY <1>2, <1>3, <1>4, <1>5

\* A beginning of what the page has room for.
LEMMA KeptBegins ==
  ASSUME NEW text \in Page0, NEW n \in 0 .. Len(Kept(text))
  PROVE  /\ SubSeq(text, 1, n) \in Page0
         /\ Len(SubSeq(text, 1, n)) <= EDITOR_MAX_FILESIZE - 1
         /\ n = Len(Kept(text)) => SubSeq(text, 1, n) = Kept(text)
<1>. DEFINE k == Min({Len(text), EDITOR_MAX_FILESIZE - 1})
<1>1. Len(text) \in Nat /\ EDITOR_MAX_FILESIZE - 1 \in Nat
  BY EditorAssumption DEF Page0
<1>2. k \in Nat /\ k <= Len(text) /\ k <= EDITOR_MAX_FILESIZE - 1
  BY <1>1, LeastNatural
<1>. HIDE DEF k
<1>3. Kept(text) = SubSeq(text, 1, k)
  BY DEF Kept, k
<1>4. Len(Kept(text)) = k
  BY <1>1, <1>2, <1>3 DEF Page0
<1>5. n \in Nat /\ n <= k
  BY <1>2, <1>4
<1>6. SubSeq(text, 1, n) \in Page0 /\ Len(SubSeq(text, 1, n)) = n
  BY <1>1, <1>2, <1>5 DEF Page0
<1>. QED  BY <1>1, <1>2, <1>3, <1>4, <1>5, <1>6

\* The cursor moved to another line is still in the page.
LEMMA InLinePlace ==
  ASSUME PageTypes, NEW n
  PROVE  InLine(n) \in 0 .. Len(ed_buf)
<1>. DEFINE end == Len(ed_buf)
            first == ed_line_start(n)
            col == ed_offset_to_col(ed_cur)
            len == ed_line_len(n)
<1>1. end \in Nat /\ ed_cur \in 0 .. end
  BY DEF PageTypes, Page0
<1>2. first \in 0 .. end
  <2>. DEFINE S == {i \in 0 .. end : ed_offset_to_line(i) >= n} \cup {end}
  <2>1. S \subseteq 0 .. end /\ S \subseteq Nat /\ S # {}
    BY <1>1
  <2>2. Min(S) \in S
    BY <2>1, LeastNatural
  <2>3. first = Min(S)
    BY DEF ed_line_start, ed_len
  <2>. QED  BY <2>1, <2>2, <2>3
<1>3. col \in Nat
  <2>. DEFINE S == {ed_cur} \cup {ed_cur - i - 1 : i \in LineEnds(ed_cur)}
  <2>1. S \subseteq Nat /\ S # {}
    BY <1>1 DEF LineEnds
  <2>2. Min(S) \in S
    BY <2>1, LeastNatural
  <2>3. col = Min(S)
    BY DEF ed_offset_to_col
  <2>. HIDE DEF S
  <2>. QED  BY <2>1, <2>2, <2>3
<1>4. len \in Nat /\ first + len <= end
  <2>. DEFINE S == {end - first} \cup
                   {i - first : i \in {j \in LineEnds(end) : j >= first}}
  <2>1. S \subseteq Nat /\ end - first \in S
    BY <1>1, <1>2 DEF LineEnds
  <2>2. len = Min(S)
    BY DEF ed_line_len, ed_len
  <2>. HIDE DEF S
  <2>3. Min(S) \in Nat /\ Min(S) <= end - first
    BY <2>1, LeastNatural
  <2>. QED  BY <1>1, <1>2, <2>2, <2>3
<1>5. Min({col, len}) \in Nat /\ Min({col, len}) <= len
  BY <1>3, <1>4, LeastNatural
<1>6. InLine(n) = first + Min({col, len})
  BY DEF InLine
<1>. HIDE DEF first, col, len
<1>. QED  BY <1>1, <1>2, <1>4, <1>5, <1>6

\* The two halves of the page.
LEMMA CutPage ==
  ASSUME PageTypes, NEW n \in 0 .. Len(ed_buf)
  PROVE  /\ First(n) \in Page0 /\ Len(First(n)) = n
         /\ From(n) \in Page0 /\ Len(From(n)) = Len(ed_buf) - n
BY DEF PageTypes, Page0, First, From, ed_len

\* A character that is inserted, and one that is erased.
LEMMA InsertFits ==
  ASSUME PageTypes, NEW c \in Contents, Len(ed_buf) < EDITOR_MAX_FILESIZE - 1
  PROVE  /\ First(ed_cur) \o <<c>> \o From(ed_cur) \in Page0
         /\ Len(First(ed_cur) \o <<c>> \o From(ed_cur)) = Len(ed_buf) + 1
<1>1. PICK a \in Seq(Contents) : a = First(ed_cur) /\ Len(a) = ed_cur
  BY CutPage DEF PageTypes, Page0
<1>2. PICK b \in Seq(Contents) : b = From(ed_cur) /\ Len(b) = Len(ed_buf) - ed_cur
  BY CutPage DEF PageTypes, Page0
<1>3. PICK u \in Seq(Contents) : u = <<c>> /\ Len(u) = 1
  <2>1. <<c>> \in Seq(Contents) /\ Len(<<c>>) = 1
    OBVIOUS
  <2>. QED  BY <2>1
<1>4. PICK d \in Seq(Contents) : d = a \o u /\ Len(d) = Len(a) + Len(u)
  BY ConcatProperties
<1>5. d \o b \in Seq(Contents) /\ Len(d \o b) = Len(d) + Len(b)
  BY ConcatProperties
<1>6. ed_cur \in Nat /\ Len(ed_buf) \in Nat
  BY DEF PageTypes, Page0
<1>7. First(ed_cur) \o <<c>> \o From(ed_cur) = d \o b
  BY <1>1, <1>2, <1>3, <1>4
<1>8. Len(d \o b) = Len(ed_buf) + 1
  BY <1>1, <1>2, <1>3, <1>4, <1>5, <1>6
<1>. QED  BY <1>5, <1>7, <1>8 DEF Page0

\* A character that is erased leaves the page within its array.
LEMMA EraseFits ==
  ASSUME PageTypes, ed_cur # 0
  PROVE  /\ First(ed_cur - 1) \o From(ed_cur) \in Page0
         /\ Len(First(ed_cur - 1) \o From(ed_cur)) = Len(ed_buf) - 1
<1>0. ed_cur - 1 \in 0 .. Len(ed_buf) /\ ed_cur \in Nat /\ Len(ed_buf) \in Nat
  BY DEF PageTypes, Page0
<1>1. PICK a \in Seq(Contents) : a = First(ed_cur - 1) /\ Len(a) = ed_cur - 1
  BY <1>0, CutPage DEF Page0
<1>2. PICK b \in Seq(Contents) : b = From(ed_cur) /\ Len(b) = Len(ed_buf) - ed_cur
  BY CutPage DEF PageTypes, Page0
<1>3. a \o b \in Seq(Contents) /\ Len(a \o b) = (ed_cur - 1) + (Len(ed_buf) - ed_cur)
  BY <1>1, <1>2, ConcatProperties
<1>. QED  BY <1>0, <1>1, <1>2, <1>3 DEF Page0
-----------------------------------------------------------------------------
\* The steps of the console that the editor sees.
PageStep ==
  \/ UNCHANGED edVars /\ (mode' = "edit" => mode = "edit")
  \/ editor_run
  \/ EditorStep /\ mode = "edit"
  \/ editor_left /\ mode' # "edit"

\* Every step of the console is one of them.
LEMMA PageSteps == ASSUME [Next]_vars PROVE PageStep
<1>1. CASE EditCommand
  BY <1>1 DEF EditCommand, Command, PageStep
<1>2. CASE Edit
  BY <1>2 DEF Edit, Runs, PageStep
<1>3. CASE LeaveEditor
  BY <1>3 DEF LeaveEditor, Prompts, PageStep
<1>. QED
  BY <1>1, <1>2, <1>3
     DEF Next, Shell, Boot, Booted, Printing, Listen, Editing, Key, Entered, Replies, Clears,
         Command, Prompts, Moved, TypedEarly, Interrupt, vars, PageStep

\* Every step keeps the page within its array, and equal to the file, or to
\* the beginning that was read, as long as it is not marked as changed.
LEMMA PageKept == ASSUME PageIInv, PageStep PROVE PageIInv'
<1>1. PageTypes /\ (mode = "edit" => CleanMatchesFile)
  BY DEF PageIInv
<1>2. CASE UNCHANGED edVars /\ (mode' = "edit" => mode = "edit")
  BY <1>1, <1>2 DEF PageIInv, PageTypes, CleanMatchesFile, edVars, edText, edDisk
<1>3. CASE editor_run
  <2>1. ASSUME NEW n \in 0 .. Len(Kept(file))
        PROVE  /\ SubSeq(file, 1, n) \in Page0
               /\ Len(SubSeq(file, 1, n)) <= EDITOR_MAX_FILESIZE - 1
               /\ n = Len(Kept(file)) => SubSeq(file, 1, n) = Kept(file)
    BY <1>1, KeptBegins DEF PageTypes
  <2>2. <<>> \in Page0 /\ Len(<<>>) <= EDITOR_MAX_FILESIZE - 1
    BY EditorAssumption DEF Page0
  <2>3. /\ ed_cur' = 0 /\ ed_dirty' = FALSE /\ damaged' = FALSE
        /\ UNCHANGED <<fs, file>>
    BY <1>3 DEF editor_run
  <2>4. \/ ~fs /\ ed_buf' = <<>>
        \/ fs /\ \E n \in 0 .. Len(Kept(file)) :
             ed_buf' = SubSeq(file, 1, n) /\ short' = (n < Len(Kept(file)))
    BY <1>3 DEF editor_run, ed_load
  <2>5. ed_buf' \in Page0 /\ Len(ed_buf') <= EDITOR_MAX_FILESIZE - 1
    BY <2>1, <2>2, <2>4
  <2>6. 0 \in 0 .. Len(ed_buf')
    BY <2>5 DEF Page0
  <2>7. PageTypes'
    BY <1>1, <2>3, <2>5, <2>6 DEF PageTypes
  <2>8. CleanMatchesFile'
    <3>1. CASE ~fs
      BY <2>3, <3>1 DEF CleanMatchesFile
    <3>2. CASE fs
      <4>1. PICK n \in 0 .. Len(Kept(file)) :
              ed_buf' = SubSeq(file, 1, n) /\ short' = (n < Len(Kept(file)))
        BY <2>4, <3>2
      <4>2. Kept(file') = Kept(file)
        BY <2>3 DEF Kept
      <4>3. Len(Kept(file)) \in Nat
        BY <1>1, KeptFits DEF PageTypes, Page0
      <4>4. ASSUME ~short' PROVE n = Len(Kept(file))
        <5>1. ~(n < Len(Kept(file)))
          <6>1. short' = (n < Len(Kept(file)))
            BY <4>1
          <6>. QED  BY <4>4, <6>1, Zenon
        <5>. QED  BY <4>3, <5>1
      <4>5. ~short' => ed_buf' = Kept(file')
        BY <2>1, <4>1, <4>2, <4>4
      <4>. QED  BY <2>3, <4>1, <4>2, <4>5 DEF CleanMatchesFile
    <3>. QED  BY <3>1, <3>2
  <2>. QED  BY <2>7, <2>8 DEF PageIInv
<1>4. CASE EditorStep /\ mode = "edit"
  <2>0. CleanMatchesFile
    BY <1>1, <1>4
  <2>1. CASE UNCHANGED <<ed_buf, ed_dirty, fs, file, short, damaged>>
        /\ ed_cur' \in 0 .. Len(ed_buf)
    BY <1>1, <2>0, <2>1 DEF PageIInv, PageTypes, CleanMatchesFile, Kept
  <2>2. ASSUME NEW c \in Contents, Only(ed_insert(c)) PROVE PageIInv'
    <3>1. UNCHANGED <<fs, file, short, damaged>>
      BY <2>2 DEF Only, edDisk
    <3>2. CASE ed_len >= EDITOR_MAX_FILESIZE - 1
      BY <1>1, <2>1, <2>2, <3>1, <3>2 DEF Only, ed_insert, Now, PageTypes
    <3>3. CASE ~(ed_len >= EDITOR_MAX_FILESIZE - 1)
      <4>1. /\ ed_buf' = First(ed_cur) \o <<c>> \o From(ed_cur)
            /\ ed_cur' = ed_cur + 1 /\ ed_dirty' = TRUE
        BY <2>2, <3>3 DEF Only, ed_insert, Now
      <4>2. Len(ed_buf) \in Nat /\ ed_cur \in 0 .. Len(ed_buf)
            /\ EDITOR_MAX_FILESIZE \in Nat
        BY <1>1, EditorAssumption DEF PageTypes, Page0
      <4>3. Len(ed_buf) < EDITOR_MAX_FILESIZE - 1
        BY <3>3, <4>2 DEF ed_len
      <4>4. ed_buf' \in Page0 /\ Len(ed_buf') = Len(ed_buf) + 1
        BY <1>1, <4>1, <4>3, InsertFits
      <4>5. Len(ed_buf') <= EDITOR_MAX_FILESIZE - 1 /\ ed_cur' \in 0 .. Len(ed_buf')
        BY <4>1, <4>2, <4>3, <4>4
      <4>6. PageTypes'
        BY <1>1, <3>1, <4>1, <4>4, <4>5 DEF PageTypes
      <4>. QED  BY <4>1, <4>6 DEF PageIInv, CleanMatchesFile
    <3>. QED  BY <3>2, <3>3
  <2>3. CASE Only(ed_backspace)
    <3>1. UNCHANGED <<fs, file, short, damaged>>
      BY <2>3 DEF Only, edDisk
    <3>2. CASE ed_cur = 0
      BY <1>1, <2>1, <2>3, <3>1, <3>2 DEF Only, ed_backspace, Now, PageTypes
    <3>3. CASE ed_cur # 0
      <4>1. /\ ed_buf' = First(ed_cur - 1) \o From(ed_cur)
            /\ ed_cur' = ed_cur - 1 /\ ed_dirty' = TRUE
        BY <2>3, <3>3 DEF Only, ed_backspace, Now
      <4>2. /\ Len(ed_buf) \in Nat /\ ed_cur \in 0 .. Len(ed_buf) /\ EDITOR_MAX_FILESIZE \in Nat
            /\ Len(ed_buf) <= EDITOR_MAX_FILESIZE - 1
        BY <1>1, EditorAssumption DEF PageTypes, Page0
      <4>4. ed_buf' \in Page0 /\ Len(ed_buf') = Len(ed_buf) - 1
        BY <1>1, <3>3, <4>1, EraseFits
      <4>5. Len(ed_buf') <= EDITOR_MAX_FILESIZE - 1 /\ ed_cur' \in 0 .. Len(ed_buf')
        BY <3>3, <4>1, <4>2, <4>4
      <4>6. PageTypes'
        BY <1>1, <3>1, <4>1, <4>4, <4>5 DEF PageTypes
      <4>. QED  BY <4>1, <4>6 DEF PageIInv, CleanMatchesFile
    <3>. QED  BY <3>2, <3>3
  <2>4. CASE Arrow
    <3>1. PICK cur : MoveTo(cur) /\ cur \in 0 .. Len(ed_buf) /\ UNCHANGED edDisk
      <4>1. ed_cur \in 0 .. Len(ed_buf) /\ Len(ed_buf) \in Nat
        BY <1>1 DEF PageTypes, Page0
      <4>2. CASE Only(ed_move_left)
        BY <4>1, <4>2 DEF Only, ed_move_left
      <4>3. CASE Only(ed_move_right)
        BY <4>1, <4>3 DEF Only, ed_move_right, ed_len
      <4>4. CASE Only(ed_move_up)
        BY <1>1, <4>1, <4>4, InLinePlace DEF Only, ed_move_up
      <4>5. CASE Only(ed_move_down)
        BY <1>1, <4>1, <4>5, InLinePlace DEF Only, ed_move_down
      <4>. QED  BY <2>4, <4>2, <4>3, <4>4, <4>5 DEF Arrow
    <3>. QED  BY <2>1, <3>1 DEF MoveTo, Now, edDisk
  <2>5. CASE CtrlS
    <3>1. ed_buf' = ed_buf /\ ed_cur' = ed_cur
      BY <2>5 DEF CtrlS, ed_save, Now
    <3>2. CASE ~fs /\ UNCHANGED <<ed_dirty, fs, file, short, damaged>>
      BY <1>1, <2>1, <3>1, <3>2 DEF PageTypes
    <3>3. CASE /\ fs /\ ed_dirty' = FALSE /\ file' = ed_buf /\ fs' = fs
               /\ short' = FALSE /\ damaged' = FALSE
      <4>1. Kept(ed_buf) = ed_buf
        BY <1>1, KeptFits DEF PageTypes
      <4>2. PageTypes'
        BY <1>1, <3>1, <3>3 DEF PageTypes
      <4>. QED  BY <3>1, <3>3, <4>1, <4>2 DEF PageIInv, CleanMatchesFile, Kept
    <3>4. CASE /\ fs /\ ed_dirty' = ed_dirty /\ fs' = fs /\ short' = short
               /\ file' \in {file, <<>>}
               /\ damaged' = (damaged \/ (~ed_dirty /\ file' # file))
      <4>1. <<>> \in Page0
        BY DEF Page0
      <4>2. PageTypes'
        BY <1>1, <3>1, <3>4, <4>1 DEF PageTypes
      <4>3. ASSUME fs', ~ed_dirty', ~damaged' PROVE CleanMatchesFile'
        <5>1. ~ed_dirty /\ ~damaged /\ file' = file
          BY <3>4, <4>3
        <5>. QED  BY <2>0, <3>1, <3>4, <5>1 DEF CleanMatchesFile, Kept
      <4>. QED  BY <4>2, <4>3 DEF PageIInv, CleanMatchesFile
    <3>5. DirtyAfter(0) = FALSE /\ DirtyAfter(-1) = ed_dirty
      BY DEF DirtyAfter
    <3>. QED
      BY <2>5, <3>2, <3>3, <3>4, <3>5 DEF CtrlS, ed_save, Now, edDisk
  <2>6. CASE CtrlQ \/ \E up \in BOOLEAN : Ctrl(up)
    BY <1>1, <2>1, <2>6 DEF CtrlQ, Ctrl, PageTypes, edText, edDisk
  <2>7. CASE Cancel
    BY <1>1, <2>1, <2>7 DEF Cancel, MoveTo, Now, PageTypes, edDisk
  <2>8. CASE EnterKey \/ \E c \in Printables : Printable(c)
    BY <2>2, <2>8 DEF EnterKey, Printable, Contents
  <2>. QED
    BY <1>4, <2>3, <2>4, <2>5, <2>6, <2>7, <2>8 DEF EditorStep, Backspace
<1>5. CASE editor_left /\ mode' # "edit"
  <2>1. <<>> \in Page0 /\ Len(<<>>) <= EDITOR_MAX_FILESIZE - 1 /\ 0 \in 0 .. Len(<<>>)
    BY EditorAssumption DEF Page0
  <2>. QED  BY <1>1, <1>5, <2>1 DEF editor_left, PageIInv, PageTypes
<1>. QED  BY <1>2, <1>3, <1>4, <1>5 DEF PageStep

\* The page is empty at the start.
LEMMA PageInit == Init => PageIInv
<1>. SUFFICES ASSUME Init PROVE PageIInv
  OBVIOUS
<1>1. ed_buf = <<>> /\ ed_cur = 0 /\ ed_dirty = FALSE /\ fs \in BOOLEAN /\ file \in Files
      /\ short = FALSE /\ damaged = FALSE /\ mode = "boot"
  BY DEF Init, EditorInit
<1>2. <<>> \in Page0 /\ Len(<<>>) <= EDITOR_MAX_FILESIZE - 1 /\ 0 \in 0 .. Len(<<>>)
  BY EditorAssumption DEF Page0
<1>3. file \in Page0
  <2>1. file \in Seq(Held)
    BY <1>1, EditorAssumption
  <2>2. Held \subseteq Contents
    BY DEF Contents
  <2>. QED  BY <2>1, <2>2 DEF Page0
<1>. QED  BY <1>1, <1>2, <1>3 DEF PageIInv, PageTypes

(***************************************************************************)
(* PageMatchesFile for every size of the page and every set of files: as   *)
(* long as the editor (editor.c) shows no change, the page is the file, cut *)
(* off at the size of the page, or the beginning of it that a failing load *)
(* has read; a save that cost the file its contents is excepted.           *)
(***************************************************************************)
THEOREM ConsolePage == Spec => []PageMatchesFile
<1>1. Init => PageIInv
  BY PageInit
<1>2. PageIInv /\ [Next]_vars => PageIInv'
  BY PageSteps, PageKept
<1>3. PageIInv => PageMatchesFile
  BY DEF PageIInv, PageMatchesFile
<1>. QED  BY <1>1, <1>2, <1>3, PTL DEF Spec
=============================================================================
