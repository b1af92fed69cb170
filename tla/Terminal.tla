------------------------------ MODULE Terminal ------------------------------
(***************************************************************************)
(* kernel/terminal/terminal.c: the scrollback with its cursor, the part of *)
(* it that is on the screen, and input, which edits a line with a history  *)
(* of commands.                                                            *)
(*                                                                         *)
(* The mouse's callback scrolls from the interrupt handler.  putchar is    *)
(* therefore cut wherever it reads or writes what the callback shares with *)
(* it: the last line's number before it is limited, follow_output, and     *)
(* viewport_top, which is written from a value computed before.  todo      *)
(* holds the characters that the program still passes to putchar; the      *)
(* pixels are left out, they are drawn from this state.  Colours too.      *)
(*                                                                         *)
(* A definition Fault... is the faulty variant of the one that follows it; *)
(* no specification uses it.                                               *)
(***************************************************************************)
EXTENDS Integers, Sequences

CONSTANTS
  Cols, Rows,         \* fb_cols (VGA_TEXT_WIDTH), fb_rows
  Lines,              \* SCROLLBACK_LINES
  BufferSize,         \* of the buffer kmain passes to input
  HistorySize,        \* HISTORY_SIZE
  Characters,         \* what putchar is passed
  Letters,            \* those that are typed
  Garbage             \* what saved_input may hold before it is written

Blank == " "
NL == "\n"
BS == "backspace"

ASSUME TerminalAssumption ==
  /\ Cols \in Nat \ {0} /\ Rows \in Nat \ {0} /\ Lines \in Nat \ {0}
  /\ BufferSize \in Nat \ {0} /\ HistorySize \in Nat \ {0}
  /\ Rows <= Lines
  /\ {Blank, NL, BS} \subseteq Characters
  /\ Letters \subseteq Characters \ {NL, BS}      \* ascii >= 0x20
  /\ Garbage \subseteq Seq(Characters)

VARIABLES
  console_history, cursor_x, total_lines,
  viewport_top, follow_output,
  todo, stage,                        \* putchar: characters left, where it is
  history_entries, history_head, history_count,
  buff, start_x, start_line, browse_idx, saved_input,     \* of input
  entered,            \* history: the lines entered, the last one first
  capped              \* history: the scrollback was full during this input

screen == <<console_history, cursor_x, total_lines>>
viewport == <<viewport_top, follow_output>>
ring == <<history_entries, history_head, history_count, entered>>
line == <<buff, start_x, start_line, browse_idx, saved_input>>
termVars == <<screen, viewport, todo, stage, ring, line, capped>>

BlankRow == [x \in 0 .. Cols - 1 |-> Blank]
Unwritten == <<NL>>                   \* saved_input before it is written: no line

TerminalInit ==
  /\ console_history = [y \in 0 .. Lines - 1 |-> BlankRow]
  /\ cursor_x = 0 /\ total_lines = 0
  /\ viewport_top = 0 /\ follow_output = TRUE
  /\ todo = <<>> /\ stage = "put"
  /\ history_entries = [i \in 0 .. HistorySize - 1 |-> <<>>]
  /\ history_head = 0 /\ history_count = 0 /\ entered = <<>>
  /\ buff = <<>> /\ start_x = 0 /\ start_line = 0
  /\ browse_idx = 0 /\ saved_input = Unwritten
  /\ capped = FALSE

(***************************************************************************)
(* putchar.                                                                *)
(***************************************************************************)
Printed == todo = <<>>

WithCell(y, x, c) ==
  IF y < Lines THEN [console_history EXCEPT ![y][x] = c] ELSE console_history

NewLine ==
  /\ console_history' =
       [console_history EXCEPT ![total_lines] =
          [x \in 0 .. Cols - 1 |-> IF x >= cursor_x THEN Blank ELSE @[x]]]
  /\ cursor_x' = 0 /\ total_lines' = total_lines + 1

\* Back one place, onto the end of the line before where there is one.
FaultStaysOnLine ==
  LET x == IF cursor_x > 0 THEN cursor_x - 1 ELSE 0
  IN /\ cursor_x' = x /\ total_lines' = total_lines
     /\ console_history' = WithCell(total_lines, x, Blank)

BackSpace ==
  LET wraps == cursor_x = 0 /\ total_lines > 0
      x == IF cursor_x > 0 THEN cursor_x - 1 ELSE IF wraps THEN Cols - 1 ELSE 0
      y == IF wraps THEN total_lines - 1 ELSE total_lines
  IN /\ cursor_x' = x /\ total_lines' = y
     /\ console_history' = WithCell(y, x, Blank)

Show(c) ==
  /\ console_history' = WithCell(total_lines, cursor_x, c)
  /\ cursor_x' = (cursor_x + 1) % Cols                        \* word-wrap
  /\ total_lines' = total_lines + (cursor_x + 1) \div Cols

PutChar ==
  /\ ~Printed /\ stage = "put"
  /\ CASE Head(todo) = NL -> NewLine
       [] Head(todo) = BS -> BackSpace
       [] OTHER -> Show(Head(todo))
  /\ stage' = "limit"
  /\ UNCHANGED <<viewport, todo, ring, line, capped>>

Limit ==                              \* total_lines >= SCROLLBACK_LINES
  /\ stage = "limit"
  /\ total_lines' = IF total_lines >= Lines THEN Lines - 1 ELSE total_lines
  /\ capped' = (capped \/ total_lines >= Lines)
  /\ stage' = "follow"
  /\ UNCHANGED <<console_history, cursor_x, viewport, todo, ring, line>>

Follow ==                             \* if (follow_output)
  /\ stage = "follow"
  /\ IF follow_output
       THEN stage' = "scroll" /\ UNCHANGED todo
       ELSE stage' = "put" /\ todo' = Tail(todo)
  /\ UNCHANGED <<screen, viewport, ring, line, capped>>

FaultNewTop == IF total_lines - Rows < 0 THEN 0 ELSE total_lines - Rows

NewTop == IF total_lines - Rows + 1 < 0 THEN 0 ELSE total_lines - Rows + 1

Scroll ==                             \* viewport_top = new_top
  /\ stage = "scroll"
  /\ viewport_top' = NewTop
  /\ stage' = "put" /\ todo' = Tail(todo)
  /\ UNCHANGED <<screen, follow_output, ring, line, capped>>

PutCharStep == PutChar \/ Limit \/ Follow \/ Scroll

Output(chars) == todo' = chars

(***************************************************************************)
(* get_mouse_event: the wheel byte of a mouse with buttons has four bits.  *)
(***************************************************************************)
AtBottom == viewport_top >= total_lines - Rows + 1

ScrollUp ==
  /\ follow_output' = (follow_output /\ ~AtBottom)
  /\ viewport_top' = IF viewport_top = 0 THEN 0 ELSE viewport_top - 1

ScrollDown ==
  /\ follow_output' = (follow_output \/ AtBottom)
  /\ viewport_top' =
       IF viewport_top + Rows <= total_lines THEN viewport_top + 1 ELSE viewport_top

get_mouse_event(scroll) ==
  /\ IF scroll = 0 THEN UNCHANGED viewport
     ELSE IF scroll < 8 THEN ScrollDown
     ELSE IF scroll > 8 THEN ScrollUp
     ELSE UNCHANGED viewport
  /\ UNCHANGED <<screen, todo, stage, ring, line, capped>>

(***************************************************************************)
(* terminal_clear; follow_output stays as it is.                           *)
(***************************************************************************)
terminal_clear ==
  /\ console_history' = [y \in 0 .. Lines - 1 |-> BlankRow]
  /\ cursor_x' = 0 /\ total_lines' = 0 /\ viewport_top' = 0

(***************************************************************************)
(* input.                                                                  *)
(***************************************************************************)
CallInput ==
  /\ buff' = <<>> /\ start_x' = cursor_x /\ start_line' = total_lines
  /\ browse_idx' = 0 /\ saved_input' = Unwritten
  /\ capped' = FALSE
  /\ UNCHANGED <<screen, viewport, todo, stage, ring>>

Typed(c) ==
  /\ Printed /\ Len(buff) < BufferSize - 1
  /\ buff' = Append(buff, c) /\ Output(<<c>>)
  /\ UNCHANGED <<screen, viewport, stage, ring, start_x, start_line, browse_idx,
                 saved_input, capped>>

Erase ==
  /\ Printed /\ buff # <<>>
  /\ buff' = SubSeq(buff, 1, Len(buff) - 1) /\ Output(<<BS>>)
  /\ UNCHANGED <<screen, viewport, stage, ring, start_x, start_line, browse_idx,
                 saved_input, capped>>

FaultSlot(idx) == (history_head - idx + 1 + HistorySize) % HistorySize

Slot(idx) == (history_head - idx + HistorySize) % HistorySize

Place(y, x) == y * Cols + x

\* The input's cells are blanked where they were printed; past the end of
\* the scrollback that is other memory.
ErasedCells ==
  [y \in 0 .. Lines - 1 |-> [x \in 0 .. Cols - 1 |->
     IF Place(y, x) - Place(start_line, start_x) \in 0 .. Len(buff) - 1
       THEN Blank ELSE console_history[y][x]]]

\* src is printed in place of the input.
Replace(src) ==
  /\ buff' = SubSeq(src, 1, IF Len(src) < BufferSize THEN Len(src) ELSE BufferSize - 1)
  /\ Output(buff')
  /\ console_history' = ErasedCells
  /\ cursor_x' = start_x /\ total_lines' = start_line
  /\ UNCHANGED <<viewport, stage, ring, start_x, start_line, capped>>

KeyUp ==
  /\ Printed
  /\ saved_input' = IF browse_idx = 0 THEN buff ELSE saved_input
  /\ browse_idx' = IF browse_idx < history_count THEN browse_idx + 1 ELSE browse_idx
  /\ Replace(IF browse_idx' = 0 THEN saved_input' ELSE history_entries[Slot(browse_idx')])

\* Before the first KeyUp the local array saved_input holds anything.
KeyDown ==
  /\ Printed
  /\ browse_idx' = IF browse_idx > 0 THEN browse_idx - 1 ELSE 0
  /\ saved_input' \in IF saved_input = Unwritten /\ browse_idx' = 0
                        THEN Garbage ELSE {saved_input}
  /\ Replace(IF browse_idx' = 0 THEN saved_input' ELSE history_entries[Slot(browse_idx')])

history_push ==
  IF buff = <<>> THEN UNCHANGED ring
  ELSE /\ history_entries' = [history_entries EXCEPT ![history_head] = buff]
       /\ history_head' = (history_head + 1) % HistorySize
       /\ history_count' = IF history_count < HistorySize THEN history_count + 1
                           ELSE history_count
       /\ entered' = SubSeq(<<buff>> \o entered, 1, history_count')

Enter ==
  /\ Printed
  /\ Output(<<NL>>)
  /\ history_push
  /\ UNCHANGED <<screen, viewport, stage, line, capped>>
-----------------------------------------------------------------------------
Cell(i) == console_history[i \div Cols][i % Cols]

(* While a line is edited (typed, erased, recalled from the history and    *)
(* edited again, over the edge of the screen's line), the scrollback shows *)
(* it where it began, the cursor is right behind it, and nothing old is    *)
(* left behind the cursor; unless the scrollback is full, where input that *)
(* wraps starts over on the last line.                                     *)
InputEchoed ==
  ~capped =>
    LET from == Place(start_line, start_x)
        at == Place(total_lines, cursor_x)
    IN /\ at = from + Len(buff)
       /\ \A i \in 1 .. Len(buff) : Cell(from + i - 1) = buff[i]
       /\ total_lines < Lines - 1 =>
            \A x \in cursor_x .. Cols - 1 : console_history[total_lines][x] = Blank

(* The cursor is in the scrollback, except while putchar is between        *)
(* counting a line and limiting the count; the screen shows lines of the   *)
(* scrollback, at most one past its end (the wheel may be turned just      *)
(* then); and when what is printed is followed, the cursor is on the       *)
(* screen, wherever the wheel's interrupt came in between: unless the      *)
(* scrollback is full, where an empty line that is recalled moves the      *)
(* cursor down and scrolls nothing.                                        *)
ViewportSound ==
  /\ cursor_x \in 0 .. Cols - 1
  /\ total_lines \in 0 .. Lines /\ (total_lines = Lines => stage = "limit")
  /\ viewport_top >= 0 /\ viewport_top + Rows <= Lines + 1
  /\ Printed /\ follow_output /\ ~capped =>
       viewport_top <= total_lines /\ total_lines < viewport_top + Rows

(* Going back in the history brings the lines as they were entered, the    *)
(* last one first, however often the ring has wrapped; coming back from it *)
(* brings what had been typed.                                             *)
RecallAgrees ==
  [][browse_idx' # browse_idx /\ saved_input' # Unwritten =>
       buff' = IF browse_idx' = 0 THEN saved_input' ELSE entered[browse_idx']]_termVars
=============================================================================
