------------------------------- MODULE Editor -------------------------------
(***************************************************************************)
(* kernel/editor/editor.c: one array of characters with a cursor into it,  *)
(* the first row on the screen, and the dialogue of Ctrl-Q.  Its keyboard  *)
(* is ps2_kb_wfi; of the releases only Ctrl's means anything.  The file is *)
(* external: fat32_write_file frees the old clusters first, so a write     *)
(* that fails may cost the file its contents (Fat32 has the details), and  *)
(* a listing or a read that fails ends ed_load early, without a word.      *)
(*                                                                         *)
(* A definition Fault... is the faulty variant of the one that follows it; *)
(* no specification uses it.                                               *)
(***************************************************************************)
EXTENDS Integers, Sequences, FiniteSetsExt

CONSTANTS
  EDITOR_MAX_FILESIZE,
  ED_ROWS,            \* rows of text on the screen
  Printables,         \* printable keys, among them "s" and "q"
  Files               \* what the file may hold before

\* The characters in the files; a file is a sequence of them.
Held == UNION {{f[i] : i \in 1 .. Len(f)} : f \in Files}

ASSUME EditorAssumption ==
  /\ EDITOR_MAX_FILESIZE \in Nat \ {0}
  /\ Files \subseteq Seq(Held)

VARIABLES
  ed_buf, ed_cur,             \* the first ed_len characters; the cursor
  ed_view_row, ed_dirty,
  ctrl_held, asking,          \* of editor_run: ctrl_held; waiting for c2
  fs,                         \* is a file system mounted?
  file,                       \* what the file holds
  ctrl_down,                  \* the key itself
  short,                      \* history: was the page loaded in part only?
  damaged                     \* history: was the file of a clean page lost?

edText == <<ed_buf, ed_cur, ed_view_row, ed_dirty>>
edDisk == <<fs, file, short, damaged>>
edKeys == <<ctrl_held, asking, ctrl_down>>
edVars == <<edText, edDisk, edKeys>>

EOL == "\n"
ed_len == Len(ed_buf)
At(i) == ed_buf[i + 1]

EditorInit ==
  /\ ed_buf = <<>> /\ ed_cur = 0 /\ ed_view_row = 0 /\ ed_dirty = FALSE
  /\ fs \in BOOLEAN /\ file \in Files
  /\ ctrl_held = FALSE /\ asking = FALSE /\ ctrl_down = FALSE
  /\ short = FALSE /\ damaged = FALSE

(***************************************************************************)
(* Offsets and lines.                                                      *)
(***************************************************************************)
LineEnds(n) == {i \in 0 .. n - 1 : At(i) = EOL}       \* before offset n

ed_offset_to_line(offset) == Cardinality(LineEnds(offset))
ed_count_lines == Cardinality(LineEnds(ed_len)) + 1
ed_line_start(n) ==
  Min({i \in 0 .. ed_len : ed_offset_to_line(i) >= n} \cup {ed_len})
ed_offset_to_col(offset) ==
  Min({offset} \cup {offset - i - 1 : i \in LineEnds(offset)})
ed_line_len(n) ==
  Min({ed_len - ed_line_start(n)} \cup
      {i - ed_line_start(n) : i \in {j \in LineEnds(ed_len) : j >= ed_line_start(n)}})

(***************************************************************************)
(* ed_redraw, of which only the scrolling changes state; and the changes   *)
(* of the text that it follows.                                            *)
(***************************************************************************)
LineOf(text, offset) == Cardinality({i \in 1 .. offset : text[i] = EOL})

ViewRow(text, cur) ==
  LET cur_line == LineOf(text, cur)
  IN IF cur_line < ed_view_row THEN cur_line
     ELSE IF cur_line >= ed_view_row + ED_ROWS THEN cur_line - ED_ROWS + 1
     ELSE ed_view_row

Now(text, cur, dirty) ==
  /\ ed_buf' = text /\ ed_cur' = cur /\ ed_dirty' = dirty
  /\ ed_view_row' = ViewRow(text, cur)

First(n) == SubSeq(ed_buf, 1, n)
From(n) == SubSeq(ed_buf, n + 1, ed_len)

ed_insert(c) ==
  IF ed_len >= EDITOR_MAX_FILESIZE - 1 THEN Now(ed_buf, ed_cur, ed_dirty)
  ELSE Now(First(ed_cur) \o <<c>> \o From(ed_cur), ed_cur + 1, TRUE)

ed_backspace ==
  IF ed_cur = 0 THEN Now(ed_buf, ed_cur, ed_dirty)
  ELSE Now(First(ed_cur - 1) \o From(ed_cur), ed_cur - 1, TRUE)

MoveTo(cur) == Now(ed_buf, cur, ed_dirty)

ed_move_left == MoveTo(IF ed_cur > 0 THEN ed_cur - 1 ELSE ed_cur)
ed_move_right == MoveTo(IF ed_cur < ed_len THEN ed_cur + 1 ELSE ed_cur)

FaultKeepsColumn(n) ==
  Min({ed_line_start(n) + ed_offset_to_col(ed_cur), ed_len})

\* The place in line n below or above the cursor, or its end.
InLine(n) ==
  ed_line_start(n) + Min({ed_offset_to_col(ed_cur), ed_line_len(n)})

ed_move_up ==
  LET l == ed_offset_to_line(ed_cur)
  IN MoveTo(IF l = 0 THEN ed_cur ELSE InLine(l - 1))

ed_move_down ==
  LET l == ed_offset_to_line(ed_cur)
  IN MoveTo(IF l >= ed_count_lines - 1 THEN ed_cur ELSE InLine(l + 1))

(***************************************************************************)
(* ed_load and ed_save.                                                    *)
(***************************************************************************)
Kept(text) ==
  SubSeq(text, 1, Min({Len(text), EDITOR_MAX_FILESIZE - 1}))

\* Of a file that is not listed, or whose reading fails, only a beginning.
ed_load ==
  \/ ~fs /\ ed_buf' = <<>> /\ short' = FALSE
  \/ fs /\ \E n \in 0 .. Len(Kept(file)) :
       ed_buf' = SubSeq(file, 1, n) /\ short' = (n < Len(Kept(file)))

editor_run ==
  /\ ed_load
  /\ ed_cur' = 0 /\ ed_view_row' = 0 /\ ed_dirty' = FALSE
  /\ ctrl_held' = FALSE /\ asking' = FALSE /\ damaged' = FALSE
  /\ ctrl_down' = FALSE               \* Ctrl is up when the command is entered
  /\ UNCHANGED <<fs, file>>

FaultAlwaysClean(r) == FALSE

DirtyAfter(r) == IF r = 0 THEN FALSE ELSE ed_dirty

ed_save ==
  \/ ~fs /\ Now(ed_buf, ed_cur, ed_dirty) /\ UNCHANGED edDisk
  \/ /\ fs /\ Now(ed_buf, ed_cur, DirtyAfter(0))
     /\ file' = ed_buf /\ short' = FALSE /\ damaged' = FALSE /\ UNCHANGED fs
  \/ /\ fs /\ Now(ed_buf, ed_cur, DirtyAfter(-1))
     /\ file' \in {file, <<>>} /\ damaged' = (damaged \/ (~ed_dirty /\ file' # file))
     /\ UNCHANGED <<fs, short>>

(***************************************************************************)
(* The loop of editor_run.  Waiting for the answer to its question it      *)
(* looks at no release, and at a press only to compare it with "q".        *)
(***************************************************************************)
Only(change) == ~asking /\ change /\ UNCHANGED <<edDisk, edKeys>>

Arrow ==
  \/ Only(ed_move_left) \/ Only(ed_move_right) \/ Only(ed_move_up) \/ Only(ed_move_down)

Backspace == Only(ed_backspace)
EnterKey == Only(ed_insert(EOL))

Printable(c) ==
  /\ ctrl_held => c \notin {"s", "q"}
  /\ Only(ed_insert(c))

CtrlS ==
  /\ ~asking /\ ctrl_held
  /\ ed_save
  /\ UNCHANGED edKeys

CtrlQ ==
  /\ ~asking /\ ctrl_held /\ ed_dirty
  /\ asking' = TRUE
  /\ UNCHANGED <<edText, edDisk, ctrl_held, ctrl_down>>

\* Any other press cancels, that of Ctrl included.
Cancel ==
  /\ asking
  /\ asking' = FALSE
  /\ ctrl_down' \in IF ctrl_down THEN {TRUE} ELSE BOOLEAN
  /\ MoveTo(ed_cur)
  /\ UNCHANGED <<edDisk, ctrl_held>>

Ctrl(up) ==
  /\ ctrl_down = up
  /\ ctrl_down' = ~up
  /\ ctrl_held' = IF asking THEN ctrl_held ELSE ~up
  /\ asking => up                     \* its press is an answer: Cancel
  /\ UNCHANGED <<edText, edDisk, asking>>

\* The loop is left, unchanged or at the second "q".
Quits == ctrl_held /\ (asking \/ ~ed_dirty)

\* What the variables still hold is not read again: it is forgotten.
editor_left ==
  /\ ed_buf' = <<>> /\ ed_cur' = 0 /\ ed_view_row' = 0 /\ ed_dirty' = FALSE
  /\ ctrl_held' = FALSE /\ asking' = FALSE /\ ctrl_down' = FALSE
  /\ short' = FALSE /\ damaged' = FALSE
  /\ UNCHANGED <<fs, file>>

EditorStep ==
  \/ Arrow \/ Backspace \/ EnterKey
  \/ \E c \in Printables : Printable(c)
  \/ CtrlS \/ CtrlQ \/ Cancel
  \/ \E up \in BOOLEAN : Ctrl(up)
-----------------------------------------------------------------------------
(* The lines of the buffer.                                                *)
PageLines ==
  LET split[n \in 0 .. ed_len] ==
        IF n = 0 THEN <<<<>>>>
        ELSE LET ls == split[n - 1]
             IN IF ed_buf[n] = EOL THEN Append(ls, <<>>)
                ELSE [ls EXCEPT ![Len(ls)] = Append(@, ed_buf[n])]
  IN split[ed_len]

Page == INSTANCE LineEditor
  WITH Room <- EDITOR_MAX_FILESIZE - 1, Chars <- Printables, NewLine <- EOL,
       lines <- PageLines, row <- ed_offset_to_line(ed_cur) + 1,
       col <- ed_offset_to_col(ed_cur), top <- ed_view_row + 1, Height <- ED_ROWS

(* What the keys do to the array, with offsets found by counting line      *)
(* ends, is what an editor does to a page of lines: insert, split, erase,  *)
(* join, and move between lines of different lengths, scrolling so that    *)
(* the cursor's line stays on the screen; saving writes that page, opening *)
(* reads the file or a beginning of it.  Nothing is said of when the page  *)
(* is saved or left: after a question that is cancelled Ctrl may count as  *)
(* held though it is up, and a plain "s" or "q" then saves or leaves.      *)
RefinesLineEditor == Page!Spec

(* A page that does not count as modified is what the file holds, as much  *)
(* of it as fits the buffer, however it was edited, saved and loaded       *)
(* before; or, after a load that failed on the way, which ed_load does not *)
(* report, a beginning of that, which the next save makes the file.  Not   *)
(* so if a save of an unmodified page failed and cost the file its         *)
(* contents, which ed_save does not record.                                *)
CleanMatchesFile ==
  fs /\ ~ed_dirty /\ ~damaged =>
    IF short THEN \E n \in 0 .. Len(Kept(file)) : ed_buf = SubSeq(file, 1, n)
    ELSE ed_buf = Kept(file)
=============================================================================
