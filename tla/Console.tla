------------------------------ MODULE Console ------------------------------
(***************************************************************************)
(* The machine as its user sees it: mouse_init while booting, then kmain's *)
(* loop of prompt, input and command (kernel/kernel.c), and the text       *)
(* editor, with the mouse's interrupt at any time.  A command prints       *)
(* nothing, prints a line, clears the screen, or is the "edit" that        *)
(* README.md:96 lists; which, is left open.  (editor_run has no caller yet *)
(* in this code, so that command is external.)  The screen starts as it is *)
(* after "clear": what booting prints is left out.                         *)
(*                                                                         *)
(* Bound: a behaviour draws on one of Budgets, which says how much of each *)
(* kind of input it sees: packets of the mouse while booting and later,    *)
(* keys for the command line, and edit commands.                           *)
(***************************************************************************)
EXTENDS Terminal, Editor, Mouse

CONSTANTS Prompt, Reply, Budgets

ASSUME ConsoleAssumption == {Prompt, Reply} \subseteq Seq(Characters \ {BS})

VARIABLES
  mode,        \* what the program does: boot, prompt, key, command, edit
  budget

vars == <<termVars, edVars, mouseVars, mode, budget>>

Init ==
  /\ TerminalInit /\ EditorInit /\ MouseInit
  /\ mode = "boot"
  /\ budget \in Budgets
  /\ budget.edits = 0 => ~fs /\ file = <<>>     \* the file plays no part
  /\ budget.early + budget.packets = 0 => dev.best = 4 /\ port = 0     \* the mouse

Spend(what) == budget[what] > 0 /\ budget' = [budget EXCEPT ![what] = @ - 1]

(***************************************************************************)
(* The program runs unless an interrupt is to be taken.                    *)
(***************************************************************************)
Runs(m) == mode = m /\ ~irq12

Boot ==
  /\ mode = "boot" /\ InitStep
  /\ UNCHANGED <<termVars, edVars, mode, budget>>

\* terminal_init registers the callback; what else _entry sets up is other
\* components'.
Booted ==
  /\ Runs("boot") /\ ~Initialising
  /\ mode' = "prompt" /\ Output(Prompt)
  /\ UNCHANGED <<screen, viewport, stage, ring, line, capped, edVars, mouseVars, budget>>

Printing ==
  /\ ~irq12 /\ PutCharStep
  /\ UNCHANGED <<edVars, mouseVars, mode, budget>>

Listen ==
  /\ Runs("prompt") /\ Printed
  /\ mode' = "key" /\ CallInput
  /\ UNCHANGED <<edVars, mouseVars, budget>>

Key(change) ==
  /\ Runs("key") /\ Spend("keys") /\ change
  /\ UNCHANGED <<edVars, mouseVars>>

Editing(change) == Key(change) /\ UNCHANGED mode

Entered == Key(Enter) /\ mode' = "command"

Command(effect) ==
  /\ Runs("command") /\ Printed
  /\ effect
  /\ UNCHANGED <<stage, ring, line, capped, mouseVars>>

Prompts(before) == Output(before \o Prompt) /\ mode' = "prompt"

Replies ==
  \E reply \in {<<>>, Reply} :
    Command(Prompts(reply) /\ UNCHANGED <<screen, viewport, edVars, budget>>)

Clears ==
  Command(terminal_clear /\ Prompts(<<>>) /\ UNCHANGED <<follow_output, edVars, budget>>)

EditCommand ==
  Command(/\ Spend("edits") /\ editor_run
          /\ mode' = "edit"
          /\ UNCHANGED <<screen, viewport, todo>>)

Edit ==
  /\ Runs("edit") /\ EditorStep
  /\ UNCHANGED <<termVars, mouseVars, mode, budget>>

LeaveEditor ==
  /\ Runs("edit") /\ Quits
  /\ terminal_clear /\ Prompts(<<>>)
  /\ editor_left
  /\ UNCHANGED <<follow_output, stage, ring, line, capped, mouseVars, budget>>

Shell ==
  \/ Boot \/ Booted \/ Printing \/ Listen
  \/ \E c \in Letters : Editing(Typed(c))
  \/ Editing(Erase) \/ Editing(KeyUp) \/ Editing(KeyDown)
  \/ Entered \/ Replies \/ Clears
  \/ EditCommand \/ Edit \/ LeaveEditor

(***************************************************************************)
(* The mouse, and its interrupt.  The last byte of a packet calls          *)
(* get_mouse_event, or prints a message when terminal_init has not run.    *)
(***************************************************************************)
Moved ==
  /\ Spend(IF Initialising THEN "early" ELSE "packets")
  /\ \E m \in Moves : Move(m)
  /\ UNCHANGED <<termVars, edVars, mode>>

TypedEarly ==
  /\ Spend("early") /\ KeyTyped
  /\ UNCHANGED <<termVars, edVars, mode>>

Interrupt ==
  /\ \/ (NoHandler \/ FirstBytes) /\ UNCHANGED termVars
     \/ LastByte /\ IF mode = "boot" THEN UNCHANGED termVars
                    ELSE get_mouse_event(mouse_byte'[4])
  /\ UNCHANGED <<edVars, mode, budget>>

Next == Shell \/ Moved \/ TypedEarly \/ Interrupt

Spec == Init /\ [][Next]_vars
-----------------------------------------------------------------------------
(* InputEchoed (Terminal) whenever the program waits for a key in input.   *)
EchoedAtKey == mode = "key" /\ Printed => InputEchoed

(* CleanMatchesFile (Editor) while the editor runs.                        *)
PageMatchesFile == mode = "edit" => CleanMatchesFile
=============================================================================
