------------------------------ MODULE Keyboard ------------------------------
(***************************************************************************)
(* The keyboard path of kernel/drivers/keyboard.c: the interrupt handler   *)
(* that stores a scancode in a single slot, and ps2_kb_wfi, which sleeps   *)
(* with hlt until the slot is marked ready, line by line, because an       *)
(* interrupt may come between any two of its instructions.  Interrupts are *)
(* always enabled while ps2_kb_wfi runs, also while it polls the status    *)
(* port for the second byte of an extended key.                            *)
(*                                                                         *)
(* The controller (external) holds the bytes a keyboard has sent and       *)
(* offers them one at a time in its output buffer, raising IRQ 1 for each. *)
(* A key press is the bytes <<k>> or <<E0, k>>, its release the same bytes *)
(* with the release flag.                                                  *)
(*                                                                         *)
(* A definition Fault... is the faulty variant of the one that follows it; *)
(* no specification uses it.                                               *)
(***************************************************************************)
EXTENDS Integers, Sequences

CONSTANTS
  Plain,      \* keys with a one-byte scancode, modifiers excepted
  Arrows,     \* keys whose scancode is prefixed with 0xE0
  Shift,      \* LEFT_SHIFT_SC
  Caps,       \* CAPS_LOCK_SC
  MaxKeys     \* bound: how many presses and releases are typed

E0 == "E0"                          \* the prefix byte
Nothing == "nothing"                \* ps2_kb_wfi returned 0

Byte(k, up) == [key |-> k, up |-> up, code |-> "raw"]
KEY(k) == [key |-> k, up |-> FALSE, code |-> "KEY"]     \* KEY_UP ... KEY_RIGHT
Prefix == Byte(E0, FALSE)
NoByte == Byte(Nothing, FALSE)

VARIABLES
  sent,           \* bytes sent by the keyboard, not yet in the output buffer
  data,           \* what a read of port 0x60 returns
  obf,            \* status bit 0: output buffer full
  irq1,           \* IRQ 1 is pending
  kb_ready, last_scancode,
  KEYSTATE,       \* [shift, caps]
  pc,             \* line of ps2_kb_wfi, or "caller"
  scancode,       \* its local variable
  result,         \* what ps2_kb_wfi last returned
  typed,          \* history: how many presses and releases were typed
  last,           \* history: the last of them
  arrowed,        \* history: was one of them an arrow key?
  raced,          \* history: was a key typed before the last was consumed?
  down            \* history: [shift, caps] as the typist knows them

controller == <<sent, data, obf, irq1>>
slot == <<kb_ready, last_scancode>>
consumer == <<KEYSTATE, pc, scancode, result>>
history == <<typed, last, arrowed, raced, down>>
vars == <<controller, slot, consumer, history>>

Keys == Plain \cup Arrows \cup {Shift, Caps}

ASSUME KeyAssumption == E0 \notin Keys /\ Arrows \cap {Shift, Caps} = {}

Code(k, up) == IF k \in Arrows THEN <<Prefix, Byte(k, up)>> ELSE <<Byte(k, up)>>

(***************************************************************************)
(* process_keypress: also used for what the typist expects.                *)
(***************************************************************************)
FaultCapsOnRelease(state, b) ==
  [shift |-> IF b.key = Shift THEN ~b.up ELSE state.shift,
   caps  |-> IF b.key = Caps THEN ~state.caps ELSE state.caps]

process_keypress(state, b) ==
  [shift |-> IF b.key = Shift THEN ~b.up ELSE state.shift,
   caps  |-> IF b.key = Caps /\ ~b.up THEN ~state.caps ELSE state.caps]

NoModifier == [shift |-> FALSE, caps |-> FALSE]

Init ==
  /\ sent = <<>> /\ data = NoByte /\ obf = FALSE /\ irq1 = FALSE
  /\ kb_ready = FALSE /\ last_scancode = NoByte
  /\ KEYSTATE = NoModifier /\ pc = "caller"
  /\ scancode = NoByte /\ result = NoByte
  /\ typed = 0 /\ last = NoByte /\ arrowed = FALSE /\ raced = FALSE
  /\ down = NoModifier

(***************************************************************************)
(* The world outside.  A byte has been consumed once ps2_kb_wfi has        *)
(* returned and is waiting again.                                          *)
(***************************************************************************)
Waiting == pc \in {"check", "hlt", "asleep"}

Quiet ==
  /\ sent = <<>> /\ ~obf /\ ~irq1 /\ ~kb_ready
  /\ Waiting

Type(k, up) ==
  /\ typed < MaxKeys
  /\ sent' = sent \o Code(k, up)
  /\ typed' = typed + 1
  /\ last' = Byte(k, up)
  /\ arrowed' = (arrowed \/ k \in Arrows)
  /\ raced' = (raced \/ ~Quiet)
  /\ down' = [shift |-> IF k = Shift THEN ~up ELSE down.shift,
              caps  |-> IF k = Caps /\ ~up THEN ~down.caps ELSE down.caps]
  /\ UNCHANGED <<data, obf, irq1, slot, consumer>>

Offer ==
  /\ sent # <<>> /\ ~obf
  /\ data' = Head(sent) /\ sent' = Tail(sent)
  /\ obf' = TRUE /\ irq1' = TRUE
  /\ UNCHANGED <<slot, consumer, history>>

(***************************************************************************)
(* Interrupts.  Both wake a processor that has executed hlt.  Reading an   *)
(* empty output buffer returns the last byte again.                        *)
(***************************************************************************)
Woken == IF pc = "asleep" THEN "check" ELSE pc

FaultKeepsOlderByte ==
  /\ irq1
  /\ irq1' = FALSE /\ obf' = FALSE
  /\ last_scancode' = IF kb_ready THEN last_scancode ELSE data
  /\ kb_ready' = TRUE
  /\ pc' = Woken
  /\ UNCHANGED <<sent, data, KEYSTATE, scancode, result, history>>

keyboard_handler ==
  /\ irq1
  /\ irq1' = FALSE /\ obf' = FALSE
  /\ last_scancode' = data
  /\ kb_ready' = TRUE
  /\ pc' = Woken
  /\ UNCHANGED <<sent, data, KEYSTATE, scancode, result, history>>

FaultTimerDoesNotWake ==
  /\ pc = "asleep" /\ ~irq1
  /\ pc' = "asleep"
  /\ UNCHANGED <<controller, slot, KEYSTATE, scancode, result, history>>

Timer ==
  /\ pc = "asleep"
  /\ pc' = Woken
  /\ UNCHANGED <<controller, slot, KEYSTATE, scancode, result, history>>

(***************************************************************************)
(* ps2_kb_wfi.                                                             *)
(***************************************************************************)
Step(from, to) == pc = from /\ pc' = to

Call ==
  /\ Step("caller", "check")
  /\ UNCHANGED <<controller, slot, KEYSTATE, scancode, result, history>>

Check ==                                  \* while (!kb_ready)
  /\ Step("check", IF kb_ready THEN "clear" ELSE "hlt")
  /\ UNCHANGED <<controller, slot, KEYSTATE, scancode, result, history>>

Halt ==
  /\ Step("hlt", "asleep")
  /\ UNCHANGED <<controller, slot, KEYSTATE, scancode, result, history>>

ClearReady ==                             \* kb_ready = 0
  /\ Step("clear", "read")
  /\ kb_ready' = FALSE
  /\ UNCHANGED <<controller, last_scancode, KEYSTATE, scancode, result, history>>

Return(b) == result' = b /\ pc' = "caller"

ReadSlot ==
  /\ pc = "read"
  /\ scancode' = last_scancode
  /\ KEYSTATE' = process_keypress(KEYSTATE, last_scancode)
  /\ IF last_scancode.key = E0
       THEN pc' = "poll" /\ UNCHANGED result
       ELSE Return(last_scancode)
  /\ UNCHANGED <<controller, slot, history>>

Poll ==                                   \* while (!(inb(0x64) & 1))
  /\ Step("poll", IF obf THEN "ext" ELSE "poll")
  /\ UNCHANGED <<controller, slot, KEYSTATE, scancode, result, history>>

\* The read empties the output buffer; an interrupt that was already
\* pending may or may not be withdrawn by it.
ReadExtended ==
  /\ pc = "ext"
  /\ Return(IF ~data.up /\ data.key \in Arrows THEN KEY(data.key) ELSE NoByte)
  /\ obf' = FALSE
  /\ irq1' \in {irq1, FALSE}
  /\ UNCHANGED <<sent, data, slot, KEYSTATE, scancode, history>>

Consume == Call \/ Check \/ Halt \/ ClearReady \/ ReadSlot \/ Poll \/ ReadExtended

Next ==
  \/ \E k \in Keys, up \in BOOLEAN : Type(k, up)
  \/ Offer \/ keyboard_handler \/ Timer \/ Consume

Spec == Init /\ [][Next]_vars

(* Callers loop on ps2_kb_wfi, the processor runs unless it is halted, the *)
(* timer ticks and a pending interrupt is taken.  Nobody has to type.      *)
FairSpec ==
  /\ Spec
  /\ WF_vars(Offer) /\ WF_vars(keyboard_handler)
  /\ WF_vars(Timer) /\ WF_vars(Consume)
-----------------------------------------------------------------------------
(* Types, and what the program counter says about the slot: only           *)
(* ps2_kb_wfi clears kb_ready, so it is still set when the wait has ended. *)
TypeOK ==
  /\ pc = "clear" => kb_ready
  /\ pc \in {"poll", "ext"} => scancode = Prefix
  /\ kb_ready \in BOOLEAN /\ obf \in BOOLEAN /\ irq1 \in BOOLEAN
  /\ {data.key, last_scancode.key, result.key} \subseteq Keys \cup {E0, Nothing}
  /\ KEYSTATE \in [shift : BOOLEAN, caps : BOOLEAN]
  /\ pc \in {"caller", "check", "hlt", "asleep", "clear", "read", "poll", "ext"}

(* However fast one-byte keys are typed, the last one is not lost: when    *)
(* everything has come to rest it is what ps2_kb_wfi returned last.  This  *)
(* is what clearing kb_ready BEFORE reading last_scancode buys.            *)
LastKeyReturned ==
  Quiet /\ typed > 0 /\ ~arrowed => result = last

(* The modifier state that scancode_to_ascii uses is what the typist       *)
(* expects, arrow keys included, provided every byte was consumed before   *)
(* the next key was typed.                                                 *)
ModifiersFollow ==
  /\ TypeOK
  /\ Quiet /\ ~raced => KEYSTATE = down

(* A byte that arrives is answered, although the test of kb_ready and the  *)
(* hlt are two steps and the interrupt may come between them: the timer    *)
(* wakes the processor again.  An arrow key can leave ps2_kb_wfi polling   *)
(* for a byte that the handler took, until the next key.                   *)
ReadyIsConsumed == kb_ready /\ ~arrowed ~> ~kb_ready \/ arrowed

(* "Arrow keys - all four delivered as KEY_* by ps2_kb_wfi"                *)
(* (kernel/editor/editor.c:242): when an arrow key was pressed and         *)
(* everything has come to rest, ps2_kb_wfi has returned it.                *)
ArrowsDelivered ==
  Quiet /\ last.key \in Arrows /\ ~last.up => result = KEY(last.key)
=============================================================================
