------------------------------- MODULE Mouse -------------------------------
(***************************************************************************)
(* kernel/drivers/mouse.c: mouse_init, which talks to the mouse through    *)
(* the keyboard controller by polling, and mouse_handler, the handler of   *)
(* IRQ 12 that counts the bytes of a packet.                               *)
(*                                                                         *)
(* The controller and the mouse are external.  out holds the bytes that    *)
(* wait for a read of port 0x60, the first of them in the output buffer;   *)
(* a read when none waits returns the last byte again (mouse_wait gives up *)
(* after 100000 tries, long after any answer has come).  An interrupt is   *)
(* taken as soon as it is raised, and raised when a byte enters the output *)
(* buffer, once mouse_init has enabled it: a byte whose interrupt found no *)
(* handler stays in the buffer.                                            *)
(*                                                                         *)
(* A definition Fault... is the faulty variant of the one that follows it; *)
(* no specification uses it.                                               *)
(***************************************************************************)
EXTENDS Integers, Sequences

CONSTANTS
  Width, Height,      \* VGA_TEXT_WIDTH, VGA_TEXT_HEIGHT
  Mice,               \* what mice can be told apart as: 0 plain, 3 wheel, 4 buttons
  Moves               \* what the hand does: [dx, dy, wheel]

ASSUME MouseAssumption ==
  /\ Width \in Nat \ {0} /\ Height \in Nat \ {0}
  /\ Mice \subseteq {0, 3, 4}
  /\ Moves \subseteq [dx : Int, dy : Int, wheel : Int]

VARIABLES
  dev,                \* the mouse: [best, id, rates, want, streaming]
  ctl,                \* where the controller sends the next data byte
  irq_on,             \* IRQ 12 enabled in the controller
  out, port,          \* waiting bytes; what the last read returned
  irq12,              \* raised and not yet taken
  mline, status,      \* line of mouse_init's script; its variable
  installed,          \* irq_routines[12]
  mouse_cycle, mouse_byte, g_mouse_x_pos, g_mouse_y_pos,
  inflight,           \* history: packets begun and not yet handled whole
  disturbed           \* history: the mouse was moved or a key typed in mouse_init

controller == <<dev, ctl, irq_on, out, port, irq12>>
handler == <<mouse_cycle, mouse_byte, g_mouse_x_pos, g_mouse_y_pos>>
mouseVars == <<controller, mline, status, installed, handler, inflight, disturbed>>

ACK == \hFA                           \* MOUSE_ACKNOWLEDGE
Scan == \h1E                           \* a scancode of the keyboard
Config == \h47                        \* the controller's configuration byte

(***************************************************************************)
(* mouse_init as the reads and writes it makes.  Unless(n) leaves out the  *)
(* next n when the byte read last is not an acknowledgement; Stop returns  *)
(* from mouse_init.                                                        *)
(***************************************************************************)
Cmd(c) == [op |-> "cmd", v |-> c]
Data(d) == [op |-> "data", v |-> d]
Read == [op |-> "read", v |-> 0]
Unless(n) == [op |-> "unless", v |-> n]
Stop == Unless(1000)

mouse_write(d) == <<Cmd(\hD4), Read, Data(d), Read>>

FaultAsksBeforeRates(r) ==
  <<Cmd(\hD4), Read, Data(\hF3), Read, Unless(4), Cmd(\hD4), Read, Data(\hF2), Read>>

set_mouse_rate(r) ==
  <<Cmd(\hD4), Read, Data(\hF3), Read, Unless(4), Cmd(\hD4), Read, Data(r), Read>>

AskId == mouse_write(\hF2) \o <<Unless(1), Read>>

Script ==
  <<Cmd(\hD4), Read, Cmd(\hA8)>> \o AskId
  \o set_mouse_rate(200) \o set_mouse_rate(100) \o set_mouse_rate(80) \o AskId
  \o set_mouse_rate(200) \o set_mouse_rate(200) \o set_mouse_rate(80) \o AskId
  \o <<Read, Cmd(\h20), Read, Cmd(\h60), Data(Config)>>
  \o mouse_write(\hF6) \o <<Read, Stop>>
  \o mouse_write(\hF4) \o <<Read, Stop>>
  \o <<[op |-> "install", v |-> 0]>>

Initialising == mline <= Len(Script)

MouseInit ==
  /\ dev \in [best : Mice, id : {0}, rates : {<<>>}, want : {"command"},
              streaming : {FALSE}]
  /\ ctl = "keyboard" /\ irq_on = FALSE /\ irq12 = FALSE
  /\ out = <<>> /\ port \in {0, ACK}
  /\ mline = 1 /\ status = 0 /\ installed = FALSE
  /\ mouse_cycle = 0 /\ mouse_byte = <<0, 0, 0, 0>>
  /\ g_mouse_x_pos = 5 /\ g_mouse_y_pos = 2
  /\ inflight = <<>> /\ disturbed = FALSE

(***************************************************************************)
(* The mouse's answers.  It counts as one with a wheel, or with buttons,   *)
(* after the three rates that ask for it.                                  *)
(***************************************************************************)
LastThree(s) == IF Len(s) > 3 THEN Tail(s) ELSE s

Identity(d, rates) ==
  CASE rates = <<200, 100, 80>> /\ d.best >= 3 -> 3
    [] rates = <<200, 200, 80>> /\ d.best = 4 -> 4
    [] OTHER -> d.id

Answer(d, v) ==
  IF d.want = "rate"
    THEN LET rates == LastThree(Append(d.rates, v))
         IN [dev |-> [d EXCEPT !.want = "command", !.rates = rates,
                               !.id = Identity(d, rates)],
             bytes |-> <<ACK>>]
    ELSE CASE v = \hF2 -> [dev |-> d, bytes |-> <<ACK, d.id>>]
           [] v = \hF3 -> [dev |-> [d EXCEPT !.want = "rate"], bytes |-> <<ACK>>]
           [] v = \hF4 -> [dev |-> [d EXCEPT !.streaming = TRUE], bytes |-> <<ACK>>]
           [] v = \hF6 -> [dev |-> [d EXCEPT !.streaming = FALSE], bytes |-> <<ACK>>]

\* Bytes enter the queue: an interrupt if the buffer was empty.
Offer(bytes) ==
  /\ out' = out \o bytes
  /\ irq12' = (irq12 \/ (irq_on /\ out = <<>>))

\* Port 0x60 is read: the next byte, if any, enters the buffer.
Taken ==
  /\ port' = IF out = <<>> THEN port ELSE Head(out)
  /\ out' = IF out = <<>> THEN out ELSE Tail(out)
  /\ irq12' = (irq_on /\ Len(out) > 1)

(***************************************************************************)
(* A packet.  Signs and the always-one bit are in its first byte; a mouse  *)
(* with extra buttons reports the wheel in four bits, one with a wheel     *)
(* only in eight, a plain mouse not at all.                                *)
(***************************************************************************)
WheelByte(d, wheel) == IF d.id = 4 THEN wheel % 16 ELSE wheel

Packet(d, m) ==
  LET three == <<8, m.dx, m.dy>>
  IN IF d.id = 0 THEN three ELSE Append(three, WheelByte(d, m.wheel))

Move(m) ==
  /\ dev.streaming
  /\ Offer(Packet(dev, m))
  /\ inflight' = Append(inflight, m)
  /\ disturbed' = (disturbed \/ Initialising)
  /\ UNCHANGED <<dev, ctl, irq_on, port, mline, status, installed, handler>>

\* A key is typed while mouse_init runs: keyboard_handler reads its byte.
KeyTyped ==
  /\ Initialising /\ out = <<>> /\ ~irq12
  /\ port' = Scan /\ disturbed' = TRUE
  /\ UNCHANGED <<dev, ctl, irq_on, out, irq12, mline, status, installed, handler, inflight>>

(***************************************************************************)
(* A step of mouse_init.                                                   *)
(***************************************************************************)
SendCommand(v) ==
  /\ ctl' = CASE v = \hD4 -> "mouse" [] v = \h60 -> "config" [] OTHER -> "keyboard"
  /\ IF v = \h20 THEN Offer(<<Config>>) ELSE UNCHANGED <<out, irq12>>
  /\ UNCHANGED <<dev, irq_on, port, status>>

SendData(v) ==
  /\ ctl' = "keyboard"
  /\ irq_on' = (irq_on \/ ctl = "config")
  /\ IF ctl = "mouse"
       THEN dev' = Answer(dev, v).dev /\ Offer(Answer(dev, v).bytes)
       ELSE UNCHANGED <<dev, out, irq12>>
  /\ UNCHANGED <<port, status>>

InitStep ==
  /\ Initialising /\ ~irq12
  /\ LET step == Script[mline]
     IN /\ mline' = IF step.op = "unless" /\ status # ACK
                      THEN IF step = Stop THEN Len(Script) + 1 ELSE mline + 1 + step.v
                      ELSE mline + 1
        /\ installed' = (installed \/ step.op = "install")
        /\ CASE step.op = "cmd" -> SendCommand(step.v)
             [] step.op = "data" -> SendData(step.v)
             [] step.op = "read" -> Taken /\ status' = port' /\ UNCHANGED <<dev, ctl, irq_on>>
             [] OTHER -> UNCHANGED <<controller, status>>
  /\ UNCHANGED <<handler, inflight, disturbed>>

(***************************************************************************)
(* IRQ 12: irq_handler finds no routine, or mouse_handler takes one byte.  *)
(* It returns before the end of the switch for the first three bytes.      *)
(***************************************************************************)
NoHandler ==
  /\ irq12 /\ ~installed
  /\ irq12' = FALSE
  /\ UNCHANGED <<dev, ctl, irq_on, out, port, mline, status, installed, handler,
                 inflight, disturbed>>

TakesByte ==
  /\ irq12 /\ installed
  /\ Taken
  /\ UNCHANGED <<dev, ctl, irq_on, mline, status, installed, disturbed>>

FirstBytes ==
  /\ TakesByte /\ mouse_cycle < 3
  /\ mouse_byte' = [mouse_byte EXCEPT ![mouse_cycle + 1] = port']
  /\ mouse_cycle' = mouse_cycle + 1
  /\ UNCHANGED <<g_mouse_x_pos, g_mouse_y_pos, inflight>>

FaultClampsBelow(v, size) == IF v > size THEN size - 1 ELSE v

Clamp(v, size) == IF v < 0 THEN 0 ELSE IF v > size THEN size - 1 ELSE v

LastByte ==
  /\ TakesByte /\ mouse_cycle = 3
  /\ mouse_byte' = [mouse_byte EXCEPT ![4] = port']
  /\ g_mouse_x_pos' = Clamp(g_mouse_x_pos + mouse_byte[2], Width)
  /\ g_mouse_y_pos' = Clamp(g_mouse_y_pos - mouse_byte[3], Height)
  /\ mouse_cycle' = 0
  /\ inflight' = IF inflight = <<>> THEN inflight ELSE Tail(inflight)
-----------------------------------------------------------------------------
(* The handler is installed and in step with the mouse, and a mouse that   *)
(* has a wheel reports it, if nothing was moved or typed while mouse_init  *)
(* ran: its last two tests read an acknowledgement that was read before,   *)
(* and a scancode or a packet's first byte would fail them.                *)
MouseReady ==
  ~Initialising /\ ~disturbed =>
    /\ installed /\ dev.streaming /\ dev.id = dev.best
    /\ dev.id # 0 => (mouse_cycle + Len(out)) % 4 = 0

(* From "from" by "by": there, if that is on the screen.  Beyond its right *)
(* or lower edge the pointer may be on the last column or row or, because  *)
(* mouse_handler compares with >, one past it: there the next movement to  *)
(* the right or down moves it back by one, and draw_cursor reads a cell    *)
(* that is not of its row.                                                 *)
Follows(from, by, to, size) ==
  LET goal == from + by
  IN /\ goal \in 0 .. size - 1 => to = goal
     /\ goal < 0 => to = 0
     /\ goal >= size => to \in {size - 1, size}

(* Every time mouse_handler counts four bytes they are one packet of the   *)
(* mouse, and the pointer has moved as the packet says as far as the       *)
(* screen goes, and never further than one column or row past it; not so   *)
(* for a mouse without a wheel, whose packets have three bytes.            *)
PointerFollows ==
  [][mouse_cycle = 3 /\ mouse_cycle' = 0 /\ ~disturbed /\ dev.id # 0 =>
       LET m == Head(inflight)
       IN /\ mouse_byte' = Packet(dev, m)
          /\ Follows(g_mouse_x_pos, m.dx, g_mouse_x_pos', Width)
          /\ Follows(g_mouse_y_pos, -m.dy, g_mouse_y_pos', Height)]_mouseVars
=============================================================================
