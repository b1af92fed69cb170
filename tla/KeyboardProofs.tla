--------------------------- MODULE KeyboardProofs ---------------------------
(***************************************************************************)
(* Proofs about the keyboard path, for every set of keys and any number of *)
(* them.  A byte passes from sent to data (with irq1), from there to       *)
(* last_scancode (with kb_ready) and, once pc is "read", to the caller;    *)
(* the invariants say where the bytes that matter are.                     *)
(***************************************************************************)
EXTENDS Keyboard, SequenceTheorems, TLAPS

Bytes == {Byte(k, up) : k \in Keys, up \in BOOLEAN} \cup {Prefix}
Answers == Bytes \cup {NoByte} \cup {KEY(k) : k \in Arrows}

Types ==
  /\ TypeOK
  /\ sent \in Seq(Bytes)
  /\ {data, last_scancode} \subseteq Bytes \cup {NoByte}
  /\ result \in Answers

(* As long as no arrow key was typed, no prefix is under way, and the      *)
(* interrupt is pending exactly while the output buffer is full.           *)
OneByteKeys ==
  ~arrowed => /\ \A i \in 1 .. Len(sent) : sent[i].key # E0
              /\ data.key # E0 /\ last_scancode.key # E0
              /\ obf <=> irq1
              /\ pc \notin {"poll", "ext"}

(* The last key is the last one under way, or has been returned.           *)
LastInFlight ==
  typed > 0 /\ ~arrowed =>
    \/ sent # <<>> /\ sent[Len(sent)] = last
    \/ sent = <<>> /\ irq1 /\ data = last
    \/ /\ sent = <<>> /\ ~irq1 /\ last_scancode = last
       /\ kb_ready \/ pc = "read" \/ result = last

\* The bytes that ReadSlot may still process ...
Stored == kb_ready \/ pc = "read"

Harmless(b) == b.key \notin {Shift, Caps}

\* ... change no modifier, or one of them does and is the only one.
NoModifierInFlight ==
  /\ KEYSTATE = down
  /\ \A i \in 1 .. Len(sent) : Harmless(sent[i])
  /\ irq1 => Harmless(data)
  /\ Stored => Harmless(last_scancode)

Completes(b) == b.key # E0 /\ process_keypress(KEYSTATE, b) = down

OneModifierInFlight ==
  /\ pc \in {"check", "hlt", "asleep", "clear", "read"}
  /\ \/ /\ Len(sent) = 1 /\ Completes(sent[1])
        /\ ~irq1 /\ ~Stored
     \/ sent = <<>> /\ irq1 /\ Completes(data) /\ ~Stored
     \/ /\ sent = <<>> /\ ~irq1 /\ Completes(last_scancode)
        /\ kb_ready <=> pc # "read"

ModifierInv == ~raced => NoModifierInFlight \/ OneModifierInFlight

KeyboardInv == Types /\ OneByteKeys /\ LastInFlight /\ ModifierInv
-----------------------------------------------------------------------------
LEMMA ByteFacts ==
  /\ \A b \in Bytes \cup {NoByte} : b.key \in Keys \cup {E0, Nothing} /\ b.up \in BOOLEAN
  /\ \A b \in Bytes \cup {NoByte} : b.key = E0 => b = Prefix
  /\ \A b \in Answers : b.key \in Keys \cup {E0, Nothing}
  /\ Prefix.key = E0 /\ Prefix \in Bytes /\ NoByte.key # E0
  /\ \A k \in Keys, up \in BOOLEAN : Byte(k, up) \in Bytes
<1>. USE DEF Byte, KEY, Prefix, NoByte, E0, Nothing
<1>1. ASSUME NEW b \in Bytes
      PROVE  /\ b.key \in Keys \cup {E0, Nothing} /\ b.up \in BOOLEAN
             /\ b.key = E0 => b = Prefix
  <2>1. CASE b = Prefix
    BY <2>1
  <2>2. ASSUME NEW k \in Keys, NEW up \in BOOLEAN, b = Byte(k, up)
        PROVE  b.key \in Keys /\ b.up \in BOOLEAN /\ b.key # E0
    BY <2>2, KeyAssumption
  <2>. QED  BY <2>1, <2>2 DEF Bytes
<1>2. /\ NoByte.key = Nothing /\ NoByte.up \in BOOLEAN /\ NoByte.key # E0
      /\ Prefix.key = E0
  OBVIOUS
<1>3. \A k \in Arrows : KEY(k).key \in Keys
  BY DEF Keys
<1>4. ASSUME NEW b \in Answers
      PROVE  b.key \in Keys \cup {E0, Nothing}
  <2>. HIDE DEF Byte, KEY, Prefix, NoByte, E0, Nothing
  <2>. QED  BY <1>1, <1>2, <1>3 DEF Answers
<1>5. Prefix \in Bytes /\ \A k \in Keys, up \in BOOLEAN : Byte(k, up) \in Bytes
  BY DEF Bytes
<1>. HIDE DEF Byte, KEY, Prefix, NoByte, E0, Nothing
<1>. QED  BY <1>1, <1>2, <1>4, <1>5

(* The bytes of a press or release.                                        *)
LEMMA CodeFacts ==
  ASSUME NEW k \in Keys, NEW up \in BOOLEAN
  PROVE  /\ Code(k, up) \in Seq(Bytes)
         /\ k \notin Arrows => Code(k, up) = <<Byte(k, up)>>
         /\ k \in Arrows => Code(k, up) = <<Prefix, Byte(k, up)>>
<1>1. Byte(k, up) \in Bytes /\ Prefix \in Bytes
  BY ByteFacts
<1>. QED  BY <1>1 DEF Code

LEMMA ProcessFacts ==
  ASSUME NEW state \in [shift : BOOLEAN, caps : BOOLEAN], NEW b, b.up \in BOOLEAN
  PROVE  process_keypress(state, b) \in [shift : BOOLEAN, caps : BOOLEAN]
<1>1. (IF b.key = Shift THEN ~b.up ELSE state.shift) \in BOOLEAN
  OBVIOUS
<1>2. (IF b.key = Caps /\ ~b.up THEN ~state.caps ELSE state.caps) \in BOOLEAN
  OBVIOUS
<1>. QED  BY <1>1, <1>2 DEF process_keypress

LEMMA KeyboardInvInit == Init => KeyboardInv
<1>. SUFFICES ASSUME Init PROVE KeyboardInv
  OBVIOUS
<1>. USE DEF Init
<1>1. Types
  <2>1. KEYSTATE \in [shift : BOOLEAN, caps : BOOLEAN]
    BY DEF NoModifier
  <2>2. sent \in Seq(Bytes) /\ result \in Answers
    BY DEF Answers
  <2>. QED  BY <2>1, <2>2, ByteFacts DEF Types, TypeOK
<1>2. OneByteKeys /\ LastInFlight
  BY ByteFacts DEF OneByteKeys, LastInFlight
<1>3. ModifierInv
  BY DEF ModifierInv, NoModifierInFlight, Stored
<1>. QED  BY <1>1, <1>2, <1>3 DEF KeyboardInv

LEMMA OfferFacts ==
  ASSUME Types, Offer
  PROVE  /\ sent \in Seq(Bytes) /\ sent # <<>> /\ Len(sent) \in Nat /\ Len(sent) > 0
         /\ sent' \in Seq(Bytes) /\ Len(sent') = Len(sent) - 1
         /\ \A i \in 1 .. Len(sent') : sent'[i] = sent[i + 1]
         /\ data' = sent[1] /\ data' \in Bytes
         /\ sent' = <<>> <=> Len(sent) = 1
         /\ obf' = TRUE /\ irq1' = TRUE
         /\ UNCHANGED <<slot, consumer, history>>
<1>1. sent \in Seq(Bytes) /\ sent # <<>>
  BY DEF Types, Offer
<1>2. Len(sent) \in Nat /\ Len(sent) > 0 /\ Head(sent) = sent[1] /\ sent[1] \in Bytes
  BY <1>1
<1>3. /\ Tail(sent) \in Seq(Bytes) /\ Len(Tail(sent)) = Len(sent) - 1
      /\ \A i \in 1 .. Len(Tail(sent)) : Tail(sent)[i] = sent[i + 1]
  BY <1>1, HeadTailProperties
<1>4. Tail(sent) = <<>> <=> Len(sent) = 1
  BY <1>2, <1>3, EmptySeq
<1>5. /\ data' = Head(sent) /\ sent' = Tail(sent) /\ obf' = TRUE /\ irq1' = TRUE
      /\ UNCHANGED <<slot, consumer, history>>
  BY DEF Offer
<1>. QED  BY <1>1, <1>2, <1>3, <1>4, <1>5

LEMMA TypesStep ==
  ASSUME KeyboardInv, [Next]_vars
  PROVE  Types'
<1>. USE DEF KeyboardInv, Types, TypeOK
<1>1. ASSUME NEW k \in Keys, NEW up \in BOOLEAN, Type(k, up)
      PROVE  Types'
  <2>1. sent' \in Seq(Bytes)
    BY <1>1, CodeFacts, ConcatProperties DEF Type
  <2>. QED  BY <1>1, <2>1 DEF Type, slot, consumer
<1>2. CASE Offer
  BY <1>2, OfferFacts, ByteFacts DEF slot, consumer
<1>3. CASE keyboard_handler
  BY <1>3 DEF keyboard_handler, Woken
<1>4. CASE Timer
  BY <1>4 DEF Timer, Woken, controller, slot
<1>5. CASE Call \/ Check \/ Halt
  BY <1>5 DEF Call, Check, Halt, Step, controller, slot
<1>6. CASE ClearReady
  BY <1>6 DEF ClearReady, Step, controller
<1>7. CASE ReadSlot
  <2>1. KEYSTATE' \in [shift : BOOLEAN, caps : BOOLEAN]
    <3>1. last_scancode.up \in BOOLEAN
      BY ByteFacts
    <3>. QED  BY <1>7, <3>1, ProcessFacts DEF ReadSlot
  <2>2. result' \in Answers
    BY <1>7 DEF ReadSlot, Return, Answers
  <2>3. pc' \in {"poll", "caller"} /\ (pc' = "poll" => scancode' = Prefix)
    BY <1>7, ByteFacts DEF ReadSlot, Return
  <2>. QED  BY <1>7, <2>1, <2>2, <2>3, ByteFacts DEF ReadSlot, controller, slot
<1>8. CASE Poll
  BY <1>8 DEF Poll, Step, controller, slot
<1>9. CASE ReadExtended
  <2>1. result' \in Answers /\ pc' = "caller"
    BY <1>9, ByteFacts DEF ReadExtended, Return, Answers
  <2>. QED  BY <1>9, <2>1, ByteFacts DEF ReadExtended, slot
<1>10. CASE UNCHANGED vars
  BY <1>10 DEF vars, controller, slot, consumer
<1>. QED
  BY <1>1, <1>2, <1>3, <1>4, <1>5, <1>6, <1>7, <1>8, <1>9, <1>10 DEF Next, Consume

(* Where the last key is.                                                  *)
LEMMA OneByteStep ==
  ASSUME KeyboardInv, [Next]_vars
  PROVE  OneByteKeys' /\ LastInFlight'
<1>. SUFFICES ASSUME ~arrowed' PROVE OneByteKeys' /\ LastInFlight'
  BY DEF OneByteKeys, LastInFlight
<1>0. ~arrowed
  BY DEF Next, Type, Offer, keyboard_handler, Timer, Consume, Call, Check, Halt, ClearReady,
         ReadSlot, Poll, ReadExtended, vars, history
<1>1. /\ Types /\ sent \in Seq(Bytes)
      /\ \A i \in 1 .. Len(sent) : sent[i].key # E0
      /\ data.key # E0 /\ last_scancode.key # E0 /\ (obf <=> irq1) /\ pc \notin {"poll", "ext"}
      /\ pc = "clear" => kb_ready
  BY <1>0 DEF KeyboardInv, Types, TypeOK, OneByteKeys
<1>2. typed > 0 =>
        \/ sent # <<>> /\ sent[Len(sent)] = last
        \/ sent = <<>> /\ irq1 /\ data = last
        \/ /\ sent = <<>> /\ ~irq1 /\ last_scancode = last
           /\ kb_ready \/ pc = "read" \/ result = last
  BY <1>0 DEF KeyboardInv, LastInFlight
<1>. USE DEF OneByteKeys, LastInFlight
<1>3. ASSUME NEW k \in Keys, NEW up \in BOOLEAN, Type(k, up)
      PROVE  OneByteKeys' /\ LastInFlight'
  <2>1. /\ k \notin Arrows /\ last' = Byte(k, up)
        /\ sent' = sent \o <<last'>>
        /\ UNCHANGED <<data, obf, irq1, slot, consumer>>
    BY <1>3, CodeFacts DEF Type
  <2>2. last' \in Bytes /\ last'.key # E0
    BY <2>1, ByteFacts, KeyAssumption DEF Byte
  <2>3. /\ Len(sent') = Len(sent) + 1 /\ Len(sent) \in Nat
        /\ \A i \in 1 .. Len(sent) : sent'[i] = sent[i]
        /\ sent'[Len(sent) + 1] = last' /\ sent' # <<>>
    <3>1. sent' = Append(sent, last')
      BY <1>1, <2>1, <2>2, AppendIsConcat
    <3>. QED  BY <1>1, <2>2, <3>1, AppendProperties
  <2>4. \A i \in 1 .. Len(sent') : sent'[i].key # E0
    BY <1>1, <2>2, <2>3
  <2>. QED  BY <1>1, <2>1, <2>3, <2>4 DEF slot, consumer
<1>4. CASE Offer
  <2>1. sent'[Len(sent')] = sent[Len(sent)] \/ sent' = <<>>
    BY <1>1, <1>4, OfferFacts, EmptySeq
  <2>2. sent' = <<>> => data' = sent[Len(sent)]
    BY <1>1, <1>4, OfferFacts
  <2>3. data'.key # E0 /\ \A i \in 1 .. Len(sent') : sent'[i].key # E0
    BY <1>1, <1>4, OfferFacts
  <2>. QED  BY <1>1, <1>2, <1>4, <2>1, <2>2, <2>3, OfferFacts DEF slot, consumer, history
<1>5. CASE keyboard_handler
  BY <1>1, <1>2, <1>5 DEF keyboard_handler, Woken, history
<1>6. CASE Timer
  BY <1>1, <1>2, <1>6 DEF Timer, Woken, controller, slot, history
<1>7. CASE Call \/ Check \/ Halt \/ ClearReady
  BY <1>1, <1>2, <1>7 DEF Call, Check, Halt, ClearReady, Step, controller, slot, history
<1>8. CASE ReadSlot
  BY <1>1, <1>2, <1>8 DEF ReadSlot, Return, controller, slot, history
<1>9. CASE Poll \/ ReadExtended
  BY <1>1, <1>9 DEF Poll, ReadExtended, Step
<1>10. CASE UNCHANGED vars
  BY <1>1, <1>2, <1>10 DEF vars, controller, slot, consumer, history
<1>. QED
  BY <1>3, <1>4, <1>5, <1>6, <1>7, <1>8, <1>9, <1>10 DEF Next, Consume

-----------------------------------------------------------------------------
(* Keys that are no modifier change none.                                  *)
LEMMA HarmlessFacts ==
  ASSUME NEW state \in [shift : BOOLEAN, caps : BOOLEAN], NEW b, Harmless(b)
  PROVE  process_keypress(state, b) = state
BY DEF process_keypress, Harmless

(* Where the modifiers are.                                                *)
LEMMA ModifierStep ==
  ASSUME KeyboardInv, [Next]_vars
  PROVE  ModifierInv'
<1>. SUFFICES ASSUME ~raced' PROVE NoModifierInFlight' \/ OneModifierInFlight'
  BY DEF ModifierInv
<1>0. ~raced
  BY DEF Next, Type, Offer, keyboard_handler, Timer, Consume, Call, Check, Halt, ClearReady,
         ReadSlot, Poll, ReadExtended, vars, history
<1>1. /\ Types /\ sent \in Seq(Bytes) /\ KEYSTATE \in [shift : BOOLEAN, caps : BOOLEAN]
      /\ pc = "clear" => kb_ready
      /\ pc \in {"caller", "check", "hlt", "asleep", "clear", "read", "poll", "ext"}
      /\ NoModifierInFlight \/ OneModifierInFlight
  BY <1>0 DEF KeyboardInv, Types, TypeOK, ModifierInv
<1>2. ASSUME NEW k \in Keys, NEW up \in BOOLEAN, Type(k, up)
      PROVE  NoModifierInFlight' \/ OneModifierInFlight'
  <2>1. /\ sent = <<>> /\ ~irq1 /\ ~kb_ready /\ pc \in {"check", "hlt", "asleep"}
        /\ sent' = sent \o Code(k, up)
        /\ UNCHANGED <<data, irq1, slot, consumer>>
    BY <1>0, <1>2 DEF Type, Quiet, Waiting
  <2>2. KEYSTATE = down
    BY <1>1, <2>1 DEF NoModifierInFlight, OneModifierInFlight, Stored
  <2>3. sent' = Code(k, up)
    BY <2>1, CodeFacts, ConcatEmptySeq
  <2>4. CASE k \in {Shift, Caps}
    <3>1. k \notin Arrows /\ sent' = <<Byte(k, up)>>
      BY <2>3, <2>4, KeyAssumption, CodeFacts
    <3>2. Byte(k, up).key # E0 /\ process_keypress(KEYSTATE, Byte(k, up)) = down'
      BY <1>2, <2>2, KeyAssumption DEF Type, process_keypress, Byte
    <3>. QED
      BY <2>1, <3>1, <3>2 DEF OneModifierInFlight, Completes, Stored, slot, consumer
  <2>5. CASE k \notin {Shift, Caps}
    <3>1. down' = down
      BY <1>1, <1>2, <2>2, <2>5 DEF Type
    <3>2. Harmless(Prefix) /\ Harmless(Byte(k, up))
      BY <2>5, KeyAssumption DEF Harmless, Prefix, Byte, Keys
    <3>3. \A i \in 1 .. Len(sent') : Harmless(sent'[i])
      BY <2>3, <3>2, CodeFacts
    <3>. QED
      BY <2>1, <2>2, <3>1, <3>3 DEF NoModifierInFlight, Stored, slot, consumer
  <2>. QED  BY <2>4, <2>5
<1>3. CASE Offer
  <2>1. CASE NoModifierInFlight
    <3>1. Harmless(data') /\ \A i \in 1 .. Len(sent') : Harmless(sent'[i])
      <4>1. \A i \in 1 .. Len(sent) : Harmless(sent[i])
        BY <2>1 DEF NoModifierInFlight
      <4>2. /\ Len(sent) \in Nat /\ Len(sent) > 0 /\ Len(sent') = Len(sent) - 1
            /\ \A i \in 1 .. Len(sent') : sent'[i] = sent[i + 1]
            /\ data' = sent[1]
        BY <1>1, <1>3, OfferFacts
      <4>3. \A i \in 1 .. Len(sent') : i + 1 \in 1 .. Len(sent)
        BY <4>2
      <4>. QED  BY <4>1, <4>2, <4>3
    <3>2. UNCHANGED <<slot, consumer, history>>
      BY <1>3 DEF Offer
    <3>. QED
      BY <2>1, <3>1, <3>2 DEF NoModifierInFlight, Stored, slot, consumer, history
  <2>2. CASE OneModifierInFlight
    <3>1. Len(sent) = 1 /\ sent' = <<>> /\ data' = sent[1]
      BY <1>1, <1>3, <2>2, OfferFacts DEF OneModifierInFlight
    <3>. QED
      BY <1>1, <1>3, <2>2, <3>1, OfferFacts
      DEF OneModifierInFlight, Completes, Stored, slot, consumer, history
  <2>. QED  BY <1>1, <2>1, <2>2
<1>4. CASE keyboard_handler
  <2>. USE <1>1, <1>4 DEF keyboard_handler, Woken, history, Stored
  <2>1. CASE NoModifierInFlight
    BY <2>1 DEF NoModifierInFlight
  <2>2. CASE OneModifierInFlight
    BY <2>2 DEF OneModifierInFlight, Completes
  <2>. QED  BY <2>1, <2>2
<1>5. CASE Timer \/ Call \/ Check \/ Halt \/ ClearReady \/ Poll
  <2>. USE <1>1, <1>5 DEF Timer, Call, Check, Halt, ClearReady, Poll, Step, Woken,
                          controller, slot, history, Stored
  <2>1. CASE NoModifierInFlight
    BY <2>1 DEF NoModifierInFlight
  <2>2. CASE OneModifierInFlight
    BY <2>2 DEF OneModifierInFlight, Completes
  <2>. QED  BY <2>1, <2>2
<1>6. CASE ReadSlot
  <2>1. /\ pc = "read" /\ KEYSTATE' = process_keypress(KEYSTATE, last_scancode)
        /\ pc' = IF last_scancode.key = E0 THEN "poll" ELSE "caller"
        /\ UNCHANGED <<controller, slot, history>>
    BY <1>6 DEF ReadSlot, Return
  <2>2. CASE NoModifierInFlight
    <3>1. KEYSTATE' = KEYSTATE
      BY <1>1, <2>1, <2>2, HarmlessFacts DEF NoModifierInFlight, Stored
    <3>. QED
      BY <2>1, <2>2, <3>1 DEF NoModifierInFlight, Stored, controller, slot, history
  <2>3. CASE OneModifierInFlight
    <3>1. sent = <<>> /\ ~irq1 /\ ~kb_ready /\ Completes(last_scancode)
      BY <2>1, <2>3 DEF OneModifierInFlight, Stored
    <3>. QED
      BY <2>1, <3>1
      DEF NoModifierInFlight, Completes, Stored, controller, slot, history
  <2>. QED  BY <1>1, <2>2, <2>3
<1>7. CASE ReadExtended
  <2>1. NoModifierInFlight
    BY <1>1, <1>7 DEF ReadExtended, OneModifierInFlight
  <2>. QED
    BY <1>7, <2>1 DEF ReadExtended, Return, NoModifierInFlight, Stored, slot, history
<1>8. CASE UNCHANGED vars
  BY <1>1, <1>8 DEF vars, controller, slot, consumer, history, NoModifierInFlight,
                    OneModifierInFlight, Completes, Stored
<1>. QED
  BY <1>2, <1>3, <1>4, <1>5, <1>6, <1>7, <1>8 DEF Next, Consume

LEMMA KeyboardAlways == Spec => []KeyboardInv
<1>1. KeyboardInv /\ [Next]_vars => KeyboardInv'
  BY TypesStep, OneByteStep, ModifierStep DEF KeyboardInv
<1>. QED  BY <1>1, KeyboardInvInit, PTL DEF Spec

-----------------------------------------------------------------------------
(* Whatever interrupts come between whichever instructions of ps2_kb_wfi,  *)
(* the last of any number of one-byte keys is returned (LastKeyReturned).  *)
THEOREM KeyboardLastKeyReturned == Spec => []LastKeyReturned
<1>1. KeyboardInv => LastKeyReturned
  BY DEF KeyboardInv, LastInFlight, LastKeyReturned, Quiet, Waiting
<1>. QED  BY <1>1, KeyboardAlways, PTL

(* The modifier state is the typist's (ModifiersFollow), for keys of every *)
(* kind, when each has been consumed before the next is typed.             *)
THEOREM KeyboardModifiersFollow == Spec => []ModifiersFollow
<1>1. KeyboardInv => ModifiersFollow
  <2>. SUFFICES ASSUME KeyboardInv PROVE ModifiersFollow
    OBVIOUS
  <2>1. TypeOK
    BY DEF KeyboardInv, Types
  <2>2. ASSUME Quiet, ~raced
        PROVE  KEYSTATE = down
    <3>1. NoModifierInFlight
      BY <2>2 DEF KeyboardInv, ModifierInv, OneModifierInFlight, Quiet, Waiting, Stored
    <3>. QED  BY <3>1 DEF NoModifierInFlight
  <2>. QED  BY <2>1, <2>2 DEF ModifiersFollow
<1>. QED  BY <1>1, KeyboardAlways, PTL
=============================================================================
