---------------------------- MODULE MouseProofs ----------------------------
(***************************************************************************)
(* Proofs about the mouse, as it is started and moved while the console    *)
(* runs: for every size of the screen, every kind of mouse and every       *)
(* movement.                                                               *)
(*                                                                         *)
(* mouse_init is followed line by line of its script: Booting says where   *)
(* it is, what the mouse has been told and which byte waits at each line.  *)
(* From the line that enables the interrupt on, every answer also raises   *)
(* one, which finds no handler yet.  Once the handler is installed, InStep *)
(* says that the bytes it has counted and those that wait are the packets  *)
(* that the mouse has begun.                                               *)
(***************************************************************************)
EXTENDS Console, SequenceTheorems, TLAPS

-----------------------------------------------------------------------------

\* A line of mouse_init's script.
Ops == [op : {"cmd", "data", "read", "unless", "install"}, v : Nat]

\* A sequence begins with t, or holds it from place o on.
Begins(s, t) == Len(t) <= Len(s) /\ \A i \in 1 .. Len(t) : s[i] = t[i]
Holds(s, o, t) == o + Len(t) <= Len(s) /\ \A i \in 1 .. Len(t) : s[o + i] = t[i]

\* Concatenation, by a name that the provers leave alone.
Cat(s, t) == s \o t

\* What a concatenation holds.
LEMMA Joined ==
  ASSUME NEW a \in Seq(Ops), NEW b \in Seq(Ops)
  PROVE  /\ a \o b \in Seq(Ops) /\ Len(a \o b) = Len(a) + Len(b)
         /\ Begins(a \o b, a) /\ Holds(a \o b, Len(a), b)
<1>1. PICK m, n \in Nat : m = Len(a) /\ n = Len(b)
  OBVIOUS
<1>2. PICK s : s = a \o b
  OBVIOUS
<1>3. /\ s \in Seq(Ops) /\ Len(s) = m + n
      /\ \A i \in 1 .. m + n : s[i] = IF i <= m THEN a[i] ELSE b[i - m]
  BY <1>1, <1>2, ConcatProperties
<1>4. ASSUME NEW i \in 1 .. n PROVE s[m + i] = b[i]
  <2>1. PICK j \in 1 .. m + n : j = m + i /\ ~(j <= m) /\ j - m = i
    BY m + i \in 1 .. m + n
  <2>. QED  BY <1>3, <2>1
<1>5. Begins(s, a)
  BY <1>1, <1>3 DEF Begins
<1>6. Holds(s, m, b)
  BY <1>1, <1>3, <1>4 DEF Holds
<1>. QED  BY <1>1, <1>2, <1>3, <1>5, <1>6

\* The same of Cat.
LEMMA Appended ==
  ASSUME NEW a \in Seq(Ops), NEW b \in Seq(Ops)
  PROVE  /\ Cat(a, b) \in Seq(Ops) /\ Len(Cat(a, b)) = Len(a) + Len(b)
         /\ Begins(Cat(a, b), a) /\ Holds(Cat(a, b), Len(a), b)
<1>1. /\ a \o b \in Seq(Ops) /\ Len(a \o b) = Len(a) + Len(b)
      /\ Begins(a \o b, a) /\ Holds(a \o b, Len(a), b)
  BY Joined
<1>. QED  BY <1>1 DEF Cat

\* What a sequence holds is held by every longer one.
LEMMA BeginsOn ==
  ASSUME NEW s \in Seq(Ops), NEW t \in Seq(Ops), NEW r, Begins(r, s), Begins(s, t),
         Len(r) \in Nat
  PROVE  Begins(r, t)
BY DEF Begins

\* The same of a sequence held further on, and of all of them.
LEMMA HoldsOn ==
  ASSUME NEW s \in Seq(Ops), NEW t \in Seq(Ops), NEW o \in Nat, NEW r,
         Begins(r, s), Holds(s, o, t), Len(r) \in Nat
  PROVE  Holds(r, o, t)
<1>1. PICK m, n, k \in Nat : m = Len(s) /\ n = Len(t) /\ k = Len(r)
  OBVIOUS
<1>2. ASSUME NEW i \in 1 .. n PROVE r[o + i] = t[i]
  <2>1. PICK j \in 1 .. m : j = o + i
    BY <1>1, o + i \in 1 .. m DEF Holds
  <2>. QED  BY <1>1, <2>1 DEF Begins, Holds
<1>. QED  BY <1>1, <1>2 DEF Begins, Holds

LEMMA HoldsAll ==
  ASSUME NEW s \in Seq(Ops), NEW r, Begins(r, s), Len(r) \in Nat
  PROVE  \A x \in Nat, t \in Seq(Ops) : Holds(s, x, t) => Holds(r, x, t)
BY HoldsOn

\* The parts of the script: the mouse port is enabled, the mouse asked what it
\* is, its rates set, the interrupt enabled, the mouse reset and made to
\* stream, its answers tested and the handler installed.
Enable == <<Cmd(\hD4), Read, Cmd(\hA8)>>
AskOps == mouse_write(\hF2)
Ask == <<Unless(1), Read>>
Rate200 == set_mouse_rate(200)
Rate100 == set_mouse_rate(100)
Rate80 == set_mouse_rate(80)
Reset == mouse_write(\hF6)
Stream == mouse_write(\hF4)
Configure == <<Read, Cmd(\h20), Read, Cmd(\h60), Data(Config)>>
Test == <<Read, Stop>>
Install == <<[op |-> "install", v |-> 0]>>

\* The lines that each part has.
LEMMA Blocks ==
  /\ AskId \in Seq(Ops) /\ Len(AskId) = 6
  /\ Rate200 \in Seq(Ops) /\ Len(Rate200) = 9
  /\ Rate100 \in Seq(Ops) /\ Len(Rate100) = 9
  /\ Rate80 \in Seq(Ops) /\ Len(Rate80) = 9
  /\ Reset \in Seq(Ops) /\ Len(Reset) = 4
  /\ Stream \in Seq(Ops) /\ Len(Stream) = 4
  /\ Enable \in Seq(Ops) /\ Len(Enable) = 3
  /\ Configure \in Seq(Ops) /\ Len(Configure) = 5
  /\ Test \in Seq(Ops) /\ Len(Test) = 2
  /\ Install \in Seq(Ops) /\ Len(Install) = 1
<1>1. /\ Read \in Ops /\ Stop \in Ops /\ Data(Config) \in Ops /\ Cmd(\h20) \in Ops /\ Cmd(\h60) \in Ops
      /\ Cmd(\hD4) \in Ops /\ Cmd(\hA8) \in Ops
      /\ Data(\hF3) \in Ops /\ Data(\hF2) \in Ops /\ Unless(4) \in Ops /\ Unless(1) \in Ops
      /\ [op |-> "install", v |-> 0] \in Ops
  BY DEF Ops, Read, Stop, Data, Cmd, Unless, Config
<1>2. \A d \in Nat : Data(d) \in Ops
  BY DEF Ops, Data
<1>3. \A d \in Nat : mouse_write(d) \in Seq(Ops) /\ Len(mouse_write(d)) = 4
  BY <1>1, <1>2 DEF mouse_write
<1>4. AskId \in Seq(Ops) /\ Len(AskId) = 6
  <2>1. Ask \in Seq(Ops) /\ Len(Ask) = 2
    BY <1>1 DEF Ask
  <2>2. AskOps \in Seq(Ops) /\ Len(AskOps) = 4
    BY <1>3 DEF AskOps
  <2>3. AskId = Cat(AskOps, Ask)
    BY DEF AskId, Ask, AskOps, Cat
  <2>4. Cat(AskOps, Ask) \in Seq(Ops) /\ Len(Cat(AskOps, Ask)) = Len(AskOps) + Len(Ask)
    BY <2>1, <2>2, Appended
  <2>. QED  BY <2>1, <2>2, <2>3, <2>4
<1>5. \A r \in Nat : set_mouse_rate(r) \in Seq(Ops) /\ Len(set_mouse_rate(r)) = 9
  BY <1>1, <1>2 DEF set_mouse_rate
<1>6. Enable \in Seq(Ops) /\ Len(Enable) = 3
  BY <1>1 DEF Enable
<1>7. Configure \in Seq(Ops) /\ Len(Configure) = 5
  BY <1>1 DEF Configure
<1>8. Test \in Seq(Ops) /\ Len(Test) = 2 /\ Install \in Seq(Ops) /\ Len(Install) = 1
  BY <1>1 DEF Test, Install
<1>9. /\ Rate200 \in Seq(Ops) /\ Len(Rate200) = 9
      /\ Rate100 \in Seq(Ops) /\ Len(Rate100) = 9
      /\ Rate80 \in Seq(Ops) /\ Len(Rate80) = 9
      /\ Reset \in Seq(Ops) /\ Len(Reset) = 4
      /\ Stream \in Seq(Ops) /\ Len(Stream) = 4
  BY <1>3, <1>5 DEF Rate200, Rate100, Rate80, Reset, Stream
<1>. QED  BY <1>4, <1>6, <1>7, <1>8, <1>9

\* Where the parts are in the script.
LEMMA ScriptLines ==
  /\ Len(Script) = 93
  /\ Holds(Script, 0, Enable)
  /\ Holds(Script, 3, AskId)
  /\ Holds(Script, 9, Rate200)
  /\ Holds(Script, 18, Rate100)
  /\ Holds(Script, 27, Rate80)
  /\ Holds(Script, 36, AskId)
  /\ Holds(Script, 42, Rate200)
  /\ Holds(Script, 51, Rate200)
  /\ Holds(Script, 60, Rate80)
  /\ Holds(Script, 69, AskId)
  /\ Holds(Script, 75, Configure)
  /\ Holds(Script, 80, Reset)
  /\ Holds(Script, 84, Test)
  /\ Holds(Script, 86, Stream)
  /\ Holds(Script, 90, Test)
  /\ Holds(Script, 92, Install)
<1>1. PICK s1 \in Seq(Ops) : s1 = Enable /\ Len(s1) = 3
  BY Blocks
<1>2. PICK s2 \in Seq(Ops) :
        /\ s2 = Cat(s1, AskId) /\ Len(s2) = 9
        /\ Begins(s2, s1) /\ Holds(s2, 3, AskId)
  <2>1. /\ Cat(s1, AskId) \in Seq(Ops) /\ Len(Cat(s1, AskId)) = Len(s1) + Len(AskId)
        /\ Begins(Cat(s1, AskId), s1) /\ Holds(Cat(s1, AskId), Len(s1), AskId)
    BY Blocks, Appended
  <2>. QED  BY <1>1, <2>1, Blocks
<1>3. PICK s3 \in Seq(Ops) :
        /\ s3 = Cat(s2, Rate200) /\ Len(s3) = 18
        /\ Begins(s3, s2) /\ Holds(s3, 9, Rate200)
  <2>1. /\ Cat(s2, Rate200) \in Seq(Ops) /\ Len(Cat(s2, Rate200)) = Len(s2) + Len(Rate200)
        /\ Begins(Cat(s2, Rate200), s2) /\ Holds(Cat(s2, Rate200), Len(s2), Rate200)
    BY Blocks, Appended
  <2>. QED  BY <1>2, <2>1, Blocks
<1>4. PICK s4 \in Seq(Ops) :
        /\ s4 = Cat(s3, Rate100) /\ Len(s4) = 27
        /\ Begins(s4, s3) /\ Holds(s4, 18, Rate100)
  <2>1. /\ Cat(s3, Rate100) \in Seq(Ops) /\ Len(Cat(s3, Rate100)) = Len(s3) + Len(Rate100)
        /\ Begins(Cat(s3, Rate100), s3) /\ Holds(Cat(s3, Rate100), Len(s3), Rate100)
    BY Blocks, Appended
  <2>. QED  BY <1>3, <2>1, Blocks
<1>5. PICK s5 \in Seq(Ops) :
        /\ s5 = Cat(s4, Rate80) /\ Len(s5) = 36
        /\ Begins(s5, s4) /\ Holds(s5, 27, Rate80)
  <2>1. /\ Cat(s4, Rate80) \in Seq(Ops) /\ Len(Cat(s4, Rate80)) = Len(s4) + Len(Rate80)
        /\ Begins(Cat(s4, Rate80), s4) /\ Holds(Cat(s4, Rate80), Len(s4), Rate80)
    BY Blocks, Appended
  <2>. QED  BY <1>4, <2>1, Blocks
<1>6. PICK s6 \in Seq(Ops) :
        /\ s6 = Cat(s5, AskId) /\ Len(s6) = 42
        /\ Begins(s6, s5) /\ Holds(s6, 36, AskId)
  <2>1. /\ Cat(s5, AskId) \in Seq(Ops) /\ Len(Cat(s5, AskId)) = Len(s5) + Len(AskId)
        /\ Begins(Cat(s5, AskId), s5) /\ Holds(Cat(s5, AskId), Len(s5), AskId)
    BY Blocks, Appended
  <2>. QED  BY <1>5, <2>1, Blocks
<1>7. PICK s7 \in Seq(Ops) :
        /\ s7 = Cat(s6, Rate200) /\ Len(s7) = 51
        /\ Begins(s7, s6) /\ Holds(s7, 42, Rate200)
  <2>1. /\ Cat(s6, Rate200) \in Seq(Ops) /\ Len(Cat(s6, Rate200)) = Len(s6) + Len(Rate200)
        /\ Begins(Cat(s6, Rate200), s6) /\ Holds(Cat(s6, Rate200), Len(s6), Rate200)
    BY Blocks, Appended
  <2>. QED  BY <1>6, <2>1, Blocks
<1>8. PICK s8 \in Seq(Ops) :
        /\ s8 = Cat(s7, Rate200) /\ Len(s8) = 60
        /\ Begins(s8, s7) /\ Holds(s8, 51, Rate200)
  <2>1. /\ Cat(s7, Rate200) \in Seq(Ops) /\ Len(Cat(s7, Rate200)) = Len(s7) + Len(Rate200)
        /\ Begins(Cat(s7, Rate200), s7) /\ Holds(Cat(s7, Rate200), Len(s7), Rate200)
    BY Blocks, Appended
  <2>. QED  BY <1>7, <2>1, Blocks
<1>9. PICK s9 \in Seq(Ops) :
        /\ s9 = Cat(s8, Rate80) /\ Len(s9) = 69
        /\ Begins(s9, s8) /\ Holds(s9, 60, Rate80)
  <2>1. /\ Cat(s8, Rate80) \in Seq(Ops) /\ Len(Cat(s8, Rate80)) = Len(s8) + Len(Rate80)
        /\ Begins(Cat(s8, Rate80), s8) /\ Holds(Cat(s8, Rate80), Len(s8), Rate80)
    BY Blocks, Appended
  <2>. QED  BY <1>8, <2>1, Blocks
<1>10. PICK s10 \in Seq(Ops) :
        /\ s10 = Cat(s9, AskId) /\ Len(s10) = 75
        /\ Begins(s10, s9) /\ Holds(s10, 69, AskId)
  <2>1. /\ Cat(s9, AskId) \in Seq(Ops) /\ Len(Cat(s9, AskId)) = Len(s9) + Len(AskId)
        /\ Begins(Cat(s9, AskId), s9) /\ Holds(Cat(s9, AskId), Len(s9), AskId)
    BY Blocks, Appended
  <2>. QED  BY <1>9, <2>1, Blocks
<1>11. PICK s11 \in Seq(Ops) :
        /\ s11 = Cat(s10, Configure) /\ Len(s11) = 80
        /\ Begins(s11, s10) /\ Holds(s11, 75, Configure)
  <2>1. /\ Cat(s10, Configure) \in Seq(Ops) /\ Len(Cat(s10, Configure)) = Len(s10) + Len(Configure)
        /\ Begins(Cat(s10, Configure), s10) /\ Holds(Cat(s10, Configure), Len(s10), Configure)
    BY Blocks, Appended
  <2>. QED  BY <1>10, <2>1, Blocks
<1>12. PICK s12 \in Seq(Ops) :
        /\ s12 = Cat(s11, Reset) /\ Len(s12) = 84
        /\ Begins(s12, s11) /\ Holds(s12, 80, Reset)
  <2>1. /\ Cat(s11, Reset) \in Seq(Ops) /\ Len(Cat(s11, Reset)) = Len(s11) + Len(Reset)
        /\ Begins(Cat(s11, Reset), s11) /\ Holds(Cat(s11, Reset), Len(s11), Reset)
    BY Blocks, Appended
  <2>. QED  BY <1>11, <2>1, Blocks
<1>13. PICK s13 \in Seq(Ops) :
        /\ s13 = Cat(s12, Test) /\ Len(s13) = 86
        /\ Begins(s13, s12) /\ Holds(s13, 84, Test)
  <2>1. /\ Cat(s12, Test) \in Seq(Ops) /\ Len(Cat(s12, Test)) = Len(s12) + Len(Test)
        /\ Begins(Cat(s12, Test), s12) /\ Holds(Cat(s12, Test), Len(s12), Test)
    BY Blocks, Appended
  <2>. QED  BY <1>12, <2>1, Blocks
<1>14. PICK s14 \in Seq(Ops) :
        /\ s14 = Cat(s13, Stream) /\ Len(s14) = 90
        /\ Begins(s14, s13) /\ Holds(s14, 86, Stream)
  <2>1. /\ Cat(s13, Stream) \in Seq(Ops) /\ Len(Cat(s13, Stream)) = Len(s13) + Len(Stream)
        /\ Begins(Cat(s13, Stream), s13) /\ Holds(Cat(s13, Stream), Len(s13), Stream)
    BY Blocks, Appended
  <2>. QED  BY <1>13, <2>1, Blocks
<1>15. PICK s15 \in Seq(Ops) :
        /\ s15 = Cat(s14, Test) /\ Len(s15) = 92
        /\ Begins(s15, s14) /\ Holds(s15, 90, Test)
  <2>1. /\ Cat(s14, Test) \in Seq(Ops) /\ Len(Cat(s14, Test)) = Len(s14) + Len(Test)
        /\ Begins(Cat(s14, Test), s14) /\ Holds(Cat(s14, Test), Len(s14), Test)
    BY Blocks, Appended
  <2>. QED  BY <1>14, <2>1, Blocks
<1>16. PICK s16 \in Seq(Ops) :
        /\ s16 = Cat(s15, Install) /\ Len(s16) = 93
        /\ Begins(s16, s15) /\ Holds(s16, 92, Install)
  <2>1. /\ Cat(s15, Install) \in Seq(Ops) /\ Len(Cat(s15, Install)) = Len(s15) + Len(Install)
        /\ Begins(Cat(s15, Install), s15) /\ Holds(Cat(s15, Install), Len(s15), Install)
    BY Blocks, Appended
  <2>. QED  BY <1>15, <2>1, Blocks
<1>19. Script =
          Cat(Cat(Cat(Cat(Cat(Cat(Cat(Cat(Cat(Cat(Cat(Cat(Cat(Cat(Cat(Enable, AskId),
            Rate200), Rate100), Rate80), AskId), Rate200), Rate200), Rate80), AskId),
            Configure), Reset), Test), Stream), Test), Install)
  BY DEF Script, Enable, Configure, Test, Install, Cat, Rate200, Rate100, Rate80, Reset,
     Stream
<1>20. Script = s16
  BY <1>19, <1>1, <1>2, <1>3, <1>4, <1>5, <1>6, <1>7, <1>8, <1>9, <1>10, <1>11, <1>12,
     <1>13, <1>14, <1>15, <1>16
<1>21. Begins(s16, s15)
  BY <1>16
<1>22. Begins(s16, s14)
  BY <1>15, <1>21, BeginsOn
<1>23. Begins(s16, s13)
  BY <1>14, <1>22, BeginsOn
<1>24. Begins(s16, s12)
  BY <1>13, <1>23, BeginsOn
<1>25. Begins(s16, s11)
  BY <1>12, <1>24, BeginsOn
<1>26. Begins(s16, s10)
  BY <1>11, <1>25, BeginsOn
<1>27. Begins(s16, s9)
  BY <1>10, <1>26, BeginsOn
<1>28. Begins(s16, s8)
  BY <1>9, <1>27, BeginsOn
<1>29. Begins(s16, s7)
  BY <1>8, <1>28, BeginsOn
<1>30. Begins(s16, s6)
  BY <1>7, <1>29, BeginsOn
<1>31. Begins(s16, s5)
  BY <1>6, <1>30, BeginsOn
<1>32. Begins(s16, s4)
  BY <1>5, <1>31, BeginsOn
<1>33. Begins(s16, s3)
  BY <1>4, <1>32, BeginsOn
<1>34. Begins(s16, s2)
  BY <1>3, <1>33, BeginsOn
<1>35. Begins(s16, s1)
  BY <1>2, <1>34, BeginsOn
<1>36. Len(s16) \in Nat
  BY <1>16
<1>41. Holds(s16, 0, Enable)
  BY <1>1, <1>35 DEF Begins, Holds
<1>42. Holds(s16, 3, AskId)
  <2>1. AskId \in Seq(Ops) /\ 3 \in Nat
    BY Blocks
  <2>2. PICK o \in Nat : o = 3
    BY <2>1
  <2>3. Holds(s2, o, AskId)
    BY <1>2, <2>2
  <2>4. \A x \in Nat, t \in Seq(Ops) : Holds(s2, x, t) => Holds(s16, x, t)
    BY <1>36, <1>34, HoldsAll
  <2>5. Holds(s16, o, AskId)
    BY <2>1, <2>3, <2>4
  <2>. QED  BY <2>2, <2>5
<1>43. Holds(s16, 9, Rate200)
  <2>1. Rate200 \in Seq(Ops) /\ 9 \in Nat
    BY Blocks
  <2>2. PICK o \in Nat : o = 9
    BY <2>1
  <2>3. Holds(s3, o, Rate200)
    BY <1>3, <2>2
  <2>4. \A x \in Nat, t \in Seq(Ops) : Holds(s3, x, t) => Holds(s16, x, t)
    BY <1>36, <1>33, HoldsAll
  <2>5. Holds(s16, o, Rate200)
    BY <2>1, <2>3, <2>4
  <2>. QED  BY <2>2, <2>5
<1>44. Holds(s16, 18, Rate100)
  <2>1. Rate100 \in Seq(Ops) /\ 18 \in Nat
    BY Blocks
  <2>2. PICK o \in Nat : o = 18
    BY <2>1
  <2>3. Holds(s4, o, Rate100)
    BY <1>4, <2>2
  <2>4. \A x \in Nat, t \in Seq(Ops) : Holds(s4, x, t) => Holds(s16, x, t)
    BY <1>36, <1>32, HoldsAll
  <2>5. Holds(s16, o, Rate100)
    BY <2>1, <2>3, <2>4
  <2>. QED  BY <2>2, <2>5
<1>45. Holds(s16, 27, Rate80)
  <2>1. Rate80 \in Seq(Ops) /\ 27 \in Nat
    BY Blocks
  <2>2. PICK o \in Nat : o = 27
    BY <2>1
  <2>3. Holds(s5, o, Rate80)
    BY <1>5, <2>2
  <2>4. \A x \in Nat, t \in Seq(Ops) : Holds(s5, x, t) => Holds(s16, x, t)
    BY <1>36, <1>31, HoldsAll
  <2>5. Holds(s16, o, Rate80)
    BY <2>1, <2>3, <2>4
  <2>. QED  BY <2>2, <2>5
<1>46. Holds(s16, 36, AskId)
  <2>1. AskId \in Seq(Ops) /\ 36 \in Nat
    BY Blocks
  <2>2. PICK o \in Nat : o = 36
    BY <2>1
  <2>3. Holds(s6, o, AskId)
    BY <1>6, <2>2
  <2>4. \A x \in Nat, t \in Seq(Ops) : Holds(s6, x, t) => Holds(s16, x, t)
    BY <1>36, <1>30, HoldsAll
  <2>5. Holds(s16, o, AskId)
    BY <2>1, <2>3, <2>4
  <2>. QED  BY <2>2, <2>5
<1>47. Holds(s16, 42, Rate200)
  <2>1. Rate200 \in Seq(Ops) /\ 42 \in Nat
    BY Blocks
  <2>2. PICK o \in Nat : o = 42
    BY <2>1
  <2>3. Holds(s7, o, Rate200)
    BY <1>7, <2>2
  <2>4. \A x \in Nat, t \in Seq(Ops) : Holds(s7, x, t) => Holds(s16, x, t)
    BY <1>36, <1>29, HoldsAll
  <2>5. Holds(s16, o, Rate200)
    BY <2>1, <2>3, <2>4
  <2>. QED  BY <2>2, <2>5
<1>48. Holds(s16, 51, Rate200)
  <2>1. Rate200 \in Seq(Ops) /\ 51 \in Nat
    BY Blocks
  <2>2. PICK o \in Nat : o = 51
    BY <2>1
  <2>3. Holds(s8, o, Rate200)
    BY <1>8, <2>2
  <2>4. \A x \in Nat, t \in Seq(Ops) : Holds(s8, x, t) => Holds(s16, x, t)
    BY <1>36, <1>28, HoldsAll
  <2>5. Holds(s16, o, Rate200)
    BY <2>1, <2>3, <2>4
  <2>. QED  BY <2>2, <2>5
<1>49. Holds(s16, 60, Rate80)
  <2>1. Rate80 \in Seq(Ops) /\ 60 \in Nat
    BY Blocks
  <2>2. PICK o \in Nat : o = 60
    BY <2>1
  <2>3. Holds(s9, o, Rate80)
    BY <1>9, <2>2
  <2>4. \A x \in Nat, t \in Seq(Ops) : Holds(s9, x, t) => Holds(s16, x, t)
    BY <1>36, <1>27, HoldsAll
  <2>5. Holds(s16, o, Rate80)
    BY <2>1, <2>3, <2>4
  <2>. QED  BY <2>2, <2>5
<1>50. Holds(s16, 69, AskId)
  <2>1. AskId \in Seq(Ops) /\ 69 \in Nat
    BY Blocks
  <2>2. PICK o \in Nat : o = 69
    BY <2>1
  <2>3. Holds(s10, o, AskId)
    BY <1>10, <2>2
  <2>4. \A x \in Nat, t \in Seq(Ops) : Holds(s10, x, t) => Holds(s16, x, t)
    BY <1>36, <1>26, HoldsAll
  <2>5. Holds(s16, o, AskId)
    BY <2>1, <2>3, <2>4
  <2>. QED  BY <2>2, <2>5
<1>51. Holds(s16, 75, Configure)
  <2>1. Configure \in Seq(Ops) /\ 75 \in Nat
    BY Blocks
  <2>2. PICK o \in Nat : o = 75
    BY <2>1
  <2>3. Holds(s11, o, Configure)
    BY <1>11, <2>2
  <2>4. \A x \in Nat, t \in Seq(Ops) : Holds(s11, x, t) => Holds(s16, x, t)
    BY <1>36, <1>25, HoldsAll
  <2>5. Holds(s16, o, Configure)
    BY <2>1, <2>3, <2>4
  <2>. QED  BY <2>2, <2>5
<1>52. Holds(s16, 80, Reset)
  <2>1. Reset \in Seq(Ops) /\ 80 \in Nat
    BY Blocks
  <2>2. PICK o \in Nat : o = 80
    BY <2>1
  <2>3. Holds(s12, o, Reset)
    BY <1>12, <2>2
  <2>4. \A x \in Nat, t \in Seq(Ops) : Holds(s12, x, t) => Holds(s16, x, t)
    BY <1>36, <1>24, HoldsAll
  <2>5. Holds(s16, o, Reset)
    BY <2>1, <2>3, <2>4
  <2>. QED  BY <2>2, <2>5
<1>53. Holds(s16, 84, Test)
  <2>1. Test \in Seq(Ops) /\ 84 \in Nat
    BY Blocks
  <2>2. PICK o \in Nat : o = 84
    BY <2>1
  <2>3. Holds(s13, o, Test)
    BY <1>13, <2>2
  <2>4. \A x \in Nat, t \in Seq(Ops) : Holds(s13, x, t) => Holds(s16, x, t)
    BY <1>36, <1>23, HoldsAll
  <2>5. Holds(s16, o, Test)
    BY <2>1, <2>3, <2>4
  <2>. QED  BY <2>2, <2>5
<1>54. Holds(s16, 86, Stream)
  <2>1. Stream \in Seq(Ops) /\ 86 \in Nat
    BY Blocks
  <2>2. PICK o \in Nat : o = 86
    BY <2>1
  <2>3. Holds(s14, o, Stream)
    BY <1>14, <2>2
  <2>4. \A x \in Nat, t \in Seq(Ops) : Holds(s14, x, t) => Holds(s16, x, t)
    BY <1>36, <1>22, HoldsAll
  <2>5. Holds(s16, o, Stream)
    BY <2>1, <2>3, <2>4
  <2>. QED  BY <2>2, <2>5
<1>55. Holds(s16, 90, Test)
  <2>1. Test \in Seq(Ops) /\ 90 \in Nat
    BY Blocks
  <2>2. PICK o \in Nat : o = 90
    BY <2>1
  <2>3. Holds(s15, o, Test)
    BY <1>15, <2>2
  <2>4. \A x \in Nat, t \in Seq(Ops) : Holds(s15, x, t) => Holds(s16, x, t)
    BY <1>36, <1>21, HoldsAll
  <2>5. Holds(s16, o, Test)
    BY <2>1, <2>3, <2>4
  <2>. QED  BY <2>2, <2>5
<1>56. Holds(s16, 92, Install)
  BY <1>16
<1>. QED
  BY <1>20, <1>16, <1>41, <1>42, <1>43, <1>44, <1>45, <1>46, <1>47, <1>48, <1>49, <1>50,
     <1>51, <1>52, <1>53, <1>54, <1>55, <1>56
-----------------------------------------------------------------------------

\* A line of the script is executed: a command to the controller, ...
LEMMA CmdLine ==
  ASSUME NEW v, InitStep, Script[mline] = Cmd(v)
  PROVE  /\ mline' = mline + 1 /\ (installed = FALSE => installed' = FALSE)
         /\ SendCommand(v)
         /\ UNCHANGED <<handler, inflight, disturbed>>
<1>1. Script[mline].op = "cmd" /\ Script[mline].v = v
  BY DEF Cmd
<1>2. Script[mline].op # "unless" /\ Script[mline].op # "install"
  BY <1>1
<1>3. mline' = mline + 1 /\ (installed = FALSE => installed' = FALSE)
  BY <1>2 DEF InitStep
<1>. QED  BY <1>1, <1>3 DEF InitStep

\* ... a byte of data, ...
LEMMA DataLine ==
  ASSUME NEW v, InitStep, Script[mline] = Data(v)
  PROVE  /\ mline' = mline + 1 /\ (installed = FALSE => installed' = FALSE)
         /\ SendData(v)
         /\ UNCHANGED <<handler, inflight, disturbed>>
<1>1. Script[mline].op = "data" /\ Script[mline].v = v
  BY DEF Data
<1>2. Script[mline].op # "unless" /\ Script[mline].op # "install"
  BY <1>1
<1>3. mline' = mline + 1 /\ (installed = FALSE => installed' = FALSE)
  BY <1>2 DEF InitStep
<1>. QED  BY <1>1, <1>3 DEF InitStep

\* ... a read of the port, ...
LEMMA ReadLine ==
  ASSUME InitStep, Script[mline] = Read
  PROVE  /\ mline' = mline + 1 /\ (installed = FALSE => installed' = FALSE)
         /\ Taken /\ status' = port' /\ UNCHANGED <<dev, ctl, irq_on>>
         /\ UNCHANGED <<handler, inflight, disturbed>>
<1>1. Script[mline].op = "read"
  BY DEF Read
<1>2. Script[mline].op # "unless" /\ Script[mline].op # "install"
  BY <1>1
<1>3. mline' = mline + 1 /\ (installed = FALSE => installed' = FALSE)
  BY <1>2 DEF InitStep
<1>. QED  BY <1>1, <1>3 DEF InitStep

\* ... a test that finds the acknowledgement, ...
LEMMA UnlessLine ==
  ASSUME NEW n, InitStep, Script[mline] = Unless(n), status = ACK
  PROVE  /\ mline' = mline + 1 /\ (installed = FALSE => installed' = FALSE)
         /\ UNCHANGED <<controller, status>>
         /\ UNCHANGED <<handler, inflight, disturbed>>
<1>1. Script[mline].op = "unless"
  BY DEF Unless
<1>2. mline' = mline + 1 /\ (installed = FALSE => installed' = FALSE)
  BY <1>1 DEF InitStep
<1>. QED  BY <1>1, <1>2 DEF InitStep

\* ... and the handler's installation.
LEMMA InstallLine ==
  ASSUME InitStep, Script[mline] = [op |-> "install", v |-> 0]
  PROVE  /\ mline' = mline + 1 /\ installed' = TRUE
         /\ UNCHANGED <<controller, status>>
         /\ UNCHANGED <<handler, inflight, disturbed>>
<1>1. Script[mline].op = "install"
  OBVIOUS
<1>. QED  BY <1>1 DEF InitStep

\* An answer that comes when no byte waits.
LEMMA OfferEmpty ==
  ASSUME NEW bytes \in Seq(Int), Offer(bytes), out = <<>>
  PROVE  out' = bytes /\ (irq_on = FALSE /\ irq12 = FALSE => irq12' = FALSE)
<1>1. out' = bytes
  BY DEF Offer
<1>2. irq12' = (irq12 \/ (irq_on /\ out = <<>>))
  BY DEF Offer
<1>. QED  BY <1>1, <1>2

\* A read when no byte waits, one or two.
LEMMA TakenNone ==
  ASSUME Taken, out = <<>>
  PROVE  port' = port /\ out' = <<>> /\ irq12' = FALSE
<1>1. irq12' = (irq_on /\ Len(out) > 1)
  BY DEF Taken
<1>2. ~(Len(out) > 1)
  OBVIOUS
<1>3. irq12' = FALSE
  BY <1>1, <1>2, Zenon
<1>. QED  BY <1>3 DEF Taken

LEMMA TakenOne ==
  ASSUME NEW a, Taken, out = <<a>>
  PROVE  port' = a /\ out' = <<>> /\ irq12' = FALSE
<1>1. irq12' = (irq_on /\ Len(out) > 1)
  BY DEF Taken
<1>2. ~(Len(out) > 1) /\ out # <<>> /\ Head(out) = a /\ Tail(out) = <<>>
  OBVIOUS
<1>3. irq12' = FALSE
  BY <1>1, <1>2, Zenon
<1>. QED  BY <1>2, <1>3 DEF Taken

LEMMA TakenTwo ==
  ASSUME NEW a, NEW b, Taken, out = <<a, b>>, irq_on = FALSE
  PROVE  port' = a /\ out' = <<b>> /\ irq12' = FALSE
<1>1. irq12' = (irq_on /\ Len(out) > 1)
  BY DEF Taken
<1>2. out # <<>> /\ Head(out) = a /\ Tail(out) = <<b>>
  OBVIOUS
<1>3. irq12' = FALSE
  BY <1>1, Zenon
<1>. QED  BY <1>2, <1>3 DEF Taken
-----------------------------------------------------------------------------

\* What the controller and the mouse are at.
Bus(d, c, q) == dev = d /\ ctl = c /\ out = q

\* A step to the next line that leaves the rest alone.
NextLine ==
  /\ mline' = mline + 1
  /\ installed = FALSE => installed' = FALSE
  /\ UNCHANGED <<handler, inflight, disturbed>>

\* No interrupt is raised before mouse_init enables it.
Quiet0 == irq_on = FALSE /\ irq12 = FALSE

\* The steps of mouse_init, from the line they are on.
LEMMA ToMouse ==
  ASSUME NEW d, NEW c, NEW q, InitStep, Script[mline] = Cmd(\hD4), Bus(d, c, q)
  PROVE  NextLine /\ Bus(d, "mouse", q)' /\ UNCHANGED <<irq_on, irq12, port, status>>
<1>1. NextLine /\ SendCommand(\hD4)
  BY CmdLine DEF NextLine
<1>. QED  BY <1>1 DEF SendCommand, Bus

LEMMA ToKeyboard ==
  ASSUME NEW d, NEW c, NEW q, InitStep, Script[mline] = Cmd(\hA8), Bus(d, c, q)
  PROVE  NextLine /\ Bus(d, "keyboard", q)' /\ UNCHANGED <<irq_on, irq12, port, status>>
<1>1. NextLine /\ SendCommand(\hA8)
  BY CmdLine DEF NextLine
<1>. QED  BY <1>1 DEF SendCommand, Bus

LEMMA ToConfig ==
  ASSUME NEW d, NEW c, NEW q, InitStep, Script[mline] = Cmd(\h60), Bus(d, c, q)
  PROVE  NextLine /\ Bus(d, "config", q)' /\ UNCHANGED <<irq_on, irq12, port, status>>
<1>1. NextLine /\ SendCommand(\h60)
  BY CmdLine DEF NextLine
<1>. QED  BY <1>1 DEF SendCommand, Bus

LEMMA AsksConfig ==
  ASSUME NEW d, NEW c, InitStep, Script[mline] = Cmd(\h20), Bus(d, c, <<>>), Quiet0
  PROVE  NextLine /\ Bus(d, "keyboard", <<Config>>)' /\ Quiet0'
<1>1. NextLine /\ SendCommand(\h20)
  BY CmdLine DEF NextLine
<1>2. ctl' = "keyboard" /\ Offer(<<Config>>) /\ UNCHANGED <<dev, irq_on>>
  BY <1>1 DEF SendCommand
<1>3. <<Config>> \in Seq(Int)
  BY DEF Config
<1>4. PICK s \in Seq(Int) : s = <<Config>>
  BY <1>3
<1>5. out' = s /\ irq12' = FALSE
  BY <1>2, <1>4, OfferEmpty DEF Bus, Quiet0
<1>. QED  BY <1>1, <1>2, <1>4, <1>5 DEF Bus, Quiet0

LEMMA WritesConfig ==
  ASSUME NEW d, NEW q, InitStep, Script[mline] = Data(Config), Bus(d, "config", q)
  PROVE  NextLine /\ Bus(d, "keyboard", q)' /\ irq_on' = TRUE /\ irq12' = irq12
<1>1. NextLine /\ SendData(Config)
  BY DataLine DEF NextLine
<1>2. ctl' = "keyboard" /\ irq_on' = (irq_on \/ ctl = "config") /\ ctl = "config"
      /\ UNCHANGED <<dev, out, irq12>>
  BY <1>1 DEF SendData, Bus
<1>. QED  BY <1>1, <1>2 DEF Bus

LEMMA ReadsNone ==
  ASSUME NEW d, NEW c, InitStep, Script[mline] = Read, Bus(d, c, <<>>)
  PROVE  NextLine /\ Bus(d, c, <<>>)' /\ irq12' = FALSE /\ irq_on' = irq_on
         /\ port' = port /\ status' = port
<1>1. NextLine /\ Taken /\ status' = port' /\ UNCHANGED <<dev, ctl, irq_on>>
  BY ReadLine DEF NextLine
<1>. QED  BY <1>1, TakenNone DEF Bus

LEMMA ReadsOne ==
  ASSUME NEW d, NEW c, NEW a, InitStep, Script[mline] = Read, Bus(d, c, <<a>>)
  PROVE  NextLine /\ Bus(d, c, <<>>)' /\ irq12' = FALSE /\ irq_on' = irq_on
         /\ port' = a /\ status' = a
<1>1. NextLine /\ Taken /\ status' = port' /\ UNCHANGED <<dev, ctl, irq_on>>
  BY ReadLine DEF NextLine
<1>2. out = <<a>>
  BY DEF Bus
<1>. QED  BY <1>1, <1>2, TakenOne DEF Bus

LEMMA ReadsTwo ==
  ASSUME NEW d, NEW c, NEW a, NEW b, InitStep, Script[mline] = Read, Bus(d, c, <<a, b>>),
         Quiet0
  PROVE  NextLine /\ Bus(d, c, <<b>>)' /\ Quiet0' /\ port' = a /\ status' = a
<1>1. NextLine /\ Taken /\ status' = port' /\ UNCHANGED <<dev, ctl, irq_on>>
  BY ReadLine DEF NextLine
<1>2. out = <<a, b>> /\ irq_on = FALSE
  BY DEF Bus, Quiet0
<1>. QED  BY <1>1, <1>2, TakenTwo DEF Bus, Quiet0

LEMMA GoesOn ==
  ASSUME NEW d, NEW c, NEW q, NEW n, InitStep, Script[mline] = Unless(n), status = ACK,
         Bus(d, c, q)
  PROVE  NextLine /\ Bus(d, c, q)' /\ UNCHANGED <<irq_on, irq12, port, status>>
<1>1. NextLine /\ UNCHANGED <<controller, status>>
  BY UnlessLine DEF NextLine
<1>. QED  BY <1>1 DEF controller, Bus

LEMMA Sends ==
  ASSUME NEW d, NEW v, NEW e, NEW q \in Seq(Int), InitStep, Script[mline] = Data(v),
         Bus(d, "mouse", <<>>), Answer(d, v) = [dev |-> e, bytes |-> q]
  PROVE  NextLine /\ Bus(e, "keyboard", q)'
         /\ (irq_on = TRUE => irq_on' = TRUE)
         /\ (Quiet0 => Quiet0')
<1>1. NextLine /\ SendData(v)
  BY DataLine DEF NextLine
<1>2. ctl' = "keyboard" /\ irq_on' = (irq_on \/ ctl = "config") /\ ctl = "mouse" /\ dev = d
      /\ out = <<>>
  BY <1>1 DEF SendData, Bus
<1>3. dev' = Answer(d, v).dev /\ Offer(Answer(d, v).bytes)
  BY <1>1, <1>2 DEF SendData
<1>4. dev' = e /\ Offer(q)
  BY <1>3
<1>5. out' = q /\ (irq_on = FALSE /\ irq12 = FALSE => irq12' = FALSE)
  BY <1>2, <1>4, OfferEmpty
<1>6. (irq_on = TRUE => irq_on' = TRUE) /\ (irq_on = FALSE => irq_on' = FALSE)
  BY <1>2
<1>. QED  BY <1>1, <1>2, <1>4, <1>5, <1>6 DEF Bus, Quiet0
-----------------------------------------------------------------------------
\* The mouse as mouse_init leaves it, and how it answers.
Devices == [best : {0, 3, 4}, id : {0, 3, 4}, rates : Seq(Nat), want : {"command"},
            streaming : BOOLEAN]

Wanting(d) == [d EXCEPT !.want = "rate"]

\* The mouse after its rate is set to r.
Rated(d, r) ==
  LET rates == LastThree(Append(d.rates, r))
  IN [d EXCEPT !.rates = rates, !.id = Identity(d, rates)]

\* What the mouse answers to the bytes that mouse_init sends.
LEMMA Answers ==
  ASSUME NEW d \in Devices
  PROVE  /\ Answer(d, \hF2) = [dev |-> d, bytes |-> <<ACK, d.id>>]
         /\ Answer(d, \hF3) = [dev |-> Wanting(d), bytes |-> <<ACK>>]
         /\ Answer(d, \hF4) = [dev |-> [d EXCEPT !.streaming = TRUE], bytes |-> <<ACK>>]
         /\ Answer(d, \hF6) = [dev |-> [d EXCEPT !.streaming = FALSE], bytes |-> <<ACK>>]
BY DEF Answer, Devices, Wanting

\* The mouse remembers rates, and stays a mouse.
LEMMA LastThreeType ==
  ASSUME NEW s \in Seq(Nat), NEW r \in Nat
  PROVE  LastThree(Append(s, r)) \in Seq(Nat)
BY DEF LastThree

LEMMA RatedType ==
  ASSUME NEW d \in Devices, NEW r \in Nat
  PROVE  Rated(d, r) \in Devices
<1>1. PICK rates \in Seq(Nat) : rates = LastThree(Append(d.rates, r))
  BY LastThreeType DEF Devices
<1>2. Identity(d, rates) \in {0, 3, 4}
  BY DEF Identity, Devices
<1>3. Rated(d, r) = [d EXCEPT !.rates = rates, !.id = Identity(d, rates)]
  BY <1>1 DEF Rated
<1>. QED  BY <1>2, <1>3 DEF Devices

\* What it answers to a rate.
LEMMA AnswersRate ==
  ASSUME NEW d \in Devices, NEW r \in Nat
  PROVE  Answer(Wanting(d), r) = [dev |-> Rated(d, r), bytes |-> <<ACK>>]
<1>1. PICK rates \in Seq(Nat) : rates = LastThree(Append(d.rates, r))
  BY LastThreeType DEF Devices
<1>2. Wanting(d).want = "rate" /\ Wanting(d).rates = d.rates
      /\ Wanting(d).best = d.best /\ Wanting(d).id = d.id
  BY DEF Wanting, Devices
<1>3. Identity(Wanting(d), rates) = Identity(d, rates)
  BY <1>2 DEF Identity
<1>4. Rated(d, r) = [d EXCEPT !.rates = rates, !.id = Identity(d, rates)]
  BY <1>1 DEF Rated
<1>5. [Wanting(d) EXCEPT !.want = "command", !.rates = rates, !.id = Identity(d, rates)]
        = Rated(d, r)
  BY <1>4 DEF Wanting, Devices
<1>6. Answer(Wanting(d), r)
        = [dev |-> [Wanting(d) EXCEPT !.want = "command", !.rates = rates,
                                      !.id = Identity(d, rates)],
           bytes |-> <<ACK>>]
  BY <1>1, <1>2, <1>3 DEF Answer
<1>. QED  BY <1>5, <1>6
-----------------------------------------------------------------------------

\* What is true at line j of a part of the script, and at the line after it.
EnableState(d, j) ==
  \/ j = 1 /\ Bus(d, "keyboard", <<>>)
  \/ j \in {2, 3} /\ Bus(d, "mouse", <<>>)
  \/ j = 4 /\ Bus(d, "keyboard", <<>>)

AskState(d, j) ==
  \/ j \in {1, 7} /\ Bus(d, "keyboard", <<>>)
  \/ j \in {2, 3} /\ Bus(d, "mouse", <<>>)
  \/ j = 4 /\ Bus(d, "keyboard", <<ACK, d.id>>)
  \/ j = 5 /\ Bus(d, "keyboard", <<d.id>>) /\ status = ACK
  \/ j = 6 /\ Bus(d, "keyboard", <<d.id>>)

RateState(d, r, j) ==
  \/ j = 1 /\ Bus(d, "keyboard", <<>>)
  \/ j \in {2, 3} /\ Bus(d, "mouse", <<>>)
  \/ j = 4 /\ Bus(Wanting(d), "keyboard", <<ACK>>)
  \/ j = 5 /\ Bus(Wanting(d), "keyboard", <<>>) /\ status = ACK
  \/ j = 6 /\ Bus(Wanting(d), "keyboard", <<>>)
  \/ j \in {7, 8} /\ Bus(Wanting(d), "mouse", <<>>)
  \/ j = 9 /\ Bus(Rated(d, r), "keyboard", <<ACK>>)
  \/ j = 10 /\ Bus(Rated(d, r), "keyboard", <<>>)

ConfigState(d, j) ==
  /\ j <= 5 => Quiet0
  /\ \/ j \in {1, 2} /\ Bus(d, "keyboard", <<>>)
     \/ j = 3 /\ Bus(d, "keyboard", <<Config>>)
     \/ j = 4 /\ Bus(d, "keyboard", <<>>)
     \/ j = 5 /\ Bus(d, "config", <<>>)
     \/ j = 6 /\ Bus(d, "keyboard", <<>>) /\ irq_on = TRUE /\ irq12 = FALSE

WriteState(d, e, j) ==
  /\ irq_on = TRUE
  /\ j # 4 => irq12 = FALSE
  /\ \/ j = 1 /\ Bus(d, "keyboard", <<>>)
     \/ j \in {2, 3} /\ Bus(d, "mouse", <<>>)
     \/ j = 4 /\ Bus(e, "keyboard", <<ACK>>)
     \/ j = 5 /\ Bus(e, "keyboard", <<>>) /\ port = ACK

TestState(d, j) ==
  /\ irq_on = TRUE /\ irq12 = FALSE
  /\ port = ACK /\ Bus(d, "keyboard", <<>>)
  /\ j = 2 => status = ACK

\* Answers are sequences of bytes.
LEMMA AnAnswer == \A a \in Int, b \in Int : <<a>> \in Seq(Int) /\ <<a, b>> \in Seq(Int)
OBVIOUS
LEMMA AckInt == ACK \in Int
BY DEF ACK

\* The lines of mouse_identify.
LEMMA AskIdOps ==
  /\ Len(AskId) = 6
  /\ AskId[1] = Cmd(\hD4) /\ AskId[2] = Read /\ AskId[3] = Data(\hF2)
  /\ AskId[4] = Read /\ AskId[5] = Unless(1) /\ AskId[6] = Read
<1>1. /\ Len(AskOps) = 4
      /\ AskOps[1] = Cmd(\hD4) /\ AskOps[2] = Read /\ AskOps[3] = Data(\hF2) /\ AskOps[4] = Read
  BY DEF AskOps, mouse_write
<1>2. Len(Ask) = 2 /\ Ask[1] = Unless(1) /\ Ask[2] = Read
  BY DEF Ask
<1>3. AskOps \in Seq(Ops) /\ Ask \in Seq(Ops)
  <2>1. Read \in Ops /\ Cmd(\hD4) \in Ops /\ Data(\hF2) \in Ops /\ Unless(1) \in Ops
    BY DEF Ops, Read, Data, Cmd, Unless
  <2>. QED  BY <2>1 DEF AskOps, Ask, mouse_write
<1>4. AskId = Cat(AskOps, Ask)
  BY DEF AskId, Ask, AskOps, Cat
<1>5. /\ Len(AskId) = Len(AskOps) + Len(Ask)
      /\ Begins(AskId, AskOps) /\ Holds(AskId, Len(AskOps), Ask)
  BY <1>3, <1>4, Appended
<1>6. Len(AskId) = 6 /\ Begins(AskId, AskOps) /\ Holds(AskId, 4, Ask)
  BY <1>1, <1>2, <1>5
<1>7. AskId[1] = AskOps[1] /\ AskId[2] = AskOps[2] /\ AskId[3] = AskOps[3]
      /\ AskId[4] = AskOps[4]
  BY <1>1, <1>6 DEF Begins
<1>8. AskId[4 + 1] = Ask[1] /\ AskId[4 + 2] = Ask[2]
  BY <1>2, <1>6 DEF Holds
<1>. QED  BY <1>1, <1>2, <1>6, <1>7, <1>8

\* One step within a part of the script leads to the part's next line.
LEMMA EnableStep ==
  ASSUME NEW d, NEW o \in Nat, Holds(Script, o, Enable), InitStep,
         NEW j \in 1 .. 3, mline = o + j, EnableState(d, j), Quiet0
  PROVE  NextLine /\ EnableState(d, j + 1)' /\ Quiet0'
<1>1. /\ Script[o + 1] = Cmd(\hD4)
      /\ Script[o + 2] = Read
      /\ Script[o + 3] = Cmd(\hA8)
  <2>1. /\ Len(Enable) = 3
        /\ Enable[1] = Cmd(\hD4)
        /\ Enable[2] = Read
        /\ Enable[3] = Cmd(\hA8)
    BY DEF Enable
  <2>. QED  BY <2>1 DEF Holds
<1>2. CASE j = 1
  <2>1. Script[mline] = Cmd(\hD4) /\ Bus(d, "keyboard", <<>>)
    BY <1>1, <1>2 DEF EnableState
  <2>2. NextLine /\ Bus(d, "mouse", <<>>)' /\ UNCHANGED <<irq_on, irq12>>
    BY <2>1, ToMouse
  <2>. QED  BY <1>2, <2>1, <2>2 DEF EnableState, Quiet0
<1>3. CASE j = 2
  <2>1. Script[mline] = Read /\ Bus(d, "mouse", <<>>)
    BY <1>1, <1>3 DEF EnableState
  <2>2. NextLine /\ Bus(d, "mouse", <<>>)' /\ irq12' = FALSE /\ irq_on' = irq_on
    BY <2>1, ReadsNone
  <2>. QED  BY <1>3, <2>1, <2>2 DEF EnableState, Quiet0
<1>4. CASE j = 3
  <2>1. Script[mline] = Cmd(\hA8) /\ Bus(d, "mouse", <<>>)
    BY <1>1, <1>4 DEF EnableState
  <2>2. NextLine /\ Bus(d, "keyboard", <<>>)' /\ UNCHANGED <<irq_on, irq12>>
    BY <2>1, ToKeyboard
  <2>. QED  BY <1>4, <2>1, <2>2 DEF EnableState, Quiet0
<1>. QED  BY <1>2, <1>3, <1>4

LEMMA AskStep ==
  ASSUME NEW d \in Devices, NEW o \in Nat, Holds(Script, o, AskId), InitStep,
         NEW j \in 1 .. 6, mline = o + j, AskState(d, j), Quiet0
  PROVE  NextLine /\ AskState(d, j + 1)' /\ Quiet0'
<1>1. /\ Script[o + 1] = Cmd(\hD4)
      /\ Script[o + 2] = Read
      /\ Script[o + 3] = Data(\hF2)
      /\ Script[o + 4] = Read
      /\ Script[o + 5] = Unless(1)
      /\ Script[o + 6] = Read
  BY AskIdOps DEF Holds
<1>2. CASE j = 1
  <2>1. Script[mline] = Cmd(\hD4) /\ Bus(d, "keyboard", <<>>)
    BY <1>1, <1>2 DEF AskState
  <2>2. NextLine /\ Bus(d, "mouse", <<>>)' /\ UNCHANGED <<irq_on, irq12>>
    BY <2>1, ToMouse
  <2>. QED  BY <1>2, <2>1, <2>2 DEF AskState, Quiet0
<1>3. CASE j = 2
  <2>1. Script[mline] = Read /\ Bus(d, "mouse", <<>>)
    BY <1>1, <1>3 DEF AskState
  <2>2. NextLine /\ Bus(d, "mouse", <<>>)' /\ irq12' = FALSE /\ irq_on' = irq_on
    BY <2>1, ReadsNone
  <2>. QED  BY <1>3, <2>1, <2>2 DEF AskState, Quiet0
<1>4. CASE j = 3
  <2>1. Script[mline] = Data(\hF2) /\ Bus(d, "mouse", <<>>)
    BY <1>1, <1>4 DEF AskState
  <2>2. <<ACK, d.id>> \in Seq(Int)
    BY AnAnswer, AckInt DEF Devices
  <2>3. Answer(d, \hF2) = [dev |-> d, bytes |-> <<ACK, d.id>>]
    BY Answers
  <2>4. NextLine /\ Bus(d, "keyboard", <<ACK, d.id>>)' /\ Quiet0'
    BY <2>1, <2>2, <2>3, Sends
  <2>. QED  BY <1>4, <2>1, <2>2, <2>3, <2>4 DEF AskState
<1>5. CASE j = 4
  <2>1. Script[mline] = Read /\ Bus(d, "keyboard", <<ACK, d.id>>)
    BY <1>1, <1>5 DEF AskState
  <2>2. NextLine /\ Bus(d, "keyboard", <<d.id>>)' /\ Quiet0' /\ status' = ACK
    BY <2>1, ReadsTwo
  <2>. QED  BY <1>5, <2>1, <2>2 DEF AskState
<1>6. CASE j = 5
  <2>1. Script[mline] = Unless(1) /\ Bus(d, "keyboard", <<d.id>>) /\ status = ACK
    BY <1>1, <1>6 DEF AskState
  <2>2. NextLine /\ Bus(d, "keyboard", <<d.id>>)' /\ UNCHANGED <<irq_on, irq12>>
    BY <2>1, GoesOn
  <2>. QED  BY <1>6, <2>1, <2>2 DEF AskState, Quiet0
<1>7. CASE j = 6
  <2>1. Script[mline] = Read /\ Bus(d, "keyboard", <<d.id>>)
    BY <1>1, <1>7 DEF AskState
  <2>2. NextLine /\ Bus(d, "keyboard", <<>>)' /\ irq12' = FALSE /\ irq_on' = irq_on
        /\ port' = d.id /\ status' = d.id
    BY <2>1, ReadsOne
  <2>. QED  BY <1>7, <2>1, <2>2 DEF AskState, Quiet0
<1>. QED  BY <1>2, <1>3, <1>4, <1>5, <1>6, <1>7

LEMMA RateStep ==
  ASSUME NEW d \in Devices, NEW r \in Nat, NEW o \in Nat,
         Holds(Script, o, set_mouse_rate(r)), InitStep,
         NEW j \in 1 .. 9, mline = o + j, RateState(d, r, j), Quiet0
  PROVE  NextLine /\ RateState(d, r, j + 1)' /\ Quiet0'
<1>1. /\ Script[o + 1] = Cmd(\hD4)
      /\ Script[o + 2] = Read
      /\ Script[o + 3] = Data(\hF3)
      /\ Script[o + 4] = Read
      /\ Script[o + 5] = Unless(4)
      /\ Script[o + 6] = Cmd(\hD4)
      /\ Script[o + 7] = Read
      /\ Script[o + 8] = Data(r)
      /\ Script[o + 9] = Read
  <2>1. /\ Len(set_mouse_rate(r)) = 9
        /\ set_mouse_rate(r)[1] = Cmd(\hD4)
        /\ set_mouse_rate(r)[2] = Read
        /\ set_mouse_rate(r)[3] = Data(\hF3)
        /\ set_mouse_rate(r)[4] = Read
        /\ set_mouse_rate(r)[5] = Unless(4)
        /\ set_mouse_rate(r)[6] = Cmd(\hD4)
        /\ set_mouse_rate(r)[7] = Read
        /\ set_mouse_rate(r)[8] = Data(r)
        /\ set_mouse_rate(r)[9] = Read
    BY DEF set_mouse_rate
  <2>. QED  BY <2>1 DEF Holds
<1>2. CASE j = 1
  <2>1. Script[mline] = Cmd(\hD4) /\ Bus(d, "keyboard", <<>>)
    BY <1>1, <1>2 DEF RateState
  <2>2. NextLine /\ Bus(d, "mouse", <<>>)' /\ UNCHANGED <<irq_on, irq12>>
    BY <2>1, ToMouse
  <2>. QED  BY <1>2, <2>1, <2>2 DEF RateState, Quiet0
<1>3. CASE j = 2
  <2>1. Script[mline] = Read /\ Bus(d, "mouse", <<>>)
    BY <1>1, <1>3 DEF RateState
  <2>2. NextLine /\ Bus(d, "mouse", <<>>)' /\ irq12' = FALSE /\ irq_on' = irq_on
    BY <2>1, ReadsNone
  <2>. QED  BY <1>3, <2>1, <2>2 DEF RateState, Quiet0
<1>4. CASE j = 3
  <2>1. Script[mline] = Data(\hF3) /\ Bus(d, "mouse", <<>>)
    BY <1>1, <1>4 DEF RateState
  <2>2. <<ACK>> \in Seq(Int)
    BY AnAnswer, AckInt
  <2>3. Answer(d, \hF3) = [dev |-> Wanting(d), bytes |-> <<ACK>>]
    BY Answers
  <2>4. NextLine /\ Bus(Wanting(d), "keyboard", <<ACK>>)' /\ Quiet0'
    BY <2>1, <2>2, <2>3, Sends
  <2>. QED  BY <1>4, <2>1, <2>2, <2>3, <2>4 DEF RateState
<1>5. CASE j = 4
  <2>1. Script[mline] = Read /\ Bus(Wanting(d), "keyboard", <<ACK>>)
    BY <1>1, <1>5 DEF RateState
  <2>2. NextLine /\ Bus(Wanting(d), "keyboard", <<>>)' /\ irq12' = FALSE
        /\ irq_on' = irq_on /\ port' = ACK /\ status' = ACK
    BY <2>1, ReadsOne
  <2>. QED  BY <1>5, <2>1, <2>2 DEF RateState, Quiet0
<1>6. CASE j = 5
  <2>1. Script[mline] = Unless(4) /\ Bus(Wanting(d), "keyboard", <<>>) /\ status = ACK
    BY <1>1, <1>6 DEF RateState
  <2>2. NextLine /\ Bus(Wanting(d), "keyboard", <<>>)' /\ UNCHANGED <<irq_on, irq12>>
    BY <2>1, GoesOn
  <2>. QED  BY <1>6, <2>1, <2>2 DEF RateState, Quiet0
<1>7. CASE j = 6
  <2>1. Script[mline] = Cmd(\hD4) /\ Bus(Wanting(d), "keyboard", <<>>)
    BY <1>1, <1>7 DEF RateState
  <2>2. NextLine /\ Bus(Wanting(d), "mouse", <<>>)' /\ UNCHANGED <<irq_on, irq12>>
    BY <2>1, ToMouse
  <2>. QED  BY <1>7, <2>1, <2>2 DEF RateState, Quiet0
<1>8. CASE j = 7
  <2>1. Script[mline] = Read /\ Bus(Wanting(d), "mouse", <<>>)
    BY <1>1, <1>8 DEF RateState
  <2>2. NextLine /\ Bus(Wanting(d), "mouse", <<>>)' /\ irq12' = FALSE /\ irq_on' = irq_on
    BY <2>1, ReadsNone
  <2>. QED  BY <1>8, <2>1, <2>2 DEF RateState, Quiet0
<1>9. CASE j = 8
  <2>1. Script[mline] = Data(r) /\ Bus(Wanting(d), "mouse", <<>>)
    BY <1>1, <1>9 DEF RateState
  <2>2. <<ACK>> \in Seq(Int)
    BY AnAnswer, AckInt
  <2>3. NextLine /\ Bus(Rated(d, r), "keyboard", <<ACK>>)' /\ Quiet0'
    BY <2>1, <2>2, AnswersRate, Sends
  <2>. QED  BY <1>9, <2>1, <2>2, <2>3 DEF RateState
<1>10. CASE j = 9
  <2>1. Script[mline] = Read /\ Bus(Rated(d, r), "keyboard", <<ACK>>)
    BY <1>1, <1>10 DEF RateState
  <2>2. NextLine /\ Bus(Rated(d, r), "keyboard", <<>>)' /\ irq12' = FALSE
        /\ irq_on' = irq_on /\ port' = ACK /\ status' = ACK
    BY <2>1, ReadsOne
  <2>. QED  BY <1>10, <2>1, <2>2 DEF RateState, Quiet0
<1>. QED  BY <1>2, <1>3, <1>4, <1>5, <1>6, <1>7, <1>8, <1>9, <1>10

LEMMA ConfigureStep ==
  ASSUME NEW d, NEW o \in Nat, Holds(Script, o, Configure), InitStep,
         NEW j \in 1 .. 5, mline = o + j, ConfigState(d, j)
  PROVE  NextLine /\ ConfigState(d, j + 1)'
<1>1. /\ Script[o + 1] = Read
      /\ Script[o + 2] = Cmd(\h20)
      /\ Script[o + 3] = Read
      /\ Script[o + 4] = Cmd(\h60)
      /\ Script[o + 5] = Data(Config)
  <2>1. /\ Len(Configure) = 5
        /\ Configure[1] = Read
        /\ Configure[2] = Cmd(\h20)
        /\ Configure[3] = Read
        /\ Configure[4] = Cmd(\h60)
        /\ Configure[5] = Data(Config)
    BY DEF Configure
  <2>. QED  BY <2>1 DEF Holds
<1>2. CASE j = 1
  <2>1. Script[mline] = Read /\ Bus(d, "keyboard", <<>>) /\ Quiet0
    BY <1>1, <1>2 DEF ConfigState
  <2>2. NextLine /\ Bus(d, "keyboard", <<>>)' /\ irq12' = FALSE /\ irq_on' = irq_on
    BY <2>1, ReadsNone
  <2>. QED  BY <1>2, <2>1, <2>2 DEF ConfigState, Quiet0
<1>3. CASE j = 2
  <2>1. Script[mline] = Cmd(\h20) /\ Bus(d, "keyboard", <<>>) /\ Quiet0
    BY <1>1, <1>3 DEF ConfigState
  <2>2. NextLine /\ Bus(d, "keyboard", <<Config>>)' /\ Quiet0'
    BY <2>1, AsksConfig
  <2>. QED  BY <1>3, <2>1, <2>2 DEF ConfigState
<1>4. CASE j = 3
  <2>1. Script[mline] = Read /\ Bus(d, "keyboard", <<Config>>) /\ Quiet0
    BY <1>1, <1>4 DEF ConfigState
  <2>2. NextLine /\ Bus(d, "keyboard", <<>>)' /\ irq12' = FALSE /\ irq_on' = irq_on
        /\ port' = Config /\ status' = Config
    BY <2>1, ReadsOne
  <2>. QED  BY <1>4, <2>1, <2>2 DEF ConfigState, Quiet0
<1>5. CASE j = 4
  <2>1. Script[mline] = Cmd(\h60) /\ Bus(d, "keyboard", <<>>) /\ Quiet0
    BY <1>1, <1>5 DEF ConfigState
  <2>2. NextLine /\ Bus(d, "config", <<>>)' /\ UNCHANGED <<irq_on, irq12>>
    BY <2>1, ToConfig
  <2>. QED  BY <1>5, <2>1, <2>2 DEF ConfigState, Quiet0
<1>6. CASE j = 5
  <2>1. Script[mline] = Data(Config) /\ Bus(d, "config", <<>>) /\ Quiet0
    BY <1>1, <1>6 DEF ConfigState
  <2>2. NextLine /\ Bus(d, "keyboard", <<>>)' /\ irq_on' = TRUE /\ irq12' = irq12
    BY <2>1, WritesConfig
  <2>. QED  BY <1>6, <2>1, <2>2 DEF ConfigState, Quiet0
<1>. QED  BY <1>2, <1>3, <1>4, <1>5, <1>6

LEMMA WriteStep ==
  ASSUME NEW d, NEW v, NEW e, Answer(d, v) = [dev |-> e,
         bytes |-> <<ACK>>], NEW o \in Nat, Holds(Script, o, mouse_write(v)), InitStep,
         NEW j \in 1 .. 4, mline = o + j, WriteState(d, e, j)
  PROVE  NextLine /\ WriteState(d, e, j + 1)'
<1>1. /\ Script[o + 1] = Cmd(\hD4)
      /\ Script[o + 2] = Read
      /\ Script[o + 3] = Data(v)
      /\ Script[o + 4] = Read
  <2>1. /\ Len(mouse_write(v)) = 4
        /\ mouse_write(v)[1] = Cmd(\hD4)
        /\ mouse_write(v)[2] = Read
        /\ mouse_write(v)[3] = Data(v)
        /\ mouse_write(v)[4] = Read
    BY DEF mouse_write
  <2>. QED  BY <2>1 DEF Holds
<1>2. CASE j = 1
  <2>1. Script[mline] = Cmd(\hD4) /\ Bus(d, "keyboard", <<>>) /\ irq_on = TRUE
        /\ irq12 = FALSE
    BY <1>1, <1>2 DEF WriteState
  <2>2. NextLine /\ Bus(d, "mouse", <<>>)' /\ UNCHANGED <<irq_on, irq12>>
    BY <2>1, ToMouse
  <2>. QED  BY <1>2, <2>1, <2>2 DEF WriteState
<1>3. CASE j = 2
  <2>1. Script[mline] = Read /\ Bus(d, "mouse", <<>>) /\ irq_on = TRUE
    BY <1>1, <1>3 DEF WriteState
  <2>2. NextLine /\ Bus(d, "mouse", <<>>)' /\ irq12' = FALSE /\ irq_on' = irq_on
    BY <2>1, ReadsNone
  <2>. QED  BY <1>3, <2>1, <2>2 DEF WriteState
<1>4. CASE j = 3
  <2>1. Script[mline] = Data(v) /\ Bus(d, "mouse", <<>>) /\ irq_on = TRUE
    BY <1>1, <1>4 DEF WriteState
  <2>2. <<ACK>> \in Seq(Int)
    BY AnAnswer, AckInt
  <2>3. NextLine /\ Bus(e, "keyboard", <<ACK>>)' /\ irq_on' = TRUE
    BY <2>1, <2>2, Sends
  <2>. QED  BY <1>4, <2>1, <2>2, <2>3 DEF WriteState
<1>5. CASE j = 4
  <2>1. Script[mline] = Read /\ Bus(e, "keyboard", <<ACK>>) /\ irq_on = TRUE
    BY <1>1, <1>5 DEF WriteState
  <2>2. NextLine /\ Bus(e, "keyboard", <<>>)' /\ irq12' = FALSE /\ irq_on' = irq_on
        /\ port' = ACK /\ status' = ACK
    BY <2>1, ReadsOne
  <2>. QED  BY <1>5, <2>1, <2>2 DEF WriteState
<1>. QED  BY <1>2, <1>3, <1>4, <1>5

LEMMA TestStep ==
  ASSUME NEW d, NEW o \in Nat, Holds(Script, o, Test), InitStep,
         NEW j \in 1 .. 2, mline = o + j, TestState(d, j)
  PROVE  NextLine /\ TestState(d, j + 1)'
<1>1. /\ Script[o + 1] = Read
      /\ Script[o + 2] = Stop
  <2>1. /\ Len(Test) = 2
        /\ Test[1] = Read
        /\ Test[2] = Stop
    BY DEF Test
  <2>. QED  BY <2>1 DEF Holds
<1>2. CASE j = 1
  <2>1. Script[mline] = Read /\ Bus(d, "keyboard", <<>>) /\ irq_on = TRUE /\ irq12 = FALSE
        /\ port = ACK
    BY <1>1, <1>2 DEF TestState
  <2>2. NextLine /\ Bus(d, "keyboard", <<>>)' /\ irq12' = FALSE /\ irq_on' = irq_on
        /\ port' = ACK /\ status' = ACK
    BY <2>1, ReadsNone
  <2>. QED  BY <1>2, <2>1, <2>2 DEF TestState
<1>3. CASE j = 2
  <2>1. Script[mline] = Stop /\ Bus(d, "keyboard", <<>>) /\ irq_on = TRUE /\ irq12 = FALSE
        /\ port = ACK /\ status = ACK
    BY <1>1, <1>3 DEF TestState
  <2>2. Script[mline] = Unless(1000)
    BY <2>1 DEF Stop
  <2>3. Bus(d, "keyboard", <<>>) /\ status = ACK
    BY <2>1
  <2>4. NextLine /\ Bus(d, "keyboard", <<>>)' /\ UNCHANGED <<irq_on, irq12, port>>
    BY <2>2, <2>3, GoesOn
  <2>. QED  BY <1>3, <2>1, <2>2, <2>3, <2>4 DEF TestState
<1>. QED  BY <1>2, <1>3

-----------------------------------------------------------------------------

\* The parts of mouse_init: d is the mouse at the part's first line, and o
\* the number of lines before it.
Handed(d, o) == Quiet0 /\ mline = o + 1 /\ Bus(d, "keyboard", <<>>)

EnablePart(d, o) == Quiet0 /\ \E j \in 1 .. 3 : mline = o + j /\ EnableState(d, j)
AskPart(d, o) == Quiet0 /\ \E j \in 1 .. 6 : mline = o + j /\ AskState(d, j)
RatePart(d, r, o) == Quiet0 /\ \E j \in 1 .. 9 : mline = o + j /\ RateState(d, r, j)
ConfigPart(d, o) == \E j \in 1 .. 5 : mline = o + j /\ ConfigState(d, j)
WritePart(d, e, o) == \E j \in 1 .. 4 : mline = o + j /\ WriteState(d, e, j)
TestPart(d, o) == \E j \in 1 .. 2 : mline = o + j /\ TestState(d, j)
InstallPart(d, o) == mline = o + 1 /\ TestState(d, 3)

\* A part of the script is followed by the next one.
LEMMA EnableEnds ==
  ASSUME NEW d, NEW o \in Nat, NEW p, p = o + 3, Holds(Script, o, Enable), InitStep,
         EnablePart(d, o)
  PROVE  NextLine /\ (EnablePart(d, o)' \/ Handed(d, p)')
<1>1. PICK j \in 1 .. 3 : mline = o + j /\ EnableState(d, j)
  BY DEF EnablePart
<1>2. NextLine /\ EnableState(d, j + 1)' /\ Quiet0'
  BY <1>1, EnableStep DEF EnablePart
<1>3. mline' = o + j + 1
  BY <1>1, <1>2 DEF NextLine
<1>4. CASE j < 3
  <2>1. j + 1 \in 1 .. 3 /\ mline' = o + (j + 1)
    BY <1>3, <1>4
  <2>. QED  BY <1>2, <2>1 DEF EnablePart
<1>5. CASE j = 3
  BY <1>2, <1>3, <1>5 DEF Handed, EnableState
<1>. QED  BY <1>4, <1>5

LEMMA AskEnds ==
  ASSUME NEW d \in Devices, NEW o \in Nat, NEW p, p = o + 6, Holds(Script, o, AskId),
         InitStep,
         AskPart(d, o)
  PROVE  NextLine /\ (AskPart(d, o)' \/ Handed(d, p)')
<1>1. PICK j \in 1 .. 6 : mline = o + j /\ AskState(d, j)
  BY DEF AskPart
<1>2. NextLine /\ AskState(d, j + 1)' /\ Quiet0'
  BY <1>1, AskStep DEF AskPart
<1>3. mline' = o + j + 1
  BY <1>1, <1>2 DEF NextLine
<1>4. CASE j < 6
  <2>1. j + 1 \in 1 .. 6 /\ mline' = o + (j + 1)
    BY <1>3, <1>4
  <2>. QED  BY <1>2, <2>1 DEF AskPart
<1>5. CASE j = 6
  BY <1>2, <1>3, <1>5 DEF Handed, AskState
<1>. QED  BY <1>4, <1>5

LEMMA RateEnds ==
  ASSUME NEW d \in Devices, NEW r \in Nat, NEW o \in Nat, NEW p, p = o + 9,
         Holds(Script, o, set_mouse_rate(r)), InitStep, RatePart(d, r, o)
  PROVE  NextLine /\ (RatePart(d, r, o)' \/ Handed(Rated(d, r), p)')
<1>1. PICK j \in 1 .. 9 : mline = o + j /\ RateState(d, r, j)
  BY DEF RatePart
<1>2. NextLine /\ RateState(d, r, j + 1)' /\ Quiet0'
  BY <1>1, RateStep DEF RatePart
<1>3. mline' = o + j + 1
  BY <1>1, <1>2 DEF NextLine
<1>4. CASE j < 9
  <2>1. j + 1 \in 1 .. 9 /\ mline' = o + (j + 1)
    BY <1>3, <1>4
  <2>. QED  BY <1>2, <2>1 DEF RatePart
<1>5. CASE j = 9
  BY <1>2, <1>3, <1>5 DEF Handed, RateState
<1>. QED  BY <1>4, <1>5

\* The interrupt is enabled from here on.
Awake(d, o) ==
  /\ irq_on = TRUE /\ irq12 = FALSE
  /\ mline = o + 1 /\ Bus(d, "keyboard", <<>>)

LEMMA ConfigureEnds ==
  ASSUME NEW d, NEW o \in Nat, NEW p, p = o + 5, Holds(Script, o, Configure), InitStep,
         ConfigPart(d, o)
  PROVE  NextLine /\ (ConfigPart(d, o)' \/ Awake(d, p)')
<1>1. PICK j \in 1 .. 5 : mline = o + j /\ ConfigState(d, j)
  BY DEF ConfigPart
<1>2. NextLine /\ ConfigState(d, j + 1)'
  BY <1>1, ConfigureStep
<1>3. mline' = o + j + 1
  BY <1>1, <1>2 DEF NextLine
<1>4. CASE j < 5
  <2>1. j + 1 \in 1 .. 5 /\ mline' = o + (j + 1)
    BY <1>3, <1>4
  <2>. QED  BY <1>2, <2>1 DEF ConfigPart
<1>5. CASE j = 5
  BY <1>2, <1>3, <1>5 DEF Awake, ConfigState
<1>. QED  BY <1>4, <1>5

LEMMA WriteEnds ==
  ASSUME NEW d, NEW v, NEW e, NEW o \in Nat, NEW p, p = o + 4,
         Answer(d, v) = [dev |-> e, bytes |-> <<ACK>>],
         Holds(Script, o, mouse_write(v)), InitStep, WritePart(d, e, o)
  PROVE  NextLine /\ (WritePart(d, e, o)' \/ (Awake(e, p) /\ port = ACK)')
<1>1. PICK j \in 1 .. 4 : mline = o + j /\ WriteState(d, e, j)
  BY DEF WritePart
<1>2. NextLine /\ WriteState(d, e, j + 1)'
  BY <1>1, WriteStep
<1>3. mline' = o + j + 1
  BY <1>1, <1>2 DEF NextLine
<1>4. CASE j < 4
  <2>1. j + 1 \in 1 .. 4 /\ mline' = o + (j + 1)
    BY <1>3, <1>4
  <2>. QED  BY <1>2, <2>1 DEF WritePart
<1>5. CASE j = 4
  BY <1>2, <1>3, <1>5 DEF Awake, WriteState
<1>. QED  BY <1>4, <1>5

LEMMA TestEnds ==
  ASSUME NEW d, NEW o \in Nat, NEW p, p = o + 2, Holds(Script, o, Test), InitStep,
         TestPart(d, o)
  PROVE  NextLine /\ (TestPart(d, o)' \/ (Awake(d, p) /\ port = ACK)')
<1>1. PICK j \in 1 .. 2 : mline = o + j /\ TestState(d, j)
  BY DEF TestPart
<1>2. NextLine /\ TestState(d, j + 1)'
  BY <1>1, TestStep
<1>3. mline' = o + j + 1
  BY <1>1, <1>2 DEF NextLine
<1>4. CASE j < 2
  <2>1. j + 1 \in 1 .. 2 /\ mline' = o + (j + 1)
    BY <1>3, <1>4
  <2>. QED  BY <1>2, <2>1 DEF TestPart
<1>5. CASE j = 2
  BY <1>2, <1>3, <1>5 DEF Awake, TestState
<1>. QED  BY <1>4, <1>5

\* Where one part ends the next one begins.
LEMMA Handovers ==
  ASSUME NEW d, NEW o \in Nat
  PROVE  Handed(d, o)' => /\ AskPart(d, o)' /\ ConfigPart(d, o)'
                          /\ \A r : RatePart(d, r, o)'
<1>. SUFFICES ASSUME Handed(d, o)'
             PROVE  AskPart(d, o)' /\ ConfigPart(d, o)' /\ \A r : RatePart(d, r, o)'
  OBVIOUS
<1>1. 1 \in 1 .. 3 /\ 1 \in 1 .. 6 /\ 1 \in 1 .. 9 /\ 1 \in 1 .. 5
  OBVIOUS
<1>2. AskState(d, 1)' /\ ConfigState(d, 1)' /\ \A r : RateState(d, r, 1)'
  BY DEF Handed, AskState, ConfigState, RateState
<1>. QED  BY <1>1, <1>2 DEF Handed, AskPart, ConfigPart, RatePart

\* The same once the interrupt is enabled.
LEMMA AwakeHandovers ==
  ASSUME NEW d, NEW o \in Nat
  PROVE  Awake(d, o)' => /\ \A e : WritePart(d, e, o)'
                         /\ port' = ACK => TestPart(d, o)' /\ InstallPart(d, o)'
<1>. SUFFICES ASSUME Awake(d, o)'
             PROVE  /\ \A e : WritePart(d, e, o)'
                    /\ port' = ACK => TestPart(d, o)' /\ InstallPart(d, o)'
  OBVIOUS
<1>1. 1 \in 1 .. 4 /\ 1 \in 1 .. 2
  OBVIOUS
<1>2. /\ \A e : WriteState(d, e, 1)'
      /\ port' = ACK => TestState(d, 1)' /\ TestState(d, 3)'
  BY DEF Awake, WriteState, TestState
<1>. QED  BY <1>1, <1>2 DEF Awake, WritePart, TestPart, InstallPart
-----------------------------------------------------------------------------

\* The mouse before mouse_init, and after each rate it is set to: after the
\* last one it says what it is.
Dev0(b) == [best |-> b, id |-> 0, rates |-> <<>>, want |-> "command", streaming |-> FALSE]
Dev1(b) == Rated(Dev0(b), 200)
Dev2(b) == Rated(Dev1(b), 100)
Dev3(b) == Rated(Dev2(b), 80)
Dev4(b) == Rated(Dev3(b), 200)
Dev5(b) == Rated(Dev4(b), 200)
Dev6(b) == Rated(Dev5(b), 80)
Dev7(b) == [Dev6(b) EXCEPT !.streaming = TRUE]

\* They are mice.
LEMMA DevTypes ==
  ASSUME NEW b \in {0, 3, 4}
  PROVE  /\ Dev0(b) \in Devices /\ Dev1(b) \in Devices /\ Dev2(b) \in Devices
         /\ Dev3(b) \in Devices /\ Dev4(b) \in Devices /\ Dev5(b) \in Devices
         /\ Dev6(b) \in Devices /\ Dev7(b) \in Devices
<1>0. Dev0(b) \in Devices
  BY DEF Dev0, Devices
<1>1. Dev1(b) \in Devices
  BY <1>0, RatedType DEF Dev1
<1>2. Dev2(b) \in Devices
  BY <1>1, RatedType DEF Dev2
<1>3. Dev3(b) \in Devices
  BY <1>2, RatedType DEF Dev3
<1>4. Dev4(b) \in Devices
  BY <1>3, RatedType DEF Dev4
<1>5. Dev5(b) \in Devices
  BY <1>4, RatedType DEF Dev5
<1>6. Dev6(b) \in Devices
  BY <1>5, RatedType DEF Dev6
<1>7. Dev7(b) \in Devices
  BY <1>6 DEF Dev7, Devices
<1>. QED  BY <1>0, <1>1, <1>2, <1>3, <1>4, <1>5, <1>6, <1>7

\* The last three rates that make a mouse say that it has a wheel, or buttons.
WheelRates == <<200, 100, 80>>
ButtonRates == <<200, 200, 80>>

\* What setting a rate makes of a mouse.
LEMMA Rates ==
  ASSUME NEW d \in Devices, NEW r \in Nat, NEW rates,
         rates = LastThree(Append(d.rates, r))
  PROVE  /\ Rated(d, r).rates = rates /\ Rated(d, r).best = d.best
         /\ Rated(d, r).streaming = d.streaming
         /\ Rated(d, r).id = IF rates = WheelRates /\ d.best >= 3 THEN 3
                             ELSE IF rates = ButtonRates /\ d.best = 4 THEN 4 ELSE d.id
<1>1. Rated(d, r) = [d EXCEPT !.rates = rates, !.id = Identity(d, rates)]
  BY DEF Rated
<1>2. Identity(d, rates) = IF rates = WheelRates /\ d.best >= 3 THEN 3
                           ELSE IF rates = ButtonRates /\ d.best = 4 THEN 4 ELSE d.id
  <2>1. WheelRates # ButtonRates
    <3>1. WheelRates[2] = 100 /\ ButtonRates[2] = 200
      BY DEF WheelRates, ButtonRates
    <3>. QED  BY <3>1
  <2>2. Identity(d, rates) = CASE rates = WheelRates /\ d.best >= 3 -> 3
                               [] rates = ButtonRates /\ d.best = 4 -> 4
                               [] OTHER -> d.id
    BY DEF Identity, WheelRates, ButtonRates
  <2>. QED  BY <2>1, <2>2
<1>. QED  BY <1>1, <1>2 DEF Devices

\* A mouse that has a wheel, or buttons, says so after the six rates.
LEMMA DevReady ==
  ASSUME NEW b \in {0, 3, 4}
  PROVE  /\ Dev6(b).id = b /\ Dev6(b).best = b /\ Dev6(b).streaming = FALSE
         /\ Dev7(b).id = b /\ Dev7(b).best = b /\ Dev7(b).streaming = TRUE
<1>0. Dev0(b).rates = <<>> /\ Dev0(b).best = b /\ Dev0(b).id = 0
      /\ Dev0(b).streaming = FALSE
  BY DEF Dev0
<1>1. /\ Dev1(b).rates = <<200>> /\ Dev1(b).best = b /\ Dev1(b).streaming = FALSE
      /\ Dev1(b).id = 0
  <2>1. PICK t : t = <<200>>
    OBVIOUS
  <2>2. t = LastThree(Append(Dev0(b).rates, 200))
    BY <1>0, <2>1 DEF LastThree
  <2>3. t # WheelRates /\ t # ButtonRates
    <3>1. Len(t) = 1 /\ Len(WheelRates) = 3 /\ Len(ButtonRates) = 3
      BY <2>1 DEF WheelRates, ButtonRates
    <3>. QED  BY <3>1
  <2>4. PICK d \in Devices : d = Dev0(b)
    BY DevTypes
  <2>5. PICK r \in Nat : r = 200
    OBVIOUS
  <2>6. /\ Rated(d, r).rates = t /\ Rated(d, r).best = d.best
        /\ Rated(d, r).streaming = d.streaming
        /\ Rated(d, r).id = IF t = WheelRates /\ d.best >= 3 THEN 3
                            ELSE IF t = ButtonRates /\ d.best = 4 THEN 4 ELSE d.id
    BY <2>2, <2>4, <2>5, Rates
  <2>7. Dev1(b) = Rated(d, r)
    BY <2>4, <2>5 DEF Dev1
  <2>. QED  BY <1>0, <2>1, <2>3, <2>4, <2>6, <2>7
<1>2. /\ Dev2(b).rates = <<200, 100>> /\ Dev2(b).best = b /\ Dev2(b).streaming = FALSE
      /\ Dev2(b).id = 0
  <2>1. PICK t : t = <<200, 100>>
    OBVIOUS
  <2>2. t = LastThree(Append(Dev1(b).rates, 100))
    BY <1>1, <2>1 DEF LastThree
  <2>3. t # WheelRates /\ t # ButtonRates
    <3>1. Len(t) = 2 /\ Len(WheelRates) = 3 /\ Len(ButtonRates) = 3
      BY <2>1 DEF WheelRates, ButtonRates
    <3>. QED  BY <3>1
  <2>4. PICK d \in Devices : d = Dev1(b)
    BY DevTypes
  <2>5. PICK r \in Nat : r = 100
    OBVIOUS
  <2>6. /\ Rated(d, r).rates = t /\ Rated(d, r).best = d.best
        /\ Rated(d, r).streaming = d.streaming
        /\ Rated(d, r).id = IF t = WheelRates /\ d.best >= 3 THEN 3
                            ELSE IF t = ButtonRates /\ d.best = 4 THEN 4 ELSE d.id
    BY <2>2, <2>4, <2>5, Rates
  <2>7. Dev2(b) = Rated(d, r)
    BY <2>4, <2>5 DEF Dev2
  <2>. QED  BY <1>1, <2>1, <2>3, <2>4, <2>6, <2>7
<1>3. /\ Dev3(b).rates = <<200, 100, 80>> /\ Dev3(b).best = b /\ Dev3(b).streaming = FALSE
      /\ Dev3(b).id = IF b >= 3 THEN 3 ELSE 0
  <2>1. PICK t : t = <<200, 100, 80>>
    OBVIOUS
  <2>2. t = LastThree(Append(Dev2(b).rates, 80))
    BY <1>2, <2>1 DEF LastThree
  <2>3. t = WheelRates
    BY <2>1 DEF WheelRates
  <2>4. PICK d \in Devices : d = Dev2(b)
    BY DevTypes
  <2>5. PICK r \in Nat : r = 80
    OBVIOUS
  <2>6. /\ Rated(d, r).rates = t /\ Rated(d, r).best = d.best
        /\ Rated(d, r).streaming = d.streaming
        /\ Rated(d, r).id = IF t = WheelRates /\ d.best >= 3 THEN 3
                            ELSE IF t = ButtonRates /\ d.best = 4 THEN 4 ELSE d.id
    BY <2>2, <2>4, <2>5, Rates
  <2>7. Dev3(b) = Rated(d, r)
    BY <2>4, <2>5 DEF Dev3
  <2>. QED  BY <1>2, <2>1, <2>3, <2>4, <2>6, <2>7
<1>4. /\ Dev4(b).rates = <<100, 80, 200>> /\ Dev4(b).best = b /\ Dev4(b).streaming = FALSE
      /\ Dev4(b).id = IF b >= 3 THEN 3 ELSE 0
  <2>1. PICK t : t = <<100, 80, 200>>
    OBVIOUS
  <2>2. t = LastThree(Append(Dev3(b).rates, 200))
    BY <1>3, <2>1 DEF LastThree
  <2>3. t # WheelRates /\ t # ButtonRates
    <3>1. t[1] = 100 /\ WheelRates[1] = 200 /\ ButtonRates[1] = 200
      BY <2>1 DEF WheelRates, ButtonRates
    <3>. QED  BY <3>1
  <2>4. PICK d \in Devices : d = Dev3(b)
    BY DevTypes
  <2>5. PICK r \in Nat : r = 200
    OBVIOUS
  <2>6. /\ Rated(d, r).rates = t /\ Rated(d, r).best = d.best
        /\ Rated(d, r).streaming = d.streaming
        /\ Rated(d, r).id = IF t = WheelRates /\ d.best >= 3 THEN 3
                            ELSE IF t = ButtonRates /\ d.best = 4 THEN 4 ELSE d.id
    BY <2>2, <2>4, <2>5, Rates
  <2>7. Dev4(b) = Rated(d, r)
    BY <2>4, <2>5 DEF Dev4
  <2>. QED  BY <1>3, <2>1, <2>3, <2>4, <2>6, <2>7
<1>5. /\ Dev5(b).rates = <<80, 200, 200>> /\ Dev5(b).best = b /\ Dev5(b).streaming = FALSE
      /\ Dev5(b).id = IF b >= 3 THEN 3 ELSE 0
  <2>1. PICK t : t = <<80, 200, 200>>
    OBVIOUS
  <2>2. t = LastThree(Append(Dev4(b).rates, 200))
    BY <1>4, <2>1 DEF LastThree
  <2>3. t # WheelRates /\ t # ButtonRates
    <3>1. t[1] = 80 /\ WheelRates[1] = 200 /\ ButtonRates[1] = 200
      BY <2>1 DEF WheelRates, ButtonRates
    <3>. QED  BY <3>1
  <2>4. PICK d \in Devices : d = Dev4(b)
    BY DevTypes
  <2>5. PICK r \in Nat : r = 200
    OBVIOUS
  <2>6. /\ Rated(d, r).rates = t /\ Rated(d, r).best = d.best
        /\ Rated(d, r).streaming = d.streaming
        /\ Rated(d, r).id = IF t = WheelRates /\ d.best >= 3 THEN 3
                            ELSE IF t = ButtonRates /\ d.best = 4 THEN 4 ELSE d.id
    BY <2>2, <2>4, <2>5, Rates
  <2>7. Dev5(b) = Rated(d, r)
    BY <2>4, <2>5 DEF Dev5
  <2>. QED  BY <1>4, <2>1, <2>3, <2>4, <2>6, <2>7
<1>6. /\ Dev6(b).rates = <<200, 200, 80>> /\ Dev6(b).best = b /\ Dev6(b).streaming = FALSE
      /\ Dev6(b).id = b
  <2>1. PICK t : t = <<200, 200, 80>>
    OBVIOUS
  <2>2. t = LastThree(Append(Dev5(b).rates, 80))
    BY <1>5, <2>1 DEF LastThree
  <2>3. t = ButtonRates /\ t # WheelRates
    <3>1. t[2] = 200 /\ WheelRates[2] = 100
      BY <2>1 DEF WheelRates
    <3>. QED  BY <2>1, <3>1 DEF ButtonRates
  <2>4. PICK d \in Devices : d = Dev5(b)
    BY DevTypes
  <2>5. PICK r \in Nat : r = 80
    OBVIOUS
  <2>6. /\ Rated(d, r).rates = t /\ Rated(d, r).best = d.best
        /\ Rated(d, r).streaming = d.streaming
        /\ Rated(d, r).id = IF t = WheelRates /\ d.best >= 3 THEN 3
                            ELSE IF t = ButtonRates /\ d.best = 4 THEN 4 ELSE d.id
    BY <2>2, <2>4, <2>5, Rates
  <2>7. Dev6(b) = Rated(d, r)
    BY <2>4, <2>5 DEF Dev6
  <2>. QED  BY <1>5, <2>1, <2>3, <2>4, <2>6, <2>7
<1>7. Dev7(b).best = b /\ Dev7(b).id = b /\ Dev7(b).streaming = TRUE
  BY <1>6, DevTypes DEF Dev7, Devices
<1>. QED  BY <1>6, <1>7

\* Where mouse_init is, if nothing has disturbed it; b is the kind of mouse.
Booting(b) ==
  \/ EnablePart(Dev0(b), 0) \/ AskPart(Dev0(b), 3)
  \/ RatePart(Dev0(b), 200, 9) \/ RatePart(Dev1(b), 100, 18) \/ RatePart(Dev2(b), 80, 27)
  \/ AskPart(Dev3(b), 36)
  \/ RatePart(Dev3(b), 200, 42) \/ RatePart(Dev4(b), 200, 51) \/ RatePart(Dev5(b), 80, 60)
  \/ AskPart(Dev6(b), 69)
  \/ ConfigPart(Dev6(b), 75)
  \/ WritePart(Dev6(b), Dev6(b), 80) \/ TestPart(Dev6(b), 84)
  \/ WritePart(Dev6(b), Dev7(b), 86) \/ TestPart(Dev7(b), 90)
  \/ InstallPart(Dev7(b), 92)
-----------------------------------------------------------------------------

\* A step of an undisturbed mouse_init leads to its next line, and the last
\* line installs the handler.
LEMMA BootStep ==
  ASSUME NEW b \in {0, 3, 4}, Booting(b), InitStep
  PROVE  \/ Booting(b)' /\ NextLine
         \/ /\ InstallPart(Dev7(b), 92)
            /\ mline' = 94 /\ installed' = TRUE
            /\ UNCHANGED <<controller, handler, inflight, disturbed>>
<1>1. CASE EnablePart(Dev0(b), 0)
  <2>1. Holds(Script, 0, Enable) /\ 0 \in Nat /\ 3 = 0 + 3 /\ 3 \in Nat
    BY ScriptLines
  <2>2. PICK d \in Devices : d = Dev0(b)
    BY DevTypes
  <2>3. NextLine /\ (EnablePart(Dev0(b), 0)' \/ Handed(Dev0(b), 3)')
    BY <1>1, <2>1, <2>2, EnableEnds
  <2>4. ASSUME Handed(Dev0(b), 3)' PROVE AskPart(Dev0(b), 3)'
    <3>0. PICK e : e = Dev0(b)
      OBVIOUS
    <3>1. PICK p \in Nat : p = 3
      BY <2>1
    <3>2. Handed(e, p)'
      BY <2>4, <3>0, <3>1
    <3>3. AskPart(e, p)'
      BY <3>2, Handovers
    <3>. QED  BY <3>0, <3>1, <3>3
  <2>. QED  BY <2>3, <2>4 DEF Booting
<1>2. CASE AskPart(Dev0(b), 3)
  <2>1. Holds(Script, 3, AskId) /\ 3 \in Nat /\ 9 = 3 + 6 /\ 9 \in Nat
    BY ScriptLines
  <2>2. PICK d \in Devices : d = Dev0(b)
    BY DevTypes
  <2>3. NextLine /\ (AskPart(Dev0(b), 3)' \/ Handed(Dev0(b), 9)')
    BY <1>2, <2>1, <2>2, AskEnds
  <2>4. ASSUME Handed(Dev0(b), 9)' PROVE RatePart(Dev0(b), 200, 9)'
    <3>0. PICK e : e = Dev0(b)
      OBVIOUS
    <3>1. PICK p \in Nat : p = 9
      BY <2>1
    <3>2. Handed(e, p)'
      BY <2>4, <3>0, <3>1
    <3>3. RatePart(e, 200, p)'
      BY <3>2, Handovers
    <3>. QED  BY <3>0, <3>1, <3>3
  <2>. QED  BY <2>3, <2>4 DEF Booting
<1>3. CASE RatePart(Dev0(b), 200, 9)
  <2>1. Holds(Script, 9, set_mouse_rate(200)) /\ 9 \in Nat /\ 18 = 9 + 9 /\ 18 \in Nat
    BY ScriptLines DEF Rate200
  <2>2. PICK d \in Devices : d = Dev0(b)
    BY DevTypes
  <2>3. NextLine /\ (RatePart(Dev0(b), 200, 9)' \/ Handed(Dev1(b), 18)')
    <3>1. RatePart(d, 200, 9)
      BY <1>3, <2>2
    <3>2. NextLine /\ (RatePart(d, 200, 9)' \/ Handed(Rated(d, 200), 18)')
      BY <2>1, <3>1, RateEnds
    <3>. QED  BY <2>2, <3>2 DEF Dev1
  <2>4. ASSUME Handed(Dev1(b), 18)' PROVE RatePart(Dev1(b), 100, 18)'
    <3>0. PICK e : e = Dev1(b)
      OBVIOUS
    <3>1. PICK p \in Nat : p = 18
      BY <2>1
    <3>2. Handed(e, p)'
      BY <2>4, <3>0, <3>1
    <3>3. RatePart(e, 100, p)'
      BY <3>2, Handovers
    <3>. QED  BY <3>0, <3>1, <3>3
  <2>. QED  BY <2>3, <2>4 DEF Booting
<1>4. CASE RatePart(Dev1(b), 100, 18)
  <2>1. Holds(Script, 18, set_mouse_rate(100)) /\ 18 \in Nat /\ 27 = 18 + 9 /\ 27 \in Nat
    BY ScriptLines DEF Rate100
  <2>2. PICK d \in Devices : d = Dev1(b)
    BY DevTypes
  <2>3. NextLine /\ (RatePart(Dev1(b), 100, 18)' \/ Handed(Dev2(b), 27)')
    <3>1. RatePart(d, 100, 18)
      BY <1>4, <2>2
    <3>2. NextLine /\ (RatePart(d, 100, 18)' \/ Handed(Rated(d, 100), 27)')
      BY <2>1, <3>1, RateEnds
    <3>. QED  BY <2>2, <3>2 DEF Dev2
  <2>4. ASSUME Handed(Dev2(b), 27)' PROVE RatePart(Dev2(b), 80, 27)'
    <3>0. PICK e : e = Dev2(b)
      OBVIOUS
    <3>1. PICK p \in Nat : p = 27
      BY <2>1
    <3>2. Handed(e, p)'
      BY <2>4, <3>0, <3>1
    <3>3. RatePart(e, 80, p)'
      BY <3>2, Handovers
    <3>. QED  BY <3>0, <3>1, <3>3
  <2>. QED  BY <2>3, <2>4 DEF Booting
<1>5. CASE RatePart(Dev2(b), 80, 27)
  <2>1. Holds(Script, 27, set_mouse_rate(80)) /\ 27 \in Nat /\ 36 = 27 + 9 /\ 36 \in Nat
    BY ScriptLines DEF Rate80
  <2>2. PICK d \in Devices : d = Dev2(b)
    BY DevTypes
  <2>3. NextLine /\ (RatePart(Dev2(b), 80, 27)' \/ Handed(Dev3(b), 36)')
    <3>1. RatePart(d, 80, 27)
      BY <1>5, <2>2
    <3>2. NextLine /\ (RatePart(d, 80, 27)' \/ Handed(Rated(d, 80), 36)')
      BY <2>1, <3>1, RateEnds
    <3>. QED  BY <2>2, <3>2 DEF Dev3
  <2>4. ASSUME Handed(Dev3(b), 36)' PROVE AskPart(Dev3(b), 36)'
    <3>0. PICK e : e = Dev3(b)
      OBVIOUS
    <3>1. PICK p \in Nat : p = 36
      BY <2>1
    <3>2. Handed(e, p)'
      BY <2>4, <3>0, <3>1
    <3>3. AskPart(e, p)'
      BY <3>2, Handovers
    <3>. QED  BY <3>0, <3>1, <3>3
  <2>. QED  BY <2>3, <2>4 DEF Booting
<1>6. CASE AskPart(Dev3(b), 36)
  <2>1. Holds(Script, 36, AskId) /\ 36 \in Nat /\ 42 = 36 + 6 /\ 42 \in Nat
    BY ScriptLines
  <2>2. PICK d \in Devices : d = Dev3(b)
    BY DevTypes
  <2>3. NextLine /\ (AskPart(Dev3(b), 36)' \/ Handed(Dev3(b), 42)')
    BY <1>6, <2>1, <2>2, AskEnds
  <2>4. ASSUME Handed(Dev3(b), 42)' PROVE RatePart(Dev3(b), 200, 42)'
    <3>0. PICK e : e = Dev3(b)
      OBVIOUS
    <3>1. PICK p \in Nat : p = 42
      BY <2>1
    <3>2. Handed(e, p)'
      BY <2>4, <3>0, <3>1
    <3>3. RatePart(e, 200, p)'
      BY <3>2, Handovers
    <3>. QED  BY <3>0, <3>1, <3>3
  <2>. QED  BY <2>3, <2>4 DEF Booting
<1>7. CASE RatePart(Dev3(b), 200, 42)
  <2>1. Holds(Script, 42, set_mouse_rate(200)) /\ 42 \in Nat /\ 51 = 42 + 9 /\ 51 \in Nat
    BY ScriptLines DEF Rate200
  <2>2. PICK d \in Devices : d = Dev3(b)
    BY DevTypes
  <2>3. NextLine /\ (RatePart(Dev3(b), 200, 42)' \/ Handed(Dev4(b), 51)')
    <3>1. RatePart(d, 200, 42)
      BY <1>7, <2>2
    <3>2. NextLine /\ (RatePart(d, 200, 42)' \/ Handed(Rated(d, 200), 51)')
      BY <2>1, <3>1, RateEnds
    <3>. QED  BY <2>2, <3>2 DEF Dev4
  <2>4. ASSUME Handed(Dev4(b), 51)' PROVE RatePart(Dev4(b), 200, 51)'
    <3>0. PICK e : e = Dev4(b)
      OBVIOUS
    <3>1. PICK p \in Nat : p = 51
      BY <2>1
    <3>2. Handed(e, p)'
      BY <2>4, <3>0, <3>1
    <3>3. RatePart(e, 200, p)'
      BY <3>2, Handovers
    <3>. QED  BY <3>0, <3>1, <3>3
  <2>. QED  BY <2>3, <2>4 DEF Booting
<1>8. CASE RatePart(Dev4(b), 200, 51)
  <2>1. Holds(Script, 51, set_mouse_rate(200)) /\ 51 \in Nat /\ 60 = 51 + 9 /\ 60 \in Nat
    BY ScriptLines DEF Rate200
  <2>2. PICK d \in Devices : d = Dev4(b)
    BY DevTypes
  <2>3. NextLine /\ (RatePart(Dev4(b), 200, 51)' \/ Handed(Dev5(b), 60)')
    <3>1. RatePart(d, 200, 51)
      BY <1>8, <2>2
    <3>2. NextLine /\ (RatePart(d, 200, 51)' \/ Handed(Rated(d, 200), 60)')
      BY <2>1, <3>1, RateEnds
    <3>. QED  BY <2>2, <3>2 DEF Dev5
  <2>4. ASSUME Handed(Dev5(b), 60)' PROVE RatePart(Dev5(b), 80, 60)'
    <3>0. PICK e : e = Dev5(b)
      OBVIOUS
    <3>1. PICK p \in Nat : p = 60
      BY <2>1
    <3>2. Handed(e, p)'
      BY <2>4, <3>0, <3>1
    <3>3. RatePart(e, 80, p)'
      BY <3>2, Handovers
    <3>. QED  BY <3>0, <3>1, <3>3
  <2>. QED  BY <2>3, <2>4 DEF Booting
<1>9. CASE RatePart(Dev5(b), 80, 60)
  <2>1. Holds(Script, 60, set_mouse_rate(80)) /\ 60 \in Nat /\ 69 = 60 + 9 /\ 69 \in Nat
    BY ScriptLines DEF Rate80
  <2>2. PICK d \in Devices : d = Dev5(b)
    BY DevTypes
  <2>3. NextLine /\ (RatePart(Dev5(b), 80, 60)' \/ Handed(Dev6(b), 69)')
    <3>1. RatePart(d, 80, 60)
      BY <1>9, <2>2
    <3>2. NextLine /\ (RatePart(d, 80, 60)' \/ Handed(Rated(d, 80), 69)')
      BY <2>1, <3>1, RateEnds
    <3>. QED  BY <2>2, <3>2 DEF Dev6
  <2>4. ASSUME Handed(Dev6(b), 69)' PROVE AskPart(Dev6(b), 69)'
    <3>0. PICK e : e = Dev6(b)
      OBVIOUS
    <3>1. PICK p \in Nat : p = 69
      BY <2>1
    <3>2. Handed(e, p)'
      BY <2>4, <3>0, <3>1
    <3>3. AskPart(e, p)'
      BY <3>2, Handovers
    <3>. QED  BY <3>0, <3>1, <3>3
  <2>. QED  BY <2>3, <2>4 DEF Booting
<1>10. CASE AskPart(Dev6(b), 69)
  <2>1. Holds(Script, 69, AskId) /\ 69 \in Nat /\ 75 = 69 + 6 /\ 75 \in Nat
    BY ScriptLines
  <2>2. PICK d \in Devices : d = Dev6(b)
    BY DevTypes
  <2>3. NextLine /\ (AskPart(Dev6(b), 69)' \/ Handed(Dev6(b), 75)')
    BY <1>10, <2>1, <2>2, AskEnds
  <2>4. ASSUME Handed(Dev6(b), 75)' PROVE ConfigPart(Dev6(b), 75)'
    <3>0. PICK e : e = Dev6(b)
      OBVIOUS
    <3>1. PICK p \in Nat : p = 75
      BY <2>1
    <3>2. Handed(e, p)'
      BY <2>4, <3>0, <3>1
    <3>3. ConfigPart(e, p)'
      BY <3>2, Handovers
    <3>. QED  BY <3>0, <3>1, <3>3
  <2>. QED  BY <2>3, <2>4 DEF Booting
<1>11. CASE ConfigPart(Dev6(b), 75)
  <2>1. Holds(Script, 75, Configure) /\ 75 \in Nat /\ 80 = 75 + 5 /\ 80 \in Nat
    BY ScriptLines
  <2>2. PICK d \in Devices : d = Dev6(b)
    BY DevTypes
  <2>3. NextLine /\ (ConfigPart(Dev6(b), 75)' \/ Awake(Dev6(b), 80)')
    BY <1>11, <2>1, <2>2, ConfigureEnds
  <2>4. ASSUME Awake(Dev6(b), 80)' PROVE WritePart(Dev6(b), Dev6(b), 80)'
    <3>0. PICK e : e = Dev6(b)
      OBVIOUS
    <3>1. PICK p \in Nat : p = 80
      BY <2>1
    <3>2. Awake(e, p)'
      BY <2>4, <3>0, <3>1
    <3>3. WritePart(e, Dev6(b), p)'
      BY <3>2, AwakeHandovers
    <3>. QED  BY <3>0, <3>1, <3>3
  <2>. QED  BY <2>3, <2>4 DEF Booting
<1>12. CASE WritePart(Dev6(b), Dev6(b), 80)
  <2>1. Holds(Script, 80, mouse_write(\hF6)) /\ 80 \in Nat /\ 84 = 80 + 4 /\ 84 \in Nat
    BY ScriptLines DEF Reset
  <2>2. PICK d \in Devices : d = Dev6(b)
    BY DevTypes
  <2>3. Answer(d, \hF6) = [dev |-> Dev6(b), bytes |-> <<ACK>>]
    <3>1. [d EXCEPT !.streaming = FALSE] = d
      BY <2>2, DevReady DEF Devices
    <3>. QED  BY <2>2, <3>1, Answers
  <2>4. NextLine /\ (WritePart(Dev6(b), Dev6(b), 80)' \/ (Awake(Dev6(b), 84)
        /\ port = ACK)')
    BY <1>12, <2>1, <2>2, <2>3, WriteEnds
  <2>5. ASSUME (Awake(Dev6(b), 84) /\ port = ACK)' PROVE TestPart(Dev6(b), 84)'
    <3>0. PICK e : e = Dev6(b)
      OBVIOUS
    <3>1. PICK p \in Nat : p = 84
      BY <2>1
    <3>2. Awake(e, p)'
      BY <2>5, <3>0, <3>1
    <3>3. TestPart(e, p)'
      BY <2>5, <3>2, AwakeHandovers
    <3>. QED  BY <3>0, <3>1, <3>3
  <2>. QED  BY <2>4, <2>5 DEF Booting
<1>13. CASE TestPart(Dev6(b), 84)
  <2>1. Holds(Script, 84, Test) /\ 84 \in Nat /\ 86 = 84 + 2 /\ 86 \in Nat
    BY ScriptLines
  <2>2. PICK d \in Devices : d = Dev6(b)
    BY DevTypes
  <2>3. NextLine /\ (TestPart(Dev6(b), 84)' \/ (Awake(Dev6(b), 86) /\ port = ACK)')
    BY <1>13, <2>1, <2>2, TestEnds
  <2>4. ASSUME (Awake(Dev6(b), 86) /\ port = ACK)' PROVE WritePart(Dev6(b), Dev7(b), 86)'
    <3>0. PICK e : e = Dev6(b)
      OBVIOUS
    <3>1. PICK p \in Nat : p = 86
      BY <2>1
    <3>2. Awake(e, p)'
      BY <2>4, <3>0, <3>1
    <3>3. WritePart(e, Dev7(b), p)'
      BY <2>4, <3>2, AwakeHandovers
    <3>. QED  BY <3>0, <3>1, <3>3
  <2>. QED  BY <2>3, <2>4 DEF Booting
<1>14. CASE WritePart(Dev6(b), Dev7(b), 86)
  <2>1. Holds(Script, 86, mouse_write(\hF4)) /\ 86 \in Nat /\ 90 = 86 + 4 /\ 90 \in Nat
    BY ScriptLines DEF Stream
  <2>2. PICK d \in Devices : d = Dev6(b)
    BY DevTypes
  <2>3. Answer(d, \hF4) = [dev |-> Dev7(b), bytes |-> <<ACK>>]
    BY <2>2, Answers DEF Dev7
  <2>4. NextLine /\ (WritePart(Dev6(b), Dev7(b), 86)' \/ (Awake(Dev7(b), 90)
        /\ port = ACK)')
    BY <1>14, <2>1, <2>2, <2>3, WriteEnds
  <2>5. ASSUME (Awake(Dev7(b), 90) /\ port = ACK)' PROVE TestPart(Dev7(b), 90)'
    <3>0. PICK e : e = Dev7(b)
      OBVIOUS
    <3>1. PICK p \in Nat : p = 90
      BY <2>1
    <3>2. Awake(e, p)'
      BY <2>5, <3>0, <3>1
    <3>3. TestPart(e, p)'
      BY <2>5, <3>2, AwakeHandovers
    <3>. QED  BY <3>0, <3>1, <3>3
  <2>. QED  BY <2>4, <2>5 DEF Booting
<1>15. CASE TestPart(Dev7(b), 90)
  <2>1. Holds(Script, 90, Test) /\ 90 \in Nat /\ 92 = 90 + 2 /\ 92 \in Nat
    BY ScriptLines
  <2>2. PICK d \in Devices : d = Dev7(b)
    BY DevTypes
  <2>3. NextLine /\ (TestPart(Dev7(b), 90)' \/ (Awake(Dev7(b), 92) /\ port = ACK)')
    BY <1>15, <2>1, <2>2, TestEnds
  <2>4. ASSUME (Awake(Dev7(b), 92) /\ port = ACK)' PROVE InstallPart(Dev7(b), 92)'
    <3>0. PICK e : e = Dev7(b)
      OBVIOUS
    <3>1. PICK p \in Nat : p = 92
      BY <2>1
    <3>2. Awake(e, p)'
      BY <2>4, <3>0, <3>1
    <3>3. InstallPart(e, p)'
      BY <2>4, <3>2, AwakeHandovers
    <3>. QED  BY <3>0, <3>1, <3>3
  <2>. QED  BY <2>3, <2>4 DEF Booting
<1>16. CASE InstallPart(Dev7(b), 92)
  <2>1. Holds(Script, 92, Install) /\ mline = 92 + 1
    BY <1>16, ScriptLines DEF InstallPart
  <2>2. Len(Install) = 1 /\ Install[1] = [op |-> "install", v |-> 0]
    BY DEF Install
  <2>3. Script[mline] = [op |-> "install", v |-> 0]
    BY <2>1, <2>2 DEF Holds
  <2>. QED  BY <1>16, <2>1, <2>3, InstallLine
<1>. QED  BY <1>1, <1>2, <1>3, <1>4, <1>5, <1>6, <1>7, <1>8, <1>9, <1>10, <1>11, <1>12,
             <1>13, <1>14, <1>15, <1>16 DEF Booting
-----------------------------------------------------------------------------

\* The interrupt of a byte that mouse_init waits for finds no handler.
LEMMA BootInterrupt ==
  ASSUME NEW b \in {0, 3, 4}, Booting(b), NoHandler
  PROVE  Booting(b)'
<1>1. /\ irq12 /\ irq12' = FALSE
      /\ UNCHANGED <<dev, ctl, irq_on, out, port, mline, status>>
  BY DEF NoHandler
<1>2. ~Quiet0 /\ irq12 # FALSE
  BY <1>1 DEF Quiet0
<1>3. ASSUME NEW d, NEW e, NEW o, WritePart(d, e, o)
      PROVE  WritePart(d, e, o)'
  <2>1. PICK j \in 1 .. 4 : mline = o + j /\ WriteState(d, e, j)
    BY <1>3 DEF WritePart
  <2>2. mline' = o + j /\ WriteState(d, e, j)'
    BY <1>1, <2>1 DEF WriteState, Bus
  <2>. QED  BY <2>2 DEF WritePart
<1>4. \A d, o : ~ConfigPart(d, o) /\ ~TestPart(d, o) /\ ~InstallPart(d, o)
  <2>1. ASSUME NEW d, NEW o PROVE ~ConfigPart(d, o)
    <3>1. SUFFICES ASSUME NEW j \in 1 .. 5, ConfigState(d, j) PROVE FALSE
      BY DEF ConfigPart
    <3>. QED  BY <1>2, <3>1 DEF ConfigState
  <2>2. ASSUME NEW d, NEW j PROVE ~TestState(d, j)
    BY <1>2 DEF TestState
  <2>. QED  BY <2>1, <2>2 DEF TestPart, InstallPart
<1>5. \A d, r, o : ~EnablePart(d, o) /\ ~AskPart(d, o) /\ ~RatePart(d, r, o)
  BY <1>2 DEF EnablePart, AskPart, RatePart
<1>6. WritePart(Dev6(b), Dev6(b), 80) \/ WritePart(Dev6(b), Dev7(b), 86)
  BY <1>4, <1>5 DEF Booting
<1>. QED  BY <1>3, <1>6 DEF Booting
-----------------------------------------------------------------------------
\* The bytes of the packets that are not yet handled, in order: those the
\* handler has counted, then those that wait.
Coming(i) == IF i <= mouse_cycle THEN mouse_byte[i] ELSE out[i - mouse_cycle]

\* The handler is in step with the mouse: the bytes that are coming are those
\* of the packets begun.
InStep ==
  /\ mouse_byte \in [1 .. 4 -> Int] /\ mouse_cycle \in 0 .. 3
  /\ g_mouse_x_pos \in Int /\ g_mouse_y_pos \in Int
  /\ out \in Seq(Int) /\ inflight \in Seq(Moves)
  /\ mouse_cycle + Len(out) = 4 * Len(inflight)
  /\ \A k \in 1 .. Len(inflight), i \in 1 .. 4 :
       Coming(4 * (k - 1) + i) = Packet(dev, inflight[k])[i]

\* mouse_init has ended, with the handler installed and the mouse streaming.
Running ==
  /\ mline \in Nat /\ mline > Len(Script) /\ installed = TRUE /\ irq_on = TRUE
  /\ dev.streaming = TRUE /\ dev.id = dev.best /\ dev.id \in {0, 3, 4}
  /\ irq12 \in BOOLEAN /\ out \in Seq(Int) /\ (irq12 => out # <<>>)
  /\ dev.id # 0 => InStep

\* mouse_init is running, and nothing has disturbed it.
Starting ==
  /\ installed = FALSE /\ inflight = <<>> /\ mouse_cycle = 0
  /\ mouse_byte \in [1 .. 4 -> Int] /\ g_mouse_x_pos \in Int /\ g_mouse_y_pos \in Int
  /\ \E b \in {0, 3, 4} : Booting(b)

\* What both properties of the mouse rest on.
MouseInv ==
  /\ disturbed \in BOOLEAN
  /\ (disturbed = FALSE) => Starting \/ Running

\* The script has 93 lines.
LEMMA BootLines ==
  ASSUME NEW b \in {0, 3, 4}, Booting(b)
  PROVE  mline \in 1 .. 93
BY DEF Booting, EnablePart, AskPart, RatePart, ConfigPart, WritePart, TestPart, InstallPart

\* mouse_init starts undisturbed.
LEMMA MouseInvInit == MouseInit => MouseInv
<1>. SUFFICES ASSUME MouseInit PROVE Starting
  BY DEF MouseInv, MouseInit
<1>1. PICK b \in {0, 3, 4} : dev = Dev0(b)
  <2>1. PICK d \in [best : Mice, id : {0}, rates : {<<>>}, want : {"command"},
                    streaming : {FALSE}] : dev = d
    BY DEF MouseInit
  <2>2. d.best \in {0, 3, 4} /\ d = Dev0(d.best)
    BY MouseAssumption DEF Dev0
  <2>. QED  BY <2>1, <2>2
<1>2. EnableState(Dev0(b), 1) /\ Quiet0 /\ mline = 0 + 1
  BY <1>1 DEF MouseInit, EnableState, Bus, Quiet0
<1>3. EnablePart(Dev0(b), 0)
  BY <1>2, 1 \in 1 .. 3 DEF EnablePart
<1>4. mouse_byte \in [1 .. 4 -> Int]
  <2>1. mouse_byte = <<0, 0, 0, 0>>
    BY DEF MouseInit
  <2>. QED  BY <2>1
<1>. QED  BY <1>3, <1>4 DEF MouseInit, Starting, Booting
-----------------------------------------------------------------------------
\* The packets of a mouse that has a wheel, or buttons.
LEMMA PacketType ==
  ASSUME NEW d, d.id \in Int, NEW m \in Moves, d.id # 0
  PROVE  /\ Packet(d, m) \in Seq(Int) /\ Len(Packet(d, m)) = 4
         /\ Packet(d, m) \in [1 .. 4 -> Int]
         /\ Packet(d, m)[2] = m.dx /\ Packet(d, m)[3] = m.dy
         /\ m.dx \in Int /\ m.dy \in Int
<1>1. m.dx \in Int /\ m.dy \in Int /\ m.wheel \in Int
  BY MouseAssumption
<1>2. PICK w \in Int : w = WheelByte(d, m.wheel)
  BY <1>1 DEF WheelByte
<1>3. PICK s \in Seq(Int) : s = <<8, m.dx, m.dy>> /\ Len(s) = 3 /\ s[2] = m.dx
           /\ s[3] = m.dy
  <2>1. <<8, m.dx, m.dy>> \in Seq(Int)
    BY <1>1
  <2>. QED  BY <2>1
<1>4. Packet(d, m) = Append(s, w)
  BY <1>2, <1>3 DEF Packet
<1>5. /\ Append(s, w) \in Seq(Int) /\ Len(Append(s, w)) = 4
      /\ Append(s, w)[2] = m.dx /\ Append(s, w)[3] = m.dy
  BY <1>3
<1>6. Append(s, w) \in [1 .. 4 -> Int]
  BY <1>5, LenProperties
<1>. QED  BY <1>1, <1>4, <1>5, <1>6
-----------------------------------------------------------------------------

\* A packet is put behind those that wait.
LEMMA MoveInStep ==
  ASSUME InStep, dev.id # 0, dev.id \in Int, NEW m \in Moves, Move(m)
  PROVE  InStep'
<1>1. PICK p \in Seq(Int) : p = Packet(dev, m) /\ Len(p) = 4
  BY PacketType
<1>2. /\ out' = out \o p /\ inflight' = Append(inflight, m)
      /\ UNCHANGED <<dev, mouse_cycle, mouse_byte, g_mouse_x_pos, g_mouse_y_pos>>
  BY <1>1 DEF Move, Offer, handler
<1>3. PICK n \in Nat, w \in Nat, c \in 0 .. 3 :
        n = Len(inflight) /\ w = Len(out) /\ c = mouse_cycle /\ c + w = 4 * n
  BY DEF InStep
<1>4. /\ out' \in Seq(Int) /\ Len(out') = w + 4
      /\ \A i \in 1 .. w : out'[i] = out[i]
      /\ \A i \in 1 .. 4 : out'[w + i] = p[i]
  <2>1. PICK q \in Seq(Int) : q = out
    BY DEF InStep
  <2>2. PICK s : s = q \o p
    OBVIOUS
  <2>3. /\ s \in Seq(Int) /\ Len(s) = w + 4
        /\ \A i \in 1 .. w + 4 : s[i] = IF i <= w THEN q[i] ELSE p[i - w]
    <3>1. /\ q \o p \in Seq(Int) /\ Len(q \o p) = Len(q) + Len(p)
          /\ \A i \in 1 .. Len(q) + Len(p) :
               (q \o p)[i] = IF i <= Len(q) THEN q[i] ELSE p[i - Len(q)]
      BY ConcatProperties
    <3>2. Len(q) = w /\ Len(p) = 4
      BY <1>1, <1>3, <2>1
    <3>. QED  BY <2>2, <3>1, <3>2
  <2>4. ASSUME NEW i \in 1 .. 4 PROVE s[w + i] = p[i]
    <3>1. PICK j \in 1 .. w + 4 : j = w + i /\ ~(j <= w) /\ j - w = i
      BY w + i \in 1 .. w + 4
    <3>. QED  BY <2>3, <3>1
  <2>5. \A i \in 1 .. w : s[i] = q[i]
    BY <2>3
  <2>. QED  BY <1>2, <2>1, <2>2, <2>3, <2>4, <2>5
<1>5. /\ inflight' \in Seq(Moves) /\ Len(inflight') = n + 1
      /\ inflight'[n + 1] = m
      /\ \A k \in 1 .. n : inflight'[k] = inflight[k]
  BY <1>2, <1>3 DEF InStep
<1>6. ASSUME NEW k \in 1 .. n + 1, NEW i \in 1 .. 4
      PROVE  Coming(4 * (k - 1) + i)' = Packet(dev, inflight'[k])[i]
  <2>1. PICK j \in Nat : j = 4 * (k - 1) + i
    OBVIOUS
  <2>2. CASE k <= n
    <3>1. j <= c + w
      BY <1>3, <2>1, <2>2
    <3>2. Coming(j) = Packet(dev, inflight[k])[i]
      <4>1. k \in 1 .. Len(inflight)
        BY <1>3, <2>2
      <4>2. Coming(4 * (k - 1) + i) = Packet(dev, inflight[k])[i]
        BY <4>1 DEF InStep
      <4>. QED  BY <2>1, <4>2
    <3>3. Coming(j)' = Coming(j)
      <4>1. CASE j <= c
        BY <1>2, <1>3, <4>1 DEF Coming
      <4>2. CASE ~(j <= c)
        <5>1. PICK x \in 1 .. w : x = j - c
          BY <1>3, <3>1, <4>2
        <5>. QED  BY <1>2, <1>3, <1>4, <4>2, <5>1 DEF Coming
      <4>. QED  BY <4>1, <4>2
    <3>. QED  BY <1>5, <2>1, <2>2, <3>2, <3>3
  <2>3. CASE k = n + 1
    <3>1. ~(j <= c) /\ j - c = w + i
      BY <1>3, <2>1, <2>3
    <3>2. Coming(j)' = out'[w + i]
      BY <1>2, <1>3, <3>1 DEF Coming
    <3>. QED  BY <1>1, <1>4, <1>5, <2>1, <2>3, <3>2
  <2>. QED  BY <2>2, <2>3
<1>7. mouse_cycle' + Len(out') = 4 * Len(inflight')
  <2>1. mouse_cycle' = c /\ Len(out') = w + 4 /\ Len(inflight') = n + 1
    BY <1>2, <1>3, <1>4, <1>5
  <2>2. c + w = 4 * n /\ 4 * (n + 1) = 4 * n + 4
    BY <1>3
  <2>3. c + (w + 4) = 4 * (n + 1)
    BY <2>2
  <2>. QED  BY <2>1, <2>3
<1>8. \A k \in 1 .. Len(inflight'), i \in 1 .. 4 :
        Coming(4 * (k - 1) + i)' = Packet(dev', inflight'[k])[i]
  BY <1>2, <1>5, <1>6
<1>9. /\ mouse_byte' \in [1 .. 4 -> Int] /\ mouse_cycle' \in 0 .. 3
      /\ g_mouse_x_pos' \in Int /\ g_mouse_y_pos' \in Int
  BY <1>2 DEF InStep
<1>. QED
  BY <1>4, <1>5, <1>7, <1>8, <1>9 DEF InStep

\* One of the first three bytes goes from those that wait to those counted.
LEMMA FirstInStep ==
  ASSUME InStep, out # <<>>, FirstBytes
  PROVE  InStep'
<1>1. PICK n \in Nat, w \in Nat, c \in 0 .. 2 :
        n = Len(inflight) /\ w = Len(out) /\ c = mouse_cycle /\ c + w = 4 * n /\ w > 0
  BY DEF InStep, FirstBytes
<1>2. /\ port' = out[1] /\ out[1] \in Int /\ out' = Tail(out)
      /\ mouse_byte' = [mouse_byte EXCEPT ![c + 1] = out[1]]
      /\ mouse_cycle' = c + 1
      /\ UNCHANGED <<dev, g_mouse_x_pos, g_mouse_y_pos, inflight>>
  BY <1>1 DEF FirstBytes, TakesByte, Taken, InStep
<1>3. /\ out' \in Seq(Int) /\ Len(out') = w - 1
      /\ \A i \in 1 .. w - 1 : out'[i] = out[i + 1]
  BY <1>1, <1>2 DEF InStep
<1>4. mouse_byte' \in [1 .. 4 -> Int] /\ mouse_byte'[c + 1] = out[1]
      /\ \A i \in 1 .. 4 : i # c + 1 => mouse_byte'[i] = mouse_byte[i]
  <2>1. PICK a \in Int, x \in 1 .. 4 : a = out[1] /\ x = c + 1
    BY <1>2
  <2>2. PICK f \in [1 .. 4 -> Int] : f = mouse_byte
    BY DEF InStep
  <2>3. mouse_byte' = [f EXCEPT ![x] = a]
    BY <1>2, <2>1, <2>2
  <2>4. /\ [f EXCEPT ![x] = a] \in [1 .. 4 -> Int] /\ [f EXCEPT ![x] = a][x] = a
        /\ \A i \in 1 .. 4 : i # x => [f EXCEPT ![x] = a][i] = f[i]
    OBVIOUS
  <2>. QED  BY <2>1, <2>2, <2>3, <2>4
<1>5. ASSUME NEW j \in 1 .. 4 * n PROVE Coming(j)' = Coming(j)
  <2>1. CASE j <= c
    BY <1>1, <1>2, <1>4, <2>1 DEF Coming
  <2>2. CASE j = c + 1
    <3>1. Coming(j)' = mouse_byte'[c + 1]
      BY <1>1, <1>2, <2>2 DEF Coming
    <3>2. Coming(j) = out[1]
      <4>1. ~(j <= c) /\ j - c = 1
        BY <1>1, <2>2
      <4>. QED  BY <1>1, <4>1 DEF Coming
    <3>. QED  BY <1>4, <3>1, <3>2
  <2>3. CASE j > c + 1
    <3>1. PICK x \in 1 .. w - 1 : x = j - (c + 1) /\ x + 1 = j - c
      BY <1>1, <2>3
    <3>2. Coming(j)' = out'[x]
      BY <1>1, <1>2, <2>3, <3>1 DEF Coming
    <3>3. Coming(j) = out[x + 1]
      BY <1>1, <2>3, <3>1 DEF Coming
    <3>. QED  BY <1>3, <3>1, <3>2, <3>3
  <2>. QED  BY <1>1, <2>1, <2>2, <2>3
<1>6. ASSUME NEW k \in 1 .. n, NEW i \in 1 .. 4
      PROVE  Coming(4 * (k - 1) + i)' = Packet(dev, inflight[k])[i]
  <2>1. PICK j \in 1 .. 4 * n : j = 4 * (k - 1) + i
    BY 4 * (k - 1) + i \in 1 .. 4 * n
  <2>2. Coming(j) = Packet(dev, inflight[k])[i]
    BY <1>1, <2>1 DEF InStep
  <2>3. Coming(4 * (k - 1) + i)' = Coming(j)'
    BY <2>1
  <2>. QED  BY <1>5, <2>2, <2>3
<1>7. mouse_cycle' + Len(out') = 4 * Len(inflight')
  <2>1. mouse_cycle' = c + 1 /\ Len(out') = w - 1 /\ Len(inflight') = n
    BY <1>1, <1>2, <1>3
  <2>2. (c + 1) + (w - 1) = 4 * n
    BY <1>1
  <2>. QED  BY <2>1, <2>2
<1>8. \A k \in 1 .. Len(inflight'), i \in 1 .. 4 :
        Coming(4 * (k - 1) + i)' = Packet(dev', inflight'[k])[i]
  BY <1>1, <1>2, <1>6
<1>9. /\ mouse_cycle' \in 0 .. 3 /\ g_mouse_x_pos' \in Int /\ g_mouse_y_pos' \in Int
      /\ inflight' \in Seq(Moves)
  BY <1>1, <1>2 DEF InStep
<1>. QED  BY <1>3, <1>4, <1>7, <1>8, <1>9 DEF InStep
-----------------------------------------------------------------------------

\* What the last byte of a packet completes.
LEMMA LastFacts ==
  ASSUME InStep, dev.id # 0, dev.id \in Int, out # <<>>, LastByte
  PROVE  /\ inflight # <<>> /\ Head(inflight) \in Moves
         /\ mouse_byte' = Packet(dev, Head(inflight))
         /\ mouse_byte[2] = Head(inflight).dx /\ mouse_byte[3] = Head(inflight).dy
<1>1. PICK n \in Nat, w \in Nat :
        n = Len(inflight) /\ w = Len(out) /\ 3 + w = 4 * n /\ w > 0 /\ n > 0
  BY DEF InStep, LastByte
<1>2. PICK m \in Moves : m = Head(inflight) /\ m = inflight[1]
  BY <1>1 DEF InStep
<1>3. PICK p \in [1 .. 4 -> Int] : p = Packet(dev, m) /\ p[2] = m.dx /\ p[3] = m.dy
  BY PacketType
<1>4. PICK a \in Int : a = out[1] /\ port' = a
  <2>1. out \in Seq(Int) /\ out # <<>>
    BY DEF InStep
  <2>2. out[1] \in Int /\ Head(out) = out[1]
    BY <1>1, <2>1
  <2>3. port' = Head(out)
    BY DEF LastByte, TakesByte, Taken
  <2>. QED  BY <2>2, <2>3
<1>5. PICK f \in [1 .. 4 -> Int] : f = mouse_byte /\ mouse_byte' = [f EXCEPT ![4] = a]
  BY <1>4 DEF InStep, LastByte
<1>6. mouse_cycle = 3
  BY DEF LastByte
<1>7. ASSUME NEW i \in 1 .. 4 PROVE Coming(i) = p[i]
  <2>1. 1 \in 1 .. Len(inflight)
    BY <1>1
  <2>2. Coming(4 * (1 - 1) + i) = Packet(dev, inflight[1])[i]
    BY <2>1 DEF InStep
  <2>3. 4 * (1 - 1) + i = i
    OBVIOUS
  <2>. QED  BY <1>2, <1>3, <2>2, <2>3
<1>8. \A i \in 1 .. 3 : f[i] = p[i]
  BY <1>5, <1>6, <1>7 DEF Coming
<1>9. a = p[4]
  <2>1. Coming(4) = out[1]
    BY <1>6 DEF Coming
  <2>. QED  BY <1>4, <1>7, <2>1
<1>10. [f EXCEPT ![4] = a] = p
  <2>1. \A i \in 1 .. 4 : i = 4 \/ i \in 1 .. 3
    OBVIOUS
  <2>. QED  BY <1>8, <1>9, <2>1
<1>. QED  BY <1>1, <1>2, <1>3, <1>5, <1>8, <1>10

\* The last byte of a packet leaves the handler in step.
LEMMA LastInStep ==
  ASSUME InStep, dev.id # 0, dev.id \in Int, out # <<>>, LastByte
  PROVE  InStep'
<1>1. PICK n \in Nat, w \in Nat :
        n = Len(inflight) /\ w = Len(out) /\ 3 + w = 4 * n /\ w > 0 /\ n > 0
  BY DEF InStep, LastByte
<1>2. /\ out' = Tail(out) /\ mouse_cycle = 3 /\ mouse_cycle' = 0 /\ dev' = dev
      /\ inflight' = Tail(inflight)
  BY <1>1 DEF LastByte, TakesByte, Taken
<1>3. /\ out' \in Seq(Int) /\ Len(out') = w - 1
      /\ \A i \in 1 .. w - 1 : out'[i] = out[i + 1]
  BY <1>1, <1>2 DEF InStep
<1>4. /\ inflight' \in Seq(Moves) /\ Len(inflight') = n - 1
      /\ \A k \in 1 .. n - 1 : inflight'[k] = inflight[k + 1]
  BY <1>1, <1>2 DEF InStep
<1>5. /\ mouse_byte' \in [1 .. 4 -> Int]
      /\ mouse_byte[2] \in Int /\ mouse_byte[3] \in Int
  <2>1. Head(inflight) \in Moves /\ mouse_byte' = Packet(dev, Head(inflight))
    BY LastFacts
  <2>. QED  BY <2>1, PacketType DEF InStep
<1>6. g_mouse_x_pos' \in Int /\ g_mouse_y_pos' \in Int
  <2>0. g_mouse_x_pos \in Int /\ g_mouse_y_pos \in Int
    BY DEF InStep
  <2>1. PICK x \in Int, y \in Int :
          x = g_mouse_x_pos + mouse_byte[2] /\ y = g_mouse_y_pos - mouse_byte[3]
    BY <1>5, <2>0
  <2>2. g_mouse_x_pos' = Clamp(x, Width) /\ g_mouse_y_pos' = Clamp(y, Height)
    BY <2>1 DEF LastByte
  <2>. QED  BY <2>2, MouseAssumption DEF Clamp
<1>7. ASSUME NEW k \in 1 .. n - 1, NEW i \in 1 .. 4
      PROVE  Coming(4 * (k - 1) + i)' = Packet(dev, inflight'[k])[i]
  <2>1. PICK j \in 1 .. w - 1, l \in 1 .. n :
          j = 4 * (k - 1) + i /\ l = k + 1 /\ j + 4 = 4 * (l - 1) + i
    <3>1. 4 * (k - 1) + i \in 1 .. w - 1 /\ k + 1 \in 1 .. n
      BY <1>1
    <3>. QED  BY <3>1
  <2>2. Coming(4 * (l - 1) + i) = Packet(dev, inflight[l])[i]
    BY <1>1 DEF InStep
  <2>3. Coming(j + 4) = out[j + 1]
    <3>1. ~(j + 4 <= 3) /\ (j + 4) - 3 = j + 1
      OBVIOUS
    <3>. QED  BY <1>2, <3>1 DEF Coming
  <2>4. Coming(j)' = out'[j]
    <3>1. ~(j <= 0) /\ j - 0 = j
      OBVIOUS
    <3>. QED  BY <1>2, <3>1 DEF Coming
  <2>5. out'[j] = out[j + 1] /\ inflight'[k] = inflight[l]
    BY <1>3, <1>4, <2>1
  <2>. QED  BY <2>1, <2>2, <2>3, <2>4, <2>5
<1>8. mouse_cycle' + Len(out') = 4 * Len(inflight')
  <2>1. mouse_cycle' = 0 /\ Len(out') = w - 1 /\ Len(inflight') = n - 1
    BY <1>2, <1>3, <1>4
  <2>2. 3 + w = 4 * n /\ 4 * (n - 1) = 4 * n - 4
    BY <1>1
  <2>3. 0 + (w - 1) = 4 * (n - 1)
    BY <2>2
  <2>. QED  BY <2>1, <2>3
<1>9. \A k \in 1 .. Len(inflight'), i \in 1 .. 4 :
        Coming(4 * (k - 1) + i)' = Packet(dev', inflight'[k])[i]
  BY <1>2, <1>4, <1>7
<1>10. mouse_cycle' \in 0 .. 3
  BY <1>2
<1>. QED  BY <1>3, <1>4, <1>5, <1>6, <1>8, <1>9, <1>10 DEF InStep

\* Clamp moves a pointer as Follows allows.
LEMMA ClampFollows ==
  ASSUME NEW from \in Int, NEW by \in Int, NEW size \in Nat \ {0}
  PROVE  Follows(from, by, Clamp(from + by, size), size)
<1>1. PICK v \in Int : v = from + by
  OBVIOUS
<1>2. Clamp(v, size) = IF v < 0 THEN 0 ELSE IF v > size THEN size - 1 ELSE v
  BY DEF Clamp
<1>. QED  BY <1>1, <1>2 DEF Follows
-----------------------------------------------------------------------------

\* The steps of the console that the mouse sees.
MouseStep ==
  \/ UNCHANGED mouseVars
  \/ InitStep \/ KeyTyped \/ NoHandler \/ FirstBytes \/ LastByte
  \/ \E m \in Moves : Move(m)

\* Every step of the console is one of them.
LEMMA MouseSteps == ASSUME [Next]_vars PROVE MouseStep
<1>1. CASE Boot
  BY <1>1 DEF Boot, MouseStep
<1>2. CASE Moved
  BY <1>2 DEF Moved, MouseStep
<1>3. CASE TypedEarly
  BY <1>3 DEF TypedEarly, MouseStep
<1>4. CASE Interrupt
  BY <1>4 DEF Interrupt, MouseStep
<1>. QED
  BY <1>1, <1>2, <1>3, <1>4
     DEF Next, Shell, Booted, Printing, Listen, Editing, Key, Entered, Replies, Clears,
         EditCommand, Edit, LeaveEditor, Command, Prompts, Runs, vars, MouseStep

\* Every step of an undisturbed mouse_init keeps to the script.
LEMMA BootingKept ==
  ASSUME Starting, MouseStep
  PROVE  disturbed' = FALSE => Starting' \/ Running'
<1>. SUFFICES ASSUME disturbed' = FALSE PROVE Starting' \/ Running'
  OBVIOUS
<1>1. PICK b \in {0, 3, 4} : Booting(b)
  BY DEF Starting
<1>2. mline \in 1 .. 93 /\ Initialising
  BY <1>1, BootLines, ScriptLines DEF Initialising
<1>3. ~FirstBytes /\ ~LastByte
  BY DEF Starting, FirstBytes, LastByte, TakesByte
<1>4. ~KeyTyped
  BY DEF KeyTyped
<1>5. ~(\E m \in Moves : Move(m))
  <2>1. SUFFICES ASSUME NEW m \in Moves, Move(m) PROVE FALSE
    OBVIOUS
  <2>2. disturbed' = (disturbed \/ Initialising)
    BY <2>1 DEF Move
  <2>. QED  BY <1>2, <2>2
<1>6. CASE UNCHANGED mouseVars
  <2>1. Booting(b)'
    BY <1>1, <1>6
       DEF mouseVars, controller, Booting, EnablePart, AskPart, RatePart, ConfigPart, WritePart,
           TestPart, InstallPart, EnableState, AskState, RateState, ConfigState, WriteState,
           TestState, Bus, Quiet0
  <2>. QED  BY <1>6, <2>1 DEF mouseVars, controller, handler, Starting
<1>7. CASE NoHandler
  <2>1. Booting(b)'
    BY <1>1, <1>7, BootInterrupt
  <2>. QED  BY <1>7, <2>1 DEF NoHandler, handler, Starting
<1>8. CASE InitStep
  <2>1. CASE Booting(b)' /\ NextLine
    BY <2>1 DEF NextLine, handler, Starting
  <2>2. CASE /\ InstallPart(Dev7(b), 92)
             /\ mline' = 94 /\ installed' = TRUE
             /\ UNCHANGED <<controller, handler, inflight, disturbed>>
    <3>1. dev = Dev7(b) /\ out = <<>> /\ irq_on = TRUE /\ irq12 = FALSE
      BY <2>2 DEF InstallPart, TestState, Bus
    <3>2. UNCHANGED <<dev, out, irq_on, irq12, mouse_cycle, mouse_byte, g_mouse_x_pos,
                      g_mouse_y_pos, inflight>>
      BY <2>2 DEF controller, handler
    <3>3. mline' \in Nat /\ mline' > Len(Script)
      BY <2>2, ScriptLines
    <3>4. /\ dev'.streaming = TRUE /\ dev'.id = dev'.best /\ dev'.id \in {0, 3, 4}
          /\ irq12' \in BOOLEAN /\ out' \in Seq(Int)
      <4>1. dev' = Dev7(b) /\ Dev7(b).id = b /\ Dev7(b).best = b /\ Dev7(b).streaming = TRUE
        BY <3>1, <3>2, DevReady
      <4>2. out' = <<>> /\ irq12' = FALSE
        BY <3>1, <3>2
      <4>3. out' \in Seq(Int)
        BY <4>2
      <4>. QED  BY <4>1, <4>2, <4>3
    <3>5. InStep'
      <4>1. /\ mouse_byte' \in [1 .. 4 -> Int] /\ mouse_cycle' = 0
            /\ g_mouse_x_pos' \in Int /\ g_mouse_y_pos' \in Int
            /\ out' = <<>> /\ inflight' = <<>>
        BY <3>1, <3>2 DEF Starting
      <4>2. /\ out' \in Seq(Int) /\ Len(out') = 0
            /\ inflight' \in Seq(Moves) /\ Len(inflight') = 0
        BY <4>1
      <4>3. 1 .. Len(inflight') = {}
        BY <4>2
      <4>. QED  BY <4>1, <4>2, <4>3 DEF InStep
    <3>. QED  BY <2>2, <3>1, <3>2, <3>3, <3>4, <3>5 DEF Running
  <2>. QED  BY <1>1, <1>8, <2>1, <2>2, BootStep
<1>. QED  BY <1>3, <1>4, <1>5, <1>6, <1>7, <1>8 DEF MouseStep
-----------------------------------------------------------------------------

\* Every packet has a byte, and is made of integers.
LEMMA PacketBytes ==
  ASSUME NEW d, d.id \in {0, 3, 4}, NEW m \in Moves
  PROVE  Packet(d, m) \in Seq(Int) /\ Packet(d, m) # <<>>
<1>1. CASE d.id = 0
  <2>1. m.dx \in Int /\ m.dy \in Int
    BY MouseAssumption
  <2>2. PICK s : s = <<8, m.dx, m.dy>>
    OBVIOUS
  <2>3. s \in Seq(Int) /\ s # <<>>
    BY <2>1, <2>2
  <2>. QED  BY <1>1, <2>2, <2>3 DEF Packet
<1>2. CASE d.id # 0
  <2>1. Packet(d, m) \in Seq(Int) /\ Len(Packet(d, m)) = 4
    BY <1>2, PacketType
  <2>2. PICK s \in Seq(Int) : s = Packet(d, m) /\ Len(s) = 4
    BY <2>1
  <2>3. s # <<>>
    <3>1. Len(s) > 0
      BY <2>2
    <3>2. Len(s) > 0 => s # <<>>
      OBVIOUS
    <3>. QED  BY <3>1, <3>2
  <2>. QED  BY <2>2, <2>3
<1>. QED  BY <1>1, <1>2

\* The handler takes the byte whose interrupt was raised.
LEMMA TakenFacts ==
  ASSUME Running, TakesByte
  PROVE  /\ out # <<>> /\ out' \in Seq(Int) /\ irq12' \in BOOLEAN
         /\ irq12' => out' # <<>>
         /\ UNCHANGED <<dev, irq_on, mline, installed, disturbed>>
<1>1. /\ irq12 /\ Taken /\ UNCHANGED <<dev, irq_on, mline, installed, disturbed>>
  BY DEF TakesByte
<1>2. out \in Seq(Int) /\ out # <<>> /\ irq_on = TRUE
  BY <1>1 DEF Running
<1>3. out' = Tail(out) /\ irq12' = (irq_on /\ Len(out) > 1)
  BY <1>1, <1>2 DEF Taken
<1>4. out' \in Seq(Int) /\ (Len(out) > 1 => out' # <<>>)
  <2>1. PICK q \in Seq(Int) : q = out
    BY <1>2
  <2>2. q # <<>>
    BY <1>2, <2>1
  <2>3. Tail(q) \in Seq(Int) /\ Len(Tail(q)) = Len(q) - 1
    BY <2>2
  <2>4. PICK t \in Seq(Int) : t = Tail(q) /\ Len(t) = Len(q) - 1
    BY <2>3
  <2>5. Len(q) > 1 => Len(t) > 0
    BY <2>4
  <2>6. Len(t) > 0 => t # <<>>
    OBVIOUS
  <2>. QED  BY <1>3, <2>1, <2>4, <2>5, <2>6
<1>5. irq12' \in BOOLEAN
  <2>1. irq12' = (Len(out) > 1)
    BY <1>2, <1>3
  <2>. QED  BY <2>1
<1>. QED  BY <1>1, <1>2, <1>3, <1>4, <1>5

\* A handler that is in step stays so.
LEMMA RunningKept ==
  ASSUME Running, MouseStep
  PROVE  Running' /\ (disturbed \in BOOLEAN => disturbed' = disturbed)
<1>0. mline > 93 /\ ~Initialising
  BY ScriptLines DEF Running, Initialising
<1>1. ~InitStep /\ ~KeyTyped /\ ~NoHandler
  BY <1>0 DEF InitStep, KeyTyped, NoHandler, Running
<1>2. CASE UNCHANGED mouseVars
  <2>1. InStep => InStep'
    BY <1>2 DEF mouseVars, controller, handler, InStep, Coming
  <2>. QED  BY <1>2, <2>1 DEF mouseVars, controller, Running
<1>3. ASSUME NEW m \in Moves, Move(m)
      PROVE  Running' /\ (disturbed \in BOOLEAN => disturbed' = disturbed)
  <2>1. PICK p \in Seq(Int) : p = Packet(dev, m) /\ p # <<>>
    BY PacketBytes DEF Running
  <2>2. out' = out \o p /\ UNCHANGED <<dev, irq_on, mline, installed>>
    BY <1>3, <2>1 DEF Move, Offer
  <2>3. out' \in Seq(Int) /\ out' # <<>>
    <3>1. PICK q \in Seq(Int) : q = out
      BY DEF Running
    <3>2. q \o p \in Seq(Int) /\ Len(q \o p) = Len(q) + Len(p)
      OBVIOUS
    <3>3. Len(p) > 0 /\ Len(q) \in Nat
      BY <2>1
    <3>. QED  BY <2>2, <3>1, <3>2, <3>3
  <2>4. irq12' \in BOOLEAN
    <3>1. irq12' = (irq12 \/ (irq_on /\ out = <<>>))
      BY <1>3 DEF Move, Offer
    <3>. QED  BY <3>1
  <2>5. dev.id # 0 => InStep'
    BY <1>3, MoveInStep DEF Running
  <2>6. disturbed \in BOOLEAN => disturbed' = disturbed
    <3>1. disturbed' = (disturbed \/ Initialising)
      BY <1>3 DEF Move
    <3>. QED  BY <1>0, <3>1
  <2>. QED  BY <2>2, <2>3, <2>4, <2>5, <2>6 DEF Running
<1>4. CASE FirstBytes \/ LastByte
  <2>1. /\ out # <<>> /\ out' \in Seq(Int) /\ irq12' \in BOOLEAN
        /\ irq12' => out' # <<>>
        /\ UNCHANGED <<dev, irq_on, mline, installed, disturbed>>
    BY <1>4, TakenFacts DEF FirstBytes, LastByte
  <2>2. dev.id # 0 => InStep'
    <3>1. dev.id \in Int /\ (dev.id # 0 => InStep)
      BY DEF Running
    <3>. QED  BY <1>4, <2>1, <3>1, FirstInStep, LastInStep
  <2>. QED  BY <2>1, <2>2 DEF Running
<1>. QED  BY <1>1, <1>2, <1>3, <1>4 DEF MouseStep

\* A packet or a key that comes in mouse_init is remembered.
LEMMA DisturbedKept ==
  ASSUME disturbed \in BOOLEAN, MouseStep
  PROVE  disturbed' \in BOOLEAN /\ (disturbed' = FALSE => disturbed = FALSE)
<1>1. ASSUME NEW m \in Moves, Move(m)
      PROVE  disturbed' \in BOOLEAN /\ (disturbed' = FALSE => disturbed = FALSE)
  <2>1. disturbed' = (disturbed \/ Initialising)
    BY <1>1 DEF Move
  <2>. QED  BY <2>1
<1>2. CASE KeyTyped
  BY <1>2 DEF KeyTyped
<1>3. CASE UNCHANGED disturbed
  BY <1>3
<1>. QED
  BY <1>1, <1>2, <1>3
     DEF MouseStep, mouseVars, InitStep, NoHandler, FirstBytes, LastByte, TakesByte

\* Every step keeps the invariant.
LEMMA MouseInvKept == ASSUME MouseInv, MouseStep PROVE MouseInv'
<1>1. disturbed' \in BOOLEAN /\ (disturbed' = FALSE => disturbed = FALSE)
  BY DisturbedKept DEF MouseInv
<1>2. SUFFICES ASSUME disturbed' = FALSE PROVE Starting' \/ Running'
  BY <1>1 DEF MouseInv
<1>3. CASE Starting
  BY <1>2, <1>3, BootingKept
<1>4. CASE Running
  BY <1>4, RunningKept
<1>. QED  BY <1>1, <1>2, <1>3, <1>4 DEF MouseInv

\* Once mouse_init has ended, the invariant is MouseReady.
LEMMA MouseInvReady == MouseInv => MouseReady
<1>. SUFFICES ASSUME MouseInv, ~Initialising, ~disturbed
              PROVE  /\ installed /\ dev.streaming /\ dev.id = dev.best
                     /\ dev.id # 0 => (mouse_cycle + Len(out)) % 4 = 0
  BY DEF MouseReady
<1>1. ~Starting
  <2>1. \A b \in {0, 3, 4} : ~Booting(b)
    BY BootLines, ScriptLines DEF Initialising
  <2>. QED  BY <2>1 DEF Starting
<1>2. Running
  BY <1>1 DEF MouseInv
<1>3. ASSUME dev.id # 0 PROVE (mouse_cycle + Len(out)) % 4 = 0
  <2>1. InStep
    BY <1>2, <1>3 DEF Running
  <2>2. PICK n \in Nat : n = Len(inflight) /\ mouse_cycle + Len(out) = 4 * n
    BY <2>1 DEF InStep
  <2>3. (4 * n) % 4 = 0
    OBVIOUS
  <2>. QED  BY <2>2, <2>3
<1>. QED  BY <1>2, <1>3 DEF Running

\* What PointerFollows says of one step, and that every step does so.
PointerAction ==
  mouse_cycle = 3 /\ mouse_cycle' = 0 /\ ~disturbed /\ dev.id # 0 =>
    LET m == Head(inflight)
    IN /\ mouse_byte' = Packet(dev, m)
       /\ Follows(g_mouse_x_pos, m.dx, g_mouse_x_pos', Width)
       /\ Follows(g_mouse_y_pos, -m.dy, g_mouse_y_pos', Height)

LEMMA PointerActs == ASSUME MouseInv, MouseStep PROVE PointerAction
<1>. SUFFICES ASSUME mouse_cycle = 3, mouse_cycle' = 0, ~disturbed, dev.id # 0
              PROVE  /\ mouse_byte' = Packet(dev, Head(inflight))
                     /\ Follows(g_mouse_x_pos, Head(inflight).dx, g_mouse_x_pos', Width)
                     /\ Follows(g_mouse_y_pos, -Head(inflight).dy, g_mouse_y_pos', Height)
  BY DEF PointerAction
<1>1. LastByte
  <2>1. ASSUME NEW m \in Moves PROVE ~Move(m)
    BY DEF Move, handler
  <2>2. ~FirstBytes
    BY DEF FirstBytes
  <2>3. mouse_cycle' # mouse_cycle
    OBVIOUS
  <2>. QED
    BY <2>1, <2>2, <2>3
       DEF MouseStep, mouseVars, handler, InitStep, KeyTyped, NoHandler
<1>2. Running
  BY DEF MouseInv, Starting
<1>3. InStep /\ dev.id \in Int /\ out # <<>>
  <2>1. irq12
    BY <1>1 DEF LastByte, TakesByte
  <2>. QED  BY <1>2, <2>1 DEF Running
<1>4. /\ inflight # <<>> /\ Head(inflight) \in Moves
      /\ mouse_byte' = Packet(dev, Head(inflight))
      /\ mouse_byte[2] = Head(inflight).dx /\ mouse_byte[3] = Head(inflight).dy
  BY <1>1, <1>3, LastFacts
<1>5. PICK x \in Int, y \in Int, dx \in Int, dy \in Int :
        /\ x = g_mouse_x_pos /\ y = g_mouse_y_pos
        /\ dx = Head(inflight).dx /\ dy = Head(inflight).dy
  BY <1>3, <1>4, MouseAssumption DEF InStep
<1>6. g_mouse_x_pos' = Clamp(x + dx, Width) /\ g_mouse_y_pos' = Clamp(y - dy, Height)
  BY <1>1, <1>4, <1>5 DEF LastByte
<1>7. Follows(x, dx, Clamp(x + dx, Width), Width)
  BY ClampFollows, MouseAssumption
<1>8. Follows(y, -dy, Clamp(y - dy, Height), Height)
  <2>1. y + (-dy) = y - dy /\ -dy \in Int
    OBVIOUS
  <2>2. Follows(y, -dy, Clamp(y + (-dy), Height), Height)
    BY <2>1, ClampFollows, MouseAssumption
  <2>. QED  BY <2>1, <2>2
<1>. QED  BY <1>4, <1>5, <1>6, <1>7, <1>8

(***************************************************************************)
(* MouseReady for every screen, every kind of mouse and every movement: when *)
(* mouse_init (mouse.c) has read all its answers and nothing was moved or typed *)
(* meanwhile, the handler is installed, the mouse streams and has said what it *)
(* is, and the bytes counted and those that wait make up whole packets.  So each *)
(* read of mouse_init finds the byte it is meant for, also the interrupts that *)
(* are raised, with no handler installed, once it has enabled them.        *)
(***************************************************************************)
THEOREM ConsoleMouseReady == Spec => []MouseReady
<1>1. Init => MouseInv
  BY MouseInvInit DEF Init
<1>2. MouseInv /\ [Next]_vars => MouseInv'
  BY MouseSteps, MouseInvKept
<1>. QED  BY <1>1, <1>2, MouseInvReady, PTL DEF Spec

(***************************************************************************)
(* PointerFollows for every screen, every kind of mouse that has four bytes *)
(* in a packet and every movement, also those begun before the handler has *)
(* counted the last one: the four bytes that mouse_handler (mouse.c) has   *)
(* counted are one packet of the mouse, and the pointer goes where it says *)
(* if that is on the screen, to the first column or row if it is before    *)
(* it, and otherwise to the last one or one past it.                       *)
(***************************************************************************)
THEOREM ConsolePointer == Spec => PointerFollows
<1>1. Init => MouseInv
  BY MouseInvInit DEF Init
<1>2. MouseInv /\ [Next]_vars => MouseInv'
  BY MouseSteps, MouseInvKept
<1>3. MouseInv /\ [Next]_vars => [PointerAction]_mouseVars
  BY MouseSteps, PointerActs
<1>4. Spec => [][PointerAction]_mouseVars
  BY <1>1, <1>2, <1>3, PTL DEF Spec
<1>5. [][PointerAction]_mouseVars => PointerFollows
  BY PTL DEF PointerFollows, PointerAction
<1>. QED  BY <1>4, <1>5, PTL
=============================================================================
