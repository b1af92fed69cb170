---------------------------- MODULE E1000Proofs -----------------------------
(***************************************************************************)
(* Proofs about the descriptor rings, for every size of the two rings.     *)
(*                                                                         *)
(* Around the receive ring lie, in this order, the driver's rx_tail, the   *)
(* device's rdh and the tail register rdt, which is always the slot before *)
(* rx_tail.  Dist measures along the ring, so that "between" is a          *)
(* comparison of numbers.                                                  *)
(***************************************************************************)
EXTENDS E1000, SequenceTheorems, TLAPS

\* How far j lies after i in a ring of n slots.
Dist(i, j, n) == IF i <= j THEN j - i ELSE n + j - i

Frames == 0 .. MaxFrames
Copying == pc \in {"copying", "copied", "return"}
Copied == pc \in {"copied", "return"}

(* The slots with a frame for the driver are marked; e1000_receive has     *)
(* copied from the first of them what is still in it.                      *)
RxInv ==
  /\ TypeOK
  /\ arrived \in Frames
  /\ copy \in Seq(Frames) /\ Len(copy) = 2
  /\ After(rdt, NumRx) = rx_tail
  /\ stored => rdh # rdt
  /\ \A i \in RxSlots :
       rx_dd[i] <=> /\ Dist(rx_tail, i, NumRx) < Dist(rx_tail, rdh, NumRx)
                    /\ ~(i = rx_tail /\ pc = "return")
  /\ Copying => rx_tail # rdh /\ copy[1] = rx_bufs[rx_tail]
  /\ Copied => copy[2] = rx_bufs[rx_tail]

\* What has been queued and not sent is what lies between tdh and tdt ...
TxCounted ==
  /\ Len(wire) + Dist(tdh, tdt, NumTx) = accepted
  /\ \A i \in TxSlots :
       tx_dd[i] <=> Dist(tdh, i, NumTx) >= Dist(tdh, tdt, NumTx)

\* ... until the ring overflows: it looks empty, and nothing moves again.
TxStuck == tdh = tdt /\ \A i \in TxSlots : ~tx_dd[i]

TxInv ==
  /\ TypeOK
  /\ tx_tail = tdt
  /\ accepted \in Frames /\ wire \in Seq(Frames)
  /\ tx_buf = IF pc = "filled" THEN accepted + 1 ELSE accepted
  /\ pc \in {"wait", "filled"} => accepted < MaxFrames
  /\ pc = "filled" => tx_dd[tx_tail]
  /\ TxCounted \/ TxStuck
  /\ \A i \in DOMAIN wire : wire[i] >= i

E1000Inv == RxInv /\ TxInv
-----------------------------------------------------------------------------
LEMMA AfterIs ==
  ASSUME NEW n \in Nat \ {0}, NEW i \in 0 .. n - 1
  PROVE  After(i, n) = (IF i = n - 1 THEN 0 ELSE i + 1)
BY DEF After

LEMMA DistIs ==
  ASSUME NEW n \in Nat \ {0}, NEW i \in 0 .. n - 1, NEW j \in 0 .. n - 1
  PROVE  (n + j - i) % n = Dist(i, j, n)
BY DEF Dist

(* Arc(i, j, n) is what lies closer after i than j does.                   *)
LEMMA ArcIs ==
  ASSUME NEW n \in Nat \ {0}, NEW i \in 0 .. n - 1, NEW j \in 0 .. n - 1,
         NEW s \in Arc(i, j, n)
  PROVE  s \in 0 .. n - 1 /\ Dist(i, s, n) < Dist(i, j, n)
<1>1. PICK k \in 0 .. Dist(i, j, n) - 1 : s = (i + k) % n
  BY DistIs DEF Arc
<1>2. Dist(i, j, n) \in 0 .. n - 1
  BY DEF Dist
<1>3. s = IF i + k < n THEN i + k ELSE i + k - n
  BY <1>1, <1>2
<1>. QED  BY <1>1, <1>2, <1>3 DEF Dist

LEMMA E1000InvInit == Init => E1000Inv
<1>. SUFFICES ASSUME Init PROVE E1000Inv
  OBVIOUS
<1>. USE RingAssumption DEF Init, NoFrame, RxSlots, TxSlots
<1>1. rx_dd \in [RxSlots -> BOOLEAN] /\ tx_dd \in [TxSlots -> BOOLEAN]
  OBVIOUS
<1>2. rx_bufs \in [RxSlots -> 0 .. MaxFrames] /\ tx_buf \in 0 .. MaxFrames
  OBVIOUS
<1>3. {rdh, rdt, rx_tail} \subseteq RxSlots /\ {tdh, tdt, tx_tail} \subseteq TxSlots
  OBVIOUS
<1>4. TypeOK
  BY <1>1, <1>2, <1>3 DEF TypeOK
<1>5. RxInv
  BY <1>4, AfterIs DEF RxInv, Dist, Frames, Copying, Copied
<1>6. TxInv
  BY <1>4 DEF TxInv, TxCounted, Dist, Frames
<1>. QED  BY <1>5, <1>6 DEF E1000Inv

LEMMA StepTypeOK ==
  ASSUME E1000Inv, [Next]_vars
  PROVE  TypeOK'
<1>. USE RingAssumption DEF RxSlots, TxSlots, After
<1>1. TypeOK /\ arrived \in 0 .. MaxFrames /\ accepted \in 0 .. MaxFrames
  BY DEF E1000Inv, RxInv, TxInv, Frames
<1>2. {rdh, rdt, rx_tail}' \subseteq RxSlots /\ {tdh, tdt, tx_tail}' \subseteq TxSlots
  <2>. {rdh, rdt, rx_tail} \subseteq RxSlots /\ {tdh, tdt, tx_tail} \subseteq TxSlots
    BY <1>1 DEF TypeOK
  <2>. /\ (rdh + 1) % NumRx \in RxSlots /\ (rx_tail + 1) % NumRx \in RxSlots
       /\ (tdh + 1) % NumTx \in TxSlots /\ (tx_tail + 1) % NumTx \in TxSlots
    OBVIOUS
  <2>1. CASE Mark \/ Receive
    BY <2>1 DEF Mark, Receive, ReturnedSlot, tx
  <2>2. CASE Transmit \/ Queue
    BY <2>2 DEF Transmit, Queue, rx
  <2>3. CASE UNCHANGED <<rdh, rdt, rx_tail, tdh, tdt, tx_tail>>
    BY <1>1, <2>3 DEF TypeOK
  <2>. QED
    BY <2>1, <2>2, <2>3 DEF Next, Arrive, Poll, NothingReceived, CopyRest, ClearStatus,
                      Send, CopyFrame, TimeOut, rx, tx, vars
<1>3. rx_dd' \in [RxSlots -> BOOLEAN]
  <2>1. CASE Mark \/ ClearStatus
    BY <1>1, <2>1 DEF TypeOK, Mark, ClearStatus
  <2>2. CASE UNCHANGED rx_dd
    BY <1>1, <2>2 DEF TypeOK
  <2>. QED
    BY <2>1, <2>2 DEF Next, Arrive, Transmit, Poll, NothingReceived, CopyRest, Receive,
                      Send, CopyFrame, TimeOut, Queue, rx, vars
<1>4. tx_dd' \in [TxSlots -> BOOLEAN]
  <2>1. CASE Transmit \/ Queue
    BY <1>1, <2>1 DEF TypeOK, Transmit, Queue
  <2>2. CASE UNCHANGED tx_dd
    BY <1>1, <2>2 DEF TypeOK
  <2>. QED
    BY <2>1, <2>2 DEF Next, Arrive, Mark, Poll, NothingReceived, CopyRest, ClearStatus,
                      Receive, Send, CopyFrame, TimeOut, tx, vars
<1>5. rx_bufs' \in [RxSlots -> 0 .. MaxFrames]
  <2>1. CASE Arrive
    <3>1. arrived' \in 0 .. MaxFrames
      BY <1>1, <2>1 DEF Arrive
    <3>. QED  BY <1>1, <2>1, <3>1 DEF TypeOK, Arrive
  <2>2. CASE UNCHANGED rx_bufs
    BY <1>1, <2>2 DEF TypeOK
  <2>. QED
    BY <2>1, <2>2 DEF Next, Mark, Transmit, Poll, NothingReceived, CopyRest, ClearStatus,
                      Receive, Send, CopyFrame, TimeOut, Queue, rx, vars
<1>6. tx_buf' \in 0 .. MaxFrames
  <2>1. CASE CopyFrame
    BY <1>1, <2>1 DEF CopyFrame, E1000Inv, TxInv
  <2>2. CASE UNCHANGED tx_buf
    BY <1>1, <2>2 DEF TypeOK
  <2>. QED
    BY <2>1, <2>2 DEF Next, Arrive, Mark, Transmit, Poll, NothingReceived, CopyRest,
                      ClearStatus, Receive, Send, TimeOut, Queue, tx, vars
<1>7. stored' \in BOOLEAN
     /\ pc' \in {"idle", "copying", "copied", "return", "wait", "filled"}
  BY <1>1 DEF TypeOK, Next, Arrive, Mark, Transmit, Poll, NothingReceived, CopyRest,
              ClearStatus, Receive, Send, CopyFrame, TimeOut, Queue, rx, tx, vars
<1>. QED  BY <1>2, <1>3, <1>4, <1>5, <1>6, <1>7 DEF TypeOK

(* The receive descriptors, action by action.                              *)
LEMMA RxInvStep ==
  ASSUME E1000Inv, [Next]_vars
  PROVE  RxInv'
<1>. USE RingAssumption
<1>. TypeOK' /\ RxInv /\ TypeOK
  BY StepTypeOK DEF E1000Inv, RxInv
<1>. DEFINE d == Dist(rx_tail, rdh, NumRx)
<1>0. /\ rdh \in RxSlots /\ rdt \in RxSlots /\ rx_tail \in RxSlots
      /\ rx_tail = (IF rdt = NumRx - 1 THEN 0 ELSE rdt + 1)
  BY AfterIs DEF TypeOK, RxInv, RxSlots
<1>1. CASE Arrive
  <2>1. /\ arrived' \in Frames /\ (stored' => rdh # rdt)
        /\ \A i \in RxSlots \ {rdh} : rx_bufs'[i] = rx_bufs[i]
        /\ UNCHANGED <<rdh, rdt, rx_dd, rx_tail, copy, pc>>
    BY <1>1 DEF Arrive, RxInv, Frames, TypeOK
  <2>. QED  BY <1>0, <2>1 DEF RxInv, Copying, Copied
<1>2. CASE Mark
  <2>1. /\ rdh' = (IF rdh = NumRx - 1 THEN 0 ELSE rdh + 1)
        /\ rdh # rdt /\ stored' = FALSE
        /\ rx_dd' = [rx_dd EXCEPT ![rdh] = TRUE]
        /\ UNCHANGED <<rdt, rx_bufs, rx_tail, copy, arrived, pc>>
    BY <1>0, <1>2, AfterIs DEF Mark, RxInv, RxSlots, tx, After
  <2>2. rdh' # rx_tail /\ Dist(rx_tail, rdh', NumRx) = d + 1
    BY <1>0, <2>1 DEF Dist, RxSlots
  <2>3. ASSUME NEW i \in RxSlots
        PROVE  rx_dd'[i] <=> /\ Dist(rx_tail, i, NumRx) < d + 1
                             /\ ~(i = rx_tail /\ pc = "return")
    <3>1. CASE i = rdh
      BY <1>0, <2>1, <3>1 DEF RxInv, Dist, RxSlots, TypeOK, Copying
    <3>2. CASE i # rdh
      <4>1. Dist(rx_tail, i, NumRx) # d
        BY <1>0, <3>2 DEF Dist, RxSlots
      <4>2. rx_dd'[i] = rx_dd[i]
        BY <2>1, <3>2 DEF TypeOK
      <4>3. Dist(rx_tail, i, NumRx) \in Int /\ d \in Int
        BY <1>0 DEF Dist, RxSlots
      <4>. QED  BY <4>1, <4>2, <4>3 DEF RxInv
    <3>. QED  BY <3>1, <3>2
  <2>. QED  BY <2>1, <2>2, <2>3 DEF RxInv, Copying, Copied
<1>3. CASE Poll
  <2>1. rx_tail # rdh
    BY <1>0, <1>3 DEF Poll, RxInv, Dist, RxSlots
  <2>2. rx_bufs[rx_tail] \in Frames
    BY <1>0 DEF TypeOK, Frames
  <2>3. /\ pc = "idle" /\ pc' = "copying"
        /\ copy' = [copy EXCEPT ![1] = rx_bufs[rx_tail]]
        /\ UNCHANGED <<rdh, rdt, rx_dd, rx_bufs, rx_tail, arrived, stored>>
    BY <1>3 DEF Poll
  <2>4. /\ copy' \in Seq(Frames) /\ Len(copy') = 2
        /\ copy'[1] = rx_bufs[rx_tail]
    <3>1. copy \in Seq(Frames) /\ Len(copy) = 2 /\ 1 \in 1 .. Len(copy)
      BY DEF RxInv
    <3>. QED  BY <2>2, <2>3, <3>1, ExceptSeq
  <2>. QED  BY <2>1, <2>3, <2>4 DEF RxInv, Copying, Copied
<1>4. CASE CopyRest
  <2>1. rx_bufs[rx_tail] \in Frames
    BY <1>0 DEF TypeOK, Frames
  <2>2. /\ copy' \in Seq(Frames) /\ Len(copy') = 2
        /\ copy'[1] = copy[1] /\ copy'[2] = rx_bufs[rx_tail]
    BY <1>4, <2>1, ExceptSeq DEF CopyRest, RxInv
  <2>. QED  BY <1>4, <2>2 DEF CopyRest, RxInv, Copying, Copied
<1>5. CASE ClearStatus
  BY <1>0, <1>5 DEF ClearStatus, RxInv, Copying, Copied, TypeOK
<1>6. CASE Receive
  <2>1. /\ rx_tail' = (IF rx_tail = NumRx - 1 THEN 0 ELSE rx_tail + 1)
        /\ rdt' = rx_tail /\ rx_tail # rdh /\ pc = "return" /\ pc' = "idle"
        /\ UNCHANGED <<rdh, rx_dd, rx_bufs, copy, arrived, stored>>
    BY <1>0, <1>6, AfterIs DEF Receive, RxInv, RxSlots, Copying, ReturnedSlot
  <2>2. Dist(rx_tail', rdh, NumRx) = d - 1
    BY <1>0, <2>1 DEF Dist, RxSlots
  <2>3. ASSUME NEW i \in RxSlots
        PROVE  rx_dd'[i] <=> Dist(rx_tail', i, NumRx) < d - 1
    <3>1. rx_dd'[i] <=> Dist(rx_tail, i, NumRx) < d /\ i # rx_tail
      BY <2>1 DEF RxInv
    <3>2. Dist(rx_tail', i, NumRx) = IF i = rx_tail THEN NumRx - 1
                                     ELSE Dist(rx_tail, i, NumRx) - 1
      BY <1>0, <2>1 DEF Dist, RxSlots
    <3>3. d \in 0 .. NumRx - 1 /\ Dist(rx_tail, i, NumRx) \in Int
      BY <1>0 DEF Dist, RxSlots
    <3>. QED  BY <3>1, <3>2, <3>3
  <2>4. After(rdt', NumRx) = rx_tail'
    BY <1>6 DEF Receive, ReturnedSlot
  <2>. QED  BY <2>1, <2>2, <2>3, <2>4 DEF RxInv, Copying, Copied
<1>7. CASE Transmit \/ Send \/ CopyFrame \/ TimeOut \/ Queue
  <2>1. \/ UNCHANGED rx /\ ~Copying' /\ pc' # "return" /\ pc # "return"
        \/ UNCHANGED <<rx, pc>>
    BY <1>7 DEF Transmit, Send, CopyFrame, TimeOut, Queue, Copying
  <2>. QED  BY <2>1 DEF rx, RxInv, Copying, Copied
<1>8. CASE UNCHANGED vars
  BY <1>8 DEF vars, rx, RxInv, Copying, Copied
<1>. QED
  BY <1>1, <1>2, <1>3, <1>4, <1>5, <1>6, <1>7, <1>8 DEF Next, NothingReceived

(* The transmit descriptors, action by action.                             *)
LEMMA TxInvStep ==
  ASSUME E1000Inv, [Next]_vars
  PROVE  TxInv'
<1>. USE RingAssumption
<1>. TypeOK' /\ TxInv /\ TypeOK
  BY StepTypeOK DEF E1000Inv, TxInv
<1>. DEFINE d == Dist(tdh, tdt, NumTx)
<1>0. /\ tdh \in TxSlots /\ tdt \in TxSlots /\ tx_tail = tdt
      /\ accepted \in Nat /\ Len(wire) \in Nat
  BY DEF TypeOK, TxInv, Frames
<1>1. CASE Transmit
  <2>1. /\ tdh' = (IF tdh = NumTx - 1 THEN 0 ELSE tdh + 1)
        /\ tdh # tdt /\ tx_dd' = [tx_dd EXCEPT ![tdh] = TRUE]
        /\ wire' = Append(wire, tx_buf)
        /\ UNCHANGED <<tdt, tx_tail, tx_buf, accepted, pc>>
    BY <1>0, <1>1, AfterIs DEF Transmit, TxSlots, After
  <2>2. TxCounted /\ Dist(tdh', tdt, NumTx) = d - 1 /\ d > 0
    BY <1>0, <2>1 DEF TxInv, TxStuck, Dist, TxSlots
  <2>3. tx_buf \in Frames /\ tx_buf >= Len(wire) + 1
    <3>1. d \in Nat /\ Len(wire) + d = accepted /\ accepted <= tx_buf
      BY <1>0, <2>2 DEF TxInv, TxCounted, Dist, TxSlots
    <3>2. tx_buf \in Frames
      BY DEF TypeOK, Frames
    <3>. QED  BY <1>0, <2>2, <3>1, <3>2 DEF Frames
  <2>4. /\ wire' \in Seq(Frames) /\ Len(wire') = Len(wire) + 1
        /\ \A i \in 1 .. Len(wire) : wire'[i] = wire[i]
        /\ wire'[Len(wire) + 1] = tx_buf
    <3>1. wire \in Seq(Frames)
      BY DEF TxInv
    <3>. QED  BY <2>1, <2>3, <3>1, AppendProperties
  <2>8. \A i \in DOMAIN wire' : wire'[i] >= i
    BY <1>0, <2>3, <2>4 DEF TxInv
  <2>5. ASSUME NEW i \in TxSlots
        PROVE  tx_dd'[i] <=> Dist(tdh', i, NumTx) >= d - 1
    <3>1. CASE i = tdh
      <4>1. tx_dd'[i]
        <5>1. tx_dd \in [TxSlots -> BOOLEAN]
          BY DEF TypeOK
        <5>. QED  BY <2>1, <3>1, <5>1
      <4>2. Dist(tdh', i, NumTx) >= d - 1
        <5>1. Dist(tdh', i, NumTx) = NumTx - 1
          BY <1>0, <2>1, <3>1 DEF TxSlots, Dist
        <5>2. d \in Int /\ d <= NumTx - 1
          BY <1>0 DEF TxSlots, Dist
        <5>. QED  BY <5>1, <5>2
      <4>. QED  BY <4>1, <4>2
    <3>2. CASE i # tdh
      <4>1. tx_dd'[i] = tx_dd[i] /\ Dist(tdh', i, NumTx) = Dist(tdh, i, NumTx) - 1
        BY <1>0, <2>1, <3>2 DEF TypeOK, TxSlots, Dist
      <4>2. Dist(tdh, i, NumTx) \in Int /\ d \in Int
        BY <1>0 DEF Dist, TxSlots
      <4>. QED  BY <2>2, <4>1, <4>2 DEF TxCounted
    <3>. QED  BY <3>1, <3>2
  <2>6. TxCounted'
    <3>1. d \in Int
      BY <1>0 DEF Dist, TxSlots
    <3>. QED  BY <1>0, <2>1, <2>2, <2>4, <2>5, <3>1 DEF TxCounted
  <2>7. pc = "filled" => tx_dd'[tx_tail]
    BY <1>0, <2>1 DEF TypeOK, TxInv
  <2>. QED  BY <2>1, <2>4, <2>6, <2>7, <2>8 DEF TxInv
<1>2. CASE Send \/ TimeOut \/ CopyFrame
  BY <1>0, <1>2 DEF Send, TimeOut, CopyFrame, DescriptorFree, TxInv, TxCounted, TxStuck,
                    tx, Frames
<1>3. CASE Queue
  <2>1. /\ tdt' = (IF tdt = NumTx - 1 THEN 0 ELSE tdt + 1) /\ tx_tail' = tdt'
        /\ tx_dd[tdt] /\ tx_dd' = [tx_dd EXCEPT ![tdt] = FALSE]
        /\ accepted' = accepted + 1 /\ accepted < MaxFrames
        /\ tx_buf' = accepted' /\ pc' = "idle"
        /\ UNCHANGED <<tdh, wire>>
    BY <1>0, <1>3, AfterIs DEF Queue, TxInv, TxSlots
  <2>2. TxCounted
    BY <1>0, <2>1 DEF TxInv, TxStuck
  <2>3. ASSUME NEW i \in TxSlots
        PROVE  tx_dd'[i] <=> Dist(tdh, i, NumTx) >= d + 1
    <3>1. CASE i = tdt
      BY <1>0, <2>1, <3>1 DEF TypeOK, TxSlots, Dist
    <3>2. CASE i # tdt
      <4>1. tx_dd'[i] = tx_dd[i] /\ Dist(tdh, i, NumTx) # d
        BY <1>0, <2>1, <3>2 DEF TypeOK, TxSlots, Dist
      <4>2. Dist(tdh, i, NumTx) \in Int /\ d \in Int
        BY <1>0 DEF Dist, TxSlots
      <4>. QED  BY <2>2, <4>1, <4>2 DEF TxCounted
    <3>. QED  BY <3>1, <3>2
  <2>4. CASE tdt' # tdh
    <3>1. Dist(tdh, tdt', NumTx) = d + 1
      BY <1>0, <2>1, <2>4 DEF TxSlots, Dist
    <3>2. TxCounted'
      BY <1>0, <2>1, <2>2, <2>3, <3>1 DEF TxCounted, Dist, TxSlots
    <3>. QED  BY <1>0, <2>1, <3>2 DEF TxInv, Frames
  <2>5. CASE tdt' = tdh
    <3>1. TxStuck'
      BY <1>0, <2>1, <2>3, <2>5 DEF TxStuck, Dist, TxSlots
    <3>. QED  BY <1>0, <2>1, <3>1 DEF TxInv, Frames
  <2>. QED  BY <2>4, <2>5
<1>4. CASE UNCHANGED tx /\ ~(pc = "filled") /\ ~(pc' \in {"wait", "filled"})
  BY <1>4 DEF tx, TxInv, TxCounted, TxStuck
<1>5. CASE UNCHANGED <<tx, pc>>
  BY <1>5 DEF tx, TxInv, TxCounted, TxStuck
<1>. QED
  BY <1>1, <1>2, <1>3, <1>4, <1>5
  DEF Next, Arrive, Mark, Poll, NothingReceived, CopyRest, ClearStatus, Receive, vars

LEMMA E1000Always == Spec => []E1000Inv
<1>1. E1000Inv /\ [Next]_vars => E1000Inv'
  BY RxInvStep, TxInvStep DEF E1000Inv
<1>. QED  BY <1>1, E1000InvInit, PTL DEF Spec
-----------------------------------------------------------------------------
(* The driver and the device never own a receive descriptor together       *)
(* (DescriptorsDivided), whatever the size of the ring and however the     *)
(* device's steps fall between those of e1000_receive.                     *)
THEOREM E1000DescriptorsDivided == Spec => []DescriptorsDivided
<1>1. E1000Inv => DescriptorsDivided
  <2>. SUFFICES ASSUME E1000Inv PROVE DescriptorsDivided
    OBVIOUS
  <2>. USE RingAssumption
  <2>1. /\ TypeOK /\ rdh \in RxSlots /\ rdt \in RxSlots /\ rx_tail \in RxSlots
        /\ rx_tail = (IF rdt = NumRx - 1 THEN 0 ELSE rdt + 1)
    BY AfterIs DEF E1000Inv, TypeOK, RxInv, RxSlots
  <2>2. ASSUME NEW i \in Arc(rdh, rdt, NumRx)
        PROVE  ~rx_dd[i]
    <3>1. i \in RxSlots /\ Dist(rdh, i, NumRx) < Dist(rdh, rdt, NumRx)
      BY <2>1, ArcIs DEF RxSlots
    <3>2. ~(Dist(rx_tail, i, NumRx) < Dist(rx_tail, rdh, NumRx))
      BY <2>1, <3>1 DEF Dist, RxSlots
    <3>. QED  BY <3>1, <3>2 DEF E1000Inv, RxInv
  <2>3. ASSUME NEW i \in Arc(rx_tail, rdh, NumRx)
        PROVE  rx_dd[i] \/ (i = rx_tail /\ pc = "return")
    <3>1. i \in RxSlots /\ Dist(rx_tail, i, NumRx) < Dist(rx_tail, rdh, NumRx)
      BY <2>1, ArcIs DEF RxSlots
    <3>. QED  BY <3>1 DEF E1000Inv, RxInv
  <2>. QED  BY <2>1, <2>2, <2>3 DEF DescriptorsDivided
<1>. QED  BY <1>1, E1000Always, PTL

(* Every frame that e1000_send answered with 0 is transmitted once, as     *)
(* itself or as a newer one, unless the transmit ring overflows.           *)
THEOREM E1000FramesTransmitted == Spec => []FramesTransmitted
<1>1. E1000Inv => FramesTransmitted
  <2>. SUFFICES ASSUME E1000Inv PROVE FramesTransmitted
    OBVIOUS
  <2>1. \A i \in DOMAIN wire : wire[i] >= i
    BY DEF E1000Inv, TxInv
  <2>2. ASSUME tdh = tdt, NEW i \in TxSlots, tx_dd[i]
        PROVE  Len(wire) = accepted
    <3>1. TxCounted
      BY <2>2 DEF E1000Inv, TxInv, TxStuck
    <3>2. Dist(tdh, tdt, NumTx) = 0 /\ Len(wire) \in Nat
      BY <2>2, RingAssumption DEF Dist, E1000Inv, TxInv, TypeOK, TxSlots
    <3>. QED  BY <3>1, <3>2 DEF TxCounted
  <2>. QED  BY <2>1, <2>2 DEF FramesTransmitted
<1>. QED  BY <1>1, E1000Always, PTL

-----------------------------------------------------------------------------
\* The k-th slot from t on, and the frames in the slots from t up to h,
\* with the one at h if it has been stored.
Slot(t, k) == IF t + k - 1 < NumRx THEN t + k - 1 ELSE t + k - 1 - NumRx

FramesFrom(t, h, bufs, more) ==
  [k \in 1 .. (NumRx + h - t) % NumRx |-> bufs[(t + k - 1) % NumRx]]
    \o (IF more THEN <<bufs[h]>> ELSE <<>>)

LEMMA FramesFromIs ==
  ASSUME NEW t \in RxSlots, NEW h \in RxSlots, NEW bufs \in [RxSlots -> Frames],
         NEW more \in BOOLEAN
  PROVE  LET q == FramesFrom(t, h, bufs, more)
             d == Dist(t, h, NumRx)
         IN /\ d \in 0 .. NumRx - 1
            /\ q \in Seq(Frames)
            /\ Len(q) = IF more THEN d + 1 ELSE d
            /\ \A k \in 1 .. Len(q) : q[k] = bufs[Slot(t, k)]
<1>. USE RingAssumption DEF RxSlots
<1>. DEFINE d == Dist(t, h, NumRx)
            s == [k \in 1 .. d |-> bufs[Slot(t, k)]]
            r == IF more THEN <<bufs[h]>> ELSE <<>>
<1>1. d \in 0 .. NumRx - 1 /\ (NumRx + h - t) % NumRx = d
  <2>1. d \in 0 .. NumRx - 1
    BY DEF Dist
  <2>. QED  BY <2>1, DistIs
<1>2. \A k \in 1 .. d : (t + k - 1) % NumRx = Slot(t, k) /\ Slot(t, k) \in RxSlots
  BY <1>1 DEF Slot
<1>3. FramesFrom(t, h, bufs, more) = s \o r
  BY <1>1, <1>2 DEF FramesFrom
<1>4. s \in Seq(Frames) /\ Len(s) = d
  <2>1. s \in [1 .. d -> Frames]
    BY <1>2
  <2>. HIDE DEF d
  <2>. QED  BY <1>1, <2>1
<1>5. r \in Seq(Frames) /\ Len(r) = IF more THEN 1 ELSE 0
  OBVIOUS
<1>6. Slot(t, d + 1) = h
  BY DEF Slot, Dist
<1>7. /\ s \o r \in Seq(Frames)
      /\ Len(s \o r) = IF more THEN d + 1 ELSE d
      /\ \A k \in 1 .. Len(s) + Len(r) :
           (s \o r)[k] = IF k <= Len(s) THEN s[k] ELSE r[k - Len(s)]
  <2>. HIDE DEF s, r, d
  <2>1. /\ s \o r \in Seq(Frames) /\ Len(s \o r) = Len(s) + Len(r)
        /\ \A k \in 1 .. Len(s) + Len(r) :
             (s \o r)[k] = IF k <= Len(s) THEN s[k] ELSE r[k - Len(s)]
    BY <1>4, <1>5, ConcatProperties
  <2>2. CASE more
    BY <1>1, <1>4, <1>5, <2>1, <2>2
  <2>3. CASE ~more
    BY <1>1, <1>4, <1>5, <2>1, <2>3
  <2>. QED  BY <2>2, <2>3
<1>8. ASSUME NEW k \in 1 .. Len(s \o r)
      PROVE  (s \o r)[k] = bufs[Slot(t, k)]
  <2>1. CASE k <= d
    BY <1>1, <1>4, <1>5, <1>7, <2>1
  <2>2. CASE k > d
    <3>1. k = d + 1 /\ more = TRUE
      BY <1>1, <1>7, <2>2
    <3>2. (s \o r)[k] = r[1]
      BY <1>1, <1>4, <1>5, <1>7, <3>1
    <3>. QED  BY <1>6, <3>1, <3>2
  <2>. QED  BY <1>1, <2>1, <2>2
<1>. QED  BY <1>1, <1>3, <1>7, <1>8

\* What RxFifo calls its queue.
Waiting == FramesFrom(rx_tail, rdh, rx_bufs, stored)

WaitingFacts ==
  /\ Dist(rx_tail, rdh, NumRx) \in 0 .. NumRx - 1
  /\ Waiting \in Seq(Frames)
  /\ Len(Waiting) = IF stored THEN Dist(rx_tail, rdh, NumRx) + 1
                    ELSE Dist(rx_tail, rdh, NumRx)
  /\ \A k \in 1 .. Len(Waiting) : Waiting[k] = rx_bufs[Slot(rx_tail, k)]

LEMMA WaitingIs == E1000Inv => WaitingFacts
<1>. SUFFICES ASSUME E1000Inv PROVE WaitingFacts
  OBVIOUS
<1>1. /\ rx_tail \in RxSlots /\ rdh \in RxSlots /\ stored \in BOOLEAN
      /\ rx_bufs \in [RxSlots -> Frames]
  BY DEF E1000Inv, RxInv, TypeOK, Frames
<1>. QED  BY <1>1, FramesFromIs DEF Waiting, WaitingFacts

(* A frame is stored at the end of the queue if there is room.             *)
LEMMA ArriveEnqueues ==
  ASSUME E1000Inv, E1000Inv', Arrive
  PROVE  \/ /\ Len(Waiting) < NumRx - 1
            /\ arrived' = arrived + 1 /\ Waiting' = Append(Waiting, arrived')
         \/ /\ Len(Waiting) = NumRx - 1
            /\ arrived' = arrived + 1 /\ Waiting' = Waiting
<1>. USE RingAssumption
<1>. DEFINE d == Dist(rx_tail, rdh, NumRx)
<1>. WaitingFacts /\ WaitingFacts'
  BY WaitingIs, PTL
<1>0. /\ rdh \in RxSlots /\ rdt \in RxSlots /\ rx_tail \in RxSlots
      /\ rx_tail = (IF rdt = NumRx - 1 THEN 0 ELSE rdt + 1)
  BY AfterIs DEF E1000Inv, TypeOK, RxInv, RxSlots
<1>1. /\ arrived' = arrived + 1 /\ arrived' \in Frames /\ ~stored
      /\ UNCHANGED <<rdh, rx_tail>>
  BY DEF Arrive, E1000Inv, RxInv
<1>2. CASE rdh = rdt
  <2>1. d = NumRx - 1
    BY <1>0, <1>2 DEF Dist, RxSlots
  <2>2. Waiting' = Waiting
    BY <1>1, <1>2 DEF Arrive, Waiting
  <2>. QED  BY <1>1, <2>1, <2>2 DEF WaitingFacts
<1>3. CASE rdh # rdt
  <2>1. d < NumRx - 1
    BY <1>0, <1>3 DEF Dist, RxSlots
  <2>2. stored' /\ rx_bufs' = [rx_bufs EXCEPT ![rdh] = arrived']
    BY <1>3 DEF Arrive
  <2>3. /\ Waiting \in Seq(Frames) /\ Len(Waiting) = d /\ d \in Nat
        /\ Waiting' \in Seq(Frames) /\ Len(Waiting') = d + 1
        /\ \A k \in 1 .. d + 1 : Waiting'[k] = rx_bufs'[Slot(rx_tail, k)]
        /\ \A k \in 1 .. d : Waiting[k] = rx_bufs[Slot(rx_tail, k)]
    BY <1>1, <2>2 DEF WaitingFacts
  <2>4. rx_bufs \in [RxSlots -> Frames]
    BY DEF E1000Inv, RxInv, TypeOK, Frames
  <2>5. \A k \in 1 .. d : Slot(rx_tail, k) \in RxSlots \ {rdh}
    BY <1>0 DEF Slot, Dist, RxSlots
  <2>6. Slot(rx_tail, d + 1) = rdh
    BY <1>0 DEF Slot, Dist, RxSlots
  <2>7. ASSUME NEW k \in 1 .. d + 1
        PROVE  Waiting'[k] = Append(Waiting, arrived')[k]
    <3>. HIDE DEF d
    <3>1. CASE k = d + 1
      BY <1>0, <1>1, <2>2, <2>3, <2>4, <2>6, <3>1, AppendProperties
    <3>2. CASE k \in 1 .. d
      BY <1>0, <1>1, <2>2, <2>3, <2>4, <2>5, <3>2, AppendProperties
    <3>. QED  BY <2>3, <3>1, <3>2
  <2>8. Waiting' = Append(Waiting, arrived')
    <3>. HIDE DEF d
    <3>1. Append(Waiting, arrived') \in Seq(Frames) /\ Len(Append(Waiting, arrived')) = d + 1
      BY <1>1, <2>3, AppendProperties
    <3>. QED  BY <2>3, <2>7, <3>1, SeqEqual
  <2>. QED  BY <1>1, <2>1, <2>3, <2>8
<1>. QED  BY <1>2, <1>3

(* Marking the frame makes it the driver's, and the queue what it was.     *)
LEMMA MarkKeepsQueue ==
  ASSUME E1000Inv, E1000Inv', Mark
  PROVE  Waiting' = Waiting
<1>. USE RingAssumption
<1>. DEFINE d == Dist(rx_tail, rdh, NumRx)
<1>. WaitingFacts /\ WaitingFacts'
  BY WaitingIs, PTL
<1>0. /\ rdh \in RxSlots /\ rdt \in RxSlots /\ rx_tail \in RxSlots /\ rdh # rdt
      /\ rx_tail = (IF rdt = NumRx - 1 THEN 0 ELSE rdt + 1)
      /\ stored /\ ~stored' /\ UNCHANGED <<rx_tail, rx_bufs>>
      /\ rdh' = (IF rdh = NumRx - 1 THEN 0 ELSE rdh + 1)
  BY AfterIs DEF E1000Inv, TypeOK, RxInv, RxSlots, Mark, After
<1>1. Dist(rx_tail, rdh', NumRx) = d + 1
  BY <1>0 DEF Dist, RxSlots
<1>2. /\ Waiting \in Seq(Frames) /\ Len(Waiting) = d + 1
      /\ \A k \in 1 .. Len(Waiting) : Waiting[k] = rx_bufs[Slot(rx_tail, k)]
  BY <1>0 DEF WaitingFacts
<1>3. /\ Waiting' \in Seq(Frames)
      /\ Len(Waiting') = IF stored' THEN Dist(rx_tail', rdh', NumRx) + 1
                         ELSE Dist(rx_tail', rdh', NumRx)
      /\ \A k \in 1 .. Len(Waiting') : Waiting'[k] = rx_bufs'[Slot(rx_tail', k)]
  BY DEF WaitingFacts
<1>4. /\ Len(Waiting') = Len(Waiting)
      /\ \A k \in 1 .. Len(Waiting') : Waiting'[k] = Waiting[k]
  BY <1>0, <1>1, <1>2, <1>3
<1>. QED  BY <1>2, <1>3, <1>4, SeqEqual

(* e1000_receive returns the first frame of the queue, whole.              *)
LEMMA ReceiveDequeues ==
  ASSUME E1000Inv, E1000Inv', Receive
  PROVE  /\ Waiting # <<>> /\ Whole(got') = Head(Waiting)
         /\ Waiting' = Tail(Waiting)
<1>. USE RingAssumption
<1>. DEFINE d == Dist(rx_tail, rdh, NumRx)
<1>. WaitingFacts /\ WaitingFacts'
  BY WaitingIs, PTL
<1>0. /\ rdh \in RxSlots /\ rx_tail \in RxSlots /\ rx_tail # rdh
      /\ UNCHANGED <<rdh, rx_bufs, stored>> /\ got' = copy
      /\ copy[1] = rx_bufs[rx_tail] /\ copy[2] = rx_bufs[rx_tail]
      /\ rx_tail' = (IF rx_tail = NumRx - 1 THEN 0 ELSE rx_tail + 1)
  BY AfterIs DEF E1000Inv, TypeOK, RxInv, RxSlots, Receive, Copying, Copied
<1>1. d > 0 /\ d \in 0 .. NumRx - 1 /\ Dist(rx_tail', rdh, NumRx) = d - 1
  BY <1>0 DEF Dist, RxSlots
<1>2. /\ Waiting \in Seq(Frames) /\ Len(Waiting) = IF stored THEN d + 1 ELSE d
      /\ \A k \in 1 .. Len(Waiting) : Waiting[k] = rx_bufs[Slot(rx_tail, k)]
  BY DEF WaitingFacts
<1>3. /\ Waiting' \in Seq(Frames)
      /\ Len(Waiting') = IF stored' THEN Dist(rx_tail', rdh', NumRx) + 1
                         ELSE Dist(rx_tail', rdh', NumRx)
      /\ \A k \in 1 .. Len(Waiting') : Waiting'[k] = rx_bufs'[Slot(rx_tail', k)]
  BY DEF WaitingFacts
<1>4. Len(Waiting') = Len(Waiting) - 1 /\ Len(Waiting) \in 1 .. NumRx
  BY <1>0, <1>1, <1>2, <1>3
<1>5. /\ Waiting # <<>> /\ Tail(Waiting) \in Seq(Frames)
      /\ Len(Tail(Waiting)) = Len(Waiting) - 1
      /\ \A k \in 1 .. Len(Tail(Waiting)) : Tail(Waiting)[k] = Waiting[k + 1]
  BY <1>2, <1>4, HeadTailProperties
<1>6. \A k \in 1 .. NumRx : Slot(rx_tail', k) = Slot(rx_tail, k + 1)
  BY <1>0 DEF Slot, RxSlots
<1>7. \A k \in 1 .. Len(Waiting') : Waiting'[k] = Tail(Waiting)[k]
  <2>. HIDE DEF d
  <2>1. SUFFICES ASSUME NEW k \in 1 .. Len(Waiting')
                 PROVE  Waiting'[k] = Tail(Waiting)[k]
    OBVIOUS
  <2>2. k \in 1 .. NumRx /\ k + 1 \in 1 .. Len(Waiting) /\ k \in 1 .. Len(Tail(Waiting))
    BY <1>4, <1>5
  <2>3. Waiting'[k] = rx_bufs[Slot(rx_tail', k)]
    BY <1>0, <1>3
  <2>. QED  BY <1>2, <1>5, <1>6, <2>2, <2>3
<1>8. Waiting' = Tail(Waiting)
  BY <1>3, <1>4, <1>5, <1>7, SeqEqual
<1>9. Whole(got') = Head(Waiting)
  <2>1. Head(Waiting) = Waiting[1] /\ 1 \in 1 .. Len(Waiting)
    BY <1>2, <1>4
  <2>2. Slot(rx_tail, 1) = rx_tail
    BY <1>0 DEF Slot, RxSlots
  <2>. QED  BY <1>0, <1>2, <2>1, <2>2 DEF Whole
<1>. QED  BY <1>5, <1>8, <1>9

(* The receive ring is a queue of NumRx - 1 frames (RxFifo), for every     *)
(* NumRx: each step of the driver and the device is a step of that queue,  *)
(* or changes nothing that its user sees.                                  *)
THEOREM E1000RefinesRxFifo == Spec => RefinesRxFifo
<1>. DEFINE q == Held \o (IF stored THEN <<rx_bufs[rdh]>> ELSE <<>>)
<1>1. q = Waiting /\ q' = Waiting'
  BY DEF Held, Waiting, FramesFrom
<1>2. Init => Fifo!Init
  <2>. SUFFICES ASSUME Init PROVE Fifo!Init
    OBVIOUS
  <2>1. Waiting \in Seq(Frames) /\ Len(Waiting) = 0
    BY E1000InvInit, WaitingIs, RingAssumption DEF Init, Dist, WaitingFacts
  <2>. QED  BY <1>1, <2>1 DEF Init, Fifo!Init, Whole, NoFrame
<1>3. E1000Inv /\ E1000Inv' /\ [Next]_vars => [Fifo!Next]_(Fifo!vars)
  <2>. SUFFICES ASSUME E1000Inv, E1000Inv', [Next]_vars
                PROVE  [Fifo!Next]_(Fifo!vars)
    OBVIOUS
  <2>1. CASE Arrive
    <3>1. got' = got
      BY <2>1 DEF Arrive
    <3>. QED
      BY <1>1, <2>1, <3>1, ArriveEnqueues
      DEF Fifo!Next, Fifo!Enqueue, Fifo!Lose, Fifo!vars
  <2>2. CASE Mark
    <3>1. got' = got /\ arrived' = arrived
      BY <2>2 DEF Mark
    <3>. QED  BY <1>1, <2>2, <3>1, MarkKeepsQueue DEF Fifo!vars
  <2>3. CASE Receive
    <3>1. arrived' = arrived
      BY <2>3 DEF Receive
    <3>. QED
      BY <1>1, <2>3, <3>1, ReceiveDequeues DEF Fifo!Next, Fifo!Dequeue, Whole
  <2>4. CASE UNCHANGED <<rx_tail, rdh, rx_bufs, stored, arrived, got>>
    <3>1. Waiting' = Waiting
      BY <2>4 DEF Waiting
    <3>. QED  BY <1>1, <2>4, <3>1 DEF Fifo!vars
  <2>. QED
    BY <2>1, <2>2, <2>3, <2>4
    DEF Next, Transmit, Poll, NothingReceived, CopyRest, ClearStatus, Send, CopyFrame,
        TimeOut, Queue, rx, vars
<1>. QED  BY <1>2, <1>3, E1000Always, PTL DEF Spec, RefinesRxFifo, Fifo!Spec
=============================================================================
