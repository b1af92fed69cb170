------------------------------- MODULE E1000 --------------------------------
(***************************************************************************)
(* The descriptor rings of the network card driver kernel/drivers/e1000.c. *)
(* The driver is single-threaded, but shares the rings and the buffers     *)
(* with the device, which may act between any two of its accesses.         *)
(*                                                                         *)
(* The device (external) owns the receive descriptors from its head RDH up *)
(* to, but not including, the tail register RDT, and sends the transmit    *)
(* descriptors from TDH up to TDT: equal registers mean an empty ring.     *)
(* A received frame is two halves, so that a copy that is overtaken by the *)
(* device shows.  All transmit descriptors point at the one tx_buf.        *)
(*                                                                         *)
(* A definition Fault... is the faulty variant of the one that follows it; *)
(* no specification uses it.                                               *)
(***************************************************************************)
EXTENDS Naturals, Sequences

CONSTANTS
  NumRx, NumTx,      \* E1000_NUM_RX_DESC, E1000_NUM_TX_DESC
  MaxFrames          \* bound: how many frames arrive, how many are sent

ASSUME RingAssumption ==
  NumRx \in Nat \ {0, 1} /\ NumTx \in Nat \ {0, 1} /\ MaxFrames \in Nat

VARIABLES
  rdh, rdt, rx_dd,   \* receive registers, descriptors' DD bits
  rx_bufs,           \* the frame in each receive buffer
  tdh, tdt, tx_dd,   \* transmit registers, descriptors' DD bits
  rx_tail, tx_tail, tx_buf,
  pc, copy,          \* step of e1000_send or e1000_receive; the caller's buf
  got,               \* the frame e1000_receive returned last
  arrived,           \* history: frames that came in
  stored,            \* is the frame at rdh in its buffer, but not yet marked?
  accepted,          \* history: frames e1000_send answered with 0
  wire               \* history: frames transmitted

rx == <<rdh, rdt, rx_dd, rx_bufs, rx_tail, copy, got, arrived, stored>>
tx == <<tdh, tdt, tx_dd, tx_tail, tx_buf, accepted, wire>>
vars == <<rx, tx, pc>>

NoFrame == 0
RxSlots == 0 .. NumRx - 1
TxSlots == 0 .. NumTx - 1

After(i, n) == (i + 1) % n

Init ==
  /\ rdh = 0 /\ rdt = NumRx - 1 /\ rx_dd = [i \in RxSlots |-> FALSE]
  /\ rx_bufs = [i \in RxSlots |-> NoFrame] /\ rx_tail = 0
  /\ tdh = 0 /\ tdt = 0 /\ tx_dd = [i \in TxSlots |-> TRUE]
  /\ tx_tail = 0 /\ tx_buf = NoFrame
  /\ pc = "idle" /\ copy = <<NoFrame, NoFrame>> /\ got = copy
  /\ arrived = 0 /\ stored = FALSE /\ accepted = 0 /\ wire = <<>>

(***************************************************************************)
(* The device.                                                             *)
(***************************************************************************)
Arrive ==                           \* into the buffer of the next descriptor
  /\ arrived < MaxFrames /\ ~stored
  /\ arrived' = arrived + 1
  /\ IF rdh # rdt
       THEN stored' = TRUE /\ rx_bufs' = [rx_bufs EXCEPT ![rdh] = arrived']
       ELSE UNCHANGED <<stored, rx_bufs>>
  /\ UNCHANGED <<rdh, rdt, rx_dd, rx_tail, copy, got, tx, pc>>

Mark ==                             \* write back DD, move on
  /\ stored
  /\ rx_dd' = [rx_dd EXCEPT ![rdh] = TRUE]
  /\ rdh' = (rdh + 1) % NumRx /\ stored' = FALSE
  /\ UNCHANGED <<rdt, rx_bufs, rx_tail, copy, got, arrived, tx, pc>>

Transmit ==
  /\ tdh # tdt
  /\ wire' = Append(wire, tx_buf)
  /\ tx_dd' = [tx_dd EXCEPT ![tdh] = TRUE] /\ tdh' = (tdh + 1) % NumTx
  /\ UNCHANGED <<tdt, tx_tail, tx_buf, accepted, rx, pc>>

(***************************************************************************)
(* e1000_receive: NothingReceived when it returns -1.                      *)
(***************************************************************************)
Poll ==
  /\ pc = "idle" /\ rx_dd[rx_tail]
  /\ copy' = [copy EXCEPT ![1] = rx_bufs[rx_tail]]
  /\ pc' = "copying"
  /\ UNCHANGED <<rdh, rdt, rx_dd, rx_bufs, rx_tail, got, arrived, stored, tx>>

NothingReceived == pc = "idle" /\ ~rx_dd[rx_tail] /\ UNCHANGED vars

CopyRest ==
  /\ pc = "copying"
  /\ copy' = [copy EXCEPT ![2] = rx_bufs[rx_tail]]
  /\ pc' = "copied"
  /\ UNCHANGED <<rdh, rdt, rx_dd, rx_bufs, rx_tail, got, arrived, stored, tx>>

FaultKeepsStatus == pc = "copied" /\ pc' = "return" /\ UNCHANGED <<rx, tx>>

ClearStatus ==
  /\ pc = "copied" /\ pc' = "return"
  /\ rx_dd' = [rx_dd EXCEPT ![rx_tail] = FALSE]
  /\ UNCHANGED <<rdh, rdt, rx_bufs, rx_tail, copy, got, arrived, stored, tx>>

FaultReturnsNext == After(rx_tail, NumRx)

ReturnedSlot == rx_tail

Receive ==                          \* RDT, rx_tail, return 0
  /\ pc = "return" /\ pc' = "idle"
  /\ rdt' = ReturnedSlot
  /\ rx_tail' = After(rx_tail, NumRx)
  /\ got' = copy
  /\ UNCHANGED <<rdh, rx_dd, rx_bufs, copy, arrived, stored, tx>>

(***************************************************************************)
(* e1000_send.  The wait ends when the descriptor is done, or with -1.     *)
(***************************************************************************)
Send ==
  /\ pc = "idle" /\ accepted < MaxFrames
  /\ pc' = "wait"
  /\ UNCHANGED <<rx, tx>>

FaultNoWait == TRUE

DescriptorFree == tx_dd[tx_tail]

CopyFrame ==
  /\ pc = "wait" /\ DescriptorFree
  /\ tx_buf' = accepted + 1
  /\ pc' = "filled"
  /\ UNCHANGED <<tdh, tdt, tx_dd, tx_tail, accepted, wire, rx>>

TimeOut ==
  /\ pc = "wait" /\ ~DescriptorFree
  /\ pc' = "idle"
  /\ UNCHANGED <<rx, tx>>

Queue ==                            \* status, tx_tail, TDT, return 0
  /\ pc = "filled" /\ pc' = "idle"
  /\ tx_dd' = [tx_dd EXCEPT ![tx_tail] = FALSE]
  /\ tx_tail' = After(tx_tail, NumTx)
  /\ tdt' = tx_tail'
  /\ accepted' = accepted + 1
  /\ UNCHANGED <<tdh, tx_buf, wire, rx>>

Next ==
  \/ Arrive \/ Mark \/ Transmit
  \/ Poll \/ NothingReceived \/ CopyRest \/ ClearStatus \/ Receive
  \/ Send \/ CopyFrame \/ TimeOut \/ Queue

Spec == Init /\ [][Next]_vars
-----------------------------------------------------------------------------
TypeOK ==
  /\ {rdh, rdt, rx_tail} \subseteq RxSlots /\ rx_dd \in [RxSlots -> BOOLEAN]
  /\ {tdh, tdt, tx_tail} \subseteq TxSlots /\ tx_dd \in [TxSlots -> BOOLEAN]
  /\ rx_bufs \in [RxSlots -> 0 .. MaxFrames] /\ stored \in BOOLEAN
  /\ tx_buf \in 0 .. MaxFrames
  /\ pc \in {"idle", "copying", "copied", "return", "wait", "filled"}

\* The slots from i up to, but not including, j.
Arc(i, j, n) == {(i + k) % n : k \in 0 .. ((n + j - i) % n) - 1}

(* The driver and the device never own a receive descriptor together: the  *)
(* device finds no mark on those it may fill, and those between the driver *)
(* and the device are marked, except the one being given back.             *)
DescriptorsDivided ==
  /\ TypeOK
  /\ \A i \in Arc(rdh, rdt, NumRx) : ~rx_dd[i]
  /\ \A i \in Arc(rx_tail, rdh, NumRx) :
       rx_dd[i] \/ (i = rx_tail /\ pc = "return")

(* Nothing handed to e1000_send is forgotten by the ring: as long as not   *)
(* every descriptor is taken, an idle device has made one transmission for *)
(* every accepted frame, and none carried a frame older than its own (it   *)
(* may carry a newer one: there is one tx_buf).                            *)
FramesTransmitted ==
  /\ \A i \in DOMAIN wire : wire[i] >= i
  /\ tdh = tdt /\ (\E i \in TxSlots : tx_dd[i]) => Len(wire) = accepted

\* The frames between the driver and the device.
Held == [k \in 1 .. (NumRx + rdh - rx_tail) % NumRx |->
           rx_bufs[(rx_tail + k - 1) % NumRx]]

Whole(halves) == IF halves[1] = halves[2] THEN halves[1] ELSE NoFrame

(* The receive ring is a queue of NumRx - 1 frames: none is lost while     *)
(* there is room, none is torn, repeated or reordered.                     *)
Fifo == INSTANCE RxFifo WITH
          Capacity <- NumRx - 1,
          queue <- Held \o (IF stored THEN <<rx_bufs[rdh]>> ELSE <<>>),
          got <- Whole(got)

RefinesRxFifo == Fifo!Spec
=============================================================================
