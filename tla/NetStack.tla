------------------------------ MODULE NetStack ------------------------------
(***************************************************************************)
(* The network stack, kernel/net, and the commands ping, udpsend and dns   *)
(* that drive it.  The kernel is single-threaded and only handles frames   *)
(* while it waits for one: a command's loop drains the receive ring        *)
(* (process_rx_packets), and so does ip_send while ARP has no answer for   *)
(* the next hop.  Answering an echo request there calls ip_send again,     *)
(* inside the first call and with the same static buffer.                  *)
(*                                                                         *)
(* stack holds the activations of ip_send, the innermost last.  The        *)
(* receive ring is the queue that RxFifo specifies and E1000 implements.   *)
(* Only waiting takes time: a tick passes in timer_wait, and in a round of *)
(* a command's loop that finds nothing.  What a datagram says is not       *)
(* modelled until it is looked at.  Neighbours answer what reaches them,   *)
(* or do not; they also send on their own account.                         *)
(*                                                                         *)
(* A definition Fault... is the faulty variant of the one that follows it; *)
(* no specification uses it.                                               *)
(***************************************************************************)
EXTENDS Naturals, Sequences, FiniteSets, SequencesExt, Dns, Checksum

CONSTANTS
  Neighbours, Remote,    \* the addresses in net_subnet, and the others
  net_gateway, Us,       \* Us: net_ip
  DnsServer,             \* 8.8.4.4
  Targets,               \* what ping and udpsend are given
  CacheSize,             \* ARP_CACHE_SIZE
  MaxHandlers,           \* UDP_MAX_HANDLERS
  Attempts, ArpWait,     \* 3, and 20 ticks, in ip_send
  CmdWait, Pings,        \* 100 ticks, and 4, in the commands
  RingSize,              \* how many frames the receive ring holds
  MaxOwed,               \* bound: answers under way
  MaxExtra,              \* bound: frames that neighbours send unasked
  DnsMessages,           \* what a datagram may turn out to say
  Payloads               \* what checksums are computed of

ASSUME NetAssumption ==
  /\ net_gateway \in Neighbours /\ Us \notin Neighbours \cup Remote
  /\ DnsServer \in Remote /\ Neighbours \cap Remote = {}
  /\ Targets \subseteq Neighbours \cup Remote
  /\ {CacheSize, MaxHandlers, ArpWait, CmdWait, RingSize, MaxOwed, MaxExtra} \subseteq Nat
  /\ {Attempts, Pings} \subseteq Nat \ {0}

VARIABLES
  arp_cache, ip_buf, stack,
  bindings, listen_port, reply_ready, reply_received,
  pc, cmd, target, elapsed, sent, received,   \* the command's variables
  rxq,                   \* frames in the receive ring
  owed,                  \* answers that neighbours may still give
  extra,                 \* frames sent unasked so far
  heard,                 \* history: the hardware address last heard of
  echoes,                \* history: echo replies handled since ping began
  wire                   \* the frame that the last step sent, if any

udp == <<bindings, listen_port, reply_ready>>
command == <<pc, cmd, target, elapsed, sent, received>>
vars == <<arp_cache, ip_buf, stack, udp, reply_received, command,
          rxq, owed, extra, heard, echoes, wire>>

None == "none"
NoMac == <<>>                       \* and an entry that is not valid
Broadcast == <<"all", 0>>
NoPort == 0
SrcPort == 49152

Packet(dst, kind, seq) == [dst |-> dst, kind |-> kind, seq |-> seq]
NoPacket == Packet(None, None, 0)
Nothing == [mac |-> NoMac, packet |-> NoPacket]
Silent == wire' = Nothing

\* from: the sender's protocol address, mac: its hardware address,
\* to: "us", "all" (broadcast) or "other", for: protocol address asked for.
Frame(kind, from, mac, to, for) ==
  [kind |-> kind, from |-> from, mac |-> mac, to |-> to, for |-> for]
Macs(h) == {h} \X {1, 2}

Init ==
  /\ arp_cache = [i \in 1 .. CacheSize |-> NoMac]
  /\ ip_buf = NoPacket /\ stack = <<>>
  /\ bindings = [i \in 1 .. MaxHandlers |-> NoPort]
  /\ listen_port = NoPort /\ reply_ready = FALSE /\ reply_received = FALSE
  /\ pc = "shell" /\ cmd = None /\ target = None
  /\ elapsed = 0 /\ sent = 0 /\ received = 0
  /\ rxq = <<>> /\ owed = {} /\ extra = 0
  /\ heard = [h \in Neighbours |-> NoMac] /\ echoes = 0
  /\ wire = Nothing

(***************************************************************************)
(* arp.c.  An entry that is valid is <<ip, mac>>.                          *)
(***************************************************************************)
FaultAnyEntry(ip) == {i \in 1 .. CacheSize : arp_cache[i] # NoMac}

Entries(ip) == {i \in 1 .. CacheSize : arp_cache[i] # NoMac /\ arp_cache[i][1] = ip}

arp_resolve(ip) ==
  IF Entries(ip) = {} THEN NoMac ELSE arp_cache[Min(Entries(ip))][2]

FaultNoUpdate(ip, mac) ==
  LET free == {i \in 1 .. CacheSize : arp_cache[i] = NoMac}
  IN IF Entries(ip) # {} \/ free = {} THEN arp_cache
     ELSE [arp_cache EXCEPT ![Min(free)] = <<ip, mac>>]

Learn(ip, mac) ==
  LET free == {i \in 1 .. CacheSize : arp_cache[i] = NoMac}
      at   == IF Entries(ip) # {} THEN Entries(ip) ELSE free
  IN IF at = {} THEN arp_cache ELSE [arp_cache EXCEPT ![Min(at)] = <<ip, mac>>]

\* An answer sets out, or is lost.
Answer(f) == owed' = IF Cardinality(owed) < MaxOwed THEN owed \cup {f} ELSE owed

arp_request(ip) ==
  /\ wire' = [mac |-> Broadcast, packet |-> Packet(ip, "arp request", 0)]
  /\ Answer(Frame("arp reply", ip, <<ip, 1>>, "us", Us))

arp_handle(f) ==
  /\ wire' = IF f.kind = "arp request" /\ f.for = Us
               THEN [mac |-> f.mac, packet |-> Packet(f.from, "arp reply", 0)] ELSE Nothing
  /\ arp_cache' = Learn(f.from, f.mac)
  /\ heard' = [heard EXCEPT ![f.from] = f.mac]

(***************************************************************************)
(* ip_send: net_send_frame hands ip_buf, as it is by now, to the neighbour *)
(* with hardware address mac.  A neighbour answers what is for itself; the *)
(* gateway passes on what is for another network.                          *)
(***************************************************************************)
NextHop(dst) == IF dst \in Neighbours THEN dst ELSE net_gateway

Reaches(packet, mac) ==
  mac[1] = packet.dst \/ (mac[1] = net_gateway /\ packet.dst \in Remote)

AnswerTo == [r \in {"echo request", "datagram"} |->
               IF r = "echo request" THEN "echo reply" ELSE "datagram"]

net_send_frame(mac) ==
  /\ wire' = [mac |-> mac, packet |-> ip_buf]
  /\ IF ip_buf.kind \in DOMAIN AnswerTo /\ Reaches(ip_buf, mac)
       THEN Answer(Frame(AnswerTo[ip_buf.kind], ip_buf.dst, NoMac, "us", Us))
       ELSE UNCHANGED owed

Call(packet) == [dst |-> packet.dst, try |-> 1, waiting |-> FALSE, ticks |-> 0]

ip_send(packet) == ip_buf' = packet /\ stack' = Append(stack, Call(packet))

Top == Last(stack)
Hop == NextHop(Top.dst)
Running == stack # <<>>
InLoop == Running /\ Top.waiting              \* in the loop that waits for ARP

\* ip_send returns; if to the command, that starts to wait for an answer.
\* (Nobody reads what is left in the buffer when the outermost call returns.)
Drop(calls) ==
  /\ stack' = Front(calls)
  /\ ip_buf' = IF Len(stack) = 1 THEN NoPacket ELSE ip_buf
  /\ pc' = IF pc = "sending" /\ Len(stack) = 1 THEN "waiting" ELSE pc

SendResolved ==
  /\ Running /\ arp_resolve(Hop) # NoMac
  /\ Top.waiting => rxq = <<>>
  /\ net_send_frame(arp_resolve(Hop))
  /\ Drop(stack)
  /\ UNCHANGED <<elapsed, cmd, target, sent, received, arp_cache, udp, reply_received,
                 rxq, extra, heard, echoes>>

Ask ==
  /\ Running /\ ~Top.waiting /\ arp_resolve(Hop) = NoMac
  /\ arp_request(Hop)
  /\ stack' = Append(Front(stack), [Top EXCEPT !.waiting = TRUE, !.ticks = 0])
  /\ UNCHANGED <<arp_cache, ip_buf, udp, reply_received, command, rxq, extra,
                 heard, echoes>>

\* A tick passes for everybody who waits.
Later(call) == IF call.ticks < ArpWait THEN [call EXCEPT !.ticks = @ + 1] ELSE call
Waited == [i \in DOMAIN stack |-> Later(stack[i])]
CommandWaits == pc \in {"resolving", "waiting"}

Sleeps ==                           \* timer_wait(1)
  /\ InLoop /\ rxq = <<>> /\ arp_resolve(Hop) = NoMac
  /\ elapsed' = IF CommandWaits /\ elapsed < CmdWait THEN elapsed + 1 ELSE elapsed
  /\ Silent
  /\ UNCHANGED <<arp_cache, udp, reply_received, rxq, owed, extra,
                 heard, echoes, cmd, target, sent, received>>

Wait ==
  /\ Sleeps
  /\ Last(Waited).ticks < ArpWait
  /\ stack' = Waited /\ UNCHANGED <<ip_buf, pc>>

FaultTriesOn ==
  /\ Sleeps
  /\ Last(Waited).ticks = ArpWait
  /\ stack' = Append(Front(Waited), [Top EXCEPT !.waiting = FALSE])
  /\ UNCHANGED <<ip_buf, pc>>

TryAgain ==
  /\ Sleeps
  /\ Last(Waited).ticks = ArpWait /\ Top.try < Attempts
  /\ stack' = Append(Front(Waited), [Top EXCEPT !.try = @ + 1, !.waiting = FALSE])
  /\ UNCHANGED <<ip_buf, pc>>

GiveUp ==                           \* the packet is dropped, and nobody told
  /\ Sleeps
  /\ Last(Waited).ticks = ArpWait /\ Top.try = Attempts
  /\ Drop(Waited)

(***************************************************************************)
(* net_handle_packet, ip_handle, icmp_handle, udp_handle: the next frame,  *)
(* taken in ip_send's loop or in process_rx_packets.                       *)
(***************************************************************************)
Bound(port) == \E i \in DOMAIN bindings : bindings[i] = port

Takes(f) ==
  /\ rxq # <<>> /\ f = Head(rxq) /\ rxq' = Tail(rxq)
  /\ InLoop \/ (~Running /\ CommandWaits)
  /\ UNCHANGED <<command, bindings, listen_port, owed, extra>>

ForUs(f) == f.to # "other"          \* every byte of dst is ours, or 0xFF

HandleArp == \E f \in Range(rxq) :
  /\ Takes(f) /\ ForUs(f) /\ f.kind \in {"arp request", "arp reply"}
  /\ arp_handle(f)
  /\ UNCHANGED <<ip_buf, stack, reply_ready, reply_received, echoes>>

HandleEchoRequest == \E f \in Range(rxq) :
  /\ Takes(f) /\ ForUs(f) /\ f.for = Us /\ f.kind = "echo request"
  /\ Silent
  /\ ip_send(Packet(f.from, "echo reply", 0))
  /\ UNCHANGED <<arp_cache, heard, reply_ready, reply_received, echoes>>

HandleEchoReply == \E f \in Range(rxq) :
  /\ Takes(f) /\ ForUs(f) /\ f.for = Us /\ f.kind = "echo reply"
  /\ Silent
  /\ reply_received' = TRUE
  /\ echoes' = IF cmd = "ping" /\ echoes < Pings THEN echoes + 1 ELSE echoes
  /\ UNCHANGED <<arp_cache, heard, ip_buf, stack, reply_ready>>

HandleDatagram == \E f \in Range(rxq) :           \* udp_capture_reply
  /\ Takes(f) /\ ForUs(f) /\ f.for = Us /\ f.kind = "datagram"
  /\ Silent
  /\ reply_ready' = (reply_ready \/ Bound(SrcPort))
  /\ UNCHANGED <<arp_cache, heard, ip_buf, stack, reply_received, echoes>>

Ignore == \E f \in Range(rxq) :
  /\ Takes(f)
  /\ Silent
  /\ ~ForUs(f) \/ (f.for # Us /\ f.kind \notin {"arp request", "arp reply"})
  /\ UNCHANGED <<arp_cache, heard, ip_buf, stack, reply_ready, reply_received, echoes>>

(***************************************************************************)
(* udp.c: binding the port of a request, sending it, and the end of it.    *)
(***************************************************************************)
CanBind == Bound(SrcPort) \/ Bound(NoPort)

udp_bind ==
  IF Bound(SrcPort) THEN bindings
  ELSE [bindings EXCEPT ![Min({i \in DOMAIN bindings : bindings[i] = NoPort})] = SrcPort]

FaultUnbindsNothing == bindings

udp_unbind ==
  [i \in DOMAIN bindings |->
     IF bindings[i] = listen_port /\ \A j \in 1 .. i - 1 : bindings[j] # listen_port
       THEN NoPort ELSE bindings[i]]

udp_request_start(dst) ==
  /\ reply_ready' = FALSE
  /\ IF CanBind
       THEN /\ listen_port' = SrcPort /\ bindings' = udp_bind
            /\ ip_send(Packet(dst, "datagram", 0))
            /\ pc' = "sending"
       ELSE /\ listen_port' = NoPort /\ UNCHANGED <<bindings, ip_buf, stack>>
            /\ pc' = "shell"

\* The payload is too long: bound and unbound again.
udp_request_start_fails ==
  /\ reply_ready' = FALSE /\ listen_port' = NoPort
  /\ UNCHANGED <<bindings, ip_buf, stack>>

udp_request_finish ==
  /\ bindings' = IF listen_port = NoPort THEN bindings ELSE udp_unbind
  /\ listen_port' = NoPort /\ reply_ready' = FALSE

(***************************************************************************)
(* The commands.                                                           *)
(***************************************************************************)
Begin(name, dst) ==
  /\ pc = "shell"
  /\ cmd' = name /\ target' = dst
  /\ UNCHANGED <<arp_cache, reply_received, elapsed, sent, received, echoes, rxq, extra, heard>>

cmd_ping == \E dst \in Targets :
  /\ Begin("ping", dst) /\ pc' = "resolving"
  /\ arp_request(NextHop(dst))
  /\ UNCHANGED <<udp, ip_buf, stack>>

cmd_udpsend == \E dst \in Targets :
  /\ Begin("request", dst)
  /\ udp_request_start(dst)
  /\ Silent /\ UNCHANGED owed

cmd_dns ==
  /\ Begin("request", DnsServer)
  /\ udp_request_start(DnsServer)
  /\ Silent /\ UNCHANGED owed

\* nameLen is not set, and what it happens to be is too long.
cmd_dns_bad_name ==
  /\ Begin("request", DnsServer)
  /\ udp_request_start_fails /\ pc' = "waiting"
  /\ Silent /\ UNCHANGED owed

\* Nobody reads reply_received before it is cleared again.
Leave ==
  /\ pc' = "shell" /\ cmd' = None /\ target' = None /\ elapsed' = 0
  /\ sent' = 0 /\ received' = 0 /\ echoes' = 0 /\ reply_received' = FALSE
  /\ Silent

\* The end of a round of a command's loop, with the ring drained.
Round == ~Running /\ CommandWaits /\ rxq = <<>>
Found ==
  CASE pc = "resolving" -> arp_resolve(NextHop(target)) # NoMac
    [] cmd = "ping"     -> reply_received
    [] OTHER            -> listen_port # NoPort /\ reply_ready
Over == ~Found /\ elapsed + 1 >= CmdWait

NextRound ==
  /\ Round /\ ~Found /\ ~Over
  /\ elapsed' = elapsed + 1
  /\ Silent
  /\ UNCHANGED <<arp_cache, ip_buf, stack, udp, reply_received, pc, cmd, target,
                 sent, received, rxq, owed, extra, heard, echoes>>

FaultKeepsReply == reply_received' = reply_received

icmp_clear_reply == reply_received' = FALSE

icmp_send_echo_request ==
  /\ icmp_clear_reply
  /\ ip_send(Packet(target, "echo request", sent + 1))
  /\ sent' = sent + 1 /\ pc' = "sending" /\ elapsed' = 0
  /\ UNCHANGED <<cmd, target>>

PingResolved ==
  /\ Round /\ pc = "resolving" /\ Found
  /\ icmp_send_echo_request
  /\ Silent
  /\ UNCHANGED <<received, arp_cache, udp, rxq, owed, extra, heard, echoes>>

PingUnresolved ==
  /\ Round /\ pc = "resolving" /\ Over
  /\ Leave
  /\ UNCHANGED <<arp_cache, ip_buf, stack, udp, rxq, owed, extra, heard>>

\* "Reply from" or "Request timed out", and then the next one.
PingAnswered ==
  /\ Round /\ pc = "waiting" /\ cmd = "ping" /\ (Found \/ Over)
  /\ sent < Pings
  /\ received' = received + (IF Found THEN 1 ELSE 0)
  /\ icmp_send_echo_request
  /\ Silent
  /\ UNCHANGED <<arp_cache, udp, rxq, owed, extra, heard, echoes>>

PingEnds ==
  /\ Round /\ pc = "waiting" /\ cmd = "ping" /\ (Found \/ Over)
  /\ sent = Pings
  /\ Leave
  /\ UNCHANGED <<arp_cache, ip_buf, stack, udp, rxq, owed, extra, heard>>

RequestEnds ==                      \* what a dns reply says: module Dns
  /\ Round /\ pc = "waiting" /\ cmd = "request" /\ (Found \/ Over)
  /\ udp_request_finish
  /\ Leave
  /\ UNCHANGED <<arp_cache, ip_buf, stack, rxq, owed, extra, heard>>

(***************************************************************************)
(* The network (external): answers come in any order, late or never, and   *)
(* are lost when the ring is full; neighbours resolve our address, look    *)
(* for another one, try to reach us, and change their network cards.       *)
(***************************************************************************)
Store(f) == rxq' = IF Len(rxq) < RingSize THEN Append(rxq, f) ELSE rxq

Arrive == \E f \in owed :
  /\ Store(f) /\ owed' = owed \ {f}
  /\ Silent
  /\ UNCHANGED <<arp_cache, ip_buf, stack, udp, reply_received, command, extra,
                 heard, echoes>>

Other == "other"

Unasked(h) ==
  {Frame("arp request", h, <<h, 2>>, "all", for) : for \in {Us, Other}} \cup
  {Frame("echo request", h, NoMac, "us", Us), Frame("echo request", h, NoMac, "other", Us),
   Frame("datagram", h, NoMac, "all", Other)}

ArriveUnasked == \E h \in Neighbours : \E f \in Unasked(h) :
  /\ extra < MaxExtra /\ extra' = extra + 1
  /\ Store(f)
  /\ Silent
  /\ UNCHANGED <<arp_cache, ip_buf, stack, udp, reply_received, command, owed,
                 heard, echoes>>

Kernel ==
  \/ SendResolved \/ Ask \/ Wait \/ TryAgain \/ GiveUp
  \/ HandleArp \/ HandleEchoRequest \/ HandleEchoReply \/ HandleDatagram \/ Ignore
  \/ NextRound
  \/ PingResolved \/ PingUnresolved \/ PingAnswered \/ PingEnds \/ RequestEnds

Next ==
  \/ Kernel \/ Arrive \/ ArriveUnasked
  \/ cmd_ping \/ cmd_udpsend \/ cmd_dns \/ cmd_dns_bad_name

Spec == Init /\ [][Next]_vars /\ WF_vars(Kernel)
-----------------------------------------------------------------------------
TypeOK ==
  /\ \A i \in DOMAIN arp_cache :
       arp_cache[i] # NoMac => /\ arp_cache[i][1] \in Neighbours
                              /\ arp_cache[i][2] \in Macs(arp_cache[i][1])
  /\ \A i \in DOMAIN stack : /\ stack[i].try \in 1 .. Attempts
                             /\ stack[i].ticks \in 0 .. ArpWait
  /\ listen_port \in {NoPort, SrcPort} /\ reply_ready \in BOOLEAN
  /\ pc \in {"shell", "resolving", "sending", "waiting"}
  /\ elapsed \in 0 .. CmdWait /\ 0 <= received /\ received <= sent /\ sent <= Pings
  /\ Len(rxq) <= RingSize

(* The cache holds for every neighbour at most one address, the one last   *)
(* heard of, whether in a request or in a reply; who has been heard and is *)
(* not in the cache came when it was full.                                 *)
ArpCurrent ==
  \A h \in Neighbours :
    LET at == {i \in DOMAIN arp_cache : arp_cache[i] # NoMac /\ arp_cache[i][1] = h}
    IN /\ Cardinality(at) <= 1
       /\ \A i \in at : arp_cache[i][2] = heard[h]
       /\ at = {} /\ heard[h] # NoMac => \A i \in DOMAIN arp_cache : arp_cache[i] # NoMac

(* What a command sends, an echo request or a datagram, goes to the        *)
(* neighbour it is for or else to the gateway, at the address last heard   *)
(* of, and is sent once.  (An answer to somebody else's echo request may   *)
(* go astray or be repeated: ip_send calls itself with the same buffer.)   *)
OwnRouted ==
  LET p == wire'.packet
      hop == IF p.dst \in Neighbours THEN p.dst ELSE net_gateway
  IN p.kind \in {"echo request", "datagram"} =>
       /\ wire'.mac = heard[hop]
       /\ pc = "sending" /\ Len(stack) = 1 /\ p.dst = target /\ p.seq = sent

OwnPacketsRouted == [][OwnRouted]_vars

(* Each "Reply from" line of ping stands for an echo reply that was handled *)
(* since the command began and has not been printed before.                *)
RepliesCounted ==
  cmd = "ping" /\ pc = "waiting" /\ reply_received => received < echoes

(* Between commands no handler is bound and no reply is waiting: a request *)
(* gives its binding back however it ends.                                 *)
NothingBound ==
  /\ TypeOK
  /\ pc = "shell" =>
       /\ listen_port = NoPort /\ ~reply_ready
       /\ \A i \in DOMAIN bindings : bindings[i] = NoPort

ParserAgrees ==
  \A m \in DnsMessages :
    dns_parse_reply(SubSeq(ReplyBytes(m.reply), 1, m.len)) = Says(m.reply, m.len)

(* Whatever the captured reply says, the address that dns prints is that   *)
(* of its first A record; if it is cut off before that, or has none, dns   *)
(* prints no address.                                                      *)
AnswerIsFirstAddress == cmd = "request" /\ reply_ready => ParserAgrees

ReceiversAgree ==
  \A data \in Payloads :
    LET packet == data \o (IF Len(data) % 2 = 1 THEN <<0>> ELSE <<>>)
        sent_udp == udp_sent_checksum(SubSeq(data, 1, 2), data)
    IN /\ Valid(packet \o Bytes(ip_checksum(data)))
       /\ sent_udp # 0
       /\ udp_checksum(SubSeq(data, 1, 2), packet \o Bytes(ntohs(sent_udp))) = 0

(* Whatever a packet being sent carries, the checksums that ip_send,       *)
(* icmp.c and udp_send put into it are right for a receiver that computes  *)
(* in network order, and udp_handle accepts what udp_send sends.           *)
ChecksumsVerify == Running => ReceiversAgree

(* Every command returns: ip_send gives up after three requests, and the   *)
(* commands after their time, whatever they handle meanwhile.              *)
CommandsReturn == pc # "shell" ~> pc = "shell"
=============================================================================
