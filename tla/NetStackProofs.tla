--------------------------- MODULE NetStackProofs ---------------------------
(***************************************************************************)
(* Proofs about the network stack, for every number of neighbours, cache   *)
(* entries, handlers and attempts, whatever frames come and in whichever   *)
(* order.                                                                  *)
(*                                                                         *)
(* ip_send may be interrupted by itself: an echo request that is handled   *)
(* while ARP is waited for is answered from within, through the same       *)
(* buffer.  What is inductive is that the buffer holds a command's own     *)
(* packet only while the command's call is the only one (BufferInv), that  *)
(* a binding exists exactly as long as a request (PortInv), and that the   *)
(* cache says what was heard last (CacheInv).                              *)
(***************************************************************************)
EXTENDS NetStack, SequenceTheorems, FiniteSetTheorems, WellFoundedInduction, TLAPS

Hosts == Neighbours \cup Remote
Entry == {NoMac} \cup UNION {{h} \X Macs(h) : h \in Neighbours}
Calls == [dst : Hosts, try : 1 .. Attempts, waiting : BOOLEAN, ticks : 0 .. ArpWait]

\* A frame says who sent it; an ARP frame, a neighbour's hardware address.
Proper(f) ==
  /\ f.from \in Hosts
  /\ f.kind \in {"arp request", "arp reply"} => f.from \in Neighbours /\ f.mac \in Macs(f.from)

AnyMac == {NoMac} \cup UNION {Macs(h) : h \in Neighbours}

Frames ==
  {f \in [kind : {"arp request", "arp reply", "echo request", "echo reply", "datagram"},
          from : Hosts, mac : AnyMac,
          to : {"us", "all", "other"}, for : Neighbours \cup {Us, Other}] : Proper(f)}

Types ==
  /\ arp_cache \in [1 .. CacheSize -> Entry]
  /\ heard \in [Neighbours -> AnyMac]
  /\ stack \in Seq(Calls)
  /\ rxq \in Seq(Frames) /\ Len(rxq) <= RingSize /\ owed \subseteq Frames
  /\ ip_buf.kind # None => ip_buf.dst \in Hosts

(* For each neighbour one entry, with what was heard last.                 *)
CacheInv ==
  \A h \in Neighbours :
    /\ \A i, j \in Entries(h) : i = j
    /\ \A i \in Entries(h) : arp_cache[i][2] = heard[h]
    /\ Entries(h) = {} /\ heard[h] # NoMac => \A i \in 1 .. CacheSize : arp_cache[i] # NoMac

(* A request's port is bound once and nothing else is; without a request   *)
(* nothing is.                                                             *)
PortInv ==
  /\ bindings \in [1 .. MaxHandlers -> {NoPort, SrcPort}]
  /\ listen_port \in {NoPort, SrcPort} /\ reply_ready \in BOOLEAN
  /\ listen_port = NoPort => ~reply_ready /\ \A i \in 1 .. MaxHandlers : bindings[i] = NoPort
  /\ \A i, j \in 1 .. MaxHandlers : bindings[i] # NoPort /\ bindings[j] # NoPort => i = j
  /\ pc = "shell" \/ cmd = "ping" => listen_port = NoPort

(* Where commands are.  No activation of ip_send outlives its command.     *)
CommandInv ==
  /\ pc \in {"shell", "resolving", "sending", "waiting"}
  /\ pc = "shell" => stack = <<>>
  /\ pc = "resolving" => cmd = "ping"
  /\ pc \in {"sending", "waiting"} => cmd \in {"ping", "request"}
  /\ pc # "shell" => target \in Hosts

(* The counters of ping: only what was sent may have been answered, and    *)
(* every reply counted is another one that was handled.                    *)
CountInv ==
  /\ elapsed \in 0 .. CmdWait
  /\ sent \in 0 .. Pings /\ received \in 0 .. sent /\ echoes \in 0 .. Pings
  /\ reply_received \in BOOLEAN
  /\ pc = "shell" => ~reply_received /\ echoes = 0
  /\ pc \in {"shell", "resolving"} => sent = 0
  /\ pc # "shell" /\ cmd = "request" => sent = 0
  /\ pc # "shell" /\ cmd = "ping" =>
       /\ received <= echoes /\ (reply_received => received < echoes)
       /\ pc \in {"sending", "waiting"} => received < sent

(* The buffer holds a command's own packet only while its call is the only *)
(* one.                                                                    *)
BufferInv ==
  /\ pc = "sending" => stack # <<>>
  /\ ip_buf.kind \in {"echo request", "datagram"} =>
       /\ pc = "sending" /\ Len(stack) = 1
       /\ ip_buf.dst = target /\ ip_buf.seq = sent /\ stack[1].dst = target

NetInv == Types /\ CacheInv /\ PortInv /\ CommandInv /\ CountInv /\ BufferInv
-----------------------------------------------------------------------------
LEMMA LeastNatural ==
  ASSUME NEW T, T \subseteq Nat, T # {}
  PROVE  Min(T) \in T /\ \A m \in T : Min(T) <= m
<1>1. PICK n \in T : \A m \in T : ~ (<<m, n>> \in OpToRel(<, Nat))
  BY WFMin, NatLessThanWellFounded
<1>2. \A m \in T : ~(m < n)
  BY <1>1 DEF OpToRel
<1>3. \E x \in T : \A y \in T : x =< y
  BY <1>2
<1>. QED  BY <1>3, Zenon DEF Min

(* The innermost activation, and those outside it.                         *)
LEMMA FrontFacts ==
  ASSUME NEW S, NEW s \in Seq(S), s # <<>>
  PROVE  /\ Len(s) \in Nat \ {0} /\ Last(s) = s[Len(s)] /\ Last(s) \in S
         /\ Front(s) \in Seq(S) /\ Len(Front(s)) = Len(s) - 1
         /\ \A i \in 1 .. Len(s) - 1 : Front(s)[i] = s[i]
         /\ Len(s) = 1 => Front(s) = <<>>
<1>1. Len(s) \in Nat \ {0}
  BY EmptySeq
<1>2. /\ Front(s) \in Seq(S) /\ Len(Front(s)) = Len(s) - 1
      /\ \A i \in 1 .. Len(s) - 1 : Front(s)[i] = s[i]
  <2>1. PICK n \in Nat : n = Len(s) - 1
    BY <1>1
  <2>2. PICK t : t = SubSeq(s, 1, n)
    OBVIOUS
  <2>3. 1 \in Int /\ n \in Int /\ \A i \in 1 .. n : s[i] \in S
    BY <1>1, <2>1
  <2>4. /\ t \in Seq(S) /\ Len(t) = IF 1 <= n THEN n - 1 + 1 ELSE 0
        /\ \A i \in 1 .. n - 1 + 1 : t[i] = s[1 + i - 1]
    BY <2>2, <2>3, SubSeqProperties
  <2>5. Len(t) = n /\ \A i \in 1 .. n : t[i] = s[i]
    BY <2>4
  <2>6. Front(s) = t
    BY <2>1, <2>2 DEF Front
  <2>. QED  BY <2>1, <2>4, <2>5, <2>6
<1>3. Len(s) = 1 => Front(s) = <<>>
  BY <1>1, <1>2, EmptySeq
<1>. QED  BY <1>1, <1>2, <1>3 DEF Last

LEMMA LastChanged ==
  ASSUME NEW S, NEW s \in Seq(S), s # <<>>, NEW c \in S
  PROVE  /\ Append(Front(s), c) \in Seq(S) /\ Len(Append(Front(s), c)) = Len(s)
         /\ Append(Front(s), c)[Len(s)] = c /\ Append(Front(s), c) # <<>>
         /\ \A i \in 1 .. Len(s) - 1 : Append(Front(s), c)[i] = s[i]
<1>1. PICK t \in Seq(S) : /\ t = Front(s) /\ Len(t) = Len(s) - 1
                          /\ \A i \in 1 .. Len(s) - 1 : t[i] = s[i]
  BY FrontFacts
<1>2. Len(s) \in Nat \ {0}
  BY FrontFacts
<1>3. /\ Append(t, c) \in Seq(S) /\ Len(Append(t, c)) = Len(t) + 1
      /\ Append(t, c)[Len(t) + 1] = c
      /\ \A i \in 1 .. Len(t) : Append(t, c)[i] = t[i]
  BY AppendProperties
<1>4. Append(t, c) # <<>>
  BY <1>2, <1>3, <1>1, EmptySeq
<1>. QED  BY <1>1, <1>2, <1>3, <1>4

LEMMA HopFacts == ASSUME NEW dst PROVE NextHop(dst) \in Neighbours
BY NetAssumption DEF NextHop

LEMMA CallFacts ==
  ASSUME NEW packet, packet.dst \in Hosts
  PROVE  Call(packet) \in Calls /\ Call(packet).dst = packet.dst
BY NetAssumption DEF Call, Calls

(* A tick changes nothing but the ticks.                                   *)
LEMMA WaitedFacts ==
  ASSUME stack \in Seq(Calls)
  PROVE  /\ Waited \in Seq(Calls) /\ Len(Waited) = Len(stack)
         /\ \A i \in 1 .. Len(stack) : Waited[i].dst = stack[i].dst
<1>1. ASSUME NEW c \in Calls PROVE Later(c) \in Calls /\ Later(c).dst = c.dst
  <2>1. /\ c \in [dst : Hosts, try : 1 .. Attempts, waiting : BOOLEAN, ticks : 0 .. ArpWait]
        /\ ArpWait \in Nat
    BY NetAssumption DEF Calls
  <2>2. CASE c.ticks < ArpWait
    <3>1. Later(c) = [c EXCEPT !.ticks = c.ticks + 1]
      BY <2>2 DEF Later
    <3>2. c.ticks + 1 \in 0 .. ArpWait
      BY <2>1, <2>2
    <3>. QED  BY <2>1, <3>1, <3>2 DEF Calls
  <2>. QED  BY <2>2 DEF Later
<1>2. DOMAIN stack = 1 .. Len(stack) /\ Len(stack) \in Nat
      /\ \A i \in 1 .. Len(stack) : stack[i] \in Calls
  OBVIOUS
<1>3. Waited = [i \in 1 .. Len(stack) |-> Waited[i]]
      /\ \A i \in 1 .. Len(stack) : Waited[i] = Later(stack[i])
  BY <1>2 DEF Waited
<1>4. Waited \in [1 .. Len(stack) -> Calls]
  BY <1>1, <1>2, <1>3
<1>. QED  BY <1>1, <1>2, <1>3, <1>4

LEMMA FrameFacts ==
  /\ \A h \in Neighbours : Frame("arp reply", h, <<h, 1>>, "us", Us) \in Frames
  /\ \A h \in Hosts, k \in {"echo reply", "datagram"} : Frame(k, h, NoMac, "us", Us) \in Frames
  /\ \A h \in Neighbours : Unasked(h) \subseteq Frames
  /\ \A f \in Frames : Proper(f)
<1>1. ASSUME NEW h \in Neighbours, NEW n \in {1, 2} PROVE <<h, n>> \in Macs(h) /\ <<h, n>> \in AnyMac
  BY DEF Macs, AnyMac
<1>2. ASSUME NEW h \in Neighbours PROVE Frame("arp reply", h, <<h, 1>>, "us", Us) \in Frames
  <2>1. <<h, 1>> \in Macs(h) /\ <<h, 1>> \in AnyMac
    BY <1>1
  <2>. QED  BY <2>1 DEF Frame, Frames, Proper, Hosts
<1>3. ASSUME NEW h \in Hosts, NEW k \in {"echo reply", "datagram"}
      PROVE  Frame(k, h, NoMac, "us", Us) \in Frames
  BY DEF Frame, Frames, Proper, AnyMac
<1>4. ASSUME NEW h \in Neighbours, NEW who \in {Us, Other}
      PROVE  Frame("arp request", h, <<h, 2>>, "all", who) \in Frames
  <2>1. PICK m \in AnyMac : m = <<h, 2>> /\ m \in Macs(h)
    BY <1>1
  <2>2. Frame("arp request", h, m, "all", who) \in Frames
    BY <2>1 DEF Frame, Frames, Proper, Hosts
  <2>. QED  BY <2>1, <2>2
<1>5. ASSUME NEW h \in Neighbours, NEW to \in {"us", "other"}
      PROVE  Frame("echo request", h, NoMac, to, Us) \in Frames
  BY DEF Frame, Frames, Proper, AnyMac, Hosts
<1>6. ASSUME NEW h \in Neighbours PROVE Frame("datagram", h, NoMac, "all", Other) \in Frames
  BY DEF Frame, Frames, Proper, AnyMac, Hosts
<1>7. ASSUME NEW h \in Neighbours PROVE Unasked(h) \subseteq Frames
  BY <1>4, <1>5, <1>6 DEF Unasked
<1>. QED  BY <1>2, <1>3, <1>7 DEF Frames
-----------------------------------------------------------------------------
LEMMA NetInvInit == Init => NetInv
<1>. SUFFICES ASSUME Init PROVE NetInv
  OBVIOUS
<1>1. arp_cache \in [1 .. CacheSize -> Entry] /\ heard \in [Neighbours -> AnyMac]
  BY DEF Init, Entry, AnyMac
<1>2. stack \in Seq(Calls) /\ rxq \in Seq(Frames) /\ Len(rxq) <= RingSize
  BY NetAssumption, EmptySeq DEF Init
<1>3. Types
  BY <1>1, <1>2 DEF Init, Types, NoPacket, Packet
<1>4. CacheInv
  BY DEF Init, CacheInv, Entries
<1>5. PortInv
  <2>1. bindings = [i \in 1 .. MaxHandlers |-> NoPort] /\ listen_port = NoPort
    BY DEF Init
  <2>2. reply_ready = FALSE
    BY DEF Init
  <2>. QED  BY <2>1, <2>2 DEF PortInv
<1>6. /\ pc = "shell" /\ cmd = "none" /\ stack = <<>>
      /\ elapsed = 0 /\ sent = 0 /\ received = 0 /\ echoes = 0
  BY DEF Init, None
<1>0. reply_received = FALSE
  BY DEF Init
<1>7. CommandInv
  BY <1>6 DEF CommandInv
<1>8. CmdWait \in Nat /\ Pings \in Nat
  BY NetAssumption
<1>9. CountInv
  <2>1. /\ elapsed \in 0 .. CmdWait /\ sent \in 0 .. Pings /\ received \in 0 .. sent
        /\ echoes \in 0 .. Pings
    BY <1>6, <1>8
  <2>. QED  BY <1>0, <1>6, <2>1 DEF CountInv
<1>10. ip_buf.kind = "none"
  BY DEF Init, NoPacket, Packet, None
<1>11. BufferInv
  BY <1>6, <1>10 DEF BufferInv
<1>. QED  BY <1>3, <1>4, <1>5, <1>7, <1>9, <1>11 DEF NetInv

(* A call of ip_send, and its return.                                      *)
LEMMA SendTypes ==
  ASSUME stack \in Seq(Calls), NEW packet, packet.dst \in Hosts, ip_send(packet)
  PROVE  /\ stack' \in Seq(Calls) /\ (ip_buf'.kind # None => ip_buf'.dst \in Hosts)
         /\ Len(stack') = Len(stack) + 1 /\ stack'[Len(stack) + 1].dst = packet.dst
         /\ stack' # <<>>
<1>1. PICK c \in Calls : c = Call(packet) /\ c.dst = packet.dst
  BY CallFacts
<1>2. stack' = Append(stack, c) /\ ip_buf' = packet
  BY <1>1 DEF ip_send
<1>3. /\ Append(stack, c) \in Seq(Calls) /\ Len(Append(stack, c)) = Len(stack) + 1
      /\ Append(stack, c)[Len(stack) + 1] = c
  BY AppendProperties
<1>4. Len(stack) \in Nat
  OBVIOUS
<1>5. stack' # <<>>
  BY <1>2, <1>3, <1>4, EmptySeq
<1>. QED  BY <1>1, <1>2, <1>3, <1>5

LEMMA DropTypes ==
  ASSUME stack \in Seq(Calls), stack # <<>>, ip_buf.kind # None => ip_buf.dst \in Hosts,
         NEW calls \in {stack, Waited}, Drop(calls)
  PROVE  /\ stack' \in Seq(Calls) /\ (ip_buf'.kind # None => ip_buf'.dst \in Hosts)
         /\ Len(stack') = Len(stack) - 1 /\ Len(stack) \in Nat \ {0}
         /\ Len(stack) = 1 => stack' = <<>>
<1>1. PICK cs \in Seq(Calls) : cs = calls /\ cs # <<>> /\ Len(cs) = Len(stack)
  BY WaitedFacts, EmptySeq
<1>2. stack' = Front(cs)
  BY <1>1 DEF Drop
<1>3. ip_buf'.kind # None => ip_buf'.dst \in Hosts
  BY DEF Drop, NoPacket, Packet
<1>. QED  BY <1>1, <1>2, <1>3, FrontFacts

LEMMA TakesTypes ==
  ASSUME rxq \in Seq(Frames), NEW f, Takes(f), Len(rxq) <= RingSize
  PROVE  f \in Frames /\ rxq' \in Seq(Frames) /\ Len(rxq') <= RingSize
<1>1. rxq # <<>> /\ f = Head(rxq) /\ rxq' = Tail(rxq)
  BY DEF Takes
<1>2. Len(rxq) \in Nat \ {0} /\ RingSize \in Nat
  BY <1>1, NetAssumption, EmptySeq
<1>3. Head(rxq) \in Frames /\ Tail(rxq) \in Seq(Frames) /\ Len(Tail(rxq)) = Len(rxq) - 1
  BY <1>1, HeadTailProperties
<1>. QED  BY <1>1, <1>2, <1>3

LEMMA StoreTypes ==
  ASSUME rxq \in Seq(Frames), NEW f \in Frames, Store(f), Len(rxq) <= RingSize
  PROVE  rxq' \in Seq(Frames) /\ Len(rxq') <= RingSize
<1>1. /\ Append(rxq, f) \in Seq(Frames) /\ Len(Append(rxq, f)) = Len(rxq) + 1
      /\ Len(rxq) \in Nat /\ RingSize \in Nat
  BY NetAssumption, AppendProperties
<1>. QED  BY <1>1 DEF Store

(* What each step does to the cache and to what was heard: only arp_handle *)
(* changes them.                                                           *)
NoArp == UNCHANGED <<arp_cache, heard>>

LEMMA NoArpStep ==
  ASSUME [Next]_vars
  PROVE  NoArp \/ HandleArp
BY DEF NoArp, Next, Kernel, SendResolved, Ask, Sleeps, Wait, TryAgain, GiveUp, HandleEchoRequest,
  HandleEchoReply, HandleDatagram, Ignore, NextRound, PingResolved, PingUnresolved,
  PingAnswered, PingEnds, RequestEnds, Arrive, ArriveUnasked, cmd_ping, cmd_udpsend, cmd_dns,
  cmd_dns_bad_name, Begin, vars

LEMMA LearnTypes ==
  ASSUME Types, CacheInv, HandleArp
  PROVE  /\ arp_cache' \in [1 .. CacheSize -> Entry] /\ heard' \in [Neighbours -> AnyMac]
         /\ CacheInv'
<1>1. PICK f \in Range(rxq) :
        /\ Takes(f) /\ f.kind \in {"arp request", "arp reply"} /\ arp_handle(f)
  BY DEF HandleArp
<1>2. f.from \in Neighbours /\ f.mac \in Macs(f.from)
  BY <1>1, TakesTypes, FrameFacts DEF Types, Proper
<1>3. PICK ip \in Neighbours : ip = f.from
  BY <1>2
<1>. PICK mac \in Macs(ip) : mac = f.mac
  BY <1>2, <1>3
<1>4. arp_cache' = Learn(ip, mac) /\ heard' = [heard EXCEPT ![ip] = mac]
  BY <1>1, <1>3 DEF arp_handle
<1>5. /\ heard \in [Neighbours -> AnyMac] /\ mac \in AnyMac
      /\ arp_cache \in [1 .. CacheSize -> Entry] /\ CacheSize \in Nat
  <2>1. mac \in AnyMac
    BY DEF AnyMac
  <2>. QED  BY <2>1, NetAssumption DEF Types
<1>6. heard' \in [Neighbours -> AnyMac] /\ heard'[ip] = mac
      /\ \A h \in Neighbours \ {ip} : heard'[h] = heard[h]
  BY <1>4, <1>5
<1>7. PICK e : e = <<ip, mac>>
  OBVIOUS
<1>8. e \in Entry /\ e # NoMac /\ e[1] = ip /\ e[2] = mac
  BY <1>7 DEF Entry, NoMac
<1>. DEFINE free == {i \in 1 .. CacheSize : arp_cache[i] = NoMac}
            at == IF Entries(ip) # {} THEN Entries(ip) ELSE free
<1>9. arp_cache' = IF at = {} THEN arp_cache ELSE [arp_cache EXCEPT ![Min(at)] = e]
  BY <1>4, <1>7 DEF Learn
<1>10. at \subseteq 1 .. CacheSize /\ at \subseteq Nat
  BY <1>5 DEF Entries
<1>11. CASE at = {}
  <2>1. /\ arp_cache' = arp_cache /\ Entries(ip) = {}
        /\ \A i \in 1 .. CacheSize : arp_cache[i] # NoMac
    BY <1>9, <1>11
  <2>2. \A h \in Neighbours : Entries(h)' = Entries(h)
    BY <2>1 DEF Entries
  <2>. QED  BY <1>5, <1>6, <2>1, <2>2 DEF CacheInv
<1>12. CASE at # {}
  <2>1. PICK k \in 1 .. CacheSize : k = Min(at) /\ k \in at
    BY <1>10, <1>12, LeastNatural
  <2>2. arp_cache' = [arp_cache EXCEPT ![k] = e]
    BY <1>9, <1>12, <2>1
  <2>3. /\ arp_cache' \in [1 .. CacheSize -> Entry] /\ arp_cache'[k] = e
        /\ \A i \in (1 .. CacheSize) \ {k} : arp_cache'[i] = arp_cache[i]
    BY <1>5, <1>8, <2>2
  <2>4. arp_cache[k] = NoMac \/ arp_cache[k][1] = ip
    BY <2>1 DEF Entries
  <2>5. \A i \in Entries(ip) : i = k
    BY <2>1 DEF CacheInv
  <2>6. Entries(ip)' = {k}
    BY <1>8, <2>3, <2>5 DEF Entries
  <2>7. \A h \in Neighbours \ {ip} : Entries(h)' = Entries(h) /\ k \notin Entries(h)
    BY <1>8, <2>3, <2>4 DEF Entries
  <2>8. ASSUME NEW h \in Neighbours
        PROVE  /\ \A i, j \in Entries(h)' : i = j
               /\ \A i \in Entries(h)' : arp_cache'[i][2] = heard'[h]
               /\ Entries(h)' = {} /\ heard'[h] # NoMac =>
                    \A i \in 1 .. CacheSize : arp_cache'[i] # NoMac
    <3>1. CASE h = ip
      BY <1>6, <1>8, <2>3, <2>6, <3>1
    <3>2. CASE h # ip
      <4>1. Entries(h)' = Entries(h) /\ k \notin Entries(h) /\ heard'[h] = heard[h]
        BY <1>6, <2>7, <3>2
      <4>2. Entries(h) \subseteq 1 .. CacheSize
        BY DEF Entries
      <4>. QED  BY <1>8, <2>3, <4>1, <4>2 DEF CacheInv
    <3>. QED  BY <3>1, <3>2
  <2>. QED  BY <1>6, <2>3, <2>8 DEF CacheInv
<1>. QED  BY <1>11, <1>12

LEMMA CacheStep ==
  ASSUME NetInv, [Next]_vars
  PROVE  /\ arp_cache' \in [1 .. CacheSize -> Entry] /\ heard' \in [Neighbours -> AnyMac]
         /\ CacheInv'
<1>1. CASE NoArp
  <2>1. \A h \in Neighbours : Entries(h)' = Entries(h)
    BY <1>1 DEF NoArp, Entries
  <2>. QED  BY <1>1, <2>1 DEF NoArp, NetInv, Types, CacheInv
<1>. QED  BY <1>1, NoArpStep, LearnTypes DEF NetInv

(* The hardware address that ip_send finds is the one last heard.          *)
LEMMA ResolveFacts ==
  ASSUME Types, CacheInv, NEW h \in Neighbours, arp_resolve(h) # NoMac
  PROVE  arp_resolve(h) = heard[h] /\ heard[h] \in Macs(h)
<1>1. Entries(h) # {} /\ Entries(h) \subseteq 1 .. CacheSize /\ CacheSize \in Nat
  BY NetAssumption DEF arp_resolve, Entries
<1>2. PICK k \in Entries(h) : k = Min(Entries(h))
  BY <1>1, LeastNatural
<1>3. arp_resolve(h) = arp_cache[k][2]
  BY <1>1, <1>2 DEF arp_resolve
<1>4. arp_cache[k] \in Entry /\ arp_cache[k] # NoMac /\ arp_cache[k][1] = h
  BY <1>1 DEF Types, Entries
<1>5. arp_cache[k][2] \in Macs(h)
  BY <1>4 DEF Entry
<1>. QED  BY <1>2, <1>3, <1>5 DEF CacheInv

LEMMA AnswerTypes ==
  ASSUME owed \subseteq Frames, NEW f \in Frames, Answer(f)
  PROVE  owed' \subseteq Frames
BY DEF Answer

(* Asking, waiting and trying again change how long an activation has      *)
(* waited, and nothing else about it.                                      *)
LEMMA RetryTypes ==
  ASSUME Types, Ask \/ Wait \/ TryAgain
  PROVE  /\ stack' \in Seq(Calls) /\ Len(stack') = Len(stack)
         /\ stack # <<>> /\ stack' # <<>>
         /\ \A i \in 1 .. Len(stack) : stack'[i].dst = stack[i].dst
         /\ UNCHANGED <<ip_buf, pc, target, sent>>
<1>1. stack # <<>> /\ stack \in Seq(Calls) /\ Len(stack) \in Nat \ {0}
  BY EmptySeq DEF Types, Ask, Wait, TryAgain, Sleeps, InLoop, Running
<1>2. UNCHANGED <<ip_buf, pc, target, sent>>
  BY DEF Ask, Wait, TryAgain, Sleeps, command
<1>3. Top \in Calls /\ Top = stack[Len(stack)]
  BY <1>1, FrontFacts DEF Top
<1>4. /\ Waited \in Seq(Calls) /\ Len(Waited) = Len(stack) /\ Waited # <<>>
      /\ \A i \in 1 .. Len(stack) : Waited[i].dst = stack[i].dst
  BY <1>1, WaitedFacts, EmptySeq
<1>5. CASE Wait
  BY <1>1, <1>2, <1>4, <1>5 DEF Wait
<1>6. CASE Ask
  <2>1. PICK c : c = [Top EXCEPT !.waiting = TRUE, !.ticks = 0]
    OBVIOUS
  <2>2. c \in Calls /\ c.dst = Top.dst
    <3>1. 0 \in 0 .. ArpWait
      BY NetAssumption
    <3>. QED  BY <1>3, <2>1, <3>1 DEF Calls
  <2>3. stack' = Append(Front(stack), c)
    BY <1>6, <2>1 DEF Ask
  <2>4. /\ stack' \in Seq(Calls) /\ Len(stack') = Len(stack) /\ stack'[Len(stack)] = c
        /\ stack' # <<>> /\ \A i \in 1 .. Len(stack) - 1 : stack'[i] = stack[i]
    BY <1>1, <2>2, <2>3, LastChanged
  <2>. QED  BY <1>1, <1>2, <1>3, <2>2, <2>4
<1>7. CASE TryAgain
  <2>1. PICK c : c = [Top EXCEPT !.try = @ + 1, !.waiting = FALSE]
    OBVIOUS
  <2>2. c \in Calls /\ c.dst = Top.dst
    <3>1. Top.try \in 1 .. Attempts /\ Top.try < Attempts
      BY <1>3, <1>7 DEF Calls, TryAgain
    <3>2. Top.try + 1 \in 1 .. Attempts
      BY <3>1, NetAssumption
    <3>. QED  BY <1>3, <2>1, <3>2 DEF Calls
  <2>3. stack' = Append(Front(Waited), c)
    BY <1>7, <2>1 DEF TryAgain
  <2>4. PICK w \in Seq(Calls) : /\ w = Waited /\ w # <<>> /\ Len(w) = Len(stack)
                                /\ \A i \in 1 .. Len(stack) : w[i].dst = stack[i].dst
    BY <1>4
  <2>5. /\ stack' \in Seq(Calls) /\ Len(stack') = Len(w) /\ stack'[Len(w)] = c
        /\ stack' # <<>> /\ \A i \in 1 .. Len(w) - 1 : stack'[i] = w[i]
    BY <2>2, <2>3, <2>4, LastChanged
  <2>. QED  BY <1>1, <1>2, <1>3, <2>2, <2>4, <2>5
<1>. QED  BY <1>5, <1>6, <1>7

(* The packets that ip_send is called with are for hosts.                  *)
Sends == \E packet : packet.dst \in Hosts /\ ip_send(packet)

Returns == Running /\ \E calls \in {stack, Waited} : Drop(calls)

LEMMA StackKinds ==
  ASSUME NetInv, [Next]_vars
  PROVE  UNCHANGED <<ip_buf, stack>> \/ Returns \/ Ask \/ Wait \/ TryAgain \/ Sends
<1>1. CASE HandleEchoRequest
  <2>1. PICK f \in Range(rxq) : Takes(f) /\ ip_send(Packet(f.from, "echo reply", 0))
    BY <1>1 DEF HandleEchoRequest
  <2>2. f.from \in Hosts
    BY <2>1, TakesTypes, FrameFacts DEF NetInv, Types, Proper
  <2>3. Packet(f.from, "echo reply", 0).dst \in Hosts
    BY <2>2 DEF Packet
  <2>. QED  BY <2>1, <2>3 DEF Sends
<1>2. CASE PingResolved \/ PingAnswered
  <2>1. ip_send(Packet(target, "echo request", sent + 1)) /\ pc # "shell"
    BY <1>2 DEF PingResolved, PingAnswered, icmp_send_echo_request
  <2>2. Packet(target, "echo request", sent + 1).dst \in Hosts
    BY <2>1 DEF NetInv, CommandInv, Packet
  <2>. QED  BY <2>1, <2>2 DEF Sends
<1>3. CASE cmd_udpsend \/ cmd_dns
  <2>1. PICK dst \in Hosts : udp_request_start(dst)
    BY <1>3, NetAssumption DEF cmd_udpsend, cmd_dns, Hosts
  <2>2. Packet(dst, "datagram", 0).dst \in Hosts
    BY DEF Packet
  <2>. QED  BY <2>1, <2>2 DEF udp_request_start, Sends
<1>4. CASE SendResolved \/ GiveUp
  BY <1>4 DEF SendResolved, GiveUp, Sleeps, InLoop, Returns
<1>5. CASE HandleArp \/ HandleEchoReply \/ HandleDatagram \/ Ignore \/ NextRound
           \/ PingUnresolved \/ PingEnds \/ RequestEnds \/ Arrive \/ ArriveUnasked
           \/ cmd_ping \/ cmd_dns_bad_name \/ UNCHANGED vars
  BY <1>5 DEF HandleArp, HandleEchoReply, HandleDatagram, Ignore, NextRound, PingUnresolved,
     PingEnds, RequestEnds, Arrive, ArriveUnasked, cmd_ping, cmd_dns_bad_name,
     udp_request_start_fails, vars
<1>. QED  BY <1>1, <1>2, <1>3, <1>4, <1>5 DEF Next, Kernel

LEMMA StackStep ==
  ASSUME NetInv, [Next]_vars
  PROVE  stack' \in Seq(Calls) /\ (ip_buf'.kind # None => ip_buf'.dst \in Hosts)
<1>. stack \in Seq(Calls) /\ (ip_buf.kind # None => ip_buf.dst \in Hosts) /\ Types
  BY DEF NetInv, Types
<1>1. CASE UNCHANGED <<ip_buf, stack>>
  BY <1>1
<1>2. CASE Returns
  BY <1>2, DropTypes DEF Returns, Running
<1>3. CASE Ask \/ Wait \/ TryAgain
  BY <1>3, RetryTypes
<1>4. CASE Sends
  BY <1>4, SendTypes DEF Sends
<1>. QED  BY <1>1, <1>2, <1>3, <1>4, StackKinds

LEMMA QueueStep ==
  ASSUME NetInv, [Next]_vars
  PROVE  rxq' \in Seq(Frames) /\ Len(rxq') <= RingSize
<1>. rxq \in Seq(Frames) /\ Len(rxq) <= RingSize /\ owed \subseteq Frames
  BY DEF NetInv, Types
<1>1. CASE HandleArp \/ HandleEchoRequest \/ HandleEchoReply \/ HandleDatagram \/ Ignore
  <2>1. PICK f : Takes(f)
    BY <1>1 DEF HandleArp, HandleEchoRequest, HandleEchoReply, HandleDatagram, Ignore
  <2>. QED  BY <2>1, TakesTypes
<1>2. CASE Arrive \/ ArriveUnasked
  <2>1. ASSUME ArriveUnasked PROVE \E f \in Frames : Store(f)
    <3>1. PICK h \in Neighbours : \E f \in Unasked(h) : Store(f)
      BY <2>1 DEF ArriveUnasked
    <3>. QED  BY <3>1, FrameFacts
  <2>2. PICK f \in Frames : Store(f)
    BY <1>2, <2>1 DEF Arrive
  <2>. QED  BY <2>2, StoreTypes
<1>3. CASE \/ SendResolved \/ Ask \/ Wait \/ TryAgain \/ GiveUp \/ NextRound
           \/ PingResolved \/ PingUnresolved \/ PingAnswered \/ PingEnds \/ RequestEnds
           \/ cmd_ping \/ cmd_udpsend \/ cmd_dns \/ cmd_dns_bad_name \/ UNCHANGED vars
  <2>1. UNCHANGED rxq
    BY <1>3 DEF SendResolved, Ask, Sleeps, Wait, TryAgain, GiveUp, NextRound, PingResolved,
       PingUnresolved, PingAnswered, PingEnds, RequestEnds, cmd_ping, cmd_udpsend, cmd_dns,
       cmd_dns_bad_name, Begin, vars
  <2>. QED  BY <2>1
<1>. QED  BY <1>1, <1>2, <1>3 DEF Next, Kernel

(* What neighbours may still answer is about hosts.                        *)
LEMMA OwedStep ==
  ASSUME NetInv, [Next]_vars
  PROVE  owed' \subseteq Frames
<1>. owed \subseteq Frames /\ (ip_buf.kind # None => ip_buf.dst \in Hosts)
  BY DEF NetInv, Types
<1>1. ASSUME NEW h \in Neighbours, arp_request(h) PROVE owed' \subseteq Frames
  <2>1. Frame("arp reply", h, <<h, 1>>, "us", Us) \in Frames
    BY FrameFacts
  <2>. QED  BY <1>1, <2>1, AnswerTypes DEF arp_request
<1>2. ASSUME NEW mac, net_send_frame(mac) PROVE owed' \subseteq Frames
  <2>1. CASE ip_buf.kind \in DOMAIN AnswerTo /\ Reaches(ip_buf, mac)
    <3>1. PICK k \in {"echo reply", "datagram"} : k = AnswerTo[ip_buf.kind]
      BY <2>1 DEF AnswerTo
    <3>2. ip_buf.dst \in Hosts
      BY <2>1 DEF AnswerTo, None
    <3>3. Answer(Frame(k, ip_buf.dst, NoMac, "us", Us))
      BY <1>2, <2>1, <3>1 DEF net_send_frame
    <3>4. Frame(k, ip_buf.dst, NoMac, "us", Us) \in Frames
      BY <3>2, FrameFacts
    <3>. QED  BY <3>3, <3>4, AnswerTypes
  <2>. QED  BY <1>2, <2>1 DEF net_send_frame
<1>3. CASE SendResolved
  BY <1>2, <1>3 DEF SendResolved
<1>4. CASE Ask
  BY <1>1, <1>4, HopFacts DEF Ask, Hop
<1>5. CASE cmd_ping
  BY <1>1, <1>5, HopFacts DEF cmd_ping
<1>6. CASE Arrive
  BY <1>6 DEF Arrive
<1>7. CASE HandleArp \/ HandleEchoRequest \/ HandleEchoReply \/ HandleDatagram \/ Ignore
  BY <1>7 DEF HandleArp, HandleEchoRequest, HandleEchoReply, HandleDatagram, Ignore, Takes
<1>8. CASE \/ Wait \/ TryAgain \/ GiveUp \/ NextRound \/ PingResolved \/ PingUnresolved
           \/ PingAnswered \/ PingEnds \/ RequestEnds \/ ArriveUnasked
           \/ cmd_udpsend \/ cmd_dns \/ cmd_dns_bad_name \/ UNCHANGED vars
  <2>1. UNCHANGED owed
    BY <1>8 DEF Sleeps, Wait, TryAgain, GiveUp, NextRound, PingResolved, PingUnresolved,
       PingAnswered, PingEnds, RequestEnds, ArriveUnasked, cmd_udpsend, cmd_dns,
       cmd_dns_bad_name, vars
  <2>. QED  BY <2>1
<1>. QED  BY <1>3, <1>4, <1>5, <1>6, <1>7, <1>8 DEF Next, Kernel

LEMMA TypesStep == ASSUME NetInv, [Next]_vars PROVE Types'
BY CacheStep, StackStep, QueueStep, OwedStep DEF Types
-----------------------------------------------------------------------------
(* Frames are handled only while a command runs, and do not touch what it  *)
(* is doing.                                                               *)
Handles == HandleArp \/ HandleEchoRequest \/ HandleEchoReply \/ HandleDatagram \/ Ignore
Idles == Arrive \/ ArriveUnasked \/ UNCHANGED vars
Retries == Ask \/ Wait \/ TryAgain
Back == SendResolved \/ GiveUp
Leaves == PingUnresolved \/ PingEnds \/ RequestEnds
Requests == cmd_udpsend \/ cmd_dns

LEMMA Kinds ==
  ASSUME [Next]_vars
  PROVE  \/ Handles \/ Idles \/ Retries \/ Back \/ Leaves \/ Requests \/ NextRound
         \/ PingResolved \/ PingAnswered \/ cmd_ping \/ cmd_dns_bad_name
BY DEF Handles, Idles, Retries, Back, Leaves, Requests, Next, Kernel

LEMMA HandlesFacts ==
  ASSUME NetInv, Handles
  PROVE  /\ UNCHANGED command /\ UNCHANGED <<bindings, listen_port>> /\ pc # "shell"
         /\ UNCHANGED <<ip_buf, stack>> \/ HandleEchoRequest
<1>1. PICK f : Takes(f)
  BY DEF Handles, HandleArp, HandleEchoRequest, HandleEchoReply, HandleDatagram, Ignore
<1>2. pc # "shell"
  BY <1>1 DEF Takes, InLoop, Running, CommandWaits, NetInv, CommandInv
<1>3. UNCHANGED <<ip_buf, stack>> \/ HandleEchoRequest
  BY DEF Handles, HandleArp, HandleEchoReply, HandleDatagram, Ignore
<1>. QED  BY <1>1, <1>2, <1>3 DEF Takes

LEMMA IdlesFacts ==
  ASSUME Idles
  PROVE  /\ UNCHANGED command /\ UNCHANGED udp /\ UNCHANGED <<ip_buf, stack>>
         /\ UNCHANGED <<reply_received, echoes>>
BY DEF Idles, Arrive, ArriveUnasked, vars

LEMMA RetriesFacts ==
  ASSUME NetInv, Retries
  PROVE  /\ UNCHANGED udp /\ UNCHANGED <<pc, cmd, target, sent, received>>
         /\ UNCHANGED <<reply_received, echoes>> /\ pc # "shell"
BY DEF Retries, Ask, Wait, TryAgain, Sleeps, InLoop, command, Running, NetInv, CommandInv

LEMMA BackFacts ==
  ASSUME NetInv, Back
  PROVE  /\ UNCHANGED udp /\ UNCHANGED <<cmd, target, sent, received>>
         /\ UNCHANGED <<reply_received, echoes>> /\ pc # "shell" /\ stack # <<>>
         /\ Len(stack') = Len(stack) - 1 /\ Len(stack) \in Nat \ {0}
         /\ ip_buf' = IF Len(stack) = 1 THEN NoPacket ELSE ip_buf
         /\ pc' = IF pc = "sending" /\ Len(stack) = 1 THEN "waiting" ELSE pc
<1>1. /\ UNCHANGED udp /\ UNCHANGED <<cmd, target, sent, received>>
      /\ UNCHANGED <<reply_received, echoes>> /\ stack # <<>>
  BY DEF Back, SendResolved, GiveUp, Sleeps, InLoop, Running
<1>2. PICK calls \in {stack, Waited} : Drop(calls)
  BY DEF Back, SendResolved, GiveUp
<1>3. Len(stack') = Len(stack) - 1 /\ Len(stack) \in Nat \ {0}
  BY <1>1, <1>2, DropTypes DEF NetInv, Types
<1>4. pc # "shell"
  BY <1>1 DEF NetInv, CommandInv
<1>. QED  BY <1>1, <1>2, <1>3, <1>4 DEF Drop

LEMMA LeavesFacts ==
  ASSUME Leaves
  PROVE  /\ Leave /\ UNCHANGED <<ip_buf, stack>> /\ stack = <<>>
         /\ (UNCHANGED udp /\ pc # "shell" /\ (pc = "resolving" \/ cmd = "ping"))
            \/ (udp_request_finish /\ cmd = "request")
BY DEF Leaves, PingUnresolved, PingEnds, RequestEnds, Round, Running

LEMMA RequestsFacts ==
  ASSUME NetInv, Requests
  PROVE  \E dst \in Hosts :
           /\ Begin("request", dst) /\ udp_request_start(dst)
BY NetAssumption DEF Requests, cmd_udpsend, cmd_dns, Hosts

LEMMA EchoFacts ==
  ASSUME NetInv, PingResolved \/ PingAnswered
  PROVE  /\ icmp_send_echo_request /\ UNCHANGED udp /\ UNCHANGED echoes
         /\ stack = <<>> /\ pc \in {"resolving", "waiting"} /\ cmd = "ping"
BY DEF PingResolved, PingAnswered, Round, Running, NetInv, CommandInv

LEMMA CommandStep ==
  ASSUME NetInv, [Next]_vars
  PROVE  CommandInv'
<1>. CommandInv
  BY DEF NetInv
<1>1. CASE Handles \/ Idles
  <2>1. UNCHANGED command
    BY <1>1, HandlesFacts, IdlesFacts
  <2>2. pc # "shell" \/ UNCHANGED stack
    BY <1>1, HandlesFacts, IdlesFacts
  <2>. QED  BY <2>1, <2>2 DEF CommandInv, command
<1>2. CASE Retries
  BY <1>2, RetriesFacts DEF CommandInv
<1>3. CASE Back
  BY <1>3, BackFacts DEF CommandInv
<1>4. CASE Leaves
  BY <1>4, LeavesFacts DEF CommandInv, Leave
<1>5. CASE Requests
  <2>1. PICK dst \in Hosts : Begin("request", dst) /\ udp_request_start(dst)
    BY <1>5, RequestsFacts
  <2>2. cmd' = "request" /\ target' = dst /\ pc = "shell"
    BY <2>1 DEF Begin
  <2>3. pc' = "sending" \/ (pc' = "shell" /\ UNCHANGED stack)
    BY <2>1 DEF udp_request_start
  <2>. QED  BY <2>2, <2>3 DEF CommandInv
<1>6. CASE PingResolved \/ PingAnswered
  <2>1. cmd' = "ping" /\ target' \in Hosts /\ pc' = "sending"
    BY <1>6, EchoFacts DEF CommandInv, icmp_send_echo_request
  <2>. QED  BY <2>1 DEF CommandInv
<1>7. CASE NextRound
  BY <1>7 DEF NextRound, CommandInv
<1>8. CASE cmd_ping
  <2>1. PICK dst \in Hosts : Begin("ping", dst) /\ pc' = "resolving"
    BY <1>8, NetAssumption DEF cmd_ping, Hosts
  <2>. QED  BY <2>1 DEF Begin, CommandInv
<1>9. CASE cmd_dns_bad_name
  <2>1. DnsServer \in Hosts
    BY NetAssumption DEF Hosts
  <2>. QED  BY <1>9, <2>1 DEF cmd_dns_bad_name, Begin, CommandInv
<1>. QED  BY <1>1, <1>2, <1>3, <1>4, <1>5, <1>6, <1>7, <1>8, <1>9, Kinds

LEMMA BindFacts ==
  ASSUME PortInv, CanBind, listen_port = NoPort
  PROVE  /\ udp_bind \in [1 .. MaxHandlers -> {NoPort, SrcPort}]
         /\ \A i, j \in 1 .. MaxHandlers : udp_bind[i] # NoPort /\ udp_bind[j] # NoPort => i = j
<1>1. /\ bindings \in [1 .. MaxHandlers -> {NoPort, SrcPort}]
      /\ \A i \in 1 .. MaxHandlers : bindings[i] = NoPort
  BY DEF PortInv
<1>2. ~Bound(SrcPort) /\ Bound(NoPort)
  BY <1>1 DEF CanBind, Bound, SrcPort, NoPort
<1>3. PICK free : free = {i \in DOMAIN bindings : bindings[i] = NoPort}
  OBVIOUS
<1>4. free \subseteq Nat /\ free \subseteq 1 .. MaxHandlers /\ free # {}
  BY <1>1, <1>2, <1>3 DEF Bound
<1>5. PICK k \in 1 .. MaxHandlers : k = Min(free)
  BY <1>4, LeastNatural
<1>6. udp_bind = [bindings EXCEPT ![k] = SrcPort]
  BY <1>2, <1>3, <1>5 DEF udp_bind
<1>. QED  BY <1>1, <1>6

LEMMA UnbindFacts ==
  ASSUME PortInv, listen_port # NoPort
  PROVE  udp_unbind \in [1 .. MaxHandlers -> {NoPort, SrcPort}]
         /\ \A i \in 1 .. MaxHandlers : udp_unbind[i] = NoPort
<1>1. /\ bindings \in [1 .. MaxHandlers -> {NoPort, SrcPort}] /\ listen_port = SrcPort
      /\ \A i, j \in 1 .. MaxHandlers : bindings[i] # NoPort /\ bindings[j] # NoPort => i = j
      /\ MaxHandlers \in Nat /\ SrcPort # NoPort
  BY NetAssumption DEF PortInv, SrcPort, NoPort
<1>2. \A i \in 1 .. MaxHandlers : udp_unbind[i] = IF bindings[i] = listen_port /\ \A j \in 1 .. i - 1 : bindings[j] # listen_port
                                     THEN NoPort ELSE bindings[i]
  BY <1>1 DEF udp_unbind
<1>3. ASSUME NEW i \in 1 .. MaxHandlers PROVE udp_unbind[i] = NoPort
  <2>1. CASE bindings[i] = NoPort
    BY <1>1, <1>2, <2>1
  <2>2. CASE bindings[i] = SrcPort
    <3>1. \A j \in 1 .. i - 1 : bindings[j] # listen_port
      BY <1>1, <2>2
    <3>. QED  BY <1>1, <1>2, <2>2, <3>1
  <2>. QED  BY <1>1, <2>1, <2>2
<1>4. udp_unbind = [i \in 1 .. MaxHandlers |-> udp_unbind[i]]
  BY <1>1 DEF udp_unbind
<1>5. udp_unbind \in [1 .. MaxHandlers -> {NoPort, SrcPort}]
  BY <1>3, <1>4
<1>. QED  BY <1>3, <1>5

LEMMA PortStep ==
  ASSUME NetInv, [Next]_vars
  PROVE  PortInv'
<1>. PortInv /\ CommandInv
  BY DEF NetInv
<1>. USE DEF udp
<1>1. CASE Handles
  <2>1. UNCHANGED <<bindings, listen_port, pc, cmd>>
    BY <1>1, HandlesFacts DEF command
  <2>2. reply_ready' \in BOOLEAN /\ (reply_ready' => reply_ready \/ Bound(SrcPort))
    <3>1. reply_ready' = reply_ready \/ HandleDatagram
      BY <1>1 DEF Handles, HandleArp, HandleEchoRequest, HandleEchoReply, Ignore
    <3>2. HandleDatagram => reply_ready' = (reply_ready \/ Bound(SrcPort))
      BY Zenon DEF HandleDatagram
    <3>3. reply_ready \in BOOLEAN
      BY DEF PortInv
    <3>4. CASE reply_ready' = reply_ready
      BY <3>3, <3>4, Zenon
    <3>5. CASE reply_ready' = (reply_ready \/ Bound(SrcPort))
      BY <3>3, <3>5
    <3>. QED  BY <3>1, <3>2, <3>4, <3>5
  <2>3. listen_port = NoPort => ~reply_ready'
    BY <2>2 DEF PortInv, Bound, SrcPort, NoPort
  <2>. QED  BY <2>1, <2>2, <2>3 DEF PortInv
<1>2. CASE Idles
  BY <1>2, IdlesFacts DEF PortInv, command
<1>3. CASE Retries
  BY <1>3, RetriesFacts DEF PortInv
<1>4. CASE Back
  BY <1>4, BackFacts DEF PortInv
<1>5. CASE Leaves
  <2>1. cmd' = None /\ pc' = "shell"
    BY <1>5, LeavesFacts DEF Leave
  <2>2. CASE UNCHANGED udp /\ pc # "shell" /\ (pc = "resolving" \/ cmd = "ping")
    BY <2>1, <2>2 DEF PortInv, CommandInv
  <2>3. CASE udp_request_finish
    <3>1. reply_ready' = FALSE
      BY <2>3 DEF udp_request_finish
    <3>2. listen_port' = NoPort
      BY <2>3 DEF udp_request_finish
    <3>3. /\ bindings' \in [1 .. MaxHandlers -> {NoPort, SrcPort}]
          /\ \A i \in 1 .. MaxHandlers : bindings'[i] = NoPort
      BY <2>3, UnbindFacts DEF udp_request_finish, PortInv
    <3>. QED  BY <3>1, <3>2, <3>3 DEF PortInv
  <2>. QED  BY <1>5, <2>2, <2>3, LeavesFacts
<1>6. CASE Requests
  <2>1. PICK dst \in Hosts : Begin("request", dst) /\ udp_request_start(dst)
    BY <1>6, RequestsFacts
  <2>2. cmd' = "request" /\ pc = "shell" /\ listen_port = NoPort
    BY <2>1 DEF Begin, PortInv
  <2>3. reply_ready' = FALSE
    BY <2>1 DEF udp_request_start
  <2>4. CASE CanBind
    <3>1. bindings' = udp_bind /\ listen_port' = SrcPort /\ pc' = "sending"
      BY <2>1, <2>4 DEF udp_request_start
    <3>2. SrcPort # NoPort
      BY DEF SrcPort, NoPort
    <3>. QED  BY <2>2, <2>3, <2>4, <3>1, <3>2, BindFacts DEF PortInv
  <2>5. CASE ~CanBind
    <3>1. bindings' = bindings /\ listen_port' = NoPort
      BY <2>1, <2>5 DEF udp_request_start
    <3>. QED  BY <2>2, <2>3, <3>1 DEF PortInv
  <2>. QED  BY <2>4, <2>5
<1>7. CASE PingResolved \/ PingAnswered
  <2>1. UNCHANGED udp /\ cmd' = "ping" /\ cmd = "ping"
    BY <1>7, EchoFacts DEF icmp_send_echo_request
  <2>. QED  BY <2>1 DEF PortInv
<1>8. CASE NextRound
  BY <1>8 DEF NextRound, PortInv
<1>9. CASE cmd_ping
  BY <1>9 DEF cmd_ping, Begin, PortInv
<1>10. CASE cmd_dns_bad_name
  <2>1. reply_ready' = FALSE
    BY <1>10 DEF cmd_dns_bad_name, udp_request_start_fails
  <2>2. listen_port' = NoPort /\ listen_port = NoPort /\ bindings' = bindings
    BY <1>10 DEF cmd_dns_bad_name, udp_request_start_fails, Begin, PortInv
  <2>. QED  BY <2>1, <2>2 DEF PortInv
<1>. QED  BY <1>1, <1>2, <1>3, <1>4, <1>5, <1>6, <1>7, <1>8, <1>9, <1>10, Kinds

LEMMA BufferStep ==
  ASSUME NetInv, [Next]_vars
  PROVE  BufferInv'
<1>. BufferInv /\ CommandInv /\ stack \in Seq(Calls)
  BY DEF NetInv, Types
<1>1. CASE Handles
  <2>1. UNCHANGED <<pc, target, sent>>
    BY <1>1, HandlesFacts DEF command
  <2>2. CASE UNCHANGED <<ip_buf, stack>>
    BY <2>1, <2>2 DEF BufferInv
  <2>3. CASE HandleEchoRequest
    <3>1. PICK f \in Range(rxq) : Takes(f) /\ ip_send(Packet(f.from, "echo reply", 0))
      BY <2>3 DEF HandleEchoRequest
    <3>2. PICK p : p = Packet(f.from, "echo reply", 0)
      OBVIOUS
    <3>3. f.from \in Hosts
      BY <3>1, TakesTypes, FrameFacts DEF NetInv, Types, Proper
    <3>4. p.dst \in Hosts /\ p.kind = "echo reply" /\ ip_send(p)
      BY <3>1, <3>2, <3>3 DEF Packet
    <3>5. stack' # <<>> /\ ip_buf' = p
      BY <3>4, SendTypes DEF ip_send
    <3>. QED  BY <3>4, <3>5 DEF BufferInv
  <2>. QED  BY <1>1, <2>2, <2>3, HandlesFacts
<1>2. CASE Idles
  BY <1>2, IdlesFacts DEF BufferInv, command
<1>3. CASE Retries
  <2>1. /\ Len(stack') = Len(stack) /\ stack' # <<>>
        /\ \A i \in 1 .. Len(stack) : stack'[i].dst = stack[i].dst
        /\ UNCHANGED <<ip_buf, pc, target, sent>>
    BY <1>3, RetryTypes DEF Retries, NetInv
  <2>2. Len(stack) = 1 => stack'[1].dst = stack[1].dst
    BY <2>1
  <2>. QED  BY <2>1, <2>2 DEF BufferInv
<1>4. CASE Back
  <2>1. CASE Len(stack) = 1
    <3>1. ip_buf'.kind = "none" /\ pc' # "sending"
      BY <1>4, <2>1, BackFacts DEF NoPacket, Packet, None
    <3>. QED  BY <3>1 DEF BufferInv
  <2>2. CASE Len(stack) # 1
    <3>1. UNCHANGED ip_buf /\ Len(stack') = Len(stack) - 1 /\ Len(stack) \in Nat \ {0}
      BY <1>4, <2>2, BackFacts
    <3>2. stack' # <<>>
      BY <2>2, <3>1, EmptySeq
    <3>3. ip_buf'.kind \notin {"echo request", "datagram"}
      BY <2>2, <3>1 DEF BufferInv
    <3>. QED  BY <3>2, <3>3 DEF BufferInv
  <2>. QED  BY <2>1, <2>2
<1>5. CASE Leaves
  <2>1. UNCHANGED ip_buf /\ pc' = "shell" /\ stack = <<>>
    BY <1>5, LeavesFacts DEF Leave
  <2>2. ip_buf.kind \notin {"echo request", "datagram"}
    BY <2>1 DEF BufferInv
  <2>. QED  BY <2>1, <2>2 DEF BufferInv
<1>6. CASE Requests
  <2>1. PICK dst \in Hosts : Begin("request", dst) /\ udp_request_start(dst)
    BY <1>6, RequestsFacts
  <2>2. target' = dst /\ sent' = sent /\ pc = "shell" /\ stack = <<>> /\ sent = 0
    BY <2>1 DEF Begin, CommandInv, NetInv, CountInv
  <2>3. CASE CanBind
    <3>1. PICK p : p = Packet(dst, "datagram", 0)
      OBVIOUS
    <3>2. p.dst = dst /\ p.kind = "datagram" /\ p.seq = 0
      BY <3>1 DEF Packet
    <3>3. ip_send(p) /\ pc' = "sending" /\ ip_buf' = p
      BY <2>1, <2>3, <3>1 DEF udp_request_start, ip_send
    <3>4. stack' # <<>> /\ Len(stack') = Len(stack) + 1 /\ stack'[Len(stack) + 1].dst = dst
      BY <3>2, <3>3, SendTypes
    <3>5. Len(stack) = 0
      BY <2>2
    <3>6. Len(stack') = 1 /\ stack'[1].dst = dst
      BY <3>4, <3>5
    <3>. QED  BY <2>2, <3>2, <3>3, <3>4, <3>6 DEF BufferInv
  <2>4. CASE ~CanBind
    <3>1. UNCHANGED ip_buf /\ pc' = "shell"
      BY <2>1, <2>4 DEF udp_request_start
    <3>. QED  BY <2>2, <3>1 DEF BufferInv
  <2>. QED  BY <2>3, <2>4
<1>7. CASE PingResolved \/ PingAnswered
  <2>1. icmp_send_echo_request /\ stack = <<>> /\ target \in Hosts
    BY <1>7, EchoFacts DEF CommandInv
  <2>2. PICK p : p = Packet(target, "echo request", sent + 1)
    OBVIOUS
  <2>3. p.dst = target /\ p.kind = "echo request" /\ p.seq = sent + 1
    BY <2>2 DEF Packet
  <2>4. ip_send(p) /\ pc' = "sending" /\ ip_buf' = p /\ sent' = sent + 1 /\ target' = target
    BY <2>1, <2>2 DEF icmp_send_echo_request, ip_send
  <2>5. stack' # <<>> /\ Len(stack') = Len(stack) + 1 /\ stack'[Len(stack) + 1].dst = target
    BY <2>1, <2>3, <2>4, SendTypes
  <2>6. Len(stack) = 0
    BY <2>1
  <2>7. Len(stack') = 1 /\ stack'[1].dst = target
    BY <2>5, <2>6
  <2>. QED  BY <2>3, <2>4, <2>5, <2>7 DEF BufferInv
<1>8. CASE NextRound
  BY <1>8 DEF NextRound, BufferInv
<1>9. CASE cmd_ping \/ cmd_dns_bad_name
  <2>1. UNCHANGED <<ip_buf, stack>> /\ pc = "shell" /\ pc' # "sending"
    BY <1>9 DEF cmd_ping, cmd_dns_bad_name, Begin, udp_request_start_fails
  <2>2. ip_buf.kind \notin {"echo request", "datagram"}
    BY <2>1 DEF BufferInv
  <2>. QED  BY <2>1, <2>2 DEF BufferInv
<1>. QED  BY <1>1, <1>2, <1>3, <1>4, <1>5, <1>6, <1>7, <1>8, <1>9, Kinds

(* CountInv without the flag: the two parts need different provers.        *)
Counts ==
  /\ elapsed \in 0 .. CmdWait
  /\ sent \in 0 .. Pings /\ received \in 0 .. sent /\ echoes \in 0 .. Pings
  /\ pc = "shell" => echoes = 0
  /\ pc \in {"shell", "resolving"} => sent = 0
  /\ pc # "shell" /\ cmd = "request" => sent = 0
  /\ pc # "shell" /\ cmd = "ping" =>
       received <= echoes /\ (pc \in {"sending", "waiting"} => received < sent)

Flag ==
  /\ reply_received \in BOOLEAN
  /\ pc = "shell" => ~reply_received
  /\ pc # "shell" /\ cmd = "ping" /\ reply_received => received < echoes

LEMMA CountSplits == CountInv <=> Counts /\ Flag
BY DEF CountInv, Counts, Flag

LEMMA CountStep ==
  ASSUME NetInv, [Next]_vars
  PROVE  CountInv'
<1>. Counts /\ Flag /\ CommandInv /\ CmdWait \in Nat /\ Pings \in Nat \ {0}
  BY NetAssumption, CountSplits DEF NetInv
<1>. SUFFICES Counts' /\ Flag'
  BY CountSplits, PTL
<1>1. CASE Handles
  <2>1. UNCHANGED <<pc, cmd, elapsed, sent, received>> /\ pc # "shell"
    BY <1>1, HandlesFacts DEF command
  <2>2. CASE UNCHANGED <<reply_received, echoes>>
    BY <2>1, <2>2 DEF Counts, Flag
  <2>3. CASE HandleEchoReply
    <3>1. reply_received' = TRUE
      BY <2>3 DEF HandleEchoReply
    <3>2. echoes' = IF cmd = "ping" /\ echoes < Pings THEN echoes + 1 ELSE echoes
      BY <2>3 DEF HandleEchoReply
    <3>3. Counts'
      BY <2>1, <3>2 DEF Counts
    <3>4. cmd = "ping" => received < echoes'
      BY <2>1, <3>2 DEF Counts, CommandInv
    <3>. QED  BY <2>1, <3>1, <3>3, <3>4 DEF Flag
  <2>4. UNCHANGED <<reply_received, echoes>> \/ HandleEchoReply
    BY <1>1 DEF Handles, HandleArp, HandleEchoRequest, HandleDatagram, Ignore
  <2>. QED  BY <2>2, <2>3, <2>4
<1>2. CASE Idles
  <2>1. UNCHANGED <<pc, cmd, elapsed, sent, received, reply_received, echoes>>
    BY <1>2, IdlesFacts DEF command
  <2>. QED  BY <2>1 DEF Counts, Flag
<1>3. CASE Retries \/ Back
  <2>1. UNCHANGED <<cmd, sent, received, reply_received, echoes>> /\ pc # "shell"
    BY <1>3, RetriesFacts, BackFacts
  <2>2. pc' = pc \/ (pc = "sending" /\ pc' = "waiting")
    BY <1>3, RetriesFacts, BackFacts
  <2>3. elapsed' \in 0 .. CmdWait
    <3>1. elapsed' = elapsed \/ Sleeps
      BY <1>3 DEF Retries, Back, Ask, Wait, TryAgain, SendResolved, GiveUp, command
    <3>. QED  BY <3>1 DEF Sleeps, Counts
  <2>4. Counts'
    BY <2>1, <2>2, <2>3 DEF Counts
  <2>5. Flag'
    BY <2>1, <2>2 DEF Flag
  <2>. QED  BY <2>4, <2>5
<1>4. CASE Leaves
  <2>1. reply_received' = FALSE
    BY <1>4, LeavesFacts DEF Leave
  <2>2. /\ pc' = "shell" /\ elapsed' = 0 /\ sent' = 0 /\ received' = 0 /\ echoes' = 0
    BY <1>4, LeavesFacts DEF Leave
  <2>3. Counts'
    BY <2>2 DEF Counts
  <2>4. Flag'
    BY <2>1, <2>2 DEF Flag
  <2>. QED  BY <2>3, <2>4
<1>5. CASE Requests \/ cmd_dns_bad_name \/ cmd_ping
  <2>1. PICK name, dst : Begin(name, dst)
    BY <1>5, RequestsFacts DEF cmd_dns_bad_name, cmd_ping
  <2>2. pc = "shell" /\ UNCHANGED <<elapsed, sent, received, echoes>>
    BY <2>1 DEF Begin
  <2>3. UNCHANGED reply_received
    BY <2>1 DEF Begin
  <2>4. reply_received' = FALSE
    BY <2>2, <2>3 DEF Flag
  <2>5. \/ pc' = "shell" \/ cmd' = "request" \/ (cmd' = "ping" /\ pc' = "resolving")
    BY <1>5, RequestsFacts DEF Begin, cmd_dns_bad_name, cmd_ping
  <2>6. Counts'
    BY <2>2, <2>5 DEF Counts
  <2>. QED  BY <2>4, <2>6 DEF Flag
<1>6. CASE PingResolved \/ PingAnswered
  <2>1. reply_received' = FALSE
    BY <1>6, EchoFacts DEF icmp_send_echo_request, icmp_clear_reply
  <2>2. /\ sent' = sent + 1 /\ pc' = "sending" /\ elapsed' = 0 /\ cmd' = "ping" /\ cmd = "ping"
        /\ echoes' = echoes /\ pc \in {"resolving", "waiting"}
    BY <1>6, EchoFacts DEF icmp_send_echo_request
  <2>3. CASE PingResolved
    <3>1. received' = received /\ pc = "resolving"
      BY <2>3 DEF PingResolved
    <3>2. Counts'
      BY <2>2, <3>1 DEF Counts
    <3>. QED  BY <2>1, <2>2, <3>2 DEF Flag
  <2>4. CASE PingAnswered
    <3>1. pc = "waiting" /\ sent < Pings
      BY <2>4 DEF PingAnswered
    <3>2. received' = received + 1 \/ received' = received
      <4>1. received' = received + (IF Found THEN 1 ELSE 0) /\ received \in Nat
        BY <2>4 DEF PingAnswered, Counts
      <4>2. CASE Found
        BY <4>1, <4>2
      <4>3. CASE ~Found
        BY <4>1, <4>3
      <4>. QED  BY <4>2, <4>3
    <3>3. received' = received + 1 => received < echoes
      <4>1. CASE Found
        <5>1. reply_received
          BY <2>2, <3>1, <4>1 DEF Found
        <5>. QED  BY <2>2, <5>1, <3>1 DEF Flag
      <4>2. CASE ~Found
        BY <2>4, <4>2 DEF PingAnswered, Counts
      <4>. QED  BY <4>1, <4>2
    <3>4. Counts'
      BY <2>2, <3>1, <3>2, <3>3 DEF Counts
    <3>. QED  BY <2>1, <2>2, <3>4 DEF Flag
  <2>. QED  BY <1>6, <2>3, <2>4
<1>7. CASE NextRound
  <2>1. /\ UNCHANGED <<pc, cmd, sent, received, reply_received, echoes>>
        /\ elapsed' = elapsed + 1 /\ ~(elapsed + 1 >= CmdWait)
    BY <1>7 DEF NextRound, Over
  <2>2. Counts'
    BY <2>1 DEF Counts
  <2>3. Flag'
    BY <2>1 DEF Flag
  <2>. QED  BY <2>2, <2>3
<1>. QED  BY <1>1, <1>2, <1>3, <1>4, <1>5, <1>6, <1>7, Kinds

THEOREM NetAlways == Spec => []NetInv
<1>1. Init => NetInv
  BY NetInvInit
<1>2. NetInv /\ [Next]_vars => NetInv'
  BY TypesStep, CacheStep, PortStep, CommandStep, CountStep, BufferStep DEF NetInv
<1>. QED  BY <1>1, <1>2, PTL DEF Spec
-----------------------------------------------------------------------------
(* Between commands no handler is bound and no reply is waiting, and every *)
(* variable has its type.                                                  *)
THEOREM NetNothingBound == Spec => []NothingBound
<1>1. NetInv => NothingBound
  <2>. SUFFICES ASSUME NetInv PROVE NothingBound
    OBVIOUS
  <2>1. \A i \in DOMAIN arp_cache :
          arp_cache[i] # NoMac => /\ arp_cache[i][1] \in Neighbours
                                 /\ arp_cache[i][2] \in Macs(arp_cache[i][1])
    BY DEF NetInv, Types, Entry
  <2>2. \A i \in DOMAIN stack : stack[i].try \in 1 .. Attempts /\ stack[i].ticks \in 0 .. ArpWait
    <3>1. \A i \in DOMAIN stack : stack[i] \in Calls
      BY DEF NetInv, Types
    <3>. QED  BY <3>1 DEF Calls
  <2>3. listen_port \in {NoPort, SrcPort} /\ reply_ready \in BOOLEAN
    BY DEF NetInv, PortInv
  <2>4. pc \in {"shell", "resolving", "sending", "waiting"} /\ Len(rxq) <= RingSize
    BY DEF NetInv, Types, CommandInv
  <2>5. elapsed \in 0 .. CmdWait /\ 0 <= received /\ received <= sent /\ sent <= Pings
    BY NetAssumption DEF NetInv, CountInv
  <2>6. TypeOK
    BY <2>1, <2>2, <2>3, <2>4, <2>5 DEF TypeOK
  <2>7. pc = "shell" =>
          /\ listen_port = NoPort /\ ~reply_ready
          /\ \A i \in DOMAIN bindings : bindings[i] = NoPort
    BY DEF NetInv, PortInv
  <2>. QED  BY <2>6, <2>7 DEF NothingBound
<1>. QED  BY <1>1, NetAlways, PTL

(* The cache holds what was heard last, once for every neighbour; a        *)
(* neighbour heard that is not in it found it full.                        *)
THEOREM NetArpCurrent == Spec => []ArpCurrent
<1>1. NetInv => ArpCurrent
  <2>. SUFFICES ASSUME NetInv, NEW h \in Neighbours
                PROVE  LET at == {i \in DOMAIN arp_cache : arp_cache[i] # NoMac /\ arp_cache[i][1] = h}
                       IN /\ Cardinality(at) <= 1
                          /\ \A i \in at : arp_cache[i][2] = heard[h]
                          /\ at = {} /\ heard[h] # NoMac => \A i \in DOMAIN arp_cache : arp_cache[i] # NoMac
    BY DEF ArpCurrent
  <2>. DEFINE at == {i \in DOMAIN arp_cache : arp_cache[i] # NoMac /\ arp_cache[i][1] = h}
  <2>1. DOMAIN arp_cache = 1 .. CacheSize
    BY DEF NetInv, Types
  <2>2. at = Entries(h)
    BY <2>1 DEF Entries
  <2>3. \A i, j \in at : i = j
    BY <2>2 DEF NetInv, CacheInv
  <2>4. Cardinality(at) <= 1
    <3>1. CASE at = {}
      BY <3>1, FS_EmptySet
    <3>2. CASE at # {}
      <4>1. PICK i : at = {i}
        BY <2>3, <3>2
      <4>2. Cardinality({i}) = 1
        BY FS_Singleton
      <4>. QED  BY <4>1, <4>2
    <3>. QED  BY <3>1, <3>2
  <2>5. \A i \in at : arp_cache[i][2] = heard[h]
    BY <2>2 DEF NetInv, CacheInv
  <2>6. at = {} /\ heard[h] # NoMac => \A i \in DOMAIN arp_cache : arp_cache[i] # NoMac
    BY <2>1, <2>2 DEF NetInv, CacheInv
  <2>. QED  BY <2>4, <2>5, <2>6
<1>. QED  BY <1>1, NetAlways, PTL

(* Every reply that ping counts is another one that was handled.           *)
THEOREM NetRepliesCounted == Spec => []RepliesCounted
<1>1. NetInv => RepliesCounted
  BY DEF NetInv, CountInv, RepliesCounted
<1>. QED  BY <1>1, NetAlways, PTL

(* A command's own packet goes to its destination or to the gateway, at    *)
(* the address last heard of, and once.                                    *)
THEOREM NetOwnPacketsRouted == Spec => OwnPacketsRouted
<1>1. NetInv /\ [Next]_vars => [OwnRouted]_vars
  <2>. DEFINE p == wire'.packet
              hop == IF p.dst \in Neighbours THEN p.dst ELSE net_gateway
              Routed == p.kind \in {"echo request", "datagram"} =>
                          /\ wire'.mac = heard[hop]
                          /\ pc = "sending" /\ Len(stack) = 1 /\ p.dst = target /\ p.seq = sent
  <2>. SUFFICES ASSUME NetInv, Next PROVE Routed
    BY DEF OwnRouted
  <2>1. CASE SendResolved
    <3>1. /\ wire'.mac = arp_resolve(Hop) /\ p = ip_buf /\ arp_resolve(Hop) # NoMac
          /\ stack # <<>>
      BY <2>1 DEF SendResolved, net_send_frame, Running
    <3>2. arp_resolve(Hop) = heard[Hop]
      BY <3>1, ResolveFacts, HopFacts DEF Hop, NetInv
    <3>3. SUFFICES ASSUME ip_buf.kind \in {"echo request", "datagram"} PROVE Routed
      BY <3>1
    <3>4. /\ pc = "sending" /\ Len(stack) = 1 /\ ip_buf.dst = target /\ ip_buf.seq = sent
          /\ stack[1].dst = target
      BY <3>3 DEF NetInv, BufferInv
    <3>5. Top.dst = target
      BY <3>1, <3>4, FrontFacts DEF Top, NetInv, Types
    <3>6. Hop = hop
      BY <3>1, <3>4, <3>5 DEF Hop, NextHop
    <3>. QED  BY <3>1, <3>2, <3>4, <3>6
  <2>2. CASE HandleArp
    <3>1. PICK f : arp_handle(f)
      BY <2>2 DEF HandleArp
    <3>. QED  BY <3>1 DEF arp_handle, Nothing, NoPacket, Packet, None
  <2>3. CASE Ask \/ cmd_ping
    <3>1. PICK ip : arp_request(ip)
      BY <2>3 DEF Ask, cmd_ping
    <3>. QED  BY <3>1 DEF arp_request, Packet
  <2>4. CASE \/ Wait \/ TryAgain \/ GiveUp \/ HandleEchoRequest \/ HandleEchoReply
             \/ HandleDatagram \/ Ignore \/ NextRound \/ PingResolved \/ PingUnresolved
             \/ PingAnswered \/ PingEnds \/ RequestEnds \/ Arrive \/ ArriveUnasked
             \/ cmd_udpsend \/ cmd_dns \/ cmd_dns_bad_name
    <3>1. Silent
      BY <2>4 DEF Wait, TryAgain, GiveUp, Sleeps, HandleEchoRequest, HandleEchoReply,
         HandleDatagram, Ignore, NextRound, PingResolved, PingUnresolved, PingAnswered,
         PingEnds, RequestEnds, Leave, Arrive, ArriveUnasked, cmd_udpsend, cmd_dns, cmd_dns_bad_name
    <3>. QED  BY <3>1 DEF Silent, Nothing, NoPacket, Packet, None
  <2>. QED  BY <2>1, <2>2, <2>3, <2>4 DEF Next, Kernel
<1>. QED  BY <1>1, NetAlways, PTL DEF Spec, OwnPacketsRouted
=============================================================================
