-------------------------- MODULE HostFilesProofs ---------------------------
(***************************************************************************)
(* Proofs about downloads, for every file, chunk and stage size, queue     *)
(* length and number of commands, whatever the network loses or delays.    *)
(*                                                                         *)
(* A reply does not say what it answers, so that one that comes late may   *)
(* be taken for another.  That is harmless only while there is one file:   *)
(* OnePulled is what SavedIsPrefix needs, OneNamed what keeps a reply to   *)
(* hostfilesize from being taken for a chunk.                              *)
(***************************************************************************)
EXTENDS HostFiles, SequenceTheorems, TLAPS

OnePulled == \E n \in DOMAIN Host : Pulled = {n} /\ n # None
OneNamed == Names \cap DOMAIN Host \subseteq Pulled

TheName == CHOOSE n \in Pulled : TRUE
TheFile == Host[TheName]
Unit == Range(TheFile)

\* What commands ask for, and what they may be answered.
Requests ==
  {Ask("LIST", None, 0)} \cup {Ask("SIZE", n, 0) : n \in Names \cup Pulled}
    \cup {Ask("GET", TheName, k) : k \in 0 .. Len(TheFile)}
Replies == {udp_reply(r) : r \in Requests}

Queues ==
  /\ requests \in Seq(Requests) /\ replies \in Seq(Replies) /\ ring \in Seq(Replies)
  /\ s_reply \in Replies \cup {NoReply}
  /\ listening <=> Waiting
  /\ s_reply # NoReply => listening

Pulling == pc \in {"total", "create", "loop", "chunk", "flush", "end", "wild"}
Text == local \o stage

\* t is the beginning of the file.
Begins(t) ==
  t \in Seq(Unit) /\ Len(t) <= Len(TheFile) /\ \A i \in 1 .. Len(t) : t[i] = TheFile[i]

(* What has been saved and staged is the beginning of the file, up to off  *)
(* while chunks are asked for.                                             *)
PullInv ==
  /\ pc \in {"shell", "list", "size", "total", "create", "loop", "chunk", "flush", "end", "wild"}
  /\ remote \in {None, TheName} /\ (Pulling => remote = TheName)
  /\ local \in Seq(Unit) /\ stage \in Seq(Unit) /\ Begins(Text)
  /\ pc \in {"loop", "chunk", "flush"} => Len(Text) = off
  /\ ~Pulling => stage = <<>> /\ off = 0 /\ total = 0
  /\ pc \in {"total", "create"} => Text = <<>> /\ off = 0
  /\ off \in 0 .. Len(TheFile) /\ total \in Nat

(* A reply without a header line never has the number that is waited for,  *)
(* because total, read as it was sent, is at most the length of the only   *)
(* file.                                                                   *)
NeverWild ==
  OneNamed /\ exact =>
    pc # "wild" /\ total <= Len(TheFile) /\ (pc = "chunk" => off < total)

\* At most one datagram is under way: the request, or its answer.
Outstanding(r) ==
  \/ requests = <<>> /\ replies = <<>> /\ ring = <<>> /\ s_reply \in {NoReply, udp_reply(r)}
  \/ requests = <<r>> /\ replies = <<>> /\ ring = <<>> /\ s_reply = NoReply
  \/ requests = <<>> /\ replies = <<udp_reply(r)>> /\ ring = <<>> /\ s_reply = NoReply
  \/ requests = <<>> /\ replies = <<>> /\ ring = <<udp_reply(r)>> /\ s_reply = NoReply

Idle == requests = <<>> /\ replies = <<>> /\ ring = <<>>

(* A pull that began undisturbed stays so, and knows the file's length     *)
(* unless it has read another number.                                      *)
CleanInv ==
  /\ exact \in BOOLEAN
  /\ saved => pc = "shell" /\ remote = TheName
  /\ clean /\ exact =>
       /\ pc = "total" => Outstanding(Ask("SIZE", TheName, 0))
       /\ pc \in {"create", "loop", "flush"} => Idle
       /\ pc = "chunk" => off < total /\ Outstanding(Ask("GET", TheName, off))
       /\ pc \in {"create", "loop", "chunk", "flush"} => total = Len(TheFile)
       /\ pc \notin {"list", "size", "end", "wild"}
       /\ saved => local = TheFile

DownloadInv == Queues /\ PullInv /\ NeverWild /\ CleanInv
-----------------------------------------------------------------------------
LEMMA FileFacts ==
  ASSUME OnePulled
  PROVE  /\ Pulled = {TheName} /\ TheName \in DOMAIN Host /\ TheName # None
         /\ TheFile \in Seq(Unit) /\ Len(TheFile) \in Nat
<1>1. Pulled = {TheName} /\ TheName \in DOMAIN Host /\ TheName # None
  BY DEF OnePulled, TheName
<1>2. TheFile \in Seq(Unit)
  BY <1>1, HostAssumption DEF TheFile, Unit
<1>. QED  BY <1>1, <1>2

LEMMA RequestFacts ==
  ASSUME OnePulled
  PROVE  /\ Ask("LIST", None, 0) \in Requests
         /\ \A n \in Names \cup Pulled : Ask("SIZE", n, 0) \in Requests
         /\ \A k \in 0 .. Len(TheFile) : Ask("GET", TheName, k) \in Requests
         /\ \A r \in Requests : udp_reply(r) \in Replies
         /\ \A p \in Replies : p # NoReply
<1>1. \A r \in Requests : r.kind # None
  BY DEF Requests, Ask, None
<1>2. \A r : udp_reply(r).to = r
  BY DEF udp_reply, OK, NoReply
<1>3. NoReply.to.kind = None
  BY DEF NoReply, Nothing, Ask
<1>. QED  BY <1>1, <1>2, <1>3 DEF Requests, Replies

(* The answers to the two requests of a pull.                              *)
LEMMA SizeReply ==
  ASSUME OnePulled, NEW p, p = udp_reply(Ask("SIZE", TheName, 0))
  PROVE  p.ok /\ p.first = Len(TheFile) /\ ~p.header
BY FileFacts DEF udp_reply, OK, Ask, TheFile

LEMMA GetReply ==
  ASSUME OnePulled, NEW k \in 0 .. Len(TheFile),
         NEW p, p = udp_reply(Ask("GET", TheName, k))
  PROVE  /\ p.ok /\ p.first = k /\ ~p.last
         /\ p.header <=> k < Len(TheFile)
         /\ p.data \in Seq(Unit)
         /\ p.data # <<>> <=> k < Len(TheFile)
         /\ k + Len(p.data) <= Len(TheFile)
         /\ \A i \in 1 .. Len(p.data) : p.data[i] = TheFile[k + i]
<1>1. TheName \in DOMAIN Host /\ TheFile \in Seq(Unit) /\ Len(TheFile) \in Nat
  BY FileFacts
<1>2. PICK r : /\ r = Ask("GET", TheName, k) /\ p = udp_reply(r)
               /\ r.kind = "GET" /\ r.off = k
               /\ r.name \in DOMAIN Host /\ Host[r.name] = TheFile
  BY <1>1 DEF Ask, TheFile
<1>3. CASE k >= Len(TheFile)
  <2>1. p = OK(r, k, FALSE, FALSE, <<>>)
    BY <1>1, <1>2, <1>3 DEF udp_reply
  <2>2. p.ok /\ p.first = k /\ ~p.last /\ ~p.header /\ p.data = <<>>
    BY <2>1 DEF OK
  <2>3. p.data \in Seq(Unit) /\ Len(p.data) = 0
    <3>1. <<>> \in Seq(Unit) /\ Len(<<>>) = 0
      BY EmptySeq
    <3>. QED  BY <2>2, <3>1
  <2>4. k + Len(p.data) <= Len(TheFile) /\ 1 .. Len(p.data) = {} /\ ~(k < Len(TheFile))
    BY <1>1, <1>3, <2>3
  <2>. QED  BY <2>2, <2>3, <2>4
<1>4. CASE k < Len(TheFile)
  <2>. DEFINE n == IF r.off + ChunkSize <= Len(Host[r.name]) THEN ChunkSize
                   ELSE Len(Host[r.name]) - r.off
              chunk == [i \in 1 .. n |-> Host[r.name][r.off + i]]
  <2>0. /\ r.kind = "GET" /\ r.name \in DOMAIN Host /\ ~(r.off >= Len(Host[r.name]))
        /\ p = udp_reply(r)
    BY <1>1, <1>2, <1>4
  <2>1. p = OK(r, r.off, FALSE, TRUE, chunk)
    BY <2>0 DEF udp_reply
  <2>2. n \in Nat /\ n > 0 /\ k + n <= Len(TheFile)
    BY <1>1, <1>2, <1>4, HostAssumption
  <2>3. \A i \in 1 .. n : chunk[i] = TheFile[k + i]
    BY <1>2
  <2>4. chunk \in [1 .. n -> Unit]
    <3>1. \A i \in 1 .. n : TheFile[k + i] \in Unit
      BY <1>1, <2>2
    <3>2. chunk = [i \in 1 .. n |-> chunk[i]]
      OBVIOUS
    <3>. HIDE DEF chunk, n
    <3>. QED  BY <2>3, <3>1, <3>2
  <2>. HIDE DEF chunk, n
  <2>5. p.ok /\ p.first = k /\ ~p.last /\ p.header /\ p.data = chunk
    BY <1>2, <2>1 DEF OK
  <2>6. chunk \in Seq(Unit) /\ Len(chunk) = n
    BY <2>2, <2>4
  <2>7. chunk # <<>>
    BY <2>2, <2>6, EmptySeq
  <2>. QED  BY <1>1, <1>4, <2>2, <2>3, <2>5, <2>6, <2>7
<1>. QED  BY <1>1, <1>3, <1>4

(* Whatever a reply answers: if it says it is a chunk, it is one.          *)
LEMMA ReplyFacts ==
  ASSUME OnePulled, NEW p \in Replies, p.ok
  PROVE  /\ p.first \in Nat /\ (p.header => ~p.last)
         /\ p.header /\ p.data # <<>> =>
              /\ p.data \in Seq(Unit)
              /\ p.first + Len(p.data) <= Len(TheFile)
              /\ \A i \in 1 .. Len(p.data) : p.data[i] = TheFile[p.first + i]
         /\ OneNamed => p.first <= Len(TheFile) /\ (~p.header => p.first = Len(TheFile))
<1>1. PICK r \in Requests : p = udp_reply(r)
  BY DEF Replies
<1>2. CASE r = Ask("LIST", None, 0)
  <2>1. p = OK(r, 0, FALSE, TRUE, <<>>)
    BY <1>1, <1>2, FileFacts DEF udp_reply, Ask
  <2>. QED  BY <2>1, FileFacts DEF OK
<1>3. ASSUME NEW n \in Names \cup Pulled, r = Ask("SIZE", n, 0)
      PROVE  /\ p.first \in Nat /\ p.data = <<>> /\ ~p.header
             /\ OneNamed => p.first = Len(TheFile)
  <2>1. n \in DOMAIN Host /\ p = OK(r, Len(Host[n]), TRUE, FALSE, <<>>)
    BY <1>1, <1>3 DEF udp_reply, Ask, NoReply
  <2>2. Len(Host[n]) \in Nat
    BY <2>1, HostAssumption
  <2>3. OneNamed => n = TheName
    BY <2>1, FileFacts DEF OneNamed
  <2>. QED  BY <2>1, <2>2, <2>3 DEF OK, TheFile
<1>4. ASSUME NEW k \in 0 .. Len(TheFile), r = Ask("GET", TheName, k)
      PROVE  /\ p.first = k /\ p.data \in Seq(Unit) /\ ~p.last
             /\ k + Len(p.data) <= Len(TheFile)
             /\ \A i \in 1 .. Len(p.data) : p.data[i] = TheFile[k + i]
             /\ p.header <=> k < Len(TheFile)
  <2>1. p = udp_reply(Ask("GET", TheName, k))
    BY <1>1, <1>4
  <2>. QED  BY <2>1, GetReply
<1>5. Len(TheFile) \in Nat
  BY FileFacts
<1>. QED  BY <1>2, <1>3, <1>4, <1>5 DEF Requests

(* A number is read as it was sent where something in the reply ends it.   *)
LEMMA NumberRead ==
  ASSUME OnePulled, NEW p \in Replies, p.ok, NEW n \in pull_parse_dec(p)
  PROVE  n \in Nat /\ (p.header => n = p.first)
<1>1. p.first \in Nat /\ (p.header => ~p.last)
  BY ReplyFacts
<1>2. CASE ~p.last
  BY <1>1, <1>2 DEF pull_parse_dec
<1>3. CASE p.last
  <2>1. PICK d \in Stale \cup {NoDigits} : n = (p.first * d.scale + d.add) % Word
    BY <1>3 DEF pull_parse_dec
  <2>2. d.scale \in Nat /\ d.add \in Nat
    BY HostAssumption DEF NoDigits
  <2>3. p.first * d.scale + d.add \in Nat
    BY <1>1, <2>2
  <2>4. PICK k \in Nat : k = p.first * d.scale + d.add
    BY <2>3
  <2>5. n = k % Word
    BY <2>1, <2>4
  <2>6. n \in Nat
    BY <2>5, HostAssumption
  <2>7. ~p.header
    BY <1>1, <1>3
  <2>. QED  BY <2>6, <2>7
<1>. QED  BY <1>2, <1>3

LEMMA LossyFacts ==
  ASSUME NEW S, NEW q \in Seq(S), NEW d \in S, NEW size, NEW q2 \in Lossy(q, size, d)
  PROVE  q2 \in Seq(S) /\ (q = <<>> => q2 \in {<<>>, <<d>>})
<1>1. q2 = q \/ q2 = Append(q, d)
  BY DEF Lossy
<1>2. Append(q, d) \in Seq(S)
  BY AppendProperties
<1>3. Append(<<>>, d) = <<d>>
  OBVIOUS
<1>. QED  BY <1>1, <1>2, <1>3

LEMMA BeginsFacts ==
  ASSUME OnePulled, NEW s \in Seq(Unit), NEW t \in Seq(Unit), Begins(s \o t)
  PROVE  /\ Begins(s) /\ Begins(s \o <<>>) /\ s \o <<>> = s
         /\ Len(s \o t) = Len(s) + Len(t)
<1>1. /\ s \o <<>> = s /\ Len(s \o t) = Len(s) + Len(t)
      /\ \A i \in 1 .. Len(s) : (s \o t)[i] = s[i]
  BY ConcatEmptySeq, ConcatProperties
<1>2. Len(s) \in Nat /\ Len(t) \in Nat /\ Len(TheFile) \in Nat
  BY FileFacts
<1>3. Begins(s)
  BY <1>1, <1>2 DEF Begins
<1>. QED  BY <1>1, <1>3

LEMMA BeginsEmpty ==
  ASSUME OnePulled
  PROVE  /\ Begins(<<>>) /\ Len(<<>>) = 0 /\ <<>> \in Seq(Unit)
         /\ <<>> \o <<>> = <<>>
<1>1. <<>> \in Seq(Unit) /\ Len(<<>>) = 0
  BY EmptySeq
<1>. QED  BY <1>1, FileFacts, ConcatEmptySeq DEF Begins

(* A chunk with the number that was asked for makes the beginning longer.  *)
LEMMA BeginsChunk ==
  ASSUME OnePulled, NEW s \in Seq(Unit), NEW t \in Seq(Unit), NEW d \in Seq(Unit),
         Begins(s \o t), Len(s \o t) + Len(d) <= Len(TheFile),
         \A i \in 1 .. Len(d) : d[i] = TheFile[Len(s \o t) + i]
  PROVE  /\ t \o d \in Seq(Unit) /\ Begins(s \o (t \o d))
         /\ Len(s \o (t \o d)) = Len(s \o t) + Len(d)
<1>0. PICK u : u = s \o t
  OBVIOUS
<1>1. u \in Seq(Unit) /\ Len(u) \in Nat /\ Len(d) \in Nat /\ Len(TheFile) \in Nat
  BY <1>0, FileFacts, ConcatProperties
<1>2. s \o (t \o d) = u \o d /\ t \o d \in Seq(Unit)
  BY <1>0
<1>3. Begins(u)
  BY <1>0
<1>4. /\ u \o d \in Seq(Unit) /\ Len(u \o d) = Len(u) + Len(d)
      /\ \A i \in 1 .. Len(u) + Len(d) :
           (u \o d)[i] = IF i <= Len(u) THEN u[i] ELSE d[i - Len(u)]
  BY <1>1, ConcatProperties
<1>5. Len(u) + Len(d) <= Len(TheFile) /\ \A i \in 1 .. Len(d) : d[i] = TheFile[Len(u) + i]
  BY <1>0
<1>6. ASSUME NEW i \in 1 .. Len(u \o d)
      PROVE  (u \o d)[i] = TheFile[i]
  <2>1. CASE i <= Len(u)
    BY <1>1, <1>3, <1>4, <2>1 DEF Begins
  <2>2. CASE i > Len(u)
    <3>1. i - Len(u) \in 1 .. Len(d) /\ Len(u) + (i - Len(u)) = i
      BY <1>1, <1>4, <2>2
    <3>. QED  BY <1>1, <1>4, <1>5, <2>2, <3>1
  <2>. QED  BY <1>1, <1>4, <2>1, <2>2
<1>7. Begins(u \o d)
  BY <1>4, <1>5, <1>6 DEF Begins
<1>8. Begins(s \o (t \o d)) /\ Len(s \o (t \o d)) = Len(u) + Len(d)
  BY <1>2, <1>4, <1>7
<1>. QED  BY <1>0, <1>2, <1>8

LEMMA DownloadInvInit == ASSUME OnePulled, Init PROVE DownloadInv
<1>. USE DEF Init
<1>1. Queues
  BY DEF Queues, Waiting
<1>2. PullInv
  BY BeginsEmpty, FileFacts DEF PullInv, Pulling, Text
<1>3. NeverWild
  BY FileFacts DEF NeverWild
<1>4. CleanInv
  BY DEF CleanInv
<1>. QED  BY <1>1, <1>2, <1>3, <1>4 DEF DownloadInv

(* Sending a request, and the end of waiting for its answer.               *)
LEMMA StartQueues ==
  ASSUME OnePulled, Queues, NEW r \in Requests, NEW w \in {"list", "size", "total", "chunk"},
         Start(r, w)
  PROVE  Queues'
<1>1. requests' \in Seq(Requests)
  BY LossyFacts DEF Start, Queues
<1>. QED  BY <1>1 DEF Start, Queues, Waiting

LEMMA FinishQueues ==
  ASSUME Queues, udp_request_finish, UNCHANGED network,
         pc' \in {"shell", "create", "loop", "flush", "end", "wild"}
  PROVE  Queues'
BY DEF Queues, udp_request_finish, network, Waiting

LEMMA QueuesStep ==
  ASSUME OnePulled, DownloadInv, [Next]_vars
  PROVE  Queues'
<1>. Queues
  BY DEF DownloadInv
<1>1. CASE Serve
  <2>1. Head(requests) \in Requests /\ Tail(requests) \in Seq(Requests)
    BY <1>1, HeadTailProperties DEF Serve, Queues
  <2>2. replies' \in Seq(Replies)
    BY <1>1, <2>1, RequestFacts, LossyFacts DEF Serve, Queues
  <2>. QED  BY <1>1, <2>1, <2>2 DEF Serve, Queues, udp, Waiting
<1>2. CASE Deliver
  <2>1. Head(replies) \in Replies /\ Tail(replies) \in Seq(Replies)
    BY <1>2, HeadTailProperties DEF Deliver, Queues
  <2>2. ring' \in Seq(Replies)
    BY <1>2, <2>1, LossyFacts DEF Deliver, Queues
  <2>. QED  BY <1>2, <2>1, <2>2 DEF Deliver, Queues, udp, Waiting
<1>3. CASE OtherCommand
  BY <1>3 DEF OtherCommand, Queues, udp, Waiting
<1>4. CASE process_rx_packets
  <2>1. ring[Len(ring)] \in Replies
    <3>1. ring \in Seq(Replies) /\ ring # <<>>
      BY <1>4 DEF process_rx_packets, Queues
    <3>2. Len(ring) \in 1 .. Len(ring)
      BY <3>1, EmptySeq
    <3>. QED  BY <3>1, <3>2
  <2>. QED  BY <1>4, <2>1 DEF process_rx_packets, Queues, Waiting
<1>5. CASE cmd_listhostfiles \/ cmd_hostfilesize \/ cmd_pullhostfile
  <2>. QED
    BY <1>5, StartQueues, RequestFacts
    DEF cmd_listhostfiles, cmd_hostfilesize, cmd_pullhostfile
<1>6. CASE NextChunk
  <2>1. Ask("GET", remote, off) \in Requests
    BY <1>6, RequestFacts DEF NextChunk, DownloadInv, PullInv, Pulling
  <2>. QED  BY <1>6, <2>1, StartQueues DEF NextChunk
<1>7. CASE TimeOut \/ Show \/ GotTotal \/ GotChunk
  <2>1. pc' \in {"shell", "create", "loop", "flush", "end", "wild"}
    BY <1>7 DEF TimeOut, Show, GotTotal, GotChunk, Leave
  <2>2. udp_request_finish /\ UNCHANGED network
    BY <1>7 DEF TimeOut, Show, GotTotal, GotChunk, Answered
  <2>. QED  BY <2>1, <2>2, FinishQueues
<1>8. CASE CreateFile \/ Flush \/ Finish
  <2>1. /\ UNCHANGED <<network, udp>> /\ ~Waiting
        /\ pc' \in {"shell", "loop"}
    BY <1>8 DEF CreateFile, Flush, Finish, Leave, Waiting
  <2>. QED  BY <2>1 DEF Queues, network, udp, Waiting
<1>9. CASE UNCHANGED vars
  BY <1>9 DEF vars, network, udp, Queues, Waiting
<1>. QED
  BY <1>1, <1>2, <1>3, <1>4, <1>5, <1>6, <1>7, <1>8, <1>9 DEF Next, Guest

-----------------------------------------------------------------------------
(* The answer that a pull has been given.                                  *)
LEMMA AnsweredFacts ==
  ASSUME OnePulled, Queues, NEW at, Answered(at)
  PROVE  s_reply \in Replies
BY DEF Answered, Queues

(* A pull ends, with the file as it was saved so far.                      *)
LEMMA LeavePull ==
  ASSUME OnePulled, PullInv, Leave, UNCHANGED <<remote, local>>
  PROVE  PullInv'
<1>1. Begins(local) /\ local \o <<>> = local
  BY BeginsFacts DEF PullInv, Text
<1>2. Text' = local
  BY <1>1 DEF Leave, Text
<1>3. 0 \in 0 .. Len(TheFile) /\ <<>> \in Seq(Unit)
  BY FileFacts, BeginsEmpty
<1>. QED  BY <1>1, <1>2, <1>3 DEF Leave, PullInv, Pulling

LEMMA PullStep ==
  ASSUME OnePulled, DownloadInv, [Next]_vars
  PROVE  PullInv'
<1>. PullInv /\ Queues
  BY DEF DownloadInv
<1>1. CASE UNCHANGED <<pc, file>>
  BY <1>1 DEF file, PullInv, Pulling, Text
<1>2. CASE TimeOut
  BY <1>2, LeavePull DEF TimeOut
<1>3. CASE Show
  <2>1. pc \in {"list", "size"} /\ pc' = "shell" /\ UNCHANGED file
    BY <1>3 DEF Show, Answered
  <2>. QED  BY <2>1 DEF file, PullInv, Pulling, Text
<1>4. CASE cmd_listhostfiles \/ cmd_hostfilesize \/ cmd_pullhostfile
  <2>1. /\ pc = "shell" /\ pc' \in {"list", "size", "total"}
        /\ local' = <<>> /\ UNCHANGED <<total, off, stage>>
        /\ remote' \in {None, TheName} /\ (pc' = "total" => remote' = TheName)
    BY <1>4, FileFacts
    DEF cmd_listhostfiles, cmd_hostfilesize, cmd_pullhostfile, Start, Remember
  <2>2. stage = <<>> /\ off = 0
    BY <2>1 DEF PullInv, Pulling
  <2>3. Text' = <<>>
    BY <2>1, <2>2, BeginsEmpty DEF Text
  <2>. QED  BY <2>1, <2>2, <2>3, BeginsEmpty DEF PullInv, Pulling
<1>5. CASE GotTotal
  <2>1. CASE Leave
    BY <1>5, <2>1, LeavePull DEF GotTotal
  <2>2. CASE ~Leave
    <3>1. /\ pc = "total" /\ s_reply.ok /\ pc' = "create" /\ total' \in pull_parse_dec(s_reply)
          /\ UNCHANGED <<off, stage, remote, local>>
      BY <1>5, <2>2 DEF GotTotal, Answered
    <3>2. total' \in Nat
      BY <1>5, <3>1, AnsweredFacts, NumberRead DEF GotTotal
    <3>. QED  BY <3>1, <3>2 DEF PullInv, Pulling, Text
  <2>. QED  BY <2>1, <2>2
<1>6. CASE CreateFile
  <2>1. CASE Leave
    BY <1>6, <2>1, LeavePull DEF CreateFile
  <2>2. CASE ~Leave
    <3>1. pc = "create" /\ pc' = "loop" /\ UNCHANGED <<total, off, stage, remote, local>>
      BY <1>6, <2>2 DEF CreateFile
    <3>2. Len(Text) = off
      BY <3>1, BeginsEmpty DEF PullInv
    <3>. QED  BY <3>1, <3>2 DEF PullInv, Pulling, Text
  <2>. QED  BY <2>1, <2>2
<1>7. CASE NextChunk
  <2>1. pc = "loop" /\ pc' = "chunk" /\ UNCHANGED file
    BY <1>7 DEF NextChunk, Start
  <2>. QED  BY <2>1 DEF file, PullInv, Pulling, Text
<1>8. CASE GotChunk
  <2>0. pc = "chunk" /\ UNCHANGED <<remote, local>>
    BY <1>8 DEF GotChunk, Answered
  <2>1. CASE Leave
    BY <2>0, <2>1, LeavePull
  <2>2. CASE pc' \in {"wild", "end"} /\ UNCHANGED <<total, off, stage>>
    BY <2>0, <2>2 DEF PullInv, Pulling, Text
  <2>3. CASE ~Leave /\ ~(pc' \in {"wild", "end"} /\ UNCHANGED <<total, off, stage>>)
    <3>0. /\ s_reply.ok /\ off \in pull_parse_dec(s_reply) /\ s_reply.header
          /\ s_reply.data # <<>>
          /\ total' = total /\ stage' = stage \o s_reply.data
          /\ off' = off + Len(s_reply.data) /\ pc' \in {"flush", "loop"}
      BY <1>8, <2>3 DEF GotChunk, OffsetMatches
    <3>2. s_reply \in Replies
      BY <1>8, AnsweredFacts DEF GotChunk
    <3>1. /\ s_reply.ok /\ s_reply.first = off /\ s_reply.header /\ s_reply.data # <<>>
          /\ total' = total /\ stage' = stage \o s_reply.data
          /\ off' = off + Len(s_reply.data) /\ pc' \in {"flush", "loop"}
      BY <3>0, <3>2, NumberRead
    <3>3. /\ s_reply.data \in Seq(Unit)
          /\ off + Len(s_reply.data) <= Len(TheFile)
          /\ \A i \in 1 .. Len(s_reply.data) : s_reply.data[i] = TheFile[off + i]
      BY <3>1, <3>2, ReplyFacts
    <3>4. off = Len(local \o stage) /\ local \in Seq(Unit) /\ stage \in Seq(Unit)
          /\ Begins(local \o stage)
      BY <2>0 DEF PullInv, Text
    <3>5. /\ stage' \in Seq(Unit) /\ Begins(local \o stage')
          /\ Len(local \o stage') = off + Len(s_reply.data)
      <4>1. PICK d \in Seq(Unit) : d = s_reply.data
        BY <3>3
      <4>2. /\ Len(local \o stage) + Len(d) <= Len(TheFile)
            /\ \A i \in 1 .. Len(d) : d[i] = TheFile[Len(local \o stage) + i]
        BY <3>3, <3>4, <4>1
      <4>3. /\ stage \o d \in Seq(Unit) /\ Begins(local \o (stage \o d))
            /\ Len(local \o (stage \o d)) = Len(local \o stage) + Len(d)
        BY <3>4, <4>2, BeginsChunk
      <4>. QED  BY <3>1, <3>4, <4>1, <4>3
    <3>6. off' \in 0 .. Len(TheFile)
      BY <3>1, <3>3, <3>5, FileFacts DEF PullInv
    <3>. QED  BY <2>0, <3>1, <3>5, <3>6 DEF PullInv, Pulling, Text
  <2>. QED  BY <2>1, <2>2, <2>3
<1>9. CASE Flush
  <2>1. CASE Leave /\ UNCHANGED local
    BY <1>9, <2>1, LeavePull DEF Flush
  <2>2. CASE ~(Leave /\ UNCHANGED local)
    <3>1. /\ pc = "flush" /\ pc' = "loop" /\ local' = Text /\ stage' = <<>>
          /\ UNCHANGED <<total, off, remote>>
      BY <1>9, <2>2 DEF Flush, StageAfterFlush, Text
    <3>2. Text \in Seq(Unit) /\ Text \o <<>> = Text /\ <<>> \in Seq(Unit)
      BY ConcatEmptySeq, BeginsEmpty DEF PullInv, Begins
    <3>3. Text' = Text
      BY <3>1, <3>2 DEF Text
    <3>. QED  BY <3>1, <3>2, <3>3 DEF PullInv, Pulling
  <2>. QED  BY <2>1, <2>2
<1>10. CASE Finish
  <2>1. CASE UNCHANGED local
    BY <1>10, <2>1, LeavePull DEF Finish
  <2>2. CASE local' = Text
    <3>1. Text \in Seq(Unit) /\ Text \o <<>> = Text /\ <<>> \in Seq(Unit) /\ Begins(Text)
      BY ConcatEmptySeq, BeginsEmpty DEF PullInv, Begins
    <3>2. Text' = Text
      BY <1>10, <2>2, <3>1 DEF Finish, Leave, Text
    <3>3. 0 \in 0 .. Len(TheFile)
      BY FileFacts
    <3>. QED  BY <1>10, <2>2, <3>1, <3>2, <3>3 DEF Finish, Leave, PullInv, Pulling
  <2>. QED  BY <1>10, <2>1, <2>2 DEF Finish, FinalText, Text
<1>. QED
  BY <1>1, <1>2, <1>3, <1>4, <1>5, <1>6, <1>7, <1>8, <1>9, <1>10
  DEF Next, Guest, Serve, Deliver, OtherCommand, process_rx_packets, vars

(* total, read as it came in some reply, is at most the file's length.     *)
LEMMA NeverWildStep ==
  ASSUME OnePulled, DownloadInv, [Next]_vars
  PROVE  NeverWild'
<1>. SUFFICES ASSUME OneNamed, exact'
              PROVE  pc' # "wild" /\ total' <= Len(TheFile) /\ (pc' = "chunk" => off' < total')
  BY DEF NeverWild
<1>. PullInv /\ Queues
  BY DEF DownloadInv
<1>. Len(TheFile) \in Nat
  BY FileFacts
<1>2. CASE Leave
  BY <1>2 DEF Leave
<1>3. CASE cmd_listhostfiles \/ cmd_hostfilesize \/ cmd_pullhostfile
  <2>1. pc = "shell" /\ pc' \in {"list", "size", "total"} /\ UNCHANGED <<total, off>>
    BY <1>3 DEF cmd_listhostfiles, cmd_hostfilesize, cmd_pullhostfile, Start, Remember
  <2>2. total = 0
    BY <2>1 DEF PullInv, Pulling
  <2>. QED  BY <2>1, <2>2
<1>4. CASE Guest \/ UNCHANGED <<pc, file>>
  <2>. pc # "wild" /\ total <= Len(TheFile) /\ (pc = "chunk" => off < total)
    <3>1. exact
      BY <1>4
      DEF Guest, process_rx_packets, TimeOut, Show, GotTotal, CreateFile, NextChunk,
          GotChunk, Flush, Finish, file
    <3>. QED  BY <3>1 DEF DownloadInv, NeverWild
  <2>1. CASE UNCHANGED <<pc, file>>
    BY <2>1 DEF file
  <2>2. CASE Show
    BY <2>2 DEF Show, file
  <2>3. CASE GotTotal /\ ~Leave
    <3>1. s_reply.ok /\ pc' = "create" /\ total' = s_reply.first
      BY <2>3 DEF GotTotal
    <3>2. s_reply \in Replies
      BY <2>3, AnsweredFacts DEF GotTotal
    <3>. QED  BY <3>1, <3>2, ReplyFacts
  <2>4. CASE CreateFile /\ ~Leave
    BY <2>4 DEF CreateFile
  <2>5. CASE NextChunk
    BY <2>5 DEF NextChunk, Start, file
  <2>6. CASE GotChunk /\ ~Leave
    <3>1. pc = "chunk" /\ s_reply.ok /\ s_reply.first = off /\ UNCHANGED total
      BY <2>6 DEF GotChunk, OffsetMatches, Answered
    <3>2. s_reply \in Replies
      BY <2>6, AnsweredFacts DEF GotChunk
    <3>3. off < Len(TheFile) /\ s_reply.header
      BY <3>1, <3>2, ReplyFacts DEF PullInv
    <3>. QED  BY <2>6, <3>1, <3>3 DEF GotChunk
  <2>7. CASE Flush /\ ~Leave
    BY <2>7 DEF Flush
  <2>. QED
    BY <1>2, <1>4, <2>1, <2>2, <2>3, <2>4, <2>5, <2>6, <2>7
    DEF Guest, process_rx_packets, TimeOut, CreateFile, Flush, Finish
<1>. QED
  BY <1>3, <1>4 DEF Next, Serve, Deliver, OtherCommand, vars

-----------------------------------------------------------------------------
(* While a pull that began undisturbed waits, at most its request or its   *)
(* answer is under way.                                                    *)
LEMMA StartOutstanding ==
  ASSUME OnePulled, Queues, Idle, NEW r \in Requests, NEW w, Start(r, w)
  PROVE  /\ requests' \in {<<>>, <<r>>} /\ replies' = <<>> /\ ring' = <<>>
         /\ s_reply' = NoReply
BY LossyFacts DEF Start, Queues, Idle

LEMMA OutstandingStep ==
  ASSUME OnePulled, Queues, NEW r \in Requests, Outstanding(r),
         Serve \/ Deliver \/ process_rx_packets
  PROVE  Outstanding(r)'
<1>1. udp_reply(r) \in Replies /\ udp_reply(r) # NoReply
  BY RequestFacts
<1>2. \A x : Head(<<x>>) = x /\ Tail(<<x>>) = <<>> /\ <<x>> # <<>> /\ Len(<<x>>) = 1
             /\ <<x>>[1] = x
  OBVIOUS
<1>3. CASE Serve
  <2>1. requests = <<r>> /\ replies = <<>> /\ ring = <<>> /\ s_reply = NoReply
    BY <1>3 DEF Serve, Outstanding
  <2>2. replies' \in {<<>>, <<udp_reply(r)>>}
    BY <1>1, <1>2, <1>3, <2>1, LossyFacts DEF Serve, Queues
  <2>. QED  BY <1>2, <1>3, <2>1, <2>2 DEF Serve, Outstanding, udp
<1>4. CASE Deliver
  <2>1. requests = <<>> /\ replies = <<udp_reply(r)>> /\ ring = <<>> /\ s_reply = NoReply
    BY <1>4 DEF Deliver, Outstanding
  <2>2. ring' \in {<<>>, <<udp_reply(r)>>}
    BY <1>1, <1>2, <1>4, <2>1, LossyFacts DEF Deliver, Queues
  <2>. QED  BY <1>2, <1>4, <2>1, <2>2 DEF Deliver, Outstanding, udp
<1>5. CASE process_rx_packets
  <2>1. requests = <<>> /\ replies = <<>> /\ ring = <<udp_reply(r)>> /\ s_reply = NoReply
    BY <1>5 DEF process_rx_packets, Outstanding
  <2>. QED  BY <1>2, <1>5, <2>1 DEF process_rx_packets, Outstanding
<1>. QED  BY <1>3, <1>4, <1>5

LEMMA UndisturbedIdle ==
  ASSUME Queues, requests \o replies \o ring = <<>>
  PROVE  Idle
<1>1. PICK a \in Seq(Requests) : a = requests
  BY DEF Queues
<1>2. PICK b \in Seq(Replies) : b = replies
  BY DEF Queues
<1>3. PICK c \in Seq(Replies) : c = ring
  BY DEF Queues
<1>. DEFINE S == Requests \cup Replies
<1>4. a \in Seq(S) /\ b \in Seq(S) /\ c \in Seq(S)
  OBVIOUS
<1>. HIDE DEF S
<1>5. a \o b \in Seq(S) /\ Len(a \o b) = Len(a) + Len(b)
  BY <1>4, ConcatProperties
<1>6. Len(a \o b \o c) = Len(a) + Len(b) + Len(c)
  BY <1>4, <1>5, ConcatProperties
<1>7. Len(a) + Len(b) + Len(c) = 0
  <2>1. a \o b \o c = <<>> /\ Len(<<>>) = 0
    BY <1>1, <1>2, <1>3
  <2>. QED  BY <1>6, <2>1
<1>8. a = <<>> /\ b = <<>> /\ c = <<>>
  <2>1. Len(a) \in Nat /\ Len(b) \in Nat /\ Len(c) \in Nat
    BY <1>4
  <2>2. Len(a) = 0 /\ Len(b) = 0 /\ Len(c) = 0
    BY <1>7, <2>1
  <2>. QED  BY <1>4, <2>2, EmptySeq
<1>. QED  BY <1>1, <1>2, <1>3, <1>8 DEF Idle

\* A command reads the numbers that were sent until it reads another.
LEMMA ExactStep ==
  ASSUME exact \in BOOLEAN, Guest
  PROVE  exact' \in BOOLEAN /\ (exact' => exact)
<1>1. CASE GotTotal \/ GotChunk
  <2>1. PICK n : exact' = (exact /\ n = s_reply.first)
    BY <1>1 DEF GotTotal, GotChunk
  <2>. QED  BY <2>1
<1>2. CASE ~(GotTotal \/ GotChunk)
  <2>1. exact' = exact
    BY <1>2
    DEF Guest, process_rx_packets, TimeOut, Show, CreateFile, NextChunk, Flush, Finish, file
  <2>. QED  BY <2>1
<1>. QED  BY <1>1, <1>2

LEMMA LeaveClean ==
  ASSUME CleanInv, Leave, exact' \in BOOLEAN, exact' => exact,
         UNCHANGED <<remote, local, saved, clean>>
  PROVE  CleanInv'
BY DEF CleanInv, Leave

\* The beginning of the file that is as long as the file.
LEMMA BeginsWhole ==
  ASSUME OnePulled, NEW t, Begins(t), Len(t) >= Len(TheFile)
  PROVE  t = TheFile
<1>1. t \in Seq(Unit) /\ TheFile \in Seq(Unit) /\ Len(t) = Len(TheFile)
  BY FileFacts DEF Begins
<1>2. \A i \in 1 .. Len(t) : t[i] = TheFile[i]
  BY DEF Begins
<1>. QED  BY <1>1, <1>2, SeqEqual

LEMMA CleanStep ==
  ASSUME OnePulled, DownloadInv, [Next]_vars
  PROVE  CleanInv'
<1>. Queues /\ PullInv /\ CleanInv
  BY DEF DownloadInv
<1>. Len(TheFile) \in Nat
  BY FileFacts
<1>1. CASE Serve \/ Deliver \/ process_rx_packets
  <2>1. UNCHANGED <<pc, file>>
    BY <1>1 DEF Serve, Deliver, process_rx_packets
  <2>2. UNCHANGED <<pc, off, total, remote, local, saved, clean, exact>>
    BY <2>1 DEF file
  <2>3. ~Idle \/ Waiting
    BY <1>1 DEF Serve, Deliver, process_rx_packets, Idle
  <2>4. CASE ~(clean /\ exact) \/ pc = "shell"
    BY <2>2, <2>4 DEF CleanInv
  <2>5. CASE clean /\ exact /\ pc = "total"
    <3>1. Outstanding(Ask("SIZE", TheName, 0))'
      BY <1>1, <2>5, OutstandingStep, RequestFacts, FileFacts DEF CleanInv
    <3>. QED  BY <2>2, <2>5, <3>1 DEF CleanInv
  <2>6. CASE clean /\ exact /\ pc = "chunk"
    <3>1. PICK r \in Requests : r = Ask("GET", TheName, off)
      BY RequestFacts DEF PullInv
    <3>2. Outstanding(r)'
      BY <1>1, <2>6, <3>1, OutstandingStep DEF CleanInv
    <3>3. Outstanding(Ask("GET", TheName, off))'
      BY <2>2, <3>1, <3>2 DEF Outstanding
    <3>. QED  BY <2>2, <2>6, <3>3 DEF CleanInv
  <2>. QED  BY <2>2, <2>3, <2>4, <2>5, <2>6 DEF CleanInv, PullInv, Waiting
<1>2. CASE OtherCommand
  <2>1. pc = "shell" /\ UNCHANGED <<pc, remote, local, saved, clean, exact>>
    BY <1>2 DEF OtherCommand, file
  <2>. QED  BY <2>1 DEF CleanInv
<1>3. CASE Leave /\ UNCHANGED <<remote, local, saved, clean>> /\ Guest
  <2>1. exact \in BOOLEAN
    BY DEF CleanInv
  <2>. QED  BY <1>3, <2>1, ExactStep, LeaveClean
<1>4. CASE Show
  <2>1. pc \in {"list", "size"} /\ pc' = "shell" /\ UNCHANGED <<remote, local, saved, clean, exact>>
    BY <1>4 DEF Show, Answered, file
  <2>. QED  BY <2>1 DEF CleanInv
<1>5. CASE cmd_listhostfiles \/ cmd_hostfilesize
  <2>1. ~clean' /\ ~saved' /\ exact'
    BY <1>5 DEF cmd_listhostfiles, cmd_hostfilesize, Remember
  <2>. QED  BY <2>1 DEF CleanInv
<1>6. CASE cmd_pullhostfile
  <2>1. /\ Start(Ask("SIZE", TheName, 0), "total")
        /\ clean' = (requests \o replies \o ring = <<>>) /\ ~saved' /\ exact' = TRUE
    BY <1>6, FileFacts DEF cmd_pullhostfile, Remember
  <2>2. pc' = "total"
    BY <2>1 DEF Start
  <2>3. CASE clean'
    <3>1. Idle
      BY <2>1, <2>3, UndisturbedIdle
    <3>2. /\ requests' \in {<<>>, <<Ask("SIZE", TheName, 0)>>}
          /\ replies' = <<>> /\ ring' = <<>> /\ s_reply' = NoReply
      BY <2>1, <3>1, StartOutstanding, RequestFacts, FileFacts
    <3>3. Outstanding(Ask("SIZE", TheName, 0))'
      BY <3>2 DEF Outstanding
    <3>. QED  BY <2>1, <2>2, <3>3 DEF CleanInv
  <2>. QED  BY <2>1, <2>3 DEF CleanInv
<1>7. CASE GotTotal /\ ~Leave
  <2>1. /\ pc = "total" /\ pc' = "create" /\ s_reply # NoReply
        /\ exact' \in BOOLEAN /\ (exact' => exact /\ total' = s_reply.first)
        /\ UNCHANGED <<requests, replies, ring, local, saved, clean>>
    BY <1>7 DEF GotTotal, Answered, network
  <2>2. CASE clean /\ exact'
    <3>1. Idle /\ s_reply = udp_reply(Ask("SIZE", TheName, 0))
      BY <2>1, <2>2 DEF CleanInv, Outstanding, Idle
    <3>2. total' = Len(TheFile)
      BY <2>1, <2>2, <3>1, SizeReply
    <3>. QED  BY <2>1, <3>1, <3>2 DEF CleanInv, Idle
  <2>. QED  BY <2>1, <2>2 DEF CleanInv
<1>8. CASE CreateFile /\ ~Leave
  <2>1. /\ pc = "create" /\ pc' = "loop"
        /\ UNCHANGED <<total, requests, replies, ring, local, saved, clean, exact>>
    BY <1>8 DEF CreateFile, network
  <2>. QED  BY <2>1 DEF CleanInv, Idle
<1>9. CASE NextChunk
  <2>1. /\ pc = "loop" /\ pc' = "chunk" /\ off < total
        /\ UNCHANGED <<off, total, local, saved, clean, exact>>
    BY <1>9 DEF NextChunk, Start, file
  <2>2. CASE clean /\ exact
    <3>1. PICK r \in Requests : r = Ask("GET", TheName, off) /\ Start(r, "chunk")
      BY <1>9, RequestFacts DEF NextChunk, PullInv, Pulling
    <3>2. Idle
      BY <2>1, <2>2 DEF CleanInv
    <3>3. requests' \in {<<>>, <<r>>} /\ replies' = <<>> /\ ring' = <<>> /\ s_reply' = NoReply
      BY <3>1, <3>2, StartOutstanding
    <3>4. Outstanding(Ask("GET", TheName, off))'
      BY <2>1, <3>1, <3>3 DEF Outstanding
    <3>. QED  BY <2>1, <3>4 DEF CleanInv
  <2>. QED  BY <2>1, <2>2 DEF CleanInv
<1>10. CASE GotChunk /\ ~Leave
  <2>1. /\ pc = "chunk" /\ s_reply # NoReply
        /\ exact' \in BOOLEAN /\ (exact' => exact)
        /\ UNCHANGED <<requests, replies, ring, local, saved, clean>>
    BY <1>10 DEF GotChunk, Answered, network
  <2>2. CASE clean /\ exact'
    <3>1. /\ Idle /\ s_reply = udp_reply(Ask("GET", TheName, off))
          /\ off < total /\ total = Len(TheFile)
      BY <2>1, <2>2 DEF CleanInv, Outstanding, Idle
    <3>2. s_reply.header /\ s_reply.data # <<>>
      BY <3>1, GetReply DEF PullInv
    <3>3. pc' \in {"loop", "flush"} /\ total' = total
      BY <1>10, <3>2 DEF GotChunk
    <3>. QED  BY <2>1, <3>1, <3>3 DEF CleanInv, Idle
  <2>. QED  BY <2>1, <2>2 DEF CleanInv
<1>11. CASE Flush /\ ~(Leave /\ UNCHANGED local)
  <2>1. /\ pc = "flush" /\ pc' = "loop"
        /\ UNCHANGED <<total, requests, replies, ring, saved, clean, exact>>
    BY <1>11 DEF Flush, network
  <2>. QED  BY <2>1 DEF CleanInv, Idle
<1>12. CASE Finish /\ local' = FinalText
  <2>1. pc \in {"loop", "end"} /\ pc' = "shell" /\ UNCHANGED <<clean, exact>> /\ local' = Text /\ remote' = TheName
    BY <1>12 DEF Finish, Leave, FinalText, Text, PullInv, Pulling
  <2>2. CASE clean /\ exact
    <3>1. Len(Text) = off /\ off >= total /\ total = Len(TheFile) /\ Begins(Text)
      BY <1>12, <2>1, <2>2 DEF Finish, CleanInv, PullInv
    <3>2. Text = TheFile
      BY <3>1, BeginsWhole
    <3>. QED  BY <2>1, <3>2 DEF CleanInv
  <2>. QED  BY <2>1, <2>2 DEF CleanInv
<1>13. CASE UNCHANGED vars
  <2>1. UNCHANGED <<pc, off, total, remote, local, saved, clean, exact, requests, replies, ring, s_reply>>
    BY <1>13 DEF vars, network, udp, file
  <2>. QED  BY <2>1 DEF CleanInv, Outstanding, Idle
<1>. QED
  BY <1>1, <1>2, <1>3, <1>4, <1>5, <1>6, <1>7, <1>8, <1>9, <1>10, <1>11, <1>12, <1>13
  DEF Next, Guest, TimeOut, GotTotal, CreateFile, GotChunk, Flush, Finish
-----------------------------------------------------------------------------
THEOREM DownloadAlways == ASSUME OnePulled PROVE Spec => []DownloadInv
<1>1. Init => DownloadInv
  BY DownloadInvInit
<1>2. DownloadInv /\ [Next]_vars => DownloadInv'
  BY QueuesStep, PullStep, NeverWildStep, CleanStep DEF DownloadInv
<1>. QED  BY <1>1, <1>2, PTL DEF Spec

(* As long as pulls are of one file only: what has been saved and staged   *)
(* is a prefix of it, whatever answer to whatever command is taken for a   *)
(* chunk.                                                                  *)
THEOREM HostFilesSavedIsPrefix == ASSUME OnePulled PROVE Spec => []SavedIsPrefix
<1>1. DownloadInv => SavedIsPrefix
  <2>. SUFFICES ASSUME DownloadInv, remote # None
                PROVE  /\ IsPrefix(Text, Host[remote])
                       /\ pc \in {"loop", "chunk", "flush"} => Len(Text) = off
    BY DEF SavedIsPrefix, Text
  <2>1. PullInv /\ Host[remote] = TheFile /\ Begins(Text)
    BY DEF DownloadInv, PullInv, TheFile
  <2>2. IsPrefix(Text, TheFile)
    BY <2>1, FileFacts DEF Begins, IsPrefix
  <2>. QED  BY <2>1, <2>2 DEF PullInv
<1>. QED  BY <1>1, DownloadAlways, PTL

(* A pull that began when nothing of an earlier command was under way,     *)
(* that read the numbers that were sent and that says "Saved" has saved    *)
(* the whole file; and only a number read wrong makes a pull destroy the   *)
(* kernel's memory, if hostfilesize too is asked for that file only, or    *)
(* for files that do not exist.                                            *)
THEOREM HostFilesSavesWhole ==
  ASSUME OnePulled, OneNamed PROVE Spec => []SavesWhole
<1>1. DownloadInv => SavesWhole
  <2>. SUFFICES ASSUME DownloadInv PROVE SavesWhole
    OBVIOUS
  <2>1. Queues /\ PullInv /\ NeverWild /\ CleanInv
    BY DEF DownloadInv
  <2>2. TypeOK
    BY <2>1, FileFacts DEF TypeOK, Queues, PullInv, NeverWild
  <2>3. ASSUME saved, clean, exact PROVE local = Host[remote]
    <3>. QED  BY <2>1, <2>3 DEF CleanInv, TheFile
  <2>4. pc = "wild" => ~exact
    BY <2>1 DEF NeverWild
  <2>. QED  BY <2>2, <2>3, <2>4 DEF SavesWhole
<1>. QED  BY <1>1, DownloadAlways, PTL
=============================================================================
