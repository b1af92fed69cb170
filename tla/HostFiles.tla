----------------------------- MODULE HostFiles ------------------------------
(***************************************************************************)
(* Downloading files from the host: listhostfiles, hostfilesize and        *)
(* pullhostfile of kernel/commands.c over the request interface of         *)
(* kernel/net/udp.c, and the server's answers (server/app.py).  Every      *)
(* request is one datagram from the same port; it may be lost, its answer  *)
(* may be lost or come after the guest has given up, and frames that       *)
(* arrive while no command pumps the receive ring wait there for the next. *)
(*                                                                         *)
(* The network keeps datagrams in order.  A file is a sequence of units,   *)
(* of which a reply carries ChunkSize.  Host files do not change.          *)
(*                                                                         *)
(* A definition Fault... is the faulty variant of the one that follows it; *)
(* no specification uses it.                                               *)
(***************************************************************************)
EXTENDS Naturals, Sequences, SequencesExt

CONSTANTS
  Names,          \* what hostfilesize is asked for
  Pulled,         \* what pullhostfile is asked for
  Host,           \* the host's files: [name |-> units], not for every name
  ChunkSize,      \* CHUNK_SIZE of the server
  StageSize,      \* PULL_STAGE_SIZE
  Capacity,       \* how many datagrams are under way in each direction
  RingSize,       \* how many frames the card's receive ring holds
  Word,           \* 2^32: how many values a uint32_t has
  Stale           \* digits found behind a reply, as [scale, add]

ASSUME HostAssumption ==
  /\ \A n \in DOMAIN Host : Host[n] \in Seq(Range(Host[n]))
  /\ {ChunkSize, Word} \subseteq Nat \ {0} /\ {StageSize, Capacity, RingSize} \subseteq Nat
  /\ Stale \subseteq [scale : Nat, add : Nat]

VARIABLES
  requests, replies,     \* datagrams under way
  ring,                  \* datagrams in the guest's receive ring
  listening, s_reply,    \* the capture handler is bound; what it captured
  asked,                 \* the request last sent
  pc, remote, total, off, stage,   \* pullhostfile's local variables
  local,                 \* the content of the file it creates
  saved,                 \* did the last pull report success?
  clean,                 \* history: nothing was under way when it began
  exact                  \* history: it read the numbers that were sent

network == <<requests, replies, ring>>
udp == <<listening, s_reply>>
file == <<remote, total, off, stage, local, saved, clean, exact>>
vars == <<network, udp, asked, pc, file>>

None == "none"
Ask(kind, name, at) == [kind |-> kind, name |-> name, off |-> at]
Nothing == Ask(None, None, 0)
NoReply == [to |-> Nothing, ok |-> FALSE, first |-> 0, last |-> FALSE,
            header |-> FALSE, data |-> <<>>]

Init ==
  /\ requests = <<>> /\ replies = <<>> /\ ring = <<>>
  /\ listening = FALSE /\ s_reply = NoReply /\ asked = Nothing
  /\ pc = "shell"
  /\ remote = None /\ total = 0 /\ off = 0 /\ stage = <<>>
  /\ local = <<>> /\ saved = FALSE /\ clean = FALSE /\ exact = TRUE

Lossy(queue, size, datagram) ==
  {queue} \cup (IF Len(queue) < size THEN {Append(queue, datagram)} ELSE {})

(***************************************************************************)
(* The server.  A reply is "OK", its first number, and the data after the  *)
(* line that a GET's (and LIST's) header is; last says that it ends with   *)
(* that number, with nothing behind it.  It does not say what it answers:  *)
(* "to" is for the properties only.                                        *)
(***************************************************************************)
OK(r, first, last, header, data) ==
  [to |-> r, ok |-> TRUE, first |-> first, last |-> last,
   header |-> header, data |-> data]

udp_reply(r) ==
  IF r.kind = "LIST" THEN OK(r, 0, DOMAIN Host = {}, DOMAIN Host # {}, <<>>)
  ELSE IF r.name \notin DOMAIN Host THEN [NoReply EXCEPT !.to = r]
  ELSE IF r.kind = "SIZE" THEN OK(r, Len(Host[r.name]), TRUE, FALSE, <<>>)
  ELSE IF r.off >= Len(Host[r.name]) THEN OK(r, r.off, FALSE, FALSE, <<>>)
  ELSE OK(r, r.off, FALSE, TRUE,
          [i \in 1 .. (IF r.off + ChunkSize <= Len(Host[r.name]) THEN ChunkSize
                       ELSE Len(Host[r.name]) - r.off) |-> Host[r.name][r.off + i]])

Serve ==
  /\ requests # <<>>
  /\ requests' = Tail(requests)
  /\ replies' \in Lossy(replies, Capacity, udp_reply(Head(requests)))
  /\ UNCHANGED <<ring, udp, asked, pc, file>>

Deliver ==                     \* ... into the card's receive ring
  /\ replies # <<>>
  /\ replies' = Tail(replies)
  /\ ring' \in Lossy(ring, RingSize, Head(replies))
  /\ UNCHANGED <<requests, udp, asked, pc, file>>

(***************************************************************************)
(* udp_request_start, and process_rx_packets with udp_capture_reply: every *)
(* datagram to the port is captured, a later one over an earlier one.      *)
(***************************************************************************)
Waiting == pc \in {"list", "size", "total", "chunk"}

Start(r, wait) ==
  /\ asked' = r /\ listening' = TRUE /\ s_reply' = NoReply
  /\ requests' \in Lossy(requests, Capacity, r)
  /\ pc' = wait
  /\ UNCHANGED <<replies, ring>>

udp_request_finish == listening' = FALSE /\ s_reply' = NoReply

process_rx_packets ==
  /\ Waiting /\ ring # <<>>
  /\ ring' = <<>>
  /\ s_reply' = IF listening THEN ring[Len(ring)] ELSE s_reply
  /\ UNCHANGED <<requests, replies, listening, asked, pc, file>>

OtherCommand ==                \* ping, udpsend, dns: none keeps a reply
  /\ pc = "shell" /\ ring # <<>>
  /\ ring' = <<>>
  /\ UNCHANGED <<requests, replies, udp, asked, pc, file>>

\* A command returns, and its local variables are gone.
Leave ==
  /\ pc' = "shell"
  /\ total' = 0 /\ off' = 0 /\ stage' = <<>>

FaultNoTimeLimit == Waiting /\ s_reply = NoReply /\ UNCHANGED vars

TimeOut ==
  /\ Waiting /\ s_reply = NoReply
  /\ udp_request_finish
  /\ Leave
  /\ UNCHANGED <<network, asked, remote, local, saved, clean, exact>>

\* pull_req_wait has returned 1.
Answered(at) ==
  /\ pc = at /\ s_reply # NoReply
  /\ udp_request_finish
  /\ UNCHANGED <<network, asked>>

(***************************************************************************)
(* The first number of a reply.  It is read without regard to payload_len, *)
(* and the reply is copied to an uninitialised buffer: digits left there   *)
(* by an earlier reply, or by whatever used the stack before, are read on  *)
(* with it if nothing in the reply ends it.                                *)
(***************************************************************************)
NoDigits == [scale |-> 1, add |-> 0]

pull_parse_dec(reply) ==
  IF reply.last
    THEN {(reply.first * d.scale + d.add) % Word : d \in Stale \cup {NoDigits}}
    ELSE {reply.first}

(***************************************************************************)
(* listhostfiles and hostfilesize: they print what they are told.          *)
(***************************************************************************)
\* What is remembered of the last pull is about file n.
Remember(n, undisturbed) ==
  /\ remote' = n /\ local' = <<>> /\ saved' = FALSE /\ clean' = undisturbed
  /\ exact' = TRUE
  /\ UNCHANGED <<total, off, stage>>

cmd_listhostfiles ==
  /\ pc = "shell" /\ Start(Ask("LIST", None, 0), "list")
  /\ Remember(None, FALSE)

cmd_hostfilesize ==
  /\ pc = "shell"
  /\ \E n \in Names : Start(Ask("SIZE", n, 0), "size")
  /\ Remember(None, FALSE)

Show ==
  /\ \E at \in {"list", "size"} : Answered(at)
  /\ pc' = "shell" /\ UNCHANGED file

(***************************************************************************)
(* pullhostfile.                                                           *)
(***************************************************************************)
cmd_pullhostfile ==
  /\ pc = "shell"
  /\ \E n \in Pulled :
       /\ Start(Ask("SIZE", n, 0), "total")
       /\ Remember(n, requests \o replies \o ring = <<>>)

GotTotal ==                    \* any reply that starts with "OK" will do
  /\ Answered("total")
  /\ \E n \in pull_parse_dec(s_reply) :
       /\ exact' = (exact /\ n = s_reply.first)
       /\ IF s_reply.ok
            THEN pc' = "create" /\ total' = n /\ UNCHANGED <<off, stage>>
            ELSE Leave
  /\ UNCHANGED <<remote, local, saved, clean>>

CreateFile ==                  \* fat32_create_file, which may fail
  /\ pc = "create"
  /\ (pc' = "loop" /\ UNCHANGED <<total, off, stage>>) \/ Leave
  /\ UNCHANGED <<network, udp, asked, remote, local, saved, clean, exact>>

NextChunk ==
  /\ pc = "loop" /\ off < total
  /\ Start(Ask("GET", remote, off), "chunk")
  /\ UNCHANGED file

OffsetMatches(n) == n = off

FlushDue(n) == n >= StageSize

\* A reply that has the right number and no header line makes the length
\* wrap to 2^32 - 1: the copy then destroys the kernel's memory, and
\* nothing returns.  So does every request beyond the end of the file.
GotChunk ==
  /\ Answered("chunk")
  /\ \E n \in pull_parse_dec(s_reply) :
       /\ exact' = (exact /\ n = s_reply.first)
       /\ IF ~s_reply.ok \/ ~OffsetMatches(n)
            THEN Leave
          ELSE IF ~s_reply.header
            THEN pc' = "wild" /\ UNCHANGED <<total, off, stage>>
          ELSE IF s_reply.data = <<>>
            THEN pc' = "end" /\ UNCHANGED <<total, off, stage>>
          ELSE /\ UNCHANGED total
               /\ stage' = stage \o s_reply.data
               /\ off' = off + Len(s_reply.data)
               /\ pc' = IF FlushDue(Len(stage')) THEN "flush" ELSE "loop"
  /\ UNCHANGED <<remote, local, saved, clean>>

FaultKeepsStage == stage

StageAfterFlush == <<>>

Flush ==                       \* fat32_append_file, which may fail
  /\ pc = "flush"
  /\ \/ /\ pc' = "loop"
        /\ local' = local \o stage /\ stage' = StageAfterFlush
        /\ UNCHANGED <<total, off>>
     \/ Leave /\ UNCHANGED local
  /\ UNCHANGED <<network, udp, asked, remote, saved, clean, exact>>

FaultForgetsStage == local

FinalText == local \o stage

Finish ==                      \* "Saved ... bytes"
  /\ pc = "end" \/ (pc = "loop" /\ off >= total)
  /\ \/ local' = FinalText /\ saved' = TRUE
     \/ stage # <<>> /\ UNCHANGED <<local, saved>>
  /\ Leave
  /\ UNCHANGED <<network, udp, asked, remote, clean, exact>>

Guest ==
  \/ process_rx_packets \/ TimeOut \/ Show
  \/ GotTotal \/ CreateFile \/ NextChunk \/ GotChunk \/ Flush \/ Finish

Next ==
  \/ Serve \/ Deliver \/ OtherCommand
  \/ cmd_listhostfiles \/ cmd_hostfilesize \/ cmd_pullhostfile
  \/ Guest

Spec == Init /\ [][Next]_vars

\* The guest's command runs, and its waits end after 100 ticks.
FairSpec == Spec /\ WF_vars(Guest)
-----------------------------------------------------------------------------
TypeOK ==
  /\ pc \in {"shell", "list", "size", "total", "create", "loop", "chunk", "flush", "end", "wild"}
  /\ off \in Nat /\ total \in Nat
  /\ listening <=> Waiting
  /\ s_reply # NoReply => listening

(* As long as one file only is pulled, whatever is lost, late or answers   *)
(* an earlier request: what has been saved and staged is a prefix of the   *)
(* host's file, at the offset that is asked for next.                      *)
SavedIsPrefix ==
  remote # None =>
    LET text == local \o stage IN
    /\ IsPrefix(text, Host[remote])
    /\ pc \in {"loop", "chunk", "flush"} => Len(text) = off

(* A pull that began when nothing of an earlier command was under way, and *)
(* that reports success, has saved the whole file, if it read the numbers  *)
(* that were sent (pull_parse_dec may read more).  And only a number read  *)
(* wrong makes a pull destroy the memory, as long as one file only is      *)
(* pulled: no reply that is late or lost does.                             *)
SavesWhole ==
  /\ TypeOK
  /\ saved /\ clean /\ exact => local = Host[remote]
  /\ pc = "wild" => ~exact

(* Every command returns to the shell, whatever the network does, unless   *)
(* it destroys the kernel's memory first (SavesWhole says when); a size    *)
(* read too large makes it do so, and never loop.                          *)
CommandsEnd == pc # "shell" ~> pc \in {"shell", "wild"}

(* "Polls for a reply matching the outstanding udp_request_start()"        *)
(* (include/net/udp.h): what a request returns answers it.                 *)
ReplyMatches == s_reply # NoReply => s_reply.to = asked
=============================================================================
