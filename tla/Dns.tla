-------------------------------- MODULE Dns ---------------------------------
(***************************************************************************)
(* The messages of the DNS client, kernel/net/dns.c: how a name is encoded *)
(* and how a reply is read, byte by byte as the code does it; and, as the  *)
(* reference, what a reply with a given structure says.                    *)
(*                                                                         *)
(* A message is a sequence of bytes, a name the sequence of its labels,    *)
(* each a sequence of bytes.  Positions in a message are from 0, as in the *)
(* code, and 16 bits wide.                                                 *)
(*                                                                         *)
(* A definition Fault... is the faulty variant of the one that follows it; *)
(* no specification uses it.                                               *)
(***************************************************************************)
EXTENDS Integers, Sequences, SequencesExt

DNS_TYPE_A == 1
HeaderSize == 12
Malformed == -1
NoAddress == <<>>

UInt16(n) == n % 65536

(***************************************************************************)
(* The code.  encode_dns_name leaves nameLen unset for a name with a label *)
(* that is empty or too long.                                              *)
(***************************************************************************)
ValidName(name) == \A i \in DOMAIN name : Len(name[i]) \in 1 .. 63

encode_dns_name(name) ==
  FlattenSeq([i \in DOMAIN name |-> <<Len(name[i])>> \o name[i]]) \o <<0>>

dns_read16(msg, p) == 256 * msg[p + 1] + msg[p + 2]

FaultPointerSize == 1

PointerSize == 2

\* The position after the name at from.
dns_skip_name(msg, from) ==
  LET skip[p \in Nat] ==
        IF p >= Len(msg) THEN Malformed
        ELSE LET label == msg[p + 1]
             IN CASE label = 0          -> p + 1
                  [] label >= 192       -> p + PointerSize
                  [] label \in 64 .. 191 -> Malformed
                  [] p + 1 + label > Len(msg) -> Malformed
                  [] OTHER -> skip[p + 1 + label]
  IN skip[from]

dns_reply_rcode(msg) ==
  IF Len(msg) < HeaderSize THEN Malformed ELSE dns_read16(msg, 2) % 16

SkipQuestion(msg, from) ==
  LET p == dns_skip_name(msg, from)
  IN IF p = Malformed \/ p + 4 > Len(msg) THEN Malformed ELSE p + 4

FirstAddress(msg, from, count) ==
  LET read[a \in Nat, start \in Nat] ==
        IF a = count THEN NoAddress
        ELSE LET p == dns_skip_name(msg, start)
             IN IF p = Malformed \/ p + 10 > Len(msg) THEN NoAddress
                ELSE LET rdlength == dns_read16(msg, p + 8)
                         data     == p + 10
                         next     == UInt16(data + rdlength)
                     IN IF dns_read16(msg, p) = DNS_TYPE_A /\ rdlength = 4
                          THEN IF data + 4 > Len(msg) THEN NoAddress
                               ELSE SubSeq(msg, data + 1, data + 4)
                        ELSE IF next > Len(msg) THEN NoAddress
                        ELSE read[a + 1, next]
  IN read[0, from]

\* The address, as four bytes.
dns_parse_reply(msg) ==
  LET question[q \in Nat] ==
        IF q = 0 THEN HeaderSize
        ELSE IF question[q - 1] = Malformed THEN Malformed
        ELSE SkipQuestion(msg, question[q - 1])
  IN IF Len(msg) < HeaderSize THEN NoAddress
     ELSE IF msg[3] < 128 \/ dns_reply_rcode(msg) # 0 THEN NoAddress
     ELSE LET first == question[dns_read16(msg, 4)]
          IN IF first = Malformed THEN NoAddress
             ELSE FirstAddress(msg, first, dns_read16(msg, 6))
-----------------------------------------------------------------------------
(***************************************************************************)
(* The reference.  A reply is a record: is it a response, its code, the    *)
(* names asked for, and the answers with type and data.  A name that ends  *)
(* in Pointer refers to an earlier one.                                    *)
(***************************************************************************)
Pointer == <<192, 12>>

NameBytes(name) ==
  IF name # <<>> /\ Last(name) = Pointer
    THEN Front(encode_dns_name(Front(name))) \o Pointer
    ELSE encode_dns_name(name)

AnswerBytes(answer) ==
  NameBytes(answer.name) \o <<0, answer.type, 0, 1, 0, 0, 0, 60, 0, Len(answer.data)>>
    \o answer.data

ReplyBytes(reply) ==
  <<18, 52, IF reply.response THEN 129 ELSE 1, reply.code,
    0, Len(reply.questions), 0, Len(reply.answers), 0, 0, 0, 0>>
  \o FlattenSeq([i \in DOMAIN reply.questions |->
                   NameBytes(reply.questions[i]) \o <<0, 1, 0, 1>>])
  \o FlattenSeq([i \in DOMAIN reply.answers |-> AnswerBytes(reply.answers[i])])

\* The first len bytes of a reply say: its first address, if it is in them.
Says(reply, len) ==
  LET address(i) == reply.answers[i].type = DNS_TYPE_A /\ Len(reply.answers[i].data) = 4
      upTo(i) == [reply EXCEPT !.answers = SubSeq(@, 1, i)]
      found == {i \in DOMAIN reply.answers :
                  /\ address(i) /\ \A j \in 1 .. i - 1 : ~address(j)
                  /\ Len(ReplyBytes(upTo(i))) <= len}
  IN IF reply.response /\ reply.code = 0 /\ found # {}
       THEN reply.answers[CHOOSE i \in found : TRUE].data
       ELSE NoAddress
=============================================================================
