------------------------------ MODULE Checksum ------------------------------
(***************************************************************************)
(* The checksums of kernel/net: ip.c and icmp.c (the same code twice) add  *)
(* up 16-bit words as a little-endian processor reads them and store the   *)
(* result the same way; udp.c adds up words in network order, a pseudo     *)
(* header first.  A packet is a sequence of bytes.                         *)
(*                                                                         *)
(* A definition Fault... is the faulty variant of the one that follows it; *)
(* no specification uses it.                                               *)
(***************************************************************************)
EXTENDS Naturals, Sequences

Bytes(word) == <<word % 256, word \div 256>>
ntohs(word) == 256 * (word % 256) + (word \div 256)

FaultFold(sum) == sum % 65536

Fold(sum) ==                              \* while (sum >> 16)
  LET fold[s \in Nat] == IF s < 65536 THEN s ELSE fold[(s % 65536) + (s \div 65536)]
  IN fold[sum]

\* The sum of the words that start at positions 1, 3, ...; an odd last byte
\* is the first of its word.
WordSum(data, word(_, _)) ==
  LET at(i) == IF i \in DOMAIN data THEN data[i] ELSE 0
      sum[i \in Nat] == IF i > Len(data) THEN 0 ELSE word(at(i), at(i + 1)) + sum[i + 2]
  IN sum[1]

Little(a, b) == a + 256 * b
Big(a, b) == 256 * a + b

ip_checksum(data) == 65535 - Fold(WordSum(data, Little))

udp_checksum(pseudo_header, udp) == 65535 - Fold(WordSum(pseudo_header, Big) + WordSum(udp, Big))

\* udp_send: a computed zero is sent as all ones.
udp_sent_checksum(pseudo_header, udp) ==
  LET c == udp_checksum(pseudo_header, udp) IN IF c = 0 THEN 65535 ELSE c
-----------------------------------------------------------------------------
(* What any receiver does: the sum of all words in network order, the      *)
(* checksum among them, must be all ones.                                  *)
Valid(data) == Fold(WordSum(data, Big)) = 65535
=============================================================================
