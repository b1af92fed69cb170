----------------------------- MODULE MCNetStack -----------------------------
(* Two neighbours, the gateway and a host, for a cache of one entry or of  *)
(* two; one address elsewhere.  The replies: up to one question and two    *)
(* answers with names that are spelt out, end in a pointer, or are one,    *)
(* each cut off at every length.                                           *)
EXTENDS NetStack

CONSTANTS gateway, host, google

MCNeighbours == {gateway, host}
MCRemote == {google}
MCTargets == {host, google}

Label == <<97, 98>>
Names == {<<Label, <<99>>>>, <<Label, Pointer>>, <<Pointer>>}
Records == [name : Names, type : {1}, data : {<<8, 8, 4, 4>>}]
           \cup [name : {<<Pointer>>}, type : {1, 5}, data : {<<1, 97, 0>>, <<4, 4, 8, 8>>}]
Replies ==
  [response : {TRUE}, code : {0}, questions : {<<>>, <<<<Label, <<99>>>>>>},
   answers : {<<>>} \cup {<<r>> : r \in Records}
             \cup {<<q, r>> : q \in {x \in Records : Len(x.name) = 1}, r \in Records}]
  \cup [response : BOOLEAN, code : {0, 3}, questions : {<<>>},
        answers : {<<>>, <<CHOOSE r \in Records : Len(r.data) = 4>>}]
Cut == {0, 11, 12, 13, 28, 29, 35, 39, 43, 44, 45, 59}
MCMessages ==
  UNION {{[reply |-> r, len |-> n] :
            n \in {Len(ReplyBytes(r))} \cup {k \in Cut : k < Len(ReplyBytes(r))}} : r \in Replies}

MCPayloads == UNION {[1 .. n -> {0, 1, 254, 255}] : n \in 2 .. 5}
=============================================================================
