------------------------------- MODULE MCStack ------------------------------
(***************************************************************************)
(* Instances of Stack for TLC: what may arrive.                            *)
(***************************************************************************)
EXTENDS Stack, TLC

Pan  == 34
Self == <<1>>
Near == <<5>>                 \* a short address
Far  == <<7, 0, 0, 9>>        \* an extended one

Ack(n) == [type |-> IEEE154_TYPE_ACK, ack_req |-> 0, intrapan |-> 0,
           dest |-> <<>>, dest_pan |-> 0, src |-> <<>>, src_pan |-> 0,
           dsn |-> n, payload |-> <<>>]
Data(from, to, same_pan, req, n) ==
  [type |-> 1, ack_req |-> req, intrapan |-> same_pan,
   dest |-> to, dest_pan |-> Pan, src |-> from, src_pan |-> Pan,
   dsn |-> n, payload |-> <<0, 0>>]

\* Acknowledgements of the first two packets, and a frame that wants one
TxFrames == <<Ack(1), Ack(2), Data(Near, Self, 1, 1, 1)>>

\* The sequence numbers of the packets: each its own, or all the same
OwnDsn  == [p \in Packets |-> p]
SameDsn == [p \in Packets |-> 1]

\* Two sources; one of them sends two frames, with different headers
RxFrames == <<Data(Near, Self, 1, 0, 1), Data(Near, Self, 0, 1, 2), Data(Far, <<>>, 0, 0, 1)>>

\* Writers are interchangeable
WriterSymmetry == Permutations(Writers)
=============================================================================
