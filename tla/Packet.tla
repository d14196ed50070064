-------------------------------- MODULE Packet ------------------------------
(***************************************************************************)
(* packet.c: what the layers read from the header of a frame.  A buffer is *)
(* its length byte, the frame control field, the sequence number and what  *)
(* follows, in words of two octets: every field of a MAC header behind the *)
(* sequence number is a whole number of them.  A shift by n is a division  *)
(* by 2^n.                                                                 *)
(***************************************************************************)
EXTENDS Integers, Sequences

IEEE154_FCF_ACK_REQ        == 32       \* 1 << 5
IEEE154_FCF_INTRAPAN       == 64       \* 1 << 6
IEEE154_FCF_DEST_ADDR_MODE == 1024     \* 1 << 10
IEEE154_FCF_SRC_ADDR_MODE  == 16384    \* 1 << 14

IEEE154_TYPE_ACK == 2
IEEE154_ADDR_NONE  == 0
IEEE154_ADDR_SHORT == 2
IEEE154_ADDR_EXT   == 3
IEEE154_ACK_FRAME_LENGTH == 5          \* FCF, DSN, FCS

\* The field of the given number of values that begins at bit
Field(fcf, bit, values) == (fcf \div bit) % values

requires_ack(buf) == Field(buf.fcf, IEEE154_FCF_ACK_REQ, 2) # 0

is_ack(buf) == Field(buf.fcf, 1, 8) = IEEE154_TYPE_ACK

is_ack_to(pending, buf) == buf.dsn = pending.dsn

create_ack(pkt, buf) ==
  [buf EXCEPT !.fcf = IEEE154_TYPE_ACK, !.dsn = pkt.dsn,
              !.len = IEEE154_ACK_FRAME_LENGTH]

\* Mutant of src_addr_offset: the intra-PAN bit is not looked at
src_addr_offset_compressed(buf) ==
  LET dest_addr_mode == Field(buf.fcf, IEEE154_FCF_DEST_ADDR_MODE, 4)
  IN CASE dest_addr_mode = IEEE154_ADDR_SHORT -> 2
       [] dest_addr_mode = IEEE154_ADDR_EXT   -> 5
       [] OTHER -> 1

\* The number of words in front of the source address.  The intra-PAN bit drops
\* the source PAN, unless there is no destination whose PAN could stand for it.
src_addr_offset(buf) ==
  LET src_addr_mode   == Field(buf.fcf, IEEE154_FCF_SRC_ADDR_MODE, 4)
      dest_addr_mode  == Field(buf.fcf, IEEE154_FCF_DEST_ADDR_MODE, 4)
      pan_compression == Field(buf.fcf, IEEE154_FCF_INTRAPAN, 2) = 1
  IN (CASE dest_addr_mode = IEEE154_ADDR_SHORT -> 2
        [] dest_addr_mode = IEEE154_ADDR_EXT   -> 5
        [] OTHER -> IF pan_compression THEN 1 ELSE 0)
     + (IF ~pan_compression /\ src_addr_mode \in {IEEE154_ADDR_SHORT, IEEE154_ADDR_EXT}
          THEN 1 ELSE 0)

\* The source address as a u64, lowest word first
get_src(buf) ==
  LET src_addr_mode == Field(buf.fcf, IEEE154_FCF_SRC_ADDR_MODE, 4)
      words == CASE src_addr_mode = IEEE154_ADDR_SHORT -> 1
                 [] src_addr_mode = IEEE154_ADDR_EXT   -> 4
                 [] OTHER -> 0
  IN [i \in 1..4 |-> IF i <= words THEN buf.rest[src_addr_offset(buf) + i] ELSE 0]

-----------------------------------------------------------------------------
(* The frames themselves, as IEEE 802.15.4 lays them out.                  *)

Word    == 0 .. 65535
Address == { a \in Seq(Word) : Len(a) \in {0, 1, 4} }   \* none, short, extended

MacFrame == [type : 0..7, ack_req : {0, 1}, intrapan : {0, 1},
             dest : Address, dest_pan : Word, src : Address, src_pan : Word,
             dsn : 0..255, payload : Seq(Word)]

AddrMode(a) == CASE Len(a) = 1 -> IEEE154_ADDR_SHORT
                 [] Len(a) = 4 -> IEEE154_ADDR_EXT
                 [] OTHER      -> IEEE154_ADDR_NONE

\* Each address follows its PAN identifier; that of the source is left out when
\* the intra-PAN bit says so and the destination has one
Encode(f) ==
  LET dest    == IF f.dest = <<>> THEN <<>> ELSE <<f.dest_pan>> \o f.dest
      src_pan == IF f.src = <<>> \/ (f.intrapan = 1 /\ f.dest # <<>>)
                   THEN <<>> ELSE <<f.src_pan>>
      rest    == dest \o src_pan \o f.src \o f.payload
  IN [len  |-> 2 * Len(rest) + IEEE154_ACK_FRAME_LENGTH,
      fcf  |-> f.type + IEEE154_FCF_ACK_REQ * f.ack_req
                 + IEEE154_FCF_INTRAPAN * f.intrapan
                 + IEEE154_FCF_DEST_ADDR_MODE * AddrMode(f.dest)
                 + IEEE154_FCF_SRC_ADDR_MODE * AddrMode(f.src),
      dsn  |-> f.dsn,
      rest |-> rest]

\* An address as a number of 64 bits, lowest word first
u64(a) == [i \in 1..4 |-> IF i <= Len(a) THEN a[i] ELSE 0]
=============================================================================
