----------------------------- MODULE PacketProofs ---------------------------
(***************************************************************************)
(* The accessors of packet.c read from every frame what its sender put     *)
(* there.                                                                  *)
(***************************************************************************)
EXTENDS Packet, TLAPS

\* The fields of a frame control field are recovered from their sum.
LEMMA FieldsOfSum ==
  ASSUME NEW t \in 0..7, NEW a \in {0, 1}, NEW p \in {0, 1},
         NEW d \in 0..3, NEW s \in 0..3, NEW fcf,
         fcf = t + 32 * a + 64 * p + 1024 * d + 16384 * s
  PROVE  /\ Field(fcf, 1, 8) = t
         /\ Field(fcf, 32, 2) = a
         /\ Field(fcf, 64, 2) = p
         /\ Field(fcf, 1024, 4) = d
         /\ Field(fcf, 16384, 4) = s
<1>1. fcf \in Nat OBVIOUS
<1>2. Field(fcf, 1, 8) = t BY SMT DEF Field
<1>3. Field(fcf, 32, 2) = a BY SMT DEF Field
<1>4. Field(fcf, 64, 2) = p BY SMT DEF Field
<1>5. Field(fcf, 1024, 4) = d BY SMT DEF Field
<1>6. Field(fcf, 16384, 4) = s BY SMT DEF Field
<1> QED BY <1>2, <1>3, <1>4, <1>5, <1>6

\* What is where in a concatenation.
LEMMA Concatenation ==
  ASSUME NEW S, NEW s \in Seq(S), NEW t \in Seq(S)
  PROVE  /\ s \o t \in Seq(S)
         /\ Len(s \o t) = Len(s) + Len(t)
         /\ \A i \in 1..Len(s) : (s \o t)[i] = s[i]
         /\ \A i \in 1..Len(t) : (s \o t)[Len(s) + i] = t[i]
OBVIOUS

LEMMA ThirdOfFour ==
  ASSUME NEW S, NEW a \in Seq(S), NEW b \in Seq(S), NEW c \in Seq(S), NEW d \in Seq(S),
         NEW i \in 1..Len(c)
  PROVE  (a \o b \o c \o d)[Len(a) + Len(b) + i] = c[i]
<1>1. PICK ab \in Seq(S) : ab = a \o b /\ Len(ab) = Len(a) + Len(b)
  BY Concatenation
<1>2. PICK abc \in Seq(S) : abc = ab \o c /\ Len(abc) = Len(ab) + Len(c)
  BY Concatenation
<1>3. abc[Len(ab) + i] = c[i]
  BY <1>2
<1>4. Len(ab) + i \in 1..Len(abc)
  BY <1>2
<1>5. (abc \o d)[Len(ab) + i] = abc[Len(ab) + i]
  BY <1>4
<1> QED BY <1>1, <1>2, <1>3, <1>5

\* The addressing mode is the length of the address.
LEMMA Modes ==
  ASSUME NEW a \in Address
  PROVE  /\ Len(a) \in {0, 1, 4}
         /\ a = <<>> <=> Len(a) = 0
         /\ AddrMode(a) = IF Len(a) = 1 THEN 2 ELSE IF Len(a) = 4 THEN 3 ELSE 0
<1>1. a \in Seq(Word) /\ Len(a) \in {0, 1, 4} BY DEF Address
<1>2. a = <<>> <=> Len(a) = 0 BY <1>1
<1>3. AddrMode(a) = IF Len(a) = 1 THEN 2 ELSE IF Len(a) = 4 THEN 3 ELSE 0
  <2>1. CASE Len(a) = 1
    BY <2>1 DEF AddrMode, IEEE154_ADDR_SHORT
  <2>2. CASE Len(a) = 4
    BY <2>2, 4 # 1 DEF AddrMode, IEEE154_ADDR_EXT
  <2>3. CASE Len(a) = 0
    BY <2>3, 0 # 1, 0 # 4 DEF AddrMode, IEEE154_ADDR_NONE
  <2> QED BY <1>1, <2>1, <2>2, <2>3
<1> QED BY <1>1, <1>2, <1>3

\* Where the source address of a frame stands.
LEMMA RestOfFrame ==
  ASSUME NEW f \in MacFrame, NEW i \in 1..Len(f.src)
  PROVE  LET n == (IF f.dest = <<>> THEN 0 ELSE 1 + Len(f.dest))
                   + (IF f.intrapan = 1 /\ f.dest # <<>> THEN 0 ELSE 1)
         IN Encode(f).rest[n + i] = f.src[i]
<1> DEFINE dest == IF f.dest = <<>> THEN <<>> ELSE <<f.dest_pan>> \o f.dest
           pan  == IF f.src = <<>> \/ (f.intrapan = 1 /\ f.dest # <<>>)
                     THEN <<>> ELSE <<f.src_pan>>
           n == (IF f.dest = <<>> THEN 0 ELSE 1 + Len(f.dest))
                  + (IF f.intrapan = 1 /\ f.dest # <<>> THEN 0 ELSE 1)
<1>1. f.dest \in Seq(Word) /\ f.src \in Seq(Word) /\ f.payload \in Seq(Word)
      /\ f.dest_pan \in Word /\ f.src_pan \in Word
  BY DEF MacFrame, Address
<1>2. dest \in Seq(Word) /\ Len(dest) = IF f.dest = <<>> THEN 0 ELSE 1 + Len(f.dest)
  BY <1>1
<1>3. f.src # <<>>
  BY <1>1
<1>4. pan \in Seq(Word) /\ Len(pan) = IF f.intrapan = 1 /\ f.dest # <<>> THEN 0 ELSE 1
  BY <1>1, <1>3
<1> HIDE DEF dest, pan
<1>5. (dest \o pan \o f.src \o f.payload)[n + i] = f.src[i]
  <2>1. (dest \o pan \o f.src \o f.payload)[Len(dest) + Len(pan) + i] = f.src[i]
    <3> HIDE DEF n
    <3>1. \A a, b, c, d \in Seq(Word) : \A j \in 1..Len(c) :
            (a \o b \o c \o d)[Len(a) + Len(b) + j] = c[j]
      BY ThirdOfFour
    <3>2. dest \in Seq(Word) /\ pan \in Seq(Word) BY <1>2, <1>4
    <3>3. PICK a \in Seq(Word), b \in Seq(Word), c \in Seq(Word), d \in Seq(Word) :
            a = dest /\ b = pan /\ c = f.src /\ d = f.payload
      BY <1>1, <3>2
    <3>4. i \in 1..Len(c) BY <3>3
    <3>5. (a \o b \o c \o d)[Len(a) + Len(b) + i] = c[i] BY <3>1, <3>4
    <3> QED BY <3>3, <3>5
  <2> QED BY <1>2, <1>4, <2>1
<1>6. Encode(f).rest = dest \o pan \o f.src \o f.payload
  BY DEF Encode, dest, pan
<1> QED BY <1>5, <1>6

\* cc2520_packet_get_src finds the source address of every frame, whichever of
\* the addressing modes its sender used for either address, with and without
\* the intra-PAN bit; it is what unique.c tells the senders apart by.
THEOREM SrcExact ==
  ASSUME NEW f \in MacFrame
  PROVE  get_src(Encode(f)) = u64(f.src)
<1> DEFINE buf == Encode(f)
<1>1. f.dest \in Address /\ f.src \in Address
      /\ f.type \in 0..7 /\ f.ack_req \in {0, 1} /\ f.intrapan \in {0, 1}
  BY DEF MacFrame
<1> DEFINE d == Len(f.dest)
           s == Len(f.src)
<1>2. /\ d \in {0, 1, 4} /\ s \in {0, 1, 4}
      /\ f.dest = <<>> <=> d = 0
      /\ f.src = <<>> <=> s = 0
      /\ AddrMode(f.dest) = IF d = 1 THEN 2 ELSE IF d = 4 THEN 3 ELSE 0
      /\ AddrMode(f.src) = IF s = 1 THEN 2 ELSE IF s = 4 THEN 3 ELSE 0
  BY <1>1, Modes
<1> HIDE DEF d, s
<1>3. buf.fcf = f.type + 32 * f.ack_req + 64 * f.intrapan
                  + 1024 * AddrMode(f.dest) + 16384 * AddrMode(f.src)
  BY DEF Encode, IEEE154_FCF_ACK_REQ, IEEE154_FCF_INTRAPAN,
         IEEE154_FCF_DEST_ADDR_MODE, IEEE154_FCF_SRC_ADDR_MODE
<1>4. /\ Field(buf.fcf, IEEE154_FCF_INTRAPAN, 2) = f.intrapan
      /\ Field(buf.fcf, IEEE154_FCF_DEST_ADDR_MODE, 4) = AddrMode(f.dest)
      /\ Field(buf.fcf, IEEE154_FCF_SRC_ADDR_MODE, 4) = AddrMode(f.src)
  <2>1. AddrMode(f.dest) \in 0..3 /\ AddrMode(f.src) \in 0..3
    BY <1>1, <1>2
  <2> QED BY <1>1, <1>3, <2>1, FieldsOfSum
     DEF IEEE154_FCF_INTRAPAN, IEEE154_FCF_DEST_ADDR_MODE, IEEE154_FCF_SRC_ADDR_MODE
<1> HIDE DEF buf
<1>5. f.src # <<>> =>
        src_addr_offset(buf) = (IF f.dest = <<>> THEN 0 ELSE 1 + d)
                                 + (IF f.intrapan = 1 /\ f.dest # <<>> THEN 0 ELSE 1)
  BY <1>1, <1>2, <1>4
     DEF src_addr_offset, IEEE154_ADDR_NONE, IEEE154_ADDR_SHORT, IEEE154_ADDR_EXT
<1>6. \A i \in 1..Len(f.src) : buf.rest[src_addr_offset(buf) + i] = f.src[i]
  <2>1. ASSUME NEW i \in 1..Len(f.src) PROVE f.src # <<>>
    BY <1>2 DEF s
  <2> QED BY <1>5, <2>1, RestOfFrame DEF buf, d
<1>7. get_src(buf) = [i \in 1..4 |-> IF i <= s
                                       THEN buf.rest[src_addr_offset(buf) + i] ELSE 0]
  BY <1>1, <1>2, <1>4
     DEF get_src, IEEE154_ADDR_NONE, IEEE154_ADDR_SHORT, IEEE154_ADDR_EXT
<1>8. \A i \in 1..4 : i <= s => i \in 1..Len(f.src)
  BY <1>2 DEF s
<1> QED BY <1>6, <1>7, <1>8 DEF u64, buf, s

\* The acknowledgement sack.c builds is one, is taken for the acknowledgement of
\* exactly the frames with that sequence number, and asks for none itself.
THEOREM AckAnswers ==
  ASSUME NEW f \in MacFrame, NEW g \in MacFrame, NEW h \in MacFrame
  PROVE  LET ack == create_ack(Encode(f), Encode(g))
         IN /\ is_ack(ack) /\ ~requires_ack(ack)
            /\ is_ack_to(Encode(h), ack) <=> h.dsn = f.dsn
<1> DEFINE ack == create_ack(Encode(f), Encode(g))
<1>1. ack.fcf = 2 /\ ack.dsn = f.dsn
  BY DEF create_ack, Encode, IEEE154_TYPE_ACK
<1>2. Encode(h).dsn = h.dsn
  BY DEF Encode
<1> HIDE DEF ack
<1>3. is_ack(ack) /\ ~requires_ack(ack)
  BY <1>1, SMT DEF is_ack, requires_ack, Field, IEEE154_TYPE_ACK, IEEE154_FCF_ACK_REQ
<1>4. is_ack_to(Encode(h), ack) <=> h.dsn = f.dsn
  BY <1>1, <1>2 DEF is_ack_to
<1> QED BY <1>3, <1>4 DEF ack
=============================================================================
