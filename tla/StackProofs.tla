----------------------------- MODULE StackProofs -----------------------------
(***************************************************************************)
(* Proofs about Stack, for any number of writers, readers and packets, any *)
(* frames that may arrive, and ioctls at any moment.                       *)
(***************************************************************************)
EXTENDS Stack, PacketProofs, FiniteSetTheorems

-----------------------------------------------------------------------------
(* What a context may have before it.  In a writer there is always the     *)
(* rest of its write() below the layers; the SPI thread passes a frame up  *)
(* once it has sent the acknowledgement; every other context ends with the *)
(* layers.                                                                 *)

LayerFns == {"csma_tx", "sack_tx", "radio_tx", "csma_tx_done", "lpl_tx_done", "lpl_cancel",
             "interface_tx_done"}
OutsideFns   == {"write_down", "write_up", "write_return"}
WriterFns    == OutsideFns \cup {"lpl_tx", "lpl_start_timer", "write_wait"}
ReceptionFns == {"sack_rx_done", "unique_rx_done", "interface_rx_done", "rx_copy"}
SpiFns       == ReceptionFns \cup {"sack_tx_done", "sack_cancel"}
TimerFns     == {"sack_timer_cb", "csma_timer_cb", "lpl_timer_cb"}
Fns == LayerFns \cup WriterFns \cup SpiFns \cup TimerFns

FrameRec == [fn : Fns, arg : Int]

\* Which functions run in context c
RunsIn(c, fn) ==
  \/ fn \in LayerFns
  \/ fn \in WriterFns /\ c \in Writers
  \/ fn \in SpiFns /\ c = "spi"
  \/ fn = "sack_tx_done" /\ c = "sfd"
  \/ fn = "sack_timer_cb" /\ c = "sack_timer"
  \/ fn = "csma_timer_cb" /\ c = "csma_timer"
  \/ fn = "lpl_timer_cb" /\ c = "lpl_timer"

\* n is the number of deliveries so far
ArgOK(fn, arg, n) ==
  /\ fn \in {"write_down", "lpl_tx"} => arg \in Packets
  /\ fn \in {"csma_tx", "sack_tx"} => arg \in Packets \cup {Uninit}
  /\ fn = "radio_tx" => arg \in Packets \cup {Uninit, AckPkt}
  /\ fn = "sack_tx_done" => arg \in {SUCCESS, FAILED}
  /\ fn \in {"csma_tx_done", "lpl_tx_done", "interface_tx_done"} => arg \in Statuses
  /\ fn \in {"sack_rx_done", "unique_rx_done"} => arg \in 1..Len(Frames)
  /\ fn \in {"interface_rx_done", "rx_copy"} => arg \in 1..n

WaitFrame  == Frame("write_wait", 0)
StartFrame == Frame("lpl_start_timer", 0)

\* What may be left below the running function
Below(c, fn) ==
  IF c \in Writers
    THEN IF fn \in OutsideFns \cup {"write_wait"} THEN {<<>>}
         ELSE IF fn \in {"lpl_tx", "lpl_start_timer"} THEN {<<WaitFrame>>}
         ELSE {<<WaitFrame>>, <<StartFrame, WaitFrame>>}
    ELSE IF c = "spi" /\ fn = "radio_tx"
           THEN {<<>>} \cup { <<Frame("unique_rx_done", f)>> : f \in 1..Len(Frames) }
           ELSE {<<>>}

Shape(c, s, n) ==
  s # <<>> => /\ RunsIn(c, Head(s).fn)
              /\ ArgOK(Head(s).fn, Head(s).arg, n)
              /\ Tail(s) \in Below(c, Head(s).fn)

ShapeInv ==
  /\ stack \in [Contexts -> Seq(FrameRec)]
  /\ \A c \in Contexts : Shape(c, stack[c], Len(delivered))

\* What the invariants below need to know of the stacks
fnOf  == [c \in Contexts |-> IF stack[c] = <<>> THEN "none" ELSE Head(stack[c]).fn]
argOf == [c \in Contexts |-> IF stack[c] = <<>> THEN 0 ELSE Head(stack[c]).arg]

-----------------------------------------------------------------------------
(* The inductive invariant, in terms of fnOf and argOf.                    *)

TypeInv ==
  /\ armed \subseteq Timers
  /\ SackTypeOK /\ CsmaTypeOK /\ LplTypeOK /\ UniqueTypeOK /\ InterfaceTypeOK
  /\ ntoggles \in 0..MaxToggles
  /\ narrivals \in 0..MaxArrivals

\* A writer has tx_sem from down() to up()
Inside(fn) == fn \notin {"none", "write_down", "write_return"}

\* One writer at a time has it, and it is not free then
MutexInv ==
  /\ \A w \in Writers : Inside(fnOf[w]) => tx_sem = 0
  /\ \A v, w \in Writers : Inside(fnOf[v]) /\ Inside(fnOf[w]) => v = w

\* A writer waits from the moment it has the packet until its tx_done
Waits(fn) == fn \notin OutsideFns \cup {"none"}
waiting   == { w \in Writers : Waits(fnOf[w]) }

\* The contexts that are passing the packet on
Holding(fn, arg, state) ==
  \/ fn \in Carriers
  \/ fn = "radio_tx" /\ arg # AckPkt
  \/ fn = "sack_tx_done" /\ state = "TX"
holders == { c \in Contexts : Holding(fnOf[c], argOf[c], sack_state) }

\* The places outside the calls
Elsewhere ==
  One("csma_timer" \in armed) + One(work) + One(radio \notin {NoPkt, AckPkt})
    + One(sack_state = "TX_WAIT") + tx_done_sem

\* Nobody waits and the packet is nowhere, or one writer waits and it is in one place
TokenInv ==
  \/ waiting = {} /\ holders = {} /\ Elsewhere = 0
  \/ \E w \in Writers : /\ waiting = {w}
                        /\ \/ holders = {} /\ Elsewhere = 1
                           \/ Elsewhere = 0 /\ \E c \in Contexts : holders = {c}

\* The radio is asked, sends and reports one thing at a time, and sack_state says
\* whether it is a packet or an acknowledgement
InRadio == {"radio_tx", "sack_tx_done"}
RadioInv ==
  /\ \A c, d \in Contexts : fnOf[c] \in InRadio /\ fnOf[d] \in InRadio => c = d
  /\ radio # NoPkt => \A c \in Contexts : fnOf[c] \notin InRadio
  /\ radio # NoPkt => sack_state = IF radio = AckPkt THEN "TX_ACK" ELSE "TX"
  /\ \A c \in Contexts : fnOf[c] \in InRadio => sack_state \in {"TX", "TX_ACK"}
  /\ \A c \in Contexts : fnOf[c] = "radio_tx" => (argOf[c] = AckPkt <=> sack_state = "TX_ACK")

\* The timeout is pending once, for the wait it was started for
TimerInv ==
  /\ ~("sack_timer" \in armed /\ fnOf["sack_timer"] = "sack_timer_cb")
  /\ "sack_timer" \in armed \/ fnOf["sack_timer"] = "sack_timer_cb" =>
       sack_state = "TX_WAIT" \/ fnOf["spi"] = "sack_cancel"

StackInv == TypeInv /\ ShapeInv /\ MutexInv /\ TokenInv /\ RadioInv /\ TimerInv

-----------------------------------------------------------------------------
(* What the steps do to the stacks, in terms of the running functions.     *)

\* The running function of c was f and is now g
Goes(c, f, g, a) ==
  /\ c \in Contexts /\ fnOf[c] = f
  /\ fnOf' = [fnOf EXCEPT ![c] = g]
  /\ argOf' = [argOf EXCEPT ![c] = a]

Grows == /\ Len(delivered) \in Nat /\ Len(delivered') \in Nat
         /\ Len(delivered) <= Len(delivered')

\* The contexts are distinct, and so are the packets and what is not one.
LEMMA Constants ==
  /\ \A w \in Writers : w \notin Timers /\ w \notin {"wq", "spi", "sfd"}
  /\ Writers \subseteq Contexts /\ Timers \subseteq Contexts
  /\ {"wq", "spi", "sfd"} \subseteq Contexts
  /\ \A p \in Packets : p \in Int /\ p # NoPkt /\ p # AckPkt /\ p # Uninit
  /\ Len(Frames) \in Nat
BY WritersAssumption, PacketsAssumption DEF Timers, Contexts, NoPkt, AckPkt, Uninit

\* A small negative number as an octet.
LEMMA Octet ==
  ASSUME NEW n \in Int, -256 < n, n < 0
  PROVE  u8(n) = n + 256
<1>1. n = 256 * (n \div 256) + (n % 256) BY SMT
<1>2. n % 256 \in 0..255 BY SMT
<1>3. n \div 256 \in Int BY SMT
<1> QED BY <1>1, <1>2, <1>3, SMT DEF u8

\* The status codes of the layers as write() sees them, in an unsigned octet.
LEMMA Codes == SUCCESS = 0 /\ BUSY = 255 /\ ACK_TIMEOUT = 253 /\ FAILED = 252
<1>1. u8(-1) = -1 + 256 /\ u8(-3) = -3 + 256 /\ u8(-4) = -4 + 256 BY Octet
<1> QED BY <1>1 DEF SUCCESS, BUSY, ACK_TIMEOUT, FAILED

\* A sequence that is not empty has a head and a tail, and they are recovered
\* from its being put in front of one.
LEMMA Stacks ==
  ASSUME NEW S, NEW s \in Seq(S), NEW a \in S, NEW b \in S
  PROVE  /\ s # <<>> => Head(s) \in S /\ Tail(s) \in Seq(S)
         /\ <<>> \o s = s
         /\ <<a>> \o s \in Seq(S) /\ <<a>> \o s # <<>>
         /\ Head(<<a>> \o s) = a /\ Tail(<<a>> \o s) = s
         /\ <<a, b>> \o s \in Seq(S) /\ <<a, b>> \o s # <<>>
         /\ Head(<<a, b>> \o s) = a /\ Tail(<<a, b>> \o s) = <<b>> \o s
<1>1. s # <<>> => Head(s) \in S /\ Tail(s) \in Seq(S) OBVIOUS
<1>2. <<>> \o s = s OBVIOUS
<1>3. <<a>> \o s \in Seq(S) /\ <<a>> \o s # <<>> OBVIOUS
<1>4. Head(<<a>> \o s) = a OBVIOUS
<1>5. Tail(<<a>> \o s) = s OBVIOUS
<1>6. <<a, b>> \o s \in Seq(S) /\ <<a, b>> \o s # <<>> OBVIOUS
<1>7. Head(<<a, b>> \o s) = a OBVIOUS
<1>8. Tail(<<a, b>> \o s) = <<b>> \o s OBVIOUS
<1> QED BY <1>1, <1>2, <1>3, <1>4, <1>5, <1>6, <1>7, <1>8

\* Sequences are equal when their elements are, and two of length one make one
\* of length two.
LEMMA SameSequence ==
  ASSUME NEW S, NEW s \in Seq(S), NEW t \in Seq(S),
         Len(s) = Len(t), \A i \in 1..Len(s) : s[i] = t[i]
  PROVE  s = t
OBVIOUS

\* Two sequences of one element make one of two.
LEMMA TwoOfOne ==
  ASSUME NEW S, NEW s \in Seq(S), NEW t \in Seq(S), Len(s) = 1, Len(t) = 1
  PROVE  s \o t \in Seq(S) /\ Len(s \o t) = 2 /\ (s \o t)[1] = s[1] /\ (s \o t)[2] = t[1]
<1>1. /\ s \o t \in Seq(S)
      /\ Len(s \o t) = Len(s) + Len(t)
      /\ \A i \in 1..Len(s) : (s \o t)[i] = s[i]
      /\ \A i \in 1..Len(t) : (s \o t)[Len(s) + i] = t[i]
  BY Concatenation
<1>2. 1 \in 1..Len(s) /\ 1 \in 1..Len(t) /\ Len(s) + 1 = 2 /\ Len(s) + Len(t) = 2
  OBVIOUS
<1>3. (s \o t)[Len(s) + 1] = t[1]
  BY <1>1, <1>2
<1> QED BY <1>1, <1>2, <1>3

\* The two calls that a function leaves on the stack of a context.
LEMMA Pair ==
  ASSUME NEW S, NEW a \in S, NEW b \in S
  PROVE  <<a>> \o <<b>> = <<a, b>>
<1> DEFINE s == <<a>>
           t == <<b>>
           u == <<a, b>>
<1>1. s \in Seq(S) /\ Len(s) = 1 /\ s[1] = a OBVIOUS
<1>2. t \in Seq(S) /\ Len(t) = 1 /\ t[1] = b OBVIOUS
<1>3. u \in Seq(S) /\ Len(u) = 2 /\ u[1] = a /\ u[2] = b OBVIOUS
<1> HIDE DEF s, t, u
<1>4. s \o t \in Seq(S) /\ Len(s \o t) = 2 /\ (s \o t)[1] = a /\ (s \o t)[2] = b
  BY <1>1, <1>2, TwoOfOne
<1>5. s \o t = u
  <2>1. \A i \in 1..2 : (s \o t)[i] = u[i] BY <1>4, <1>3
  <2> QED BY <1>3, <1>4, <2>1, SameSequence
<1> QED BY <1>5 DEF s, t, u

\* At and Arg in terms of the two functions.
LEMMA Running ==
  ASSUME NEW c \in Contexts
  PROVE  /\ \A f \in Fns : At(c, f) <=> fnOf[c] = f
         /\ Idle(c) <=> stack[c] = <<>>
         /\ Idle(c) => fnOf[c] = "none"
         /\ ~Idle(c) => fnOf[c] = Head(stack[c]).fn /\ Arg(c) = argOf[c]
BY DEF At, Idle, Arg, fnOf, argOf, Fns, LayerFns, WriterFns, OutsideFns, SpiFns, ReceptionFns, TimerFns

\* What is allowed remains so when more frames are delivered.
LEMMA ShapeKept ==
  ASSUME NEW c \in Contexts, Shape(c, stack[c], Len(delivered)), Grows
  PROVE  Shape(c, stack[c], Len(delivered'))
<1>1. stack[c] # <<>> => ArgOK(Head(stack[c]).fn, Head(stack[c]).arg, Len(delivered'))
  <2>1. ASSUME NEW n, n \in 1..Len(delivered) PROVE n \in 1..Len(delivered')
    BY <2>1 DEF Grows
  <2> QED BY <2>1 DEF Shape, ArgOK
<1> QED BY <1>1 DEF Shape

\* A stack is replaced by another that may be.
LEMMA Effect ==
  ASSUME ShapeInv, Grows, NEW c \in Contexts, NEW s \in Seq(FrameRec),
         stack' = [stack EXCEPT ![c] = s],
         Shape(c, s, Len(delivered'))
  PROVE  /\ ShapeInv'
         /\ fnOf' = [fnOf EXCEPT ![c] = IF s = <<>> THEN "none" ELSE Head(s).fn]
         /\ argOf' = [argOf EXCEPT ![c] = IF s = <<>> THEN 0 ELSE Head(s).arg]
<1>1. stack' \in [Contexts -> Seq(FrameRec)] /\ stack'[c] = s
      /\ \A d \in Contexts \ {c} : stack'[d] = stack[d]
  BY DEF ShapeInv
<1>2. \A d \in Contexts : Shape(d, stack'[d], Len(delivered'))
  BY <1>1, ShapeKept DEF ShapeInv
<1>3. fnOf' = [fnOf EXCEPT ![c] = IF s = <<>> THEN "none" ELSE Head(s).fn]
  BY <1>1 DEF fnOf
<1>4. argOf' = [argOf EXCEPT ![c] = IF s = <<>> THEN 0 ELSE Head(s).arg]
  BY <1>1 DEF argOf
<1> QED BY <1>1, <1>2, <1>3, <1>4 DEF ShapeInv

\* A step that replaces the calls of one context is a move of that context.
LEMMA EffectGoes ==
  ASSUME ShapeInv, Grows, NEW c \in Contexts, NEW s \in Seq(FrameRec),
         stack' = [stack EXCEPT ![c] = s],
         Shape(c, s, Len(delivered')),
         NEW f, NEW g, NEW a, fnOf[c] = f, s # <<>>, Head(s).fn = g, Head(s).arg = a
  PROVE  ShapeInv' /\ Goes(c, f, g, a)
<1>1. /\ ShapeInv'
      /\ fnOf' = [fnOf EXCEPT ![c] = IF s = <<>> THEN "none" ELSE Head(s).fn]
      /\ argOf' = [argOf EXCEPT ![c] = IF s = <<>> THEN 0 ELSE Head(s).arg]
  BY Effect
<1> QED BY <1>1 DEF Goes

\* The running function ends with a call.
LEMMA CallEffect ==
  ASSUME ShapeInv, Grows, NEW c \in Contexts, NEW f \in Fns, NEW g \in Fns, NEW a \in Int,
         At(c, f), Then(c, <<Frame(g, a)>>),
         RunsIn(c, g), ArgOK(g, a, Len(delivered')), Below(c, f) \subseteq Below(c, g)
  PROVE  ShapeInv' /\ Goes(c, f, g, a)
<1>1. stack[c] \in Seq(FrameRec) /\ stack[c] # <<>> /\ Head(stack[c]).fn = f /\ fnOf[c] = f
  BY Running DEF ShapeInv, At, Idle
<1>2. Frame(g, a) \in FrameRec
  BY DEF Frame, FrameRec
<1> DEFINE s == <<Frame(g, a)>> \o Tail(stack[c])
<1>3. s \in Seq(FrameRec) /\ s # <<>> /\ Head(s) = Frame(g, a) /\ Tail(s) = Tail(stack[c])
  BY <1>1, <1>2, Stacks
<1>4. Head(s).fn = g /\ Head(s).arg = a
  BY <1>3 DEF Frame
<1>5. stack' = [stack EXCEPT ![c] = s]
  BY DEF Then
<1>6. Tail(stack[c]) \in Below(c, f)
  BY <1>1 DEF ShapeInv, Shape
<1> HIDE DEF s
<1>7. Shape(c, s, Len(delivered'))
  BY <1>3, <1>4, <1>6 DEF Shape
<1> QED BY <1>1, <1>3, <1>5, <1>4, <1>7, EffectGoes

\* The running function ends with two calls, one after the other.
LEMMA TwoCallsEffect ==
  ASSUME ShapeInv, Grows, NEW c \in Contexts, NEW f \in Fns, NEW g \in Fns, NEW a \in Int,
         NEW h \in Fns, NEW b \in Int,
         At(c, f), Then(c, <<Frame(g, a), Frame(h, b)>>),
         RunsIn(c, g), ArgOK(g, a, Len(delivered')),
         \A t \in Below(c, f) : <<Frame(h, b)>> \o t \in Below(c, g)
  PROVE  ShapeInv' /\ Goes(c, f, g, a)
<1>1. stack[c] \in Seq(FrameRec) /\ stack[c] # <<>> /\ Head(stack[c]).fn = f /\ fnOf[c] = f
  BY Running DEF ShapeInv, At, Idle
<1>2. Frame(g, a) \in FrameRec /\ Frame(h, b) \in FrameRec
  BY DEF Frame, FrameRec
<1> DEFINE s == <<Frame(g, a), Frame(h, b)>> \o Tail(stack[c])
<1>3. s \in Seq(FrameRec) /\ s # <<>> /\ Head(s) = Frame(g, a)
      /\ Tail(s) = <<Frame(h, b)>> \o Tail(stack[c])
  BY <1>1, <1>2, Stacks
<1>4. Head(s).fn = g /\ Head(s).arg = a
  BY <1>3 DEF Frame
<1>5. stack' = [stack EXCEPT ![c] = s]
  BY DEF Then
<1>6. Tail(stack[c]) \in Below(c, f)
  BY <1>1 DEF ShapeInv, Shape
<1> HIDE DEF s
<1>7. Shape(c, s, Len(delivered'))
  BY <1>3, <1>4, <1>6 DEF Shape
<1> QED BY <1>1, <1>3, <1>5, <1>4, <1>7, EffectGoes

\* An idle context starts.
LEMMA EnterEffect ==
  ASSUME ShapeInv, Grows, NEW c \in Contexts, NEW g \in Fns, NEW a \in Int,
         Enter(c, g, a), RunsIn(c, g), ArgOK(g, a, Len(delivered')),
         <<>> \in Below(c, g)
  PROVE  ShapeInv' /\ Goes(c, "none", g, a)
<1> DEFINE s == <<Frame(g, a)>>
<1>1. Frame(g, a) \in FrameRec
  BY DEF Frame, FrameRec
<1>2. s \in Seq(FrameRec) /\ s # <<>> /\ Head(s) = Frame(g, a) /\ Tail(s) = <<>>
  BY <1>1
<1>3. Head(s).fn = g /\ Head(s).arg = a
  BY <1>2 DEF Frame
<1>4. fnOf[c] = "none" /\ stack' = [stack EXCEPT ![c] = s]
  BY Running DEF Enter
<1> HIDE DEF s
<1>5. Shape(c, s, Len(delivered'))
  BY <1>2, <1>3 DEF Shape
<1> QED BY <1>2, <1>3, <1>4, <1>5, EffectGoes

\* What may run next when f returns
Under(c, f) ==
  IF c \in Writers
    THEN IF f \in OutsideFns \cup {"write_wait"} THEN {"none"}
         ELSE IF f \in {"lpl_tx", "lpl_start_timer"} THEN {"write_wait"}
         ELSE {"write_wait", "lpl_start_timer"}
    ELSE IF c = "spi" /\ f = "radio_tx" THEN {"none", "unique_rx_done"} ELSE {"none"}

\* The running function ends, and what is below it runs.
LEMMA ReturnEffect ==
  ASSUME ShapeInv, Grows, NEW c \in Contexts, NEW f \in Fns, At(c, f), Return(c)
  PROVE  ShapeInv' /\ \E g \in Under(c, f), a \in Int : Goes(c, f, g, a)
<1> DEFINE s == Tail(stack[c])
<1>1. stack[c] \in Seq(FrameRec) /\ stack[c] # <<>> /\ Head(stack[c]).fn = f /\ fnOf[c] = f
  BY Running DEF ShapeInv, At, Idle
<1>2. s \in Seq(FrameRec) /\ s \in Below(c, f)
  BY <1>1 DEF ShapeInv, Shape
<1>3. stack' = [stack EXCEPT ![c] = s]
  <2>1. <<>> \o s = s BY <1>2, Stacks
  <2>2. stack' = [stack EXCEPT ![c] = <<>> \o s] BY DEF Return, Then
  <2> QED BY <2>1, <2>2
<1> HIDE DEF s
<1>4. /\ Head(<<WaitFrame>>).fn = "write_wait" /\ Head(<<WaitFrame>>).arg = 0
      /\ Tail(<<WaitFrame>>) = <<>>
      /\ Head(<<StartFrame, WaitFrame>>).fn = "lpl_start_timer"
      /\ Head(<<StartFrame, WaitFrame>>).arg = 0
      /\ Tail(<<StartFrame, WaitFrame>>) = <<WaitFrame>>
  BY DEF WaitFrame, StartFrame, Frame
<1>5. CASE s = <<>>
  <2>1. Shape(c, s, Len(delivered')) BY <1>5 DEF Shape
  <2>2. "none" \in Under(c, f)
    BY <1>2, <1>5 DEF Below, Under
  <2>3. ShapeInv' /\ Goes(c, f, "none", 0)
    BY <1>1, <1>2, <1>3, <1>5, <2>1, Effect DEF Goes
  <2> QED BY <2>2, <2>3
<1>6. CASE s = <<WaitFrame>>
  <2>1. c \in Writers /\ "write_wait" \in Under(c, f)
    <3>1. \A g \in 1..Len(Frames) : <<WaitFrame>> # <<Frame("unique_rx_done", g)>>
      BY DEF WaitFrame, Frame
    <3> QED BY <1>2, <1>6, <3>1 DEF Below, Under
  <2>2. s # <<>> /\ Head(s).fn = "write_wait" /\ Head(s).arg = 0 /\ Tail(s) = <<>>
    BY <1>4, <1>6
  <2>3. Shape(c, s, Len(delivered'))
    BY <2>1, <2>2 DEF Shape, RunsIn, ArgOK, Below, WriterFns
  <2>4. ShapeInv' /\ Goes(c, f, "write_wait", 0)
    BY <1>1, <1>2, <1>3, <2>2, <2>3, EffectGoes
  <2> QED BY <2>1, <2>4
<1>7. CASE s = <<StartFrame, WaitFrame>>
  <2>1. c \in Writers /\ "lpl_start_timer" \in Under(c, f)
    <3>1. \A g \in 1..Len(Frames) : <<StartFrame, WaitFrame>> # <<Frame("unique_rx_done", g)>>
      BY DEF StartFrame, WaitFrame, Frame
    <3>2. <<StartFrame, WaitFrame>> # <<>> /\ <<StartFrame, WaitFrame>> # <<WaitFrame>>
      OBVIOUS
    <3> QED BY <1>2, <1>7, <3>1, <3>2 DEF Below, Under
  <2>2. s # <<>> /\ Head(s).fn = "lpl_start_timer" /\ Head(s).arg = 0 /\ Tail(s) = <<WaitFrame>>
    BY <1>4, <1>7
  <2>3. Shape(c, s, Len(delivered'))
    BY <2>1, <2>2 DEF Shape, RunsIn, ArgOK, Below, WriterFns, OutsideFns
  <2>4. ShapeInv' /\ Goes(c, f, "lpl_start_timer", 0)
    BY <1>1, <1>2, <1>3, <2>2, <2>3, EffectGoes
  <2> QED BY <2>1, <2>4
<1>8. ASSUME NEW n \in 1..Len(Frames), s = <<Frame("unique_rx_done", n)>>
      PROVE  ShapeInv' /\ \E g \in Under(c, f), a \in Int : Goes(c, f, g, a)
  <2>1. c = "spi" /\ f = "radio_tx" /\ c \notin Writers
    <3>1. s # <<>> /\ s # <<WaitFrame>> /\ s # <<StartFrame, WaitFrame>>
      BY <1>8 DEF StartFrame, WaitFrame, Frame
    <3> QED BY <1>2, <3>1, Constants DEF Below
  <2>2. s # <<>> /\ Head(s).fn = "unique_rx_done" /\ Head(s).arg = n /\ Tail(s) = <<>>
    BY <1>8 DEF Frame
  <2>3. Shape(c, s, Len(delivered'))
    BY <2>1, <2>2 DEF Shape, RunsIn, ArgOK, Below, SpiFns, ReceptionFns
  <2>4. "unique_rx_done" \in Under(c, f)
    BY <2>1 DEF Under
  <2>5. ShapeInv' /\ Goes(c, f, "unique_rx_done", n)
    BY <1>1, <1>2, <1>3, <2>2, <2>3, EffectGoes
  <2>6. n \in Int BY Constants
  <2> QED BY <2>4, <2>5, <2>6
<1> QED BY <1>2, <1>5, <1>6, <1>7, <1>8 DEF Below

\* The stacks are left alone.
LEMMA NoEffect ==
  ASSUME ShapeInv, Grows, UNCHANGED stack
  PROVE  ShapeInv' /\ fnOf' = fnOf /\ argOf' = argOf
<1>1. \A c \in Contexts : Shape(c, stack[c], Len(delivered'))
  BY ShapeKept DEF ShapeInv
<1> QED BY <1>1 DEF ShapeInv, fnOf, argOf

\* What is known of the running function.
LEMMA Current ==
  ASSUME ShapeInv, NEW c \in Contexts, NEW f \in Fns, At(c, f)
  PROVE  /\ fnOf[c] = f /\ Arg(c) = argOf[c] /\ argOf[c] \in Int
         /\ RunsIn(c, f) /\ ArgOK(f, argOf[c], Len(delivered))
<1>1. stack[c] \in Seq(FrameRec) /\ stack[c] # <<>> /\ Head(stack[c]).fn = f
  BY DEF ShapeInv, At, Idle
<1>2. Head(stack[c]) \in FrameRec
  BY <1>1
<1>3. fnOf[c] = f /\ argOf[c] = Head(stack[c]).arg /\ Arg(c) = argOf[c]
  BY <1>1, Running DEF At, Idle, argOf
<1>4. argOf[c] \in Int
  BY <1>2, <1>3 DEF FrameRec
<1>5. RunsIn(c, f) /\ ArgOK(f, argOf[c], Len(delivered))
  BY <1>1, <1>3 DEF ShapeInv, Shape
<1> QED BY <1>3, <1>4, <1>5

\* No frame is delivered.
LEMMA Constant ==
  ASSUME TypeInv, UNCHANGED delivered
  PROVE  Grows
BY DEF TypeInv, UniqueTypeOK, Grows

\* A layer calls another, with nothing left to do itself.
LEMMA LayerCall ==
  ASSUME TypeInv, ShapeInv, UNCHANGED delivered, NEW c \in Contexts,
         NEW f \in (Fns \ WriterFns) \cup {"lpl_tx"}, f # "radio_tx",
         NEW g \in LayerFns, NEW a \in Int,
         At(c, f), Then(c, <<Frame(g, a)>>), ArgOK(g, a, Len(delivered))
  PROVE  ShapeInv' /\ Goes(c, f, g, a)
<1>1. f \in Fns /\ g \in Fns
  BY DEF Fns, WriterFns
<1>2. RunsIn(c, f) /\ RunsIn(c, g)
  BY <1>1, Current DEF RunsIn
<1>3. Below(c, f) \subseteq Below(c, g)
  BY <1>2, Constants DEF Below, OutsideFns, LayerFns, WriterFns, Fns
<1> QED BY <1>1, <1>2, <1>3, Constant, CallEffect

\* A function returns to what is below it.
Ends(c, f) == \E g \in Under(c, f), a \in Int : Goes(c, f, g, a)

\* A context that returns ends its function.
LEMMA Returns ==
  ASSUME TypeInv, ShapeInv, UNCHANGED delivered, NEW c \in Contexts, NEW f \in Fns,
         At(c, f), Return(c)
  PROVE  ShapeInv' /\ Ends(c, f)
BY Constant, ReturnEffect DEF Ends

\* Which of them a name belongs to.
LEMMA Names ==
  /\ "csma_tx" \in LayerFns /\ "sack_tx" \in LayerFns /\ "radio_tx" \in LayerFns
  /\ "csma_tx_done" \in LayerFns /\ "lpl_tx_done" \in LayerFns
  /\ "lpl_cancel" \in LayerFns /\ "interface_tx_done" \in LayerFns
  /\ LayerFns \subseteq Fns /\ WriterFns \subseteq Fns
  /\ "lpl_tx" \in WriterFns /\ "lpl_start_timer" \in WriterFns /\ "write_wait" \in WriterFns
  /\ OutsideFns \subseteq WriterFns
  /\ LayerFns \cap WriterFns = {}
  /\ "sack_rx_done" \in Fns \ WriterFns /\ "unique_rx_done" \in Fns \ WriterFns
  /\ "interface_rx_done" \in Fns \ WriterFns /\ "rx_copy" \in Fns \ WriterFns
  /\ "sack_tx_done" \in Fns \ WriterFns /\ "sack_cancel" \in Fns \ WriterFns
  /\ "sack_timer_cb" \in Fns \ WriterFns /\ "csma_timer_cb" \in Fns \ WriterFns
  /\ "lpl_timer_cb" \in Fns \ WriterFns
BY DEF Fns, LayerFns, SpiFns, ReceptionFns, TimerFns, WriterFns, OutsideFns

-----------------------------------------------------------------------------
(* The steps of the layers, in the same terms.  What they do to the other  *)
(* variables is left to their definitions.                                 *)

\* Frame f has the number of the packet that waits
AcksWaiting(f) == \E n \in MayHaveDsn(sack_tx_buf) : is_ack_to([dsn |-> n], RxBuf[f])

\* What sack.c does is one of these moves, with these changes of its state.
LEMMA SackMoves ==
  ASSUME TypeInv, ShapeInv, UNCHANGED delivered, NEW c \in Contexts, SackStep(c)
  PROVE  /\ ShapeInv'
         /\ \/ radio_tx(c) /\ Ends(c, "radio_tx")
            \/ sack_tx(c) /\ Goes(c, "sack_tx", "radio_tx", argOf[c])
            \/ /\ sack_tx_done(c)
               /\ \/ sack_state = "TX" /\ sack_state' = "TX_WAIT" /\ Ends(c, "sack_tx_done")
                     /\ armed' = armed \cup {"sack_timer"}
                  \/ sack_state = "TX" /\ sack_state' = "IDLE" /\ armed' = armed
                     /\ Goes(c, "sack_tx_done", "csma_tx_done", argOf[c])
                     /\ MayWantNone(sack_tx_buf)
                  \/ sack_state = "TX_ACK" /\ sack_state' = "IDLE" /\ armed' = armed
                     /\ Ends(c, "sack_tx_done")
            \/ /\ sack_rx_ack(c)
               /\ \/ sack_state = "TX_WAIT" /\ sack_state' = "IDLE"
                     /\ is_ack(RxBuf[argOf[c]]) /\ AcksWaiting(argOf[c])
                     /\ Goes(c, "sack_rx_done", "sack_cancel", 0)
                  \/ sack_state' = sack_state /\ Ends(c, "sack_rx_done")
            \/ sack_cancel(c) /\ Goes(c, "sack_cancel", "csma_tx_done", SUCCESS)
            \/ /\ sack_rx_data(c)
               /\ \/ sack_state' = sack_state
                     /\ Goes(c, "sack_rx_done", "unique_rx_done", argOf[c])
                  \/ sack_state = "IDLE" /\ sack_state' = "TX_ACK"
                     /\ Goes(c, "sack_rx_done", "radio_tx", AckPkt)
                  \/ sack_state' = sack_state /\ Ends(c, "sack_rx_done")
            \/ /\ sack_timer_cb(c)
               /\ \/ sack_state = "TX_WAIT" /\ sack_state' = "IDLE"
                     /\ Goes(c, "sack_timer_cb", "csma_tx_done", ACK_TIMEOUT)
                  \/ sack_state' = sack_state /\ Ends(c, "sack_timer_cb")
<1>1. CASE radio_tx(c)
  BY <1>1, Returns, Names DEF radio_tx
<1>2. CASE sack_tx(c)
  <2>1. At(c, "sack_tx") /\ Then(c, <<Frame("radio_tx", argOf[c])>>)
        /\ argOf[c] \in Int /\ ArgOK("radio_tx", argOf[c], Len(delivered))
    BY <1>2, Current, Names DEF sack_tx, ArgOK
  <2>2. ShapeInv' /\ Goes(c, "sack_tx", "radio_tx", argOf[c])
    BY <2>1, LayerCall, Names
  <2> QED BY <1>2, <2>2
<1>3. CASE sack_tx_done(c)
  <2>1. At(c, "sack_tx_done") /\ argOf[c] = Arg(c) /\ argOf[c] \in Statuses \cap Int
    BY <1>3, Current, Names, Codes DEF sack_tx_done, ArgOK, Statuses
  <2>2. CASE sack_state = "TX" /\ sack_state' = "TX_WAIT" /\ Return(c)
             /\ armed' = armed \cup {"sack_timer"}
    BY <1>3, <2>1, <2>2, Returns, Names
  <2>3. CASE sack_state = "TX" /\ sack_state' = "IDLE" /\ armed' = armed
             /\ Then(c, <<Frame("csma_tx_done", Arg(c))>>) /\ MayWantNone(sack_tx_buf)
    <3>1. ShapeInv' /\ Goes(c, "sack_tx_done", "csma_tx_done", argOf[c])
      BY <2>1, <2>3, LayerCall, Names DEF ArgOK
    <3> QED BY <1>3, <2>3, <3>1
  <2>4. CASE sack_state = "TX_ACK" /\ sack_state' = "IDLE" /\ armed' = armed /\ Return(c)
    BY <1>3, <2>1, <2>4, Returns, Names
  <2> QED BY <1>3, <2>2, <2>3, <2>4 DEF sack_tx_done, hrtimer_start
<1>4. CASE sack_rx_ack(c)
  <2>1. At(c, "sack_rx_done") /\ Grows /\ c = "spi" /\ c \notin Writers /\ Arg(c) = argOf[c]
    BY <1>4, Constant, Current, Names, Constants DEF sack_rx_ack, RunsIn, Fns, LayerFns, SpiFns, ReceptionFns, WriterFns, OutsideFns, TimerFns
  <2>2. CASE sack_state = "TX_WAIT" /\ sack_state' = "IDLE"
             /\ is_ack(RxBuf[Arg(c)]) /\ AcksWaiting(Arg(c))
             /\ Then(c, <<Frame("sack_cancel", 0)>>)
    <3>1. RunsIn(c, "sack_cancel") /\ ArgOK("sack_cancel", 0, Len(delivered'))
          /\ Below(c, "sack_rx_done") \subseteq Below(c, "sack_cancel")
      BY <2>1 DEF RunsIn, ArgOK, Below, SpiFns, ReceptionFns
    <3>2. ShapeInv' /\ Goes(c, "sack_rx_done", "sack_cancel", 0)
      BY <2>1, <2>2, <3>1, CallEffect, Names
    <3> QED BY <1>4, <2>1, <2>2, <3>2
  <2>3. CASE sack_state' = sack_state /\ Return(c)
    BY <1>4, <2>1, <2>3, Returns, Names
  <2> QED BY <1>4, <2>2, <2>3 DEF sack_rx_ack, AcksWaiting
<1>5. CASE sack_cancel(c)
  <2>1. At(c, "sack_cancel") /\ Then(c, <<Frame("csma_tx_done", SUCCESS)>>)
    BY <1>5 DEF sack_cancel
  <2>2. ShapeInv' /\ Goes(c, "sack_cancel", "csma_tx_done", SUCCESS)
    BY <2>1, LayerCall, Names, Codes DEF ArgOK, Statuses
  <2> QED BY <1>5, <2>2
<1>6. CASE sack_rx_data(c)
  <2>1. At(c, "sack_rx_done") /\ Grows /\ argOf[c] = Arg(c) /\ argOf[c] \in Int
        /\ RunsIn(c, "sack_rx_done") /\ argOf[c] \in 1..Len(Frames) /\ c = "spi" /\ c \notin Writers
    BY <1>6, Constant, Current, Names, Constants DEF sack_rx_data, ArgOK, RunsIn, Fns, LayerFns, SpiFns, ReceptionFns, WriterFns, OutsideFns, TimerFns
  <2>2. CASE sack_state' = sack_state /\ Then(c, <<Frame("unique_rx_done", Arg(c))>>)
    <3>1. RunsIn(c, "unique_rx_done") /\ ArgOK("unique_rx_done", argOf[c], Len(delivered'))
          /\ Below(c, "sack_rx_done") \subseteq Below(c, "unique_rx_done")
      BY <2>1 DEF RunsIn, ArgOK, Below, SpiFns, ReceptionFns
    <3>2. ShapeInv' /\ Goes(c, "sack_rx_done", "unique_rx_done", argOf[c])
      BY <2>1, <2>2, <3>1, CallEffect, Names
    <3> QED BY <1>6, <2>2, <3>2
  <2>3. CASE sack_state = "IDLE" /\ sack_state' = "TX_ACK"
             /\ Then(c, <<Frame("radio_tx", AckPkt), Frame("unique_rx_done", Arg(c))>>)
    <3>1. RunsIn(c, "radio_tx") /\ ArgOK("radio_tx", AckPkt, Len(delivered'))
      BY Names DEF RunsIn, ArgOK
    <3>2. \A t \in Below(c, "sack_rx_done") :
            <<Frame("unique_rx_done", argOf[c])>> \o t \in Below(c, "radio_tx")
      <4>1. Frame("unique_rx_done", argOf[c]) \in FrameRec
        BY <2>1, Names DEF Frame, FrameRec
      <4>2. <<Frame("unique_rx_done", argOf[c])>> \o <<>> = <<Frame("unique_rx_done", argOf[c])>>
        BY <4>1
      <4>3. Below(c, "sack_rx_done") = {<<>>}
        BY <2>1 DEF Below
      <4>4. Below(c, "radio_tx") = {<<>>} \cup { <<Frame("unique_rx_done", f)>> : f \in 1..Len(Frames) }
        BY <2>1 DEF Below
      <4>5. <<Frame("unique_rx_done", argOf[c])>> \in Below(c, "radio_tx")
        BY <2>1, <4>4
      <4> QED BY <2>1, <4>2, <4>3, <4>5
    <3>3. Then(c, <<Frame("radio_tx", AckPkt), Frame("unique_rx_done", argOf[c])>>)
          /\ AckPkt \in Int
      BY <2>1, <2>3 DEF AckPkt
    <3>4. ShapeInv' /\ Goes(c, "sack_rx_done", "radio_tx", AckPkt)
      BY <2>1, <3>1, <3>2, <3>3, TwoCallsEffect, Names
    <3> QED BY <1>6, <2>3, <3>4
  <2>4. CASE sack_state' = sack_state /\ Return(c)
    BY <1>6, <2>1, <2>4, Returns, Names
  <2> QED BY <1>6, <2>2, <2>3, <2>4 DEF sack_rx_data
<1>7. CASE sack_timer_cb(c)
  <2>1. At(c, "sack_timer_cb")
    BY <1>7 DEF sack_timer_cb
  <2>2. CASE sack_state = "TX_WAIT" /\ sack_state' = "IDLE"
             /\ Then(c, <<Frame("csma_tx_done", ACK_TIMEOUT)>>)
    <3>1. ShapeInv' /\ Goes(c, "sack_timer_cb", "csma_tx_done", ACK_TIMEOUT)
      BY <2>1, <2>2, LayerCall, Names, Codes DEF ArgOK, Statuses
    <3> QED BY <1>7, <2>2, <3>1
  <2>3. CASE sack_state' = sack_state /\ Return(c)
    BY <1>7, <2>1, <2>3, Returns, Names
  <2> QED BY <1>7, <2>2, <2>3 DEF sack_timer_cb
<1> QED BY <1>1, <1>2, <1>3, <1>4, <1>5, <1>6, <1>7 DEF SackStep

\* What csma.c does is one of these moves.
LEMMA CsmaMoves ==
  ASSUME TypeInv, ShapeInv, UNCHANGED delivered, NEW c \in Contexts, CsmaStep(c)
  PROVE  /\ ShapeInv'
         /\ \/ /\ csma_tx(c)
               /\ \/ /\ ~csma_enabled /\ UNCHANGED <<armed, csmaVars>>
                     /\ Goes(c, "csma_tx", "sack_tx", argOf[c])
                  \/ /\ csma_enabled /\ csma_state = "IDLE"
                     /\ armed' = armed \cup {"csma_timer"}
                     /\ Ends(c, "csma_tx")
                  \/ /\ csma_enabled /\ UNCHANGED <<armed, csmaVars>>
                     /\ Goes(c, "csma_tx", "lpl_tx_done", BUSY)
            \/ csma_timer_clear(c) /\ Ends(c, "csma_timer_cb")
            \/ /\ csma_timer_busy(c)
               /\ \/ /\ armed' = armed \cup {"csma_timer"}
                     /\ Ends(c, "csma_timer_cb")
                  \/ /\ armed' = armed
                     /\ Goes(c, "csma_timer_cb", "lpl_tx_done", BUSY)
            \/ csma_tx_done(c) /\ Goes(c, "csma_tx_done", "lpl_tx_done", argOf[c])
<1>1. CASE csma_tx(c)
  <2>1. At(c, "csma_tx") /\ argOf[c] = Arg(c) /\ argOf[c] \in (Packets \cup {Uninit}) \cap Int
    BY <1>1, Current, Names DEF csma_tx, ArgOK
  <2>2. CASE ~csma_enabled /\ Then(c, <<Frame("sack_tx", Arg(c))>>) /\ UNCHANGED <<armed, csmaVars>>
    <3>1. ShapeInv' /\ Goes(c, "csma_tx", "sack_tx", argOf[c])
      BY <2>1, <2>2, LayerCall, Names DEF ArgOK
    <3> QED BY <1>1, <2>2, <3>1
  <2>3. CASE csma_enabled /\ csma_state = "IDLE" /\ armed' = armed \cup {"csma_timer"} /\ Return(c)
    BY <1>1, <2>1, <2>3, Returns, Names
  <2>4. CASE csma_enabled /\ Then(c, <<Frame("lpl_tx_done", BUSY)>>) /\ UNCHANGED <<armed, csmaVars>>
    <3>1. ShapeInv' /\ Goes(c, "csma_tx", "lpl_tx_done", BUSY)
      BY <2>1, <2>4, LayerCall, Names, Codes DEF ArgOK, Statuses
    <3> QED BY <1>1, <2>4, <3>1
  <2> QED BY <1>1, <2>2, <2>3, <2>4 DEF csma_tx, hrtimer_start
<1>2. CASE csma_timer_clear(c)
  <2>1. At(c, "csma_timer_cb") /\ Return(c) BY <1>2 DEF csma_timer_clear
  <2> QED BY <1>2, <2>1, Returns, Names
<1>3. CASE csma_timer_busy(c)
  <2>1. At(c, "csma_timer_cb")
    BY <1>3 DEF csma_timer_busy
  <2>2. CASE armed' = armed \cup {"csma_timer"} /\ Return(c)
    BY <1>3, <2>1, <2>2, Returns, Names
  <2>3. CASE armed' = armed /\ Then(c, <<Frame("lpl_tx_done", BUSY)>>)
    <3>1. ShapeInv' /\ Goes(c, "csma_timer_cb", "lpl_tx_done", BUSY)
      BY <2>1, <2>3, LayerCall, Names, Codes DEF ArgOK, Statuses
    <3> QED BY <1>3, <2>3, <3>1
  <2> QED BY <1>3, <2>2, <2>3 DEF csma_timer_busy, hrtimer_start
<1>4. CASE csma_tx_done(c)
  <2>1. At(c, "csma_tx_done") /\ argOf[c] = Arg(c) /\ argOf[c] \in Statuses \cap Int
    BY <1>4, Current, Names DEF csma_tx_done, ArgOK
  <2>2. Then(c, <<Frame("lpl_tx_done", Arg(c))>>)
    BY <1>4 DEF csma_tx_done
  <2>3. ShapeInv' /\ Goes(c, "csma_tx_done", "lpl_tx_done", argOf[c])
    BY <2>1, <2>2, LayerCall, Names DEF ArgOK
  <2> QED BY <1>4, <2>3
<1> QED BY <1>1, <1>2, <1>3, <1>4 DEF CsmaStep

\* What lpl.c does is one of these moves; the packet is kept in lpl_tx_buf.
LEMMA LplMoves ==
  ASSUME TypeInv, ShapeInv, UNCHANGED delivered, NEW c \in Contexts, LplStep(c)
  PROVE  /\ ShapeInv'
         /\ \/ /\ lpl_tx(c) /\ c \in Writers /\ argOf[c] \in Packets
               /\ \/ /\ Goes(c, "lpl_tx", "csma_tx", argOf[c])
                     /\ lpl_enabled => lpl_tx_buf' = argOf[c]
                  \/ Goes(c, "lpl_tx", "interface_tx_done", BUSY) /\ UNCHANGED lpl_tx_buf
            \/ lpl_start_timer(c) /\ c \in Writers /\ Ends(c, "lpl_start_timer")
            \/ lpl_tx_acked(c) /\ Goes(c, "lpl_tx_done", "lpl_cancel", 0)
            \/ lpl_cancel(c) /\ Goes(c, "lpl_cancel", "interface_tx_done", SUCCESS)
            \/ /\ lpl_tx_again(c)
               /\ \/ Goes(c, "lpl_tx_done", "interface_tx_done", FAILED)
                  \/ /\ Goes(c, "lpl_tx_done", "interface_tx_done", SUCCESS)
                     /\ MayWantNone(lpl_tx_buf)
                  \/ Goes(c, "lpl_tx_done", "csma_tx", lpl_tx_buf)
            \/ lpl_tx_through(c) /\ Goes(c, "lpl_tx_done", "interface_tx_done", argOf[c])
            \/ lpl_timer_cb(c) /\ c = "lpl_timer" /\ Ends(c, "lpl_timer_cb")
<1>1. CASE lpl_tx(c)
  <2>1. At(c, "lpl_tx") /\ argOf[c] = Arg(c) /\ argOf[c] \in Packets \cap Int /\ RunsIn(c, "lpl_tx")
    BY <1>1, Current, Names DEF lpl_tx, ArgOK
  <2>2. c \in Writers
    BY <2>1 DEF RunsIn, LayerFns, SpiFns, ReceptionFns
  <2>3. CASE Then(c, <<Frame("csma_tx", Arg(c)), Frame("lpl_start_timer", 0)>>)
             /\ lpl_tx_buf' = Arg(c)
    <3>1. RunsIn(c, "csma_tx") /\ ArgOK("csma_tx", argOf[c], Len(delivered'))
      BY <2>1, Names DEF RunsIn, ArgOK
    <3>2. \A t \in Below(c, "lpl_tx") : <<Frame("lpl_start_timer", 0)>> \o t \in Below(c, "csma_tx")
      <4>1. <<StartFrame>> \o <<WaitFrame>> = <<StartFrame, WaitFrame>>
        <5>1. StartFrame \in FrameRec /\ WaitFrame \in FrameRec
          BY Names DEF StartFrame, WaitFrame, Frame, FrameRec
        <5> QED BY <5>1, Pair
      <4>2. Below(c, "lpl_tx") = {<<WaitFrame>>}
        BY <2>2 DEF Below, OutsideFns
      <4>3. <<StartFrame, WaitFrame>> \in Below(c, "csma_tx")
        BY <2>2 DEF Below, OutsideFns
      <4> QED BY <4>1, <4>2, <4>3 DEF StartFrame
    <3>3. Then(c, <<Frame("csma_tx", argOf[c]), Frame("lpl_start_timer", 0)>>)
      BY <2>1, <2>3
    <3>4. Grows /\ "lpl_tx" \in Fns /\ "csma_tx" \in Fns /\ "lpl_start_timer" \in Fns
      BY Constant, Names
    <3>5. ShapeInv' /\ Goes(c, "lpl_tx", "csma_tx", argOf[c])
      BY <2>1, <3>1, <3>2, <3>3, <3>4, TwoCallsEffect
    <3> QED BY <1>1, <2>1, <2>2, <2>3, <3>5
  <2>4. CASE Then(c, <<Frame("interface_tx_done", BUSY)>>) /\ UNCHANGED lpl_tx_buf
    <3>1. ShapeInv' /\ Goes(c, "lpl_tx", "interface_tx_done", BUSY)
      BY <2>1, <2>4, LayerCall, Names, Codes DEF ArgOK, Statuses
    <3> QED BY <1>1, <2>1, <2>2, <2>4, <3>1
  <2>5. CASE Then(c, <<Frame("csma_tx", Arg(c))>>) /\ ~lpl_enabled
    <3>1. ShapeInv' /\ Goes(c, "lpl_tx", "csma_tx", argOf[c])
      BY <2>1, <2>5, LayerCall, Names DEF ArgOK
    <3> QED BY <1>1, <2>1, <2>2, <2>5, <3>1
  <2> QED BY <1>1, <2>3, <2>4, <2>5 DEF lpl_tx
<1>2. CASE lpl_start_timer(c)
  <2>1. At(c, "lpl_start_timer") /\ Return(c) BY <1>2 DEF lpl_start_timer
  <2>2. c \in Writers
    BY <2>1, Current, Names DEF RunsIn, LayerFns, SpiFns, ReceptionFns
  <2> QED BY <1>2, <2>1, <2>2, Returns, Names
<1>3. CASE lpl_tx_acked(c)
  <2>1. At(c, "lpl_tx_done") /\ Then(c, <<Frame("lpl_cancel", 0)>>) BY <1>3 DEF lpl_tx_acked
  <2>2. ShapeInv' /\ Goes(c, "lpl_tx_done", "lpl_cancel", 0)
    BY <2>1, LayerCall, Names DEF ArgOK
  <2> QED BY <1>3, <2>2
<1>4. CASE lpl_cancel(c)
  <2>1. At(c, "lpl_cancel") /\ Then(c, <<Frame("interface_tx_done", SUCCESS)>>)
    BY <1>4 DEF lpl_cancel
  <2>2. ShapeInv' /\ Goes(c, "lpl_cancel", "interface_tx_done", SUCCESS)
    BY <2>1, LayerCall, Names, Codes DEF ArgOK, Statuses
  <2> QED BY <1>4, <2>2
<1>5. CASE lpl_tx_again(c)
  <2>1. At(c, "lpl_tx_done") BY <1>5 DEF lpl_tx_again
  <2>2. ASSUME NEW s \in {SUCCESS, FAILED}, Then(c, <<Frame("interface_tx_done", s)>>)
        PROVE  ShapeInv' /\ Goes(c, "lpl_tx_done", "interface_tx_done", s)
    BY <2>1, <2>2, LayerCall, Names, Codes DEF ArgOK, Statuses
  <2>3. CASE Then(c, <<Frame("csma_tx", lpl_tx_buf)>>)
    <3>1. lpl_tx_buf \in Packets \cup {Uninit} /\ lpl_tx_buf \in Int
      BY Constants DEF TypeInv, LplTypeOK, Uninit
    <3>2. ShapeInv' /\ Goes(c, "lpl_tx_done", "csma_tx", lpl_tx_buf)
      BY <2>1, <2>3, <3>1, LayerCall, Names DEF ArgOK
    <3> QED BY <1>5, <3>2
  <2> QED BY <1>5, <2>2, <2>3 DEF lpl_tx_again
<1>6. CASE lpl_tx_through(c)
  <2>1. At(c, "lpl_tx_done") /\ argOf[c] = Arg(c) /\ argOf[c] \in Statuses \cap Int
    BY <1>6, Current, Names DEF lpl_tx_through, ArgOK
  <2>2. Then(c, <<Frame("interface_tx_done", Arg(c))>>)
    BY <1>6 DEF lpl_tx_through
  <2>3. ShapeInv' /\ Goes(c, "lpl_tx_done", "interface_tx_done", argOf[c])
    BY <2>1, <2>2, LayerCall, Names DEF ArgOK
  <2> QED BY <1>6, <2>3
<1>7. CASE lpl_timer_cb(c)
  <2>1. At(c, "lpl_timer_cb") /\ Return(c) BY <1>7 DEF lpl_timer_cb
  <2>2. c = "lpl_timer"
    BY <2>1, Current, Names DEF RunsIn, LayerFns, SpiFns, ReceptionFns, WriterFns, OutsideFns
  <2> QED BY <1>7, <2>1, <2>2, Returns, Names
<1> QED BY <1>1, <1>2, <1>3, <1>4, <1>5, <1>6, <1>7 DEF LplStep

\* The receive path runs in the SPI thread, with nothing below it.
LEMMA ReceiveHome ==
  ASSUME ShapeInv, NEW c \in Contexts,
         NEW f \in {"unique_rx_done", "interface_rx_done", "rx_copy"}, At(c, f)
  PROVE  /\ c = "spi" /\ c \notin Writers /\ argOf[c] = Arg(c) /\ argOf[c] \in Int
         /\ ArgOK(f, argOf[c], Len(delivered)) /\ Below(c, f) = {<<>>} /\ f \in Fns
<1>1. f \in Fns BY Names
<1>2. RunsIn(c, f) /\ argOf[c] = Arg(c) /\ argOf[c] \in Int /\ ArgOK(f, argOf[c], Len(delivered))
  BY <1>1, Current
<1>3. c = "spi"
  BY <1>2 DEF RunsIn, LayerFns, WriterFns, OutsideFns
<1>4. c \notin Writers
  BY <1>3, Constants
<1>5. Below(c, f) = {<<>>}
  BY <1>4 DEF Below
<1> QED BY <1>1, <1>2, <1>3, <1>4, <1>5

\* A frame is handed up, and then there is one delivery more.
LEMMA UniqueMoves ==
  ASSUME TypeInv, ShapeInv, NEW c \in Contexts, unique_rx_done(c)
  PROVE  /\ ShapeInv' /\ Grows /\ c = "spi" /\ argOf[c] = Arg(c) /\ argOf[c] \in 1..Len(Frames)
         /\ \/ delivered' = delivered /\ Ends(c, "unique_rx_done")
            \/ /\ \E kept \in BOOLEAN :
                    delivered' = Append(delivered, [frame |-> argOf[c], kept |-> kept])
               /\ Len(delivered') = Len(delivered) + 1
               /\ Goes(c, "unique_rx_done", "interface_rx_done", Len(delivered'))
<1>1. delivered \in Seq([frame : 1..Len(Frames), kept : BOOLEAN]) /\ Len(delivered) \in Nat
  BY DEF TypeInv, UniqueTypeOK
<1>2. At(c, "unique_rx_done") BY DEF unique_rx_done
<1>3. c = "spi" /\ c \notin Writers /\ argOf[c] = Arg(c)
      /\ argOf[c] \in 1..Len(Frames) /\ Below(c, "unique_rx_done") = {<<>>}
  BY <1>2, ReceiveHome DEF ArgOK
<1>4. CASE delivered' = delivered /\ Return(c)
  BY <1>2, <1>3, <1>4, Returns, Names, Constant
<1>5. ASSUME NEW kept \in BOOLEAN, HandUp(c, kept)
      PROVE  /\ ShapeInv' /\ Grows
             /\ delivered' = Append(delivered, [frame |-> argOf[c], kept |-> kept])
             /\ Len(delivered') = Len(delivered) + 1
             /\ Goes(c, "unique_rx_done", "interface_rx_done", Len(delivered'))
  <2>1. delivered' = Append(delivered, [frame |-> argOf[c], kept |-> kept])
        /\ Then(c, <<Frame("interface_rx_done", Len(delivered) + 1)>>)
    BY <1>3, <1>5 DEF HandUp
  <2>2. Len(delivered') = Len(delivered) + 1 /\ Grows
    BY <1>1, <1>3, <2>1 DEF Grows
  <2>3. RunsIn(c, "interface_rx_done") /\ Len(delivered') \in Int
        /\ ArgOK("interface_rx_done", Len(delivered'), Len(delivered'))
    BY <1>1, <1>3, <2>2 DEF RunsIn, SpiFns, ReceptionFns, ArgOK
  <2>4. Below(c, "interface_rx_done") = {<<>>}
    BY <1>3 DEF Below
  <2>5. Then(c, <<Frame("interface_rx_done", Len(delivered'))>>)
    BY <2>1, <2>2
  <2>6. ShapeInv' /\ Goes(c, "unique_rx_done", "interface_rx_done", Len(delivered'))
    BY <1>2, <1>3, <2>2, <2>3, <2>4, <2>5, CallEffect, Names
  <2> QED BY <2>1, <2>2, <2>6
<1> QED BY <1>3, <1>4, <1>5, Constant DEF unique_rx_done, Drop

\* The receive path of interface.c stays in the completion of an SPI message.
LEMMA RxMoves ==
  ASSUME TypeInv, ShapeInv, NEW c \in Contexts, RxStep(c), UNCHANGED delivered
  PROVE  /\ ShapeInv' /\ c = "spi" /\ argOf[c] = Arg(c) /\ argOf[c] \in 1..Len(delivered)
         /\ \/ interface_rx_done(c) /\ Goes(c, "interface_rx_done", "rx_copy", argOf[c])
            \/ rx_copy(c) /\ UNCHANGED stack /\ fnOf[c] = "rx_copy"
            \/ rx_wake(c) /\ Ends(c, "rx_copy")
<1>1. CASE interface_rx_done(c)
  <2>1. At(c, "interface_rx_done") /\ Then(c, <<Frame("rx_copy", Arg(c))>>) /\ Grows
    BY <1>1, Constant DEF interface_rx_done
  <2>2. c = "spi" /\ c \notin Writers /\ argOf[c] = Arg(c) /\ argOf[c] \in Int
        /\ argOf[c] \in 1..Len(delivered) /\ Below(c, "interface_rx_done") = {<<>>}
    BY <2>1, ReceiveHome DEF ArgOK
  <2>3. RunsIn(c, "rx_copy") /\ ArgOK("rx_copy", argOf[c], Len(delivered'))
        /\ Below(c, "rx_copy") = {<<>>}
    BY <2>2 DEF RunsIn, SpiFns, ReceptionFns, ArgOK, Below
  <2>4. ShapeInv' /\ Goes(c, "interface_rx_done", "rx_copy", argOf[c])
    BY <2>1, <2>2, <2>3, CallEffect, Names
  <2> QED BY <1>1, <2>2, <2>4
<1>2. CASE rx_copy(c)
  <2>1. At(c, "rx_copy") /\ UNCHANGED stack BY <1>2 DEF rx_copy, callVars
  <2>2. c = "spi" /\ argOf[c] = Arg(c) /\ argOf[c] \in 1..Len(delivered)
    BY <2>1, ReceiveHome DEF ArgOK
  <2>3. ShapeInv' BY <2>1, NoEffect, Constant
  <2>4. fnOf[c] = "rx_copy" BY <2>1, Current, Names
  <2> QED BY <1>2, <2>1, <2>2, <2>3, <2>4
<1>3. CASE rx_wake(c)
  <2>1. At(c, "rx_copy") /\ Return(c) BY <1>3 DEF rx_wake
  <2>2. c = "spi" /\ argOf[c] = Arg(c) /\ argOf[c] \in 1..Len(delivered)
    BY <2>1, ReceiveHome DEF ArgOK
  <2> QED BY <1>3, <2>1, <2>2, Returns, Names
<1> QED BY <1>1, <1>2, <1>3 DEF RxStep

\* What write() and its completion do is one of these moves.
LEMMA WriteMoves ==
  ASSUME TypeInv, ShapeInv, UNCHANGED delivered, NEW c \in Contexts, WriteStep(c)
  PROVE  /\ ShapeInv'
         /\ \/ /\ c \in Writers
               /\ \/ /\ write_down(c) /\ argOf[c] = Arg(c) /\ argOf[c] \in Packets
                     /\ Goes(c, "write_down", "lpl_tx", argOf[c])
                  \/ write_refused(c) /\ Ends(c, "write_down")
                  \/ write_wait(c) /\ Goes(c, "write_wait", "write_up", 0)
                  \/ write_up(c) /\ Goes(c, "write_up", "write_return", 0)
                  \/ write_return(c) /\ Ends(c, "write_return")
            \/ /\ interface_tx_done(c) /\ argOf[c] = Arg(c) /\ argOf[c] \in Statuses
               /\ Ends(c, "interface_tx_done")
<1>0. {"write_down", "lpl_tx", "write_wait", "write_up", "write_return"} \subseteq Fns /\ Grows
  BY Constant DEF Fns, WriterFns, OutsideFns
<1>1. CASE c \in Writers /\ write_down(c)
  <2>1. At(c, "write_down") /\ Then(c, <<Frame("lpl_tx", Arg(c)), Frame("write_wait", 0)>>)
    BY <1>1 DEF write_down
  <2>2. argOf[c] = Arg(c) /\ argOf[c] \in Packets /\ argOf[c] \in Int
    BY <1>0, <2>1, Current DEF ArgOK
  <2>3. RunsIn(c, "lpl_tx") /\ ArgOK("lpl_tx", argOf[c], Len(delivered'))
    BY <1>1, <2>2, Names DEF RunsIn, ArgOK
  <2>4. \A t \in Below(c, "write_down") : <<Frame("write_wait", 0)>> \o t \in Below(c, "lpl_tx")
    <3>1. Frame("write_wait", 0) \in FrameRec
      BY Names DEF Frame, FrameRec
    <3>2. <<Frame("write_wait", 0)>> \o <<>> = <<Frame("write_wait", 0)>>
      BY <3>1
    <3>3. Below(c, "write_down") = {<<>>}
      BY <1>1 DEF Below, OutsideFns
    <3>4. Below(c, "lpl_tx") = {<<Frame("write_wait", 0)>>}
      BY <1>1 DEF Below, OutsideFns, WaitFrame
    <3> QED BY <3>2, <3>3, <3>4
  <2>5. Then(c, <<Frame("lpl_tx", argOf[c]), Frame("write_wait", 0)>>)
    BY <2>1, <2>2
  <2>6. ShapeInv' /\ Goes(c, "write_down", "lpl_tx", argOf[c])
    BY <1>0, <2>1, <2>2, <2>3, <2>4, <2>5, TwoCallsEffect
  <2> QED BY <1>1, <2>2, <2>6
<1>2. CASE c \in Writers /\ write_refused(c)
  <2>1. At(c, "write_down") /\ Return(c) BY <1>2 DEF write_refused
  <2> QED BY <1>0, <1>2, <2>1, Returns
<1>3. CASE c \in Writers /\ write_wait(c)
  <2>1. At(c, "write_wait") /\ Then(c, <<Frame("write_up", 0)>>) BY <1>3 DEF write_wait
  <2>2. RunsIn(c, "write_up") /\ ArgOK("write_up", 0, Len(delivered'))
        /\ Below(c, "write_wait") \subseteq Below(c, "write_up")
    BY <1>3 DEF RunsIn, WriterFns, OutsideFns, ArgOK, Below
  <2>3. ShapeInv' /\ Goes(c, "write_wait", "write_up", 0)
    BY <1>0, <2>1, <2>2, CallEffect
  <2> QED BY <1>3, <2>3
<1>4. CASE c \in Writers /\ write_up(c)
  <2>1. At(c, "write_up") /\ Then(c, <<Frame("write_return", 0)>>) BY <1>4 DEF write_up
  <2>2. RunsIn(c, "write_return") /\ ArgOK("write_return", 0, Len(delivered'))
        /\ Below(c, "write_up") \subseteq Below(c, "write_return")
    BY <1>4 DEF RunsIn, WriterFns, OutsideFns, ArgOK, Below
  <2>3. ShapeInv' /\ Goes(c, "write_up", "write_return", 0)
    BY <1>0, <2>1, <2>2, CallEffect
  <2> QED BY <1>4, <2>3
<1>5. CASE c \in Writers /\ write_return(c)
  <2>1. At(c, "write_return") /\ Return(c) BY <1>5 DEF write_return
  <2> QED BY <1>0, <1>5, <2>1, Returns
<1>6. CASE interface_tx_done(c)
  <2>1. At(c, "interface_tx_done") /\ Return(c) BY <1>6 DEF interface_tx_done
  <2>2. argOf[c] = Arg(c) /\ argOf[c] \in Statuses
    BY <2>1, Current, Names DEF ArgOK
  <2> QED BY <1>6, <2>1, <2>2, Returns, Names
<1> QED BY <1>1, <1>2, <1>3, <1>4, <1>5, <1>6 DEF WriteStep

\* A context that was idle starts: a timer's, the work queue, those of the
\* radio, or a process.
LEMMA StartMoves ==
  ASSUME TypeInv, ShapeInv, UNCHANGED delivered, NEW c \in Contexts, NEW g \in Fns, NEW a \in Int,
         Enter(c, g, a),
         \/ c = "sack_timer" /\ g = "sack_timer_cb"
         \/ c = "csma_timer" /\ g = "csma_timer_cb"
         \/ c = "lpl_timer" /\ g = "lpl_timer_cb"
         \/ c = "wq" /\ g = "sack_tx" /\ a \in Packets \cup {Uninit}
         \/ c \in {"spi", "sfd"} /\ g = "sack_tx_done" /\ a \in {SUCCESS, FAILED}
         \/ c = "spi" /\ g = "sack_rx_done" /\ a \in 1..Len(Frames)
         \/ c \in Writers /\ g = "write_down" /\ a \in Packets
  PROVE  ShapeInv' /\ Goes(c, "none", g, a)
<1>1. RunsIn(c, g)
  BY DEF RunsIn, LayerFns, SpiFns, ReceptionFns, WriterFns, OutsideFns
<1>2. ArgOK(g, a, Len(delivered'))
  BY DEF ArgOK
<1>3. <<>> \in Below(c, g)
  BY Constants DEF Below, OutsideFns, Timers
<1> QED BY <1>1, <1>2, <1>3, Constant, EnterEffect

\* The steps of Stack that start a context.
LEMMA Starts ==
  ASSUME TypeInv, ShapeInv,
         Timeouts \/ WorkQueue \/ RadioDone \/ Arrival \/ \E w \in Writers : Write(w)
  PROVE  \E c \in Contexts, g \in Fns, a \in Int :
           /\ Goes(c, "none", g, a)
           /\ \/ Timeouts /\ g \in TimerFns
              \/ WorkQueue /\ c = "wq" /\ g = "sack_tx" /\ a = csma_tx_buf
              \/ RadioDone /\ g = "sack_tx_done" /\ radio_done(c, a)
              \/ Arrival /\ c = "spi" /\ g = "sack_rx_done" /\ a \in 1..Len(Frames) /\ radio_rx(a)
              \/ c \in Writers /\ Write(c) /\ g = "write_down" /\ a = nwrites + 1
<1>1. delivered' = delivered
  BY DEF Timeouts, WorkQueue, RadioDone, Arrival, Write, rxVars, uniqueVars
<1>2. {"sack_timer", "csma_timer", "lpl_timer", "wq", "spi", "sfd"} \subseteq Contexts
  BY Constants DEF Timers
<1>3. /\ {"sack_timer_cb", "csma_timer_cb", "lpl_timer_cb"} \subseteq Fns \cap TimerFns
      /\ {"sack_tx", "sack_tx_done", "sack_rx_done", "write_down"} \subseteq Fns
  BY DEF Fns, LayerFns, SpiFns, ReceptionFns, TimerFns, WriterFns, OutsideFns
<1>4. CASE Timeouts
  <2>1. \/ Enter("sack_timer", "sack_timer_cb", 0) \/ Enter("csma_timer", "csma_timer_cb", 0)
        \/ Enter("lpl_timer", "lpl_timer_cb", 0)
    BY <1>4 DEF Timeouts, sack_expire, csma_expire, lpl_expire, Expire
  <2>2. \/ Goes("sack_timer", "none", "sack_timer_cb", 0)
        \/ Goes("csma_timer", "none", "csma_timer_cb", 0)
        \/ Goes("lpl_timer", "none", "lpl_timer_cb", 0)
    BY <1>1, <1>2, <1>3, <2>1, StartMoves
  <2> QED BY <1>2, <1>3, <1>4, <2>2
<1>5. CASE WorkQueue
  <2>1. Enter("wq", "sack_tx", csma_tx_buf) BY <1>5 DEF WorkQueue, csma_wq
  <2>2. csma_tx_buf \in Packets \cup {Uninit} /\ csma_tx_buf \in Int
    BY Constants DEF TypeInv, CsmaTypeOK, Uninit
  <2>3. Goes("wq", "none", "sack_tx", csma_tx_buf)
    BY <1>1, <1>2, <1>3, <2>1, <2>2, StartMoves
  <2> QED BY <1>2, <1>3, <1>5, <2>2, <2>3
<1>6. CASE RadioDone
  <2>1. PICK c \in {"spi", "sfd"}, status \in {SUCCESS, FAILED} : radio_done(c, status)
    BY <1>6 DEF RadioDone
  <2>2. Enter(c, "sack_tx_done", status) BY <2>1 DEF radio_done
  <2>3. status \in Int BY Codes
  <2>4. Goes(c, "none", "sack_tx_done", status)
    BY <1>1, <1>2, <1>3, <2>2, <2>3, StartMoves
  <2> QED BY <1>2, <1>3, <1>6, <2>1, <2>3, <2>4
<1>7. CASE Arrival
  <2>1. PICK f \in 1..Len(Frames) : radio_rx(f) BY <1>7 DEF Arrival
  <2>2. Enter("spi", "sack_rx_done", f) /\ f \in Int BY <2>1, Constants DEF radio_rx
  <2>3. Goes("spi", "none", "sack_rx_done", f)
    BY <1>1, <1>2, <1>3, <2>2, StartMoves
  <2> QED BY <1>2, <1>3, <1>7, <2>1, <2>2, <2>3
<1>8. ASSUME NEW w \in Writers, Write(w)
      PROVE  Goes(w, "none", "write_down", nwrites + 1) /\ w \in Contexts /\ nwrites + 1 \in Int
  <2>1. Enter(w, "write_down", nwrites + 1) /\ nwrites + 1 \in Packets /\ nwrites + 1 \in Int
        /\ w \in Contexts
    BY <1>8, Constants DEF Write, interface_write
  <2> QED BY <1>1, <1>3, <1>8, <2>1, StartMoves
<1> QED BY <1>3, <1>4, <1>5, <1>6, <1>7, <1>8

-----------------------------------------------------------------------------
(* How the parts of the invariant change when one context moves.           *)

\* The functions that run in one place only.
LEMMA Home ==
  ASSUME ShapeInv, NEW c \in Contexts
  PROVE  /\ fnOf[c] \in Fns \cup {"none"}
         /\ fnOf[c] \in {"sack_rx_done", "sack_cancel", "unique_rx_done",
                         "interface_rx_done", "rx_copy"} => c = "spi"
         /\ fnOf[c] = "sack_tx_done" => c \in {"spi", "sfd"}
         /\ fnOf[c] = "sack_timer_cb" => c = "sack_timer"
         /\ fnOf[c] = "csma_timer_cb" => c = "csma_timer"
         /\ fnOf[c] = "lpl_timer_cb" => c = "lpl_timer"
         /\ fnOf[c] \in WriterFns => c \in Writers
<1>1. CASE Idle(c)
  BY <1>1, Running DEF WriterFns, OutsideFns
<1>2. CASE ~Idle(c)
  <2>1. stack[c] \in Seq(FrameRec) /\ stack[c] # <<>> /\ fnOf[c] = Head(stack[c]).fn
    BY <1>2, Running DEF ShapeInv
  <2>2. Head(stack[c]) \in FrameRec
    BY <2>1
  <2>3. fnOf[c] \in Fns
    BY <2>1, <2>2 DEF FrameRec
  <2>4. RunsIn(c, fnOf[c])
    BY <2>1 DEF ShapeInv, Shape
  <2> QED BY <2>3, <2>4
       DEF RunsIn, LayerFns, SpiFns, ReceptionFns, TimerFns, WriterFns, OutsideFns
<1> QED BY <1>1, <1>2

\* What is below a function, and with it where a context goes when it returns.
LEMMA EndsTo ==
  ASSUME NEW c \in Contexts, NEW f, NEW g \in Under(c, f)
  PROVE  /\ g \in {"none", "write_wait", "lpl_start_timer", "unique_rx_done"}
         /\ c \notin Writers /\ f # "radio_tx" => g = "none"
         /\ c \in Writers /\ Waits(f) /\ f # "write_wait" => Waits(g)
         /\ c \in Writers /\ f \in OutsideFns => g = "none"
BY Constants DEF Under, Waits, OutsideFns

\* One context moves, the others stay where they are.
LEMMA Moved ==
  ASSUME NEW c, NEW f, NEW g, NEW a, Goes(c, f, g, a)
  PROVE  /\ c \in Contexts /\ fnOf[c] = f /\ fnOf'[c] = g /\ argOf'[c] = a
         /\ \A d \in Contexts \ {c} : fnOf'[d] = fnOf[d] /\ argOf'[d] = argOf[d]
<1>1. /\ fnOf \in [Contexts -> { fnOf[d] : d \in Contexts }]
      /\ argOf \in [Contexts -> { argOf[d] : d \in Contexts }]
  BY DEF fnOf, argOf
<1> QED BY <1>1 DEF Goes

\* A move that does not enter what tx_sem protects keeps MutexInv.
LEMMA MutexQuiet ==
  ASSUME MutexInv, NEW c, NEW f, NEW g, NEW a, Goes(c, f, g, a),
         tx_sem' = tx_sem, c \in Writers /\ Inside(g) => Inside(f)
  PROVE  MutexInv'
BY Moved, Constants DEF MutexInv

\* A move above the radio keeps RadioInv.
LEMMA RadioQuiet ==
  ASSUME RadioInv, NEW c, NEW f, NEW g, NEW a, Goes(c, f, g, a),
         f \notin InRadio, g \notin InRadio, radio' = radio,
         sack_state' = sack_state \/ sack_state \notin {"TX", "TX_ACK"}
  PROVE  RadioInv'
BY Moved DEF RadioInv, InRadio

\* A move that neither cancels nor takes up the acknowledgement timer keeps TimerInv.
LEMMA TimerQuiet ==
  ASSUME TimerInv, NEW c, NEW f, NEW g, NEW a, Goes(c, f, g, a),
         f # "sack_cancel", g # "sack_timer_cb",
         "sack_timer" \in armed' <=> "sack_timer" \in armed,
         sack_state' = sack_state \/ sack_state # "TX_WAIT"
  PROVE  TimerInv'
BY Moved, Constants DEF TimerInv, Timers

\* What waits and what holds the packet, after the move.
LEMMA Sets ==
  ASSUME NEW c, NEW f, NEW g, NEW a, Goes(c, f, g, a),
         sack_state' = sack_state \/ \A d \in Contexts \ {c} : fnOf[d] # "sack_tx_done"
  PROVE  /\ waiting' = (waiting \ {c}) \cup (IF c \in Writers /\ Waits(g) THEN {c} ELSE {})
         /\ holders' = (holders \ {c}) \cup (IF Holding(g, a, sack_state') THEN {c} ELSE {})
         /\ c \in waiting <=> c \in Writers /\ Waits(f)
         /\ c \in holders <=> Holding(f, argOf[c], sack_state)
<1>1. \A d \in Contexts \ {c} : d \in holders' <=> d \in holders
  BY Moved DEF holders, Holding
<1>2. c \in holders' <=> Holding(g, a, sack_state')
  BY Moved DEF holders
<1>3. holders' \subseteq Contexts /\ holders \subseteq Contexts
  BY DEF holders
<1>4. holders' = (holders \ {c}) \cup (IF Holding(g, a, sack_state') THEN {c} ELSE {})
  BY <1>1, <1>2, <1>3, Moved
<1>5. waiting' = (waiting \ {c}) \cup (IF c \in Writers /\ Waits(g) THEN {c} ELSE {})
  <2>1. \A w \in Writers \ {c} : w \in waiting' <=> w \in waiting
    BY Moved, Constants DEF waiting
  <2>2. c \in waiting' <=> c \in Writers /\ Waits(g)
    BY Moved DEF waiting
  <2>3. waiting' \subseteq Writers /\ waiting \subseteq Writers
    BY DEF waiting
  <2> QED BY <2>1, <2>2, <2>3
<1> QED BY <1>4, <1>5, Moved DEF waiting, holders

\* The packet stays where it is.
LEMMA TokenQuiet ==
  ASSUME TokenInv, NEW c, NEW f, NEW g, NEW a, Goes(c, f, g, a),
         sack_state' = sack_state \/ \A d \in Contexts \ {c} : fnOf[d] # "sack_tx_done",
         Holding(f, argOf[c], sack_state) <=> Holding(g, a, sack_state'),
         c \in Writers => (Waits(f) <=> Waits(g)),
         Elsewhere' = Elsewhere
  PROVE  TokenInv'
<1>1. waiting' = waiting /\ holders' = holders
  BY Sets
<1> QED BY <1>1 DEF TokenInv

\* c gives the packet away to one of the places outside the calls.
LEMMA TokenDrop ==
  ASSUME TokenInv, NEW c, NEW f, NEW g, NEW a, Goes(c, f, g, a),
         sack_state' = sack_state \/ \A d \in Contexts \ {c} : fnOf[d] # "sack_tx_done",
         Holding(f, argOf[c], sack_state), ~Holding(g, a, sack_state'),
         c \in Writers => Waits(f) /\ Waits(g),
         Elsewhere = 0 => Elsewhere' = 1
  PROVE  TokenInv'
<1>1. waiting' = waiting /\ holders' = holders \ {c} /\ c \in holders
  BY Sets
<1>2. Elsewhere = 0 /\ holders = {c} /\ \E w \in Writers : waiting = {w}
  BY <1>1 DEF TokenInv
<1>3. holders' = {}
  BY <1>1, <1>2
<1> QED BY <1>1, <1>2, <1>3 DEF TokenInv

\* c takes it from there.
LEMMA TokenTake ==
  ASSUME TokenInv, NEW c, NEW f, NEW g, NEW a, Goes(c, f, g, a),
         sack_state' = sack_state \/ \A d \in Contexts \ {c} : fnOf[d] # "sack_tx_done",
         ~Holding(f, argOf[c], sack_state), Holding(g, a, sack_state'),
         c \in Writers => (Waits(f) <=> Waits(g)),
         Elsewhere # 0, Elsewhere = 1 => Elsewhere' = 0
  PROVE  TokenInv'
<1>1. waiting' = waiting /\ holders' = holders \cup {c}
  BY Sets
<1>2. Elsewhere = 1 /\ holders = {} /\ \E w \in Writers : waiting = {w}
  BY DEF TokenInv
<1>3. holders' = {c} /\ c \in Contexts
  BY <1>1, <1>2, Moved
<1> QED BY <1>1, <1>2, <1>3 DEF TokenInv

\* The types of what a layer does not touch.
LEMMA TypesKept ==
  ASSUME TypeInv
  PROVE  /\ UNCHANGED <<sackVars, radioIfc, acked>> => SackTypeOK'
         /\ UNCHANGED csmaVars => CsmaTypeOK'
         /\ UNCHANGED lplVars => LplTypeOK'
         /\ UNCHANGED uniqueVars => UniqueTypeOK'
         /\ UNCHANGED <<delivered, readVars, ifcVars>> => InterfaceTypeOK'
         /\ UNCHANGED bounds => ntoggles' \in 0..MaxToggles /\ narrivals' \in 0..MaxArrivals
<1> USE DEF TypeInv
<1>1. UNCHANGED <<sackVars, radioIfc, acked>> => SackTypeOK'
  BY DEF sackVars, radioIfc, SackTypeOK
<1>2. UNCHANGED csmaVars => CsmaTypeOK'
  BY DEF csmaVars, CsmaTypeOK
<1>3. UNCHANGED lplVars => LplTypeOK'
  BY DEF lplVars, LplTypeOK
<1>4. UNCHANGED uniqueVars => UniqueTypeOK'
  BY DEF uniqueVars, UniqueTypeOK
<1>5. UNCHANGED <<delivered, readVars, ifcVars>> => InterfaceTypeOK'
  BY DEF readVars, ifcVars, InterfaceTypeOK
<1>6. UNCHANGED bounds => ntoggles' \in 0..MaxToggles /\ narrivals' \in 0..MaxArrivals
  BY DEF bounds
<1> QED BY <1>1, <1>2, <1>3, <1>4, <1>5, <1>6

\* When the packet is in none of the places outside the calls.
LEMMA Places ==
  ASSUME TypeInv
  PROVE  /\ Elsewhere \in Nat
         /\ Elsewhere = 0 <=> /\ "csma_timer" \notin armed /\ ~work
                             /\ radio \in {NoPkt, AckPkt} /\ sack_state # "TX_WAIT"
                             /\ tx_done_sem = 0
BY DEF TypeInv, CsmaTypeOK, InterfaceTypeOK, Elsewhere, One

-----------------------------------------------------------------------------
(* The steps of sack.c keep the invariant.                                 *)

\* The variables of sack.c keep their types.
LEMMA SackTypes ==
  ASSUME StackInv, NEW c \in Contexts, SackStep(c),
         UNCHANGED <<csmaVars, lplVars, rxVars, ifcVars, bounds>>
  PROVE  TypeInv'
<1>1. CsmaTypeOK' /\ LplTypeOK' /\ UniqueTypeOK' /\ InterfaceTypeOK'
      /\ ntoggles' \in 0..MaxToggles /\ narrivals' \in 0..MaxArrivals
  BY TypesKept DEF StackInv, rxVars, uniqueVars
<1>2. armed \subseteq Timers /\ SackTypeOK /\ ShapeInv
  BY DEF StackInv, TypeInv
<1>3. armed' \subseteq Timers
  BY <1>2 DEF SackStep, radio_tx, sack_tx, sack_tx_done, sack_rx_ack, sack_cancel, sack_rx_data,
              sack_timer_cb, hrtimer_start, hrtimer_cancel, Timers
<1>4. SackTypeOK'
  <2>1. CASE radio_tx(c)
    <3>1. radio' \in Packets \cup {Uninit, AckPkt}
      BY <1>2, <2>1, Current, Names DEF radio_tx, ArgOK
    <3> QED BY <1>2, <2>1, <3>1 DEF radio_tx, sackVars, SackTypeOK
  <2>2. CASE sack_tx(c)
    <3>1. sack_tx_buf' \in Packets \cup {Uninit}
      BY <1>2, <2>2, Current, Names DEF sack_tx, ArgOK
    <3> QED BY <1>2, <2>2, <3>1 DEF sack_tx, radioIfc, SackTypeOK
  <2>3. CASE sack_tx_done(c)
    BY <1>2, <2>3 DEF sack_tx_done, radioIfc, SackTypeOK
  <2>4. CASE sack_rx_ack(c)
    BY <1>2, <2>4 DEF sack_rx_ack, radioIfc, SackTypeOK
  <2>5. CASE sack_cancel(c)
    BY <1>2, <2>5 DEF sack_cancel, sackVars, radioIfc, SackTypeOK
  <2>6. CASE sack_rx_data(c)
    BY <1>2, <2>6 DEF sack_rx_data, radioIfc, SackTypeOK
  <2>7. CASE sack_timer_cb(c)
    BY <1>2, <2>7 DEF sack_timer_cb, radioIfc, SackTypeOK
  <2> QED BY <2>1, <2>2, <2>3, <2>4, <2>5, <2>6, <2>7 DEF SackStep
<1> QED BY <1>1, <1>3, <1>4 DEF TypeInv

\* A step of sack.c keeps the invariant: it has one step per move.
LEMMA SackKeeps ==
  ASSUME StackInv, NEW c \in Contexts, SackStep(c),
         UNCHANGED <<csmaVars, lplVars, rxVars, ifcVars, bounds>>
  PROVE  StackInv'
<1>1. TypeInv /\ ShapeInv /\ MutexInv /\ TokenInv /\ RadioInv /\ TimerInv /\ TypeInv'
  BY SackTypes DEF StackInv
<1>2. delivered' = delivered /\ tx_sem' = tx_sem /\ tx_done_sem' = tx_done_sem /\ work' = work
      /\ tx_done_sem \in {0, 1}
  BY <1>1 DEF rxVars, uniqueVars, ifcVars, csmaVars, TypeInv, InterfaceTypeOK
<1>3. ShapeInv'
  BY <1>1, <1>2, SackMoves
<1>4. ASSUME NEW f, NEW g, NEW a, Goes(c, f, g, a), Inside(f)
      PROVE  MutexInv'
  BY <1>1, <1>2, <1>4, MutexQuiet
<1> USE DEF Holding, Carriers, Waits, OutsideFns, Inside, InRadio
<1>5. CASE radio_tx(c) /\ Ends(c, "radio_tx")
  <2>1. PICK g \in Under(c, "radio_tx"), a \in Int : Goes(c, "radio_tx", g, a)
    BY <1>5 DEF Ends
  <2>2. /\ g \in {"none", "write_wait", "lpl_start_timer", "unique_rx_done"}
        /\ c \in Writers => Waits(g)
    BY EndsTo
  <2>3. /\ radio = NoPkt /\ radio' = argOf[c] /\ armed' = armed /\ sack_state' = sack_state
        /\ argOf[c] \in Packets \cup {Uninit, AckPkt} /\ fnOf[c] = "radio_tx"
    <3>1. At(c, "radio_tx") BY <1>5 DEF radio_tx
    <3>2. fnOf[c] = "radio_tx" /\ Arg(c) = argOf[c] /\ ArgOK("radio_tx", argOf[c], Len(delivered))
      BY <1>1, <3>1, Current, Names
    <3> QED BY <1>5, <3>2 DEF radio_tx, sackVars, ArgOK
  <2>4. RadioInv'
    BY <1>1, <2>1, <2>2, <2>3, Moved DEF RadioInv
  <2>5. TimerInv'
    BY <1>1, <2>1, <2>2, <2>3, TimerQuiet
  <2>6. CASE argOf[c] = AckPkt
    <3>1. Elsewhere' = Elsewhere
      BY <1>2, <2>3, <2>6 DEF Elsewhere, One
    <3> QED BY <1>1, <1>3, <1>4, <2>1, <2>2, <2>3, <2>4, <2>5, <2>6, <3>1, TokenQuiet DEF StackInv
  <2>7. CASE argOf[c] # AckPkt
    <3>1. Elsewhere = 0 => Elsewhere' = 1
      BY <1>2, <2>3, <2>7, Constants DEF Elsewhere, One, Uninit, NoPkt, AckPkt
    <3> QED BY <1>1, <1>3, <1>4, <2>1, <2>2, <2>3, <2>4, <2>5, <2>7, <3>1, TokenDrop DEF StackInv
  <2> QED BY <2>6, <2>7
<1>6. CASE sack_tx(c) /\ Goes(c, "sack_tx", "radio_tx", argOf[c])
  <2>1. /\ sack_state = "IDLE" /\ sack_state' = "TX" /\ armed' = armed /\ radio' = radio
        /\ argOf[c] # AckPkt /\ fnOf[c] = "sack_tx"
    BY <1>1, <1>6, Current, Names, Constants DEF sack_tx, radioIfc, ArgOK, Uninit, AckPkt
  <2>2. radio = NoPkt /\ \A d \in Contexts : fnOf[d] \notin InRadio
    BY <1>1, <2>1 DEF RadioInv
  <2>3. RadioInv'
    BY <1>6, <2>1, <2>2, Moved DEF RadioInv
  <2>4. TimerInv'
    BY <1>1, <1>6, <2>1, TimerQuiet
  <2>5. Elsewhere' = Elsewhere
    BY <1>2, <2>1 DEF Elsewhere, One
  <2>6. TokenInv'
    BY <1>1, <1>6, <2>1, <2>2, <2>5, TokenQuiet
  <2> QED BY <1>1, <1>3, <1>4, <1>6, <2>3, <2>4, <2>6 DEF StackInv
<1>7. CASE /\ sack_tx_done(c)
           /\ \/ sack_state = "TX" /\ sack_state' = "TX_WAIT" /\ Ends(c, "sack_tx_done")
                 /\ armed' = armed \cup {"sack_timer"}
              \/ sack_state = "TX" /\ sack_state' = "IDLE" /\ armed' = armed
                 /\ Goes(c, "sack_tx_done", "csma_tx_done", argOf[c])
              \/ sack_state = "TX_ACK" /\ sack_state' = "IDLE" /\ armed' = armed
                 /\ Ends(c, "sack_tx_done")
  <2>1. radio' = radio /\ fnOf[c] = "sack_tx_done" /\ c \in {"spi", "sfd"} /\ c \notin Writers
    <3>1. At(c, "sack_tx_done") BY <1>7 DEF sack_tx_done
    <3>2. fnOf[c] = "sack_tx_done" BY <1>1, <3>1, Current, Names
    <3>3. c \in {"spi", "sfd"} BY <1>1, <3>2, Home
    <3> QED BY <1>7, <3>2, <3>3, Constants DEF sack_tx_done, radioIfc
  <2>2. radio = NoPkt /\ \A d \in Contexts \ {c} : fnOf[d] \notin InRadio
    BY <1>1, <2>1 DEF RadioInv
  <2>3. ASSUME Ends(c, "sack_tx_done") PROVE \E a \in Int : Goes(c, "sack_tx_done", "none", a)
    BY <2>1, <2>3, EndsTo DEF Ends
  <2>4. CASE sack_state = "TX" /\ sack_state' = "TX_WAIT" /\ Ends(c, "sack_tx_done")
             /\ armed' = armed \cup {"sack_timer"}
    <3>1. PICK a \in Int : Goes(c, "sack_tx_done", "none", a)
      BY <2>3, <2>4
    <3>2. RadioInv'
      BY <2>1, <2>2, <3>1, Moved DEF RadioInv
    <3>3. Elsewhere = 0 => Elsewhere' = 1
      BY <1>2, <2>1, <2>4 DEF Elsewhere, One
    <3>4. TokenInv'
      BY <1>1, <2>1, <2>2, <2>4, <3>1, <3>3, TokenDrop
    <3>5. "sack_timer" \notin armed /\ fnOf["sack_timer"] # "sack_timer_cb"
      <4>1. fnOf["spi"] # "sack_cancel"
        <5>1. c \in holders
          BY <2>1, <2>4 DEF holders
        <5>2. ASSUME fnOf["spi"] = "sack_cancel" PROVE "spi" \in holders /\ "spi" # c
          BY <2>1, <5>2, Constants DEF holders
        <5> QED BY <1>1, <5>1, <5>2 DEF TokenInv
      <4> QED BY <1>1, <2>4, <4>1 DEF TimerInv
    <3>6. TimerInv'
      BY <2>1, <2>4, <3>1, <3>5, Moved, Constants DEF TimerInv, Timers
    <3> QED BY <1>1, <1>3, <1>4, <3>1, <3>2, <3>4, <3>6 DEF StackInv
  <2>5. CASE sack_state = "TX" /\ sack_state' = "IDLE" /\ armed' = armed
             /\ Goes(c, "sack_tx_done", "csma_tx_done", argOf[c])
    <3>1. RadioInv'
      BY <2>1, <2>2, <2>5, Moved DEF RadioInv
    <3>2. Elsewhere' = Elsewhere
      BY <1>2, <2>1, <2>5 DEF Elsewhere, One
    <3>3. TokenInv'
      BY <1>1, <2>1, <2>2, <2>5, <3>2, TokenQuiet
    <3>4. TimerInv'
      BY <1>1, <2>5, TimerQuiet
    <3> QED BY <1>1, <1>3, <1>4, <2>5, <3>1, <3>3, <3>4 DEF StackInv
  <2>6. CASE sack_state = "TX_ACK" /\ sack_state' = "IDLE" /\ armed' = armed
             /\ Ends(c, "sack_tx_done")
    <3>1. PICK a \in Int : Goes(c, "sack_tx_done", "none", a)
      BY <2>3, <2>6
    <3>2. RadioInv'
      BY <2>1, <2>2, <3>1, Moved DEF RadioInv
    <3>3. Elsewhere' = Elsewhere
      BY <1>2, <2>1, <2>6 DEF Elsewhere, One
    <3>4. TokenInv'
      BY <1>1, <2>1, <2>2, <2>6, <3>1, <3>3, TokenQuiet
    <3>5. TimerInv'
      BY <1>1, <2>6, <3>1, TimerQuiet
    <3> QED BY <1>1, <1>3, <1>4, <3>1, <3>2, <3>4, <3>5 DEF StackInv
  <2> QED BY <1>7, <2>4, <2>5, <2>6
<1>8. CASE /\ sack_rx_ack(c)
           /\ \/ sack_state = "TX_WAIT" /\ sack_state' = "IDLE"
                 /\ Goes(c, "sack_rx_done", "sack_cancel", 0)
              \/ sack_state' = sack_state /\ Ends(c, "sack_rx_done")
  <2>1. radio' = radio /\ armed' = armed /\ fnOf[c] = "sack_rx_done" /\ c = "spi" /\ c \notin Writers
    <3>1. At(c, "sack_rx_done") BY <1>8 DEF sack_rx_ack
    <3>2. fnOf[c] = "sack_rx_done" BY <1>1, <3>1, Current, Names
    <3>3. c = "spi" BY <1>1, <3>2, Home
    <3> QED BY <1>8, <3>2, <3>3, Constants DEF sack_rx_ack, radioIfc
  <2>2. CASE sack_state = "TX_WAIT" /\ sack_state' = "IDLE"
             /\ Goes(c, "sack_rx_done", "sack_cancel", 0)
    <3>1. RadioInv'
      BY <1>1, <2>1, <2>2, RadioQuiet
    <3>2. \A d \in Contexts : fnOf[d] # "sack_tx_done"
      BY <1>1, <2>2 DEF RadioInv
    <3>3. Elsewhere # 0 /\ (Elsewhere = 1 => Elsewhere' = 0)
      BY <1>2, <2>1, <2>2 DEF Elsewhere, One
    <3>4. TokenInv'
      BY <1>1, <2>1, <2>2, <3>2, <3>3, TokenTake
    <3>5. TimerInv'
      BY <1>1, <2>1, <2>2, Moved, Constants DEF TimerInv, Timers
    <3> QED BY <1>1, <1>3, <1>4, <2>2, <3>1, <3>4, <3>5 DEF StackInv
  <2>3. CASE sack_state' = sack_state /\ Ends(c, "sack_rx_done")
    <3>1. PICK a \in Int : Goes(c, "sack_rx_done", "none", a)
      BY <2>1, <2>3, EndsTo DEF Ends
    <3>2. Elsewhere' = Elsewhere
      BY <1>2, <2>1, <2>3 DEF Elsewhere
    <3>3. TokenInv'
      BY <1>1, <2>1, <2>3, <3>1, <3>2, TokenQuiet
    <3>4. RadioInv'
      BY <1>1, <2>1, <2>3, <3>1, RadioQuiet
    <3>5. TimerInv'
      BY <1>1, <2>1, <2>3, <3>1, TimerQuiet
    <3> QED BY <1>1, <1>3, <1>4, <3>1, <3>3, <3>4, <3>5 DEF StackInv
  <2> QED BY <1>8, <2>2, <2>3
<1>9. CASE sack_cancel(c) /\ Goes(c, "sack_cancel", "csma_tx_done", SUCCESS)
  <2>1. /\ radio' = radio /\ sack_state' = sack_state /\ armed' = armed \ {"sack_timer"}
        /\ Idle("sack_timer") /\ fnOf[c] = "sack_cancel"
    BY <1>9, Moved DEF sack_cancel, hrtimer_cancel, sackVars, radioIfc
  <2>2. RadioInv'
    BY <1>1, <1>9, <2>1, RadioQuiet
  <2>3. Elsewhere' = Elsewhere
    BY <1>2, <2>1 DEF Elsewhere
  <2>4. TokenInv'
    BY <1>1, <1>9, <2>1, <2>3, TokenQuiet
  <2>5. TimerInv'
    <3>1. fnOf["sack_timer"] = "none" /\ c # "sack_timer"
      BY <2>1, Running, Constants DEF Timers
    <3>2. fnOf'["sack_timer"] = "none"
      BY <1>9, <3>1, Moved, Constants DEF Timers
    <3> QED BY <2>1, <3>2 DEF TimerInv
  <2> QED BY <1>1, <1>3, <1>4, <1>9, <2>2, <2>4, <2>5 DEF StackInv
<1>10. CASE /\ sack_rx_data(c)
            /\ \/ sack_state' = sack_state
                  /\ Goes(c, "sack_rx_done", "unique_rx_done", argOf[c])
               \/ sack_state = "IDLE" /\ sack_state' = "TX_ACK"
                  /\ Goes(c, "sack_rx_done", "radio_tx", AckPkt)
               \/ sack_state' = sack_state /\ Ends(c, "sack_rx_done")
  <2>1. radio' = radio /\ armed' = armed /\ fnOf[c] = "sack_rx_done" /\ c = "spi" /\ c \notin Writers
    <3>1. At(c, "sack_rx_done") BY <1>10 DEF sack_rx_data
    <3>2. fnOf[c] = "sack_rx_done" BY <1>1, <3>1, Current, Names
    <3>3. c = "spi" BY <1>1, <3>2, Home
    <3> QED BY <1>10, <3>2, <3>3, Constants DEF sack_rx_data, radioIfc
  <2>2. ASSUME NEW g \in {"unique_rx_done", "none"}, NEW a, Goes(c, "sack_rx_done", g, a),
               sack_state' = sack_state
        PROVE  StackInv'
    <3>1. RadioInv'
      BY <1>1, <2>1, <2>2, RadioQuiet
    <3>2. Elsewhere' = Elsewhere
      BY <1>2, <2>1, <2>2 DEF Elsewhere
    <3>3. TokenInv'
      BY <1>1, <2>1, <2>2, <3>2, TokenQuiet
    <3>4. TimerInv'
      BY <1>1, <2>1, <2>2, TimerQuiet
    <3> QED BY <1>1, <1>3, <1>4, <2>2, <3>1, <3>3, <3>4 DEF StackInv
  <2>3. CASE sack_state = "IDLE" /\ sack_state' = "TX_ACK"
             /\ Goes(c, "sack_rx_done", "radio_tx", AckPkt)
    <3>1. radio = NoPkt /\ \A d \in Contexts : fnOf[d] \notin InRadio
      BY <1>1, <2>3 DEF RadioInv
    <3>2. RadioInv'
      BY <2>1, <2>3, <3>1, Moved DEF RadioInv
    <3>3. Elsewhere' = Elsewhere
      BY <1>2, <2>1, <2>3 DEF Elsewhere, One
    <3>4. TokenInv'
      BY <1>1, <2>1, <2>3, <3>1, <3>3, TokenQuiet
    <3>5. TimerInv'
      BY <1>1, <2>1, <2>3, TimerQuiet
    <3> QED BY <1>1, <1>3, <1>4, <2>3, <3>2, <3>4, <3>5 DEF StackInv
  <2>4. CASE Ends(c, "sack_rx_done") /\ sack_state' = sack_state
    <3>1. PICK a \in Int : Goes(c, "sack_rx_done", "none", a)
      BY <2>1, <2>4, EndsTo DEF Ends
    <3> QED BY <2>2, <2>4, <3>1
  <2> QED BY <1>10, <2>2, <2>3, <2>4
<1>11. CASE /\ sack_timer_cb(c)
            /\ \/ sack_state = "TX_WAIT" /\ sack_state' = "IDLE"
                  /\ Goes(c, "sack_timer_cb", "csma_tx_done", ACK_TIMEOUT)
               \/ sack_state' = sack_state /\ Ends(c, "sack_timer_cb")
  <2>1. /\ radio' = radio /\ armed' = armed /\ fnOf[c] = "sack_timer_cb" /\ c = "sack_timer"
        /\ c \notin Writers
    <3>1. At(c, "sack_timer_cb") BY <1>11 DEF sack_timer_cb
    <3>2. fnOf[c] = "sack_timer_cb" BY <1>1, <3>1, Current, Names
    <3>3. c = "sack_timer" BY <1>1, <3>2, Home
    <3> QED BY <1>11, <3>2, <3>3, Constants DEF sack_timer_cb, radioIfc, Timers
  <2>2. CASE sack_state = "TX_WAIT" /\ sack_state' = "IDLE"
             /\ Goes(c, "sack_timer_cb", "csma_tx_done", ACK_TIMEOUT)
    <3>1. RadioInv'
      BY <1>1, <2>1, <2>2, RadioQuiet
    <3>2. \A d \in Contexts : fnOf[d] # "sack_tx_done"
      BY <1>1, <2>2 DEF RadioInv
    <3>3. Elsewhere # 0 /\ (Elsewhere = 1 => Elsewhere' = 0)
      BY <1>2, <2>1, <2>2 DEF Elsewhere, One
    <3>4. TokenInv'
      BY <1>1, <2>1, <2>2, <3>2, <3>3, TokenTake
    <3>5. TimerInv'
      BY <1>1, <2>1, <2>2, Moved DEF TimerInv
    <3> QED BY <1>1, <1>3, <1>4, <2>1, <2>2, <3>1, <3>4, <3>5 DEF StackInv
  <2>3. CASE sack_state' = sack_state /\ Ends(c, "sack_timer_cb")
    <3>1. PICK a \in Int : Goes(c, "sack_timer_cb", "none", a)
      BY <2>1, <2>3, EndsTo DEF Ends
    <3>2. Elsewhere' = Elsewhere
      BY <1>2, <2>1, <2>3 DEF Elsewhere
    <3>3. TokenInv'
      BY <1>1, <2>1, <2>3, <3>1, <3>2, TokenQuiet
    <3>4. RadioInv'
      BY <1>1, <2>1, <2>3, <3>1, RadioQuiet
    <3>5. TimerInv'
      BY <1>1, <2>1, <2>3, <3>1, TimerQuiet
    <3> QED BY <1>1, <1>3, <1>4, <2>1, <3>1, <3>3, <3>4, <3>5 DEF StackInv
  <2> QED BY <1>11, <2>2, <2>3
<1> QED BY <1>1, <1>2, <1>5, <1>6, <1>7, <1>8, <1>9, <1>10, <1>11, SackMoves

-----------------------------------------------------------------------------
(* The steps of the other layers keep it: the states of sack.c and of the  *)
(* radio stay as they are.                                                 *)

\* A move of another layer that takes the packet up, puts it away or leaves it alone
\* keeps the invariant.
LEMMA Aside ==
  ASSUME StackInv, TypeInv', ShapeInv', NEW c, NEW f, NEW g, NEW a, Goes(c, f, g, a),
         UNCHANGED <<sack_state, radio, tx_sem>>,
         "sack_timer" \in armed' <=> "sack_timer" \in armed,
         f \notin InRadio, g \notin InRadio, f # "sack_cancel", g # "sack_timer_cb",
         c \in Writers => (Waits(f) <=> Waits(g)) /\ (Inside(g) => Inside(f)),
         \/ (f \in Carriers <=> g \in Carriers) /\ Elsewhere' = Elsewhere
         \/ f \in Carriers /\ g \notin Carriers /\ (Elsewhere = 0 => Elsewhere' = 1)
         \/ /\ f \notin Carriers /\ g \in Carriers
            /\ Elsewhere # 0 /\ (Elsewhere = 1 => Elsewhere' = 0)
  PROVE  StackInv'
<1>1. MutexInv /\ TokenInv /\ RadioInv /\ TimerInv
  BY DEF StackInv
<1>2. MutexInv'
  BY <1>1, MutexQuiet
<1>3. RadioInv'
  BY <1>1, RadioQuiet
<1>4. TimerInv'
  BY <1>1, TimerQuiet
<1>5. \A b, s : /\ Holding(f, b, s) <=> f \in Carriers
                /\ Holding(g, b, s) <=> g \in Carriers
  BY DEF Holding, InRadio
<1>6. TokenInv'
  <2>1. CASE (f \in Carriers <=> g \in Carriers) /\ Elsewhere' = Elsewhere
    BY <1>1, <1>5, <2>1, TokenQuiet
  <2>2. CASE f \in Carriers /\ g \notin Carriers /\ (Elsewhere = 0 => Elsewhere' = 1)
    <3>1. Waits(f)
      BY <2>2 DEF Carriers, Waits, OutsideFns
    <3> QED BY <1>1, <1>5, <2>2, <3>1, TokenDrop
  <2>3. CASE /\ f \notin Carriers /\ g \in Carriers
             /\ Elsewhere # 0 /\ (Elsewhere = 1 => Elsewhere' = 0)
    BY <1>1, <1>5, <2>3, TokenTake
  <2> QED BY <2>1, <2>2, <2>3
<1> QED BY <1>2, <1>3, <1>4, <1>6 DEF StackInv

\* Where nothing moves, nothing that concerns the packet may change.
LEMMA Still ==
  ASSUME StackInv, TypeInv', UNCHANGED <<stack, armed, sack_state, radio, tx_sem, Elsewhere>>,
         UNCHANGED delivered
  PROVE  StackInv'
<1>1. ShapeInv' /\ fnOf' = fnOf /\ argOf' = argOf
  BY NoEffect, Constant DEF StackInv
<1>2. holders' = holders /\ waiting' = waiting
  BY <1>1 DEF holders, waiting
<1>3. MutexInv'
  BY <1>1 DEF StackInv, MutexInv
<1>4. TokenInv'
  BY <1>2 DEF StackInv, TokenInv
<1>5. RadioInv'
  BY <1>1 DEF StackInv, RadioInv
<1>6. TimerInv'
  BY <1>1 DEF StackInv, TimerInv
<1> QED BY <1>1, <1>3, <1>4, <1>5, <1>6 DEF StackInv

\* A step of csma.c keeps the invariant.
LEMMA CsmaKeeps ==
  ASSUME StackInv, NEW c \in Contexts, CsmaStep(c),
         UNCHANGED <<sackVars, radioIfc, acked, lplVars, rxVars, ifcVars, bounds>>
  PROVE  StackInv'
<1>1. TypeInv /\ ShapeInv
  BY DEF StackInv
<1>2. /\ UNCHANGED <<delivered, sack_state, radio, tx_sem, tx_done_sem>>
      /\ tx_done_sem \in {0, 1} /\ armed \subseteq Timers /\ CsmaTypeOK
  BY <1>1 DEF sackVars, radioIfc, rxVars, uniqueVars, ifcVars, TypeInv, InterfaceTypeOK
<1>3. ShapeInv'
  BY <1>1, <1>2, CsmaMoves
<1>4. TypeInv'
  <2>1. armed' \subseteq Timers
    BY <1>2 DEF CsmaStep, csma_tx, csma_timer_clear, csma_timer_busy, csma_tx_done, hrtimer_start, Timers
  <2>2. CsmaTypeOK'
    <3>1. CASE csma_tx(c)
      <4>1. Arg(c) \in Packets \cup {Uninit}
        BY <1>1, <3>1, Current, Names DEF csma_tx, ArgOK
      <4> QED BY <1>2, <3>1, <4>1 DEF csma_tx, csmaVars, CsmaTypeOK
    <3>2. CASE csma_timer_clear(c) \/ csma_timer_busy(c) \/ csma_tx_done(c)
      BY <1>2, <3>2 DEF csma_timer_clear, csma_timer_busy, csma_tx_done, CsmaTypeOK
    <3> QED BY <3>1, <3>2 DEF CsmaStep
  <2> QED BY <1>1, <1>2, <2>1, <2>2, TypesKept DEF TypeInv, rxVars
<1> USE DEF Carriers, Waits, OutsideFns, Inside, InRadio
<1>5. ASSUME NEW f, NEW g, NEW a, Goes(c, f, g, a), f \in Carriers, g \in Carriers,
             f # "sack_cancel", armed' = armed, work' = work
      PROVE  StackInv'
  <2>1. Elsewhere' = Elsewhere
    BY <1>2, <1>5 DEF Elsewhere
  <2> QED BY <1>2, <1>3, <1>4, <1>5, <2>1, Aside
<1>6. ASSUME NEW f, Ends(c, f), f \in {"csma_tx", "csma_timer_cb"},
             \/ armed' = armed \cup {"csma_timer"} /\ work' = work
             \/ armed' = armed /\ work' = TRUE
      PROVE  StackInv'
  <2>1. PICK g \in Under(c, f), a \in Int : Goes(c, f, g, a)
    BY <1>6 DEF Ends
  <2>2. g \in {"none", "write_wait", "lpl_start_timer", "unique_rx_done"} /\ (c \in Writers => Waits(g))
    BY <1>6, EndsTo
  <2>3. Elsewhere = 0 => Elsewhere' = 1
    BY <1>2, <1>6 DEF Elsewhere, One
  <2>4. "sack_timer" \in armed' <=> "sack_timer" \in armed
    BY <1>6
  <2> QED BY <1>2, <1>3, <1>4, <1>6, <2>1, <2>2, <2>3, <2>4, Aside
<1>7. CASE /\ csma_tx(c)
           /\ \/ /\ ~csma_enabled /\ UNCHANGED <<armed, csmaVars>>
                 /\ Goes(c, "csma_tx", "sack_tx", argOf[c])
              \/ /\ csma_enabled /\ csma_state = "IDLE"
                 /\ armed' = armed \cup {"csma_timer"}
                 /\ Ends(c, "csma_tx")
              \/ /\ csma_enabled /\ UNCHANGED <<armed, csmaVars>>
                 /\ Goes(c, "csma_tx", "lpl_tx_done", BUSY)
  <2>1. CASE UNCHANGED <<armed, csmaVars>> /\ Goes(c, "csma_tx", "sack_tx", argOf[c])
    BY <1>5, <2>1 DEF csmaVars
  <2>2. CASE UNCHANGED <<armed, csmaVars>> /\ Goes(c, "csma_tx", "lpl_tx_done", BUSY)
    BY <1>5, <2>2 DEF csmaVars
  <2>3. CASE armed' = armed \cup {"csma_timer"} /\ Ends(c, "csma_tx")
    <3>1. work' = work
      <4>1. \/ Then(c, <<Frame("sack_tx", Arg(c))>>) /\ work' = work
            \/ work' = work
            \/ Then(c, <<Frame("lpl_tx_done", BUSY)>>) /\ work' = work
        BY <1>7 DEF csma_tx, csmaVars
      <4> QED BY <4>1
    <3> QED BY <1>6, <2>3, <3>1
  <2> QED BY <1>7, <2>1, <2>2, <2>3
<1>8. CASE csma_timer_clear(c) /\ Ends(c, "csma_timer_cb")
  <2>1. armed' = armed /\ work' = TRUE BY <1>8 DEF csma_timer_clear
  <2> QED BY <1>6, <1>8, <2>1
<1>9. CASE /\ csma_timer_busy(c)
           /\ \/ /\ armed' = armed \cup {"csma_timer"}
                 /\ Ends(c, "csma_timer_cb")
              \/ /\ armed' = armed
                 /\ Goes(c, "csma_timer_cb", "lpl_tx_done", BUSY)
  <2>1. work' = work BY <1>9 DEF csma_timer_busy
  <2> QED BY <1>5, <1>6, <1>9, <2>1
<1>10. CASE csma_tx_done(c) /\ Goes(c, "csma_tx_done", "lpl_tx_done", argOf[c])
  <2>1. armed' = armed /\ work' = work BY <1>10 DEF csma_tx_done
  <2> QED BY <1>5, <1>10, <2>1
<1> QED BY <1>1, <1>2, <1>7, <1>8, <1>9, <1>10, CsmaMoves

\* A step of lpl.c keeps the invariant.
LEMMA LplKeeps ==
  ASSUME StackInv, NEW c \in Contexts, LplStep(c),
         UNCHANGED <<belowLpl, rxVars, ifcVars, bounds>>
  PROVE  StackInv'
<1>1. TypeInv /\ ShapeInv
  BY DEF StackInv
<1>2. /\ UNCHANGED <<delivered, sack_state, radio, tx_sem, tx_done_sem, work>>
      /\ armed \subseteq Timers /\ LplTypeOK
  BY <1>1 DEF belowLpl, sackVars, radioIfc, csmaVars, rxVars, uniqueVars, ifcVars, TypeInv
<1>3. ShapeInv'
  BY <1>1, <1>2, LplMoves
<1>4. TypeInv'
  <2>1. armed' \subseteq Timers
    BY <1>2 DEF LplStep, lpl_tx, lpl_start_timer, lpl_tx_acked, lpl_cancel, lpl_tx_again,
                lpl_tx_through, lpl_timer_cb, hrtimer_start, hrtimer_cancel, Timers
  <2>2. LplTypeOK'
    <3>1. CASE lpl_tx(c)
      <4>1. Arg(c) \in Packets
        BY <1>1, <3>1, Current, Names DEF lpl_tx, ArgOK
      <4> QED BY <1>2, <3>1, <4>1 DEF lpl_tx, LplTypeOK
    <3>2. CASE lpl_start_timer(c) \/ lpl_cancel(c) \/ lpl_tx_through(c)
      BY <1>2, <3>2 DEF lpl_start_timer, lpl_cancel, lpl_tx_through, lplVars, LplTypeOK
    <3>3. CASE lpl_tx_acked(c) \/ lpl_tx_again(c) \/ lpl_timer_cb(c)
      BY <1>2, <3>3 DEF lpl_tx_acked, lpl_tx_again, lpl_timer_cb, LplTypeOK
    <3> QED BY <3>1, <3>2, <3>3 DEF LplStep
  <2> QED BY <1>1, <1>2, <2>1, <2>2, TypesKept DEF TypeInv, rxVars, belowLpl
<1>5. \A t \in {"sack_timer", "csma_timer"} : t \in armed' <=> t \in armed
  BY DEF LplStep, lpl_tx, lpl_start_timer, lpl_tx_acked, lpl_cancel, lpl_tx_again,
         lpl_tx_through, lpl_timer_cb, hrtimer_start, hrtimer_cancel
<1>6. Elsewhere' = Elsewhere
  BY <1>2, <1>5 DEF Elsewhere
<1> USE DEF Carriers, Waits, OutsideFns, Inside, InRadio
<1>7. ASSUME NEW f, NEW g, NEW a, Goes(c, f, g, a), f \in Carriers, g \in Carriers, f # "sack_cancel"
      PROVE  StackInv'
  BY <1>2, <1>3, <1>4, <1>5, <1>6, <1>7, Aside
<1>8. ASSUME c \in Writers, Ends(c, "lpl_start_timer") PROVE StackInv'
  <2>1. PICK g \in Under(c, "lpl_start_timer"), a \in Int : Goes(c, "lpl_start_timer", g, a)
    BY <1>8 DEF Ends
  <2>2. g \in {"none", "write_wait", "lpl_start_timer", "unique_rx_done"} /\ Waits(g)
    BY <1>8, EndsTo
  <2> QED BY <1>2, <1>3, <1>4, <1>5, <1>6, <2>1, <2>2, Aside
<1>9. ASSUME c = "lpl_timer", Ends(c, "lpl_timer_cb") PROVE StackInv'
  <2>1. c \notin Writers BY <1>9, Constants DEF Timers
  <2>2. PICK a \in Int : Goes(c, "lpl_timer_cb", "none", a)
    BY <1>9, <2>1, EndsTo DEF Ends
  <2> QED BY <1>2, <1>3, <1>4, <1>5, <1>6, <2>1, <2>2, Aside
<1>10. ASSUME NEW s, Goes(c, "lpl_tx_done", "interface_tx_done", s) PROVE StackInv'
  BY <1>7, <1>10
<1>11. ASSUME NEW g \in {"csma_tx", "lpl_cancel"}, NEW a, Goes(c, "lpl_tx_done", g, a) PROVE StackInv'
  BY <1>7, <1>11
<1>12. ASSUME Goes(c, "lpl_cancel", "interface_tx_done", SUCCESS) PROVE StackInv'
  BY <1>7, <1>12
<1>13. ASSUME NEW g \in {"csma_tx", "interface_tx_done"}, NEW a, Goes(c, "lpl_tx", g, a) PROVE StackInv'
  BY <1>7, <1>13
<1> QED BY <1>1, <1>2, <1>8, <1>9, <1>10, <1>11, <1>12, <1>13, LplMoves

\* What a read() may have been given of n deliveries.
Reads(n) == [woken : 0..n, size : 0..n, buf : [Parts -> 0..n \cup {Unread}], len : 0..n]

\* A frame on its way up: the transmit path is not concerned.
LEMMA UniqueKeeps ==
  ASSUME StackInv, NEW c \in Contexts, unique_rx_done(c),
         UNCHANGED <<belowIfc, readVars, ifcVars, bounds>>
  PROVE  StackInv'
<1>1. TypeInv /\ ShapeInv
  BY DEF StackInv
<1>2. UNCHANGED <<sackVars, radioIfc, acked, csmaVars, lplVars, ifcVars, bounds>>
  BY DEF belowIfc, belowLpl
<1>3. UNCHANGED <<sack_state, radio, tx_sem, tx_done_sem, work>> /\ armed' = armed
  BY <1>2 DEF sackVars, radioIfc, csmaVars, ifcVars, unique_rx_done
<1>4. Elsewhere' = Elsewhere
  BY <1>3 DEF Elsewhere
<1>5. /\ ShapeInv' /\ Grows /\ c = "spi" /\ argOf[c] = Arg(c) /\ argOf[c] \in 1..Len(Frames)
      /\ \/ delivered' = delivered /\ Ends(c, "unique_rx_done")
         \/ /\ \E kept \in BOOLEAN :
                 delivered' = Append(delivered, [frame |-> argOf[c], kept |-> kept])
            /\ Len(delivered') = Len(delivered) + 1
            /\ Goes(c, "unique_rx_done", "interface_rx_done", Len(delivered'))
  BY <1>1, UniqueMoves
<1>6. TypeInv'
  <2>1. UniqueTypeOK'
    <3>1. UniqueTypeOK BY <1>1 DEF TypeInv
    <3>2. passed' \in Seq([frame : 1..Len(Frames), up : Nat])
      <4> DEFINE S == [frame : 1..Len(Frames), up : Nat]
      <4>1. PICK up \in Nat : passed' = Append(passed, [frame |-> argOf[c], up |-> up])
        <5>1. 0 \in Nat /\ Len(delivered) + 1 \in Nat BY <1>5 DEF Grows
        <5>2. \E up \in {0, Len(delivered) + 1} :
                passed' = Append(passed, [frame |-> argOf[c], up |-> up])
          BY <1>5 DEF unique_rx_done, Drop, HandUp
        <5> QED BY <5>1, <5>2
      <4>2. [frame |-> argOf[c], up |-> up] \in S BY <1>5
      <4>3. passed \in Seq(S) BY <3>1 DEF UniqueTypeOK
      <4> HIDE DEF S
      <4>4. passed' \in Seq(S) BY <4>1, <4>2, <4>3
      <4> QED BY <4>4 DEF S
    <3>3. delivered' \in Seq([frame : 1..Len(Frames), kept : BOOLEAN])
      <4>1. CASE delivered' = delivered
        BY <3>1, <4>1 DEF UniqueTypeOK
      <4>2. ASSUME NEW kept \in BOOLEAN,
                   delivered' = Append(delivered, [frame |-> argOf[c], kept |-> kept])
            PROVE  delivered' \in Seq([frame : 1..Len(Frames), kept : BOOLEAN])
        <5> DEFINE S == [frame : 1..Len(Frames), kept : BOOLEAN]
                   e == [frame |-> argOf[c], kept |-> kept]
        <5>1. e \in S BY <1>5
        <5>2. delivered \in Seq(S) BY <3>1 DEF UniqueTypeOK
        <5>3. delivered' = Append(delivered, e) BY <4>2
        <5> HIDE DEF S, e
        <5>4. delivered' \in Seq(S) BY <5>1, <5>2, <5>3
        <5> QED BY <5>4 DEF S
      <4> QED BY <1>5, <4>1, <4>2
    <3>4. nodes' \in [Srcs -> Nat \cup {Unknown}]
      <4>1. RxBuf[Arg(c)].dsn \in Nat
        <5>1. Frames[Arg(c)] \in MacFrame
          BY <1>5, PacketsAssumption
        <5>2. RxBuf[Arg(c)] = Encode(Frames[Arg(c)])
          BY <1>5 DEF RxBuf
        <5>3. Encode(Frames[Arg(c)]).dsn = Frames[Arg(c)].dsn
          BY DEF Encode
        <5>4. Frames[Arg(c)].dsn \in 0..255
          BY <5>1 DEF MacFrame
        <5> QED BY <5>2, <5>3, <5>4
      <4>2. nodes' = nodes \/ nodes' = [nodes EXCEPT ![SrcOf[Arg(c)]] = RxBuf[Arg(c)].dsn]
        BY DEF unique_rx_done, Drop
      <4> QED BY <3>1, <4>1, <4>2 DEF UniqueTypeOK
    <3> QED BY <3>2, <3>3, <3>4 DEF UniqueTypeOK
  <2>2. InterfaceTypeOK'
    <3>1. InterfaceTypeOK BY <1>1 DEF TypeInv
    <3>2. \A n \in 0..Len(delivered) : n \in 0..Len(delivered')
      BY <1>5 DEF Grows
    <3>3. UNCHANGED <<rx_buf_c, rx_pkt_len, reader, got>>
      BY DEF readVars
    <3>4. rx_buf_c' \in [Parts -> 0..Len(delivered')] /\ rx_pkt_len' \in 0..Len(delivered')
      BY <3>1, <3>2, <3>3 DEF InterfaceTypeOK
    <3>5. Reads(Len(delivered)) \subseteq Reads(Len(delivered'))
      <4>1. [Parts -> 0..Len(delivered) \cup {Unread}] \subseteq [Parts -> 0..Len(delivered') \cup {Unread}]
        BY <3>2
      <4> QED BY <3>2, <4>1 DEF Reads
    <3>6. got' \in [Readers -> Reads(Len(delivered'))]
      BY <3>1, <3>3, <3>5 DEF InterfaceTypeOK, Reads
    <3> QED BY <1>2, <3>1, <3>3, <3>4, <3>6 DEF InterfaceTypeOK, ifcVars, Reads
  <2> QED BY <1>1, <1>2, <1>3, <2>1, <2>2, TypesKept DEF TypeInv
<1> USE DEF Carriers, Waits, OutsideFns, Inside, InRadio
<1>7. c \notin Writers BY <1>5, Constants
<1>8. CASE Ends(c, "unique_rx_done")
  <2>1. PICK a \in Int : Goes(c, "unique_rx_done", "none", a)
    BY <1>7, <1>8, EndsTo DEF Ends
  <2> QED BY <1>3, <1>4, <1>5, <1>6, <1>7, <2>1, Aside
<1>9. CASE Goes(c, "unique_rx_done", "interface_rx_done", Len(delivered'))
  BY <1>3, <1>4, <1>5, <1>6, <1>7, <1>9, Aside
<1> QED BY <1>5, <1>8, <1>9

\* A step of the receive path of interface.c keeps the invariant.
LEMMA RxKeeps ==
  ASSUME StackInv, NEW c \in Contexts, RxStep(c), UNCHANGED <<belowIfc, uniqueVars, ifcVars, bounds>>
  PROVE  StackInv'
<1>1. TypeInv /\ ShapeInv
  BY DEF StackInv
<1>2. UNCHANGED <<sackVars, radioIfc, acked, csmaVars, lplVars, ifcVars, bounds>> /\ delivered' = delivered
  BY DEF belowIfc, belowLpl, uniqueVars
<1>3. UNCHANGED <<sack_state, radio, tx_sem, tx_done_sem, work>> /\ armed' = armed
  BY <1>2 DEF sackVars, radioIfc, csmaVars, ifcVars, RxStep, interface_rx_done, rx_copy, rx_wake, callVars
<1>4. Elsewhere' = Elsewhere
  BY <1>3 DEF Elsewhere
<1>5. /\ ShapeInv' /\ c = "spi" /\ argOf[c] = Arg(c) /\ argOf[c] \in 1..Len(delivered)
      /\ \/ interface_rx_done(c) /\ Goes(c, "interface_rx_done", "rx_copy", argOf[c])
         \/ rx_copy(c) /\ UNCHANGED stack /\ fnOf[c] = "rx_copy"
         \/ rx_wake(c) /\ Ends(c, "rx_copy")
  BY <1>1, <1>2, RxMoves
<1>6. TypeInv'
  <2>1. InterfaceTypeOK'
    <3>1. InterfaceTypeOK /\ Arg(c) \in 0..Len(delivered)
      BY <1>1, <1>5 DEF TypeInv
    <3>2. rx_buf_c' \in [Parts -> 0..Len(delivered)] /\ rx_pkt_len' \in 0..Len(delivered)
      BY <3>1 DEF RxStep, interface_rx_done, rx_copy, rx_wake, InterfaceTypeOK
    <3>3. reader' \in [Readers -> {"idle", "asleep", "awake", "copying"}]
      BY <3>1 DEF RxStep, interface_rx_done, rx_copy, rx_wake, wake_up, InterfaceTypeOK
    <3>4. got' \in [Readers -> Reads(Len(delivered))]
      <4>1. got \in [Readers -> Reads(Len(delivered))]
        BY <3>1 DEF InterfaceTypeOK, Reads
      <4>2. CASE wake_up(Arg(c))
        <5>1. \A x \in Reads(Len(delivered)) : [x EXCEPT !.woken = Arg(c)] \in Reads(Len(delivered))
          BY <3>1 DEF Reads
        <5>2. PICK R : R = Reads(Len(delivered))
          OBVIOUS
        <5> QED BY <4>1, <4>2, <5>1, <5>2 DEF wake_up
      <4> QED BY <4>1, <4>2 DEF RxStep, interface_rx_done, rx_copy, rx_wake
    <3> QED BY <1>2, <3>1, <3>2, <3>3, <3>4 DEF InterfaceTypeOK, ifcVars, Reads
  <2> QED BY <1>1, <1>2, <1>3, <2>1, TypesKept DEF TypeInv
<1> USE DEF Carriers, Waits, OutsideFns, Inside, InRadio
<1>7. c \notin Writers BY <1>5, Constants
<1>8. CASE Ends(c, "rx_copy")
  <2>1. PICK a \in Int : Goes(c, "rx_copy", "none", a)
    BY <1>7, <1>8, EndsTo DEF Ends
  <2> QED BY <1>3, <1>4, <1>5, <1>6, <1>7, <2>1, Aside
<1>9. CASE Goes(c, "interface_rx_done", "rx_copy", argOf[c])
  BY <1>3, <1>4, <1>5, <1>6, <1>7, <1>9, Aside
<1>10. CASE UNCHANGED stack
  BY <1>2, <1>3, <1>4, <1>6, <1>10, Still
<1> QED BY <1>5, <1>8, <1>9, <1>10

-----------------------------------------------------------------------------
(* write(), and tx_done, which ends its wait.                              *)

\* The types, given those of the semaphores.
LEMMA WriteTypes ==
  ASSUME TypeInv, ShapeInv, NEW c \in Contexts, WriteStep(c), UNCHANGED <<belowIfc, rxVars, bounds>>,
         tx_sem' \in {0, 1}, tx_done_sem' \in {0, 1}
  PROVE  TypeInv'
<1>1. UNCHANGED <<sackVars, radioIfc, acked, csmaVars, lplVars, uniqueVars, readVars, bounds>>
      /\ delivered' = delivered
  BY DEF belowIfc, belowLpl, rxVars, uniqueVars
<1>2. armed' = armed /\ nwrites' = nwrites
  BY DEF WriteStep, write_down, write_refused, write_wait, write_up, write_return, interface_tx_done
<1>3. InterfaceTypeOK /\ tx_result \in Statuses
  BY DEF TypeInv, InterfaceTypeOK
<1>4. tx_result' \in Statuses
  <2>1. CASE interface_tx_done(c)
    <3>1. At(c, "interface_tx_done") /\ tx_result' = Arg(c) BY <2>1 DEF interface_tx_done
    <3> QED BY <3>1, Current, Names DEF ArgOK
  <2>2. CASE ~interface_tx_done(c)
    BY <1>3, <2>2 DEF WriteStep, write_down, write_refused, write_wait, write_up, write_return
  <2> QED BY <2>1, <2>2
<1>5. writing' \in [Writers -> Packets \cup {NoPkt}]
  BY <1>3 DEF InterfaceTypeOK, WriteStep, write_down, write_refused, write_wait, write_up,
              write_return, interface_tx_done
<1>6. ret' \in [Writers -> Statuses \cup {PktLen, EAGAIN, EFAULT, ERESTARTSYS}]
  <2>1. ret' = ret \/ \E v \in Statuses \cup {PktLen, EAGAIN, EFAULT, ERESTARTSYS} :
                        ret' = [ret EXCEPT ![c] = v]
    BY <1>3 DEF WriteStep, write_down, write_refused, write_wait, write_up,
              write_return, interface_tx_done
  <2> QED BY <1>3, <2>1 DEF InterfaceTypeOK
<1>7. InterfaceTypeOK'
  BY <1>1, <1>2, <1>3, <1>4, <1>5, <1>6 DEF InterfaceTypeOK, readVars
<1> QED BY <1>1, <1>2, <1>7, TypesKept DEF TypeInv

\* A step of write() keeps the invariant.
LEMMA WriteKeeps ==
  ASSUME StackInv, NEW c \in Contexts, WriteStep(c), UNCHANGED <<belowIfc, rxVars, bounds>>
  PROVE  StackInv'
<1>1. TypeInv /\ ShapeInv /\ MutexInv /\ TokenInv /\ RadioInv /\ TimerInv
  BY DEF StackInv
<1>2. /\ UNCHANGED <<delivered, sack_state, radio, work>>
      /\ tx_sem \in {0, 1} /\ tx_done_sem \in {0, 1}
  BY <1>1 DEF belowIfc, belowLpl, sackVars, radioIfc, csmaVars, rxVars, uniqueVars, TypeInv,
              InterfaceTypeOK
<1>3. ShapeInv' /\ armed' = armed
  BY <1>1, <1>2, WriteMoves
     DEF WriteStep, write_down, write_refused, write_wait, write_up, write_return, interface_tx_done
<1>4. ASSUME tx_sem' \in {0, 1}, tx_done_sem' \in {0, 1} PROVE TypeInv'
  BY <1>1, <1>4, WriteTypes
<1>5. UNCHANGED tx_done_sem => Elsewhere' = Elsewhere
  BY <1>2, <1>3 DEF Elsewhere
<1> USE DEF Carriers, Waits, OutsideFns, Inside, InRadio
<1>6. CASE c \in Writers /\ write_down(c) /\ Goes(c, "write_down", "lpl_tx", argOf[c])
  <2>1. tx_sem = 1 /\ tx_sem' = 0 /\ tx_done_sem' = tx_done_sem
    BY <1>6 DEF write_down
  <2>2. \A w \in Writers : ~Inside(fnOf[w])
    BY <1>1, <2>1 DEF MutexInv
  <2>3. waiting = {}
    BY <2>2 DEF waiting
  <2>4. holders = {} /\ Elsewhere = 0
    BY <1>1, <2>3 DEF TokenInv
  <2>5. waiting' = {c} /\ holders' = {c} /\ Elsewhere' = 0
    <3>1. Waits("lpl_tx") /\ Holding("lpl_tx", argOf[c], sack_state')
      BY DEF Holding
    <3> QED BY <1>2, <1>5, <1>6, <2>1, <2>3, <2>4, <3>1, Sets
  <2>6. TokenInv'
    BY <1>6, <2>5 DEF TokenInv
  <2>7. MutexInv'
    BY <1>6, <2>1, <2>2, Moved, Constants DEF MutexInv
  <2>8. RadioInv'
    BY <1>1, <1>2, <1>6, RadioQuiet
  <2>9. TimerInv'
    BY <1>1, <1>2, <1>3, <1>6, TimerQuiet
  <2> QED BY <1>2, <1>3, <1>4, <2>1, <2>6, <2>7, <2>8, <2>9 DEF StackInv
<1>7. CASE c \in Writers /\ write_refused(c) /\ Ends(c, "write_down")
  <2>1. PICK a \in Int : Goes(c, "write_down", "none", a)
    BY <1>7, EndsTo DEF Ends
  <2>2. tx_sem' = tx_sem /\ tx_done_sem' = tx_done_sem
    BY <1>7 DEF write_refused
  <2> QED BY <1>2, <1>3, <1>4, <1>5, <2>1, <2>2, Aside
<1>8. CASE c \in Writers /\ write_wait(c) /\ Goes(c, "write_wait", "write_up", 0)
  <2>1. tx_sem' = tx_sem /\ tx_done_sem = 1 /\ tx_done_sem' = 0
    BY <1>2, <1>8 DEF write_wait
  <2>2. c \in waiting /\ Elsewhere # 0
    BY <1>1, <1>8, <2>1, Moved, Places DEF waiting
  <2>3. waiting = {c} /\ holders = {} /\ Elsewhere = 1
    BY <1>1, <2>2 DEF TokenInv
  <2>4. waiting' = {} /\ holders' = {}
    <3>1. ~Waits("write_up") /\ ~Holding("write_up", 0, sack_state')
      BY DEF Holding
    <3> QED BY <1>2, <1>8, <2>3, <3>1, Sets
  <2>5. Elsewhere' = 0
    BY <1>2, <1>3, <2>1, <2>3 DEF Elsewhere, One
  <2>6. TokenInv'
    BY <2>4, <2>5 DEF TokenInv
  <2>7. MutexInv'
    BY <1>1, <1>8, <2>1, MutexQuiet
  <2>8. RadioInv'
    BY <1>1, <1>2, <1>8, RadioQuiet
  <2>9. TimerInv'
    BY <1>1, <1>2, <1>3, <1>8, TimerQuiet
  <2> QED BY <1>2, <1>3, <1>4, <2>1, <2>6, <2>7, <2>8, <2>9 DEF StackInv
<1>9. CASE c \in Writers /\ write_up(c) /\ Goes(c, "write_up", "write_return", 0)
  <2>1. tx_sem' = tx_sem + 1 /\ tx_done_sem' = tx_done_sem
    BY <1>9 DEF write_up
  <2>2. fnOf[c] = "write_up" BY <1>9, Moved
  <2>3. tx_sem = 0 /\ \A w \in Writers \ {c} : ~Inside(fnOf[w])
    BY <1>1, <1>9, <2>2 DEF MutexInv
  <2>4. MutexInv'
    BY <1>9, <2>3, Moved, Constants DEF MutexInv
  <2>5. TokenInv'
    BY <1>1, <1>2, <1>5, <1>9, <2>1, TokenQuiet DEF Holding
  <2>6. RadioInv'
    BY <1>1, <1>2, <1>9, RadioQuiet
  <2>7. TimerInv'
    BY <1>1, <1>2, <1>3, <1>9, TimerQuiet
  <2>8. TypeInv'
    BY <1>2, <1>4, <2>1, <2>3
  <2> QED BY <1>3, <2>4, <2>5, <2>6, <2>7, <2>8 DEF StackInv
<1>10. CASE c \in Writers /\ write_return(c) /\ Ends(c, "write_return")
  <2>1. PICK a \in Int : Goes(c, "write_return", "none", a)
    BY <1>10, EndsTo DEF Ends
  <2>2. tx_sem' = tx_sem /\ tx_done_sem' = tx_done_sem
    BY <1>10 DEF write_return
  <2> QED BY <1>2, <1>3, <1>4, <1>5, <2>1, <2>2, Aside
<1>11. CASE interface_tx_done(c) /\ Ends(c, "interface_tx_done")
  <2>1. PICK g \in Under(c, "interface_tx_done"), a \in Int : Goes(c, "interface_tx_done", g, a)
    BY <1>11 DEF Ends
  <2>2. /\ g \in {"none", "write_wait", "lpl_start_timer", "unique_rx_done"}
        /\ c \in Writers => Waits(g)
    BY EndsTo
  <2>3. tx_sem' = tx_sem /\ tx_done_sem' = tx_done_sem + 1
    BY <1>11 DEF interface_tx_done
  <2>4. c \in holders
    BY <2>1, Moved DEF holders, Holding
  <2>5. Elsewhere = 0 /\ tx_done_sem = 0
    BY <1>1, <2>4, Places DEF TokenInv
  <2>6. Elsewhere' = 1
    BY <1>2, <1>3, <2>3, <2>5 DEF Elsewhere, One
  <2>7. TypeInv'
    BY <1>2, <1>4, <2>3, <2>5
  <2> QED BY <1>2, <1>3, <2>1, <2>2, <2>3, <2>6, <2>7, Aside
<1> QED BY <1>1, <1>2, <1>6, <1>7, <1>8, <1>9, <1>10, <1>11, WriteMoves

-----------------------------------------------------------------------------
(* A context starts to run.                                                *)

\* The expiry of sack.c's timer passes to its callback.
LEMMA SackExpireKeeps ==
  ASSUME StackInv, sack_expire, UNCHANGED <<csmaVars, lplVars, rxVars, ifcVars, bounds>>
  PROVE  StackInv'
<1> DEFINE c == "sack_timer"
<1>1. TypeInv /\ ShapeInv /\ MutexInv /\ TokenInv /\ RadioInv /\ TimerInv
      /\ c \in Contexts /\ c \notin Writers
  BY Constants DEF StackInv, Timers
<1>2. UNCHANGED <<sackVars, radioIfc, acked>>
      /\ UNCHANGED <<delivered, sack_state, radio, work, tx_sem, tx_done_sem>>
  BY DEF sack_expire, sackVars, radioIfc, csmaVars, rxVars, uniqueVars, ifcVars
<1>3. c \in armed /\ Enter(c, "sack_timer_cb", 0) /\ armed' = armed \ {c}
  BY DEF sack_expire, Expire
<1>4. ShapeInv' /\ Goes(c, "none", "sack_timer_cb", 0)
  BY <1>1, <1>2, <1>3, StartMoves, Names
<1>5. TypeInv'
  BY <1>1, <1>2, <1>3, TypesKept DEF TypeInv, rxVars, uniqueVars
<1>6. MutexInv'
  BY <1>1, <1>2, <1>4, MutexQuiet
<1>7. TokenInv'
  <2>1. Elsewhere' = Elsewhere
    BY <1>2, <1>3 DEF Elsewhere
  <2> QED BY <1>1, <1>2, <1>4, <2>1, TokenQuiet DEF Holding, Carriers
<1>8. RadioInv'
  BY <1>1, <1>2, <1>4, RadioQuiet DEF InRadio
<1>9. TimerInv'
  BY <1>1, <1>2, <1>3, <1>4, Moved, Constants DEF TimerInv
<1> QED BY <1>4, <1>5, <1>6, <1>7, <1>8, <1>9 DEF StackInv

\* Those of the other two timers, and the work queue: the packet that is in the
\* backoff, or that waits on the queue, is taken from there.
LEMMA LayersStartKeep ==
  ASSUME StackInv,
         \/ csma_expire /\ UNCHANGED <<sackVars, radioIfc, acked, lplVars, rxVars, ifcVars, bounds>>
         \/ csma_wq /\ UNCHANGED <<sackVars, radioIfc, acked, lplVars, rxVars, ifcVars, bounds>>
         \/ lpl_expire /\ UNCHANGED <<belowLpl, rxVars, ifcVars, bounds>>
  PROVE  StackInv'
<1>1. TypeInv /\ ShapeInv /\ {"csma_timer", "lpl_timer", "wq"} \subseteq Contexts
      /\ {"csma_timer", "lpl_timer", "wq"} \cap Writers = {}
  BY Constants DEF StackInv, Timers
<1>2. UNCHANGED <<sackVars, radioIfc, acked, lplVars, rxVars, ifcVars, bounds>>
  BY DEF lpl_expire, belowLpl
<1>3. UNCHANGED <<delivered, sack_state, radio, tx_sem, tx_done_sem>>
      /\ tx_done_sem \in {0, 1} /\ armed \subseteq Timers /\ CsmaTypeOK
  BY <1>1, <1>2 DEF sackVars, radioIfc, rxVars, uniqueVars, ifcVars, TypeInv, InterfaceTypeOK
<1>4. armed' \subseteq Timers
  BY <1>3 DEF csma_expire, csma_wq, lpl_expire, Expire
<1>5. CsmaTypeOK'
  BY <1>3 DEF csma_expire, csma_wq, lpl_expire, belowLpl, csmaVars, CsmaTypeOK
<1>6. TypeInv'
  BY <1>1, <1>2, <1>3, <1>4, <1>5, TypesKept DEF TypeInv, rxVars
<1> USE DEF Carriers, Waits, OutsideFns, Inside, InRadio
<1>7. CASE csma_expire
  <2>1. "csma_timer" \in armed /\ Enter("csma_timer", "csma_timer_cb", 0)
        /\ armed' = armed \ {"csma_timer"} /\ work' = work
    BY <1>7 DEF csma_expire, Expire, csmaVars
  <2>2. ShapeInv' /\ Goes("csma_timer", "none", "csma_timer_cb", 0)
    BY <1>1, <1>3, <2>1, StartMoves, Names
  <2>3. Elsewhere # 0 /\ (Elsewhere = 1 => Elsewhere' = 0)
    BY <1>3, <2>1 DEF Elsewhere, One
  <2> QED BY <1>1, <1>3, <1>6, <2>1, <2>2, <2>3, Aside
<1>8. CASE csma_wq
  <2>1. work /\ work' = FALSE /\ Enter("wq", "sack_tx", csma_tx_buf) /\ armed' = armed
    BY <1>8 DEF csma_wq
  <2>2. csma_tx_buf \in Packets \cup {Uninit} /\ csma_tx_buf \in Int
    BY <1>3, Constants DEF CsmaTypeOK, Uninit
  <2>3. ShapeInv' /\ Goes("wq", "none", "sack_tx", csma_tx_buf)
    BY <1>1, <1>3, <2>1, <2>2, StartMoves, Names
  <2>4. Elsewhere # 0 /\ (Elsewhere = 1 => Elsewhere' = 0)
    BY <1>3, <2>1 DEF Elsewhere, One
  <2> QED BY <1>1, <1>3, <1>6, <2>1, <2>3, <2>4, Aside
<1>9. CASE lpl_expire /\ UNCHANGED belowLpl
  <2>1. Enter("lpl_timer", "lpl_timer_cb", 0) /\ armed' = armed \ {"lpl_timer"} /\ work' = work
    BY <1>9 DEF lpl_expire, Expire, belowLpl, csmaVars
  <2>2. ShapeInv' /\ Goes("lpl_timer", "none", "lpl_timer_cb", 0)
    BY <1>1, <1>3, <2>1, StartMoves, Names
  <2>3. Elsewhere' = Elsewhere
    BY <1>3, <2>1 DEF Elsewhere
  <2> QED BY <1>1, <1>3, <1>6, <2>1, <2>2, <2>3, Aside
<1> QED BY <1>7, <1>8, <1>9

\* The radio reports: what it had is with sack.c again.
LEMMA RadioDoneKeeps ==
  ASSUME StackInv, RadioDone
  PROVE  StackInv'
<1>1. TypeInv /\ ShapeInv /\ MutexInv /\ TokenInv /\ RadioInv /\ TimerInv
  BY DEF StackInv
<1>2. PICK c \in {"spi", "sfd"}, status \in {SUCCESS, FAILED} : radio_done(c, status)
  BY DEF RadioDone
<1>3. c \in Contexts /\ c \notin Writers /\ status \in Int
  BY Constants, Codes
<1>4. UNCHANGED <<delivered, sack_state, work, tx_sem, tx_done_sem, armed>>
      /\ tx_done_sem \in {0, 1}
  BY <1>1, <1>2 DEF RadioDone, radio_done, sackVars, csmaVars, rxVars, uniqueVars, ifcVars, TypeInv,
              InterfaceTypeOK
<1>5. radio # NoPkt /\ radio' = NoPkt /\ Enter(c, "sack_tx_done", status)
  BY <1>2 DEF radio_done
<1>6. ShapeInv' /\ Goes(c, "none", "sack_tx_done", status)
  BY <1>1, <1>3, <1>4, <1>5, StartMoves, Names
<1>7. TypeInv'
  <2>1. SackTypeOK'
    BY <1>1, <1>2 DEF radio_done, sackVars, TypeInv, SackTypeOK
  <2> QED BY <1>1, <1>4, <2>1, TypesKept DEF TypeInv, RadioDone, rxVars, uniqueVars
<1>8. MutexInv'
  BY <1>1, <1>3, <1>4, <1>6, MutexQuiet
<1>9. RadioInv'
  BY <1>1, <1>4, <1>5, <1>6, Moved DEF RadioInv, InRadio
<1>10. TimerInv'
  BY <1>1, <1>4, <1>6, TimerQuiet
<1>11. TokenInv'
  <2>1. CASE radio = AckPkt
    <3>1. sack_state = "TX_ACK" BY <1>1, <1>5, <2>1 DEF RadioInv
    <3>2. Elsewhere' = Elsewhere
      BY <1>4, <1>5, <2>1 DEF Elsewhere, One
    <3> QED BY <1>1, <1>3, <1>4, <1>6, <3>1, <3>2, TokenQuiet DEF Holding, Carriers
  <2>2. CASE radio # AckPkt
    <3>1. sack_state = "TX" BY <1>1, <1>5, <2>2 DEF RadioInv
    <3>2. Elsewhere # 0 /\ (Elsewhere = 1 => Elsewhere' = 0)
      BY <1>4, <1>5, <2>2 DEF Elsewhere, One
    <3> QED BY <1>1, <1>3, <1>4, <1>6, <3>1, <3>2, TokenTake DEF Holding, Carriers
  <2> QED BY <2>1, <2>2
<1> QED BY <1>6, <1>7, <1>8, <1>9, <1>10, <1>11 DEF StackInv

\* A frame arrives.
LEMMA ArrivalKeeps ==
  ASSUME StackInv, Arrival
  PROVE  StackInv'
<1>1. TypeInv /\ ShapeInv
  BY DEF StackInv
<1>2. PICK f \in 1..Len(Frames) : radio_rx(f)
  BY DEF Arrival
<1>3. "spi" \in Contexts /\ "spi" \notin Writers /\ f \in Int
  BY Constants
<1>4. UNCHANGED <<delivered, sack_state, radio, work, tx_sem, tx_done_sem, armed>>
  BY <1>2 DEF Arrival, radio_rx, sackVars, radioIfc, csmaVars, rxVars, uniqueVars, ifcVars
<1>5. Enter("spi", "sack_rx_done", f)
  BY <1>2 DEF radio_rx
<1>6. ShapeInv' /\ Goes("spi", "none", "sack_rx_done", f)
  BY <1>1, <1>3, <1>4, <1>5, StartMoves, Names
<1>7. TypeInv'
  <2>1. SackTypeOK'
    BY <1>1, <1>2 DEF radio_rx, sackVars, radioIfc, TypeInv, SackTypeOK
  <2>2. CsmaTypeOK' /\ LplTypeOK' /\ UniqueTypeOK' /\ InterfaceTypeOK'
    BY <1>1, TypesKept DEF Arrival, rxVars, uniqueVars
  <2>3. ntoggles' \in 0..MaxToggles /\ narrivals' \in 0..MaxArrivals
    BY <1>1, StackAssumption DEF Arrival, TypeInv
  <2> QED BY <1>1, <1>4, <2>1, <2>2, <2>3 DEF TypeInv
<1>8. Elsewhere' = Elsewhere
  BY <1>4 DEF Elsewhere
<1> QED BY <1>3, <1>4, <1>6, <1>7, <1>8, Aside DEF Carriers, InRadio

\* A process calls write().
LEMMA WriteStartKeeps ==
  ASSUME StackInv, NEW w \in Writers, Write(w)
  PROVE  StackInv'
<1>1. TypeInv /\ ShapeInv /\ w \in Contexts
  BY Constants DEF StackInv
<1>2. UNCHANGED <<sackVars, radioIfc, acked, csmaVars, lplVars, uniqueVars, readVars, bounds>>
  BY DEF Write, belowIfc, belowLpl, rxVars
<1>3. UNCHANGED <<delivered, sack_state, radio, work, tx_sem, tx_done_sem, armed>>
  BY <1>2 DEF Write, interface_write, sackVars, radioIfc, csmaVars, uniqueVars
<1>4. Enter(w, "write_down", nwrites + 1) /\ nwrites + 1 \in Packets /\ nwrites + 1 \in Int
  BY Constants DEF Write, interface_write
<1>5. ShapeInv' /\ Goes(w, "none", "write_down", nwrites + 1)
  <2>1. "write_down" \in Fns BY DEF Fns, WriterFns, OutsideFns
  <2> QED BY <1>1, <1>3, <1>4, <2>1, StartMoves
<1>6. TypeInv'
  <2>1. InterfaceTypeOK BY <1>1 DEF TypeInv
  <2>2. writing' \in [Writers -> Packets \cup {NoPkt}]
    BY <2>1 DEF Write, interface_write, InterfaceTypeOK
  <2>3. ret' \in [Writers -> Statuses \cup {PktLen, EAGAIN, EFAULT, ERESTARTSYS}]
    BY <2>1, Codes DEF Write, interface_write, InterfaceTypeOK, Statuses
  <2>4. nwrites' \in Packets \cup {0} /\ tx_result' = tx_result
    BY DEF Write, interface_write
  <2>5. InterfaceTypeOK'
    BY <1>2, <1>3, <2>1, <2>2, <2>3, <2>4 DEF InterfaceTypeOK, readVars
  <2> QED BY <1>1, <1>2, <1>3, <2>5, TypesKept DEF TypeInv
<1>7. Elsewhere' = Elsewhere
  BY <1>3 DEF Elsewhere
<1> QED BY <1>3, <1>5, <1>6, <1>7, Aside DEF Carriers, InRadio, Waits, Inside, OutsideFns

\* read(), which the transmit path does not see.
LEMMA ReadKeeps ==
  ASSUME StackInv, NEW r \in Readers, Read(r) \/ ReadOn(r)
  PROVE  StackInv'
<1>1. TypeInv /\ InterfaceTypeOK
  BY DEF StackInv, TypeInv
<1>2. UNCHANGED <<sackVars, radioIfc, acked, csmaVars, lplVars, uniqueVars, ifcVars, bounds>>
  BY DEF Read, ReadOn, belowIfc, belowLpl
<1>3. UNCHANGED <<stack, armed, delivered, sack_state, radio, work, tx_sem, tx_done_sem>>
  BY <1>2 DEF Read, ReadOn, interface_read, read_signal, ReadStep, read_size, read_copy, read_fault,
              read_return, callVars, sackVars, radioIfc, csmaVars, uniqueVars, ifcVars
<1>4. UNCHANGED <<rx_buf_c, rx_pkt_len>>
  BY DEF Read, ReadOn, interface_read, read_signal, ReadStep, read_size, read_copy, read_fault, read_return
<1>5. reader' \in [Readers -> {"idle", "asleep", "awake", "copying"}]
  BY <1>1 DEF Read, ReadOn, interface_read, read_signal, ReadStep, read_size, read_copy, read_fault,
              read_return, InterfaceTypeOK
<1>6. got' \in [Readers -> Reads(Len(delivered))]
  <2>1. Len(delivered) \in Nat BY <1>1 DEF TypeInv, UniqueTypeOK
  <2>2. Nothing \in Reads(Len(delivered))
    BY <2>1 DEF Nothing, Reads
  <2>3. got \in [Readers -> Reads(Len(delivered))] /\ got[r] \in Reads(Len(delivered))
        /\ rx_buf_c \in [Parts -> 0..Len(delivered)] /\ rx_pkt_len \in 0..Len(delivered)
    BY <1>1 DEF InterfaceTypeOK, Reads
  <2>4. \E x \in Reads(Len(delivered)) : got' = [got EXCEPT ![r] = x]
    <3>1. CASE interface_read(r) \/ read_fault(r)
      BY <2>2, <3>1 DEF interface_read, read_fault
    <3>2. CASE read_signal(r)
      <4>1. got' = [got EXCEPT ![r] = got[r]] BY <2>3, <3>2 DEF read_signal
      <4> QED BY <2>3, <4>1
    <3>3. CASE read_size(r)
      <4>1. [got[r] EXCEPT !.size = rx_pkt_len] \in Reads(Len(delivered)) BY <2>3 DEF Reads
      <4> QED BY <3>3, <4>1 DEF read_size
    <3>4. CASE read_copy(r)
      <4>1. PICK p \in Parts : got' = [got EXCEPT ![r].buf[p] = rx_buf_c[p]]
        BY <3>4 DEF read_copy
      <4>2. [got[r] EXCEPT !.buf[p] = rx_buf_c[p]] \in Reads(Len(delivered)) BY <2>3 DEF Reads
      <4> QED BY <4>1, <4>2
    <3>5. CASE read_return(r)
      <4>1. [got[r] EXCEPT !.len = rx_pkt_len] \in Reads(Len(delivered)) BY <2>3 DEF Reads
      <4> QED BY <3>5, <4>1 DEF read_return
    <3> QED BY <3>1, <3>2, <3>3, <3>4, <3>5 DEF Read, ReadOn, ReadStep
  <2> QED BY <2>3, <2>4
<1>8. InterfaceTypeOK'
  BY <1>1, <1>2, <1>3, <1>4, <1>5, <1>6 DEF InterfaceTypeOK, ifcVars, Reads
<1>9. TypeInv'
  BY <1>1, <1>2, <1>3, <1>8, TypesKept DEF TypeInv
<1>10. Elsewhere' = Elsewhere
  BY <1>3 DEF Elsewhere
<1> QED BY <1>3, <1>9, <1>10, Still

\* An ioctl, at whatever moment.
LEMMA IoctlKeeps ==
  ASSUME StackInv, Ioctl
  PROVE  StackInv'
<1>1. TypeInv
  BY DEF StackInv
<1>2. UNCHANGED <<stack, armed, delivered, sack_state, radio, work, tx_sem, tx_done_sem>>
  BY DEF Ioctl, lpl_set_enabled, csma_set_enabled, sackVars, radioIfc, csmaVars, rxVars, uniqueVars,
         ifcVars
<1>3. TypeInv'
  <2>1. SackTypeOK' /\ UniqueTypeOK' /\ InterfaceTypeOK'
    BY <1>1, TypesKept DEF Ioctl, rxVars, uniqueVars
  <2>2. LplTypeOK' /\ CsmaTypeOK'
    BY <1>1 DEF Ioctl, lpl_set_enabled, csma_set_enabled, lplVars, csmaVars, TypeInv, LplTypeOK,
                CsmaTypeOK
  <2>3. ntoggles' \in 0..MaxToggles /\ narrivals' \in 0..MaxArrivals
    BY <1>1, StackAssumption DEF Ioctl, TypeInv
  <2> QED BY <1>1, <1>2, <2>1, <2>2, <2>3 DEF TypeInv
<1>4. Elsewhere' = Elsewhere
  BY <1>2 DEF Elsewhere
<1> QED BY <1>2, <1>3, <1>4, Still

-----------------------------------------------------------------------------
(* The invariant holds, and what follows from it.                          *)

\* The stack starts with no call, no timer and no packet.
LEMMA InitInv == Init => StackInv
<1> SUFFICES ASSUME Init PROVE StackInv
  OBVIOUS
<1>1. ShapeInv /\ \A c \in Contexts : fnOf[c] = "none"
  <2>1. stack = [c \in Contexts |-> <<>>]
    BY DEF Init, CallsInit
  <2> QED BY <2>1 DEF ShapeInv, Shape, fnOf
<1>2. TypeInv
  <2>1. armed \subseteq Timers /\ SackTypeOK
    BY DEF Init, CallsInit, SackInit, SackTypeOK
  <2>2. CsmaTypeOK /\ LplTypeOK
    BY StackAssumption DEF Init, CsmaInit, LplInit, CsmaTypeOK, LplTypeOK
  <2>3. UniqueTypeOK /\ delivered = <<>> /\ Len(delivered) = 0
    BY DEF Init, UniqueInit, UniqueTypeOK
  <2>4. InterfaceTypeOK
    BY <2>3, Codes DEF Init, InterfaceInit, InterfaceTypeOK, Statuses, Nothing
  <2> QED BY <2>1, <2>2, <2>3, <2>4, StackAssumption DEF Init, TypeInv
<1>3. MutexInv
  BY <1>1, Constants DEF MutexInv, Inside
<1>4. TokenInv
  <2>1. waiting = {}
    BY <1>1, Constants DEF waiting, Waits
  <2>2. holders = {}
    BY <1>1 DEF holders, Holding, Carriers
  <2>3. Elsewhere = 0
    BY DEF Init, CallsInit, SackInit, CsmaInit, InterfaceInit, Elsewhere, One
  <2> QED BY <2>1, <2>2, <2>3 DEF TokenInv
<1>5. RadioInv
  BY <1>1 DEF Init, SackInit, RadioInv, InRadio
<1>6. TimerInv
  BY <1>1, Constants DEF Init, CallsInit, TimerInv, Timers
<1> QED BY <1>1, <1>2, <1>3, <1>4, <1>5, <1>6 DEF StackInv

\* Every step keeps the invariant.
LEMMA NextInv == StackInv /\ [Next]_vars => StackInv'
<1> SUFFICES ASSUME StackInv, [Next]_vars PROVE StackInv'
  OBVIOUS
<1>1. ASSUME NEW c \in Contexts, Run(c) PROVE StackInv'
  BY <1>1, SackKeeps, CsmaKeeps, LplKeeps, UniqueKeeps, RxKeeps, WriteKeeps DEF Run
<1>2. CASE Timeouts \/ WorkQueue
  BY <1>2, SackExpireKeeps, LayersStartKeep DEF Timeouts, WorkQueue
<1>3. CASE RadioDone \/ Arrival
  BY <1>3, RadioDoneKeeps, ArrivalKeeps
<1>4. ASSUME NEW w \in Writers, Write(w) PROVE StackInv'
  BY <1>4, WriteStartKeeps
<1>5. ASSUME NEW r \in Readers, Read(r) \/ ReadOn(r) PROVE StackInv'
  BY <1>5, ReadKeeps
<1>6. CASE Ioctl
  BY <1>6, IoctlKeeps
<1>7. CASE UNCHANGED vars
  <2>1. UNCHANGED <<stack, armed, delivered, sack_state, radio, work, tx_sem, tx_done_sem>>
    BY <1>7 DEF vars, callVars, belowIfc, belowLpl, sackVars, radioIfc, csmaVars, rxVars, uniqueVars,
                ifcVars
  <2>2. TypeInv'
    BY <1>7, TypesKept DEF StackInv, TypeInv, vars, callVars, belowIfc, belowLpl, rxVars, uniqueVars
  <2>3. Elsewhere' = Elsewhere
    BY <2>1 DEF Elsewhere
  <2> QED BY <2>1, <2>2, <2>3, Still
<1> QED BY <1>1, <1>2, <1>3, <1>4, <1>5, <1>6, <1>7 DEF Next

\* The packet, the radio, the semaphores and the acknowledgement timer are where
\* the invariant says, after whatever steps of the contexts.
THEOREM StackInvariant == Spec => []StackInv
<1>1. Init => StackInv BY InitInv
<1>2. StackInv /\ [Next]_vars => StackInv' BY NextInv
<1> QED BY <1>1, <1>2, PTL DEF Spec

\* All variables of the layers keep their types.  For the two semaphores this is
\* no matter of form: up() of write() and of tx_done never raise them above one.
THEOREM TypeCorrect == Spec => []StackTypeOK
<1>1. StackInv => StackTypeOK BY DEF StackInv, TypeInv, StackTypeOK
<1> QED BY <1>1, StackInvariant, PTL

\* sack_tx_done never meets the "impossible state" in which it keeps its lock.
THEOREM TxDoneIsExpected == Spec => []TxDoneExpected
<1>1. StackInv => TxDoneExpected
  <2> SUFFICES ASSUME StackInv, NEW c \in Contexts, At(c, "sack_tx_done")
               PROVE  sack_state \in {"TX", "TX_ACK"}
    BY DEF TxDoneExpected
  <2>1. fnOf[c] = "sack_tx_done" BY Running, Names
  <2> QED BY <2>1 DEF StackInv, RadioInv, InRadio
<1> QED BY <1>1, StackInvariant, PTL

\* No acknowledgement timeout outlives the wait it was started for.
THEOREM AckTimerIsFresh == Spec => []AckTimerFresh
<1>1. StackInv => AckTimerFresh
  <2> SUFFICES ASSUME StackInv, "sack_timer" \in armed \/ At("sack_timer", "sack_timer_cb"),
                      sack_state # "TX_WAIT"
               PROVE  \E c \in Contexts : At(c, "sack_cancel")
    BY DEF AckTimerFresh
  <2>1. "sack_timer" \in Contexts /\ "spi" \in Contexts BY Constants DEF Timers
  <2>2. At("sack_timer", "sack_timer_cb") => fnOf["sack_timer"] = "sack_timer_cb"
    BY <2>1, Running, Names
  <2>3. fnOf["spi"] = "sack_cancel"
    BY <2>2 DEF StackInv, TimerInv
  <2> QED BY <2>1, <2>3, Running, Names
<1> QED BY <1>1, StackInvariant, PTL

\* What is below the running function is the rest of a write() or a frame on its
\* way up.
LEMMA Lower ==
  ASSUME NEW c \in Contexts, NEW f, NEW t \in Below(c, f)
  PROVE  /\ \A i \in 1..Len(t) : t[i].fn \in {"write_wait", "lpl_start_timer", "unique_rx_done"}
         /\ c \in Writers /\ f \in OutsideFns \cup {"write_wait"} => Len(t) = 0
         /\ c \in Writers /\ f \notin OutsideFns \cup {"write_wait"} =>
              \E i \in 1..Len(t) : t[i].fn = "write_wait"
<1>1. CASE t = <<>>
  <2>1. Len(t) = 0 BY <1>1
  <2>2. c \in Writers => f \in OutsideFns \cup {"write_wait"}
    <3>1. t # <<WaitFrame>> /\ t # <<StartFrame, WaitFrame>> BY <1>1
    <3> QED BY <3>1 DEF Below
  <2> QED BY <2>1, <2>2
<1>2. CASE t = <<WaitFrame>>
  <2>1. Len(t) = 1 /\ t[1] = WaitFrame /\ t # <<>> BY <1>2
  <2>2. t[1].fn = "write_wait" BY <2>1 DEF WaitFrame, Frame
  <2>3. c \in Writers => f \notin OutsideFns \cup {"write_wait"} BY <2>1 DEF Below
  <2> QED BY <2>1, <2>2, <2>3
<1>3. CASE t = <<StartFrame, WaitFrame>>
  <2>1. Len(t) = 2 /\ t[1] = StartFrame /\ t[2] = WaitFrame /\ t # <<>> BY <1>3
  <2>2. t[1].fn = "lpl_start_timer" /\ t[2].fn = "write_wait"
    BY <2>1 DEF StartFrame, WaitFrame, Frame
  <2>3. c \in Writers => f \notin OutsideFns \cup {"write_wait"} BY <2>1 DEF Below
  <2> QED BY <2>1, <2>2, <2>3
<1>4. ASSUME c \notin Writers, NEW n \in 1..Len(Frames), t = <<Frame("unique_rx_done", n)>>
      PROVE  \A i \in 1..Len(t) : t[i].fn = "unique_rx_done"
  <2>1. Len(t) = 1 /\ t[1] = Frame("unique_rx_done", n) BY <1>4
  <2>2. t[1].fn = "unique_rx_done" BY <2>1 DEF Frame
  <2> QED BY <2>1, <2>2
<1> QED BY <1>1, <1>2, <1>3, <1>4 DEF Below

\* So that the whole stack is known from the running function.
LEMMA WholeStack ==
  ASSUME ShapeInv, NEW c \in Contexts
  PROVE  /\ \A i \in DOMAIN stack[c] :
              IF i = 1 THEN fnOf[c] = stack[c][i].fn /\ argOf[c] = stack[c][i].arg
                       ELSE stack[c][i].fn \in {"write_wait", "lpl_start_timer", "unique_rx_done"}
         /\ fnOf[c] # "none" => 1 \in DOMAIN stack[c]
         /\ c \in Writers => ( Waits(fnOf[c]) <=> \E i \in DOMAIN stack[c] : stack[c][i].fn = "write_wait" )
<1>1. stack[c] \in Seq(FrameRec) BY DEF ShapeInv
<1>2. CASE stack[c] = <<>>
  <2>1. fnOf[c] = "none" /\ DOMAIN stack[c] = {} BY <1>2 DEF fnOf
  <2> QED BY <2>1 DEF Waits, OutsideFns
<1>3. CASE stack[c] # <<>>
  <2>1. PICK t : t = Tail(stack[c]) OBVIOUS
  <2>2. /\ t \in Seq(FrameRec) /\ Len(stack[c]) = Len(t) + 1 /\ Len(t) \in Nat
        /\ DOMAIN stack[c] = 1..Len(stack[c])
    BY <1>1, <1>3, <2>1
  <2>3. fnOf[c] = stack[c][1].fn /\ argOf[c] = stack[c][1].arg
        /\ Head(stack[c]) = stack[c][1] /\ stack[c][1] \in FrameRec
    <3>1. Head(stack[c]) = stack[c][1] BY <1>1, <1>3
    <3>2. stack[c][1] \in FrameRec BY <1>1, <1>3, <3>1, Stacks
    <3> QED BY <1>3, <3>1, <3>2 DEF fnOf, argOf
  <2>4. \A i \in 1..Len(stack[c]) : i # 1 => i - 1 \in 1..Len(t) /\ stack[c][i] = t[i - 1]
    BY <1>1, <1>3, <2>1, <2>2
  <2>5. \A i \in 1..Len(t) : i + 1 \in 1..Len(stack[c]) /\ i + 1 # 1 /\ stack[c][i + 1] = t[i]
    BY <1>1, <1>3, <2>1, <2>2
  <2>6. fnOf[c] \in Fns /\ fnOf[c] # "none"
    BY <2>3 DEF FrameRec, Fns, LayerFns, WriterFns, OutsideFns, SpiFns, ReceptionFns, TimerFns
  <2>7. t \in Below(c, fnOf[c])
    BY <1>3, <2>1, <2>3 DEF ShapeInv, Shape
  <2>8. \A i \in DOMAIN stack[c] : i # 1 =>
           stack[c][i].fn \in {"write_wait", "lpl_start_timer", "unique_rx_done"}
    BY <2>2, <2>4, <2>7, Lower
  <2>9. 1 \in DOMAIN stack[c] BY <2>2
  <2>10. ASSUME c \in Writers
         PROVE  Waits(fnOf[c]) <=> \E i \in DOMAIN stack[c] : stack[c][i].fn = "write_wait"
    <3>1. CASE fnOf[c] \in OutsideFns
      <4>1. Len(t) = 0 BY <2>7, <2>10, <3>1, Lower
      <4>2. DOMAIN stack[c] = {1} BY <2>2, <4>1
      <4> QED BY <2>3, <3>1, <4>2 DEF Waits, OutsideFns
    <3>2. CASE fnOf[c] = "write_wait"
      BY <2>3, <2>9, <3>2 DEF Waits, OutsideFns
    <3>3. CASE fnOf[c] \notin OutsideFns \cup {"write_wait"}
      <4>1. PICK i \in 1..Len(t) : t[i].fn = "write_wait"
        BY <2>7, <2>10, <3>3, Lower
      <4>2. i + 1 \in DOMAIN stack[c] /\ stack[c][i + 1].fn = "write_wait"
        BY <2>2, <2>5, <4>1
      <4> QED BY <2>6, <3>3, <4>2 DEF Waits
    <3> QED BY <3>1, <3>2, <3>3
  <2> QED BY <2>3, <2>8, <2>9, <2>10
<1> QED BY <1>2, <1>3

\* The places in the calls, and the processes that wait, in the invariant's terms.
LEMMA CallingHolders ==
  ASSUME ShapeInv
  PROVE  /\ Calling = { <<c, 1>> : c \in holders }
         /\ { w \in Writers : Waiting(w) } = waiting
<1>1. ASSUME NEW c \in Contexts, NEW i \in DOMAIN stack[c]
      PROVE  Carries(stack[c][i]) <=> i = 1 /\ c \in holders
  <2>1. CASE i = 1
    <3>1. fnOf[c] = stack[c][i].fn /\ argOf[c] = stack[c][i].arg
      BY <2>1, WholeStack
    <3> QED BY <2>1, <3>1 DEF Carries, Holding, holders
  <2>2. CASE i # 1
    <3>1. stack[c][i].fn \in {"write_wait", "lpl_start_timer", "unique_rx_done"}
      BY <2>2, WholeStack
    <3> QED BY <2>2, <3>1 DEF Carries, Carriers
  <2> QED BY <2>1, <2>2
<1>2. ASSUME NEW c \in holders PROVE c \in Contexts /\ 1 \in DOMAIN stack[c]
  <2>1. c \in Contexts /\ fnOf[c] # "none"
    BY DEF holders, Holding, Carriers
  <2> QED BY <2>1, WholeStack
<1>3. Calling = { <<c, 1>> : c \in holders }
  <2>1. ASSUME NEW x \in Calling PROVE x \in { <<c, 1>> : c \in holders }
    BY <1>1 DEF Calling
  <2>2. ASSUME NEW c \in holders PROVE <<c, 1>> \in Calling
    BY <1>1, <1>2 DEF Calling
  <2> QED BY <2>1, <2>2
<1>4. \A w \in Writers : Waiting(w) <=> w \in waiting
  BY WholeStack, Constants DEF Waiting, waiting
<1>5. waiting \subseteq Writers BY DEF waiting
<1> QED BY <1>3, <1>4, <1>5

\* The packet being written is in one place, however many contexts handle it.
THEOREM PacketIsInOnePlace == Spec => []PacketInOnePlace
<1>1. StackInv => PacketInOnePlace
  <2> SUFFICES ASSUME StackInv PROVE PacketInOnePlace
    OBVIOUS
  <2>1. TypeInv /\ ShapeInv /\ TokenInv BY DEF StackInv
  <2>2. Calling = { <<c, 1>> : c \in holders } /\ { w \in Writers : Waiting(w) } = waiting
    BY <2>1, CallingHolders
  <2>3. Cardinality(waiting) = Cardinality(Calling) + Elsewhere /\ Cardinality(Calling) \in {0, 1}
    <3>1. holders = {} => Cardinality(Calling) = 0
      BY <2>2, FS_EmptySet
    <3>2. waiting = {} => Cardinality(waiting) = 0
      BY FS_EmptySet
    <3>3. \A w : waiting = {w} => Cardinality(waiting) = 1
      BY FS_Singleton
    <3>4. ASSUME NEW c, holders = {c} PROVE Cardinality(Calling) = 1
      <4>1. Calling = {<<c, 1>>} BY <2>2, <3>4
      <4> QED BY <4>1, FS_Singleton
    <3> QED BY <2>1, <3>1, <3>2, <3>3, <3>4 DEF TokenInv
  <2>4. tx_done_sem \in {0, 1} BY <2>1 DEF TypeInv, InterfaceTypeOK
  <2>5. PICK n \in {0, 1} : n = Cardinality(Calling) BY <2>3
  <2>6. PICK m : m = Cardinality(waiting) OBVIOUS
  <2>7. m = n + Elsewhere BY <2>3, <2>5, <2>6
  <2>8. n + One("csma_timer" \in armed) + One(work) + One(radio \notin {NoPkt, AckPkt})
          + One(sack_state = "TX_WAIT") + tx_done_sem = m
    BY <2>4, <2>7 DEF Elsewhere, One
  <2> QED BY <2>2, <2>5, <2>6, <2>8 DEF PacketInOnePlace
<1> QED BY <1>1, StackInvariant, PTL
=============================================================================
