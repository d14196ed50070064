------------------------- MODULE StackServiceProofs -------------------------
(***************************************************************************)
(* The layers use the radio as RadioService demands, for any number of     *)
(* writers and packets, any frames that may arrive, and ioctls at any      *)
(* moment.  Radio is shown to offer that service in RadioServiceProofs.    *)
(***************************************************************************)
EXTENDS StackProofs

\* The calls of a function under way, and the mapped variables
Pending(fn) == { <<c, argOf[c]>> : c \in { d \in Contexts : fnOf[d] = fn } }
Asked  == { <<c, Arg(c)>> : c \in { d \in Contexts : At(d, "radio_tx") } }
Report == { <<c, Arg(c)>> : c \in { d \in Contexts : At(d, "sack_tx_done") } }

\* The mapping in terms of the running functions, before and after a step.
LEMMA Mapping ==
  /\ Asked = Pending("radio_tx") /\ Report = Pending("sack_tx_done")
  /\ Asked' = Pending("radio_tx")' /\ Report' = Pending("sack_tx_done")'
<1>1. ASSUME NEW fn \in {"radio_tx", "sack_tx_done"}, NEW d \in Contexts
      PROVE  At(d, fn) <=> fnOf[d] = fn
  BY DEF At, Idle, fnOf
<1>2. ASSUME NEW fn \in {"radio_tx", "sack_tx_done"}, NEW d \in Contexts, fnOf[d] = fn
      PROVE  Arg(d) = argOf[d]
  BY <1>2 DEF Arg, fnOf, argOf
<1>3. ASSUME NEW fn \in {"radio_tx", "sack_tx_done"}, NEW d \in Contexts
      PROVE  At(d, fn)' <=> fnOf'[d] = fn
  BY DEF At, Idle, fnOf
<1>4. ASSUME NEW fn \in {"radio_tx", "sack_tx_done"}, NEW d \in Contexts, fnOf'[d] = fn
      PROVE  Arg(d)' = argOf'[d]
  BY <1>4 DEF Arg, fnOf, argOf
<1>5. Asked = Pending("radio_tx") BY <1>1, <1>2 DEF Asked, Pending
<1>6. Report = Pending("sack_tx_done") BY <1>1, <1>2 DEF Report, Pending
<1>7. Asked' = Pending("radio_tx")' BY <1>3, <1>4 DEF Asked, Pending
<1>8. Report' = Pending("sack_tx_done")' BY <1>3, <1>4 DEF Report, Pending
<1> QED BY <1>5, <1>6, <1>7, <1>8

\* What is under way when one context moves: the same as before, or the call
\* that it begins or ends if no other context is in that function.
LEMMA PendingMoved ==
  ASSUME NEW c, NEW f, NEW g, NEW a, Goes(c, f, g, a), NEW fn
  PROVE  /\ f # fn /\ g # fn => Pending(fn)' = Pending(fn)
         /\ (\A d \in Contexts \ {c} : fnOf[d] # fn) =>
              /\ f = fn => Pending(fn) = {<<c, argOf[c]>>}
              /\ f # fn => Pending(fn) = {}
              /\ g = fn => Pending(fn)' = {<<c, a>>}
              /\ g # fn => Pending(fn)' = {}
<1>1. /\ c \in Contexts /\ fnOf[c] = f /\ fnOf'[c] = g /\ argOf'[c] = a
      /\ \A d \in Contexts \ {c} : fnOf'[d] = fnOf[d] /\ argOf'[d] = argOf[d]
  BY Moved
<1>2. ASSUME f # fn, g # fn PROVE Pending(fn)' = Pending(fn)
  <2>1. \A d \in Contexts : fnOf'[d] = fn <=> fnOf[d] = fn BY <1>1, <1>2
  <2>2. \A d \in Contexts : fnOf[d] = fn => argOf'[d] = argOf[d] BY <1>1, <1>2
  <2> QED BY <2>1, <2>2 DEF Pending
<1>3. ASSUME \A d \in Contexts \ {c} : fnOf[d] # fn
      PROVE  /\ f = fn => Pending(fn) = {<<c, argOf[c]>>}
             /\ f # fn => Pending(fn) = {}
             /\ g = fn => Pending(fn)' = {<<c, a>>}
             /\ g # fn => Pending(fn)' = {}
  BY <1>1, <1>3 DEF Pending
<1> QED BY <1>2, <1>3

\* A step outside the radio's calls is a stuttering step of the service.
LEMMA Quiet ==
  ASSUME NEW c, NEW f, NEW g, NEW a, Goes(c, f, g, a),
         f \notin InRadio, g \notin InRadio, radio' = radio
  PROVE  UNCHANGED Service!vars
<1>1. Asked' = Asked /\ Report' = Report
  BY Mapping, PendingMoved DEF InRadio
<1> QED BY <1>1 DEF Service!vars, Asked, Report

\* A function above the radio that returns changes nothing for the radio service.
LEMMA QuietEnd ==
  ASSUME NEW c \in Contexts, NEW f, Ends(c, f), f \notin InRadio, radio' = radio
  PROVE  UNCHANGED Service!vars
<1>1. PICK g \in Under(c, f), a \in Int : Goes(c, f, g, a) BY DEF Ends
<1>2. g \notin InRadio BY EndsTo DEF InRadio
<1> QED BY <1>1, <1>2, Quiet

\* Neither does a step that leaves all calls and the radio alone.
LEMMA QuietStill ==
  ASSUME UNCHANGED <<stack, radio>>
  PROVE  UNCHANGED Service!vars
BY DEF Service!vars, At, Idle, Arg

\* sack.c hands a frame to the radio only when the last one has been reported.
LEMMA ServiceTx ==
  ASSUME StackInv, NEW c, NEW f, NEW a, Goes(c, f, "radio_tx", a), f \notin InRadio,
         sack_state = "IDLE", radio' = radio, a \in Packets \cup {AckPkt, Uninit}
  PROVE  Service!Next
<1>1. radio = NoPkt /\ \A d \in Contexts : fnOf[d] \notin InRadio
  BY DEF StackInv, RadioInv
<1>2. Asked = {} /\ Asked' = {<<c, a>>} /\ Report = {} /\ Report' = {}
  BY <1>1, Mapping, PendingMoved DEF InRadio
<1>3. c \in Contexts BY Moved
<1>4. Service!Tx(c, a)
  BY <1>1, <1>2 DEF Service!Tx, Asked, Report
<1> QED BY <1>3, <1>4 DEF Service!Next

\* The radio takes it.
LEMMA ServiceAccept ==
  ASSUME StackInv, NEW c \in Contexts, radio_tx(c), Ends(c, "radio_tx"), UNCHANGED delivered
  PROVE  Service!Next
<1>1. At(c, "radio_tx") /\ radio = NoPkt /\ radio' = Arg(c)
  BY DEF radio_tx
<1>2. fnOf[c] = "radio_tx" /\ Arg(c) = argOf[c] /\ argOf[c] \in Packets \cup {AckPkt, Uninit}
  BY <1>1, Current, Names DEF StackInv, ArgOK
<1>3. PICK g \in Under(c, "radio_tx"), a \in Int : Goes(c, "radio_tx", g, a) BY DEF Ends
<1>4. g \notin InRadio BY EndsTo DEF InRadio
<1>5. \A d \in Contexts \ {c} : fnOf[d] \notin InRadio
  BY <1>2 DEF StackInv, RadioInv, InRadio
<1>6. Asked = {<<c, argOf[c]>>} /\ Asked' = {} /\ Report' = Report
  BY <1>3, <1>4, <1>5, Mapping, PendingMoved DEF InRadio
<1>7. PICK p \in Packets \cup {AckPkt, Uninit} : p = argOf[c]
  BY <1>2
<1>8. Service!Accept(c, p)
  BY <1>1, <1>2, <1>6, <1>7 DEF Service!Accept, Asked, Report
<1> QED BY <1>8 DEF Service!Next

\* It reports.
LEMMA ServiceFinish ==
  ASSUME StackInv, RadioDone
  PROVE  Service!Next
<1>1. PICK c \in {"spi", "sfd"}, status \in {SUCCESS, FAILED} : radio_done(c, status)
  BY DEF RadioDone
<1>2. c \in Contexts /\ status \in Int
  BY Constants, Codes
<1>3. radio # NoPkt /\ radio' = NoPkt /\ Enter(c, "sack_tx_done", status)
      /\ (status = SUCCESS \/ c = "spi") /\ delivered' = delivered
  BY <1>1 DEF radio_done, RadioDone, rxVars, uniqueVars
<1>4. Goes(c, "none", "sack_tx_done", status)
  BY <1>2, <1>3, StartMoves, Names DEF StackInv
<1>5. \A d \in Contexts : fnOf[d] \notin InRadio
  BY <1>3 DEF StackInv, RadioInv
<1>6. Asked' = Asked /\ Report = {} /\ Report' = {<<c, status>>}
  BY <1>4, <1>5, Mapping, PendingMoved DEF InRadio
<1>7. Service!Finish(c, status)
  BY <1>3, <1>6 DEF Service!Finish, Asked, Report
<1> QED BY <1>7 DEF Service!Next

\* sack.c has dealt with the report.
LEMMA ServiceDeliver ==
  ASSUME StackInv, NEW c \in Contexts, NEW g, NEW a, Goes(c, "sack_tx_done", g, a),
         g \notin InRadio, radio' = radio
  PROVE  Service!Next
<1>1. fnOf[c] = "sack_tx_done" BY Moved
<1>2. \A d \in Contexts \ {c} : fnOf[d] \notin InRadio
  BY <1>1 DEF StackInv, RadioInv, InRadio
<1>3. Report = {<<c, argOf[c]>>} /\ Report' = {} /\ Asked' = Asked
  BY <1>2, Mapping, PendingMoved DEF InRadio
<1>4. Service!Deliver
  BY <1>3 DEF Service!Deliver, Asked, Report
<1> QED BY <1>4 DEF Service!Next

\* The steps of sack.c and of the radio it calls.
LEMMA SackSimulates ==
  ASSUME StackInv, NEW c \in Contexts, SackStep(c),
         UNCHANGED <<csmaVars, lplVars, rxVars, ifcVars, bounds>>
  PROVE  Service!Next \/ UNCHANGED Service!vars
<1>1. TypeInv /\ ShapeInv /\ delivered' = delivered
  BY DEF StackInv, rxVars, uniqueVars
<1> USE DEF InRadio
<1>2. CASE radio_tx(c) /\ Ends(c, "radio_tx")
  BY <1>1, <1>2, ServiceAccept
<1>3. CASE sack_tx(c) /\ Goes(c, "sack_tx", "radio_tx", argOf[c])
  <2>1. At(c, "sack_tx") /\ sack_state = "IDLE" /\ radio' = radio BY <1>3 DEF sack_tx, radioIfc
  <2>2. argOf[c] \in Packets \cup {AckPkt, Uninit} BY <1>1, <2>1, Current, Names DEF ArgOK
  <2> QED BY <1>3, <2>1, <2>2, ServiceTx
<1>4. CASE sack_tx_done(c)
           /\ (Ends(c, "sack_tx_done") \/ Goes(c, "sack_tx_done", "csma_tx_done", argOf[c]))
  <2>1. radio' = radio BY <1>4 DEF sack_tx_done, radioIfc
  <2>2. CASE Ends(c, "sack_tx_done")
    <3>1. PICK g \in Under(c, "sack_tx_done"), a \in Int : Goes(c, "sack_tx_done", g, a)
      BY <2>2 DEF Ends
    <3>2. g \notin InRadio BY EndsTo
    <3> QED BY <2>1, <3>1, <3>2, ServiceDeliver
  <2>3. CASE Goes(c, "sack_tx_done", "csma_tx_done", argOf[c])
    BY <2>1, <2>3, ServiceDeliver
  <2> QED BY <1>4, <2>2, <2>3
<1>5. CASE sack_rx_ack(c)
           /\ (Ends(c, "sack_rx_done") \/ Goes(c, "sack_rx_done", "sack_cancel", 0))
  <2>1. radio' = radio BY <1>5 DEF sack_rx_ack, radioIfc
  <2> QED BY <1>5, <2>1, Quiet, QuietEnd
<1>6. CASE sack_cancel(c) /\ Goes(c, "sack_cancel", "csma_tx_done", SUCCESS)
  <2>1. radio' = radio BY <1>6 DEF sack_cancel, radioIfc
  <2> QED BY <1>6, <2>1, Quiet
<1>7. CASE /\ sack_rx_data(c)
           /\ \/ Goes(c, "sack_rx_done", "unique_rx_done", argOf[c])
              \/ sack_state = "IDLE" /\ Goes(c, "sack_rx_done", "radio_tx", AckPkt)
              \/ Ends(c, "sack_rx_done")
  <2>1. radio' = radio BY <1>7 DEF sack_rx_data, radioIfc
  <2>2. CASE Goes(c, "sack_rx_done", "unique_rx_done", argOf[c]) \/ Ends(c, "sack_rx_done")
    BY <2>1, <2>2, Quiet, QuietEnd
  <2>3. CASE sack_state = "IDLE" /\ Goes(c, "sack_rx_done", "radio_tx", AckPkt)
    BY <2>1, <2>3, ServiceTx
  <2> QED BY <1>7, <2>2, <2>3
<1>8. CASE /\ sack_timer_cb(c)
           /\ Goes(c, "sack_timer_cb", "csma_tx_done", ACK_TIMEOUT) \/ Ends(c, "sack_timer_cb")
  <2>1. radio' = radio BY <1>8 DEF sack_timer_cb, radioIfc
  <2> QED BY <1>8, <2>1, Quiet, QuietEnd
<1> QED BY <1>1, <1>2, <1>3, <1>4, <1>5, <1>6, <1>7, <1>8, SackMoves

\* Those of the layers above it, which the radio does not see.
LEMMA OthersSimulate ==
  ASSUME StackInv, NEW c \in Contexts, radio' = radio,
         \/ UNCHANGED delivered /\ (CsmaStep(c) \/ LplStep(c) \/ RxStep(c) \/ WriteStep(c))
         \/ unique_rx_done(c)
  PROVE  UNCHANGED Service!vars
<1>1. TypeInv /\ ShapeInv BY DEF StackInv
<1> USE DEF InRadio
<1>3. CASE CsmaStep(c) /\ UNCHANGED delivered
  BY <1>1, <1>3, CsmaMoves, Quiet, QuietEnd
<1>4. CASE LplStep(c) /\ UNCHANGED delivered
  BY <1>1, <1>4, LplMoves, Quiet, QuietEnd
<1>5. CASE unique_rx_done(c)
  BY <1>1, <1>5, UniqueMoves, Quiet, QuietEnd
<1>6. CASE RxStep(c) /\ UNCHANGED delivered
  BY <1>1, <1>6, RxMoves, Quiet, QuietEnd, QuietStill
<1>7. CASE WriteStep(c) /\ UNCHANGED delivered
  BY <1>1, <1>7, WriteMoves, Quiet, QuietEnd
<1> QED BY <1>3, <1>4, <1>5, <1>6, <1>7

\* And those that start a context.
LEMMA StartsSimulate ==
  ASSUME StackInv, Timeouts \/ WorkQueue \/ Arrival \/ \E w \in Writers : Write(w)
  PROVE  UNCHANGED Service!vars
<1>1. TypeInv /\ ShapeInv BY DEF StackInv
<1>2. radio' = radio /\ delivered' = delivered
  BY DEF Timeouts, WorkQueue, Arrival, Write, sack_expire, radio_rx, belowIfc, belowLpl, radioIfc,
         rxVars, uniqueVars
<1>3. PICK c \in Contexts, g \in Fns, a \in Int : Goes(c, "none", g, a) /\ g \notin InRadio
  BY <1>1, <1>2, Starts DEF TimerFns, InRadio, radio_done
<1> QED BY <1>2, <1>3, Quiet DEF InRadio

\* Every step of the stack is a step of the radio service, or none.
LEMMA Simulation == StackInv /\ [Next]_vars => [Service!Next]_(Service!vars)
<1> SUFFICES ASSUME StackInv, [Next]_vars PROVE Service!Next \/ UNCHANGED Service!vars
  OBVIOUS
<1>1. ASSUME NEW c \in Contexts, Run(c) PROVE Service!Next \/ UNCHANGED Service!vars
  <2>1. CASE SackStep(c) /\ UNCHANGED <<csmaVars, lplVars, rxVars, ifcVars, bounds>>
    BY <2>1, SackSimulates
  <2>2. CASE /\ radio' = radio
             /\ \/ UNCHANGED delivered /\ (CsmaStep(c) \/ LplStep(c) \/ RxStep(c) \/ WriteStep(c))
                \/ unique_rx_done(c)
    BY <2>2, OthersSimulate
  <2> QED BY <1>1, <2>1, <2>2 DEF Run, belowIfc, belowLpl, radioIfc, rxVars, uniqueVars
<1>2. CASE Timeouts \/ WorkQueue \/ Arrival \/ \E w \in Writers : Write(w)
  BY <1>2, StartsSimulate
<1>3. CASE RadioDone
  BY <1>3, ServiceFinish
<1>4. CASE (\E r \in Readers : Read(r) \/ ReadOn(r)) \/ Ioctl \/ UNCHANGED vars
  <2>1. UNCHANGED <<stack, radio>>
    BY <1>4 DEF Read, ReadOn, interface_read, read_signal, ReadStep, read_size, read_copy, read_fault,
                read_return, callVars, belowIfc, belowLpl, radioIfc, Ioctl, lpl_set_enabled, csma_set_enabled, vars
  <2> QED BY <2>1, QuietStill
<1> QED BY <1>1, <1>2, <1>3, <1>4 DEF Next

\* Every behaviour of the layers is one the radio's contract allows.
THEOREM UsesRadioService == Spec => UsesService
<1>1. Init => Service!Init
  <2> SUFFICES ASSUME Init PROVE Service!Init
    OBVIOUS
  <2>1. \A c \in Contexts : Idle(c)
    BY DEF Init, CallsInit, Idle
  <2>2. radio = NoPkt
    BY DEF Init, SackInit
  <2> QED BY <2>1, <2>2 DEF Service!Init, At
<1>2. StackInv /\ [Next]_vars => [Service!Next]_(Service!vars)
  BY Simulation
<1> QED BY <1>1, <1>2, StackInvariant, PTL DEF Spec, UsesService, Service!Spec
=============================================================================
