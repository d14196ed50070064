-------------------------- MODULE StackLayerProofs --------------------------
(***************************************************************************)
(* What single layers promise: csma.c when its setting is changed between  *)
(* writes only, read() of interface.c, whatever happens, the status that   *)
(* write() of interface.c returns to a process that writes alone, and the  *)
(* duplicate filter of unique.c, whatever arrives.                         *)
(***************************************************************************)
EXTENDS StackProofs

-----------------------------------------------------------------------------
(* csma.c, as long as it is switched on and off between writes only.       *)

\* Where the packet is before csma.c takes it and after csma.c gives it back
AboveCsma == {"lpl_tx", "csma_tx", "lpl_tx_done", "lpl_cancel", "interface_tx_done"}

\* csma.c is busy only with a packet that is below it, and then it is enabled;
\* while it is enabled only the work queue hands packets to sack.c
CsmaInv ==
  /\ csma_state # "IDLE" => /\ csma_enabled /\ waiting # {} /\ tx_done_sem = 0
                            /\ \A c \in Contexts : fnOf[c] \notin AboveCsma
  /\ csma_enabled => \A c \in Contexts : fnOf[c] = "sack_tx" => c = "wq"

\* A context moves, and does not give csma.c back a packet it is busy with.
LEMMA CsmaQuiet ==
  ASSUME CsmaInv, NEW c, NEW f, NEW g, NEW a, Goes(c, f, g, a), csma_enabled' = csma_enabled,
         csma_state' = csma_state \/ csma_state' = "IDLE",
         csma_state' # "IDLE" => /\ g \in AboveCsma => f \in AboveCsma
                                 /\ f \in AboveCsma \/ tx_done_sem' = tx_done_sem
                                 /\ c \in Writers /\ Waits(f) => Waits(g),
         g = "sack_tx" /\ csma_enabled => c = "wq"
  PROVE  CsmaInv'
<1>1. CASE csma_state' = "IDLE"
  BY <1>1, Moved DEF CsmaInv
<1>2. CASE csma_state' # "IDLE"
  <2>1. csma_state' = csma_state /\ csma_state # "IDLE" BY <1>2
  <2>2. PICK w \in Writers : Waits(fnOf[w]) BY <2>1 DEF CsmaInv, waiting
  <2>3. Waits(fnOf'[w]) BY <1>2, <2>2, Moved, Constants
  <2>4. waiting' # {} BY <2>3 DEF waiting
  <2> QED BY <1>2, <2>1, <2>4, Moved DEF CsmaInv
<1> QED BY <1>1, <1>2

\* The same for a function that returns.
LEMMA CsmaQuietEnd ==
  ASSUME CsmaInv, NEW c \in Contexts, NEW f, Ends(c, f), f # "write_wait",
         csma_enabled' = csma_enabled,
         csma_state' = csma_state \/ csma_state' = "IDLE",
         csma_state' # "IDLE" => f \in AboveCsma \/ tx_done_sem' = tx_done_sem
  PROVE  CsmaInv'
<1>1. PICK g \in Under(c, f), a \in Int : Goes(c, f, g, a) BY DEF Ends
<1>2. g \notin AboveCsma /\ g # "sack_tx" /\ (c \in Writers /\ Waits(f) => Waits(g))
  BY EndsTo DEF AboveCsma
<1> QED BY <1>1, <1>2, CsmaQuiet

\* Without a packet csma.c is idle.
LEMMA CsmaFree ==
  ASSUME StackInv, CsmaInv, tx_sem = 1
  PROVE  csma_state = "IDLE" /\ \A c \in Contexts : fnOf[c] # "sack_tx"
<1>1. waiting = {} BY DEF StackInv, MutexInv, waiting, Waits, Inside, OutsideFns
<1>2. holders = {} BY <1>1 DEF StackInv, TokenInv
<1> QED BY <1>1, <1>2 DEF CsmaInv, holders, Holding, Carriers

\* A step of sack.c.
LEMMA CsmaInvSack ==
  ASSUME StackInv, CsmaInv, NEW c \in Contexts, SackStep(c),
         UNCHANGED <<csmaVars, lplVars, rxVars, ifcVars, bounds>>
  PROVE  CsmaInv'
<1>1. TypeInv /\ ShapeInv /\ UNCHANGED <<delivered, csma_state, csma_enabled, tx_done_sem>>
  BY DEF StackInv, rxVars, uniqueVars, csmaVars, ifcVars
<1>2. ASSUME NEW f, Ends(c, f), f # "write_wait" PROVE CsmaInv'
  BY <1>1, <1>2, CsmaQuietEnd
<1>3. ASSUME NEW f, NEW g \in {"radio_tx", "csma_tx_done", "sack_cancel", "unique_rx_done"}, NEW a,
             Goes(c, f, g, a)
      PROVE  CsmaInv'
  BY <1>1, <1>3, CsmaQuiet DEF AboveCsma, Waits, OutsideFns
<1> QED BY <1>1, <1>2, <1>3, SackMoves

\* A step of csma.c: the one that takes the packet and becomes busy, those of the
\* backoff, and the one that gives it back.
LEMMA CsmaInvCsma ==
  ASSUME StackInv, CsmaInv, NEW c \in Contexts, CsmaStep(c),
         UNCHANGED <<sackVars, radioIfc, acked, lplVars, rxVars, ifcVars, bounds>>
  PROVE  CsmaInv'
<1>1. TypeInv /\ ShapeInv /\ TokenInv /\ UNCHANGED <<delivered, tx_done_sem, sack_state>>
  BY DEF StackInv, rxVars, uniqueVars, ifcVars, sackVars
<1>2. csma_enabled' = csma_enabled
  BY DEF CsmaStep, csma_tx, csma_timer_clear, csma_timer_busy, csma_tx_done, csmaVars
<1> USE DEF AboveCsma, Waits, OutsideFns
<1>3. CASE csma_tx(c) /\ ~csma_enabled /\ UNCHANGED <<armed, csmaVars>>
           /\ Goes(c, "csma_tx", "sack_tx", argOf[c])
  BY <1>1, <1>2, <1>3, CsmaQuiet DEF csmaVars
<1>4. CASE csma_tx(c) /\ csma_enabled /\ csma_state = "IDLE"
           /\ armed' = armed \cup {"csma_timer"} /\ Ends(c, "csma_tx")
  <2>1. PICK g \in Under(c, "csma_tx"), a \in Int : Goes(c, "csma_tx", g, a) BY <1>4 DEF Ends
  <2>2. g \notin AboveCsma \cup {"sack_tx"} /\ (c \in Writers => Waits(g)) BY EndsTo
  <2>3. c \in holders BY <2>1, Moved DEF holders, Holding, Carriers
  <2>4. holders = {c} /\ Elsewhere = 0 /\ waiting # {} BY <1>1, <2>3 DEF TokenInv
  <2>5. tx_done_sem = 0 BY <1>1, <2>4, Places
  <2>6. \A d \in Contexts \ {c} : fnOf[d] \notin AboveCsma
    BY <2>4 DEF holders, Holding, Carriers
  <2>7. waiting' # {}
    <3>1. PICK w \in Writers : Waits(fnOf[w]) BY <2>4 DEF waiting
    <3>2. Waits(fnOf'[w]) BY <2>1, <2>2, <3>1, Moved, Constants
    <3> QED BY <3>2 DEF waiting
  <2> QED BY <1>1, <1>2, <1>4, <2>1, <2>2, <2>5, <2>6, <2>7, Moved DEF CsmaInv
<1>5. CASE csma_tx(c) /\ Goes(c, "csma_tx", "lpl_tx_done", BUSY) /\ UNCHANGED <<armed, csmaVars>>
  BY <1>1, <1>2, <1>5, CsmaQuiet DEF csmaVars
<1>6. CASE csma_timer_clear(c) /\ Ends(c, "csma_timer_cb")
  <2>1. csma_state' = csma_state BY <1>6 DEF csma_timer_clear
  <2> QED BY <1>1, <1>2, <1>6, <2>1, CsmaQuietEnd
<1>7. CASE csma_timer_busy(c) /\ Goes(c, "csma_timer_cb", "lpl_tx_done", BUSY)
           /\ armed' = armed
  <2>1. csma_state' = "IDLE"
    <3>1. At(c, "csma_timer_cb") BY <1>7 DEF csma_timer_busy
    <3>2. CASE csma_state' = "CONG" /\ Return(c)
      <4>1. Ends(c, "csma_timer_cb") BY <1>1, <3>1, <3>2, Returns, Names
      <4>2. PICK g \in Under(c, "csma_timer_cb"), a \in Int : Goes(c, "csma_timer_cb", g, a)
        BY <4>1 DEF Ends
      <4>3. fnOf'[c] = g /\ fnOf'[c] = "lpl_tx_done" BY <1>7, <4>2, Moved
      <4> QED BY <4>2, <4>3, EndsTo
    <3> QED BY <1>7, <3>2 DEF csma_timer_busy
  <2> QED BY <1>1, <1>2, <1>7, <2>1, CsmaQuiet
<1>8. CASE csma_timer_busy(c) /\ Ends(c, "csma_timer_cb")
  <2>1. csma_state = "IDLE" => csma_state' = "IDLE" BY <1>8 DEF csma_timer_busy
  <2>2. PICK g \in Under(c, "csma_timer_cb"), a \in Int : Goes(c, "csma_timer_cb", g, a)
    BY <1>8 DEF Ends
  <2>3. g \notin AboveCsma \cup {"sack_tx"} /\ (c \in Writers => Waits(g)) BY EndsTo
  <2>4. csma_state # "IDLE" => waiting' # {}
    <3>1. ASSUME csma_state # "IDLE" PROVE waiting' # {}
      <4>1. PICK w \in Writers : Waits(fnOf[w]) BY <3>1 DEF CsmaInv, waiting
      <4>2. Waits(fnOf'[w]) BY <2>2, <2>3, <4>1, Moved, Constants
      <4> QED BY <4>2 DEF waiting
    <3> QED BY <3>1
  <2> QED BY <1>1, <1>2, <2>1, <2>2, <2>3, <2>4, Moved DEF CsmaInv
<1>9. CASE csma_tx_done(c) /\ Goes(c, "csma_tx_done", "lpl_tx_done", argOf[c])
  <2>1. csma_state' = IF csma_enabled THEN "IDLE" ELSE csma_state BY <1>9 DEF csma_tx_done
  <2>2. csma_state' = "IDLE" BY <2>1 DEF CsmaInv
  <2> QED BY <1>1, <1>2, <1>9, <2>2, CsmaQuiet
<1> QED BY <1>1, <1>3, <1>4, <1>5, <1>6, <1>7, <1>8, <1>9, CsmaMoves

\* The other layers and the device.
LEMMA CsmaInvOthers ==
  ASSUME StackInv, CsmaInv, NEW c \in Contexts, UNCHANGED csmaVars,
         \/ LplStep(c) /\ UNCHANGED <<delivered, tx_done_sem>>
         \/ unique_rx_done(c) /\ UNCHANGED tx_done_sem
         \/ RxStep(c) /\ UNCHANGED <<delivered, tx_done_sem>>
         \/ WriteStep(c) /\ UNCHANGED delivered
  PROVE  CsmaInv'
<1>1. TypeInv /\ ShapeInv /\ UNCHANGED <<csma_state, csma_enabled>>
  BY DEF StackInv, csmaVars
<1>2. ASSUME NEW f, Ends(c, f), f # "write_wait", tx_done_sem' = tx_done_sem \/ f \in AboveCsma
      PROVE  CsmaInv'
  BY <1>1, <1>2, CsmaQuietEnd
<1> USE DEF AboveCsma, Waits, OutsideFns
<1>3. ASSUME NEW f, NEW g \in {"csma_tx", "interface_tx_done", "lpl_cancel"}, NEW a, Goes(c, f, g, a),
             f \in {"lpl_tx", "lpl_tx_done", "lpl_cancel"}, tx_done_sem' = tx_done_sem
      PROVE  CsmaInv'
  BY <1>1, <1>3, CsmaQuiet
<1>4. CASE LplStep(c) /\ UNCHANGED <<delivered, tx_done_sem>>
  BY <1>1, <1>2, <1>3, <1>4, LplMoves
<1>5. ASSUME NEW f, NEW g \in {"interface_rx_done", "rx_copy"}, NEW a, Goes(c, f, g, a),
             tx_done_sem' = tx_done_sem, c = "spi"
      PROVE  CsmaInv'
  BY <1>1, <1>5, CsmaQuiet
<1>6. CASE unique_rx_done(c) /\ UNCHANGED tx_done_sem
  BY <1>1, <1>2, <1>5, <1>6, UniqueMoves
<1>7. CASE RxStep(c) /\ UNCHANGED <<delivered, tx_done_sem>>
  <2>1. CASE UNCHANGED stack
    <3>1. fnOf' = fnOf /\ waiting' = waiting BY <2>1 DEF fnOf, waiting
    <3> QED BY <1>1, <1>7, <3>1 DEF CsmaInv
  <2> QED BY <1>1, <1>2, <1>5, <1>7, <2>1, RxMoves
<1>8. CASE WriteStep(c) /\ UNCHANGED delivered
  <2>1. CASE write_down(c) /\ Goes(c, "write_down", "lpl_tx", argOf[c])
    <3>1. tx_sem = 1 BY <2>1 DEF write_down
    <3>2. csma_state = "IDLE" BY <3>1, CsmaFree
    <3> QED BY <1>1, <2>1, <3>2, CsmaQuiet
  <2>2. CASE write_refused(c) /\ Ends(c, "write_down")
    BY <1>2, <2>2 DEF write_refused
  <2>3. CASE write_wait(c) /\ Goes(c, "write_wait", "write_up", 0)
    <3>1. tx_done_sem > 0 BY <2>3 DEF write_wait
    <3>2. csma_state = "IDLE" BY <3>1 DEF CsmaInv
    <3> QED BY <1>1, <2>3, <3>2, CsmaQuiet
  <2>4. CASE write_up(c) /\ Goes(c, "write_up", "write_return", 0)
    <3>1. tx_done_sem' = tx_done_sem BY <2>4 DEF write_up
    <3> QED BY <1>1, <2>4, <3>1, CsmaQuiet
  <2>5. CASE write_return(c) /\ Ends(c, "write_return")
    BY <1>2, <2>5 DEF write_return
  <2>6. CASE Ends(c, "interface_tx_done")
    BY <1>2, <2>6
  <2> QED BY <1>1, <1>8, <2>1, <2>2, <2>3, <2>4, <2>5, <2>6, WriteMoves
<1> QED BY <1>4, <1>6, <1>7, <1>8

\* What starts a context, and the ioctls.
LEMMA CsmaInvStarts ==
  ASSUME StackInv, CsmaInv,
         Timeouts \/ WorkQueue \/ RadioDone \/ Arrival \/ \E w \in Writers : Write(w)
  PROVE  CsmaInv'
<1>1. TypeInv /\ ShapeInv /\ UNCHANGED <<csma_state, csma_enabled, tx_done_sem, delivered>>
  BY DEF StackInv, Timeouts, WorkQueue, RadioDone, Arrival, Write, csma_expire, csma_wq,
         interface_write, belowIfc, belowLpl, csmaVars, rxVars, uniqueVars, ifcVars
<1>2. PICK c \in Contexts, g \in Fns, a \in Int :
        Goes(c, "none", g, a) /\ g \notin AboveCsma /\ (g = "sack_tx" => c = "wq")
  BY <1>1, Starts DEF TimerFns, AboveCsma
<1> QED BY <1>1, <1>2, CsmaQuiet DEF Waits

\* Readers do not touch csma.c, and its setting changes only without a packet.
LEMMA CsmaInvStill ==
  ASSUME StackInv, CsmaInv, Toggles = "between",
         (\E r \in Readers : Read(r) \/ ReadOn(r)) \/ Ioctl \/ UNCHANGED vars
  PROVE  CsmaInv'
<1>1. UNCHANGED <<stack, tx_done_sem, csma_state>>
  BY DEF Read, ReadOn, interface_read, read_signal, ReadStep, read_size, read_copy, read_fault,
         read_return, callVars, belowIfc, belowLpl, csmaVars, ifcVars, Ioctl, lpl_set_enabled,
         csma_set_enabled, vars
<1>2. fnOf' = fnOf /\ waiting' = waiting
  BY <1>1 DEF fnOf, waiting
<1>3. CASE csma_enabled' = csma_enabled
  BY <1>1, <1>2, <1>3 DEF CsmaInv
<1>4. CASE csma_enabled' # csma_enabled
  <2>1. tx_sem = 1
    BY <1>4 DEF Read, ReadOn, belowIfc, belowLpl, csmaVars, Ioctl, vars
  <2> QED BY <1>1, <1>2, <2>1, CsmaFree DEF CsmaInv
<1> QED BY <1>3, <1>4

\* csma.c is busy only with a packet that is below it.
LEMMA CsmaInvariant == ASSUME Toggles = "between" PROVE Spec => []CsmaInv
<1>1. Init => CsmaInv
  <2> SUFFICES ASSUME Init PROVE CsmaInv
    OBVIOUS
  <2>1. stack = [c \in Contexts |-> <<>>] /\ csma_state = "IDLE"
    BY DEF Init, CallsInit, CsmaInit
  <2>2. \A c \in Contexts : fnOf[c] = "none" BY <2>1 DEF fnOf
  <2> QED BY <2>1, <2>2 DEF CsmaInv
<1>2. StackInv /\ CsmaInv /\ [Next]_vars => CsmaInv'
  <2> SUFFICES ASSUME StackInv, CsmaInv, [Next]_vars PROVE CsmaInv'
    OBVIOUS
  <2>1. ASSUME NEW c \in Contexts, Run(c) PROVE CsmaInv'
    BY <2>1, CsmaInvSack, CsmaInvCsma, CsmaInvOthers
       DEF Run, belowIfc, belowLpl, rxVars, uniqueVars, ifcVars
  <2>2. CASE Timeouts \/ WorkQueue \/ RadioDone \/ Arrival \/ \E w \in Writers : Write(w)
    BY <2>2, CsmaInvStarts
  <2>3. CASE (\E r \in Readers : Read(r) \/ ReadOn(r)) \/ Ioctl \/ UNCHANGED vars
    BY <2>3, CsmaInvStill
  <2> QED BY <2>1, <2>2, <2>3 DEF Next
<1> QED BY <1>1, <1>2, StackInvariant, PTL DEF Spec

\* csma_tx always finds csma.c idle, with any number of writers: no write() and
\* no retransmission is refused with BUSY because another packet is under way.
THEOREM CsmaIsIdleOnTx == ASSUME Toggles = "between" PROVE Spec => []CsmaIdleOnTx
<1>1. CsmaInv => CsmaIdleOnTx
  <2> SUFFICES ASSUME CsmaInv, NEW c \in Contexts, At(c, "csma_tx") PROVE csma_state = "IDLE"
    BY DEF CsmaIdleOnTx
  <2>1. fnOf[c] = "csma_tx" BY Running, Names
  <2> QED BY <2>1 DEF CsmaInv, AboveCsma
<1> QED BY <1>1, CsmaInvariant, PTL

\* With CSMA enabled every packet, also one that LPL sends again, is handed to
\* sack_tx by the work queue and never by a timer callback or an interrupt.
THEOREM CsmaDefersEveryTx == ASSUME Toggles = "between" PROVE Spec => []CsmaDefersTx
<1>1. CsmaInv => CsmaDefersTx
  <2> SUFFICES ASSUME CsmaInv, csma_enabled, NEW c \in Irqs, At(c, "sack_tx") PROVE FALSE
    BY DEF CsmaDefersTx, NoTxFromIrq
  <2>1. c \in Contexts /\ c # "wq" BY Constants DEF Irqs, Timers
  <2>2. fnOf[c] = "sack_tx" BY <2>1, Running, Names
  <2> QED BY <2>1, <2>2 DEF CsmaInv
<1> QED BY <1>1, CsmaInvariant, PTL

-----------------------------------------------------------------------------
(* read().                                                                 *)

\* No part of the buffer is ahead of the length, and a frame on its way up is newer
\* than both
RxInv ==
  /\ \A p \in Parts : rx_buf_c[p] <= rx_pkt_len
  /\ fnOf["spi"] = "interface_rx_done" => rx_pkt_len < argOf["spi"]
  /\ fnOf["spi"] = "rx_copy" => argOf["spi"] = rx_pkt_len

\* What a process has seen of them, at each stage of its read(): the buffer holds
\* nothing older than what woke it, and the length nothing older than what it has
ReaderInv(r) ==
  /\ reader[r] = "asleep" => got[r] = Nothing
  /\ reader[r] # "idle" => got[r].len = 0
  /\ reader[r] \in {"awake", "copying"} => \A p \in Parts :
       /\ got[r].woken <= rx_buf_c[p]
       /\ got[r].buf[p] # Unread => got[r].woken <= got[r].buf[p] /\ got[r].buf[p] <= rx_pkt_len
  /\ reader[r] = "copying" => got[r].woken <= got[r].size /\ got[r].size <= rx_pkt_len
  /\ HasRead(r) => /\ got[r].woken <= got[r].size /\ got[r].size <= got[r].len
                   /\ \A p \in Parts : got[r].woken <= got[r].buf[p] /\ got[r].buf[p] <= got[r].len

ReadInv == RxInv /\ \A r \in Readers : ReaderInv(r)

\* Nothing is on its way to the buffer, and no process moves.
LEMMA ReadQuiet ==
  ASSUME ReadInv, NEW c, NEW f, NEW g, NEW a, Goes(c, f, g, a), UNCHANGED readVars,
         g \notin {"interface_rx_done", "rx_copy"}
  PROVE  ReadInv'
<1>1. fnOf'["spi"] = g \/ (fnOf'["spi"] = fnOf["spi"] /\ argOf'["spi"] = argOf["spi"])
  <2>1. "spi" \in Contexts BY Constants
  <2>2. CASE c = "spi"
    <3>1. fnOf'[c] = g BY Moved
    <3> QED BY <2>2, <3>1
  <2>3. CASE c # "spi" BY <2>1, <2>3, Moved
  <2> QED BY <2>2, <2>3
<1>2. UNCHANGED <<rx_buf_c, rx_pkt_len, reader, got>> BY DEF readVars
<1>3. RxInv' BY <1>1, <1>2 DEF ReadInv, RxInv
<1>4. \A r \in Readers : ReaderInv(r)'
  BY <1>2 DEF ReadInv, ReaderInv, HasRead
<1> QED BY <1>3, <1>4 DEF ReadInv

\* The same for a function that returns.
LEMMA ReadQuietEnd ==
  ASSUME ReadInv, NEW c \in Contexts, NEW f, Ends(c, f), UNCHANGED readVars
  PROVE  ReadInv'
<1>1. PICK g \in Under(c, f), a \in Int : Goes(c, f, g, a) BY DEF Ends
<1>2. g \notin {"interface_rx_done", "rx_copy"} BY EndsTo
<1> QED BY <1>1, <1>2, ReadQuiet

\* The transmit path.
LEMMA ReadInvTx ==
  ASSUME StackInv, ReadInv, NEW c \in Contexts, UNCHANGED <<delivered, readVars>>,
         SackStep(c) \/ CsmaStep(c) \/ LplStep(c) \/ WriteStep(c)
  PROVE  ReadInv'
<1>1. TypeInv /\ ShapeInv BY DEF StackInv
<1>2. ASSUME NEW f, Ends(c, f) PROVE ReadInv'
  BY <1>2, ReadQuietEnd
<1>3. ASSUME NEW f, NEW g, NEW a, Goes(c, f, g, a), g \notin {"interface_rx_done", "rx_copy"}
      PROVE  ReadInv'
  BY <1>3, ReadQuiet
<1>4. CASE SackStep(c) BY <1>1, <1>2, <1>3, <1>4, SackMoves
<1>5. CASE CsmaStep(c) BY <1>1, <1>2, <1>3, <1>5, CsmaMoves
<1>6. CASE LplStep(c) BY <1>1, <1>2, <1>3, <1>6, LplMoves
<1>7. CASE WriteStep(c) BY <1>1, <1>2, <1>3, <1>7, WriteMoves
<1> QED BY <1>4, <1>5, <1>6, <1>7

\* unique.c hands up a frame that is newer than what the device has.
LEMMA ReadInvUnique ==
  ASSUME StackInv, ReadInv, NEW c \in Contexts, unique_rx_done(c), UNCHANGED readVars
  PROVE  ReadInv'
<1>1. TypeInv /\ ShapeInv BY DEF StackInv
<1>2. CASE Ends(c, "unique_rx_done") BY <1>2, ReadQuietEnd
<1>3. CASE Len(delivered') = Len(delivered) + 1 /\ c = "spi"
           /\ Goes(c, "unique_rx_done", "interface_rx_done", Len(delivered'))
  <2>1. UNCHANGED <<rx_buf_c, rx_pkt_len, reader, got>> BY DEF readVars
  <2>2. rx_pkt_len \in 0..Len(delivered) /\ Len(delivered) \in Nat
    BY <1>1 DEF TypeInv, UniqueTypeOK, InterfaceTypeOK
  <2>3. fnOf'["spi"] = "interface_rx_done" /\ argOf'["spi"] = Len(delivered') BY <1>3, Moved
  <2>4. RxInv' BY <1>3, <2>1, <2>2, <2>3 DEF ReadInv, RxInv
  <2>5. \A r \in Readers : ReaderInv(r)'
    BY <2>1 DEF ReadInv, ReaderInv, HasRead
  <2> QED BY <2>4, <2>5 DEF ReadInv
<1> QED BY <1>1, <1>2, <1>3, UniqueMoves

\* The types, as numbers.
LEMMA ReadTypes ==
  ASSUME StackInv
  PROVE  /\ Len(delivered) \in Nat /\ rx_pkt_len \in Nat
         /\ rx_buf_c \in [Parts -> Nat]
         /\ reader \in [Readers -> {"idle", "asleep", "awake", "copying"}]
         /\ got \in [Readers -> [woken : Nat, size : Nat, buf : [Parts -> Nat \cup {Unread}], len : Nat]]
<1>1. InterfaceTypeOK /\ Len(delivered) \in Nat BY DEF StackInv, TypeInv, UniqueTypeOK
<1>2. [Parts -> 0..Len(delivered) \cup {Unread}] \subseteq [Parts -> Nat \cup {Unread}]
  OBVIOUS
<1>3. Reads(Len(delivered))
        \subseteq [woken : Nat, size : Nat, buf : [Parts -> Nat \cup {Unread}], len : Nat]
  BY <1>2 DEF Reads
<1>4. got \in [Readers -> Reads(Len(delivered))] BY <1>1 DEF InterfaceTypeOK, Reads
<1> QED BY <1>1, <1>3, <1>4 DEF InterfaceTypeOK

\* The device takes it: first the length, then the bytes, part by part, and then it
\* wakes the processes that sleep.
LEMMA ReadInvRx ==
  ASSUME StackInv, ReadInv, NEW c \in Contexts, RxStep(c), UNCHANGED delivered
  PROVE  ReadInv'
<1>1. TypeInv /\ ShapeInv BY DEF StackInv, TypeInv
<1>2. /\ Len(delivered) \in Nat /\ rx_pkt_len \in Nat /\ rx_buf_c \in [Parts -> Nat]
      /\ \A r \in Readers : /\ got[r].woken \in Nat /\ got[r].size \in Nat /\ got[r].len \in Nat
                             /\ \A p \in Parts : got[r].buf[p] \in Nat \cup {Unread}
  BY ReadTypes
<1>3. CASE interface_rx_done(c) /\ c = "spi" /\ argOf[c] = Arg(c) /\ argOf[c] \in 1..Len(delivered)
           /\ Goes(c, "interface_rx_done", "rx_copy", argOf[c])
  <2>1. rx_pkt_len' = argOf["spi"] /\ UNCHANGED <<rx_buf_c, reader, got>>
    BY <1>3 DEF interface_rx_done
  <2>2. fnOf'["spi"] = "rx_copy" /\ argOf'["spi"] = argOf["spi"] /\ fnOf["spi"] = "interface_rx_done"
    BY <1>3, Moved
  <2>3. rx_pkt_len < rx_pkt_len' /\ rx_pkt_len' \in Nat
    BY <1>2, <1>3, <2>1, <2>2 DEF ReadInv, RxInv
  <2>4. RxInv' BY <1>2, <2>1, <2>2, <2>3 DEF ReadInv, RxInv
  <2>5. ASSUME NEW r \in Readers PROVE ReaderInv(r)'
    <3>1. ReaderInv(r) BY DEF ReadInv
    <3> QED BY <1>2, <2>1, <2>3, <3>1 DEF ReaderInv, HasRead, Unread
  <2> QED BY <2>4, <2>5 DEF ReadInv
<1>4. CASE rx_copy(c) /\ c = "spi" /\ argOf[c] = Arg(c) /\ UNCHANGED stack /\ fnOf[c] = "rx_copy"
  <2>1. argOf["spi"] = rx_pkt_len BY <1>4 DEF ReadInv, RxInv
  <2>2. UNCHANGED <<rx_pkt_len, reader, got>>
        /\ \E p \in Parts : rx_buf_c' = [rx_buf_c EXCEPT ![p] = rx_pkt_len]
    BY <1>4, <2>1 DEF rx_copy
  <2>3. fnOf' = fnOf /\ argOf' = argOf BY <1>4 DEF fnOf, argOf
  <2>4. \A p \in Parts : rx_buf_c[p] <= rx_buf_c'[p] /\ rx_buf_c'[p] <= rx_pkt_len /\ rx_buf_c'[p] \in Nat
    BY <1>2, <2>2 DEF ReadInv, RxInv
  <2>5. RxInv' BY <2>2, <2>3, <2>4 DEF ReadInv, RxInv
  <2>6. ASSUME NEW r \in Readers PROVE ReaderInv(r)'
    <3>1. ReaderInv(r) BY DEF ReadInv
    <3>2. ASSUME NEW p \in Parts, got[r].woken <= rx_buf_c[p] PROVE got[r].woken <= rx_buf_c'[p]
      <4>1. got[r].woken \in Nat /\ rx_buf_c[p] \in Nat /\ rx_buf_c'[p] \in Nat /\ rx_buf_c[p] <= rx_buf_c'[p]
        BY <1>2, <2>4
      <4> QED BY <3>2, <4>1
    <3> QED BY <2>2, <3>1, <3>2 DEF ReaderInv, HasRead
  <2> QED BY <2>5, <2>6 DEF ReadInv
<1>5. CASE rx_wake(c) /\ c = "spi" /\ argOf[c] = Arg(c) /\ argOf[c] \in 1..Len(delivered)
           /\ Ends(c, "rx_copy")
  <2>1. UNCHANGED <<rx_buf_c, rx_pkt_len>> /\ wake_up(argOf[c])
        /\ \A p \in Parts : rx_buf_c[p] = argOf[c]
    BY <1>5 DEF rx_wake
  <2>2. PICK a \in Int : Goes(c, "rx_copy", "none", a)
    BY <1>5, EndsTo, Constants DEF Ends
  <2>3. fnOf'["spi"] = "none" BY <1>5, <2>2, Moved
  <2>4. RxInv' BY <2>1, <2>3 DEF ReadInv, RxInv
  <2>5. ASSUME NEW r \in Readers PROVE ReaderInv(r)'
    <3>1. ReaderInv(r) BY DEF ReadInv
    <3>2. CASE reader[r] = "asleep"
      <4>1. reader'[r] = "awake" /\ got'[r] = [Nothing EXCEPT !.woken = argOf[c]]
        BY <2>1, <3>1, <3>2 DEF wake_up, ReaderInv
      <4>2. got'[r].woken = argOf[c] /\ got'[r].len = 0 /\ \A p \in Parts : got'[r].buf[p] = Unread
        BY <4>1 DEF Nothing
      <4>3. argOf[c] \in Nat BY <1>5
      <4> QED BY <2>1, <4>1, <4>2, <4>3 DEF ReaderInv, HasRead
    <3>3. CASE reader[r] # "asleep"
      <4>1. reader'[r] = reader[r] /\ got'[r] = got[r] BY <2>1, <3>3 DEF wake_up
      <4> QED BY <2>1, <3>1, <4>1 DEF ReaderInv, HasRead
    <3> QED BY <3>2, <3>3
  <2> QED BY <2>4, <2>5 DEF ReadInv
<1> QED BY <1>1, <1>3, <1>4, <1>5, RxMoves

\* A process moves on in read().
LEMMA ReadInvRead ==
  ASSUME StackInv, ReadInv, NEW r \in Readers, Read(r) \/ ReadOn(r)
  PROVE  ReadInv'
<1>1. UNCHANGED <<stack, rx_buf_c, rx_pkt_len>>
  BY DEF Read, ReadOn, ReadStep, interface_read, read_signal, read_size, read_copy, read_fault,
         read_return, callVars
<1>2. fnOf' = fnOf /\ argOf' = argOf BY <1>1 DEF fnOf, argOf
<1>3. RxInv' BY <1>1, <1>2 DEF ReadInv, RxInv
<1>4. rx_pkt_len \in Nat /\ rx_buf_c \in [Parts -> Nat] /\ \A p \in Parts : rx_buf_c[p] <= rx_pkt_len
  BY ReadTypes DEF ReadInv, RxInv
<1>5. /\ reader \in [Readers -> {"idle", "asleep", "awake", "copying"}]
      /\ got \in [Readers -> [woken : Nat, size : Nat, buf : [Parts -> Nat \cup {Unread}], len : Nat]]
  BY ReadTypes
<1>6. ASSUME NEW q \in Readers \ {r} PROVE ReaderInv(q)'
  <2>1. reader'[q] = reader[q] /\ got'[q] = got[q]
    BY <1>5 DEF Read, ReadOn, ReadStep, interface_read, read_signal, read_size, read_copy,
                read_fault, read_return
  <2> QED BY <1>1, <2>1 DEF ReadInv, ReaderInv, HasRead
<1>7. ReaderInv(r) BY DEF ReadInv
<1>8. ReaderInv(r)'
  <2>1. CASE interface_read(r)
    <3>1. reader'[r] = "asleep" /\ got'[r] = Nothing BY <1>5, <2>1 DEF interface_read
    <3> QED BY <3>1 DEF ReaderInv, HasRead, Nothing
  <2>2. CASE read_signal(r)
    <3>1. reader[r] = "asleep" /\ reader'[r] = "awake" /\ got'[r] = Nothing
      BY <1>5, <1>7, <2>2 DEF read_signal, ReaderInv
    <3> QED BY <1>1, <1>4, <3>1 DEF ReaderInv, HasRead, Nothing
  <2>3. CASE read_size(r)
    <3>1. reader[r] = "awake" /\ reader'[r] = "copying" BY <1>5, <2>3 DEF read_size
    <3>2. got'[r] = [got[r] EXCEPT !.size = rx_pkt_len] BY <1>5, <2>3 DEF read_size
    <3>3. got[r].woken <= rx_pkt_len
      <4>1. "head" \in Parts /\ got[r].woken \in Nat BY <1>5 DEF Parts
      <4>2. got[r].woken <= rx_buf_c["head"] /\ rx_buf_c["head"] <= rx_pkt_len
        BY <1>4, <1>7, <3>1, <4>1 DEF ReaderInv
      <4> QED BY <1>4, <4>1, <4>2
    <3>4. /\ got'[r].woken = got[r].woken /\ got'[r].size = rx_pkt_len
          /\ got'[r].buf = got[r].buf /\ got'[r].len = got[r].len
      BY <1>5, <3>2
    <3> QED BY <1>1, <1>4, <1>7, <3>1, <3>3, <3>4 DEF ReaderInv, HasRead
  <2>4. CASE read_copy(r)
    <3>1. reader[r] = "copying" /\ reader'[r] = "copying" BY <2>4 DEF read_copy
    <3>2. PICK p \in Parts : got' = [got EXCEPT ![r].buf[p] = rx_buf_c[p]]
      BY <2>4 DEF read_copy
    <3>3. /\ got'[r].woken = got[r].woken /\ got'[r].size = got[r].size /\ got'[r].len = got[r].len
          /\ got'[r].buf = [got[r].buf EXCEPT ![p] = rx_buf_c[p]]
      BY <1>5, <3>2
    <3>4. \A q \in Parts : got'[r].buf[q] = (IF q = p THEN rx_buf_c[p] ELSE got[r].buf[q])
      BY <1>5, <3>3
    <3> QED BY <1>1, <1>4, <1>7, <3>1, <3>3, <3>4 DEF ReaderInv, HasRead
  <2>5. CASE read_fault(r)
    <3>1. reader'[r] = "idle" /\ got'[r] = Nothing BY <1>5, <2>5 DEF read_fault
    <3> QED BY <3>1 DEF ReaderInv, HasRead, Nothing
  <2>6. CASE read_return(r)
    <3>1. reader[r] = "copying" /\ reader'[r] = "idle" /\ \A p \in Parts : got[r].buf[p] # Unread
      BY <1>5, <2>6 DEF read_return
    <3>2. got'[r] = [got[r] EXCEPT !.len = rx_pkt_len] BY <1>5, <2>6 DEF read_return
    <3>3. /\ got'[r].woken = got[r].woken /\ got'[r].size = got[r].size
          /\ got'[r].buf = got[r].buf /\ got'[r].len = rx_pkt_len
      BY <1>5, <3>2
    <3> QED BY <1>1, <1>4, <1>7, <3>1, <3>3 DEF ReaderInv, HasRead
  <2> QED BY <2>1, <2>2, <2>3, <2>4, <2>5, <2>6 DEF Read, ReadOn, ReadStep
<1> QED BY <1>3, <1>6, <1>8 DEF ReadInv

\* What starts a context.
LEMMA ReadInvStarts ==
  ASSUME StackInv, ReadInv,
         Timeouts \/ WorkQueue \/ RadioDone \/ Arrival \/ \E w \in Writers : Write(w)
  PROVE  ReadInv'
<1>1. TypeInv /\ ShapeInv /\ UNCHANGED <<readVars, delivered>>
  BY DEF StackInv, Timeouts, WorkQueue, RadioDone, Arrival, Write, rxVars, uniqueVars
<1>2. PICK c \in Contexts, g \in Fns, a \in Int : Goes(c, "none", g, a)
        /\ g \notin {"interface_rx_done", "rx_copy"}
  BY <1>1, Starts DEF TimerFns
<1> QED BY <1>1, <1>2, ReadQuiet

\* The buffer and the two counts that read() and the receive path share stay in step.
LEMMA ReadInvariant == Spec => []ReadInv
<1>1. Init => ReadInv
  <2> SUFFICES ASSUME Init PROVE ReadInv
    OBVIOUS
  <2>1. stack = [c \in Contexts |-> <<>>] /\ InterfaceInit BY DEF Init, CallsInit
  <2>2. fnOf["spi"] = "none" BY <2>1, Constants DEF fnOf
  <2> QED BY <2>1, <2>2 DEF ReadInv, RxInv, ReaderInv, HasRead, InterfaceInit, Nothing
<1>2. StackInv /\ ReadInv /\ [Next]_vars => ReadInv'
  <2> SUFFICES ASSUME StackInv, ReadInv, [Next]_vars PROVE ReadInv'
    OBVIOUS
  <2>1. ASSUME NEW c \in Contexts, Run(c) PROVE ReadInv'
    BY <2>1, ReadInvTx, ReadInvUnique, ReadInvRx DEF Run, rxVars, uniqueVars
  <2>2. CASE Timeouts \/ WorkQueue \/ RadioDone \/ Arrival \/ \E w \in Writers : Write(w)
    BY <2>2, ReadInvStarts
  <2>3. ASSUME NEW r \in Readers, Read(r) \/ ReadOn(r) PROVE ReadInv'
    BY <2>3, ReadInvRead
  <2>4. CASE Ioctl \/ UNCHANGED vars
    <3>1. UNCHANGED <<stack, rx_buf_c, rx_pkt_len, reader, got>>
      BY <2>4 DEF Ioctl, lpl_set_enabled, csma_set_enabled, vars, callVars, rxVars, readVars
    <3>2. fnOf' = fnOf /\ argOf' = argOf BY <3>1 DEF fnOf, argOf
    <3> QED BY <3>1, <3>2 DEF ReadInv, RxInv, ReaderInv, HasRead
  <2> QED BY <2>1, <2>2, <2>3, <2>4 DEF Next
<1> QED BY <1>1, <1>2, StackInvariant, PTL DEF Spec

\* For any number of processes, frames and signals, and however the two copies
\* overtake each other, nothing that a read() returns is older than the frame that
\* woke it, and nothing is newer than the length it returns.
THEOREM ReadIsFresh == Spec => []ReadFresh
<1>1. ReadInv => ReadFresh BY DEF ReadInv, ReaderInv, ReadFresh
<1> QED BY <1>1, ReadInvariant, PTL

-----------------------------------------------------------------------------
(* What write() returns, with one process that writes: tx_result is read   *)
(* after tx_sem is given back, so a second process could change it.        *)

OneWriter == \A v, w \in Writers : v = w

\* The settings have not been changed while a packet was being written
Steady == Toggles = "between" \/ ntoggles = 0

\* The packet is sent once
Plain == ~lpl_enabled /\ ntoggles = 0

\* An acknowledgement arrives only for what was sent, and has arrived when it is
\* looked at
HeardInv ==
  /\ acked \subseteq heard
  /\ fnOf["spi"] = "sack_rx_done" /\ Acknowledges(argOf["spi"])
       => \E p \in acked : Dsn[p] = Frames[argOf["spi"]].dsn

\* What packet p is on its way with: it has not been sent, or it has been reported
\* with status s
Fresh(p) == Plain => p \notin heard
Sent(p)  == Plain => p \in heard
Good(s, p) ==
  /\ s = SUCCESS => (p \in AckReq => p \in acked) /\ Sent(p)
  /\ s = BUSY => Fresh(p)
  /\ s = FAILED => Fresh(p) /\ (Plain => p \notin AckReq)
  /\ s = ACK_TIMEOUT => (Plain => p \in AckReq)

\* lpl.c has the packet that is below it
Kept(p) == lpl_enabled => lpl_tx_buf = p

\* What is known of p in the context that passes it on
Fits(fn, arg, p) ==
  Holding(fn, arg, sack_state) =>
    /\ fn \notin {"lpl_tx", "lpl_cancel", "interface_tx_done"} => Kept(p)
    /\ fn \in {"lpl_tx", "csma_tx", "sack_tx", "radio_tx"} => arg = p /\ Fresh(p)
    /\ fn = "csma_timer_cb" => csma_tx_buf = p /\ Fresh(p)
    /\ fn \in {"radio_tx", "sack_tx_done"} => sack_tx_buf = p
    /\ fn = "sack_tx_done" => IF arg = SUCCESS THEN Sent(p) ELSE Fresh(p)
    /\ fn \in {"csma_tx_done", "lpl_tx_done", "interface_tx_done"} => Good(arg, p)
    /\ fn \in {"sack_cancel", "lpl_cancel"} => Good(SUCCESS, p)

\* And in the places outside the calls
Stored(p) ==
  /\ "csma_timer" \in armed \/ work => csma_tx_buf = p /\ Fresh(p) /\ Kept(p)
  /\ radio \notin {NoPkt, AckPkt} => radio = p /\ sack_tx_buf = p /\ Fresh(p) /\ Kept(p)
  /\ sack_state = "TX_WAIT" => sack_tx_buf = p /\ Kept(p) /\ p \in AckReq
  /\ tx_done_sem = 1 => Good(tx_result, p)

\* And before and after the writer waits for it
Outside(w) ==
  /\ fnOf[w] = "write_down" => argOf[w] = writing[w] /\ Fresh(writing[w])
  /\ fnOf[w] \in {"write_up", "write_return"} => Good(tx_result, writing[w])
  /\ fnOf[w] = "none" /\ writing[w] # NoPkt =>
       \E s \in Statuses : /\ Good(s, writing[w])
                          /\ ret[w] = IF s = SUCCESS THEN PktLen ELSE s

\* Packets are numbered as they are written
Numbered(p) == p \in {NoPkt, nwrites} /\ \A q \in heard : q <= nwrites

Follows(w) ==
  /\ \A c \in Contexts : Fits(fnOf[c], argOf[c], writing[w])
  /\ Stored(writing[w])
  /\ Outside(w)
  /\ Numbered(writing[w])

StatusInv == Steady => \A w \in Writers : Follows(w)

-----------------------------------------------------------------------------
(* How they change when one context moves.                                 *)

\* A state in which the packet is in a place that has what belongs to it.
LEMMA Settles ==
  \A w \in Writers :
    /\ OneWriter /\ StackInv /\ Numbered(writing[w])
    /\ \/ \E c \in holders : Fits(fnOf[c], argOf[c], writing[w])
       \/ Elsewhere # 0 /\ Stored(writing[w])
       \/ w \notin waiting /\ Outside(w)
    => Follows(w)
<1> SUFFICES ASSUME OneWriter, NEW w \in Writers, StackInv, Numbered(writing[w]),
                    \/ \E c \in holders : Fits(fnOf[c], argOf[c], writing[w])
                    \/ Elsewhere # 0 /\ Stored(writing[w])
                    \/ w \notin waiting /\ Outside(w)
             PROVE  Follows(w)
  OBVIOUS
<1>1. TokenInv /\ TypeInv BY DEF StackInv
<1>2. waiting \subseteq {w} BY DEF waiting, OneWriter
<1>3. ASSUME NEW c \in Contexts, c \notin holders PROVE Fits(fnOf[c], argOf[c], writing[w])
  BY <1>3 DEF holders, Fits
<1>4. Elsewhere = 0 => Stored(writing[w])
  BY <1>1, Places, Constants DEF Stored
<1>5. w \in waiting => Outside(w)
  BY DEF waiting, Waits, OutsideFns, Outside
<1>6. CASE \E c \in holders : Fits(fnOf[c], argOf[c], writing[w])
  <2>1. PICK c \in holders : Fits(fnOf[c], argOf[c], writing[w]) BY <1>6
  <2>2. holders = {c} /\ Elsewhere = 0 /\ w \in waiting BY <1>1, <1>2 DEF TokenInv
  <2> QED BY <1>3, <1>4, <1>5, <2>1, <2>2 DEF Follows
<1>7. CASE Elsewhere # 0 /\ Stored(writing[w])
  <2>1. holders = {} /\ w \in waiting BY <1>1, <1>2, <1>7 DEF TokenInv
  <2> QED BY <1>3, <1>5, <1>7, <2>1 DEF Follows
<1>8. CASE w \notin waiting /\ Outside(w)
  <2>1. waiting = {} BY <1>2, <1>8
  <2>2. holders = {} /\ Elsewhere = 0 BY <1>1, <2>1 DEF TokenInv
  <2> QED BY <1>3, <1>4, <1>8, <2>2 DEF Follows
<1> QED BY <1>6, <1>7, <1>8

\* So it is after a step.
LEMMA SettlesThen ==
  ( \A w \in Writers :
      /\ OneWriter /\ StackInv /\ Numbered(writing[w])
      /\ \/ \E c \in holders : Fits(fnOf[c], argOf[c], writing[w])
         \/ Elsewhere # 0 /\ Stored(writing[w])
         \/ w \notin waiting /\ Outside(w)
      => Follows(w) )'
BY Settles, PTL

\* The packet is then in a context that passes it on.
LEMMA TakesUp ==
  ASSUME OneWriter, StackInv', NEW w \in Writers, Numbered(writing[w])',
         NEW c, NEW f, NEW g, NEW a, Goes(c, f, g, a),
         Holding(g, a, sack_state'), Fits(g, a, writing[w])'
  PROVE  Follows(w)'
<1>1. c \in Contexts /\ fnOf'[c] = g /\ argOf'[c] = a BY Moved
<1>2. c \in holders' BY <1>1 DEF holders
<1>3. Fits(fnOf[c], argOf[c], writing[w])' BY <1>1 DEF Fits
<1>4. (\E d \in holders : Fits(fnOf[d], argOf[d], writing[w]))' BY <1>2, <1>3
<1> QED BY <1>4, SettlesThen DEF OneWriter

\* It is then in one of the places outside the calls.
LEMMA PutsAway ==
  ASSUME OneWriter, StackInv', NEW w \in Writers, Numbered(writing[w])',
         Stored(writing[w])',
         \/ "csma_timer" \in armed' \/ work'
         \/ radio' \notin {NoPkt, AckPkt} \/ sack_state' = "TX_WAIT" \/ tx_done_sem' = 1
  PROVE  Follows(w)'
<1>1. (Elsewhere # 0)'
  <2>1. work' \in BOOLEAN /\ tx_done_sem' \in {0, 1}
    BY DEF StackInv, TypeInv, CsmaTypeOK, InterfaceTypeOK
  <2>2. PICK t \in {0, 1}, b \in {0, 1}, r \in {0, 1}, s \in {0, 1}, d \in {0, 1} :
          /\ t = One("csma_timer" \in armed') /\ b = One(work')
          /\ r = One(radio' \notin {NoPkt, AckPkt}) /\ s = One(sack_state' = "TX_WAIT")
          /\ d = tx_done_sem'
    BY <2>1 DEF One
  <2>3. t = 1 \/ b = 1 \/ r = 1 \/ s = 1 \/ d = 1 BY <2>2 DEF One
  <2>4. Elsewhere' = t + b + r + s + d BY <2>2 DEF Elsewhere, One
  <2> QED BY <2>3, <2>4
<1> QED BY <1>1, SettlesThen DEF OneWriter

\* The writer does not wait then.
LEMMA Leaves ==
  ASSUME OneWriter, StackInv', NEW w \in Writers, Numbered(writing[w])',
         NEW f, NEW g \in OutsideFns \cup {"none"}, NEW a, Goes(w, f, g, a), Outside(w)'
  PROVE  Follows(w)'
<1>1. w \notin waiting' BY Moved DEF waiting, Waits
<1> QED BY <1>1, SettlesThen DEF OneWriter

\* A context moves that has nothing to do with the packet.
LEMMA StatusQuiet ==
  ASSUME NEW w \in Writers, Follows(w), NEW c, NEW f, NEW g, NEW a, Goes(c, f, g, a),
         UNCHANGED <<heard, writing, nwrites, ret, tx_result, tx_done_sem>>,
         UNCHANGED <<lpl_enabled, ntoggles, lpl_tx_buf, csma_tx_buf, sack_tx_buf, work>>,
         acked \subseteq acked',
         "csma_timer" \in armed' => "csma_timer" \in armed,
         radio' \in {NoPkt, AckPkt} \/ radio' = radio,
         sack_state' \in {"IDLE", "TX_ACK"} \/ sack_state' = sack_state,
         ~Holding(g, a, sack_state'),
         c = w => Waits(g)
  PROVE  Follows(w)'
<1> USE DEF Good, Sent, Fresh, Plain, Kept
<1>1. w \in Contexts BY Constants
<1>2. ASSUME NEW d \in Contexts PROVE Fits(fnOf[d], argOf[d], writing[w])'
  <2>1. CASE d = c BY <2>1, Moved DEF Fits
  <2>2. CASE d # c
    <3>1. fnOf'[d] = fnOf[d] /\ argOf'[d] = argOf[d] BY <2>2, Moved
    <3>2. Holding(fnOf[d], argOf[d], sack_state') => Holding(fnOf[d], argOf[d], sack_state)
      BY DEF Holding
    <3>3. Fits(fnOf[d], argOf[d], writing[w]) BY DEF Follows
    <3> QED BY <3>1, <3>2, <3>3 DEF Fits
  <2> QED BY <2>1, <2>2
<1>3. Stored(writing[w])' BY DEF Follows, Stored
<1>4. Outside(w)'
  <2>1. CASE c = w
    <3>1. fnOf'[w] \notin OutsideFns \cup {"none"} BY <2>1, Moved DEF Waits
    <3> QED BY <3>1 DEF Outside, OutsideFns
  <2>2. CASE c # w
    <3>1. fnOf'[w] = fnOf[w] /\ argOf'[w] = argOf[w] BY <1>1, <2>2, Moved
    <3> QED BY <3>1 DEF Follows, Outside
  <2> QED BY <2>1, <2>2
<1>5. Numbered(writing[w])' BY DEF Follows, Numbered
<1> QED BY <1>2, <1>3, <1>4, <1>5 DEF Follows

\* Nothing moves.
LEMMA StatusSame ==
  ASSUME NEW w \in Writers, Follows(w),
         UNCHANGED <<stack, armed, writing, nwrites, ret, tx_result, tx_done_sem, heard, acked>>,
         UNCHANGED <<lpl_enabled, ntoggles, lpl_tx_buf, csma_tx_buf, work>>,
         UNCHANGED <<sack_tx_buf, sack_state, radio>>
  PROVE  Follows(w)'
<1> USE DEF Good, Sent, Fresh, Plain, Kept
<1>1. fnOf' = fnOf /\ argOf' = argOf BY DEF fnOf, argOf
<1>2. \A d \in Contexts : Fits(fnOf[d], argOf[d], writing[w])'
  BY <1>1 DEF Follows, Fits, Holding
<1>3. Stored(writing[w])' BY DEF Follows, Stored
<1>4. Outside(w)' BY <1>1 DEF Follows, Outside
<1>5. Numbered(writing[w])' BY DEF Follows, Numbered
<1> QED BY <1>2, <1>3, <1>4, <1>5 DEF Follows

\* While a context passes the packet on, it is nowhere else.
LEMMA HolderAlone ==
  ASSUME StackInv, NEW c \in Contexts, Holding(fnOf[c], argOf[c], sack_state)
  PROVE  /\ "csma_timer" \notin armed /\ work = FALSE /\ radio \in {NoPkt, AckPkt}
         /\ sack_state # "TX_WAIT" /\ tx_done_sem = 0
<1>1. c \in holders BY DEF holders
<1>2. Elsewhere = 0 BY <1>1 DEF StackInv, TokenInv
<1>3. work \in BOOLEAN BY DEF StackInv, TypeInv, CsmaTypeOK
<1> QED BY <1>2, <1>3, Places DEF StackInv

\* What is taken for an acknowledgement is one.
LEMMA AckIsAck ==
  ASSUME NEW i \in 1..Len(Frames), is_ack(RxBuf[i]), NEW p, is_ack_to([dsn |-> p], RxBuf[i])
  PROVE  Acknowledges(i) /\ Frames[i].dsn = p
<1>1. Frames[i] \in MacFrame BY PacketsAssumption
<1>2. PICK fr \in MacFrame : fr = Frames[i] BY <1>1
<1>3. RxBuf[i] = Encode(fr) BY <1>2 DEF RxBuf
<1>4. fr.type \in 0..7 /\ fr.ack_req \in {0, 1} /\ fr.intrapan \in {0, 1}
      /\ fr.dest \in Address /\ fr.src \in Address
  BY DEF MacFrame
<1>5. AddrMode(fr.dest) \in 0..3 /\ AddrMode(fr.src) \in 0..3
  BY <1>4, Modes
<1>6. Encode(fr).dsn = fr.dsn
      /\ Encode(fr).fcf = fr.type + 32 * fr.ack_req + 64 * fr.intrapan
                            + 1024 * AddrMode(fr.dest) + 16384 * AddrMode(fr.src)
  BY DEF Encode, IEEE154_FCF_ACK_REQ, IEEE154_FCF_INTRAPAN,
         IEEE154_FCF_DEST_ADDR_MODE, IEEE154_FCF_SRC_ADDR_MODE
<1>7. PICK buf : buf = Encode(fr) OBVIOUS
<1>8. Field(buf.fcf, 1, 8) = fr.type
  <2>1. PICK t \in 0..7, r \in {0, 1}, n \in {0, 1}, d \in 0..3, s \in 0..3 :
          /\ t = fr.type /\ r = fr.ack_req /\ n = fr.intrapan
          /\ d = AddrMode(fr.dest) /\ s = AddrMode(fr.src)
    BY <1>4, <1>5
  <2>2. PICK fcf : fcf = buf.fcf OBVIOUS
  <2>3. fcf = t + 32 * r + 64 * n + 1024 * d + 16384 * s BY <1>6, <1>7, <2>1, <2>2
  <2>4. Field(fcf, 1, 8) = t BY <2>3, SMT DEF Field
  <2> QED BY <2>1, <2>2, <2>4
<1>9. fr.type = IEEE154_TYPE_ACK BY <1>3, <1>7, <1>8 DEF is_ack
<1>10. fr.dsn = p BY <1>3, <1>6 DEF is_ack_to
<1> QED BY <1>2, <1>9, <1>10 DEF Acknowledges

-----------------------------------------------------------------------------
(* The steps of sack.c.                                                    *)

\* A step of sack.c: the transmission, its acknowledgement or the end of the wait for it.
LEMMA StatusSack ==
  ASSUME OneWriter, StackInv, StackInv', HeardInv, AckInTime, NEW w \in Writers, Follows(w),
         NEW c \in Contexts, SackStep(c), UNCHANGED <<csmaVars, lplVars, rxVars, ifcVars, bounds>>
  PROVE  Follows(w)'
<1>1. TypeInv /\ ShapeInv /\ delivered' = delivered
  BY DEF StackInv, rxVars, uniqueVars
<1>2. /\ UNCHANGED <<writing, nwrites, ret, tx_result, tx_done_sem, heard, acked>>
      /\ UNCHANGED <<lpl_enabled, ntoggles, lpl_tx_buf, csma_tx_buf, work>>
      /\ "csma_timer" \in armed' <=> "csma_timer" \in armed
  BY DEF ifcVars, lplVars, csmaVars, bounds, SackStep, radio_tx, sack_tx, sack_tx_done, sack_rx_ack,
         sack_cancel, sack_rx_data, sack_timer_cb, radioIfc, hrtimer_start, hrtimer_cancel
<1>3. Numbered(writing[w])' BY <1>2 DEF Follows, Numbered
<1> USE DEF Good, Sent, Fresh, Plain, Kept
<1>6. CASE radio_tx(c) /\ Ends(c, "radio_tx")
  <2>1. PICK g \in Under(c, "radio_tx"), a \in Int : Goes(c, "radio_tx", g, a) BY <1>6 DEF Ends
  <2>2. /\ g \in {"none", "write_wait", "lpl_start_timer", "unique_rx_done"}
        /\ c \in Writers => Waits(g)
    BY EndsTo DEF Waits, OutsideFns
  <2>3. /\ At(c, "radio_tx") /\ radio' = Arg(c) /\ UNCHANGED <<sack_state, sack_tx_buf, armed>>
    BY <1>6 DEF radio_tx, sackVars
  <2>4. fnOf[c] = "radio_tx" /\ radio' = argOf[c] BY <1>1, <2>3, Current, Names
  <2>5. ~Holding(g, a, sack_state') BY <2>2 DEF Holding, Carriers
  <2>6. CASE argOf[c] = AckPkt
    BY <1>2, <2>1, <2>2, <2>3, <2>4, <2>5, <2>6, StatusQuiet
  <2>7. CASE argOf[c] # AckPkt
    <3>1. Holding(fnOf[c], argOf[c], sack_state) BY <2>4, <2>7 DEF Holding
    <3>2. /\ argOf[c] = writing[w] /\ Fresh(writing[w]) /\ sack_tx_buf = writing[w]
          /\ Kept(writing[w])
      BY <2>4, <3>1 DEF Follows, Fits
    <3>3. /\ "csma_timer" \notin armed /\ work = FALSE
          /\ sack_state # "TX_WAIT" /\ tx_done_sem = 0
      BY <3>1, HolderAlone
    <3>4. Stored(writing[w])' BY <1>2, <2>3, <2>4, <3>2, <3>3 DEF Stored
    <3>5. radio' \notin {NoPkt, AckPkt}
      BY <1>1, <2>3, <2>4, <2>7, Current, Names, Constants DEF ArgOK, Uninit, NoPkt
    <3> QED BY <1>3, <3>4, <3>5, PutsAway
  <2> QED BY <2>6, <2>7
<1>7. CASE sack_tx(c) /\ Goes(c, "sack_tx", "radio_tx", argOf[c])
  <2>1. fnOf[c] = "sack_tx" /\ sack_tx_buf' = argOf[c] /\ argOf[c] # AckPkt
    BY <1>1, <1>7, Current, Names, Constants DEF sack_tx, ArgOK, Uninit, AckPkt
  <2>2. Holding(fnOf[c], argOf[c], sack_state) /\ Holding("radio_tx", argOf[c], sack_state')
    BY <2>1 DEF Holding, Carriers
  <2>3. argOf[c] = writing[w] /\ Fresh(writing[w]) /\ Kept(writing[w])
    BY <2>1, <2>2 DEF Follows, Fits
  <2>4. PICK a : a = argOf[c] OBVIOUS
  <2>5. Fits("radio_tx", a, writing[w])' BY <1>2, <2>1, <2>3, <2>4 DEF Fits
  <2> QED BY <1>3, <1>7, <2>2, <2>4, <2>5, TakesUp
<1>8. CASE sack_tx_done(c) /\ sack_state = "TX" /\ sack_state' = "TX_WAIT" /\ Ends(c, "sack_tx_done")
  <2>1. PICK g, a : Goes(c, "sack_tx_done", g, a) BY <1>8 DEF Ends
  <2>2. fnOf[c] = "sack_tx_done" BY <2>1, Moved
  <2>3. Holding(fnOf[c], argOf[c], sack_state) BY <1>8, <2>2 DEF Holding
  <2>4. sack_tx_buf = writing[w] /\ Kept(writing[w]) BY <2>2, <2>3 DEF Follows, Fits
  <2>5. /\ "csma_timer" \notin armed /\ work = FALSE /\ radio \in {NoPkt, AckPkt}
        /\ tx_done_sem = 0
    BY <2>3, HolderAlone
  <2>6. UNCHANGED <<sack_tx_buf, radio>> BY <1>8 DEF sack_tx_done, radioIfc
  <2>7. writing[w] \in AckReq
    <3>1. MayWantAck(sack_tx_buf) BY <1>8 DEF sack_tx_done
    <3>2. writing[w] \in Packets \cup {NoPkt} BY <1>1 DEF TypeInv, InterfaceTypeOK
    <3> QED BY <2>4, <3>1, <3>2, Constants DEF MayWantAck, NoPkt, Uninit
  <2>8. Stored(writing[w])' BY <1>2, <2>4, <2>5, <2>6, <2>7 DEF Stored
  <2> QED BY <1>3, <1>8, <2>8, PutsAway
<1>9. CASE sack_tx_done(c) /\ sack_state = "TX" /\ sack_state' = "IDLE" /\ MayWantNone(sack_tx_buf)
           /\ Goes(c, "sack_tx_done", "csma_tx_done", argOf[c])
  <2>1. fnOf[c] = "sack_tx_done" /\ argOf[c] \in {SUCCESS, FAILED}
    BY <1>1, <1>9, Current, Names DEF sack_tx_done, ArgOK
  <2>2. Holding(fnOf[c], argOf[c], sack_state) BY <1>9, <2>1 DEF Holding
  <2>3. /\ sack_tx_buf = writing[w] /\ Kept(writing[w])
        /\ IF argOf[c] = SUCCESS THEN Sent(writing[w]) ELSE Fresh(writing[w])
    BY <2>1, <2>2 DEF Follows, Fits
  <2>4. writing[w] \notin AckReq BY <1>9, <2>3 DEF MayWantNone
  <2>5. PICK a : a = argOf[c] OBVIOUS
  <2>6. Fits("csma_tx_done", a, writing[w])' BY <1>2, <2>1, <2>3, <2>4, <2>5, Codes DEF Fits
  <2>7. Holding("csma_tx_done", a, sack_state') BY DEF Holding, Carriers
  <2> QED BY <1>3, <1>9, <2>5, <2>6, <2>7, TakesUp
<1>10. CASE sack_state' \in {"IDLE", "TX_ACK"} /\ UNCHANGED <<sack_tx_buf, radio>>
            /\ \E f, g, a : /\ Goes(c, f, g, a) /\ ~Holding(g, a, sack_state')
                            /\ c \in Writers => Waits(g)
  BY <1>2, <1>10, StatusQuiet
<1>11. CASE sack_state' = sack_state /\ UNCHANGED <<sack_tx_buf, radio>>
            /\ \E f, g, a : /\ Goes(c, f, g, a) /\ ~Holding(g, a, sack_state')
                            /\ c \in Writers => Waits(g)
  BY <1>2, <1>11, StatusQuiet
<1>12. ASSUME NEW f, f # "write_wait", Waits(f), Ends(c, f)
       PROVE  \E g, a : /\ Goes(c, f, g, a) /\ ~Holding(g, a, sack_state')
                        /\ c \in Writers => Waits(g)
  <2>1. PICK g \in Under(c, f), a \in Int : Goes(c, f, g, a) BY <1>12 DEF Ends
  <2>2. /\ g \in {"none", "write_wait", "lpl_start_timer", "unique_rx_done"}
        /\ c \in Writers => Waits(g)
    BY <1>12, EndsTo
  <2> QED BY <2>1, <2>2 DEF Holding, Carriers
<1>13. CASE sack_tx_done(c) /\ sack_state' = "IDLE" /\ Ends(c, "sack_tx_done")
  <2>1. UNCHANGED <<sack_tx_buf, radio>> BY <1>13 DEF sack_tx_done, radioIfc
  <2>2. Waits("sack_tx_done") BY DEF Waits, OutsideFns
  <2> QED BY <1>10, <1>12, <1>13, <2>1, <2>2
<1>14. CASE sack_rx_ack(c) /\ sack_state = "TX_WAIT" /\ sack_state' = "IDLE"
            /\ is_ack(RxBuf[argOf[c]]) /\ AcksWaiting(argOf[c])
            /\ Goes(c, "sack_rx_done", "sack_cancel", 0)
  <2>1. At(c, "sack_rx_done") /\ Arg(c) = argOf[c] /\ argOf[c] \in 1..Len(Frames)
    BY <1>1, <1>14, Current, Names DEF sack_rx_ack, ArgOK
  <2>2. sack_tx_buf = writing[w] /\ Kept(writing[w]) /\ writing[w] \in AckReq
    BY <1>14 DEF Follows, Stored
  <2>3. PICK i \in 1..Len(Frames) : i = argOf[c] BY <2>1
  <2>4. PICK p \in Packets : p = writing[w] BY <2>2, PacketsAssumption
  <2>5. is_ack(RxBuf[i]) /\ is_ack_to([dsn |-> Dsn[p]], RxBuf[i])
    BY <1>14, <2>2, <2>3, <2>4, Constants DEF AcksWaiting, MayHaveDsn
  <2>6. Acknowledges(i) /\ Frames[i].dsn = Dsn[p] BY <2>3, <2>5, AckIsAck
  <2>7. PICK q \in acked : /\ Dsn[q] = Frames[i].dsn
                           /\ \A r \in Packets : q < r /\ r <= nwrites => Dsn[r] # Dsn[q]
    BY <2>1, <2>3, <2>6 DEF AckInTime
  <2>8. p = q
    <3>1. q \in heard /\ q \in Packets /\ nwrites \in Nat /\ p \in Nat /\ q \in Nat
      BY <1>1, PacketsAssumption DEF HeardInv, TypeInv, SackTypeOK, InterfaceTypeOK
    <3>2. p = nwrites /\ q <= nwrites BY <2>4, <3>1, Constants DEF Follows, Numbered
    <3>3. ~(q < p) BY <2>6, <2>7, <3>1, <3>2
    <3> QED BY <3>1, <3>2, <3>3
  <2>9. p \in acked /\ p \in heard BY <2>8 DEF HeardInv
  <2>10. Fits("sack_cancel", 0, writing[w])' BY <1>2, <2>2, <2>4, <2>9, Codes DEF Fits
  <2>11. Holding("sack_cancel", 0, sack_state') BY DEF Holding, Carriers
  <2> QED BY <1>3, <1>14, <2>10, <2>11, TakesUp
<1>15. CASE (sack_rx_ack(c) \/ sack_rx_data(c)) /\ sack_state' = sack_state /\ Ends(c, "sack_rx_done")
  <2>1. UNCHANGED <<sack_tx_buf, radio>> BY <1>15 DEF sack_rx_ack, sack_rx_data, radioIfc
  <2>2. Waits("sack_rx_done") BY DEF Waits, OutsideFns
  <2> QED BY <1>11, <1>12, <1>15, <2>1, <2>2
<1>16. CASE sack_cancel(c) /\ Goes(c, "sack_cancel", "csma_tx_done", SUCCESS)
  <2>1. fnOf[c] = "sack_cancel" BY <1>16, Moved
  <2>2. Holding(fnOf[c], argOf[c], sack_state) BY <2>1 DEF Holding, Carriers
  <2>3. Kept(writing[w]) /\ Good(SUCCESS, writing[w]) BY <2>1, <2>2 DEF Follows, Fits
  <2>4. Fits("csma_tx_done", SUCCESS, writing[w])' BY <1>2, <2>3 DEF Fits
  <2>5. Holding("csma_tx_done", SUCCESS, sack_state') BY DEF Holding, Carriers
  <2> QED BY <1>3, <1>16, <2>4, <2>5, TakesUp
<1>17. CASE sack_rx_data(c) /\ sack_state' = sack_state
            /\ Goes(c, "sack_rx_done", "unique_rx_done", argOf[c])
  <2>1. UNCHANGED <<sack_tx_buf, radio>> BY <1>17 DEF sack_rx_data, radioIfc
  <2>2. \A a : ~Holding("unique_rx_done", a, sack_state') BY DEF Holding, Carriers
  <2>3. Waits("unique_rx_done") BY DEF Waits, OutsideFns
  <2> QED BY <1>11, <1>17, <2>1, <2>2, <2>3
<1>18. CASE sack_rx_data(c) /\ sack_state' = "TX_ACK" /\ Goes(c, "sack_rx_done", "radio_tx", AckPkt)
  <2>1. UNCHANGED <<sack_tx_buf, radio>> BY <1>18 DEF sack_rx_data, radioIfc
  <2>2. ~Holding("radio_tx", AckPkt, sack_state') BY DEF Holding, Carriers
  <2>3. Waits("radio_tx") BY DEF Waits, OutsideFns
  <2> QED BY <1>10, <1>18, <2>1, <2>2, <2>3
<1>19. CASE sack_timer_cb(c) /\ sack_state = "TX_WAIT" /\ sack_state' = "IDLE"
            /\ Goes(c, "sack_timer_cb", "csma_tx_done", ACK_TIMEOUT)
  <2>1. Kept(writing[w]) /\ writing[w] \in AckReq BY <1>19 DEF Follows, Stored
  <2>2. Fits("csma_tx_done", ACK_TIMEOUT, writing[w])' BY <1>2, <2>1, Codes DEF Fits
  <2>3. Holding("csma_tx_done", ACK_TIMEOUT, sack_state') BY DEF Holding, Carriers
  <2> QED BY <1>3, <1>19, <2>2, <2>3, TakesUp
<1>20. CASE sack_timer_cb(c) /\ sack_state' = sack_state /\ Ends(c, "sack_timer_cb")
  <2>1. UNCHANGED <<sack_tx_buf, radio>> BY <1>20 DEF sack_timer_cb, radioIfc
  <2>2. Waits("sack_timer_cb") BY DEF Waits, OutsideFns
  <2> QED BY <1>11, <1>12, <1>20, <2>1, <2>2
<1> QED BY <1>1, <1>6, <1>7, <1>8, <1>9, <1>13, <1>14, <1>15, <1>16, <1>17, <1>18, <1>19, <1>20,
           SackMoves

-----------------------------------------------------------------------------
(* Those of csma.c and lpl.c.                                              *)

\* A step of csma.c: it passes the packet and its status on, or refuses it.
LEMMA StatusCsma ==
  ASSUME OneWriter, StackInv, StackInv', NEW w \in Writers, Follows(w), NEW c \in Contexts, CsmaStep(c),
         UNCHANGED <<sackVars, radioIfc, acked, lplVars, rxVars, ifcVars, bounds>>
  PROVE  Follows(w)'
<1>1. TypeInv /\ ShapeInv /\ delivered' = delivered
  BY DEF StackInv, rxVars, uniqueVars
<1>2. /\ UNCHANGED <<writing, nwrites, ret, tx_result, tx_done_sem, heard, acked>>
      /\ UNCHANGED <<lpl_enabled, ntoggles, lpl_tx_buf, sack_tx_buf, sack_state, radio>>
  BY DEF ifcVars, lplVars, bounds, sackVars, radioIfc
<1>3. Numbered(writing[w])' BY <1>2 DEF Follows, Numbered
<1> USE DEF Good, Sent, Fresh, Plain, Kept
<1>4. ASSUME NEW a, Goes(c, "csma_tx", "sack_tx", a), a = argOf[c] PROVE Follows(w)'
  <2>1. fnOf[c] = "csma_tx" BY <1>4, Moved
  <2>2. Holding(fnOf[c], argOf[c], sack_state) /\ Holding("sack_tx", a, sack_state')
    BY <2>1 DEF Holding, Carriers
  <2>3. a = writing[w] /\ Fresh(writing[w]) /\ Kept(writing[w])
    BY <1>4, <2>1, <2>2 DEF Follows, Fits
  <2>4. Fits("sack_tx", a, writing[w])' BY <1>2, <2>3 DEF Fits
  <2> QED BY <1>3, <1>4, <2>2, <2>4, TakesUp
<1>5. ASSUME NEW f \in {"csma_tx", "csma_timer_cb"}, Goes(c, f, "lpl_tx_done", BUSY) PROVE Follows(w)'
  <2>1. fnOf[c] = f BY <1>5, Moved
  <2>2. Holding(fnOf[c], argOf[c], sack_state) /\ Holding("lpl_tx_done", BUSY, sack_state')
    BY <2>1 DEF Holding, Carriers
  <2>3. Fresh(writing[w]) /\ Kept(writing[w]) BY <2>1, <2>2 DEF Follows, Fits
  <2>4. Fits("lpl_tx_done", BUSY, writing[w])' BY <1>2, <2>3, Codes DEF Fits
  <2> QED BY <1>3, <1>5, <2>2, <2>4, TakesUp
<1>6. ASSUME NEW a, Goes(c, "csma_tx_done", "lpl_tx_done", a), a = argOf[c] PROVE Follows(w)'
  <2>1. fnOf[c] = "csma_tx_done" BY <1>6, Moved
  <2>2. Holding(fnOf[c], argOf[c], sack_state) /\ Holding("lpl_tx_done", a, sack_state')
    BY <2>1 DEF Holding, Carriers
  <2>3. Good(a, writing[w]) /\ Kept(writing[w]) BY <1>6, <2>1, <2>2 DEF Follows, Fits
  <2>4. Fits("lpl_tx_done", a, writing[w])' BY <1>2, <2>3 DEF Fits
  <2> QED BY <1>3, <1>6, <2>2, <2>4, TakesUp
\* The packet is put into the backoff or on the queue
<1>7. ASSUME fnOf[c] \in {"csma_tx", "csma_timer_cb"}, "csma_timer" \in armed' \/ work',
             csma_tx_buf' = IF fnOf[c] = "csma_tx" THEN argOf[c] ELSE csma_tx_buf
      PROVE  Follows(w)'
  <2>1. Holding(fnOf[c], argOf[c], sack_state) BY <1>7 DEF Holding, Carriers
  <2>2. csma_tx_buf' = writing[w] /\ Fresh(writing[w]) /\ Kept(writing[w])
    BY <1>7, <2>1 DEF Follows, Fits
  <2>3. radio \in {NoPkt, AckPkt} /\ sack_state # "TX_WAIT" /\ tx_done_sem = 0
    BY <2>1, HolderAlone
  <2>4. Stored(writing[w])' BY <1>2, <2>2, <2>3 DEF Stored
  <2> QED BY <1>3, <1>7, <2>4, PutsAway
<1>8. CASE csma_tx(c) /\ csma_enabled /\ csma_state = "IDLE" /\ armed' = armed \cup {"csma_timer"}
           /\ Ends(c, "csma_tx")
  <2>1. fnOf[c] = "csma_tx" /\ Arg(c) = argOf[c]
    BY <1>1, <1>8, Current, Names DEF csma_tx
  <2>2. csma_tx_buf' = Arg(c) BY <1>8 DEF csma_tx
  <2> QED BY <1>7, <1>8, <2>1, <2>2
<1>9. CASE csma_timer_clear(c)
  <2>1. At(c, "csma_timer_cb") /\ work' = TRUE /\ UNCHANGED csma_tx_buf BY <1>9 DEF csma_timer_clear
  <2>2. fnOf[c] = "csma_timer_cb" BY <1>1, <2>1, Current, Names
  <2> QED BY <1>7, <2>1, <2>2
<1>10. CASE csma_timer_busy(c) /\ armed' = armed \cup {"csma_timer"}
  <2>1. At(c, "csma_timer_cb") /\ UNCHANGED csma_tx_buf BY <1>10 DEF csma_timer_busy
  <2>2. fnOf[c] = "csma_timer_cb" BY <1>1, <2>1, Current, Names
  <2> QED BY <1>7, <1>10, <2>1, <2>2
<1> QED BY <1>1, <1>4, <1>5, <1>6, <1>8, <1>9, <1>10, CsmaMoves

\* A step of lpl.c: it sends the packet again or passes its status on.
LEMMA StatusLpl ==
  ASSUME OneWriter, StackInv, StackInv', NEW w \in Writers, Follows(w), NEW c \in Contexts, LplStep(c),
         UNCHANGED <<belowLpl, rxVars, ifcVars, bounds>>
  PROVE  Follows(w)'
<1>1. TypeInv /\ ShapeInv /\ delivered' = delivered
  BY DEF StackInv, rxVars, uniqueVars
<1>2. /\ UNCHANGED <<writing, nwrites, ret, tx_result, tx_done_sem, heard, acked>>
      /\ UNCHANGED <<ntoggles, csma_tx_buf, work, sack_tx_buf, sack_state, radio>>
  BY DEF ifcVars, bounds, belowLpl, sackVars, radioIfc, csmaVars
<1>3. Numbered(writing[w])' BY <1>2 DEF Follows, Numbered
<1>4. lpl_enabled' = lpl_enabled
  BY DEF LplStep, lpl_tx, lpl_start_timer, lpl_tx_acked, lpl_cancel, lpl_tx_again, lpl_tx_through,
         lpl_timer_cb, lplVars
<1> USE DEF Good, Sent, Fresh, Plain, Kept
<1>5. ASSUME NEW a, Goes(c, "lpl_tx", "csma_tx", a), a = argOf[c], lpl_enabled => lpl_tx_buf' = a
      PROVE  Follows(w)'
  <2>1. fnOf[c] = "lpl_tx" BY <1>5, Moved
  <2>2. Holding(fnOf[c], argOf[c], sack_state) /\ Holding("csma_tx", a, sack_state')
    BY <2>1 DEF Holding, Carriers
  <2>3. a = writing[w] /\ Fresh(writing[w]) BY <1>5, <2>1, <2>2 DEF Follows, Fits
  <2>4. Fits("csma_tx", a, writing[w])' BY <1>2, <1>4, <1>5, <2>3 DEF Fits
  <2> QED BY <1>3, <1>5, <2>2, <2>4, TakesUp
<1>6. CASE Goes(c, "lpl_tx", "interface_tx_done", BUSY)
  <2>1. fnOf[c] = "lpl_tx" BY <1>6, Moved
  <2>2. Holding(fnOf[c], argOf[c], sack_state) /\ Holding("interface_tx_done", BUSY, sack_state')
    BY <2>1 DEF Holding, Carriers
  <2>3. Fresh(writing[w]) BY <2>1, <2>2 DEF Follows, Fits
  <2>4. Fits("interface_tx_done", BUSY, writing[w])' BY <1>2, <1>4, <2>3, Codes DEF Fits
  <2> QED BY <1>3, <1>6, <2>2, <2>4, TakesUp
<1>7. CASE (lpl_start_timer(c) /\ Ends(c, "lpl_start_timer")) \/ (lpl_timer_cb(c) /\ Ends(c, "lpl_timer_cb"))
  <2>1. PICK f \in {"lpl_start_timer", "lpl_timer_cb"} : Ends(c, f) BY <1>7
  <2>2. PICK g \in Under(c, f), a \in Int : Goes(c, f, g, a) BY <2>1 DEF Ends
  <2>3. Waits(f) /\ f # "write_wait" BY DEF Waits, OutsideFns
  <2>4. /\ g \in {"none", "write_wait", "lpl_start_timer", "unique_rx_done"}
        /\ c \in Writers => Waits(g)
    BY <2>3, EndsTo
  <2>5. ~Holding(g, a, sack_state') BY <2>4 DEF Holding, Carriers
  <2>6. lpl_tx_buf' = lpl_tx_buf /\ ("csma_timer" \in armed' => "csma_timer" \in armed)
    BY <1>7 DEF lpl_start_timer, lpl_timer_cb, hrtimer_start, lplVars
  <2> QED BY <1>2, <1>4, <2>2, <2>4, <2>5, <2>6, StatusQuiet
<1>8. CASE lpl_tx_acked(c) /\ Goes(c, "lpl_tx_done", "lpl_cancel", 0)
  <2>1. fnOf[c] = "lpl_tx_done" /\ argOf[c] = SUCCESS
    BY <1>1, <1>8, Current, Names DEF lpl_tx_acked
  <2>2. Holding(fnOf[c], argOf[c], sack_state) /\ Holding("lpl_cancel", 0, sack_state')
    BY <2>1 DEF Holding, Carriers
  <2>3. Good(SUCCESS, writing[w]) BY <2>1, <2>2 DEF Follows, Fits
  <2>4. Fits("lpl_cancel", 0, writing[w])' BY <1>2, <1>4, <2>3 DEF Fits
  <2> QED BY <1>3, <1>8, <2>2, <2>4, TakesUp
<1>9. CASE Goes(c, "lpl_cancel", "interface_tx_done", SUCCESS)
  <2>1. fnOf[c] = "lpl_cancel" BY <1>9, Moved
  <2>2. Holding(fnOf[c], argOf[c], sack_state) /\ Holding("interface_tx_done", SUCCESS, sack_state')
    BY <2>1 DEF Holding, Carriers
  <2>3. Good(SUCCESS, writing[w]) BY <2>1, <2>2 DEF Follows, Fits
  <2>4. Fits("interface_tx_done", SUCCESS, writing[w])' BY <1>2, <1>4, <2>3 DEF Fits
  <2> QED BY <1>3, <1>9, <2>2, <2>4, TakesUp
\* A packet that lpl.c repeats is not one that is sent once
<1>10. ASSUME lpl_tx_again(c), NEW g, NEW a, Goes(c, "lpl_tx_done", g, a),
              \/ g = "interface_tx_done" /\ a = FAILED
              \/ g = "interface_tx_done" /\ a = SUCCESS /\ MayWantNone(lpl_tx_buf)
              \/ g = "csma_tx" /\ a = lpl_tx_buf
       PROVE  Follows(w)'
  <2>1. lpl_enabled /\ lpl_tx_buf' = lpl_tx_buf BY <1>10 DEF lpl_tx_again
  <2>2. fnOf[c] = "lpl_tx_done" BY <1>10, Moved
  <2>3. Holding(fnOf[c], argOf[c], sack_state) /\ Holding(g, a, sack_state')
    BY <1>10, <2>2 DEF Holding, Carriers
  <2>4. lpl_tx_buf = writing[w] BY <2>1, <2>2, <2>3 DEF Follows, Fits
  <2>5. Fits(g, a, writing[w])'
    BY <1>2, <1>4, <1>10, <2>1, <2>4, Codes DEF Fits, MayWantNone
  <2> QED BY <1>3, <1>10, <2>3, <2>5, TakesUp
<1>11. ASSUME lpl_tx_through(c), NEW a, Goes(c, "lpl_tx_done", "interface_tx_done", a), a = argOf[c]
       PROVE  Follows(w)'
  <2>1. fnOf[c] = "lpl_tx_done" BY <1>11, Moved
  <2>2. Holding(fnOf[c], argOf[c], sack_state) /\ Holding("interface_tx_done", a, sack_state')
    BY <2>1 DEF Holding, Carriers
  <2>3. Good(a, writing[w]) BY <1>11, <2>1, <2>2 DEF Follows, Fits
  <2>4. Fits("interface_tx_done", a, writing[w])' BY <1>2, <1>4, <2>3 DEF Fits
  <2> QED BY <1>3, <1>11, <2>2, <2>4, TakesUp
<1> QED BY <1>1, <1>5, <1>6, <1>7, <1>8, <1>9, <1>10, <1>11, LplMoves

-----------------------------------------------------------------------------
(* Those of the device, and of what starts a context.                      *)

\* A frame on its way up.
LEMMA StatusRx ==
  ASSUME StackInv, NEW w \in Writers, Follows(w), NEW c \in Contexts,
         UNCHANGED <<belowIfc, armed, ifcVars, bounds>>,
         unique_rx_done(c) \/ (RxStep(c) /\ UNCHANGED delivered)
  PROVE  Follows(w)'
<1>1. TypeInv /\ ShapeInv BY DEF StackInv
<1>2. /\ UNCHANGED <<writing, nwrites, ret, tx_result, tx_done_sem, heard, acked, armed>>
      /\ UNCHANGED <<lpl_enabled, ntoggles, lpl_tx_buf, csma_tx_buf, work>>
      /\ UNCHANGED <<sack_tx_buf, sack_state, radio>>
  BY DEF ifcVars, bounds, belowIfc, belowLpl, sackVars, radioIfc, csmaVars, lplVars
<1>3. CASE rx_copy(c) /\ UNCHANGED stack
  BY <1>2, <1>3, StatusSame
<1>4. CASE /\ c = "spi"
           /\ \/ \E f \in {"unique_rx_done", "rx_copy"} : Ends(c, f)
              \/ \E f, a : \E g \in {"interface_rx_done", "rx_copy"} : Goes(c, f, g, a)
  <2>1. c \notin Writers BY <1>4, Constants
  <2>2. ASSUME NEW f, Ends(c, f) PROVE \E g \in {"none", "unique_rx_done"} : \E a : Goes(c, f, g, a)
    BY <2>1, <2>2 DEF Ends, Under
  <2>3. PICK f, g, a : g \in {"none", "unique_rx_done", "interface_rx_done", "rx_copy"}
                        /\ Goes(c, f, g, a)
    BY <1>4, <2>2
  <2>4. ~Holding(g, a, sack_state') BY <2>3 DEF Holding, Carriers
  <2> QED BY <1>2, <2>1, <2>3, <2>4, StatusQuiet
<1> QED BY <1>1, <1>3, <1>4, UniqueMoves, RxMoves

\* A step of write(): the status is stored in tx_result, and read by its only writer.
LEMMA StatusWrite ==
  ASSUME OneWriter, StackInv, StackInv', NEW w \in Writers, Follows(w), NEW c \in Contexts, WriteStep(c),
         UNCHANGED <<belowIfc, rxVars, bounds>>
  PROVE  Follows(w)'
<1>1. TypeInv /\ ShapeInv /\ delivered' = delivered
  BY DEF StackInv, rxVars, uniqueVars
<1>2. /\ UNCHANGED <<heard, acked, lpl_enabled, ntoggles, lpl_tx_buf, csma_tx_buf, work>>
      /\ UNCHANGED <<sack_tx_buf, sack_state, radio>>
  BY DEF bounds, belowIfc, belowLpl, sackVars, radioIfc, csmaVars, lplVars
<1>3. nwrites' = nwrites /\ armed' = armed
  BY DEF WriteStep, write_down, write_refused, write_wait, write_up, write_return, interface_tx_done
<1>4. c \in Writers => c = w BY DEF OneWriter
<1>5. writing' = writing => Numbered(writing[w])' BY <1>2, <1>3 DEF Follows, Numbered
<1>6. tx_done_sem \in {0, 1} /\ tx_result \in Statuses /\ nwrites \in Nat
      /\ ret \in [Writers -> Statuses \cup {PktLen, EAGAIN, EFAULT, ERESTARTSYS}]
      /\ writing \in [Writers -> Packets \cup {NoPkt}]
  BY <1>1, PacketsAssumption DEF TypeInv, InterfaceTypeOK
<1> USE DEF Good, Sent, Fresh, Plain, Kept
<1>7. CASE c \in Writers /\ write_down(c) /\ Goes(c, "write_down", "lpl_tx", argOf[c])
  <2>1. writing' = writing BY <1>7 DEF write_down
  <2>2. fnOf[w] = "write_down" BY <1>4, <1>7, Moved
  <2>3. PICK a : a = argOf[w] OBVIOUS
  <2>4. a = writing[w] /\ Fresh(writing[w]) BY <2>2, <2>3 DEF Follows, Outside
  <2>5. Fits("lpl_tx", a, writing[w])' BY <1>2, <2>1, <2>4 DEF Fits
  <2>6. Holding("lpl_tx", a, sack_state') BY DEF Holding, Carriers
  <2>7. Goes(c, "write_down", "lpl_tx", a) BY <1>4, <1>7, <2>3
  <2> QED BY <1>5, <2>1, <2>5, <2>6, <2>7, TakesUp
<1>8. ASSUME NEW f \in OutsideFns, c \in Writers, Ends(c, f), Outside(w)', Numbered(writing[w])'
      PROVE  Follows(w)'
  <2>1. PICK g \in Under(c, f), a \in Int : Goes(c, f, g, a) BY <1>8 DEF Ends
  <2>2. g = "none" BY <1>8, EndsTo
  <2> QED BY <1>4, <1>8, <2>1, <2>2, Leaves
<1>9. CASE c \in Writers /\ write_refused(c) /\ Ends(c, "write_down")
  <2>1. writing'[w] = NoPkt BY <1>4, <1>6, <1>9 DEF write_refused
  <2>2. PICK g \in Under(c, "write_down"), a \in Int : Goes(c, "write_down", g, a) BY <1>9 DEF Ends
  <2>3. g = "none" BY <1>9, EndsTo DEF OutsideFns
  <2>4. fnOf'[w] = "none" BY <1>4, <1>9, <2>2, <2>3, Moved
  <2>5. Outside(w)' BY <2>1, <2>4 DEF Outside
  <2>6. Numbered(writing[w])' BY <1>2, <1>3, <1>6, <2>1 DEF Follows, Numbered, NoPkt
  <2> QED BY <1>8, <1>9, <2>5, <2>6 DEF OutsideFns
<1>10. CASE c \in Writers /\ write_wait(c) /\ Goes(c, "write_wait", "write_up", 0)
  <2>1. tx_done_sem = 1 /\ UNCHANGED <<tx_result, writing>> BY <1>6, <1>10 DEF write_wait
  <2>2. Good(tx_result, writing[w]) BY <2>1 DEF Follows, Stored
  <2>3. fnOf'[w] = "write_up" BY <1>4, <1>10, Moved
  <2>4. Outside(w)' BY <1>2, <2>1, <2>2, <2>3 DEF Outside
  <2> QED BY <1>4, <1>5, <1>10, <2>1, <2>4, Leaves DEF OutsideFns
<1>11. CASE c \in Writers /\ write_up(c) /\ Goes(c, "write_up", "write_return", 0)
  <2>1. UNCHANGED <<tx_result, writing>> BY <1>11 DEF write_up
  <2>2. fnOf[w] = "write_up" /\ fnOf'[w] = "write_return" BY <1>4, <1>11, Moved
  <2>3. Good(tx_result, writing[w]) BY <2>2 DEF Follows, Outside
  <2>4. Outside(w)' BY <1>2, <2>1, <2>2, <2>3 DEF Outside
  <2> QED BY <1>4, <1>5, <1>11, <2>1, <2>4, Leaves DEF OutsideFns
<1>12. CASE c \in Writers /\ write_return(c) /\ Ends(c, "write_return")
  <2>1. PICK g \in Under(c, "write_return"), a \in Int : Goes(c, "write_return", g, a)
    BY <1>12 DEF Ends
  <2>2. g = "none" BY <1>12, EndsTo DEF OutsideFns
  <2>3. fnOf[w] = "write_return" /\ fnOf'[w] = "none" BY <1>4, <1>12, <2>1, <2>2, Moved
  <2>4. Good(tx_result, writing[w]) BY <2>3 DEF Follows, Outside
  <2>5. writing' = writing /\ ret'[w] = IF tx_result # 0 THEN tx_result ELSE PktLen
    BY <1>4, <1>6, <1>12 DEF write_return
  <2>6. Outside(w)'
    <3>1. PICK s \in Statuses : s = tx_result BY <1>6
    <3>2. Good(s, writing[w])' BY <1>2, <2>4, <2>5, <3>1
    <3>3. ret'[w] = IF s = SUCCESS THEN PktLen ELSE s BY <2>5, <3>1, Codes
    <3> QED BY <2>3, <3>2, <3>3 DEF Outside
  <2> QED BY <1>5, <1>8, <1>12, <2>5, <2>6 DEF OutsideFns
<1>13. CASE interface_tx_done(c) /\ argOf[c] = Arg(c) /\ Ends(c, "interface_tx_done")
  <2>1. fnOf[c] = "interface_tx_done" BY <1>13, Moved DEF Ends
  <2>2. Holding(fnOf[c], argOf[c], sack_state) BY <2>1 DEF Holding, Carriers
  <2>3. Good(argOf[c], writing[w]) BY <2>1, <2>2 DEF Follows, Fits
  <2>4. /\ "csma_timer" \notin armed /\ work = FALSE /\ radio \in {NoPkt, AckPkt}
        /\ sack_state # "TX_WAIT" /\ tx_done_sem = 0
    BY <2>2, HolderAlone
  <2>5. tx_result' = argOf[c] /\ tx_done_sem' = 1 /\ writing' = writing
    BY <1>13, <2>4 DEF interface_tx_done
  <2>6. Stored(writing[w])' BY <1>2, <1>3, <2>3, <2>4, <2>5 DEF Stored
  <2> QED BY <1>5, <2>5, <2>6, PutsAway
<1> QED BY <1>1, <1>7, <1>9, <1>10, <1>11, <1>12, <1>13, WriteMoves

\* A context that has nothing to do with the packet starts: sack.c's and lpl.c's
\* timers, and a frame that arrives.
LEMMA StatusStartQuiet ==
  ASSUME StackInv, NEW w \in Writers, Follows(w),
         \/ sack_expire /\ UNCHANGED <<csmaVars, lplVars, rxVars, ifcVars, bounds>>
         \/ lpl_expire /\ UNCHANGED <<belowLpl, rxVars, ifcVars, bounds>>
         \/ Arrival
  PROVE  Follows(w)'
<1>1. TypeInv /\ ShapeInv /\ {"sack_timer", "lpl_timer", "spi"} \subseteq Contexts \ Writers
  BY Constants DEF StackInv, Timers
<1>2. delivered' = delivered /\ acked \subseteq acked'
  BY DEF sack_expire, lpl_expire, belowLpl, Arrival, radio_rx, rxVars, uniqueVars
<1>3. /\ UNCHANGED <<writing, nwrites, ret, tx_result, tx_done_sem, heard>>
      /\ UNCHANGED <<lpl_enabled, ntoggles, lpl_tx_buf, csma_tx_buf, work>>
      /\ UNCHANGED <<sack_tx_buf, sack_state, radio>>
  BY DEF sack_expire, lpl_expire, Arrival, radio_rx, belowLpl, ifcVars, bounds, sackVars, radioIfc,
         csmaVars, lplVars
<1>4. "csma_timer" \in armed' => "csma_timer" \in armed
  BY DEF sack_expire, lpl_expire, Expire, Arrival, radio_rx
<1>5. \E c \in {"sack_timer", "lpl_timer", "spi"}, a \in Int,
         g \in {"sack_timer_cb", "lpl_timer_cb", "sack_rx_done"} : Goes(c, "none", g, a)
  <2>1. CASE sack_expire
    <3>1. Enter("sack_timer", "sack_timer_cb", 0) BY <2>1 DEF sack_expire, Expire
    <3> QED BY <1>1, <1>2, <3>1, StartMoves, Names
  <2>2. CASE lpl_expire
    <3>1. Enter("lpl_timer", "lpl_timer_cb", 0) BY <2>2 DEF lpl_expire, Expire
    <3> QED BY <1>1, <1>2, <3>1, StartMoves, Names
  <2>3. CASE Arrival
    <3>1. PICK f \in 1..Len(Frames) : Enter("spi", "sack_rx_done", f) BY <2>3 DEF Arrival, radio_rx
    <3>2. f \in Int BY Constants
    <3> QED BY <1>1, <1>2, <3>1, <3>2, StartMoves, Names
  <2> QED BY <2>1, <2>2, <2>3
<1>6. PICK c \in {"sack_timer", "lpl_timer", "spi"}, a \in Int,
           g \in {"sack_timer_cb", "lpl_timer_cb", "sack_rx_done"} : Goes(c, "none", g, a)
  BY <1>5
<1>7. ~Holding(g, a, sack_state') BY DEF Holding, Carriers
<1> QED BY <1>1, <1>2, <1>3, <1>4, <1>6, <1>7, StatusQuiet

\* The packet is taken from the backoff, from the work queue or from the radio.
LEMMA StatusStart ==
  ASSUME OneWriter, StackInv, StackInv', NEW w \in Writers, Follows(w),
         \/ csma_expire /\ UNCHANGED <<sackVars, radioIfc, acked, lplVars, rxVars, ifcVars, bounds>>
         \/ WorkQueue \/ RadioDone
  PROVE  Follows(w)'
<1>1. TypeInv /\ ShapeInv /\ RadioInv /\ {"csma_timer", "wq", "spi", "sfd"} \subseteq Contexts \ Writers
  BY Constants DEF StackInv, Timers
<1>2. /\ UNCHANGED <<writing, nwrites, ret, tx_result, tx_done_sem, acked, delivered>>
      /\ UNCHANGED <<lpl_enabled, ntoggles, lpl_tx_buf, csma_tx_buf, sack_tx_buf, sack_state>>
  BY DEF csma_expire, WorkQueue, csma_wq, RadioDone, radio_done, ifcVars, bounds, sackVars, csmaVars,
         lplVars, rxVars, uniqueVars
<1> USE DEF Good, Sent, Fresh, Plain, Kept
<1>3. CASE csma_expire /\ UNCHANGED <<sackVars, radioIfc, acked, lplVars, rxVars, ifcVars, bounds>>
  <2>1. "csma_timer" \in armed /\ Enter("csma_timer", "csma_timer_cb", 0) /\ heard' = heard
    BY <1>3 DEF csma_expire, Expire, radioIfc
  <2>2. Goes("csma_timer", "none", "csma_timer_cb", 0)
    BY <1>1, <1>2, <2>1, StartMoves, Names
  <2>3. csma_tx_buf = writing[w] /\ Fresh(writing[w]) /\ Kept(writing[w])
    BY <2>1 DEF Follows, Stored
  <2>4. Fits("csma_timer_cb", 0, writing[w])' BY <1>2, <2>1, <2>3 DEF Fits
  <2>5. Holding("csma_timer_cb", 0, sack_state') BY DEF Holding, Carriers
  <2>6. Numbered(writing[w])' BY <1>2, <2>1 DEF Follows, Numbered
  <2> QED BY <2>2, <2>4, <2>5, <2>6, TakesUp
<1>4. CASE WorkQueue
  <2>1. work /\ Enter("wq", "sack_tx", csma_tx_buf) /\ heard' = heard
    BY <1>4 DEF WorkQueue, csma_wq, radioIfc
  <2>2. csma_tx_buf \in Packets \cup {Uninit} /\ csma_tx_buf \in Int
    BY <1>1, Constants DEF TypeInv, CsmaTypeOK, Uninit
  <2>3. PICK a : a = csma_tx_buf OBVIOUS
  <2>4. Goes("wq", "none", "sack_tx", a)
    BY <1>1, <1>2, <2>1, <2>2, <2>3, StartMoves, Names
  <2>5. a = writing[w] /\ Fresh(writing[w]) /\ Kept(writing[w])
    BY <2>1, <2>3 DEF Follows, Stored
  <2>6. Fits("sack_tx", a, writing[w])' BY <1>2, <2>1, <2>5 DEF Fits
  <2>7. Holding("sack_tx", a, sack_state') BY DEF Holding, Carriers
  <2>8. Numbered(writing[w])' BY <1>2, <2>1 DEF Follows, Numbered
  <2> QED BY <2>4, <2>6, <2>7, <2>8, TakesUp
<1>5. CASE RadioDone
  <2>1. PICK c \in {"spi", "sfd"}, status \in {SUCCESS, FAILED} : radio_done(c, status)
    BY <1>5 DEF RadioDone
  <2>2. /\ radio # NoPkt /\ radio' = NoPkt /\ Enter(c, "sack_tx_done", status) /\ armed' = armed
        /\ heard' = IF status = SUCCESS THEN heard \cup ({radio} \cap Packets) ELSE heard
    BY <2>1 DEF radio_done
  <2>3. work' = work BY <1>5 DEF RadioDone, csmaVars
  <2>4. Goes(c, "none", "sack_tx_done", status)
    BY <1>1, <1>2, <2>2, StartMoves, Names, Codes
  <2>5. CASE radio = AckPkt
    <3>1. sack_state = "TX_ACK" BY <1>1, <2>2, <2>5 DEF RadioInv
    <3>2. heard' = heard BY <2>2, <2>5, Constants
    <3>3. ~Holding("sack_tx_done", status, sack_state') BY <1>2, <3>1 DEF Holding, Carriers
    <3> QED BY <1>1, <1>2, <2>2, <2>3, <2>4, <3>2, <3>3, StatusQuiet
  <2>6. CASE radio # AckPkt
    <3>1. sack_state = "TX" BY <1>1, <2>2, <2>6 DEF RadioInv
    <3>2. radio = writing[w] /\ sack_tx_buf = writing[w] /\ Kept(writing[w])
      BY <2>2, <2>6 DEF Follows, Stored
    <3>3. writing[w] \in Packets
      BY <1>1, <2>2, <3>2 DEF TypeInv, InterfaceTypeOK
    <3>4. IF status = SUCCESS THEN Sent(writing[w])' ELSE Fresh(writing[w])'
      <4>1. Fresh(writing[w]) BY <2>2, <2>6 DEF Follows, Stored
      <4> QED BY <1>2, <2>2, <3>2, <3>3, <4>1
    <3>5. Fits("sack_tx_done", status, writing[w])' BY <1>2, <3>2, <3>4 DEF Fits
    <3>6. Holding("sack_tx_done", status, sack_state') BY <1>2, <3>1 DEF Holding
    <3>7. Numbered(writing[w])'
      <4>1. writing[w] = nwrites /\ nwrites \in Int BY <3>3, Constants DEF Follows, Numbered
      <4> QED BY <1>2, <2>2, <3>2, <4>1 DEF Follows, Numbered
    <3> QED BY <2>4, <3>5, <3>6, <3>7, TakesUp
  <2> QED BY <2>5, <2>6
<1> QED BY <1>3, <1>4, <1>5

\* A new packet has not been sent.
LEMMA StatusNew ==
  ASSUME OneWriter, StackInv, StackInv', NEW w \in Writers, Follows(w), Write(w)
  PROVE  Follows(w)'
<1>1. /\ TypeInv /\ ShapeInv /\ delivered' = delivered /\ w \in Contexts
      /\ UNCHANGED <<heard, lpl_enabled, ntoggles>>
  BY Constants DEF StackInv, Write, belowIfc, belowLpl, radioIfc, lplVars, bounds, rxVars, uniqueVars
<1>2. /\ nwrites \in Nat /\ nwrites + 1 \in Packets /\ nwrites + 1 \in Int
      /\ writing \in [Writers -> Packets \cup {NoPkt}] /\ heard \subseteq Nat
  <2>1. nwrites \in Packets \cup {0} /\ heard \subseteq Packets /\ Packets \subseteq Nat
        /\ writing \in [Writers -> Packets \cup {NoPkt}]
    BY <1>1, PacketsAssumption DEF TypeInv, InterfaceTypeOK, SackTypeOK
  <2>2. nwrites + 1 \in Packets BY DEF Write, interface_write
  <2> QED BY <2>1, <2>2
<1>3. Enter(w, "write_down", nwrites + 1) /\ nwrites' = nwrites + 1 /\ writing'[w] = nwrites + 1
  BY <1>2 DEF Write, interface_write
<1>4. PICK n : n = nwrites + 1 OBVIOUS
<1>5. Goes(w, "none", "write_down", n)
  <2>1. "write_down" \in Fns BY DEF Fns, WriterFns, OutsideFns
  <2> QED BY <1>1, <1>2, <1>3, <1>4, <2>1, StartMoves
<1>6. fnOf'[w] = "write_down" /\ argOf'[w] = n BY <1>5, Moved
<1>7. \A q \in heard : q <= nwrites BY DEF Follows, Numbered
<1>8. n \notin heard BY <1>2, <1>4, <1>7
<1>9. Outside(w)' BY <1>1, <1>3, <1>4, <1>6, <1>8 DEF Outside, Fresh
<1>10. Numbered(writing[w])' BY <1>1, <1>2, <1>3, <1>7 DEF Numbered
<1> QED BY <1>5, <1>9, <1>10, Leaves DEF OutsideFns

\* Nothing moves.  A setting that is changed between writes finds no packet.
LEMMA StatusStill ==
  ASSUME OneWriter, StackInv, StackInv', NEW w \in Writers, Follows(w), Steady',
         (\E r \in Readers : Read(r) \/ ReadOn(r)) \/ Ioctl \/ UNCHANGED vars
  PROVE  Follows(w)'
<1>1. /\ UNCHANGED <<stack, armed, writing, nwrites, ret, tx_result, tx_done_sem, heard, acked>>
      /\ UNCHANGED <<lpl_tx_buf, csma_tx_buf, work, sack_tx_buf, sack_state, radio, tx_sem>>
  BY DEF Read, ReadOn, interface_read, read_signal, ReadStep, read_size, read_copy, read_fault, read_return, callVars,
         belowIfc, belowLpl, sackVars, radioIfc, csmaVars, lplVars, ifcVars, Ioctl, lpl_set_enabled,
         csma_set_enabled, vars
<1>2. fnOf' = fnOf /\ argOf' = argOf BY <1>1 DEF fnOf, argOf
<1> USE DEF Good, Sent, Fresh, Plain, Kept
<1>3. CASE UNCHANGED <<lpl_enabled, ntoggles>>
  BY <1>1, <1>3, StatusSame
<1>4. CASE Ioctl
  <2>1. ntoggles \in Nat BY DEF StackInv, TypeInv
  <2>2. ntoggles' # 0 BY <1>4, <2>1 DEF Ioctl
  <2>3. tx_sem = 1 BY <1>4, <2>2 DEF Steady, Ioctl
  <2>4. waiting = {} BY <2>3 DEF StackInv, MutexInv, waiting, Waits, Inside, OutsideFns
  <2>5. w \notin waiting' BY <1>2, <2>4 DEF waiting
  <2>6. Outside(w)' BY <1>1, <1>2, <2>2 DEF Follows, Outside
  <2>7. Numbered(writing[w])' BY <1>1 DEF Follows, Numbered
  <2> QED BY <2>5, <2>6, <2>7, SettlesThen DEF OneWriter
<1> QED BY <1>3, <1>4 DEF Read, ReadOn, belowIfc, lplVars, bounds, vars

-----------------------------------------------------------------------------
(* What the radio has heard, and what follows for write().                 *)

\* No frame arrives.
LEMMA HeardQuiet ==
  ASSUME HeardInv, heard \subseteq heard', acked' = acked,
         UNCHANGED stack \/ \E c, f, g, a : Goes(c, f, g, a) /\ g # "sack_rx_done"
  PROVE  HeardInv'
<1>1. CASE UNCHANGED stack
  BY <1>1 DEF fnOf, argOf, HeardInv, Acknowledges
<1>2. ASSUME NEW c, NEW f, NEW g, NEW a, Goes(c, f, g, a), g # "sack_rx_done" PROVE HeardInv'
  <2>1. "spi" \in Contexts BY Constants
  <2>2. CASE c = "spi"
    <3>1. fnOf'[c] = g BY <1>2, Moved
    <3> QED BY <1>2, <2>2, <3>1 DEF HeardInv
  <2>3. CASE c # "spi"
    <3>1. fnOf'["spi"] = fnOf["spi"] /\ argOf'["spi"] = argOf["spi"] BY <1>2, <2>1, <2>3, Moved
    <3> QED BY <3>1 DEF HeardInv, Acknowledges
  <2> QED BY <2>2, <2>3
<1> QED BY <1>1, <1>2

\* What a context that runs goes to.
LEMMA RunMoves ==
  ASSUME StackInv, NEW c \in Contexts, Run(c)
  PROVE  /\ UNCHANGED stack \/ \E f, g, a : Goes(c, f, g, a) /\ g # "sack_rx_done"
         /\ UNCHANGED <<heard, acked>>
<1>1. TypeInv /\ ShapeInv BY DEF StackInv
<1>2. ASSUME NEW f, Ends(c, f) PROVE \E g, a : Goes(c, f, g, a) /\ g # "sack_rx_done"
  BY <1>2, EndsTo DEF Ends
<1> USE DEF rxVars, uniqueVars, ifcVars, bounds
<1>3. CASE SackStep(c) /\ UNCHANGED <<csmaVars, lplVars, rxVars, ifcVars, bounds>>
  <2>1. \E f, g, a : Goes(c, f, g, a) /\ g # "sack_rx_done" BY <1>1, <1>2, <1>3, SackMoves
  <2> QED BY <1>3, <2>1 DEF SackStep, radio_tx, sack_tx, sack_tx_done, sack_rx_ack, sack_cancel,
                            sack_rx_data, sack_timer_cb, radioIfc
<1>4. CASE CsmaStep(c) /\ UNCHANGED <<sackVars, radioIfc, acked, lplVars, rxVars, ifcVars, bounds>>
  <2>1. \E f, g, a : Goes(c, f, g, a) /\ g # "sack_rx_done" BY <1>1, <1>2, <1>4, CsmaMoves
  <2> QED BY <1>4, <2>1 DEF radioIfc
<1>5. CASE LplStep(c) /\ UNCHANGED <<belowLpl, rxVars, ifcVars, bounds>>
  <2>1. \E f, g, a : Goes(c, f, g, a) /\ g # "sack_rx_done" BY <1>1, <1>2, <1>5, LplMoves
  <2> QED BY <1>5, <2>1 DEF belowLpl, radioIfc
<1>6. CASE unique_rx_done(c) /\ UNCHANGED <<belowIfc, readVars, ifcVars, bounds>>
  <2>1. \E f, g, a : Goes(c, f, g, a) /\ g # "sack_rx_done" BY <1>1, <1>2, <1>6, UniqueMoves
  <2> QED BY <1>6, <2>1 DEF belowIfc, belowLpl, radioIfc
<1>7. CASE RxStep(c) /\ UNCHANGED <<belowIfc, uniqueVars, ifcVars, bounds>>
  <2>1. UNCHANGED stack \/ \E f, g, a : Goes(c, f, g, a) /\ g # "sack_rx_done"
    BY <1>1, <1>2, <1>7, RxMoves
  <2> QED BY <1>7, <2>1 DEF belowIfc, belowLpl, radioIfc
<1>8. CASE WriteStep(c) /\ UNCHANGED <<belowIfc, rxVars, bounds>>
  <2>1. \E f, g, a : Goes(c, f, g, a) /\ g # "sack_rx_done" BY <1>1, <1>2, <1>8, WriteMoves
  <2> QED BY <1>8, <2>1 DEF belowIfc, belowLpl, radioIfc
<1> QED BY <1>3, <1>4, <1>5, <1>6, <1>7, <1>8 DEF Run

\* An acknowledgement is always one of a packet that was sent.
LEMMA HeardNext ==
  ASSUME StackInv, HeardInv, [Next]_vars
  PROVE  HeardInv'
<1>1. TypeInv /\ ShapeInv BY DEF StackInv
<1>2. ASSUME NEW c \in Contexts, Run(c) PROVE HeardInv'
  BY <1>2, RunMoves, HeardQuiet
<1>3. CASE Timeouts \/ WorkQueue \/ RadioDone \/ \E w \in Writers : Write(w)
  <2>1. heard \subseteq heard' /\ acked' = acked
    BY <1>3 DEF Timeouts, WorkQueue, RadioDone, Write, sack_expire, radio_done, radioIfc, belowIfc,
                belowLpl
  <2>2. ~Arrival
    <3>1. narrivals' = narrivals /\ narrivals \in Nat
      BY <1>1, <1>3 DEF Timeouts, WorkQueue, RadioDone, Write, bounds, TypeInv
    <3> QED BY <3>1 DEF Arrival
  <2>3. PICK c \in Contexts, g \in Fns, a \in Int : Goes(c, "none", g, a) /\ g # "sack_rx_done"
    BY <1>1, <1>3, <2>2, Starts DEF TimerFns
  <2> QED BY <2>1, <2>3, HeardQuiet
<1>4. CASE Arrival
  <2>1. PICK f \in 1..Len(Frames) : radio_rx(f) BY <1>4 DEF Arrival
  <2>2. delivered' = delivered /\ "spi" \in Contexts /\ f \in Int
    BY <1>4, Constants DEF Arrival, rxVars, uniqueVars
  <2>3. Enter("spi", "sack_rx_done", f) BY <2>1 DEF radio_rx
  <2>4. Goes("spi", "none", "sack_rx_done", f)
    BY <1>1, <2>2, <2>3, StartMoves, Names
  <2>5. argOf'["spi"] = f BY <2>4, Moved
  <2>6. CASE ~Acknowledges(f) /\ UNCHANGED <<heard, acked>>
    BY <2>5, <2>6 DEF HeardInv, Acknowledges
  <2>7. ASSUME Acknowledges(f), NEW p \in heard, Dsn[p] = Frames[f].dsn, acked' = acked \cup {p},
               heard' = heard
        PROVE  HeardInv'
    BY <2>5, <2>7 DEF HeardInv
  <2> QED BY <2>1, <2>6, <2>7 DEF radio_rx, radioIfc
<1>5. CASE (\E r \in Readers : Read(r) \/ ReadOn(r)) \/ Ioctl \/ UNCHANGED vars
  <2>1. UNCHANGED <<stack, heard, acked>>
    BY <1>5 DEF Read, ReadOn, interface_read, read_signal, ReadStep, read_size, read_copy, read_fault, read_return, callVars,
                belowIfc, belowLpl, radioIfc, Ioctl, lpl_set_enabled, csma_set_enabled, vars
  <2> QED BY <2>1, HeardQuiet
<1> QED BY <1>2, <1>3, <1>4, <1>5 DEF Next

\* The packet of a write() keeps what belongs to it.
LEMMA FollowsNext ==
  ASSUME OneWriter, StackInv, StackInv', HeardInv, AckInTime, NEW w \in Writers, Follows(w),
         Steady', [Next]_vars
  PROVE  Follows(w)'
<1>1. ASSUME NEW c \in Contexts, Run(c) PROVE Follows(w)'
  <2>1. CASE unique_rx_done(c) /\ UNCHANGED <<belowIfc, readVars, ifcVars, bounds>>
    <3>1. armed' = armed BY <2>1 DEF unique_rx_done, HandUp
    <3> QED BY <2>1, <3>1, StatusRx
  <2>2. CASE RxStep(c) /\ UNCHANGED <<belowIfc, uniqueVars, ifcVars, bounds>>
    <3>1. armed' = armed /\ delivered' = delivered
      BY <2>2 DEF RxStep, interface_rx_done, rx_copy, rx_wake, callVars, uniqueVars
    <3> QED BY <2>2, <3>1, StatusRx
  <2> QED BY <1>1, <2>1, <2>2, StatusSack, StatusCsma, StatusLpl, StatusWrite DEF Run
<1>2. CASE Timeouts \/ WorkQueue \/ RadioDone \/ Arrival
  BY <1>2, StatusStart, StatusStartQuiet DEF Timeouts
<1>3. ASSUME NEW v \in Writers, Write(v) PROVE Follows(w)'
  <2>1. v = w BY DEF OneWriter
  <2> QED BY <1>3, <2>1, StatusNew
<1>4. CASE (\E r \in Readers : Read(r) \/ ReadOn(r)) \/ Ioctl \/ UNCHANGED vars
  BY <1>4, StatusStill
<1> QED BY <1>1, <1>2, <1>3, <1>4 DEF Next

\* Settings that are steady now have been so.
LEMMA SteadyBefore ==
  ASSUME StackInv, [Next]_vars, Steady' PROVE Steady
<1>1. ntoggles \in Nat BY DEF StackInv, TypeInv
<1>2. ntoggles' = ntoggles \/ ntoggles' = ntoggles + 1
  BY DEF Next, Run, Timeouts, WorkQueue, RadioDone, Arrival, Write, Read, ReadOn, Ioctl, vars, bounds
<1> QED BY <1>1, <1>2 DEF Steady

\* Acknowledgements arrive for what was sent.
LEMMA HeardInvariant == Spec => []HeardInv
<1>1. Init => HeardInv
  <2> SUFFICES ASSUME Init PROVE HeardInv
    OBVIOUS
  <2>1. stack = [c \in Contexts |-> <<>>] /\ SackInit BY DEF Init, CallsInit
  <2>2. \A c \in Contexts : fnOf[c] = "none" BY <2>1 DEF fnOf
  <2> QED BY <2>1, <2>2, Constants DEF HeardInv, SackInit
<1>2. StackInv /\ HeardInv /\ [Next]_vars => HeardInv' BY HeardNext
<1> QED BY <1>1, <1>2, StackInvariant, PTL DEF Spec

\* The status of a write() is that of its packet.
LEMMA StatusInvariant == ASSUME OneWriter PROVE Spec /\ []AckInTime => []StatusInv
<1>1. Init => StatusInv
  <2> SUFFICES ASSUME Init, NEW w \in Writers PROVE Follows(w)
    BY DEF StatusInv
  <2>1. /\ stack = [c \in Contexts |-> <<>>] /\ armed = {} /\ SackInit /\ work = FALSE
        /\ InterfaceInit
    BY DEF Init, CallsInit, CsmaInit
  <2>2. \A c \in Contexts : fnOf[c] = "none" BY <2>1 DEF fnOf
  <2>3. \A c \in Contexts : Fits(fnOf[c], argOf[c], writing[w])
    BY <2>2 DEF Fits, Holding, Carriers
  <2>4. Stored(writing[w]) BY <2>1 DEF Stored, SackInit, InterfaceInit
  <2>5. w \in Contexts /\ writing[w] = NoPkt /\ heard = {}
    BY <2>1, Constants DEF InterfaceInit, SackInit
  <2>6. Outside(w) BY <2>2, <2>5 DEF Outside
  <2>7. Numbered(writing[w]) BY <2>5 DEF Numbered
  <2> QED BY <2>3, <2>4, <2>6, <2>7 DEF Follows
<1>2. StackInv /\ StackInv' /\ HeardInv /\ AckInTime /\ StatusInv /\ [Next]_vars => StatusInv'
  <2> SUFFICES ASSUME StackInv, StackInv', HeardInv, AckInTime, StatusInv, [Next]_vars,
                      Steady', NEW w \in Writers
               PROVE  Follows(w)'
    BY DEF StatusInv
  <2>1. Follows(w) BY SteadyBefore DEF StatusInv
  <2> QED BY <2>1, FollowsNext
<1> QED BY <1>1, <1>2, StackInvariant, HeardInvariant, PTL DEF Spec

\* What a process has been told.
LEMMA Told ==
  ASSUME NEW w \in Writers, Follows(w), Idle(w), writing[w] # NoPkt
  PROVE  \E s \in Statuses : Good(s, writing[w]) /\ ret[w] = IF s = SUCCESS THEN PktLen ELSE s
<1>1. w \in Contexts BY Constants
<1>2. fnOf[w] = "none" BY <1>1, Running
<1> QED BY <1>2 DEF Follows, Outside

\* A write() of a packet that asks for an acknowledgement reports success only
\* when this packet has been acknowledged: for any packets, frames and sequence
\* numbers, used again or not, and any settings that are changed between writes
\* only, as long as no acknowledgement is so late that its number has been used
\* again.
THEOREM SuccessIsAcked ==
  ASSUME OneWriter, Toggles = "between" PROVE Spec /\ []AckInTime => []SuccessAcked
<1>1. StatusInv => SuccessAcked
  <2> SUFFICES ASSUME StatusInv, NEW w \in Writers, Returned(w, PktLen), writing[w] \in AckReq
               PROVE  writing[w] \in acked
    BY DEF SuccessAcked
  <2>1. Follows(w) BY DEF StatusInv, Steady
  <2>2. PICK s \in Statuses : Good(s, writing[w]) /\ PktLen = IF s = SUCCESS THEN PktLen ELSE s
    BY <2>1, Told DEF Returned
  <2>3. s = SUCCESS BY <2>2, Codes, InterfaceAssumption DEF Statuses
  <2> QED BY <2>2, <2>3 DEF Good
<1> QED BY <1>1, StatusInvariant, PTL

\* The processes give every packet a number of its own (there are 256)
OwnNumbers == \A p, q \in Packets : Dsn[p] = Dsn[q] => p = q

\* Acknowledgements are in time, however late they come, when no number is used
\* twice: this is what the theorems here assume of them.
THEOREM OwnNumbersInTime == ASSUME OwnNumbers PROVE Spec => []AckInTime
<1>1. StackInv /\ HeardInv => AckInTime
  <2> SUFFICES ASSUME StackInv, HeardInv, NEW c \in Contexts, At(c, "sack_rx_done"),
                      Acknowledges(Arg(c))
               PROVE  \E p \in acked :
                        /\ Dsn[p] = Frames[Arg(c)].dsn
                        /\ \A q \in Packets : p < q /\ q <= nwrites => Dsn[q] # Dsn[p]
    BY DEF AckInTime
  <2>1. ShapeInv /\ acked \subseteq Packets BY DEF StackInv, TypeInv, SackTypeOK
  <2>2. fnOf[c] = "sack_rx_done" /\ Arg(c) = argOf[c] BY <2>1, Current, Names
  <2>3. c = "spi" BY <2>1, <2>2, Home
  <2>4. PICK p \in acked : Dsn[p] = Frames[Arg(c)].dsn BY <2>2, <2>3 DEF HeardInv
  <2>5. ASSUME NEW q \in Packets, p < q PROVE Dsn[q] # Dsn[p]
    <3>1. p \in Nat /\ q \in Nat BY <2>1, PacketsAssumption
    <3> QED BY <2>1, <2>5, <3>1 DEF OwnNumbers
  <2> QED BY <2>4, <2>5
<1> QED BY <1>1, StackInvariant, HeardInvariant, PTL

\* Without LPL the status of a write() tells whether its packet was sent, if it
\* asks for no acknowledgement.  If it does, a success tells that it was sent and
\* BUSY that it was not, and every other attempt, also one that failed, is an
\* ACK_TIMEOUT.
THEOREM PlainStatusHolds ==
  ASSUME OneWriter PROVE Spec /\ []AckInTime => []PlainStatus
<1>1. StatusInv => PlainStatus
  <2> SUFFICES ASSUME StatusInv, Plain, NEW w \in Writers, Idle(w), writing[w] # NoPkt
               PROVE  IF writing[w] \in AckReq
                        THEN /\ ret[w] \in {PktLen, BUSY, ACK_TIMEOUT}
                             /\ ret[w] = PktLen => writing[w] \in heard
                             /\ ret[w] = BUSY => writing[w] \notin heard
                        ELSE /\ ret[w] \in {PktLen, BUSY, FAILED}
                             /\ ret[w] = PktLen <=> writing[w] \in heard
    BY DEF PlainStatus, Plain
  <2>1. Follows(w) BY DEF StatusInv, Steady, Plain
  <2>2. PICK s \in Statuses : Good(s, writing[w]) /\ ret[w] = IF s = SUCCESS THEN PktLen ELSE s
    BY <2>1, Told
  <2>3. PktLen \notin {BUSY, ACK_TIMEOUT, FAILED} BY Codes, InterfaceAssumption
  <2> QED BY <2>2, <2>3, Codes DEF Good, Sent, Fresh, Statuses
<1> QED BY <1>1, StatusInvariant, PTL

-----------------------------------------------------------------------------
(* The duplicate filter of unique.c, whatever arrives.                     *)

\* Frame j is the last one of sender s
IsLast(j, s) == Sender(j) = s /\ \A k \in (j + 1)..Len(passed) : Sender(k) # s

\* The list holds for each sender the number of its last frame, and no entry for
\* a sender whose frames have all been handed up without one.
NodeInv(s) ==
  \/ nodes[s] = Unknown /\ \A j \in DOMAIN passed : Sender(j) = s => ~HasEntry(j)
  \/ \E j \in DOMAIN passed : /\ IsLast(j, s) /\ HasEntry(j)
                              /\ nodes[s] = Frames[passed[j].frame].dsn

\* UniqueExact is about the past; which frames repeat one is kept in nodes.
UniqueInv ==
  /\ \A s \in Srcs : NodeInv(s)
  /\ \A i \in DOMAIN passed : passed[i].up \in 0..Len(delivered)
  /\ UniqueExact

\* What the driver reads from the header is who sent the frame, and its number.
LEMMA SenderRead ==
  ASSUME NEW f \in 1..Len(Frames)
  PROVE  /\ SrcOf[f] = u64(Frames[f].src) /\ SrcOf[f] \in Srcs
         /\ RxBuf[f].dsn = Frames[f].dsn /\ Frames[f].dsn # Unknown
<1>0. Frames[f] \in MacFrame BY PacketsAssumption
<1>1. PICK fr \in MacFrame : fr = Frames[f] BY <1>0
<1>2. RxBuf[f] = Encode(fr) BY <1>1 DEF RxBuf
<1>3. get_src(RxBuf[f]) = u64(fr.src) BY <1>2, SrcExact
<1>4. SrcOf[f] = get_src(RxBuf[f]) /\ SrcOf[f] \in Srcs BY DEF SrcOf, Srcs
<1>5. Encode(fr).dsn = fr.dsn BY DEF Encode
<1>6. fr.dsn \in 0..255 BY DEF MacFrame
<1>7. SrcOf[f] = u64(Frames[f].src) BY <1>1, <1>3, <1>4
<1>8. Frames[f].dsn # Unknown
  <2>1. \A x \in 0..255 : x # Unknown BY DEF Unknown
  <2> QED BY <1>1, <1>6, <2>1
<1> QED BY <1>1, <1>2, <1>4, <1>5, <1>7, <1>8

\* So a list entry holds a number.
LEMMA PassedKnown ==
  ASSUME TypeInv, NEW j \in 1..Len(passed)
  PROVE  Frames[passed[j].frame].dsn # Unknown
<1> DEFINE S == [frame : 1..Len(Frames), up : Nat]
<1>1. passed \in Seq(S) BY DEF TypeInv, UniqueTypeOK
<1>2. \A e \in S : e.frame \in 1..Len(Frames) OBVIOUS
<1> HIDE DEF S
<1>3. passed[j] \in S BY <1>1
<1> QED BY <1>2, <1>3, SenderRead

\* A frame is appended: what was said of the ones before it remains true.
LEMMA PastRemains ==
  ASSUME TypeInv, UniqueInv, NEW e, passed' = Append(passed, e),
         \/ delivered' = delivered
         \/ \E d : delivered' = Append(delivered, d)
  PROVE  /\ Len(passed) \in Nat /\ Len(passed') = Len(passed) + 1
         /\ passed'[Len(passed) + 1] = e
         /\ \A i \in 1..Len(passed) :
              /\ passed'[i] = passed[i] /\ Sender(i)' = Sender(i)
              /\ HasEntry(i)' <=> HasEntry(i)
         /\ \A i, j \in 1..Len(passed) : Repeats(j, i)' <=> Repeats(j, i)
<1>1. /\ passed \in Seq([frame : 1..Len(Frames), up : Nat])
      /\ delivered \in Seq([frame : 1..Len(Frames), kept : BOOLEAN])
  BY DEF TypeInv, UniqueTypeOK
<1>2. /\ Len(passed) \in Nat /\ Len(passed') = Len(passed) + 1
      /\ passed'[Len(passed) + 1] = e
      /\ \A i \in 1..Len(passed) : passed'[i] = passed[i]
  BY <1>1
<1>3. Len(delivered) \in Nat /\ \A n \in 1..Len(delivered) : delivered'[n] = delivered[n]
  <2>1. PICK D : delivered \in Seq(D)
    BY <1>1
  <2>2. CASE delivered' = delivered
    BY <2>1, <2>2
  <2>3. CASE \E d : delivered' = Append(delivered, d)
    <3>1. PICK d : delivered' = Append(delivered, d)
      BY <2>3
    <3> QED BY <2>1, <3>1
  <2> QED BY <2>2, <2>3
<1>4. \A i \in 1..Len(passed) : Sender(i)' = Sender(i)
  BY <1>2 DEF Sender
<1>5. ASSUME NEW i \in 1..Len(passed) PROVE HasEntry(i)' <=> HasEntry(i)
  <2>1. passed[i].up \in 0..Len(delivered) /\ passed'[i] = passed[i]
    BY <1>1, <1>2 DEF UniqueInv
  <2>2. passed[i].up # 0 => delivered'[passed[i].up] = delivered[passed[i].up]
    BY <1>3, <2>1
  <2> QED BY <2>1, <2>2 DEF HasEntry
<1>6. ASSUME NEW i \in 1..Len(passed), NEW j \in 1..Len(passed)
      PROVE  Repeats(j, i)' <=> Repeats(j, i)
  <2>1. \A k \in (j + 1)..(i - 1) : k \in 1..Len(passed)
    BY <1>2
  <2>2. \A k \in (j + 1)..(i - 1) : Sender(k)' = Sender(k)
    BY <1>4, <2>1
  <2>3. /\ Sender(i)' = Sender(i) /\ Sender(j)' = Sender(j)
        /\ passed'[i] = passed[i] /\ passed'[j] = passed[j]
    BY <1>2, <1>4
  <2> QED BY <2>2, <2>3 DEF Repeats
<1> QED BY <1>2, <1>4, <1>5, <1>6

\* A new frame repeats the last one of its sender or none.
LEMMA NewRepeats ==
  ASSUME TypeInv, UniqueInv, NEW e, passed' = Append(passed, e),
         \/ delivered' = delivered
         \/ \E d : delivered' = Append(delivered, d),
         NEW m, m = Len(passed) + 1, NEW j \in 1..Len(passed)
  PROVE  Repeats(j, m)' <=> /\ IsLast(j, u64(Frames[e.frame].src))
                            /\ Frames[passed[j].frame].dsn = Frames[e.frame].dsn
<1>1. /\ Len(passed) \in Nat /\ passed'[m] = e /\ passed'[j] = passed[j]
      /\ \A i \in 1..Len(passed) : Sender(i)' = Sender(i)
  BY PastRemains
<1>2. /\ j < m
      /\ \A k \in (j + 1)..Len(passed) : Sender(k)' = Sender(k)
      /\ (j + 1)..(m - 1) = (j + 1)..Len(passed)
  BY <1>1
<1>3. Sender(m)' = u64(Frames[e.frame].src)
  BY <1>1 DEF Sender
<1>4. Sender(j)' = Sender(j) BY <1>1
<1> QED BY <1>1, <1>2, <1>3, <1>4 DEF Repeats, IsLast

\* A frame reaches unique.c: it is dropped exactly when the list holds its number.
LEMMA UniqueStep ==
  ASSUME TypeInv, ShapeInv, UniqueInv, NEW c \in Contexts, unique_rx_done(c)
  PROVE  UniqueInv'
<1>1. argOf[c] = Arg(c) /\ argOf[c] \in 1..Len(Frames)
  BY UniqueMoves
<1>2. PICK f \in 1..Len(Frames) : f = argOf[c]
  BY <1>1
<1> DEFINE s == u64(Frames[f].src)
           n == Frames[f].dsn
           D == Len(delivered)
<1>3. s \in Srcs /\ SrcOf[f] = s /\ RxBuf[f].dsn = n /\ n # Unknown
  BY SenderRead
<1>4. /\ nodes \in [Srcs -> Nat \cup {Unknown}] /\ D \in Nat
      /\ delivered \in Seq([frame : 1..Len(Frames), kept : BOOLEAN])
      /\ Len(passed) \in Nat /\ DOMAIN passed = 1..Len(passed)
  BY DEF TypeInv, UniqueTypeOK
<1>5. PICK m \in Nat : m = Len(passed) + 1
  BY <1>4
<1> HIDE DEF s, n
<1>6. \/ /\ nodes[s] = n /\ nodes' = nodes /\ delivered' = delivered
         /\ passed' = Append(passed, [frame |-> f, up |-> 0])
      \/ \E kept \in BOOLEAN :
           /\ passed' = Append(passed, [frame |-> f, up |-> D + 1])
           /\ delivered' = Append(delivered, [frame |-> f, kept |-> kept])
           /\ \/ kept /\ nodes[s] # n /\ nodes' = [nodes EXCEPT ![s] = n]
              \/ ~kept /\ nodes[s] = Unknown /\ nodes' = nodes
  BY <1>1, <1>2, <1>3 DEF unique_rx_done, Drop, HandUp
<1>7. PICK up \in {0, D + 1} :
        /\ passed' = Append(passed, [frame |-> f, up |-> up])
        /\ up = 0 => nodes[s] = n /\ nodes' = nodes /\ delivered' = delivered
        /\ up # 0 => \E kept \in BOOLEAN :
             /\ delivered' = Append(delivered, [frame |-> f, kept |-> kept])
             /\ \/ kept /\ nodes[s] # n /\ nodes' = [nodes EXCEPT ![s] = n]
                \/ ~kept /\ nodes[s] = Unknown /\ nodes' = nodes
  <2>1. D + 1 # 0 BY <1>4
  <2> QED BY <1>6, <2>1
<1>8. /\ delivered' = delivered \/ \E d : delivered' = Append(delivered, d)
      /\ \A k \in 1..D : delivered'[k] = delivered[k]
      /\ DOMAIN delivered' = 1..Len(delivered')
      /\ Len(delivered') = IF up = 0 THEN D ELSE D + 1
  <2>1. CASE up = 0 BY <1>4, <1>7, <2>1
  <2>2. CASE up # 0
    <3> DEFINE S == [frame : 1..Len(Frames), kept : BOOLEAN]
    <3>1. PICK e \in S : delivered' = Append(delivered, e) BY <1>7, <2>2
    <3>2. delivered \in Seq(S) BY <1>4
    <3> HIDE DEF S
    <3>3. delivered' \in Seq(S) BY <3>1, <3>2
    <3> QED BY <1>4, <2>2, <3>1, <3>2, <3>3
  <2> QED BY <2>1, <2>2
<1>9. /\ Len(passed') = m /\ DOMAIN passed' = 1..m /\ passed'[m] = [frame |-> f, up |-> up]
      /\ \A i \in 1..Len(passed) : /\ passed'[i] = passed[i] /\ Sender(i)' = Sender(i)
                                   /\ HasEntry(i)' <=> HasEntry(i)
      /\ \A i, j \in 1..Len(passed) : Repeats(j, i)' <=> Repeats(j, i)
  <2>1. passed' \in Seq([frame : 1..Len(Frames), up : Nat])
    <3> DEFINE S == [frame : 1..Len(Frames), up : Nat]
               e == [frame |-> f, up |-> up]
    <3>1. e \in S BY <1>4
    <3>2. passed \in Seq(S) BY DEF TypeInv, UniqueTypeOK
    <3>3. passed' = Append(passed, e) BY <1>7
    <3> HIDE DEF S, e
    <3>4. passed' \in Seq(S) BY <3>1, <3>2, <3>3
    <3> QED BY <3>4 DEF S
  <2>2. Len(passed') = Len(passed) + 1 /\ passed'[Len(passed) + 1] = [frame |-> f, up |-> up]
    BY <1>7, <1>8, PastRemains
  <2> QED BY <1>5, <1>7, <1>8, <2>1, <2>2, PastRemains
<1>10. Sender(m)' = s
  BY <1>9 DEF Sender, s
<1>11. \A j \in 1..Len(passed) :
         Repeats(j, m)' <=> IsLast(j, s) /\ Frames[passed[j].frame].dsn = n
  BY <1>5, <1>7, <1>8, NewRepeats DEF s, n
<1>12. \A j \in 1..m : /\ ~Repeats(m, j)'
                       /\ j # m => j \in 1..Len(passed)
  BY <1>4, <1>5 DEF Repeats
<1>13. /\ NodeInv(s)
       /\ \A i \in 1..Len(passed) : passed[i].up \in 0..D
  BY <1>3, <1>4 DEF UniqueInv
<1>14. (up = 0) <=> \E j \in 1..Len(passed) : Repeats(j, m)' /\ HasEntry(j)
  <2>1. CASE up = 0
    <3>1. nodes[s] = n /\ n # Unknown BY <1>3, <1>7, <2>1
    <3>2. PICK j \in 1..Len(passed) : /\ IsLast(j, s) /\ HasEntry(j)
                                      /\ nodes[s] = Frames[passed[j].frame].dsn
      BY <1>4, <1>13, <3>1 DEF NodeInv
    <3> QED BY <1>11, <2>1, <3>1, <3>2
  <2>2. CASE up # 0
    <3>1. nodes[s] # n
      BY <1>3, <1>7, <2>2
    <3>2. ASSUME NEW j \in 1..Len(passed), Repeats(j, m)', HasEntry(j) PROVE FALSE
      <4>1. IsLast(j, s) /\ Frames[passed[j].frame].dsn = n BY <1>11, <3>2
      <4>2. Sender(j) = s BY <4>1 DEF IsLast
      <4>3. PICK i \in 1..Len(passed) : IsLast(i, s) /\ nodes[s] = Frames[passed[i].frame].dsn
        BY <1>4, <1>13, <3>2, <4>2 DEF NodeInv
      <4>4. i = j BY <1>4, <4>1, <4>2, <4>3 DEF IsLast
      <4> QED BY <3>1, <4>1, <4>3, <4>4
    <3> QED BY <2>2, <3>2
  <2> QED BY <2>1, <2>2
<1>15. ASSUME NEW i \in 1..m
       PROVE  passed'[i].up = 0 <=> \E j \in 1..m : Repeats(j, i)' /\ HasEntry(j)'
  <2>1. (\E j \in 1..m : Repeats(j, i)' /\ HasEntry(j)')
          <=> \E j \in 1..Len(passed) : Repeats(j, i)' /\ HasEntry(j)
    BY <1>5, <1>9, <1>12
  <2>2. CASE i = m
    BY <1>9, <1>14, <2>1, <2>2
  <2>3. CASE i # m
    <3>1. i \in 1..Len(passed) BY <1>12, <2>3
    <3>2. passed[i].up = 0 <=> \E j \in 1..Len(passed) : Repeats(j, i) /\ HasEntry(j)
      BY <1>4, <3>1 DEF UniqueInv, UniqueExact
    <3> QED BY <1>9, <2>1, <3>1, <3>2
  <2> QED BY <2>2, <2>3
<1>16. ASSUME NEW k \in DOMAIN delivered'
       PROVE  \E i \in 1..m : passed'[i] = [frame |-> delivered'[k].frame, up |-> k]
  <2>1. CASE k \in 1..D
    <3>1. delivered'[k] = delivered[k] BY <1>8, <2>1
    <3>2. PICK i \in 1..Len(passed) : passed[i] = [frame |-> delivered[k].frame, up |-> k]
      BY <1>4, <2>1 DEF UniqueInv, UniqueExact
    <3>3. i \in 1..m /\ passed'[i] = passed[i] BY <1>4, <1>5, <1>9
    <3> QED BY <3>1, <3>2, <3>3
  <2>2. CASE k \notin 1..D
    <3>1. k = D + 1 /\ up = D + 1 BY <1>4, <1>7, <1>8, <2>2
    <3>2. PICK kept \in BOOLEAN : delivered' = Append(delivered, [frame |-> f, kept |-> kept])
      <4>1. up # 0 BY <1>4, <3>1
      <4> QED BY <1>7, <4>1
    <3>3. delivered'[k] = [frame |-> f, kept |-> kept] BY <1>4, <3>1, <3>2
    <3> QED BY <1>5, <1>9, <3>1, <3>3
  <2> QED BY <2>1, <2>2
<1>17. ASSUME NEW i \in 1..m, NEW j \in 1..m, i < j, passed'[j].up # 0
       PROVE  passed'[i].up < passed'[j].up
  <2>1. i \in 1..Len(passed) /\ passed'[i] = passed[i] BY <1>5, <1>9, <1>12, <1>17
  <2>2. CASE j = m
    <3>1. passed'[j].up = D + 1 BY <1>9, <1>17, <2>2
    <3>2. passed[i].up \in 0..D BY <1>13, <2>1
    <3> QED BY <1>4, <2>1, <3>1, <3>2
  <2>3. CASE j # m
    <3>1. j \in 1..Len(passed) /\ passed'[j] = passed[j] BY <1>9, <1>12, <2>3
    <3> QED BY <1>4, <1>17, <2>1, <3>1 DEF UniqueInv, UniqueExact
  <2> QED BY <2>2, <2>3
<1>18. \A i \in 1..m : passed'[i].up \in 0..Len(delivered')
  <2>1. Len(delivered') \in {D, D + 1} /\ up \in 0..Len(delivered')
    BY <1>4, <1>7, <1>8
  <2> QED BY <1>4, <1>9, <1>12, <1>13, <2>1
<1>19. ASSUME NEW t \in Srcs PROVE NodeInv(t)'
  <2>1. CASE t # s
    <3>1. nodes'[t] = nodes[t] BY <1>3, <1>4, <1>6, <2>1
    <3>2. \A j \in 1..Len(passed) : IsLast(j, t) => IsLast(j, t)'
      <4>1. ASSUME NEW j \in 1..Len(passed), IsLast(j, t) PROVE IsLast(j, t)'
        <5>1. ASSUME NEW k \in (j + 1)..m PROVE Sender(k)' # t
          <6>1. k = m \/ (k \in 1..Len(passed) /\ k \in (j + 1)..Len(passed))
            BY <1>4, <1>5
          <6> QED BY <1>9, <1>10, <2>1, <4>1, <6>1 DEF IsLast
        <5>2. Sender(j)' = t BY <1>9, <4>1 DEF IsLast
        <5> QED BY <1>9, <5>1, <5>2 DEF IsLast
      <4> QED BY <4>1
    <3>3. NodeInv(t) BY DEF UniqueInv
    <3>4. CASE nodes[t] = Unknown /\ \A j \in 1..Len(passed) : Sender(j) = t => ~HasEntry(j)
      <4>1. \A j \in 1..m : Sender(j)' = t => ~HasEntry(j)'
        BY <1>9, <1>10, <1>12, <2>1, <3>4
      <4> QED BY <1>9, <3>1, <3>4, <4>1 DEF NodeInv
    <3>5. CASE \E j \in 1..Len(passed) : /\ IsLast(j, t) /\ HasEntry(j)
                                         /\ nodes[t] = Frames[passed[j].frame].dsn
      <4>1. PICK j \in 1..Len(passed) : /\ IsLast(j, t) /\ HasEntry(j)
                                        /\ nodes[t] = Frames[passed[j].frame].dsn
        BY <3>5
      <4>2. /\ IsLast(j, t)' /\ HasEntry(j)' /\ j \in DOMAIN passed'
            /\ nodes'[t] = Frames[passed'[j].frame].dsn
        BY <1>4, <1>5, <1>9, <3>1, <3>2, <4>1
      <4> QED BY <4>2 DEF NodeInv
    <3> QED BY <1>4, <3>3, <3>4, <3>5 DEF NodeInv
  <2>2. CASE t = s
    <3>1. IsLast(m, s)' /\ m \in DOMAIN passed' BY <1>5, <1>9, <1>10 DEF IsLast
    <3>2. Frames[passed'[m].frame].dsn = n BY <1>9 DEF n
    <3>3. CASE up = 0
      <4>1. nodes'[s] = n BY <1>7, <3>3
      <4>2. HasEntry(m)' BY <1>9, <3>3 DEF HasEntry
      <4> QED BY <2>2, <3>1, <3>2, <4>1, <4>2 DEF NodeInv
    <3>4. CASE up # 0
      <4>1. PICK kept \in BOOLEAN :
              /\ delivered' = Append(delivered, [frame |-> f, kept |-> kept])
              /\ \/ kept /\ nodes[s] # n /\ nodes' = [nodes EXCEPT ![s] = n]
                 \/ ~kept /\ nodes[s] = Unknown /\ nodes' = nodes
        BY <1>7, <3>4
      <4>2. HasEntry(m)' <=> kept
        <5>1. up = D + 1 /\ delivered'[D + 1] = [frame |-> f, kept |-> kept]
          BY <1>4, <1>7, <3>4, <4>1
        <5> QED BY <1>4, <1>9, <5>1 DEF HasEntry
      <4>3. CASE kept
        <5>1. nodes'[s] = n BY <1>3, <1>4, <4>1, <4>3
        <5> QED BY <2>2, <3>1, <3>2, <4>2, <4>3, <5>1 DEF NodeInv
      <4>4. CASE ~kept
        <5>1. nodes'[s] = Unknown /\ nodes[s] = Unknown BY <4>1, <4>4
        <5>2. \A j \in 1..Len(passed) : Sender(j) = s => ~HasEntry(j)
          BY <1>4, <1>13, <5>1, PassedKnown DEF NodeInv
        <5>3. \A j \in 1..m : Sender(j)' = s => ~HasEntry(j)'
          BY <1>9, <1>12, <4>2, <4>4, <5>2
        <5> QED BY <1>9, <2>2, <5>1, <5>3 DEF NodeInv
      <4> QED BY <4>3, <4>4
    <3> QED BY <3>3, <3>4
  <2> QED BY <2>1, <2>2
<1>20. UniqueExact'
  BY <1>9, <1>15, <1>16, <1>17 DEF UniqueExact
<1> QED BY <1>9, <1>18, <1>19, <1>20 DEF UniqueInv

\* Nothing else touches the list, nor which frames have passed.
LEMMA UniqueQuiet ==
  ASSUME UniqueInv, UNCHANGED uniqueVars
  PROVE  UniqueInv'
<1>1. passed' = passed /\ delivered' = delivered /\ nodes' = nodes
  BY DEF uniqueVars
<1>2. /\ \A i : Sender(i)' = Sender(i) /\ (HasEntry(i)' <=> HasEntry(i))
      /\ \A i, j : Repeats(j, i)' <=> Repeats(j, i)
      /\ \A i, s : IsLast(i, s)' <=> IsLast(i, s)
  BY <1>1 DEF Sender, HasEntry, Repeats, IsLast
<1> QED BY <1>1, <1>2 DEF UniqueInv, UniqueExact, NodeInv

\* The invariant holds always.
LEMMA UniqueInvariant == Spec => []UniqueInv
<1>1. Init => UniqueInv
  <2> SUFFICES ASSUME Init PROVE UniqueInv
    OBVIOUS
  <2>1. passed = <<>> /\ delivered = <<>> /\ nodes = [s \in Srcs |-> Unknown]
    BY DEF Init, UniqueInit
  <2> QED BY <2>1 DEF UniqueInv, UniqueExact, NodeInv
<1>2. StackInv /\ UniqueInv /\ [Next]_vars => UniqueInv'
  <2> SUFFICES ASSUME StackInv, UniqueInv, [Next]_vars PROVE UniqueInv'
    OBVIOUS
  <2>1. ASSUME NEW c \in Contexts, unique_rx_done(c) PROVE UniqueInv'
    BY <2>1, UniqueStep DEF StackInv
  <2>2. CASE UNCHANGED uniqueVars
    BY <2>2, UniqueQuiet
  <2>3. UNCHANGED uniqueVars \/ \E c \in Contexts : unique_rx_done(c)
    BY DEF Next, Run, Read, ReadOn, Timeouts, WorkQueue, RadioDone, Arrival, Write, Ioctl,
         vars, rxVars
  <2> QED BY <2>1, <2>2, <2>3
<1> QED BY <1>1, <1>2, StackInvariant, PTL DEF Spec

\* The duplicate filter is exact for any number of senders and frames, in any
\* order, and whatever allocations fail.
THEOREM UniqueIsExact == Spec => []UniqueExact
<1>1. UniqueInv => UniqueExact BY DEF UniqueInv
<1> QED BY <1>1, UniqueInvariant, PTL
=============================================================================
