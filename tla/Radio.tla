------------------------------- MODULE Radio --------------------------------
(***************************************************************************)
(* radio.c over the chip: the radio lock, the transmit engine, the receive *)
(* engine and the configuration commands, each handler in the context it   *)
(* runs in.  There are five contexts, each with a program counter:         *)
(*                                                                         *)
(*   spi_pc    the SPI message pump, one kernel thread that executes the   *)
(*             queued messages in order and runs their completion          *)
(*             callbacks itself, so a callback that spins stops the queue; *)
(*   sfd_pc    the SFD interrupt handler;                                  *)
(*   fifop_pc  the FIFOP interrupt handler;                                *)
(*   tx_pc     the caller of radio_tx above (process or work queue);       *)
(*   adm_pc    a process in an ioctl that configures the radio.            *)
(*                                                                         *)
(* A step is a maximal piece of code between two points at which another   *)
(* context can observe or change what it touches: acquiring or releasing   *)
(* radio_sl, changing pending_rx, reading a pin, queueing a message,       *)
(* calling the layer above.                                                *)
(***************************************************************************)
EXTENDS Chip

CONSTANTS MaxCfg,   \* bound: configuration calls
          Ops,      \* the configuration calls the environment makes
          Acks      \* when received frames ask for an acknowledgement: never, only
                    \* once the configuration calls have returned, or at any time

LockedOps   == {"start", "on", "off"}
UnlockedOps == {"set_channel", "set_address", "set_txpower"}

ASSUME RadioAssumption ==
  /\ MaxCfg \in Nat
  /\ Ops \subseteq LockedOps \cup UnlockedOps
  /\ Acks \in {"never", "configured", "any"}

VARIABLES
  radio_state,   \* the radio lock: who owns the transmit resources
  pending_rx,    \* a reception is being read out
  msg, rx_msg,   \* the two SPI messages: command and completion callback
  spiq,          \* messages queued in the SPI core
  tx_buf_r,      \* the frame radio_tx copied
  excflag0,      \* the EXCFLAG0 underflow bit as tsfer4 read it
  rx_in_buf,     \* what the last RXBUF transfer read
  rx_buf_r,      \* the frame last handed to rx_done
  spi_pc, sfd_pc, fifop_pc, tx_pc, adm_pc,
  adm_todo,      \* commands the configuration call still has to issue
  sack_busy,     \* the layer above waits for a tx_done
  ntx, ncfg      \* calls made so far

msgs   == <<msg, rx_msg, spiq>>
bufs   == <<tx_buf_r, excflag0, rx_in_buf, rx_buf_r>>
irqPcs == <<sfd_pc, fifop_pc>>
procs  == <<tx_pc, adm_pc, adm_todo, sack_busy, ntx, ncfg>>
radioVars == <<radio_state, pending_rx, msgs, bufs, spi_pc, irqPcs, procs>>
vars == <<chipVars, radioVars>>

TxStates    == {"TX", "TX_SFD_DONE", "TX_SPI_DONE", "TX_2_RX"}
RadioStates == {"IDLE", "CONFIG"} \cup TxStates

CfgCmds == {"REG", "SRXON", "SRFOFF"}
Message(cmd, complete) == [cmd |-> cmd, complete |-> complete]
TxMessages == { Message("SRFOFF", "continueTx_check"), Message("TX", "continueTx"),
                Message("SFLUSHRX_TX", "continueTx"),
                Message("SFLUSHTX", "completeFlushTx") }
CfgMessages == { Message(c, "spi_complete") : c \in CfgCmds }
RxMessages == { Message("RXBUF_len", "continueRx"), Message("RXBUF_data", "finishRx"),
                Message("SFLUSHRX", "continueFlushRx"),
                Message("SFLUSHRX", "completeFlushRx") }

RxPcs  == {"continueRx", "finishRx", "continueFlushRx", "completeFlushRx",
           "rx_done", "ack_spin", "fifo_check", "clear_pending"}
SpiPcs == {"idle", "mid", "continueTx_check", "continueTx", "completeFlushTx",
           "spi_complete", "completeTx", "tx_done", "tx_failed"} \cup RxPcs

TypeOK ==
  /\ ChipTypeOK
  /\ radio_state \in RadioStates
  /\ pending_rx \in BOOLEAN
  /\ msg \in TxMessages \cup CfgMessages
  /\ rx_msg \in RxMessages
  /\ spiq \in Seq({"msg", "rx_msg"})
  /\ tx_buf_r \in 0..MaxTx
  /\ excflag0 \in BOOLEAN
  /\ rx_in_buf \in -1..MaxRx
  /\ rx_buf_r \in -1..MaxRx
  /\ spi_pc \in SpiPcs
  /\ sfd_pc \in {"idle", "entered", "completeTx", "tx_done"}
  /\ fifop_pc \in {"idle", "entered"}
  /\ tx_pc \in {"idle", "spin"}
  /\ adm_pc \in {"idle", "spin", "issue", "wait"}
  /\ adm_todo \in Seq(CfgCmds \cup {"RESET", "unlock"})
  /\ sack_busy \in BOOLEAN
  /\ ntx \in 0..MaxTx
  /\ ncfg \in 0..MaxCfg

Init ==
  /\ ChipInit
  /\ radio_state = "IDLE"
  /\ pending_rx = FALSE
  /\ msg = Message("REG", "spi_complete")
  /\ rx_msg = Message("RXBUF_len", "continueRx")
  /\ spiq = <<>>
  /\ tx_buf_r = 0
  /\ excflag0 = FALSE
  /\ rx_in_buf = Junk
  /\ rx_buf_r = Junk
  /\ spi_pc = "idle" /\ sfd_pc = "idle" /\ fifop_pc = "idle"
  /\ tx_pc = "idle" /\ adm_pc = "idle"
  /\ adm_todo = <<>>
  /\ sack_busy = FALSE
  /\ ntx = 0 /\ ncfg = 0

\* spi_async: fill in a message and queue it
spi_async_msg(cmd, complete) ==
  /\ msg' = Message(cmd, complete)
  /\ spiq' = Append(spiq, "msg")

spi_async_rx(cmd, complete) ==
  /\ rx_msg' = Message(cmd, complete)
  /\ spiq' = Append(spiq, "rx_msg")

-----------------------------------------------------------------------------
(* The layer above asks for a transmission.  sack.c sets its state before  *)
(* it calls, and calls again only after tx_done.                           *)

radio_tx_call ==
  /\ tx_pc = "idle"
  /\ ~sack_busy
  /\ ntx < MaxTx
  /\ tx_pc' = "spin"
  /\ sack_busy' = TRUE
  /\ ntx' = ntx + 1
  /\ UNCHANGED <<chipVars, radio_state, pending_rx, msgs, bufs, spi_pc, irqPcs,
                 adm_pc, adm_todo, ncfg>>

\* radio_lock(TX), the copy of the frame, beginTx
lock_and_beginTx ==
  /\ radio_state = "IDLE"
  /\ radio_state' = "TX"
  /\ tx_buf_r' = ntx
  /\ spi_async_msg("SRFOFF", "continueTx_check")

radio_tx ==
  /\ tx_pc = "spin"
  /\ lock_and_beginTx
  /\ tx_pc' = "idle"
  /\ UNCHANGED <<chipVars, pending_rx, rx_msg, excflag0, rx_in_buf, rx_buf_r,
                 spi_pc, irqPcs, adm_pc, adm_todo, sack_busy, ntx, ncfg>>

-----------------------------------------------------------------------------
(* The SPI core executes the oldest message.                               *)

pump(m) ==
  /\ spi_pc = "idle"
  /\ spiq # <<>>
  /\ Head(spiq) = m
  /\ spiq' = Tail(spiq)
  /\ UNCHANGED <<radio_state, pending_rx, msg, rx_msg, tx_buf_r, excflag0,
                 rx_buf_r, irqPcs, procs>>

\* The transmit message is split at the point where the transmitter is on and
\* the rest of the frame is still to be written.
pump_msg ==
  /\ pump("msg")
  /\ CASE msg.cmd = "SRFOFF"      -> SRFOFF
       [] msg.cmd = "SRXON"       -> SRXON
       [] msg.cmd = "SFLUSHTX"    -> SFLUSHTX
       [] msg.cmd = "TX"          -> TXBUF_STXON(tx_buf_r, FALSE)
       [] msg.cmd = "SFLUSHRX_TX" -> TXBUF_STXON(tx_buf_r, TRUE)
       [] OTHER                   -> UNCHANGED chipVars
  /\ spi_pc' = IF msg.cmd \in {"TX", "SFLUSHRX_TX"} THEN "mid" ELSE msg.complete
  /\ UNCHANGED rx_in_buf

\* The rest of the frame, then the read of EXCFLAG0
pump_rest ==
  /\ spi_pc = "mid"
  /\ TXBUF_rest
  /\ excflag0' = underflow
  /\ spi_pc' = msg.complete
  /\ UNCHANGED <<radio_state, pending_rx, msgs, tx_buf_r, rx_in_buf, rx_buf_r,
                 irqPcs, procs>>

pump_rx_msg ==
  /\ pump("rx_msg")
  /\ CASE rx_msg.cmd = "RXBUF_len"  -> \E val \in -1..MaxRx :
                                         RXBUF_len(val) /\ rx_in_buf' = val
       [] rx_msg.cmd = "RXBUF_data" -> \E val \in -1..MaxRx :
                                         RXBUF_data(val) /\ rx_in_buf' = val
       [] rx_msg.cmd = "SFLUSHRX"   -> SFLUSHRX /\ UNCHANGED rx_in_buf
  /\ spi_pc' = rx_msg.complete

-----------------------------------------------------------------------------
(* Transmit engine: completion callbacks of msg.                           *)

\* The FIFO pin tells whether a reception was cut off by SRFOFF
continueTx_check ==
  /\ spi_pc = "continueTx_check"
  /\ spi_async_msg(IF FIFO THEN "SFLUSHRX_TX" ELSE "TX", "continueTx")
  /\ spi_pc' = "idle"
  /\ UNCHANGED <<chipVars, radio_state, pending_rx, rx_msg, bufs, irqPcs, procs>>

\* tx_unlock_spi: the second of the two parties to finish completes the tx
tx_unlock_spi ==
  /\ radio_state' = CASE radio_state = "TX"          -> "TX_SPI_DONE"
                      [] radio_state = "TX_SFD_DONE" -> "TX_2_RX"
                      [] OTHER                       -> radio_state
  /\ spi_pc' = IF radio_state = "TX_SFD_DONE" THEN "completeTx" ELSE "idle"

\* Mutant of flushTx: the wrong completion callback
flushTx_wrongCallback ==
  /\ spi_async_msg("SFLUSHTX", "completeTx")
  /\ spi_pc' = "idle"

flushTx ==
  /\ spi_async_msg("SFLUSHTX", "completeFlushTx")
  /\ spi_pc' = "idle"

\* Mutant of continueTx: an underflow is noticed but not handled
continueTx_noFlush ==
  /\ spi_pc = "continueTx"
  /\ \/ excflag0 /\ spi_pc' = "idle" /\ UNCHANGED radio_state
     \/ ~excflag0 /\ tx_unlock_spi
  /\ UNCHANGED <<chipVars, pending_rx, msgs, bufs, irqPcs, procs>>

continueTx ==
  /\ spi_pc = "continueTx"
  /\ \/ excflag0 /\ flushTx /\ UNCHANGED radio_state
     \/ ~excflag0 /\ tx_unlock_spi /\ UNCHANGED <<msg, spiq>>
  /\ UNCHANGED <<chipVars, pending_rx, rx_msg, bufs, irqPcs, procs>>

\* Mutant of spi_unlock: completeFlushTx reports without releasing the radio
spi_unlock_keepsLock ==
  /\ \/ spi_pc = "completeFlushTx" /\ spi_pc' = "tx_failed" /\ UNCHANGED radio_state
     \/ spi_pc = "completeTx"      /\ spi_pc' = "tx_done"   /\ radio_state' = "IDLE"
  /\ UNCHANGED <<chipVars, pending_rx, msgs, bufs, irqPcs, procs>>

\* completeFlushTx and completeTx release the radio and only then report
spi_unlock ==
  /\ \/ spi_pc = "completeFlushTx" /\ spi_pc' = "tx_failed"
     \/ spi_pc = "completeTx"      /\ spi_pc' = "tx_done"
  /\ radio_state' = "IDLE"
  /\ UNCHANGED <<chipVars, pending_rx, msgs, bufs, irqPcs, procs>>

\* radio_top->tx_done, from the SPI callback
spi_tx_done ==
  /\ spi_pc \in {"tx_done", "tx_failed"}
  /\ sack_busy' = FALSE
  /\ spi_pc' = "idle"
  /\ UNCHANGED <<chipVars, radio_state, pending_rx, msgs, bufs, irqPcs, tx_pc,
                 adm_pc, adm_todo, ntx, ncfg>>

-----------------------------------------------------------------------------
(* SFD interrupt.                                                          *)

sfd_handler ==
  /\ sfd_pc = "idle"
  /\ sfd_irq
  /\ sfd_irq' = FALSE
  /\ sfd_pc' = "entered"
  /\ UNCHANGED <<rf, rxfifo, txfifo, underflow, aired, nrx, fifop_irq,
                 radio_state, pending_rx, msgs, bufs, spi_pc, fifop_pc, procs>>

\* Mutant of tx_unlock_sfd: the interrupt completes without waiting for SPI
tx_unlock_sfd_alone ==
  /\ radio_state' = IF radio_state \in {"TX", "TX_SPI_DONE"} THEN "TX_2_RX" ELSE radio_state
  /\ sfd_pc' = IF radio_state \in {"TX", "TX_SPI_DONE"} THEN "completeTx" ELSE "idle"

\* Mutant of tx_unlock_sfd: an interrupt before the SPI callback is forgotten
tx_unlock_sfd_forgets ==
  /\ radio_state' = IF radio_state = "TX_SPI_DONE" THEN "TX_2_RX" ELSE radio_state
  /\ sfd_pc' = IF radio_state = "TX_SPI_DONE" THEN "completeTx" ELSE "idle"

tx_unlock_sfd ==
  /\ radio_state' = CASE radio_state = "TX"          -> "TX_SFD_DONE"
                      [] radio_state = "TX_SPI_DONE" -> "TX_2_RX"
                      [] OTHER                       -> radio_state
  /\ sfd_pc' = IF radio_state = "TX_SPI_DONE" THEN "completeTx" ELSE "idle"

\* The handler looks at the pin, not at the edge
sfd_occurred ==
  /\ sfd_pc = "entered"
  /\ \/ SFD  /\ sfd_pc' = "idle" /\ UNCHANGED radio_state
     \/ ~SFD /\ tx_unlock_sfd
  /\ UNCHANGED <<chipVars, pending_rx, msgs, bufs, spi_pc, fifop_pc, procs>>

sfd_unlock ==
  /\ sfd_pc = "completeTx"
  /\ radio_state' = "IDLE"
  /\ sfd_pc' = "tx_done"
  /\ UNCHANGED <<chipVars, pending_rx, msgs, bufs, spi_pc, fifop_pc, procs>>

sfd_tx_done ==
  /\ sfd_pc = "tx_done"
  /\ sack_busy' = FALSE
  /\ sfd_pc' = "idle"
  /\ UNCHANGED <<chipVars, radio_state, pending_rx, msgs, bufs, spi_pc,
                 fifop_pc, tx_pc, adm_pc, adm_todo, ntx, ncfg>>

-----------------------------------------------------------------------------
(* FIFOP interrupt and receive engine.                                     *)

fifop_handler ==
  /\ fifop_pc = "idle"
  /\ fifop_irq
  /\ fifop_irq' = FALSE
  /\ fifop_pc' = "entered"
  /\ UNCHANGED <<rf, rxfifo, txfifo, underflow, aired, nrx, sfd_irq,
                 radio_state, pending_rx, msgs, bufs, spi_pc, sfd_pc, procs>>

\* Mutant of fifop_occurred: a reception is begun while another is read out
fifop_occurred_noGuard ==
  /\ fifop_pc = "entered"
  /\ fifop_pc' = "idle"
  /\ IF FIFOP
       THEN pending_rx' = TRUE /\ spi_async_rx("RXBUF_len", "continueRx")
       ELSE UNCHANGED <<pending_rx, rx_msg, spiq>>
  /\ UNCHANGED <<chipVars, radio_state, msg, bufs, spi_pc, sfd_pc, procs>>

\* An edge that is not a rise, or that comes while a reception is being read
\* out, is ignored; otherwise beginRx
fifop_occurred ==
  /\ fifop_pc = "entered"
  /\ fifop_pc' = "idle"
  /\ IF FIFOP /\ ~pending_rx
       THEN pending_rx' = TRUE /\ spi_async_rx("RXBUF_len", "continueRx")
       ELSE UNCHANGED <<pending_rx, rx_msg, spiq>>
  /\ UNCHANGED <<chipVars, radio_state, msg, bufs, spi_pc, sfd_pc, procs>>

flushRx == spi_async_rx("SFLUSHRX", "continueFlushRx")

continueRx ==
  /\ spi_pc = "continueRx"
  /\ spi_pc' = "idle"
  /\ IF rx_in_buf = TooLong THEN flushRx ELSE spi_async_rx("RXBUF_data", "finishRx")
  /\ UNCHANGED <<chipVars, radio_state, pending_rx, msg, bufs, irqPcs, procs>>

\* Mutant of continueFlushRx: the second flush is left out
continueFlushRx_once ==
  /\ spi_pc = "continueFlushRx"
  /\ spi_pc' = "idle"
  /\ UNCHANGED <<chipVars, radio_state, pending_rx, msgs, bufs, irqPcs, procs>>

continueFlushRx ==
  /\ spi_pc = "continueFlushRx"
  /\ spi_pc' = "idle"
  /\ spi_async_rx("SFLUSHRX", "completeFlushRx")
  /\ UNCHANGED <<chipVars, radio_state, pending_rx, msg, bufs, irqPcs, procs>>

\* Mutant of clear_pending_rx: only finishRx clears the flag
clear_pending_rx_notAfterFlush ==
  /\ spi_pc \in {"completeFlushRx", "clear_pending"}
  /\ spi_pc' = "idle"
  /\ pending_rx' = (spi_pc = "completeFlushRx")
  /\ UNCHANGED <<chipVars, radio_state, msgs, bufs, irqPcs, procs>>

\* The end of completeFlushRx, and of finishRx when the FIFO was seen empty
clear_pending_rx ==
  /\ spi_pc \in {"completeFlushRx", "clear_pending"}
  /\ spi_pc' = "idle"
  /\ pending_rx' = FALSE
  /\ UNCHANGED <<chipVars, radio_state, msgs, bufs, irqPcs, procs>>

finishRx ==
  /\ spi_pc = "finishRx"
  /\ spi_pc' = "rx_done"
  /\ rx_buf_r' = rx_in_buf
  /\ UNCHANGED <<chipVars, radio_state, pending_rx, msgs, tx_buf_r, excflag0,
                 rx_in_buf, irqPcs, procs>>

AckWanted == Acks = "any" \/ (Acks = "configured" /\ adm_pc = "idle" /\ ncfg = MaxCfg)

\* radio_top->rx_done.  The layer above keeps the frame, and when it is idle
\* and the frame asks for it sends an acknowledgement from this callback.
rx_done ==
  /\ spi_pc = "rx_done"
  /\ \/ spi_pc' = "fifo_check" /\ UNCHANGED <<sack_busy, ntx>>
     \/ /\ AckWanted /\ ~sack_busy /\ ntx < MaxTx
        /\ spi_pc' = "ack_spin"
        /\ sack_busy' = TRUE
        /\ ntx' = ntx + 1
  /\ UNCHANGED <<chipVars, radio_state, pending_rx, msgs, bufs, irqPcs, tx_pc,
                 adm_pc, adm_todo, ncfg>>

\* radio_tx for the acknowledgement: the pump itself spins on the radio lock
radio_tx_ack ==
  /\ spi_pc = "ack_spin"
  /\ lock_and_beginTx
  /\ spi_pc' = "fifo_check"
  /\ UNCHANGED <<chipVars, pending_rx, rx_msg, excflag0, rx_in_buf, rx_buf_r,
                 irqPcs, procs>>

\* Mutant of finishRx_check: pending_rx is cleared before the flush has ended
finishRx_check_early ==
  /\ spi_pc = "fifo_check"
  /\ pending_rx' = FALSE
  /\ \/ FIFO  /\ flushRx /\ spi_pc' = "idle"
     \/ ~FIFO /\ spi_pc' = "clear_pending" /\ UNCHANGED <<rx_msg, spiq>>
  /\ UNCHANGED <<chipVars, radio_state, msg, bufs, irqPcs, procs>>

\* The rest of finishRx: whatever else the FIFO holds is flushed unread
finishRx_check ==
  /\ spi_pc = "fifo_check"
  /\ \/ FIFO  /\ flushRx /\ spi_pc' = "idle"
     \/ ~FIFO /\ spi_pc' = "clear_pending" /\ UNCHANGED <<rx_msg, spiq>>
  /\ UNCHANGED <<chipVars, radio_state, pending_rx, msg, bufs, irqPcs, procs>>

-----------------------------------------------------------------------------
(* Configuration calls.  start, on and off hold the radio lock; the set_*  *)
(* calls do not take it, although writeRegister and writeMemory use the    *)
(* same message and buffer as the transmit engine.  Register writes do not *)
(* change what this model shows of the chip, so the fifteen of start are   *)
(* one, as are the two register and memory writes of on.                   *)

Script(op) ==
  CASE op = "start" -> <<"RESET", "REG", "unlock">>
    [] op = "on"    -> <<"REG", "SRXON", "unlock">>
    [] op = "off"   -> <<"SRFOFF", "unlock">>
    [] OTHER        -> <<"REG">>

ioctl(op) ==
  /\ adm_pc = "idle"
  /\ ncfg < MaxCfg
  /\ ncfg' = ncfg + 1
  /\ adm_todo' = Script(op)
  /\ adm_pc' = IF op \in LockedOps THEN "spin" ELSE "issue"
  /\ UNCHANGED <<chipVars, radio_state, pending_rx, msgs, bufs, spi_pc, irqPcs,
                 tx_pc, sack_busy, ntx>>

radio_lock_config ==
  /\ adm_pc = "spin"
  /\ radio_state = "IDLE"
  /\ radio_state' = "CONFIG"
  /\ adm_pc' = "issue"
  /\ UNCHANGED <<chipVars, pending_rx, msgs, bufs, spi_pc, irqPcs, tx_pc,
                 adm_todo, sack_busy, ntx, ncfg>>

\* The next command: spi_sync queues it and waits
config_issue ==
  /\ adm_pc = "issue"
  /\ adm_todo # <<>>
  /\ Head(adm_todo) \in CfgCmds
  /\ spi_async_msg(Head(adm_todo), "spi_complete")
  /\ adm_todo' = Tail(adm_todo)
  /\ adm_pc' = "wait"
  /\ UNCHANGED <<chipVars, radio_state, pending_rx, rx_msg, bufs, spi_pc,
                 irqPcs, tx_pc, sack_busy, ntx, ncfg>>

config_reset ==
  /\ adm_pc = "issue"
  /\ adm_todo # <<>>
  /\ Head(adm_todo) = "RESET"
  /\ RESET
  /\ adm_todo' = Tail(adm_todo)
  /\ UNCHANGED radio_state
  /\ UNCHANGED <<pending_rx, msgs, bufs, spi_pc, irqPcs, tx_pc, adm_pc,
                 sack_busy, ntx, ncfg>>

\* radio_unlock, for the calls that locked, and the return
config_return ==
  /\ adm_pc = "issue"
  /\ adm_todo \in {<<>>, <<"unlock">>}
  /\ radio_state' = IF adm_todo = <<>> THEN radio_state ELSE "IDLE"
  /\ adm_todo' = <<>>
  /\ adm_pc' = "idle"
  /\ UNCHANGED <<chipVars, pending_rx, msgs, bufs, spi_pc, irqPcs, tx_pc,
                 sack_busy, ntx, ncfg>>

\* spi_sync's own completion callback wakes the process that waits
spi_complete ==
  /\ spi_pc = "spi_complete"
  /\ spi_pc' = "idle"
  /\ adm_pc' = IF adm_pc = "wait" THEN "issue" ELSE adm_pc
  /\ UNCHANGED <<chipVars, radio_state, pending_rx, msgs, bufs, irqPcs, tx_pc,
                 adm_todo, sack_busy, ntx, ncfg>>

-----------------------------------------------------------------------------
Caller == radio_tx_call \/ radio_tx
Pump == pump_msg \/ pump_rest \/ pump_rx_msg
Callback ==
  \/ continueTx_check \/ continueTx \/ spi_unlock \/ spi_tx_done
  \/ continueRx \/ continueFlushRx \/ clear_pending_rx
  \/ finishRx \/ rx_done \/ radio_tx_ack \/ finishRx_check
  \/ spi_complete
SfdIrq == sfd_handler \/ sfd_occurred \/ sfd_unlock \/ sfd_tx_done
FifopIrq == fifop_handler \/ fifop_occurred
ConfigStep == radio_lock_config \/ config_issue \/ config_reset \/ config_return
Air == (RxStart \/ RxEnd \/ TxStart \/ TxEnd \/ TxUnderflow) /\ UNCHANGED radioVars

Next ==
  \/ Caller
  \/ Pump \/ Callback
  \/ SfdIrq \/ FifopIrq
  \/ \E op \in Ops : ioctl(op)
  \/ ConfigStep
  \/ Air

Spec == Init /\ [][Next]_vars

(* The pump thread, the interrupt handlers and a process that holds the    *)
(* CPU run on; what the chip has begun it ends.  Nobody is obliged to call *)
(* the driver and no frame is obliged to arrive.  A process that spins on  *)
(* the radio lock gets it if the lock stays free.                          *)
Fairness ==
  /\ WF_vars(Pump \/ Callback)
  /\ WF_vars(SfdIrq)
  /\ WF_vars(FifopIrq)
  /\ WF_vars(radio_tx)
  /\ WF_vars(ConfigStep)
  /\ WF_vars((RxEnd \/ TxStart \/ TxEnd \/ TxUnderflow) /\ UNCHANGED radioVars)

FairSpec == Spec /\ Fairness
-----------------------------------------------------------------------------
(* Properties.                                                             *)

\* Who is responsible for the tx_done that the layer above waits for
Holds(h) ==
  CASE h = "caller" -> tx_pc = "spin"
    [] h = "ack"    -> spi_pc = "ack_spin"
    [] h = "radio"  -> radio_state \in TxStates
    [] h = "spi"    -> spi_pc \in {"tx_done", "tx_failed"}
    [] h = "sfd"    -> sfd_pc = "tx_done"
Holders == {"caller", "ack", "radio", "spi", "sfd"}

\* Every radio_tx is answered by exactly one tx_done, whichever of the SPI
\* callback and the SFD interrupt comes second (radio.c, tx_unlock_spi and
\* tx_unlock_sfd) and whether or not the TX FIFO underflows: while a tx is
\* outstanding exactly one party is responsible for its tx_done, and when none
\* is outstanding nobody is about to call it (sack.c's "impossible state").
TxDoneOnce ==
  /\ \A g, h \in Holders : Holds(g) /\ Holds(h) => g = h
  /\ sack_busy <=> \E h \in Holders : Holds(h)

Queued(m) == \E i \in 1..Len(spiq) : spiq[i] = m
MsgInFlight == Queued("msg") \/ spi_pc = "mid"

\* A message handed to the SPI core is not filled in and queued again before
\* it has completed, although spi_async is called from four contexts: msg
\* belongs to the holder of the radio lock, rx_msg to the holder of pending_rx.
SpiExclusive ==
  /\ \A i, j \in 1..Len(spiq) : spiq[i] = spiq[j] => i = j
  /\ ~ (Queued("msg") /\ spi_pc = "mid")
  /\ MsgInFlight => radio_state \in {"TX", "TX_SFD_DONE", "CONFIG"}
  /\ Queued("rx_msg") => pending_rx /\ spi_pc \notin RxPcs

\* pending_rx is set exactly as long as the receive engine runs, on every path
\* through finishRx, the two flushes and the acknowledgement: it is never left
\* set with nobody to clear it, which would turn every later FIFOP away.
RxEngineAlive == pending_rx <=> Queued("rx_msg") \/ spi_pc \in RxPcs

\* A transmission whose SPI part is done is not stranded: the end of the frame
\* is still to come or its SFD edge has yet to be looked at, even when the
\* handler misses the fall because the next reception has raised the pin again.
TxEndPending ==
  radio_state = "TX_SPI_DONE" =>
    rf \in {"cal", "tx", "rx"} \/ sfd_irq \/ sfd_pc = "entered"

\* tx_done(SUCCESS) is reported only for a frame that has been on the air.
SuccessMeansAired ==
  spi_pc = "completeTx" \/ sfd_pc = "completeTx" => tx_buf_r \in aired

\* What rx_done gets is a received frame, beginning with its own length.
RxIntact == spi_pc = "rx_done" => rx_buf_r # Junk

\* Frames are handed up in the order of their arrival and none twice, however
\* reads, flushes and new arrivals interleave.
RxInOrder == [][spi_pc' = "rx_done" /\ spi_pc # "rx_done"
                  => rx_buf_r' > rx_buf_r]_vars

\* What the layer above sees of the radio: calls of tx that wait for the lock,
\* the frame being sent, and calls of tx_done under way
Asked == { <<"caller", f>> : f \in IF tx_pc = "spin" THEN {ntx} ELSE {} }
           \cup { <<"spi", f>> : f \in IF spi_pc = "ack_spin" THEN {ntx} ELSE {} }
Sending == IF radio_state \in TxStates THEN tx_buf_r ELSE 0
Report == { <<"spi", s>> : s \in IF spi_pc = "tx_done" THEN {"success"}
                                 ELSE IF spi_pc = "tx_failed" THEN {"failed"} ELSE {} }
            \cup { <<"sfd", s>> : s \in IF sfd_pc = "tx_done" THEN {"success"} ELSE {} }

Service == INSTANCE RadioService
             WITH Callers <- {"caller", "spi"}, Frames <- 1..MaxTx, None <- 0,
                  Success <- "success", Failed <- "failed",
                  asked <- Asked, sending <- Sending, report <- Report

\* The radio keeps the contract of tx and tx_done, whatever receptions,
\* acknowledgements, underflows and configuration calls come in between: a
\* frame is accepted only when the last one has ended, ends once, and is
\* reported by one context before the next one is accepted.
ImplementsService == Service!Spec

\* Every radio_tx is answered: neither the SFD/SPI handshake nor the underflow
\* path leaves the layer above waiting.
TxAnswered == sack_busy ~> ~sack_busy

\* The receive engine always comes back to rest.
RxReleased == pending_rx ~> ~pending_rx

\* A configuration call returns.
ConfigReturns == adm_pc # "idle" ~> adm_pc = "idle"
=============================================================================
