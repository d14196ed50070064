---------------------------- MODULE RadioProofs -----------------------------
(***************************************************************************)
(* Proofs about Radio, for any number of frames and calls, as long as the  *)
(* configuration calls are the ones that take the radio lock.              *)
(***************************************************************************)
EXTENDS Radio, TLAPS

\* The queue holds no message twice
Has(q, m) == \E i \in 1..Len(q) : q[i] = m
Valid(q)  == \A i, j \in 1..Len(q) : q[i] = q[j] => i = j
HasMsg(q) == Has(q, "msg")
HasRx(q)  == Has(q, "rx_msg")

TxPcs == {"mid", "continueTx_check", "continueTx", "completeFlushTx"}

\* msg belongs to the transmit engine or to the configuration call that holds
\* the radio lock, and the lock is held exactly as long as somebody will go on
LockInv ==
  /\ HasMsg(spiq) => spi_pc \notin TxPcs \cup {"spi_complete"}
  /\ radio_state \in {"TX", "TX_SFD_DONE"} <=>
       (HasMsg(spiq) /\ msg \in TxMessages) \/ spi_pc \in TxPcs
  /\ adm_pc = "wait" <=>
       (HasMsg(spiq) /\ msg \in CfgMessages) \/ spi_pc = "spi_complete"
  /\ radio_state = "CONFIG" <=> adm_pc \in {"issue", "wait"}
  /\ radio_state = "TX_2_RX" <=> spi_pc = "completeTx" \/ sfd_pc = "completeTx"
  /\ ~ (spi_pc = "completeTx" /\ sfd_pc = "completeTx")
  /\ spi_pc = "mid" => msg.complete = "continueTx"

\* What is left of a configuration call that has taken the lock
Suffixes == { <<"RESET", "REG", "unlock">>, <<"REG", "SRXON", "unlock">>,
              <<"REG", "unlock">>, <<"SRXON", "unlock">>, <<"SRFOFF", "unlock">>,
              <<"unlock">> }
ScriptInv == adm_pc # "idle" => adm_todo \in Suffixes

RxInv == /\ pending_rx <=> HasRx(spiq) \/ spi_pc \in RxPcs
         /\ ~ (HasRx(spiq) /\ spi_pc \in RxPcs)

\* TxDoneOnce with its holders written out
TokenInv ==
  /\ sack_busy <=> \/ tx_pc = "spin" \/ spi_pc = "ack_spin" \/ radio_state \in TxStates
                   \/ spi_pc \in {"tx_done", "tx_failed"} \/ sfd_pc = "tx_done"
  /\ tx_pc = "spin" => /\ spi_pc \notin {"ack_spin", "tx_done", "tx_failed"}
                       /\ radio_state \notin TxStates /\ sfd_pc # "tx_done"
  /\ radio_state \in TxStates => /\ spi_pc \notin {"ack_spin", "tx_done", "tx_failed"}
                                 /\ sfd_pc # "tx_done"
  /\ sfd_pc = "tx_done" => spi_pc \notin {"ack_spin", "tx_done", "tx_failed"}

\* The inductive invariant.  TxDoneOnce alone is not inductive: that the SPI
\* callback and the SFD handler do not both complete a transmission rests on the
\* SPI chain running exactly in TX and TX_SFD_DONE (LockInv), which rests on msg
\* being queued once (Valid) and on a configuration call holding the lock until
\* its script ends (ScriptInv).
IInv == TypeOK /\ Valid(spiq) /\ LockInv /\ ScriptInv /\ RxInv /\ TokenInv

-----------------------------------------------------------------------------
(* Type correctness.                                                       *)

\* Changing an entry of a sequence, or dropping the first, keeps its type.
LEMMA SeqUpdate ==
  ASSUME NEW S, NEW q \in Seq(S), NEW i \in 1..Len(q), NEW e \in S
  PROVE  [q EXCEPT ![i] = e] \in Seq(S)
OBVIOUS

\* The same for the updates the chip makes to a frame of the RX FIFO.
LEMMA EntryUpdate ==
  ASSUME NEW q \in Seq(RxEntry), NEW i \in 1..Len(q)
  PROVE  /\ [q EXCEPT ![i].full = TRUE] \in Seq(RxEntry)
         /\ [q EXCEPT ![i].got = "len"] \in Seq(RxEntry)
         /\ [q EXCEPT ![i].got = "part"] \in Seq(RxEntry)
<1>1. q[i] \in RxEntry
  OBVIOUS
<1>2. /\ [q[i] EXCEPT !.full = TRUE] \in RxEntry
      /\ [q[i] EXCEPT !.got = "len"] \in RxEntry
      /\ [q[i] EXCEPT !.got = "part"] \in RxEntry
  BY <1>1 DEF RxEntry
<1>3. QED
  BY <1>2, SeqUpdate

\* The scripts of the configuration calls, and what is left of them as they run
LEMMA ScriptType ==
  ASSUME NEW op
  PROVE  Script(op) \in Seq(CfgCmds \cup {"RESET", "unlock"})
<1> DEFINE C == CfgCmds \cup {"RESET", "unlock"}
<1>1. {"REG", "SRXON", "SRFOFF", "RESET", "unlock"} \subseteq C
  BY DEF CfgCmds
<1> HIDE DEF C
<1>2. /\ <<"RESET", "REG", "unlock">> \in Seq(C)
      /\ <<"REG", "SRXON", "unlock">> \in Seq(C)
      /\ <<"SRFOFF", "unlock">> \in Seq(C)
      /\ <<"REG">> \in Seq(C)
  BY <1>1
<1>3. Script(op) \in Seq(C)
  BY <1>2 DEF Script
<1>4. QED
  BY <1>3 DEF C

\* Whatever the chip does, on its own or on a command, keeps its type.
LEMMA ChipStepType ==
  ASSUME ChipTypeOK, tx_buf_r \in 0..MaxTx,
         \/ RxStart \/ RxEnd \/ TxStart \/ TxEnd \/ TxUnderflow
         \/ SRXON \/ SRFOFF \/ SFLUSHRX \/ SFLUSHTX \/ RESET \/ TXBUF_rest
         \/ TXBUF_STXON(tx_buf_r, TRUE) \/ TXBUF_STXON(tx_buf_r, FALSE)
         \/ \E val \in -1..MaxRx : RXBUF_len(val) \/ RXBUF_data(val)
         \/ UNCHANGED chipVars
  PROVE  ChipTypeOK'
<1> USE BoundsAssumption DEF ChipTypeOK, LatchEdges, RfStates, TxEntry
<1>1. CASE RxStart
  <2>1. [id |-> nrx', full |-> FALSE, got |-> "none"] \in RxEntry
    BY <1>1 DEF RxStart, RxEntry
  <2>2. rxfifo' \in Seq(RxEntry)
    BY <1>1, <2>1 DEF RxStart
  <2>3. QED
    BY <1>1, <2>2 DEF RxStart
<1>2. CASE RxEnd
  <2>1. Len(rxfifo) \in 1..Len(rxfifo)
    BY <1>2 DEF RxEnd
  <2>2. rxfifo' \in Seq(RxEntry)
    BY <1>2, <2>1, EntryUpdate DEF RxEnd
  <2>3. QED
    BY <1>2, <2>2 DEF RxEnd
<1>3. CASE TxStart \/ TxEnd \/ TxUnderflow
  BY <1>3 DEF TxStart, TxEnd, TxUnderflow
<1>0. <<>> \in Seq(RxEntry)
  OBVIOUS
<1>4. CASE SRXON \/ SRFOFF \/ SFLUSHRX \/ SFLUSHTX \/ RESET \/ TXBUF_rest
  <2>1. CASE SFLUSHRX \/ RESET
    BY <1>0, <2>1 DEF SFLUSHRX, RESET
  <2>2. CASE SRXON \/ SRFOFF \/ SFLUSHTX
    BY <2>2 DEF SRXON, SRFOFF, SFLUSHTX
  <2>3. CASE TXBUF_rest
    BY <2>3 DEF TXBUF_rest
  <2>4. QED
    BY <1>4, <2>1, <2>2, <2>3
<1>5. CASE TXBUF_STXON(tx_buf_r, TRUE) \/ TXBUF_STXON(tx_buf_r, FALSE)
  <2>1. rxfifo' \in Seq(RxEntry)
    BY <1>0, <1>5 DEF TXBUF_STXON
  <2>2. txfifo' \in TxEntry
    <3>1. txfifo' = [id |-> tx_buf_r, full |-> FALSE]
      BY <1>5 DEF TXBUF_STXON
    <3>2. [id |-> tx_buf_r, full |-> FALSE] \in [id : 0..MaxTx, full : BOOLEAN]
      OBVIOUS
    <3>3. QED
      BY <3>1, <3>2 DEF TxEntry
  <2>3. QED
    BY <1>5, <2>1, <2>2 DEF TXBUF_STXON
<1>6. CASE \E val \in -1..MaxRx : RXBUF_len(val) \/ RXBUF_data(val)
  <2>1. PICK val \in -1..MaxRx : RXBUF_len(val) \/ RXBUF_data(val)
    BY <1>6
  <2>2. rxfifo' \in Seq(RxEntry)
    <3>1. rxfifo # <<>> => 1 \in 1..Len(rxfifo)
      OBVIOUS
    <3>2. rxfifo # <<>> => Tail(rxfifo) \in Seq(RxEntry)
      OBVIOUS
    <3>3. QED
      BY <2>1, <3>1, <3>2, EntryUpdate DEF RXBUF_len, RXBUF_data
  <2>3. QED
    BY <2>1, <2>2 DEF RXBUF_len, RXBUF_data
<1>7. CASE UNCHANGED chipVars
  BY <1>7 DEF chipVars
<1>8. QED
  BY <1>1, <1>2, <1>3, <1>4, <1>5, <1>6, <1>7

\* The part of TypeOK about the driver's own variables
DriverTypeOK ==
  /\ radio_state \in RadioStates
  /\ pending_rx \in BOOLEAN
  /\ msg \in TxMessages \cup CfgMessages
  /\ rx_msg \in RxMessages
  /\ tx_buf_r \in 0..MaxTx
  /\ excflag0 \in BOOLEAN
  /\ rx_in_buf \in -1..MaxRx
  /\ rx_buf_r \in -1..MaxRx
  /\ spi_pc \in SpiPcs
  /\ sfd_pc \in {"idle", "entered", "completeTx", "tx_done"}
  /\ fifop_pc \in {"idle", "entered"}
  /\ tx_pc \in {"idle", "spin"}
  /\ adm_pc \in {"idle", "spin", "issue", "wait"}
  /\ sack_busy \in BOOLEAN
  /\ ntx \in 0..MaxTx
  /\ ncfg \in 0..MaxCfg

SeqTypeOK ==
  /\ spiq \in Seq({"msg", "rx_msg"})
  /\ adm_todo \in Seq(CfgCmds \cup {"RESET", "unlock"})

\* TypeOK in the three parts that are proved one after the other.
LEMMA TypeParts == TypeOK <=> ChipTypeOK /\ DriverTypeOK /\ SeqTypeOK
BY DEF TypeOK, DriverTypeOK, SeqTypeOK

\* Every message names a callback of its engine.
LEMMA MessageTypes ==
  /\ \A m \in TxMessages \cup CfgMessages : m.complete \in SpiPcs
  /\ \A m \in RxMessages : m.complete \in RxPcs
BY DEF TxMessages, CfgMessages, RxMessages, Message, SpiPcs, RxPcs

\* Every message the driver fills in is one of its engine.
LEMMA MessageMembers ==
  /\ Message("SRFOFF", "continueTx_check") \in TxMessages
  /\ Message("TX", "continueTx") \in TxMessages
  /\ Message("SFLUSHRX_TX", "continueTx") \in TxMessages
  /\ Message("SFLUSHTX", "completeFlushTx") \in TxMessages
  /\ \A c \in CfgCmds : Message(c, "spi_complete") \in CfgMessages
  /\ Message("RXBUF_len", "continueRx") \in RxMessages
  /\ Message("RXBUF_data", "finishRx") \in RxMessages
  /\ Message("SFLUSHRX", "continueFlushRx") \in RxMessages
  /\ Message("SFLUSHRX", "completeFlushRx") \in RxMessages
BY DEF TxMessages, CfgMessages, RxMessages

\* Every step of a chip command, of the air or of nobody is one of ChipStepType.
LEMMA ChipStep ==
  ASSUME TypeOK, Next \/ UNCHANGED vars
  PROVE  ChipTypeOK'
<1> USE DEF chipVars
<1>0. ChipTypeOK /\ tx_buf_r \in 0..MaxTx
  BY DEF TypeOK
<1>1. ASSUME UNCHANGED chipVars PROVE ChipTypeOK'
  BY <1>0, <1>1, ChipStepType
<1>2. CASE Pump
  <2>1. CASE pump_msg
    BY <1>0, <2>1, ChipStepType DEF pump_msg
  <2>2. CASE pump_rest
    BY <1>0, <2>2, ChipStepType DEF pump_rest
  <2>3. CASE pump_rx_msg
    <3>1. rx_msg.cmd \in {"RXBUF_len", "RXBUF_data", "SFLUSHRX"}
      BY DEF TypeOK, RxMessages, Message
    <3>2. SFLUSHRX \/ \E val \in -1..MaxRx : RXBUF_len(val) \/ RXBUF_data(val)
      BY <2>3, <3>1 DEF pump_rx_msg
    <3>3. QED
      BY <1>0, <3>2, ChipStepType
  <2>4. QED
    BY <1>2, <2>1, <2>2, <2>3 DEF Pump
<1>3. CASE Air
  BY <1>0, <1>3, ChipStepType DEF Air
<1>4. CASE config_reset
  BY <1>0, <1>4, ChipStepType DEF config_reset
<1>5. CASE sfd_handler \/ fifop_handler
  BY <1>0, <1>5 DEF sfd_handler, fifop_handler, ChipTypeOK
<1>6. CASE Caller \/ Callback \/ sfd_occurred \/ sfd_unlock \/ sfd_tx_done
             \/ fifop_occurred \/ (\E op \in Ops : ioctl(op))
             \/ radio_lock_config \/ config_issue \/ config_return
  <2>1. UNCHANGED chipVars
    BY <1>6 DEF Caller, Callback, radio_tx_call, radio_tx, continueTx_check,
         continueTx, spi_unlock, spi_tx_done, continueRx, continueFlushRx,
         clear_pending_rx, finishRx, rx_done, radio_tx_ack, finishRx_check,
         spi_complete, sfd_occurred, sfd_unlock, sfd_tx_done, fifop_occurred,
         ioctl, radio_lock_config, config_issue, config_return
  <2>2. QED
    BY <1>1, <2>1
<1>7. CASE UNCHANGED vars
  BY <1>1, <1>7 DEF vars
<1>8. QED
  BY <1>2, <1>3, <1>4, <1>5, <1>6, <1>7 DEF Next, SfdIrq, FifopIrq, ConfigStep

\* The SPI queue and the script of a configuration call keep their types.
LEMMA SeqStep ==
  ASSUME TypeOK, Next \/ UNCHANGED vars
  PROVE  SeqTypeOK'
<1>0. SeqTypeOK
  BY TypeParts
<1>1. \/ spiq' = spiq
      \/ spiq' = Append(spiq, "msg")
      \/ spiq' = Append(spiq, "rx_msg")
      \/ spiq # <<>> /\ spiq' = Tail(spiq)
  BY DEF Next, Caller, Pump, Callback, SfdIrq, FifopIrq, ConfigStep, Air,
         radio_tx_call, radio_tx, lock_and_beginTx, spi_async_msg, spi_async_rx,
         pump_msg, pump_rest, pump_rx_msg, pump, continueTx_check, continueTx,
         flushTx, spi_unlock, spi_tx_done, continueRx, flushRx, continueFlushRx,
         clear_pending_rx, finishRx, rx_done, radio_tx_ack, finishRx_check,
         spi_complete, sfd_handler, sfd_occurred, sfd_unlock, sfd_tx_done,
         fifop_handler, fifop_occurred, ioctl, radio_lock_config, config_issue,
         config_reset, config_return, vars, radioVars, msgs
<1>2. \/ adm_todo' = adm_todo
      \/ \E op : adm_todo' = Script(op)
      \/ adm_todo # <<>> /\ adm_todo' = Tail(adm_todo)
      \/ adm_todo' = <<>>
  BY DEF Next, Caller, Pump, Callback, SfdIrq, FifopIrq, ConfigStep, Air,
         radio_tx_call, radio_tx, pump_msg, pump_rest, pump_rx_msg, pump,
         continueTx_check, continueTx, spi_unlock, spi_tx_done, continueRx,
         continueFlushRx, clear_pending_rx, finishRx, rx_done, radio_tx_ack,
         finishRx_check, spi_complete, sfd_handler, sfd_occurred, sfd_unlock,
         sfd_tx_done, fifop_handler, fifop_occurred, ioctl, radio_lock_config,
         config_issue, config_reset, config_return, vars, radioVars, procs
<1>3. spiq' \in Seq({"msg", "rx_msg"})
  BY <1>0, <1>1 DEF SeqTypeOK
<1>4. adm_todo' \in Seq(CfgCmds \cup {"RESET", "unlock"})
  <2> DEFINE C == CfgCmds \cup {"RESET", "unlock"}
  <2>1. adm_todo \in Seq(C) /\ \A op : Script(op) \in Seq(C)
    BY <1>0, ScriptType DEF SeqTypeOK
  <2> HIDE DEF C
  <2>2. <<>> \in Seq(C)
    OBVIOUS
  <2>3. adm_todo # <<>> => Tail(adm_todo) \in Seq(C)
    BY <2>1
  <2>4. adm_todo' \in Seq(C)
    BY <1>2, <2>1, <2>2, <2>3
  <2>5. QED
    BY <2>4 DEF C
<1>5. QED
  BY <1>3, <1>4 DEF SeqTypeOK

\* The variables of radio.c with finite domains keep their types.
LEMMA DriverStep ==
  ASSUME TypeOK, Next \/ UNCHANGED vars
  PROVE  DriverTypeOK'
<1>0. DriverTypeOK
  BY TypeParts
<1> USE <1>0, BoundsAssumption, RadioAssumption DEF DriverTypeOK, RadioStates, TxStates
<1>1. CASE Caller
  <2>1. CASE radio_tx_call
    BY <2>1 DEF radio_tx_call, bufs, msgs, irqPcs
  <2>2. CASE radio_tx
    BY <2>2, MessageMembers DEF radio_tx, lock_and_beginTx, spi_async_msg, irqPcs
  <2>3. QED
    BY <1>1, <2>1, <2>2 DEF Caller
<1>2. CASE pump_msg
  BY <1>2, MessageTypes DEF pump_msg, pump, SpiPcs, irqPcs, procs
<1>3. CASE pump_rest
  BY <1>3, MessageTypes DEF pump_rest, TypeOK, ChipTypeOK, msgs, irqPcs, procs
<1>4. CASE pump_rx_msg
  <2>1. rx_in_buf' \in -1..MaxRx
    <3>1. rx_msg.cmd \in {"RXBUF_len", "RXBUF_data", "SFLUSHRX"}
      BY DEF RxMessages, Message
    <3>2. QED
      BY <1>4, <3>1 DEF pump_rx_msg
  <2>2. QED
    BY <1>4, <2>1, MessageTypes DEF pump_rx_msg, pump, SpiPcs, irqPcs, procs
<1>5. CASE continueTx_check \/ continueTx \/ spi_unlock \/ spi_tx_done
  BY <1>5, MessageMembers DEF continueTx_check, continueTx, tx_unlock_spi, flushTx,
       spi_unlock, spi_tx_done, spi_async_msg, SpiPcs, bufs, msgs, irqPcs, procs
<1>6. CASE continueRx \/ continueFlushRx \/ clear_pending_rx \/ finishRx \/ finishRx_check
  <2>1. CASE continueRx \/ continueFlushRx \/ finishRx_check
    BY <2>1, MessageMembers DEF continueRx, continueFlushRx, finishRx_check, flushRx,
         spi_async_rx, SpiPcs, RxPcs, bufs, irqPcs, procs
  <2>2. CASE clear_pending_rx \/ finishRx
    BY <2>2 DEF clear_pending_rx, finishRx, SpiPcs, RxPcs, bufs, msgs, irqPcs, procs
  <2>3. QED
    BY <1>6, <2>1, <2>2
<1>7. CASE rx_done \/ radio_tx_ack \/ spi_complete
  <2>1. CASE rx_done
    <3>1. ntx' \in 0..MaxTx
      BY <2>1 DEF rx_done
    <3>2. sack_busy' \in BOOLEAN
      BY <2>1 DEF rx_done
    <3>3. spi_pc' \in SpiPcs
      BY <2>1 DEF rx_done, SpiPcs, RxPcs
    <3>4. QED
      BY <2>1, <3>1, <3>2, <3>3 DEF rx_done, bufs, msgs, irqPcs
  <2>2. CASE radio_tx_ack
    BY <2>2, MessageMembers DEF radio_tx_ack, lock_and_beginTx, spi_async_msg, SpiPcs,
         RxPcs, irqPcs, procs
  <2>3. CASE spi_complete
    BY <2>3 DEF spi_complete, SpiPcs, bufs, msgs, irqPcs
  <2>4. QED
    BY <1>7, <2>1, <2>2, <2>3
<1>8. CASE SfdIrq
  BY <1>8 DEF SfdIrq, sfd_handler, sfd_occurred, tx_unlock_sfd, sfd_unlock,
       sfd_tx_done, bufs, msgs, procs
<1>9. CASE FifopIrq
  BY <1>9, MessageMembers DEF FifopIrq, fifop_handler, fifop_occurred, spi_async_rx,
       bufs, msgs, procs
<1>10. CASE (\E op \in Ops : ioctl(op)) \/ radio_lock_config \/ config_reset \/ config_return
  BY <1>10 DEF ioctl, radio_lock_config, config_reset, config_return, bufs, msgs, irqPcs
<1>11. CASE config_issue
  BY <1>11, MessageMembers DEF config_issue, spi_async_msg, bufs, irqPcs
<1>12. CASE Air \/ UNCHANGED vars
  BY <1>12 DEF Air, vars, radioVars, bufs, msgs, irqPcs, procs
<1>13. QED
  BY <1>1, <1>2, <1>3, <1>4, <1>5, <1>6, <1>7, <1>8, <1>9, <1>10, <1>11, <1>12
     DEF Next, Pump, Callback, ConfigStep

\* The initial state is well typed.
LEMMA TypeInit ==
  ASSUME Init
  PROVE  TypeOK
<1>0. 0 \in 0..MaxTx /\ 0 \in 0..MaxRx /\ 0 \in -1..MaxRx /\ 0 \in 0..MaxCfg
  BY BoundsAssumption, RadioAssumption
<1>1. ChipTypeOK
  <2>1. [id |-> 0, full |-> FALSE] \in [id : 0..MaxTx, full : BOOLEAN]
    BY <1>0
  <2>2. <<>> \in Seq(RxEntry)
    OBVIOUS
  <2>3. QED
    BY <1>0, <2>1, <2>2 DEF Init, ChipInit, ChipTypeOK, RfStates, TxEntry
<1>2. DriverTypeOK
  BY <1>0, MessageMembers DEF Init, DriverTypeOK, RadioStates, CfgCmds, SpiPcs, Junk
<1>3. SeqTypeOK
  BY DEF Init, SeqTypeOK
<1>4. QED
  BY <1>1, <1>2, <1>3, TypeParts

\* Every step keeps the types.
LEMMA TypeStep ==
  ASSUME TypeOK, Next \/ UNCHANGED vars
  PROVE  TypeOK'
BY ChipStep, DriverStep, SeqStep DEF TypeOK, ChipTypeOK, DriverTypeOK, SeqTypeOK

\* The driver's and the chip's variables keep their types, whatever the
\* configuration calls do and however many frames and calls there are.
THEOREM TypeCorrect == Spec => []TypeOK
<1>1. Init => TypeOK
  BY TypeInit
<1>2. TypeOK /\ [Next]_vars => TypeOK'
  BY TypeStep
<1>3. QED
  BY <1>1, <1>2, PTL DEF Spec

-----------------------------------------------------------------------------
(* The radio lock, the SPI messages and the single tx_done.                *)

\* Queueing a message that is not queued keeps the queue free of duplicates.
LEMMA QueueAppend ==
  ASSUME NEW q \in Seq({"msg", "rx_msg"}), Valid(q), NEW m, ~Has(q, m),
         m \in {"msg", "rx_msg"}
  PROVE  /\ Valid(Append(q, m))
         /\ \A n \in {"msg", "rx_msg"} : Has(Append(q, m), n) <=> Has(q, n) \/ n = m
<1> DEFINE r == Append(q, m)
<1>1. /\ Len(r) = Len(q) + 1
      /\ r[Len(q) + 1] = m
      /\ \A i \in 1..Len(q) : r[i] = q[i]
      /\ Len(q) \in Nat
  OBVIOUS
<1> HIDE DEF r
<1>2. Valid(r)
  BY <1>1 DEF Valid, Has
<1>3. \A n \in {"msg", "rx_msg"} : Has(r, n) <=> Has(q, n) \/ n = m
  BY <1>1 DEF Has
<1>4. QED
  BY <1>2, <1>3 DEF r

\* So does executing the oldest message, which is then no longer queued.
LEMMA QueueTail ==
  ASSUME NEW q \in Seq({"msg", "rx_msg"}), Valid(q), q # <<>>
  PROVE  /\ Valid(Tail(q))
         /\ Has(q, Head(q))
         /\ \A n \in {"msg", "rx_msg"} : Has(Tail(q), n) <=> Has(q, n) /\ n # Head(q)
<1> DEFINE r == Tail(q)
<1>1. /\ Len(q) \in Nat \ {0}
      /\ Len(r) = Len(q) - 1
      /\ \A i \in 1..Len(r) : r[i] = q[i + 1]
      /\ Head(q) = q[1]
  OBVIOUS
<1> HIDE DEF r
<1>2. Valid(r)
  <2> SUFFICES ASSUME NEW i \in 1..Len(r), NEW j \in 1..Len(r), r[i] = r[j]
               PROVE  i = j
    BY DEF Valid
  <2>1. i + 1 \in 1..Len(q) /\ j + 1 \in 1..Len(q) /\ q[i + 1] = q[j + 1]
    BY <1>1
  <2>2. QED
    BY <2>1 DEF Valid
<1>3. Has(q, Head(q))
  BY <1>1 DEF Has
<1>4. ASSUME NEW n \in {"msg", "rx_msg"}
      PROVE  Has(r, n) <=> Has(q, n) /\ n # Head(q)
  <2>1. ASSUME NEW i \in 1..Len(r), r[i] = n
        PROVE  Has(q, n) /\ n # Head(q)
    <3>1. i + 1 \in 1..Len(q) /\ 1 \in 1..Len(q) /\ q[i + 1] = n /\ i + 1 # 1
      BY <1>1, <2>1
    <3>2. QED
      BY <1>1, <3>1 DEF Has, Valid
  <2>2. ASSUME NEW i \in 1..Len(q), q[i] = n, n # Head(q)
        PROVE  Has(r, n)
    <3>1. i # 1
      BY <1>1, <2>2
    <3>2. i - 1 \in 1..Len(r) /\ r[i - 1] = n
      BY <1>1, <2>2, <3>1
    <3>3. QED
      BY <3>2 DEF Has
  <2>3. QED
    BY <2>1, <2>2 DEF Has
<1>5. QED
  BY <1>2, <1>3, <1>4 DEF r

\* Of every locked call's script a suffix remains, which ends in the unlock.
LEMMA ScriptTail ==
  /\ \A op \in LockedOps : Script(op) \in Suffixes
  /\ \A t \in Suffixes : /\ t # <<>>
                         /\ Head(t) # "unlock" => Tail(t) \in Suffixes
                         /\ Head(t) \in CfgCmds \cup {"RESET", "unlock"}
<1>1. \A op \in LockedOps : Script(op) \in Suffixes
  BY DEF LockedOps, Script, Suffixes
<1>2. /\ Tail(<<"RESET", "REG", "unlock">>) = <<"REG", "unlock">>
      /\ Tail(<<"REG", "SRXON", "unlock">>) = <<"SRXON", "unlock">>
      /\ Tail(<<"REG", "unlock">>) = <<"unlock">>
      /\ Tail(<<"SRXON", "unlock">>) = <<"unlock">>
      /\ Tail(<<"SRFOFF", "unlock">>) = <<"unlock">>
  OBVIOUS
<1>3. QED
  BY <1>1, <1>2 DEF Suffixes, CfgCmds

\* A message of the transmit engine is none of a configuration call.
LEMMA Disjoint == \A m \in TxMessages : m \notin CfgMessages
BY DEF TxMessages, CfgMessages, Message

\* TokenInv is TxDoneOnce with its quantifiers written out.
LEMMA TokenIsTxDoneOnce == TokenInv <=> TxDoneOnce
<1>1. /\ Holds("caller") <=> tx_pc = "spin"
      /\ Holds("ack") <=> spi_pc = "ack_spin"
      /\ Holds("radio") <=> radio_state \in TxStates
      /\ Holds("spi") <=> spi_pc \in {"tx_done", "tx_failed"}
      /\ Holds("sfd") <=> sfd_pc = "tx_done"
  BY DEF Holds
<1>2. QED
  BY <1>1 DEF TxDoneOnce, TokenInv, Holders

\* How the queue changes, in terms of the two predicates the invariant uses
LEMMA QueueSame ==
  ASSUME TypeOK, Valid(spiq), spiq' = spiq
  PROVE  Valid(spiq') /\ (HasMsg(spiq') <=> HasMsg(spiq)) /\ (HasRx(spiq') <=> HasRx(spiq))
OBVIOUS

\* spi_async of msg.
LEMMA PushMsg ==
  ASSUME TypeOK, Valid(spiq), ~HasMsg(spiq), spiq' = Append(spiq, "msg")
  PROVE  Valid(spiq') /\ HasMsg(spiq') /\ (HasRx(spiq') <=> HasRx(spiq))
BY QueueAppend DEF TypeOK, HasMsg, HasRx

\* spi_async of rx_msg.
LEMMA PushRx ==
  ASSUME TypeOK, Valid(spiq), ~HasRx(spiq), spiq' = Append(spiq, "rx_msg")
  PROVE  Valid(spiq') /\ HasRx(spiq') /\ (HasMsg(spiq') <=> HasMsg(spiq))
BY QueueAppend DEF TypeOK, HasMsg, HasRx

\* The pump takes msg.
LEMMA PopMsg ==
  ASSUME TypeOK, Valid(spiq), spiq # <<>>, Head(spiq) = "msg", spiq' = Tail(spiq)
  PROVE  Valid(spiq') /\ HasMsg(spiq) /\ ~HasMsg(spiq') /\ (HasRx(spiq') <=> HasRx(spiq))
BY QueueTail DEF TypeOK, HasMsg, HasRx

\* The pump takes rx_msg.
LEMMA PopRx ==
  ASSUME TypeOK, Valid(spiq), spiq # <<>>, Head(spiq) = "rx_msg", spiq' = Tail(spiq)
  PROVE  Valid(spiq') /\ HasRx(spiq) /\ ~HasRx(spiq') /\ (HasMsg(spiq') <=> HasMsg(spiq))
BY QueueTail DEF TypeOK, HasMsg, HasRx

\* What a step preserves besides the types
Core == Valid(spiq) /\ LockInv /\ ScriptInv /\ RxInv /\ TokenInv

\* Nobody uses msg while the radio is unlocked, or owned by a configuration
\* call that is about to issue its next command.
LEMMA MsgFree ==
  ASSUME IInv
  PROVE  /\ radio_state = "IDLE" => ~HasMsg(spiq)
         /\ adm_pc = "issue" => ~HasMsg(spiq)
         /\ spi_pc \in TxPcs => ~HasMsg(spiq)
BY DEF IInv, LockInv, TypeOK

\* The caller of radio_tx preserves the invariant.
LEMMA CallerCore ==
  ASSUME IInv, Caller
  PROVE  Core'
<1> USE DEF IInv, Core, LockInv, ScriptInv, RxInv, TokenInv, TxStates, TxPcs, RxPcs
<1>1. CASE radio_tx_call
  BY <1>1, QueueSame DEF radio_tx_call, msgs, irqPcs
<1>2. CASE radio_tx
  BY <1>2, PushMsg, MsgFree, MessageMembers, Disjoint
     DEF radio_tx, lock_and_beginTx, spi_async_msg, irqPcs
<1>3. QED
  BY <1>1, <1>2 DEF Caller

\* The SPI pump preserves it.
LEMMA PumpCore ==
  ASSUME IInv, Pump
  PROVE  Core'
<1> USE DEF IInv, Core, LockInv, ScriptInv, RxInv, TokenInv, TxStates, TxPcs, RxPcs
<1>1. CASE pump_msg
  <2>1. /\ Valid(spiq') /\ HasMsg(spiq) /\ ~HasMsg(spiq')
        /\ HasRx(spiq') <=> HasRx(spiq)
    BY <1>1, PopMsg DEF pump_msg, pump
  <2>2. CASE msg \in TxMessages
    <3>1. \/ msg.cmd \in {"TX", "SFLUSHRX_TX"} /\ msg.complete = "continueTx"
          \/ /\ msg.cmd \notin {"TX", "SFLUSHRX_TX"}
             /\ msg.complete \in {"continueTx_check", "completeFlushTx"}
      BY <2>2 DEF TxMessages, Message
    <3>2. QED
      BY <1>1, <2>1, <2>2, <3>1, Disjoint DEF pump_msg, pump, irqPcs, procs
  <2>3. CASE msg \in CfgMessages
    <3>1. msg.cmd \notin {"TX", "SFLUSHRX_TX"} /\ msg.complete = "spi_complete"
      BY <2>3 DEF CfgMessages, CfgCmds, Message
    <3>2. QED
      BY <1>1, <2>1, <2>3, <3>1, Disjoint DEF pump_msg, pump, irqPcs, procs
  <2>4. QED
    BY <2>2, <2>3 DEF TypeOK
<1>2. CASE pump_rest
  BY <1>2, QueueSame DEF pump_rest, msgs, irqPcs, procs
<1>3. CASE pump_rx_msg
  <2>1. /\ Valid(spiq') /\ HasRx(spiq) /\ ~HasRx(spiq')
        /\ HasMsg(spiq') <=> HasMsg(spiq)
    BY <1>3, PopRx DEF pump_rx_msg, pump
  <2>2. rx_msg.complete \in {"continueRx", "finishRx", "continueFlushRx", "completeFlushRx"}
    BY DEF TypeOK, RxMessages, Message
  <2>3. QED
    BY <1>3, <2>1, <2>2 DEF pump_rx_msg, pump, irqPcs, procs
<1>4. QED
  BY <1>1, <1>2, <1>3 DEF Pump

\* The callbacks of the transmit engine preserve it.
LEMMA TxCallbackCore ==
  ASSUME IInv, continueTx_check \/ continueTx \/ spi_unlock \/ spi_tx_done
  PROVE  Core'
<1> USE DEF IInv, Core, LockInv, ScriptInv, RxInv, TokenInv, TxStates, TxPcs, RxPcs
<1>1. CASE continueTx_check
  BY <1>1, PushMsg, MsgFree, MessageMembers, Disjoint
     DEF continueTx_check, spi_async_msg, irqPcs, procs
<1>2. CASE continueTx
  <2>1. CASE excflag0
    BY <1>2, <2>1, PushMsg, MsgFree, MessageMembers, Disjoint
       DEF continueTx, flushTx, spi_async_msg, irqPcs, procs
  <2>2. CASE ~excflag0
    BY <1>2, <2>2, QueueSame DEF continueTx, tx_unlock_spi, irqPcs, procs
  <2>3. QED
    BY <2>1, <2>2
<1>3. CASE spi_unlock
  BY <1>3, QueueSame DEF spi_unlock, msgs, irqPcs, procs
<1>4. CASE spi_tx_done
  BY <1>4, QueueSame DEF spi_tx_done, msgs, irqPcs
<1>5. QED
  BY <1>1, <1>2, <1>3, <1>4

\* The callbacks of the receive engine preserve it.
LEMMA RxCallbackCore ==
  ASSUME IInv,
         \/ continueRx \/ continueFlushRx \/ clear_pending_rx \/ finishRx \/ rx_done
         \/ radio_tx_ack \/ finishRx_check
  PROVE  Core'
<1> USE DEF IInv, Core, LockInv, ScriptInv, RxInv, TokenInv, TxStates, TxPcs, RxPcs
<1>1. CASE continueRx \/ continueFlushRx
  BY <1>1, PushRx DEF continueRx, continueFlushRx, flushRx, spi_async_rx, irqPcs, procs
<1>2. CASE clear_pending_rx \/ finishRx
  BY <1>2, QueueSame DEF clear_pending_rx, finishRx, msgs, irqPcs, procs
<1>3. CASE rx_done
  BY <1>3, QueueSame DEF rx_done, msgs, irqPcs
<1>4. CASE radio_tx_ack
  BY <1>4, PushMsg, MsgFree, MessageMembers, Disjoint
     DEF radio_tx_ack, lock_and_beginTx, spi_async_msg, irqPcs, procs
<1>5. CASE finishRx_check
  <2>1. CASE FIFO
    BY <1>5, <2>1, PushRx DEF finishRx_check, flushRx, spi_async_rx, irqPcs, procs
  <2>2. CASE ~FIFO
    BY <1>5, <2>2, QueueSame DEF finishRx_check, irqPcs, procs
  <2>3. QED
    BY <2>1, <2>2
<1>6. QED
  BY <1>1, <1>2, <1>3, <1>4, <1>5

\* The interrupt handlers preserve it.
LEMMA IrqCore ==
  ASSUME IInv, SfdIrq \/ FifopIrq
  PROVE  Core'
<1> USE DEF IInv, Core, LockInv, ScriptInv, RxInv, TokenInv, TxStates, TxPcs, RxPcs
<1>1. CASE sfd_handler \/ fifop_handler
  BY <1>1, QueueSame DEF sfd_handler, fifop_handler, msgs, procs
<1>2. CASE sfd_occurred
  BY <1>2, QueueSame DEF sfd_occurred, tx_unlock_sfd, msgs, procs
<1>3. CASE sfd_unlock
  BY <1>3, QueueSame DEF sfd_unlock, msgs, procs
<1>4. CASE sfd_tx_done
  BY <1>4, QueueSame DEF sfd_tx_done, msgs
<1>5. CASE fifop_occurred
  <2>1. CASE FIFOP /\ ~pending_rx
    BY <1>5, <2>1, PushRx DEF fifop_occurred, spi_async_rx, procs
  <2>2. CASE ~(FIFOP /\ ~pending_rx)
    BY <1>5, <2>2, QueueSame DEF fifop_occurred, procs
  <2>3. QED
    BY <2>1, <2>2
<1>6. QED
  BY <1>1, <1>2, <1>3, <1>4, <1>5 DEF SfdIrq, FifopIrq

\* Configuration calls that take the lock preserve it.
LEMMA ConfigCore ==
  ASSUME IInv, Ops \subseteq LockedOps,
         (\E op \in Ops : ioctl(op)) \/ ConfigStep \/ spi_complete
  PROVE  Core'
<1> USE DEF IInv, Core, LockInv, ScriptInv, RxInv, TokenInv, TxStates, TxPcs, RxPcs
<1>1. CASE \E op \in Ops : ioctl(op)
  <2>1. PICK op \in LockedOps : ioctl(op)
    BY <1>1
  <2>2. QED
    BY <2>1, QueueSame, ScriptTail DEF ioctl, msgs, irqPcs
<1>2. CASE radio_lock_config
  BY <1>2, QueueSame DEF radio_lock_config, msgs, irqPcs
<1>3. CASE config_issue
  <2>1. adm_todo' \in Suffixes
    BY <1>3, ScriptTail DEF config_issue, CfgCmds
  <2>2. QED
    BY <1>3, <2>1, PushMsg, MsgFree, MessageMembers, Disjoint
       DEF config_issue, spi_async_msg, irqPcs
<1>4. CASE config_reset
  <2>1. adm_todo' \in Suffixes
    BY <1>4, ScriptTail DEF config_reset
  <2>2. QED
    BY <1>4, <2>1, QueueSame DEF config_reset, msgs, irqPcs
<1>5. CASE config_return
  <2>1. radio_state' = "IDLE"
    BY <1>5, ScriptTail DEF config_return
  <2>2. QED
    BY <1>5, <2>1, QueueSame DEF config_return, msgs, irqPcs
<1>6. CASE spi_complete
  BY <1>6, QueueSame DEF spi_complete, msgs, irqPcs
<1>7. QED
  BY <1>1, <1>2, <1>3, <1>4, <1>5, <1>6 DEF ConfigStep

\* Every step preserves the inductive invariant.
LEMMA Induction ==
  ASSUME Ops \subseteq LockedOps, IInv, Next \/ UNCHANGED vars
  PROVE  IInv'
<1>1. TypeOK'
  BY TypeStep DEF IInv
<1>2. CASE Air \/ UNCHANGED vars
  BY <1>1, <1>2, QueueSame
     DEF Air, vars, radioVars, msgs, irqPcs, procs, IInv, LockInv, ScriptInv, RxInv, TokenInv
<1>3. CASE Caller \/ Pump \/ Callback \/ SfdIrq \/ FifopIrq \/ (\E op \in Ops : ioctl(op)) \/ ConfigStep
  <2>1. Core'
    BY <1>3, CallerCore, PumpCore, TxCallbackCore, RxCallbackCore, IrqCore, ConfigCore DEF Callback
  <2>2. QED
    BY <1>1, <2>1 DEF Core, IInv
<1>4. QED
  BY <1>2, <1>3 DEF Next

\* It holds initially.
LEMMA InitInductive == Init => IInv
<1> SUFFICES ASSUME Init PROVE IInv
  OBVIOUS
<1>1. TypeOK
  BY TypeInit
<1>2. Valid(spiq) /\ ~HasMsg(spiq) /\ ~HasRx(spiq)
  BY DEF Init, Valid, HasMsg, HasRx, Has
<1>3. QED
  BY <1>1, <1>2 DEF Init, IInv, LockInv, ScriptInv, RxInv, TokenInv, TxStates, TxPcs, RxPcs

\* It holds always.
LEMMA InvAlways == ASSUME Ops \subseteq LockedOps PROVE Spec => []IInv
<1>1. IInv /\ [Next]_vars => IInv'
  BY Induction
<1>2. QED
  BY <1>1, InitInductive, PTL DEF Spec

\* Every transmission is answered by exactly one tx_done, with any number of
\* frames, transmissions, acknowledgements and locked configuration calls.
THEOREM TxDoneOnceHolds == ASSUME Ops \subseteq LockedOps PROVE Spec => []TxDoneOnce
<1>1. IInv => TxDoneOnce
  BY TokenIsTxDoneOnce DEF IInv
<1>2. QED
  BY <1>1, InvAlways, PTL

\* The two SPI messages are never queued again before they complete.
THEOREM SpiExclusiveHolds == ASSUME Ops \subseteq LockedOps PROVE Spec => []SpiExclusive
<1>1. IInv => SpiExclusive
  <2> SUFFICES ASSUME IInv PROVE SpiExclusive
    OBVIOUS
  <2>1. (Queued("msg") <=> HasMsg(spiq)) /\ (Queued("rx_msg") <=> HasRx(spiq))
    BY DEF Queued, HasMsg, HasRx, Has
  <2>2. MsgInFlight => radio_state \in {"TX", "TX_SFD_DONE", "CONFIG"}
    BY <2>1 DEF MsgInFlight, IInv, LockInv, TypeOK, TxPcs
  <2>3. QED
    BY <2>1, <2>2 DEF SpiExclusive, IInv, Valid, LockInv, RxInv, TxPcs
<1>2. QED
  BY <1>1, InvAlways, PTL

\* pending_rx is set exactly while the receive engine runs.
THEOREM RxEngineAliveHolds == ASSUME Ops \subseteq LockedOps PROVE Spec => []RxEngineAlive
<1>1. IInv => RxEngineAlive
  BY DEF IInv, RxInv, RxEngineAlive, Queued, HasRx, Has
<1>2. QED
  BY <1>1, InvAlways, PTL

-----------------------------------------------------------------------------
(* The end of a transmission is not missed.                                *)

EndPending == rf \in {"cal", "tx", "rx"} \/ sfd_irq \/ sfd_pc = "entered"
TxEndInv ==
  radio_state = "TX_SPI_DONE" \/ (radio_state = "TX" /\ spi_pc \in {"mid", "continueTx"})
    => EndPending

\* An edge that takes SFD low is latched, so what the chip does on its own keeps
\* the end pending, and so does flushing the RX FIFO in the middle of a frame.
LEMMA ChipKeepsEnd ==
  ASSUME TypeOK, EndPending, sfd_pc' = sfd_pc,
         \/ RxStart \/ RxEnd \/ TxStart \/ TxEnd \/ TxUnderflow \/ SFLUSHRX
         \/ TXBUF_rest
         \/ \E val \in -1..MaxRx : RXBUF_len(val) \/ RXBUF_data(val)
         \/ UNCHANGED chipVars
  PROVE  EndPending'
<1>1. sfd_irq \in BOOLEAN /\ rf \in RfStates
  BY DEF TypeOK, ChipTypeOK
<1>2. \/ rf' = rf /\ (sfd_irq => sfd_irq')
      \/ rf' \in {"rx", "tx"}
      \/ sfd_irq' = (sfd_irq \/ SFD' # SFD) /\ rf \in {"rx", "tx"} /\ rf' \in {"listen", "uflow"}
  BY <1>1 DEF RxStart, RxEnd, TxStart, TxEnd, TxUnderflow, SFLUSHRX, TXBUF_rest,
         RXBUF_len, RXBUF_data, LatchEdges, chipVars
<1>3. QED
  BY <1>1, <1>2 DEF EndPending, SFD

\* Every step preserves TxEndInv, given the inductive invariant.
LEMMA TxEndInduction ==
  ASSUME Ops \subseteq LockedOps, IInv, TxEndInv, Next \/ UNCHANGED vars
  PROVE  TxEndInv'
<1> USE DEF TxEndInv
<1>0. TypeOK /\ LockInv
  BY DEF IInv
<1>1. CASE Air \/ UNCHANGED vars
  BY <1>0, <1>1, ChipKeepsEnd DEF Air, vars, radioVars, irqPcs
<1>2. CASE Caller
  BY <1>0, <1>2 DEF Caller, radio_tx_call, radio_tx, lock_and_beginTx, LockInv, TxPcs,
       irqPcs, EndPending, chipVars
<1>3. CASE pump_msg
  <2>1. CASE msg \in TxMessages
    <3>1. msg.cmd \in {"TX", "SFLUSHRX_TX"} => rf' = "cal"
      BY <1>3 DEF pump_msg, TXBUF_STXON
    <3>2. msg.cmd \notin {"TX", "SFLUSHRX_TX"} => msg.complete \notin {"mid", "continueTx"}
      BY <2>1 DEF TxMessages, Message
    <3>3. radio_state \in {"TX", "TX_SFD_DONE"}
      BY <1>0, <1>3, <2>1, PopMsg DEF LockInv, IInv, pump_msg, pump
    <3>4. QED
      BY <1>3, <3>1, <3>2, <3>3 DEF pump_msg, pump, EndPending
  <2>2. CASE msg \in CfgMessages
    <3>1. radio_state = "CONFIG"
      BY <1>0, <1>3, <2>2, PopMsg DEF LockInv, IInv, pump_msg, pump
    <3>2. QED
      BY <1>3, <3>1 DEF pump_msg, pump
  <2>3. QED
    BY <1>0, <2>1, <2>2 DEF TypeOK
<1>4. CASE pump_rest
  <2>1. spi_pc' = "continueTx" /\ radio_state' = radio_state
    BY <1>0, <1>4 DEF pump_rest, LockInv
  <2>2. EndPending => EndPending'
    BY <1>0, <1>4, ChipKeepsEnd DEF pump_rest, irqPcs
  <2>3. QED
    BY <1>4, <2>1, <2>2 DEF pump_rest
<1>5. CASE pump_rx_msg
  <2>1. rx_msg.cmd \in {"RXBUF_len", "RXBUF_data", "SFLUSHRX"}
    BY <1>0 DEF TypeOK, RxMessages, Message
  <2>2. SFLUSHRX \/ \E val \in -1..MaxRx : RXBUF_len(val) \/ RXBUF_data(val)
    BY <1>5, <2>1 DEF pump_rx_msg
  <2>3. EndPending => EndPending'
    BY <1>0, <1>5, <2>2, ChipKeepsEnd DEF pump_rx_msg, pump, irqPcs
  <2>4. rx_msg.complete \notin {"mid", "continueTx"}
    BY <1>0 DEF TypeOK, RxMessages, Message
  <2>5. QED
    BY <1>5, <2>3, <2>4 DEF pump_rx_msg, pump
<1>6. CASE Callback
  <2>1. UNCHANGED <<chipVars, sfd_pc>>
    BY <1>6 DEF Callback, continueTx_check, continueTx, spi_unlock, spi_tx_done,
         continueRx, continueFlushRx, clear_pending_rx, finishRx, rx_done,
         radio_tx_ack, finishRx_check, spi_complete, irqPcs
  <2>2. EndPending' <=> EndPending
    BY <2>1 DEF EndPending, chipVars
  <2>3. /\ spi_pc' \notin {"mid", "continueTx"}
        /\ \/ radio_state' # "TX_SPI_DONE"
           \/ radio_state' = radio_state
           \/ radio_state = "TX" /\ spi_pc = "continueTx"
    BY <1>6 DEF Callback, continueTx_check, continueTx, tx_unlock_spi, flushTx,
         spi_unlock, spi_tx_done, continueRx, continueFlushRx, clear_pending_rx,
         finishRx, rx_done, radio_tx_ack, lock_and_beginTx, finishRx_check, spi_complete
  <2>4. QED
    BY <2>2, <2>3
<1>7. CASE SfdIrq
  <2>1. CASE sfd_handler
    BY <2>1 DEF sfd_handler, EndPending
  <2>2. CASE sfd_occurred
    BY <1>0, <2>2 DEF sfd_occurred, tx_unlock_sfd, EndPending, SFD, chipVars, TypeOK,
         RadioStates, TxStates
  <2>3. CASE sfd_unlock \/ sfd_tx_done
    BY <2>3 DEF sfd_unlock, sfd_tx_done, EndPending, chipVars
  <2>4. QED
    BY <1>7, <2>1, <2>2, <2>3 DEF SfdIrq
<1>8. CASE FifopIrq
  BY <1>8 DEF FifopIrq, fifop_handler, fifop_occurred, EndPending, chipVars
<1>9. CASE (\E op \in Ops : ioctl(op)) \/ radio_lock_config \/ config_issue
  BY <1>9 DEF ioctl, radio_lock_config, config_issue, irqPcs, EndPending, chipVars
<1>10. CASE config_reset \/ config_return
  <2>1. radio_state = "CONFIG" /\ radio_state' \in {"CONFIG", "IDLE"}
    BY <1>0, <1>10 DEF config_reset, config_return, LockInv
  <2>2. QED
    BY <2>1
<1>11. QED
  BY <1>1, <1>2, <1>3, <1>4, <1>5, <1>6, <1>7, <1>8, <1>9, <1>10 DEF Next, Pump, ConfigStep

\* A transmission whose SPI part is done still has its SFD edge to come.
THEOREM TxEndPendingHolds == ASSUME Ops \subseteq LockedOps PROVE Spec => []TxEndPending
<1>1. Init => IInv /\ TxEndInv
  BY InitInductive DEF Init, TxEndInv
<1>2. (IInv /\ TxEndInv) /\ [Next]_vars => (IInv /\ TxEndInv)'
  BY Induction, TxEndInduction
<1>3. IInv /\ TxEndInv => TxEndPending
  BY DEF TxEndInv, EndPending, TxEndPending
<1>4. QED
  BY <1>1, <1>2, <1>3, PTL DEF Spec


-----------------------------------------------------------------------------
(* What the receive engine reads is a frame.                               *)
(*                                                                         *)
(* A reception cut off by SRFOFF, SRXON or a reset leaves part of a frame, *)
(* or nothing, where the engine expects a complete one, and it then reads  *)
(* junk (the run RadioGarbage).  RxIntact and RxInOrder are proved for the *)
(* behaviours in which the receiver is switched while the FIFO is empty.   *)

Switching == (pump_msg /\ msg.cmd \in {"SRXON", "SRFOFF"}) \/ config_reset
CalmStep  == Switching => rxfifo = <<>>
Calm      == [][CalmStep]_vars

\* How far the engine is with the frame at the head of the FIFO
Phase ==
  IF spi_pc = "continueRx" \/ (HasRx(spiq) /\ rx_msg.cmd = "RXBUF_data") THEN "reading"
  ELSE IF HasRx(spiq) /\ rx_msg.cmd = "RXBUF_len" THEN "asking"
  ELSE "none"

\* Only the last frame of the FIFO may be incomplete, and is while it arrives;
\* only the first may be partly read, and is complete when the engine reads it.
Fifo(q, r, phase) ==
  /\ \A i \in 1..Len(q) : q[i].full \/ (i = Len(q) /\ r = "rx")
  /\ r = "rx" => q # <<>> /\ ~q[Len(q)].full
  /\ \A i \in 1..Len(q) : q[i].got = IF i = 1 /\ phase = "reading" THEN "len" ELSE "none"
  /\ phase # "none" => q # <<>> /\ q[1].full

\* The arrival numbers in the FIFO grow, above lo and up to hi.
Ids(q, lo, hi) ==
  /\ \A i \in 1..Len(q) : lo < q[i].id /\ q[i].id <= hi
  /\ \A i, j \in 1..Len(q) : i < j => q[i].id < q[j].id

\* The last frame taken out of the FIFO
Taken == IF spi_pc = "finishRx" THEN rx_in_buf ELSE rx_buf_r

FifoInv == /\ Fifo(rxfifo, rf, Phase)
           /\ spi_pc = "continueRx" => rx_in_buf # TooLong

OrderInv == /\ Ids(rxfifo, Taken, nrx)
            /\ rx_buf_r \in 0..nrx
            /\ spi_pc = "finishRx" => rx_buf_r < rx_in_buf /\ rx_in_buf <= nrx
            /\ spi_pc = "rx_done" => rx_buf_r > 0

\* Between its SRFOFF and its STXON a transmission finds the radio off and, as
\* the receiver was switched off while it was, the FIFO empty.
QuietInv ==
  (HasMsg(spiq) /\ msg.cmd \in {"TX", "SFLUSHRX_TX"}) \/ spi_pc = "continueTx_check"
    => rf = "off" /\ rxfifo = <<>>

RxPathInv == FifoInv /\ OrderInv /\ QuietInv

\* An empty FIFO: nothing arrives and nothing is being read.
LEMMA FifoEmpty ==
  /\ \A r : r # "rx" => Fifo(<<>>, r, "none")
  /\ \A r, p : Fifo(<<>>, r, p) => r # "rx" /\ p = "none"
  /\ \A lo, hi : Ids(<<>>, lo, hi)
BY DEF Fifo, Ids

\* A frame begins to arrive.
LEMMA FifoStart ==
  ASSUME NEW q \in Seq(RxEntry), NEW r, NEW p, NEW id \in 1..MaxRx, r # "rx",
         Fifo(q, r, p)
  PROVE  Fifo(Append(q, [id |-> id, full |-> FALSE, got |-> "none"]), "rx", p)
<1> DEFINE e == [id |-> id, full |-> FALSE, got |-> "none"]
           s == Append(q, e)
<1>1. /\ Len(s) = Len(q) + 1 /\ s[Len(q) + 1] = e /\ s # <<>>
      /\ \A i \in 1..Len(q) : s[i] = q[i]
      /\ Len(q) \in Nat
      /\ q # <<>> => Len(q) > 0
  OBVIOUS
<1>2. ~e.full /\ e.got = "none"
  OBVIOUS
<1> HIDE DEF s, e
<1>3. Fifo(s, "rx", p)
  BY <1>1, <1>2 DEF Fifo
<1>4. QED
  BY <1>3 DEF s, e

\* It ends.
LEMMA FifoEnd ==
  ASSUME NEW q \in Seq(RxEntry), NEW p, NEW r, r # "rx", Fifo(q, "rx", p)
  PROVE  /\ Fifo([q EXCEPT ![Len(q)].full = TRUE], r, p)
         /\ \A lo, hi : Ids(q, lo, hi) => Ids([q EXCEPT ![Len(q)].full = TRUE], lo, hi)
<1> DEFINE s == [q EXCEPT ![Len(q)].full = TRUE]
<1>1. Len(q) \in 1..Len(q) /\ Len(q) \in Nat
  BY DEF Fifo
<1>2. /\ Len(s) = Len(q) /\ s # <<>>
      /\ \A i \in 1..Len(q) : i # Len(q) => s[i] = q[i]
      /\ s[Len(q)] = [q[Len(q)] EXCEPT !.full = TRUE]
  <2>1. s \in Seq(RxEntry)
    BY <1>1, EntryUpdate
  <2>2. Len(s) = Len(q)
    OBVIOUS
  <2>3. s # <<>>
    BY <1>1, <2>1, <2>2
  <2>4. QED
    BY <1>1, <2>2, <2>3
<1>3. q[Len(q)] \in RxEntry
  BY <1>1
<1>4. s[Len(q)].full /\ s[Len(q)].got = q[Len(q)].got /\ s[Len(q)].id = q[Len(q)].id
  BY <1>2, <1>3 DEF RxEntry
<1> HIDE DEF s
<1>5. Fifo(s, r, p)
  <2>1. \A i \in 1..Len(q) : i # Len(q) => q[i].full
    BY DEF Fifo
  <2>2. \A i \in 1..Len(s) : s[i].full
    BY <1>2, <1>4, <2>1
  <2>3. \A i \in 1..Len(s) : s[i].got = q[i].got
    BY <1>2, <1>4
  <2>4. p = "none" \/ q[1].full
    BY DEF Fifo
  <2>5. p = "none" \/ s[1].full
    BY <1>1, <1>2, <2>2
  <2>6. QED
    BY <1>2, <2>2, <2>3, <2>5 DEF Fifo
<1>6. ASSUME NEW lo, NEW hi, Ids(q, lo, hi)
      PROVE  Ids(s, lo, hi)
  <2>1. \A i \in 1..Len(q) : s[i].id = q[i].id
    BY <1>2, <1>4
  <2>2. QED
    BY <1>2, <1>6, <2>1 DEF Ids
<1>7. QED
  BY <1>5, <1>6 DEF s

\* FIFOP says that the oldest frame is complete, as only the last may not be.
LEMMA FifoAsk ==
  ASSUME NEW q \in Seq(RxEntry), NEW r, NEW i \in 1..Len(q), q[i].full,
         Fifo(q, r, "none")
  PROVE  Fifo(q, r, "asking")
BY DEF Fifo

\* The length byte is read.
LEMMA FifoLen ==
  ASSUME NEW q \in Seq(RxEntry), NEW r, Fifo(q, r, "asking")
  PROVE  /\ q # <<>> /\ Head(q).got = "none" /\ Head(q).id \in 1..MaxRx
         /\ Fifo([q EXCEPT ![1].got = "len"], r, "reading")
         /\ \A lo, hi : Ids(q, lo, hi) => Ids([q EXCEPT ![1].got = "len"], lo, hi)
<1> DEFINE s == [q EXCEPT ![1].got = "len"]
<1>1. /\ q # <<>> /\ q[1].full /\ 1 \in 1..Len(q) /\ Len(q) \in Nat
      /\ Head(q) = q[1] /\ q[1] \in RxEntry
  BY DEF Fifo
<1>2. /\ Len(s) = Len(q) /\ s # <<>>
      /\ \A i \in 1..Len(q) : i # 1 => s[i] = q[i]
      /\ s[1] = [q[1] EXCEPT !.got = "len"]
  BY <1>1
<1>3. s[1].full /\ s[1].got = "len" /\ s[1].id = q[1].id
  BY <1>1, <1>2 DEF RxEntry
<1> HIDE DEF s
<1>4. Fifo(s, r, "reading")
  <2>1. /\ \A i \in 1..Len(s) : s[i].full \/ (i = Len(s) /\ r = "rx")
        /\ r = "rx" => ~s[Len(s)].full
    <3>1. \A i \in 1..Len(s) : i # 1 => s[i].full \/ (i = Len(s) /\ r = "rx")
      BY <1>2 DEF Fifo
    <3>2. r = "rx" => ~q[Len(q)].full
      BY DEF Fifo
    <3>3. r = "rx" => Len(q) # 1
      BY <1>1, <3>2
    <3>4. r = "rx" => s[Len(s)] = q[Len(q)]
      BY <1>1, <1>2, <3>3
    <3>5. QED
      BY <1>1, <1>2, <1>3, <3>1, <3>2, <3>4
  <2>2. \A i \in 1..Len(s) : s[i].got = IF i = 1 THEN "len" ELSE "none"
    <3>1. \A i \in 1..Len(q) : q[i].got = "none"
      BY DEF Fifo
    <3>2. \A i \in 1..Len(s) : i # 1 => s[i].got = "none"
      BY <1>2, <3>1
    <3>3. QED
      BY <1>3, <3>2
  <2>3. QED
    BY <1>2, <1>3, <2>1, <2>2 DEF Fifo
<1>5. ASSUME NEW lo, NEW hi, Ids(q, lo, hi)
      PROVE  Ids(s, lo, hi)
  <2>1. \A i \in 1..Len(q) : s[i].id = q[i].id
    BY <1>2, <1>3
  <2>2. QED
    BY <1>2, <1>5, <2>1 DEF Ids
<1>6. q[1].got = "none" /\ q[1].id \in 1..MaxRx
  BY <1>1 DEF Fifo, RxEntry
<1>7. QED
  BY <1>1, <1>4, <1>5, <1>6 DEF s

\* The rest of the frame is read, and what remains arrived after it.
LEMMA FifoTake ==
  ASSUME NEW q \in Seq(RxEntry), NEW r, Fifo(q, r, "reading")
  PROVE  /\ q # <<>> /\ Head(q).got = "len" /\ Head(q).full /\ Head(q).id \in 1..MaxRx
         /\ Fifo(Tail(q), r, "none")
         /\ \A lo, hi : Ids(q, lo, hi) =>
              Ids(Tail(q), Head(q).id, hi) /\ lo < Head(q).id /\ Head(q).id <= hi
<1> DEFINE s == Tail(q)
<1>1. /\ q # <<>> /\ q[1].full /\ 1 \in 1..Len(q) /\ Len(q) \in Nat
      /\ Head(q) = q[1] /\ q[1] \in RxEntry
  BY DEF Fifo
<1>2. /\ Len(s) = Len(q) - 1
      /\ \A i \in 1..Len(s) : s[i] = q[i + 1] /\ i + 1 \in 1..Len(q)
      /\ s \in Seq(RxEntry)
      /\ Len(s) > 0 => s # <<>>
  BY <1>1
<1> HIDE DEF s
<1>3. Fifo(s, r, "none")
  <2>1. r = "rx" => Len(q) > 1
    BY <1>1 DEF Fifo
  <2>2. \A i \in 1..Len(s) : s[i].full \/ (i = Len(s) /\ r = "rx")
    BY <1>1, <1>2 DEF Fifo
  <2>3. r = "rx" => s # <<>> /\ ~s[Len(s)].full
    BY <1>1, <1>2, <2>1 DEF Fifo
  <2>4. \A i \in 1..Len(s) : s[i].got = "none"
    BY <1>1, <1>2 DEF Fifo
  <2>5. QED
    BY <2>2, <2>3, <2>4 DEF Fifo
<1>4. ASSUME NEW lo, NEW hi, Ids(q, lo, hi)
      PROVE  Ids(s, q[1].id, hi) /\ lo < q[1].id /\ q[1].id <= hi
  <2>1. \A i \in 1..Len(s) : q[1].id < s[i].id /\ s[i].id <= hi
    <3>1. \A i \in 1..Len(s) : 1 < i + 1 /\ i + 1 \in 1..Len(q)
      BY <1>2
    <3>2. QED
      BY <1>1, <1>2, <1>4, <3>1 DEF Ids
  <2>2. ASSUME NEW i \in 1..Len(s), NEW j \in 1..Len(s), i < j
        PROVE  s[i].id < s[j].id
    <3>1. i + 1 \in 1..Len(q) /\ j + 1 \in 1..Len(q) /\ i + 1 < j + 1
      BY <1>2, <2>2
    <3>2. QED
      BY <1>2, <1>4, <3>1 DEF Ids
  <2>3. QED
    BY <1>1, <1>4, <2>1, <2>2 DEF Ids
<1>5. q[1].got = "len" /\ q[1].id \in 1..MaxRx
  BY <1>1 DEF Fifo, RxEntry
<1>6. QED
  BY <1>1, <1>3, <1>4, <1>5 DEF s

\* A new frame has the largest number yet.
LEMMA IdsStart ==
  ASSUME NEW q \in Seq(RxEntry), NEW lo \in Int, NEW hi \in Nat, lo <= hi,
         Ids(q, lo, hi)
  PROVE  Ids(Append(q, [id |-> hi + 1, full |-> FALSE, got |-> "none"]), lo, hi + 1)
<1> DEFINE e == [id |-> hi + 1, full |-> FALSE, got |-> "none"]
           s == Append(q, e)
<1>1. /\ Len(s) = Len(q) + 1 /\ s[Len(q) + 1] = e
      /\ \A i \in 1..Len(q) : s[i] = q[i]
      /\ Len(q) \in Nat
  OBVIOUS
<1>2. e.id = hi + 1
  OBVIOUS
<1>3. \A i \in 1..Len(q) : q[i].id \in Int
  <2>1. \A i \in 1..Len(q) : q[i] \in RxEntry
    OBVIOUS
  <2>2. QED
    BY <2>1, BoundsAssumption DEF RxEntry
<1> HIDE DEF s, e
<1>4. Ids(s, lo, hi + 1)
  <2>1. \A i \in 1..Len(q) : lo < q[i].id /\ q[i].id <= hi
    BY DEF Ids
  <2>2. \A i \in 1..Len(s) : lo < s[i].id /\ s[i].id <= hi + 1
    BY <1>1, <1>2, <1>3, <2>1
  <2>3. ASSUME NEW i \in 1..Len(s), NEW j \in 1..Len(s), i < j
        PROVE  s[i].id < s[j].id
    <3>1. i \in 1..Len(q)
      BY <1>1, <2>3
    <3>2. CASE j \in 1..Len(q)
      BY <1>1, <2>3, <3>1, <3>2 DEF Ids
    <3>3. CASE j = Len(q) + 1
      <4>1. q[i].id < hi + 1
        BY <1>3, <2>1, <3>1
      <4>2. QED
        BY <1>1, <1>2, <3>1, <3>3, <4>1
    <3>4. QED
      BY <1>1, <3>2, <3>3
  <2>4. QED
    BY <2>2, <2>3 DEF Ids
<1>5. QED
  BY <1>4 DEF s, e

\* What the chip does on its own preserves the three.
LEMMA AirPath ==
  ASSUME TypeOK, RxPathInv, Air
  PROVE  RxPathInv'
<1> USE DEF RxPathInv, FifoInv, OrderInv, QuietInv
<1>0. /\ rxfifo \in Seq(RxEntry) /\ nrx \in 0..MaxRx /\ nrx \in Nat
      /\ rx_buf_r \in Int /\ rx_in_buf \in Int /\ MaxRx \in Nat
  BY BoundsAssumption DEF TypeOK, ChipTypeOK
<1>1. /\ Phase' = Phase /\ Taken' = Taken
      /\ UNCHANGED <<spi_pc, spiq, msg, rx_in_buf, rx_buf_r>>
  BY DEF Air, radioVars, msgs, bufs, Phase, Taken
<1>2. CASE RxStart
  <2>1. /\ rf = "listen" /\ rf' = "rx" /\ nrx' = nrx + 1 /\ nrx' \in 1..MaxRx
        /\ rxfifo' = Append(rxfifo, [id |-> nrx + 1, full |-> FALSE, got |-> "none"])
    BY <1>0, <1>2 DEF RxStart
  <2>2. Fifo(rxfifo', rf', Phase)
    BY <1>0, <2>1, FifoStart
  <2>3. Taken \in Int /\ Taken <= nrx
    BY <1>0 DEF Taken
  <2>4. Ids(rxfifo', Taken, nrx')
    BY <1>0, <2>1, <2>3, IdsStart
  <2>5. QED
    BY <1>0, <1>1, <2>1, <2>2, <2>4
<1>3. CASE RxEnd
  <2>1. /\ rf = "rx" /\ rf' = "listen" /\ nrx' = nrx
        /\ rxfifo' = [rxfifo EXCEPT ![Len(rxfifo)].full = TRUE]
    BY <1>3 DEF RxEnd
  <2>2. Fifo(rxfifo', rf', Phase) /\ Ids(rxfifo', Taken, nrx)
    BY <1>0, <2>1, FifoEnd
  <2>3. QED
    BY <1>1, <2>1, <2>2
<1>4. CASE TxStart \/ TxEnd \/ TxUnderflow
  <2>1. rf \notin {"rx", "off"} /\ rf' # "rx" /\ rxfifo' = rxfifo /\ nrx' = nrx
    BY <1>4 DEF TxStart, TxEnd, TxUnderflow
  <2>2. Fifo(rxfifo', rf', Phase)
    BY <2>1 DEF Fifo
  <2>3. QED
    BY <1>1, <2>1, <2>2
<1>5. QED
  BY <1>2, <1>3, <1>4 DEF Air

\* A step that leaves the FIFO, the frames read and the phase as they are, and
\* queues no transmission, preserves the three.
LEMMA IdlePath ==
  ASSUME RxPathInv,
         UNCHANGED <<rf, rxfifo, nrx, rx_in_buf, rx_buf_r>>, Phase' = Phase,
         spi_pc' \in {"continueRx", "finishRx", "rx_done"} => spi_pc' = spi_pc,
         spi_pc = "finishRx" => spi_pc' = spi_pc,
         HasMsg(spiq') /\ msg'.cmd \in {"TX", "SFLUSHRX_TX"}
           => HasMsg(spiq) /\ msg.cmd \in {"TX", "SFLUSHRX_TX"},
         spi_pc' = "continueTx_check" => spi_pc' = spi_pc
  PROVE  RxPathInv'
<1>1. Taken' = Taken
  BY DEF Taken
<1>2. QED
  BY <1>1 DEF RxPathInv, FifoInv, OrderInv, QuietInv

\* The callers of radio_tx and the callbacks of the transmit engine preserve them.
LEMMA TxPath ==
  ASSUME IInv, RxPathInv,
         \/ Caller \/ radio_tx_ack
         \/ continueTx_check \/ continueTx \/ spi_unlock \/ spi_tx_done
  PROVE  RxPathInv'
<1>0. TypeOK /\ Valid(spiq) /\ LockInv /\ RxInv
  BY DEF IInv
<1>1. CASE radio_tx_call
  BY <1>0, <1>1, IdlePath DEF radio_tx_call, chipVars, msgs, bufs, Phase
<1>2. CASE radio_tx \/ radio_tx_ack
  <2>1. HasRx(spiq') <=> HasRx(spiq)
    BY <1>0, <1>2, PushMsg, MsgFree DEF radio_tx, radio_tx_ack, lock_and_beginTx, spi_async_msg
  <2>2. msg'.cmd = "SRFOFF"
    BY <1>2 DEF radio_tx, radio_tx_ack, lock_and_beginTx, spi_async_msg, Message
  <2>3. \/ spi_pc' = spi_pc
        \/ spi_pc = "ack_spin" /\ spi_pc' = "fifo_check"
    BY <1>2 DEF radio_tx, radio_tx_ack
  <2>4. Phase' = Phase
    BY <1>2, <2>1, <2>3 DEF radio_tx, radio_tx_ack, Phase
  <2>5. UNCHANGED <<rf, rxfifo, nrx, rx_in_buf, rx_buf_r>>
    BY <1>2 DEF radio_tx, radio_tx_ack, chipVars
  <2>6. QED
    BY <2>2, <2>3, <2>4, <2>5, IdlePath
<1>3. CASE continueTx_check
  <2>1. HasRx(spiq') <=> HasRx(spiq)
    BY <1>0, <1>3, PushMsg, MsgFree DEF continueTx_check, spi_async_msg, TxPcs
  <2>2. rf = "off" /\ rxfifo = <<>>
    BY <1>3 DEF RxPathInv, QuietInv, continueTx_check
  <2>3. Phase' = Phase /\ Taken' = Taken
    BY <1>3, <2>1 DEF continueTx_check, Phase, Taken, bufs
  <2>4. QED
    BY <1>3, <2>2, <2>3 DEF continueTx_check, RxPathInv, FifoInv, OrderInv, QuietInv,
         chipVars, bufs
<1>4. CASE continueTx
  <2>1. HasRx(spiq') <=> HasRx(spiq)
    BY <1>0, <1>4, PushMsg, MsgFree DEF continueTx, flushTx, spi_async_msg, TxPcs
  <2>2. ~HasMsg(spiq)
    BY <1>4, MsgFree DEF continueTx, TxPcs
  <2>3. HasMsg(spiq') => msg'.cmd = "SFLUSHTX"
    BY <1>4, <2>2 DEF continueTx, flushTx, spi_async_msg, Message
  <2>4. spi_pc = "continueTx" /\ spi_pc' \in {"idle", "completeTx"}
    BY <1>4 DEF continueTx, flushTx, tx_unlock_spi
  <2>5. Phase' = Phase
    BY <1>4, <2>1, <2>4 DEF continueTx, Phase
  <2>6. UNCHANGED <<rf, rxfifo, nrx, rx_in_buf, rx_buf_r>>
    BY <1>4 DEF continueTx, chipVars, bufs
  <2>7. QED
    BY <2>3, <2>4, <2>5, <2>6, IdlePath
<1>5. CASE spi_unlock \/ spi_tx_done
  <2>1. /\ spi_pc \notin {"continueRx", "finishRx"}
        /\ spi_pc' \in {"tx_done", "tx_failed", "idle"}
    BY <1>5 DEF spi_unlock, spi_tx_done
  <2>2. UNCHANGED <<chipVars, msgs, bufs>>
    BY <1>5 DEF spi_unlock, spi_tx_done
  <2>3. Phase' = Phase
    BY <2>1, <2>2 DEF Phase, msgs
  <2>4. QED
    BY <2>1, <2>2, <2>3, IdlePath DEF chipVars, msgs, bufs
<1>6. QED
  BY <1>1, <1>2, <1>3, <1>4, <1>5 DEF Caller

\* So does the pump: what it reads is the frame at the head of the FIFO, and
\* switching the receiver finds the FIFO empty.
LEMMA PumpPath ==
  ASSUME IInv, RxPathInv, CalmStep, Pump
  PROVE  RxPathInv'
<1>0. /\ TypeOK /\ Valid(spiq) /\ LockInv /\ RxInv
      /\ rxfifo \in Seq(RxEntry) /\ nrx \in Nat /\ MaxRx \in Nat
      /\ Fifo(rxfifo, rf, Phase) /\ Ids(rxfifo, Taken, nrx)
  BY BoundsAssumption DEF IInv, TypeOK, ChipTypeOK, RxPathInv, FifoInv, OrderInv
<1>1. CASE pump_msg
  <2>1. /\ HasMsg(spiq) /\ ~HasMsg(spiq') /\ (HasRx(spiq') <=> HasRx(spiq))
        /\ UNCHANGED <<rx_msg, rx_in_buf, rx_buf_r>> /\ spi_pc = "idle"
    BY <1>0, <1>1, PopMsg DEF pump_msg, pump
  <2>2. /\ spi_pc' \in {"mid", "continueTx_check", "completeFlushTx", "continueTx",
                        "spi_complete"}
        /\ spi_pc' = "continueTx_check" => msg.cmd \notin {"TX", "SFLUSHRX_TX"}
        /\ spi_pc' = "continueTx_check" => msg.cmd = "SRFOFF"
    BY <1>0, <1>1 DEF pump_msg, TypeOK, TxMessages, CfgMessages, Message
  <2>3. Phase' = Phase /\ Taken' = Taken
    BY <2>1, <2>2 DEF Phase, Taken
  <2>4. nrx' = nrx
    BY <1>1 DEF pump_msg, SRFOFF, SRXON, SFLUSHTX, TXBUF_STXON, chipVars
  <2>5. SUFFICES /\ Fifo(rxfifo', rf', Phase) /\ Ids(rxfifo', Taken, nrx)
                 /\ msg.cmd = "SRFOFF" => rf' = "off" /\ rxfifo' = <<>>
    BY <2>1, <2>2, <2>3, <2>4 DEF RxPathInv, FifoInv, OrderInv, QuietInv
  <2>6. CASE msg.cmd \in {"SRXON", "SRFOFF"}
    <3>1. rxfifo = <<>>
      BY <1>1, <2>6 DEF CalmStep, Switching
    <3>2. rxfifo' = rxfifo /\ rf' = IF msg.cmd = "SRFOFF" THEN "off" ELSE "listen"
      BY <1>1, <2>6 DEF pump_msg, SRFOFF, SRXON
    <3>3. QED
      BY <1>0, <3>1, <3>2, FifoEmpty
  <2>7. CASE msg.cmd \in {"TX", "SFLUSHRX_TX"}
    <3>1. rxfifo = <<>>
      BY <2>1, <2>7 DEF RxPathInv, QuietInv
    <3>2. rxfifo' = <<>> /\ rf' = "cal"
      BY <1>1, <2>7, <3>1 DEF pump_msg, TXBUF_STXON
    <3>3. QED
      BY <1>0, <2>7, <3>1, <3>2, FifoEmpty
  <2>8. CASE msg.cmd \notin {"SRXON", "SRFOFF", "TX", "SFLUSHRX_TX"}
    <3>1. rxfifo' = rxfifo /\ (rf' = rf \/ (rf = "uflow" /\ rf' = "listen"))
      BY <1>1, <2>8 DEF pump_msg, SFLUSHTX, chipVars
    <3>2. Fifo(rxfifo', rf', Phase)
      BY <1>0, <3>1 DEF Fifo
    <3>3. QED
      BY <1>0, <2>8, <3>1, <3>2
  <2>9. QED
    BY <2>6, <2>7, <2>8
<1>2. CASE pump_rest
  <2>1. spi_pc' = "continueTx" /\ spi_pc = "mid"
    BY <1>0, <1>2 DEF pump_rest, LockInv
  <2>2. UNCHANGED <<rf, rxfifo, nrx, rx_in_buf, rx_buf_r, msg, rx_msg, spiq>>
    BY <1>2 DEF pump_rest, TXBUF_rest, msgs
  <2>3. QED
    BY <2>1, <2>2, IdlePath DEF Phase
<1>3. CASE pump_rx_msg
  <2>1. /\ HasRx(spiq) /\ ~HasRx(spiq') /\ (HasMsg(spiq') <=> HasMsg(spiq))
        /\ UNCHANGED <<msg, rx_buf_r>> /\ spi_pc = "idle" /\ spi_pc' = rx_msg.complete
    BY <1>0, <1>3, PopRx DEF pump_rx_msg, pump
  <2>2. rx_msg.cmd \in {"RXBUF_len", "RXBUF_data", "SFLUSHRX"}
    BY <1>0 DEF TypeOK, RxMessages, Message
  <2>3. CASE rx_msg.cmd = "RXBUF_len"
    <3>1. spi_pc' = "continueRx" /\ Phase = "asking" /\ Phase' = "reading"
      BY <1>0, <2>1, <2>3 DEF Phase, TypeOK, RxMessages, Message
    <3>2. PICK val \in -1..MaxRx : RXBUF_len(val) /\ rx_in_buf' = val
      BY <1>3, <2>3 DEF pump_rx_msg
    <3>3. /\ rxfifo # <<>> /\ Head(rxfifo).got = "none" /\ Head(rxfifo).id \in 1..MaxRx
          /\ Fifo([rxfifo EXCEPT ![1].got = "len"], rf, "reading")
          /\ Ids([rxfifo EXCEPT ![1].got = "len"], Taken, nrx)
      BY <1>0, <3>1, FifoLen
    <3>4. /\ rxfifo' = [rxfifo EXCEPT ![1].got = "len"]
          /\ rx_in_buf' = Head(rxfifo).id /\ rf' = rf /\ nrx' = nrx
      BY <3>2, <3>3 DEF RXBUF_len
    <3>5. Taken' = Taken /\ rx_in_buf' # TooLong
      BY <2>1, <3>1, <3>3, <3>4 DEF Taken, TooLong
    <3>6. QED
      BY <2>1, <3>1, <3>3, <3>4, <3>5 DEF RxPathInv, FifoInv, OrderInv, QuietInv
  <2>4. CASE rx_msg.cmd = "RXBUF_data"
    <3>1. spi_pc' = "finishRx" /\ Phase = "reading" /\ Phase' = "none"
      BY <1>0, <2>1, <2>4 DEF Phase, TypeOK, RxMessages, Message
    <3>2. PICK val \in -1..MaxRx : RXBUF_data(val) /\ rx_in_buf' = val
      BY <1>3, <2>4 DEF pump_rx_msg
    <3>3. /\ rxfifo # <<>> /\ Head(rxfifo).got = "len" /\ Head(rxfifo).full
          /\ Fifo(Tail(rxfifo), rf, "none")
          /\ Ids(Tail(rxfifo), Head(rxfifo).id, nrx)
          /\ Taken < Head(rxfifo).id /\ Head(rxfifo).id <= nrx
      BY <1>0, <3>1, FifoTake
    <3>4. /\ rxfifo' = Tail(rxfifo) /\ rx_in_buf' = Head(rxfifo).id
          /\ rf' = rf /\ nrx' = nrx
      BY <3>2, <3>3 DEF RXBUF_data
    <3>5. Taken' = Head(rxfifo).id /\ Taken = rx_buf_r
      BY <2>1, <3>1, <3>4 DEF Taken
    <3>6. QED
      BY <2>1, <3>1, <3>3, <3>4, <3>5 DEF RxPathInv, FifoInv, OrderInv, QuietInv
  <2>5. CASE rx_msg.cmd = "SFLUSHRX"
    <3>1. spi_pc' \in {"continueFlushRx", "completeFlushRx"} /\ Phase' = "none"
      BY <1>0, <2>1, <2>5 DEF Phase, TypeOK, RxMessages, Message
    <3>2. /\ rxfifo' = <<>> /\ rf' = (IF rf = "rx" THEN "listen" ELSE rf)
          /\ nrx' = nrx /\ rx_in_buf' = rx_in_buf
      BY <1>3, <2>5 DEF pump_rx_msg, SFLUSHRX
    <3>3. Fifo(rxfifo', rf', "none") /\ Ids(rxfifo', Taken', nrx')
      BY <3>2, FifoEmpty
    <3>4. QED
      BY <2>1, <3>1, <3>2, <3>3 DEF RxPathInv, FifoInv, OrderInv, QuietInv
  <2>6. QED
    BY <2>2, <2>3, <2>4, <2>5
<1>4. QED
  BY <1>1, <1>2, <1>3 DEF Pump

\* So do the callbacks of the receive engine.
LEMMA RxCallbackPath ==
  ASSUME IInv, RxPathInv,
         continueRx \/ continueFlushRx \/ clear_pending_rx \/ finishRx \/ rx_done
           \/ finishRx_check
  PROVE  RxPathInv'
<1>0. TypeOK /\ Valid(spiq) /\ LockInv /\ RxInv /\ ~HasRx(spiq)
  BY DEF IInv, RxInv, RxPcs, continueRx, continueFlushRx, clear_pending_rx, finishRx,
       rx_done, finishRx_check
<1>1. /\ UNCHANGED <<rf, rxfifo, nrx, rx_in_buf, msg>>
      /\ finishRx \/ rx_buf_r' = rx_buf_r
      /\ spi_pc' \notin {"continueRx", "finishRx", "continueTx_check"}
  BY DEF continueRx, continueFlushRx, clear_pending_rx, finishRx, rx_done,
       finishRx_check, chipVars, bufs, msgs
<1>2. HasMsg(spiq') <=> HasMsg(spiq)
  <2>1. spiq' = spiq \/ spiq' = Append(spiq, "rx_msg")
    BY DEF continueRx, continueFlushRx, clear_pending_rx, finishRx, rx_done,
         finishRx_check, flushRx, spi_async_rx, msgs
  <2>2. QED
    BY <1>0, <2>1, PushRx
<1>3. CASE continueRx
  <2>1. rx_in_buf # TooLong /\ spi_pc = "continueRx" /\ Phase = "reading"
    BY <1>3 DEF RxPathInv, FifoInv, continueRx, Phase
  <2>2. rx_msg'.cmd = "RXBUF_data" /\ HasRx(spiq') /\ spi_pc' = "idle"
    BY <1>0, <1>3, <2>1, PushRx DEF continueRx, spi_async_rx, Message
  <2>3. Phase' = Phase
    BY <2>1, <2>2 DEF Phase
  <2>4. QED
    BY <1>1, <1>2, <1>3, <2>1, <2>2, <2>3, IdlePath DEF continueRx, finishRx
<1>4. CASE finishRx
  <2>1. /\ spi_pc = "finishRx" /\ spi_pc' = "rx_done" /\ rx_buf_r' = rx_in_buf
        /\ spiq' = spiq
    BY <1>4 DEF finishRx, msgs
  <2>2. Phase' = Phase /\ Taken' = Taken
    BY <1>0, <2>1 DEF Phase, Taken
  <2>3. /\ rx_buf_r \in 0..nrx /\ nrx \in Nat /\ rx_in_buf \in Int
        /\ rx_buf_r < rx_in_buf /\ rx_in_buf <= nrx
    BY <1>0, <2>1, BoundsAssumption DEF RxPathInv, OrderInv, TypeOK, ChipTypeOK
  <2>4. rx_buf_r' \in 0..nrx /\ rx_buf_r' > 0
    BY <2>1, <2>3
  <2>5. QED
    BY <1>1, <1>2, <2>1, <2>2, <2>4 DEF RxPathInv, FifoInv, OrderInv, QuietInv
<1>5. CASE continueFlushRx \/ clear_pending_rx \/ rx_done \/ finishRx_check
  <2>1. /\ spi_pc \notin {"continueRx", "finishRx"}
        /\ spi_pc' \in {"idle", "fifo_check", "ack_spin", "clear_pending"}
    BY <1>5 DEF continueFlushRx, clear_pending_rx, rx_done, finishRx_check
  <2>2. HasRx(spiq') => rx_msg'.cmd = "SFLUSHRX"
    BY <1>0, <1>5 DEF continueFlushRx, clear_pending_rx, rx_done, finishRx_check,
         flushRx, spi_async_rx, msgs, Message
  <2>3. Phase = "none" /\ Phase' = "none"
    BY <1>0, <2>1, <2>2 DEF Phase
  <2>4. rx_buf_r' = rx_buf_r
    BY <1>1, <2>1 DEF finishRx
  <2>5. QED
    BY <1>1, <1>2, <2>1, <2>3, <2>4, IdlePath
<1>6. QED
  BY <1>3, <1>4, <1>5

\* So do the interrupt handlers; FIFOP makes the engine ask for the oldest frame.
LEMMA IrqPath ==
  ASSUME IInv, RxPathInv, SfdIrq \/ FifopIrq
  PROVE  RxPathInv'
<1>0. TypeOK /\ Valid(spiq) /\ RxInv /\ rxfifo \in Seq(RxEntry)
  BY DEF IInv, TypeOK, ChipTypeOK
<1>1. UNCHANGED <<rf, rxfifo, nrx, rx_in_buf, rx_buf_r, spi_pc, msg>>
  BY DEF SfdIrq, sfd_handler, sfd_occurred, sfd_unlock, sfd_tx_done, FifopIrq,
       fifop_handler, fifop_occurred, chipVars, bufs, msgs
<1>2. CASE fifop_occurred /\ FIFOP /\ ~pending_rx
  <2>1. ~HasRx(spiq) /\ Phase = "none"
    BY <1>0, <1>2 DEF RxInv, RxPcs, Phase
  <2>2. /\ HasRx(spiq') /\ (HasMsg(spiq') <=> HasMsg(spiq))
        /\ rx_msg'.cmd = "RXBUF_len"
    BY <1>0, <1>2, <2>1, PushRx DEF fifop_occurred, spi_async_rx, Message
  <2>3. Phase' = "asking"
    BY <1>0, <1>1, <1>2, <2>2 DEF Phase, RxInv, RxPcs
  <2>4. Fifo(rxfifo, rf, "asking")
    BY <1>0, <1>2, <2>1, FifoAsk DEF RxPathInv, FifoInv, FIFOP
  <2>5. Taken' = Taken
    BY <1>1 DEF Taken
  <2>6. QED
    BY <1>1, <2>2, <2>3, <2>4, <2>5 DEF RxPathInv, FifoInv, OrderInv, QuietInv
<1>3. CASE ~ (fifop_occurred /\ FIFOP /\ ~pending_rx)
  <2>1. UNCHANGED <<rx_msg, spiq>>
    BY <1>3 DEF SfdIrq, sfd_handler, sfd_occurred, sfd_unlock, sfd_tx_done, FifopIrq,
         fifop_handler, fifop_occurred, msgs
  <2>2. Phase' = Phase
    BY <1>1, <2>1 DEF Phase
  <2>3. QED
    BY <1>1, <2>1, <2>2, IdlePath
<1>4. QED
  BY <1>2, <1>3

\* So do the configuration calls, when a reset finds the FIFO empty.
LEMMA ConfigPath ==
  ASSUME IInv, RxPathInv, CalmStep,
         (\E op \in Ops : ioctl(op)) \/ ConfigStep \/ spi_complete
  PROVE  RxPathInv'
<1>0. TypeOK /\ Valid(spiq) /\ LockInv /\ RxInv
  BY DEF IInv
<1>1. CASE (\E op \in Ops : ioctl(op)) \/ radio_lock_config \/ config_return
  <2>1. UNCHANGED <<chipVars, msgs, bufs, spi_pc>>
    BY <1>1 DEF ioctl, radio_lock_config, config_return
  <2>2. QED
    BY <2>1, IdlePath DEF chipVars, msgs, bufs, Phase
<1>2. CASE config_issue
  <2>1. HasRx(spiq') <=> HasRx(spiq)
    BY <1>0, <1>2, PushMsg, MsgFree DEF config_issue, spi_async_msg
  <2>2. msg'.cmd \in CfgCmds
    BY <1>2 DEF config_issue, spi_async_msg, Message
  <2>3. UNCHANGED <<chipVars, rx_msg, bufs, spi_pc>>
    BY <1>2 DEF config_issue
  <2>4. Phase' = Phase
    BY <2>1, <2>3 DEF Phase
  <2>5. QED
    BY <2>2, <2>3, <2>4, IdlePath DEF chipVars, bufs, CfgCmds
<1>3. CASE config_reset
  <2>1. rxfifo = <<>>
    BY <1>3 DEF CalmStep, Switching
  <2>2. rxfifo' = <<>> /\ rf' = "off" /\ nrx' = nrx
    BY <1>3 DEF config_reset, RESET
  <2>3. UNCHANGED <<msgs, bufs, spi_pc>>
    BY <1>3 DEF config_reset
  <2>4. Phase' = Phase /\ Taken' = Taken
    BY <2>3 DEF msgs, bufs, Phase, Taken
  <2>5. Phase = "none"
    BY <2>1, FifoEmpty DEF RxPathInv, FifoInv
  <2>6. Fifo(rxfifo', rf', Phase')
    BY <2>2, <2>4, <2>5, FifoEmpty
  <2>7. QED
    BY <2>1, <2>2, <2>3, <2>4, <2>6 DEF msgs, bufs, RxPathInv, FifoInv, OrderInv, QuietInv
<1>4. CASE spi_complete
  <2>1. UNCHANGED <<chipVars, msgs, bufs>> /\ spi_pc = "spi_complete" /\ spi_pc' = "idle"
    BY <1>4 DEF spi_complete
  <2>2. QED
    BY <2>1, IdlePath DEF chipVars, msgs, bufs, Phase
<1>5. QED
  BY <1>1, <1>2, <1>3, <1>4 DEF ConfigStep

\* Every step in which the receiver is not switched over a frame preserves them.
LEMMA RxPathInduction ==
  ASSUME IInv, RxPathInv, [Next]_vars, [CalmStep]_vars
  PROVE  RxPathInv'
<1>1. CASE UNCHANGED vars
  BY <1>1, IdlePath DEF vars, chipVars, radioVars, msgs, bufs, Phase
<1>2. CASE Next /\ CalmStep
  BY <1>2, AirPath, TxPath, PumpPath, RxCallbackPath, IrqPath, ConfigPath
     DEF Next, Callback, IInv
<1>3. QED
  BY <1>1, <1>2

\* They hold initially.
LEMMA RxPathInit == Init => RxPathInv
<1> SUFFICES ASSUME Init PROVE RxPathInv
  OBVIOUS
<1>1. ~HasRx(spiq) /\ ~HasMsg(spiq) /\ spi_pc = "idle"
  BY DEF Init, HasRx, HasMsg, Has
<1>2. rxfifo = <<>> /\ rf = "off" /\ nrx = 0 /\ rx_buf_r = 0
  BY DEF Init, ChipInit, Junk
<1>3. Phase = "none"
  BY <1>1 DEF Phase
<1>4. QED
  BY <1>1, <1>2, <1>3, FifoEmpty DEF RxPathInv, FifoInv, OrderInv, QuietInv

\* They hold always, as long as the receiver is switched over an empty FIFO.
LEMMA RxPathAlways ==
  ASSUME Ops \subseteq LockedOps
  PROVE  Spec /\ Calm => [](IInv /\ RxPathInv)
<1>1. Init => IInv /\ RxPathInv
  BY InitInductive, RxPathInit
<1>2. (IInv /\ RxPathInv) /\ [Next]_vars /\ [CalmStep]_vars => (IInv /\ RxPathInv)'
  BY Induction, RxPathInduction
<1>3. QED
  BY <1>1, <1>2, PTL DEF Spec, Calm

\* The invariant puts a received frame in rx_buf_r when rx_done is called.
LEMMA PathIsIntact == IInv /\ RxPathInv => RxIntact
BY DEF RxPathInv, OrderInv, RxIntact, Junk

\* Only finishRx leads to rx_done, with a frame younger than the last one.
LEMMA PathIsInOrder ==
  ASSUME IInv, RxPathInv, [Next]_vars
  PROVE  spi_pc' = "rx_done" /\ spi_pc # "rx_done" => rx_buf_r' > rx_buf_r
<1> SUFFICES ASSUME spi_pc' = "rx_done", spi_pc # "rx_done"
             PROVE  rx_buf_r' > rx_buf_r
  OBVIOUS
<1>0. TypeOK /\ LockInv
  BY DEF IInv
<1>1. ~Pump
  <2>1. msg.complete # "rx_done" /\ rx_msg.complete # "rx_done"
    BY <1>0 DEF TypeOK, TxMessages, CfgMessages, RxMessages, Message
  <2>2. QED
    BY <2>1 DEF Pump, pump_msg, pump_rest, pump_rx_msg
<1>2. finishRx
  BY <1>1 DEF Next, Caller, Callback, SfdIrq, FifopIrq, ConfigStep, Air,
       radio_tx_call, radio_tx, continueTx_check, continueTx, flushTx, tx_unlock_spi,
       spi_unlock, spi_tx_done, continueRx, continueFlushRx, clear_pending_rx, rx_done,
       radio_tx_ack, finishRx_check, spi_complete, sfd_handler, sfd_occurred,
       sfd_unlock, sfd_tx_done, fifop_handler, fifop_occurred, ioctl,
       radio_lock_config, config_issue, config_reset, config_return, vars, radioVars
<1>3. rx_buf_r' = rx_in_buf /\ rx_buf_r < rx_in_buf
  BY <1>2 DEF finishRx, RxPathInv, OrderInv
<1>4. QED
  BY <1>0, <1>3, BoundsAssumption DEF TypeOK

\* What rx_done gets is a received frame, with any number of frames,
\* transmissions, acknowledgements and locked configuration calls, as long as
\* the receiver is never switched over a frame.
THEOREM RxIntactWhenCalm ==
  ASSUME Ops \subseteq LockedOps PROVE Spec /\ Calm => []RxIntact
BY RxPathAlways, PathIsIntact, PTL

\* Under the same condition frames are handed up in the order of their arrival
\* and none twice.
THEOREM RxInOrderWhenCalm ==
  ASSUME Ops \subseteq LockedOps PROVE Spec /\ Calm => RxInOrder
<1>1. (IInv /\ RxPathInv) /\ [Next]_vars
        => [spi_pc' = "rx_done" /\ spi_pc # "rx_done" => rx_buf_r' > rx_buf_r]_vars
  BY PathIsInOrder
<1>2. QED
  BY <1>1, RxPathAlways, PTL DEF Spec, RxInOrder

-----------------------------------------------------------------------------
(* A radio that is configured once and never transmits satisfies Calm.     *)

\* The receiver is off and nothing has arrived
Dark == rf = "off" /\ rxfifo = <<>>

\* The receiver stays dark until the one configuration call turns it on, which
\* is the last thing that call does to the chip.
OnceInv ==
  /\ ~sack_busy
  /\ adm_pc # "idle" => ncfg # 0
  /\ HasMsg(spiq) /\ msg.cmd = "SRXON" => adm_todo = <<"unlock">>
  /\ \/ Dark
     \/ ncfg # 0 /\ ~HasMsg(spiq) /\ (adm_pc = "idle" \/ adm_todo = <<"unlock">>)

\* Nothing is transmitted, so msg is a configuration command and no callback of
\* the transmit engine runs.
LEMMA OnlyConfig ==
  ASSUME IInv, OnceInv
  PROVE  /\ radio_state \notin TxStates
         /\ spi_pc \notin TxPcs \cup {"completeTx", "tx_done", "tx_failed", "ack_spin"}
         /\ tx_pc = "idle" /\ sfd_pc \notin {"completeTx", "tx_done"}
         /\ HasMsg(spiq) => msg \in CfgMessages /\ msg.cmd \in CfgCmds /\ adm_pc = "wait"
<1>1. /\ TypeOK /\ LockInv /\ TokenInv /\ ~sack_busy
      /\ spi_pc \notin {"ack_spin", "tx_done", "tx_failed"}
      /\ radio_state \notin TxStates /\ tx_pc = "idle" /\ sfd_pc # "tx_done"
  BY DEF IInv, OnceInv, TokenInv, TypeOK
<1>2. /\ spi_pc \notin TxPcs \cup {"completeTx"} /\ sfd_pc # "completeTx"
      /\ HasMsg(spiq) => msg \in CfgMessages /\ adm_pc = "wait"
  BY <1>1 DEF LockInv, TxStates, TypeOK
<1>3. \A m \in CfgMessages : m.cmd \in CfgCmds
  BY DEF CfgMessages, Message
<1>4. QED
  BY <1>1, <1>2, <1>3

\* The chip is switched only while it is dark.
LEMMA OnceIsCalm == ASSUME IInv, OnceInv PROVE CalmStep
<1>1. CASE pump_msg
  <2>1. HasMsg(spiq)
    BY <1>1, PopMsg DEF IInv, pump_msg, pump
  <2>2. QED
    BY <2>1 DEF OnceInv, Dark, CalmStep
<1>2. CASE config_reset
  <2>1. adm_pc = "issue" /\ adm_todo # <<"unlock">>
    BY <1>2 DEF config_reset
  <2>2. QED
    BY <2>1 DEF OnceInv, Dark, CalmStep
<1>3. QED
  BY <1>1, <1>2 DEF CalmStep, Switching

\* Every step preserves OnceInv, when there are no transmissions and at most one
\* configuration call.
LEMMA OnceInduction ==
  ASSUME Ops \subseteq LockedOps, MaxTx = 0, MaxCfg <= 1,
         IInv, OnceInv, Next \/ UNCHANGED vars
  PROVE  OnceInv'
<1> USE DEF OnceInv, Dark
<1>0. /\ TypeOK /\ Valid(spiq) /\ LockInv /\ ScriptInv /\ RxInv
      /\ ntx = 0 /\ ncfg \in Nat /\ MaxCfg \in Nat
  BY BoundsAssumption, RadioAssumption DEF IInv, TypeOK
<1>1. CASE Air \/ UNCHANGED vars
  <2>1. Dark => Dark'
    BY <1>1 DEF Air, RxStart, RxEnd, TxStart, TxEnd, TxUnderflow, vars, chipVars
  <2>2. UNCHANGED <<sack_busy, adm_pc, adm_todo, ncfg, msg, spiq>>
    BY <1>1 DEF Air, vars, radioVars, msgs, procs
  <2>3. QED
    BY <2>1, <2>2
<1>2. CASE Caller \/ radio_tx_ack
  BY <1>0, <1>2, OnlyConfig DEF Caller, radio_tx_call, radio_tx, radio_tx_ack
<1>3. CASE pump_msg
  <2>1. HasMsg(spiq) /\ ~HasMsg(spiq')
    BY <1>0, <1>3, PopMsg DEF pump_msg, pump
  <2>2. Dark /\ msg.cmd \in CfgCmds /\ adm_pc = "wait"
    BY <2>1, OnlyConfig
  <2>3. msg.cmd # "SRXON" => Dark'
    BY <1>3, <2>2 DEF pump_msg, CfgCmds, SRFOFF, chipVars
  <2>4. UNCHANGED <<sack_busy, adm_pc, adm_todo, ncfg>>
    BY <1>3 DEF pump_msg, pump, procs
  <2>5. QED
    BY <2>1, <2>2, <2>3, <2>4
<1>4. CASE pump_rest \/ continueTx_check \/ continueTx \/ spi_unlock \/ spi_tx_done
  BY <1>4, OnlyConfig DEF pump_rest, continueTx_check, continueTx, spi_unlock,
       spi_tx_done, TxPcs
<1>5. CASE pump_rx_msg
  <2>1. HasMsg(spiq') <=> HasMsg(spiq)
    BY <1>0, <1>5, PopRx DEF pump_rx_msg, pump
  <2>2. rx_msg.cmd \in {"RXBUF_len", "RXBUF_data", "SFLUSHRX"}
    BY <1>0 DEF TypeOK, RxMessages, Message
  <2>3. Dark => Dark'
    BY <1>5, <2>2 DEF pump_rx_msg, RXBUF_len, RXBUF_data, SFLUSHRX
  <2>4. UNCHANGED <<sack_busy, adm_pc, adm_todo, ncfg, msg>>
    BY <1>5 DEF pump_rx_msg, pump, procs
  <2>5. QED
    BY <2>1, <2>3, <2>4
<1>6. CASE \/ continueRx \/ continueFlushRx \/ clear_pending_rx \/ finishRx \/ rx_done
           \/ finishRx_check \/ FifopIrq
  <2>1. spiq' = spiq \/ (~HasRx(spiq) /\ spiq' = Append(spiq, "rx_msg"))
    BY <1>0, <1>6 DEF continueRx, continueFlushRx, clear_pending_rx, finishRx, rx_done,
         finishRx_check, flushRx, spi_async_rx, FifopIrq, fifop_handler,
         fifop_occurred, msgs, RxInv, RxPcs
  <2>2. HasMsg(spiq') <=> HasMsg(spiq)
    BY <1>0, <2>1, PushRx
  <2>3. UNCHANGED <<rf, rxfifo, sack_busy, adm_pc, adm_todo, ncfg, msg>>
    BY <1>0, <1>6 DEF continueRx, continueFlushRx, clear_pending_rx, finishRx, rx_done,
         finishRx_check, FifopIrq, fifop_handler, fifop_occurred, chipVars, msgs, procs
  <2>4. QED
    BY <2>2, <2>3
<1>7. CASE SfdIrq
  BY <1>7, OnlyConfig DEF SfdIrq, sfd_handler, sfd_occurred, sfd_unlock, sfd_tx_done,
       chipVars, msgs, procs
<1>8. CASE \E op \in Ops : ioctl(op)
  <2>1. ncfg = 0 /\ ncfg' # 0 /\ Dark /\ adm_pc = "idle"
    BY <1>0, <1>8 DEF ioctl
  <2>2. ~HasMsg(spiq)
    BY <2>1, OnlyConfig
  <2>3. UNCHANGED <<rf, rxfifo, sack_busy, msg, spiq>>
    BY <1>8 DEF ioctl, chipVars, msgs
  <2>4. QED
    BY <2>1, <2>2, <2>3
<1>9. CASE radio_lock_config
  BY <1>9 DEF radio_lock_config, chipVars, msgs
<1>10. CASE config_issue
  <2>1. adm_todo # <<"unlock">> /\ Dark
    BY <1>10 DEF config_issue, CfgCmds
  <2>2. adm_todo \in Suffixes /\ Head(adm_todo) \in CfgCmds
    BY <1>0, <1>10 DEF ScriptInv, config_issue
  <2>3. Head(adm_todo) = "SRXON" => Tail(adm_todo) = <<"unlock">>
    <3>1. Head(adm_todo) = "SRXON" => adm_todo = <<"SRXON", "unlock">>
      BY <2>2 DEF Suffixes
    <3>2. Tail(<<"SRXON", "unlock">>) = <<"unlock">>
      OBVIOUS
    <3>3. QED
      BY <3>1, <3>2
  <2>4. msg'.cmd = Head(adm_todo) /\ adm_todo' = Tail(adm_todo)
    BY <1>10 DEF config_issue, spi_async_msg, Message
  <2>5. UNCHANGED <<rf, rxfifo, sack_busy, ncfg>> /\ adm_pc = "issue"
    BY <1>10 DEF config_issue, chipVars
  <2>6. QED
    BY <2>1, <2>3, <2>4, <2>5
<1>11. CASE config_reset
  <2>1. Dark' /\ adm_pc = "issue" /\ UNCHANGED <<sack_busy, adm_pc, ncfg, spiq>>
    BY <1>11 DEF config_reset, RESET, msgs
  <2>2. ~HasMsg(spiq)
    BY <2>1, MsgFree
  <2>3. QED
    BY <2>1, <2>2
<1>12. CASE config_return
  <2>1. ~HasMsg(spiq) /\ adm_pc = "issue"
    BY <1>12, MsgFree DEF config_return
  <2>2. UNCHANGED <<rf, rxfifo, sack_busy, ncfg, spiq>> /\ adm_pc' = "idle"
    BY <1>12 DEF config_return, chipVars, msgs
  <2>3. QED
    BY <2>1, <2>2
<1>13. CASE spi_complete
  <2>1. ~HasMsg(spiq) /\ adm_pc = "wait"
    BY <1>0, <1>13 DEF spi_complete, LockInv
  <2>2. UNCHANGED <<rf, rxfifo, sack_busy, ncfg, spiq, adm_todo>>
    BY <1>13 DEF spi_complete, chipVars, msgs
  <2>3. QED
    BY <2>1, <2>2
<1>14. QED
  BY <1>1, <1>2, <1>3, <1>4, <1>5, <1>6, <1>7, <1>8, <1>9, <1>10, <1>11, <1>12, <1>13
     DEF Next, Pump, Callback, ConfigStep

\* Such a radio is calm.
LEMMA OnceMeansCalm ==
  ASSUME Ops \subseteq LockedOps, MaxTx = 0, MaxCfg <= 1
  PROVE  Spec => Calm
<1>1. Init => IInv /\ OnceInv
  <2> SUFFICES ASSUME Init PROVE OnceInv
    BY InitInductive
  <2>1. ~HasMsg(spiq)
    BY DEF Init, HasMsg, Has
  <2>2. QED
    BY <2>1 DEF Init, ChipInit, OnceInv, Dark
<1>2. (IInv /\ OnceInv) /\ [Next]_vars => (IInv /\ OnceInv)'
  BY Induction, OnceInduction
<1>3. (IInv /\ OnceInv) /\ [Next]_vars => [CalmStep]_vars
  BY OnceIsCalm
<1>4. QED
  BY <1>1, <1>2, <1>3, PTL DEF Spec, Calm

\* A radio that is configured once and only receives hands up received frames
\* only.  The bounds say no more than that: a second call may switch the
\* receiver over a frame, and so may a transmission.
THEOREM RxIntactHolds ==
  ASSUME Ops \subseteq LockedOps, MaxTx = 0, MaxCfg <= 1
  PROVE  Spec => []RxIntact
BY OnceMeansCalm, RxIntactWhenCalm, PTL

\* It hands them up in the order of their arrival and none twice.
THEOREM RxInOrderHolds ==
  ASSUME Ops \subseteq LockedOps, MaxTx = 0, MaxCfg <= 1
  PROVE  Spec => RxInOrder
BY OnceMeansCalm, RxInOrderWhenCalm, PTL
=============================================================================
