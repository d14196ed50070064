------------------------- MODULE RadioServiceProofs -------------------------
(***************************************************************************)
(* Radio implements RadioService, for any number of frames and calls, as   *)
(* long as the configuration calls are the ones that take the radio lock.  *)
(***************************************************************************)
EXTENDS RadioProofs

\* A frame that is to be sent or is being sent has a number
SentInv ==
  /\ tx_pc = "spin" \/ spi_pc = "ack_spin" => ntx \in 1..MaxTx
  /\ radio_state \in TxStates => tx_buf_r \in 1..MaxTx

ServiceInv == IInv /\ SentInv

\* The mapped variables as functions of the ones they are made from
AskedOf(tp, sp, n) == { <<"caller", f>> : f \in IF tp = "spin" THEN {n} ELSE {} }
                        \cup { <<"spi", f>> : f \in IF sp = "ack_spin" THEN {n} ELSE {} }
ReportOf(sp, dp) == { <<"spi", s>> : s \in IF sp = "tx_done" THEN {"success"}
                                           ELSE IF sp = "tx_failed" THEN {"failed"} ELSE {} }
                      \cup { <<"sfd", s>> : s \in IF dp = "tx_done" THEN {"success"} ELSE {} }
SendingOf(rs, b) == IF rs \in TxStates THEN b ELSE 0

SpiVisible == {"ack_spin", "tx_done", "tx_failed"}

\* The mapping, before and after a step.
LEMMA Mapping ==
  /\ Asked = AskedOf(tx_pc, spi_pc, ntx)
  /\ Asked' = AskedOf(tx_pc', spi_pc', ntx')
  /\ Report = ReportOf(spi_pc, sfd_pc)
  /\ Report' = ReportOf(spi_pc', sfd_pc')
  /\ Sending = SendingOf(radio_state, tx_buf_r)
  /\ Sending' = SendingOf(radio_state', tx_buf_r')
BY DEF Asked, AskedOf, Report, ReportOf, Sending, SendingOf

\* What the layer above is asking for, case by case.
LEMMA AskedCases ==
  ASSUME NEW tp, NEW sp, NEW n
  PROVE  /\ tp # "spin" /\ sp # "ack_spin" => AskedOf(tp, sp, n) = {}
         /\ tp = "spin" /\ sp # "ack_spin" => AskedOf(tp, sp, n) = {<<"caller", n>>}
         /\ tp # "spin" /\ sp = "ack_spin" => AskedOf(tp, sp, n) = {<<"spi", n>>}
BY Zenon DEF AskedOf

\* What is being reported to it, case by case.
LEMMA ReportCases ==
  ASSUME NEW sp, NEW dp
  PROVE  /\ sp \notin {"tx_done", "tx_failed"} /\ dp # "tx_done" => ReportOf(sp, dp) = {}
         /\ sp = "tx_done" /\ dp # "tx_done" => ReportOf(sp, dp) = {<<"spi", "success">>}
         /\ sp = "tx_failed" /\ dp # "tx_done" => ReportOf(sp, dp) = {<<"spi", "failed">>}
         /\ sp \notin {"tx_done", "tx_failed"} /\ dp = "tx_done"
              => ReportOf(sp, dp) = {<<"sfd", "success">>}
BY DEF ReportOf

\* A step that touches nothing the layer above sees is a stuttering step.
LEMMA Quiet ==
  ASSUME UNCHANGED <<tx_pc, ntx, tx_buf_r>>,
         spi_pc' = spi_pc \/ (spi_pc \notin SpiVisible /\ spi_pc' \notin SpiVisible),
         sfd_pc' = sfd_pc \/ (sfd_pc # "tx_done" /\ sfd_pc' # "tx_done"),
         radio_state' \in TxStates <=> radio_state \in TxStates
  PROVE  UNCHANGED Service!vars
<1>1. AskedOf(tx_pc', spi_pc', ntx') = AskedOf(tx_pc, spi_pc, ntx)
  BY DEF AskedOf, SpiVisible
<1>2. ReportOf(spi_pc', sfd_pc') = ReportOf(spi_pc, sfd_pc)
  BY ReportCases DEF SpiVisible
<1>3. SendingOf(radio_state', tx_buf_r') = SendingOf(radio_state, tx_buf_r)
  BY DEF SendingOf
<1>4. QED
  BY <1>1, <1>2, <1>3, Mapping DEF Service!vars

-----------------------------------------------------------------------------
(* The steps that the layer above sees.                                    *)

\* A call of radio_tx, from above or for an acknowledgement: Tx.
LEMMA TxStep ==
  ASSUME ServiceInv,
         radio_tx_call \/ (rx_done /\ spi_pc' = "ack_spin")
  PROVE  Service!Next
<1>1. /\ ~sack_busy /\ ntx' = ntx + 1 /\ ntx < MaxTx
      /\ UNCHANGED <<radio_state, tx_buf_r, sfd_pc>>
  BY DEF radio_tx_call, rx_done, bufs, irqPcs
<1>2. /\ tx_pc # "spin" /\ spi_pc \notin SpiVisible /\ radio_state \notin TxStates
      /\ sfd_pc # "tx_done"
  BY <1>1 DEF ServiceInv, IInv, TokenInv, SpiVisible
<1>3. Asked = {} /\ Report = {} /\ Sending = 0 /\ Sending' = 0
  <2>1. Asked = {}
    BY <1>2, Mapping, AskedCases DEF SpiVisible
  <2>2. Report = {}
    BY <1>2, Mapping, ReportCases DEF SpiVisible
  <2>3. QED
    BY <1>1, <1>2, <2>1, <2>2, Mapping DEF SendingOf
<1>4. ntx' \in 1..MaxTx
  BY <1>1, BoundsAssumption DEF ServiceInv, IInv, TypeOK
<1>5. Report' = {}
  <2>1. spi_pc' \notin {"tx_done", "tx_failed"}
    BY <1>2 DEF radio_tx_call, rx_done, SpiVisible
  <2>2. QED
    BY <1>1, <1>2, <2>1, Mapping, ReportCases
<1>6. \E c \in {"caller", "spi"} : Asked' = {<<c, ntx'>>}
  <2>1. CASE radio_tx_call
    <3>1. tx_pc' = "spin" /\ spi_pc' # "ack_spin"
      BY <1>2, <2>1 DEF radio_tx_call, SpiVisible
    <3>2. QED
      BY <3>1, Mapping, AskedCases
  <2>2. CASE rx_done /\ spi_pc' = "ack_spin"
    <3>1. tx_pc' # "spin" /\ spi_pc' = "ack_spin"
      BY <1>2, <2>2 DEF rx_done
    <3>2. QED
      BY <3>1, Mapping, AskedCases
  <2>3. QED
    BY <2>1, <2>2
<1>7. PICK c \in {"caller", "spi"} : Asked' = {<<c, ntx'>>}
  BY <1>6
<1>8. Service!Tx(c, ntx')
  BY <1>3, <1>5, <1>7 DEF Service!Tx
<1>9. QED
  BY <1>4, <1>8 DEF Service!Next

\* The radio is locked for the frame and the frame copied: Accept.
LEMMA AcceptStep ==
  ASSUME ServiceInv, radio_tx \/ radio_tx_ack
  PROVE  Service!Next
<1>1. /\ radio_state = "IDLE" /\ radio_state' = "TX" /\ tx_buf_r' = ntx
      /\ UNCHANGED <<ntx, sfd_pc>>
  BY DEF radio_tx, radio_tx_ack, lock_and_beginTx, irqPcs, procs
<1>2. /\ ntx \in 1..MaxTx
      /\ tx_pc = "spin" => spi_pc \notin SpiVisible
      /\ spi_pc = "ack_spin" => tx_pc # "spin"
      /\ sfd_pc # "tx_done"
  BY DEF radio_tx, radio_tx_ack, ServiceInv, SentInv, IInv, TokenInv, SpiVisible
<1>3. Report = {} /\ Report' = {}
  <2>1. spi_pc \notin {"tx_done", "tx_failed"} /\ spi_pc' \notin {"tx_done", "tx_failed"}
    BY <1>2 DEF radio_tx, radio_tx_ack, SpiVisible
  <2>2. QED
    BY <1>1, <1>2, <2>1, Mapping, ReportCases
<1>4. Sending = 0 /\ Sending' = ntx
  BY <1>1, Mapping DEF SendingOf, TxStates
<1>5. \E c \in {"caller", "spi"} : Asked = {<<c, ntx>>}
  BY <1>2, Mapping, AskedCases DEF radio_tx, radio_tx_ack, SpiVisible
<1>6. Asked' = {}
  BY <1>2, Mapping, AskedCases DEF radio_tx, radio_tx_ack, SpiVisible, procs
<1>7. PICK c \in {"caller", "spi"} : Asked = {<<c, ntx>>}
  BY <1>5
<1>8. Service!Accept(c, ntx)
  BY <1>3, <1>4, <1>6, <1>7 DEF Service!Accept
<1>9. QED
  BY <1>2, <1>8 DEF Service!Next

\* The radio is unlocked by the SPI callback or the SFD handler: Finish.
LEMMA FinishStep ==
  ASSUME ServiceInv, spi_unlock \/ sfd_unlock
  PROVE  Service!Next
<1>1. radio_state' = "IDLE" /\ UNCHANGED <<ntx, tx_pc, tx_buf_r>>
  BY DEF spi_unlock, sfd_unlock, bufs, procs
<1>2. radio_state \in TxStates
  BY DEF spi_unlock, sfd_unlock, ServiceInv, IInv, LockInv, TxPcs, TxStates
<1>3. tx_pc # "spin" /\ spi_pc \notin SpiVisible /\ sfd_pc # "tx_done"
  BY <1>2 DEF ServiceInv, IInv, TokenInv, SpiVisible
<1>4. Asked = {} /\ Asked' = {}
  BY <1>1, <1>3, Mapping, AskedCases DEF spi_unlock, sfd_unlock, SpiVisible
<1>5. Report = {}
  BY <1>3, Mapping, ReportCases DEF SpiVisible
<1>6. Sending # 0 /\ Sending' = 0
  BY <1>1, <1>2, Mapping DEF ServiceInv, SentInv, SendingOf, TxStates
<1>7. \E by \in {"spi", "sfd"}, status \in {"success", "failed"} :
        /\ status = "success" \/ by = "spi"
        /\ Report' = {<<by, status>>}
  BY <1>3, Mapping, ReportCases DEF spi_unlock, sfd_unlock, SpiVisible, irqPcs
<1>8. PICK by \in {"spi", "sfd"}, status \in {"success", "failed"} :
        /\ status = "success" \/ by = "spi"
        /\ Report' = {<<by, status>>}
  BY <1>7
<1>9. Service!Finish(by, status)
  BY <1>4, <1>5, <1>6, <1>8 DEF Service!Finish
<1>10. QED
  BY <1>9 DEF Service!Next

\* tx_done of the layer above is called: Deliver.
LEMMA DeliverStep ==
  ASSUME ServiceInv, spi_tx_done \/ sfd_tx_done
  PROVE  Service!Next
<1>1. UNCHANGED <<ntx, tx_pc, tx_buf_r, radio_state>>
  BY DEF spi_tx_done, sfd_tx_done, bufs
<1>2. spi_tx_done => sfd_pc # "tx_done" /\ sfd_pc' # "tx_done" /\ spi_pc' = "idle"
  BY DEF spi_tx_done, ServiceInv, IInv, TokenInv, irqPcs
<1>3. sfd_tx_done => /\ spi_pc \notin SpiVisible /\ spi_pc' = spi_pc /\ sfd_pc' = "idle"
  BY DEF sfd_tx_done, ServiceInv, IInv, TokenInv, SpiVisible
<1>4. Report # {} /\ Report' = {}
  <2>1. CASE spi_tx_done
    <3>1. Report # {}
      <4>1. spi_pc \in {"tx_done", "tx_failed"} /\ sfd_pc # "tx_done"
        BY <1>2, <2>1 DEF spi_tx_done
      <4>2. \/ ReportOf(spi_pc, sfd_pc) = {<<"spi", "success">>}
            \/ ReportOf(spi_pc, sfd_pc) = {<<"spi", "failed">>}
        BY <4>1, ReportCases
      <4>3. QED
        BY <4>2, Mapping
    <3>2. Report' = {}
      BY <1>2, <2>1, Mapping, ReportCases
    <3>3. QED
      BY <3>1, <3>2
  <2>2. CASE sfd_tx_done
    <3>1. Report # {}
      BY <1>3, <2>2, Mapping, ReportCases DEF sfd_tx_done, SpiVisible
    <3>2. Report' = {}
      BY <1>3, <2>2, Mapping, ReportCases DEF SpiVisible
    <3>3. QED
      BY <3>1, <3>2
  <2>3. QED
    BY <2>1, <2>2
<1>5. Asked' = Asked
  <2>1. AskedOf(tx_pc', spi_pc', ntx') = AskedOf(tx_pc, spi_pc, ntx)
    BY <1>1, <1>2, <1>3 DEF AskedOf, spi_tx_done
  <2>2. QED
    BY <2>1, Mapping
<1>6. Sending' = Sending
  BY <1>1, Mapping DEF SendingOf
<1>7. Service!Deliver
  BY <1>4, <1>5, <1>6 DEF Service!Deliver
<1>8. QED
  BY <1>7 DEF Service!Next

-----------------------------------------------------------------------------
(* The refinement.                                                         *)

\* Everything else the radio does is a stuttering step.
LEMMA OtherStep ==
  ASSUME ServiceInv,
         \/ Pump \/ FifopIrq \/ Air \/ UNCHANGED vars
         \/ (\E op \in Ops : ioctl(op)) \/ ConfigStep
         \/ continueTx_check \/ continueTx \/ continueRx \/ continueFlushRx
         \/ clear_pending_rx \/ finishRx \/ finishRx_check \/ spi_complete
         \/ (rx_done /\ spi_pc' # "ack_spin")
         \/ sfd_handler \/ sfd_occurred
  PROVE  UNCHANGED Service!vars
<1> USE DEF ServiceInv, IInv
<1>1. CASE pump_msg
  <2>1. msg.complete \notin SpiVisible
    BY DEF TypeOK, TxMessages, CfgMessages, Message, SpiVisible
  <2>2. QED
    BY <1>1, <2>1, Quiet DEF pump_msg, pump, SpiVisible, irqPcs, procs
<1>2. CASE pump_rest
  <2>1. spi_pc' = "continueTx"
    BY <1>2 DEF pump_rest, LockInv
  <2>2. QED
    BY <1>2, <2>1, Quiet DEF pump_rest, SpiVisible, irqPcs, procs
<1>3. CASE pump_rx_msg
  <2>1. rx_msg.complete \notin SpiVisible
    BY DEF TypeOK, RxMessages, Message, SpiVisible
  <2>2. QED
    BY <1>3, <2>1, Quiet DEF pump_rx_msg, pump, SpiVisible, irqPcs, procs
<1>4. CASE FifopIrq \/ sfd_handler
  BY <1>4, Quiet DEF FifopIrq, fifop_handler, fifop_occurred, sfd_handler, bufs, procs
<1>5. CASE sfd_occurred
  <2>1. radio_state' \in TxStates <=> radio_state \in TxStates
    BY <1>5 DEF sfd_occurred, tx_unlock_sfd, TxStates
  <2>2. QED
    BY <1>5, <2>1, Quiet DEF sfd_occurred, tx_unlock_sfd, bufs, procs
<1>6. CASE Air \/ UNCHANGED vars
  BY <1>6, Quiet DEF Air, vars, radioVars, bufs, irqPcs, procs
<1>7. CASE (\E op \in Ops : ioctl(op)) \/ ConfigStep
  <2>1. radio_state' \in TxStates <=> radio_state \in TxStates
    BY <1>7 DEF ioctl, ConfigStep, radio_lock_config, config_issue, config_reset,
         config_return, LockInv, TxStates
  <2>2. QED
    BY <1>7, <2>1, Quiet DEF ioctl, ConfigStep, radio_lock_config, config_issue,
         config_reset, config_return, bufs, irqPcs
<1>8. CASE continueTx_check \/ spi_complete
  BY <1>8, Quiet DEF continueTx_check, spi_complete, SpiVisible, bufs, irqPcs, procs
<1>9. CASE continueTx
  <2>1. radio_state' \in TxStates <=> radio_state \in TxStates
    BY <1>9 DEF continueTx, tx_unlock_spi, TxStates
  <2>2. spi_pc' \in {"idle", "completeTx"}
    BY <1>9 DEF continueTx, tx_unlock_spi, flushTx
  <2>3. QED
    BY <1>9, <2>1, <2>2, Quiet DEF continueTx, SpiVisible, bufs, irqPcs, procs
<1>10. CASE continueRx \/ continueFlushRx \/ clear_pending_rx \/ finishRx_check
  BY <1>10, Quiet DEF continueRx, continueFlushRx, clear_pending_rx, finishRx_check,
       SpiVisible, bufs, irqPcs, procs
<1>11. CASE finishRx \/ (rx_done /\ spi_pc' # "ack_spin")
  BY <1>11, Quiet DEF finishRx, rx_done, SpiVisible, bufs, irqPcs, procs
<1>12. QED
  BY <1>1, <1>2, <1>3, <1>4, <1>5, <1>6, <1>7, <1>8, <1>9, <1>10, <1>11 DEF Pump

\* Every step of the radio is a step of the service or leaves it alone.
LEMMA Simulation ==
  ASSUME ServiceInv, Next \/ UNCHANGED vars
  PROVE  Service!Next \/ UNCHANGED Service!vars
BY TxStep, AcceptStep, FinishStep, DeliverStep, OtherStep
   DEF Next, Caller, Callback, SfdIrq

\* A frame that is accepted is one that was asked for.
LEMMA SentInduction ==
  ASSUME ServiceInv, Next \/ UNCHANGED vars
  PROVE  SentInv'
<1> USE DEF ServiceInv, IInv, SentInv
<1>1. CASE radio_tx_call \/ rx_done
  <2>1. CASE ntx' = ntx
    BY <1>1, <2>1, BoundsAssumption DEF radio_tx_call, rx_done, bufs, TypeOK
  <2>2. CASE ntx' = ntx + 1
    BY <1>1, <2>2, BoundsAssumption DEF radio_tx_call, rx_done, bufs, TypeOK
  <2>3. QED
    BY <1>1, <2>1, <2>2 DEF radio_tx_call, rx_done
<1>2. CASE radio_tx \/ radio_tx_ack
  BY <1>2 DEF radio_tx, radio_tx_ack, lock_and_beginTx, TokenInv, procs
<1>3. CASE ~(radio_tx_call \/ rx_done \/ radio_tx \/ radio_tx_ack)
  <2>1. UNCHANGED <<ntx, tx_pc, tx_buf_r>>
    BY <1>3 DEF Next, Caller, Pump, Callback, SfdIrq, FifopIrq, ConfigStep, Air,
         pump_msg, pump_rest, pump_rx_msg, pump, continueTx_check, continueTx, spi_unlock,
         spi_tx_done, continueRx, continueFlushRx, clear_pending_rx, finishRx,
         finishRx_check, spi_complete, sfd_handler, sfd_occurred, sfd_unlock, sfd_tx_done,
         fifop_handler, fifop_occurred, ioctl, radio_lock_config, config_issue,
         config_reset, config_return, vars, radioVars, bufs, procs
  <2>2. radio_state' \in TxStates => radio_state \in TxStates
    BY <1>3 DEF Next, Caller, Pump, Callback, SfdIrq, FifopIrq, ConfigStep, Air,
         pump_msg, pump_rest, pump_rx_msg, pump, continueTx_check, continueTx,
         tx_unlock_spi, spi_unlock, spi_tx_done, continueRx, continueFlushRx,
         clear_pending_rx, finishRx, finishRx_check, spi_complete, sfd_handler,
         sfd_occurred, tx_unlock_sfd, sfd_unlock, sfd_tx_done, fifop_handler,
         fifop_occurred, ioctl, radio_lock_config, config_issue, config_reset,
         config_return, vars, radioVars, TxStates
  <2>3. spi_pc' = "ack_spin" => spi_pc = "ack_spin"
    <3>1. msg.complete # "ack_spin" /\ rx_msg.complete # "ack_spin"
      BY DEF TypeOK, TxMessages, CfgMessages, RxMessages, Message
    <3>2. QED
      BY <1>3, <3>1 DEF Next, Caller, Pump, Callback, SfdIrq, FifopIrq, ConfigStep, Air,
           pump_msg, pump_rest, pump_rx_msg, pump, continueTx_check, continueTx,
           tx_unlock_spi, flushTx, spi_unlock, spi_tx_done, continueRx, continueFlushRx,
           clear_pending_rx, finishRx, finishRx_check, spi_complete, sfd_handler,
           sfd_occurred, sfd_unlock, sfd_tx_done, fifop_handler, fifop_occurred, ioctl,
           radio_lock_config, config_issue, config_reset, config_return, vars, radioVars
  <2>4. QED
    BY <2>1, <2>2, <2>3
<1>4. QED
  BY <1>1, <1>2, <1>3

\* The radio keeps the contract of tx and tx_done with any number of frames,
\* transmissions, acknowledgements and locked configuration calls: every
\* behaviour of Radio is one of RadioService.
THEOREM Refinement == ASSUME Ops \subseteq LockedOps PROVE Spec => ImplementsService
<1>1. Init => ServiceInv
  BY InitInductive DEF Init, ServiceInv, SentInv, TxStates
<1>2. ServiceInv /\ [Next]_vars => ServiceInv'
  BY Induction, SentInduction DEF ServiceInv
<1>3. Init => Service!Init
  <2> SUFFICES ASSUME Init PROVE Service!Init
    OBVIOUS
  <2>1. tx_pc = "idle" /\ spi_pc = "idle" /\ sfd_pc = "idle" /\ radio_state = "IDLE"
    BY DEF Init
  <2>2. Asked = {}
    BY <2>1, Mapping, AskedCases
  <2>3. Report = {}
    BY <2>1, Mapping, ReportCases
  <2>4. Sending = 0
    BY <2>1 DEF Sending, TxStates
  <2>5. QED
    BY <2>2, <2>3, <2>4 DEF Service!Init
<1>4. ServiceInv /\ [Next]_vars => [Service!Next]_(Service!vars)
  BY Simulation
<1>5. QED
  BY <1>1, <1>2, <1>3, <1>4, PTL DEF Spec, ImplementsService, Service!Spec
=============================================================================
