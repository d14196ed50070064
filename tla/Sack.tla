-------------------------------- MODULE Sack --------------------------------
(***************************************************************************)
(* sack.c: software acknowledgements.  Below it is the radio, which is     *)
(* given here by what it promises (the properties of Radio): one frame at  *)
(* a time, one tx_done for it, from the SPI thread or the SFD interrupt.   *)
(***************************************************************************)
EXTENDS Calls, Packet

CONSTANTS
  Packets,    \* what the processes send, numbered from 1
  Dsn,        \* the sequence number the process has put into each of them
  AckReq,     \* those of them that ask for an acknowledgement
  Frames      \* what may arrive, numbered from 1

ASSUME PacketsAssumption ==
  /\ Packets \subseteq Nat \ {0}
  /\ Dsn \in [Packets -> 0..255]
  /\ AckReq \subseteq Packets
  /\ Frames \in Seq(MacFrame)

VARIABLES
  sack_state,
  sack_tx_buf,   \* cur_tx_buf
  radio,         \* the frame the radio is sending
  heard,         \* packets the radio has reported as sent
  acked          \* packets whose acknowledgement has arrived

sackVars == <<sack_state, sack_tx_buf>>
radioIfc == <<radio, heard>>

\* The buffer each of them is received in, and which are acknowledgements
RxBuf == [i \in 1..Len(Frames) |-> Encode(Frames[i])]
Acknowledges(f) == Frames[f].type = IEEE154_TYPE_ACK

NoPkt  == 0
AckPkt == -1      \* ack_buf
Uninit == -2      \* a buffer of kmalloc that nothing has been copied to

\* cc2520_packet_requires_ack_wait may find anything in such a buffer
MayWantAck(p)  == p \in AckReq \cup {Uninit}
MayWantNone(p) == p \notin AckReq
MayHaveDsn(p)  == IF p = Uninit THEN 0..255 ELSE {Dsn[p]}

SackTypeOK ==
  /\ sack_state \in {"IDLE", "TX", "TX_WAIT", "TX_ACK"}
  /\ sack_tx_buf \in Packets \cup {Uninit}
  /\ radio \in Packets \cup {NoPkt, AckPkt, Uninit}
  /\ heard \subseteq Packets
  /\ acked \subseteq Packets

SackInit ==
  /\ sack_state = "IDLE"
  /\ sack_tx_buf = Uninit
  /\ radio = NoPkt
  /\ heard = {}
  /\ acked = {}

-----------------------------------------------------------------------------
(* The radio.                                                              *)

radio_tx(c) ==
  /\ At(c, "radio_tx")
  /\ radio = NoPkt
  /\ radio' = Arg(c)
  /\ Return(c)
  /\ UNCHANGED <<armed, sackVars, heard, acked>>

\* A success is reported by whichever of SPI and SFD is last, a failure always
\* from the SPI thread.  A success needs the SFD handler to be free.
radio_done(c, status) ==
  /\ radio # NoPkt
  /\ c \in {"spi", "sfd"}
  /\ \/ status = SUCCESS /\ Idle("sfd")
     \/ status = FAILED /\ c = "spi"
  /\ Enter(c, "sack_tx_done", status)
  /\ radio' = NoPkt
  /\ heard' = IF status = SUCCESS THEN heard \cup ({radio} \cap Packets) ELSE heard
  /\ UNCHANGED <<armed, sackVars, acked>>

\* A frame arrives; an acknowledgement is that of a packet that was sent, and
\* carries its sequence number
radio_rx(f) ==
  /\ f \in 1..Len(Frames)
  /\ Enter("spi", "sack_rx_done", f)
  /\ \/ ~Acknowledges(f) /\ UNCHANGED acked
     \/ /\ Acknowledges(f)
        /\ \E p \in heard : Dsn[p] = Frames[f].dsn /\ acked' = acked \cup {p}
  /\ UNCHANGED <<armed, sackVars, radioIfc>>

-----------------------------------------------------------------------------
\* Spins until the layer is idle
sack_tx(c) ==
  /\ At(c, "sack_tx")
  /\ sack_state = "IDLE"
  /\ sack_state' = "TX"
  /\ sack_tx_buf' = Arg(c)
  /\ Then(c, <<Frame("radio_tx", Arg(c))>>)
  /\ UNCHANGED <<armed, radioIfc, acked>>

\* Mutant of sack_tx_done: the status is not passed on
sack_tx_done_ignoresStatus(c) ==
  /\ At(c, "sack_tx_done")
  /\ \/ /\ sack_state = "TX" /\ MayWantAck(sack_tx_buf)
        /\ sack_state' = "TX_WAIT"
        /\ hrtimer_start("sack_timer")
        /\ Return(c)
     \/ /\ sack_state = "TX" /\ MayWantNone(sack_tx_buf)
        /\ sack_state' = "IDLE"
        /\ Then(c, <<Frame("csma_tx_done", SUCCESS)>>)
        /\ UNCHANGED armed
     \/ /\ sack_state = "TX_ACK"
        /\ sack_state' = "IDLE"
        /\ Return(c)
        /\ UNCHANGED armed
  /\ UNCHANGED <<sack_tx_buf, radioIfc, acked>>

\* A packet that asks for an acknowledgement waits for it whatever the status.
\* In any other state the code logs an error and keeps sack_sl for good: the
\* context is stuck, which TxDoneExpected excludes.
sack_tx_done(c) ==
  /\ At(c, "sack_tx_done")
  /\ \/ /\ sack_state = "TX" /\ MayWantAck(sack_tx_buf)
        /\ sack_state' = "TX_WAIT"
        /\ hrtimer_start("sack_timer")
        /\ Return(c)
     \/ /\ sack_state = "TX" /\ MayWantNone(sack_tx_buf)
        /\ sack_state' = "IDLE"
        /\ Then(c, <<Frame("csma_tx_done", Arg(c))>>)
        /\ UNCHANGED armed
     \/ /\ sack_state = "TX_ACK"
        /\ sack_state' = "IDLE"
        /\ Return(c)
        /\ UNCHANGED armed
  /\ UNCHANGED <<sack_tx_buf, radioIfc, acked>>

\* Mutant of sack_rx_ack: any acknowledgement ends the wait
sack_rx_ack_anyDsn(c) ==
  /\ At(c, "sack_rx_done")
  /\ is_ack(RxBuf[Arg(c)])
  /\ IF sack_state = "TX_WAIT"
       THEN /\ sack_state' = "IDLE"
            /\ Then(c, <<Frame("sack_cancel", 0)>>)
       ELSE Return(c) /\ UNCHANGED sack_state
  /\ UNCHANGED <<armed, sack_tx_buf, radioIfc, acked>>

\* An acknowledgement with the number of the packet that waits ends the wait,
\* any other is dropped
sack_rx_ack(c) ==
  /\ At(c, "sack_rx_done")
  /\ LET buf == RxBuf[Arg(c)] IN
       /\ is_ack(buf)
       /\ \E n \in MayHaveDsn(sack_tx_buf) :
            IF sack_state = "TX_WAIT" /\ is_ack_to([dsn |-> n], buf)
              THEN /\ sack_state' = "IDLE"
                   /\ Then(c, <<Frame("sack_cancel", 0)>>)
              ELSE Return(c) /\ UNCHANGED sack_state
  /\ UNCHANGED <<armed, sack_tx_buf, radioIfc, acked>>

\* Mutant of sack_cancel: the timer is left running
sack_cancel_keepsTimer(c) ==
  /\ At(c, "sack_cancel")
  /\ Then(c, <<Frame("csma_tx_done", SUCCESS)>>)
  /\ UNCHANGED <<armed, sackVars, radioIfc, acked>>

\* The rest of it, after sack_sl is released
sack_cancel(c) ==
  /\ At(c, "sack_cancel")
  /\ hrtimer_cancel("sack_timer")
  /\ Then(c, <<Frame("csma_tx_done", SUCCESS)>>)
  /\ UNCHANGED <<sackVars, radioIfc, acked>>

\* Mutant of sack_rx_data: the acknowledgement is sent whatever the state
sack_rx_data_whenBusy(c) ==
  /\ At(c, "sack_rx_done")
  /\ LET buf == RxBuf[Arg(c)]
         up == Frame("unique_rx_done", Arg(c)) IN
       /\ ~is_ack(buf)
       /\ \/ /\ ~requires_ack(buf)
             /\ Then(c, <<up>>)
             /\ UNCHANGED sack_state
          \/ /\ requires_ack(buf)
             /\ sack_state' = "TX_ACK"
             /\ Then(c, <<Frame("radio_tx", AckPkt), up>>)
  /\ UNCHANGED <<armed, sack_tx_buf, radioIfc, acked>>

\* Any other frame is passed up, after the acknowledgement it may ask for; one
\* that asks for it while the layer is busy is dropped
sack_rx_data(c) ==
  /\ At(c, "sack_rx_done")
  /\ LET buf == RxBuf[Arg(c)]
         up == Frame("unique_rx_done", Arg(c)) IN
       /\ ~is_ack(buf)
       /\ \/ /\ ~requires_ack(buf)
             /\ Then(c, <<up>>)
             /\ UNCHANGED sack_state
          \/ /\ requires_ack(buf) /\ sack_state = "IDLE"
             /\ sack_state' = "TX_ACK"
             /\ Then(c, <<Frame("radio_tx", AckPkt), up>>)
          \/ /\ requires_ack(buf) /\ sack_state # "IDLE"
             /\ Return(c)
             /\ UNCHANGED sack_state
  /\ UNCHANGED <<armed, sack_tx_buf, radioIfc, acked>>

sack_expire == Expire("sack_timer", "sack_timer_cb") /\ UNCHANGED <<sackVars, radioIfc, acked>>

\* Mutant of sack_timer_cb: the state is not looked at
sack_timer_cb_always(c) ==
  /\ At(c, "sack_timer_cb")
  /\ sack_state' = "IDLE"
  /\ Then(c, <<Frame("csma_tx_done", ACK_TIMEOUT)>>)
  /\ UNCHANGED <<armed, sack_tx_buf, radioIfc, acked>>

sack_timer_cb(c) ==
  /\ At(c, "sack_timer_cb")
  /\ IF sack_state = "TX_WAIT"
       THEN /\ sack_state' = "IDLE"
            /\ Then(c, <<Frame("csma_tx_done", ACK_TIMEOUT)>>)
       ELSE Return(c) /\ UNCHANGED sack_state
  /\ UNCHANGED <<armed, sack_tx_buf, radioIfc, acked>>

SackStep(c) ==
  \/ radio_tx(c) \/ sack_tx(c) \/ sack_tx_done(c) \/ sack_rx_ack(c)
  \/ sack_cancel(c) \/ sack_rx_data(c) \/ sack_timer_cb(c)
=============================================================================
