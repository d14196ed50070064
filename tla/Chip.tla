-------------------------------- MODULE Chip --------------------------------
(***************************************************************************)
(* The CC2520 transceiver as the driver sees it: the SPI commands radio.c  *)
(* sends, the SFD, FIFO and FIFOP pins platform.c reads, and the edge      *)
(* interrupts those pins raise.  The chip is outside the repository; it is *)
(* modelled from the commands and pins the driver relies on (cc2520.h) and *)
(* from the register defaults of radio_config.h: FIFOPCTRL is 127, so      *)
(* FIFOP rises only for a complete frame.                                  *)
(*                                                                         *)
(* A received frame is its arrival number, a transmitted one the number of *)
(* the radio_tx call it came from; their bytes matter only in so far as a  *)
(* read may find a frame's length byte, its data, or neither.              *)
(***************************************************************************)
EXTENDS Integers, Sequences

CONSTANTS MaxRx,    \* bound: frames that arrive over the air
          MaxTx     \* bound: radio_tx calls

ASSUME BoundsAssumption == MaxRx \in Nat /\ MaxTx \in Nat

VARIABLES
  rf,         \* the RF engine
  rxfifo,     \* frames in the RX FIFO, oldest first
  txfifo,     \* frame in the TX FIFO; full: all of its bytes are there
  underflow,  \* the TX_UNDERFLOW bit of EXCFLAG0
  aired,      \* frames sent completely
  nrx,        \* frames that have started to arrive
  sfd_irq,    \* an SFD edge waits for its handler
  fifop_irq   \* a FIFOP edge waits for its handler

chipVars == <<rf, rxfifo, txfifo, underflow, aired, nrx, sfd_irq, fifop_irq>>

RfStates == {"off", "listen", "rx", "cal", "tx", "uflow"}

\* got: how much of the frame has been read out; full: it has arrived completely
RxEntry == [id : 1..MaxRx, full : BOOLEAN, got : {"none", "len", "part"}]
TxEntry == [id : 0..MaxTx, full : BOOLEAN]

Junk    == 0     \* bytes read that are not the frame the driver asked for
TooLong == -1    \* a length byte above 127

ChipTypeOK ==
  /\ rf \in RfStates
  /\ rxfifo \in Seq(RxEntry)
  /\ txfifo \in TxEntry
  /\ underflow \in BOOLEAN
  /\ aired \subseteq 0..MaxTx
  /\ nrx \in 0..MaxRx
  /\ sfd_irq \in BOOLEAN
  /\ fifop_irq \in BOOLEAN

ChipInit ==
  /\ rf = "off"
  /\ rxfifo = <<>>
  /\ txfifo = [id |-> 0, full |-> FALSE]
  /\ underflow = FALSE
  /\ aired = {}
  /\ nrx = 0
  /\ sfd_irq = FALSE
  /\ fifop_irq = FALSE

-----------------------------------------------------------------------------
(* The pins, and the edges that reach the interrupt controller.  Both      *)
(* handlers are requested for rising and falling edges; an edge that comes *)
(* while one is already latched is merged with it.                         *)

SFD   == rf \in {"rx", "tx"}
FIFO  == rxfifo # <<>>
FIFOP == \E i \in 1..Len(rxfifo) : rxfifo[i].full

LatchEdges ==
  /\ sfd_irq' = (sfd_irq \/ SFD' # SFD)
  /\ fifop_irq' = (fifop_irq \/ FIFOP' # FIFOP)

-----------------------------------------------------------------------------
(* What the chip does on its own.                                          *)

RxStart ==          \* a frame's SFD, then its length byte
  /\ rf = "listen"
  /\ nrx < MaxRx
  /\ rf' = "rx"
  /\ nrx' = nrx + 1
  /\ rxfifo' = Append(rxfifo, [id |-> nrx', full |-> FALSE, got |-> "none"])
  /\ UNCHANGED <<txfifo, underflow, aired>>
  /\ LatchEdges

RxEnd ==
  /\ rf = "rx" /\ rxfifo # <<>>
  /\ rf' = "listen"
  /\ rxfifo' = [rxfifo EXCEPT ![Len(rxfifo)].full = TRUE]
  /\ UNCHANGED <<txfifo, underflow, aired, nrx>>
  /\ LatchEdges

TxStart ==          \* calibration and preamble done: the SFD is on the air
  /\ rf = "cal"
  /\ rf' = "tx"
  /\ UNCHANGED <<rxfifo, txfifo, underflow, aired, nrx>>
  /\ LatchEdges

TxEnd ==
  /\ rf = "tx"
  /\ txfifo.full
  /\ rf' = "listen"
  /\ aired' = aired \cup {txfifo.id}
  /\ UNCHANGED <<rxfifo, txfifo, underflow, nrx>>
  /\ LatchEdges

TxUnderflow ==      \* the transmitter caught up with the SPI write
  /\ rf = "tx"
  /\ ~txfifo.full
  /\ rf' = "uflow"
  /\ underflow' = TRUE
  /\ UNCHANGED <<rxfifo, txfifo, aired, nrx>>
  /\ LatchEdges

-----------------------------------------------------------------------------
(* What the chip does on a command.                                        *)

SRXON ==            \* a running reception or transmission is given up
  /\ rf' = "listen"
  /\ UNCHANGED <<rxfifo, txfifo, underflow, aired, nrx>>
  /\ LatchEdges

SRFOFF ==           \* likewise; bytes already received stay in the FIFO
  /\ rf' = "off"
  /\ UNCHANGED <<rxfifo, txfifo, underflow, aired, nrx>>
  /\ LatchEdges

SFLUSHRX ==         \* empties the FIFO and restarts the demodulator
  /\ rf' = IF rf = "rx" THEN "listen" ELSE rf
  /\ rxfifo' = <<>>
  /\ UNCHANGED <<txfifo, underflow, aired, nrx>>
  /\ LatchEdges

TXBUF_STXON(id, flush) ==   \* [SFLUSHRX,] the first bytes of frame id, STXON
  /\ rf' = "cal"
  /\ rxfifo' = IF flush THEN <<>> ELSE rxfifo
  /\ txfifo' = [id |-> id, full |-> FALSE]
  /\ UNCHANGED <<underflow, aired, nrx>>
  /\ LatchEdges

TXBUF_rest ==       \* the remaining bytes
  /\ txfifo' = [txfifo EXCEPT !.full = TRUE]
  /\ UNCHANGED <<rf, rxfifo, underflow, aired, nrx, sfd_irq, fifop_irq>>

SFLUSHTX ==         \* and EXCFLAG0 := 0
  /\ rf' = IF rf = "uflow" THEN "listen" ELSE rf
  /\ underflow' = FALSE
  /\ UNCHANGED <<rxfifo, txfifo, aired, nrx>>
  /\ LatchEdges

RESET ==            \* the reset pin held low
  /\ rf' = "off"
  /\ rxfifo' = <<>>
  /\ underflow' = FALSE
  /\ UNCHANGED <<txfifo, aired, nrx>>
  /\ LatchEdges

\* RXBUF for one byte: the length of the oldest frame if nothing of it has
\* been read.  From an empty FIFO, or from the middle of a frame, the byte
\* is arbitrary: a plausible length or one above 127.
RXBUF_len(val) ==
  /\ IF rxfifo # <<>> /\ Head(rxfifo).got = "none"
       THEN /\ val = Head(rxfifo).id
            /\ rxfifo' = [rxfifo EXCEPT ![1].got = "len"]
       ELSE /\ val \in {Junk, TooLong}
            /\ UNCHANGED rxfifo
  /\ UNCHANGED <<rf, txfifo, underflow, aired, nrx, sfd_irq, fifop_irq>>

\* RXBUF for as many bytes as the length said.  The frame comes out whole if
\* it is complete and only its length byte has been read.  Otherwise the
\* bytes are junk, and what was at the head of the FIFO is used up or is
\* left without its beginning.
RXBUF_data(val) ==
  /\ IF rxfifo # <<>> /\ Head(rxfifo).got = "len" /\ Head(rxfifo).full
       THEN /\ val = Head(rxfifo).id
            /\ rxfifo' = Tail(rxfifo)
       ELSE /\ val = Junk
            /\ \/ rxfifo = <<>> /\ UNCHANGED rxfifo
               \/ rxfifo # <<>> /\ rxfifo' = [rxfifo EXCEPT ![1].got = "part"]
               \/ rxfifo # <<>> /\ Head(rxfifo).full /\ rxfifo' = Tail(rxfifo)
  /\ UNCHANGED <<rf, txfifo, underflow, aired, nrx>>
  /\ LatchEdges
=============================================================================
