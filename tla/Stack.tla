-------------------------------- MODULE Stack -------------------------------
(***************************************************************************)
(* The layers composed as module.c binds them: interface, unique, lpl,     *)
(* csma, sack, radio.  Every context runs its own stack of calls, and the  *)
(* contexts interleave.                                                    *)
(***************************************************************************)
EXTENDS Interface, FiniteSets

CONSTANTS
  LplOn, CsmaOn,   \* the settings a run may start with
  Toggles,         \* when the set_lpl and set_csma ioctls are made
  MaxToggles,      \* bound: such ioctls
  MaxArrivals      \* bound: frames that arrive

ASSUME StackAssumption ==
  /\ LplOn \subseteq BOOLEAN /\ CsmaOn \subseteq BOOLEAN
  /\ Toggles \in {"between", "any"}
  /\ MaxToggles \in Nat /\ MaxArrivals \in Nat

VARIABLES ntoggles, narrivals

bounds == <<ntoggles, narrivals>>
belowLpl == <<sackVars, radioIfc, acked, csmaVars>>
belowIfc == <<belowLpl, lplVars>>
rxVars   == <<uniqueVars, readVars>>
vars == <<callVars, belowIfc, rxVars, ifcVars, bounds>>

StackTypeOK ==
  /\ armed \subseteq Timers
  /\ SackTypeOK /\ CsmaTypeOK /\ LplTypeOK /\ UniqueTypeOK /\ InterfaceTypeOK
  /\ ntoggles \in 0..MaxToggles
  /\ narrivals \in 0..MaxArrivals

Init ==
  /\ CallsInit
  /\ SackInit
  /\ \E on \in CsmaOn : CsmaInit(on)
  /\ \E on \in LplOn : LplInit(on)
  /\ UniqueInit
  /\ InterfaceInit
  /\ ntoggles = 0
  /\ narrivals = 0

\* A context runs on
Run(c) ==
  \/ SackStep(c) /\ UNCHANGED <<csmaVars, lplVars, rxVars, ifcVars, bounds>>
  \/ CsmaStep(c) /\ UNCHANGED <<sackVars, radioIfc, acked, lplVars, rxVars, ifcVars, bounds>>
  \/ LplStep(c) /\ UNCHANGED <<belowLpl, rxVars, ifcVars, bounds>>
  \/ unique_rx_done(c) /\ UNCHANGED <<belowIfc, readVars, ifcVars, bounds>>
  \/ RxStep(c) /\ UNCHANGED <<belowIfc, uniqueVars, ifcVars, bounds>>
  \/ WriteStep(c) /\ UNCHANGED <<belowIfc, rxVars, bounds>>

Timeouts ==
  \/ sack_expire /\ UNCHANGED <<csmaVars, lplVars, rxVars, ifcVars, bounds>>
  \/ csma_expire /\ UNCHANGED <<sackVars, radioIfc, acked, lplVars, rxVars, ifcVars, bounds>>
  \/ lpl_expire /\ UNCHANGED <<belowLpl, rxVars, ifcVars, bounds>>

WorkQueue == csma_wq /\ UNCHANGED <<sackVars, radioIfc, acked, lplVars, rxVars, ifcVars, bounds>>

RadioDone ==
  /\ \E c \in {"spi", "sfd"}, status \in {SUCCESS, FAILED} : radio_done(c, status)
  /\ UNCHANGED <<csmaVars, lplVars, rxVars, ifcVars, bounds>>

Arrival ==
  /\ narrivals < MaxArrivals
  /\ narrivals' = narrivals + 1
  /\ \E f \in 1..Len(Frames) : radio_rx(f)
  /\ UNCHANGED <<csmaVars, lplVars, rxVars, ifcVars, ntoggles>>

Write(w) == interface_write(w) /\ UNCHANGED <<belowIfc, rxVars, bounds>>
Read(r) ==
  /\ interface_read(r) \/ read_signal(r)
  /\ UNCHANGED <<belowIfc, uniqueVars, ifcVars, bounds>>
ReadOn(r) == ReadStep(r) /\ UNCHANGED <<belowIfc, uniqueVars, ifcVars, bounds>>

\* An ioctl of another process, while a packet is being written or not
Ioctl ==
  /\ ntoggles < MaxToggles
  /\ ntoggles' = ntoggles + 1
  /\ Toggles = "any" \/ tx_sem = 1
  /\ \/ lpl_set_enabled(~lpl_enabled) /\ UNCHANGED csmaVars
     \/ csma_set_enabled(~csma_enabled) /\ UNCHANGED lplVars
  /\ UNCHANGED <<sackVars, radioIfc, acked, rxVars, ifcVars, narrivals>>

Next ==
  \/ \E c \in Contexts : Run(c)
  \/ Timeouts \/ WorkQueue
  \/ RadioDone \/ Arrival
  \/ \E w \in Writers : Write(w)
  \/ \E r \in Readers : Read(r) \/ ReadOn(r)
  \/ Ioctl

Spec == Init /\ [][Next]_vars

(* The scheduler runs every context that can run, timers expire, the work  *)
(* queue is served, and the radio answers what it was given (TxAnswered of *)
(* module Radio).  Nobody is obliged to write and no frame has to arrive.  *)
Fairness ==
  /\ \A c \in Contexts : WF_vars(Run(c))
  /\ WF_vars(sack_expire /\ UNCHANGED <<csmaVars, lplVars, rxVars, ifcVars, bounds>>)
  /\ WF_vars(csma_expire /\ UNCHANGED <<sackVars, radioIfc, acked, lplVars, rxVars, ifcVars, bounds>>)
  /\ WF_vars(lpl_expire /\ UNCHANGED <<belowLpl, rxVars, ifcVars, bounds>>)
  /\ WF_vars(WorkQueue)
  /\ WF_vars(RadioDone)
  /\ \A r \in Readers : WF_vars(ReadOn(r))

FairSpec == Spec /\ Fairness
-----------------------------------------------------------------------------
(* Properties of the transmit path.                                        *)

\* sack_tx_done is never called in a state in which sack.c does not expect it,
\* although frames and acknowledgements go out through one radio from two
\* contexts: the code would keep sack_sl ("impossible state") for good.
TxDoneExpected ==
  \A c \in Contexts : At(c, "sack_tx_done") => sack_state \in {"TX", "TX_ACK"}

Service == INSTANCE RadioService
             WITH Callers <- Contexts, Frames <- Packets \cup {AckPkt, Uninit},
                  None <- NoPkt, Success <- SUCCESS, Failed <- FAILED,
                  asked <- { <<c, Arg(c)>> : c \in { d \in Contexts : At(d, "radio_tx") } },
                  sending <- radio,
                  report <- { <<c, Arg(c)>> : c \in { d \in Contexts : At(d, "sack_tx_done") } }

\* The layers use the radio as its contract demands, the one Radio is shown to
\* keep: packets, retransmissions and acknowledgements, from whatever context,
\* are handed to it one at a time, and the next only after the tx_done of the
\* last has been dealt with (sack_state guards a radio that cannot refuse).
UsesService == Service!Spec

Carriers == {"lpl_tx", "csma_tx", "csma_timer_cb", "sack_tx", "sack_cancel",
             "csma_tx_done", "lpl_tx_done", "lpl_cancel", "interface_tx_done"}
Carries(fr) ==
  \/ fr.fn \in Carriers
  \/ fr.fn = "radio_tx" /\ fr.arg # AckPkt
  \/ fr.fn = "sack_tx_done" /\ sack_state = "TX"
Calling == UNION { { <<c, i>> : i \in { j \in DOMAIN stack[c] : Carries(stack[c][j]) } }
                   : c \in Contexts }
Waiting(w) == \E i \in DOMAIN stack[w] : stack[w][i].fn = "write_wait"
One(b) == IF b THEN 1 ELSE 0

\* A packet being written is at every moment in exactly one place: in one call
\* of one context, in the backoff, on the work queue, in the radio, waiting for
\* its acknowledgement, or reported.  It is neither lost nor answered twice,
\* whatever retries, timeouts, late acknowledgements and ioctls come together;
\* a second answer would end the next write() before its packet is sent.
PacketInOnePlace ==
  Cardinality(Calling) + One("csma_timer" \in armed) + One(work)
    + One(radio \notin {NoPkt, AckPkt}) + One(sack_state = "TX_WAIT") + tx_done_sem
  = Cardinality({ w \in Writers : Waiting(w) })

\* A timeout belongs to the wait it was started for: when the acknowledgement
\* has come, no expiry is left that could end the wait of the next packet.
AckTimerFresh ==
  "sack_timer" \in armed \/ At("sack_timer", "sack_timer_cb")
    => sack_state = "TX_WAIT" \/ \E c \in Contexts : At(c, "sack_cancel")

\* With csma enabled a packet reaches csma_tx only when the last one is done,
\* so the layer never answers a retransmission with BUSY ("csma_tx should NEVER
\* be called while a tx is in progress", notes/log.txt).
CsmaIdleOnTx ==
  \A c \in Contexts : At(c, "csma_tx") /\ csma_enabled => csma_state = "IDLE"

\* No packet is handed to the radio by a timer callback or the SFD interrupt:
\* sack_tx and radio_tx spin and rely on being preempted (csma.c, timer_cb).
NoTxFromIrq == \A c \in Irqs : ~At(c, "sack_tx")

\* With CSMA enabled this is so: the backoff timer hands every packet, also one
\* that LPL retransmits from a timer or an interrupt, to the work queue.
CsmaDefersTx == csma_enabled => NoTxFromIrq

Returned(w, r) == Idle(w) /\ ret[w] = r /\ writing[w] # NoPkt

\* No acknowledgement is so late that its number has been used again
AckInTime ==
  \A c \in Contexts : At(c, "sack_rx_done") /\ Acknowledges(Arg(c)) =>
    \E p \in acked :
      /\ Dsn[p] = Frames[Arg(c)].dsn
      /\ \A q \in Packets : p < q /\ q <= nwrites => Dsn[q] # Dsn[p]

\* A write() of a packet that asks for an acknowledgement succeeds only when
\* the acknowledgement of that packet has arrived.  An acknowledgement names its
\* packet by a number of 8 bits: it holds while AckInTime does.
SuccessAcked ==
  \A w \in Writers : Returned(w, PktLen) /\ writing[w] \in AckReq => writing[w] \in acked

\* Without LPL one attempt is made.  A packet that asks for no acknowledgement is
\* reported as a success if and only if it was sent, and else as refused or
\* failed.  One that asks for it is reported as refused only if it was not sent,
\* and as a success only if it was; ACK_TIMEOUT does not tell whether it was, as
\* sack_tx_done forgets a failure.
PlainStatus ==
  ~lpl_enabled /\ ntoggles = 0 =>
    \A w \in Writers : Idle(w) /\ writing[w] # NoPkt =>
      IF writing[w] \in AckReq
        THEN /\ ret[w] \in {PktLen, BUSY, ACK_TIMEOUT}
             /\ ret[w] = PktLen => writing[w] \in heard
             /\ ret[w] = BUSY => writing[w] \notin heard
        ELSE /\ ret[w] \in {PktLen, BUSY, FAILED}
             /\ ret[w] = PktLen <=> writing[w] \in heard

\* The window in which LPL repeats a packet does not end before it has begun:
\* an expiry that lpl_timer_cb acts on is one of the timer this packet started.
WindowBegun ==
  lpl_state = "TIMER_EXPIRED" =>
    \A w \in Writers : \A i \in DOMAIN stack[w] : stack[w][i].fn # "lpl_start_timer"

\* Every write() returns.
WriteReturns == \A w \in Writers : ~Idle(w) ~> Idle(w)

-----------------------------------------------------------------------------
(* Properties of the receive path.                                         *)

\* Who sent the i-th frame that reached unique.c: the driver tells senders apart
\* by their address as a number of 64 bits
Sender(i) == u64(Frames[passed[i].frame].src)

\* Frame i is the next one of its sender after frame j, with the same number
Repeats(j, i) ==
  /\ j < i /\ Sender(j) = Sender(i)
  /\ Frames[passed[j].frame].dsn = Frames[passed[i].frame].dsn
  /\ \A k \in (j + 1)..(i - 1) : Sender(k) # Sender(i)

\* After frame j its sender has a list entry
HasEntry(j) == passed[j].up # 0 => delivered[passed[j].up].kept

\* The filter is exact, however the senders interleave: a frame is dropped if
\* and only if it repeats the sequence number of its sender's previous frame,
\* unless memory was short then and the sender got no list entry.  The others
\* are handed up, each once and in the order of their arrival.
UniqueExact ==
  /\ \A i \in DOMAIN passed :
       passed[i].up = 0 <=> \E j \in DOMAIN passed : Repeats(j, i) /\ HasEntry(j)
  /\ \A n \in DOMAIN delivered :
       \E i \in DOMAIN passed : passed[i] = [frame |-> delivered[n].frame, up |-> n]
  /\ \A i, j \in DOMAIN passed :
       i < j /\ passed[j].up # 0 => passed[i].up < passed[j].up

HasRead(r) == reader[r] = "idle" /\ got[r].len # 0

\* Nothing keeps the next frame from being copied into the buffer while read()
\* copies it out.  The size of the copy and every part of what it copies are at
\* least as new as the frame that woke it, and none is newer than the length it
\* returns: it returns that frame, whole, unless another one begins to arrive
\* before it returns, and never anything older.
ReadFresh ==
  \A r \in Readers : HasRead(r) =>
    \A d \in {got[r].size} \cup { got[r].buf[p] : p \in Parts } :
      got[r].woken <= d /\ d <= got[r].len
=============================================================================
