# A verification project for the CC2520 Linux driver

The driver (`src/`) connects a CC2520 802.15.4 transceiver to Linux as a
character device. Its code is a stack of layers, each a C file with static
state, that call each other through `tx`, `tx_done` and `rx_done` pointers from
processes, a work queue, three high resolution timers, the SPI message pump and
two GPIO interrupts. There are no tests of the driver itself. This directory
models it in TLA+, checks the models with TLC, and proves with TLAPS most of the safety
properties for every number of frames, packets, processes and loads: those of the radio,
of the layers above it and of loading, the contract between radio and layers from both
sides, the header accessors and the timer arithmetic.

## 1. Inventory

| Component | State | Operations | Interaction | What makes it correct |
|---|---|---|---|---|
| chip (external) | RF engine, RX/TX FIFO, underflow bit, pins | SPI commands, reception, transmission | SFD and FIFOP edges | – |
| `radio.c` | `radio_state` (lock and tx handshake), `pending_rx`, `msg`, `rx_msg`, buffers | `tx`, eight completion callbacks, `sfd_occurred`, `fifop_occurred`, `start/on/off/set_*` | SPI core below, sack above | one `tx_done` per `tx`; SPI messages never reused in flight; the receive engine never gets stuck; what is handed up is a frame |
| `platform.c` | GPIO and IRQ numbers, `spi_device` | `sfd_handler`, `fifop_handler`, GPIO and SPI set-up and release | calls `radio.c`; the SPI bus | handlers look at the pin, not the edge; a device left on the bus does not block the next load |
| `sack.c` | `sack_state`, `cur_tx_buf`, `timeout_timer` | `tx`, `tx_done`, `rx_done`, timer callback | spins for its turn; sends acknowledgements from the receive callback | timeout and acknowledgement end a wait once; success means acknowledged |
| `csma.c` | `csma_state`, `cur_tx_buf`, backoff timer, work item | `tx`, `tx_done`, timer callback, work queue, setters | moves a send out of timer context | a packet is sent or reported busy, not both |
| `lpl.c` | `lpl_state`, `cur_tx_buf`, window timer | `tx`, `tx_done`, timer callback, setters | retransmits from within `tx_done` | it stops; the status is that of the packet |
| `unique.c` | list of (source, last DSN) | `rx_done` (tx passes) | – | drops repetitions and nothing else |
| `interface.c` | `tx_sem`, `tx_done_sem`, `tx_result`, `rx_buf_c`, `rx_pkt_len` | `write`, `read`, `ioctl` | user processes | every write returns, with its own status; what read returns is not older than the frame that woke it |
| `packet.c` | – | header accessors | all layers | the source is found in every header; an acknowledgement answers its frame |
| `module.c` | `wq` | bindings, `init_module`, `cleanup_module` | all | nothing calls into what is not there yet or any more; a failed load is undone |

What is hard: the SPI callback and the SFD interrupt racing to complete a
transmission; FIFOP edges during a read-out; SRFOFF cutting off a reception;
acknowledgements sent from the SPI callback, which stops the SPI pump while it
spins; an acknowledgement racing its timeout; retransmission from timer and
interrupt context; settings changed in mid-transmission; loading and unloading
while the chip receives or a timer runs. `PROJECT.json` lists
these hazards line by line with the properties aimed at them.

## 2. Modules

    Chip <- Radio <- RadioProofs <- RadioServiceProofs
    Calls, Packet <- Sack <- Csma <- Lpl <- Unique <- Interface <- Stack <- MCStack
    Stack, PacketProofs <- StackProofs <- StackServiceProofs, StackLayerProofs
    Packet <- PacketProofs        Timing <- TimingProofs        Lifecycle <- LifecycleProofs
    RadioService, instantiated by Radio and by Stack

(An arrow is EXTENDS.)

**Chip** is the CC2520 as the driver sees it. It is external: its commands are
those `radio.c` issues, its pins those `platform.c` reads. A frame is a number.
The RF engine is off, listening, receiving, calibrating, transmitting or in
underflow. An edge of SFD or FIFOP is latched until its handler runs and merges
with one already latched. Reading from an empty FIFO or from the middle of a
frame gives junk, of which the driver can only tell a length above 127
(`TooLong`).

**Radio** is `radio.c` and the interrupt handlers of `platform.c`. Each of the
five contexts has a program counter. An action is a maximal piece of code
between points where another context can interfere: taking or releasing a lock,
reading a pin, queueing a message, calling the layer above. So `finishRx` is
`finishRx`, `rx_done`, (`radio_tx_ack`,) `finishRx_check` and `clear_pending_rx`.
The SPI core executes queued messages in order in one thread, which also runs
the callbacks; the transmit message is split where the transmitter is on and the
rest of the packet not yet written, so that an underflow can happen. Register
writes change nothing the model shows, so those of `start` are one command, and
so are those that `on` makes before SRXON. The contents of `msg` are read when
it is executed, so refilling a queued message has its real effect.

`rx_buf_sl` is not modelled: `finishRx` takes it, `sack_rx_done` releases it
first thing, and both run in the SPI thread.

**Calls** gives every context a stack of functions it still has to run. A layer
function replaces itself by the calls it makes, so a `tx_done` that retransmits
from a timer callback runs in that timer's context, as in the code. Timers may
expire at any moment after they are started: the model is about order, not
length, of time. Status codes keep their width (`u8`).

**Sack, Csma, Lpl, Unique, Interface** are one C file each; an action has the
function's name. A function is split at the release of its spin lock where what
follows can be overtaken (`sack_cancel`, `lpl_cancel`, `lpl_start_timer`,
`write_up`), and `rx_done` and `read` of the interface between any two accesses to
`rx_buf_c` and `rx_pkt_len`, which nothing protects. Each of the two copies goes
through the parts of the frame (`Parts`: two are enough to tear it) in any order, one
step each, and the other copy may come in between (`rx_copy`, `read_copy`); `rx_pkt_len`
is read once for the size of the copy (`read_size`) and again for the return value
(`read_return`), and copy_to_user may fail at any moment (`read_fault`). A part of the
buffer is the number of the delivery it comes from. A packet carries the sequence number
the process has given it, an octet (`Dsn`); different packets may have the same. Below
`Sack` stands the radio as its contract
(`RadioService`) describes it. It reports a success for what it has
sent; that the real radio may report one too early is the subject of Radio's own
runs and is not repeated here. A buffer nothing has been copied to is `Uninit`,
and whether it asks for an acknowledgement is open.

**Stack** composes the layers as `setup_bindings` does, with arrivals, the radio's
answers, and the ioctls that switch LPL and CSMA (`Toggles`: only between writes,
or at any moment). History variables: `heard` (packets sent), `acked`
(packets acknowledged: an acknowledgement that arrives is for one of the sent packets
with its number), `passed`/`delivered` (frames before/after the
duplicate filter, each of the former with the number of the delivery it became, 0 if
it was dropped), `got` (for each `read` the delivery that woke it, and those it has seen).

**RadioService** is the contract of the `tx` and `tx_done` pointers between radio and
sack: frames are handed over one at a time (`Tx`), each is accepted once, ends once
and is reported once, by the SPI thread or (a success only) the SFD interrupt. It is
used from both sides. `Radio!ImplementsService` says that `radio.c` keeps it: what
is asked is a caller spinning for the lock, what is being sent is `tx_buf_r` while
`radio_state` is one of the TX states, a report is a context about to call `tx_done`.
`Stack!UsesService` says the layers above demand nothing else: the calls of
`radio_tx` and `sack_tx_done` in the contexts' stacks are the `asked` and `report` of
the same contract. The contract includes that nobody calls `tx` while a frame is out,
which the radio cannot refuse (it would spin, in an interrupt if need be). In `Radio` this is
the environment's `sack_busy`; in `Stack` it is a result about `sack.c`. So what
`Stack` assumes of the radio is what `Radio` is shown to do, and the reverse.

**Packet** is `packet.c` on buffers: length, frame control field, sequence number, and
the rest in words of two octets. `Encode` lays out a frame the way 802.15.4 does
(external); the accessors are arithmetic on what it produces. `Sack` and `Unique` look
at received frames only through them.

**Timing** is the arithmetic on timer periods, in 32 bits: `get_backoff` with its
unsigned remainder, and the nanoseconds the three `start_timer` functions pass on.

**Lifecycle** is `module.c` with the init and free functions of all layers. What a layer
acquires (pins, handlers, bus device, registrations, buffers) is a name; `init_module`
acquires the names in the order of the code, the kernel may refuse each one, and the
error paths and `cleanup_module` release what the code releases: what it forgets stays
in `held`, and what there is only one of (pins, handlers, names) in `left` at the next
load, where asking for it again fails. Around it a process opens the device, reads, writes and switches the radio,
the chip (which keeps its state across loads) raises FIFOP, and the LPL timer, the one
timer that can outlive the write that started it, expires. An operation is the list of
places it passes through the layers and each place needs its buffers and bindings; one
that finds something missing sets `oops`, which ends the behaviour.

Definitions named `x_somethingWrong` next to a definition `x` are deliberate
faults; `PROJECT.json` says which property detects each.

## 3. Runs

Every run has `CHECK_DEADLOCK FALSE`, since the environment may stop calling.

| Run | Shows | Bounds |
|---|---|---|
| RadioSafety | `TypeOK`, `TxDoneOnce`, `SpiExclusive`, `RxEngineAlive`, `TxEndPending`; the radio implements its contract (`ImplementsService`) | 2 arrivals, 2 transmissions, 2 calls of start/on/off, acknowledgements; 1.6 M states |
| RadioRx | without transmissions `RxIntact` and `RxInOrder` hold | 4 arrivals: one read, one behind it, one cut off by a flush, one after |
| RadioLive | `TxAnswered`, `RxReleased`, `ConfigReturns` | 2 transmissions (acknowledgements among them), 2 arrivals, 1 `on`; acknowledgements only once the radio is configured |
| StackSafety | `StackTypeOK`, `TxDoneExpected`, `PacketInOnePlace`, `AckTimerFresh` | 2 writers, 2 packets (one wants an ACK), every setting, one toggle at any moment, both packets with the same sequence number, one arrival |
| StackWrite | with CSMA on: `CsmaIdleOnTx`, `CsmaDefersTx`, `SuccessAcked`; `PlainStatus`, what the status tells of packets sent without LPL; `WriteReturns`; the layers use the radio as its contract demands (`UsesService`) | LPL on (the default) or off, 2 packets, the second wants an ACK, 2 arrivals (right, wrong, late ACKs, data), one setting changed between writes |
| StackRx | `UniqueExact`, `ReadFresh`, also when an allocation or a copy fails or a signal comes | 3 arrivals, 2 sources, 1 reader, two parts to a frame |
| Lifecycle | `TypeOK`, `CarefulUseSafe`, `NothingCallsIn`, `LoadNotBlocked` | 3 loads: one that leaves something behind, one that meets it, one after; every acquisition refused or granted |

Two transmissions suffice for a late event of the first to meet the second, two
arrivals for a frame behind the one being read, and two packets for an
acknowledgement of the last but one to meet the wait for the last. The number of retransmissions and timer
expiries is not bounded.

Five runs exhibit a place where the code does not do what a comment or the
manual says; each is expected to end in a violation:

- **RadioAired** – SRFOFF cuts off a reception, SFD falls, and the fall counts as
  the end of the transmission that is only beginning: `tx_done(SUCCESS)` may come
  before the packet is on the air (`radio.c:386`).
- **RadioGarbage** – a transmission flushes the RX FIFO between the two reads of a
  reception; `rx_done` gets junk (`radio.c:477`).
- **StackIrq** – with CSMA off, LPL retransmits from a timer callback (`csma.c:173`).
- **StackToggle** – LPL enabled while a packet is in flight retransmits for ever
  (`lpl.c:112`).
- **StackWindow** – the window timer is started after the send has returned; when the
  packet has been acknowledged by then, the timer outlives it and ends the window of
  the next packet before it has begun (`lpl.c:95`).

### What Lifecycle shows

Whatever is refused, a module that is gone has no handler, device or driver registered
(`NothingCallsIn`), and a load fails only because something is refused in that load
(`LoadNotBlocked`): `cc2520_spi_add_to_bus` removes a device that an earlier one left at
the chip select, and every pin, handler and name has been given back. Of the work
queues `wq` is gone; `csma_wq` stays after `cleanup_module`, which does not call
`csma_free`. A packet is queued there only while its `write` waits, and an open file
holds the module, so nothing is queued in it then.

What else can call into a module that is gone are an open file, the LPL timer and a
reception under way. The model has all three (`open` and `lpl_timer` "stale", `path`
"gone"), and `NothingCallsIn` says of each that it remains only after a careless use.

`CarefulUseSafe` names the uses that are safe. The variable `careless` records the
others, and each of them is needed: without its exemption TLC finds an `oops`.

- "on": the chip is receiving when the module is loaded, as after `reload.sh` with the
  radio on. The interrupts are requested first (`module.c:63`), and a FIFOP edge runs
  `beginRx` with buffers that `radio_init` has not allocated.
- "early": the device is opened as soon as it appears in `/dev`, before the layers
  below have set their pointers (`module.c:75`), or a load that fails later is undone
  under an open file.
- "hasty": the module is unloaded with the radio on, a reception on its way (`rx_buf_c`
  is freed before the interrupts, `module.c:136`), or the LPL timer of the last write
  armed (`cleanup_module` cancels no timer).

Two refusals that `init_module` does not notice make the unload fail: `class_create`
returns an error pointer where the code looks for NULL (`interface.c:390`), and nobody
looks at `state.wq` (`module.c:111`). A refused `device_create` goes unnoticed too and
is harmless.

### Further observations

These are behaviours of the models too. They have no run of their own, because
they are rare, or because the documents exclude them or say nothing precise.

- `radio.c:728`: a frame that arrives between finishRx's look at FIFO and
  `pending_rx = false` keeps FIFOP high for good, so `FIFOP ~> ~FIFOP` is false.
  The SPI pump must be delayed there by a frame's air time.
- `radio.c:339`: `set_channel`, `set_address` and `set_txpower` take no lock and
  refill the message of a queued transmission. With `set_channel` in `Ops`,
  `SpiExclusive` is violated.
- `interface.c:72`: the status is a `u8`, so a failed write returns 255, 253 or 252,
  while `MANUAL.md:126` says an error is negative.
- `interface.c:130`: `write` accepts 128 bytes, as `MANUAL.md:118` says; the packet buffers of
  all layers are `PKT_BUFF_SIZE`, 127.
- `sack.c:210`: the acknowledgement is sent with a length that counts its FCS, which
  `cc2520.h:95-98` says `tx` excludes.
- `csma.c:112`: equal minimum and maximum are a division by zero, and a minimum above
  the maximum may give a backoff out of range; `set_csma` checks neither, and assigns its values
  one after the other, so a backoff may be drawn from old and new ones.
- `cc2520.h:69`: the default initial backoff (4960) exceeds the congestion backoff
  (2240); `MANUAL.md:276` wants it smaller.
- `lpl.c:162`, `sack.c:122`, `csma.c:118`: periods above 2.1 s wrap.
- `module.c:133`: an unload leaks the buffers of radio, lpl, sack and csma, csma's
  work queue, and the list of `unique.c` (whose free function is never called);
  `sack_free` forgets `cur_rx_buf`; the device number is never returned
  (`interface.c:434` passes it where the major number is expected). A failed `gpio_init`
  frees pins and interrupts that it has not requested (`platform.c:254`). The board's
  own device at the chip select is removed and not restored.
- `lpl.c:137`: a broadcast of which no attempt got out is a success when the window
  ends. `PlainStatus` is therefore about packets sent without LPL.
- `sack.c:149`: a failed transmission of a packet that wants an acknowledgement is
  reported as not acknowledged, once the timeout has passed. `MANUAL.md:137` says of
  CC2520_TX_ACK_TIMEOUT "The packet was sent": a process cannot tell. That the packet of
  such a status is always in `heard` is false; `PlainStatus` says what is left.
- `packet.c:32`: an acknowledgement names its packet by 8 bits, which the user fills in. If
  a number is used again before a late acknowledgement of the earlier packet has come, it
  ends the later one's wait as a success: with `Dsn <- SameDsn` in StackWrite TLC finds
  `SuccessAcked` violated. An acknowledgement of the same number that is meant for another
  node would do the same; in the model acknowledgements are for what was sent here.
- `sack.c:213`: a frame that asks for an acknowledgement while the layer is busy is
  neither acknowledged nor delivered; `MANUAL.md:300` does not mention this.
- `interface.c:161`: a signal makes `read` return the previous frame again, and a frame
  that arrives between two reads is not waited for but lost.
- `interface.c:79`, `interface.c:162`: a frame that arrives while `read` copies the one
  before may overwrite part of it: `read` then returns bytes of both, as many as one of
  the two lengths says, and the length of either. Nothing in the code prevents it
  and the manual (`MANUAL.md:100`) speaks of exactly one packet. `ReadFresh` says what is
  left: nothing older than the frame that woke the reader, nothing newer than the length.
- `interface.c:151`: two writers may return each other's status. The manual wants
  one writer at a time.

### Fairness

`Radio`: the SPI thread, each interrupt handler, a process spinning for the radio
lock (weakly: it gets a lock that stays free) and one in an ioctl; the chip ends
what it began. `Stack`: every context that can run does, a started timer expires,
the work queue is served, the radio answers (`TxAnswered`). All weak. Nobody has
to call, and no frame has to arrive. `sack_tx` spins for IDLE; weak fairness is
enough because arrivals are bounded, so acknowledgements cannot keep the layer
busy for ever.

## 4. Proofs

`RadioProofs` holds for all natural `MaxRx`, `MaxTx`, `MaxCfg` and each of the
three values of `Acks` (`BoundsAssumption`, `RadioAssumption`).

- `TypeCorrect`: `Spec => []TypeOK`, for every set of configuration calls.
- `TxDoneOnceHolds`, `SpiExclusiveHolds`, `RxEngineAliveHolds`, `TxEndPendingHolds`:
  the invariants of RadioSafety, assuming `Ops \subseteq LockedOps`. Without it
  they are false (`set_channel`, above).

None of the four is inductive. That SPI callback and SFD handler do not both
complete a transmission rests on the SPI chain (a queued transmit message or a
running transmit callback) existing exactly in states TX and TX_SFD_DONE
(`LockInv`); this rests on `msg` being queued at most once (`Valid`) and on its
being filled in only by whoever holds the lock, so for a configuration call on the
lock being held until its script ends (`ScriptInv`). `RxInv` says the same of
`rx_msg` and `pending_rx`; `TokenInv` is `TxDoneOnce` itself. Their conjunction
with `TypeOK` is `IInv`. The proof has a lemma per context and a case per action.
`TxEndPending` needs one more invariant on top, `TxEndInv`: from the moment the
transmitter is started until the handshake ends, the end of the frame is to come
or its edge is latched. TLC checked `IInv` on the instance of RadioSafety before it
was proved.

`RxIntact` is false in general: a transmission may flush the FIFO between the two reads
of a frame (RadioGarbage), and SRFOFF, SRXON or a reset may cut a reception off and leave
part of a frame where the engine expects a complete one. Both properties of RadioRx are
proved in two forms, each with `Ops \subseteq LockedOps`:

- `RxIntactWhenCalm`, `RxInOrderWhenCalm`: in the behaviours in which the receiver is
  switched only while the RX FIFO is empty (`Calm`), with any transmissions,
  acknowledgements and locked configuration calls, and any bounds. So what RadioGarbage
  shows comes about only when the receiver is switched over a frame.
- `RxIntactHolds`, `RxInOrderHolds`: for `MaxTx = 0` and `MaxCfg <= 1`, which is RadioRx
  with any number of arrivals and any `Acks`. Both restrictions are needed, since a
  transmission and a second call switch the receiver. `OnceInv` says that until the one
  call has turned the receiver on, the last thing it does to the chip, nothing arrives;
  such behaviours are therefore `Calm` (`OnceMeansCalm`).

The invariant is `RxPathInv`, on top of `IInv`. `FifoInv`: only the last frame of the
FIFO may be incomplete, exactly while it arrives, and only the first may be partly read,
when the engine is between its two reads; what the engine asks for is there. `OrderInv`: the arrival numbers in the FIFO
grow and exceed that of the last frame taken out. `QuietInv`: between SRFOFF
and STXON, where `continueTx_check` may flush, the radio is off and the FIFO empty, so
that the flush discards nothing that is being read. TLC checked it on
an instance with 4 arrivals, 2 transmissions, 3 calls of start/on/off and
any acknowledgements, restricted to `Calm` (3.3 M states), and `OnceInv` on RadioRx's.

`RadioServiceProofs` rests on `IInv`. `Refinement`: `Spec => ImplementsService`, again for
`Ops \subseteq LockedOps`. A step that takes the lock for a transmission is `Accept`,
one that releases it is `Finish`, the return of `tx_done` is `Deliver`, every other step
leaves the mapping alone (`Quiet`); there is a lemma for each kind (`TxStep`,
`AcceptStep`, `FinishStep`, `DeliverStep`, `OtherStep`) and `Simulation` combines them.
`IInv` is not enough for `Accept`: the frame being sent is a number from 1 on only if
`tx_buf_r` has been written since the call, so `ServiceInv` adds `SentInv`.

`PacketProofs`, for every frame: `SrcExact`, `get_src(Encode(f))` is the source address
for each pair of addressing modes, with and without the intra-PAN bit (the offset
`src_addr_offset` computes is where `Encode` puts the address, by cases on the modes);
`AckAnswers`, what `create_ack` builds is an acknowledgement, asks for none, and answers
exactly the frames with that sequence number, whatever was in the buffer before.

`TimingProofs`: `BackoffInRange`, a backoff is at least the minimum and below the
maximum for every random number if the minimum is the smaller; `PeriodExact`, a
period is passed on exactly as long as it fits an `int` in nanoseconds.

### The layers

`StackProofs` holds for any writers, readers, packets and arriving frames, any bounds,
with or without faults, and for ioctls at any moment (the assumptions of `Calls`,
`Sack`, `Unique`, `Interface`, `Stack`). `TypeCorrect`, `TxDoneIsExpected`,
`AckTimerIsFresh` and `PacketIsInOnePlace` are the invariants of StackSafety. They
follow from `StackInv` (`StackInvariant`), whose parts need each other:

- `ShapeInv`: which function may run in which context, and what may be below it. A
  context's stack is a sequence, but only its head matters to the rest (`fnOf`,
  `argOf`): the lemmas `SackMoves` to `WriteMoves` and `Starts` translate every action
  into a move of one context from one function to another (`Goes`), and the preservation
  lemmas (`SackKeeps` to `WriteKeeps`, one per layer and one per kind of event) see only
  such moves.
- `MutexInv`: one writer at a time is past `tx_sem`.
- `TokenInv`: nobody waits and the packet is nowhere, or one writer waits and the packet
  is in one place. It is `PacketInOnePlace` without counting, so that a step is a token
  passed on. It rests on `RadioInv`, since a `tx_done` concerns the packet or an
  acknowledgement according to `sack_state`.
- `RadioInv`: the radio is asked, sends and reports one thing at a time, and
  `sack_state` says which: `sack_tx` spins for IDLE and an acknowledgement is sent only
  from IDLE.
- `TimerInv`: the timeout is armed or running, not both, and only during the wait it
  belongs to or until `sack_cancel` has stopped it. That a new wait cannot begin before
  `sack_cancel` has run rests on `TokenInv`: the packet is still there.

`StackServiceProofs`: `UsesRadioService`, `Spec => UsesService`. A step of `sack_tx` or
`sack_rx_data` that reaches `radio_tx` is `Tx`, `radio_tx` is `Accept`, the radio's answer
is `Finish`, `sack_tx_done` is `Deliver`; everything else leaves the mapping alone.
Together with `Refinement` the contract is proved from both sides.

`StackLayerProofs` adds an invariant on top of `StackInv` for each of four promises.

- `CsmaInv` for `CsmaIsIdleOnTx` and `CsmaDefersEveryTx`: csma.c is busy only with a
  packet below it. Both assume that settings change between writes (`Toggles` =
  "between"); `MANUAL.md:255` allows it for CSMA only while the radio is off. Both are
  false otherwise: with CSMA
  switched off in mid-packet `csma_tx_done` does not reset `csma_state`, and once it is
  on again every packet is refused; a packet that has passed `csma_tx` with CSMA off is
  still handed down by an interrupt after it is on.
- `ReadInv` for `ReadIsFresh`: the length is never older than any part of the buffer, and
  a frame on its way up is newer than all of them; at each stage of `read` it is known what the process
  has seen of them. No further assumption, and any number of frames may arrive meanwhile.
- `StatusInv` for `SuccessIsAcked` and `PlainStatusHolds`: every place a packet passes
  holds the packet that is being written, and the status it carries is right (`Good`) at
  every stage from `sack_tx_done` to the return of `write`. `Fits`, `Stored` and
  `Outside` say so for the calls, for the places outside them, and for the writer before
  and after its wait; `TokenInv` gives that only one of them applies at a time, so each
  action is one of three moves (`TakesUp`, `PutsAway`, `Leaves`). `Kept` is needed for
  LPL, which retransmits from its own copy; `HeardInv` for acknowledgements, which
  come only for what was sent; `Numbered` to know that a packet about
  to be written has never been sent and that none sent is later than the one being
  written. Three hypotheses: `OneWriter`, as `MANUAL.md:106`
  wants, since `tx_result` is read after `tx_sem` is given back; `AckInTime`, that no
  acknowledgement is so late that its sequence number has been used again, since
  `is_ack_to` compares nothing else; and, for
  `SuccessIsAcked`, settings that change between writes, since LPL enabled in mid-packet
  retransmits what its buffer held before. TLC shows that either theorem is false with
  two writers, and `SuccessIsAcked` with an ioctl in mid-packet or numbers used again.
  `AckInTime` is about the air and the user, not the driver; `OwnNumbersInTime` shows that
  it holds of every behaviour in which each packet has a number of its own.
- `UniqueInv` for `UniqueIsExact`: `UniqueExact` speaks of the whole past, and `NodeInv`
  says what `nodes` keeps of it, namely for each sender the number of the last frame that
  reached the filter, or no entry if none of its frames has left one. The rest is that a
  frame appended to the history changes nothing that was said of the earlier ones
  (`PastRemains`), and that it repeats the last frame of its sender or none
  (`NewRepeats`). By `SrcExact` the address read from the header is the sender's. Two
  senders are one, here as in `unique.c:75`, if their addresses are the same 64-bit
  number: a short address and an extended one of the same value, or no address and
  address 0. No further assumption.

### Loading

`LifecycleProofs`, for any number of loads: `TypeCorrect`, `CarefulUseIsSafe`,
`NothingCallsInAfter`, `LoadIsNotBlocked`. In `LifecycleInv`, `LoadInv` says that a load
holds exactly what it has asked for up to its layer and step, except for what was refused
unnoticed, and that from the SPI layer on the device on the bus is its own; `FreeInv`
that whatever calls into the module is still on the list of free functions to come, which
names none twice; `UseInv` that a careful user has nothing under way while the module is
not loaded; `LeftInv` that nothing there is only one of is ever left over, and that a file
is open or the timer running outside "ready" only after a careless use. `CarefulUseSafe` needs all three: no operation starts outside "ready", and in
"ready" everything an operation needs is held and bound.

TLC checked each of these invariants (`StackInv`, `CsmaInv`, `ReadInv`, `StatusInv`,
`UniqueInv`, `LifecycleInv`) on instances like those of the runs before it was proved.

### Only model-checked

- Liveness (`TxAnswered`, `RxReleased`, `ConfigReturns`, `WriteReturns`): out of reach of
  TLAPS.

All other properties of the passing runs are theorems, under the hypotheses named above.
`Calm` is sufficient and not necessary: `RxIntact` and `RxInOrder` may hold of behaviours
that are not.

## 5. Not modelled

Register values; lengths of packets; the lengths of timers as state (`Stack` lets a
timer expire at any time, `Timing` says how long it runs); timestamps, which are stored
and never used; logging and `set_print`; the SPI controller patch and the user programs.
`spi_async` is taken to succeed. `cc2520_unique_free` and `cc2520_packet_get_payload`
are never called. In `Lifecycle` the seven pins are one acquisition, and what happens inside a layer is
left to `Radio` and `Stack`.

Spin locks make the code between lock and unlock one step. The saved interrupt
flags are shared static variables, which is harmless on the single-core board the
driver is written for (interrupts are off while they are in use) but would not be
on a multiprocessor; interrupt masks are not modelled.

The combination of acknowledgements with `on`/`off` is in RadioSafety (`Acks` =
"any") but not in RadioLive (`Acks` = "configured"): an acknowledgement spinning
in the SPI callback and an ioctl waiting for the SPI pump block each other. The
manual forbids switching the radio while packets are sent or received.

## 6. Plan

Every invariant and action property of the passing runs is proved, and both
refinements; what the runs check and no theorem states is liveness. What is left:

1. The hazards of `PROJECT.json` without a property, which need more data than the
   models keep: lengths of packets (`interface.c:130`), widths of the status
   (`interface.c:72`) and times (`lpl.c:162`, `csma.c:112`, which `Timing` treats as
   functions).
2. `spi_async` that fails (`radio.c:458`), a multiprocessor (`radio.c:59`).
3. A condition on the times at which acknowledgements arrive that implies `AckInTime`
   for numbers that are counted up and wrap.
