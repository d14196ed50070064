------------------------------ MODULE Interface -----------------------------
(***************************************************************************)
(* interface.c: the character device.  write() sends one packet and waits  *)
(* for its tx_done; read() sleeps until a frame arrives.                   *)
(***************************************************************************)
EXTENDS Unique

CONSTANTS
  Readers,      \* processes that call read()
  PktLen        \* what a successful write() returns

ASSUME InterfaceAssumption == PktLen \in 1..128

VARIABLES
  tx_sem, tx_done_sem,
  tx_result,
  nwrites,       \* writes made; write number n sends packet n
  writing,       \* for each writer the packet it is writing
  ret,           \* for each writer what its last write() returned, 0 if nothing
  rx_buf_c,      \* for each part of the buffer the delivery in it, 0 if none
  rx_pkt_len,    \* the delivery whose length is in rx_pkt_len
  reader,        \* for each reader how far its read() is
  got            \* for each reader the delivery that woke it, 0 if a signal did,
                 \* and those it was given the size of the copy, the parts of the
                 \* frame and the returned length of

ifcVars  == <<tx_sem, tx_done_sem, tx_result, nwrites, writing, ret>>
readVars == <<rx_buf_c, rx_pkt_len, reader, got>>

EAGAIN == -11
EFAULT == -14
ERESTARTSYS == -512

\* A frame is copied in parts, byte by byte in the end; two show what can happen
Parts   == {"head", "tail"}
Unread  == -1
Nothing == [woken |-> 0, size |-> 0, buf |-> [p \in Parts |-> Unread], len |-> 0]

InterfaceTypeOK ==
  /\ tx_sem \in {0, 1}
  /\ tx_done_sem \in {0, 1}
  /\ tx_result \in Statuses
  /\ nwrites \in Packets \cup {0}
  /\ writing \in [Writers -> Packets \cup {NoPkt}]
  /\ ret \in [Writers -> Statuses \cup {PktLen, EAGAIN, EFAULT, ERESTARTSYS}]
  /\ rx_buf_c \in [Parts -> 0..Len(delivered)]
  /\ rx_pkt_len \in 0..Len(delivered)
  /\ reader \in [Readers -> {"idle", "asleep", "awake", "copying"}]
  /\ got \in [Readers -> [woken : 0..Len(delivered), size : 0..Len(delivered),
                          buf : [Parts -> 0..Len(delivered) \cup {Unread}],
                          len : 0..Len(delivered)]]

InterfaceInit ==
  /\ tx_sem = 1
  /\ tx_done_sem = 0
  /\ tx_result = SUCCESS
  /\ nwrites = 0
  /\ writing = [w \in Writers |-> NoPkt]
  /\ ret = [w \in Writers |-> 0]
  /\ rx_buf_c = [p \in Parts |-> 0]
  /\ rx_pkt_len = 0
  /\ reader = [r \in Readers |-> "idle"]
  /\ got = [r \in Readers |-> Nothing]

-----------------------------------------------------------------------------
(* write().                                                                *)

interface_write(w) ==
  /\ nwrites + 1 \in Packets
  /\ nwrites' = nwrites + 1
  /\ Enter(w, "write_down", nwrites + 1)
  /\ writing' = [writing EXCEPT ![w] = nwrites + 1]
  /\ ret' = [ret EXCEPT ![w] = 0]
  /\ UNCHANGED <<armed, tx_sem, tx_done_sem, tx_result>>

\* The semaphore is free: it is taken and the packet copied
write_down(w) ==
  /\ At(w, "write_down")
  /\ tx_sem = 1
  /\ tx_sem' = 0
  /\ Then(w, <<Frame("lpl_tx", Arg(w)), Frame("write_wait", 0)>>)
  /\ UNCHANGED <<armed, tx_done_sem, tx_result, nwrites, writing, ret>>

\* Nothing is sent: the caller does not block, a signal comes while it waits,
\* or its buffer cannot be read, in which case tx_sem is taken and given back
write_refused(w) ==
  /\ At(w, "write_down")
  /\ \/ tx_sem = 0 /\ ret' = [ret EXCEPT ![w] = EAGAIN]
     \/ tx_sem = 0 /\ "signal" \in Faults /\ ret' = [ret EXCEPT ![w] = ERESTARTSYS]
     \/ tx_sem = 1 /\ "efault" \in Faults /\ ret' = [ret EXCEPT ![w] = EFAULT]
  /\ writing' = [writing EXCEPT ![w] = NoPkt]
  /\ Return(w)
  /\ UNCHANGED <<armed, tx_sem, tx_done_sem, tx_result, nwrites>>

\* Mutant of write_wait: the semaphore is looked at but not taken
write_wait_peeks(w) ==
  /\ At(w, "write_wait")
  /\ tx_done_sem > 0
  /\ Then(w, <<Frame("write_up", 0)>>)
  /\ UNCHANGED <<armed, tx_sem, tx_done_sem, tx_result, nwrites, writing, ret>>

write_wait(w) ==
  /\ At(w, "write_wait")
  /\ tx_done_sem > 0
  /\ tx_done_sem' = tx_done_sem - 1
  /\ Then(w, <<Frame("write_up", 0)>>)
  /\ UNCHANGED <<armed, tx_sem, tx_result, nwrites, writing, ret>>

write_up(w) ==
  /\ At(w, "write_up")
  /\ tx_sem' = tx_sem + 1
  /\ Then(w, <<Frame("write_return", 0)>>)
  /\ UNCHANGED <<armed, tx_done_sem, tx_result, nwrites, writing, ret>>

\* tx_result is an int that was assigned a u8
write_return(w) ==
  /\ At(w, "write_return")
  /\ ret' = [ret EXCEPT ![w] = IF tx_result # 0 THEN tx_result ELSE PktLen]
  /\ Return(w)
  /\ UNCHANGED <<armed, tx_sem, tx_done_sem, tx_result, nwrites, writing>>

interface_tx_done(c) ==
  /\ At(c, "interface_tx_done")
  /\ tx_result' = Arg(c)
  /\ tx_done_sem' = tx_done_sem + 1
  /\ Return(c)
  /\ UNCHANGED <<armed, tx_sem, nwrites, writing, ret>>

-----------------------------------------------------------------------------
(* Received frames, and read().  Nothing protects rx_buf_c and rx_pkt_len  *)
(* against a process that is reading them, and either copy may be          *)
(* overtaken by the other in the middle.                                   *)

\* Every reader that sleeps is woken by delivery d
wake_up(d) ==
  /\ reader' = [r \in Readers |-> IF reader[r] = "asleep" THEN "awake" ELSE reader[r]]
  /\ got' = [r \in Readers |-> IF reader[r] = "asleep" THEN [got[r] EXCEPT !.woken = d]
                                                       ELSE got[r]]

\* Mutant of interface_rx_done: readers are woken before the copy
interface_rx_done_wakesEarly(c) ==
  /\ At(c, "interface_rx_done")
  /\ rx_pkt_len' = Arg(c)
  /\ Then(c, <<Frame("rx_copy", Arg(c))>>)
  /\ wake_up(Arg(c))
  /\ UNCHANGED <<armed, rx_buf_c>>

interface_rx_done(c) ==
  /\ At(c, "interface_rx_done")
  /\ rx_pkt_len' = Arg(c)
  /\ Then(c, <<Frame("rx_copy", Arg(c))>>)
  /\ UNCHANGED <<armed, rx_buf_c, reader, got>>

\* A part of the memcpy
rx_copy(c) ==
  /\ At(c, "rx_copy")
  /\ \E p \in Parts :
       /\ rx_buf_c[p] # Arg(c)
       /\ rx_buf_c' = [rx_buf_c EXCEPT ![p] = Arg(c)]
  /\ UNCHANGED <<callVars, rx_pkt_len, reader, got>>

rx_wake(c) ==
  /\ At(c, "rx_copy")
  /\ \A p \in Parts : rx_buf_c[p] = Arg(c)
  /\ wake_up(Arg(c))
  /\ Return(c)
  /\ UNCHANGED <<armed, rx_buf_c, rx_pkt_len>>

interface_read(r) ==
  /\ reader[r] = "idle"
  /\ reader' = [reader EXCEPT ![r] = "asleep"]
  /\ got' = [got EXCEPT ![r] = Nothing]
  /\ UNCHANGED <<callVars, rx_buf_c, rx_pkt_len>>

\* interruptible_sleep_on also ends on a signal, and read() goes on all the same
read_signal(r) ==
  /\ reader[r] = "asleep"
  /\ "signal" \in Faults
  /\ reader' = [reader EXCEPT ![r] = "awake"]
  /\ UNCHANGED <<callVars, rx_buf_c, rx_pkt_len, got>>

\* copy_to_user is called with the length of the moment
read_size(r) ==
  /\ reader[r] = "awake"
  /\ reader' = [reader EXCEPT ![r] = "copying"]
  /\ got' = [got EXCEPT ![r].size = rx_pkt_len]
  /\ UNCHANGED <<callVars, rx_buf_c, rx_pkt_len>>

read_copy(r) ==
  /\ reader[r] = "copying"
  /\ \E p \in Parts :
       /\ got[r].buf[p] = Unread
       /\ got' = [got EXCEPT ![r].buf[p] = rx_buf_c[p]]
  /\ UNCHANGED <<callVars, rx_buf_c, rx_pkt_len, reader>>

\* The user's buffer cannot be written: -EFAULT
read_fault(r) ==
  /\ reader[r] = "copying"
  /\ "efault" \in Faults
  /\ reader' = [reader EXCEPT ![r] = "idle"]
  /\ got' = [got EXCEPT ![r] = Nothing]
  /\ UNCHANGED <<callVars, rx_buf_c, rx_pkt_len>>

\* rx_pkt_len is read again for the return value
read_return(r) ==
  /\ reader[r] = "copying"
  /\ \A p \in Parts : got[r].buf[p] # Unread
  /\ reader' = [reader EXCEPT ![r] = "idle"]
  /\ got' = [got EXCEPT ![r].len = rx_pkt_len]
  /\ UNCHANGED <<callVars, rx_buf_c, rx_pkt_len>>

WriteStep(c) ==
  \/ c \in Writers /\ ( \/ write_down(c) \/ write_refused(c) \/ write_wait(c)
                        \/ write_up(c) \/ write_return(c) )
  \/ interface_tx_done(c)
RxStep(c) == interface_rx_done(c) \/ rx_copy(c) \/ rx_wake(c)
ReadStep(r) == read_size(r) \/ read_copy(r) \/ read_fault(r) \/ read_return(r)
=============================================================================
