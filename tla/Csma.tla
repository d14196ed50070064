-------------------------------- MODULE Csma --------------------------------
(***************************************************************************)
(* csma.c: a packet waits for a random time and is sent if the channel is  *)
(* then clear; a busy channel is given one more chance.  The send itself   *)
(* is done by a work queue.  Only the order of events matters here, so the *)
(* length of a backoff is left open.                                       *)
(***************************************************************************)
EXTENDS Sack

VARIABLES csma_enabled, csma_state,
          csma_tx_buf,   \* cur_tx_buf
          work           \* the send is queued on the work queue

csmaVars == <<csma_enabled, csma_state, csma_tx_buf, work>>

CsmaTypeOK ==
  /\ csma_enabled \in BOOLEAN
  /\ csma_state \in {"IDLE", "TX", "CONG"}
  /\ csma_tx_buf \in Packets \cup {Uninit}
  /\ work \in BOOLEAN

CsmaInit(enabled) ==
  /\ csma_enabled = enabled
  /\ csma_state = "IDLE"
  /\ csma_tx_buf = Uninit
  /\ work = FALSE

csma_tx(c) ==
  /\ At(c, "csma_tx")
  /\ \/ /\ ~csma_enabled
        /\ Then(c, <<Frame("sack_tx", Arg(c))>>)
        /\ UNCHANGED <<armed, csmaVars>>
     \/ /\ csma_enabled /\ csma_state = "IDLE"
        /\ csma_state' = "TX"
        /\ csma_tx_buf' = Arg(c)
        /\ hrtimer_start("csma_timer")
        /\ Return(c)
        /\ UNCHANGED <<csma_enabled, work>>
     \/ /\ csma_enabled /\ csma_state # "IDLE"
        /\ Then(c, <<Frame("lpl_tx_done", BUSY)>>)
        /\ UNCHANGED <<armed, csmaVars>>

csma_expire == Expire("csma_timer", "csma_timer_cb") /\ UNCHANGED csmaVars

\* Mutant of csma_timer_clear: the callback sends the packet itself
csma_timer_clear_sends(c) ==
  /\ At(c, "csma_timer_cb")
  /\ Then(c, <<Frame("sack_tx", csma_tx_buf)>>)
  /\ UNCHANGED <<armed, csmaVars>>

\* The CCA pin may have either value whenever it is read
csma_timer_clear(c) ==
  /\ At(c, "csma_timer_cb")
  /\ work' = TRUE
  /\ Return(c)
  /\ UNCHANGED <<armed, csma_enabled, csma_state, csma_tx_buf>>

csma_timer_busy(c) ==
  /\ At(c, "csma_timer_cb")
  /\ \/ /\ csma_state = "TX"
        /\ csma_state' = "CONG"
        /\ hrtimer_start("csma_timer")
        /\ Return(c)
     \/ /\ csma_state # "TX"
        /\ csma_state' = "IDLE"
        /\ Then(c, <<Frame("lpl_tx_done", BUSY)>>)
        /\ UNCHANGED armed
  /\ UNCHANGED <<csma_enabled, csma_tx_buf, work>>

csma_wq ==
  /\ work
  /\ Enter("wq", "sack_tx", csma_tx_buf)
  /\ work' = FALSE
  /\ UNCHANGED <<armed, csma_enabled, csma_state, csma_tx_buf>>

\* Mutant of csma_tx_done: csma_state is not reset
csma_tx_done_noReset(c) ==
  /\ At(c, "csma_tx_done")
  /\ Then(c, <<Frame("lpl_tx_done", Arg(c))>>)
  /\ UNCHANGED <<armed, csmaVars>>

csma_tx_done(c) ==
  /\ At(c, "csma_tx_done")
  /\ csma_state' = IF csma_enabled THEN "IDLE" ELSE csma_state
  /\ Then(c, <<Frame("lpl_tx_done", Arg(c))>>)
  /\ UNCHANGED <<armed, csma_enabled, csma_tx_buf, work>>

csma_set_enabled(enabled) ==
  /\ csma_enabled' = enabled
  /\ UNCHANGED <<stack, armed, csma_state, csma_tx_buf, work>>

CsmaStep(c) ==
  csma_tx(c) \/ csma_timer_clear(c) \/ csma_timer_busy(c) \/ csma_tx_done(c)
=============================================================================
