-------------------------------- MODULE Lpl ---------------------------------
(***************************************************************************)
(* lpl.c: a packet is sent again and again until its acknowledgement       *)
(* arrives or the window of the sleeping receiver has passed.              *)
(***************************************************************************)
EXTENDS Csma

VARIABLES lpl_enabled, lpl_state,
          lpl_tx_buf     \* cur_tx_buf

lplVars == <<lpl_enabled, lpl_state, lpl_tx_buf>>

LplTypeOK ==
  /\ lpl_enabled \in BOOLEAN
  /\ lpl_state \in {"IDLE", "TX", "TIMER_EXPIRED"}
  /\ lpl_tx_buf \in Packets \cup {Uninit}

LplInit(enabled) ==
  /\ lpl_enabled = enabled
  /\ lpl_state = "IDLE"
  /\ lpl_tx_buf = Uninit

\* The window starts when the first send has returned
lpl_tx(c) ==
  /\ At(c, "lpl_tx")
  /\ \/ /\ lpl_enabled /\ lpl_state = "IDLE"
        /\ lpl_state' = "TX"
        /\ lpl_tx_buf' = Arg(c)
        /\ Then(c, <<Frame("csma_tx", Arg(c)), Frame("lpl_start_timer", 0)>>)
     \/ /\ lpl_enabled /\ lpl_state # "IDLE"
        /\ Then(c, <<Frame("interface_tx_done", BUSY)>>)
        /\ UNCHANGED <<lpl_state, lpl_tx_buf>>
     \/ /\ ~lpl_enabled
        /\ Then(c, <<Frame("csma_tx", Arg(c))>>)
        /\ UNCHANGED <<lpl_state, lpl_tx_buf>>
  /\ UNCHANGED <<armed, lpl_enabled>>

lpl_start_timer(c) ==
  /\ At(c, "lpl_start_timer")
  /\ hrtimer_start("lpl_timer")
  /\ Return(c)
  /\ UNCHANGED lplVars

\* An acknowledged packet is done
lpl_tx_acked(c) ==
  /\ At(c, "lpl_tx_done")
  /\ lpl_enabled /\ MayWantAck(lpl_tx_buf) /\ Arg(c) = SUCCESS
  /\ lpl_state' = "IDLE"
  /\ Then(c, <<Frame("lpl_cancel", 0)>>)
  /\ UNCHANGED <<armed, lpl_enabled, lpl_tx_buf>>

lpl_cancel(c) ==
  /\ At(c, "lpl_cancel")
  /\ hrtimer_cancel("lpl_timer")
  /\ Then(c, <<Frame("interface_tx_done", SUCCESS)>>)
  /\ UNCHANGED lplVars

\* Any other is sent again until the window has passed, and then reported:
\* as a failure if it asks for an acknowledgement, else as a success
lpl_tx_again(c) ==
  /\ At(c, "lpl_tx_done")
  /\ lpl_enabled
  /\ \/ /\ lpl_state = "TIMER_EXPIRED"
        /\ lpl_state' = "IDLE"
        /\ \/ /\ MayWantAck(lpl_tx_buf) /\ Arg(c) # SUCCESS
              /\ Then(c, <<Frame("interface_tx_done", FAILED)>>)
           \/ /\ MayWantNone(lpl_tx_buf)
              /\ Then(c, <<Frame("interface_tx_done", SUCCESS)>>)
     \/ /\ lpl_state # "TIMER_EXPIRED"
        /\ MayWantNone(lpl_tx_buf) \/ Arg(c) # SUCCESS
        /\ Then(c, <<Frame("csma_tx", lpl_tx_buf)>>)
        /\ UNCHANGED lpl_state
  /\ UNCHANGED <<armed, lpl_enabled, lpl_tx_buf>>

lpl_tx_through(c) ==
  /\ At(c, "lpl_tx_done")
  /\ ~lpl_enabled
  /\ Then(c, <<Frame("interface_tx_done", Arg(c))>>)
  /\ UNCHANGED <<armed, lplVars>>

lpl_expire == Expire("lpl_timer", "lpl_timer_cb") /\ UNCHANGED lplVars

\* Mutant of lpl_timer_cb: the end of the window is not recorded
lpl_timer_cb_ignored(c) ==
  /\ At(c, "lpl_timer_cb")
  /\ Return(c)
  /\ UNCHANGED <<armed, lplVars>>

lpl_timer_cb(c) ==
  /\ At(c, "lpl_timer_cb")
  /\ lpl_state' = IF lpl_state = "TX" THEN "TIMER_EXPIRED" ELSE lpl_state
  /\ Return(c)
  /\ UNCHANGED <<armed, lpl_enabled, lpl_tx_buf>>

lpl_set_enabled(enabled) ==
  /\ lpl_enabled' = enabled
  /\ UNCHANGED <<stack, armed, lpl_state, lpl_tx_buf>>

LplStep(c) ==
  \/ lpl_tx(c) \/ lpl_start_timer(c) \/ lpl_tx_acked(c) \/ lpl_cancel(c)
  \/ lpl_tx_again(c) \/ lpl_tx_through(c) \/ lpl_timer_cb(c)
=============================================================================
