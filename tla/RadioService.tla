---------------------------- MODULE RadioService ----------------------------
(***************************************************************************)
(* The contract between the radio and the layer above it (the tx and       *)
(* tx_done pointers of struct cc2520_interface, cc2520.h): frames are      *)
(* handed over one at a time, each is accepted once, ends once, and is     *)
(* reported once before the next may be handed over.  A transmission that  *)
(* failed is reported by the SPI thread, one that succeeded by the SPI     *)
(* thread or the SFD interrupt.                                            *)
(*                                                                         *)
(* Radio implements it, and the layers above rely on it; both refinements  *)
(* are checked.                                                            *)
(***************************************************************************)
CONSTANTS Callers, Frames, None, Success, Failed

VARIABLES
  asked,     \* calls of tx that have not been accepted: <<caller, frame>>
  sending,   \* the frame that was accepted, None if none
  report     \* calls of tx_done under way: <<context, status>>

vars == <<asked, sending, report>>

Init == asked = {} /\ sending = None /\ report = {}

Tx(c, f) ==
  /\ asked = {} /\ sending = None /\ report = {}
  /\ asked' = {<<c, f>>}
  /\ UNCHANGED <<sending, report>>

Accept(c, f) ==
  /\ <<c, f>> \in asked
  /\ sending = None
  /\ asked' = asked \ {<<c, f>>}
  /\ sending' = f
  /\ UNCHANGED report

Finish(by, status) ==
  /\ sending # None /\ report = {}
  /\ status = Success \/ by = "spi"
  /\ sending' = None
  /\ report' = {<<by, status>>}
  /\ UNCHANGED asked

Deliver ==
  /\ report # {}
  /\ report' = {}
  /\ UNCHANGED <<asked, sending>>

Next ==
  \/ \E c \in Callers, f \in Frames : Tx(c, f) \/ Accept(c, f)
  \/ \E by \in {"spi", "sfd"}, status \in {Success, Failed} : Finish(by, status)
  \/ Deliver

Spec == Init /\ [][Next]_vars
=============================================================================
