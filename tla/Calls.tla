-------------------------------- MODULE Calls -------------------------------
(***************************************************************************)
(* How the layers call each other.  Every layer above the radio is code    *)
(* that runs in the context of whoever calls it: a process in write(), a   *)
(* timer callback, the csma work queue, the SPI thread or the SFD          *)
(* interrupt.  A context has a stack of the functions it still has to run, *)
(* the current one first; a step replaces that one by the calls it makes.  *)
(*                                                                         *)
(* The high resolution timers are those of the kernel: a timer may expire  *)
(* at any time after it was armed, and its callback is a context.          *)
(***************************************************************************)
EXTENDS Integers, Sequences

CONSTANT Writers     \* processes that call write()

ASSUME WritersAssumption ==
  /\ Writers # {}
  /\ Writers \cap {"lpl_timer", "csma_timer", "sack_timer", "wq", "spi", "sfd"} = {}

VARIABLES
  stack,    \* for each context what it still has to run
  armed     \* timers that have been started and have not expired

callVars == <<stack, armed>>

Timers   == {"lpl_timer", "csma_timer", "sack_timer"}
Irqs     == Timers \cup {"sfd"}           \* contexts that cannot be preempted
Contexts == Writers \cup Timers \cup {"wq", "spi", "sfd"}

CallsInit ==
  /\ stack = [c \in Contexts |-> <<>>]
  /\ armed = {}

Frame(fn, arg) == [fn |-> fn, arg |-> arg]
Idle(c)        == stack[c] = <<>>
At(c, fn)      == ~Idle(c) /\ Head(stack[c]).fn = fn
Arg(c)         == Head(stack[c]).arg

\* The running function of c ends after making the given calls
Then(c, calls) == stack' = [stack EXCEPT ![c] = calls \o Tail(@)]
Return(c)      == Then(c, <<>>)

\* An idle context starts to run a function
Enter(c, fn, arg) == Idle(c) /\ stack' = [stack EXCEPT ![c] = <<Frame(fn, arg)>>]

hrtimer_start(t) == armed' = armed \cup {t}

\* Waits for a running callback, then nothing of the timer is left
hrtimer_cancel(t) == Idle(t) /\ armed' = armed \ {t}

\* Who calls a timer's callback; arg is not used
Expire(t, callback) ==
  /\ t \in armed
  /\ Enter(t, callback, 0)
  /\ armed' = armed \ {t}

\* The status codes are negated and passed on as u8
SUCCESS == 0
u8(n)   == n % 256
BUSY        == u8(-1)
ACK_TIMEOUT == u8(-3)
FAILED      == u8(-4)
Statuses == {SUCCESS, BUSY, ACK_TIMEOUT, FAILED}
=============================================================================
