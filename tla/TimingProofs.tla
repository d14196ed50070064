---------------------------- MODULE TimingProofs ----------------------------
(***************************************************************************)
(* When the timers of csma.c, lpl.c and sack.c run for the time asked for. *)
(***************************************************************************)
EXTENDS Timing, TLAPS

\* A value that fits is not changed by the conversions.
LEMMA Fits ==
  INT_MAX \in Nat /\ \A x \in 0..INT_MAX : u32(x) = x /\ s32(x) = x
<1>1. INT_MAX \in Nat
  BY SMT DEF INT_MAX
<1>2. ASSUME NEW x \in 0..INT_MAX PROVE x % W = x
  BY <1>1, <1>2, SMT DEF W
<1>3. QED
  BY <1>1, <1>2, SMT DEF u32, s32

\* A backoff is at least the minimum and below the maximum, for every random
\* number, as long as the ioctl has set a minimum below the maximum.
THEOREM BackoffInRange ==
  \A min, max \in 0..INT_MAX, rand_num \in 0..(W - 1) :
     min < max => get_backoff(min, max, rand_num) \in min..(max - 1)
<1> SUFFICES ASSUME NEW min \in 0..INT_MAX, NEW max \in 0..INT_MAX,
                    NEW rand_num \in 0..(W - 1), min < max
             PROVE  get_backoff(min, max, rand_num) \in min..(max - 1)
  OBVIOUS
<1>1. u32(min) = min /\ u32(max - min) = max - min
  <2>1. max - min \in 0..INT_MAX
    BY Fits, SMT
  <2>2. QED
    BY <2>1, Fits
<1>2. PICK r \in 0..(max - min - 1) : r = rand_num % (max - min)
  <2>1. rand_num \in Int /\ max - min \in Int /\ max - min > 0
    BY Fits, SMT DEF W
  <2>2. rand_num % (max - min) \in 0..(max - min - 1)
    BY <2>1
  <2>3. QED
    BY <2>2
<1>3. min + r \in 0..INT_MAX /\ min + r \in min..(max - 1)
  BY <1>2, Fits, SMT
<1>4. s32(min + r) = min + r
  BY <1>3, Fits
<1>5. QED
  BY <1>1, <1>2, <1>3, <1>4 DEF get_backoff

\* The three timers run for the microseconds asked for as long as the same time
\* in nanoseconds fits an int (2.1 s); for low power listening this bounds the
\* interval and two windows.
THEOREM PeriodExact ==
  /\ \A us \in Nat : 1000 * us <= INT_MAX =>
        csma_start_timer(us) = 1000 * us /\ sack_start_timer(us) = 1000 * us
  /\ \A interval, window \in Nat : 1000 * (interval + 2 * window) <= INT_MAX =>
        lpl_start_timer(interval, window) = 1000 * (interval + 2 * window)
<1>1. \A us \in Nat : 1000 * us <= INT_MAX => s32(1000 * us) = 1000 * us
  BY Fits, SMT
<1>2. ASSUME NEW interval \in Nat, NEW window \in Nat,
             1000 * (interval + 2 * window) <= INT_MAX
      PROVE  lpl_start_timer(interval, window) = 1000 * (interval + 2 * window)
  <2>1. PICK us \in Nat : us = interval + 2 * window
    BY SMT
  <2>2. s32(1000 * us) = 1000 * us
    BY <1>1, <1>2, <2>1
  <2>3. QED
    BY <2>1, <2>2 DEF lpl_start_timer
<1>3. QED
  BY <1>1, <1>2 DEF csma_start_timer, sack_start_timer
=============================================================================
