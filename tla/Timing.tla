------------------------------- MODULE Timing -------------------------------
(***************************************************************************)
(* How long the timers run: the arithmetic csma.c, lpl.c and sack.c do on  *)
(* the periods an ioctl has given them, in 32 bits.  Stack leaves the      *)
(* lengths open; this module says when they are the ones asked for.        *)
(***************************************************************************)
EXTENDS Integers

INT_MAX == 2147483647
W == 2 * (INT_MAX + 1)    \* 2^32

u32(x) == x % W
s32(x) == IF x % W <= INT_MAX THEN x % W ELSE (x % W) - W

\* rand_num is unsigned, so the remainder and the sum are unsigned too; a span
\* of zero is a division by zero
get_backoff(min, max, rand_num) == s32(u32(min) + (rand_num % u32(max - min)))

\* The nanoseconds given to ktime_set by the three start_timer functions
csma_start_timer(us_period)      == s32(1000 * us_period)
sack_start_timer(ack_timeout)    == s32(1000 * ack_timeout)
lpl_start_timer(interval, window) == s32(1000 * (interval + 2 * window))
=============================================================================
