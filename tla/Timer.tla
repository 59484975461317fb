------------------------------- MODULE Timer --------------------------------
(***************************************************************************)
(* Delays of devices/timer.c, as operators.  The machine runs the loop of  *)
(* busy_wait() speed times from one tick to the next, which is external.   *)
(* The factors 1000 and 2^10 of the code are parameters.                   *)
(***************************************************************************)
EXTENDS Integers

CONSTANTS
  TIMER_FREQ,  \* ticks per second
  Thousand,    \* denominators are powers of it
  FirstLoops,  \* where timer_calibrate() starts, 2^10
  UINT         \* unsigned counts modulo UINT

\* Division of C, towards zero.
Quotient(a, b) == IF a >= 0 THEN a \div b ELSE - ((- a) \div b)

\* External: whether so many loops take more than a tick.
too_many_loops(loops, speed) == loops > speed

\* The largest power of two that is not too many, or 0 if the ASSERT fails.
RECURSIVE Doubled(_, _)
Doubled(loops, speed) ==
  LET twice == (2 * loops) % UINT
  IN IF too_many_loops(twice, speed) THEN loops
     ELSE IF twice = 0 THEN 0 ELSE Doubled(twice, speed)

\* Each bit below the highest is kept unless it makes the loop too long.
RECURSIVE Refined(_, _, _, _)
Refined(loops, test_bit, last, speed) ==
  IF test_bit = last THEN loops
  ELSE Refined(IF too_many_loops(loops + test_bit, speed) THEN loops ELSE loops + test_bit,
               test_bit \div 2, last, speed)

\* loops_per_tick.
timer_calibrate(speed) ==
  LET high_bit == Doubled(FirstLoops, speed)
  IN Refined(high_bit, high_bit \div 2, high_bit \div FirstLoops, speed)

\* The loops of busy_wait().
real_time_delay(num, denom, loops_per_tick) ==
  Quotient(Quotient(loops_per_tick * num, Thousand) * TIMER_FREQ, denom \div Thousand)

\* Whole ticks for timer_sleep() to see, which yields until then, or a delay.
real_time_sleep(num, denom, loops_per_tick) ==
  LET ticks == Quotient(num * TIMER_FREQ, denom)
  IN IF ticks > 0 THEN [ticks |-> ticks, loops |-> 0]
     ELSE [ticks |-> 0, loops |-> real_time_delay(num, denom, loops_per_tick)]
-----------------------------------------------------------------------------
\* Calibration finds the speed from below, up to the bits after the ten it
\* tries; it stops at its ASSERT if the speed has as many bits as the counter.
CalibratesWell(speed) ==
  LET loops == timer_calibrate(speed)
  IN IF 2 * speed >= UINT THEN loops = 0
     ELSE loops <= speed /\ (speed - loops) * FirstLoops < 2 * speed

\* A caller that asks for num/denom seconds never gets more ticks than that,
\* less than one tick too few, and below a tick a delay that is short by no
\* more than what the two divisions round off.
SleepsLongEnough(num, denom, speed) ==
  LET s == real_time_sleep(num, denom, speed)
      asked == num * TIMER_FREQ
  IN IF num <= 0 THEN s.ticks = 0 /\ s.loops <= 0
     ELSE IF s.ticks > 0 THEN s.ticks * denom <= asked /\ asked < (s.ticks + 1) * denom
     ELSE /\ s.loops * denom <= asked * speed
          /\ asked * speed < s.loops * denom + denom + TIMER_FREQ * Thousand
=============================================================================
