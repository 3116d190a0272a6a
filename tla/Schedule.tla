------------------------------ MODULE Schedule ------------------------------
(***************************************************************************)
(* The delays between synchronizations.  A duration is a number of seconds *)
(* up to Longest, where its arithmetic saturates; the multiplier has Bits  *)
(* bits.                                                                   *)
(***************************************************************************)
EXTENDS Naturals, Evaluation

CONSTANTS
  Bits, Longest,
  Schedules,    \* durations [interval, jitter, initial, maximum]
  MaxFailures   \* bound of the failures in a row

ASSUME ScheduleAssumption ==
  /\ Bits \in Nat \ {0} /\ Longest \in Nat \ {0} /\ MaxFailures \in Nat
  /\ Schedules \subseteq
       [interval: 0 .. Longest, jitter: 0 .. Longest,
        initial: 0 .. Longest, maximum: 0 .. Longest]

Least(a, b)         == IF a < b THEN a ELSE b
SaturatingAdd(a, b) == Least(a + b, Longest)
SaturatingMul(a, b) == Least(a * b, Longest)
SaturatingSub(a, b) == IF a < b THEN 0 ELSE a - b

(* Mutant: the exponent is not limited; the shift takes it modulo the      *)
(* width.                                                                  *)
RetryDelayWrapped(schedule, failures) ==
  IF failures = 0 THEN 0
  ELSE Least(SaturatingMul(schedule.initial, 2 ^ ((failures - 1) % Bits)),
             schedule.maximum)

RetryDelay(schedule, failures) ==
  IF failures = 0 THEN 0
  ELSE Least(SaturatingMul(schedule.initial, 2 ^ Least(failures - 1, Bits - 1)),
             schedule.maximum)

PeriodicDelay(schedule, seed) ==
  IF schedule.jitter = 0 THEN schedule.interval
  ELSE LET width == SaturatingAdd(SaturatingMul(schedule.jitter, 2), 1) IN
       SaturatingAdd(SaturatingSub(schedule.interval, schedule.jitter),
                     seed % width)

Delay ==
  work = Idle /\ \E schedule \in Schedules, failures \in 0 .. MaxFailures, seed \in 0 .. Longest :
    Evaluate("delay", [schedule |-> schedule, failures |-> failures, seed |-> seed],
      [retry |-> RetryDelay(schedule, failures),
       next  |-> RetryDelay(schedule, failures + 1),
       periodic |-> PeriodicDelay(schedule, seed)])

DelaySpec == work = Idle /\ [][Delay]_work

-----------------------------------------------------------------------------
(* A delay between attempts doubles with every failure up to its maximum,  *)
(* where the multiplier can reach it, and never becomes shorter with more  *)
(* of them; the period stays within its jitter.                            *)
DelaysBounded ==
  work.task = "delay" =>
    LET s == work.input.schedule
        f == work.input.failures
        doubled == s.initial * 2 ^ (f - 1)
    IN /\ f > 0 => /\ work.output.retry <= s.maximum
                   /\ work.output.retry <= doubled
                   /\ s.maximum <= s.initial * 2 ^ (Bits - 1)
                      => work.output.retry = Least(doubled, s.maximum)
       /\ work.output.retry <= work.output.next
       /\ s.jitter <= s.interval =>
            work.output.periodic \in s.interval - s.jitter .. s.interval + s.jitter
=============================================================================
