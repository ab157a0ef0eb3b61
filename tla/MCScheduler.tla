----------------------------- MODULE MCScheduler -----------------------------
(***************************************************************************)
(* Instances of Scheduler for TLC.  A schedule is a period: its slots are  *)
(* the multiples of the period.  A unit of time is the period of the       *)
(* fastest schedule.                                                       *)
(***************************************************************************)
EXTENDS Scheduler

CONSTANTS Fast, Slow     \* the two schedules

PeriodOf(s) == IF s = Fast THEN 1 ELSE 3
MCLastTick(s, t) == (t \div PeriodOf(s)) * PeriodOf(s)
=============================================================================
