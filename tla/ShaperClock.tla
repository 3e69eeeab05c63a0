---------------------------- MODULE ShaperClock ----------------------------
(***************************************************************************)
(* What the two shapers share: the monotonic clock, in ticks, and the      *)
(* attribute rate_bps, which the stand writes from another thread while    *)
(* the shaper's own thread reads it.  Rate 0 leaves the link unrestricted. *)
(***************************************************************************)
EXTENDS Integers, Sequences, FiniteSets

CONSTANTS Rates,      \* the capacities the stand may set, in units per tick
          MaxTime,    \* bound of the clock
          MaxQueue    \* max_queue_ms, in ticks

ASSUME RatesAssumption == Rates \subseteq Nat \ {0}
ASSUME TimeAssumption == MaxTime \in Nat /\ MaxQueue \in Nat

VARIABLES now,        \* time.monotonic()
          rate_bps    \* the capacity in force, 0 before the stand sets one

clockVars == <<now, rate_bps>>

MaxOf(a, b) == IF a >= b THEN a ELSE b

(* The time `size' units take at rate r: len(data) * 8 / rate.             *)
Service(size, r) == IF r = 0 THEN 0 ELSE size \div r

ClockInit ==
    /\ now = 0
    /\ rate_bps = 0

Tick ==
    /\ now < MaxTime
    /\ now' = now + 1
    /\ UNCHANGED rate_bps

(* The stand starts the measured rate after the bootstrap and may raise it *)
(* once during the run; it never lowers it and never returns to 0.         *)
SetRate(r) ==
    /\ r > rate_bps
    /\ rate_bps' = r
    /\ UNCHANGED now
=============================================================================
