------------------------------ MODULE GdeltSchedule ------------------------------
(***************************************************************************)
(* gdelt_ingestion_loop (services/gdelt_worker.py) in discrete time: a     *)
(* cycle, a sleep of interval_seconds, and after a cycle with errors a     *)
(* second sleep that doubles.  GDELT replaces its export periodically.     *)
(* One unit of time is the initial backoff, 30 seconds.                    *)
(***************************************************************************)
EXTENDS Naturals

CONSTANTS
  Interval,        \* interval_seconds: 10
  InitialBackoff,  \* INITIAL_BACKOFF_SECONDS: 1
  MaxBackoff,      \* MAX_BACKOFF_SECONDS: 10
  Period,          \* between two exports of GDELT: 30
  MaxCycle         \* bound on the duration of a cycle

ASSUME ScheduleAssumption ==
  /\ Interval \in Nat \ {0} /\ InitialBackoff \in Nat \ {0}
  /\ MaxBackoff \in Nat /\ InitialBackoff <= MaxBackoff
  /\ Period \in Nat \ {0} /\ MaxCycle \in Nat
(* Slowest round: a long cycle, the longest backoff, the interval.         *)
ASSUME RoundFits == MaxCycle + MaxBackoff + Interval <= Period

VARIABLES
  phase,     \* what the loop awaits
  left,      \* how much longer at most
  backoff,
  age,       \* age of the export
  polled, missed    \* it was polled; an earlier one never was

scheduleVars == <<phase, left, backoff, age, polled, missed>>

(* The loop starts with a cycle at once, at any moment of a period.        *)
ScheduleInit ==
  /\ phase = "first" /\ left = MaxCycle
  /\ backoff = InitialBackoff
  /\ age \in 0 .. Period - 1 /\ polled = TRUE /\ missed = FALSE

Least(a, b) == IF a < b THEN a ELSE b

Doubled(b) == Least(2 * b, MaxBackoff)

Sleep(where, n) == phase' = where /\ left' = n

(* A cycle without errors resets the backoff.                              *)
CycleSucceeds ==
  /\ phase \in {"first", "cycle"}
  /\ backoff' = InitialBackoff
  /\ Sleep("interval", Interval)
  /\ UNCHANGED <<age, polled, missed>>

(* Mutant of CycleFails: the backoff multiplies the interval.              *)
CycleFailsMultiplying ==
  /\ phase \in {"first", "cycle"}
  /\ backoff' = Doubled(backoff)
  /\ Sleep("backoff", Doubled(backoff) * Interval)
  /\ UNCHANGED <<age, polled, missed>>

(* Errors of the first cycle change nothing; later ones double the backoff *)
(* and then sleep.                                                         *)
CycleFails ==
  /\ \/ /\ phase = "first"
        /\ Sleep("interval", Interval) /\ UNCHANGED backoff
     \/ /\ phase = "cycle"
        /\ backoff' = Doubled(backoff)
        /\ Sleep("backoff", Doubled(backoff))
  /\ UNCHANGED <<age, polled, missed>>

(* The backoff is over: back to the top of the loop, which sleeps.         *)
BackoffEnds ==
  /\ phase = "backoff" /\ left = 0
  /\ Sleep("interval", Interval)
  /\ UNCHANGED <<backoff, age, polled, missed>>

(* The interval is over: the current export is polled.                     *)
IntervalEnds ==
  /\ phase = "interval" /\ left = 0
  /\ Sleep("cycle", MaxCycle) /\ polled' = TRUE
  /\ UNCHANGED <<backoff, age, missed>>

(* One unit of time; GDELT replaces an export that is old enough.          *)
Tick ==
  /\ left > 0 /\ left' = left - 1
  /\ IF age + 1 = Period
     THEN /\ age' = 0 /\ polled' = FALSE /\ missed' = (missed \/ ~polled)
     ELSE age' = age + 1 /\ UNCHANGED <<polled, missed>>
  /\ UNCHANGED <<phase, backoff>>

ScheduleNext == CycleSucceeds \/ CycleFails \/ BackoffEnds \/ IntervalEnds \/ Tick

ScheduleSpec == ScheduleInit /\ [][ScheduleNext]_scheduleVars

-----------------------------------------------------------------------------
(* Phases and counters; the backoff stays between its two bounds.          *)
ScheduleTypeOK ==
  /\ phase \in {"first", "cycle", "interval", "backoff"}
  /\ left \in Nat
  /\ backoff \in InitialBackoff .. MaxBackoff
  /\ age \in 0 .. Period - 1 /\ polled \in BOOLEAN /\ missed \in BOOLEAN

(* However many cycles fail, no export is replaced before it was polled.   *)
NoExportMissed == ~missed
================================================================================
