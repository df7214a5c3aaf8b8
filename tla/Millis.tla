------------------------------- MODULE Millis -------------------------------
(***************************************************************************)
(* The millisecond clock of the board and the timers the firmware builds   *)
(* on it.  The code stores the value of millis() when a timer starts and   *)
(* later compares the difference millis() - start with a limit.  A timer   *)
(* is modelled by that difference, its age; ages are only ever compared    *)
(* with the limit, so they stop growing once they have passed it.          *)
(***************************************************************************)
EXTENDS Naturals

CONSTANTS Timer,    \* the names of the timers
          Limit     \* the limit each timer is compared with

ASSUME LimitAssumption == Limit \in [Timer -> Nat]

VARIABLE elapsed    \* elapsed[t]: millis() minus the start time of timer t

MillisTypeOK == elapsed \in [Timer -> Nat]

\* The code's (millis() - start) > LIMIT.
Expired(t) == elapsed[t] > Limit[t]

\* The code's !((millis() - start) < LIMIT), used by the publish timer.
Due(t) == elapsed[t] >= Limit[t]

\* The timers in T are given millis() as their start time.
Restart(T) == elapsed' = [t \in Timer |-> IF t \in T THEN 0 ELSE elapsed[t]]

\* Time passes for every timer at once.
Tick == elapsed' = [t \in Timer |->
                      IF Expired(t) THEN elapsed[t] ELSE elapsed[t] + 1]

\* No timer is read before it is started; they begin past their limits.
MillisInit == elapsed = [t \in Timer |-> Limit[t] + 1]
=============================================================================
