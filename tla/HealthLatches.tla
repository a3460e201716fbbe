--------------------------- MODULE HealthLatches ---------------------------
(* What the gutter of the spine promises of every place: two latches, one  *)
(* for "stalling" and one for "badly stalling".  A latch closes when some  *)
(* signal of the place reaches its upper threshold and opens only when     *)
(* every signal has fallen below the lower one, or none is known; it stays *)
(* put in between.                                                         *)
EXTENDS Integers

CONSTANTS Place,        \* the places of the spine
          Observation   \* what can be read of a place: known values, thresholds

VARIABLES seen,         \* what was last read of each place
          warn, crit    \* the latches, [Place -> BOOLEAN]

Latch(closed, known, on, off) ==
  \/ \E v \in known : v >= on
  \/ closed /\ \E v \in known : v >= off

Init == /\ seen \in [Place -> Observation]
        /\ warn = [p \in Place |-> FALSE]
        /\ crit = [p \in Place |-> FALSE]

\* One refresh reads every place once, and moves the latches by what it read.
Next ==
  /\ seen' \in [Place -> Observation]
  /\ warn' = [p \in Place |->
                Latch(warn[p], seen'[p].known, seen'[p].at.warnOn, seen'[p].at.warnOff)]
  /\ crit' = [p \in Place |->
                Latch(crit[p], seen'[p].known, seen'[p].at.critOn, seen'[p].at.critOff)]

Spec == Init /\ [][Next]_<<seen, warn, crit>>
=============================================================================
