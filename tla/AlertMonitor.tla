---------------------------- MODULE AlertMonitor ----------------------------
(* Anomaly alerts: every refresh looks at the member values of each group  *)
(* and may run --alert-cmd.  A member value is a natural number; shares    *)
(* and n_eff are compared by cross-multiplication.                         *)
EXTENDS Option, Integers, Sequences, Functions

CONSTANTS Group,
          Sample,     \* sequences of member values
          RateLimit   \* ALERT_RATE_LIMIT_S, in units of time

ASSUME AlertAssumption ==
  /\ Sample \subseteq Seq(Nat) \ {<< >>}
  /\ RateLimit \in Nat \ {0}
  /\ None \notin Nat

VARIABLES
  vals,     \* group_member_vals, a map
  state,    \* anomaly_states, a map: the values seen last, the flag, the age of the last alert
  fired,    \* groups the last step ran the command for (history)
  since,    \* time since the command last ran for a group, up to RateLimit, or None (history)
  calm      \* groups seen without an anomaly since then (history)

alertVars == <<vals, state, fired, since, calm>>

---------------------------------------------------------------------------
(* The two anomalies.                                                      *)

Total(v) == SumFunction(v)
SumOfSquares(v) == Total([i \in DOMAIN v |-> v[i] * v[i]])

\* n_eff / n < 0.35, with at least five members; a group without load has n_eff = n.
Concentrated(v) == /\ Len(v) >= 5
                   /\ Total(v) > 0
                   /\ 100 * Total(v) * Total(v) < 35 * Len(v) * SumOfSquares(v)

\* The share of member i is above, or below, p per cent; members of a group
\* without load have equal shares.
Above(v, i, p) == IF Total(v) = 0 THEN 100 > p * Len(v) ELSE 100 * v[i] > p * Total(v)
Below(v, i, p) == IF Total(v) = 0 THEN 100 < p * Len(v) ELSE 100 * v[i] < p * Total(v)

Dropped(prev, v) == /\ Len(prev) = Len(v)
                    /\ \E i \in DOMAIN v : Above(prev, i, 15) /\ Below(v, i, 3)

---------------------------------------------------------------------------
\* The first test of compute_anomalies: groups of one member are passed over.
Judged == {g \in DOMAIN vals : Len(vals[g]) >= 2}

Anomalous(g) == \/ Concentrated(vals[g])
                \/ g \in DOMAIN state /\ Dropped(state[g].seen, vals[g])

\* Faults: an alert at every refresh; none after the first; the time alone decides.
FiresAlways(g) == Anomalous(g)
FiresAtOnset(g) == Anomalous(g) /\ (g \in DOMAIN state => ~state[g].alerting)
FiresWhenDue(g) == /\ Anomalous(g)
                   /\ g \in DOMAIN state => state[g].age \in {None, RateLimit}

Fires(g) == /\ Anomalous(g)
            /\ g \in DOMAIN state =>
                 \/ ~state[g].alerting
                 \/ state[g].age = None
                 \/ state[g].age >= RateLimit

\* Fault: no alert yet is taken for one long ago.
AgeKeptOrLong(g) == IF g \in DOMAIN state /\ state[g].age # None THEN state[g].age ELSE RateLimit + 1

AgeKept(g) == IF g \in DOMAIN state THEN state[g].age ELSE None

JudgedState(g) == [seen |-> vals[g], alerting |-> Anomalous(g),
                   age |-> IF Fires(g) THEN 0 ELSE AgeKept(g)]

AlertsInit ==
  /\ vals = << >> /\ state = << >> /\ fired = {}
  /\ since = [g \in Group |-> None]
  /\ calm = {}

\* The member values are replaced: the local sampler's second has passed, a
\* fleet, kube, nomad or Proxmox refresh rebuilds the map, g clears it, a
\* replayed entry is put in its place.
Collect == \E G \in SUBSET Group : \E m \in [G -> Sample] :
  /\ vals' = m
  /\ fired' = {}
  /\ UNCHANGED <<state, since, calm>>

\* A refresh that is not paused ends with compute_anomalies.
ComputeAnomalies ==
  /\ fired' = {g \in Judged : Fires(g)}
  /\ state' = [g \in Judged \cup (DOMAIN vals \cap DOMAIN state) |->
                 IF g \in Judged THEN JudgedState(g) ELSE state[g]]
  /\ since' = [g \in Group |-> IF g \in fired' THEN 0 ELSE since[g]]
  /\ calm' = (calm \ fired') \cup {g \in Group : g \in DOMAIN state' => ~state'[g].alerting}
  /\ UNCHANGED vals

Older(t) == IF t = None \/ t = RateLimit THEN t ELSE t + 1

TimePasses ==
  /\ state' = [g \in DOMAIN state |-> [state[g] EXCEPT !.age = Older(state[g].age)]]
  /\ since' = [g \in Group |-> Older(since[g])]
  /\ fired' = {}
  /\ UNCHANGED <<vals, calm>>

AlertsNext == Collect \/ ComputeAnomalies \/ TimePasses

AlertsSpec == AlertsInit /\ [][AlertsNext]_alertVars

\* The main loop refreshes on a timer while it is neither paused nor in Remote.
FairAlerts == AlertsSpec /\ WF_alertVars(ComputeAnomalies) /\ WF_alertVars(TimePasses)

---------------------------------------------------------------------------
(* Properties.                                                             *)

Time == 0..RateLimit \cup {None}

\* The states kept are of groups, and their values those of some sample.
AlertsTypeOK ==
  /\ vals \in UNION {[G -> Sample] : G \in SUBSET Group}
  /\ state \in UNION {[G -> [seen : Sample, alerting : BOOLEAN, age : Time]] : G \in SUBSET Group}
  /\ fired \subseteq Group /\ calm \subseteq Group
  /\ since \in [Group -> Time]

\* A group marked "!" in the list has had its alert for this very anomaly: the
\* command has run and the group has not been calm since (compute_anomalies).
MarkedWasAlerted ==
  \A g \in DOMAIN state : state[g].alerting => since[g] # None /\ g \notin calm

\* The rate limit that holds: a second alert within the window only for a group
\* that was calm, or gone, in between (compute_anomalies, should_fire).
OngoingAlertsSpaced ==
  [][\A g \in fired' : since[g] = None \/ since[g] = RateLimit \/ g \in calm]_alertVars

\* The rate limit as the README of the program has it, "once per 60 s per
\* group", whatever happens in between (compute_anomalies, should_fire).
AlertsRateLimited ==
  [][\A g \in fired' : since[g] = None \/ since[g] = RateLimit]_alertVars

\* The members of v are those of w, with the loads they have there; nothing
\* fixes the order in which the members of a group are listed.
SameMembers(v, w) == \E p \in Bijection(DOMAIN v, DOMAIN w) : \A i \in DOMAIN v : v[i] = w[p[i]]

\* Members that are always idle beside busy ones are no dropout: a group whose
\* members carry the loads they carried before, in whatever order they are
\* listed, raises nothing but concentration ("the SAME member ... to avoid false
\* positives in groups like chrome or kworker").
SteadyLoadNoDropout ==
  [][\A g \in fired' : \/ Concentrated(vals[g])
                       \/ g \in DOMAIN state /\ ~SameMembers(state[g].seen, vals[g])]_alertVars

\* A group that stays concentrated is alerted over and over.
Reminded == \A g \in Group :
  <>[](g \in DOMAIN vals /\ Concentrated(vals[g])) => []<>(g \in fired)

=============================================================================
