---------------------------- MODULE Instruments ----------------------------
(* The probes of diag, threads of their own that are spawned when the scope *)
(* is first opened and never end, and what the main loop makes of them: the  *)
(* latency probe and the attribution of its stalls, and the offender probe.  *)
(* The threads share nothing with each other: a behaviour follows one, or   *)
(* the analysis of one long series, of the ring or of a log read offline.   *)
(*                                                                           *)
(* The pressure probe is a ring like that of the latency probe.  Which       *)
(* signal is accused is left out: it is statistics over the intervals.       *)
EXTENDS Option, Saturating, Sequences, FiniteSets, SequencesExt, FiniteSetsExt, Functions

CONSTANTS
  Tick,        \* the probe asks for a sleep of Tick
  Cap,         \* samples in the ring of the latency probe
  MaxGap,      \* after a longer gap the attributor primes again
  IntervalCap, \* intervals it keeps
  Floor,       \* a stall is at least this
  MaxNow,      \* bound: the clock
  Pids, Comms,
  MaxJiffies,  \* bound: jiffies of a process
  SeriesCap,   \* ticks in the series of a group
  MaxGroups,   \* groups tracked
  MinSeries,   \* ticks a series needs to be analysed
  MaxScans,    \* bound: scans of the offender probe
  Quarter, SlowPeriod,  \* see Periodicity
  Trains       \* series to analyse: [len, spacing, period, width, first]

ASSUME InstrumentsAssumption ==
  /\ {Tick, Cap, MaxGap, IntervalCap, Floor, SeriesCap, MaxGroups, MinSeries, Quarter} \subseteq Nat \ {0}
  /\ {MaxNow, MaxJiffies, MaxScans} \subseteq Nat
  /\ Pids \subseteq Nat \ {0}

VARIABLES
  follows,     \* the probe whose thread is followed
  log, spawned, view,   \* --scope-log; the probes run; "Scope" or "Other"
  now,
  pc, t0, over,         \* probe_loop: where, start of the sleep, how late
  ring,                 \* Shared::ring: [t, over], oldest first
  lastT, attribAt, primed, intervals,  \* Attributor, scope_attrib_at
  report,               \* scope_report: [spikes, calm], or None
  fresh,                \* overshoots pushed since the attributor looked (history)
  scan,                 \* prev of offender_loop: pid -> [comm, ppid, j]
  scans,                \* scans so far, the clock of the series
  groups,               \* comm -> series of [t, cpu, spawns]
  offenders,            \* groups reported
  train,                \* the series that is analysed
  found, knot           \* its period and the phases of its stalls, or None

console == <<log, spawned, view>>
probe == <<pc, t0, over, ring>>
attrib == <<lastT, attribAt, primed, intervals, fresh>>
latency == <<now, probe, attrib, report>>
offender == <<scan, scans, groups, offenders>>
analysis == <<train, found, knot>>
probesVars == <<follows, console, latency, offender, analysis>>

P == INSTANCE Periodicity

\* What a scan of /proc may find after another: pids are used again, processes
\* come, go and change their name, and /proc itself may not be readable.
Process == [comm : Comms, ppid : Pids \cup {0}, j : 0..MaxJiffies]
\* Of two pids the smaller is the parent (a bound on what is looked at).
Scans == {cur \in UNION {[S -> Process] : S \in SUBSET Pids} :
            \A p \in DOMAIN cur : cur[p].ppid < p}

---------------------------------------------------------------------------
ProbesInit ==
  /\ follows \in {"latency", "offenders", "series"}
  /\ log \in BOOLEAN
  /\ view \in {"Other", "Scope"}              \* --stutter starts in the scope
  /\ spawned = (log \/ view = "Scope")        \* else d spawns them
  /\ now = 1
  /\ pc = "awake" /\ t0 = 0 /\ over = 0 /\ ring = <<>>
  /\ lastT = 0 /\ attribAt = None /\ primed = FALSE /\ intervals = <<>>
  /\ report = None /\ fresh = <<>>
  /\ scan \in IF follows = "offenders" THEN Scans ELSE {<<>>}
  /\ scans = 0 /\ groups = <<>> /\ offenders = {}
  /\ train \in IF follows = "series" THEN Trains ELSE {None}
  /\ found = None /\ knot = None

(* The keys.  The probes are spawned once and go on when the scope is left.  *)

ScopeKey ==
  /\ view = "Other" /\ follows # "series"
  /\ view' = "Scope" /\ spawned' = TRUE
  /\ UNCHANGED <<follows, log, latency, offender, analysis>>

LeaveScope ==
  /\ view = "Scope" /\ follows # "series"
  /\ view' = "Other"
  /\ UNCHANGED <<follows, log, spawned, latency, offender, analysis>>

Active == spawned /\ (log \/ view = "Scope")

Newest(s, n) == SubSeq(s, Minus(Len(s), n) + 1, Len(s))

---------------------------------------------------------------------------
(* The latency probe.                                                       *)

Clock == /\ now < MaxNow
         /\ now' = now + 1
         /\ UNCHANGED <<follows, console, probe, attrib, report, offender, analysis>>

Sleep == /\ pc = "awake" /\ spawned
         /\ pc' = "asleep" /\ t0' = now
         /\ UNCHANGED <<follows, console, now, over, ring, attrib, report, offender, analysis>>

\* As late as the scheduler pleases.  What happens before the sample is in the
\* ring, or the next sleep has begun, is not measured.
Wake == /\ pc = "asleep" /\ now >= t0 + Tick
        /\ pc' = "measured" /\ over' = now - t0 - Tick
        /\ UNCHANGED <<follows, console, now, t0, ring, attrib, report, offender, analysis>>

Push == /\ pc = "measured"
        /\ ring' = Newest(Append(ring, [t |-> t0, over |-> over]), Cap)
        /\ fresh' = Newest(Append(fresh, over), Cap)
        /\ pc' = "awake" /\ t0' = 0 /\ over' = 0
        /\ UNCHANGED <<follows, console, now, lastT, attribAt, primed, intervals, report, offender, analysis>>

Largest(S) == Max(S \cup {0})

MaxOvershootAfter(after) ==
  LET newer == {s \in ToSet(ring) : s.t > after}
  IN [over |-> Largest({s.over : s \in newer}), newest |-> Max({s.t : s \in newer} \cup {after})]

\* Time since the attributor was last called; 0 the first time and after a gap.
WallDt == IF attribAt = None \/ now - attribAt > MaxGap THEN 0 ELSE now - attribAt

\* Fault: while priming it does not look at the probe.
AttributeWhenPrimed ==
  /\ Active
  /\ LET seen == MaxOvershootAfter(lastT)
         record == primed /\ WallDt > 0 IN
     /\ lastT' = IF record THEN seen.newest ELSE lastT
     /\ intervals' = IF record THEN Newest(Append(intervals, seen.over), IntervalCap) ELSE intervals
  /\ primed' = TRUE /\ attribAt' = now /\ fresh' = <<>>
  /\ UNCHANGED <<follows, console, now, probe, report, offender, analysis>>

\* Attributor::sample, at every turn of the main loop while the scope is
\* active.  It looks at the probe even when it only primes its counters.
Attribute ==
  /\ Active
  /\ LET seen == MaxOvershootAfter(lastT) IN
     /\ lastT' = seen.newest
     /\ intervals' = IF primed /\ WallDt > 0 THEN Newest(Append(intervals, seen.over), IntervalCap)
                                             ELSE intervals
  /\ primed' = TRUE /\ attribAt' = now /\ fresh' = <<>>
  /\ UNCHANGED <<follows, console, now, probe, report, offender, analysis>>

\* Four times the mean overshoot, or the floor.
IsSpike(o) ==
  LET n == Len(ring)
      sum == MapThenSumSet(LAMBDA i : ring[i].over, DOMAIN ring)
  IN o >= Floor /\ o * n >= 4 * sum

\* The report tells the intervals with a stall from the calm ones; three of
\* each are needed to accuse anyone.
Analyse ==
  /\ Active
  /\ report' = [spikes |-> Cardinality({i \in DOMAIN intervals : IsSpike(intervals[i])}),
                calm |-> Cardinality({i \in DOMAIN intervals : ~IsSpike(intervals[i])})]
  /\ UNCHANGED <<follows, console, now, probe, attrib, offender, analysis>>

---------------------------------------------------------------------------
(* The offender probe.                                                      *)

Jiffies(cur, p) == IF p \in DOMAIN scan THEN Minus(cur[p].j, scan[p].j) ELSE cur[p].j
CpuOf(cur, g) == MapThenSumSet(LAMBDA p : Jiffies(cur, p), {p \in DOMAIN cur : cur[p].comm = g})

\* A new pid is put down to the group of its parent, if that is still there.
SpawnsOf(cur, g) ==
  Cardinality({p \in DOMAIN cur \ DOMAIN scan :
                 cur[p].ppid \in DOMAIN cur /\ cur[cur[p].ppid].comm = g})

Step(cur, g) == [t |-> scans + 1, cpu |-> CpuOf(cur, g), spawns |-> SpawnsOf(cur, g)]
Series(g) == IF g \in DOMAIN groups THEN groups[g] ELSE <<>>
Present(cur) == {cur[p].comm : p \in DOMAIN cur}

\* Fault: a group that is idle in a scan gets no step.
PushedActive(cur) ==
  [g \in DOMAIN groups \cup Present(cur) |->
     IF g \in Present(cur) THEN Newest(Append(Series(g), Step(cur, g)), SeriesCap) ELSE Series(g)]

\* Every group that is tracked or present gets a step.
Pushed(cur) ==
  [g \in DOMAIN groups \cup Present(cur) |->
     Newest(Append(Series(g), Step(cur, g)), SeriesCap)]

Idle(series) == \A i \in DOMAIN series : series[i].cpu = 0 /\ series[i].spawns = 0
Activity(series) ==
  MapThenSumSet(LAMBDA i : series[i].cpu + 50 * series[i].spawns, DOMAIN series)

\* Groups idle all along go; of too many the busiest stay, any among equals.
Keeps(rings, keep) ==
  LET busy == {g \in DOMAIN rings : ~Idle(rings[g])} IN
  /\ keep \subseteq busy
  /\ Cardinality(keep) = Min({Cardinality(busy), MaxGroups})
  /\ \A g \in keep, h \in busy \ keep : Activity(rings[h]) <= Activity(rings[g])

OffenderTick ==
  /\ spawned /\ scans < MaxScans
  /\ \E cur \in Scans :
       LET rings == Pushed(cur) IN
       /\ \E keep \in SUBSET DOMAIN rings :
            Keeps(rings, keep) /\ groups' = Restrict(rings, keep)
       /\ scan' = cur
  /\ scans' = scans + 1
  /\ UNCHANGED <<follows, console, latency, offenders, analysis>>

\* Once a second, with the scope open or not: six groups at most, of those whose
\* series is long enough.
AnalyseOffenders ==
  /\ spawned
  /\ offenders' \in {S \in SUBSET {g \in DOMAIN groups : Len(groups[g]) >= MinSeries} : Cardinality(S) <= 6}
  /\ UNCHANGED <<follows, console, latency, scan, scans, groups, analysis>>

Latency == Clock \/ Sleep \/ Wake \/ Push \/ Attribute \/ Analyse
Offender == OffenderTick \/ AnalyseOffenders

---------------------------------------------------------------------------
(* The analysis of a series.                                                *)

\* Stalls of so many samples that recur with a period, both in samples.
Stalls(x) == [i \in 1..x.len |-> [t |-> x.spacing * i,
                                   over |-> IF (i + x.first) % x.period < x.width THEN 1 ELSE 0]]

AnalyseSeries ==
  /\ found = None
  /\ found' = P!AnalyzePeriodicity(Stalls(train))
  /\ knot' = P!CharacteriseStutter(Stalls(train), found', 0)
  /\ UNCHANGED <<follows, console, latency, offender, train>>

ProbesNext ==
  \/ ScopeKey \/ LeaveScope
  \/ follows = "latency" /\ Latency
  \/ follows = "offenders" /\ Offender
  \/ follows = "series" /\ AnalyseSeries

ProbesSpec == ProbesInit /\ [][ProbesNext]_probesVars

---------------------------------------------------------------------------
(* Properties.                                                              *)

\* An interval is tagged with the worst of the stalls the probe pushed since
\* the attributor last looked, whatever was looked at while priming or lost in
\* the gaps: none is counted twice, none that is still in the ring missed
\* (diag.rs:155, 1089).
WorstSinceLast ==
  [][(Attribute /\ primed /\ WallDt > 0) =>
       Last(intervals') = Largest(ToSet(fresh))]_probesVars

\* The series of the groups stay uniform: each ends with the last scan and has
\* a step for every scan since the group was taken up (diag.rs:514).
SeriesUniform ==
  \A g \in DOMAIN groups :
    LET s == groups[g] IN
    /\ s # <<>> /\ ~Idle(s)
    /\ \A i \in DOMAIN s : s[i].t = scans - Len(s) + i

\* The period reported for recurring stalls is theirs or a multiple of it, as
\* near as the bins allow; when theirs is a whole number of bins and longer
\* than the shortest looked for, it is theirs, and the stalls, folded at it,
\* meet in one place (diag.rs:924 "the fundamental").
PeriodFound ==
  (follows = "series" /\ found # None) =>
    LET period == train.spacing * train.period
        dt == P!BinDt(Stalls(train))
        near(a, b) == a - b < dt /\ b - a < dt
    IN /\ found = 0 \/ \E k \in 1..(found \div period + 1) : near(found, k * period)
       /\ (period % dt = 0 /\ period \div dt > P!LagMin(dt)) =>
            found = period /\ Cardinality(knot) = train.width
=============================================================================
