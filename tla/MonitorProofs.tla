--------------------------- MODULE MonitorProofs ---------------------------
(* Proofs about what watches readings over time: the health tiers, for any  *)
(* connections, names, readings and ordered thresholds; the alerts, for any  *)
(* groups, samples and rate limits; the probes, for every clock, rings of    *)
(* every length, any processes and groups, and whatever a scan finds.        *)
EXTENDS SpineHealth, AlertMonitor, Instruments, SharedLemmas

---------------------------------------------------------------------------
(* Tiers (SpineHealth).                                                     *)

\* A place is served by a connection of its name.
LEMMA ConnOfPlace == \A p \in Place : ConnOf(p) \in Conn /\ Hostname[ConnOf(p)] = p
  <1> SUFFICES ASSUME NEW p \in Place
               PROVE  \E c \in Conn : /\ Hostname[c] = p
                                      /\ \A d \in Conn : Hostname[d] = p => c <= d
    BY DEF ConnOf
  <1> DEFINE S == {c \in Conn : Hostname[c] = p}
  <1>1. S \subseteq Nat
    BY SpineHealthAssumption DEF Conn
  <1>2. PICK c0 \in S : TRUE
    BY DEF Place
  <1>3. PICK c \in S : \A d \in S : c <= d
    <2> HIDE DEF S
    <2> QED
      BY <1>1, <1>2, LeastNat
  <1> QED
    BY <1>3

\* The worst known signal exists and bounds the others.
LEMMA WorstIsMax ==
  ASSUME NEW s \in Signals, Known(s) # {}
  PROVE  /\ Worst(s) \in Known(s) /\ Worst(s) \in Int
         /\ \A w \in Known(s) : w \in Int /\ w <= Worst(s)
  <1>1. Known(s) \subseteq Int
    BY DEF Known, Signals
  <1>2. \E v \in Known(s) : \A w \in Known(s) : w <= v
    <2> DEFINE a == s.psi_cpu  b == s.psi_mem  c == s.psi_io
    <2>1. \A x \in Known(s) : x = a \/ x = b \/ x = c
      BY DEF Known
    <2>2. CASE a \in Known(s) /\ \A w \in Known(s) : w <= a
      BY <2>2
    <2>3. CASE b \in Known(s) /\ \A w \in Known(s) : w <= b
      BY <2>3
    <2>4. CASE c \in Known(s) /\ \A w \in Known(s) : w <= c
      BY <2>4
    <2> QED
      BY <1>1, <2>1, <2>2, <2>3, <2>4
  <1> QED
    BY <1>1, <1>2 DEF Worst

---------------------------------------------------------------------------
\* What one reading does to a tier.

LEMMA SteppedType == \A t, v, at : SteppedTier(t, v, at) \in Tier
  BY DEF SteppedTier, Tier

LEMMA SteppedTwice ==
  ASSUME NEW t \in Tier, NEW v \in Int, NEW at, Ordered(at)
  PROVE  SteppedTier(SteppedTier(t, v, at), v, at) = SteppedTier(t, v, at)
  BY DEF SteppedTier, Ordered, Threshold, Tier

LEMMA SteppedLatches ==
  ASSUME NEW t \in Tier, NEW v \in Int, NEW at, Ordered(at)
  PROVE  /\ SteppedTier(t, v, at) # "Calm" <=> v >= at.warnOn \/ (t # "Calm" /\ v >= at.warnOff)
         /\ SteppedTier(t, v, at) = "Critical"
              <=> v >= at.critOn \/ (t = "Critical" /\ v >= at.critOff)
  BY DEF SteppedTier, Ordered, Threshold, Tier

LEMMA NoSignalsType == NoSignals \in Signals /\ Known(NoSignals) = {} /\ NoSignals.cpu_pct = None
  BY DEF NoSignals, Signals, Known

LEMMA HealthType == \A t, s : PlaceHealth(t, s) \in Tier
  BY SteppedType DEF PlaceHealth, Tier

LEMMA HealthTwice ==
  ASSUME NEW t \in Tier, NEW s \in Signals
  PROVE  PlaceHealth(PlaceHealth(t, s), s) = PlaceHealth(t, s)
  <1>1. CASE Known(s) # {}
    <2>1. Worst(s) \in Int
      BY <1>1, WorstIsMax
    <2> QED
      BY <1>1, <2>1, SteppedTwice, SpineHealthAssumption DEF PlaceHealth
  <1>2. CASE Known(s) = {} /\ s.cpu_pct # None
    <2>1. s.cpu_pct \in Int
      BY <1>2 DEF Signals
    <2> QED
      BY <1>2, <2>1, SteppedTwice, SpineHealthAssumption DEF PlaceHealth
  <1>3. CASE Known(s) = {} /\ s.cpu_pct = None
    BY <1>3 DEF PlaceHealth
  <1> QED
    BY <1>1, <1>2, <1>3

\* A tier is two latches over all the known signals of the source in use.
LEMMA HealthLatch ==
  ASSUME NEW t \in Tier, NEW s \in Signals, NEW o, o = Observed(s)
  PROVE  /\ PlaceHealth(t, s) # "Calm"
              <=> Latches!Latch(t # "Calm", o.known, o.at.warnOn, o.at.warnOff)
         /\ PlaceHealth(t, s) = "Critical"
              <=> Latches!Latch(t = "Critical", o.known, o.at.critOn, o.at.critOff)
  <1>1. CASE Known(s) # {}
    <2>1. o.known = Known(s) /\ o.at = Psi
      BY <1>1 DEF Observed
    <2>2. Worst(s) \in Known(s) /\ Worst(s) \in Int /\ \A w \in Known(s) : w \in Int /\ w <= Worst(s)
      BY <1>1, WorstIsMax
    <2>3. Psi \in Threshold /\ Ordered(Psi)
      BY SpineHealthAssumption DEF Ordered
    <2>4. \A x \in {Psi.warnOn, Psi.warnOff, Psi.critOn, Psi.critOff} :
            (\E w \in Known(s) : w >= x) <=> Worst(s) >= x
      BY <2>2, <2>3 DEF Threshold
    <2>5. PlaceHealth(t, s) = SteppedTier(t, Worst(s), Psi)
      BY <1>1 DEF PlaceHealth
    <2>6. \A shut, x, y : x \in Int /\ y \in Int /\ shut \in BOOLEAN
            /\ ((\E w \in Known(s) : w >= x) <=> Worst(s) >= x)
            /\ ((\E w \in Known(s) : w >= y) <=> Worst(s) >= y)
            => (Latches!Latch(shut, Known(s), x, y) <=> Worst(s) >= x \/ (shut /\ Worst(s) >= y))
      BY Zenon DEF Latches!Latch
    <2>7. /\ Latches!Latch(t # "Calm", Known(s), Psi.warnOn, Psi.warnOff)
               <=> Worst(s) >= Psi.warnOn \/ (t # "Calm" /\ Worst(s) >= Psi.warnOff)
          /\ Latches!Latch(t = "Critical", Known(s), Psi.critOn, Psi.critOff)
               <=> Worst(s) >= Psi.critOn \/ (t = "Critical" /\ Worst(s) >= Psi.critOff)
      BY <2>3, <2>4, <2>6 DEF Threshold
    <2> QED
      BY <2>1, <2>2, <2>3, <2>5, <2>7, SteppedLatches
  <1>2. CASE Known(s) = {} /\ s.cpu_pct # None
    <2>1. o.known = {s.cpu_pct} /\ o.at = Cpu /\ s.cpu_pct \in Int
      BY <1>2 DEF Observed, Signals
    <2>2. PlaceHealth(t, s) = SteppedTier(t, s.cpu_pct, Cpu)
      BY <1>2 DEF PlaceHealth
    <2>3. \A shut, x, y :
            Latches!Latch(shut, {s.cpu_pct}, x, y) <=> s.cpu_pct >= x \/ (shut /\ s.cpu_pct >= y)
      BY Zenon DEF Latches!Latch
    <2>4. /\ Latches!Latch(t # "Calm", {s.cpu_pct}, Cpu.warnOn, Cpu.warnOff)
               <=> s.cpu_pct >= Cpu.warnOn \/ (t # "Calm" /\ s.cpu_pct >= Cpu.warnOff)
          /\ Latches!Latch(t = "Critical", {s.cpu_pct}, Cpu.critOn, Cpu.critOff)
               <=> s.cpu_pct >= Cpu.critOn \/ (t = "Critical" /\ s.cpu_pct >= Cpu.critOff)
      BY <2>3
    <2> QED
      BY <2>1, <2>2, <2>4, SteppedLatches, SpineHealthAssumption
  <1>3. CASE Known(s) = {} /\ s.cpu_pct = None
    <2>1. o.known = {} /\ PlaceHealth(t, s) = "Calm"
      BY <1>3 DEF Observed, PlaceHealth
    <2> QED
      BY <2>1 DEF Latches!Latch
  <1> QED
    BY <1>1, <1>2, <1>3

---------------------------------------------------------------------------
\* The inductive invariant: types, and every tier is what reading its place
\* once more would give.

TiersSettled ==
  tier # << >> => \A p \in Place : PlaceHealth(tier[p], read[p]) = tier[p]

HealthInv == TypeOK /\ TiersSettled

LEMMA ReadingType == Snapshot \subseteq Signals \cup {None} /\ Reading \cup {NoSignals} \subseteq Signals
  BY SpineHealthAssumption, NoSignalsType DEF Snapshot

LEMMA PlaceSignalsType ==
  ASSUME NEW snaps \in [Conn -> Snapshot], NEW p \in Place
  PROVE  PlaceSignals(snaps, p) \in Reading \cup {NoSignals}
  BY ConnOfPlace DEF PlaceSignals, Snapshot

LEMMA PrevType == TypeOK => \A p \in Place : Prev(p) \in Tier
  BY DEF TypeOK, Prev, Tier

LEMMA HealthInit == Init => HealthInv
  BY DEF Init, HealthInv, TypeOK, TiersSettled, Snapshot

\* What a refresh does, apart from types.
LEMMA RefreshReads ==
  ASSUME HealthInv, Refresh
  PROVE  /\ snap' \in [Conn -> Snapshot]
         /\ tier' \in [Place -> Tier] /\ read' \in [Place -> Reading \cup {NoSignals}]
         /\ \A p \in Place : /\ Prev(p) \in Tier /\ read'[p] \in Signals
                             /\ tier'[p] = PlaceHealth(Prev(p), read'[p])
  <1>1. snap' \in [Conn -> Snapshot]
    BY DEF HealthInv, TypeOK, Refresh, Taken, Snapshot
  <1>2. read' \in [Place -> Reading \cup {NoSignals}]
    BY <1>1, PlaceSignalsType DEF Refresh
  <1>3. tier' \in [Place -> Tier]
    BY HealthType DEF Refresh, Rebuild
  <1>4. \A p \in Place : tier'[p] = PlaceHealth(Prev(p), read'[p])
    BY DEF Refresh, Rebuild
  <1> QED
    BY <1>1, <1>2, <1>3, <1>4, PrevType, ReadingType DEF HealthInv

LEMMA HealthNext == HealthInv /\ [Next]_vars => HealthInv'
  <1> SUFFICES ASSUME HealthInv, [Next]_vars
               PROVE  HealthInv'
    OBVIOUS
  <1>1. CASE Refresh
    <2>1. TypeOK'
      BY <1>1, RefreshReads DEF HealthInv, TypeOK, Refresh, Snapshot
    <2>2. \A p \in Place : PlaceHealth(tier'[p], read'[p]) = tier'[p]
      BY <1>1, RefreshReads, HealthTwice
    <2> QED
      BY <2>1, <2>2 DEF HealthInv, TiersSettled
  <1>2. CASE UNCHANGED <<tier, read>> /\ TypeOK'
    BY <1>2 DEF HealthInv, TiersSettled
  <1>3. CASE \E c \in Conn : Arrive(c)
    BY <1>2, <1>3 DEF HealthInv, TypeOK, Arrive, Snapshot
  <1>4. CASE HostPoll
    <2>1. ConnOf(host) \in Conn
      BY <1>4, ConnOfPlace DEF HostPoll, HealthInv, TypeOK
    <2> QED
      BY <1>2, <1>4, <2>1 DEF HealthInv, TypeOK, HostPoll, Taken, Snapshot
  <1>5. CASE \E p \in Place : EnterHost(p)
    BY <1>2, <1>5 DEF HealthInv, TypeOK, EnterHost
  <1>6. CASE LeaveHost
    BY <1>2, <1>6 DEF HealthInv, TypeOK, LeaveHost
  <1>7. CASE PauseKey
    BY <1>2, <1>7 DEF HealthInv, TypeOK, PauseKey
  <1>8. CASE UNCHANGED vars
    BY <1>2, <1>8 DEF HealthInv, TypeOK, vars
  <1> QED
    BY <1>1, <1>3, <1>4, <1>5, <1>6, <1>7, <1>8 DEF Next

LEMMA HealthAlways == Spec => []HealthInv
  BY HealthInit, HealthNext, PTL DEF Spec

\* Every state is well typed; in particular every place has a tier as soon as
\* there are any (refresh, health_tiers).
THEOREM TierTypes == Spec => []TypeOK
  <1>1. HealthInv => TypeOK
    BY DEF HealthInv
  <1> QED
    BY <1>1, HealthAlways, PTL

---------------------------------------------------------------------------
\* Only a new snapshot moves a tier, whatever the thresholds: place_health is
\* fed its own result and reading the same snapshot again changes nothing.
THEOREM OnlyReadingsMoveTiers == Spec => TierMovesWithReadings
  <1> DEFINE A == \A p \in Place : tier # << >> /\ tier'[p] # tier[p] => read'[p] # read[p]
  <1>1. HealthInv /\ [Next]_vars => [A]_vars
    <2> SUFFICES ASSUME HealthInv, Next
                 PROVE  A
      OBVIOUS
    <2>1. CASE Refresh
      <3> SUFFICES ASSUME NEW p \in Place, tier # << >>, read'[p] = read[p]
                   PROVE  tier'[p] = tier[p]
        OBVIOUS
      <3>1. Prev(p) = tier[p]
        BY DEF HealthInv, TypeOK, Prev
      <3>2. tier'[p] = PlaceHealth(Prev(p), read'[p])
        BY <2>1, RefreshReads
      <3> QED
        BY <3>1, <3>2 DEF HealthInv, TiersSettled
    <2> QED
      BY <2>1 DEF Next, Arrive, HostPoll, EnterHost, LeaveHost, PauseKey
  <1> QED
    BY <1>1, HealthAlways, PTL DEF Spec, TierMovesWithReadings

\* stepped_tier and place_health implement two latches per place, for all
\* thresholds that are ordered.
THEOREM HealthRefinesLatches == Spec => TiersAreLatches
  <1>1. Init => Latches!Init
    <2> SUFFICES ASSUME Init
                 PROVE  Latches!Init
      OBVIOUS
    <2>1. DOMAIN tier = {}
      BY DEF Init
    <2>2. \A p \in Place : Prev(p) = "Calm"
      BY <2>1, Zenon DEF Prev
    <2>3. Readings \in [Place -> {Observed(s) : s \in Reading \cup {NoSignals}}]
      BY DEF Init, Readings
    <2> QED
      BY <2>2, <2>3 DEF Latches!Init, Stalling, BadlyStalling
  <1>2. HealthInv /\ [Next]_vars => [Latches!Next]_<<Readings, Stalling, BadlyStalling>>
    <2> SUFFICES ASSUME HealthInv, [Next]_vars
                 PROVE  [Latches!Next]_<<Readings, Stalling, BadlyStalling>>
      OBVIOUS
    <2>1. CASE Refresh
      <3>1. Readings' \in [Place -> {Observed(s) : s \in Reading \cup {NoSignals}}]
        BY <2>1, RefreshReads DEF Readings
      <3>2. \A p \in Place : Prev(p)' = tier'[p]
        BY <2>1, RefreshReads DEF Prev
      <3>3. ASSUME NEW p \in Place
            PROVE  /\ Stalling'[p] = Latches!Latch(Stalling[p], Readings'[p].known,
                                         Readings'[p].at.warnOn, Readings'[p].at.warnOff)
                   /\ BadlyStalling'[p] = Latches!Latch(BadlyStalling[p], Readings'[p].known,
                                         Readings'[p].at.critOn, Readings'[p].at.critOff)
        <4>1. /\ Prev(p) \in Tier /\ read'[p] \in Signals
              /\ tier'[p] = PlaceHealth(Prev(p), read'[p])
          BY <2>1, RefreshReads
        <4>2. Readings'[p] = Observed(read'[p])
          BY DEF Readings
        <4>3. /\ Stalling[p] = (Prev(p) # "Calm") /\ Stalling'[p] = (tier'[p] # "Calm")
              /\ BadlyStalling[p] = (Prev(p) = "Critical")
              /\ BadlyStalling'[p] = (tier'[p] = "Critical")
          BY <3>2 DEF Stalling, BadlyStalling
        <4>4. /\ tier'[p] # "Calm" <=> Latches!Latch(Prev(p) # "Calm", Readings'[p].known,
                                          Readings'[p].at.warnOn, Readings'[p].at.warnOff)
              /\ tier'[p] = "Critical" <=> Latches!Latch(Prev(p) = "Critical", Readings'[p].known,
                                          Readings'[p].at.critOn, Readings'[p].at.critOff)
          BY <4>1, <4>2, HealthLatch
        <4>5. \A shut, known, x, y : Latches!Latch(shut, known, x, y) \in BOOLEAN
          BY Zenon DEF Latches!Latch
        <4> QED
          BY <4>3, <4>4, <4>5
      <3>4. /\ Stalling' = [p \in Place |-> Stalling'[p]]
            /\ BadlyStalling' = [p \in Place |-> BadlyStalling'[p]]
        BY DEF Stalling, BadlyStalling
      <3> QED
        BY <3>1, <3>3, <3>4, Zenon DEF Latches!Next
    <2>2. CASE UNCHANGED <<tier, read>>
      BY <2>2 DEF Readings, Stalling, BadlyStalling, Prev
    <2> QED
      BY <2>1, <2>2 DEF Next, vars, Arrive, HostPoll, EnterHost, LeaveHost, PauseKey
  <1> QED
    BY <1>1, <1>2, HealthAlways, PTL DEF Spec, TiersAreLatches, Latches!Spec

---------------------------------------------------------------------------
(* Alerts (AlertMonitor).                                                  *)

Maps(S) == UNION {[G -> S] : G \in SUBSET Group}
GroupState == [seen : Sample, alerting : BOOLEAN, age : Time]

LEMMA MapType == \A S, m : m \in Maps(S) <=> /\ DOMAIN m \subseteq Group
                                           /\ m \in [DOMAIN m -> S]
  BY DEF Maps

\* What ties the age kept with a state, which is dropped with the group, to the
\* time since the command last ran: a marked group's age is that time, and a
\* group that has had an alert and is not marked has been calm since.
AgesTrue ==
  \A g \in Group :
    IF g \in DOMAIN state /\ state[g].alerting
      THEN state[g].age = since[g] /\ since[g] # None /\ g \notin calm
      ELSE since[g] = None \/ g \in calm

AlertInv == AlertsTypeOK /\ AgesTrue

LEMMA AlertInit == AlertsInit => AlertInv
  <1> SUFFICES ASSUME AlertsInit
               PROVE  AlertInv
    OBVIOUS
  <1>1. DOMAIN vals = {} /\ DOMAIN state = {} /\ {} \in SUBSET Group
    BY DEF AlertsInit
  <1>2. vals \in [{} -> Sample] /\ state \in [{} -> GroupState]
    BY <1>1 DEF AlertsInit
  <1>3. vals \in Maps(Sample) /\ state \in Maps(GroupState)
    BY <1>1, <1>2 DEF Maps
  <1> QED
    BY <1>1, <1>3 DEF AlertsInit, AlertInv, AlertsTypeOK, AgesTrue, Maps, GroupState, Time

LEMMA OlderType ==
  ASSUME NEW t \in Time
  PROVE  Older(t) \in Time /\ (Older(t) = None <=> t = None)
  BY AlertAssumption DEF Older, Time

LEMMA StateType ==
  ASSUME AlertInv
  PROVE  \A g \in DOMAIN state : g \in Group /\ state[g] \in GroupState
  BY MapType DEF AlertInv, AlertsTypeOK, Maps, GroupState

LEMMA ValsType ==
  ASSUME AlertInv
  PROVE  \A g \in DOMAIN vals : g \in Group /\ vals[g] \in Sample
  BY MapType DEF AlertInv, AlertsTypeOK, Maps

\* A refresh, group by group.
LEMMA JudgedType ==
  ASSUME AlertInv, NEW g \in Judged
  PROVE  /\ JudgedState(g) \in GroupState
         /\ JudgedState(g).alerting = Anomalous(g)
         /\ JudgedState(g).age = IF Fires(g) THEN 0 ELSE AgeKept(g)
  <1>1. vals[g] \in Sample
    BY ValsType DEF Judged
  <1>2. Anomalous(g) \in BOOLEAN
    BY Zenon DEF Anomalous
  <1>3. AgeKept(g) \in Time
    BY StateType DEF AgeKept, GroupState, Time
  <1>4. 0 \in Time
    BY AlertAssumption DEF AlertInv, Time
  <1> QED
    BY <1>1, <1>2, <1>3, <1>4 DEF JudgedState, GroupState

LEMMA AlertRefresh == AlertInv /\ ComputeAnomalies => AlertInv'
  <1> SUFFICES ASSUME AlertInv, ComputeAnomalies
               PROVE  AlertInv'
    OBVIOUS
  <1>1. AlertInv /\ AlertsTypeOK
    BY DEF AlertInv
  <1>2. Judged \subseteq DOMAIN vals /\ DOMAIN vals \subseteq Group
    BY <1>1, ValsType DEF Judged
  <1>3. fired' \subseteq Judged /\ fired' \subseteq Group
    BY <1>2 DEF ComputeAnomalies
  <1>4. state' \in Maps(GroupState)
    <2> DEFINE D == Judged \cup (DOMAIN vals \cap DOMAIN state)
    <2>1. D \in SUBSET Group
      BY <1>2
    <2>2. state' \in [D -> GroupState]
      BY <1>1, JudgedType, StateType DEF ComputeAnomalies
    <2> QED
      BY <2>1, <2>2 DEF Maps
  <1>5. since' \in [Group -> Time]
    BY <1>1, AlertAssumption DEF AlertInv, ComputeAnomalies, AlertsTypeOK, Time
  <1>6. AlertsTypeOK'
    BY <1>1, <1>3, <1>4, <1>5 DEF AlertsTypeOK, ComputeAnomalies, Maps, GroupState
  <1>7. ASSUME NEW g \in Group
        PROVE  (IF g \in DOMAIN state /\ state[g].alerting
                  THEN state[g].age = since[g] /\ since[g] # None /\ g \notin calm
                  ELSE since[g] = None \/ g \in calm)'
    <2>1. /\ g \in DOMAIN state' <=> g \in Judged \/ (g \in DOMAIN vals /\ g \in DOMAIN state)
          /\ g \in Judged => state'[g] = JudgedState(g)
          /\ g \notin Judged /\ g \in DOMAIN state' => state'[g] = state[g]
          /\ since'[g] = IF g \in fired' THEN 0 ELSE since[g]
          /\ g \in calm' <=> \/ g \in calm /\ g \notin fired'
                             \/ g \in DOMAIN state' => ~state'[g].alerting
          /\ g \in fired' <=> g \in Judged /\ Fires(g)
      BY DEF ComputeAnomalies
    <2>2. 0 # None
      BY AlertAssumption
    <2>3. CASE g \in fired'
      BY <2>1, <2>2, <2>3, <1>1, JudgedType DEF Fires
    <2>4. CASE g \in Judged /\ g \notin fired' /\ Anomalous(g)
      <3>1. /\ g \in DOMAIN state /\ state[g].alerting
            /\ state'[g].alerting /\ state'[g].age = state[g].age
        BY <2>1, <2>4, <1>1, JudgedType DEF Fires, AgeKept
      <3> QED
        BY <2>1, <2>4, <3>1 DEF AlertInv, AgesTrue
    <2>5. CASE g \in Judged /\ g \notin fired' /\ ~Anomalous(g)
      BY <2>1, <2>5, <1>1, JudgedType
    <2>6. CASE g \notin Judged
      BY <2>1, <2>6, <1>1, StateType DEF AlertInv, AgesTrue, GroupState
    <2> QED
      BY <2>1, <2>3, <2>4, <2>5, <2>6
  <1> QED
    BY <1>6, <1>7 DEF AlertInv, AgesTrue

LEMMA AlertTick == AlertInv /\ TimePasses => AlertInv'
  <1> SUFFICES ASSUME AlertInv, TimePasses
               PROVE  AlertInv'
    OBVIOUS
  <1>1. /\ DOMAIN state' = DOMAIN state
        /\ \A g \in DOMAIN state : /\ state'[g] \in GroupState
                                   /\ state'[g].alerting = state[g].alerting
                                   /\ state'[g].age = Older(state[g].age)
    BY StateType, OlderType DEF AlertInv, TimePasses, GroupState
  <1>2. DOMAIN state \in SUBSET Group /\ state' \in [DOMAIN state -> GroupState]
    BY <1>1, StateType DEF AlertInv, TimePasses
  <1>3. state' \in Maps(GroupState)
    BY <1>2 DEF Maps
  <1>4. \A g \in Group : since'[g] = Older(since[g]) /\ since[g] \in Time
    BY DEF AlertInv, TimePasses, AlertsTypeOK
  <1>5. AlertsTypeOK'
    BY <1>3, <1>4, OlderType DEF AlertInv, AlertsTypeOK, TimePasses, Maps, GroupState
  <1>6. AgesTrue'
    BY <1>1, <1>4, OlderType DEF AlertInv, AgesTrue, TimePasses
  <1> QED
    BY <1>5, <1>6 DEF AlertInv

LEMMA AlertNext == AlertInv /\ [AlertsNext]_alertVars => AlertInv'
  <1> SUFFICES ASSUME AlertInv, [AlertsNext]_alertVars
               PROVE  AlertInv'
    OBVIOUS
  <1>1. CASE Collect
    BY <1>1 DEF AlertInv, AlertsTypeOK, AgesTrue, Collect
  <1>2. CASE UNCHANGED alertVars
    BY <1>2 DEF AlertInv, AlertsTypeOK, AgesTrue, alertVars
  <1> QED
    BY <1>1, <1>2, AlertRefresh, AlertTick DEF AlertsNext

LEMMA AlertAlways == AlertsSpec => []AlertInv
  BY AlertInit, AlertNext, PTL DEF AlertsSpec

\* Every state is well typed; the ages kept never exceed the rate limit.
THEOREM AlertTypes == AlertsSpec => []AlertsTypeOK
  <1>1. AlertInv => AlertsTypeOK
    BY DEF AlertInv
  <1> QED
    BY <1>1, AlertAlways, PTL

\* A group marked in the list has had its alert for this very anomaly, whatever
\* the anomalies are and however the member values change.
THEOREM MarkedGroupsAlerted == AlertsSpec => []MarkedWasAlerted
  <1>1. AlertInv => MarkedWasAlerted
    BY StateType DEF AlertInv, AgesTrue, MarkedWasAlerted
  <1> QED
    BY <1>1, AlertAlways, PTL

\* Two alerts of one group within the rate limit have a calm refresh, or one
\* without the group, between them.
THEOREM AlertsSpaced == AlertsSpec => OngoingAlertsSpaced
  <1> DEFINE A == \A g \in fired' : since[g] = None \/ since[g] = RateLimit \/ g \in calm
  <1>1. AlertInv /\ [AlertsNext]_alertVars => [A]_alertVars
    <2> SUFFICES ASSUME AlertInv, AlertsNext
                 PROVE  A
      OBVIOUS
    <2>1. CASE ComputeAnomalies
      <3> SUFFICES ASSUME NEW g \in fired', since[g] # None, g \notin calm
                   PROVE  since[g] = RateLimit
        OBVIOUS
      <3>1. g \in Judged /\ Fires(g) /\ g \in Group
        BY <2>1, ValsType DEF AlertInv, ComputeAnomalies, Judged
      <3>2. g \in DOMAIN state /\ state[g].alerting /\ state[g].age = since[g]
        BY <3>1 DEF AlertInv, AgesTrue
      <3>3. since[g] >= RateLimit /\ since[g] \in 0..RateLimit
        BY <3>1, <3>2 DEF Fires, AlertInv, AlertsTypeOK, Time
      <3> QED
        BY <3>3, AlertAssumption
    <2>2. CASE Collect \/ TimePasses
      BY <2>2 DEF Collect, TimePasses
    <2> QED
      BY <2>1, <2>2 DEF AlertsNext
  <1> QED
    BY <1>1, AlertAlways, PTL DEF AlertsSpec, OngoingAlertsSpaced

---------------------------------------------------------------------------
(* Rings (Instruments).                                                    *)

\* r is s with x as its last; what was there before it stays in its order,
\* without the first if there were n.
WithLast(r, s, x, n) ==
  /\ Len(r) = IF Len(s) < n THEN Len(s) + 1 ELSE n
  /\ r[Len(r)] = x
  /\ \A i \in 1..(Len(r) - 1) : r[i] = s[Len(s) - Len(r) + 1 + i]

\* A push on a ring of n.
LEMMA RingPush ==
  ASSUME NEW A, NEW s \in Seq(A), NEW x \in A, NEW n \in Nat \ {0}
  PROVE  Newest(Append(s, x), n) \in Seq(A) /\ WithLast(Newest(Append(s, x), n), s, x, n)
  <1> DEFINE r == Newest(Append(s, x), n)
             a == Append(s, x)
             m == Minus(Len(a), n) + 1
  <1>1. /\ a \in Seq(A) /\ Len(a) = Len(s) + 1 /\ Len(s) \in Nat
        /\ \A i \in 1..Len(s) : a[i] = s[i]
        /\ a[Len(s) + 1] = x
    BY AppendProperties, LenProperties
  <1>2. m \in 1..Len(a) /\ Len(a) - m + 1 = IF Len(s) < n THEN Len(s) + 1 ELSE n
    <2>1. Len(a) \in Nat /\ Len(a) = Len(s) + 1 /\ Len(s) \in Nat
      BY <1>1
    <2> HIDE DEF a
    <2>2. m = IF n > Len(a) THEN 1 ELSE Len(a) - n + 1
      BY <2>1 DEF Minus
    <2>3. n \in Int /\ n >= 1
      OBVIOUS
    <2> HIDE DEF m
    <2>4. CASE n > Len(a)
      BY <2>1, <2>2, <2>3, <2>4
    <2>5. CASE ~(n > Len(a))
      <3>1. m = Len(a) - n + 1 /\ n <= Len(a) /\ m >= 1 /\ m <= Len(a) /\ m \in Int
        BY <2>1, <2>2, <2>3, <2>5
      <3>2. Len(a) - m + 1 = n /\ (Len(s) < n => Len(s) + 1 = n)
        BY <2>1, <2>3, <3>1
      <3> QED
        BY <2>1, <3>1, <3>2
    <2> QED
      BY <2>4, <2>5
  <1>3. \A i \in m..Len(a) : a[i] \in A
    BY <1>1, <1>2, ElementOfSeq
  <1>4. r = SubSeq(a, m, Len(a))
    BY DEF Newest
  <1> HIDE DEF a, m, r
  <1>5. /\ r \in Seq(A) /\ Len(r) = Len(a) - m + 1
        /\ \A i \in 1..(Len(a) - m + 1) : r[i] = a[m + i - 1]
    BY <1>1, <1>2, <1>3, <1>4, SubSeqProperties
  <1>6. r[Len(r)] = a[Len(a)]
    BY <1>1, <1>2, <1>5
  <1>7. \A i \in 1..(Len(r) - 1) : r[i] = s[Len(s) - Len(r) + 1 + i]
    <2> TAKE i \in 1..(Len(r) - 1)
    <2>1. r[i] = a[m + i - 1] /\ m + i - 1 \in 1..Len(s) /\ m + i - 1 = Len(s) - Len(r) + 1 + i
      BY <1>1, <1>2, <1>5
    <2> QED
      BY <1>1, <2>1
  <1> QED
    BY <1>1, <1>2, <1>5, <1>6, <1>7 DEF WithLast, r

---------------------------------------------------------------------------
(* The series of the groups.                                               *)

\* A series is a sequence, of whatever its steps are.
Uniform(s, n) ==
  /\ \E A : s \in Seq(A)
  /\ \A i \in 1..Len(s) : s[i].t = n - Len(s) + i

SeriesInv ==
  /\ scans \in Nat
  /\ \A g \in DOMAIN groups : Uniform(groups[g], scans) /\ ~Idle(groups[g])

LEMMA UniformPush ==
  ASSUME NEW s, NEW n \in Nat, Uniform(s, n), NEW x, x.t = n + 1
  PROVE  Uniform(Newest(Append(s, x), SeriesCap), n + 1)
  <1>1. PICK B : s \in Seq(B)
    BY DEF Uniform
  <1> DEFINE A == B \cup {x}
             r == Newest(Append(s, x), SeriesCap)
  <1>2. s \in Seq(A) /\ x \in A /\ Len(s) \in Nat
    BY <1>1, SeqMonotonic, LenProperties
  <1>3. SeriesCap \in Nat \ {0}
    BY InstrumentsAssumption
  <1>6. r \in Seq(A) /\ WithLast(r, s, x, SeriesCap)
    <2> HIDE DEF A
    <2> QED
      BY <1>2, <1>3, RingPush
  <1> HIDE DEF A, r
  <1>4. /\ Len(r) = IF Len(s) < SeriesCap THEN Len(s) + 1 ELSE SeriesCap
        /\ r[Len(r)] = x
        /\ \A i \in 1..(Len(r) - 1) : r[i] = s[Len(s) - Len(r) + 1 + i]
    BY <1>6 DEF WithLast
  <1>7. Len(r) \in Nat /\ Len(r) <= Len(s) + 1
    BY <1>2, <1>3, <1>4
  <1>5. \A i \in 1..Len(r) : r[i].t = (n + 1) - Len(r) + i
    <2> TAKE i \in 1..Len(r)
    <2>1. CASE i = Len(r)
      BY <1>2, <1>3, <1>4, <2>1
    <2>2. CASE i # Len(r)
      <3> DEFINE j == Len(s) - Len(r) + 1 + i
      <3>1. i \in 1..(Len(r) - 1) /\ j \in 1..Len(s) /\ Len(r) \in Nat
        BY <1>2, <1>7, <2>2
      <3>2. r[i] = s[j] /\ s[j].t = n - Len(s) + j
        BY <1>4, <3>1 DEF Uniform
      <3> QED
        BY <1>2, <3>1, <3>2
    <2> QED
      BY <2>1, <2>2
  <1> QED
    BY <1>5, <1>6 DEF Uniform, r

LEMMA SeriesInit == ProbesInit => SeriesInv
  <1> SUFFICES ASSUME ProbesInit PROVE SeriesInv
    OBVIOUS
  <1>1. scans = 0 /\ groups = <<>>
    BY DEF ProbesInit
  <1>2. DOMAIN groups = {}
    BY <1>1
  <1> QED
    BY <1>1, <1>2 DEF SeriesInv

LEMMA ScanSeries == ASSUME SeriesInv, OffenderTick PROVE SeriesInv'
  <1>1. scans' = scans + 1
    BY DEF OffenderTick
  <1>2. PICK cur \in Scans : \E keep \in SUBSET DOMAIN Pushed(cur) :
          Keeps(Pushed(cur), keep) /\ groups' = Restrict(Pushed(cur), keep)
    BY DEF OffenderTick
  <1> DEFINE rings == Pushed(cur)
  <1>3. PICK keep \in SUBSET DOMAIN rings : Keeps(rings, keep) /\ groups' = Restrict(rings, keep)
    BY <1>2
  <1>4. DOMAIN groups' = keep /\ \A g \in keep : groups'[g] = rings[g] /\ ~Idle(rings[g])
    BY <1>3 DEF Restrict, Keeps
  <1>5. ASSUME NEW g \in keep PROVE Uniform(rings[g], scans + 1)
    <2>1. rings[g] = Newest(Append(Series(g), Step(cur, g)), SeriesCap)
      BY DEF Pushed
    <2>2. Step(cur, g).t = scans + 1
      BY DEF Step
    <2>3. Uniform(Series(g), scans)
      <3>1. CASE g \in DOMAIN groups
        BY <3>1 DEF Series, SeriesInv
      <3>2. CASE g \notin DOMAIN groups
        <4>1. Series(g) = <<>> /\ <<>> \in Seq({}) /\ Len(<<>>) = 0
          BY <3>2, EmptySeq DEF Series
        <4> QED
          BY <4>1 DEF Uniform
      <3> QED
        BY <3>1, <3>2
    <2> QED
      BY <2>1, <2>2, <2>3, UniformPush DEF SeriesInv
  <1> QED
    BY <1>1, <1>4, <1>5 DEF SeriesInv

LEMMA SeriesNext == SeriesInv /\ [ProbesNext]_probesVars => SeriesInv'
  <1> SUFFICES ASSUME SeriesInv, [ProbesNext]_probesVars PROVE SeriesInv'
    OBVIOUS
  <1>1. CASE OffenderTick
    BY <1>1, ScanSeries
  <1>2. CASE UNCHANGED <<scans, groups>>
    BY <1>2 DEF SeriesInv
  <1>3. CASE UNCHANGED probesVars \/ ScopeKey \/ LeaveScope \/ AnalyseSeries
    BY <1>2, <1>3 DEF probesVars, offender, ScopeKey, LeaveScope, AnalyseSeries
  <1>4. CASE Latency
    BY <1>2, <1>4 DEF Latency, Clock, Sleep, Wake, Push, Attribute, Analyse, offender
  <1>5. CASE AnalyseOffenders
    BY <1>2, <1>5 DEF AnalyseOffenders
  <1> QED
    BY <1>1, <1>3, <1>4, <1>5 DEF ProbesNext, Offender

\* The series of the groups stay uniform, for any number of processes, groups
\* and scans: each ends with the last scan and has a step for every scan since
\* the group was taken up (offender_loop).
THEOREM SeriesStayUniform == ProbesSpec => []SeriesUniform
  <1>1. SeriesInv => SeriesUniform
    <2> SUFFICES ASSUME SeriesInv, NEW g \in DOMAIN groups
                 PROVE  LET s == groups[g] IN
                          /\ s # <<>> /\ ~Idle(s)
                          /\ \A i \in DOMAIN s : s[i].t = scans - Len(s) + i
      BY DEF SeriesUniform
    <2>1. Uniform(groups[g], scans) /\ ~Idle(groups[g])
      BY DEF SeriesInv
    <2>2. DOMAIN groups[g] = 1..Len(groups[g])
      BY <2>1, LenProperties DEF Uniform
    <2>3. groups[g] # <<>>
      BY <2>1 DEF Idle
    <2> QED
      BY <2>1, <2>2, <2>3 DEF Uniform
  <1> QED
    BY <1>1, SeriesInit, SeriesNext, PTL DEF ProbesSpec

---------------------------------------------------------------------------
(* The attribution of stalls.                                              *)

\* Everything sampled or looked at is from before n.
Early(n) == lastT < n /\ \A i \in 1..Len(ring) : ring[i].t < n

LatencyTypes ==
  /\ {now, lastT, t0, over} \subseteq Nat /\ pc \in {"awake", "asleep", "measured"}
  /\ ring \in Seq([t : Nat, over : Nat]) /\ Len(ring) <= Cap
  /\ fresh \in Seq(Nat) /\ \E A : intervals \in Seq(A)

\* A sleep begins after all that was sampled, so its sample will be the newest.
Times ==
  /\ Early(now)
  /\ pc # "awake" => Early(t0)
  /\ pc = "measured" => t0 < now

\* What was pushed since the attributor looked is the end of the ring, and its
\* mark lies between.
Looked ==
  /\ Len(fresh) <= Len(ring)
  /\ \A i \in 1..(Len(ring) - Len(fresh)) : ring[i].t <= lastT
  /\ \A i \in 1..Len(fresh) : /\ ring[Len(ring) - Len(fresh) + i].over = fresh[i]
                              /\ ring[Len(ring) - Len(fresh) + i].t > lastT

LatencyInv == LatencyTypes /\ Times /\ Looked

LEMMA LatencyInit == ProbesInit => LatencyInv
  <1> SUFFICES ASSUME ProbesInit PROVE LatencyInv
    OBVIOUS
  <1>1. /\ now = 1 /\ lastT = 0 /\ t0 = 0 /\ over = 0 /\ pc = "awake"
        /\ ring = <<>> /\ fresh = <<>> /\ intervals = <<>>
    BY DEF ProbesInit
  <1>2. Len(<<>>) = 0 /\ \A S : <<>> \in Seq(S)
    BY EmptySeq
  <1>3. Cap \in Nat
    BY InstrumentsAssumption
  <1> QED
    BY <1>1, <1>2, <1>3 DEF LatencyInv, LatencyTypes, Times, Looked, Early

\* What the attributor finds newer than its mark is what was pushed since, and
\* its new mark is that of the last sample of all.
LEMMA Sought ==
  ASSUME LatencyInv
  PROVE  LET seen == MaxOvershootAfter(lastT) IN
         /\ seen.over = Largest(ToSet(fresh))
         /\ seen.newest \in Nat
         /\ \A i \in 1..Len(ring) : ring[i].t <= seen.newest
         /\ \A n \in Nat : Early(n) => seen.newest < n
  <1> DEFINE newer == {s \in ToSet(ring) : s.t > lastT}
             T == {s.t : s \in newer} \cup {lastT}
  <1>1. /\ Len(ring) \in Nat /\ Len(fresh) \in Nat /\ Len(fresh) <= Len(ring)
        /\ DOMAIN ring = 1..Len(ring) /\ DOMAIN fresh = 1..Len(fresh)
        /\ lastT \in Nat /\ now \in Nat
    BY LenProperties DEF LatencyInv, LatencyTypes, Looked
  <1>2. \A i \in 1..Len(ring) : ring[i] \in [t : Nat, over : Nat]
    BY ElementOfSeq DEF LatencyInv, LatencyTypes
  <1>3. {s.over : s \in newer} = ToSet(fresh)
    <2>1. ASSUME NEW i \in 1..Len(ring), ring[i].t > lastT
          PROVE  \E k \in 1..Len(fresh) : ring[i].over = fresh[k]
      <3> DEFINE k == i - (Len(ring) - Len(fresh))
      <3>1. ~(i \in 1..(Len(ring) - Len(fresh)))
        BY <1>1, <1>2, <2>1 DEF LatencyInv, Looked
      <3>2. k \in 1..Len(fresh) /\ Len(ring) - Len(fresh) + k = i
        BY <1>1, <3>1
      <3> QED
        BY <3>2 DEF LatencyInv, Looked
    <2>2. ASSUME NEW k \in 1..Len(fresh)
          PROVE  \E i \in 1..Len(ring) : ring[i].t > lastT /\ ring[i].over = fresh[k]
      <3>1. Len(ring) - Len(fresh) + k \in 1..Len(ring)
        BY <1>1
      <3> QED
        BY <3>1 DEF LatencyInv, Looked
    <2>3. ASSUME NEW s \in newer PROVE s.over \in ToSet(fresh)
      <3>1. PICK i \in 1..Len(ring) : ring[i] = s /\ ring[i].t > lastT
        BY <1>1, <2>3 DEF ToSet
      <3>2. PICK k \in 1..Len(fresh) : s.over = fresh[k]
        BY <2>1, <3>1
      <3> QED
        BY <1>1, <3>2 DEF ToSet
    <2>4. ASSUME NEW o \in ToSet(fresh) PROVE \E s \in newer : s.over = o
      <3>1. PICK k \in 1..Len(fresh) : fresh[k] = o
        BY <1>1 DEF ToSet
      <3>2. PICK i \in 1..Len(ring) : ring[i].t > lastT /\ ring[i].over = o
        BY <2>2, <3>1
      <3> QED
        BY <1>1, <3>2 DEF ToSet
    <2> HIDE DEF newer
    <2> QED
      BY <2>3, <2>4
  <1>4. T \subseteq 0..now /\ T # {} /\ \A i \in 1..Len(ring) : ring[i].t > lastT => ring[i].t \in T
    <2>1. lastT < now /\ \A i \in 1..Len(ring) : ring[i].t \in Nat /\ ring[i].t < now
      BY <1>2 DEF LatencyInv, Times, Early
    <2>2. \A s \in newer : \E i \in 1..Len(ring) : s.t = ring[i].t
      BY <1>1 DEF ToSet
    <2>3. \A i \in 1..Len(ring) : ring[i].t > lastT => ring[i] \in newer
      BY <1>1 DEF ToSet
    <2> HIDE DEF newer
    <2> QED
      BY <1>1, <2>1, <2>2, <2>3
  <1>5. \A x \in T : x = lastT \/ \E i \in 1..Len(ring) : x = ring[i].t
    BY <1>1 DEF ToSet
  <1>6. MaxOvershootAfter(lastT) = [over |-> Largest({s.over : s \in newer}), newest |-> Max(T)]
    BY DEF MaxOvershootAfter
  <1>7. lastT \in T
    OBVIOUS
  <1> HIDE DEF T, newer
  <1>8. \E x \in T : \A y \in T : y <= x
    BY <1>1, <1>4, GreatestNat
  <1>9. Max(T) \in T /\ \A y \in T : Max(T) >= y
    <2>1. \E x \in T : \A y \in T : x >= y
      BY <1>1, <1>4, <1>8
    <2> QED
      BY <2>1 DEF Max
  <1>10. Max(T) \in Nat
    <2>1. Max(T) \in 0..now
      BY <1>4, <1>9
    <2> QED
      BY <1>1, <2>1
  <1>11. \A i \in 1..Len(ring) : ring[i].t <= Max(T)
    BY <1>1, <1>2, <1>4, <1>7, <1>9, <1>10
  <1>12. \A n \in Nat : Early(n) => Max(T) < n
    BY <1>5, <1>9 DEF Early
  <1>13. /\ MaxOvershootAfter(lastT).over = Largest({s.over : s \in newer})
         /\ MaxOvershootAfter(lastT).newest = Max(T)
    BY <1>6
  <1> QED
    BY <1>3, <1>10, <1>11, <1>12, <1>13

\* The interval that is recorded.
LEMMA Recorded ==
  ASSUME \E A : intervals \in Seq(A), NEW o
  PROVE  LET r == Newest(Append(intervals, o), IntervalCap) IN
         (\E A : r \in Seq(A)) /\ Last(r) = o
  <1>1. PICK B : intervals \in Seq(B)
    OBVIOUS
  <1> DEFINE A == B \cup {o}
             r == Newest(Append(intervals, o), IntervalCap)
  <1>2. intervals \in Seq(A) /\ o \in A
    BY <1>1, SeqMonotonic
  <1>3. IntervalCap \in Nat \ {0}
    BY InstrumentsAssumption
  <1>4. r \in Seq(A) /\ WithLast(r, intervals, o, IntervalCap)
    <2> HIDE DEF A
    <2> QED
      BY <1>2, <1>3, RingPush
  <1> HIDE DEF A, r
  <1>5. Last(r) = o
    BY <1>4 DEF WithLast, Last
  <1> QED
    BY <1>4, <1>5 DEF r

LEMMA AttributeInv == ASSUME LatencyInv, Attribute PROVE LatencyInv'
  <1> DEFINE seen == MaxOvershootAfter(lastT)
  <1>1. /\ lastT' = seen.newest /\ fresh' = <<>>
        /\ UNCHANGED <<now, pc, t0, over, ring>>
        /\ intervals' = intervals \/ intervals' = Newest(Append(intervals, seen.over), IntervalCap)
    BY DEF Attribute, probe
  <1>2. /\ seen.newest \in Nat
        /\ \A i \in 1..Len(ring) : ring[i].t <= seen.newest
        /\ \A n \in Nat : Early(n) => seen.newest < n
    BY Sought
  <1> HIDE DEF seen
  <1>3. \E A : intervals' \in Seq(A)
    BY <1>1, Recorded DEF LatencyInv, LatencyTypes
  <1>4. <<>> \in Seq(Nat) /\ Len(<<>>) = 0 /\ Len(ring) \in Nat
    BY EmptySeq, LenProperties DEF LatencyInv, LatencyTypes
  <1>5. LatencyTypes'
    BY <1>1, <1>2, <1>3, <1>4 DEF LatencyInv, LatencyTypes
  <1>7. Times'
    <2>1. now \in Nat /\ t0 \in Nat
      BY DEF LatencyInv, LatencyTypes
    <2>2. Early(now)' /\ (pc # "awake" => Early(t0)')
      <3>1. Early(now) /\ (pc # "awake" => Early(t0))
        BY DEF LatencyInv, Times
      <3> QED
        BY <1>1, <1>2, <2>1, <3>1 DEF Early
    <2> QED
      BY <1>1, <2>2 DEF LatencyInv, Times, Early
  <1>8. Looked'
    BY <1>1, <1>2, <1>4 DEF Looked
  <1> QED
    BY <1>5, <1>7, <1>8 DEF LatencyInv

LEMMA PushInv == ASSUME LatencyInv, Push PROVE LatencyInv'
  <1> DEFINE x == [t |-> t0, over |-> over]
  <1>1. /\ ring' = Newest(Append(ring, x), Cap) /\ fresh' = Newest(Append(fresh, over), Cap)
        /\ pc = "measured" /\ pc' = "awake" /\ t0' = 0 /\ over' = 0
        /\ UNCHANGED <<now, lastT, intervals>>
    BY DEF Push
  <1>2. /\ now \in Nat /\ t0 \in Nat /\ over \in Nat /\ lastT \in Nat
        /\ x \in [t : Nat, over : Nat] /\ x.t = t0 /\ x.over = over
    BY DEF LatencyInv, LatencyTypes
  <1>3. Cap \in Nat \ {0}
    BY InstrumentsAssumption
  <1> HIDE DEF x
  <1>4. ring' \in Seq([t : Nat, over : Nat]) /\ WithLast(ring', ring, x, Cap)
    BY <1>1, <1>2, <1>3, RingPush DEF LatencyInv, LatencyTypes
  <1>5. fresh' \in Seq(Nat) /\ WithLast(fresh', fresh, over, Cap)
    BY <1>1, <1>2, <1>3, RingPush DEF LatencyInv, LatencyTypes
  <1> DEFINE L == Len(ring)  M == Len(ring')  F == Len(fresh)  G == Len(fresh')
  <1>6. /\ L \in Nat /\ F \in Nat /\ F <= L /\ L <= Cap
    BY LenProperties DEF LatencyInv, LatencyTypes, Looked
  <1>7. /\ M = IF L < Cap THEN L + 1 ELSE Cap
        /\ ring'[M] = x
        /\ \A i \in 1..(M - 1) : ring'[i] = ring[L - M + 1 + i]
    BY <1>4 DEF WithLast
  <1>8. /\ G = IF F < Cap THEN F + 1 ELSE Cap
        /\ fresh'[G] = over
        /\ \A i \in 1..(G - 1) : fresh'[i] = fresh[F - G + 1 + i]
    BY <1>5 DEF WithLast
  <1> HIDE DEF L, M, F, G
  <1>9. /\ M \in Nat /\ G \in Nat /\ 1 <= M /\ M <= L + 1 /\ M <= Cap
        /\ 1 <= G /\ G <= F + 1 /\ G <= M /\ (G = F + 1 \/ M = G)
    BY <1>3, <1>6, <1>7, <1>8
  <1>10. \A i \in 1..M : i = M \/ (i \in 1..(M - 1) /\ L - M + 1 + i \in 1..L)
    BY <1>6, <1>9
  <1>11. \A i \in 1..M : ring'[i].t < now
    <2>1. t0 < now
      BY <1>1 DEF LatencyInv, Times
    <2>2. \A i \in 1..L : ring[i].t < now
      BY DEF LatencyInv, Times, Early, L
    <2> QED
      BY <1>2, <1>7, <1>10, <2>1, <2>2
  <1>12. Times'
    BY <1>1, <1>11 DEF LatencyInv, Times, Early, M
  <1>13. LatencyTypes'
    BY <1>1, <1>2, <1>4, <1>5, <1>9 DEF LatencyInv, LatencyTypes, M
  <1>14. \A i \in 1..(M - G) : ring'[i].t <= lastT
    <2> TAKE i \in 1..(M - G)
    <2>1. i \in 1..(M - 1) /\ L - M + 1 + i \in 1..(L - F)
      BY <1>6, <1>9
    <2> QED
      BY <1>7, <2>1 DEF LatencyInv, Looked, L, F
  <1>15. \A i \in 1..G : ring'[M - G + i].over = fresh'[i] /\ ring'[M - G + i].t > lastT
    <2> TAKE i \in 1..G
    <2>1. CASE i = G
      <3>1. M - G + i = M
        BY <1>9, <2>1
      <3>2. t0 > lastT
        BY <1>1, <1>2 DEF LatencyInv, Times, Early
      <3> QED
        BY <1>2, <1>7, <1>8, <2>1, <3>1, <3>2
    <2>2. CASE i # G
      <3> DEFINE j == F - G + 1 + i
      <3>1. /\ i \in 1..(G - 1) /\ M - G + i \in 1..(M - 1) /\ j \in 1..F
            /\ L - M + 1 + (M - G + i) = L - F + j
        BY <1>6, <1>9, <2>2
      <3>2. ring'[M - G + i] = ring[L - F + j] /\ fresh'[i] = fresh[j]
        BY <1>7, <1>8, <3>1
      <3>3. ring[L - F + j].over = fresh[j] /\ ring[L - F + j].t > lastT
        BY <3>1 DEF LatencyInv, Looked, L, F
      <3> QED
        BY <3>2, <3>3
    <2> QED
      BY <2>1, <2>2
  <1>16. Looked'
    BY <1>1, <1>9, <1>14, <1>15 DEF Looked, M, G
  <1> QED
    BY <1>12, <1>13, <1>16 DEF LatencyInv

\* The clock, and the sleep of the probe.
LEMMA ProbeInv == ASSUME LatencyInv, Clock \/ Sleep \/ Wake PROVE LatencyInv'
  <1>1. /\ now \in Nat /\ t0 \in Nat /\ over \in Nat /\ Tick \in Nat \ {0}
        /\ UNCHANGED <<lastT, ring, fresh, intervals>>
    BY InstrumentsAssumption DEF LatencyInv, LatencyTypes, Clock, Sleep, Wake, attrib, probe
  <1>2. Looked'
    BY <1>1 DEF LatencyInv, Looked
  <1>3. \A n : Early(n)' <=> Early(n)
    BY <1>1 DEF Early
  <1>4. CASE Clock
    <2>1. now' = now + 1 /\ UNCHANGED <<pc, t0, over>>
      BY <1>4 DEF Clock, probe
    <2>2. Early(now + 1)
      <3>1. \A i \in 1..Len(ring) : ring[i].t \in Nat
        <4>1. \A i \in 1..Len(ring) : ring[i] \in [t : Nat, over : Nat]
          BY ElementOfSeq DEF LatencyInv, LatencyTypes
        <4> QED
          BY <4>1
      <3>2. lastT \in Nat
        BY DEF LatencyInv, LatencyTypes
      <3> QED
        BY <1>1, <3>1, <3>2 DEF LatencyInv, Times, Early
    <2>3. Times'
      BY <1>1, <1>3, <2>1, <2>2 DEF LatencyInv, Times
    <2>4. LatencyTypes'
      BY <1>1, <2>1 DEF LatencyInv, LatencyTypes
    <2> QED
      BY <1>2, <2>3, <2>4 DEF LatencyInv
  <1>5. CASE Sleep
    <2>1. pc' = "asleep" /\ t0' = now /\ UNCHANGED <<now, over>>
      BY <1>5 DEF Sleep
    <2>2. Times'
      BY <1>3, <2>1 DEF LatencyInv, Times
    <2>3. LatencyTypes'
      BY <1>1, <2>1 DEF LatencyInv, LatencyTypes
    <2> QED
      BY <1>2, <2>2, <2>3 DEF LatencyInv
  <1>6. CASE Wake
    <2>1. /\ pc = "asleep" /\ pc' = "measured" /\ now >= t0 + Tick /\ over' = now - t0 - Tick
          /\ UNCHANGED <<now, t0>>
      BY <1>6 DEF Wake
    <2>2. over' \in Nat /\ t0 < now
      BY <1>1, <2>1
    <2>3. Times'
      BY <1>3, <2>1, <2>2 DEF LatencyInv, Times
    <2>4. LatencyTypes'
      BY <1>1, <2>1, <2>2 DEF LatencyInv, LatencyTypes
    <2> QED
      BY <1>2, <2>3, <2>4 DEF LatencyInv
  <1> QED
    BY <1>4, <1>5, <1>6

LEMMA LatencyNext == LatencyInv /\ [ProbesNext]_probesVars => LatencyInv'
  <1> SUFFICES ASSUME LatencyInv, [ProbesNext]_probesVars PROVE LatencyInv'
    OBVIOUS
  <1>1. CASE UNCHANGED <<now, lastT, t0, over, pc, ring, fresh, intervals>>
    BY <1>1 DEF LatencyInv, LatencyTypes, Times, Looked, Early
  <1>2. CASE UNCHANGED probesVars \/ ScopeKey \/ LeaveScope \/ AnalyseSeries
    BY <1>1, <1>2 DEF probesVars, latency, probe, attrib, ScopeKey, LeaveScope, AnalyseSeries
  <1>3. CASE Offender
    BY <1>1, <1>3 DEF Offender, OffenderTick, AnalyseOffenders, latency, probe, attrib
  <1>4. CASE Analyse
    BY <1>1, <1>4 DEF Analyse, probe, attrib
  <1> QED
    BY <1>2, <1>3, <1>4, AttributeInv, PushInv, ProbeInv DEF ProbesNext, Latency

\* An interval is tagged with the worst stall pushed since the attributor last
\* looked, for every ring, clock and gap between two looks: none counts twice,
\* none that is still in the ring is missed (Attributor::sample).
THEOREM WorstIsTagged == ProbesSpec => WorstSinceLast
  <1>1. LatencyInv /\ [ProbesNext]_probesVars
          => [(Attribute /\ primed /\ WallDt > 0) => Last(intervals') = Largest(ToSet(fresh))]_probesVars
    <2> SUFFICES ASSUME LatencyInv, Attribute, primed, WallDt > 0
                 PROVE  Last(intervals') = Largest(ToSet(fresh))
      OBVIOUS
    <2>1. intervals' = Newest(Append(intervals, MaxOvershootAfter(lastT).over), IntervalCap)
      BY DEF Attribute
    <2>2. Last(intervals') = MaxOvershootAfter(lastT).over
      BY <2>1, Recorded DEF LatencyInv, LatencyTypes
    <2> QED
      BY <2>2, Sought
  <1> QED
    BY <1>1, LatencyInit, LatencyNext, PTL DEF ProbesSpec, WorstSinceLast
=============================================================================
