---------------------------- MODULE SpineHealth ----------------------------
(* The health tiers of the spine in fleet mode: every refresh recomputes   *)
(* the tier of each place from the last snapshot of its connection and     *)
(* from the tier the place had, which gives the thresholds hysteresis.     *)
(* A connection is its position in fleet_clients, a place a host name.     *)
EXTENDS Option, Integers

CONSTANTS N,          \* connections
          Hostname,   \* [1..N -> names], as given by --hosts
          Psi, Cpu,   \* thresholds of the stall signals and of the CPU fallback
          Reading     \* signals a snapshot may carry

Conn == 1..N
Place == {Hostname[c] : c \in Conn}
Threshold == [warnOn : Int, warnOff : Int, critOn : Int, critOff : Int]
Signals == [psi_cpu : Int \cup {None}, psi_mem : Int \cup {None},
            psi_io : Int \cup {None}, cpu_pct : Int \cup {None}]

\* A lower threshold is below its upper one, and the worse pair above the
\* other: PSI_WARN_ON and the constants after it.
Ordered(at) == /\ at \in Threshold
               /\ at.warnOff <= at.warnOn /\ at.critOff <= at.critOn
               /\ at.warnOn <= at.critOn /\ at.warnOff <= at.critOff

ASSUME SpineHealthAssumption ==
  /\ N \in Nat \ {0}
  /\ Ordered(Psi) /\ Ordered(Cpu)
  /\ Reading \subseteq Signals
  /\ None \notin Int \cup Reading \cup Place

Tier == {"Calm", "Warn", "Critical"}
NoSignals == [psi_cpu |-> None, psi_mem |-> None, psi_io |-> None, cpu_pct |-> None]

VARIABLES
  chan,     \* newest snapshot not yet taken from a connection's channel, or None
  snap,     \* FleetConn::snap
  tier,     \* health_tiers, a map; empty until the first refresh
  host,     \* the entered host (view Remote), or None
  paused,   \* history_cursor is set
  read      \* what the last refresh read of each place (history)

vars == <<chan, snap, tier, host, paused, read>>

---------------------------------------------------------------------------
(* stepped_tier and place_health.                                          *)

\* Fault: one tier at a time on the way down.
SteppedDownByOne(prev, v, at) ==
  IF v >= at.critOn \/ (v >= at.critOff /\ prev = "Critical") THEN "Critical"
  ELSE IF v >= at.warnOn \/ prev = "Critical" \/ (v >= at.warnOff /\ prev = "Warn") THEN "Warn"
  ELSE "Calm"

SteppedTier(prev, v, at) ==
  IF v >= at.critOn \/ (v >= at.critOff /\ prev = "Critical") THEN "Critical"
  ELSE IF v >= at.warnOn \/ (v >= at.warnOff /\ prev # "Calm") THEN "Warn"
  ELSE "Calm"

Known(s) == {s.psi_cpu, s.psi_mem, s.psi_io} \ {None}

\* Fault: the first signal known instead of the worst.
FirstKnown(s) == IF s.psi_cpu # None THEN s.psi_cpu
                 ELSE IF s.psi_mem # None THEN s.psi_mem ELSE s.psi_io

Worst(s) == CHOOSE v \in Known(s) : \A w \in Known(s) : w <= v

PlaceHealth(prev, s) ==
  IF Known(s) # {} THEN SteppedTier(prev, Worst(s), Psi)
  ELSE IF s.cpu_pct # None THEN SteppedTier(prev, s.cpu_pct, Cpu)
  ELSE "Calm"

---------------------------------------------------------------------------
\* fleet_conn_for_label: the first connection of that name.
ConnOf(p) == CHOOSE c \in Conn : /\ Hostname[c] = p
                                 /\ \A d \in Conn : Hostname[d] = p => c <= d

PlaceSignals(snaps, p) == IF snaps[ConnOf(p)] = None THEN NoSignals ELSE snaps[ConnOf(p)]

Prev(p) == IF p \in DOMAIN tier THEN tier[p] ELSE "Calm"

\* Fault: only places that have a snapshot are put into the new map.
RebuildKnown(snaps) == [p \in {q \in Place : snaps[ConnOf(q)] # None} |->
                          PlaceHealth(Prev(p), PlaceSignals(snaps, p))]

Rebuild(snaps) == [p \in Place |-> PlaceHealth(Prev(p), PlaceSignals(snaps, p))]

Taken(c) == IF chan[c] # None THEN chan[c] ELSE snap[c]

Init == /\ chan = [c \in Conn |-> None]
        /\ snap = [c \in Conn |-> None]
        /\ tier = << >>
        /\ host = None
        /\ paused = FALSE
        /\ read = [p \in Place |-> NoSignals]

\* A reader thread hands over a snapshot; try_recv would skip older ones.  The
\* snapshots of a lost connection have simply ended.
Arrive(c) == \E s \in Reading :
  /\ chan' = [chan EXCEPT ![c] = s]
  /\ UNCHANGED <<snap, tier, host, paused, read>>

\* Outside Remote; a paused refresh returns before anything is taken.
Refresh ==
  /\ host = None /\ ~paused
  /\ snap' = [c \in Conn |-> Taken(c)]
  /\ chan' = [c \in Conn |-> None]
  /\ tier' = Rebuild(snap')
  /\ read' = [p \in Place |-> PlaceSignals(snap', p)]
  /\ UNCHANGED <<host, paused>>

\* The poll of an entered host stores its snapshot and leaves the tiers alone.
HostPoll ==
  /\ host # None /\ chan[ConnOf(host)] # None
  /\ snap' = [snap EXCEPT ![ConnOf(host)] = Taken(ConnOf(host))]
  /\ chan' = [chan EXCEPT ![ConnOf(host)] = None]
  /\ UNCHANGED <<tier, host, paused, read>>

\* The loop refreshes before it first reads a key.
EnterHost(p) == /\ host = None /\ DOMAIN tier # {}
                /\ host' = p
                /\ UNCHANGED <<chan, snap, tier, paused, read>>

LeaveHost == /\ host # None
             /\ host' = None
             /\ UNCHANGED <<chan, snap, tier, paused, read>>

\* p pauses only once there is history, which every refresh adds to.
PauseKey == /\ DOMAIN tier # {}
            /\ paused' = ~paused
            /\ UNCHANGED <<chan, snap, tier, host, read>>

Next == \/ \E c \in Conn : Arrive(c)
        \/ Refresh
        \/ HostPoll
        \/ \E p \in Place : EnterHost(p)
        \/ LeaveHost
        \/ PauseKey

Spec == Init /\ [][Next]_vars

---------------------------------------------------------------------------
(* Properties.                                                             *)

Snapshot == Reading \cup {None}

\* Every place has a tier as soon as there are any, whether or not its
\* connection has ever sent a snapshot (refresh, health_tiers).
TypeOK ==
  /\ chan \in [Conn -> Snapshot] /\ snap \in [Conn -> Snapshot]
  /\ tier = << >> \/ tier \in [Place -> Tier]
  /\ host \in Place \cup {None} /\ paused \in BOOLEAN
  /\ read \in [Place -> Reading \cup {NoSignals}]

\* Nothing but a new snapshot moves a tier: a refresh that finds the same
\* snapshot again, as it does for every slow or lost connection, leaves the
\* tier as it is, although the tier is fed back (place_health, prev).
TierMovesWithReadings ==
  [][\A p \in Place : tier # << >> /\ tier'[p] # tier[p] => read'[p] # read[p]]_vars

\* The abstract view of a tier: two latches over all signals of the place.
Observed(s) ==
  IF Known(s) # {} THEN [known |-> Known(s), at |-> Psi]
                   ELSE [known |-> {s.cpu_pct} \ {None}, at |-> Cpu]

Readings == [p \in Place |-> Observed(read[p])]
Stalling == [p \in Place |-> Prev(p) # "Calm"]
BadlyStalling == [p \in Place |-> Prev(p) = "Critical"]

Latches == INSTANCE HealthLatches WITH
  Observation <- {Observed(s) : s \in Reading \cup {NoSignals}},
  seen <- Readings, warn <- Stalling, crit <- BadlyStalling

\* The tiers are two independent latches per place: Warn or worse appears as
\* soon as any signal of the place is at the upper threshold and disappears only
\* when all are below the lower one, likewise Critical (stepped_tier,
\* "a value hovering at a boundary does not strobe the tier").
TiersAreLatches == Latches!Spec
=============================================================================
