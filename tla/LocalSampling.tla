--------------------------- MODULE LocalSampling ---------------------------
(* Sampling /proc in local mode: the processes of the machine, the          *)
(* snapshot the viewer keeps between refreshes, and the rows that are the    *)
(* difference of two snapshots.                                              *)
(*                                                                           *)
(* Two counters stand for all: cpu, always read, and io, read from a file of *)
(* its own when a disk metric is shown or sorted by and the kernel lets it   *)
(* be read; a unit of the unified hierarchy may have a file of its own.  A   *)
(* rate is a difference; of what it is divided by only a clock that stood    *)
(* still matters.  The rows are those sample returns; fading, order and      *)
(* peaks are in Rows.                                                        *)
EXTENDS Option, Saturating, FiniteSets, Functions

CONSTANTS
  Pids,
  Kinds,     \* what a process runs as: [comm, unit, exe, mine], "" where unreadable
  IoStat,    \* units with an io.stat file (the hierarchy is unified)
  MaxCpu, MaxIo  \* bounds: cpu of a process, io of a process and of a unit

ASSUME LocalSamplingAssumption ==
  /\ IsFiniteSet(Pids)
  /\ Kinds \subseteq [comm : STRING, unit : STRING, exe : STRING, mine : BOOLEAN]
  /\ IoStat \subseteq {k.unit : k \in Kinds} \ {""}
  /\ MaxCpu \in Nat /\ MaxIo \in Nat

Units == {k.unit : k \in Kinds} \ {""}

VARIABLES
  procs,     \* pid -> what it runs as and its counters, or None
  unitIo,    \* io of a unit, by processes that are gone too
  needIo, groupBy,
  snap,      \* AppState::snap: None or the readings of the last collect
  rows       \* what sample returned: label -> [cpu, io, complete]

machine == <<procs, unitIo>>
settings == <<needIo, groupBy>>
samplingVars == <<machine, settings, snap, rows>>

Live == {p \in Pids : procs[p] # None}
NoRows == <<>>
Known == IF snap = None THEN {} ELSE DOMAIN snap.reads

---------------------------------------------------------------------------
(* The machine.                                                             *)

\* A pid is not used again between two refreshes.
Start(p, k) ==
  /\ procs[p] = None
  /\ p \notin Known
  /\ procs' = [procs EXCEPT ![p] = [kind |-> k, cpu |-> 0, io |-> 0]]
  /\ UNCHANGED <<unitIo, settings, snap, rows>>

Exit(p) ==
  /\ p \in Live
  /\ procs' = [procs EXCEPT ![p] = None]
  /\ UNCHANGED <<unitIo, settings, snap, rows>>

\* exec, prctl, a move to another unit: the counters stay.
Become(p, k) ==
  /\ p \in Live /\ procs[p].kind # k
  /\ procs' = [procs EXCEPT ![p].kind = k]
  /\ UNCHANGED <<unitIo, settings, snap, rows>>

\* Some work does io, and is charged to the unit.
Work(p) ==
  /\ p \in Live
  /\ \E cpu \in {0, 1}, io \in {0, 1} :
       LET u == {procs[p].kind.unit} \cap Units IN
       /\ procs[p].cpu + cpu <= MaxCpu /\ procs[p].io + io <= MaxIo
       /\ procs' = [procs EXCEPT ![p].cpu = @ + cpu, ![p].io = @ + io]
       /\ unitIo' = [x \in Units |-> unitIo[x] + IF x \in u THEN io ELSE 0]
       /\ \A x \in u : unitIo'[x] <= MaxIo
  /\ UNCHANGED <<settings, snap, rows>>

---------------------------------------------------------------------------
(* collect.                                                                 *)

Or(s, default) == IF s = "" THEN default ELSE s
KeyOf(by, k) == CASE by = "Comm" -> k.comm
                  [] by = "Cgroup" -> Or(k.unit, k.comm)
                  [] by = "Exe" -> Or(k.exe, k.comm)
Cycled(by) == CASE by = "Comm" -> "Cgroup" [] by = "Cgroup" -> "Exe" [] by = "Exe" -> "Comm"

\* One process: stat, then io when it is needed.  A process that exits between
\* the two is Gone from the second.  did: what it did, read or not (history).
Reading(p, dying) ==
  LET how == IF ~needIo THEN "No" ELSE IF p \in dying THEN "Gone"
             ELSE IF procs[p].kind.mine THEN "Ok" ELSE "Denied"
  IN [kind |-> procs[p].kind, cpu |-> procs[p].cpu,
      io |-> IF how = "Ok" THEN procs[p].io ELSE 0, how |-> how, did |-> procs[p].io]

\* The files of the units that group a process; one that is not there leaves 0.
UnitReading(u) ==
  IF groupBy = "Cgroup" /\ u \in IoStat /\ (\E p \in Live : procs[p].kind.unit = u)
  THEN unitIo[u] ELSE 0

Collect(dying) ==
  [by |-> groupBy, reads |-> [p \in Live |-> Reading(p, dying)],
   units |-> [u \in Units |-> UnitReading(u)]]

GroupOf(s, p) == KeyOf(s.by, s.reads[p].kind)
GroupsIn(s) == {GroupOf(s, p) : p \in DOMAIN s.reads}
MembersOf(s, l) == {p \in DOMAIN s.reads : GroupOf(s, p) = l}

\* The counters of a group; a group that is not there has none.
Cpu(s, l) == SumFunction([p \in MembersOf(s, l) |-> s.reads[p].cpu])
Io(s, l) == SumFunction([p \in MembersOf(s, l) |-> s.reads[p].io])
OfUnit(s, l) == s.by = "Cgroup" /\ \E p \in MembersOf(s, l) : s.reads[p].kind.unit # ""
UnitIo(s, l) == IF l \in Units THEN s.units[l] ELSE 0

(* sample: the rows are what changed since the previous snapshot.            *)

\* Fault: what was denied is not told.
DeltaUntold(s, t, l) ==
  [cpu |-> Minus(Cpu(t, l), Cpu(s, l)), io |-> Minus(Io(t, l), Io(s, l)), complete |-> TRUE]

\* The row of a unit has its io from the unit's file, and is always said to be
\* complete.
Delta(s, t, l) ==
  [cpu |-> Minus(Cpu(t, l), Cpu(s, l)),
   io |-> IF OfUnit(t, l) THEN Minus(UnitIo(t, l), UnitIo(s, l)) ELSE Minus(Io(t, l), Io(s, l)),
   complete |-> OfUnit(t, l) \/ \A p \in MembersOf(t, l) : t.reads[p].how # "Denied"]

\* No rows without a previous snapshot, nor when the system-wide counter did
\* not move between the two; none for a group that used no cpu.
Sample(s, t, moved) ==
  IF s = None \/ ~moved THEN NoRows
  ELSE [l \in {x \in GroupsIn(t) : Cpu(t, x) > Cpu(s, x)} |-> Delta(s, t, l)]

---------------------------------------------------------------------------
(* The viewer.                                                              *)

SamplingInit ==
  /\ procs \in [Pids -> {None} \cup {[kind |-> k, cpu |-> n, io |-> n] : k \in Kinds, n \in {0, 1}}]
  /\ unitIo = [u \in Units |-> 0]
  /\ needIo = FALSE /\ groupBy = "Comm"
  /\ snap = None /\ rows = NoRows

\* collect and sample: some processes may exit after their first file is read.
TakeSnapshot(moved) ==
  \E dying \in SUBSET Live :
    LET now == Collect(dying) IN
    /\ snap' = now
    /\ rows' = Sample(snap, now, moved)
    /\ procs' = [p \in Pids |-> IF p \in dying THEN None ELSE procs[p]]

\* /proc/stat cannot be read: the snapshot was taken out and is lost.
LoseSnapshot == snap' = None /\ UNCHANGED <<rows, procs>>

RefreshSample ==
  /\ (\E moved \in BOOLEAN : TakeSnapshot(moved)) \/ LoseSnapshot
  /\ UNCHANGED <<unitIo, settings>>

\* The arrows and s choose which files are read from the next refresh on.
MetricKey ==
  /\ needIo' = ~needIo
  /\ UNCHANGED <<machine, groupBy, snap, rows>>

\* Fault: g keeps the snapshot.
ChangeGroupingKept ==
  /\ groupBy' = Cycled(groupBy)
  /\ rows' = NoRows
  /\ UNCHANGED <<machine, needIo, snap>>

ChangeGrouping ==
  /\ groupBy' = Cycled(groupBy)
  /\ snap' = None /\ rows' = NoRows
  /\ UNCHANGED <<machine, needIo>>

Process(p) == \/ Exit(p) \/ Work(p)
              \/ \E k \in Kinds : Start(p, k) \/ Become(p, k)
Viewer == RefreshSample \/ MetricKey \/ ChangeGrouping

SamplingNext == Viewer \/ \E p \in Pids : Process(p)

SamplingSpec == SamplingInit /\ [][SamplingNext]_samplingVars

---------------------------------------------------------------------------
(* Properties.                                                              *)

SamplingTypeOK ==
  /\ procs \in [Pids -> {None} \cup [kind : Kinds, cpu : 0..MaxCpu, io : 0..MaxIo]]
  /\ unitIo \in [Units -> 0..MaxIo]
  /\ needIo \in BOOLEAN /\ groupBy \in {"Comm", "Cgroup", "Exe"}
  /\ snap = None \/ /\ DOMAIN snap.reads \subseteq Pids
                    /\ \A p \in DOMAIN snap.reads : snap.reads[p].how \in {"No", "Ok", "Denied", "Gone"}

\* Work of a process since the last snapshot, and who came to or left a group.
Earlier(p) == IF p \in Known THEN snap.reads[p] ELSE [cpu |-> 0, did |-> 0]
CpuSince(p) == procs[p].cpu - Earlier(p).cpu
IoSince(p) == procs[p].io - Earlier(p).did
Joined(l) == \E p \in MembersOf(snap', l) :
  p \in DOMAIN snap.reads /\ KeyOf(groupBy, snap.reads[p].kind) # l
Left(l) == \E p \in DOMAIN snap.reads :
  /\ KeyOf(groupBy, snap.reads[p].kind) = l
  /\ p \notin MembersOf(snap', l)

\* The cpu of a row is the cpu its processes used since the last refresh; it
\* is less when one of them is gone, whose share is lost, and more only when
\* one comes from another group with all it used before (local.rs:1046).  So is
\* the io of a row that is said to be complete, if the files of its processes
\* were read both times.
RowsAccountForWork ==
  [][(RefreshSample /\ snap # None /\ snap' # None) =>
       \A l \in DOMAIN rows' :
         LET who == MembersOf(snap', l)
             cpu == SumFunction([p \in who |-> CpuSince(p)])
             io == SumFunction([p \in who |-> IoSince(p)])
         IN ~Joined(l) =>
              /\ rows'[l].cpu <= cpu
              /\ ~Left(l) => rows'[l].cpu = cpu
              /\ (needIo /\ rows'[l].complete /\ ~OfUnit(snap', l)
                    /\ \A p \in who \cap Known : snap.reads[p].how = "Ok") =>
                   /\ rows'[l].io <= io
                   /\ (~Left(l) /\ \A p \in who : snap'.reads[p].how # "Gone") => rows'[l].io = io]_samplingVars
=============================================================================
