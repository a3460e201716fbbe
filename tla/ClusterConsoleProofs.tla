----------------------- MODULE ClusterConsoleProofs ------------------------
(* Proofs about ClusterConsole, for every list of machines, whatever their *)
(* names, pools, tags and nodes.                                           *)
EXTENDS ClusterConsole, PveSample, SharedLemmas

---------------------------------------------------------------------------
(* The machine of a row.                                                   *)

\* The metadata of a row that lists machines is that of one of them.
LEMMA MetaIsMember ==
  ASSUME NEW p, p.vms \subseteq Vm, NEW label,
         \E v \in p.vms : GroupLabel(p.by, v) = label
  PROVE  MetaOf(p, label) \in {v \in p.vms : GroupLabel(p.by, v) = label}
  <1> DEFINE S == {v \in p.vms : GroupLabel(p.by, v) = label}
  <1>1. S # {} /\ S \subseteq Vm
    OBVIOUS
  <1>2. Vm = 1..Len(Vms) /\ Len(Vms) \in Nat
    BY PveGroupsAssumption DEF Vm
  <1>3. MetaOf(p, label) = CHOOSE v \in S : \A w \in S : IF p.by = "Flat" THEN w <= v ELSE v <= w
    BY <1>1 DEF MetaOf
  <1> HIDE DEF S
  <1>4. \E v \in S : \A w \in S : IF p.by = "Flat" THEN w <= v ELSE v <= w
    <2>1. CASE p.by = "Flat"
      <3>1. S \subseteq 0..Len(Vms)
        BY <1>1, <1>2
      <3> QED
        BY <1>1, <1>2, <2>1, <3>1, GreatestNat
    <2>2. CASE p.by # "Flat"
      <3>1. S \subseteq Nat
        BY <1>1, <1>2
      <3> QED
        BY <1>1, <2>2, <3>1, LeastNat
    <2> QED
      BY <2>1, <2>2
  <1>5. MetaOf(p, label) \in S
    BY <1>3, <1>4
  <1> QED
    BY <1>5 DEF S

---------------------------------------------------------------------------
(* The inductive invariant.                                                *)

\* A packet that is not grouped the way the rows are asked for.
Astray(p) == IF p \notin {None, Error} /\ p.by # groupBy THEN 1 ELSE 0
AskedAstray == IF pc = "get" /\ asked # groupBy THEN 1 ELSE 0

\* Between the poller and the display there is room for two stale packets.
StaleBound == stale + Astray(chan) + AskedAstray <= 2

\* Rows of machines are those of the packet the metadata is from.
RowsOfMeta == entries.of \in Grouping => entries = [of |-> meta.by, vms |-> meta.vms]

ConsoleInv == TypeOK /\ StaleBound /\ RowsOfMeta

LEMMA InitInv == Init => ConsoleInv
  <1> SUFFICES ASSUME Init PROVE ConsoleInv
    OBVIOUS
  <1>1. TypeOK
    BY ClusterConsoleAssumption DEF Init, TypeOK, Grouping, Packet, Error, NoRows
  <1>2. StaleBound
    BY DEF Init, StaleBound, Astray, AskedAstray, Error
  <1>3. RowsOfMeta
    BY DEF Init, RowsOfMeta, NoRows, Grouping
  <1> QED
    BY <1>1, <1>2, <1>3 DEF ConsoleInv

\* The machine a row leads to is one there is.
LEMMA EnterVmTarget ==
  ASSUME ConsoleInv, NEW l \in Rows, EnterVm(l)
  PROVE  MetaOf(meta, l) \in Members(entries, l) /\ MetaOf(meta, l) \in Vm
  <1>1. entries.of \in Grouping
    BY DEF Rows
  <1>2. entries.of = meta.by /\ entries.vms = meta.vms /\ meta.vms \subseteq Vm
    BY <1>1 DEF ConsoleInv, RowsOfMeta, TypeOK, Packet, Error
  <1>3. \E v \in meta.vms : GroupLabel(meta.by, v) = l
    BY <1>1, <1>2 DEF Rows, Labels
  <1>4. MetaOf(meta, l) \in {v \in meta.vms : GroupLabel(meta.by, v) = l}
    BY <1>2, <1>3, MetaIsMember
  <1> QED
    BY <1>2, <1>4 DEF Members

LEMMA TypesNext == ConsoleInv /\ [Next]_vars => TypeOK'
  <1> SUFFICES ASSUME ConsoleInv, [Next]_vars PROVE TypeOK'
    OBVIOUS
  <1> USE DEF started, poller, drill, TypeOK
  <1>0. TypeOK
    BY DEF ConsoleInv
  <1>1. ASSUME Load PROVE TypeOK'
    BY <1>0, <1>1 DEF Load
  <1>2. ASSUME Get PROVE TypeOK'
    <2>1. chan' \in Packet
      BY <1>0, <1>2, ClusterConsoleAssumption DEF Get, Packet
    <2> QED
      BY <1>0, <1>2, <2>1 DEF Get, Grouping
  <1>3. ASSUME Mood PROVE TypeOK'
    BY <1>0, <1>3 DEF Mood
  <1>4. ASSUME Refresh PROVE TypeOK'
    <2>1. CASE TakePacket /\ chan # Error
      <3>1. chan \in [by : Grouping, vms : SUBSET Vm]
        BY <1>0, <2>1 DEF TakePacket, Packet
      <3>2. /\ chan' = None /\ meta' \in Packet /\ stale' \in Nat
            /\ entries' \in [of : Grouping, vms : SUBSET Vm]
        BY <1>0, <2>1, <3>1 DEF TakePacket, Packet
      <3> QED
        BY <1>0, <1>4, <3>2 DEF Refresh
    <2>2. CASE TakePacket /\ chan = Error
      BY <1>0, <1>4, <2>2 DEF Refresh, TakePacket
    <2>3. CASE NoPacket
      BY <1>0, <1>4, <2>3 DEF Refresh, NoPacket
    <2>4. CASE entries' = PodList /\ UNCHANGED <<chan, meta, stale>>
      BY <1>0, <1>4, <2>4 DEF Refresh
    <2> QED
      BY <1>4, <2>1, <2>2, <2>3, <2>4 DEF Refresh
  <1>5. ASSUME PollRemote PROVE TypeOK'
    BY <1>0, <1>5 DEF PollRemote
  <1>6. ASSUME ChildExits PROVE TypeOK'
    <2>1. up' \in BOOLEAN /\ UNCHANGED <<view, client>>
      BY <1>6 DEF ChildExits
    <2>2. UNCHANGED <<started, answers, groupBy, poller, chan, entries, meta, paused, stale>>
      BY <1>6 DEF ChildExits
    <2> QED
      BY <1>0, <2>1, <2>2
  <1>7. ASSUME GroupKey PROVE TypeOK'
    BY <1>0, <1>7 DEF GroupKey, NextBy, Grouping
  <1>8. ASSUME NEW t \in Vm \cup Pods \cup {Stranger}, Enter(t) PROVE TypeOK'
    BY <1>0, <1>8 DEF Enter, Connected, NotConnected
  <1>9. ASSUME Esc PROVE TypeOK'
    BY <1>0, <1>9 DEF Esc
  <1>10. ASSUME SwitchView PROVE TypeOK'
    BY <1>0, <1>10 DEF SwitchView
  <1>11. ASSUME PauseKey PROVE TypeOK'
    BY <1>0, <1>11 DEF PauseKey
  <1>12. CASE UNCHANGED vars
    BY <1>0, <1>12 DEF vars
  <1>13. ASSUME NEW l \in Rows, EnterVm(l) PROVE TypeOK'
    BY <1>8, <1>13, EnterVmTarget DEF EnterVm
  <1> QED
    BY <1>1, <1>2, <1>3, <1>4, <1>5, <1>6, <1>7, <1>8, <1>9, <1>10, <1>11, <1>12, <1>13
    DEF Next, Poller, Keys, EnterLeftover, EnterPod, EnterAlloc

LEMMA StaleNext == ConsoleInv /\ [Next]_vars => StaleBound'
  <1> SUFFICES ASSUME ConsoleInv, [Next]_vars PROVE StaleBound'
    OBVIOUS
  <1> USE DEF started, poller, drill, StaleBound, Astray, AskedAstray
  <1>0. StaleBound /\ stale \in Nat
    BY DEF ConsoleInv, TypeOK
  <1>1. ASSUME Load PROVE StaleBound'
    BY <1>0, <1>1 DEF Load
  <1>2. ASSUME Get PROVE StaleBound'
    <2>1. chan' = Error \/ chan'.by = asked
      BY <1>2 DEF Get
    <2> QED
      BY <1>0, <1>2, <2>1 DEF Get
  <1>3. ASSUME Refresh PROVE StaleBound'
    <2>1. CASE TakePacket
      BY <1>0, <1>3, <2>1 DEF Refresh, TakePacket
    <2>2. CASE UNCHANGED <<chan, stale>>
      BY <1>0, <1>3, <2>2 DEF Refresh
    <2> QED
      BY <1>3, <2>1, <2>2 DEF Refresh, NoPacket
  <1>4. ASSUME GroupKey PROVE StaleBound'
    BY <1>4 DEF GroupKey
  <1>5. ASSUME UNCHANGED <<stale, chan, groupBy, pc, asked>> PROVE StaleBound'
    BY <1>0, <1>5
  <1>6. ASSUME \/ Mood \/ PollRemote \/ ChildExits \/ Esc \/ SwitchView \/ PauseKey
               \/ UNCHANGED vars \/ \E t : Enter(t)
        PROVE  UNCHANGED <<stale, chan, groupBy, pc, asked>>
    BY <1>6 DEF Mood, PollRemote, ChildExits, Esc, SwitchView, PauseKey, vars, Enter
  <1> QED
    BY <1>1, <1>2, <1>3, <1>4, <1>5, <1>6
    DEF Next, Poller, Keys, EnterLeftover, EnterPod, EnterAlloc, EnterVm

LEMMA MetaNext == ConsoleInv /\ [Next]_vars => RowsOfMeta'
  <1> SUFFICES ASSUME ConsoleInv, [Next]_vars PROVE RowsOfMeta'
    OBVIOUS
  <1> USE DEF started, poller, drill, RowsOfMeta
  <1>0. RowsOfMeta
    BY DEF ConsoleInv
  <1>1. ASSUME Refresh PROVE RowsOfMeta'
    BY <1>0, <1>1 DEF Refresh, TakePacket, NoPacket, PodList, Grouping
  <1>2. ASSUME PollRemote PROVE RowsOfMeta'
    BY <1>0, <1>2 DEF PollRemote, RemoteRows, Grouping
  <1>3. ASSUME GroupKey PROVE RowsOfMeta'
    BY <1>3 DEF GroupKey, NoRows, Grouping
  <1>4. ASSUME NEW t, Enter(t) PROVE RowsOfMeta'
    BY <1>0, <1>4 DEF Enter, Connected, NotConnected, NoRows, Grouping
  <1>5. ASSUME UNCHANGED <<entries, meta>> PROVE RowsOfMeta'
    BY <1>0, <1>5
  <1>6. ASSUME \/ Load \/ Get \/ Mood \/ ChildExits \/ Esc \/ SwitchView \/ PauseKey
               \/ UNCHANGED vars
        PROVE  UNCHANGED <<entries, meta>>
    BY <1>6 DEF Load, Get, Mood, ChildExits, Esc, SwitchView, PauseKey, vars
  <1> QED
    BY <1>1, <1>2, <1>3, <1>4, <1>5, <1>6
    DEF Next, Poller, Keys, EnterLeftover, EnterPod, EnterAlloc, EnterVm

---------------------------------------------------------------------------
(* Theorems.                                                               *)

LEMMA ConsoleInvariant == Spec => []ConsoleInv
  <1>1. ConsoleInv /\ [Next]_vars => ConsoleInv'
    BY TypesNext, StaleNext, MetaNext DEF ConsoleInv
  <1> QED
    BY <1>1, InitInv, PTL DEF Spec

\* Every state of the console of a cluster is well typed.
THEOREM ConsoleTypes == Spec => []TypeOK
  <1>1. ConsoleInv => TypeOK
    BY DEF ConsoleInv
  <1> QED
    BY <1>1, ConsoleInvariant, PTL

\* After g at most two packets of another grouping are taken.
THEOREM StalePacketsFew == Spec => []FewStalePackets
  <1>1. ConsoleInv => FewStalePackets
    BY DEF ConsoleInv, TypeOK, StaleBound, Astray, AskedAstray, FewStalePackets
  <1> QED
    BY <1>1, ConsoleInvariant, PTL

\* The machine entered from a row is one of those the row stood for.
THEOREM EnteredFromRow == Spec => EnteredIsMember
  <1>1. ConsoleInv /\ [Next]_vars
          => [\A l \in Rows : (EnterVm(l) /\ client' # client) => client' \in Members(entries, l)]_vars
    <2> SUFFICES ASSUME ConsoleInv, NEW l \in Rows, EnterVm(l), client' # client
                 PROVE  client' \in Members(entries, l)
      OBVIOUS
    <2>1. client' = MetaOf(meta, l)
      BY DEF EnterVm, Enter, Connected, NotConnected, drill
    <2> QED
      BY <2>1, EnterVmTarget
  <1> QED
    BY <1>1, ConsoleInvariant, PTL DEF Spec, EnteredIsMember

---------------------------------------------------------------------------
(* The rates of rows (PveSample).                                          *)

\* What the counters of a machine are worth against the last poll that saw it:
\* never more than it has done since, and all of that unless some was lost.
Counted(v) ==
  /\ ~machines[v].on => machines[v].disk = 0
  /\ prev[v] # None =>
       /\ machines[v].disk <= prev[v] + did[v]
       /\ ~lost[v] => machines[v].disk = prev[v] + did[v]

PveTypes ==
  /\ machines \in [Vm -> [on : BOOLEAN, disk : Nat]]
  /\ listed \subseteq Vm
  /\ prev \in [Vm -> Nat \cup {None}]
  /\ did \in [Vm -> Nat] /\ lost \in [Vm -> BOOLEAN]

PveInv == PveTypes /\ \A v \in Vm : Counted(v)

LEMMA PveInit == PollerInit => PveInv
  BY DEF PollerInit, Off, PveInv, PveTypes, Counted

\* A machine that nothing happens to keeps what its counters are worth.
LEMMA CountedKept ==
  ASSUME NEW v, Counted(v), machines'[v] = machines[v], prev'[v] = prev[v], did'[v] = did[v],
         lost'[v] = lost[v]
  PROVE  Counted(v)'
  BY DEF Counted

LEMMA StartInv == ASSUME PveInv, NEW v \in Vm, Start(v) PROVE PveInv'
  <1>1. /\ machines' = [machines EXCEPT ![v] = [on |-> TRUE, disk |-> 0]]
        /\ UNCHANGED <<listed, prev, did, lost>> /\ ~machines[v].on
    BY DEF Start, On
  <1>2. PveTypes'
    BY <1>1 DEF PveInv, PveTypes
  <1>3. machines'[v].disk = machines[v].disk /\ machines'[v].on
    BY <1>1 DEF PveInv, PveTypes, Counted
  <1>4. \A w \in Vm : Counted(w)'
    <2> TAKE w \in Vm
    <2>1. CASE w = v
      BY <1>1, <1>3, <2>1 DEF PveInv, Counted
    <2>2. CASE w # v
      BY <1>1, <2>2 DEF PveInv, PveTypes, Counted
    <2> QED
      BY <2>1, <2>2
  <1> QED
    BY <1>2, <1>4 DEF PveInv

LEMMA StopInv == ASSUME PveInv, NEW v \in Vm, Stop(v) PROVE PveInv'
  <1>1. /\ machines' = [machines EXCEPT ![v] = [on |-> FALSE, disk |-> 0]]
        /\ lost' = [lost EXCEPT ![v] = @ \/ machines[v].disk > 0]
        /\ UNCHANGED <<listed, prev, did>>
    BY DEF Stop, Off
  <1>2. machines[v].disk \in Nat /\ lost[v] \in BOOLEAN /\ (lost[v] \/ machines[v].disk > 0) \in BOOLEAN
    BY DEF PveInv, PveTypes
  <1>3. lost' \in [Vm -> BOOLEAN]
    BY <1>1, <1>2 DEF PveInv, PveTypes
  <1>4. PveTypes'
    BY <1>1, <1>3 DEF PveInv, PveTypes
  <1>5. /\ machines'[v].disk = 0
        /\ ~lost'[v] => ~lost[v] /\ machines[v].disk = 0
    <2>1. machines'[v].disk = 0 /\ lost'[v] = (lost[v] \/ machines[v].disk > 0)
      BY <1>1 DEF PveInv, PveTypes
    <2>2. machines[v].disk > 0 \/ machines[v].disk = 0
      BY <1>2
    <2> QED
      BY <2>1, <2>2, Zenon
  <1>6. \A w \in Vm : Counted(w)'
    <2> TAKE w \in Vm
    <2>1. CASE w = v
      BY <1>1, <1>2, <1>5, <2>1 DEF PveInv, PveTypes, Counted
    <2>2. CASE w # v
      BY <1>1, <2>2 DEF PveInv, PveTypes, Counted
    <2> QED
      BY <2>1, <2>2
  <1> QED
    BY <1>4, <1>6 DEF PveInv

LEMMA WorkInv == ASSUME PveInv, NEW v \in Vm, Work(v) PROVE PveInv'
  <1>1. /\ machines' = [machines EXCEPT ![v].disk = @ + 1]
        /\ did' = [did EXCEPT ![v] = @ + 1]
        /\ UNCHANGED <<listed, prev, lost>> /\ machines[v].on
    BY DEF Work
  <1>2. PveTypes'
    BY <1>1 DEF PveInv, PveTypes
  <1>3. machines'[v].disk = machines[v].disk + 1 /\ machines'[v].on /\ did'[v] = did[v] + 1
    BY <1>1 DEF PveInv, PveTypes
  <1>4. \A w \in Vm : Counted(w)'
    <2> TAKE w \in Vm
    <2>1. CASE w = v
      BY <1>1, <1>3, <2>1 DEF PveInv, PveTypes, Counted
    <2>2. CASE w # v
      BY <1>1, <2>2 DEF PveInv, PveTypes, Counted
    <2> QED
      BY <2>1, <2>2
  <1> QED
    BY <1>2, <1>4 DEF PveInv

LEMMA PollInv == ASSUME PveInv, Poll PROVE PveInv'
  <1>1. /\ prev' = [v \in Vm |-> IF v \in listed THEN machines[v].disk ELSE prev[v]]
        /\ did' = [v \in Vm |-> IF v \in listed THEN 0 ELSE did[v]]
        /\ lost' = [v \in Vm |-> lost[v] /\ v \notin listed]
        /\ machines' = machines /\ listed' = listed
    BY DEF Poll, Sample
  <1>2. PveTypes'
    BY <1>1 DEF PveInv, PveTypes
  <1>3. \A v \in Vm : Counted(v)'
    <2> TAKE v \in Vm
    <2>1. CASE v \in listed
      BY <1>1, <2>1 DEF PveInv, PveTypes, Counted
    <2>2. CASE v \notin listed
      BY <1>1, <2>2 DEF PveInv, PveTypes, Counted
    <2> QED
      BY <2>1, <2>2
  <1> QED
    BY <1>2, <1>3 DEF PveInv

LEMMA PveNext == PveInv /\ [PollerNext]_pollerVars => PveInv'
  <1> SUFFICES ASSUME PveInv, [PollerNext]_pollerVars PROVE PveInv'
    OBVIOUS
  <1>1. CASE \E v \in Vm : List(v)
    BY <1>1 DEF List, PveInv, PveTypes, Counted
  <1>2. CASE UNCHANGED pollerVars
    BY <1>2 DEF pollerVars, PveInv, PveTypes, Counted
  <1> QED
    BY <1>1, <1>2, StartInv, StopInv, WorkInv, PollInv DEF PollerNext

LEMMA PveAlways == PollerSpec => []PveInv
  BY PveInit, PveNext, PTL DEF PollerSpec

\* The rate of a machine, against what it has done.
LEMMA RateBound ==
  ASSUME PveInv, NEW v \in Vm
  PROVE  /\ Rate(v) \in Nat /\ Rate(v) <= did[v]
         /\ prev[v] # None /\ ~lost[v] => Rate(v) = did[v]
  <1>1. /\ machines[v].disk \in Nat /\ did[v] \in Nat /\ lost[v] \in BOOLEAN
        /\ prev[v] # None => prev[v] \in Nat
    BY DEF PveInv, PveTypes
  <1>2. Counted(v)
    BY DEF PveInv
  <1>3. CASE prev[v] = None
    BY <1>1, <1>3 DEF Rate
  <1>4. CASE prev[v] # None
    BY <1>1, <1>2, <1>4 DEF Rate, Minus, Counted
  <1> QED
    BY <1>3, <1>4

\* The rate of a row is the work of its machines since the last poll that saw
\* them, for every cluster, however they are grouped, started, stopped, removed
\* and listed again between the polls.
THEOREM RowRatesAddUp == PollerSpec => PveRowsAddUp
  <1> DEFINE A == packet' # packet =>
                    \A l \in DOMAIN packet'.rows :
                      LET vs == DOMAIN packet'.member_vals[l]
                          work == SumFunction([v \in vs |-> did[v]])
                      IN /\ packet'.rows[l] <= work
                         /\ (\A v \in vs : prev[v] # None /\ ~lost[v]) => packet'.rows[l] = work
  <1>1. PveInv /\ [PollerNext]_pollerVars => [A]_pollerVars
    <2> SUFFICES ASSUME PveInv, PollerNext, packet' # packet, NEW l \in DOMAIN packet'.rows
                 PROVE  LET vs == DOMAIN packet'.member_vals[l]
                            work == SumFunction([v \in vs |-> did[v]])
                        IN /\ packet'.rows[l] <= work
                           /\ (\A v \in vs : prev[v] # None /\ ~lost[v]) => packet'.rows[l] = work
      OBVIOUS
    <2>1. PICK by \in Grouping : Sample(by)
      BY DEF PollerNext, Poll, Start, Stop, Work, List
    <2> DEFINE Group == {v \in {v \in listed : machines[v].on} : GroupLabel(by, v) = l}
               rates == [v \in Group |-> Rate(v)]
               works == [v \in Group |-> did[v]]
    <2>2. packet'.rows[l] = SumFunction(rates) /\ packet'.member_vals[l] = rates
      <3>1. packet' = BuildGroups(by)
        BY <2>1 DEF Sample
      <3> DEFINE Shown == {GroupLabel(by, w) : w \in {v \in listed : machines[v].on}}
                 InRow(k) == {v \in {v \in listed : machines[v].on} : GroupLabel(by, v) = k}
      <3>2. /\ packet'.rows = [k \in Shown |-> SumFunction([v \in InRow(k) |-> Rate(v)])]
            /\ packet'.member_vals = [k \in Shown |-> [v \in InRow(k) |-> Rate(v)]]
        BY <3>1 DEF BuildGroups
      <3>3. l \in Shown /\ Group = InRow(l)
        BY <3>2
      <3> HIDE DEF Shown
      <3> QED
        BY <3>2, <3>3
    <2>3. Group \subseteq Vm /\ DOMAIN rates = Group
      BY DEF PveInv, PveTypes
    <2>4. IsFiniteSet(Group)
      <3>1. IsFiniteSet(Vm)
        BY PveGroupsAssumption, LenProperties, FS_Interval DEF Vm
      <3> QED
        BY <2>3, <3>1, FS_Subset
    <2>5. \A v \in Group : /\ Rate(v) \in Nat /\ Rate(v) <= did[v] /\ did[v] \in Nat
                           /\ prev[v] # None /\ ~lost[v] => Rate(v) = did[v]
      BY <2>3, RateBound DEF PveInv, PveTypes
    <2> HIDE DEF Group
    <2>6. rates \in [Group -> Int] /\ works \in [Group -> Int] /\ \A v \in Group : rates[v] <= works[v]
      BY <2>5
    <2>7. (\A v \in Group : prev[v] # None /\ ~lost[v]) => rates = works
      BY <2>5
    <2> HIDE DEF rates, works
    <2>8. SumFunction(rates) <= SumFunction(works)
      BY <2>4, <2>6, SumMonotone
    <2> QED
      BY <2>2, <2>3, <2>7, <2>8 DEF works
  <1> QED
    BY <1>1, PveAlways, PTL DEF PollerSpec, PveRowsAddUp
=============================================================================
