----------------------------- MODULE PveSample -----------------------------
(* What a poll of the cluster makes of the counters of its machines: rates   *)
(* from the counters of the poll before, rows that add up their machines,    *)
(* and the values of the machines for the overlay of a row.                  *)
(*                                                                           *)
(* One counter stands for those of reads and writes; it starts from 0 with   *)
(* the machine, and cpu and memory, which are as they are, are left out.  On *)
(* the time a difference is divided by nothing depends.                      *)
EXTENDS PveGroups, Saturating, Functions

CONSTANT MaxWork  \* bound: work of a machine between two polls, and since it started

VARIABLES
  machines,  \* v -> [on, disk]: whether it runs, and its counter
  listed,    \* machines the cluster knows
  prev,      \* Client::prev: v -> the counter at the last poll, or None
  packet,    \* the rows of the last poll: [by, rows, member_vals]
  did, lost  \* v -> work since the last poll; some of it was counted away (history)

pollerVars == <<machines, listed, prev, packet, did, lost>>

---------------------------------------------------------------------------
(* The cluster.                                                             *)

Off == [on |-> FALSE, disk |-> 0]
On == [on |-> TRUE, disk |-> 0]

Start(v) == /\ v \in listed /\ ~machines[v].on
            /\ machines' = [machines EXCEPT ![v] = On]
            /\ UNCHANGED <<listed, prev, packet, did, lost>>

Stop(v) == /\ machines[v].on
           /\ machines' = [machines EXCEPT ![v] = Off]
           /\ lost' = [lost EXCEPT ![v] = @ \/ machines[v].disk > 0]
           /\ UNCHANGED <<listed, prev, packet, did>>

Work(v) == /\ machines[v].on
           /\ did[v] < MaxWork /\ machines[v].disk < MaxWork
           /\ machines' = [machines EXCEPT ![v].disk = @ + 1]
           /\ did' = [did EXCEPT ![v] = @ + 1]
           /\ UNCHANGED <<listed, prev, packet, lost>>

\* A machine is removed when it does not run; its number may be given again.
List(v) == /\ ~machines[v].on
           /\ listed' = (listed \ {v}) \cup ({v} \ listed)
           /\ UNCHANGED <<machines, prev, packet, did, lost>>

---------------------------------------------------------------------------
(* Client::sample.                                                          *)

Rate(v) == IF prev[v] = None THEN 0 ELSE Minus(machines[v].disk, prev[v])

\* Machines that do not run are in no row.
BuildGroups(by) ==
  LET Powered == {v \in listed : machines[v].on}
      Group(l) == {v \in Powered : GroupLabel(by, v) = l}
      Labels == {GroupLabel(by, v) : v \in Powered}
  IN [by |-> by,
      rows |-> [l \in Labels |-> SumFunction([v \in Group(l) |-> Rate(v)])],
      member_vals |-> [l \in Labels |-> [v \in Group(l) |-> Rate(v)]]]

\* Fault: only machines that run are remembered.
SampleRunning(by) ==
  /\ packet' = BuildGroups(by)
  /\ prev' = [v \in Vm |-> IF v \in listed /\ machines[v].on THEN machines[v].disk ELSE prev[v]]

\* Counters are remembered for every machine of the list, whether it runs or
\* not, and for ever.
Sample(by) ==
  /\ packet' = BuildGroups(by)
  /\ prev' = [v \in Vm |-> IF v \in listed THEN machines[v].disk ELSE prev[v]]

\* A poll that fails leaves the counters for the next.
Poll ==
  /\ \E by \in Grouping : Sample(by)
  /\ did' = [v \in Vm |-> IF v \in listed THEN 0 ELSE did[v]]
  /\ lost' = [v \in Vm |-> lost[v] /\ v \notin listed]
  /\ UNCHANGED <<machines, listed>>

---------------------------------------------------------------------------
NoRates == [by |-> None, rows |-> <<>>, member_vals |-> <<>>]

PollerInit ==
  /\ machines = [v \in Vm |-> Off]
  /\ listed = Vm
  /\ prev = [v \in Vm |-> None]
  /\ packet = NoRates
  /\ did = [v \in Vm |-> 0]
  /\ lost = [v \in Vm |-> FALSE]

PollerNext == Poll \/ \E v \in Vm : Start(v) \/ Stop(v) \/ Work(v) \/ List(v)

PollerSpec == PollerInit /\ [][PollerNext]_pollerVars

---------------------------------------------------------------------------
(* Properties.                                                              *)

\* The disk rate of a row is the work of its machines since the last poll that
\* saw them, whatever was started, failed or regrouped in between: all of it if
\* each was seen then, running or not, and no counter was reset, and never more
\* (proxmox.rs:397).
PveRowsAddUp ==
  [][packet' # packet =>
       \A l \in DOMAIN packet'.rows :
         LET vs == DOMAIN packet'.member_vals[l]
             work == SumFunction([v \in vs |-> did[v]])
         IN /\ packet'.rows[l] <= work
            /\ (\A v \in vs : prev[v] # None /\ ~lost[v]) => packet'.rows[l] = work]_pollerVars
=============================================================================
