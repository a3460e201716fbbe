-------------------------- MODULE ClusterConsole --------------------------
(* The list of a cluster and the machine entered from it.  In Proxmox mode *)
(* a background thread asks the cluster, groups its machines the way the   *)
(* viewer last chose and sends packets; in Kubernetes and Nomad mode the   *)
(* list is the connections made at start-up.  Enter opens a connection     *)
(* whose rows replace the list, in the same entries, until it is left.     *)
(*                                                                         *)
(* Fading rows, scrubbing and the values of rows are in Rows.              *)
EXTENDS PveGroups

CONSTANTS
  Running,  \* the sets of them that may be found running
  Pods,     \* pods or allocations connected to at start-up
  Modes,    \* of {"proxmox", "kube", "nomad"}
  Stranger  \* a process of a machine taken for a machine

ASSUME ClusterConsoleAssumption ==
  /\ Running \subseteq SUBSET Vm
  /\ Modes \subseteq {"proxmox", "kube", "nomad"}

VARIABLES
  mode, thin, enableRemote, podUp,  \* how the program was started
  answers,      \* the API answers (its moods are its own)
  groupBy,      \* pve_group_by, and the shared cell, which follows it
  pc, asked,    \* the poller thread, and the grouping it read
  chan,         \* newest packet waiting, or None
  view,         \* "Groups", "Remote", or "Other": manual, scope, fleet
  client, up,   \* the machine remote_client was connected to; its child runs
  entries,      \* how the rows came about, and of which machines
  meta,         \* the packet vm_meta is from
  paused,
  stale         \* packets taken since g that were grouped otherwise (history)

started == <<mode, thin, enableRemote, podUp>>
poller == <<pc, asked>>
drill == <<view, client, up>>
vars == <<started, answers, groupBy, poller, chan, drill, entries, meta, paused, stale>>

NextBy(by) == CASE by = "Flat" -> "Pool" [] by = "Pool" -> "Tag"
                [] by = "Tag" -> "Node" [] by = "Node" -> "Flat"

NoRows == [of |-> "nothing", vms |-> {}]
PodList == [of |-> "pods", vms |-> {}]
RemoteRows == [of |-> "remote", vms |-> {}]
Error == [by |-> "error", vms |-> {}]
Packet == [by : Grouping, vms : SUBSET Vm] \cup {Error}

---------------------------------------------------------------------------
(* The rows of a packet.                                                   *)

Members(rows, label) == {v \in rows.vms : GroupLabel(rows.of, v) = label}
Labels(rows) == {GroupLabel(rows.of, v) : v \in rows.vms}

---------------------------------------------------------------------------
Init ==
  /\ mode \in Modes
  /\ thin \in IF mode = "proxmox" THEN {FALSE} ELSE BOOLEAN
  /\ enableRemote \in IF mode = "proxmox" THEN BOOLEAN ELSE {TRUE}
  /\ podUp \in IF mode = "proxmox" THEN {{}} ELSE SUBSET Pods
  /\ answers = TRUE
  /\ groupBy = "Flat"
  /\ asked = "Flat"
  /\ \/ mode # "proxmox" /\ pc = "none" /\ chan = None
     \/ mode = "proxmox" /\ pc = "load" /\ chan = None
     \/ mode = "proxmox" /\ pc = "ended" /\ chan = Error
  /\ view = "Groups" /\ client = None /\ up = FALSE
  /\ entries = NoRows
  /\ meta = Error
  /\ paused = FALSE
  /\ stale = 0

(* The poller thread.  When no client can be built it ends at once.        *)

\* Fault: the grouping is read once, before the loop.
LoadOnce == /\ pc = "load"
            /\ pc' = "get" /\ asked' = "Flat"
            /\ UNCHANGED <<started, answers, groupBy, chan, drill, entries, meta, paused, stale>>

Load == /\ pc = "load"
        /\ pc' = "get" /\ asked' = groupBy
        /\ UNCHANGED <<started, answers, groupBy, chan, drill, entries, meta, paused, stale>>

\* client.sample, the machines that run grouped as was read before the call,
\* and tx.send.  Then the thread sleeps for the interval.
Get == /\ pc = "get"
       /\ IF answers THEN \E S \in Running : chan' = [by |-> asked, vms |-> S]
                     ELSE chan' = Error
       /\ pc' = "load" /\ asked' = "Flat"
       /\ UNCHANGED <<started, answers, groupBy, drill, entries, meta, paused, stale>>

Mood == /\ mode = "proxmox"
        /\ answers' = ~answers
        /\ UNCHANGED <<started, groupBy, poller, chan, drill, entries, meta, paused, stale>>

---------------------------------------------------------------------------
(* The main loop.                                                          *)

\* Fault: a packet that says what the last one said is skipped.
TakeNews ==
  /\ chan # None
  /\ chan' = None
  /\ IF chan \in {Error, meta} THEN UNCHANGED <<entries, meta, stale>>
     ELSE /\ entries' = [of |-> chan.by, vms |-> chan.vms]
          /\ meta' = chan
          /\ stale' = IF chan.by = groupBy THEN stale ELSE stale + 1

\* refresh in Proxmox mode, when a packet waits: one with an error leaves the
\* rows and vm_meta as they are.
TakePacket ==
  /\ chan # None
  /\ chan' = None
  /\ IF chan = Error THEN UNCHANGED <<entries, meta, stale>>
     ELSE /\ entries' = [of |-> chan.by, vms |-> chan.vms]
          /\ meta' = chan
          /\ stale' = IF chan.by = groupBy THEN stale ELSE stale + 1

\* When none waits it returns and the rows stay.
NoPacket == chan = None /\ UNCHANGED <<chan, entries, meta, stale>>

Refresh ==
  /\ view # "Remote" /\ ~paused
  /\ IF mode = "proxmox" THEN TakePacket \/ NoPacket
     ELSE entries' = PodList /\ UNCHANGED <<chan, meta, stale>>
  /\ UNCHANGED <<started, answers, groupBy, poller, drill, paused>>

\* The poll of the Remote view.
PollRemote ==
  /\ view = "Remote" /\ client # None
  /\ IF up THEN entries' = RemoteRows /\ UNCHANGED drill
     ELSE view' = "Groups" /\ client' = None /\ UNCHANGED <<up, entries>>
  /\ UNCHANGED <<started, answers, groupBy, poller, chan, meta, paused, stale>>

ChildExits == /\ up /\ up' = FALSE
              /\ UNCHANGED <<started, answers, groupBy, poller, chan, view, client, entries, meta, paused, stale>>

---------------------------------------------------------------------------
(* Keys.                                                                   *)

\* g publishes the grouping to the poller; what is on its way stays.
GroupKey ==
  /\ view = "Groups" /\ mode = "proxmox"
  /\ groupBy' = NextBy(groupBy)
  /\ entries' = NoRows
  /\ stale' = 0
  /\ UNCHANGED <<started, answers, poller, chan, drill, meta, paused>>

\* The connection attempt ends one way or the other while the loop waits.
Connected(target) == /\ view' = "Remote" /\ client' = target /\ up' = TRUE
                     /\ entries' = NoRows
NotConnected == UNCHANGED <<drill, entries>>

Rows == IF entries.of \in Grouping THEN Labels(entries) ELSE {}

Enter(target) ==
  /\ view = "Groups"
  /\ Connected(target) \/ NotConnected
  /\ UNCHANGED <<started, answers, groupBy, poller, chan, meta, paused, stale>>

\* Fault: the row is looked up among the machines of the next packet.
EnterVmByNews(label) ==
  /\ mode = "proxmox" /\ enableRemote
  /\ label \in Rows
  /\ Enter(MetaOf(IF chan = None THEN meta ELSE chan, label))

\* Proxmox: connect_vm with the metadata stored for the label of the row.
EnterVm(label) ==
  /\ mode = "proxmox" /\ enableRemote
  /\ label \in Rows
  /\ Enter(MetaOf(meta, label))

\* A row of the machine that was left, while it is still listed: there is no
\* metadata for it, and its label is tried as a host name.
EnterLeftover ==
  /\ mode = "proxmox" /\ enableRemote
  /\ entries = RemoteRows
  /\ Enter(Stranger)

EnterPod(p) ==
  /\ mode = "kube" /\ entries = PodList
  /\ ~thin /\ p \in podUp
  /\ Enter(p)

EnterAlloc(p) ==
  /\ mode = "nomad" /\ entries = PodList
  /\ ~thin /\ p \in podUp
  /\ Enter(p)

\* Esc closes the connection and asks for a refresh.
Esc == /\ \/ view = "Remote" /\ client' = None
          \/ view = "Other" /\ UNCHANGED client
       /\ view' = "Groups"
       /\ up' = (up /\ client' # None)
       /\ UNCHANGED <<started, answers, groupBy, poller, chan, entries, meta, paused, stale>>

\* f and m leave the view, or return to the list; the connection stays open.
SwitchView == /\ view' = IF view = "Other" THEN "Groups" ELSE "Other"
              /\ UNCHANGED <<started, answers, groupBy, poller, chan, client, up, entries, meta, paused, stale>>

\* p needs something in the replay ring.
PauseKey == /\ view \in {"Groups", "Remote"}
            /\ paused \/ meta # Error \/ mode # "proxmox"
            /\ paused' = ~paused
            /\ UNCHANGED <<started, answers, groupBy, poller, chan, drill, entries, meta, stale>>

Poller == Load \/ Get
Keys == \/ GroupKey \/ EnterLeftover \/ Esc \/ SwitchView \/ PauseKey
        \/ \E l \in Rows : EnterVm(l)
        \/ \E p \in Pods : EnterPod(p) \/ EnterAlloc(p)

Next == Poller \/ Mood \/ Refresh \/ PollRemote \/ ChildExits \/ Keys

Spec == Init /\ [][Next]_vars

\* The poller loops, the main loop turns.
Fairness == WF_vars(Poller) /\ WF_vars(Refresh) /\ WF_vars(PollRemote)

FairSpec == Spec /\ Fairness

---------------------------------------------------------------------------
(* Properties.                                                             *)

TypeOK ==
  /\ mode \in Modes /\ thin \in BOOLEAN /\ enableRemote \in BOOLEAN /\ podUp \subseteq Pods
  /\ answers \in BOOLEAN /\ groupBy \in Grouping
  /\ pc \in {"none", "load", "get", "ended"} /\ asked \in Grouping
  /\ chan \in Packet \cup {None}
  /\ view \in {"Groups", "Remote", "Other"} /\ up \in BOOLEAN
  /\ client \in {None} \cup Vm \cup Pods \cup {Stranger}
  /\ entries \in {NoRows, PodList, RemoteRows} \cup [of : Grouping, vms : SUBSET Vm]
  /\ meta \in Packet /\ paused \in BOOLEAN /\ stale \in Nat

\* After g at most two packets of another grouping are taken for rows of the
\* new one: the newest of those that waited, and the one being asked for.
FewStalePackets == stale <= 2

\* The machine entered from a row is one of those the row stood for.
EnteredIsMember ==
  [][\A l \in Rows : (EnterVm(l) /\ client' # client) => client' \in Members(entries, l)]_vars

\* When the grouping is left alone and the API answers, the rows are grouped
\* that way in the end, and stay so.
GroupingArrives ==
  \A by \in Grouping :
    <>[](groupBy = by /\ answers /\ pc # "none" /\ pc # "ended" /\ view = "Groups" /\ ~paused)
      => <>[](entries.of = by)

=============================================================================
