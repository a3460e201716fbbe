# A TLA+ model of aerie

aerie is a terminal monitor for process groups: of this machine, of a fleet of
hosts over ssh, of Kubernetes pods, Nomad allocations or a Proxmox cluster.
This directory holds TLA+ specifications of the parts of it whose correctness
depends on order, on concurrency or on long sequences of keys, the TLC
configurations that check them, and TLAPS proofs. Paths below are relative to
the repository; `main.rs`, `remote.rs`, `local.rs`, `diag.rs`, `proxmox.rs` and
`ui.rs` are in `src/`.

## The system

aerie is one process with a main loop (`main.rs`, from `'main: loop`) that owns
an `AppState`. Every turn of the loop polls whatever the Remote view shows,
calls `AppState::refresh` when the interval has elapsed and the view is not
Remote, draws, and handles keys. Everything else runs beside it and talks to it
through channels, atomics and pipes.

| Component | State | Operations | Talks to |
|---|---|---|---|
| Focused-thread stream | `RemoteClient::last_focus`; in the daemon the focus cell, `prev_focus_label`, `prev_focus_snap` | `route_fleet_focus`, `send_focus`; `run_daemon`'s stdin thread and emit loop; reader thread, `try_recv` | ssh child's stdin and stdout |
| Fleet face | `fleet_region`, `spine_cursor`, `fleet_primary_cursor`, `fleet_primary_label`, `FleetConn::{snap, stable_order}` | region, spine and group keys; `stabilize_fleet_entries`, `resolve_fleet_primary`, `drill_focus` | focus stream, drill |
| Fleet drill-down and body | `view`, `fleet_host`, `fleet_thread`, `remote_client`, `entries`, `body_tree`, `thread_samples`, `history_cursor` | `refresh`, the two polls of Remote, Enter, Esc, m, d, f, p, scrub, arrows | all fleet connections |
| Health tiers | `health_tiers` | `place_health` once per refresh | snapshots |
| Row order | `stable_order`, `last_seen`, `last_values`, `sort_metric`, `top` | middle part of `refresh`, s, g | `/proc` or remote entries |
| Anomaly alerts | `anomaly_states`, `group_member_vals` | `compute_anomalies`, `fire_alert_cmd` | an external command |
| Replay ring | `history`, `history_cursor` | push in `refresh`, p, ←, → | body |
| Remote connections | child, channel, reader thread | `connect_direct`, `connect_vm`, `connect_thin`, kube and nomad variants, `is_alive`, `close` | ssh, kubectl, nomad |
| Fleet start-up | `fleet_clients` | `parse_hosts_arg`, the connection fan-out of `AppState::new` | remote connections |
| Proxmox poller | `pve_group_by_shared`, packet channel; in the poller `Client::prev` | `Client::sample`, `build_groups`, the background thread, g | PVE REST API |
| Consoles of the other modes | `view`, `remote_client`, `entries`, `vm_meta` | Enter, Esc and the polls in Proxmox, kube and nomad mode | poller, connections |
| Probes | shared rings, the attributor's intervals | `probe_loop`, `pressure_loop`, `offender_loop`, `Attributor::sample` | their threads, `/proc` |
| Stutter analysis | analyses of the rings | `analyze_periodicity`, `characterise_stutter`, `analyze_offenders` | probes |
| Local sampling | `snap`, `thread_snap`, `fleet_detail_snap`, `group_snaps` | `collect`, `sample`, `sample_threads`, `sample_histograms` | `/proc` |
| Rendering | `RIM_TRAIL`: the held knots of the rim; else none that decides behaviour | `compute_rim`, `draw_outer_border`; the rest of `ui.rs` | state |

What makes the system hard: focus requests and the snapshots that answer them
cross on asynchronous pipes, several may be in flight, and both ends keep
memory (`last_focus`, the delta basis); rows arrive in a different order every
tick under a cursor that is an index; `entries` has three writers chosen by a
combination of view, markers and connection that six keys change between polls;
children die at any moment and fleet connections are never made again; a pause
stops some of these loops and not others; every rate is a difference to a
reading that was taken of other processes, machines or files than this one.
`PROJECT.json` lists the hazards at their lines.

What makes each component correct:

* stream: no request is lost, the last one wins, no rate mixes two groups, at
  most one host samples, a selection held under a view that polls is served;
* face: the selection follows its group, rows keep their places, drill markers
  live exactly as long as their views;
* drill-down: what is shown belongs to what the header names, nothing stale
  stays, a lost host leaves;
* health: no strobing at a boundary, reading a snapshot twice changes nothing;
* row order: a row keeps its place while it lives and for the retention window,
  no row is both alive and fading;
* alerts: an ongoing anomaly is alerted once per window and again after it, and a
  mark is never without an alert;
* replay: the cursor names the same entry as the ring moves, pausing freezes;
* connections: every target has its line, the newest snapshot wins, a loss is
  told, what is let go ends;
* poller and consoles: rows grouped the old way are few and go, Enter leads to a
  machine the row stood for;
* sampling, here and in the cluster: a rate is the work done since the last
  reading of the same thing, and no more;
* probes: no stall is lost or counted twice, series stay in step with the clock;
* analysis: the period reported is that of the stalls, not a multiple of it;
* border: what was detected stays marked for as long as it should, and nothing
  is drawn over something else.

## Modules

| Module | Models | Run by | Proofs |
|---|---|---|---|
| `FocusStream` | the focused-thread stream, both ends and the pipes | `MCFocusStream` | `FocusStreamProofs` |
| `FleetFace` | selection and row order in the face | `MCFleetFace` | `FleetFaceProofs` |
| `FleetDrill` | views, drill markers and the writers of `entries` in fleet mode | `MCFleetDrill` | `ScreenProofs` |
| `HealthLatches` | abstract: what the gutter of the spine promises | through `SpineHealth` | |
| `SpineHealth` | the health tiers, implementing `HealthLatches` | `MCInstruments`, with the instance of `MCSpineHealth` | `MonitorProofs` |
| `AlertMonitor` | the anomaly alerts | `MCAlertMonitor`, `MCRows` | `MonitorProofs` |
| `Rows` | rows, their order and fading, the replay ring, in local mode | `MCRows` | `LocalProofs` |
| `LatestValue` | abstract: what a connection promises to the display | through `RemoteLinks` | |
| `RemoteLinks` | connections from start-up to the end of their reader threads, implementing `LatestValue` | `MCRemoteLinks` | `RemoteLinksProofs` |
| `PveGroups` | the machines of a cluster and the rows they are grouped in | through the next two | |
| `ClusterConsole` | the Proxmox poller thread; the lists of a cluster and what is entered from them | `MCClusterConsole` | `ClusterConsoleProofs` |
| `PveSample` | what a poll makes of the counters of the machines | `MCClusterConsole` | `ClusterConsoleProofs` |
| `LocalSampling` | snapshots of `/proc` and the rows that are their differences | `MCLocalSampling` | `LocalProofs` |
| `ThreadViews` | the three views of the threads of a group | `MCLocalSampling` | `LocalProofs` |
| `Instruments` | latency probe and attributor, offender probe, when each is analysed | `MCInstruments` | `MonitorProofs` |
| `Periodicity` | `analyze_periodicity`, `characterise_stutter` | through `Instruments` | |
| `Signals` | the counters the attributor and the pressure probe read | `MCInstruments` | `LocalProofs` |
| `Rim` | the knots of the rim from frame to frame | `MCInstruments` | `ScreenProofs` |
| `BorderLayout` | where the parts of the outer border go | `MCInstruments` | `ScreenProofs` |
| `StableOrder` | what is left of an order when rows go (`retain`) | through `FleetFace` and `Rows` | `SharedLemmas` |
| `Saturating`, `Option` | `saturating_sub`; the one `None` of modules that are extended together | through the others | |
| `SharedLemmas` | lemmas about numbers, filtered sequences and sums over sets | | itself |

The modules meet where one's choice is another's input. `FleetFace` decides the
focus target that `FocusStream` takes as an open choice, and the views that
`FleetDrill` refines with their contents. `SpineHealth` takes any snapshot a
connection may deliver, `AlertMonitor` any member values a refresh may leave
behind, so neither depends on how they come about. `RemoteLinks` is the layer
under the fleet modules: they take a snapshot that may come at any time,
`RemoteLinks` shows which snapshots come. `ThreadViews` takes the processes of
a group from the snapshot `LocalSampling` takes. `BorderLayout` takes any set of
lit cells the rim may have. Four MC modules hold more than one component
(`MCClusterConsole`, `MCLocalSampling`, `MCInstruments`, `MCRows`), as *parts* of
one run: a behaviour picks a part at the start and stays in it. Modules that are extended
together, there or by a module of proofs, name their parts apart: `SamplingNext`,
`ThreadsNext`, `ProbesNext`.

In every module a definition named like `AsListed`, `SendsNoBlank` or
`HostLostOnlyReported`, placed just before the definition it resembles, is a
deliberately wrong variant, used to check that a property notices the mistake;
no specification uses it.

### FocusStream

One connection is a viewer end (`target`, `lastFocus`, `snap`), two queues
(`pipe`, `chan`) and a daemon end (`focus`, `prevLabel`, `prevSnap`). `Poll` is
a turn of the viewer: `try_recv` keeps the newest of what has arrived (any
prefix of `chan`), then `send_focus` writes to each connection whose request
changed. The choice of the target is left open: `FleetFace` is the component
that makes it. Not every view polls: refresh returns at once while paused and is
not called in Remote, where the loop polls the host that was entered and nothing
for a client of its own. `polled` says whether the connection of the target is
polled now, and `ViewKey` turns it over at any time. `ReadLine` is the stdin
thread, `DaemonTick` one turn of the emit loop, atomic because nothing but the
focus cell is shared with the stdin thread and the cell is read once. A snapshot
keeps two facts about its `focus_threads`: the group, and the group whose
counters its rates were computed against. The group may have no live process in
a tick, and two ticks may fall within a jiffy of each other, which zeroes the
rates. `Die` is the end of the ssh child: unread lines and some printed
snapshots are lost.

### FleetFace

A host is its position in `fleet_clients`. A snapshot is the sequence of its
labels, in any order (the daemon lists a hash map). `Refresh` is the whole
fleet branch of `refresh` as far as selection goes: stabilise each fresh
snapshot, re-pin the cursor, route the focus. `HostPoll` is the poll of an
entered host, which stores the snapshot as listed. Each key of the face is an
action; m and d are one action where they do the same to this state. A thin
probe sends snapshots without groups. `quiet` is a history variable: the last
step was a refresh of the face.

### FleetDrill

`entries` carries the host its rows came from, so that properties can speak of
what is on screen against what the header (`title`) and the markers name.
`Refresh`, `HostPoll` and `ClientPoll` are the three writers. The snapshot a thread
view reads may carry threads of any group, as `FocusStream` shows; `ForDrill` is the
comparison of labels that keeps them out. The carousel
(library `mullion`) is its set of tiles and its focused tile; which tile gets
the focus when the focused one goes is left open. `Scrub` shows an entry of the
replay ring, which in fleet mode always holds the list of hosts (`--top 0`).
A connection from the list may fail to open: that step changes nothing.

### SpineHealth and HealthLatches

`chan` and `snap` are the channel of a connection and `FleetConn::snap`; a
snapshot keeps its four signals. A place of the spine is a host name, and
`ConnOf` is `fleet_conn_for_label`, which takes the first connection of that
name. `Refresh` takes what has arrived and rebuilds `health_tiers` from it and
from the old map; `HostPoll`, which runs while a host is entered, stores a
snapshot and leaves the tiers alone. `read` is a history variable: what the
last refresh read of each place. `HealthLatches` is the promise: per place two
latches, one for "stalling" and one for "badly stalling", each closing at one
threshold and opening below another, over all known signals at once. The
mapping is `warn` = the tier is not Calm, `crit` = it is Critical, `seen` = the
signals read with the thresholds that apply to them. The code keeps one
three-valued tier and looks at the worst signal only; the refinement says
nothing is lost by that. Local mode is the case of one place whose signals are
new at every refresh.

### AlertMonitor

`vals` is `group_member_vals`, `state` is `anomaly_states`. `Collect` stands for
everything that replaces the member values: the sampler, the refreshes of the
other modes, g, a replayed entry. `ComputeAnomalies` is the function of that
name, `TimePasses` is time between its calls. Member
values are small naturals; shares and `n_eff` are compared by
cross-multiplication instead of division. Ages are capped at `RateLimit`, beyond
which the code does not tell them apart. `fired`, `since` and `calm` are history
variables. The order of the members is open: those of a Nomad allocation are the
groups of its daemon, in the order of a hash map.

### Rows

A row is a label and whether it fades: values, averages and peaks are left out,
so that sorting by a metric is any order. `Refresh` is the local branch of
`refresh` with a sample that succeeds, from the sample to the push on the ring;
`RefreshFails` one without. Ages are capped at `Retention`. `alive` and `shown`
are history variables: the groups of the last sample, and where the rows on the
screen come from.

### RemoteLinks and LatestValue

A connection is a slot: the thread that attempts it (`phase`), the child and its
pipe, the reader thread with what it keeps between lines (`block`, `prev`), the
channel, and what the display has (`snap`, `lost`). The six ways to connect are
the same steps with other checks and other lines; `connect_vm` alone goes on to
the next address of its list. `Settled` is the look at the child after 600 ms.
The bytes of a line are abstracted to whether it is a snapshot, counters, a
separator or noise, and a snapshot to its number and the one its rates start
from. `Poll` is the refresh of the list, which runs only while it is neither paused
nor in Remote. `EnterHost` and `OpenClient` lead into Remote, to a connection of the
list or to a client of its own, and `Leave` out of it; `HostPoll` is the turn of the
loop there, which reads and leaves a lost host but marks no connection as lost.
`LatestValue` is the promise: a register whose reader may skip values but
goes straight to the newest that has come in. `since` and `turn` are there for
the properties.

### ClusterConsole and PveSample

`Load` and `Get` are the two halves of a turn of the poller: the grouping is
read, and the packet made with it is sent after a call that may take seconds. A
packet, like the rows made from it, is a grouping and the machines in it; two
packets in the channel are the newest one, which is all the viewer takes.
`EnterVm` looks up the row in `vm_meta`, which is of the last good packet. The
kube and nomad lists, which have no poller, are the same console with rows that
cannot be misread. `PveSample` is `Client::sample` with its memory of counters,
against a cluster where machines start, stop, work, are removed and come back.

### LocalSampling and ThreadViews

A snapshot is what was read of each process, and with it, for the properties
only, what the process really did. One counter that is always read (cpu) and one
that is read on demand from a file of its own (io) stand for all: the second may
be denied, vanish with its process between two files, or not be read at all, and
a control group may have a file of its own. `ThreadViews` has the three views
that keep a snapshot each (`heat`, `detail`, `over`) and the keys that change
what they are of. In an entered thread view of the fleet face the local samples
are overwritten by the stream, which in local mode is none.

### Instruments and Periodicity

A behaviour follows one of three: the latency probe and the attributor that
looks at its ring at turns of the main loop, however far apart; the offender
probe, over any scans of `/proc`; or the analysis of one series. The pressure
probe has a ring like that of the latency probe, and its counters are in
`Signals`. The arithmetic of `Periodicity` is exact: what the code divides is
multiplied out. `fresh` is a history variable: the overshoots pushed since the
attributor last looked.

### Signals

The counters of the kernel grow, and at each reading any of the files may be
unreadable. Some counters are then `None`, others count as 0. `since` and
`wrapped` are history variables.

### Rim and BorderLayout

Time is counted in half-lives of a knot, phases in cells of the rim, so that
intensities are ages. `Frame` is a call of `compute_rim`: which fingerprint
counts, ageing, the merge of what is detected with what is held, retention and
the limit of knots. `detected` is a history variable: how long ago each phase
was detected. `BorderLayout` is a frame of the border: segments of lit cells,
the columns they reserve, the texts that flow around them, and which lit cells
are then drawn. Texts are their lengths. The cells and their order are those of
the library `mullion`, as the code uses them. The size of the circle and of the
screen, how near a match is, when a knot has faded and how many are held are
constants, so that what is proved of them does not depend on 0.03, a tenth and 16.

`draw_bottom_border` visits the markers in the order of the segments, which is
that of the rim from its first cell that is not lit, and each visit moves the keys
to the left. If that cell is before the bottom edge the markers come from the
right, and the keys end up clear of all. If the rim is lit from its upper left
corner to the lower right one, the order begins within the bottom edge or after
it, and keys that moved left of one marker may rest on another that was visited
before. The fourth part of `BorderLegible` therefore excepts it.

## Checks

Constants and bounds are in the `.cfg` of each run.

| Run | Question | Result |
|---|---|---|
| `focus_link` | one connection, two lines and two snapshots in flight, two groups, views that poll and others | `FocusDelivered`, `FocusServed`, `FocusReleased` hold |
| `focus_fleet` | two hosts, one line and one snapshot in flight each, rates possibly zeroed | `NoCrossGroupRates`, `OneSamplerWhenSettled` hold |
| `face` | a thin host and a daemon, three groups | all properties hold |
| `drill` | two hosts, two groups, with liveness | all properties hold |
| `rows_alerts` | two groupings sharing a label, `--top 1`, a ring of two; apart from it the alerts: one group, six samples, a window of three units | all properties hold |
| `alerts_order` | the alerts, as to members that are listed in another order | `SteadyLoadNoDropout` is violated: an idle member at the place of a busy one is a dropout |
| `alerts_limit` | the alerts, as to two alerts within a window | `AlertsRateLimited` is violated: one calm refresh in between suffices |
| `links` | two connections of every kind, children that fail early or late, lines, noise, unreadable blocks; pause and Remote | all properties hold, among them the refinement of `LatestValue` (`ShowsLatest`) |
| `cluster` | two machines with a name, a pool and a node; g, p, Enter and Esc against the poller; apart from it the counters | all properties hold |
| `sampling` | two processes of two kinds, two groups of threads; files denied or vanished | both properties hold |
| `local_drill` | the fleet face in local mode | `ThreadsListed` is violated: Enter opens a thread view that lists nothing |
| `probes` | probes, attributor, analysis of trains of stalls; apart from them the tiers (two hosts, four readings, the thresholds of the code), kernel counters, rim, border | all properties hold, among them the refinement of `HealthLatches` (`TiersAreLatches`) |

Bounds. Two lines in flight are enough for a request to overtake nothing and be
followed by its own cancellation; two snapshots in flight give one answer to
the old request and one to the new; with one connection these are all the
pairs the end-to-end property distinguishes, and two connections matter only
for what relates them. Three groups let two rows keep their order while a third
comes, goes and returns. Queues drop their oldest snapshot when full, which the
viewer cannot notice since it keeps only the newest; the focus pipe blocks the
viewer when full.

The readings of the tiers lie below, between and above each pair of thresholds,
the CPU fallback applies to one of them, and one has a worst signal that is not
the first: a latch is told from its neighbours by these cases. Groups share no
state in `compute_anomalies`, so one group suffices; its samples are a single
member, no load, balance, a member gone, the same with the members in another
order, and concentration. A retention of two units distinguishes too early, on
time and too late; a ring of two is full after two refreshes, so that it moves
under the cursor if anything moves it.

In `links` one child prints up to three snapshots and the other none, two lines
at a time in its pipe: what a connection does to its own data needs one, what
the start-up does with several needs the second, which fails, is let go or is
waited for while the first goes on. In `cluster` two machines share a name, so
that three groupings differ in which of them they put together; the counters
rise to 2 (`MaxWork`). In `sampling` a process is one of two kinds that share a
control group with and without a file of its own, counters rise to 2 and 1, and
processes and groups are interchangeable: two reads and what happens between
them are all a rate depends on.

In `probes` the clock runs to 7, which lets a ring of two samples be overwritten
twice between two looks of the attributor; intervals are at most 3 long and two
are kept. The offender probe makes four scans of two processes with room for one
group. The analysis is given every train of stalls of the listed lengths, periods
and widths with more than three periods, sampled at a spacing finer than a bin
(1) and coarser (4); periods up to 29 samples. Kernel counters wrap at 3 and the
word at 8, the former standing for the range of an energy counter, the latter
for 2^64. The rim has 8 cells, matches within 2, fades in 3 half-lives and holds
2 knots: a match across the end of the circle, a merge of one detected with two
held and one too many all happen. The border is that of a terminal of 20 by 3
cells with any two arcs of one or five lit cells, with all cells lit, and lit from
corner to corner with one more stall: corners, collisions of every text with every
marker, and rows with no room left.

Deadlock is checked except where the system may stop or a bound is met: a daemon
that died is not made again (`focus_*`, `links`), a clock or a counter that has
reached its bound stops (`sampling`, `local_drill`, `probes`).

Fairness. `FocusStream`: the emit loop and the stdin thread run for as long as
the daemon does, and while the view polls, the viewer polls the target's
connection (the main loop wakes on a timer). A paused display, and a Remote view
with a client of its own, poll no target (`main.rs:2153`, `main.rs:3448`): the
keys that lead there are `ViewKey`, which has no fairness, and `FocusServed`
speaks of a selection that is held under a view that polls. The steady group has
a process at every sample. `FocusServed` also assumes an interval longer than a
jiffy (`Elapsed = {TRUE}`), the default being two seconds. Nothing is assumed of
deaths, or of the order in which things arrive. `FleetDrill`: the loop turns and
daemons that run keep printing; `ListComesBack` and `EnteredHostShown` speak of
a view that stays and is not paused. `AlertMonitor`: time passes, and refresh
runs on its timer, which is so while the display is neither paused nor in Remote
(a pause stops the alerts: this is behaviour of the code, not an assumption
hidden in it). `Rows`: time passes and `/proc` can be read; `FadedRowsGo` speaks
of a display that is not paused for good. `RemoteLinks`: threads that attempt or
read run, a child prints what it has, the start-up waits for every attempt
(`join`), and the loop refreshes the list while it is neither paused nor in
Remote, and in Remote polls the entered host, paused or not; a child need not
die nor fail. `LossTold` says accordingly that a loss is noted in the list
unless it is paused or in Remote for good, and that a lost host is left.
`ClusterConsole`: the poller loops, refresh runs on its timer and Remote is
polled; `GroupingArrives` speaks of an API that answers and of a console that
shows its list and is not paused.

### Divergences between code and documentation

Three are shown by runs above and listed in `PROJECT.json`:

* in local mode Enter in the fleet face opens a thread view that nothing fills
  (`main.rs:2764`), where the manual (`ui.rs:2300`) promises the thread heat map
  of the selected group (`local_drill`);
* the dropout test compares shares by index (`main.rs:2873`: the same member "by
  stable index", so that members that are always idle beside busy ones raise
  nothing), in vectors that are unordered (`main.rs:594`); one listed in another
  order shows a dropout though no load has changed (`alerts_order`);
* an anomaly that comes and goes is alerted each time within the window
  (`main.rs:2898`; `README.md:265` and `main.rs:115`: once per 60 s per group).
  What does hold is that an ongoing one is not (`alerts_limit`, and
  `OngoingAlertsSpaced` in `rows_alerts`).

Others met on the way, which no run shows:

* after Esc from an entered host the cursor may leave the group it was pinned to
  (`main.rs:3394`; `main.rs:1853` says it follows it);
* d, f and m in the view of an entered host leave its rows on screen while the
  header names another (`main.rs:3716`; `main.rs:1102` describes the marker);
* members that never carried load "drop out" (`main.rs:2868` gives an
  idle group equal shares; the comment at `main.rs:2873` describes a member that
  was carrying load);
* p after g or a scrub pauses at an entry that is not the one on screen
  (`main.rs:4182`; `main.rs:4183` says the rows show the latest);
* Esc from a machine of a cluster asks for a refresh so that the list is up to
  date (`main.rs:3659`), which takes rows only from a packet that has come in
  (`main.rs:2532`);
* a counter that was not read by the previous sample, since another metric was
  shown, shows its lifetime at the first refresh (`local.rs:1062`; the comment at
  `local.rs:1001` calls the values rates between two snapshots);
* overlays are sampled while the display is paused (`main.rs:3453`,
  `main.rs:2154`);
* counters that cannot be read at one of two readings (`/proc/interrupts`,
  `/proc/stat`, PSI in the pressure loop) count as 0, and show their whole value
  at the next (`diag.rs:968`, `diag.rs:1200`);
* the difference of the energy counter is taken modulo 2^64, not modulo the range
  of the counter, so that it does not recover the difference across a wrap
  (`main.rs:2583`, `main.rs:3004`, `diag.rs:1186`);
* a period that is no whole number of bins may be reported as a multiple, when
  the series is sampled more coarsely than a bin; one at the shortest lag is
  passed over (`diag.rs:918`);
* the row of a fleet host whose child died before its first snapshot says
  "connecting…" for ever (`main.rs:2273`);
* `ThinProbe::close` has no caller;
* an attempt at a client of the REST API that fails ends the poller for good;
  two machines of one name share a row in the flat list;
* the exit of a member lowers the counter of its group, which may hide what the
  others did in that interval; a process that moves to a group brings the counter
  of its lifetime along (`local.rs:1046`);
* a failed read of `/proc/stat` loses the snapshot taken with it;
* the text of the status line may run over a marker and over the end of its row,
  the bookends of the content may be overwritten by it;
* when the rim is lit from its upper left corner into the bottom edge, the keys may
  be drawn over a marker further left (`ui.rs:312`; `ui.rs:683`: on the bottom edge
  the content has flowed out of the way);
* a host named twice in `--hosts` has two connections of one name, and the focus
  is routed to both (`main.rs:1888` promises at most one sampler);
* `send_focus` writes the label as it is and the daemon trims it
  (`remote.rs:147`), so a label with surrounding blanks is never matched;
* after Esc from a thread view of an entered host the host view shows the list
  of hosts until the next snapshot;
* d in the view of an entered host clears its marker and opens no scope, which
  leaves a Remote view that nothing polls;
* in Proxmox, Kubernetes and Nomad mode the face has one local place, whose
  tier is computed from the pressure of whichever remote was visited last, as
  the polls write the same fields;
* a pause stops `refresh` only; the polls of Remote go on replacing the rows
  (`README.md:112`: frozen display);
* Esc from a host view (`main.rs:3650`) and the scrub keys replace `entries`
  without `sync_body_tree`, which "must be called whenever `self.entries`
  changes" (`main.rs:2001`);
* the rows of a host hop when its view is left, since the poll of an entered
  host skips `stabilize_fleet_entries` (`main.rs:818`);
* `fleet_clients` is in the order of completion, not of `--hosts`
  (`main.rs:829`);
* `[r] refresh` is offered in Remote (`ui.rs:781`), where r is ignored;
* s in a host view sorts the list of hosts, not the rows shown.

## Proofs

Checked by TLAPS for every value of the constants the named assumptions allow:
any number of hosts, connections, machines, processes and groups, any bound.
The assumptions (`RowsAssumption`, `RemoteLinksAssumption` and so on, in the modules
that declare the constants) say of what kind a constant is, that a capacity or a
limit is positive, that `None` is no number or label, and of thresholds that they
are ordered. Two theorems assume more and say so.

Most of the properties are not inductive. What they rest on:

* `FocusStreamProofs`: `TypeCorrect`; `RatesWithinGroup`, from the invariant
  that a basis belongs to the daemon's previous label, which `Basis` drops as
  soon as the label changes; `RequestsDelivered`, from the invariant that the
  last element of the pipe, or the focus cell when the pipe is empty, is the
  viewer's last request, under the assumption that labels carry no surrounding
  blanks; `OneSampler`, which adds that a request that is not None was made to
  the host of the current target, under distinct host names. Both assumptions
  are necessary: with a blank at its end the daemon's label is not the one
  asked for, and two connections of one name both match the target.
* `FleetFaceProofs`: `DrillMarkersCleared` and `DrillStaysOnSpine`, from their
  conjunction: a marker is set only where the spine cannot move, and the spine
  moves only where no marker is set. `FaceTypes`: a host never lists a group
  twice, since what `Stabilize` returns is injective when its two inputs are.
  `FaceSettles` and `FaceHolds` (the selection follows its group) from `QuietInv`:
  right after a poll of the face the row under the cursor is the pinned one and
  the one asked for. `RowsNeverHop`, from what `Only` does to an order.
* `ScreenProofs`, drill-down: `DrillTypes`; `DrillShowsOwn`, that the rows on the screen
  are of the host and group the header names. It needs `EnteredInv`: while a host
  is entered its rows are the ones shown or lie beneath a thread view, and no other
  writer of `entries` is on.
* `MonitorProofs`, health: `TierTypes`; `OnlyReadingsMoveTiers`, from the invariant
  that every tier is a fixed point of the reading it came from (`TiersSettled`),
  which is needed because the tier is fed back; `HealthRefinesLatches`, that the
  code implements `HealthLatches`, from two lemmas: the worst signal is the
  maximum, and the three-valued tier is two latches when the thresholds are
  ordered (`Ordered`, which the constants of the code are).
* `MonitorProofs`, alerts: `AlertTypes`; `MarkedGroupsAlerted` and `AlertsSpaced`,
  from one invariant (`AgesTrue`): for a group that is marked, the age the code
  keeps is the time since the command last ran; one that is not marked has never
  been alerted or has been calm since.
* `MonitorProofs`, probes: `SeriesStayUniform`, with the invariant that a series
  ends with the last scan and has no gap (`Uniform`), which a ring that drops its
  oldest keeps. `WorstIsTagged`, from `LatencyInv`: what was pushed since the
  attributor looked is the end of the ring, and all before it is no newer than
  its mark (`Looked`), because a sleep begins after everything that was sampled
  (`Times`), so that no later sample can carry an earlier time.
* `RemoteLinksProofs`: `TypeCorrect`; `ThinIntervals`, from an invariant of every
  connection (`SlotInv`): numbered lines ascend from the child through the pipe,
  the reader and the channel to the display, of one kind, and each snapshot in
  the channel starts where the one before it ended. `TargetsKept`, from `ListInv`:
  a thread answers once and its slot then rests, so that no target is missing
  from the list, or twice in it, when the program starts. `LinksRefineLatest`:
  every step maps to a step of `LatestValue` or to none, the register of which
  is the newest snapshot in the channel, or the one on the display when it is
  empty.
* `ClusterConsoleProofs`: `ConsoleTypes`; `StalePacketsFew`, from a potential:
  the stale packets taken, the one in the channel and the one being fetched are
  two at most. `EnteredFromRow`, from the invariant that rows and metadata are of
  one packet (`RowsOfMeta`). `RowRatesAddUp`: a counter is worth at most what
  its machine did since the last poll that saw it, and all of that unless it was
  started again in between (`Counted`), and so is the sum over a row.
* `LocalProofs`, rows: `RowTypes`, `RowsAreTrue` and `PlacesAreKept`, from
  `RowsInv`: the rows on a live screen are the head of the running order, every
  place in it is of a group that was seen, and the ring stands still under the
  cursor. The heart of it is that a refresh leaves the survivors in their order
  and at no later a place (`Survivors`, `Reordered`), so that `--top` cuts off no
  row that was shown and is kept.
* `LocalProofs`, sampling: `RowsShowWork`, from the invariant that the snapshot is
  of the grouping in force, its files say what was done and no process that is
  still there has done less (`SamplingInv`). A row is a difference of two sums over
  different sets of processes: `WorkSince` compares it with the sum of the
  differences.
* `LocalProofs`, threads: `ThreadsShowOwnWork`, from the invariant that each of
  the three snapshots is of the group its view is of (`ThreadsInv`), but for a
  heat map entered from the fleet face, which shows nothing.
* `LocalProofs`, signals: `SignalsAreGrowth`, from the invariant that what was read
  and the growth since make the counter, unless it wrapped or the reading may
  stand for a file that could not be read (`SignalsInv`). That energy counters
  are among those that are None when unreadable (`SignalsAssumption`) is so in the
  code (`diag.rs:1186`), and is needed: one that counted as 0 would go through
  the difference modulo the word.
* `ScreenProofs`, rim: `KnotsStay`, that `KnotsHeld` holds of every frame. With the
  types of the knots it is inductive (`RimInv`). Its first part is the heart of it.
  A knot that matches a phase moves there, so that after a merge a stall's knot
  is no longer at the stall but at the end of a chain of matches; `Followed` is
  that chain, as the smallest set closed under matches with what was detected
  since, and a merge prolongs it by one (`MergeOne`, `MergeHolds`). A knot no
  older than what it stands for is not among those retention drops; the cut to
  `MaxHeld` knots ranks them by age and place (`PlacesByAge`), so that if it drops
  one all that are left are no older (`CutHolds`).
* `ScreenProofs`, border: `BorderStaysLegible`. Segments begin at a cell that is not lit
  (`DarkCell`), are runs that follow each other without touching (`RunEnds`,
  `RunsInOrder`), and hold every lit cell (`LitInSegments`). The cells of the
  bottom edge come in descending columns (`CellAt`), so that if the first cell is
  before that edge the markers are visited from the right (`BottomFromTheRight`);
  keys that were moved to the left of one are then left of all before it
  (`RightAlignedClear`). What `SkipReserved` returns is in no marker (`Skipped`), and
  the guards of `BottomBorder` keep its three parts in their order
  (`BottomLegible`). A marker is drawn only where no text was written
  (`WrittenAs`). Of status and readout the theorem says where they begin: a status
  text longer than its gap runs on over a marker's columns, and then the text is
  what is drawn there.
* `SharedLemmas`: every set of numbers has the minimum, and a finite or bounded
  one the maximum, that `Min` and `Max` name (`MinNat`, `MaxNat`). `Only`,
  defined by a recursive function, returns the elements of a set in their
  order, injectively, at places that grow (`OnlyPlaces`, `OnlyBefore`); sums
  over finite sets (`SumFunction`) split, compare and subtract as they should
  (`SumMonotone`, `SumDifference`, `SumPart`). The induction is over sets:
  every set of numbers has a least element, so one that holds 0 and the
  successor of every element holds all (`SetInduction`), and likewise for the
  subsets of a finite set (`SubsetInduction`).

Where a module of proofs states a type invariant of its own (`LinkTypes`,
`PveTypes`, `LatencyTypes`, `ProcTypes`), it is what the properties need: that
counters are numbers, not that they stay within the bounds of the models.

Model-checked only:

* liveness (`FocusServed`, `FocusReleased`, `ListComesBack`, `EnteredHostShown`,
  `LostHostLeft`, `Reminded`, `FadedRowsGo`, `LossTold`, `LetGoEnds`,
  `GroupingArrives`): nothing is proved of what holds under fairness or is enabled;
* `PeriodFound`, a statement about what an algorithm computes of all series of a
  kind, by sums and folds over the data.

Every other property of a passing run is proved.

## Plan

What could be proved next: that the counters of `RemoteLinks` and the lists of
addresses that `LinkTypes` leaves out stay typed, and what the sums of
`Periodicity` compute of the simplest series, a single stall per period.
Extensions of the model: the gauges of a row (moving averages and peaks), the
labels of pods and allocations (`derive_app_label`, `parse_kube_arg`), the layout
of the heat map and of shares.

## Not modelled

The panels and charts of `ui.rs`, the parsing of `/proc` and of the bytes of a
thin probe, the spectrum and the rank statistics of `diag.rs`, the REST client,
argument parsing, the examples and packaging: I/O, drawing and floating-point
arithmetic that the state above does not depend on. Of the modelled parts the
following is left out:

* views: metric and sort keys, quitting, the manual;
* rows: the metrics and system values of a snapshot, averages and peaks;
* connections: the time a blocking attempt takes, the words ssh makes of the
  command (`connect_thin` passes `sh -c` and its argument, which ssh joins);
* cluster: averages of cpu and memory, the states of nodes and storage; that
  `now` is taken before the call; work done before a restart between two polls;
* local sampling: parsing, GPU, system-wide values; rows of version 2 control
  groups, which always count as complete; rates within one jiffy, which are zero;
* probes: what passes between a push and the next start of the clock, which is
  not measured; the stop flag, which is set on drop and never waited for; the
  children map of the offender probe, which is never pruned;
* signals: best channel, phase, logs, run queue;
* rim: braille masks, colours, orbiters; border: the GPU selector and the padding
  of the legend.
